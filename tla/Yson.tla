-------------------------------- MODULE Yson --------------------------------
(***************************************************************************)
(* The YSON codec, crates/ytsaurus-yson/src: the serializer (ser.rs), the  *)
(* deserializer and its accesses (de.rs, access.rs), values (node.rs,      *)
(* attributes.rs) and the scanner that finds where a record ends without   *)
(* decoding it (scan.rs).                                                  *)
(*                                                                         *)
(* Input and output are sequences of tokens; how tokens are spelt in text  *)
(* and in binary is left out.  A type says which visitor drives the        *)
(* deserializer: "any" is YsonValue, "skip" serde's IgnoredAny, which a    *)
(* derived visitor uses for a field it does not know.                      *)
(***************************************************************************)
EXTENDS Integers, Sequences, FiniteSets, SequencesExt

CONSTANTS
  YsonSources,   \* what programs write: a sequence of [type, values]
  YsonTexts,     \* what else may be read: sequences of tokens
  MaxDepth       \* MAX_DEPTH of the scanner, max_depth of the deserializer

ASSUME DepthAssumption == MaxDepth \in Nat

VARIABLES
  ysonSource,    \* which of the sources is read, 0 for none of them
  ysonInput,     \* as much of it as arrives
  ysonAt,        \* tokens consumed
  ysonFirst,     \* StreamDeserializer::first
  ysonItems,     \* what next_item has returned
  ysonStop       \* why it returns no more: "none" is the end of the stream

ysonVars == <<ysonSource, ysonInput, ysonAt, ysonFirst, ysonItems, ysonStop>>

Numerals == {"1", "2"}
\* A name and the key by which the flat form of a value shows the attribute.
FlatName == [a |-> "@a", b |-> "@b"]
Strings  == {"a", "b", "@a", "@b", "$value"}
NameOf(key) == CHOOSE name \in DOMAIN FlatName : FlatName[name] = key

\* Types: a constructor and its arguments.
Type(of, args) == [of |-> of, args |-> args]
AnyType  == Type("any", <<>>)
NodeType == Type("node", <<>>)   \* a YsonValue without its attributes
SkipType == Type("skip", <<>>)
KeyType  == Type("key", <<>>)    \* MapKey
IntType  == Type("int", <<>>)
StrType  == Type("str", <<>>)

\* YsonValue with its YsonNode.
NoEntries == [k \in {} |-> k]
YsonNode(kind, word, items, entries) ==
  [kind |-> kind, word |-> word, items |-> items, entries |-> entries, attributes |-> NoEntries]
Entity     == YsonNode("entity", "#", <<>>, NoEntries)
Scalar(w)  == YsonNode("scalar", w, <<>>, NoEntries)
ListOf(s)  == YsonNode("list", "", s, NoEntries)
MapOf(f)   == YsonNode("map", "", <<>>, f)
With(f, v) == [v EXCEPT !.attributes = f]

-----------------------------------------------------------------------------
(***************************************************************************)
(* The serializer.  `flag` is is_writing_attributes: the next map is the   *)
(* attributes of the value that follows it.  Serialized gives what is      *)
(* written and the flag that is left.  Attributes are a map or a struct    *)
(* throughout.                                                             *)
(***************************************************************************)
RECURSIVE Serialized(_, _, _)

Wrote(out, flag) == [out |-> out, flag |-> flag]
Joined(parts) ==
  FoldLeft(LAMBDA all, p : IF all = <<>> THEN p ELSE all \o <<";">> \o p, <<>>, parts)

\* Compound as a list, and as a map or, for attributes, between angles.
SerializedSeq(types, values) ==
  <<"[">> \o Joined([i \in DOMAIN values |-> Serialized(types[i], values[i], FALSE).out]) \o <<"]">>
SerializedMap(type, f, flag) ==
  LET keys  == SetToSeq(DOMAIN f)
      pairs == [i \in DOMAIN keys |-> <<keys[i], "=">> \o Serialized(type, f[keys[i]], FALSE).out]
  IN  IF flag THEN <<"<">> \o Joined(pairs) \o <<">">> ELSE <<"{">> \o Joined(pairs) \o <<"}">>

\* The struct $__yson_attributes: attributes, then the value they belong to.
SerializedWrapper(types, attributes, value) ==
  LET a == Serialized(types[1], attributes, TRUE)
      v == Serialized(types[2], value, a.flag)
  IN  Wrote(a.out \o v.out, v.flag)

\* A struct: its @-fields, then its $value, its other fields or an entity.
SerializedStruct(shape, v) ==
  (IF shape.attributes = {} THEN <<>> ELSE SerializedMap(IntType, v.attributes, TRUE))
    \o CASE shape.body = "value"  -> Serialized(shape.value, v.value, FALSE).out
         [] shape.body = "fields" -> SerializedMap(IntType, v.value, FALSE)
         [] shape.body = "none"   -> IF shape.attributes = {} THEN <<"{", "}">> ELSE <<"#">>

\* A variant without a value is its name; with one, a map of one entry.
SerializedVariant(types, v) ==
  IF v.value = <<>> THEN <<v.variant>>
  ELSE <<"{", v.variant, "=">> \o Serialized(types[v.variant], v.value[1], FALSE).out \o <<"}">>

SerializedNode(v, flag) ==
  CASE v.kind = "list" -> Wrote(SerializedSeq([i \in DOMAIN v.items |-> AnyType], v.items), flag)
    [] v.kind = "map"  -> Wrote(SerializedMap(AnyType, v.entries, flag), FALSE)
    [] OTHER           -> Wrote(<<v.word>>, flag)

Serialized(type, v, flag) ==
  LET of == type.of
      args == type.args
  IN  CASE of = "node" \/ (of = "any" /\ DOMAIN v.attributes = {}) -> SerializedNode(v, flag)
        [] of = "any"     -> SerializedWrapper(<<Type("map", <<AnyType>>), NodeType>>, v.attributes, v)
        [] of \in {"int", "str"} -> Wrote(<<v>>, flag)
        [] of = "vec"     -> Wrote(SerializedSeq([i \in DOMAIN v |-> args[1]], v), flag)
        [] of = "tuple"   -> Wrote(SerializedSeq(args, v), flag)
        [] of = "map"     -> Wrote(SerializedMap(args[1], v, flag), FALSE)
        [] of = "option"  -> IF v = <<>> THEN Wrote(<<"#">>, flag) ELSE Serialized(args[1], v[1], flag)
        [] of = "wrapper" -> SerializedWrapper(args, v.attributes, v.value)
        [] of = "struct"  -> IF flag THEN Wrote(SerializedMap(IntType, v.value, TRUE), FALSE)
                             ELSE Wrote(SerializedStruct(args, v), FALSE)
        [] of = "enum"    -> Wrote(SerializedVariant(args, v), flag)

-----------------------------------------------------------------------------
(***************************************************************************)
(* The lexer and the deserializer: the position, the depth, the flags      *)
(* is_reading_attributes and container_ended, and why it failed.           *)
(***************************************************************************)
Reading(at) == [at |-> at, depth |-> 0, attributes |-> FALSE, ended |-> FALSE, stop |-> "no"]
Going(d)     == d.stop = "no"
Fails(d, why) == IF Going(d) THEN [d EXCEPT !.stop = why] ELSE d

\* peek_byte and next_token.
Peek(d) == IF d.at < Len(ysonInput) THEN ysonInput[d.at + 1] ELSE "eof"
Token(d) ==
  IF ~Going(d) THEN d
  ELSE IF Peek(d) = "eof" THEN Fails(d, "eof") ELSE [d EXCEPT !.at = @ + 1]
Expect(d, token) ==
  LET n == Token(d) IN IF Going(n) /\ ysonInput[n.at] # token THEN Fails(n, "syntax") ELSE n

\* enter_recursion and leave_recursion.
Enter(d) == IF d.depth = MaxDepth THEN Fails(d, "deep") ELSE [d EXCEPT !.depth = @ + 1]
Leave(d) == [d EXCEPT !.depth = @ - 1]

\* skip_attributes: to the angle that closes, whatever lies between.
SkipAttributes(d) ==
  LET Opened(n) == Cardinality({i \in d.at + 1..n : ysonInput[i] = "<"})
                   - Cardinality({i \in d.at + 1..n : ysonInput[i] = ">"})
      closing == {n \in d.at + 1..Len(ysonInput) : Opened(n) = 0}
      last == IF closing = {} THEN Len(ysonInput)
              ELSE CHOOSE n \in closing : \A o \in closing : n <= o
  IN  CASE ~Going(d) -> d
        [] Peek(d) = "eof" -> Fails(d, "eof")
        [] Peek(d) # "<" -> d
        [] d.depth = MaxDepth \/ \E n \in d.at + 1..last : Opened(n) > MaxDepth -> Fails(d, "deep")
        [] closing = {} -> Fails(d, "eof")
        [] OTHER -> [d EXCEPT !.at = last]

\* What a decoding gives, and what an access hands out: an element or a key, or
\* that there is no more.  `state` and `only` are those of FlatStructAccess.
Decoded(d, value) == [d |-> d, value |-> value]
Handed(v, state, only) ==
  [d |-> v.d, value |-> v.value, more |-> Going(v.d), state |-> state, only |-> only]
NoMore(d) == [d |-> d, value |-> <<>>, more |-> FALSE, state |-> "done", only |-> FALSE]

RECURSIVE Deserialize(_, _), Elements(_, _, _), FlatKey(_, _, _), Entries(_, _, _, _, _)

\* CommaSeparated: the next element, or key, unless the container ends here.
NextItem(type, d, end) ==
  LET n == IF Peek(d) = ";" THEN Token(d) ELSE d
  IN  IF ~Going(d) THEN NoMore(d)
      ELSE IF Peek(n) = "eof" THEN NoMore(Fails(n, "eof"))
      ELSE IF Peek(n) = end THEN NoMore(Token(n))
      ELSE Handed(Deserialize(type, n), end, FALSE)
\* Its Drop reports whether it has read the end.
AccessDropped(d, ended) == [Leave(d) EXCEPT !.ended = ended]

\* Mutant: nobody closes a container whose visitor stopped before its end.
EndContainerNever(d, end) == d
\* end_container: whoever opened it closes it, if the visitor has not.
EndContainer(d, end) ==
  IF d.ended \/ ~Going(d) THEN d
  ELSE Expect(IF Peek(d) = ";" THEN Token(d) ELSE d, end)

\* A visitor of a list: one that asks until there are no more, and one of a
\* fixed length, which does not ask for the end.
Further(type, e, got) ==
  IF e.more THEN Elements(type, e.d, Append(got, e.value)) ELSE Decoded(e.d, got)
Elements(type, d, got) == Further(type, NextItem(type, d, "]"), got)
Nth(e, got) ==
  IF e.more THEN Decoded(e.d, Append(got, e.value)) ELSE Decoded(Fails(e.d, "type"), got)
Fixed(types, d) ==
  FoldLeft(LAMBDA g, type : Nth(NextItem(type, g.d, "]"), g.value), Decoded(d, <<>>), types)

ListVisited(type, d, got) ==
  CASE type.of = "any"  -> Decoded(d, ListOf(got))
    [] type.of = "skip" -> Decoded(d, <<>>)
    [] OTHER -> Decoded(d, got)
ListEnds(type, g) ==
  ListVisited(type, EndContainer(AccessDropped(g.d, type.of # "tuple"), "]"), g.value)
List(type, d) ==
  IF type.of \notin {"any", "skip", "vec", "tuple"} THEN Decoded(Fails(d, "type"), <<>>)
  ELSE ListEnds(type, IF type.of = "tuple" THEN Fixed(type.args, Enter(d))
                      ELSE Elements(IF type.of = "vec" THEN type.args[1] ELSE type, Enter(d), <<>>))

\* FlatStructAccess: attributes and body as one map, attributes by their flat
\* names, and a body that is not a map as the entry $value.
FlatKey(type, state, d) ==
  LET n == Token(d)
  IN  CASE ~Going(d) \/ state = "done" -> NoMore(d)
        [] state = "valueOnly" -> Handed(Decoded(d, "$value"), "done", TRUE)
        [] Peek(d) = "eof" -> NoMore(Fails(d, "eof"))
        [] state \in {"attributes", "body"} /\ Peek(d) = ";" -> FlatKey(type, state, n)
        [] state = "attributes" /\ Peek(d) = ">" -> FlatKey(type, "between", n)
        [] state = "attributes" -> IF Peek(d) \in DOMAIN FlatName
                                   THEN Handed(Decoded(n, FlatName[Peek(d)]), state, FALSE)
                                   ELSE NoMore(Fails(n, "syntax"))
        [] state = "between" /\ Peek(d) = "{" -> FlatKey(type, "body", n)
        [] state = "between" /\ Peek(d) = "#" -> NoMore(n)
        [] state = "between" -> FlatKey(type, "valueOnly", d)
        [] state = "body" /\ Peek(d) = "}" -> NoMore(n)
        [] state = "body" -> Handed(Deserialize(type, d), state, FALSE)

\* A visitor of a map, by what it reads keys and values as.
KeyTypeOf(type) == CASE type.of = "any" -> KeyType [] type.of = "skip" -> SkipType [] OTHER -> StrType
FieldType(type, key) ==
  CASE type.of \in {"any", "skip"} -> type
    [] type.of = "map" -> type.args[1]
    [] OTHER -> LET shape == type.args
                IN  CASE \E a \in shape.attributes : key = FlatName[a] -> IntType
                      [] shape.body = "value" /\ key = "$value" -> shape.value
                      [] shape.body = "fields" /\ key \in shape.fields -> IntType
                      [] OTHER -> SkipType
NextEntry(type, flat, k, v, got) ==
  IF Going(v.d) THEN Entries(type, flat, k.state, v.d, Append(got, <<k.value, v.value>>))
  ELSE Decoded(v.d, got)
EntryOf(type, flat, k, got) ==
  IF ~k.more THEN Decoded(k.d, got)
  ELSE NextEntry(type, flat, k,
         Deserialize(FieldType(type, k.value), IF k.only THEN k.d ELSE Expect(k.d, "=")), got)
Entries(type, flat, state, d, got) ==
  EntryOf(type, flat,
    IF flat THEN FlatKey(KeyTypeOf(type), state, d) ELSE NextItem(KeyTypeOf(type), d, state), got)

\* The last value of each key.
Collected(pairs, keys) ==
  [k \in {pairs[i][1] : i \in DOMAIN pairs} \cap keys |->
     pairs[SelectLastInSeq(pairs, LAMBDA p : p[1] = k)][2]]
\* visit_map of YsonValue: in the flat form @-keys are attributes and the body is
\* $value or the keys that remain, but not both.
AnyMap(d, pairs) ==
  LET all    == Collected(pairs, Strings)
      named  == {k \in DOMAIN all : \E a \in DOMAIN FlatName : FlatName[a] = k}
      plain  == DOMAIN all \ (named \cup {"$value"})
      inner  == IF "$value" \in DOMAIN all THEN all["$value"].attributes ELSE NoEntries
      attrs  == {NameOf(k) : k \in named} \cup DOMAIN inner
      body   == IF "$value" \in DOMAIN all THEN all["$value"]
                ELSE IF plain = {} /\ named # {} THEN Entity
                ELSE MapOf([k \in plain |-> all[k]])
  IN  IF "$value" \in DOMAIN all /\ plain # {} THEN Decoded(Fails(d, "bodies"), Entity)
      ELSE Decoded(d, With([a \in attrs |-> IF a \in DOMAIN inner THEN inner[a] ELSE all[FlatName[a]]],
                           body))
\* A derived visitor: every field is there; an optional $value may be missing.
StructMap(shape, d, pairs) ==
  LET all  == Collected(pairs, Strings)
      need == {FlatName[a] : a \in shape.attributes}
                \cup (IF shape.body = "fields" THEN shape.fields
                      ELSE IF shape.body = "value" /\ shape.value.of # "option" THEN {"$value"} ELSE {})
      body == CASE shape.body = "fields" -> [k \in shape.fields |-> all[k]]
                [] shape.body = "value" /\ "$value" \in DOMAIN all -> all["$value"]
                [] OTHER -> <<>>
  IN  IF ~(need \subseteq DOMAIN all) THEN Decoded(Fails(d, "type"), <<>>)
      ELSE Decoded(d, [attributes |-> [a \in shape.attributes |-> all[FlatName[a]]], value |-> body])
MapVisited(type, d, pairs) ==
  CASE ~Going(d) \/ type.of = "skip" -> Decoded(d, <<>>)
    [] type.of = "any"    -> AnyMap(d, pairs)
    [] type.of = "map"    -> Decoded(d, Collected(pairs, Strings))
    [] type.of = "struct" -> StructMap(type.args, d, pairs)
    [] OTHER -> Decoded(Fails(d, "type"), <<>>)

TakesMap(type) == type.of \in {"any", "skip", "map", "struct"}
MapEnds(type, g, end) == MapVisited(type, EndContainer(AccessDropped(g.d, TRUE), end), g.value)
Map(type, d, end) ==
  IF TakesMap(type) THEN MapEnds(type, Entries(type, FALSE, end, Enter(d), <<>>), end)
  ELSE Decoded(Fails(d, "type"), <<>>)
FlatEnds(type, g) == MapVisited(type, Leave(g.d), g.value)
Flat(type, d) ==
  LET state == CASE Peek(d) = "<" -> "attributes" [] Peek(d) = "{" -> "body"
                 [] Peek(d) = "#" -> "done" [] OTHER -> "valueOnly"
  IN  IF ~TakesMap(type) THEN Decoded(Fails(d, "type"), <<>>)
      ELSE IF Peek(d) = "eof" THEN Decoded(Fails(d, "eof"), <<>>)
      ELSE FlatEnds(type, Entries(type, TRUE, state,
                                  IF state = "valueOnly" THEN Enter(d) ELSE Token(Enter(d)), <<>>))

\* A scalar or an entity.
ScalarVisited(type, d, w) ==
  CASE type.of = "skip" -> Decoded(d, <<>>)
    [] type.of = "any"  -> Decoded(d, IF w = "#" THEN Entity ELSE Scalar(w))
    [] type.of = "int" /\ w \in Numerals -> Decoded(d, w)
    [] type.of \in {"str", "key"} /\ w \in Strings -> Decoded(d, w)
    [] OTHER -> Decoded(Fails(d, "type"), <<>>)

\* deserialize_any.
DecodeAny(type, d0) ==
  LET d == [d0 EXCEPT !.attributes = FALSE]
      n == Token(d)
      w == Peek(d)
  IN  CASE ~Going(d) -> Decoded(d, <<>>)
        [] w = "eof" -> Decoded(Fails(d, "eof"), <<>>)
        [] d0.attributes -> IF w = "<" THEN Map(type, n, ">") ELSE MapVisited(type, d, <<>>)
        [] w = "<" -> Flat(type, d)
        [] w = "[" -> List(type, n)
        [] w = "{" -> Map(type, n, "}")
        [] w \in {"#"} \cup Numerals \cup Strings -> ScalarVisited(type, n, w)
        [] OTHER -> Decoded(Fails(n, "syntax"), <<>>)

\* deserialize_option.
Some(v) == Decoded([v.d EXCEPT !.attributes = FALSE], <<v.value>>)
DecodeOption(type, d0) ==
  LET some == IF d0.attributes THEN d0 ELSE SkipAttributes(d0)
      none == [some EXCEPT !.attributes = FALSE]
  IN  CASE ~Going(some) -> Decoded(some, <<>>)
        [] Peek(some) = "eof" -> Decoded(Fails(some, "eof"), <<>>)
        [] d0.attributes /\ Peek(some) # "<" -> Decoded(none, <<>>)
        [] ~d0.attributes /\ Peek(some) = "#" -> Decoded(Token(none), <<>>)
        [] OTHER -> Some(Deserialize(type, some))

\* AttributesWrapperAccess: the same deserializer twice, once for attributes.
Wrapped(a, v) == Decoded(Leave(v.d), [attributes |-> a.value, value |-> v.value])
WrappedValue(type, a) == Wrapped(a, Deserialize(type, [a.d EXCEPT !.attributes = FALSE]))
DecodeWrapper(types, d) ==
  WrappedValue(types[2], Deserialize(types[1], [Enter(d) EXCEPT !.attributes = TRUE]))

\* deserialize_enum and EnumAccess: inside a map what is left up to its end, or
\* to a separator, is passed over.
VariantEnds(name, d, value, wrapped) ==
  LET rest == {n \in d.at..Len(ysonInput) : Peek([d EXCEPT !.at = n]) \in {";", "}", "eof"}}
      last == [d EXCEPT !.at = CHOOSE n \in rest : \A o \in rest : n <= o]
  IN  Decoded(IF wrapped /\ Going(d) THEN Expect(IF Peek(last) = ";" THEN Token(last) ELSE last, "}")
              ELSE d,
              [variant |-> name, value |-> value])
VariantValue(name, v, wrapped) == VariantEnds(name, v.d, <<v.value>>, wrapped)
Variant(types, name, wrapped) ==
  CASE ~Going(name.d) -> name
    [] name.value \notin DOMAIN types -> Decoded(Fails(name.d, "type"), <<>>)
    [] types[name.value].of = "unit" ->
         VariantEnds(name.value, IF wrapped THEN Expect(Expect(name.d, "="), "#") ELSE name.d,
                     <<>>, wrapped)
    [] OTHER ->
         VariantValue(name.value, Deserialize(types[name.value], Expect(name.d, "=")), wrapped)
DecodeEnum(types, d) ==
  LET wrapped == Peek(d) = "{"
  IN  Variant(types, Deserialize(StrType, IF wrapped THEN Token(d) ELSE d), wrapped)

Deserialize(type, d) ==
  CASE ~Going(d) -> Decoded(d, <<>>)
    [] type.of \in {"any", "key"} -> DecodeAny(type, d)
    [] type.of = "option"  -> DecodeOption(type.args[1], d)
    [] type.of = "wrapper" -> DecodeWrapper(type.args, d)
    [] type.of = "enum"    -> DecodeEnum(type.args, IF d.attributes THEN d ELSE SkipAttributes(d))
    [] type.of = "struct" /\ type.args.attributes # {} -> Flat(type, d)
    [] OTHER -> DecodeAny(type, IF d.attributes THEN d ELSE SkipAttributes(d))

-----------------------------------------------------------------------------
(***************************************************************************)
(* scan_value.                                                             *)
(***************************************************************************)
RECURSIVE ScanTree(_, _), ScanList(_, _), ScanFragment(_, _, _)

ScanObject(d, depth) ==
  CASE ~Going(d) -> d
    [] ysonInput[d.at] \in {"#"} \cup Numerals \cup Strings -> d
    [] ysonInput[d.at] = "[" -> ScanList(d, depth + 1)
    [] ysonInput[d.at] = "{" -> ScanFragment(d, depth + 1, "}")
    [] OTHER -> Fails(d, "syntax")
ScanTree(d, depth) ==
  LET n == Token(d)
  IN  IF depth > MaxDepth THEN Fails(d, "deep")
      ELSE IF Going(n) /\ ysonInput[n.at] = "<"
           THEN ScanObject(Token(ScanFragment(n, depth + 1, ">")), depth)
      ELSE ScanObject(n, depth)
ScanList(d, depth) ==
  CASE ~Going(d) -> d
    [] depth > MaxDepth -> Fails(d, "deep")
    [] Peek(d) = "eof" -> Fails(d, "eof")
    [] Peek(d) = "]" -> Token(d)
    [] Peek(d) = ";" -> ScanList(Token(d), depth)
    [] OTHER -> ScanList(ScanTree(d, depth), depth)
ScanFragment(d, depth, end) ==
  LET k == Token(d)
  IN  CASE ~Going(d) -> d
        [] depth > MaxDepth -> Fails(d, "deep")
        [] Peek(d) = "eof" -> Fails(d, "eof")
        [] Peek(d) = end -> Token(d)
        [] Peek(d) = ";" -> ScanFragment(Token(d), depth, end)
        [] Peek(d) \notin Strings -> Fails(k, "syntax")
        [] OTHER -> ScanFragment(ScanTree(Expect(k, "="), depth), depth, end)
ScanValue(at) == ScanTree(Reading(at), 0)

-----------------------------------------------------------------------------
(***************************************************************************)
(* StreamDeserializer over values that a program has written one after the *)
(* other, with a separator after the last one or without, cut anywhere; or *)
(* over any tokens.                                                        *)
(***************************************************************************)
WrittenStream(source, n) ==
  Joined([i \in 1..n |-> Serialized(source.type, source.values[i], FALSE).out])
SourceType == IF ysonSource = 0 THEN AnyType ELSE YsonSources[ysonSource].type

YsonInit ==
  /\ \/ /\ ysonSource \in DOMAIN YsonSources
        /\ LET all == WrittenStream(YsonSources[ysonSource], Len(YsonSources[ysonSource].values)) \o <<";">>
           IN  \E n \in 0..Len(all) : ysonInput = SubSeq(all, 1, n)
     \/ ysonSource = 0 /\ ysonInput \in YsonTexts
  /\ ysonAt = 0 /\ ysonFirst = TRUE /\ ysonItems = <<>> /\ ysonStop = "no"

\* Where next_item begins to decode, past the separator.
Begin ==
  LET d == Reading(ysonAt) IN IF ~ysonFirst /\ Peek(d) = ";" THEN Token(d) ELSE d

ItemRead ==
  IF Peek(Begin) = "eof" THEN Decoded(Fails(Begin, "none"), <<>>)
  ELSE Deserialize(SourceType, Begin)

\* next_item: what it returns, an item or the reason why there is none.
NextYsonItem(v) ==
  /\ Going(v.d)
  /\ ysonAt' = v.d.at /\ ysonItems' = Append(ysonItems, v.value) /\ ysonFirst' = FALSE
  /\ UNCHANGED <<ysonSource, ysonInput, ysonStop>>
NextYsonStops(v) ==
  /\ ~Going(v.d)
  /\ ysonAt' = v.d.at /\ ysonStop' = v.d.stop /\ ysonFirst' = (ysonFirst /\ ysonAt = Len(ysonInput))
  /\ UNCHANGED <<ysonSource, ysonInput, ysonItems>>

YsonNext == ysonStop = "no" /\ \E v \in {ItemRead} : NextYsonItem(v) \/ NextYsonStops(v)

YsonSpec == YsonInit /\ [][YsonNext]_ysonVars

-----------------------------------------------------------------------------
\* A value comes back as it was written: Serialize for YsonValue "round-trips
\* through to_vec/from_slice" (node.rs:154).
ValuesRoundTrip ==
  ysonSource # 0 => ysonItems = SubSeq(YsonSources[ysonSource].values, 1, Len(ysonItems))

\* What was written is read: the values in order and nothing else, an end only
\* between two of them, and inside one an unexpected end of the input.
WrittenIsRead ==
  ysonSource # 0 =>
    LET source == YsonSources[ysonSource]
        n == Len(ysonItems)
        length == Len(ysonInput)
        Whole(k) == Len(WrittenStream(source, k))
    IN  /\ ysonStop \in {"no", "none", "eof"}
        /\ ysonStop = "none" => length \in {Whole(n), Whole(n) + 1}
        /\ ysonStop = "eof" => n < Len(source.values) /\ length < Whole(n + 1)

\* A record that the scanner accepts and the deserializer may refuse.
Unlike(record) ==
  "<" \in ToSet(record) \/ \E i \in 1..Len(record) - 1 : record[i] = ";" /\ record[i + 1] = ";"

\* The scanner ends a record where the deserializer does, whatever the type asks
\* for and whether the value is kept or passed over; it waits for more of a record
\* only when that cannot be decoded yet.  What it accepts "can also be decoded"
\* (scan.rs:18), but for two separators in a row and for attributes, which the
\* deserializer counts as a level of their own.
ScanAgrees ==
  ysonStop = "no" /\ Peek(Begin) # "eof" =>
    \A s \in {ScanValue(Begin.at)}, t \in {SourceType, SkipType} :
      \A d \in {Deserialize(t, Begin).d} :
        /\ Going(s) => \/ Going(d) /\ d.at = s.at
                       \/ ~Going(d) /\ Unlike(SubSeq(ysonInput, Begin.at + 1, s.at))
        /\ s.stop = "eof" => ~Going(d)

\* All three of a reader of YSON (de.rs, scan.rs): values come back as they were
\* written, whatever was written is read until the input ends, and the scanner and
\* the deserializer agree on where a record ends.
YsonIsRead == ValuesRoundTrip /\ WrittenIsRead /\ ScanAgrees
=============================================================================
