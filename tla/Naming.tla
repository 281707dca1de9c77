------------------------------- MODULE Naming -------------------------------
(***************************************************************************)
(* From a function's name in the client's help to the path of a request:   *)
(* `parse_function' and `derive_segments' (surface.rs) read a resource out *)
(* of the name, the generator makes it a route with named parameters, and  *)
(* `Route::bind' fills them in.                                            *)
(*                                                                         *)
(* A name is the sequence of its Pascal words, in lower case: how words    *)
(* are cased and joined (kebab, camelCase) is left out.  A value is a      *)
(* sequence of symbols too, any: the characters that would cut a path, and *)
(* the braces and words that would spell a placeholder, are what matters.  *)
(***************************************************************************)
EXTENDS Integers, FiniteSets, Sequences, SequencesExt

CONSTANTS
  Symbols,   \* strings: what words and values are made of
  Functions, \* [name, args, template]: a help entry, and the resource it stands for
  Values     \* what a parameter may be filled with

VARIABLES
  fn,       \* the function
  pc,
  parsed,   \* ParsedFunction
  at,       \* the next word of the rest
  run,      \* the words since the last parameter
  segments, \* the segments so far
  unbound,  \* the parameters still to be filled in
  given,    \* what the others were filled with
  path      \* the path: a sequence of segments, each a sequence of characters

reading == <<parsed, at, run, segments>>
binding == <<unbound, given, path>>
vars == <<fn, pc, reading, binding>>

Verbs == {"get", "post", "put", "delete", "head", "patch"}

\* Words that are V and digits, and those of them that fit a u32.
Fitting == {"v1", "v4"}
Versions == Fitting \cup {"v4294967296"}

Nothing == [verb |-> "", namespace |-> <<>>, version |-> "", rest |-> <<>>]

Literal(words) == [kind |-> "literal", words |-> words, arg |-> ""]
Param(arg) == [kind |-> "param", words |-> arg.words, arg |-> arg.name]
IsParam(s) == s.kind = "param"

SegmentType == [kind : {"literal", "param"}, words : Seq(Symbols), arg : Symbols]
ArgType == [name : Symbols, words : Seq(Symbols)]

ASSUME SymbolsAssumption ==
  Verbs \cup Fitting \cup {"", "by", "{", "}", "%", "2F", "3F", "23", "25", "20"} \subseteq Symbols

\* A template has the function's own parameters, and no empty literal.
IsTemplate(t, args) ==
  /\ t \in Seq(SegmentType)
  /\ \A i \in DOMAIN t :
       IF IsParam(t[i]) THEN \E k \in DOMAIN args : t[i] = Param(args[k])
       ELSE t[i] = Literal(t[i].words) /\ t[i].words # <<>>

\* The words of a name are letters and digits.
ASSUME FunctionsAssumption ==
  \A f \in Functions :
    /\ f \in [name : Seq(Symbols), args : Seq(ArgType), template : Seq(SegmentType)]
    /\ IsTemplate(f.template, f.args)
    /\ \A i \in DOMAIN f.name : f.name[i] \notin {"{", "}"}

ASSUME ValuesAssumption == Values \subseteq Seq(Symbols)

Init ==
  /\ fn \in Functions
  /\ pc = "parse" /\ parsed = Nothing
  /\ at = 1 /\ run = <<>> /\ segments = <<>>
  /\ unbound = <<>> /\ given = <<>> /\ path = <<>>

----------------------------------------------------------------------------
(***************************************************************************)
(* parse_function.                                                         *)
(***************************************************************************)

\* A verb is a verb only before another word, and that word is never the
\* version: a namespace has at least one.
VersionsAt(name) == {i \in DOMAIN name : i > 2 /\ name[i] \in Versions}

\* Up to the last version rather than the first.
NamespaceEndLast(name) == CHOOSE i \in VersionsAt(name) : \A j \in VersionsAt(name) : j <= i

NamespaceEnd(name) == CHOOSE i \in VersionsAt(name) : \A j \in VersionsAt(name) : i <= j

Parse ==
  LET name == fn.name IN
  /\ pc = "parse"
  /\ IF Len(name) > 1 /\ name[1] \in Verbs /\ VersionsAt(name) # {}
          /\ name[NamespaceEnd(name)] \in Fitting
       THEN LET v == NamespaceEnd(name) IN
            /\ pc' = "derive"
            /\ parsed' = [verb |-> name[1], namespace |-> SubSeq(name, 2, v - 1),
                          version |-> name[v], rest |-> SubSeq(name, v + 1, Len(name))]
       ELSE pc' = "none" /\ UNCHANGED parsed
  /\ UNCHANGED <<fn, at, run, segments, binding>>

(***************************************************************************)
(* derive_segments.                                                        *)
(***************************************************************************)

\* The arguments spelled out after the word at p of the rest, if it is By.
Spelled(p) ==
  {k \in DOMAIN fn.args :
     LET words == fn.args[k].words IN
     /\ parsed.rest[p] = "by" /\ p + Len(words) <= Len(parsed.rest)
     /\ SubSeq(parsed.rest, p + 1, p + Len(words)) = words}

\* The first argument that matches.
MatchedFirst(p) == CHOOSE k \in Spelled(p) : \A j \in Spelled(p) : k <= j

\* The longest of them, and the first of those.
Matched(p) ==
  CHOOSE k \in Spelled(p) : \A j \in Spelled(p) :
    \/ Len(fn.args[j].words) < Len(fn.args[k].words)
    \/ Len(fn.args[j].words) = Len(fn.args[k].words) /\ k <= j

Flushed == IF run = <<>> THEN segments ELSE Append(segments, Literal(run))

More == pc = "derive" /\ at <= Len(parsed.rest)

\* One word too many taken for the parameter.
TakeParamPast ==
  /\ More /\ Spelled(at) # {}
  /\ LET arg == fn.args[Matched(at)] IN
       /\ segments' = Append(Flushed, Param(arg))
       /\ at' = at + 2 + Len(arg.words)
  /\ run' = <<>>
  /\ UNCHANGED <<fn, pc, parsed, binding>>

TakeParam ==
  /\ More /\ Spelled(at) # {}
  /\ LET arg == fn.args[Matched(at)] IN
       /\ segments' = Append(Flushed, Param(arg))
       /\ at' = at + 1 + Len(arg.words)
  /\ run' = <<>>
  /\ UNCHANGED <<fn, pc, parsed, binding>>

TakeWord ==
  /\ More /\ Spelled(at) = {}
  /\ run' = Append(run, parsed.rest[at])
  /\ at' = at + 1
  /\ UNCHANGED <<fn, pc, parsed, segments, binding>>

(***************************************************************************)
(* The route: the resource with its placeholders (`resource', Route::path),*)
(* and the parameters the endpoint binds.                                  *)
(***************************************************************************)
\* The parameters among some segments, in their order.
Params(s) ==
  LET among[n \in 0..Len(s)] ==
        IF n = 0 THEN <<>>
        ELSE IF IsParam(s[n]) THEN Append(among[n - 1], s[n]) ELSE among[n - 1]
  IN among[Len(s)]

Placeholder(words) == <<"{">> \o words \o <<"}">>

Rendered(s) == IF IsParam(s) THEN Placeholder(s.words) ELSE s.words

Declare ==
  /\ pc = "derive" /\ at > Len(parsed.rest)
  /\ segments' = Flushed /\ run' = <<>>
  /\ path' = <<parsed.namespace, <<parsed.version>>>>
               \o [i \in DOMAIN segments' |-> Rendered(segments'[i])]
  /\ unbound' = Params(segments')
  /\ pc' = "bind"
  /\ UNCHANGED <<fn, parsed, at, given>>

(***************************************************************************)
(* Route::bind.                                                            *)
(***************************************************************************)
\* The escape character itself left alone.
EncodedBare(c) ==
  CASE c = "/" -> <<"%", "2F">> [] c = "?" -> <<"%", "3F">> [] c = "#" -> <<"%", "23">>
    [] c = " " -> <<"%", "20">> [] OTHER -> <<c>>

Encoded(c) ==
  CASE c = "/" -> <<"%", "2F">> [] c = "?" -> <<"%", "3F">> [] c = "#" -> <<"%", "23">>
    [] c = "%" -> <<"%", "25">> [] c = " " -> <<"%", "20">> [] OTHER -> <<c>>

EncodeSegment(value) == FlattenSeq([i \in DOMAIN value |-> Encoded(value[i])])

\* Where the text old begins in s.
Occurrences(old, s) ==
  {k \in 1..Len(s) - Len(old) + 1 : SubSeq(s, k, k + Len(old) - 1) = old}

\* str::replace, of a text that cannot overlap itself: a placeholder has one
\* opening brace, its first symbol.
Replaced(s, old, new) ==
  LET starts == Occurrences(old, s)
      Part(k) == IF k \in starts THEN new
                 ELSE IF \E j \in starts : k \in j..j + Len(old) - 1 THEN <<>>
                 ELSE <<s[k]>>
  IN FlattenSeq([k \in DOMAIN s |-> Part(k)])

\* A parameter's placeholder is replaced wherever it stands in the path, which
\* holds the values given before it.  None reaches over a separator.
BindNext ==
  /\ pc = "bind" /\ unbound # <<>>
  /\ \E value \in Values :
       /\ path' = [i \in DOMAIN path |->
                     Replaced(path[i], Placeholder(Head(unbound).words), EncodeSegment(value))]
       /\ given' = Append(given, value)
  /\ unbound' = Tail(unbound)
  /\ UNCHANGED <<fn, pc, reading>>

\* A debug build asserts that no brace opens in the path; a release build sends
\* it as it is.
Send ==
  /\ pc = "bind" /\ unbound = <<>>
  /\ \/ pc' = "sent"
     \/ (\E i \in DOMAIN path : "{" \in ToSet(path[i])) /\ pc' = "panicked"
  /\ UNCHANGED <<fn, reading, binding>>

Next == Parse \/ TakeParam \/ TakeWord \/ Declare \/ BindNext \/ Send

Spec == Init /\ [][Next]_vars

----------------------------------------------------------------------------
(***************************************************************************)
(* Properties.                                                             *)
(***************************************************************************)
ParsedType == [verb : Verbs \cup {""}, namespace : Seq(Symbols),
               version : Fitting \cup {""}, rest : Seq(Symbols)]

TypeOK ==
  /\ fn \in Functions
  /\ pc \in {"parse", "none", "derive", "bind", "sent", "panicked"}
  /\ parsed \in ParsedType
  /\ at \in 1..Len(parsed.rest) + 1
  /\ run \in Seq(Symbols) /\ segments \in Seq(SegmentType) /\ unbound \in Seq(SegmentType)
  /\ given \in Seq(Values) /\ path \in Seq(Seq(Symbols))

\* What a reading of a rest spells.
Spelling(s) == IF IsParam(s) THEN <<"by">> \o s.words ELSE s.words
Spell(readings) == FlattenSeq([i \in DOMAIN readings |-> Spelling(readings[i])])

(***************************************************************************)
(* Nothing of a name is lost, added or put elsewhere: verb, namespace,     *)
(* version, the segments so far and the words that wait are the name, up   *)
(* to the word being looked at.  So two functions of one verb with         *)
(* different names never derive to one path.  A name is refused only where *)
(* no verb, namespace and version can be read at all.                      *)
(***************************************************************************)
NameIsReadBack ==
  LET head == <<parsed.verb>> \o parsed.namespace \o <<parsed.version>>
      body == Spell(segments) \o run
  IN CASE pc = "parse" -> TRUE
       [] pc = "none" ->
            \A v \in DOMAIN fn.name :
              (v > 2 /\ fn.name[1] \in Verbs /\ fn.name[v] \in Versions) =>
                \E u \in 3..v : fn.name[u] \in Versions \ Fitting
       [] OTHER ->
            /\ head \o body = SubSeq(fn.name, 1, Len(head) + at - 1)
            /\ parsed.namespace # <<>> /\ ToSet(Tail(parsed.namespace)) \cap Versions = {}

\* Where segment i of a template begins in its spelling.
Start(t, i) == 1 + Len(Spell(SubSeq(t, 1, i - 1)))

\* What follows the first version of a name spells its template.
Stands(f) ==
  \E v \in DOMAIN f.name :
    /\ v > 2 /\ f.name[v] \in Fitting /\ \A u \in 3..v - 1 : f.name[u] \notin Versions
    /\ SubSeq(f.name, v + 1, Len(f.name)) = Spell(f.template)

(***************************************************************************)
(* Whether a name can only be read as the template it stands for: literals *)
(* are not adjacent, which is the documented ambiguity of the convention,  *)
(* and wherever an argument can be read, a parameter of the template       *)
(* covers it, and no longer argument can be read in its place.             *)
(***************************************************************************)
Derivable(f) ==
  LET t == f.template
      words == Spell(t)
      Reads(p, arg) == /\ words[p] = "by" /\ p + Len(arg.words) <= Len(words)
                       /\ SubSeq(words, p + 1, p + Len(arg.words)) = arg.words
  IN /\ Stands(f)
     /\ \A i \in DOMAIN t : i < Len(t) => IsParam(t[i]) \/ IsParam(t[i + 1])
     /\ \A p \in DOMAIN words : \A arg \in ToSet(f.args) : Reads(p, arg) =>
          \E i \in DOMAIN t : /\ IsParam(t[i]) /\ p \in Start(t, i)..Start(t, i + 1) - 1
                              /\ p = Start(t, i) =>
                                   \/ Len(arg.words) < Len(t[i].words)
                                   \/ arg.words = t[i].words /\ arg.name = t[i].arg

(***************************************************************************)
(* A name that can be read in one way only is read that way, whatever      *)
(* other arguments the function takes and in whatever order.               *)
(***************************************************************************)
TemplateIsFound == (pc \in {"bind", "sent"} /\ Derivable(fn)) => segments = fn.template

(***************************************************************************)
(* A request is where its endpoint's route points, with the values it was  *)
(* given: every literal is where the route has it, and a parameter's       *)
(* segment is the encoding of its own value and of no other, with nothing  *)
(* in it that cuts a path.                                                 *)
(***************************************************************************)
ParamsAt == {i \in DOMAIN segments : IsParam(segments[i])}
Nth(i) == 1 + Cardinality({j \in ParamsAt : j < i})

InPlace ==
  /\ Len(path) = Len(segments) + 2
  /\ \A i \in DOMAIN segments :
       IF IsParam(segments[i])
         THEN /\ {v \in Values : EncodeSegment(v) = path[i + 2]} = {given[Nth(i)]}
              /\ ToSet(path[i + 2]) \cap {"/", "?", "#", " "} = {}
         ELSE path[i + 2] = segments[i].words

\* A route names each parameter once.
BoundOnce == \A i, j \in ParamsAt : segments[i].words = segments[j].words => i = j

\* No value spells the placeholder of a parameter that is bound after it.
NoneSpellsALater ==
  \A i, j \in ParamsAt : Nth(j) < Nth(i) =>
    Occurrences(Placeholder(segments[i].words), EncodeSegment(given[Nth(j)])) = {}

(***************************************************************************)
(* What bind promises ("a `/' in an id would silently point the request    *)
(* somewhere else", route.rs:90) holds of any values, braces and all, as   *)
(* long as none spells the placeholder of a parameter that is still to     *)
(* come.  No caller is asked for that, and NoValueIsRewritten is what      *)
(* becomes of the promise without it.                                      *)
(***************************************************************************)
ValuesKeepTheirPlace == (pc = "sent" /\ BoundOnce /\ NoneSpellsALater) => InPlace

(***************************************************************************)
(* "Values are percent-encoded for the characters that would otherwise     *)
(* change which route is addressed" (route.rs:89): the code encodes no     *)
(* brace, and substitutes the next parameter inside the values it has put  *)
(* in (route.rs:98-99).  The path it ends with has no brace left for the   *)
(* assertion to find.                                                      *)
(***************************************************************************)
NoValueIsRewritten == (pc = "sent" /\ BoundOnce) => InPlace
=============================================================================
