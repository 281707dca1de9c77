--------------------------- MODULE ModelResolver ---------------------------
(***************************************************************************)
(* ModelResolver of xtask's code generator: the walk over the types of a   *)
(* schema, a graph that may have cycles, that emits each struct an         *)
(* endpoint can return, and the names it is given on the way.              *)
(*                                                                         *)
(* A name is the sequence of its words.  A TypeRef is [wrap, of]: "unit"   *)
(* is no type, "bare" a type by itself, "vector" and "map" a container of  *)
(* it; `of' is the name of a described struct, or Plain for what is        *)
(* written without one, a primitive or an enum.                            *)
(***************************************************************************)
EXTENDS Integers, Sequences, SequencesExt

Plain == <<>>

VARIABLES
  input,    \* what the generator is given
  emitted,  \* flat types, in the order of their discovery
  stack,    \* the calls of emit_struct under way, the innermost last
  shorts    \* emitted_names: short name -> flat name

types == input.types        \* Schema.types: name -> sequence of fields
renames == input.typeOverrides

Names == Seq(STRING)

Wraps == {"unit", "bare", "vector", "map"}

TypeRef == {ref \in [wrap : Wraps, of : Names] : ref.wrap = "unit" => ref.of = Plain}

FlatType == [name : Names, of : Names, filled : BOOLEAN, fields : Seq(TypeRef)]

FrameType == [slot : Nat, todo : Seq(TypeRef), done : Seq(TypeRef)]

FieldType == [name : STRING, type : TypeRef]

\* An override of a type: the name it goes by, and the fields it keeps.
OverrideType == [rename : Names, fields : Seq(STRING)]

----------------------------------------------------------------------------
RustName(T) == IF T \in DOMAIN renames THEN renames[T].rename ELSE T

FieldOf(T, f) == types[T][CHOOSE i \in DOMAIN types[T] : types[T][i].name = f]

HasField(T, f) == \E i \in DOMAIN types[T] : types[T][i].name = f

\* An override lists the fields it keeps; without one every field is kept.
KeepsKnown(T) ==
  T \in DOMAIN renames => \A i \in DOMAIN renames[T].fields : HasField(T, renames[T].fields[i])

KeptFields(T) ==
  IF T \in DOMAIN renames
    THEN [i \in DOMAIN renames[T].fields |-> FieldOf(T, renames[T].fields[i]).type]
    ELSE [i \in DOMAIN types[T] |-> types[T][i].type]

IsStruct(ref) == ref.wrap # "unit" /\ ref.of # Plain

\* A struct that is not yet written out is not there.
IsEmittedWhole(name) == \E i \in DOMAIN emitted : emitted[i].name = name /\ emitted[i].filled

\* A struct under emission has its slot already.
IsEmitted(name) == \E i \in DOMAIN emitted : emitted[i].name = name

\* Reserve the slot, then see to the fields.
EmitStruct(T, calls) ==
  IF IsEmitted(RustName(T)) THEN emitted' = emitted /\ stack' = calls
  ELSE /\ emitted' = Append(emitted, [name |-> RustName(T), of |-> T, filled |-> FALSE,
                                      fields |-> <<>>])
       /\ stack' = Append(calls, [slot |-> Len(emitted) + 1, todo |-> KeptFields(T),
                                  done |-> <<>>])

\* The slot is filled once every field has its type.
FillSlot ==
  LET top == Last(stack) IN
    /\ top.todo = <<>>
    /\ emitted' = [emitted EXCEPT ![top.slot].filled = TRUE, ![top.slot].fields = top.done]
    /\ stack' = Front(stack)

\* map_field_type: a map, no type at all, or one the snapshot does not describe,
\* the empty type of a vector's elements among them, is an error.
FieldFails ==
  LET top == Last(stack) IN
    /\ top.todo # <<>>
    /\ LET ref == Head(top.todo) IN
         \/ ref.wrap \in {"map", "unit"}
         \/ IsStruct(ref) /\ ref.of \notin DOMAIN types
         \/ IsStruct(ref) /\ ~KeepsKnown(ref.of) /\ ~IsEmitted(RustName(ref.of))

Holds(ref) == IsStruct(ref)

MapField(top, ref) ==
  LET named == IF IsStruct(ref) THEN [ref EXCEPT !.of = RustName(@)] ELSE ref
      calls == Append(Front(stack), [top EXCEPT !.todo = Tail(@), !.done = Append(@, named)])
  IN IF Holds(ref) THEN EmitStruct(ref.of, calls) ELSE emitted' = emitted /\ stack' = calls

\* A field whose struct is not written out yet, put off behind the others.
NextFieldPutOff ==
  LET top == Last(stack)
      ref == Head(top.todo)
  IN /\ top.todo # <<>> /\ ~FieldFails
     /\ IF IsStruct(ref) /\ IsEmitted(RustName(ref.of)) /\ ~IsEmittedWhole(RustName(ref.of))
          THEN /\ emitted' = emitted
               /\ stack' = Append(Front(stack), [top EXCEPT !.todo = Append(Tail(@), ref)])
          ELSE MapField(top, ref)

NextField ==
  LET top == Last(stack) IN top.todo # <<>> /\ ~FieldFails /\ MapField(top, Head(top.todo))

----------------------------------------------------------------------------
(***************************************************************************)
(* Names.                                                                  *)
(***************************************************************************)

\* The flat name without the namespace's prefix, unless nothing would be left.
ShortName(flat, prefix) ==
  IF IsPrefix(prefix, flat) /\ flat # prefix
    THEN SubSeq(flat, Len(prefix) + 1, Len(flat)) ELSE flat

\* The map turned round.
RememberedSwapped(short, flat) ==
  [s \in DOMAIN shorts \cup {flat} |-> IF s = flat THEN short ELSE shorts[s]]

Remembered(short, flat) ==
  [s \in DOMAIN shorts \cup {short} |-> IF s = short THEN flat ELSE shorts[s]]

\* The structs the fields of the structs in S are of.
FieldTypes(S) ==
  UNION {{emitted[i].fields[k].of : k \in DOMAIN emitted[i].fields} :
            i \in {j \in DOMAIN emitted : emitted[j].name \in S}}

\* The fields of the exports, and no further.
ReachableOnce(S) == {n \in FieldTypes(S) : IsEmitted(n)} \ S

ReachableFrom(S) ==
  LET reached[n \in 0..Len(emitted)] ==
        IF n = 0 THEN S
        ELSE reached[n - 1] \cup {m \in FieldTypes(reached[n - 1]) : IsEmitted(m)}
  IN reached[Len(emitted)] \ S

\* A namespace's group: the structs its endpoints name, by the short names they
\* name them with, and all that can be reached from those.
Exports(refs, prefix) ==
  LET direct == {<<shorts[s], s>> : s \in refs}
      flats == {e[1] : e \in direct}
  IN direct \cup {<<f, ShortName(f, prefix)>> : f \in ReachableFrom(flats)}
=============================================================================
