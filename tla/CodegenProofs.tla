--------------------------- MODULE CodegenProofs ---------------------------
(***************************************************************************)
(* Proofs about Codegen: for any schema and overrides, any graph of types, *)
(* any tree found, and failures and kills at any step.                     *)
(***************************************************************************)
EXTENDS Codegen, FiniteSetTheorems, WellFoundedInduction, SequenceTheorems, TLAPS

-----------------------------------------------------------------------------
(***************************************************************************)
(* The walk over the types (ModelResolver), a step at a time.              *)
(***************************************************************************)

\* The part of the input that the walk reads.
GraphTyped ==
  /\ DOMAIN types \subseteq Names
  /\ \A T \in DOMAIN types : types[T] \in Seq(FieldType)
  /\ \A T \in DOMAIN renames : renames[T] \in OverrideType

EmittedIn(em, name) == \E i \in DOMAIN em : em[i].name = name

\* A field as it is written: a struct by the name it goes by.
Named(ref) == IF IsStruct(ref) THEN [ref EXCEPT !.of = RustName(@)] ELSE ref

Rendered(em, ref, field) ==
  /\ field = Named(ref)
  /\ IsStruct(ref) => EmittedIn(em, RustName(ref.of))

\* A call has rendered some of the fields kept of its type, in their order, and
\* has the others before it.
Partial(em, call) ==
  LET kept == KeptFields(em[call.slot].of) IN
  /\ call.slot \in DOMAIN em
  /\ Len(kept) = Len(call.done) + Len(call.todo)
  /\ \A k \in DOMAIN call.done : Rendered(em, kept[k], call.done[k])
  /\ \A k \in DOMAIN call.todo : call.todo[k] = kept[Len(call.done) + k]

Whole(em, e) ==
  LET kept == KeptFields(e.of) IN
  /\ Len(e.fields) = Len(kept)
  /\ \A k \in DOMAIN e.fields : Rendered(em, kept[k], e.fields[k])

\* Each type once, by its name.
Flat(em) ==
  /\ em \in Seq(FlatType)
  /\ \A i, j \in DOMAIN em : em[i].name = em[j].name => i = j
  /\ \A i \in DOMAIN em : /\ em[i].of \in DOMAIN types /\ KeepsKnown(em[i].of)
                          /\ em[i].name = RustName(em[i].of)

Framed(em, calls) ==
  /\ calls \in Seq(FrameType)
  /\ \A c \in DOMAIN calls : Partial(em, calls[c])

\* What is not filled in is empty and under way, and what is filled in is whole.
Settled(em, calls) ==
  \A i \in DOMAIN em :
    IF em[i].filled THEN Whole(em, em[i])
    ELSE em[i].fields = <<>> /\ \E c \in DOMAIN calls : calls[c].slot = i

WalkInv == Flat(emitted) /\ Framed(emitted, stack) /\ Settled(emitted, stack)

\* What is emitted keeps its place, its name and its type.
Continues(em, later) ==
  /\ DOMAIN em \subseteq DOMAIN later
  /\ \A i \in DOMAIN em : later[i].name = em[i].name /\ later[i].of = em[i].of

----------------------------------------------------------------------------
(***************************************************************************)
(* What has been rendered stays rendered while more is emitted.            *)
(***************************************************************************)
LEMMA RenderedStays ==
  ASSUME NEW em, NEW later, Continues(em, later)
  PROVE  /\ \A ref, field : Rendered(em, ref, field) => Rendered(later, ref, field)
         /\ \A call : Partial(em, call) => Partial(later, call)
         /\ \A e : Whole(em, e) => Whole(later, e)
<1>1. ASSUME NEW name, EmittedIn(em, name)
      PROVE  EmittedIn(later, name)
  BY <1>1 DEF EmittedIn, Continues
<1>2. ASSUME NEW ref, NEW field, Rendered(em, ref, field)
      PROVE  Rendered(later, ref, field)
  BY <1>1, <1>2 DEF Rendered
<1>3. ASSUME NEW call, Partial(em, call)
      PROVE  Partial(later, call)
  <2>1. call.slot \in DOMAIN em /\ later[call.slot].of = em[call.slot].of
    BY <1>3 DEF Partial, Continues
  <2>2. call.slot \in DOMAIN later
    BY <2>1 DEF Continues
  <2>3. QED
    BY <1>2, <1>3, <2>1, <2>2 DEF Partial
<1>4. ASSUME NEW e, Whole(em, e)
      PROVE  Whole(later, e)
  BY <1>2, <1>4 DEF Whole
<1>5. QED
  BY <1>2, <1>3, <1>4

(***************************************************************************)
(* The fields kept of a described type, by an override that names fields   *)
(* it has, are a sequence of references.                                   *)
(***************************************************************************)
LEMMA KeptIsTyped ==
  ASSUME GraphTyped, NEW T \in DOMAIN types, KeepsKnown(T)
  PROVE  KeptFields(T) \in Seq(TypeRef)
<1>1. types[T] \in Seq(FieldType)
  BY DEF GraphTyped
<1> DEFINE described == types[T]
<1>0. \A i \in DOMAIN described : described[i].type \in TypeRef
  <2>1. \A s \in Seq(FieldType) : \A i \in DOMAIN s : s[i] \in FieldType
    OBVIOUS
  <2>2. \A f \in FieldType : f.type \in TypeRef
    BY DEF FieldType
  <2>3. QED
    BY <1>1, <2>1, <2>2
<1>2. CASE T \in DOMAIN renames
  <2> DEFINE fields == renames[T].fields
             kept == [i \in DOMAIN fields |-> FieldOf(T, fields[i]).type]
  <2>1. fields \in Seq(STRING)
    BY <1>2 DEF GraphTyped, OverrideType
  <2>2. ASSUME NEW i \in DOMAIN fields
        PROVE  FieldOf(T, fields[i]).type \in TypeRef
    <3>1. HasField(T, fields[i])
      BY <1>2 DEF KeepsKnown
    <3>2. (CHOOSE j \in DOMAIN types[T] : types[T][j].name = fields[i]) \in DOMAIN types[T]
      BY <3>1 DEF HasField
    <3>3. QED
      BY <1>0, <3>2 DEF FieldOf
  <2>3. DOMAIN fields = 1..Len(fields) /\ Len(fields) \in Nat
    BY <2>1
  <2> HIDE DEF fields
  <2>4. kept \in Seq(TypeRef)
    BY <2>2, <2>3
  <2>5. QED
    BY <1>2, <2>4 DEF KeptFields, fields
<1>3. CASE T \notin DOMAIN renames
  <2> DEFINE kept == [i \in DOMAIN types[T] |-> types[T][i].type]
  <2>1. DOMAIN types[T] = 1..Len(types[T]) /\ Len(types[T]) \in Nat
    BY <1>1
  <2>2. \A i \in DOMAIN types[T] : types[T][i].type \in TypeRef
    BY <1>0
  <2>3. kept \in Seq(TypeRef)
    BY <2>1, <2>2
  <2>4. QED
    BY <1>3, <2>3 DEF KeptFields
<1>4. QED
  BY <1>2, <1>3

(***************************************************************************)
(* A sequence of calls taken apart into its last and the others.           *)
(***************************************************************************)
LEMMA CallsApart ==
  ASSUME NEW calls \in Seq(FrameType), calls # <<>>
  PROVE  /\ Front(calls) \in Seq(FrameType) /\ Len(Front(calls)) = Len(calls) - 1
         /\ Len(calls) \in DOMAIN calls
         /\ Last(calls) = calls[Len(calls)] /\ Last(calls) \in FrameType
         /\ DOMAIN calls = DOMAIN Front(calls) \cup {Len(calls)}
         /\ \A c \in DOMAIN Front(calls) : Front(calls)[c] = calls[c]
<1>1. Len(calls) \in Nat /\ Len(calls) > 0 /\ DOMAIN calls = 1..Len(calls)
  OBVIOUS
<1>2. /\ Front(calls) \in Seq(FrameType) /\ Len(Front(calls)) = Len(calls) - 1
      /\ \A c \in 1..Len(calls) - 1 : Front(calls)[c] = calls[c]
  BY <1>1 DEF Front
<1>3. DOMAIN Front(calls) = 1..Len(calls) - 1
  BY <1>2
<1>4. Last(calls) = calls[Len(calls)] /\ Last(calls) \in FrameType
  BY <1>1 DEF Last
<1>5. DOMAIN calls = (1..Len(calls) - 1) \cup {Len(calls)}
  BY <1>1
<1>6. QED
  BY <1>1, <1>2, <1>3, <1>4, <1>5

(***************************************************************************)
(* What a record made of the right parts is.                               *)
(***************************************************************************)
LEMMA FlatMade ==
  ASSUME NEW name \in Names, NEW of \in Names, NEW filled \in BOOLEAN, NEW fields \in Seq(TypeRef)
  PROVE  [name |-> name, of |-> of, filled |-> filled, fields |-> fields] \in FlatType
BY DEF FlatType

\* A call as emit_struct begins it and the walk goes on with it.
LEMMA FrameMade ==
  ASSUME NEW slot \in Nat, NEW todo \in Seq(TypeRef), NEW done \in Seq(TypeRef)
  PROVE  [slot |-> slot, todo |-> todo, done |-> done] \in FrameType
BY DEF FrameType

(***************************************************************************)
(* emit_struct: the type has its slot when it returns; a slot that is new  *)
(* is at the end, and the call that fills it in is under way.              *)
(***************************************************************************)
LEMMA EmitKeeps ==
  ASSUME GraphTyped, Flat(emitted), NEW calls \in Seq(FrameType), Settled(emitted, calls),
         NEW T \in DOMAIN types, KeepsKnown(T) \/ IsEmitted(RustName(T)), EmitStruct(T, calls)
  PROVE  /\ Flat(emitted') /\ Settled(emitted', stack') /\ stack' \in Seq(FrameType)
         /\ Continues(emitted, emitted') /\ EmittedIn(emitted', RustName(T))
         /\ \A i \in DOMAIN emitted' : i \in DOMAIN emitted \/ emitted'[i].of = T
         /\ \A c \in DOMAIN stack' :
              \/ c \in DOMAIN calls /\ stack'[c] = calls[c]
              \/ Partial(emitted', stack'[c])
<1> DEFINE name == RustName(T)
           new == [name |-> name, of |-> T, filled |-> FALSE, fields |-> <<>>]
           call == [slot |-> Len(emitted) + 1, todo |-> KeptFields(T), done |-> <<>>]
<1>1. CASE IsEmitted(name)
  <2>1. emitted' = emitted /\ stack' = calls
    BY <1>1 DEF EmitStruct
  <2>2. QED
    BY <1>1, <2>1 DEF IsEmitted, EmittedIn, Continues
<1>2. CASE ~IsEmitted(name)
  <2>1. emitted' = Append(emitted, new) /\ stack' = Append(calls, call)
    BY <1>2 DEF EmitStruct
  <2>2. KeptFields(T) \in Seq(TypeRef)
    BY <1>2, KeptIsTyped
  <2>3. T \in Names /\ name \in Names
    BY DEF GraphTyped, RustName, OverrideType
  <2>4. emitted \in Seq(FlatType) /\ Len(emitted) \in Nat /\ DOMAIN emitted = 1..Len(emitted)
    BY DEF Flat
  <2>5. <<>> \in Seq(TypeRef)
    OBVIOUS
  <2>6. new \in FlatType
    BY <2>3, <2>5, FlatMade
  <2>7. call \in FrameType
    <3>1. Len(emitted) + 1 \in Nat
      BY <2>4
    <3>2. QED
      BY <2>2, <2>5, <3>1, FrameMade
  <2>8. new.name = name /\ new.of = T /\ new.filled = FALSE /\ new.fields = <<>>
    OBVIOUS
  <2>9. call.slot = Len(emitted) + 1 /\ call.todo = KeptFields(T) /\ call.done = <<>>
    OBVIOUS
  <2>10. KeepsKnown(T)
    BY <1>2
  <2> HIDE DEF name, new, call
  <2>11. /\ emitted' \in Seq(FlatType) /\ DOMAIN emitted' = DOMAIN emitted \cup {Len(emitted) + 1}
         /\ Len(emitted) + 1 \notin DOMAIN emitted
         /\ emitted'[Len(emitted) + 1] = new
         /\ \A i \in DOMAIN emitted : emitted'[i] = emitted[i]
    BY <2>1, <2>4, <2>6
  <2>12. /\ stack' \in Seq(FrameType) /\ DOMAIN stack' = DOMAIN calls \cup {Len(calls) + 1}
         /\ stack'[Len(calls) + 1] = call
         /\ \A c \in DOMAIN calls : stack'[c] = calls[c]
    BY <2>1, <2>7
  <2>13. Continues(emitted, emitted')
    BY <2>11 DEF Continues
  <2>14. Flat(emitted')
    <3>1. \A i \in DOMAIN emitted : emitted[i].name # name
      BY <1>2 DEF IsEmitted
    <3>2. \A i, j \in DOMAIN emitted' : emitted'[i].name = emitted'[j].name => i = j
      BY <2>8, <2>11, <3>1 DEF Flat
    <3>3. \A i \in DOMAIN emitted' : /\ emitted'[i].of \in DOMAIN types /\ KeepsKnown(emitted'[i].of)
                                     /\ emitted'[i].name = RustName(emitted'[i].of)
      BY <2>8, <2>10, <2>11 DEF Flat, name
    <3>4. QED
      BY <2>11, <3>2, <3>3 DEF Flat
  <2>15. Partial(emitted', call)
    <3>1. KeptFields(emitted'[call.slot].of) = KeptFields(T)
      BY <2>8, <2>9, <2>11
    <3>2. Len(call.done) = 0 /\ DOMAIN call.done = {}
      BY <2>9
    <3>3. \A k \in DOMAIN call.todo : 0 + k = k
      BY <2>2, <2>9
    <3>4. Len(call.todo) \in Nat
      BY <2>2, <2>9
    <3>5. QED
      BY <2>9, <2>11, <3>1, <3>2, <3>3, <3>4 DEF Partial
  <2>16. Settled(emitted', stack')
    <3>1. ASSUME NEW i \in DOMAIN emitted
          PROVE  IF emitted'[i].filled THEN Whole(emitted', emitted'[i])
                 ELSE emitted'[i].fields = <<>> /\ \E c \in DOMAIN stack' : stack'[c].slot = i
      BY <2>11, <2>12, <2>13, RenderedStays DEF Settled
    <3>2. /\ ~emitted'[Len(emitted) + 1].filled /\ emitted'[Len(emitted) + 1].fields = <<>>
          /\ stack'[Len(calls) + 1].slot = Len(emitted) + 1
      BY <2>8, <2>9, <2>11, <2>12
    <3>3. QED
      BY <2>11, <2>12, <3>1, <3>2 DEF Settled
  <2>17. EmittedIn(emitted', name)
    BY <2>8, <2>11 DEF EmittedIn
  <2>18. QED
    BY <2>8, <2>11, <2>12, <2>13, <2>14, <2>15, <2>16, <2>17 DEF name
<1>3. QED
  BY <1>1, <1>2

(***************************************************************************)
(* The slot is filled in with the fields the call has rendered, which are  *)
(* all of them.                                                            *)
(***************************************************************************)
LEMMA FillKeeps ==
  ASSUME GraphTyped, WalkInv, stack # <<>>, FillSlot
  PROVE  /\ Flat(emitted') /\ Framed(emitted', stack') /\ Settled(emitted', stack')
         /\ Continues(emitted, emitted') /\ DOMAIN emitted' = DOMAIN emitted
<1> DEFINE top == Last(stack)
           slot == top.slot
           new == [emitted EXCEPT ![slot].filled = TRUE, ![slot].fields = top.done]
<1>1. emitted \in Seq(FlatType) /\ stack \in Seq(FrameType)
  BY DEF WalkInv, Flat, Framed
<1>2. /\ stack' \in Seq(FrameType) /\ DOMAIN stack = DOMAIN stack' \cup {Len(stack)}
      /\ Len(stack) \in DOMAIN stack /\ top = stack[Len(stack)] /\ top \in FrameType
      /\ \A c \in DOMAIN stack' : stack'[c] = stack[c]
  BY <1>1, CallsApart DEF FillSlot
<1>3. Partial(emitted, top) /\ top.todo = <<>> /\ emitted' = new
  BY <1>2 DEF WalkInv, Framed, FillSlot
<1>4. slot \in DOMAIN emitted
  BY <1>3 DEF Partial
<1>5. top.done \in Seq(TypeRef)
  BY <1>2 DEF FrameType
<1>6. /\ DOMAIN new = DOMAIN emitted
      /\ \A i \in DOMAIN emitted : i # slot => new[i] = emitted[i]
      /\ new[slot] = [emitted[slot] EXCEPT !.filled = TRUE, !.fields = top.done]
  BY <1>4
<1>7. emitted[slot] \in FlatType
  BY <1>1, <1>4
<1> HIDE DEF new, slot, top
<1>8. /\ new[slot] \in FlatType /\ new[slot].name = emitted[slot].name
      /\ new[slot].of = emitted[slot].of /\ new[slot].filled /\ new[slot].fields = top.done
  <2>1. PICK e \in FlatType : e = emitted[slot]
    BY <1>7
  <2>2. PICK done \in Seq(TypeRef) : done = top.done
    BY <1>5
  <2>3. PICK filled : filled = new[slot]
    OBVIOUS
  <2>4. filled = [e EXCEPT !.filled = TRUE, !.fields = done]
    BY <1>6, <2>1, <2>2, <2>3
  <2>5. /\ filled \in FlatType /\ filled.name = e.name /\ filled.of = e.of
        /\ filled.filled = TRUE /\ filled.fields = done
    BY <2>4 DEF FlatType
  <2>6. QED
    BY <2>1, <2>2, <2>3, <2>5
<1>9. new \in Seq(FlatType)
  <2>1. \A i \in DOMAIN emitted : new[i] \in FlatType
    BY <1>1, <1>6, <1>8
  <2>2. DOMAIN new = 1..Len(emitted) /\ Len(emitted) \in Nat
    BY <1>1, <1>6
  <2>3. new = [i \in 1..Len(emitted) |-> new[i]]
    BY <2>2 DEF new
  <2>4. QED
    BY <1>6, <2>1, <2>2, <2>3
<1>10. Continues(emitted, emitted')
  BY <1>3, <1>6, <1>8 DEF Continues
<1>11. Flat(emitted')
  <2>1. \A i \in DOMAIN emitted : new[i].name = emitted[i].name /\ new[i].of = emitted[i].of
    BY <1>6, <1>8
  <2>2. \A i, j \in DOMAIN emitted : new[i].name = new[j].name => i = j
    BY <2>1 DEF WalkInv, Flat
  <2>3. \A i \in DOMAIN emitted : /\ new[i].of \in DOMAIN types /\ KeepsKnown(new[i].of)
                                 /\ new[i].name = RustName(new[i].of)
    BY <2>1 DEF WalkInv, Flat
  <2>4. QED
    BY <1>3, <1>6, <1>9, <2>2, <2>3 DEF Flat
<1>12. Framed(emitted', stack')
  BY <1>2, <1>10, RenderedStays DEF WalkInv, Framed
<1>13. Settled(emitted', stack')
  <2>1. Whole(emitted', emitted'[slot])
    <3>1. KeptFields(emitted'[slot].of) = KeptFields(emitted[slot].of)
      BY <1>3, <1>8
    <3>2. Len(KeptFields(emitted[slot].of)) = Len(top.done)
      BY <1>3, <1>5 DEF Partial, slot
    <3>3. \A k \in DOMAIN top.done : Rendered(emitted, KeptFields(emitted[slot].of)[k], top.done[k])
      BY <1>3 DEF Partial, slot
    <3>4. QED
      BY <1>3, <1>8, <1>10, <3>1, <3>2, <3>3, RenderedStays DEF Whole
  <2>2. ASSUME NEW i \in DOMAIN emitted, i # slot
        PROVE  IF emitted'[i].filled THEN Whole(emitted', emitted'[i])
               ELSE emitted'[i].fields = <<>> /\ \E c \in DOMAIN stack' : stack'[c].slot = i
    <3>1. emitted'[i] = emitted[i]
      BY <1>3, <1>6, <2>2
    <3>2. CASE emitted[i].filled
      BY <1>10, <3>1, <3>2, RenderedStays DEF WalkInv, Settled
    <3>3. CASE ~emitted[i].filled
      <4>0. emitted[i].fields = <<>>
        BY <3>3 DEF WalkInv, Settled
      <4>1. PICK c \in DOMAIN stack : stack[c].slot = i
        BY <3>3 DEF WalkInv, Settled
      <4>2. c # Len(stack)
        BY <1>2, <2>2, <4>1 DEF slot
      <4>3. QED
        BY <1>2, <3>1, <3>3, <4>0, <4>1, <4>2
    <3>4. QED
      BY <3>2, <3>3
  <2>3. QED
    BY <1>3, <1>6, <1>8, <2>1, <2>2 DEF Settled
<1>14. QED
  BY <1>3, <1>6, <1>10, <1>11, <1>12, <1>13

(***************************************************************************)
(* A reference is named by a reference.                                    *)
(***************************************************************************)
LEMMA NamedIsTyped ==
  ASSUME GraphTyped, NEW ref \in TypeRef
  PROVE  Named(ref) \in TypeRef /\ RustName(ref.of) \in Names
<1>1. ref.of \in Names
  BY DEF TypeRef
<1>2. RustName(ref.of) \in Names
  BY <1>1 DEF GraphTyped, RustName, OverrideType
<1>3. CASE IsStruct(ref)
  <2>1. PICK name \in Names : name = RustName(ref.of)
    BY <1>2
  <2>2. Named(ref) = [ref EXCEPT !.of = name] /\ ref.wrap # "unit"
    BY <1>3, <2>1 DEF Named, IsStruct
  <2>3. [ref EXCEPT !.of = name] \in TypeRef
    BY <2>2 DEF TypeRef
  <2>4. QED
    BY <1>2, <2>2, <2>3
<1>4. CASE ~IsStruct(ref)
  BY <1>2, <1>4 DEF Named
<1>5. QED
  BY <1>3, <1>4

(***************************************************************************)
(* map_field_type: the field at the head of the call is rendered, and its  *)
(* struct has a slot by then.                                              *)
(***************************************************************************)
LEMMA FieldKeeps ==
  ASSUME GraphTyped, WalkInv, stack # <<>>, NextField
  PROVE  /\ Flat(emitted') /\ Framed(emitted', stack') /\ Settled(emitted', stack')
         /\ Continues(emitted, emitted')
         /\ \A i \in DOMAIN emitted' :
              \/ i \in DOMAIN emitted
              \/ \E j \in DOMAIN emitted : \E k \in DOMAIN KeptFields(emitted[j].of) :
                   emitted'[i].of = KeptFields(emitted[j].of)[k].of
<1> DEFINE top == Last(stack)
           ref == Head(top.todo)
           kept == KeptFields(emitted[top.slot].of)
           next == [top EXCEPT !.todo = Tail(@), !.done = Append(@, Named(ref))]
           calls == Append(Front(stack), next)
<1>1. emitted \in Seq(FlatType) /\ stack \in Seq(FrameType)
  BY DEF WalkInv, Flat, Framed
<1>2. /\ Front(stack) \in Seq(FrameType) /\ Len(Front(stack)) = Len(stack) - 1
      /\ DOMAIN stack = DOMAIN Front(stack) \cup {Len(stack)}
      /\ Len(stack) \in DOMAIN stack /\ top = stack[Len(stack)] /\ top \in FrameType
      /\ \A c \in DOMAIN Front(stack) : Front(stack)[c] = stack[c]
  BY <1>1, CallsApart
<1>3. Partial(emitted, top) /\ top.todo # <<>> /\ ~FieldFails
  BY <1>2 DEF WalkInv, Framed, NextField
<1>4. top.slot \in DOMAIN emitted /\ top.todo \in Seq(TypeRef) /\ top.done \in Seq(TypeRef)
  BY <1>2, <1>3 DEF Partial, FrameType
<1>5. ref \in TypeRef /\ Tail(top.todo) \in Seq(TypeRef)
  BY <1>3, <1>4
<1>6. /\ Len(top.done) \in Nat /\ 1 \in DOMAIN top.todo /\ Len(top.todo) \in Nat
      /\ Len(Tail(top.todo)) = Len(top.todo) - 1
      /\ \A k \in DOMAIN Tail(top.todo) : k + 1 \in DOMAIN top.todo /\ Tail(top.todo)[k] = top.todo[k + 1]
  BY <1>3, <1>4
<1> HIDE DEF kept, top
<1>7. /\ Len(top.done) + 1 \in DOMAIN kept /\ ref = kept[Len(top.done) + 1]
      /\ kept \in Seq(TypeRef) /\ Len(kept) = Len(top.done) + Len(top.todo)
  <2>1. emitted[top.slot].of \in DOMAIN types /\ KeepsKnown(emitted[top.slot].of)
    BY <1>4 DEF WalkInv, Flat
  <2>2. kept \in Seq(TypeRef)
    BY <2>1, KeptIsTyped DEF kept
  <2>3. Len(kept) = Len(top.done) + Len(top.todo)
    BY <1>3 DEF Partial, kept
  <2>4. top.todo[1] = kept[Len(top.done) + 1]
    BY <1>3, <1>6 DEF Partial, kept
  <2>5. ref = top.todo[1]
    BY <1>3, <1>4
  <2>6. Len(top.todo) > 0
    BY <1>3, <1>4
  <2>7. Len(top.done) + 1 \in 1..Len(kept)
    <3>1. Len(top.done) \in Nat /\ Len(top.todo) \in Nat
      BY <1>6
    <3>2. QED
      <4>1. \A d, t, n : d \in Nat /\ t \in Nat /\ t > 0 /\ n = d + t => d + 1 \in 1..n
        OBVIOUS
      <4>2. QED
        BY <2>3, <2>6, <3>1, <4>1
  <2>8. DOMAIN kept = 1..Len(kept)
    BY <2>2
  <2>9. QED
    BY <2>2, <2>3, <2>4, <2>5, <2>7, <2>8
<1>8. Named(ref) \in TypeRef
  BY <1>5, NamedIsTyped
<1>9. /\ next \in FrameType /\ next.slot = top.slot /\ next.todo = Tail(top.todo)
      /\ next.done = Append(top.done, Named(ref))
  <2>1. PICK call \in FrameType : call = top
    BY <1>2
  <2>2. PICK todo \in Seq(TypeRef) : todo = Tail(top.todo)
    BY <1>5
  <2>3. PICK done \in Seq(TypeRef) : done = Append(top.done, Named(ref))
    <3>1. \A s \in Seq(TypeRef) : \A x \in TypeRef : Append(s, x) \in Seq(TypeRef)
      OBVIOUS
    <3>2. QED
      BY <1>4, <1>8, <3>1
  <2>4. next = [call EXCEPT !.todo = todo, !.done = done]
    BY <2>1, <2>2, <2>3
  <2> HIDE DEF next
  <2>5. next \in FrameType /\ next.slot = call.slot /\ next.todo = todo /\ next.done = done
    BY <2>4 DEF FrameType
  <2>6. QED
    BY <2>1, <2>2, <2>3, <2>5
<1>10. IF IsStruct(ref) THEN EmitStruct(ref.of, calls) ELSE emitted' = emitted /\ stack' = calls
  BY DEF NextField, MapField, Holds, Named, top
<1> HIDE DEF next, ref
<1>11. /\ calls \in Seq(FrameType) /\ DOMAIN calls = DOMAIN stack
       /\ calls[Len(stack)] = next
       /\ \A c \in DOMAIN Front(stack) : calls[c] = stack[c] /\ c # Len(stack)
  <2>1. Len(stack) \in Nat /\ DOMAIN stack = 1..Len(stack)
    BY <1>1
  <2>2. DOMAIN Front(stack) = 1..Len(stack) - 1
    BY <1>2
  <2>3. QED
    BY <1>2, <1>9, <2>1, <2>2
<1> HIDE DEF calls
<1>12. Settled(emitted, calls)
  <2>1. \A c \in DOMAIN stack : calls[c].slot = stack[c].slot
    BY <1>2, <1>9, <1>11
  <2>2. QED
    BY <1>11, <2>1 DEF WalkInv, Settled
<1>13. ASSUME NEW later, Continues(emitted, later),
              IsStruct(ref) => EmittedIn(later, RustName(ref.of))
       PROVE  \A c \in DOMAIN calls : Partial(later, calls[c])
  <2>1. ASSUME NEW c \in DOMAIN Front(stack)
        PROVE  Partial(later, calls[c])
    BY <1>2, <1>11, <1>13, RenderedStays DEF WalkInv, Framed
  <2>2. Partial(later, next)
    <3>1. top.slot \in DOMAIN later /\ KeptFields(later[top.slot].of) = kept
      BY <1>4, <1>13 DEF Continues, kept
    <3>2. /\ Len(next.done) = Len(top.done) + 1 /\ Len(next.todo) = Len(top.todo) - 1
          /\ DOMAIN next.done = DOMAIN top.done \cup {Len(top.done) + 1}
          /\ next.done[Len(top.done) + 1] = Named(ref)
          /\ \A k \in DOMAIN top.done : next.done[k] = top.done[k]
      BY <1>4, <1>6, <1>8, <1>9
    <3>3. Len(kept) = Len(next.done) + Len(next.todo)
      <4>1. Len(top.done) \in Nat /\ Len(top.todo) \in Nat
        BY <1>6
      <4>2. Len(next.done) = Len(top.done) + 1 /\ Len(next.todo) = Len(top.todo) - 1
        BY <3>2
      <4>3. QED
        <5>1. \A d, t, n : d \in Nat /\ t \in Nat /\ n = d + t => n = (d + 1) + (t - 1)
          OBVIOUS
        <5>2. Len(kept) = Len(top.done) + Len(top.todo)
          BY <1>7
        <5>3. QED
          BY <4>1, <4>2, <5>1, <5>2
    <3>4. \A k \in DOMAIN next.done : Rendered(later, kept[k], next.done[k])
      <4>1. \A k \in DOMAIN top.done : Rendered(later, kept[k], top.done[k])
        <5>1. TAKE k \in DOMAIN top.done
        <5>2. Rendered(emitted, kept[k], top.done[k])
          BY <1>3 DEF Partial, kept
        <5>3. QED
          BY <1>13, <5>2, RenderedStays
      <4>2. Rendered(later, kept[Len(top.done) + 1], Named(ref))
        BY <1>7, <1>13 DEF Rendered
      <4>3. QED
        BY <3>2, <4>1, <4>2
    <3>5. \A k \in DOMAIN next.todo : next.todo[k] = kept[Len(next.done) + k]
      <4>1. TAKE k \in DOMAIN next.todo
      <4>2. k \in Nat
        BY <1>5, <1>9
      <4>3. k + 1 \in DOMAIN top.todo /\ next.todo[k] = top.todo[k + 1]
        BY <1>6, <1>9
      <4>4. top.todo[k + 1] = kept[Len(top.done) + (k + 1)]
        BY <1>3, <4>3 DEF Partial, kept
      <4>5. Len(top.done) + (k + 1) = Len(next.done) + k
        <5>1. Len(next.done) = Len(top.done) + 1 /\ Len(top.done) \in Nat
          BY <1>6, <3>2
        <5>2. QED
          BY <4>2, <5>1
      <4>6. QED
        BY <4>3, <4>4, <4>5
    <3>6. QED
      BY <1>9, <3>1, <3>3, <3>4, <3>5 DEF Partial
  <2>3. QED
    BY <1>2, <1>11, <2>1, <2>2
<1>14. CASE IsStruct(ref)
  <2>1. ref.of \in DOMAIN types /\ (KeepsKnown(ref.of) \/ IsEmitted(RustName(ref.of)))
    BY <1>3, <1>14 DEF FieldFails, ref, top
  <2>2. EmitStruct(ref.of, calls)
    BY <1>10, <1>14
  <2>3. /\ Flat(emitted') /\ Settled(emitted', stack') /\ stack' \in Seq(FrameType)
        /\ Continues(emitted, emitted') /\ EmittedIn(emitted', RustName(ref.of))
        /\ \A i \in DOMAIN emitted' : i \in DOMAIN emitted \/ emitted'[i].of = ref.of
        /\ \A c \in DOMAIN stack' :
             \/ c \in DOMAIN calls /\ stack'[c] = calls[c]
             \/ Partial(emitted', stack'[c])
    BY <1>11, <1>12, <2>1, <2>2, EmitKeeps DEF WalkInv
  <2>4. Framed(emitted', stack')
    BY <1>13, <2>3 DEF Framed
  <2>5. \A i \in DOMAIN emitted' :
          \/ i \in DOMAIN emitted
          \/ \E j \in DOMAIN emitted : \E k \in DOMAIN KeptFields(emitted[j].of) :
               emitted'[i].of = KeptFields(emitted[j].of)[k].of
    BY <1>4, <1>7, <2>3 DEF kept
  <2>6. QED
    BY <2>3, <2>4, <2>5
<1>15. CASE ~IsStruct(ref)
  <2>1. emitted' = emitted /\ stack' = calls
    BY <1>10, <1>15
  <2>2. Continues(emitted, emitted)
    BY DEF Continues
  <2>3. \A c \in DOMAIN calls : Partial(emitted, calls[c])
    BY <1>13, <1>15, <2>2
  <2>4. QED
    BY <1>11, <1>12, <2>1, <2>2, <2>3 DEF WalkInv, Framed
<1>16. QED
  BY <1>14, <1>15

(***************************************************************************)
(* While the input stays, what is said of the walk is said of what it has  *)
(* emitted.                                                                *)
(***************************************************************************)
LEMMA InputStays ==
  ASSUME UNCHANGED input
  PROVE  /\ \A T : KeptFields(T)' = KeptFields(T) /\ RustName(T)' = RustName(T)
         /\ (Flat(emitted') /\ Framed(emitted', stack') /\ Settled(emitted', stack')) => WalkInv'
<1>1. types' = types /\ renames' = renames
  BY DEF types, renames
<1>2. \A T : RustName(T)' = RustName(T)
  BY <1>1 DEF RustName
<1>3. \A T, f : FieldOf(T, f)' = FieldOf(T, f)
  BY <1>1 DEF FieldOf
<1>4. \A T, f : HasField(T, f)' <=> HasField(T, f)
  BY <1>1 DEF HasField
<1>5. \A T : KeepsKnown(T)' <=> KeepsKnown(T)
  BY <1>1, <1>4 DEF KeepsKnown
<1>6. \A T : KeptFields(T)' = KeptFields(T)
  BY <1>1, <1>3 DEF KeptFields
<1>7. \A ref : Named(ref)' = Named(ref)
  BY <1>2 DEF Named
<1>8. \A em, ref, field : Rendered(em, ref, field)' <=> Rendered(em, ref, field)
  BY <1>2, <1>7 DEF Rendered, EmittedIn
<1>9. Flat(emitted') => Flat(emitted)'
  BY <1>1, <1>2, <1>5 DEF Flat
<1>10. Framed(emitted', stack') => Framed(emitted, stack)'
  BY <1>6, <1>8 DEF Framed, Partial
<1>11. Settled(emitted', stack') => Settled(emitted, stack)'
  BY <1>6, <1>8 DEF Settled, Whole
<1>12. QED
  BY <1>2, <1>6, <1>9, <1>10, <1>11 DEF WalkInv

----------------------------------------------------------------------------
(***************************************************************************)
(* Induction over the naturals, as the existence of a least one.           *)
(***************************************************************************)
LEMMA LeastNatural ==
  ASSUME NEW T, T \subseteq Nat, T # {}
  PROVE  \E n \in T : \A m \in T : n <= m
<1> DEFINE R == OpToRel(<, Nat)
<1>1. IsWellFoundedOn(R, Nat)
  BY NatLessThanWellFounded
<1>2. \A m, n \in Nat : m < n => <<m, n>> \in R
  BY DEF OpToRel
<1> HIDE DEF R
<1>3. PICK n \in T : \A m \in T : ~(<<m, n>> \in R)
  BY <1>1, WFMin
<1>4. ASSUME NEW m \in T, ~(n <= m) PROVE FALSE
  <2>1. m \in Nat /\ n \in Nat /\ m < n
    BY <1>4
  <2>2. QED
    BY <1>2, <1>3, <2>1
<1>5. QED
  BY <1>4

(***************************************************************************)
(* reachable_from: what is reached from S is closed under the fields of    *)
(* the flat types.  Each round adds a flat type or is the last to add      *)
(* any, and there are no more rounds than flat types.                      *)
(***************************************************************************)
Grown(R) == R \cup {m \in FieldTypes(R) : IsEmitted(m)}

\* The rounds of reachable_from: the function that its definition asks for exists.
LEMMA ReachedExists ==
  ASSUME NEW S, NEW n \in Nat
  PROVE  \E f : f = [i \in 0..n |-> IF i = 0 THEN S ELSE Grown(f[i - 1])]
<1> DEFINE Step(g, i) == IF i = 0 THEN S ELSE Grown(g[i - 1])
           Upto(g, m) == g = [i \in 0..m |-> Step(g, i)]
           T == {m \in Nat : ~\E g : Upto(g, m)}
<1>1. T = {}
  <2> SUFFICES ASSUME T # {} PROVE FALSE
    OBVIOUS
  <2>1. PICK m \in T : \A k \in T : m <= k
    <3>1. T \subseteq Nat
      OBVIOUS
    <3> HIDE DEF T
    <3>2. QED
      BY <3>1, LeastNatural
  <2>2. CASE m = 0
    <3>1. PICK g : g = [i \in 0..0 |-> S]
      OBVIOUS
    <3>2. Upto(g, 0)
      BY <3>1
    <3>3. QED
      BY <2>1, <2>2, <3>2
  <2>3. CASE m # 0
    <3>1. m \in Nat /\ m - 1 \in Nat /\ ~(m <= m - 1)
      BY <2>1, <2>3
    <3>2. PICK g : Upto(g, m - 1)
      <4> HIDE DEF Upto
      <4>1. m - 1 \notin T
        BY <2>1, <3>1
      <4>2. QED
        BY <3>1, <4>1
    <3>3. PICK h : h = [i \in 0..m |-> IF i = m THEN Step(g, m) ELSE g[i]]
      OBVIOUS
    <3>4. ASSUME NEW i \in 0..m PROVE h[i] = Step(h, i)
      <4>1. i # 0 => i - 1 \in 0..m - 1 /\ h[i - 1] = g[i - 1]
        BY <3>1, <3>3
      <4>2. CASE i = m
        BY <3>1, <3>3, <4>1, <4>2
      <4>3. CASE i # m
        <5>1. i \in 0..m - 1 /\ h[i] = g[i]
          BY <3>1, <3>3, <4>3
        <5>2. g[i] = Step(g, i)
          BY <3>2, <5>1
        <5>3. QED
          BY <4>1, <5>1, <5>2
      <4>4. QED
        BY <4>2, <4>3
    <3>5. h = [i \in 0..m |-> h[i]]
      BY <3>3
    <3>6. Upto(h, m)
      BY <3>4, <3>5
    <3>7. QED
      BY <2>1, <3>6
  <2>4. QED
    BY <2>2, <2>3
<1>2. n \notin T
  BY <1>1
<1>3. QED
  BY <1>2

\* After as many rounds as there are flat types no round adds one.
LEMMA ReachableIsClosed ==
  ASSUME emitted \in Seq(FlatType), NEW S, \A x \in S : IsEmitted(x)
  PROVE  LET R == S \cup ReachableFrom(S)
         IN  (\A x \in R : IsEmitted(x)) /\ Grown(R) = R
<1> DEFINE many == Len(emitted)
           reached[n \in 0..many] == IF n = 0 THEN S ELSE Grown(reached[n - 1])
           All == {emitted[i].name : i \in 1..many}
<1>1. many \in Nat /\ DOMAIN emitted = 1..many
  OBVIOUS
<1>2. reached = [n \in 0..many |-> IF n = 0 THEN S ELSE Grown(reached[n - 1])]
  <2> HIDE DEF many
  <2>1. \E f : f = [n \in 0..many |-> IF n = 0 THEN S ELSE Grown(f[n - 1])]
    BY <1>1, ReachedExists
  <2>2. QED
    BY <2>1
<1>3. ReachableFrom(S) = reached[many] \ S
  BY DEF ReachableFrom, Grown
<1> HIDE DEF reached, many
<1>4. /\ reached[0] = S
      /\ \A n \in 0..many : n # 0 => n - 1 \in 0..many /\ reached[n] = Grown(reached[n - 1])
  BY <1>1, <1>2
<1>5. \A R : R \subseteq Grown(R)
  BY DEF Grown
<1>6. \A x : IsEmitted(x) <=> x \in All
  BY <1>1 DEF IsEmitted
<1>7. IsFiniteSet(All) /\ Cardinality(All) <= many
  <2>1. PICK g : g = [i \in 1..many |-> emitted[i].name]
    OBVIOUS
  <2>2. g \in Surjection(1..many, All)
    BY <2>1 DEF Surjection
  <2>3. IsFiniteSet(1..many) /\ Cardinality(1..many) = many
    BY <1>1, FS_Interval
  <2>4. QED
    BY <2>2, <2>3, FS_Surjection
<1> HIDE DEF All
<1>8. \A n \in 0..many : S \subseteq reached[n] /\ reached[n] \subseteq All
  <2> DEFINE T == {n \in 0..many : ~(S \subseteq reached[n] /\ reached[n] \subseteq All)}
  <2> SUFFICES ASSUME T # {} PROVE FALSE
    OBVIOUS
  <2>1. PICK n \in T : \A k \in T : n <= k
    <3>1. T \subseteq Nat
      BY <1>1
    <3> HIDE DEF T
    <3>2. QED
      BY <3>1, LeastNatural
  <2>2. n \in 0..many /\ n # 0 /\ ~(n <= n - 1)
    BY <1>1, <1>4, <1>6, <2>1
  <2>3. n - 1 \notin T /\ n - 1 \in 0..many
    BY <1>4, <2>1, <2>2
  <2>4. S \subseteq reached[n - 1] /\ reached[n - 1] \subseteq All
    BY <2>3
  <2>5. S \subseteq reached[n] /\ reached[n] \subseteq All
    BY <1>4, <1>6, <2>2, <2>4 DEF Grown
  <2>6. QED
    BY <2>1, <2>5
<1>9. Grown(reached[many]) = reached[many]
  <2> SUFFICES ASSUME Grown(reached[many]) # reached[many] PROVE FALSE
    OBVIOUS
  <2>1. \A n \in 0..many : Grown(reached[n]) # reached[n]
    <3> DEFINE T == {k \in 0..many : Grown(reached[many - k]) = reached[many - k]}
    <3> SUFFICES ASSUME NEW n \in 0..many, Grown(reached[n]) = reached[n] PROVE FALSE
      OBVIOUS
    <3>1. many - n \in T
      BY <1>1
    <3>2. PICK k \in T : \A j \in T : k <= j
      <4>1. T \subseteq Nat
        BY <1>1
      <4> HIDE DEF T
      <4>2. QED
        BY <3>1, <4>1, LeastNatural
    <3>3. k \in 0..many /\ k # 0 /\ ~(k <= k - 1) /\ k - 1 \in 0..many
      BY <1>1, <3>2
    <3>4. /\ many - (k - 1) \in 0..many /\ many - (k - 1) # 0
          /\ many - (k - 1) - 1 = many - k
      BY <1>1, <3>3
    <3>5. reached[many - (k - 1)] = Grown(reached[many - k])
      BY <1>4, <3>4
    <3>6. reached[many - (k - 1)] = reached[many - k]
      BY <3>2, <3>5
    <3>7. k - 1 \in T
      BY <3>2, <3>3, <3>6
    <3>8. QED
      BY <3>2, <3>3, <3>7
  <2>2. \A n \in 0..many : IsFiniteSet(reached[n]) /\ Cardinality(reached[n]) \in Nat
    BY <1>7, <1>8, FS_Subset, FS_CardinalityType
  <2>3. Cardinality(reached[0]) >= 1
    <3>1. S # {}
      <4> SUFFICES ASSUME S = {} PROVE FALSE
        OBVIOUS
      <4>1. Grown({}) = {}
        BY DEF Grown, FieldTypes
      <4>2. 0 \in 0..many /\ reached[0] = {}
        BY <1>1, <1>4
      <4>3. QED
        BY <2>1, <4>1, <4>2
    <3>2. 0 \in 0..many
      BY <1>1
    <3>3. Cardinality(S) # 0
      BY <1>4, <2>2, <3>1, <3>2, FS_EmptySet
    <3>4. QED
      BY <1>4, <2>2, <3>2, <3>3
  <2>4. \A n \in 0..many : Cardinality(reached[n]) >= n + 1
    <3> DEFINE T == {n \in 0..many : ~(Cardinality(reached[n]) >= n + 1)}
    <3> SUFFICES ASSUME T # {} PROVE FALSE
      OBVIOUS
    <3>1. PICK n \in T : \A k \in T : n <= k
      <4>1. T \subseteq Nat
        BY <1>1
      <4> HIDE DEF T
      <4>2. QED
        BY <4>1, LeastNatural
    <3>2. n \in 0..many /\ n # 0 /\ ~(n <= n - 1) /\ n - 1 \in 0..many
      BY <1>1, <1>4, <2>3, <3>1
    <3>3. n - 1 \notin T
      BY <3>1, <3>2
    <3>4. Cardinality(reached[n - 1]) >= n
      BY <3>2, <3>3
    <3>5. reached[n - 1] \subseteq reached[n] /\ reached[n - 1] # reached[n]
      BY <1>4, <1>5, <2>1, <3>2
    <3>6. Cardinality(reached[n - 1]) < Cardinality(reached[n])
      BY <2>2, <3>2, <3>5, FS_Subset
    <3>7. QED
      BY <2>2, <3>1, <3>2, <3>4, <3>6
  <2>5. Cardinality(reached[many]) <= Cardinality(All)
    BY <1>1, <1>7, <1>8, FS_Subset
  <2>6. Cardinality(All) \in Nat
    BY <1>7, FS_CardinalityType
  <2>7. QED
    BY <1>1, <1>7, <2>2, <2>4, <2>5, <2>6
<1>10. S \cup ReachableFrom(S) = reached[many]
  BY <1>1, <1>3, <1>8
<1>11. QED
  <2>1. many \in 0..many
    BY <1>1
  <2>2. \A x \in reached[many] : IsEmitted(x)
    BY <1>6, <1>8, <2>1
  <2>3. QED
    BY <1>9, <1>10, <2>2

-----------------------------------------------------------------------------
(***************************************************************************)
(* The generator (Codegen), and what it writes (Emission).                 *)
(***************************************************************************)

(***************************************************************************)
(* Two sequences, one after the other.                                     *)
(***************************************************************************)
LEMMA EndToEnd ==
  ASSUME NEW S, NEW a \in Seq(S), NEW b \in Seq(S)
  PROVE  a \o b \in Seq(S) /\ ToSet(a \o b) = ToSet(a) \cup ToSet(b)
<1>1. a \o b \in Seq(S) /\ Len(a) \in Nat /\ Len(b) \in Nat /\ Len(a \o b) = Len(a) + Len(b)
  OBVIOUS
<1>2. \A k \in 1..Len(a) : (a \o b)[k] = a[k]
  OBVIOUS
<1>3. \A k \in 1..Len(b) : (a \o b)[Len(a) + k] = b[k]
  OBVIOUS
<1>4. \A k \in 1..Len(a \o b) : k \in 1..Len(a) \/ (k - Len(a) \in 1..Len(b) /\ k = Len(a) + (k - Len(a)))
  BY <1>1
<1>5. /\ DOMAIN a = 1..Len(a) /\ DOMAIN b = 1..Len(b)
      /\ DOMAIN (a \o b) = 1..Len(a \o b)
  BY <1>1
<1>6. \A k \in 1..Len(a) : k \in 1..Len(a \o b)
  BY <1>1
<1>7. \A k \in 1..Len(b) : Len(a) + k \in 1..Len(a \o b)
  BY <1>1
<1>8. ToSet(a \o b) \subseteq ToSet(a) \cup ToSet(b)
  BY <1>2, <1>3, <1>4, <1>5 DEF ToSet
<1>9. ToSet(a) \subseteq ToSet(a \o b)
  BY <1>2, <1>5, <1>6 DEF ToSet
<1>10. ToSet(b) \subseteq ToSet(a \o b)
  BY <1>3, <1>5, <1>7 DEF ToSet
<1>11. QED
  BY <1>1, <1>8, <1>9, <1>10

(***************************************************************************)
(* FlattenSeq puts sequences end to end: the function its definition asks  *)
(* for exists.                                                             *)
(***************************************************************************)
LEMMA FlattenExists ==
  ASSUME NEW n \in Nat, NEW s
  PROVE  \E f : f = [i \in 1..n |-> IF i = 1 THEN s[i] ELSE f[i - 1] \o s[i]]
<1> DEFINE Step(g, i) == IF i = 1 THEN s[i] ELSE g[i - 1] \o s[i]
           Upto(g, m) == g = [i \in 1..m |-> Step(g, i)]
           T == {m \in Nat : ~\E g : Upto(g, m)}
<1>1. T = {}
  <2> SUFFICES ASSUME T # {} PROVE FALSE
    OBVIOUS
  <2>1. PICK m \in T : \A k \in T : m <= k
    <3>1. T \subseteq Nat
      OBVIOUS
    <3> HIDE DEF T
    <3>2. QED
      BY <3>1, LeastNatural
  <2>2. CASE m = 0
    <3>1. Upto(<<>>, 0)
      OBVIOUS
    <3>2. QED
      BY <2>1, <2>2, <3>1
  <2>3. CASE m # 0
    <3>1. m \in Nat /\ m - 1 \in Nat /\ ~(m <= m - 1)
      BY <2>1, <2>3
    <3>2. PICK g : Upto(g, m - 1)
      <4> HIDE DEF Upto
      <4>1. m - 1 \notin T
        BY <2>1, <3>1
      <4>2. QED
        BY <3>1, <4>1
    <3>3. PICK h : h = [i \in 1..m |-> IF i = m THEN Step(g, m) ELSE g[i]]
      OBVIOUS
    <3>4. ASSUME NEW i \in 1..m PROVE h[i] = Step(h, i)
      <4>1. i # 1 => i - 1 \in 1..m - 1 /\ h[i - 1] = g[i - 1]
        BY <3>1, <3>3
      <4>2. CASE i = m
        BY <3>1, <3>3, <4>1, <4>2
      <4>3. CASE i # m
        <5>1. i \in 1..m - 1 /\ h[i] = g[i]
          BY <3>1, <3>3, <4>3
        <5>2. g[i] = Step(g, i)
          BY <3>2, <5>1
        <5>3. QED
          BY <4>1, <5>1, <5>2
      <4>4. QED
        BY <4>2, <4>3
    <3>5. h = [i \in 1..m |-> h[i]]
      BY <3>3
    <3>6. Upto(h, m)
      BY <3>4, <3>5
    <3>7. QED
      BY <2>1, <3>6
  <2>4. QED
    BY <2>2, <2>3
<1>2. n \notin T
  BY <1>1
<1>3. QED
  BY <1>2

(***************************************************************************)
(* And its last value has the members of each of the sequences.            *)
(***************************************************************************)
LEMMA FlattenSeqIs ==
  ASSUME NEW S, NEW seqs \in Seq(Seq(S))
  PROVE  /\ FlattenSeq(seqs) \in Seq(S)
         /\ ToSet(FlattenSeq(seqs)) = UNION {ToSet(seqs[i]) : i \in DOMAIN seqs}
<1> DEFINE n == Len(seqs)
<1>1. n \in Nat /\ DOMAIN seqs = 1..n /\ \A i \in 1..n : seqs[i] \in Seq(S)
  OBVIOUS
<1>2. CASE n = 0
  <2>1. seqs = <<>> /\ FlattenSeq(seqs) = seqs
    BY <1>2 DEF FlattenSeq
  <2>2. DOMAIN seqs = {}
    BY <2>1
  <2>3. ToSet(seqs) = {} /\ {ToSet(seqs[i]) : i \in DOMAIN seqs} = {}
    BY <2>2 DEF ToSet
  <2>4. seqs \in Seq(S)
    BY <2>1
  <2>5. QED
    BY <2>1, <2>3, <2>4
<1>3. CASE n # 0
  <2> DEFINE flatten[i \in 1..n] == IF i = 1 THEN seqs[i] ELSE flatten[i - 1] \o seqs[i]
  <2>1. flatten = [i \in 1..n |-> IF i = 1 THEN seqs[i] ELSE flatten[i - 1] \o seqs[i]]
    <3> HIDE DEF n
    <3>1. \E f : f = [i \in 1..n |-> IF i = 1 THEN seqs[i] ELSE f[i - 1] \o seqs[i]]
      BY <1>1, FlattenExists
    <3>2. QED
      BY <3>1
  <2>2. FlattenSeq(seqs) = flatten[n]
    BY <1>3 DEF FlattenSeq
  <2> HIDE DEF flatten, n
  <2>3. \A i \in 1..n : flatten[i] = IF i = 1 THEN seqs[i] ELSE flatten[i - 1] \o seqs[i]
    BY <2>1
  <2> DEFINE Good(i) == /\ flatten[i] \in Seq(S)
                        /\ ToSet(flatten[i]) = UNION {ToSet(seqs[j]) : j \in 1..i}
             T == {i \in 1..n : ~Good(i)}
  <2>4. T = {}
    <3> SUFFICES ASSUME T # {} PROVE FALSE
      OBVIOUS
    <3>1. PICK i \in T : \A k \in T : i <= k
      <4>1. T \subseteq Nat
        BY <1>1
      <4> HIDE DEF T
      <4>2. QED
        BY <4>1, LeastNatural
    <3>2. i \in 1..n /\ i \in Nat /\ ~Good(i)
      BY <1>1, <3>1
    <3>3. CASE i = 1
      <4>1. flatten[1] = seqs[1] /\ seqs[1] \in Seq(S)
        BY <1>1, <2>3, <3>2, <3>3
      <4>2. UNION {ToSet(seqs[j]) : j \in 1..1} = ToSet(seqs[1])
        OBVIOUS
      <4>3. QED
        BY <3>2, <3>3, <4>1, <4>2
    <3>4. CASE i # 1
      <4>1. i - 1 \in 1..n /\ ~(i <= i - 1)
        BY <1>1, <3>2, <3>4
      <4>2. Good(i - 1)
        <5> HIDE DEF Good
        <5>1. i - 1 \notin T
          BY <3>1, <4>1
        <5>2. QED
          BY <4>1, <5>1
      <4> DEFINE a == flatten[i - 1]
                 b == seqs[i]
      <4>3. a \in Seq(S) /\ b \in Seq(S) /\ flatten[i] = a \o b
        BY <1>1, <2>3, <3>2, <3>4, <4>2
      <4> HIDE DEF a, b
      <4>4. a \o b \in Seq(S) /\ ToSet(a \o b) = ToSet(a) \cup ToSet(b)
        BY <4>3, EndToEnd
      <4>5. UNION {ToSet(seqs[j]) : j \in 1..i}
              = (UNION {ToSet(seqs[j]) : j \in 1..i - 1}) \cup ToSet(seqs[i])
        <5>1. 1..i = (1..i - 1) \cup {i}
          BY <3>2
        <5>2. PICK before : before = 1..i - 1
          OBVIOUS
        <5>3. {ToSet(seqs[j]) : j \in before \cup {i}}
                = {ToSet(seqs[j]) : j \in before} \cup {ToSet(seqs[i])}
          OBVIOUS
        <5>4. QED
          <6>1. \A A, x : UNION (A \cup {x}) = (UNION A) \cup x
            OBVIOUS
          <6>2. QED
            BY <5>1, <5>2, <5>3, <6>1
      <4>6. ToSet(flatten[i]) = (UNION {ToSet(seqs[j]) : j \in 1..i - 1}) \cup ToSet(seqs[i])
        <5>1. ToSet(a) = UNION {ToSet(seqs[j]) : j \in 1..i - 1}
          BY <4>2 DEF a
        <5>2. ToSet(b) = ToSet(seqs[i])
          BY DEF b
        <5>3. ToSet(flatten[i]) = ToSet(a) \cup ToSet(b)
          BY <4>3, <4>4
        <5>4. QED
          BY <5>1, <5>2, <5>3
      <4>7. flatten[i] \in Seq(S)
        BY <4>3, <4>4
      <4>8. Good(i)
        BY <4>5, <4>6, <4>7
      <4>9. QED
        BY <3>2, <4>8
    <3>5. QED
      BY <3>3, <3>4
  <2>5. Good(n)
    <3> HIDE DEF Good
    <3>1. n \in 1..n
      BY <1>1, <1>3
    <3>2. QED
      BY <2>4, <3>1
  <2>6. QED
    BY <1>1, <2>2, <2>5
<1>4. QED
  BY <1>2, <1>3

----------------------------------------------------------------------------
(***************************************************************************)
(* The inductive invariant.                                                *)
(***************************************************************************)

\* Where the run is in the input, and what it has resolved by then.
Places ==
  /\ at \in [ns : Nat, ep : Nat]
  /\ resolved \in Seq(ToSet(resolved))
  /\ At("load") => at.ns = 1 /\ at.ep = 1 /\ resolved = <<>>
  /\ pc \in {"endpoint", "fields", "close"} =>
       at.ns = Len(resolved) + 1 /\ at.ns <= Len(input.namespaces)
  /\ pc \in {"endpoint", "fields"} => at.ep \in DOMAIN nsov.endpoints
  /\ At("fields") => epov.function \in DOMAIN input.functions /\ BodyResolves(epov, function)
  /\ pc \in {"emit", "wipe", "write"} => Len(resolved) = Len(input.namespaces)
  /\ pc \in {"wipe", "write"} => resolved # <<>>

\* A name that is in use is that of a model.
Typed ==
  /\ DOMAIN shorts \subseteq Names /\ shorts \in [DOMAIN shorts -> Names]
  /\ ns.routes \in Seq(RouteType) /\ ns.endpoints \in Seq(EndpointType)
  /\ ns.refs \subseteq DOMAIN shorts
  /\ at.ns \in 1..Len(input.namespaces) + 1

\* The calls of emit_struct are under way for as long as an endpoint is, and
\* each type is there for an endpoint's or another type's sake.
Walking ==
  /\ WalkInv
  /\ stack # <<>> => pc \in {"fields", "refused"}
  /\ \A i \in DOMAIN emitted : emitted[i].of \in Met

\* The tree is what is written, and what is not there yet is still to come.
Writing ==
  /\ mishaps \in Nat /\ tree \in [DOMAIN tree -> {"old", "torn", "new"}]
  /\ At("wipe") => unwritten = Files
  /\ At("write") => /\ unwritten \in Seq(ToSet(unwritten))
                    /\ DOMAIN tree \cup ToSet(unwritten) = ToSet(Files)
                    /\ \A f \in DOMAIN tree : tree[f] = "new"
  /\ TreeIsWhole

\* What an endpoint of namespace n was given for a function, and the short name
\* of the struct it returns.
FunctionOf(n, i) == input.functions[input.namespaces[n].endpoints[i].function]
FlatOf(n, i) == RustName(FunctionOf(n, i).returns.of)
ShortOf(n, i) == ShortName(FlatOf(n, i), input.namespaces[n].prefix)
Models(n, i) == IsStruct(FunctionOf(n, i).returns)

\* A route that is declared under the constant, and is the function's own.
RouteDeclared(routes, const, resource) ==
  \E r \in ToSet(routes) : r.const = const /\ r.resource = resource

\* What is known of the endpoints of a namespace that have been seen to: each has
\* its route, and the models it returns are those the namespace refers to, by
\* short names that still stand for what they did when they were given.
Collected ==
  /\ At("load") => ns = NewNamespace
  /\ At("close") => at.ep = Len(nsov.endpoints) + 1
  /\ (At("fields") /\ Models(at.ns, at.ep)) => EmittedIn(emitted, FlatOf(at.ns, at.ep))
  /\ pc \in {"endpoint", "fields", "close"} =>
       /\ Len(ns.endpoints) = at.ep - 1
       /\ ns.routes # <<>> => ns.endpoints # <<>>
       /\ \A i \in DOMAIN ns.endpoints :
            /\ RouteDeclared(ns.routes, ns.endpoints[i].const, FunctionOf(at.ns, i).resource)
            /\ ns.endpoints[i].output # Plain => ns.endpoints[i].output \in ns.refs
            /\ Models(at.ns, i) => ShortOf(at.ns, i) \in ns.refs
       /\ \A s \in ns.refs :
            /\ EmittedIn(emitted, shorts[s])
            /\ \E i \in DOMAIN ns.endpoints :
                 Models(at.ns, i) /\ s = ShortOf(at.ns, i) /\ shorts[s] = FlatOf(at.ns, i)

\* The flat types of a group are emitted, and each struct kept of one is in it.
HoldsTypes(em, exports) ==
  \A e \in exports : \E i \in DOMAIN em :
    /\ em[i].name = e[1]
    /\ \A k \in DOMAIN KeptFields(em[i].of) :
         IsStruct(KeptFields(em[i].of)[k]) =>
           \E x \in exports : x[1] = RustName(KeptFields(em[i].of)[k].of)

\* What is known of the namespaces that are resolved.
Made ==
  \A n \in DOMAIN resolved :
    /\ ToSet(resolved[n].endpoints) # {}
    /\ Imported(ToSet(resolved[n].endpoints)) \subseteq {e[2] : e \in resolved[n].exports}
    /\ HoldsTypes(emitted, resolved[n].exports)
    /\ NamesItsOutputs(n)
    /\ NamesItsRoutes(n)

KnownPc ==
  pc \in {"load", "endpoint", "fields", "close", "emit", "wipe", "write", "ok", "refused",
          "panicked", "failed", "killed"}

----------------------------------------------------------------------------
(***************************************************************************)
(* The parts of the input, each of its type.                               *)
(***************************************************************************)
LEMMA InputParts ==
  ASSUME IsInput(input)
  PROVE  /\ GraphTyped
         /\ input.namespaces \in Seq(NsOverride)
         /\ \A n \in DOMAIN input.namespaces :
              /\ input.namespaces[n] \in NsOverride
              /\ \A e \in DOMAIN input.namespaces[n].endpoints :
                   input.namespaces[n].endpoints[e] \in EndpointOverride
         /\ \A f \in DOMAIN input.functions : input.functions[f] \in FunctionType
<1>1. GraphTyped
  BY DEF IsInput, GraphTyped, types, renames
<1>2. input.namespaces \in Seq(NsOverride)
  BY DEF IsInput
<1>3. \A n \in DOMAIN input.namespaces : input.namespaces[n] \in NsOverride
  BY <1>2
<1>4. \A o \in NsOverride : \A e \in DOMAIN o.endpoints : o.endpoints[e] \in EndpointOverride
  <2>1. \A o \in NsOverride : o.endpoints \in Seq(EndpointOverride)
    BY DEF NsOverride
  <2>2. \A s \in Seq(EndpointOverride) : \A e \in DOMAIN s : s[e] \in EndpointOverride
    OBVIOUS
  <2>3. QED
    BY <2>1, <2>2
<1>5. QED
  BY <1>1, <1>2, <1>3, <1>4 DEF IsInput

(***************************************************************************)
(* Where NextNamespace sends a run that has resolved those before n.       *)
(***************************************************************************)
LEMMA NextIs ==
  ASSUME IsInput(input), NEW n \in Nat, n >= 1, n <= Len(input.namespaces) + 1
  PROVE  /\ NextNamespace(n) \in {"emit", "close", "endpoint"}
         /\ NextNamespace(n) = "emit" => n = Len(input.namespaces) + 1
         /\ NextNamespace(n) # "emit" => n <= Len(input.namespaces) /\ n \in DOMAIN input.namespaces
         /\ NextNamespace(n) = "endpoint" => 1 \in DOMAIN input.namespaces[n].endpoints
<1>1. Len(input.namespaces) \in Nat /\ DOMAIN input.namespaces = 1..Len(input.namespaces)
  BY InputParts
<1>2. CASE n > Len(input.namespaces)
  BY <1>1, <1>2 DEF NextNamespace
<1>3. CASE n <= Len(input.namespaces)
  <2>1. n \in DOMAIN input.namespaces
    BY <1>1, <1>3
  <2>2. input.namespaces[n].endpoints \in Seq(EndpointOverride)
    BY <2>1, InputParts DEF NsOverride
  <2>3. input.namespaces[n].endpoints # <<>> => 1 \in DOMAIN input.namespaces[n].endpoints
    BY <2>2
  <2>4. QED
    BY <1>1, <1>3, <2>1, <2>3 DEF NextNamespace
<1>4. QED
  BY <1>1, <1>2, <1>3

(***************************************************************************)
(* Something appended to a sequence of no particular type.                 *)
(***************************************************************************)
LEMMA AppendAny ==
  ASSUME NEW s, s \in Seq(ToSet(s)), NEW x
  PROVE  /\ Append(s, x) \in Seq(ToSet(Append(s, x))) /\ Append(s, x) # <<>>
         /\ Len(Append(s, x)) = Len(s) + 1
         /\ DOMAIN Append(s, x) = DOMAIN s \cup {Len(s) + 1}
         /\ \A i \in DOMAIN s : Append(s, x)[i] = s[i] /\ i # Len(s) + 1
         /\ Append(s, x)[Len(s) + 1] = x
<1>1. PICK S : S = ToSet(s) \cup {x}
  OBVIOUS
<1>2. s \in Seq(S) /\ x \in S
  <2>1. ToSet(s) \subseteq S /\ x \in S
    BY <1>1
  <2>2. \A A, B : A \subseteq B => Seq(A) \subseteq Seq(B)
    OBVIOUS
  <2>3. QED
    BY <2>1, <2>2
<1>3. PICK t : t = Append(s, x)
  OBVIOUS
<1>4. /\ t \in Seq(S) /\ Len(t) = Len(s) + 1 /\ Len(s) \in Nat
      /\ DOMAIN s = 1..Len(s) /\ DOMAIN t = 1..Len(s) + 1
      /\ \A i \in 1..Len(s) : t[i] = s[i]
      /\ t[Len(s) + 1] = x
  BY <1>2, <1>3
<1>5. t \in Seq(ToSet(t)) /\ t # <<>>
  <2>1. \A i \in 1..Len(t) : t[i] \in ToSet(t)
    BY <1>4 DEF ToSet
  <2>2. QED
    BY <1>4, <2>1
<1>6. DOMAIN t = DOMAIN s \cup {Len(s) + 1} /\ \A i \in DOMAIN s : i # Len(s) + 1
  BY <1>4
<1>7. QED
  BY <1>3, <1>4, <1>5, <1>6

(***************************************************************************)
(* The first state.                                                        *)
(***************************************************************************)
LEMMA InitHolds ==
  ASSUME Init
  PROVE  IsInput(input) /\ Places /\ Typed /\ Walking /\ Writing /\ KnownPc
<1>1. PICK c \in Cases : input = c.input /\ tree = c.tree /\ mishaps = c.mishaps
  BY DEF Init
<1>2. /\ IsInput(input) /\ mishaps \in Nat /\ tree \in [DOMAIN tree -> {"old", "torn", "new"}]
  BY <1>1, CasesAssumption
<1>3. /\ emitted = <<>> /\ stack = <<>> /\ shorts = <<>> /\ pc = "load"
      /\ at = [ns |-> 1, ep |-> 1] /\ ns = NewNamespace /\ resolved = <<>>
  BY DEF Init
<1>4. Len(input.namespaces) \in Nat
  BY <1>2, InputParts
<1>5. Places
  <2>1. resolved \in Seq(ToSet(resolved))
    BY <1>3
  <2>2. QED
    BY <1>3, <2>1 DEF Places, At
<1>6. Typed
  <2>1. DOMAIN shorts = {} /\ shorts \in [DOMAIN shorts -> Names]
    BY <1>3
  <2>2. ns.routes = <<>> /\ ns.endpoints = <<>> /\ ns.refs = {}
    BY <1>3 DEF NewNamespace
  <2>3. at.ns \in 1..Len(input.namespaces) + 1
    BY <1>3, <1>4
  <2>4. QED
    BY <2>1, <2>2, <2>3 DEF Typed
<1>7. Walking
  BY <1>3 DEF Walking, WalkInv, Flat, Framed, Settled
<1>8. Writing /\ KnownPc
  BY <1>2, <1>3 DEF Writing, KnownPc, At, TreeIsWhole
<1>9. QED
  BY <1>2, <1>5, <1>6, <1>7, <1>8

(***************************************************************************)
(* Nothing that was met is forgotten.                                      *)
(***************************************************************************)
LEMMA MetStays ==
  ASSUME UNCHANGED input, Continues(emitted, emitted')
  PROVE  /\ Met \subseteq Met'
         /\ \A n \in DOMAIN input.namespaces : Returned(n) \subseteq Met'
<1>1. \A T : Held(T)' = Held(T)
  BY InputStays DEF Held
<1>2. \A n : Returned(n)' = Returned(n)
  BY DEF Returned
<1>3. \A i \in DOMAIN emitted : i \in DOMAIN emitted' /\ emitted'[i].of = emitted[i].of
  BY DEF Continues
<1>4. \A T : T \in Met => \/ \E n \in DOMAIN input.namespaces : T \in Returned(n)
                          \/ \E i \in DOMAIN emitted : T \in Held(emitted[i].of)
  BY DEF Met
<1>5. \A T : /\ \A n \in DOMAIN input.namespaces : T \in Returned(n) => T \in Met'
             /\ \A i \in DOMAIN emitted' : T \in Held(emitted'[i].of) => T \in Met'
  BY <1>1, <1>2 DEF Met
<1>6. QED
  BY <1>3, <1>4, <1>5

(***************************************************************************)
(* What an endpoint returns is returned in its namespace.                  *)
(***************************************************************************)
LEMMA ReturnsAreReturned ==
  ASSUME at.ns \in DOMAIN input.namespaces, at.ep \in DOMAIN nsov.endpoints,
         IsStruct(function.returns)
  PROVE  function.returns.of \in Returned(at.ns)
BY DEF Returned, function, epov, nsov

(***************************************************************************)
(* The walk, whatever the run does.                                        *)
(***************************************************************************)
LEMMA WalkingStep ==
  ASSUME IsInput(input), Places, Walking, [Next]_vars
  PROVE  Walking' /\ (Again \/ Continues(emitted, emitted'))
<1>1. UNCHANGED input
  BY DEF Next, Tool, Load, Endpoint, Fields, Output, Close, Emit, Wipe, Write, Format, Again,
         Goes, Refuse, Mishap, vars
<1>2. GraphTyped
  BY InputParts
<1>3. ASSUME UNCHANGED <<emitted, stack>>, stack # <<>> => pc' \in {"fields", "refused"}
      PROVE  Walking' /\ Continues(emitted, emitted')
  <2>1. WalkInv'
    BY <1>1, <1>3, InputStays DEF Walking, WalkInv
  <2>2. Met \subseteq Met'
    BY <1>1, <1>3, MetStays DEF Continues
  <2>3. QED
    BY <1>3, <2>1, <2>2 DEF Walking, Continues
<1>4. ASSUME Flat(emitted'), Framed(emitted', stack'), Settled(emitted', stack'),
             Continues(emitted, emitted'), pc' = "fields",
             \A i \in DOMAIN emitted' : i \in DOMAIN emitted \/ emitted'[i].of \in Met'
      PROVE  Walking' /\ Continues(emitted, emitted')
  <2>1. WalkInv'
    BY <1>1, <1>4, InputStays
  <2>2. \A i \in DOMAIN emitted' : emitted'[i].of \in Met'
    BY <1>1, <1>4, MetStays DEF Walking, Continues
  <2>3. QED
    BY <1>4, <2>1, <2>2 DEF Walking
<1>5. CASE Endpoint
  <2>1. CASE pc' = "refused"
    <3>1. UNCHANGED <<emitted, stack>>
      BY <1>5, <2>1 DEF Endpoint, Goes, Refuse, walk
    <3>2. QED
      BY <1>3, <2>1, <3>1
  <2>2. CASE pc' # "refused"
    <3>1. /\ pc' = "fields" /\ pc = "endpoint" /\ OutputResolves(function.returns)
          /\ IF IsStruct(function.returns) THEN EmitStruct(function.returns.of, <<>>)
             ELSE UNCHANGED <<emitted, stack>>
      BY <1>5, <2>2 DEF Endpoint, Goes, Refuse, At
    <3>2. CASE ~IsStruct(function.returns)
      BY <1>3, <3>1, <3>2
    <3>3. CASE IsStruct(function.returns)
      <4>1. stack = <<>>
        BY <3>1 DEF Walking
      <4>2. PICK T : T = function.returns.of
        OBVIOUS
      <4>3. T \in DOMAIN types /\ (KeepsKnown(T) \/ IsEmitted(RustName(T)))
        BY <3>1, <3>3, <4>2 DEF OutputResolves
      <4>4. <<>> \in Seq(FrameType) /\ Settled(emitted, <<>>) /\ Flat(emitted)
        BY <4>1 DEF Walking, WalkInv
      <4>5. EmitStruct(T, <<>>)
        BY <3>1, <3>3, <4>2
      <4>6. /\ Flat(emitted') /\ Settled(emitted', stack') /\ stack' \in Seq(FrameType)
            /\ Continues(emitted, emitted')
            /\ \A i \in DOMAIN emitted' : i \in DOMAIN emitted \/ emitted'[i].of = T
            /\ \A c \in DOMAIN stack' :
                 \/ c \in DOMAIN <<>> /\ stack'[c] = (<<>>)[c]
                 \/ Partial(emitted', stack'[c])
        BY <1>2, <4>3, <4>4, <4>5, EmitKeeps
      <4>7. Framed(emitted', stack')
        BY <4>6 DEF Framed
      <4>8. T \in Met'
        <5>1. at.ns \in DOMAIN input.namespaces /\ at.ep \in DOMAIN nsov.endpoints
          BY <3>1, InputParts DEF Places
        <5>2. QED
          BY <1>1, <3>3, <4>2, <4>6, <5>1, ReturnsAreReturned, MetStays
      <4>9. QED
        BY <1>4, <3>1, <4>6, <4>7, <4>8
    <3>4. QED
      BY <3>2, <3>3
  <2>3. QED
    BY <2>1, <2>2
<1>6. CASE Fields
  <2>1. CASE pc' = "refused"
    <3>1. UNCHANGED <<emitted, stack>>
      BY <1>6, <2>1 DEF Fields, Goes, Refuse, walk
    <3>2. QED
      BY <1>3, <2>1, <3>1
  <2>2. CASE pc' # "refused"
    <3>1. pc' = "fields" /\ stack # <<>> /\ (FillSlot \/ NextField)
      BY <1>6, <2>2 DEF Fields, Goes, Refuse
    <3>2. CASE FillSlot
      <4>1. /\ Flat(emitted') /\ Framed(emitted', stack') /\ Settled(emitted', stack')
            /\ Continues(emitted, emitted') /\ DOMAIN emitted' = DOMAIN emitted
        BY <1>2, <3>1, <3>2, FillKeeps DEF Walking
      <4>2. QED
        BY <1>4, <3>1, <4>1
    <3>3. CASE NextField
      <4>1. /\ Flat(emitted') /\ Framed(emitted', stack') /\ Settled(emitted', stack')
            /\ Continues(emitted, emitted')
            /\ \A i \in DOMAIN emitted' :
                 \/ i \in DOMAIN emitted
                 \/ \E j \in DOMAIN emitted : \E k \in DOMAIN KeptFields(emitted[j].of) :
                      emitted'[i].of = KeptFields(emitted[j].of)[k].of
        BY <1>2, <3>1, <3>3, FieldKeeps DEF Walking
      <4>2. \A i \in DOMAIN emitted' : i \in DOMAIN emitted \/ emitted'[i].of \in Met
        BY <4>1 DEF Met, Held
      <4>3. \A i \in DOMAIN emitted' : i \in DOMAIN emitted \/ emitted'[i].of \in Met'
        BY <1>1, <4>1, <4>2, MetStays
      <4>4. QED
        BY <1>4, <3>1, <4>1, <4>3
    <3>4. QED
      BY <3>1, <3>2, <3>3
  <2>3. QED
    BY <2>1, <2>2
<1>7. CASE Again
  <2>1. emitted' = <<>> /\ stack' = <<>>
    BY <1>7 DEF Again
  <2>2. Flat(<<>>) /\ Framed(<<>>, <<>>) /\ Settled(<<>>, <<>>)
    BY DEF Flat, Framed, Settled
  <2>3. WalkInv'
    BY <1>1, <2>1, <2>2, InputStays
  <2>4. QED
    BY <1>7, <2>1, <2>3 DEF Walking
<1>8. CASE Output
  <2>1. UNCHANGED <<emitted, stack>> /\ stack = <<>>
    BY <1>8 DEF Output, Refuse, walk
  <2>2. QED
    BY <1>3, <2>1
<1>9. CASE Load \/ Close \/ Emit \/ Wipe \/ Write \/ Format
  <2>1. UNCHANGED <<emitted, stack>>
    BY <1>9 DEF Load, Close, Emit, Wipe, Write, Format, Refuse, walk
  <2>2. stack = <<>>
    BY <1>9 DEF Load, Close, Emit, Wipe, Write, Format, At, Walking
  <2>3. QED
    BY <1>3, <2>1, <2>2
<1>10. CASE UNCHANGED vars
  BY <1>3, <1>10 DEF vars, walk, Walking
<1>11. QED
  BY <1>5, <1>6, <1>7, <1>8, <1>9, <1>10 DEF Next, Tool

(***************************************************************************)
(* With no call under way, every type is there once and wholly.            *)
(***************************************************************************)
LEMMA WalkEnds ==
  ASSUME IsInput(input), Walking, stack = <<>>, NamesAreDistinct, NEW i \in DOMAIN emitted
  PROVE  Modelled(emitted[i])
<1> DEFINE e == emitted[i]
           kept == KeptFields(e.of)
<1>1. e.filled /\ Whole(emitted, e)
  BY DEF Walking, WalkInv, Settled
<1>2. e \in FlatType /\ kept \in Seq(TypeRef)
  <2>1. e.of \in DOMAIN types /\ KeepsKnown(e.of) /\ e \in FlatType
    BY DEF Walking, WalkInv, Flat
  <2>2. QED
    BY <2>1, InputParts, KeptIsTyped
<1>3. Len(e.fields) = Len(kept) /\ e.fields \in Seq(TypeRef)
  BY <1>1, <1>2 DEF Whole, FlatType
<1>4. ASSUME NEW k \in DOMAIN e.fields, IsStruct(kept[k])
      PROVE  \E j \in DOMAIN emitted : emitted[j].name = e.fields[k].of /\ emitted[j].of = kept[k].of
  <2>1. k \in DOMAIN kept /\ kept[k] \in TypeRef
    BY <1>2, <1>3
  <2>2. e.fields[k] = Named(kept[k]) /\ EmittedIn(emitted, RustName(kept[k].of))
    BY <1>1, <1>4 DEF Whole, Rendered
  <2>3. e.fields[k].of = RustName(kept[k].of)
    BY <1>4, <2>1, <2>2 DEF Named, TypeRef
  <2>4. PICK j \in DOMAIN emitted : emitted[j].name = RustName(kept[k].of)
    BY <2>2 DEF EmittedIn
  <2>5. emitted[j].name = RustName(emitted[j].of) /\ emitted[j].of \in Met
    BY DEF Walking, WalkInv, Flat
  <2>6. kept[k].of \in Met
    <3>1. kept[k].of \in Held(e.of)
      BY <2>1 DEF Held
    <3>2. QED
      BY <3>1 DEF Met
  <2>7. emitted[j].of = kept[k].of
    BY <2>4, <2>5, <2>6 DEF NamesAreDistinct
  <2>8. QED
    BY <2>3, <2>4, <2>7
<1>5. QED
  BY <1>1, <1>3, <1>4 DEF Modelled

(***************************************************************************)
(* Where the run is, whatever it does.                                     *)
(***************************************************************************)
LEMMA InputKept ==
  ASSUME [Next]_vars
  PROVE  UNCHANGED input
BY DEF Next, Tool, Load, Endpoint, Fields, Output, Close, Emit, Wipe, Write, Format, Again,
       Goes, Refuse, Mishap, vars

\* The run keeps its place in the input, an endpoint and a namespace at a time.
LEMMA PlacesStep ==
  ASSUME IsInput(input), Places, [Next]_vars
  PROVE  Places'
<1> DEFINE many == Len(input.namespaces)
<1>1. UNCHANGED input
  BY InputKept
<1>2. many \in Nat /\ DOMAIN input.namespaces = 1..many
  BY InputParts
<1>3. ASSUME UNCHANGED <<at, resolved>>,
             pc' \in {"ok", "refused", "panicked", "failed", "killed"}
      PROVE  Places'
  BY <1>3 DEF Places, At
<1>4. ASSUME UNCHANGED <<at, resolved>>, pc' = pc
      PROVE  Places'
  BY <1>1, <1>4 DEF Places, At, nsov, epov, function
<1>5. ASSUME UNCHANGED <<at, resolved>>, pc' \in {"wipe", "write"}, resolved # <<>>,
             Len(resolved) = many
      PROVE  Places'
  BY <1>1, <1>5 DEF Places, At
<1>6. CASE Load
  <2>1. UNCHANGED <<at, resolved>> /\ at.ns = 1 /\ at.ep = 1 /\ resolved = <<>>
    BY <1>6 DEF Load, Refuse, places, Places
  <2>2. CASE pc' = "refused"
    BY <1>3, <2>1, <2>2
  <2>3. CASE pc' # "refused"
    <3>1. pc' = NextNamespace(1)
      BY <1>6, <2>3 DEF Load, Goes, Refuse
    <3>2. /\ pc' \in {"emit", "close", "endpoint"}
          /\ pc' = "emit" => many = 0
          /\ pc' # "emit" => 1 <= many
          /\ pc' = "endpoint" => 1 \in DOMAIN input.namespaces[1].endpoints
      BY <1>2, <3>1, NextIs
    <3>3. Len(resolved) = 0
      BY <2>1
    <3>4. QED
      BY <1>1, <2>1, <3>2, <3>3 DEF Places, At, nsov
  <2>4. QED
    BY <2>2, <2>3
<1>7. CASE Endpoint
  <2>1. UNCHANGED <<at, resolved>>
    BY <1>7 DEF Endpoint, Refuse, places
  <2>2. CASE pc' = "refused"
    BY <1>3, <2>1, <2>2
  <2>3. CASE pc' # "refused"
    <3>1. /\ pc = "endpoint" /\ pc' = "fields"
          /\ epov.function \in DOMAIN input.functions /\ BodyResolves(epov, function)
      BY <1>7, <2>3 DEF Endpoint, Goes, Refuse, At
    <3>2. nsov' = nsov /\ epov' = epov /\ function' = function
      BY <1>1, <2>1 DEF nsov, epov, function
    <3>3. BodyResolves(epov, function)'
      BY <3>1, <3>2 DEF BodyResolves
    <3>4. QED
      BY <1>1, <2>1, <3>1, <3>2, <3>3 DEF Places, At
  <2>4. QED
    BY <2>2, <2>3
<1>8. CASE Fields
  <2>1. UNCHANGED <<at, resolved>> /\ pc = "fields" /\ pc' \in {"fields", "refused"}
    BY <1>8 DEF Fields, Refuse, places, At, Goes
  <2>2. QED
    BY <1>3, <1>4, <2>1
<1>9. CASE Output
  <2>1. CASE pc' = "refused"
    <3>1. UNCHANGED <<at, resolved>>
      BY <1>9, <2>1 DEF Output, Refuse, Goes, places
    <3>2. QED
      BY <1>3, <2>1, <3>1
  <2>2. CASE pc' # "refused"
    <3>1. /\ pc = "fields" /\ UNCHANGED resolved /\ at' = [at EXCEPT !.ep = @ + 1]
          /\ pc' = IF at.ep = Len(nsov.endpoints) THEN "close" ELSE "endpoint"
      BY <1>9, <2>2 DEF Output, Refuse, Goes, At
    <3>2. /\ at.ns \in Nat /\ at.ep \in Nat /\ at.ep \in DOMAIN nsov.endpoints
          /\ at.ns = Len(resolved) + 1 /\ at.ns <= many
      BY <3>1 DEF Places
    <3>3. at' \in [ns : Nat, ep : Nat] /\ at'.ns = at.ns /\ at'.ep = at.ep + 1
      BY <3>1, <3>2 DEF Places
    <3>4. nsov' = nsov
      BY <1>1, <3>3 DEF nsov
    <3>5. nsov.endpoints \in Seq(EndpointOverride)
      <4>1. at.ns \in DOMAIN input.namespaces
        BY <1>2, <3>2 DEF Places
      <4>2. QED
        BY <4>1, InputParts DEF nsov, NsOverride
    <3>6. at.ep # Len(nsov.endpoints) => at.ep + 1 \in DOMAIN nsov.endpoints
      BY <3>2, <3>5
    <3>7. QED
      BY <1>1, <3>1, <3>2, <3>3, <3>4, <3>6 DEF Places, At
  <2>3. QED
    BY <2>1, <2>2
<1>10. CASE Close
  <2>1. CASE pc' = "refused"
    <3>1. UNCHANGED <<at, resolved>>
      <4>1. Refuse \/ pc' = NextNamespace(at.ns + 1)
        BY <1>10 DEF Close, Goes
      <4>2. NextNamespace(at.ns + 1) # "refused"
        BY DEF NextNamespace
      <4>3. QED
        BY <2>1, <4>1, <4>2 DEF Refuse, places
    <3>2. QED
      BY <1>3, <2>1, <3>1
  <2>2. CASE pc' # "refused"
    <3>1. PICK exports : /\ pc = "close" /\ pc' = NextNamespace(at.ns + 1)
                         /\ at' = [ns |-> at.ns + 1, ep |-> 1]
                         /\ resolved' = Append(resolved,
                              [module |-> nsov.module, routes |-> ns.routes,
                               endpoints |-> ns.endpoints, timeout |-> nsov.timeout,
                               exports |-> exports])
      BY <1>10, <2>2 DEF Close, Refuse, Goes, At
    <3>2. PICK n : n = at.ns + 1
      OBVIOUS
    <3>3. at.ns \in Nat /\ at.ns = Len(resolved) + 1 /\ at.ns <= many
      BY <3>1 DEF Places
    <3>4. Len(resolved) \in Nat
      BY DEF Places
    <3>5. n \in Nat /\ n >= 1 /\ n <= many + 1
      BY <1>2, <3>2, <3>3
    <3>6. /\ pc' \in {"emit", "close", "endpoint"}
          /\ pc' = "emit" => n = many + 1
          /\ pc' # "emit" => n <= many
          /\ pc' = "endpoint" => 1 \in DOMAIN input.namespaces[n].endpoints
      BY <3>1, <3>2, <3>5, NextIs
    <3>7. at'.ns = n /\ at'.ep = 1 /\ at' \in [ns : Nat, ep : Nat]
      BY <3>1, <3>2, <3>5
    <3>8. /\ resolved' \in Seq(ToSet(resolved')) /\ Len(resolved') = Len(resolved) + 1
          /\ resolved' # <<>>
      BY <3>1, AppendAny DEF Places
    <3>9. pc' = "endpoint" => at'.ep \in DOMAIN nsov'.endpoints
      BY <1>1, <3>6, <3>7 DEF nsov
    <3>10. QED
      <4>1. Len(resolved') = n - 1
        BY <3>2, <3>3, <3>4, <3>8
      <4>2. at'.ns = Len(resolved') + 1 /\ (pc' = "emit" => Len(resolved') = many)
        BY <1>2, <3>5, <3>6, <3>7, <4>1
      <4>3. QED
        BY <1>1, <3>6, <3>7, <3>8, <3>9, <4>2 DEF Places, At
  <2>3. QED
    BY <2>1, <2>2
<1>11. CASE Emit
  <2>1. UNCHANGED <<at, resolved>> /\ Len(resolved) = many
    BY <1>11 DEF Emit, places, At, Places
  <2>2. pc' = "panicked" \/ (pc' = "wipe" /\ resolved # <<>>)
    BY <1>11 DEF Emit, Goes
  <2>3. QED
    BY <1>3, <1>5, <2>1, <2>2
<1>12. CASE Wipe \/ Write \/ Format
  <2>1. UNCHANGED <<at, resolved>> /\ Len(resolved) = many /\ resolved # <<>>
    BY <1>12 DEF Wipe, Write, Format, places, At, Places
  <2>2. pc' \in {"write", "ok", "failed", "killed"}
    BY <1>12 DEF Wipe, Write, Format, Mishap, Goes
  <2>3. QED
    BY <1>3, <1>5, <2>1, <2>2
<1>13. CASE Again
  <2>1. pc' = "load" /\ at' = [ns |-> 1, ep |-> 1] /\ resolved' = <<>>
    BY <1>13 DEF Again, Goes
  <2>2. resolved' \in Seq(ToSet(resolved'))
    BY <2>1
  <2>3. QED
    BY <2>1, <2>2 DEF Places, At
<1>14. CASE UNCHANGED vars
  BY <1>4, <1>14 DEF vars, places
<1>15. QED
  BY <1>6, <1>7, <1>8, <1>9, <1>10, <1>11, <1>12, <1>13, <1>14 DEF Next, Tool

(***************************************************************************)
(* Names made from names, and the records made of them.                    *)
(***************************************************************************)
LEMMA ShortIsAName ==
  ASSUME NEW flat \in Names, NEW prefix \in Names
  PROVE  ShortName(flat, prefix) \in Names
<1>1. CASE IsPrefix(prefix, flat) /\ flat # prefix
  <2>1. /\ Len(prefix) + 1 \in Int /\ Len(flat) \in Int
        /\ \A i \in Len(prefix) + 1..Len(flat) : flat[i] \in STRING
    BY DEF Names
  <2>2. SubSeq(flat, Len(prefix) + 1, Len(flat)) \in Seq(STRING)
    BY <2>1, SubSeqProperties
  <2>3. QED
    BY <1>1, <2>2 DEF ShortName, Names
<1>2. CASE ~(IsPrefix(prefix, flat) /\ flat # prefix)
  BY <1>2 DEF ShortName
<1>3. QED
  BY <1>1, <1>2

\* A route as Output makes it.
LEMMA RouteMade ==
  ASSUME NEW const \in STRING, NEW resource \in STRING, NEW version \in Nat, NEW doc \in STRING
  PROVE  [const |-> const, resource |-> resource, version |-> version, doc |-> doc] \in RouteType
BY DEF RouteType

\* An endpoint as Output makes it.
LEMMA EndpointMade ==
  ASSUME NEW name \in STRING, NEW const \in STRING, NEW verb \in STRING,
         NEW body \in {"none", "empty-string", "empty-object", "bare"}, NEW timeout \in STRING,
         NEW params \in Nat, NEW wrap \in Wraps, NEW output \in Names
  PROVE  [name |-> name, const |-> const, verb |-> verb, body |-> body, timeout |-> timeout,
          params |-> params, wrap |-> wrap, output |-> output] \in EndpointType
BY DEF EndpointType

\* The namespace, the endpoint and the function at hand, each of its type.
LEMMA AtHand ==
  ASSUME IsInput(input), Places
  PROVE  /\ pc \in {"endpoint", "fields", "close"} =>
              /\ at.ns \in DOMAIN input.namespaces /\ nsov \in NsOverride
              /\ nsov.endpoints \in Seq(EndpointOverride)
         /\ pc \in {"endpoint", "fields"} => epov \in EndpointOverride
         /\ pc = "fields" => function \in FunctionType /\ BodyResolves(epov, function)
<1>1. Len(input.namespaces) \in Nat /\ DOMAIN input.namespaces = 1..Len(input.namespaces)
  BY InputParts
<1>2. ASSUME pc \in {"endpoint", "fields", "close"}
      PROVE  at.ns \in DOMAIN input.namespaces /\ nsov \in NsOverride
  <2>1. at.ns = Len(resolved) + 1 /\ at.ns <= Len(input.namespaces) /\ Len(resolved) \in Nat
    BY <1>2 DEF Places
  <2>2. at.ns \in DOMAIN input.namespaces
    BY <1>1, <2>1
  <2>3. QED
    BY <2>2, InputParts DEF nsov
<1>3. \A o \in NsOverride : o.endpoints \in Seq(EndpointOverride)
  BY DEF NsOverride
<1>4. ASSUME pc \in {"endpoint", "fields"} PROVE epov \in EndpointOverride
  <2>1. at.ns \in DOMAIN input.namespaces /\ at.ep \in DOMAIN nsov.endpoints
    BY <1>2, <1>4 DEF Places
  <2>2. QED
    BY <2>1, InputParts DEF nsov, epov
<1>5. ASSUME pc = "fields" PROVE function \in FunctionType /\ BodyResolves(epov, function)
  <2>1. epov.function \in DOMAIN input.functions /\ BodyResolves(epov, function)
    BY <1>5 DEF Places, At
  <2>2. QED
    BY <2>1, InputParts DEF function
<1>6. QED
  BY <1>2, <1>3, <1>4, <1>5

(***************************************************************************)
(* The names and what is resolved of a namespace, whatever the run does.   *)
(***************************************************************************)
LEMMA TypedStep ==
  ASSUME IsInput(input), Places, Typed, [Next]_vars
  PROVE  Typed'
<1>1. UNCHANGED input
  BY InputKept
<1>2. Len(input.namespaces) \in Nat /\ 1 \in 1..Len(input.namespaces) + 1
  BY InputParts
<1>3. ASSUME UNCHANGED <<shorts, ns>>, at'.ns \in 1..Len(input.namespaces) + 1
      PROVE  Typed'
  BY <1>1, <1>3 DEF Typed
<1>4. ASSUME UNCHANGED shorts, ns' = NewNamespace, at'.ns \in 1..Len(input.namespaces) + 1
      PROVE  Typed'
  <2>1. ns'.routes = <<>> /\ ns'.endpoints = <<>> /\ ns'.refs = {}
    BY <1>4 DEF NewNamespace
  <2>2. QED
    BY <1>1, <1>4, <2>1 DEF Typed
<1>5. CASE Output /\ pc' # "refused"
  <2> DEFINE ref == function.returns
             flat == RustName(ref.of)
             short == ShortName(flat, nsov.prefix)
             same == {i \in DOMAIN ns.routes : SameRoute(ns.routes[i], function)}
             new == [const |-> epov.name, resource |-> function.resource,
                     version |-> function.version, doc |-> epov.routeDoc]
             route == IF same = {} THEN new
                      ELSE ns.routes[CHOOSE i \in same : \A j \in same : i <= j]
             entry == [name |-> epov.name, const |-> route.const, verb |-> function.verb,
                       body |-> BodyKind(epov, function), timeout |-> epov.timeout,
                       params |-> function.params, wrap |-> ref.wrap,
                       output |-> IF IsStruct(ref) THEN short ELSE Plain]
             refs == ns.refs \cup IF IsStruct(ref) THEN {short} ELSE {}
             later == [routes |-> IF same = {} THEN Append(ns.routes, route) ELSE ns.routes,
                       endpoints |-> Append(ns.endpoints, entry),
                       refs |-> refs]
  <2>1. /\ pc = "fields"
        /\ shorts' = IF IsStruct(ref) THEN Remembered(short, flat) ELSE shorts
        /\ ns' = later
        /\ at' = [at EXCEPT !.ep = @ + 1]
    BY <1>5 DEF Output, Refuse, Goes, At
  <2>2. /\ nsov \in NsOverride /\ epov \in EndpointOverride /\ function \in FunctionType
        /\ BodyResolves(epov, function)
    BY <2>1, AtHand
  <2>3. /\ nsov.prefix \in Names
        /\ epov.name \in STRING /\ epov.routeDoc \in STRING /\ epov.timeout \in STRING
        /\ function.resource \in STRING /\ function.verb \in STRING
        /\ function.version \in Nat /\ function.params \in Nat /\ ref \in TypeRef
    BY <2>2 DEF NsOverride, EndpointOverride, FunctionType
  <2>4. ref.wrap \in Wraps /\ flat \in Names /\ Plain \in Names
    <3>1. ref.wrap \in Wraps
      BY <2>3 DEF TypeRef
    <3>2. GraphTyped /\ <<>> \in Seq(STRING)
      BY InputParts
    <3>3. flat \in Names
      BY <2>3, <3>2, NamedIsTyped
    <3>4. QED
      BY <3>1, <3>2, <3>3 DEF Plain, Names
  <2>5. short \in Names
    BY <2>3, <2>4, ShortIsAName
  <2>6. BodyKind(epov, function) \in {"none", "empty-string", "empty-object", "bare"}
    BY <2>2 DEF BodyKind, BodyResolves
  <2>7. new \in RouteType
    BY <2>3, RouteMade
  <2>8. \A i \in same : ns.routes[i] \in RouteType
    BY DEF Typed
  <2>9. same # {} => (CHOOSE i \in same : \A j \in same : i <= j) \in same
    <3>1. same \subseteq Nat
      BY DEF Typed
    <3> HIDE DEF same
    <3>2. QED
      BY <3>1, LeastNatural
  <2> HIDE DEF new, same
  <2>10. route \in RouteType
    BY <2>7, <2>8, <2>9
  <2> HIDE DEF route
  <2>11. route.const \in STRING
    BY <2>10 DEF RouteType
  <2> HIDE DEF ref, flat, short
  <2>12. PICK output : output = IF IsStruct(ref) THEN short ELSE Plain
    OBVIOUS
  <2>13. output \in Names
    BY <2>4, <2>5, <2>12
  <2>14. entry \in EndpointType
    BY <2>3, <2>4, <2>6, <2>11, <2>12, <2>13, EndpointMade
  <2> HIDE DEF entry, refs
  <2>15. /\ ns'.routes = IF same = {} THEN Append(ns.routes, route) ELSE ns.routes
         /\ ns'.endpoints = Append(ns.endpoints, entry)
         /\ ns'.refs = refs
    BY <2>1
  <2>16. ns'.routes \in Seq(RouteType) /\ ns'.endpoints \in Seq(EndpointType)
    BY <2>10, <2>14, <2>15 DEF Typed
  <2>17. /\ DOMAIN shorts' \subseteq Names /\ shorts' \in [DOMAIN shorts' -> Names]
         /\ DOMAIN shorts' = DOMAIN shorts \cup IF IsStruct(ref) THEN {short} ELSE {}
    <3>1. CASE IsStruct(ref)
      <4>1. shorts' = [s \in DOMAIN shorts \cup {short} |-> IF s = short THEN flat ELSE shorts[s]]
        BY <2>1, <3>1 DEF Remembered
      <4>2. QED
        BY <2>4, <2>5, <3>1, <4>1 DEF Typed
    <3>2. CASE ~IsStruct(ref)
      BY <2>1, <3>2 DEF Typed
    <3>3. QED
      BY <3>1, <3>2
  <2>18. ns'.refs \subseteq DOMAIN shorts'
    BY <2>15, <2>17 DEF Typed, refs
  <2>19. at'.ns \in 1..Len(input.namespaces) + 1
    <3>1. at'.ns = at.ns
      BY <2>1 DEF Places
    <3>2. QED
      BY <3>1 DEF Typed
  <2>20. QED
    BY <1>1, <2>16, <2>17, <2>18, <2>19 DEF Typed
<1>6. CASE Output /\ pc' = "refused"
  <2>1. UNCHANGED <<shorts, ns, at>>
    BY <1>6 DEF Output, Refuse, Goes, walk, places
  <2>2. QED
    BY <1>3, <2>1 DEF Typed
<1>7. CASE Close
  <2>1. CASE UNCHANGED <<shorts, ns, at>>
    BY <1>3, <2>1 DEF Typed
  <2>2. CASE ~UNCHANGED <<shorts, ns, at>>
    <3>1. /\ pc = "close" /\ ns' = NewNamespace /\ UNCHANGED shorts
          /\ at' = [ns |-> at.ns + 1, ep |-> 1]
      BY <1>7, <2>2 DEF Close, Refuse, walk, places, At
    <3>2. at.ns \in Nat /\ at.ns <= Len(input.namespaces)
      BY <3>1 DEF Places
    <3>3. at'.ns = at.ns + 1
      BY <3>1
    <3>4. at'.ns \in 1..Len(input.namespaces) + 1
      BY <1>2, <3>2, <3>3
    <3>5. QED
      BY <1>4, <3>1, <3>4
  <2>3. QED
    BY <2>1, <2>2
<1>8. CASE Load \/ Endpoint \/ Fields \/ Emit \/ Wipe \/ Write \/ Format
  <2>1. UNCHANGED <<shorts, ns, at>>
    BY <1>8 DEF Load, Endpoint, Fields, Emit, Wipe, Write, Format, Refuse, walk, places
  <2>2. QED
    BY <1>3, <2>1 DEF Typed
<1>9. CASE Again
  <2>1. shorts' = <<>> /\ ns' = NewNamespace /\ at' = [ns |-> 1, ep |-> 1]
    BY <1>9 DEF Again
  <2>2. DOMAIN shorts' = {} /\ shorts' \in [DOMAIN shorts' -> Names]
    BY <2>1
  <2>3. ns'.routes = <<>> /\ ns'.endpoints = <<>> /\ ns'.refs = {}
    BY <2>1 DEF NewNamespace
  <2>4. at'.ns \in 1..Len(input.namespaces) + 1
    BY <1>2, <2>1
  <2>5. QED
    BY <1>1, <2>2, <2>3, <2>4 DEF Typed
<1>10. CASE UNCHANGED vars
  BY <1>3, <1>10 DEF vars, walk, places, Typed
<1>11. QED
  BY <1>5, <1>6, <1>7, <1>8, <1>9, <1>10 DEF Next, Tool

(***************************************************************************)
(* A sequence whose type is known is one of its own members.               *)
(***************************************************************************)
LEMMA OfItsMembers ==
  ASSUME NEW S, NEW s \in Seq(S)
  PROVE  s \in Seq(ToSet(s))
<1>1. \A i \in 1..Len(s) : s[i] \in ToSet(s)
  BY DEF ToSet
<1>2. QED
  BY <1>1

(***************************************************************************)
(* The first of a sequence, which is taken from it, and the others.        *)
(***************************************************************************)
LEMMA HeadAndTail ==
  ASSUME NEW s, s \in Seq(ToSet(s)), s # <<>>
  PROVE  /\ Tail(s) \in Seq(ToSet(Tail(s)))
         /\ ToSet(s) = {Head(s)} \cup ToSet(Tail(s))
<1>1. PICK S : S = ToSet(s)
  OBVIOUS
<1>2. s \in Seq(S)
  BY <1>1
<1>3. PICK t : t = Tail(s)
  OBVIOUS
<1>4. /\ t \in Seq(S) /\ Len(t) = Len(s) - 1 /\ Len(s) \in Nat /\ Len(s) >= 1
      /\ DOMAIN s = 1..Len(s) /\ DOMAIN t = 1..Len(t)
      /\ \A i \in 1..Len(t) : t[i] = s[i + 1]
      /\ Head(s) = s[1]
  BY <1>2, <1>3, HeadTailProperties
<1>5. t \in Seq(ToSet(t))
  BY <1>4, OfItsMembers
<1>6. \A i \in DOMAIN s : i = 1 \/ (i - 1 \in DOMAIN t /\ s[i] = t[i - 1])
  BY <1>4
<1>7. 1 \in DOMAIN s /\ \A i \in DOMAIN t : i + 1 \in DOMAIN s /\ t[i] = s[i + 1]
  BY <1>4
<1>8. ToSet(s) \subseteq {Head(s)} \cup ToSet(t)
  <2>1. \A i \in DOMAIN s : s[i] = Head(s) \/ \E k \in DOMAIN t : s[i] = t[k]
    BY <1>4, <1>6
  <2>2. QED
    BY <2>1 DEF ToSet
<1>9. {Head(s)} \cup ToSet(t) \subseteq ToSet(s)
  <2>1. Head(s) \in ToSet(s)
    BY <1>4, <1>7 DEF ToSet
  <2>2. ToSet(t) \subseteq ToSet(s)
    BY <1>7 DEF ToSet
  <2>3. QED
    BY <2>1, <2>2
<1>10. QED
  BY <1>3, <1>5, <1>8, <1>9

(***************************************************************************)
(* The files of each namespace and of each group, and those between them,  *)
(* are sequences over one set.                                             *)
(***************************************************************************)
LEMMA FilesAreTyped ==
  ASSUME Places
  PROVE  \E S, spaces, groups :
           /\ spaces = [i \in DOMAIN resolved |-> NamespaceFiles(resolved[i].module)]
           /\ groups = [i \in DOMAIN resolved |-> GroupFiles(resolved[i])]
           /\ spaces \in Seq(Seq(S)) /\ groups \in Seq(Seq(S))
           /\ <<<<"lib.rs">>, <<"namespaces", "mod.rs">>>> \in Seq(S)
           /\ <<<<"models", "mod.rs">>, <<"models", "flat.rs">>>> \in Seq(S)
<1>1. resolved \in Seq(ToSet(resolved))
  BY DEF Places
<1>2. Len(resolved) \in Nat /\ DOMAIN resolved = 1..Len(resolved)
  BY <1>1
<1>3. PICK spaces : spaces = [i \in DOMAIN resolved |-> NamespaceFiles(resolved[i].module)]
  OBVIOUS
<1>4. PICK groups : groups = [i \in DOMAIN resolved |-> GroupFiles(resolved[i])]
  OBVIOUS
<1>5. PICK base : base = {<<"lib.rs">>, <<"namespaces", "mod.rs">>, <<"models", "mod.rs">>,
                          <<"models", "flat.rs">>}
  OBVIOUS
<1>6. PICK S : S = base \cup (UNION {{<<"namespaces", resolved[i].module, "routes.rs">>,
                                      <<"namespaces", resolved[i].module, "endpoints.rs">>,
                                      <<"namespaces", resolved[i].module, "mod.rs">>,
                                      <<"models", resolved[i].module>>} : i \in DOMAIN resolved})
  OBVIOUS
<1>7. \A x, y, z \in S : /\ <<>> \in Seq(S) /\ <<x>> \in Seq(S)
                         /\ <<x, y>> \in Seq(S) /\ <<x, y, z>> \in Seq(S)
  OBVIOUS
<1>8. \A i \in 1..Len(resolved) : spaces[i] \in Seq(S) /\ groups[i] \in Seq(S)
  <2> SUFFICES ASSUME NEW i \in 1..Len(resolved) PROVE spaces[i] \in Seq(S) /\ groups[i] \in Seq(S)
    OBVIOUS
  <2>1. PICK m : m = resolved[i].module
    OBVIOUS
  <2>2. /\ <<"namespaces", m, "routes.rs">> \in S /\ <<"namespaces", m, "endpoints.rs">> \in S
        /\ <<"namespaces", m, "mod.rs">> \in S /\ <<"models", m>> \in S
    BY <1>2, <1>6, <2>1
  <2>3. spaces[i] = NamespaceFiles(m) /\ groups[i] = GroupFiles(resolved[i])
    BY <1>2, <1>3, <1>4, <2>1
  <2>4. QED
    BY <1>7, <2>1, <2>2, <2>3 DEF NamespaceFiles, GroupFiles
<1>9. spaces \in Seq(Seq(S)) /\ groups \in Seq(Seq(S))
  <2>1. /\ spaces = [i \in 1..Len(resolved) |-> spaces[i]]
        /\ groups = [i \in 1..Len(resolved) |-> groups[i]]
    BY <1>2, <1>3, <1>4
  <2>2. PICK Ss : Ss = Seq(S)
    OBVIOUS
  <2>3. QED
    BY <1>2, <1>8, <2>1, <2>2
<1>10. /\ <<<<"lib.rs">>, <<"namespaces", "mod.rs">>>> \in Seq(S)
       /\ <<<<"models", "mod.rs">>, <<"models", "flat.rs">>>> \in Seq(S)
  <2>1. /\ <<"lib.rs">> \in S /\ <<"namespaces", "mod.rs">> \in S
        /\ <<"models", "mod.rs">> \in S /\ <<"models", "flat.rs">> \in S
    BY <1>5, <1>6
  <2>2. QED
    BY <1>7, <2>1
<1>11. QED
  BY <1>3, <1>4, <1>9, <1>10

(***************************************************************************)
(* The files of the crate are a sequence.                                  *)
(***************************************************************************)
LEMMA FilesAreASequence ==
  ASSUME Places
  PROVE  Files \in Seq(ToSet(Files))
<1>1. PICK S, spaces, groups :
        /\ spaces = [i \in DOMAIN resolved |-> NamespaceFiles(resolved[i].module)]
        /\ groups = [i \in DOMAIN resolved |-> GroupFiles(resolved[i])]
        /\ spaces \in Seq(Seq(S)) /\ groups \in Seq(Seq(S))
        /\ <<<<"lib.rs">>, <<"namespaces", "mod.rs">>>> \in Seq(S)
        /\ <<<<"models", "mod.rs">>, <<"models", "flat.rs">>>> \in Seq(S)
  BY FilesAreTyped
<1>2. FlattenSeq(spaces) \in Seq(S) /\ FlattenSeq(groups) \in Seq(S)
  BY <1>1, FlattenSeqIs
<1>3. Files = <<<<"lib.rs">>, <<"namespaces", "mod.rs">>>> \o FlattenSeq(spaces)
                \o <<<<"models", "mod.rs">>, <<"models", "flat.rs">>>> \o FlattenSeq(groups)
  BY <1>1 DEF Files, FilesOf
<1>4. \A s, t \in Seq(S) : s \o t \in Seq(S)
  OBVIOUS
<1>5. Files \in Seq(S)
  BY <1>1, <1>2, <1>3, <1>4
<1>6. QED
  BY <1>5, OfItsMembers

(***************************************************************************)
(* The tree, whatever the run does.                                        *)
(***************************************************************************)
LEMMA WritingStep ==
  ASSUME IsInput(input), Places, Writing, [Next]_vars
  PROVE  Writing'
<1> DEFINE States == {"old", "torn", "new"}
<1>1. ASSUME UNCHANGED <<tree, mishaps>>, pc' \notin {"wipe", "write", "ok"}
      PROVE  Writing'
  BY <1>1 DEF Writing, At, TreeIsWhole
<1>2. CASE Load \/ Endpoint \/ Fields \/ Output \/ Close
  <2>1. UNCHANGED <<tree, mishaps>>
    BY <1>2 DEF Load, Endpoint, Fields, Output, Close, Refuse, disk
  <2>2. pc' \notin {"wipe", "write", "ok"}
    BY <1>2 DEF Load, Endpoint, Fields, Output, Close, Refuse, Goes, NextNamespace
  <2>3. QED
    BY <1>1, <2>1, <2>2
<1>3. CASE Emit
  <2>1. UNCHANGED <<tree, mishaps>> /\ UNCHANGED resolved
    BY <1>3 DEF Emit, places
  <2>2. CASE pc' = "panicked"
    BY <1>1, <2>1, <2>2
  <2>3. CASE pc' # "panicked"
    <3>1. pc' = "wipe" /\ unwritten' = Files /\ Files' = Files
      BY <1>3, <2>1, <2>3 DEF Emit, Goes, Files
    <3>2. QED
      BY <2>1, <3>1 DEF Writing, At, TreeIsWhole
  <2>4. QED
    BY <2>2, <2>3
<1>4. CASE Wipe
  <2>1. pc = "wipe" /\ unwritten = Files /\ UNCHANGED <<resolved, unwritten>> /\ Files' = Files
    BY <1>4 DEF Wipe, At, places, Writing, Files
  <2>2. CASE Goes("write") /\ tree' = <<>> /\ UNCHANGED mishaps
    <3>1. DOMAIN tree' = {} /\ tree' \in [DOMAIN tree' -> States]
      BY <2>2
    <3>2. unwritten' \in Seq(ToSet(unwritten'))
      BY <2>1, FilesAreASequence
    <3>3. DOMAIN tree' \cup ToSet(unwritten') = ToSet(Files')
      BY <2>1, <3>1
    <3>4. pc' = "write"
      BY <2>2 DEF Goes
    <3>5. QED
      BY <2>2, <3>1, <3>2, <3>3, <3>4 DEF Writing, At, TreeIsWhole
  <2>3. CASE Mishap /\ \E S \in SUBSET DOMAIN tree : tree' = Without(tree, S)
    <3>1. PICK S \in SUBSET DOMAIN tree : tree' = Without(tree, S)
      BY <2>3
    <3>2. tree' \in [DOMAIN tree' -> States]
      BY <3>1 DEF Without, Writing
    <3>3. mishaps' \in Nat /\ pc' \in {"failed", "killed"}
      BY <2>3 DEF Mishap, Goes, Writing
    <3>4. QED
      BY <3>2, <3>3 DEF Writing, At, TreeIsWhole
  <2>4. QED
    BY <1>4, <2>2, <2>3 DEF Wipe
<1>5. CASE Write
  <2> DEFINE first == Head(unwritten)
  <2>1. /\ pc = "write" /\ unwritten # <<>> /\ UNCHANGED resolved /\ Files' = Files
        /\ unwritten \in Seq(ToSet(unwritten))
        /\ DOMAIN tree \cup ToSet(unwritten) = ToSet(Files)
        /\ \A f \in DOMAIN tree : tree[f] = "new"
    BY <1>5 DEF Write, At, places, Writing, Files
  <2>2. \A c \in States : With(tree, first, c) \in [DOMAIN tree \cup {first} -> States]
    BY DEF With, Writing
  <2>3. CASE /\ Goes("write") /\ tree' = With(tree, first, "new")
             /\ unwritten' = Tail(unwritten) /\ UNCHANGED mishaps
    <3>1. DOMAIN tree' = DOMAIN tree \cup {first} /\ tree' \in [DOMAIN tree' -> States]
      BY <2>2, <2>3
    <3>2. \A f \in DOMAIN tree' : tree'[f] = "new"
      BY <2>1, <2>3 DEF With
    <3>3. unwritten' \in Seq(ToSet(unwritten')) /\ ToSet(unwritten) = {first} \cup ToSet(unwritten')
      BY <2>1, <2>3, HeadAndTail
    <3>4. DOMAIN tree' \cup ToSet(unwritten') = ToSet(Files')
      BY <2>1, <3>1, <3>3
    <3>5. pc' = "write"
      BY <2>3 DEF Goes
    <3>6. QED
      BY <2>3, <3>1, <3>2, <3>3, <3>4, <3>5 DEF Writing, At, TreeIsWhole
  <2>4. CASE Mishap /\ UNCHANGED unwritten /\ tree' \in {tree, With(tree, first, "torn")}
    <3>1. tree' \in [DOMAIN tree' -> States]
      BY <2>2, <2>4 DEF Writing
    <3>2. mishaps' \in Nat /\ pc' \in {"failed", "killed"}
      BY <2>4 DEF Mishap, Goes, Writing
    <3>3. QED
      BY <3>1, <3>2 DEF Writing, At, TreeIsWhole
  <2>5. QED
    BY <1>5, <2>3, <2>4 DEF Write
<1>6. CASE Format
  <2>1. /\ pc = "write" /\ unwritten = <<>> /\ UNCHANGED <<resolved, unwritten, tree>>
        /\ DOMAIN tree \cup ToSet(unwritten) = ToSet(Files) /\ Files' = Files
        /\ \A f \in DOMAIN tree : tree[f] = "new"
    BY <1>6 DEF Format, At, places, Writing, Files
  <2>2. CASE Goes("ok") /\ UNCHANGED mishaps
    <3>1. DOMAIN tree = ToSet(Files)
      <4>1. ToSet(unwritten) = {}
        BY <2>1 DEF ToSet
      <4>2. QED
        BY <2>1, <4>1
    <3>2. tree = [f \in ToSet(Files) |-> "new"]
      BY <2>1, <3>1 DEF Writing
    <3>3. pc' = "ok"
      BY <2>2 DEF Goes
    <3>4. QED
      BY <2>1, <2>2, <3>2, <3>3 DEF Writing, At, TreeIsWhole
  <2>3. CASE Mishap
    <3>1. mishaps' \in Nat /\ pc' \in {"failed", "killed"}
      BY <2>3 DEF Mishap, Goes, Writing
    <3>2. QED
      BY <2>1, <3>1 DEF Writing, At, TreeIsWhole
  <2>4. QED
    BY <1>6, <2>2, <2>3 DEF Format
<1>7. CASE Again
  <2>1. UNCHANGED <<tree, mishaps>> /\ pc' = "load"
    BY <1>7 DEF Again, Goes
  <2>2. QED
    BY <1>1, <2>1
<1>8. CASE UNCHANGED vars
  <2>1. UNCHANGED <<tree, mishaps, pc, unwritten, resolved>> /\ Files' = Files
    BY <1>8 DEF vars, disk, places, Files
  <2>2. QED
    BY <2>1 DEF Writing, At, TreeIsWhole
<1>9. QED
  BY <1>2, <1>3, <1>4, <1>5, <1>6, <1>7, <1>8 DEF Next, Tool

----------------------------------------------------------------------------
(***************************************************************************)
(* What the endpoints are given for functions does not change.             *)
(***************************************************************************)
LEMMA GivenStays ==
  ASSUME UNCHANGED input
  PROVE  \A n, i : /\ FunctionOf(n, i)' = FunctionOf(n, i) /\ FlatOf(n, i)' = FlatOf(n, i)
                   /\ ShortOf(n, i)' = ShortOf(n, i) /\ (Models(n, i)' <=> Models(n, i))
<1>1. \A n, i : FunctionOf(n, i)' = FunctionOf(n, i)
  BY DEF FunctionOf
<1>2. \A n, i : FlatOf(n, i)' = FlatOf(n, i)
  BY <1>1, InputStays DEF FlatOf
<1>3. \A n, i : ShortOf(n, i)' = ShortOf(n, i)
  BY <1>2 DEF ShortOf
<1>4. QED
  BY <1>1, <1>2, <1>3 DEF Models

(***************************************************************************)
(* emit_struct leaves the type with a slot, its own or that of the type    *)
(* that has its name already.                                              *)
(***************************************************************************)
LEMMA EmittedAtOnce ==
  ASSUME emitted \in Seq(FlatType), NEW T, NEW calls, EmitStruct(T, calls)
  PROVE  EmittedIn(emitted', RustName(T))
<1> DEFINE new == [name |-> RustName(T), of |-> T, filled |-> FALSE, fields |-> <<>>]
<1>1. CASE IsEmitted(RustName(T))
  BY <1>1 DEF EmitStruct, IsEmitted, EmittedIn
<1>2. CASE ~IsEmitted(RustName(T))
  <2>1. emitted' = Append(emitted, new) /\ new.name = RustName(T)
    BY <1>2 DEF EmitStruct
  <2> HIDE DEF new
  <2>2. /\ DOMAIN Append(emitted, new) = DOMAIN emitted \cup {Len(emitted) + 1}
        /\ Append(emitted, new)[Len(emitted) + 1] = new
    BY OfItsMembers, AppendAny
  <2>3. QED
    BY <2>1, <2>2 DEF EmittedIn
<1>3. QED
  BY <1>1, <1>2

(***************************************************************************)
(* What Output adds to a namespace: an endpoint, with its route, which is  *)
(* new or one declared already, and what it returns under its short name.  *)
(***************************************************************************)
LEMMA OutputAdds ==
  ASSUME IsInput(input), Places, Typed, Output, pc' # "refused"
  PROVE  LET last == Len(ns.endpoints) + 1 IN
         /\ pc = "fields" /\ pc' = IF at.ep = Len(nsov.endpoints) THEN "close" ELSE "endpoint"
         /\ UNCHANGED <<input, emitted>> /\ at'.ns = at.ns /\ at'.ep = at.ep + 1
         /\ DOMAIN ns'.endpoints = DOMAIN ns.endpoints \cup {last} /\ last \notin DOMAIN ns.endpoints
         /\ Len(ns'.endpoints) = last /\ ns'.endpoints # <<>>
         /\ \A i \in DOMAIN ns.endpoints : ns'.endpoints[i] = ns.endpoints[i]
         /\ ns'.endpoints[last].output = IF Models(at.ns, at.ep) THEN ShortOf(at.ns, at.ep) ELSE Plain
         /\ RouteDeclared(ns'.routes, ns'.endpoints[last].const, FunctionOf(at.ns, at.ep).resource)
         /\ ToSet(ns.routes) \subseteq ToSet(ns'.routes)
         /\ ns'.refs = ns.refs \cup IF Models(at.ns, at.ep) THEN {ShortOf(at.ns, at.ep)} ELSE {}
         /\ shorts' = IF Models(at.ns, at.ep)
                        THEN Remembered(ShortOf(at.ns, at.ep), FlatOf(at.ns, at.ep)) ELSE shorts
<1> DEFINE ref == function.returns
           short == ShortOf(at.ns, at.ep)
           same == {i \in DOMAIN ns.routes : SameRoute(ns.routes[i], function)}
           new == [const |-> epov.name, resource |-> function.resource,
                   version |-> function.version, doc |-> epov.routeDoc]
           chosen == CHOOSE i \in same : \A j \in same : i <= j
           route == IF same = {} THEN new ELSE ns.routes[chosen]
           output == IF IsStruct(ref) THEN short ELSE Plain
           entry == [name |-> epov.name, const |-> route.const, verb |-> function.verb,
                     body |-> BodyKind(epov, function), timeout |-> epov.timeout,
                     params |-> function.params, wrap |-> ref.wrap, output |-> output]
           routes == IF same = {} THEN Append(ns.routes, route) ELSE ns.routes
           refs == ns.refs \cup IF IsStruct(ref) THEN {short} ELSE {}
           last == Len(ns.endpoints) + 1
<1>1. /\ function = FunctionOf(at.ns, at.ep) /\ short = ShortName(RustName(ref.of), nsov.prefix)
      /\ FlatOf(at.ns, at.ep) = RustName(ref.of) /\ (Models(at.ns, at.ep) <=> IsStruct(ref))
  BY DEF function, epov, nsov, FunctionOf, FlatOf, ShortOf, Models
<1>2. /\ pc = "fields" /\ pc' = IF at.ep = Len(nsov.endpoints) THEN "close" ELSE "endpoint"
      /\ UNCHANGED <<input, emitted>> /\ at' = [at EXCEPT !.ep = @ + 1]
      /\ shorts' = IF IsStruct(ref) THEN Remembered(short, RustName(ref.of)) ELSE shorts
      /\ ns' = [routes |-> routes, endpoints |-> Append(ns.endpoints, entry), refs |-> refs]
  BY <1>1 DEF Output, Refuse, Goes, At
<1>3. at'.ns = at.ns /\ at'.ep = at.ep + 1
  BY <1>2 DEF Places
<1>4. entry.const = route.const /\ entry.output = output
  OBVIOUS
<1>5. ns'.routes = routes /\ ns'.endpoints = Append(ns.endpoints, entry) /\ ns'.refs = refs
  BY <1>2
<1>6. same # {} => chosen \in same
  <2>1. same \subseteq Nat
    BY DEF Typed
  <2> HIDE DEF same
  <2>2. QED
    BY <2>1, LeastNatural
<1>7. \A i \in same : ns.routes[i].resource = function.resource /\ ns.routes[i] \in ToSet(ns.routes)
  BY DEF SameRoute, ToSet
<1>8. new.resource = function.resource
  OBVIOUS
<1> HIDE DEF same, new, chosen
<1>9. /\ route.resource = function.resource /\ route \in ToSet(routes)
      /\ ToSet(ns.routes) \subseteq ToSet(routes)
  <2>1. CASE same = {}
    <3>1. /\ \A i \in DOMAIN ns.routes : i \in DOMAIN routes /\ routes[i] = ns.routes[i]
          /\ Len(ns.routes) + 1 \in DOMAIN routes /\ routes[Len(ns.routes) + 1] = route
      BY <2>1, OfItsMembers, AppendAny DEF Typed
    <3>2. QED
      BY <1>8, <2>1, <3>1 DEF ToSet
  <2>2. CASE same # {}
    BY <1>6, <1>7, <2>2
  <2>3. QED
    BY <2>1, <2>2
<1> HIDE DEF entry, route, routes, refs, output
<1>10. /\ Append(ns.endpoints, entry) # <<>> /\ Len(Append(ns.endpoints, entry)) = last
       /\ DOMAIN Append(ns.endpoints, entry) = DOMAIN ns.endpoints \cup {last}
       /\ \A i \in DOMAIN ns.endpoints : Append(ns.endpoints, entry)[i] = ns.endpoints[i] /\ i # last
       /\ Append(ns.endpoints, entry)[last] = entry
  BY OfItsMembers, AppendAny DEF Typed
<1>11. RouteDeclared(routes, entry.const, function.resource)
  BY <1>4, <1>9 DEF RouteDeclared
<1>12. QED
  BY <1>1, <1>2, <1>3, <1>4, <1>5, <1>9, <1>10, <1>11 DEF output, refs

(***************************************************************************)
(* What is known of the endpoints seen to, whatever the run does.  What    *)
(* Output gives a short name to is a struct the namespace returns, so a    *)
(* short name given twice stands for what the later endpoint returns, and  *)
(* the flat types it stood for stay emitted.                               *)
(***************************************************************************)
LEMMA CollectedStep ==
  ASSUME IsInput(input), Places, Typed, Walking, Collected, [Next]_vars
  PROVE  Collected'
<1>1. UNCHANGED input
  BY InputKept
<1>2. /\ \A n, i : /\ FunctionOf(n, i)' = FunctionOf(n, i) /\ FlatOf(n, i)' = FlatOf(n, i)
                   /\ ShortOf(n, i)' = ShortOf(n, i) /\ (Models(n, i)' <=> Models(n, i))
  BY <1>1, GivenStays
<1>3. Again \/ Continues(emitted, emitted')
  BY WalkingStep
<1>4. Continues(emitted, emitted') => \A f : EmittedIn(emitted, f) => EmittedIn(emitted', f)
  BY DEF Continues, EmittedIn
<1>5. ASSUME ns' = NewNamespace, at'.ep = 1, pc' \in {"endpoint", "close"},
             pc' = "close" => nsov'.endpoints = <<>>
      PROVE  Collected'
  <2>1. ns'.routes = <<>> /\ ns'.endpoints = <<>> /\ ns'.refs = {}
    BY <1>5 DEF NewNamespace
  <2>2. Len(ns'.endpoints) = at'.ep - 1 /\ DOMAIN ns'.endpoints = {}
    BY <1>5, <2>1
  <2>3. pc' = "close" => at'.ep = Len(nsov'.endpoints) + 1
    BY <1>5
  <2>4. QED
    BY <1>5, <2>1, <2>2, <2>3 DEF Collected, At
<1>6. ASSUME UNCHANGED <<at, ns, shorts>>, Continues(emitted, emitted'),
             pc \in {"endpoint", "fields"}, pc' = "fields",
             Models(at.ns, at.ep) => EmittedIn(emitted', FlatOf(at.ns, at.ep))
      PROVE  Collected'
  <2>1. /\ Len(ns.endpoints) = at.ep - 1
        /\ ns.routes # <<>> => ns.endpoints # <<>>
        /\ \A i \in DOMAIN ns.endpoints :
             /\ RouteDeclared(ns.routes, ns.endpoints[i].const, FunctionOf(at.ns, i).resource)
             /\ ns.endpoints[i].output # Plain => ns.endpoints[i].output \in ns.refs
             /\ Models(at.ns, i) => ShortOf(at.ns, i) \in ns.refs
        /\ \A s \in ns.refs :
             /\ EmittedIn(emitted, shorts[s])
             /\ \E i \in DOMAIN ns.endpoints :
                  Models(at.ns, i) /\ s = ShortOf(at.ns, i) /\ shorts[s] = FlatOf(at.ns, i)
    BY <1>6 DEF Collected
  <2>2. \A s \in ns.refs : EmittedIn(emitted', shorts[s])
    BY <1>4, <1>6, <2>1
  <2>3. QED
    BY <1>2, <1>6, <2>1, <2>2 DEF Collected, At, RouteDeclared, EmittedIn
<1>7. CASE pc' \notin {"load", "endpoint", "fields", "close"}
  BY <1>7 DEF Collected, At
<1>8. CASE Load /\ pc' \in {"endpoint", "fields", "close"}
  <2>1. /\ pc = "load" /\ pc' = NextNamespace(1) /\ UNCHANGED <<at, ns>>
        /\ ns = NewNamespace /\ at.ns = 1 /\ at.ep = 1
    BY <1>8 DEF Load, Goes, Refuse, At, places, Places, Collected
  <2>2. /\ pc' \in {"endpoint", "close"}
        /\ pc' = "close" => nsov'.endpoints = <<>>
    BY <1>1, <1>8, <2>1 DEF NextNamespace, nsov
  <2>3. QED
    BY <1>5, <2>1, <2>2
<1>9. CASE Endpoint /\ pc' = "fields"
  <2>1. /\ pc = "endpoint" /\ UNCHANGED <<at, ns, shorts>>
        /\ IF IsStruct(function.returns) THEN EmitStruct(function.returns.of, <<>>)
           ELSE UNCHANGED <<emitted, stack>>
    BY <1>9 DEF Endpoint, Refuse, Goes, At, places
  <2>2. function = FunctionOf(at.ns, at.ep)
    BY DEF function, epov, nsov, FunctionOf
  <2>3. Models(at.ns, at.ep) => EmittedIn(emitted', FlatOf(at.ns, at.ep))
    BY <2>1, <2>2, EmittedAtOnce DEF Models, FlatOf, Walking, WalkInv, Flat
  <2>4. Continues(emitted, emitted')
    BY <1>3, <2>1 DEF Again
  <2>5. QED
    BY <1>6, <1>9, <2>1, <2>3, <2>4
<1>10. CASE Fields /\ pc' = "fields"
  <2>1. pc = "fields" /\ UNCHANGED <<at, ns, shorts>>
    BY <1>10 DEF Fields, Refuse, Goes, At, places
  <2>2. Continues(emitted, emitted')
    BY <1>3, <2>1 DEF Again
  <2>3. Models(at.ns, at.ep) => EmittedIn(emitted', FlatOf(at.ns, at.ep))
    BY <1>4, <2>1, <2>2 DEF Collected, At
  <2>4. QED
    BY <1>6, <1>10, <2>1, <2>2, <2>3
<1>11. CASE Output /\ pc' # "refused"
  <2> DEFINE last == Len(ns.endpoints) + 1
             short == ShortOf(at.ns, at.ep)
             flat == FlatOf(at.ns, at.ep)
             returnsModel == Models(at.ns, at.ep)
  <2>1. /\ pc = "fields" /\ pc' = IF at.ep = Len(nsov.endpoints) THEN "close" ELSE "endpoint"
        /\ UNCHANGED emitted /\ at'.ns = at.ns /\ at'.ep = at.ep + 1
        /\ DOMAIN ns'.endpoints = DOMAIN ns.endpoints \cup {last} /\ last \notin DOMAIN ns.endpoints
        /\ Len(ns'.endpoints) = last /\ ns'.endpoints # <<>>
        /\ \A i \in DOMAIN ns.endpoints : ns'.endpoints[i] = ns.endpoints[i]
        /\ ns'.endpoints[last].output = IF returnsModel THEN short ELSE Plain
        /\ RouteDeclared(ns'.routes, ns'.endpoints[last].const, FunctionOf(at.ns, at.ep).resource)
        /\ ToSet(ns.routes) \subseteq ToSet(ns'.routes)
        /\ ns'.refs = ns.refs \cup IF returnsModel THEN {short} ELSE {}
        /\ shorts' = IF returnsModel THEN Remembered(short, flat) ELSE shorts
    BY <1>11, OutputAdds
  <2>2. /\ Len(ns.endpoints) = at.ep - 1
        /\ \A i \in DOMAIN ns.endpoints :
             /\ RouteDeclared(ns.routes, ns.endpoints[i].const, FunctionOf(at.ns, i).resource)
             /\ ns.endpoints[i].output # Plain => ns.endpoints[i].output \in ns.refs
             /\ Models(at.ns, i) => ShortOf(at.ns, i) \in ns.refs
        /\ \A s \in ns.refs :
             /\ EmittedIn(emitted, shorts[s])
             /\ \E i \in DOMAIN ns.endpoints :
                  Models(at.ns, i) /\ s = ShortOf(at.ns, i) /\ shorts[s] = FlatOf(at.ns, i)
        /\ returnsModel => EmittedIn(emitted, flat)
    BY <2>1 DEF Collected, At
  <2>3. at.ep \in Nat /\ last = at.ep
    BY <2>1, <2>2 DEF Places
  <2>4. /\ returnsModel => shorts'[short] = flat /\ \A s \in DOMAIN shorts : s # short => shorts'[s] = shorts[s]
        /\ ~returnsModel => shorts' = shorts
    BY <2>1 DEF Remembered
  <2> HIDE DEF last, short, flat, returnsModel
  <2>5. ASSUME NEW i \in DOMAIN ns'.endpoints
        PROVE  /\ RouteDeclared(ns'.routes, ns'.endpoints[i].const, FunctionOf(at.ns, i).resource)
               /\ ns'.endpoints[i].output # Plain => ns'.endpoints[i].output \in ns'.refs
               /\ Models(at.ns, i) => ShortOf(at.ns, i) \in ns'.refs
    <3>1. CASE i = last
      <4>1. i = at.ep
        BY <2>3, <3>1
      <4>2. (Models(at.ns, i) <=> returnsModel) /\ ShortOf(at.ns, i) = short
        BY <4>1 DEF returnsModel, short
      <4>3. QED
        BY <2>1, <3>1, <4>1, <4>2
    <3>2. CASE i # last
      BY <2>1, <2>2, <3>2 DEF RouteDeclared
    <3>3. QED
      BY <3>1, <3>2
  <2>6. ASSUME NEW s \in ns'.refs
        PROVE  /\ EmittedIn(emitted, shorts'[s])
               /\ \E i \in DOMAIN ns'.endpoints :
                    Models(at.ns, i) /\ s = ShortOf(at.ns, i) /\ shorts'[s] = FlatOf(at.ns, i)
    <3>1. CASE returnsModel /\ s = short
      <4>1. last \in DOMAIN ns'.endpoints /\ shorts'[s] = flat
        BY <2>1, <2>4, <3>1
      <4>2. Models(at.ns, last) /\ short = ShortOf(at.ns, last) /\ flat = FlatOf(at.ns, last)
        BY <2>3, <3>1 DEF returnsModel, short, flat
      <4>3. QED
        BY <2>2, <3>1, <4>1, <4>2
    <3>2. CASE ~(returnsModel /\ s = short)
      <4>1. s \in ns.refs /\ s \in DOMAIN shorts
        BY <2>1, <3>2 DEF Typed
      <4>2. shorts'[s] = shorts[s]
        BY <2>4, <3>2, <4>1
      <4>3. QED
        BY <2>1, <2>2, <4>1, <4>2
    <3>3. QED
      BY <3>1, <3>2
  <2>7. Len(ns'.endpoints) = at'.ep - 1
    BY <2>1, <2>3
  <2>8. pc' = "close" => at'.ep = Len(nsov'.endpoints) + 1
    <3>1. nsov' = nsov
      BY <1>1, <2>1 DEF nsov
    <3>2. QED
      BY <2>1, <3>1
  <2>9. pc' \in {"endpoint", "close"}
    BY <2>1
  <2>10. \A i \in DOMAIN ns'.endpoints :
           /\ RouteDeclared(ns.routes, ns.endpoints[i].const, FunctionOf(at.ns, i).resource)'
           /\ ns'.endpoints[i].output # Plain => ns'.endpoints[i].output \in ns'.refs
           /\ Models(at.ns, i)' => ShortOf(at.ns, i)' \in ns'.refs
    BY <1>2, <2>1, <2>5 DEF RouteDeclared
  <2>11. \A s \in ns'.refs :
           /\ EmittedIn(emitted, shorts[s])'
           /\ \E i \in DOMAIN ns'.endpoints :
                Models(at.ns, i)' /\ s = ShortOf(at.ns, i)' /\ shorts'[s] = FlatOf(at.ns, i)'
    BY <1>2, <2>1, <2>6 DEF EmittedIn
  <2>12. QED
    BY <2>1, <2>7, <2>8, <2>9, <2>10, <2>11 DEF Collected, At
<1>12. CASE Close /\ pc' \in {"endpoint", "fields", "close"}
  <2>1. /\ ns' = NewNamespace /\ at' = [ns |-> at.ns + 1, ep |-> 1]
        /\ pc' = NextNamespace(at.ns + 1)
    BY <1>12 DEF Close, Refuse, Goes
  <2>2. at'.ns = at.ns + 1 /\ at'.ep = 1
    BY <2>1
  <2>3. /\ pc' \in {"endpoint", "close"}
        /\ pc' = "close" => nsov'.endpoints = <<>>
    BY <1>1, <1>12, <2>1, <2>2 DEF NextNamespace, nsov
  <2>4. QED
    BY <1>5, <2>1, <2>2, <2>3
<1>13. CASE Again
  BY <1>13 DEF Again, Goes, Collected, At
<1>14. CASE UNCHANGED vars
  <2>1. UNCHANGED <<pc, at, ns, shorts, emitted>> /\ nsov' = nsov
    BY <1>14 DEF vars, walk, places, nsov
  <2>2. QED
    BY <1>2, <2>1 DEF Collected, At, RouteDeclared, EmittedIn
<1>15. CASE pc' \in {"load", "endpoint", "fields", "close"} /\ Next
  <2>1. CASE Load
    BY <1>8, <1>15, <2>1 DEF Load, Refuse, Goes, NextNamespace
  <2>2. CASE Endpoint
    BY <1>9, <1>15, <2>2 DEF Endpoint, Refuse, Goes
  <2>3. CASE Fields
    BY <1>10, <1>15, <2>3 DEF Fields, Refuse, Goes
  <2>4. CASE Output
    BY <1>11, <1>15, <2>4
  <2>5. CASE Close
    BY <1>12, <1>15, <2>5 DEF Close, Refuse, Goes, NextNamespace
  <2>6. CASE Emit \/ Wipe \/ Write \/ Format
    BY <1>15, <2>6 DEF Emit, Wipe, Write, Format, Mishap, Goes
  <2>7. QED
    BY <1>13, <1>15, <2>1, <2>2, <2>3, <2>4, <2>5, <2>6 DEF Next, Tool
<1>16. QED
  BY <1>7, <1>14, <1>15

(***************************************************************************)
(* A group holds its flat types while more are emitted.                    *)
(***************************************************************************)
LEMMA HoldsTypesStays ==
  ASSUME NEW em, NEW later, Continues(em, later), NEW exports, HoldsTypes(em, exports)
  PROVE  HoldsTypes(later, exports)
<1> SUFFICES ASSUME NEW e \in exports
             PROVE  \E i \in DOMAIN later :
                      /\ later[i].name = e[1]
                      /\ \A k \in DOMAIN KeptFields(later[i].of) :
                           IsStruct(KeptFields(later[i].of)[k]) =>
                             \E x \in exports : x[1] = RustName(KeptFields(later[i].of)[k].of)
  BY DEF HoldsTypes
<1>1. PICK i \in DOMAIN em :
        /\ em[i].name = e[1]
        /\ \A k \in DOMAIN KeptFields(em[i].of) :
             IsStruct(KeptFields(em[i].of)[k]) =>
               \E x \in exports : x[1] = RustName(KeptFields(em[i].of)[k].of)
  BY DEF HoldsTypes
<1>2. i \in DOMAIN later /\ later[i].name = em[i].name /\ later[i].of = em[i].of
  BY DEF Continues
<1>3. QED
  BY <1>1, <1>2

(***************************************************************************)
(* The fields of a flat type that is filled in are named after the fields  *)
(* kept of its type, and what they name is emitted.                        *)
(***************************************************************************)
LEMMA FieldsAreNamed ==
  ASSUME IsInput(input), Walking, NEW i \in DOMAIN emitted, emitted[i].filled
  PROVE  LET kept == KeptFields(emitted[i].of) IN
         /\ DOMAIN emitted[i].fields = DOMAIN kept
         /\ \A k \in DOMAIN kept :
              IF IsStruct(kept[k])
                THEN emitted[i].fields[k].of = RustName(kept[k].of) /\ IsEmitted(RustName(kept[k].of))
                ELSE emitted[i].fields[k].of = Plain
<1> DEFINE e == emitted[i]
           kept == KeptFields(e.of)
<1>1. Whole(emitted, e)
  BY DEF Walking, WalkInv, Settled
<1>2. e \in FlatType /\ kept \in Seq(TypeRef)
  <2>1. e.of \in DOMAIN types /\ KeepsKnown(e.of) /\ e \in FlatType
    BY DEF Walking, WalkInv, Flat
  <2>2. QED
    BY <2>1, InputParts, KeptIsTyped
<1>3. e.fields \in Seq(TypeRef)
  BY <1>2 DEF FlatType
<1>4. Len(e.fields) = Len(kept) /\ \A k \in DOMAIN e.fields : Rendered(emitted, kept[k], e.fields[k])
  BY <1>1 DEF Whole
<1>5. DOMAIN e.fields = DOMAIN kept
  BY <1>2, <1>3, <1>4
<1>6. ASSUME NEW k \in DOMAIN kept
      PROVE  IF IsStruct(kept[k])
               THEN e.fields[k].of = RustName(kept[k].of) /\ IsEmitted(RustName(kept[k].of))
               ELSE e.fields[k].of = Plain
  <2>1. kept[k] \in TypeRef
    BY <1>2
  <2>2. /\ e.fields[k] = Named(kept[k])
        /\ IsStruct(kept[k]) => EmittedIn(emitted, RustName(kept[k].of))
    BY <1>4, <1>5 DEF Rendered
  <2>3. CASE IsStruct(kept[k])
    BY <2>1, <2>2, <2>3 DEF Named, TypeRef, EmittedIn, IsEmitted
  <2>4. CASE ~IsStruct(kept[k])
    BY <2>1, <2>2, <2>4 DEF Named, TypeRef, IsStruct
  <2>5. QED
    BY <2>3, <2>4
<1>7. QED
  BY <1>5, <1>6

(***************************************************************************)
(* With no call under way, a group made of emitted types holds its types:  *)
(* what reachable_from finds is emitted and closed under the fields.       *)
(***************************************************************************)
LEMMA ExportsHoldTypes ==
  ASSUME IsInput(input), Walking, stack = <<>>, NEW refs, NEW prefix,
         \A s \in refs : EmittedIn(emitted, shorts[s])
  PROVE  HoldsTypes(emitted, Exports(refs, prefix))
<1> DEFINE direct == {<<shorts[s], s>> : s \in refs}
           flats == {e[1] : e \in direct}
           R == flats \cup ReachableFrom(flats)
           exports == Exports(refs, prefix)
<1>1. \A x \in flats : IsEmitted(x)
  BY DEF IsEmitted, EmittedIn
<1>2. exports = direct \cup {<<f, ShortName(f, prefix)>> : f \in ReachableFrom(flats)}
  BY DEF Exports
<1>3. emitted \in Seq(FlatType)
  BY DEF Walking, WalkInv, Flat
<1> HIDE DEF direct, exports
<1>4. \A e \in exports : e[1] \in R
  <2>1. \A e \in direct : e[1] \in flats
    OBVIOUS
  <2>2. \A f, s : <<f, s>>[1] = f
    OBVIOUS
  <2> HIDE DEF flats
  <2>3. QED
    BY <1>2, <2>1, <2>2
<1>5. \A x \in R : \E e \in exports : e[1] = x
  <2>1. \A x \in flats : \E e \in direct : e[1] = x
    OBVIOUS
  <2> HIDE DEF flats
  <2>2. \A x \in ReachableFrom(flats) : <<x, ShortName(x, prefix)>> \in exports
    BY <1>2
  <2>3. QED
    BY <1>2, <2>1, <2>2
<1> HIDE DEF flats
<1>6. (\A x \in R : IsEmitted(x)) /\ Grown(R) = R
  BY <1>1, <1>3, ReachableIsClosed
<1> HIDE DEF R
<1>7. SUFFICES ASSUME NEW e \in exports
               PROVE  \E i \in DOMAIN emitted :
                        /\ emitted[i].name = e[1]
                        /\ \A k \in DOMAIN KeptFields(emitted[i].of) :
                             IsStruct(KeptFields(emitted[i].of)[k]) =>
                               \E x \in exports : x[1] = RustName(KeptFields(emitted[i].of)[k].of)
  BY DEF HoldsTypes, exports
<1>8. PICK i \in DOMAIN emitted : emitted[i].name = e[1]
  BY <1>4, <1>6 DEF IsEmitted
<1>9. emitted[i].filled
  BY DEF Walking, WalkInv, Settled
<1>10. ASSUME NEW k \in DOMAIN KeptFields(emitted[i].of), IsStruct(KeptFields(emitted[i].of)[k])
       PROVE  RustName(KeptFields(emitted[i].of)[k].of) \in R
  <2>1. /\ k \in DOMAIN emitted[i].fields
        /\ emitted[i].fields[k].of = RustName(KeptFields(emitted[i].of)[k].of)
        /\ IsEmitted(emitted[i].fields[k].of)
    BY <1>9, <1>10, FieldsAreNamed
  <2>2. emitted[i].fields[k].of \in FieldTypes(R)
    BY <1>4, <1>8, <2>1 DEF FieldTypes
  <2>3. QED
    BY <1>6, <2>1, <2>2 DEF Grown
<1>11. QED
  BY <1>5, <1>8, <1>10

(***************************************************************************)
(* Once a namespace's endpoints are all seen to, what they return is in    *)
(* its group under its short name, if the short names of what they return  *)
(* are distinct.                                                           *)
(***************************************************************************)
LEMMA OutputsAreNamed ==
  ASSUME IsInput(input), Places, Typed, Collected, At("close"),
         \A A, B \in Returned(at.ns) :
           ShortName(RustName(A), nsov.prefix) = ShortName(RustName(B), nsov.prefix)
             => RustName(A) = RustName(B),
         NEW T \in Returned(at.ns)
  PROVE  <<RustName(T), ShortName(RustName(T), nsov.prefix)>> \in Exports(ns.refs, nsov.prefix)
<1>1. PICK i \in DOMAIN nsov.endpoints : Models(at.ns, i) /\ T = FunctionOf(at.ns, i).returns.of
  BY DEF Returned, nsov, Models, FunctionOf
<1>2. DOMAIN ns.endpoints = DOMAIN nsov.endpoints
  <2>1. Len(ns.endpoints) = at.ep - 1 /\ at.ep = Len(nsov.endpoints) + 1
    BY DEF Collected, At
  <2>2. nsov.endpoints \in Seq(EndpointOverride) /\ ns.endpoints \in Seq(EndpointType)
    BY AtHand DEF At, Typed
  <2>3. QED
    BY <2>1, <2>2
<1>3. PICK s : s = ShortName(RustName(T), nsov.prefix)
  OBVIOUS
<1>4. s = ShortOf(at.ns, i) /\ s \in ns.refs
  BY <1>1, <1>2, <1>3 DEF ShortOf, FlatOf, nsov, Collected, At
<1>5. PICK j \in DOMAIN ns.endpoints :
        Models(at.ns, j) /\ s = ShortOf(at.ns, j) /\ shorts[s] = FlatOf(at.ns, j)
  BY <1>4 DEF Collected, At
<1>6. FunctionOf(at.ns, j).returns.of \in Returned(at.ns)
  BY <1>2, <1>5 DEF Returned, nsov, Models, FunctionOf
<1>7. shorts[s] = RustName(T)
  BY <1>3, <1>5, <1>6 DEF ShortOf, FlatOf, nsov
<1>8. <<shorts[s], s>> \in Exports(ns.refs, nsov.prefix)
  BY <1>4 DEF Exports
<1>9. QED
  BY <1>3, <1>7, <1>8

(***************************************************************************)
(* What is known of the namespaces that are resolved, whatever the run     *)
(* does.  A namespace closes with no call under way: all that its group    *)
(* reaches is emitted and filled in by then, whatever the later ones emit. *)
(***************************************************************************)
LEMMA MadeStep ==
  ASSUME IsInput(input), Places, Typed, Walking, Collected, Made, [Next]_vars
  PROVE  Made'
<1>1. UNCHANGED input
  BY InputKept
<1>2. Again \/ Continues(emitted, emitted')
  BY WalkingStep
<1>3. \A n : Returned(n)' = Returned(n) /\ \A T : RustName(T)' = RustName(T)
  BY <1>1, InputStays DEF Returned
<1>4. \A em, exports : HoldsTypes(em, exports)' <=> HoldsTypes(em, exports)
  <2>1. \A T : KeptFields(T)' = KeptFields(T)
    BY <1>1, InputStays
  <2>2. \A T : RustName(T)' = RustName(T)
    BY <1>3
  <2> SUFFICES ASSUME NEW em, NEW exports
               PROVE  HoldsTypes(em, exports)' <=> HoldsTypes(em, exports)
    OBVIOUS
  <2>3. ASSUME NEW i \in DOMAIN em
        PROVE  (\A k \in DOMAIN KeptFields(em[i].of) :
                  IsStruct(KeptFields(em[i].of)[k]) =>
                    \E x \in exports : x[1] = RustName(KeptFields(em[i].of)[k].of))'
               <=> \A k \in DOMAIN KeptFields(em[i].of) :
                     IsStruct(KeptFields(em[i].of)[k]) =>
                       \E x \in exports : x[1] = RustName(KeptFields(em[i].of)[k].of)
    BY <2>1, <2>2 DEF IsStruct
  <2>4. QED
    BY <2>3 DEF HoldsTypes
<1>5. ASSUME NEW n \in DOMAIN resolved, n \in DOMAIN resolved', resolved'[n] = resolved[n],
             Continues(emitted, emitted')
      PROVE  /\ ToSet(resolved'[n].endpoints) # {}
             /\ Imported(ToSet(resolved'[n].endpoints)) \subseteq {e[2] : e \in resolved'[n].exports}
             /\ HoldsTypes(emitted, resolved[n].exports)'
             /\ NamesItsOutputs(n)' /\ NamesItsRoutes(n)'
  <2>1. ToSet(resolved'[n].endpoints) # {}
    BY <1>5 DEF Made
  <2>2. Imported(ToSet(resolved'[n].endpoints)) \subseteq {e[2] : e \in resolved'[n].exports}
    BY <1>5 DEF Made
  <2>3. HoldsTypes(emitted, resolved[n].exports)'
    <3>1. HoldsTypes(emitted, resolved[n].exports)
      BY DEF Made
    <3>2. HoldsTypes(emitted', resolved[n].exports)
      BY <1>5, <3>1, HoldsTypesStays
    <3>3. QED
      BY <1>4, <1>5, <3>2
  <2>4. NamesItsOutputs(n)'
    BY <1>1, <1>3, <1>5 DEF Made, NamesItsOutputs
  <2>5. NamesItsRoutes(n)'
    BY <1>1, <1>5 DEF Made, NamesItsRoutes
  <2>6. QED
    BY <2>1, <2>2, <2>3, <2>4, <2>5
<1>6. CASE Again
  <2>1. DOMAIN resolved' = {}
    BY <1>6 DEF Again
  <2>2. QED
    BY <2>1 DEF Made
<1>7. CASE ~Again /\ UNCHANGED resolved
  BY <1>2, <1>5, <1>7 DEF Made
<1>8. CASE ~UNCHANGED resolved /\ Close
  <2> PICK n : n = Len(resolved) + 1
    OBVIOUS
  <2> DEFINE exports == Exports(ns.refs, nsov.prefix)
             new == [module |-> nsov.module, routes |-> ns.routes, endpoints |-> ns.endpoints,
                     timeout |-> nsov.timeout, exports |-> exports]
  <2>1. /\ pc = "close" /\ OneVersion /\ UNCHANGED emitted /\ resolved' = Append(resolved, new)
    BY <1>8 DEF Close, Refuse, places, walk, At
  <2>2. new.endpoints = ns.endpoints /\ new.routes = ns.routes /\ new.exports = exports
    OBVIOUS
  <2> HIDE DEF new, exports
  <2>3. /\ DOMAIN resolved' = DOMAIN resolved \cup {n}
        /\ \A i \in DOMAIN resolved : resolved'[i] = resolved[i] /\ i # n
        /\ resolved'[n] = new
    BY <2>1, AppendAny DEF Places
  <2>4. /\ at.ns = n /\ stack = <<>> /\ ns.endpoints # <<>>
        /\ \A i \in DOMAIN ns.endpoints :
             /\ RouteDeclared(ns.routes, ns.endpoints[i].const, FunctionOf(n, i).resource)
             /\ ns.endpoints[i].output # Plain => ns.endpoints[i].output \in ns.refs
        /\ \A s \in ns.refs : EmittedIn(emitted, shorts[s])
    BY <2>1 DEF Places, Walking, Collected, OneVersion, At
  <2>5. ns.endpoints \in Seq(EndpointType)
    BY DEF Typed
  <2>6. ToSet(ns.endpoints) # {}
    <3>1. 1 \in DOMAIN ns.endpoints
      BY <2>4, <2>5
    <3>2. QED
      BY <3>1 DEF ToSet
  <2>7. Imported(ToSet(ns.endpoints)) \subseteq {e[2] : e \in exports}
    <3>1. \A s \in ns.refs : <<shorts[s], s>> \in exports
      BY DEF exports, Exports
    <3>2. \A s \in ns.refs : \E e \in exports : e[2] = s
      BY <3>1
    <3>3. \A x \in Imported(ToSet(ns.endpoints)) : x \in ns.refs
      BY <2>4 DEF Imported, ToSet
    <3>4. QED
      BY <3>2, <3>3
  <2>8. HoldsTypes(emitted, exports)
    BY <2>4, ExportsHoldTypes DEF exports
  <2>9. NamesItsOutputs(n)'
    <3> DEFINE prefix == input.namespaces[n].prefix
               flats == {RustName(T) : T \in Returned(n)}
    <3>1. nsov.prefix = prefix
      BY <2>4 DEF nsov
    <3>2. ASSUME \A f, g \in flats : ShortName(f, prefix) = ShortName(g, prefix) => f = g,
                 NEW f \in flats
          PROVE  <<f, ShortName(f, prefix)>> \in exports
      <4>1. PICK T \in Returned(n) : f = RustName(T)
        OBVIOUS
      <4>2. \A A, B \in Returned(at.ns) :
              ShortName(RustName(A), nsov.prefix) = ShortName(RustName(B), nsov.prefix)
                => RustName(A) = RustName(B)
        BY <2>4, <3>1, <3>2
      <4>3. T \in Returned(at.ns) /\ At("close")
        BY <2>1, <2>4 DEF At
      <4>4. <<RustName(T), ShortName(RustName(T), nsov.prefix)>> \in Exports(ns.refs, nsov.prefix)
        BY <4>2, <4>3, OutputsAreNamed
      <4>5. QED
        BY <3>1, <4>1, <4>4 DEF exports
    <3>3. resolved'[n].exports = exports
      BY <2>2, <2>3
    <3>4. QED
      BY <1>1, <1>3, <3>2, <3>3 DEF NamesItsOutputs
  <2>10. NamesItsRoutes(n)'
    <3>1. \A i \in DOMAIN ns.endpoints :
            \E r \in ToSet(ns.routes) :
              /\ r.const = ns.endpoints[i].const
              /\ r.resource = input.functions[input.namespaces[n].endpoints[i].function].resource
      BY <2>4 DEF RouteDeclared, FunctionOf
    <3>2. resolved'[n].routes = ns.routes /\ resolved'[n].endpoints = ns.endpoints
      BY <2>2, <2>3
    <3>3. \A i \in DOMAIN resolved'[n].endpoints :
            \E r \in ToSet(resolved'[n].routes) :
              /\ r.const = resolved'[n].endpoints[i].const
              /\ r.resource = input'.functions[input'.namespaces[n].endpoints[i].function].resource
      BY <1>1, <3>1, <3>2
    <3>4. QED
      BY <3>3 DEF NamesItsRoutes, ToSet
  <2>11. ASSUME NEW m \in DOMAIN resolved'
         PROVE  /\ ToSet(resolved'[m].endpoints) # {}
                /\ Imported(ToSet(resolved'[m].endpoints)) \subseteq {e[2] : e \in resolved'[m].exports}
                /\ HoldsTypes(emitted, resolved[m].exports)'
                /\ NamesItsOutputs(m)' /\ NamesItsRoutes(m)'
    <3>1. CASE m = n
      <4>1. resolved'[m].endpoints = ns.endpoints /\ resolved'[m].exports = exports
        BY <2>2, <2>3, <3>1
      <4>2. HoldsTypes(emitted, resolved[m].exports)'
        BY <1>4, <2>1, <2>8, <4>1
      <4>3. QED
        BY <2>6, <2>7, <2>9, <2>10, <3>1, <4>1, <4>2
    <3>2. CASE m # n
      <4>1. Continues(emitted, emitted')
        BY <2>1 DEF Continues
      <4>2. QED
        BY <1>5, <2>3, <3>2, <4>1
    <3>3. QED
      BY <3>1, <3>2
  <2>12. QED
    BY <2>11 DEF Made
<1>9. CASE Load \/ Endpoint \/ Fields \/ Output \/ Emit \/ Wipe \/ Write \/ Format
  <2>1. UNCHANGED resolved
    BY <1>9 DEF Load, Endpoint, Fields, Output, Emit, Wipe, Write, Format, Refuse, places
  <2>2. QED
    BY <1>6, <1>7, <2>1
<1>10. CASE UNCHANGED vars
  BY <1>6, <1>7, <1>10 DEF vars, places
<1>11. QED
  BY <1>6, <1>7, <1>8, <1>9, <1>10 DEF Next, Tool

(***************************************************************************)
(* A file of a namespace with an endpoint imports what it is written with: *)
(* the summary flags of emit_endpoints and emit_mod ask for a name exactly *)
(* when some endpoint's impl or method has it.                             *)
(***************************************************************************)
LEMMA ImportsAreUses ==
  ASSUME NEW n, ToSet(n.endpoints) # {}
  PROVE  EndpointsImports(n) = EndpointsUses(n) /\ ModImports(n) = ModUses(n)
<1> DEFINE eps == ToSet(n.endpoints)
           impls == UNION {Impl(e) : e \in eps}
           methods == UNION {Method(e) : e \in eps}
<1>1. ASSUME NEW x
      PROVE  /\ x \in EndpointsImports(n) <=>
                  \/ x \in {<<"Endpoint">>, <<"EndpointMeta">>, <<"Method">>, <<"Route">>, <<"routes">>}
                  \/ x = <<"RequestError">> /\ \E e \in eps : e.body # "none"
                  \/ x = <<"json_body">> /\ \E e \in eps : e.body = "bare"
                  \/ x = <<"HashMap">> /\ \E e \in eps : e.wrap = "map"
                  \/ x # Plain /\ \E e \in eps : x = e.output
             /\ x \in ModImports(n) <=>
                  \/ x = <<"Client">>
                  \/ x \in {<<"RequestError">>, <<"Response">>} /\ \E e \in eps : e.verb # "Get"
                  \/ x = <<"HashMap">> /\ \E e \in eps : e.verb = "Get" /\ e.wrap = "map"
                  \/ x = <<"Duration">> /\ n.timeout # ""
                  \/ x # Plain /\ \E e \in eps : e.verb = "Get" /\ x = e.output
  <2>1. eps # Gets(eps) <=> \E e \in eps : e.verb # "Get"
    BY DEF Gets
  <2>2. \A S : x \in Imported(S) <=> x # Plain /\ \E e \in S : x = e.output
    BY DEF Imported
  <2> HIDE DEF eps
  <2>3. x \in EndpointsImports(n) <=>
          \/ x \in {<<"Endpoint">>, <<"EndpointMeta">>, <<"Method">>, <<"Route">>, <<"routes">>}
          \/ x = <<"RequestError">> /\ \E e \in eps : e.body # "none"
          \/ x = <<"json_body">> /\ \E e \in eps : e.body = "bare"
          \/ x = <<"HashMap">> /\ \E e \in eps : e.wrap = "map"
          \/ x # Plain /\ \E e \in eps : x = e.output
    BY <2>2 DEF EndpointsImports, When, eps
  <2>4. x \in ModImports(n) <=>
          \/ x = <<"Client">>
          \/ x \in {<<"RequestError">>, <<"Response">>} /\ \E e \in eps : e.verb # "Get"
          \/ x = <<"HashMap">> /\ \E e \in eps : e.verb = "Get" /\ e.wrap = "map"
          \/ x = <<"Duration">> /\ n.timeout # ""
          \/ x # Plain /\ \E e \in eps : e.verb = "Get" /\ x = e.output
    <3>1. (\E e \in Gets(eps) : e.wrap = "map") <=> \E e \in eps : e.verb = "Get" /\ e.wrap = "map"
      BY DEF Gets
    <3>2. x \in Imported(Gets(eps)) <=> x # Plain /\ \E e \in eps : e.verb = "Get" /\ x = e.output
      BY <2>2 DEF Gets
    <3>3. x \in ModImports(n) <=>
            \/ x = <<"Client">>
            \/ eps # Gets(eps) /\ x \in {<<"RequestError">>, <<"Response">>}
            \/ x = <<"HashMap">> /\ \E e \in Gets(eps) : e.wrap = "map"
            \/ x = <<"Duration">> /\ n.timeout # ""
            \/ x \in Imported(Gets(eps))
      BY DEF ModImports, When, eps
    <3>4. QED
      BY <2>1, <3>1, <3>2, <3>3
  <2>5. QED
    BY <2>3, <2>4
<1>2. ASSUME NEW x, NEW e
      PROVE  /\ x \in Impl(e) <=>
                  \/ x \in {<<"Endpoint">>, <<"Method">>, <<"Route">>, <<"routes">>}
                  \/ x = <<"HashMap">> /\ e.wrap = "map"
                  \/ x = e.output /\ x # Plain
                  \/ x = <<"RequestError">> /\ e.body # "none"
                  \/ x = <<"json_body">> /\ e.body = "bare"
             /\ x \in Method(e) <=>
                  \/ e.verb = "Get" /\ x = <<"HashMap">> /\ e.wrap = "map"
                  \/ e.verb = "Get" /\ x = e.output /\ x # Plain
                  \/ e.verb # "Get" /\ x \in {<<"RequestError">>, <<"Response">>}
  <2>1. x \in Written(e) <=> (x = <<"HashMap">> /\ e.wrap = "map") \/ (x = e.output /\ x # Plain)
    BY DEF Written, When
  <2>2. x \in Body(e) <=> \/ x = <<"RequestError">> /\ e.body # "none"
                          \/ x = <<"json_body">> /\ e.body = "bare"
    BY DEF Body, When
  <2>3. x \in Method(e) <=>
          \/ e.verb = "Get" /\ x = <<"HashMap">> /\ e.wrap = "map"
          \/ e.verb = "Get" /\ x = e.output /\ x # Plain
          \/ e.verb # "Get" /\ x \in {<<"RequestError">>, <<"Response">>}
    BY <2>1 DEF Method
  <2>4. QED
    BY <2>1, <2>2, <2>3 DEF Impl
<1>3. EndpointsImports(n) = EndpointsUses(n)
  <2>1. ASSUME NEW x PROVE x \in EndpointsUses(n) <=> x = <<"EndpointMeta">> \/ \E e \in eps : x \in Impl(e)
    BY DEF EndpointsUses
  <2>2. \E e : e \in eps
    OBVIOUS
  <2> HIDE DEF eps
  <2>3. ASSUME NEW x PROVE x \in EndpointsImports(n) <=> x \in EndpointsUses(n)
    <3>1. \A e : x \in Impl(e) <=>
                   \/ x \in {<<"Endpoint">>, <<"Method">>, <<"Route">>, <<"routes">>}
                   \/ x = <<"HashMap">> /\ e.wrap = "map"
                   \/ x = e.output /\ x # Plain
                   \/ x = <<"RequestError">> /\ e.body # "none"
                   \/ x = <<"json_body">> /\ e.body = "bare"
      BY <1>2
    <3>2. (\E e \in eps : x \in Impl(e)) <=>
            \/ x \in {<<"Endpoint">>, <<"Method">>, <<"Route">>, <<"routes">>}
            \/ x = <<"HashMap">> /\ \E e \in eps : e.wrap = "map"
            \/ x # Plain /\ \E e \in eps : x = e.output
            \/ x = <<"RequestError">> /\ \E e \in eps : e.body # "none"
            \/ x = <<"json_body">> /\ \E e \in eps : e.body = "bare"
      BY <2>2, <3>1
    <3>3. x \in EndpointsUses(n) <=> x = <<"EndpointMeta">> \/ \E e \in eps : x \in Impl(e)
      BY <2>1
    <3>4. QED
      BY <1>1, <3>2, <3>3
  <2>4. QED
    BY <2>3
<1>4. ModImports(n) = ModUses(n)
  <2>1. ASSUME NEW x
        PROVE  x \in ModUses(n) <=> \/ x = <<"Client">>
                                    \/ x = <<"Duration">> /\ n.timeout # ""
                                    \/ \E e \in eps : x \in Method(e)
    BY DEF ModUses, When
  <2> HIDE DEF eps
  <2>2. ASSUME NEW x PROVE x \in ModImports(n) <=> x \in ModUses(n)
    <3>1. \A e : x \in Method(e) <=>
                   \/ e.verb = "Get" /\ x = <<"HashMap">> /\ e.wrap = "map"
                   \/ e.verb = "Get" /\ x = e.output /\ x # Plain
                   \/ e.verb # "Get" /\ x \in {<<"RequestError">>, <<"Response">>}
      BY <1>2
    <3>2. (\E e \in eps : x \in Method(e)) <=>
            \/ x = <<"HashMap">> /\ \E e \in eps : e.verb = "Get" /\ e.wrap = "map"
            \/ x # Plain /\ \E e \in eps : e.verb = "Get" /\ x = e.output
            \/ x \in {<<"RequestError">>, <<"Response">>} /\ \E e \in eps : e.verb # "Get"
      BY <3>1
    <3>3. x \in ModUses(n) <=> \/ x = <<"Client">>
                               \/ x = <<"Duration">> /\ n.timeout # ""
                               \/ \E e \in eps : x \in Method(e)
      BY <2>1
    <3>4. QED
      BY <1>1, <3>2, <3>3
  <2>3. QED
    BY <2>2
<1>5. QED
  BY <1>3, <1>4

(***************************************************************************)
(* The files of the crate are lib.rs and those its modules declare.        *)
(***************************************************************************)
LEMMA FilesAreDeclared ==
  ASSUME Places
  PROVE  ToSet(Files) = {<<"lib.rs">>} \cup Declared
<1>1. PICK S, spaces, groups :
        /\ spaces = [i \in DOMAIN resolved |-> NamespaceFiles(resolved[i].module)]
        /\ groups = [i \in DOMAIN resolved |-> GroupFiles(resolved[i])]
        /\ spaces \in Seq(Seq(S)) /\ groups \in Seq(Seq(S))
        /\ <<<<"lib.rs">>, <<"namespaces", "mod.rs">>>> \in Seq(S)
        /\ <<<<"models", "mod.rs">>, <<"models", "flat.rs">>>> \in Seq(S)
  BY FilesAreTyped
<1> DEFINE first == <<<<"lib.rs">>, <<"namespaces", "mod.rs">>>>
           second == <<<<"models", "mod.rs">>, <<"models", "flat.rs">>>>
<1>2. /\ ToSet(first) = {<<"lib.rs">>, <<"namespaces", "mod.rs">>}
      /\ ToSet(second) = {<<"models", "mod.rs">>, <<"models", "flat.rs">>}
  BY DEF ToSet
<1>3. \A seqs \in Seq(Seq(S)) :
        /\ FlattenSeq(seqs) \in Seq(S)
        /\ ToSet(FlattenSeq(seqs)) = UNION {ToSet(seqs[i]) : i \in DOMAIN seqs}
  BY FlattenSeqIs
<1>4. /\ FlattenSeq(spaces) \in Seq(S) /\ FlattenSeq(groups) \in Seq(S)
      /\ ToSet(FlattenSeq(spaces)) = UNION {ToSet(spaces[i]) : i \in DOMAIN spaces}
      /\ ToSet(FlattenSeq(groups)) = UNION {ToSet(groups[i]) : i \in DOMAIN groups}
  BY <1>1, <1>3
<1>5. first \in Seq(S) /\ second \in Seq(S)
  BY <1>1
<1>6. Files = first \o FlattenSeq(spaces) \o second \o FlattenSeq(groups)
  BY <1>1 DEF Files, FilesOf
<1> HIDE DEF first, second
<1>7. ToSet(Files) = ToSet(first) \cup ToSet(FlattenSeq(spaces))
                       \cup ToSet(second) \cup ToSet(FlattenSeq(groups))
  <2>1. PICK a : a = first \o FlattenSeq(spaces)
    OBVIOUS
  <2>2. a \in Seq(S) /\ ToSet(a) = ToSet(first) \cup ToSet(FlattenSeq(spaces))
    BY <1>4, <1>5, <2>1, EndToEnd
  <2>3. PICK b : b = a \o second
    OBVIOUS
  <2>4. b \in Seq(S) /\ ToSet(b) = ToSet(a) \cup ToSet(second)
    BY <1>5, <2>2, <2>3, EndToEnd
  <2>5. Files = b \o FlattenSeq(groups)
    BY <1>6, <2>1, <2>3
  <2>6. ToSet(Files) = ToSet(b) \cup ToSet(FlattenSeq(groups))
    BY <1>4, <2>4, <2>5, EndToEnd
  <2>7. QED
    BY <2>2, <2>4, <2>6
<1>8. ASSUME NEW i \in DOMAIN resolved
      PROVE  /\ ToSet(spaces[i]) = {<<"namespaces", resolved[i].module, "mod.rs">>}
                                     \cup NamespaceModules(resolved[i])
             /\ ToSet(groups[i]) = IF Grouped(resolved[i]) THEN {<<"models", resolved[i].module>>} ELSE {}
  <2>1. PICK m : m = resolved[i].module
    OBVIOUS
  <2>2. spaces[i] = NamespaceFiles(m) /\ groups[i] = GroupFiles(resolved[i])
    BY <1>1, <2>1
  <2>3. /\ \A x, y, z : ToSet(<<x, y, z>>) = {x, y, z}
        /\ \A x : ToSet(<<x>>) = {x}
        /\ ToSet(<<>>) = {}
    BY DEF ToSet
  <2>4. ToSet(spaces[i]) = {<<"namespaces", m, "routes.rs">>, <<"namespaces", m, "endpoints.rs">>,
                            <<"namespaces", m, "mod.rs">>}
    BY <2>2, <2>3 DEF NamespaceFiles
  <2>5. NamespaceModules(resolved[i]) = {<<"namespaces", m, "endpoints.rs">>, <<"namespaces", m, "routes.rs">>}
    BY <2>1 DEF NamespaceModules
  <2>6. ToSet(groups[i]) = IF Grouped(resolved[i]) THEN {<<"models", m>>} ELSE {}
    BY <2>1, <2>2, <2>3 DEF GroupFiles
  <2>7. QED
    BY <2>1, <2>4, <2>5, <2>6
<1>9. DOMAIN spaces = DOMAIN resolved /\ DOMAIN groups = DOMAIN resolved
  BY <1>1
<1>10. ASSUME NEW x
       PROVE  x \in ToSet(FlattenSeq(spaces)) <=>
                \E i \in DOMAIN resolved : \/ x = <<"namespaces", resolved[i].module, "mod.rs">>
                                           \/ x \in NamespaceModules(resolved[i])
  BY <1>4, <1>8, <1>9
<1>11. ASSUME NEW x
       PROVE  x \in ToSet(FlattenSeq(groups)) <=>
                \E i \in DOMAIN resolved : Grouped(resolved[i]) /\ x = <<"models", resolved[i].module>>
  BY <1>4, <1>8, <1>9
<1>12. ASSUME NEW x
       PROVE  x \in Declared <=>
                \/ x \in {<<"namespaces", "mod.rs">>, <<"models", "mod.rs">>, <<"models", "flat.rs">>}
                \/ \E i \in DOMAIN resolved : x = <<"namespaces", resolved[i].module, "mod.rs">>
                \/ \E i \in DOMAIN resolved : Grouped(resolved[i]) /\ x = <<"models", resolved[i].module>>
                \/ \E i \in DOMAIN resolved : x \in NamespaceModules(resolved[i])
  <2>1. x \in NamespacesModules(resolved) <=>
          \E i \in DOMAIN resolved : x = <<"namespaces", resolved[i].module, "mod.rs">>
    BY DEF NamespacesModules
  <2>2. \A n : n \in ToSet(resolved) <=> \E i \in DOMAIN resolved : n = resolved[i]
    BY DEF ToSet
  <2>3. x \in ModelsModules(resolved) <=>
          \/ x = <<"models", "flat.rs">>
          \/ \E i \in DOMAIN resolved : Grouped(resolved[i]) /\ x = <<"models", resolved[i].module>>
    BY <2>2 DEF ModelsModules
  <2>4. x \in (UNION {NamespaceModules(n) : n \in ToSet(resolved)}) <=>
          \E i \in DOMAIN resolved : x \in NamespaceModules(resolved[i])
    BY <2>2
  <2>5. x \in LibModules <=> x \in {<<"namespaces", "mod.rs">>, <<"models", "mod.rs">>}
    BY DEF LibModules
  <2>6. QED
    BY <2>1, <2>3, <2>4, <2>5 DEF Declared
<1>13. ASSUME NEW x PROVE x \in ToSet(Files) <=> x \in {<<"lib.rs">>} \cup Declared
  BY <1>2, <1>7, <1>10, <1>11, <1>12
<1>14. QED
  BY <1>13

----------------------------------------------------------------------------
(***************************************************************************)
(* The inductive invariant holds of every state.                           *)
(***************************************************************************)
CodegenInv ==
  IsInput(input) /\ Places /\ Typed /\ Walking /\ Collected /\ Made /\ Writing /\ KnownPc

\* The inductive invariant: it holds first, and every step keeps it.
LEMMA InvHolds == Spec => []CodegenInv
<1>1. Init => CodegenInv
  <2>1. Init => Collected /\ Made
    BY DEF Init, Collected, Made, At
  <2>2. QED
    BY <2>1, InitHolds DEF CodegenInv
<1>2. CodegenInv /\ [Next]_vars => CodegenInv'
  <2> SUFFICES ASSUME CodegenInv, [Next]_vars PROVE CodegenInv'
    OBVIOUS
  <2>1. IsInput(input) /\ Places /\ Typed /\ Walking /\ Collected /\ Made /\ Writing /\ KnownPc
    BY DEF CodegenInv
  <2>2. IsInput(input)'
    BY <2>1, InputKept DEF IsInput
  <2>3. Places' /\ Typed' /\ Walking' /\ Collected' /\ Made' /\ Writing'
    BY <2>1, PlacesStep, TypedStep, WalkingStep, CollectedStep, MadeStep, WritingStep
  <2>4. KnownPc'
    BY <2>1 DEF KnownPc, Next, Tool, Load, Endpoint, Fields, Output, Close, Emit, Wipe, Write,
                Format, Again, Goes, Refuse, Mishap, NextNamespace, vars
  <2>5. QED
    BY <2>2, <2>3, <2>4 DEF CodegenInv
<1>3. QED
  BY <1>1, <1>2, PTL DEF Spec

(***************************************************************************)
(* The generator's state is what its type says, on any input: `resolve'    *)
(* never indexes a namespace or an endpoint that is not there, and what it *)
(* has resolved is made of names and known kinds (mod.rs).                 *)
(***************************************************************************)
THEOREM CodegenTypeCorrect == Spec => []TypeOK
<1>1. CodegenInv => TypeOK
  <2> SUFFICES ASSUME CodegenInv PROVE TypeOK
    OBVIOUS
  <2>1. emitted \in Seq(FlatType) /\ stack \in Seq(FrameType)
    BY DEF CodegenInv, Walking, WalkInv, Flat, Framed
  <2>2. at \in [ns : 1..Len(input.namespaces) + 1, ep : Nat]
    BY DEF CodegenInv, Places, Typed
  <2>3. QED
    BY <2>1, <2>2 DEF CodegenInv, Typed, Writing, KnownPc, TypeOK
<1>2. QED
  BY <1>1, InvHolds, PTL

(***************************************************************************)
(* On any graph of types, with cycles or without, emit_struct begins no    *)
(* type twice, and once the walk is over every flat type has the fields    *)
(* kept of the type it was made from, its structs by the names of the flat *)
(* types made from theirs (mod.rs:680, 772).                               *)
(***************************************************************************)
THEOREM TypesAreEmittedOnce == Spec => []EachTypeOnce
<1>1. CodegenInv => EachTypeOnce
  <2> SUFFICES ASSUME CodegenInv PROVE EachTypeOnce
    OBVIOUS
  <2>1. \A i, j \in DOMAIN emitted : emitted[i].name = emitted[j].name => i = j
    BY DEF CodegenInv, Walking, WalkInv, Flat
  <2>2. ASSUME At("emit"), NamesAreDistinct, NEW i \in DOMAIN emitted
        PROVE  Modelled(emitted[i])
    <3>1. stack = <<>>
      BY <2>2 DEF CodegenInv, Walking, At
    <3>2. QED
      BY <2>2, <3>1, WalkEnds DEF CodegenInv
  <2>3. QED
    BY <2>1, <2>2 DEF EachTypeOnce
<1>2. QED
  BY <1>1, InvHolds, PTL

(***************************************************************************)
(* Each group re-exports all that its types reach, and under its short     *)
(* name what its namespace's endpoints return, whatever the other          *)
(* namespaces use the short names for (mod.rs:542, 747).                   *)
(***************************************************************************)
THEOREM GroupsStayWhole == Spec => []GroupsAreWhole
<1>1. CodegenInv => GroupsAreWhole
  <2> SUFFICES ASSUME CodegenInv, NEW n \in DOMAIN resolved
               PROVE  HoldsWhatItNames(resolved[n].exports) /\ NamesItsOutputs(n)
    BY DEF GroupsAreWhole
  <2>1. PICK exports : exports = resolved[n].exports
    OBVIOUS
  <2>2. HoldsTypes(emitted, exports) /\ NamesItsOutputs(n)
    BY <2>1 DEF CodegenInv, Made
  <2>3. ASSUME NEW e \in exports, NEW i \in DOMAIN emitted, emitted[i].name = e[1],
               NEW k \in DOMAIN emitted[i].fields, emitted[i].fields[k].of # Plain
        PROVE  \E x \in exports : x[1] = emitted[i].fields[k].of
    <3>1. PICK j \in DOMAIN emitted :
            /\ emitted[j].name = e[1]
            /\ \A l \in DOMAIN KeptFields(emitted[j].of) :
                 IsStruct(KeptFields(emitted[j].of)[l]) =>
                   \E x \in exports : x[1] = RustName(KeptFields(emitted[j].of)[l].of)
      BY <2>2 DEF HoldsTypes
    <3>2. j = i
      BY <2>3, <3>1 DEF CodegenInv, Walking, WalkInv, Flat
    <3>3. emitted[i].filled
      <4>1. emitted[i].fields # <<>>
        BY <2>3
      <4>2. QED
        BY <4>1 DEF CodegenInv, Walking, WalkInv, Settled
    <3>4. LET kept == KeptFields(emitted[i].of) IN
          /\ DOMAIN emitted[i].fields = DOMAIN kept
          /\ \A l \in DOMAIN kept :
               IF IsStruct(kept[l])
                 THEN emitted[i].fields[l].of = RustName(kept[l].of) /\ IsEmitted(RustName(kept[l].of))
                 ELSE emitted[i].fields[l].of = Plain
      BY <3>3, FieldsAreNamed DEF CodegenInv
    <3>5. QED
      BY <2>3, <3>1, <3>2, <3>4
  <2>4. QED
    BY <2>1, <2>2, <2>3 DEF HoldsWhatItNames
<1>2. QED
  BY <1>1, InvHolds, PTL

(***************************************************************************)
(* The crate that is written holds together: endpoints name routes that    *)
(* are declared, files import what they are written with, groups take what *)
(* flat.rs has, and the files are the modules that are declared (mod.rs).  *)
(***************************************************************************)
THEOREM CratesHoldTogether == Spec => []CrateHoldsTogether
<1>1. CodegenInv => CrateHoldsTogether
  <2> SUFFICES ASSUME CodegenInv PROVE CrateHoldsTogether
    OBVIOUS
  <2>1. ASSUME NEW n \in DOMAIN resolved
        PROVE  NamesItsRoutes(n) /\ ImportsWhatItUses(resolved[n])
    <3>1. PICK r : r = resolved[n]
      OBVIOUS
    <3>2. /\ ToSet(r.endpoints) # {} /\ NamesItsRoutes(n)
          /\ Imported(ToSet(r.endpoints)) \subseteq {e[2] : e \in r.exports}
          /\ HoldsTypes(emitted, r.exports)
      BY <3>1 DEF CodegenInv, Made
    <3>3. EndpointsImports(r) = EndpointsUses(r) /\ ModImports(r) = ModUses(r)
      BY <3>2, ImportsAreUses
    <3>4. GroupTakes(r) \subseteq FlatNames
      BY <3>2 DEF HoldsTypes, GroupTakes, FlatNames
    <3>5. QED
      BY <3>1, <3>2, <3>3, <3>4 DEF ImportsWhatItUses
  <2>2. At("wipe") => ToSet(unwritten) = {<<"lib.rs">>} \cup Declared
    BY FilesAreDeclared DEF CodegenInv, Writing
  <2>3. QED
    BY <2>1, <2>2 DEF CrateHoldsTogether
<1>2. QED
  BY <1>1, InvHolds, PTL

(***************************************************************************)
(* A run that succeeds has written all of the crate's files and left none  *)
(* of what it found, whatever tree and whatever earlier runs' failures     *)
(* came before it (run).                                                   *)
(***************************************************************************)
THEOREM TreesAreWhole == Spec => []TreeIsWhole
<1>1. CodegenInv => TreeIsWhole
  BY DEF CodegenInv, Writing
<1>2. QED
  BY <1>1, InvHolds, PTL

(***************************************************************************)
(* The tree is not touched before every namespace has been resolved: an    *)
(* input that is refused leaves it as it was (run).                        *)
(***************************************************************************)
THEOREM RefusedInputsSpareTheTree == Spec => RefusedInputSparesTheTree
<1>1. CodegenInv /\ [Next]_vars =>
        [tree' # tree => Len(resolved) = Len(input.namespaces) /\ resolved # <<>>]_vars
  <2> SUFFICES ASSUME CodegenInv, Next, tree' # tree
               PROVE  Len(resolved) = Len(input.namespaces) /\ resolved # <<>>
    OBVIOUS
  <2>1. pc \in {"wipe", "write"}
    BY DEF Next, Tool, Load, Endpoint, Fields, Output, Close, Emit, Wipe, Write, Format, Again,
           Refuse, disk, At
  <2>2. QED
    BY <2>1 DEF CodegenInv, Places, At
<1>2. QED
  BY <1>1, InvHolds, PTL DEF Spec, RefusedInputSparesTheTree

=============================================================================
