---------------------------- MODULE NamingProofs ----------------------------
(***************************************************************************)
(* Proofs about Naming: for any names, arguments and templates, and any    *)
(* values of a parameter.                                                  *)
(***************************************************************************)
EXTENDS Naming, FiniteSetTheorems, WellFoundedInduction, SequenceTheorems, TLAPS

-----------------------------------------------------------------------------
(***************************************************************************)
(* Sequences end to end.                                                   *)
(***************************************************************************)

(***************************************************************************)
(* Induction over the naturals, as the existence of a least one.           *)
(***************************************************************************)
LEMMA LeastNatural ==
  ASSUME NEW T, T \subseteq Nat, T # {}
  PROVE  \E n \in T : \A m \in T : n <= m
<1> DEFINE R == OpToRel(<, Nat)
<1>1. IsWellFoundedOn(R, Nat)
  BY NatLessThanWellFounded
<1>2. \A m, n \in Nat : m < n => <<m, n>> \in R
  BY DEF OpToRel
<1> HIDE DEF R
<1>3. PICK n \in T : \A m \in T : ~(<<m, n>> \in R)
  BY <1>1, WFMin
<1>4. ASSUME NEW m \in T, ~(n <= m) PROVE FALSE
  <2>1. m \in Nat /\ n \in Nat /\ m < n
    BY <1>4
  <2>2. QED
    BY <1>2, <1>3, <2>1
<1>5. QED
  BY <1>4

(***************************************************************************)
(* FlattenSeq puts sequences end to end: the function its definition asks  *)
(* for exists.                                                             *)
(***************************************************************************)
LEMMA FlattenExists ==
  ASSUME NEW n \in Nat, NEW s
  PROVE  \E f : f = [i \in 1..n |-> IF i = 1 THEN s[i] ELSE f[i - 1] \o s[i]]
<1> DEFINE Step(g, i) == IF i = 1 THEN s[i] ELSE g[i - 1] \o s[i]
           Upto(g, m) == g = [i \in 1..m |-> Step(g, i)]
           T == {m \in Nat : ~\E g : Upto(g, m)}
<1>1. T = {}
  <2> SUFFICES ASSUME T # {} PROVE FALSE
    OBVIOUS
  <2>1. PICK m \in T : \A k \in T : m <= k
    <3>1. T \subseteq Nat
      OBVIOUS
    <3> HIDE DEF T
    <3>2. QED
      BY <3>1, LeastNatural
  <2>2. CASE m = 0
    <3>1. Upto(<<>>, 0)
      OBVIOUS
    <3>2. QED
      BY <2>1, <2>2, <3>1
  <2>3. CASE m # 0
    <3>1. m \in Nat /\ m - 1 \in Nat /\ ~(m <= m - 1)
      BY <2>1, <2>3
    <3>2. PICK g : Upto(g, m - 1)
      <4> HIDE DEF Upto
      <4>1. m - 1 \notin T
        BY <2>1, <3>1
      <4>2. QED
        BY <3>1, <4>1
    <3>3. PICK h : h = [i \in 1..m |-> IF i = m THEN Step(g, m) ELSE g[i]]
      OBVIOUS
    <3>4. ASSUME NEW i \in 1..m PROVE h[i] = Step(h, i)
      <4>1. i # 1 => i - 1 \in 1..m - 1 /\ h[i - 1] = g[i - 1]
        BY <3>1, <3>3
      <4>2. CASE i = m
        BY <3>1, <3>3, <4>1, <4>2
      <4>3. CASE i # m
        <5>1. i \in 1..m - 1 /\ h[i] = g[i]
          BY <3>1, <3>3, <4>3
        <5>2. g[i] = Step(g, i)
          BY <3>2, <5>1
        <5>3. QED
          BY <4>1, <5>1, <5>2
      <4>4. QED
        BY <4>2, <4>3
    <3>5. h = [i \in 1..m |-> h[i]]
      BY <3>3
    <3>6. Upto(h, m)
      BY <3>4, <3>5
    <3>7. QED
      BY <2>1, <3>6
  <2>4. QED
    BY <2>2, <2>3
<1>2. n \notin T
  BY <1>1
<1>3. QED
  BY <1>2


(***************************************************************************)
(* What FlattenSeq is: the last of the sequences that each follow from the *)
(* one before by what is put to its end.                                   *)
(***************************************************************************)
LEMMA FlattenIs ==
  ASSUME NEW S, NEW s \in Seq(Seq(S))
  PROVE  \E f : /\ \A i \in 1..Len(s) : /\ f[i] \in Seq(S)
                                       /\ f[i] = IF i = 1 THEN s[i] ELSE f[i - 1] \o s[i]
               /\ FlattenSeq(s) = IF Len(s) = 0 THEN <<>> ELSE f[Len(s)]
<1> DEFINE n == Len(s)
           flatten[i \in 1..n] == IF i = 1 THEN s[i] ELSE flatten[i - 1] \o s[i]
<1>1. n \in Nat /\ DOMAIN s = 1..n /\ \A i \in 1..n : s[i] \in Seq(S)
  OBVIOUS
<1>2. flatten = [i \in 1..n |-> IF i = 1 THEN s[i] ELSE flatten[i - 1] \o s[i]]
  <2> HIDE DEF n
  <2>1. \E f : f = [i \in 1..n |-> IF i = 1 THEN s[i] ELSE f[i - 1] \o s[i]]
    BY <1>1, FlattenExists
  <2>2. QED
    BY <2>1
<1>3. FlattenSeq(s) = IF n = 0 THEN <<>> ELSE flatten[n]
  <2>1. n = 0 => s = <<>>
    OBVIOUS
  <2>2. QED
    BY <2>1 DEF FlattenSeq
<1> HIDE DEF flatten, n
<1>4. \A i \in 1..n : flatten[i] = IF i = 1 THEN s[i] ELSE flatten[i - 1] \o s[i]
  BY <1>2
<1> DEFINE T == {i \in 1..n : flatten[i] \notin Seq(S)}
<1>5. T = {}
  <2> SUFFICES ASSUME T # {} PROVE FALSE
    OBVIOUS
  <2>1. PICK i \in T : \A k \in T : i <= k
    <3>1. T \subseteq Nat
      BY <1>1
    <3> HIDE DEF T
    <3>2. QED
      BY <3>1, LeastNatural
  <2>2. i \in 1..n /\ flatten[i] \notin Seq(S)
    OBVIOUS
  <2>3. i # 1
    BY <1>1, <1>4, <2>2
  <2>4. i - 1 \in 1..n /\ ~(i <= i - 1)
    BY <1>1, <2>2, <2>3
  <2>5. flatten[i - 1] \in Seq(S)
    BY <2>1, <2>4
  <2>6. \A a, b \in Seq(S) : a \o b \in Seq(S)
    OBVIOUS
  <2>7. QED
    BY <1>1, <1>4, <2>2, <2>3, <2>5, <2>6
<1>6. QED
  BY <1>3, <1>4, <1>5 DEF n

(***************************************************************************)
(* One more sequence goes to the end.                                      *)
(***************************************************************************)
LEMMA FlattenAppend ==
  ASSUME NEW S, NEW s \in Seq(Seq(S)), NEW x \in Seq(S)
  PROVE  /\ FlattenSeq(s) \in Seq(S)
         /\ FlattenSeq(Append(s, x)) = FlattenSeq(s) \o x
<1> DEFINE n == Len(s)
           t == Append(s, x)
<1>1. /\ n \in Nat /\ t \in Seq(Seq(S)) /\ Len(t) = n + 1
      /\ t[n + 1] = x /\ \A i \in 1..n : t[i] = s[i]
  OBVIOUS
<1>2. PICK f : /\ \A i \in 1..n : /\ f[i] \in Seq(S)
                                  /\ f[i] = IF i = 1 THEN s[i] ELSE f[i - 1] \o s[i]
               /\ FlattenSeq(s) = IF n = 0 THEN <<>> ELSE f[n]
  BY FlattenIs
<1> HIDE DEF t
<1>3. PICK g : /\ \A i \in 1..n + 1 : /\ g[i] \in Seq(S)
                                      /\ g[i] = IF i = 1 THEN t[i] ELSE g[i - 1] \o t[i]
               /\ FlattenSeq(t) = IF n + 1 = 0 THEN <<>> ELSE g[n + 1]
  <2>1. \E g : /\ \A i \in 1..Len(t) : /\ g[i] \in Seq(S)
                                        /\ g[i] = IF i = 1 THEN t[i] ELSE g[i - 1] \o t[i]
               /\ FlattenSeq(t) = IF Len(t) = 0 THEN <<>> ELSE g[Len(t)]
    BY <1>1, FlattenIs
  <2>2. Len(t) = n + 1
    BY <1>1
  <2> HIDE DEF n
  <2>3. QED
    BY <2>1, <2>2
<1> HIDE DEF n
<1> DEFINE T == {i \in 1..n : f[i] # g[i]}
<1>4. T = {}
  <2> SUFFICES ASSUME T # {} PROVE FALSE
    OBVIOUS
  <2>1. PICK i \in T : \A k \in T : i <= k
    <3>1. T \subseteq Nat
      BY <1>1
    <3> HIDE DEF T
    <3>2. QED
      BY <3>1, LeastNatural
  <2>2. i \in 1..n /\ i \in 1..n + 1 /\ f[i] # g[i] /\ t[i] = s[i]
    BY <1>1
  <2>3. i # 1
    BY <1>2, <1>3, <2>2
  <2>4. i - 1 \in 1..n /\ ~(i <= i - 1)
    BY <1>1, <2>2, <2>3
  <2>5. f[i - 1] = g[i - 1]
    BY <2>1, <2>4
  <2>6. QED
    BY <1>2, <1>3, <2>2, <2>3, <2>5
<1>5. CASE n = 0
  <2>1. g[1] = x /\ FlattenSeq(t) = g[1] /\ FlattenSeq(s) = <<>>
    BY <1>1, <1>2, <1>3, <1>5
  <2>2. QED
    BY <2>1 DEF t
<1>6. CASE n # 0
  <2>1. n \in 1..n /\ n + 1 \in 1..n + 1 /\ n + 1 # 1 /\ n + 1 # 0 /\ n + 1 - 1 = n
    BY <1>1, <1>6
  <2>2. g[n + 1] = g[n] \o x
    <3>1. PICK k : k = n + 1
      OBVIOUS
    <3>2. g[k] = IF k = 1 THEN t[k] ELSE g[k - 1] \o t[k]
      BY <1>3, <2>1, <3>1
    <3>3. k # 1 /\ k - 1 = n /\ t[k] = x
      BY <1>1, <2>1, <3>1
    <3>4. QED
      BY <3>1, <3>2, <3>3
  <2>3. g[n] = f[n]
    <3> HIDE DEF T
    <3>1. n \notin T
      BY <1>4
    <3>2. QED
      BY <2>1, <3>1 DEF T
  <2>4. FlattenSeq(s) = f[n] /\ FlattenSeq(t) = g[n + 1] /\ f[n] \in Seq(S)
    BY <1>2, <1>3, <1>6, <2>1
  <2>5. QED
    BY <2>2, <2>3, <2>4 DEF t
<1>7. QED
  BY <1>5, <1>6

(***************************************************************************)
(* Where the elements of two sequences are, one after the other.           *)
(***************************************************************************)
LEMMA EndToEnd ==
  ASSUME NEW S, NEW a \in Seq(S), NEW b \in Seq(S)
  PROVE  /\ a \o b \in Seq(S) /\ Len(a \o b) = Len(a) + Len(b)
         /\ Len(a) \in Nat /\ Len(b) \in Nat
         /\ \A i \in 1..Len(a) : (a \o b)[i] = a[i]
         /\ \A i \in 1..Len(b) : (a \o b)[Len(a) + i] = b[i]
<1>1. a \o b \in Seq(S) /\ Len(a \o b) = Len(a) + Len(b) /\ Len(a) \in Nat /\ Len(b) \in Nat
  OBVIOUS
<1>2. \A i \in 1..Len(a) : (a \o b)[i] = a[i]
  OBVIOUS
<1>3. \A i \in 1..Len(b) : (a \o b)[Len(a) + i] = b[i]
  OBVIOUS
<1>4. QED
  BY <1>1, <1>2, <1>3

(***************************************************************************)
(* One symbol, a sequence, and one symbol more.                            *)
(***************************************************************************)
LEMMA Bracketed ==
  ASSUME NEW S, NEW x \in S, NEW n \in Seq(S), NEW y \in S
  PROVE  /\ <<x>> \o n \o <<y>> \in Seq(S) /\ Len(<<x>> \o n \o <<y>>) = Len(n) + 2
         /\ (<<x>> \o n \o <<y>>)[1] = x /\ (<<x>> \o n \o <<y>>)[Len(n) + 2] = y
         /\ \A i \in 1..Len(n) : (<<x>> \o n \o <<y>>)[i + 1] = n[i]
<1>1. PICK u : u = <<x>> \o n
  OBVIOUS
<1>2. /\ u \in Seq(S) /\ Len(u) = Len(n) + 1 /\ u[1] = x
      /\ \A i \in 1..Len(n) : u[i + 1] = n[i]
  BY <1>1
<1>3. PICK h : h = u \o <<y>>
  OBVIOUS
<1>4. /\ h \in Seq(S) /\ Len(h) = Len(u) + 1 /\ h[Len(u) + 1] = y
      /\ \A i \in 1..Len(u) : h[i] = u[i]
  BY <1>2, <1>3
<1>5. Len(n) \in Nat
  OBVIOUS
<1>6. Len(u) + 1 = Len(n) + 2 /\ 1 \in 1..Len(u)
  BY <1>2, <1>5
<1>7. \A i \in 1..Len(n) : i + 1 \in 1..Len(u)
  BY <1>2, <1>5
<1>8. h[1] = x /\ h[Len(n) + 2] = y /\ Len(h) = Len(n) + 2
  BY <1>2, <1>4, <1>6
<1>9. \A i \in 1..Len(n) : h[i + 1] = n[i]
  BY <1>2, <1>4, <1>7
<1>10. h = <<x>> \o n \o <<y>>
  BY <1>1, <1>3
<1>11. QED
  BY <1>4, <1>8, <1>9, <1>10

(***************************************************************************)
(* The beginning of a sequence grows by one element.                       *)
(***************************************************************************)
LEMMA BeginningGrows ==
  ASSUME NEW S, NEW s \in Seq(S), NEW p \in Nat \ {0}, p <= Len(s)
  PROVE  SubSeq(s, 1, p) = Append(SubSeq(s, 1, p - 1), s[p])
         /\ SubSeq(s, 1, p - 1) \in Seq(S) /\ Len(SubSeq(s, 1, p - 1)) = p - 1
OBVIOUS

(***************************************************************************)
(* A part of a sequence.                                                   *)
(***************************************************************************)
LEMMA PartOf ==
  ASSUME NEW S, NEW s \in Seq(S), NEW m \in Nat, NEW n \in Nat, 1 <= m, n <= Len(s)
  PROVE  /\ SubSeq(s, m, n) \in Seq(S)
         /\ Len(SubSeq(s, m, n)) = IF m <= n THEN n - m + 1 ELSE 0
         /\ \A i \in 1..Len(SubSeq(s, m, n)) : SubSeq(s, m, n)[i] = s[m + i - 1]
OBVIOUS

(***************************************************************************)
(* Sequences of which only the first is not empty are it.                  *)
(***************************************************************************)
LEMMA FlattenFirst ==
  ASSUME NEW S, NEW s \in Seq(Seq(S)), s # <<>>, \A i \in 2..Len(s) : s[i] = <<>>
  PROVE  FlattenSeq(s) = s[1]
<1>1. PICK f : /\ \A i \in 1..Len(s) : /\ f[i] \in Seq(S)
                                       /\ f[i] = IF i = 1 THEN s[i] ELSE f[i - 1] \o s[i]
               /\ FlattenSeq(s) = IF Len(s) = 0 THEN <<>> ELSE f[Len(s)]
  BY FlattenIs
<1>2. PICK n, x : n = Len(s) /\ x = s[1]
  OBVIOUS
<1>3. n \in Nat \ {0} /\ n \in 1..n
  BY <1>2
<1> DEFINE T == {i \in 1..n : f[i] # x}
<1>4. T = {}
  <2> SUFFICES ASSUME T # {} PROVE FALSE
    OBVIOUS
  <2>1. PICK i \in T : \A k \in T : i <= k
    <3>1. T \subseteq Nat
      BY <1>3
    <3> HIDE DEF T
    <3>2. QED
      BY <3>1, LeastNatural
  <2>2. i \in 1..n /\ f[i] # x
    OBVIOUS
  <2>3. i # 1
    BY <1>1, <1>2, <2>2
  <2>4. i - 1 \in 1..n /\ ~(i <= i - 1) /\ i \in 2..n
    BY <1>3, <2>2, <2>3
  <2>5. f[i - 1] = x
    BY <2>1, <2>4
  <2>6. f[i - 1] \in Seq(S) /\ s[i] = <<>> /\ f[i] = f[i - 1] \o s[i]
    BY <1>1, <1>2, <2>2, <2>3, <2>4
  <2>7. \A a \in Seq(S) : a \o <<>> = a
    OBVIOUS
  <2>8. QED
    BY <2>2, <2>5, <2>6, <2>7
<1>5. f[n] = x
  BY <1>3, <1>4
<1>6. QED
  BY <1>1, <1>2, <1>3, <1>5

(***************************************************************************)
(* The elements of a sequence one by one are the sequence.                 *)
(***************************************************************************)
LEMMA FlattenSingles ==
  ASSUME NEW S, NEW s \in Seq(S), NEW t, t = [i \in DOMAIN s |-> <<s[i]>>]
  PROVE  FlattenSeq(t) = s
<1>1. PICK n : n = Len(s)
  OBVIOUS
<1>2. n \in Nat /\ DOMAIN s = 1..n /\ \A i \in 1..n : s[i] \in S
  BY <1>1
<1>3. \A i \in 1..n : <<s[i]>> \in Seq(S)
  BY <1>2
<1>4. t \in Seq(Seq(S)) /\ Len(t) = n
  BY <1>2, <1>3
<1>5. PICK f : /\ \A i \in 1..n : /\ f[i] \in Seq(S)
                                  /\ f[i] = IF i = 1 THEN t[i] ELSE f[i - 1] \o t[i]
               /\ FlattenSeq(t) = IF n = 0 THEN <<>> ELSE f[n]
  <2>1. \E g : /\ \A i \in 1..Len(t) : /\ g[i] \in Seq(S)
                                        /\ g[i] = IF i = 1 THEN t[i] ELSE g[i - 1] \o t[i]
               /\ FlattenSeq(t) = IF Len(t) = 0 THEN <<>> ELSE g[Len(t)]
    BY <1>4, FlattenIs
  <2>2. QED
    BY <1>4, <2>1
<1> DEFINE T == {i \in 1..n : f[i] # SubSeq(s, 1, i)}
<1>6. T = {}
  <2> SUFFICES ASSUME T # {} PROVE FALSE
    OBVIOUS
  <2>1. PICK i \in T : \A k \in T : i <= k
    <3>1. T \subseteq Nat
      BY <1>2
    <3> HIDE DEF T
    <3>2. QED
      BY <3>1, LeastNatural
  <2>2. i \in 1..n /\ f[i] # SubSeq(s, 1, i) /\ t[i] = <<s[i]>>
    BY <1>2
  <2>3. /\ SubSeq(s, 1, i) = Append(SubSeq(s, 1, i - 1), s[i])
        /\ SubSeq(s, 1, i - 1) \in Seq(S) /\ Len(SubSeq(s, 1, i - 1)) = i - 1
    <3>1. i \in Nat \ {0} /\ i <= Len(s)
      BY <1>1, <1>2, <2>2
    <3>2. QED
      BY <3>1, BeginningGrows
  <2>4. PICK a, x : a = SubSeq(s, 1, i - 1) /\ x = s[i]
    OBVIOUS
  <2>5. a \in Seq(S) /\ x \in S /\ Append(a, x) = a \o <<x>>
    BY <1>2, <2>2, <2>3, <2>4
  <2>6. CASE i = 1
    <3>1. a = <<>>
      BY <2>3, <2>4, <2>6
    <3>2. Append(<<>>, x) = <<x>>
      OBVIOUS
    <3>3. f[i] = <<x>>
      BY <1>5, <2>2, <2>4, <2>6
    <3>4. QED
      BY <2>2, <2>3, <2>4, <3>1, <3>2, <3>3
  <2>7. CASE i # 1
    <3>1. i - 1 \in 1..n /\ ~(i <= i - 1)
      BY <1>2, <2>2, <2>7
    <3>2. f[i - 1] = a
      BY <2>1, <2>4, <3>1
    <3>3. f[i] = a \o <<x>>
      BY <1>5, <2>2, <2>4, <2>7, <3>2
    <3>4. QED
      BY <2>2, <2>3, <2>4, <2>5, <3>3
  <2>8. QED
    BY <2>6, <2>7
<1>7. CASE n = 0
  <2>1. s = <<>>
    <3>1. Len(s) = 0
      BY <1>1, <1>7
    <3>2. QED
      BY <3>1
  <2>2. QED
    BY <1>5, <1>7, <2>1
<1>8. CASE n # 0
  <2>1. n \in 1..n /\ f[n] = SubSeq(s, 1, n)
    <3>1. n \in 1..n
      BY <1>2, <1>8
    <3>2. n \notin T
      BY <1>6
    <3>3. QED
      BY <3>1, <3>2
  <2>2. SubSeq(s, 1, Len(s)) = s
    OBVIOUS
  <2>3. QED
    BY <1>1, <1>5, <1>8, <2>1, <2>2
<1>9. QED
  BY <1>7, <1>8

-----------------------------------------------------------------------------
(***************************************************************************)
(* The encoding of a value.                                                *)
(***************************************************************************)

\* The characters that the proofs single out.
Percent == "%"
Open == "{"
Close == "}"

\* The symbols that an escape is made of: its first, and its second.
Codes == {"2F", "3F", "23", "25", "20"}
Escapes == {Percent} \cup Codes

\* What would cut a path.
Cuts == {"/", "?", "#", " "}

(***************************************************************************)
(* No escape cuts a path or ends as one begins.                            *)
(***************************************************************************)
LEMMA EscapesAreSafe ==
  /\ Percent \notin Cuts
  /\ \A h \in Codes : h # Percent /\ h \notin Cuts
BY DEF Codes, Cuts, Percent

(***************************************************************************)
(* A character is encoded as itself or as an escape of two symbols.        *)
(***************************************************************************)
LEMMA EncodedCases ==
  ASSUME NEW c
  PROVE  \/ Encoded(c) = <<c>> /\ c # Percent /\ c \notin Cuts
         \/ \E h \in Codes : Encoded(c) = <<Percent, h>>
<1>1. CASE c \in {"/", "?", "#", "%", " "}
  BY <1>1 DEF Encoded, Codes, Percent
<1>2. CASE c \notin {"/", "?", "#", "%", " "}
  <2>1. Encoded(c) = <<c>>
    BY <1>2 DEF Encoded
  <2>2. c # Percent /\ c \notin Cuts
    BY <1>2 DEF Percent, Cuts
  <2>3. QED
    BY <2>1, <2>2
<1>3. QED
  BY <1>1, <1>2

(***************************************************************************)
(* What an encoding consists of.                                           *)
(***************************************************************************)
LEMMA EncodedIs ==
  ASSUME NEW S, Escapes \subseteq S, NEW c \in S
  PROVE  /\ Encoded(c) \in Seq(S)
         /\ \/ /\ Len(Encoded(c)) = 1 /\ Encoded(c)[1] = c
               /\ c # Percent /\ c \notin Cuts
            \/ /\ Len(Encoded(c)) = 2 /\ Encoded(c)[1] = Percent
               /\ Encoded(c)[2] \in Codes
<1>1. CASE Encoded(c) = <<c>> /\ c # Percent /\ c \notin Cuts
  <2>1. <<c>> \in Seq(S) /\ Len(<<c>>) = 1 /\ <<c>>[1] = c
    OBVIOUS
  <2>2. QED
    BY <1>1, <2>1
<1>2. ASSUME NEW h \in Codes, Encoded(c) = <<Percent, h>>
      PROVE  /\ Encoded(c) \in Seq(S) /\ Len(Encoded(c)) = 2
             /\ Encoded(c)[1] = Percent /\ Encoded(c)[2] \in Codes
  <2>1. Percent \in S /\ h \in S
    BY DEF Escapes
  <2>2. /\ <<Percent, h>> \in Seq(S) /\ Len(<<Percent, h>>) = 2
        /\ <<Percent, h>>[1] = Percent /\ <<Percent, h>>[2] = h
    BY <2>1
  <2>3. QED
    BY <1>2, <2>2
<1>3. QED
  BY <1>1, <1>2, EncodedCases

\* The second symbol of a character's escape.
EscapeOf(h, x) ==
  \/ h = "2F" /\ x = "/"
  \/ h = "3F" /\ x = "?"
  \/ h = "23" /\ x = "#"
  \/ h = "25" /\ x = "%"
  \/ h = "20" /\ x = " "

(***************************************************************************)
(* A character that has an escape is encoded as it.                        *)
(***************************************************************************)
LEMMA EncodedPairs ==
  ASSUME NEW x
  PROVE  Encoded(x) = <<x>> \/ \E h : Encoded(x) = <<Percent, h>> /\ EscapeOf(h, x)
<1>1. CASE x = "/"
  <2>1. Encoded(x) = <<Percent, "2F">>
    BY <1>1 DEF Encoded, Percent
  <2>2. EscapeOf("2F", x)
    BY <1>1 DEF EscapeOf
  <2>3. QED
    BY <2>1, <2>2
<1>2. CASE x = "?"
  <2>1. Encoded(x) = <<Percent, "3F">>
    BY <1>2 DEF Encoded, Percent
  <2>2. EscapeOf("3F", x)
    BY <1>2 DEF EscapeOf
  <2>3. QED
    BY <2>1, <2>2
<1>3. CASE x = "#"
  <2>1. Encoded(x) = <<Percent, "23">>
    BY <1>3 DEF Encoded, Percent
  <2>2. EscapeOf("23", x)
    BY <1>3 DEF EscapeOf
  <2>3. QED
    BY <2>1, <2>2
<1>4. CASE x = "%"
  <2>1. Encoded(x) = <<Percent, "25">>
    BY <1>4 DEF Encoded, Percent
  <2>2. EscapeOf("25", x)
    BY <1>4 DEF EscapeOf
  <2>3. QED
    BY <2>1, <2>2
<1>5. CASE x = " "
  <2>1. Encoded(x) = <<Percent, "20">>
    BY <1>5 DEF Encoded, Percent
  <2>2. EscapeOf("20", x)
    BY <1>5 DEF EscapeOf
  <2>3. QED
    BY <2>1, <2>2
<1>6. CASE x \notin {"/", "?", "#", "%", " "}
  BY <1>6 DEF Encoded
<1>7. QED
  BY <1>1, <1>2, <1>3, <1>4, <1>5, <1>6

(***************************************************************************)
(* No two characters are encoded alike.                                    *)
(***************************************************************************)
LEMMA EncodedTwice ==
  ASSUME NEW c, NEW d, Encoded(c) = Encoded(d)
  PROVE  c = d
<1>1. \A x : Encoded(x) = <<x>> \/ \E h : Encoded(x) = <<Percent, h>> /\ EscapeOf(h, x)
  BY EncodedPairs
<1>2. \A h, x, y : EscapeOf(h, x) /\ EscapeOf(h, y) => x = y
  <2>1. \A x : EscapeOf("2F", x) => x = "/"
    BY DEF EscapeOf
  <2>2. \A x : EscapeOf("3F", x) => x = "?"
    BY DEF EscapeOf
  <2>3. \A x : EscapeOf("23", x) => x = "#"
    BY DEF EscapeOf
  <2>4. \A x : EscapeOf("25", x) => x = "%"
    BY DEF EscapeOf
  <2>5. \A x : EscapeOf("20", x) => x = " "
    BY DEF EscapeOf
  <2>6. \A h, x : EscapeOf(h, x) => h = "2F" \/ h = "3F" \/ h = "23" \/ h = "25" \/ h = "20"
    BY DEF EscapeOf
  <2>7. QED
    BY <2>1, <2>2, <2>3, <2>4, <2>5, <2>6
<1>3. \A x, y, h : <<x>> # <<y, h>>
  <2>1. \A x, y, h : Len(<<x>>) = 1 /\ Len(<<y, h>>) = 2
    OBVIOUS
  <2>2. QED
    BY <2>1
<1>4. \A x, y : <<x>> = <<y>> => x = y
  OBVIOUS
<1>5. \A p, x, y : <<p, x>> = <<p, y>> => x = y
  OBVIOUS
<1>6. CASE Encoded(c) = <<c>> \/ Encoded(d) = <<d>>
  BY <1>1, <1>3, <1>4, <1>6
<1>7. CASE Encoded(c) # <<c>> /\ Encoded(d) # <<d>>
  <2>1. PICK g : Encoded(c) = <<Percent, g>> /\ EscapeOf(g, c)
    BY <1>1, <1>7
  <2>2. PICK h : Encoded(d) = <<Percent, h>> /\ EscapeOf(h, d)
    BY <1>1, <1>7
  <2>3. g = h
    BY <1>5, <2>1, <2>2
  <2>4. QED
    BY <1>2, <2>1, <2>2, <2>3
<1>8. QED
  BY <1>6, <1>7

(***************************************************************************)
(* Character by character.                                                 *)
(***************************************************************************)
LEMMA EncodeAppend ==
  ASSUME NEW S, Escapes \subseteq S, NEW v \in Seq(S), NEW c \in S
  PROVE  /\ EncodeSegment(v) \in Seq(S)
         /\ EncodeSegment(Append(v, c)) = EncodeSegment(v) \o Encoded(c)
<1> DEFINE w == Append(v, c)
           codes == [i \in DOMAIN v |-> Encoded(v[i])]
           more == [i \in DOMAIN w |-> Encoded(w[i])]
           n == Len(v)
<1>1. n \in Nat /\ DOMAIN v = 1..n /\ \A i \in 1..n : v[i] \in S
  OBVIOUS
<1>2. DOMAIN w = 1..n + 1 /\ w[n + 1] = c /\ \A i \in 1..n : w[i] = v[i]
  OBVIOUS
<1> HIDE DEF w
<1>3. Encoded(c) \in Seq(S) /\ \A i \in 1..n : Encoded(v[i]) \in Seq(S)
  BY <1>1, EncodedIs
<1>4. codes \in Seq(Seq(S)) /\ Len(codes) = n
  BY <1>1, <1>3
<1>5. more = Append(codes, Encoded(c))
  <2> HIDE DEF n
  <2>1. more = [i \in 1..n + 1 |-> IF i = n + 1 THEN Encoded(c) ELSE codes[i]]
    <3>1. \A i \in 1..n + 1 : i # n + 1 => i \in 1..n
      BY <1>1
    <3>2. \A i \in 1..n + 1 : Encoded(w[i]) = IF i = n + 1 THEN Encoded(c) ELSE codes[i]
      BY <1>1, <1>2, <3>1
    <3>3. QED
      BY <1>2, <3>2
  <2> HIDE DEF codes, more
  <2>2. QED
    BY <1>1, <1>3, <1>4, <2>1
<1> HIDE DEF codes, more
<1>6. /\ FlattenSeq(codes) \in Seq(S)
      /\ FlattenSeq(Append(codes, Encoded(c))) = FlattenSeq(codes) \o Encoded(c)
  BY <1>3, <1>4, FlattenAppend
<1>7. QED
  BY <1>5, <1>6 DEF EncodeSegment, codes, more, w

\* Nothing to encode is nothing.
LEMMA EncodeNothing == EncodeSegment(<<>>) = <<>>
<1>1. [i \in DOMAIN <<>> |-> Encoded(<<>>[i])] = <<>>
  OBVIOUS
<1>2. FlattenSeq(<<>>) = <<>>
  BY DEF FlattenSeq
<1>3. QED
  BY <1>1, <1>2 DEF EncodeSegment

(***************************************************************************)
(* A value that is not empty is what is before its last character, and it. *)
(***************************************************************************)
LEMMA LastApart ==
  ASSUME NEW S, NEW v \in Seq(S), v # <<>>
  PROVE  \E w \in Seq(S), c \in S : v = Append(w, c) /\ Len(v) = Len(w) + 1
BY SequenceEmptyOrAppend

(***************************************************************************)
(* What holds of nothing, and of one more element whenever it holds of     *)
(* those before, holds of every sequence.                                  *)
(***************************************************************************)
LEMMA ByAppending ==
  ASSUME NEW S, NEW T, T \subseteq Seq(S), <<>> \in T,
         \A w \in T, c \in S : Append(w, c) \in T
  PROVE  T = Seq(S)
<1> DEFINE N == {n \in Nat : \E u \in Seq(S) : Len(u) = n /\ u \notin T}
<1>1. N = {}
  <2> SUFFICES ASSUME N # {} PROVE FALSE
    OBVIOUS
  <2>1. PICK n \in N : \A k \in N : n <= k
    <3>1. N \subseteq Nat
      OBVIOUS
    <3> HIDE DEF N
    <3>2. QED
      BY <3>1, LeastNatural
  <2>2. PICK u \in Seq(S) : Len(u) = n /\ u \notin T
    OBVIOUS
  <2> HIDE DEF N
  <2>3. PICK w \in Seq(S), c \in S : u = Append(w, c) /\ Len(u) = Len(w) + 1
    <3>1. u \in Seq(S) /\ u # <<>>
      BY <2>2
    <3>2. QED
      BY <3>1, LastApart
  <2>4. w \notin T
    BY <2>2, <2>3
  <2>5. Len(w) \in Nat /\ ~(n <= Len(w))
    BY <2>2, <2>3
  <2>6. Len(w) \in N
    BY <2>4, <2>5 DEF N
  <2>7. QED
    BY <2>1, <2>5, <2>6
<1>2. \A u \in Seq(S) : Len(u) \in Nat
  OBVIOUS
<1>3. QED
  BY <1>1, <1>2

(***************************************************************************)
(* What is encoded cuts no path and ends in no Percent.                    *)
(***************************************************************************)
Safe(S, v) ==
  LET e == EncodeSegment(v) IN
  /\ e \in Seq(S)
  /\ e # <<>> => e[Len(e)] # Percent
  /\ \A i \in 1..Len(e) : e[i] \notin Cuts

\* The empty value.
LEMMA NothingIsSafe ==
  ASSUME NEW S
  PROVE  Safe(S, <<>>)
<1>1. <<>> \in Seq(S) /\ Len(<<>>) = 0
  OBVIOUS
<1>2. \A i : i \notin 1..0
  OBVIOUS
<1>3. QED
  BY EncodeNothing, <1>1, <1>2 DEF Safe

\* One symbol more: plain, it is itself; reserved, it is its escape.
LEMMA SafeAppend ==
  ASSUME NEW S, Escapes \subseteq S, NEW w \in Seq(S), NEW c \in S, Safe(S, w)
  PROVE  Safe(S, Append(w, c))
<1>1. PICK u : u = Append(w, c)
  OBVIOUS
<1>2. PICK e : e = EncodeSegment(w)
  OBVIOUS
<1>3. PICK d : d = Encoded(c)
  OBVIOUS
<1>4. PICK f : f = EncodeSegment(u)
  OBVIOUS
<1>5. /\ d \in Seq(S)
      /\ \/ Len(d) = 1 /\ d[1] = c /\ c # Percent /\ c \notin Cuts
         \/ Len(d) = 2 /\ d[1] = Percent /\ d[2] \in Codes
  BY <1>3, EncodedIs
<1>6. d[Len(d)] # Percent /\ \A i \in 1..Len(d) : d[i] \notin Cuts
  <2>1. Percent \notin Cuts /\ \A h \in Codes : h # Percent /\ h \notin Cuts
    BY EscapesAreSafe
  <2>2. CASE Len(d) = 1 /\ d[1] = c /\ c # Percent /\ c \notin Cuts
    <3>1. \A i \in 1..1 : i = 1
      OBVIOUS
    <3>2. QED
      BY <2>2, <3>1
  <2>3. CASE Len(d) = 2 /\ d[1] = Percent /\ d[2] \in Codes
    <3>1. \A i \in 1..2 : i = 1 \/ i = 2
      OBVIOUS
    <3>2. QED
      BY <2>1, <2>3, <3>1
  <2>4. QED
    BY <1>5, <2>2, <2>3
<1>7. f = e \o d /\ e \in Seq(S)
  BY <1>1, <1>2, <1>3, <1>4, EncodeAppend
<1>8. /\ f \in Seq(S) /\ Len(f) = Len(e) + Len(d) /\ Len(e) \in Nat /\ Len(d) \in Nat
      /\ \A i \in 1..Len(e) : f[i] = e[i]
      /\ \A i \in 1..Len(d) : f[Len(e) + i] = d[i]
  BY <1>5, <1>7, EndToEnd
<1>9. f[Len(f)] # Percent
  <2>1. Len(d) \in 1..Len(d)
    BY <1>5
  <2>2. f[Len(e) + Len(d)] = d[Len(d)]
    BY <1>8, <2>1
  <2>3. QED
    BY <1>6, <1>8, <2>2
<1>10. ASSUME NEW i \in 1..Len(f) PROVE f[i] \notin Cuts
  <2>1. CASE i <= Len(e)
    <3>1. i \in 1..Len(e)
      BY <1>8, <2>1
    <3>2. e[i] \notin Cuts
      BY <1>2, <3>1 DEF Safe
    <3>3. QED
      BY <1>8, <3>1, <3>2
  <2>2. CASE ~(i <= Len(e))
    <3>1. i - Len(e) \in 1..Len(d) /\ i = Len(e) + (i - Len(e))
      BY <1>8, <2>2
    <3>2. PICK k \in 1..Len(d) : i = Len(e) + k
      BY <3>1
    <3>3. f[i] = d[k]
      BY <1>8, <3>2
    <3>4. QED
      BY <1>6, <3>2, <3>3
  <2>3. QED
    BY <2>1, <2>2
<1>11. QED
  BY <1>1, <1>4, <1>8, <1>9, <1>10 DEF Safe

\* So every encoded value is safe: by appending, from the empty one.
LEMMA EncodedIsSafe ==
  ASSUME NEW S, Escapes \subseteq S, NEW v \in Seq(S)
  PROVE  Safe(S, v)
<1> DEFINE T == {u \in Seq(S) : Safe(S, u)}
<1>1. T \subseteq Seq(S) /\ <<>> \in T
  BY NothingIsSafe
<1>2. ASSUME NEW w \in T, NEW c \in S PROVE Append(w, c) \in T
  <2>1. w \in Seq(S) /\ Safe(S, w)
    OBVIOUS
  <2>2. Append(w, c) \in Seq(S)
    BY <2>1
  <2>3. Safe(S, Append(w, c))
    BY <2>1, SafeAppend
  <2>4. QED
    BY <2>2, <2>3
<1> HIDE DEF T
<1>3. T = Seq(S)
  BY <1>1, <1>2, ByAppending
<1>4. QED
  BY <1>3 DEF T

(***************************************************************************)
(* No escape ends where another encoding would.                            *)
(***************************************************************************)
LEMMA EncodeApart ==
  ASSUME NEW S, Escapes \subseteq S, NEW p \in Seq(S), NEW q \in Seq(S), NEW c \in S, NEW d \in S,
         EncodeSegment(Append(p, c)) = EncodeSegment(Append(q, d))
  PROVE  EncodeSegment(p) = EncodeSegment(q) /\ c = d
<1>1. PICK e, x : e = EncodeSegment(p) /\ x = Encoded(c)
  OBVIOUS
<1>2. PICK f, y : f = EncodeSegment(q) /\ y = Encoded(d)
  OBVIOUS
<1>3. e \in Seq(S) /\ EncodeSegment(Append(p, c)) = e \o x
  BY <1>1, EncodeAppend
<1>4. f \in Seq(S) /\ EncodeSegment(Append(q, d)) = f \o y
  BY <1>2, EncodeAppend
<1>5. e # <<>> => e[Len(e)] # Percent
  BY <1>1, EncodedIsSafe DEF Safe
<1>6. f # <<>> => f[Len(f)] # Percent
  BY <1>2, EncodedIsSafe DEF Safe
<1>7. x \in Seq(S) /\ (Len(x) = 1 \/ (Len(x) = 2 /\ x[1] = Percent))
  BY <1>1, EncodedIs
<1>8. y \in Seq(S) /\ (Len(y) = 1 \/ (Len(y) = 2 /\ y[1] = Percent))
  BY <1>2, EncodedIs
<1>9. e \o x = f \o y
  BY <1>3, <1>4
<1>10. /\ Len(e \o x) = Len(e) + Len(x) /\ Len(e) \in Nat
       /\ \A i \in 1..Len(e) : (e \o x)[i] = e[i]
       /\ \A i \in 1..Len(x) : (e \o x)[Len(e) + i] = x[i]
  BY <1>3, <1>7, EndToEnd
<1>11. /\ Len(f \o y) = Len(f) + Len(y) /\ Len(f) \in Nat
       /\ \A i \in 1..Len(f) : (f \o y)[i] = f[i]
       /\ \A i \in 1..Len(y) : (f \o y)[Len(f) + i] = y[i]
  BY <1>4, <1>8, EndToEnd
<1>12. Len(x) = Len(y)
  <2>1. CASE Len(x) = 1 /\ Len(y) = 2
    <3>1. Len(e) = Len(f) + 1 /\ Len(e) \in 1..Len(e) /\ 1 \in 1..Len(y) /\ e # <<>>
      BY <1>3, <1>9, <1>10, <1>11, <2>1
    <3>2. (e \o x)[Len(e)] = e[Len(e)] /\ (f \o y)[Len(f) + 1] = y[1]
      BY <1>10, <1>11, <3>1
    <3>3. QED
      BY <1>5, <1>8, <1>9, <2>1, <3>1, <3>2
  <2>2. CASE Len(x) = 2 /\ Len(y) = 1
    <3>1. Len(f) = Len(e) + 1 /\ Len(f) \in 1..Len(f) /\ 1 \in 1..Len(x) /\ f # <<>>
      BY <1>4, <1>9, <1>10, <1>11, <2>2
    <3>2. (f \o y)[Len(f)] = f[Len(f)] /\ (e \o x)[Len(e) + 1] = x[1]
      BY <1>10, <1>11, <3>1
    <3>3. QED
      BY <1>6, <1>7, <1>9, <2>2, <3>1, <3>2
  <2>3. QED
    BY <1>7, <1>8, <2>1, <2>2
<1>13. e = f /\ x = y
  <2>1. e \in Seq(S) /\ x \in Seq(S) /\ f \in Seq(S) /\ y \in Seq(S)
    BY <1>3, <1>4, <1>7, <1>8
  <2>2. Len(e) = Len(f)
    BY <1>9, <1>10, <1>11, <1>12
  <2>3. \A i \in 1..Len(e) : e[i] = f[i]
    BY <1>9, <1>10, <1>11, <2>2
  <2>4. \A i \in 1..Len(x) : x[i] = y[i]
    BY <1>9, <1>10, <1>11, <1>12, <2>2
  <2>5. e = f
    BY <2>1, <2>2, <2>3, SeqEqual
  <2>6. QED
    BY <1>12, <2>1, <2>4, <2>5, SeqEqual
<1>14. c = d
  BY <1>1, <1>2, <1>13, EncodedTwice
<1>15. QED
  BY <1>1, <1>2, <1>13, <1>14

\* A value that is not empty encodes to something.
LEMMA EncodedIsSomething ==
  ASSUME NEW S, Escapes \subseteq S, NEW p \in Seq(S), NEW c \in S
  PROVE  EncodeSegment(Append(p, c)) # <<>>
<1>1. PICK e, x : e = EncodeSegment(p) /\ x = Encoded(c)
  OBVIOUS
<1>2. e \in Seq(S) /\ EncodeSegment(Append(p, c)) = e \o x
  BY <1>1, EncodeAppend
<1>3. x \in Seq(S) /\ (Len(x) = 1 \/ Len(x) = 2)
  BY <1>1, EncodedIs
<1>4. Len(e \o x) = Len(e) + Len(x) /\ Len(e) \in Nat
  BY <1>2, <1>3, EndToEnd
<1>5. Len(e \o x) # 0
  BY <1>3, <1>4
<1>6. QED
  BY <1>2, <1>5

(***************************************************************************)
(* Two values are one when they are encoded alike: the last characters     *)
(* are, and so are the values before them (encode_segment).                *)
(***************************************************************************)
LEMMA EncodeInjective ==
  ASSUME NEW S, Escapes \subseteq S, NEW v \in Seq(S), NEW w \in Seq(S),
         EncodeSegment(v) = EncodeSegment(w)
  PROVE  v = w
<1> DEFINE Apart(a, b) == a # b /\ EncodeSegment(a) = EncodeSegment(b)
           T == {n \in Nat : \E a, b \in Seq(S) : Len(a) = n /\ Apart(a, b)}
<1>1. T = {}
  <2> SUFFICES ASSUME T # {} PROVE FALSE
    OBVIOUS
  <2>1. PICK n \in T : \A k \in T : n <= k
    <3>1. T \subseteq Nat
      OBVIOUS
    <3> HIDE DEF T
    <3>2. QED
      BY <3>1, LeastNatural
  <2>2. PICK a \in Seq(S), b \in Seq(S) : Len(a) = n /\ Apart(a, b)
    OBVIOUS
  <2> HIDE DEF T
  <2>3. a # <<>> /\ b # <<>>
    <3>1. CASE a = <<>>
      <4>1. b # <<>> /\ EncodeSegment(b) = <<>>
        BY <2>2, <3>1, EncodeNothing
      <4>2. PICK q \in Seq(S), d \in S : b = Append(q, d)
        BY <4>1, LastApart
      <4>3. QED
        BY <4>1, <4>2, EncodedIsSomething
    <3>2. CASE b = <<>>
      <4>1. a # <<>> /\ EncodeSegment(a) = <<>>
        BY <2>2, <3>2, EncodeNothing
      <4>2. PICK q \in Seq(S), d \in S : a = Append(q, d)
        BY <4>1, LastApart
      <4>3. QED
        BY <4>1, <4>2, EncodedIsSomething
    <3>3. QED
      BY <3>1, <3>2
  <2>4. PICK p \in Seq(S), c \in S : a = Append(p, c) /\ Len(a) = Len(p) + 1
    BY <2>3, LastApart
  <2>5. PICK q \in Seq(S), d \in S : b = Append(q, d) /\ Len(b) = Len(q) + 1
    BY <2>3, LastApart
  <2>6. EncodeSegment(p) = EncodeSegment(q) /\ c = d
    <3>1. EncodeSegment(Append(p, c)) = EncodeSegment(Append(q, d))
      BY <2>2, <2>4, <2>5
    <3>2. QED
      <4>1. \A k, l \in Seq(S), x, y \in S :
              EncodeSegment(Append(k, x)) = EncodeSegment(Append(l, y)) =>
                EncodeSegment(k) = EncodeSegment(l) /\ x = y
        BY EncodeApart
      <4>2. QED
        BY <3>1, <4>1
  <2>7. Apart(p, q)
    BY <2>2, <2>4, <2>5, <2>6
  <2>8. Len(p) \in Nat /\ ~(n <= Len(p))
    BY <2>2, <2>4
  <2>9. Len(p) \in T
    BY <2>7, <2>8 DEF T
  <2>10. QED
    BY <2>1, <2>8, <2>9
<1>2. Len(v) \in Nat
  OBVIOUS
<1>3. QED
  BY <1>1, <1>2

-----------------------------------------------------------------------------
(***************************************************************************)
(* Segments and their parameters.                                          *)
(***************************************************************************)

(***************************************************************************)
(* The function that Params asks for exists.                               *)
(***************************************************************************)
LEMMA AmongExists ==
  ASSUME NEW n \in Nat, NEW s
  PROVE  \E f : f = [k \in 0..n |-> IF k = 0 THEN <<>>
                                    ELSE IF IsParam(s[k]) THEN Append(f[k - 1], s[k])
                                    ELSE f[k - 1]]
<1> DEFINE Step(g, k) == IF k = 0 THEN <<>>
                         ELSE IF IsParam(s[k]) THEN Append(g[k - 1], s[k]) ELSE g[k - 1]
           Upto(g, m) == g = [k \in 0..m |-> Step(g, k)]
           T == {m \in Nat : ~\E g : Upto(g, m)}
<1>1. T = {}
  <2> SUFFICES ASSUME T # {} PROVE FALSE
    OBVIOUS
  <2>1. PICK m \in T : \A k \in T : m <= k
    <3>1. T \subseteq Nat
      OBVIOUS
    <3> HIDE DEF T
    <3>2. QED
      BY <3>1, LeastNatural
  <2>2. CASE m = 0
    <3>1. PICK h : h = [k \in 0..0 |-> <<>>]
      OBVIOUS
    <3>2. \A k \in 0..0 : k = 0
      OBVIOUS
    <3>3. Upto(h, 0)
      BY <3>1, <3>2
    <3>4. QED
      BY <2>1, <2>2, <3>3
  <2>3. CASE m # 0
    <3>1. m \in Nat /\ m - 1 \in Nat /\ ~(m <= m - 1)
      BY <2>1, <2>3
    <3>2. PICK g : Upto(g, m - 1)
      <4> HIDE DEF Upto
      <4>1. m - 1 \notin T
        BY <2>1, <3>1
      <4>2. QED
        BY <3>1, <4>1
    <3>3. PICK h : h = [k \in 0..m |-> IF k = m THEN Step(g, m) ELSE g[k]]
      OBVIOUS
    <3>4. ASSUME NEW k \in 0..m PROVE h[k] = Step(h, k)
      <4>1. k # 0 => k - 1 \in 0..m - 1 /\ h[k - 1] = g[k - 1]
        BY <3>1, <3>3
      <4>2. CASE k = m
        BY <3>1, <3>3, <4>1, <4>2
      <4>3. CASE k # m
        <5>1. k \in 0..m - 1 /\ h[k] = g[k]
          BY <3>1, <3>3, <4>3
        <5>2. g[k] = Step(g, k)
          BY <3>2, <5>1
        <5>3. QED
          BY <4>1, <5>1, <5>2
      <4>4. QED
        BY <4>2, <4>3
    <3>5. h = [k \in 0..m |-> h[k]]
      BY <3>3
    <3>6. Upto(h, m)
      BY <3>4, <3>5
    <3>7. QED
      BY <2>1, <3>6
  <2>4. QED
    BY <2>2, <2>3
<1>2. n \notin T
  BY <1>1
<1>3. QED
  BY <1>2

(***************************************************************************)
(* Params is the last of what such a function collects.                    *)
(***************************************************************************)
LEMMA ParamsAre ==
  ASSUME NEW S, NEW s \in Seq(S)
  PROVE  \E f : /\ f[0] = <<>> /\ Params(s) = f[Len(s)]
                /\ \A n \in 1..Len(s) : f[n] = IF IsParam(s[n]) THEN Append(f[n - 1], s[n])
                                               ELSE f[n - 1]
<1> DEFINE last == Len(s)
           among[n \in 0..last] ==
             IF n = 0 THEN <<>>
             ELSE IF IsParam(s[n]) THEN Append(among[n - 1], s[n]) ELSE among[n - 1]
<1>1. last \in Nat
  OBVIOUS
<1>2. among = [n \in 0..last |-> IF n = 0 THEN <<>>
                                 ELSE IF IsParam(s[n]) THEN Append(among[n - 1], s[n])
                                 ELSE among[n - 1]]
  <2> HIDE DEF last
  <2>1. \E f : f = [n \in 0..last |-> IF n = 0 THEN <<>>
                                      ELSE IF IsParam(s[n]) THEN Append(f[n - 1], s[n])
                                      ELSE f[n - 1]]
    BY <1>1, AmongExists
  <2>2. QED
    BY <2>1
<1>3. Params(s) = among[last]
  BY DEF Params
<1> HIDE DEF among
<1>4. among[0] = <<>> /\ \A n \in 1..last : among[n] = IF IsParam(s[n]) THEN Append(among[n - 1], s[n])
                                                       ELSE among[n - 1]
  <2> HIDE DEF last
  <2>1. 0 \in 0..last /\ \A n \in 1..last : n \in 0..last /\ n # 0
    BY <1>1
  <2>2. among[0] = <<>>
    BY <1>2, <2>1
  <2>3. ASSUME NEW n \in 1..last
        PROVE  among[n] = IF IsParam(s[n]) THEN Append(among[n - 1], s[n]) ELSE among[n - 1]
    BY <1>2, <2>1
  <2>4. QED
    BY <2>2, <2>3
<1>5. QED
  BY <1>3, <1>4

(***************************************************************************)
(* One more segment is one more parameter if it is one.                    *)
(***************************************************************************)
LEMMA ParamsAppend ==
  ASSUME NEW S, NEW s \in Seq(S), NEW x \in S
  PROVE  Params(Append(s, x)) = IF IsParam(x) THEN Append(Params(s), x) ELSE Params(s)
<1>1. PICK n : n = Len(s)
  OBVIOUS
<1>2. PICK t : t = Append(s, x)
  OBVIOUS
<1>3. /\ n \in Nat /\ t \in Seq(S) /\ Len(t) = n + 1
      /\ t[n + 1] = x /\ \A i \in 1..n : t[i] = s[i]
  BY <1>1, <1>2
<1>4. PICK f : /\ f[0] = <<>> /\ Params(s) = f[n]
               /\ \A i \in 1..n : f[i] = IF IsParam(s[i]) THEN Append(f[i - 1], s[i]) ELSE f[i - 1]
  BY <1>1, ParamsAre
<1>5. PICK g : /\ g[0] = <<>> /\ Params(t) = g[n + 1]
               /\ \A i \in 1..n + 1 : g[i] = IF IsParam(t[i]) THEN Append(g[i - 1], t[i]) ELSE g[i - 1]
  <2>1. \E g : /\ g[0] = <<>> /\ Params(t) = g[Len(t)]
               /\ \A i \in 1..Len(t) : g[i] = IF IsParam(t[i]) THEN Append(g[i - 1], t[i]) ELSE g[i - 1]
    BY <1>3, ParamsAre
  <2>2. Len(t) = n + 1
    BY <1>3
  <2>3. QED
    BY <2>1, <2>2
<1> DEFINE T == {i \in 0..n : f[i] # g[i]}
<1>6. T = {}
  <2> SUFFICES ASSUME T # {} PROVE FALSE
    OBVIOUS
  <2>1. PICK i \in T : \A k \in T : i <= k
    <3>1. T \subseteq Nat
      BY <1>3
    <3> HIDE DEF T
    <3>2. QED
      BY <3>1, LeastNatural
  <2>2. i \in 0..n /\ f[i] # g[i]
    OBVIOUS
  <2>3. i # 0
    BY <1>4, <1>5, <2>2
  <2>4. i - 1 \in 0..n /\ ~(i <= i - 1) /\ i \in 1..n /\ i \in 1..n + 1
    BY <1>3, <2>2, <2>3
  <2>5. f[i - 1] = g[i - 1]
    BY <2>1, <2>4
  <2>6. QED
    BY <1>3, <1>4, <1>5, <2>2, <2>4, <2>5
<1>7. g[n] = f[n]
  <2> HIDE DEF T
  <2>1. n \notin T
    BY <1>6
  <2>2. QED
    BY <1>3, <2>1 DEF T
<1>8. PICK k : k = n + 1
  OBVIOUS
<1>9. k \in 1..n + 1 /\ k - 1 = n /\ t[k] = x
  BY <1>3, <1>8
<1>10. g[k] = IF IsParam(t[k]) THEN Append(g[k - 1], t[k]) ELSE g[k - 1]
  BY <1>5, <1>9
<1>11. QED
  BY <1>2, <1>4, <1>5, <1>7, <1>8, <1>9, <1>10

\* No segments, no parameters.
LEMMA ParamsOfNothing == Params(<<>>) = <<>>
<1>1. <<>> \in Seq({}) /\ Len(<<>>) = 0
  OBVIOUS
<1>2. \E f : f[0] = <<>> /\ Params(<<>>) = f[Len(<<>>)]
  BY <1>1, ParamsAre
<1>3. QED
  BY <1>1, <1>2

\* Where the parameters of some segments are, and which one is at i.
Places(s) == {i \in DOMAIN s : IsParam(s[i])}
Rank(s, i) == 1 + Cardinality({j \in Places(s) : j < i})

(***************************************************************************)
(* Params lists the parameters in the order of their places: each is there *)
(* at its rank, and nothing else is.                                       *)
(***************************************************************************)
Ranked(S, s) ==
  /\ Params(s) \in Seq(S)
  /\ IsFiniteSet(Places(s)) /\ Len(Params(s)) = Cardinality(Places(s))
  /\ \A i \in Places(s) : Rank(s, i) \in 1..Len(Params(s)) /\ Params(s)[Rank(s, i)] = s[i]
  /\ \A m \in 1..Len(Params(s)) : \E j \in Places(s) : Rank(s, j) = m

\* The empty template.
LEMMA NothingIsRanked ==
  ASSUME NEW S
  PROVE  Ranked(S, <<>>)
<1>1. Places(<<>>) = {}
  BY DEF Places
<1>2. Params(<<>>) = <<>> /\ <<>> \in Seq(S) /\ Len(<<>>) = 0
  BY ParamsOfNothing
<1>3. IsFiniteSet({}) /\ Cardinality({}) = 0
  BY FS_EmptySet
<1>4. \A m : m \notin 1..0
  OBVIOUS
<1>5. QED
  BY <1>1, <1>2, <1>3, <1>4 DEF Ranked

\* One segment more: a literal leaves the parameters, a parameter ends them.
LEMMA RankedAppend ==
  ASSUME NEW S, NEW s \in Seq(S), NEW x \in S, Ranked(S, s)
  PROVE  Ranked(S, Append(s, x))
<1>1. PICK n : n = Len(s)
  OBVIOUS
<1>2. PICK t : t = Append(s, x)
  OBVIOUS
<1>3. /\ n \in Nat /\ DOMAIN s = 1..n /\ DOMAIN t = 1..n + 1
      /\ t[n + 1] = x /\ \A i \in 1..n : t[i] = s[i]
  BY <1>1, <1>2
<1>4. n + 1 \in 1..n + 1 /\ n + 1 \notin 1..n /\ \A i \in 1..n + 1 : i # n + 1 => i \in 1..n
  BY <1>3
<1>5. Places(t) = IF IsParam(x) THEN Places(s) \cup {n + 1} ELSE Places(s)
  BY <1>3, <1>4 DEF Places
<1>6. Places(s) \subseteq 1..n
  BY <1>3 DEF Places
<1>7. ASSUME NEW i \in Places(s) PROVE Rank(t, i) = Rank(s, i)
  <2>1. i \in 1..n /\ ~(n + 1 < i)
    BY <1>3, <1>6
  <2>2. {j \in Places(t) : j < i} = {j \in Places(s) : j < i}
    BY <1>5, <2>1
  <2>3. QED
    BY <2>2 DEF Rank
<1>8. Rank(t, n + 1) = 1 + Len(Params(s))
  <2>1. \A j \in Places(s) : j < n + 1
    BY <1>3, <1>6
  <2>2. {j \in Places(t) : j < n + 1} = Places(s)
    BY <1>3, <1>5, <2>1
  <2>3. QED
    BY <2>2 DEF Rank, Ranked
<1>9. Params(t) = IF IsParam(x) THEN Append(Params(s), x) ELSE Params(s)
  BY <1>2, ParamsAppend
<1>10. CASE ~IsParam(x)
  <2>1. Places(t) = Places(s) /\ Params(t) = Params(s)
    BY <1>5, <1>9, <1>10
  <2>2. \A i \in Places(s) : t[i] = s[i]
    BY <1>3, <1>6
  <2>3. QED
    BY <1>2, <1>7, <2>1, <2>2 DEF Ranked
<1>11. CASE IsParam(x)
  <2>1. PICK p : p = Params(s)
    OBVIOUS
  <2>2. PICK q : q = Append(p, x)
    OBVIOUS
  <2>3. p \in Seq(S) /\ Len(p) \in Nat
    BY <2>1 DEF Ranked
  <2>4. /\ q \in Seq(S) /\ Len(q) = Len(p) + 1 /\ q[Len(p) + 1] = x
        /\ \A m \in 1..Len(p) : q[m] = p[m]
    BY <2>2, <2>3
  <2>5. Params(t) = q
    BY <1>9, <1>11, <2>1, <2>2
  <2>6. IsFiniteSet(Places(t)) /\ Cardinality(Places(t)) = Len(q)
    <3>1. IsFiniteSet(Places(s)) /\ Cardinality(Places(s)) = Len(p) /\ n + 1 \notin Places(s)
      BY <1>4, <1>6, <2>1 DEF Ranked
    <3>2. PICK P : P = Places(s)
      OBVIOUS
    <3>3. IsFiniteSet(P \cup {n + 1}) /\ Cardinality(P \cup {n + 1}) = Cardinality(P) + 1
      BY <3>1, <3>2, FS_AddElement
    <3>4. Places(t) = P \cup {n + 1} /\ Cardinality(P) = Len(p)
      BY <1>5, <1>11, <3>1, <3>2
    <3>5. QED
      BY <2>4, <3>3, <3>4
  <2>7. ASSUME NEW i \in Places(t) PROVE Rank(t, i) \in 1..Len(q) /\ q[Rank(t, i)] = t[i]
    <3>1. CASE i = n + 1
      BY <1>3, <1>8, <2>1, <2>3, <2>4, <3>1
    <3>2. CASE i # n + 1
      <4>1. i \in Places(s) /\ t[i] = s[i]
        BY <1>3, <1>5, <1>6, <1>11, <3>2
      <4>2. Rank(s, i) \in 1..Len(p) /\ p[Rank(s, i)] = s[i]
        BY <2>1, <4>1 DEF Ranked
      <4>3. QED
        BY <1>7, <2>3, <2>4, <4>1, <4>2
    <3>3. QED
      BY <3>1, <3>2
  <2>8. ASSUME NEW m \in 1..Len(q) PROVE \E j \in Places(t) : Rank(t, j) = m
    <3>1. CASE m = Len(p) + 1
      BY <1>5, <1>8, <1>11, <2>1, <2>3, <3>1
    <3>2. CASE m # Len(p) + 1
      <4>1. m \in 1..Len(p)
        BY <2>3, <2>4, <3>2
      <4>2. PICK j \in Places(s) : Rank(s, j) = m
        BY <2>1, <4>1 DEF Ranked
      <4>3. QED
        BY <1>5, <1>7, <1>11, <4>2
    <3>3. QED
      BY <3>1, <3>2
  <2>9. QED
    BY <1>2, <2>4, <2>5, <2>6, <2>7, <2>8 DEF Ranked
<1>12. QED
  BY <1>10, <1>11

\* So every template is ranked: by appending, from the empty one.
LEMMA ParamsAreRanked ==
  ASSUME NEW S, NEW s \in Seq(S)
  PROVE  Ranked(S, s)
<1> DEFINE T == {u \in Seq(S) : Ranked(S, u)}
<1>1. T \subseteq Seq(S)
  OBVIOUS
<1>2. <<>> \in T
  BY NothingIsRanked
<1>3. ASSUME NEW w \in T, NEW c \in S PROVE Append(w, c) \in T
  <2>1. w \in Seq(S) /\ Ranked(S, w) /\ Append(w, c) \in Seq(S)
    OBVIOUS
  <2>2. QED
    BY <2>1, RankedAppend
<1> HIDE DEF T
<1>4. T = Seq(S)
  BY <1>1, <1>2, <1>3, ByAppending
<1>5. QED
  BY <1>4 DEF T

-----------------------------------------------------------------------------
(***************************************************************************)
(* Types.                                                                  *)
(***************************************************************************)

(***************************************************************************)
(* The symbols of an escape and the parts of a path are strings.           *)
(***************************************************************************)
LEMMA SymbolsAre ==
  /\ Escapes \subseteq Symbols
  /\ Percent \in Symbols /\ Open \in Symbols /\ Close \in Symbols /\ "by" \in Symbols
  /\ "" \in Symbols /\ Fitting \subseteq Symbols /\ Verbs \subseteq Symbols
<1>1. /\ Percent \in Symbols /\ Open \in Symbols /\ Close \in Symbols /\ "by" \in Symbols
      /\ "" \in Symbols
  BY SymbolsAssumption DEF Percent, Open, Close
<1>2. Codes \subseteq Symbols
  BY SymbolsAssumption DEF Codes
<1>3. Fitting \subseteq Symbols /\ Verbs \subseteq Symbols
  BY SymbolsAssumption
<1>4. QED
  BY <1>1, <1>2, <1>3 DEF Escapes

(***************************************************************************)
(* The words of a segment, and what stands for it in a path.               *)
(***************************************************************************)
LEMMA SegmentHasWords ==
  ASSUME NEW s \in SegmentType
  PROVE  s.words \in Seq(Symbols) /\ Rendered(s) \in Seq(Symbols) /\ Spelling(s) \in Seq(Symbols)
<1>1. s.words \in Seq(Symbols)
  BY DEF SegmentType
<1>2. PICK w : w = s.words
  OBVIOUS
<1>3. PICK open, close, by : open = "{" /\ close = "}" /\ by = "by"
  OBVIOUS
<1>4. open \in Symbols /\ close \in Symbols /\ by \in Symbols
  BY <1>3, SymbolsAre DEF Open, Close
<1>5. <<open>> \o w \o <<close>> \in Seq(Symbols) /\ <<by>> \o w \in Seq(Symbols)
  BY <1>1, <1>2, <1>4
<1>6. QED
  BY <1>1, <1>2, <1>3, <1>5 DEF Rendered, Placeholder, Spelling

\* A literal of some words is a segment.
LEMMA LiteralIs ==
  ASSUME NEW words \in Seq(Symbols)
  PROVE  Literal(words) \in SegmentType /\ ~IsParam(Literal(words)) /\ Literal(words).words = words
<1>1. "" \in Symbols
  BY SymbolsAre
<1>2. QED
  BY <1>1 DEF SegmentType, Literal, IsParam

\* So is a parameter, and it stands for its argument.
LEMMA ParamIs ==
  ASSUME NEW arg \in ArgType
  PROVE  Param(arg) \in SegmentType /\ IsParam(Param(arg)) /\ Param(arg).words = arg.words
BY DEF SegmentType, Param, IsParam, ArgType

\* A sequence without braces: the words of a name are.
Braces == {Open, Close}
Plain(s) == \A i \in DOMAIN s : s[i] \notin Braces

(***************************************************************************)
(* A function and a value.                                                 *)
(***************************************************************************)
LEMMA FunctionIs ==
  ASSUME NEW f \in Functions
  PROVE  /\ f.name \in Seq(Symbols) /\ f.args \in Seq(ArgType) /\ f.template \in Seq(SegmentType)
         /\ IsTemplate(f.template, f.args) /\ Plain(f.name)
<1>1. /\ f \in [name : Seq(Symbols), args : Seq(ArgType), template : Seq(SegmentType)]
      /\ IsTemplate(f.template, f.args)
      /\ \A i \in DOMAIN f.name : f.name[i] \notin {"{", "}"}
  BY FunctionsAssumption
<1>2. Plain(f.name)
  BY <1>1 DEF Plain, Braces, Open, Close
<1>3. QED
  BY <1>1, <1>2

\* A value is symbols, any of them.
LEMMA ValueIs ==
  ASSUME NEW value \in Values
  PROVE  value \in Seq(Symbols)
BY ValuesAssumption

-----------------------------------------------------------------------------
(***************************************************************************)
(* Placeholders, and what stands in their place.                           *)
(***************************************************************************)

\* What a replacement puts in place of each symbol.
ArePieces(t, s, old, new) ==
  /\ Len(t) = Len(s)
  /\ \A k \in 1..Len(s) :
       t[k] = IF k \in Occurrences(old, s) THEN new
              ELSE IF \E j \in Occurrences(old, s) : k \in j..j + Len(old) - 1 THEN <<>>
              ELSE <<s[k]>>

(***************************************************************************)
(* What is replaced is the pieces, one after another.                      *)
(***************************************************************************)
LEMMA ReplacedIs ==
  ASSUME NEW s \in Seq(Symbols), NEW old \in Seq(Symbols), NEW new \in Seq(Symbols)
  PROVE  \E t \in Seq(Seq(Symbols)) :
           Replaced(s, old, new) = FlattenSeq(t) /\ ArePieces(t, s, old, new)
<1> DEFINE Part(k) == IF k \in Occurrences(old, s) THEN new
                      ELSE IF \E j \in Occurrences(old, s) : k \in j..j + Len(old) - 1 THEN <<>>
                      ELSE <<s[k]>>
           t == [k \in DOMAIN s |-> Part(k)]
<1>1. Replaced(s, old, new) = FlattenSeq(t)
  BY DEF Replaced
<1>2. DOMAIN s = 1..Len(s) /\ Len(s) \in Nat /\ \A k \in 1..Len(s) : s[k] \in Symbols
  OBVIOUS
<1>3. <<>> \in Seq(Symbols) /\ \A x \in Symbols : <<x>> \in Seq(Symbols)
  OBVIOUS
<1>4. \A k \in 1..Len(s) : Part(k) \in Seq(Symbols)
  BY <1>2, <1>3
<1> HIDE DEF Part
<1>5. t \in Seq(Seq(Symbols)) /\ Len(t) = Len(s) /\ \A k \in 1..Len(s) : t[k] = Part(k)
  BY <1>2, <1>4
<1> HIDE DEF t
<1>6. ArePieces(t, s, old, new)
  BY <1>5 DEF Part, ArePieces
<1>7. QED
  BY <1>1, <1>5, <1>6

\* Symbols replaced by symbols are symbols.
LEMMA ReplacedTyped ==
  ASSUME NEW s \in Seq(Symbols), NEW old \in Seq(Symbols), NEW new \in Seq(Symbols)
  PROVE  Replaced(s, old, new) \in Seq(Symbols)
<1>1. PICK t \in Seq(Seq(Symbols)) : Replaced(s, old, new) = FlattenSeq(t)
  BY ReplacedIs
<1>2. <<>> \in Seq(Symbols)
  OBVIOUS
<1>3. QED
  BY <1>1, <1>2, FlattenAppend

(***************************************************************************)
(* Where a text is not, nothing is replaced.                               *)
(***************************************************************************)
LEMMA NothingReplaced ==
  ASSUME NEW s \in Seq(Symbols), NEW old \in Seq(Symbols), NEW new \in Seq(Symbols),
         Occurrences(old, s) = {}
  PROVE  Replaced(s, old, new) = s
<1>1. PICK t \in Seq(Seq(Symbols)) :
        Replaced(s, old, new) = FlattenSeq(t) /\ ArePieces(t, s, old, new)
  BY ReplacedIs
<1>2. Len(t) = Len(s) /\ \A k \in 1..Len(s) : t[k] = <<s[k]>>
  BY <1>1 DEF ArePieces
<1>3. DOMAIN s = 1..Len(s) /\ t = [k \in 1..Len(t) |-> t[k]]
  OBVIOUS
<1>4. t = [k \in DOMAIN s |-> <<s[k]>>]
  BY <1>1, <1>2, <1>3
<1>5. QED
  BY <1>1, <1>4, FlattenSingles

(***************************************************************************)
(* A text replaced in itself is what it is replaced by.                    *)
(***************************************************************************)
LEMMA AllReplaced ==
  ASSUME NEW old \in Seq(Symbols), NEW new \in Seq(Symbols), old # <<>>
  PROVE  Replaced(old, old, new) = new
<1>1. PICK n : n = Len(old)
  OBVIOUS
<1>2. n \in Nat \ {0} /\ SubSeq(old, 1, n) = old
  BY <1>1
<1>3. Occurrences(old, old) = {1}
  <2>1. n - n + 1 = 1 /\ 1 + n - 1 = n /\ 1..1 = {1}
    BY <1>2
  <2>2. Occurrences(old, old) = {k \in 1..1 : SubSeq(old, k, k + n - 1) = old}
    BY <1>1, <2>1 DEF Occurrences
  <2>3. QED
    BY <1>2, <2>1, <2>2
<1>4. PICK t \in Seq(Seq(Symbols)) :
        Replaced(old, old, new) = FlattenSeq(t) /\ ArePieces(t, old, old, new)
  BY ReplacedIs
<1>5. Len(t) = n /\ t[1] = new
  BY <1>1, <1>2, <1>3, <1>4 DEF ArePieces
<1>6. \A k \in 2..Len(t) : t[k] = <<>>
  <2>1. \A k \in 2..n : k \in 1..n /\ k # 1 /\ k \in 1..1 + n - 1
    BY <1>2
  <2>2. QED
    BY <1>1, <1>3, <1>4, <1>5, <2>1 DEF ArePieces
<1>7. t # <<>>
  BY <1>2, <1>5
<1>8. QED
  BY <1>4, <1>5, <1>6, <1>7, FlattenFirst

\* No brace both opens and closes.
LEMMA BracesDiffer == Open # Close
BY DEF Open, Close

(***************************************************************************)
(* A placeholder has its braces at its ends.                               *)
(***************************************************************************)
LEMMA PlaceholderIs ==
  ASSUME NEW a \in Seq(Symbols)
  PROVE  /\ Placeholder(a) \in Seq(Symbols) /\ Len(Placeholder(a)) = Len(a) + 2
         /\ Placeholder(a)[1] = Open /\ Placeholder(a)[Len(a) + 2] = Close
         /\ \A i \in 1..Len(a) : Placeholder(a)[i + 1] = a[i]
<1>1. Open \in Symbols /\ Close \in Symbols
  BY SymbolsAre
<1>2. PICK p : p = <<Open>> \o a \o <<Close>>
  OBVIOUS
<1>3. /\ p \in Seq(Symbols) /\ Len(p) = Len(a) + 2 /\ p[1] = Open /\ p[Len(a) + 2] = Close
      /\ \A i \in 1..Len(a) : p[i + 1] = a[i]
  BY <1>1, <1>2, Bracketed
<1>4. Placeholder(a) = p
  BY <1>2 DEF Placeholder, Open, Close
<1>5. QED
  BY <1>3, <1>4

\* Different names have different placeholders.
LEMMA PlaceholderOf ==
  ASSUME NEW a \in Seq(Symbols), NEW b \in Seq(Symbols), Placeholder(a) = Placeholder(b)
  PROVE  a = b
<1>1. PICK p : p = Placeholder(a)
  OBVIOUS
<1>2. Len(p) = Len(a) + 2 /\ \A i \in 1..Len(a) : p[i + 1] = a[i]
  BY <1>1, PlaceholderIs
<1>3. Len(p) = Len(b) + 2 /\ \A i \in 1..Len(b) : p[i + 1] = b[i]
  BY <1>1, PlaceholderIs
<1>4. Len(a) \in Nat /\ Len(b) \in Nat
  OBVIOUS
<1>5. Len(a) = Len(b)
  BY <1>2, <1>3, <1>4
<1>6. \A i \in 1..Len(a) : a[i] = b[i]
  BY <1>2, <1>3, <1>5
<1>7. QED
  BY <1>5, <1>6, SeqEqual

(***************************************************************************)
(* Where a placeholder occurs, its braces are.                             *)
(***************************************************************************)
LEMMA OccurrenceIs ==
  ASSUME NEW a \in Seq(Symbols), NEW s \in Seq(Symbols),
         NEW k \in Occurrences(Placeholder(a), s)
  PROVE  /\ k \in 1..Len(s) /\ k + Len(a) + 1 \in 1..Len(s)
         /\ s[k] = Open /\ s[k + Len(a) + 1] = Close
         /\ SubSeq(s, k, k + Len(a) + 1) = Placeholder(a)
<1>1. PICK h, n : h = Placeholder(a) /\ n = Len(a)
  OBVIOUS
<1>2. /\ h \in Seq(Symbols) /\ Len(h) = n + 2 /\ h[1] = Open /\ h[n + 2] = Close /\ n \in Nat
      /\ Len(s) \in Nat
  BY <1>1, PlaceholderIs
<1>3. k \in 1..Len(s) - Len(h) + 1 /\ SubSeq(s, k, k + Len(h) - 1) = h
  BY <1>1 DEF Occurrences
<1>4. PICK m : m = k + n + 1
  OBVIOUS
<1>5. /\ k \in Nat \ {0} /\ m \in Nat \ {0} /\ k + Len(h) - 1 = m /\ m <= Len(s) /\ k <= m
      /\ m - k + 1 = n + 2 /\ k + 1 - 1 = k /\ k + (n + 2) - 1 = m
  BY <1>2, <1>3, <1>4
<1>6. SubSeq(s, k, m) = h
  BY <1>3, <1>5
<1>7. Len(h) = m - k + 1 /\ \A i \in 1..Len(h) : h[i] = s[k + i - 1]
  BY <1>5, <1>6, PartOf
<1>8. 1 \in 1..Len(h) /\ n + 2 \in 1..Len(h)
  BY <1>2
<1>9. h[1] = s[k] /\ h[n + 2] = s[m]
  BY <1>5, <1>7, <1>8
<1>10. k \in 1..Len(s) /\ m \in 1..Len(s) /\ m = k + Len(a) + 1
  BY <1>1, <1>2, <1>4, <1>5
<1>11. s[k] = Open /\ s[m] = Close
  BY <1>2, <1>9
<1>12. QED
  BY <1>1, <1>6, <1>10, <1>11

\* None occurs where no brace is.
LEMMA NoneInPlain ==
  ASSUME NEW a \in Seq(Symbols), NEW s \in Seq(Symbols), Plain(s)
  PROVE  Occurrences(Placeholder(a), s) = {}
<1>1. ASSUME NEW k \in Occurrences(Placeholder(a), s) PROVE FALSE
  <2>1. k \in DOMAIN s /\ s[k] = Open
    BY <1>1, OccurrenceIs
  <2>2. QED
    BY <2>1 DEF Plain, Braces
<1>2. QED
  BY <1>1

(***************************************************************************)
(* In a placeholder of a name without braces none occurs but itself.       *)
(***************************************************************************)
LEMMA NoneInAnother ==
  ASSUME NEW a \in Seq(Symbols), NEW b \in Seq(Symbols), Plain(b),
         Occurrences(Placeholder(a), Placeholder(b)) # {}
  PROVE  a = b
<1>1. PICK s : s = Placeholder(b)
  OBVIOUS
<1>2. PICK n, m : n = Len(a) /\ m = Len(b)
  OBVIOUS
<1>3. /\ s \in Seq(Symbols) /\ Len(s) = m + 2 /\ s[1] = Open /\ s[m + 2] = Close
      /\ \A i \in 1..m : s[i + 1] = b[i]
  BY <1>1, <1>2, PlaceholderIs
<1>4. n \in Nat /\ m \in Nat /\ DOMAIN b = 1..m
  BY <1>2
<1>5. PICK k \in Occurrences(Placeholder(a), s) : TRUE
  BY <1>1
<1>6. /\ k \in 1..m + 2 /\ k + n + 1 \in 1..m + 2 /\ s[k] = Open /\ s[k + n + 1] = Close
      /\ SubSeq(s, k, k + n + 1) = Placeholder(a)
  BY <1>2, <1>3, OccurrenceIs
<1>7. \A i \in 2..m + 1 : s[i] # Open /\ s[i] # Close
  <2>1. ASSUME NEW i \in 2..m + 1 PROVE s[i] \notin Braces
    <3>1. i - 1 \in 1..m /\ (i - 1) + 1 = i
      BY <1>4
    <3>2. s[i] = b[i - 1]
      BY <1>3, <3>1
    <3>3. QED
      BY <1>4, <3>1, <3>2 DEF Plain
  <2>2. QED
    BY <2>1 DEF Braces
<1>8. k = 1
  <2>1. k # m + 2
    BY <1>3, <1>6, BracesDiffer
  <2>2. QED
    BY <1>4, <1>6, <1>7, <2>1
<1>9. k + n + 1 = m + 2
  <2>1. k + n + 1 # 1
    BY <1>3, <1>6, BracesDiffer
  <2>2. QED
    BY <1>4, <1>6, <1>7, <2>1
<1>10. SubSeq(s, 1, Len(s)) = s
  BY <1>3
<1>11. Placeholder(a) = Placeholder(b)
  BY <1>1, <1>3, <1>6, <1>8, <1>9, <1>10
<1>12. QED
  BY <1>11, PlaceholderOf

-----------------------------------------------------------------------------
(***************************************************************************)
(* parse_function and derive_segments.                                     *)
(***************************************************************************)

(***************************************************************************)
(* The namespace of a name ends at the first of its versions.              *)
(***************************************************************************)
LEMMA NamespaceEndIs ==
  ASSUME NEW S, NEW name \in Seq(S), VersionsAt(name) # {}
  PROVE  /\ NamespaceEnd(name) \in VersionsAt(name)
         /\ \A j \in VersionsAt(name) : NamespaceEnd(name) <= j
<1>1. VersionsAt(name) \subseteq Nat
  BY DEF VersionsAt
<1>2. \E i \in VersionsAt(name) : \A j \in VersionsAt(name) : i <= j
  BY <1>1, LeastNatural
<1>3. QED
  BY <1>2 DEF NamespaceEnd

(***************************************************************************)
(* Of the arguments that are spelled out at a place, the one that is taken *)
(* is none shorter than another, and the first of those.                   *)
(***************************************************************************)
LEMMA MatchedIs ==
  ASSUME TypeOK, NEW p \in Nat, Spelled(p) # {}
  PROVE  /\ Matched(p) \in Spelled(p)
         /\ \A j \in Spelled(p) :
              \/ Len(fn.args[j].words) < Len(fn.args[Matched(p)].words)
              \/ Len(fn.args[j].words) = Len(fn.args[Matched(p)].words) /\ Matched(p) <= j
<1>1. PICK args : args = fn.args
  OBVIOUS
<1>2. PICK M : M = Spelled(p)
  OBVIOUS
<1>3. PICK rest : rest = parsed.rest
  OBVIOUS
<1>4. args \in Seq(ArgType) /\ rest \in Seq(Symbols)
  BY <1>1, <1>3, FunctionIs DEF TypeOK, ParsedType
<1>5. Len(rest) \in Nat
  BY <1>4
<1>6. ASSUME NEW k \in M
      PROVE  k \in Nat /\ Len(args[k].words) \in Nat /\ Len(args[k].words) <= Len(rest)
  <2>1. k \in DOMAIN args /\ p + Len(args[k].words) <= Len(rest)
    BY <1>1, <1>2, <1>3 DEF Spelled
  <2>2. args[k] \in ArgType /\ k \in Nat
    BY <1>4, <2>1
  <2>3. args[k].words \in Seq(Symbols)
    BY <2>2 DEF ArgType
  <2>4. Len(args[k].words) \in Nat
    BY <2>3
  <2>5. QED
    BY <1>5, <2>1, <2>2, <2>4
<1> DEFINE L(k) == Len(args[k].words)
<1>7. \A k \in M : k \in Nat /\ L(k) \in Nat /\ L(k) <= Len(rest)
  BY <1>6
<1> HIDE DEF L
<1>8. PICK k \in M : \A j \in M : L(j) <= L(k)
  <2> DEFINE T == {Len(rest) - L(k) : k \in M}
  <2>1. T \subseteq Nat /\ T # {}
    BY <1>2, <1>5, <1>7
  <2> HIDE DEF T
  <2>2. PICK n \in T : \A m \in T : n <= m
    BY <2>1, LeastNatural
  <2>3. PICK k \in M : n = Len(rest) - L(k)
    BY <2>2 DEF T
  <2>4. ASSUME NEW j \in M PROVE L(j) <= L(k)
    <3>1. Len(rest) - L(j) \in T
      BY DEF T
    <3>2. Len(rest) - L(k) <= Len(rest) - L(j)
      BY <2>2, <2>3, <3>1
    <3>3. QED
      BY <1>5, <1>7, <3>2
  <2>5. QED
    BY <2>4
<1>9. PICK i \in M : L(i) = L(k) /\ \A j \in M : L(j) = L(k) => i <= j
  <2> DEFINE N == {j \in M : L(j) = L(k)}
  <2>1. N \subseteq Nat /\ N # {}
    BY <1>7
  <2>2. \E m \in N : \A j \in N : m <= j
    <3> HIDE DEF N
    <3>1. QED
      BY <2>1, LeastNatural
  <2>3. QED
    BY <2>2
<1>10. ASSUME NEW j \in M PROVE L(j) < L(i) \/ (L(j) = L(i) /\ i <= j)
  BY <1>7, <1>8, <1>9
<1>11. \E m \in M : \A j \in M : L(j) < L(m) \/ (L(j) = L(m) /\ m <= j)
  BY <1>10
<1>12. Matched(p) = CHOOSE m \in M : \A j \in M : L(j) < L(m) \/ (L(j) = L(m) /\ m <= j)
  BY <1>1, <1>2 DEF Matched, L
<1>13. Matched(p) \in M /\ \A j \in M : \/ L(j) < L(Matched(p))
                                        \/ L(j) = L(Matched(p)) /\ Matched(p) <= j
  BY <1>11, <1>12
<1>14. QED
  BY <1>1, <1>2, <1>13 DEF L

(***************************************************************************)
(* What is read from a name is parts of it.                                *)
(***************************************************************************)
LEMMA ReadingIs ==
  ASSUME TypeOK, pc = "parse", Parse, pc' = "derive"
  PROVE  LET name == fn.name
             v == NamespaceEnd(name)
         IN /\ name \in Seq(Symbols) /\ v \in VersionsAt(name) /\ v \in 3..Len(name)
            /\ \A u \in VersionsAt(name) : v <= u
            /\ name[1] \in Verbs /\ name[v] \in Fitting
            /\ parsed' = [verb |-> name[1], namespace |-> SubSeq(name, 2, v - 1),
                          version |-> name[v], rest |-> SubSeq(name, v + 1, Len(name))]
            /\ parsed'.namespace \in Seq(Symbols) /\ parsed'.rest \in Seq(Symbols)
<1>1. PICK name : name = fn.name
  OBVIOUS
<1>2. PICK v : v = NamespaceEnd(name)
  OBVIOUS
<1>3. /\ name[1] \in Verbs /\ VersionsAt(name) # {} /\ name[v] \in Fitting
      /\ parsed' = [verb |-> name[1], namespace |-> SubSeq(name, 2, v - 1),
                    version |-> name[v], rest |-> SubSeq(name, v + 1, Len(name))]
  BY <1>1, <1>2 DEF Parse
<1>4. name \in Seq(Symbols)
  BY <1>1, FunctionIs DEF TypeOK
<1>5. v \in VersionsAt(name) /\ \A u \in VersionsAt(name) : v <= u
  BY <1>2, <1>3, <1>4, NamespaceEndIs
<1>6. v \in 3..Len(name)
  BY <1>4, <1>5 DEF VersionsAt
<1>7. SubSeq(name, 2, v - 1) \in Seq(Symbols)
  <2>1. v - 1 \in Nat /\ v - 1 <= Len(name) /\ Len(name) \in Nat
    BY <1>4, <1>6
  <2>2. QED
    BY <1>4, <2>1, PartOf
<1>8. SubSeq(name, v + 1, Len(name)) \in Seq(Symbols)
  <2>1. v + 1 \in Nat /\ 1 <= v + 1 /\ Len(name) \in Nat /\ Len(name) <= Len(name)
    BY <1>4, <1>6
  <2>2. QED
    BY <1>4, <2>1, PartOf
<1>9. QED
  BY <1>1, <1>2, <1>3, <1>4, <1>5, <1>6, <1>7, <1>8

(***************************************************************************)
(* An argument that is taken: where it stands, and what is before it.      *)
(***************************************************************************)
LEMMA TakenIs ==
  ASSUME TypeOK, TakeParam
  PROVE  LET arg == fn.args[Matched(at)]
         IN /\ arg \in ArgType /\ Matched(at) \in Spelled(at)
            /\ Len(arg.words) \in Nat /\ at + Len(arg.words) <= Len(parsed.rest)
            /\ parsed.rest \in Seq(Symbols) /\ at \in Nat \ {0} /\ parsed.rest[at] = "by"
            /\ SubSeq(parsed.rest, at + 1, at + Len(arg.words)) = arg.words
<1>1. PICK k : k = Matched(at)
  OBVIOUS
<1>2. parsed.rest \in Seq(Symbols) /\ at \in Nat \ {0}
  <2>1. parsed.rest \in Seq(Symbols) /\ at \in 1..Len(parsed.rest) + 1
    BY DEF TypeOK, ParsedType
  <2>2. Len(parsed.rest) \in Nat
    BY <2>1
  <2>3. QED
    BY <2>1, <2>2
<1>3. k \in Spelled(at)
  BY <1>1, <1>2, MatchedIs DEF TakeParam
<1>4. /\ k \in DOMAIN fn.args /\ at + Len(fn.args[k].words) <= Len(parsed.rest)
      /\ parsed.rest[at] = "by"
      /\ SubSeq(parsed.rest, at + 1, at + Len(fn.args[k].words)) = fn.args[k].words
  BY <1>3 DEF Spelled
<1>5. PICK args : args = fn.args
  OBVIOUS
<1>6. args \in Seq(ArgType)
  BY <1>5, FunctionIs DEF TypeOK
<1>7. args[k] \in ArgType
  BY <1>4, <1>5, <1>6
<1>8. args[k].words \in Seq(Symbols)
  BY <1>7 DEF ArgType
<1>9. Len(args[k].words) \in Nat
  BY <1>8
<1>10. QED
  BY <1>1, <1>2, <1>3, <1>4, <1>5, <1>7, <1>9

(***************************************************************************)
(* The words that wait become a literal.                                   *)
(***************************************************************************)
LEMMA FlushedIs ==
  ASSUME TypeOK
  PROVE  Flushed \in Seq(SegmentType)
<1>1. run \in Seq(Symbols) /\ segments \in Seq(SegmentType)
  BY DEF TypeOK
<1>2. Literal(run) \in SegmentType
  BY <1>1, LiteralIs
<1>3. Append(segments, Literal(run)) \in Seq(SegmentType)
  BY <1>1, <1>2
<1>4. QED
  BY <1>1, <1>3 DEF Flushed

(***************************************************************************)
(* The path of a route: its namespace, its version and its segments.       *)
(***************************************************************************)
LEMMA PathIs ==
  ASSUME TypeOK, Declare
  PROVE  /\ segments' \in Seq(SegmentType)
         /\ path' \in Seq(Seq(Symbols)) /\ Len(path') = Len(segments') + 2
         /\ path'[1] = parsed.namespace /\ path'[2] = <<parsed.version>>
         /\ \A i \in 1..Len(segments') : path'[i + 2] = Rendered(segments'[i])
<1>1. PICK s : s = segments'
  OBVIOUS
<1>2. s \in Seq(SegmentType)
  BY <1>1, FlushedIs DEF Declare
<1>3. PICK n : n = Len(s)
  OBVIOUS
<1>4. n \in Nat /\ DOMAIN s = 1..n
  BY <1>2, <1>3
<1>5. PICK start : start = <<parsed.namespace, <<parsed.version>>>>
  OBVIOUS
<1>6. PICK end : end = [i \in 1..n |-> Rendered(s[i])]
  OBVIOUS
<1>7. path' = start \o end
  BY <1>1, <1>4, <1>5, <1>6 DEF Declare
<1>8. parsed.namespace \in Seq(Symbols) /\ <<parsed.version>> \in Seq(Symbols)
  <2>1. parsed.namespace \in Seq(Symbols) /\ parsed.version \in Fitting \cup {""}
    BY DEF TypeOK, ParsedType
  <2>2. parsed.version \in Symbols
    BY <2>1, SymbolsAre
  <2>3. \A x \in Symbols : <<x>> \in Seq(Symbols)
    OBVIOUS
  <2>4. QED
    BY <2>1, <2>2, <2>3
<1>9. /\ start \in Seq(Seq(Symbols)) /\ Len(start) = 2
      /\ start[1] = parsed.namespace /\ start[2] = <<parsed.version>>
  BY <1>5, <1>8
<1>10. end \in Seq(Seq(Symbols)) /\ Len(end) = n
  <2>1. \A i \in 1..n : Rendered(s[i]) \in Seq(Symbols)
    BY <1>2, <1>4, SegmentHasWords
  <2>2. QED
    BY <1>4, <1>6, <2>1
<1>11. /\ path' \in Seq(Seq(Symbols)) /\ Len(path') = Len(start) + Len(end)
       /\ \A i \in 1..Len(start) : path'[i] = start[i]
       /\ \A i \in 1..Len(end) : path'[Len(start) + i] = end[i]
  <2>1. \A a, b \in Seq(Seq(Symbols)) :
          /\ a \o b \in Seq(Seq(Symbols)) /\ Len(a \o b) = Len(a) + Len(b)
          /\ \A i \in 1..Len(a) : (a \o b)[i] = a[i]
          /\ \A i \in 1..Len(b) : (a \o b)[Len(a) + i] = b[i]
    BY EndToEnd
  <2>2. QED
    BY <1>7, <1>9, <1>10, <2>1
<1>12. \A i \in 1..n : path'[i + 2] = Rendered(s[i])
  BY <1>4, <1>6, <1>9, <1>10, <1>11
<1>13. path'[1] = parsed.namespace /\ path'[2] = <<parsed.version>>
  BY <1>9, <1>11
<1>14. QED
  BY <1>1, <1>2, <1>3, <1>4, <1>9, <1>10, <1>11, <1>12, <1>13

(***************************************************************************)
(* What nothing has touched yet: the reading before the name is parsed,    *)
(* and the values before the route is declared.                            *)
(***************************************************************************)
Fresh ==
  /\ pc = "parse" => at = 1 /\ run = <<>> /\ segments = <<>>
  /\ pc \in {"parse", "derive"} => given = <<>>

\* Before anything is read.
LEMMA InitTyped ==
  ASSUME Init
  PROVE  TypeOK /\ Fresh
<1>1. parsed \in ParsedType /\ at \in 1..Len(parsed.rest) + 1
  <2>1. <<>> \in Seq(Symbols) /\ Len(<<>>) = 0
    OBVIOUS
  <2>2. Nothing \in ParsedType /\ Nothing.rest = <<>>
    BY <2>1 DEF Nothing, ParsedType
  <2>3. QED
    BY <2>1, <2>2 DEF Init
<1>2. run \in Seq(Symbols) /\ segments \in Seq(SegmentType) /\ unbound \in Seq(SegmentType)
  BY DEF Init
<1>3. given \in Seq(Values) /\ path \in Seq(Seq(Symbols))
  BY DEF Init
<1>4. QED
  BY <1>1, <1>2, <1>3 DEF Init, TypeOK, Fresh

\* parse: the parts of a name, or none.
LEMMA ParseTyped ==
  ASSUME TypeOK, Fresh, Parse
  PROVE  TypeOK' /\ Fresh'
<1>1. /\ pc = "parse" /\ fn' = fn /\ at' = at /\ run' = run /\ segments' = segments
      /\ unbound' = unbound /\ given' = given /\ path' = path
  BY DEF Parse, binding
<1>2. Fresh'
  BY <1>1 DEF Fresh, Parse
<1>3. CASE pc' = "none" /\ parsed' = parsed
  BY <1>1, <1>2, <1>3 DEF TypeOK
<1>4. CASE pc' = "derive"
  <2>1. PICK name, v : name = fn.name /\ v = NamespaceEnd(name)
    OBVIOUS
  <2>2. /\ name[1] \in Verbs /\ name[v] \in Fitting
        /\ parsed' = [verb |-> name[1], namespace |-> SubSeq(name, 2, v - 1),
                      version |-> name[v], rest |-> SubSeq(name, v + 1, Len(name))]
        /\ parsed'.namespace \in Seq(Symbols) /\ parsed'.rest \in Seq(Symbols)
    BY <1>1, <1>4, <2>1, ReadingIs
  <2>3. parsed' \in ParsedType
    BY <2>2 DEF ParsedType
  <2>4. Len(parsed'.rest) \in Nat /\ at' = 1
    BY <1>1, <2>2 DEF Fresh
  <2>5. at' \in 1..Len(parsed'.rest) + 1
    BY <2>4
  <2>6. QED
    BY <1>1, <1>2, <1>4, <2>3, <2>5 DEF TypeOK
<1>5. QED
  BY <1>3, <1>4 DEF Parse

\* derive: a "By" and the argument it names.
LEMMA TakeParamTyped ==
  ASSUME TypeOK, Fresh, TakeParam
  PROVE  TypeOK' /\ Fresh'
<1>1. /\ pc = "derive" /\ pc' = "derive" /\ fn' = fn /\ parsed' = parsed /\ run' = <<>>
      /\ unbound' = unbound /\ given' = given /\ path' = path
  BY DEF TakeParam, More, binding
<1>2. PICK arg : arg = fn.args[Matched(at)]
  OBVIOUS
<1>3. segments' = Append(Flushed, Param(arg)) /\ at' = at + 1 + Len(arg.words)
  BY <1>2 DEF TakeParam
<1>4. arg \in ArgType /\ Len(arg.words) \in Nat /\ at + Len(arg.words) <= Len(parsed.rest)
      /\ parsed.rest \in Seq(Symbols) /\ at \in Nat \ {0}
  BY <1>2, TakenIs
<1>5. at' \in 1..Len(parsed'.rest) + 1
  <2>1. Len(parsed.rest) \in Nat
    BY <1>4
  <2>2. PICK n, l : n = Len(parsed.rest) /\ l = Len(arg.words)
    OBVIOUS
  <2>3. at' = at + 1 + l /\ at + l <= n /\ n \in Nat /\ l \in Nat /\ at \in Nat \ {0}
    BY <1>3, <1>4, <2>1, <2>2
  <2>4. at' \in 1..n + 1
    BY ONLY <2>3
  <2>5. QED
    BY <1>1, <2>2, <2>4
<1>6. segments' \in Seq(SegmentType)
  <2>1. Flushed \in Seq(SegmentType) /\ Param(arg) \in SegmentType
    BY <1>4, FlushedIs, ParamIs
  <2>2. QED
    BY <1>3, <2>1
<1>7. run' \in Seq(Symbols)
  BY <1>1
<1>8. Fresh'
  BY <1>1 DEF Fresh
<1>9. QED
  BY <1>1, <1>5, <1>6, <1>7, <1>8 DEF TypeOK

\* derive: one word of a literal.
LEMMA TakeWordTyped ==
  ASSUME TypeOK, Fresh, TakeWord
  PROVE  TypeOK' /\ Fresh'
<1>1. /\ pc = "derive" /\ at <= Len(parsed.rest) /\ pc' = "derive" /\ fn' = fn
      /\ parsed' = parsed /\ segments' = segments
      /\ unbound' = unbound /\ given' = given /\ path' = path
      /\ run' = Append(run, parsed.rest[at]) /\ at' = at + 1
  BY DEF TakeWord, More, binding
<1>2. parsed.rest \in Seq(Symbols) /\ at \in 1..Len(parsed.rest) + 1 /\ run \in Seq(Symbols)
  BY DEF TypeOK, ParsedType
<1>3. Len(parsed.rest) \in Nat /\ at \in 1..Len(parsed.rest)
  BY <1>1, <1>2
<1>4. parsed.rest[at] \in Symbols
  BY <1>2, <1>3
<1>5. run' \in Seq(Symbols) /\ at' \in 1..Len(parsed'.rest) + 1
  BY <1>1, <1>2, <1>3, <1>4
<1>6. Fresh'
  BY <1>1 DEF Fresh
<1>7. QED
  BY <1>1, <1>5, <1>6 DEF TypeOK

\* derive: the last literal is flushed and the template declared.
LEMMA DeclareTyped ==
  ASSUME TypeOK, Fresh, Declare
  PROVE  TypeOK' /\ Fresh'
<1>1. /\ pc' = "bind" /\ fn' = fn /\ parsed' = parsed /\ at' = at /\ given' = given
      /\ run' = <<>> /\ unbound' = Params(segments')
  BY DEF Declare
<1>2. segments' \in Seq(SegmentType) /\ path' \in Seq(Seq(Symbols))
  BY PathIs
<1>3. unbound' \in Seq(SegmentType)
  BY <1>1, <1>2, ParamsAreRanked DEF Ranked
<1>4. run' \in Seq(Symbols)
  BY <1>1
<1>5. Fresh'
  BY <1>1 DEF Fresh
<1>6. QED
  BY <1>1, <1>2, <1>3, <1>4, <1>5 DEF TypeOK

\* bind: a value is encoded and put in its place.
LEMMA BindNextTyped ==
  ASSUME TypeOK, Fresh, BindNext
  PROVE  TypeOK' /\ Fresh'
<1>1. /\ pc = "bind" /\ unbound # <<>> /\ unbound' = Tail(unbound)
      /\ fn' = fn /\ pc' = pc /\ parsed' = parsed /\ at' = at /\ run' = run
      /\ segments' = segments
  BY DEF BindNext, reading
<1>2. PICK value \in Values :
        /\ path' = [i \in DOMAIN path |->
                      Replaced(path[i], Placeholder(Head(unbound).words), EncodeSegment(value))]
        /\ given' = Append(given, value)
  BY DEF BindNext
<1>3. unbound \in Seq(SegmentType) /\ given \in Seq(Values) /\ path \in Seq(Seq(Symbols))
  BY DEF TypeOK
<1>4. EncodeSegment(value) \in Seq(Symbols)
  BY SymbolsAre, ValueIs, EncodedIsSafe DEF Safe
<1>5. path' \in Seq(Seq(Symbols))
  <2>1. PICK e, p : e = EncodeSegment(value) /\ p = Placeholder(Head(unbound).words)
    OBVIOUS
  <2>2. path' = [i \in 1..Len(path) |-> Replaced(path[i], p, e)] /\ Len(path) \in Nat
    BY <1>2, <1>3, <2>1
  <2>3. p \in Seq(Symbols)
    <3>1. PICK s : s = Head(unbound)
      OBVIOUS
    <3>2. s \in SegmentType
      BY <1>1, <1>3, <3>1
    <3>3. PICK w : w = s.words
      OBVIOUS
    <3>4. w \in Seq(Symbols)
      BY <3>2, <3>3, SegmentHasWords
    <3>5. QED
      BY <2>1, <3>1, <3>3, <3>4, PlaceholderIs
  <2>4. ASSUME NEW i \in 1..Len(path) PROVE Replaced(path[i], p, e) \in Seq(Symbols)
    <3>1. path[i] \in Seq(Symbols)
      BY <1>3
    <3>2. QED
      BY <1>4, <2>1, <2>3, <3>1, ReplacedTyped
  <2>5. QED
    BY <2>2, <2>4
<1>6. given' \in Seq(Values)
  BY <1>2, <1>3
<1>7. unbound' \in Seq(SegmentType)
  BY <1>1, <1>3
<1>8. Fresh'
  BY <1>1 DEF Fresh
<1>9. QED
  BY <1>1, <1>5, <1>6, <1>7, <1>8 DEF TypeOK

\* Every step keeps the types and the order of the phases.
LEMMA StepTyped ==
  ASSUME TypeOK, Fresh, [Next]_vars
  PROVE  TypeOK' /\ Fresh'
<1>1. CASE Parse
  BY <1>1, ParseTyped
<1>2. CASE TakeParam
  BY <1>2, TakeParamTyped
<1>3. CASE TakeWord
  BY <1>3, TakeWordTyped
<1>4. CASE Declare
  BY <1>4, DeclareTyped
<1>5. CASE BindNext
  BY <1>5, BindNextTyped
<1>6. CASE Send
  BY <1>6 DEF Send, reading, binding, TypeOK, Fresh
<1>7. CASE UNCHANGED vars
  BY <1>7 DEF vars, reading, binding, TypeOK, Fresh
<1>8. QED
  BY <1>1, <1>2, <1>3, <1>4, <1>5, <1>6, <1>7 DEF Next

(***************************************************************************)
(* The reading of a name and the filling in of a route keep to their       *)
(* types: the derivation never looks past the end of a name, and a path is *)
(* made of strings alone (derive_segments, Route::bind).                   *)
(***************************************************************************)
THEOREM NamingTypeCorrect == Spec => []TypeOK
<1>1. Init => TypeOK /\ Fresh
  BY InitTyped
<1>2. TypeOK /\ Fresh /\ [Next]_vars => TypeOK' /\ Fresh'
  BY StepTyped
<1>3. QED
  BY <1>1, <1>2, PTL DEF Spec

-----------------------------------------------------------------------------
(***************************************************************************)
(* Route::bind.                                                            *)
(***************************************************************************)

(***************************************************************************)
(* Part of what is plain is plain.                                         *)
(***************************************************************************)
LEMMA PlainPart ==
  ASSUME NEW S, NEW s \in Seq(S), Plain(s), NEW m \in Nat, NEW n \in Nat, 1 <= m, n <= Len(s)
  PROVE  Plain(SubSeq(s, m, n))
<1>1. PICK t : t = SubSeq(s, m, n)
  OBVIOUS
<1>2. /\ t \in Seq(S) /\ Len(t) = IF m <= n THEN n - m + 1 ELSE 0
      /\ \A i \in 1..Len(t) : t[i] = s[m + i - 1]
  BY <1>1, PartOf
<1>3. DOMAIN t = 1..Len(t) /\ DOMAIN s = 1..Len(s) /\ Len(s) \in Nat
  BY <1>2
<1>4. ASSUME NEW i \in 1..Len(t) PROVE m + i - 1 \in 1..Len(s)
  BY <1>2, <1>3
<1>5. QED
  BY <1>1, <1>2, <1>3, <1>4 DEF Plain

(***************************************************************************)
(* What is read from a name holds no brace, and an argument is read from   *)
(* one.                                                                    *)
(***************************************************************************)
NoBrace ==
  /\ Plain(parsed.namespace) /\ parsed.version \notin Braces /\ Plain(parsed.rest) /\ Plain(run)
  /\ \A i \in DOMAIN segments : Plain(segments[i].words)

\* Before anything is read.
LEMMA InitNoBrace ==
  ASSUME Init
  PROVE  NoBrace
<1>1. Plain(<<>>)
  BY DEF Plain
<1>2. "" \notin Braces
  BY DEF Braces, Open, Close
<1>3. Nothing.namespace = <<>> /\ Nothing.rest = <<>> /\ Nothing.version = ""
  BY DEF Nothing
<1>4. parsed = Nothing /\ run = <<>> /\ segments = <<>>
  BY DEF Init
<1>5. \A i \in DOMAIN segments : Plain(segments[i].words)
  BY <1>4
<1>6. QED
  BY <1>1, <1>2, <1>3, <1>4, <1>5 DEF NoBrace

\* Flushing the run puts no brace into a literal.
LEMMA FlushedNoBrace ==
  ASSUME TypeOK, NoBrace
  PROVE  \A i \in DOMAIN Flushed : Plain(Flushed[i].words)
<1>1. run \in Seq(Symbols) /\ segments \in Seq(SegmentType)
  BY DEF TypeOK
<1>2. PICK l : l = Literal(run)
  OBVIOUS
<1>3. Plain(l.words)
  BY <1>1, <1>2, LiteralIs DEF NoBrace
<1>4. PICK t : t = Append(segments, l)
  OBVIOUS
<1>5. /\ DOMAIN t = 1..Len(segments) + 1 /\ DOMAIN segments = 1..Len(segments)
      /\ t[Len(segments) + 1] = l /\ \A i \in 1..Len(segments) : t[i] = segments[i]
  BY <1>1, <1>4
<1>6. ASSUME NEW i \in DOMAIN t PROVE Plain(t[i].words)
  <2>1. CASE i = Len(segments) + 1
    BY <1>3, <1>5, <2>1
  <2>2. CASE i # Len(segments) + 1
    <3>1. Len(segments) \in Nat
      BY <1>1
    <3>2. i \in DOMAIN segments /\ t[i] = segments[i]
      BY <1>5, <2>2, <3>1
    <3>3. QED
      BY <3>2 DEF NoBrace
  <2>3. QED
    BY <2>1, <2>2
<1>7. Flushed = segments \/ Flushed = t
  BY <1>2, <1>4 DEF Flushed
<1>8. QED
  BY <1>6, <1>7 DEF NoBrace

\* parse: the rest is part of a name without braces.
LEMMA ParseNoBrace ==
  ASSUME TypeOK, NoBrace, Parse
  PROVE  NoBrace'
<1>1. pc = "parse" /\ run' = run /\ segments' = segments
  BY DEF Parse
<1>2. CASE parsed' = parsed
  BY <1>1, <1>2 DEF NoBrace
<1>3. CASE pc' = "derive"
  <2>1. PICK name, v : name = fn.name /\ v = NamespaceEnd(name)
    OBVIOUS
  <2>2. /\ name \in Seq(Symbols) /\ v \in 3..Len(name)
        /\ parsed' = [verb |-> name[1], namespace |-> SubSeq(name, 2, v - 1),
                      version |-> name[v], rest |-> SubSeq(name, v + 1, Len(name))]
    BY <1>1, <1>3, <2>1, ReadingIs
  <2>3. Plain(name)
    BY <2>1, FunctionIs DEF TypeOK
  <2>4. Len(name) \in Nat /\ v \in Nat /\ v - 1 \in Nat /\ v - 1 <= Len(name) /\ v + 1 \in Nat
        /\ 1 <= v + 1 /\ Len(name) <= Len(name) /\ v \in DOMAIN name
    BY <2>2
  <2>5. Plain(SubSeq(name, 2, v - 1)) /\ Plain(SubSeq(name, v + 1, Len(name)))
    BY <2>2, <2>3, <2>4, PlainPart
  <2>6. name[v] \notin Braces
    BY <2>3, <2>4 DEF Plain
  <2>7. QED
    BY <1>1, <2>2, <2>5, <2>6 DEF NoBrace
<1>4. QED
  BY <1>2, <1>3 DEF Parse

\* derive: the run is flushed, and the words of the argument are some of the rest.
LEMMA TakeParamNoBrace ==
  ASSUME TypeOK, NoBrace, TakeParam
  PROVE  NoBrace'
<1>1. PICK arg : arg = fn.args[Matched(at)]
  OBVIOUS
<1>2. PICK f, p : f = Flushed /\ p = Param(arg)
  OBVIOUS
<1>3. segments' = Append(f, p) /\ run' = <<>> /\ parsed' = parsed
  BY <1>1, <1>2 DEF TakeParam
<1>4. f \in Seq(SegmentType) /\ \A i \in DOMAIN f : Plain(f[i].words)
  BY <1>2, FlushedIs, FlushedNoBrace
<1>5. p \in SegmentType /\ p.words = arg.words
  BY <1>1, <1>2, TakenIs, ParamIs
<1>6. Plain(p.words)
  <2>1. PICK m, n : m = at + 1 /\ n = at + Len(arg.words)
    OBVIOUS
  <2>2. /\ m \in Nat /\ n \in Nat /\ 1 <= m /\ n <= Len(parsed.rest)
        /\ parsed.rest \in Seq(Symbols) /\ SubSeq(parsed.rest, m, n) = arg.words
    <3>1. /\ Len(arg.words) \in Nat /\ at + Len(arg.words) <= Len(parsed.rest)
          /\ parsed.rest \in Seq(Symbols) /\ at \in Nat \ {0}
          /\ SubSeq(parsed.rest, at + 1, at + Len(arg.words)) = arg.words
      BY <1>1, TakenIs
    <3>2. QED
      BY <2>1, <3>1
  <2>3. Plain(parsed.rest)
    BY DEF NoBrace
  <2>4. Plain(SubSeq(parsed.rest, m, n))
    BY <2>2, <2>3, PlainPart
  <2>5. QED
    BY <1>5, <2>2, <2>4
<1>7. /\ DOMAIN segments' = 1..Len(f) + 1 /\ DOMAIN f = 1..Len(f) /\ Len(f) \in Nat
      /\ segments'[Len(f) + 1] = p /\ \A i \in 1..Len(f) : segments'[i] = f[i]
  BY <1>3, <1>4, <1>5
<1>8. ASSUME NEW i \in DOMAIN segments' PROVE Plain(segments'[i].words)
  <2>1. CASE i = Len(f) + 1
    BY <1>6, <1>7, <2>1
  <2>2. CASE i # Len(f) + 1
    <3>1. i \in DOMAIN f /\ segments'[i] = f[i]
      BY <1>7, <2>2
    <3>2. QED
      BY <1>4, <3>1
  <2>3. QED
    BY <2>1, <2>2
<1>9. Plain(run')
  BY <1>3 DEF Plain
<1>10. QED
  BY <1>3, <1>8, <1>9 DEF NoBrace

\* derive: the word taken is one of the rest.
LEMMA TakeWordNoBrace ==
  ASSUME TypeOK, NoBrace, TakeWord
  PROVE  NoBrace'
<1>1. PICK w : w = parsed.rest[at]
  OBVIOUS
<1>2. run' = Append(run, w) /\ segments' = segments /\ parsed' = parsed /\ at <= Len(parsed.rest)
  BY <1>1 DEF TakeWord, More
<1>3. parsed.rest \in Seq(Symbols) /\ at \in 1..Len(parsed.rest) + 1 /\ run \in Seq(Symbols)
  BY DEF TypeOK, ParsedType
<1>4. at \in DOMAIN parsed.rest /\ Len(run) \in Nat /\ DOMAIN run = 1..Len(run)
  BY <1>2, <1>3
<1>5. w \notin Braces
  BY <1>1, <1>4 DEF NoBrace, Plain
<1>6. /\ DOMAIN run' = 1..Len(run) + 1 /\ run'[Len(run) + 1] = w
      /\ \A i \in 1..Len(run) : run'[i] = run[i]
  BY <1>2, <1>3
<1>7. ASSUME NEW i \in DOMAIN run' PROVE run'[i] \notin Braces
  <2>1. CASE i = Len(run) + 1
    BY <1>5, <1>6, <2>1
  <2>2. CASE i # Len(run) + 1
    <3>1. i \in DOMAIN run /\ run'[i] = run[i]
      BY <1>4, <1>6, <2>2
    <3>2. QED
      BY <3>1 DEF NoBrace, Plain
  <2>3. QED
    BY <2>1, <2>2
<1>8. Plain(run')
  BY <1>7 DEF Plain
<1>9. QED
  BY <1>2, <1>8 DEF NoBrace

\* derive: what is declared is what was flushed.
LEMMA DeclareNoBrace ==
  ASSUME TypeOK, NoBrace, Declare
  PROVE  NoBrace'
<1>1. segments' = Flushed /\ run' = <<>> /\ parsed' = parsed
  BY DEF Declare
<1>2. Plain(run')
  BY <1>1 DEF Plain
<1>3. QED
  BY <1>1, <1>2, FlushedNoBrace DEF NoBrace

\* Every step keeps braces out of what literals are made of.
LEMMA StepNoBrace ==
  ASSUME TypeOK, NoBrace, [Next]_vars
  PROVE  NoBrace'
<1>1. CASE Parse
  BY <1>1, ParseNoBrace
<1>2. CASE TakeParam
  BY <1>2, TakeParamNoBrace
<1>3. CASE TakeWord
  BY <1>3, TakeWordNoBrace
<1>4. CASE Declare
  BY <1>4, DeclareNoBrace
<1>5. CASE BindNext \/ Send \/ UNCHANGED vars
  BY <1>5 DEF BindNext, Send, vars, reading, NoBrace
<1>6. QED
  BY <1>1, <1>2, <1>3, <1>4, <1>5 DEF Next

(***************************************************************************)
(* The encoding of a value has no cut in it.                               *)
(***************************************************************************)
LEMMA ValueEncoded ==
  ASSUME NEW value \in Values
  PROVE  /\ EncodeSegment(value) \in Seq(Symbols)
         /\ \A i \in DOMAIN EncodeSegment(value) : EncodeSegment(value)[i] \notin Cuts
<1>1. PICK e : e = EncodeSegment(value)
  OBVIOUS
<1>2. value \in Seq(Symbols)
  BY ValueIs
<1>3. Escapes \subseteq Symbols
  BY SymbolsAre
<1>4. e \in Seq(Symbols) /\ \A i \in 1..Len(e) : e[i] \notin Cuts
  BY <1>1, <1>2, <1>3, EncodedIsSafe DEF Safe
<1>5. DOMAIN e = 1..Len(e)
  BY <1>4
<1>6. QED
  BY <1>1, <1>4, <1>5

(***************************************************************************)
(* What stands at a segment's place once the values g are bound, whether   *)
(* each parameter of some segments is named once, and whether none of the  *)
(* values spells the placeholder of a parameter after its own.             *)
(***************************************************************************)
StandsAt(s, p, g, i) ==
  p[i + 2] = IF IsParam(s[i]) /\ Rank(s, i) <= Len(g) THEN EncodeSegment(g[Rank(s, i)])
             ELSE Rendered(s[i])
NamedOnce(s) == \A i, j \in Places(s) : s[i].words = s[j].words => i = j
Harmless(s, g) ==
  \A i, j \in Places(s) : Rank(s, j) <= Len(g) /\ Rank(s, j) < Rank(s, i) =>
    Occurrences(Placeholder(s[i].words), EncodeSegment(g[Rank(s, j)])) = {}

\* Values that are harmless were so before the last of them.
LEMMA HarmlessBefore ==
  ASSUME NEW s \in Seq(SegmentType), NEW g \in Seq(Values), NEW value \in Values,
         Harmless(s, Append(g, value))
  PROVE  Harmless(s, g)
<1>1. PICK f : f = Append(g, value)
  OBVIOUS
<1>2. Len(g) \in Nat /\ Len(f) = Len(g) + 1 /\ \A m \in 1..Len(g) : f[m] = g[m]
  BY <1>1
<1>3. ASSUME NEW i \in Places(s), NEW j \in Places(s),
             Rank(s, j) <= Len(g), Rank(s, j) < Rank(s, i)
      PROVE  Occurrences(Placeholder(s[i].words), EncodeSegment(g[Rank(s, j)])) = {}
  <2>1. PICK r : r = Rank(s, j)
    OBVIOUS
  <2>2. r \in 1..Len(Params(s)) /\ Len(Params(s)) \in Nat
    BY <2>1, ParamsAreRanked DEF Ranked
  <2>3. r \in 1..Len(g) /\ r <= Len(f) /\ f[r] = g[r]
    BY <1>2, <1>3, <2>1, <2>2
  <2>4. Occurrences(Placeholder(s[i].words), EncodeSegment(f[r])) = {}
    BY <1>1, <1>3, <2>1, <2>3 DEF Harmless
  <2>5. QED
    BY <2>1, <2>3, <2>4
<1>4. QED
  BY <1>3 DEF Harmless

(***************************************************************************)
(* The placeholder of the next parameter stands at its place and occurs    *)
(* nowhere else: a literal holds no brace, each other parameter has a name *)
(* of its own, and no value before spells it.                              *)
(***************************************************************************)
LEMMA PlaceholderStands ==
  ASSUME NEW s \in Seq(SegmentType), NamedOnce(s), \A i \in DOMAIN s : Plain(s[i].words),
         NEW g \in Seq(Values), Harmless(s, g), Len(g) + 1 \in 1..Len(Params(s)),
         NEW p, NEW i \in 1..Len(s), StandsAt(s, p, g, i)
  PROVE  LET h == Placeholder(Params(s)[Len(g) + 1].words)
         IN /\ h \in Seq(Symbols) /\ h # <<>>
            /\ IF IsParam(s[i]) /\ Rank(s, i) = Len(g) + 1 THEN p[i + 2] = h
               ELSE Occurrences(h, p[i + 2]) = {}
<1>1. PICK n : n = Len(g) + 1
  OBVIOUS
<1>2. PICK q : q = Params(s)
  OBVIOUS
<1>3. /\ Len(g) \in Nat /\ DOMAIN s = 1..Len(s) /\ s[i] \in SegmentType
      /\ \A j \in DOMAIN s : s[j] \in SegmentType
  OBVIOUS
<1>4. /\ \A j \in Places(s) : Rank(s, j) \in 1..Len(q) /\ q[Rank(s, j)] = s[j]
      /\ \A m \in 1..Len(q) : \E j \in Places(s) : Rank(s, j) = m
      /\ q \in Seq(SegmentType)
  BY <1>2, ParamsAreRanked DEF Ranked
<1>5. PICK k \in Places(s) : Rank(s, k) = n /\ q[n] = s[k]
  <2>1. n \in 1..Len(q)
    BY <1>1, <1>2
  <2>2. PICK k \in Places(s) : Rank(s, k) = n
    BY <1>4, <2>1
  <2>3. QED
    BY <1>4, <2>2
<1>6. /\ k \in DOMAIN s /\ s[k].words \in Seq(Symbols) /\ s[i].words \in Seq(Symbols)
      /\ Plain(s[i].words)
  BY <1>3, <1>5, SegmentHasWords DEF Places
<1>7. PICK h : h = Placeholder(s[k].words)
  OBVIOUS
<1>8. h \in Seq(Symbols) /\ h # <<>>
  <2>1. PICK w : w = s[k].words
    OBVIOUS
  <2>2. h \in Seq(Symbols) /\ Len(h) = Len(w) + 2
    BY <1>6, <1>7, <2>1, PlaceholderIs
  <2>3. Len(w) \in Nat
    BY <1>6, <2>1
  <2>4. Len(h) # 0
    BY <2>2, <2>3
  <2>5. QED
    BY <2>2, <2>4
<1>9. CASE ~IsParam(s[i])
  <2>1. p[i + 2] = s[i].words
    BY <1>9 DEF StandsAt, Rendered
  <2>2. Occurrences(h, p[i + 2]) = {}
    BY <1>6, <1>7, <2>1, NoneInPlain
  <2>3. QED
    BY <1>1, <1>2, <1>5, <1>7, <1>8, <1>9, <2>2
<1>10. CASE IsParam(s[i]) /\ Rank(s, i) <= Len(g)
  <2>1. i \in Places(s)
    BY <1>3, <1>10 DEF Places
  <2>2. Rank(s, i) \in 1..Len(g) /\ Rank(s, i) # n /\ Rank(s, i) < n
    <3>1. Rank(s, i) \in 1..Len(q) /\ Len(q) \in Nat
      BY <1>4, <2>1
    <3>2. QED
      BY <1>1, <1>3, <1>10, <3>1
  <2>3. p[i + 2] = EncodeSegment(g[Rank(s, i)])
    BY <1>10 DEF StandsAt
  <2>4. Occurrences(h, p[i + 2]) = {}
    BY <1>5, <1>7, <1>10, <2>1, <2>2, <2>3 DEF Harmless
  <2>5. QED
    BY <1>1, <1>2, <1>5, <1>7, <1>8, <2>2, <2>4
<1>11. CASE IsParam(s[i]) /\ ~(Rank(s, i) <= Len(g))
  <2>1. i \in Places(s) /\ p[i + 2] = Placeholder(s[i].words)
    BY <1>3, <1>11 DEF Places, StandsAt, Rendered
  <2>2. ASSUME Occurrences(h, p[i + 2]) # {} PROVE Rank(s, i) = n
    <3>1. s[k].words = s[i].words
      BY <1>6, <1>7, <2>1, <2>2, NoneInAnother
    <3>2. i = k
      BY <1>5, <2>1, <3>1 DEF NamedOnce
    <3>3. QED
      BY <1>5, <3>2
  <2>3. ASSUME Rank(s, i) = n PROVE p[i + 2] = h
    <3>1. q[n] = s[i]
      BY <1>4, <2>1, <2>3
    <3>2. QED
      BY <1>5, <1>7, <2>1, <3>1
  <2>4. QED
    BY <1>1, <1>2, <1>5, <1>7, <1>8, <1>11, <2>2, <2>3
<1>12. QED
  BY <1>9, <1>10, <1>11

(***************************************************************************)
(* Binding a value puts it where its parameter stands, and nowhere else.   *)
(***************************************************************************)
LEMMA FillsOne ==
  ASSUME NEW s \in Seq(SegmentType), NamedOnce(s), \A i \in DOMAIN s : Plain(s[i].words),
         NEW g \in Seq(Values), Harmless(s, g), Len(g) + 1 \in 1..Len(Params(s)),
         NEW p \in Seq(Seq(Symbols)), Len(p) = Len(s) + 2,
         NEW i \in 1..Len(s), StandsAt(s, p, g, i),
         NEW value \in Values, NEW q,
         q = [j \in DOMAIN p |->
                Replaced(p[j], Placeholder(Params(s)[Len(g) + 1].words), EncodeSegment(value))]
  PROVE  StandsAt(s, q, Append(g, value), i)
<1>1. PICK n : n = Len(g) + 1
  OBVIOUS
<1>2. PICK h : h = Placeholder(Params(s)[n].words)
  OBVIOUS
<1>3. PICK e : e = EncodeSegment(value)
  OBVIOUS
<1>4. PICK r : r = Rank(s, i)
  OBVIOUS
<1>5. PICK f : f = Append(g, value)
  OBVIOUS
<1>6. PICK x : x = p[i + 2]
  OBVIOUS
<1>7. /\ h \in Seq(Symbols) /\ h # <<>>
      /\ IF IsParam(s[i]) /\ r = n THEN x = h ELSE Occurrences(h, x) = {}
  BY <1>1, <1>2, <1>4, <1>6, PlaceholderStands
<1>8. i + 2 \in DOMAIN p /\ x \in Seq(Symbols)
  <2>1. i + 2 \in 1..Len(p) /\ DOMAIN p = 1..Len(p)
    OBVIOUS
  <2>2. QED
    BY <1>6, <2>1
<1>9. q[i + 2] = Replaced(x, h, e)
  BY <1>1, <1>2, <1>3, <1>6, <1>8
<1>10. q[i + 2] = IF IsParam(s[i]) /\ r = n THEN e ELSE x
  <2>1. e \in Seq(Symbols)
    BY <1>3, ValueEncoded
  <2>2. x = h => Replaced(x, h, e) = e
    BY <1>7, <2>1, AllReplaced
  <2>3. Occurrences(h, x) = {} => Replaced(x, h, e) = x
    BY <1>7, <1>8, <2>1, NothingReplaced
  <2>4. QED
    BY <1>7, <1>9, <2>2, <2>3
<1>11. /\ Len(g) \in Nat /\ Len(f) = n /\ f[n] = value
       /\ \A m \in 1..Len(g) : f[m] = g[m]
  BY <1>1, <1>5
<1>12. x = IF IsParam(s[i]) /\ r <= Len(g) THEN EncodeSegment(g[r]) ELSE Rendered(s[i])
  BY <1>4, <1>6 DEF StandsAt
<1>13. IsParam(s[i]) => r \in Nat \ {0}
  <2>1. IsParam(s[i]) => i \in Places(s)
    BY DEF Places
  <2>2. IsParam(s[i]) => r \in 1..Len(Params(s))
    BY <1>4, <2>1, ParamsAreRanked DEF Ranked
  <2>3. Len(Params(s)) \in Nat
    BY ParamsAreRanked DEF Ranked
  <2>4. QED
    BY <2>2, <2>3
<1>14. q[i + 2] = IF IsParam(s[i]) /\ r <= n THEN EncodeSegment(f[r]) ELSE Rendered(s[i])
  <2>1. CASE IsParam(s[i]) /\ r = n
    BY <1>1, <1>3, <1>10, <1>11, <2>1
  <2>2. CASE IsParam(s[i]) /\ r <= Len(g)
    <3>1. r \in 1..Len(g) /\ r # n /\ r <= n
      BY <1>1, <1>11, <1>13, <2>2
    <3>2. q[i + 2] = EncodeSegment(g[r]) /\ f[r] = g[r]
      BY <1>10, <1>11, <1>12, <2>2, <3>1
    <3>3. QED
      BY <2>2, <3>1, <3>2
  <2>3. CASE ~(IsParam(s[i]) /\ r <= n)
    <3>1. ~(IsParam(s[i]) /\ r <= Len(g)) /\ ~(IsParam(s[i]) /\ r = n)
      BY <1>1, <1>11, <1>13, <2>3
    <3>2. q[i + 2] = Rendered(s[i])
      BY <1>10, <1>12, <3>1
    <3>3. QED
      BY <2>3, <3>2
  <2>4. QED
    BY <1>1, <1>11, <1>13, <2>1, <2>2, <2>3
<1>15. QED
  BY <1>4, <1>5, <1>11, <1>14 DEF StandsAt

(***************************************************************************)
(* As many values are given as are no longer to be, and each stands where  *)
(* its parameter does, as long as none is taken for another.               *)
(***************************************************************************)
Bound ==
  pc \in {"bind", "sent"} =>
    /\ Len(given) + Len(unbound) = Len(Params(segments))
    /\ \A m \in 1..Len(unbound) : unbound[m] = Params(segments)[Len(given) + m]
    /\ Len(path) = Len(segments) + 2
    /\ NamedOnce(segments) /\ Harmless(segments, given) =>
         \A i \in 1..Len(segments) : StandsAt(segments, path, given, i)
    /\ pc = "sent" => unbound = <<>>

\* A template as declared: nothing given, every placeholder in its place.
LEMMA DeclareBound ==
  ASSUME TypeOK, Fresh, Declare
  PROVE  Bound'
<1>1. PICK s, ps : s = segments' /\ ps = Params(s)
  OBVIOUS
<1>2. pc = "derive" /\ pc' = "bind" /\ given' = given /\ unbound' = ps
  BY <1>1 DEF Declare
<1>3. given' = <<>> /\ Len(given') = 0
  BY <1>2 DEF Fresh
<1>4. /\ s \in Seq(SegmentType) /\ Len(path') = Len(s) + 2
      /\ \A i \in 1..Len(s) : path'[i + 2] = Rendered(s[i])
  BY <1>1, PathIs
<1>5. /\ ps \in Seq(SegmentType)
      /\ \A i \in Places(s) : Rank(s, i) \in 1..Len(ps)
  BY <1>1, <1>4, ParamsAreRanked DEF Ranked
<1>6. Len(ps) \in Nat
  BY <1>5
<1>7. ASSUME NEW i \in 1..Len(s) PROVE StandsAt(s, path', given', i)
  <2>1. ~(IsParam(s[i]) /\ Rank(s, i) <= 0)
    <3>1. CASE IsParam(s[i])
      <4>1. i \in Places(s)
        BY <1>4, <3>1 DEF Places
      <4>2. QED
        BY <1>5, <1>6, <4>1
    <3>2. QED
      BY <3>1
  <2>2. QED
    BY <1>3, <1>4, <2>1 DEF StandsAt
<1>8. \A m \in 1..Len(ps) : Len(given') + m = m
  BY <1>3, <1>6
<1>9. Len(given') + Len(ps) = Len(ps)
  BY <1>3, <1>6
<1>10. QED
  BY <1>1, <1>2, <1>4, <1>7, <1>8, <1>9 DEF Bound

\* bind: the first placeholder gives way to its value; the others stay.
LEMMA BindNextBound ==
  ASSUME TypeOK, NoBrace, Bound, BindNext
  PROVE  Bound'
<1>1. PICK s, ps : s = segments /\ ps = Params(s)
  OBVIOUS
<1>2. PICK u, g, p : u = unbound /\ g = given /\ p = path
  OBVIOUS
<1>3. /\ pc = "bind" /\ u # <<>> /\ unbound' = Tail(u) /\ pc' = pc /\ segments' = s
  BY <1>1, <1>2 DEF BindNext, reading
<1>4. PICK value \in Values :
        /\ path' = [j \in DOMAIN p |->
                      Replaced(p[j], Placeholder(Head(u).words), EncodeSegment(value))]
        /\ given' = Append(g, value)
  BY <1>2 DEF BindNext
<1>5. u \in Seq(SegmentType) /\ g \in Seq(Values) /\ p \in Seq(Seq(Symbols)) /\ s \in Seq(SegmentType)
  BY <1>1, <1>2 DEF TypeOK
<1>6. /\ Len(g) + Len(u) = Len(ps) /\ \A m \in 1..Len(u) : u[m] = ps[Len(g) + m]
      /\ Len(p) = Len(s) + 2
      /\ NamedOnce(s) /\ Harmless(s, g) => \A i \in 1..Len(s) : StandsAt(s, p, g, i)
  BY <1>1, <1>2, <1>3 DEF Bound
<1>7. /\ Len(u) \in Nat \ {0} /\ Len(g) \in Nat /\ Head(u) = u[1]
      /\ Len(Tail(u)) = Len(u) - 1 /\ \A m \in 1..Len(u) - 1 : Tail(u)[m] = u[m + 1]
  BY <1>3, <1>5
<1>8. Head(u) = ps[Len(g) + 1] /\ Len(g) + 1 \in 1..Len(ps)
  BY <1>6, <1>7
<1>9. Len(given') = Len(g) + 1
  BY <1>4, <1>5
<1>10. Len(given') + Len(unbound') = Len(ps)
  BY <1>3, <1>6, <1>7, <1>9
<1>11. ASSUME NEW m \in 1..Len(unbound') PROVE unbound'[m] = ps[Len(given') + m]
  <2>1. m \in 1..Len(u) - 1 /\ m + 1 \in 1..Len(u) /\ Len(g) + (m + 1) = Len(g) + 1 + m
    BY <1>3, <1>7
  <2>2. unbound'[m] = ps[Len(g) + (m + 1)]
    BY <1>3, <1>6, <1>7, <2>1
  <2>3. QED
    BY <1>9, <2>1, <2>2
<1>12. Len(path') = Len(s) + 2
  BY <1>4, <1>5, <1>6
<1>13. ASSUME NamedOnce(s), Harmless(s, given'), NEW i \in 1..Len(s)
       PROVE  StandsAt(s, path', given', i)
  <2>1. Harmless(s, g) /\ StandsAt(s, p, g, i)
    <3>1. Harmless(s, g)
      BY <1>4, <1>5, <1>13, HarmlessBefore
    <3>2. QED
      BY <1>6, <1>13, <3>1
  <2>2. \A j \in DOMAIN s : Plain(s[j].words)
    BY <1>1 DEF NoBrace
  <2>3. Len(g) + 1 \in 1..Len(Params(s))
    BY <1>1, <1>8
  <2>4. path' = [j \in DOMAIN p |->
                   Replaced(p[j], Placeholder(Params(s)[Len(g) + 1].words), EncodeSegment(value))]
    BY <1>1, <1>4, <1>8
  <2>5. StandsAt(s, path', Append(g, value), i)
    BY <1>5, <1>6, <1>13, <2>1, <2>2, <2>3, <2>4, FillsOne
  <2>6. QED
    BY <1>4, <2>5
<1>14. QED
  BY <1>1, <1>3, <1>10, <1>11, <1>12, <1>13 DEF Bound

\* Every step keeps the places of what is bound and what is not.
LEMMA StepBound ==
  ASSUME TypeOK, Fresh, NoBrace, Bound, [Next]_vars
  PROVE  Bound'
<1>1. CASE Parse \/ TakeParam \/ TakeWord
  <2>1. pc' \notin {"bind", "sent"}
    BY <1>1 DEF Parse, TakeParam, TakeWord, More
  <2>2. QED
    BY <2>1 DEF Bound
<1>2. CASE Declare
  BY <1>2, DeclareBound
<1>3. CASE BindNext
  BY <1>3, BindNextBound
<1>4. CASE Send
  <2>1. /\ pc = "bind" /\ unbound = <<>> /\ unbound' = unbound /\ given' = given /\ path' = path
        /\ segments' = segments
    BY <1>4 DEF Send, reading, binding
  <2>2. QED
    BY <2>1 DEF Bound
<1>5. CASE UNCHANGED vars
  BY <1>5 DEF vars, reading, binding, Bound
<1>6. QED
  BY <1>1, <1>2, <1>3, <1>4, <1>5 DEF Next

(***************************************************************************)
(* Once nothing is unbound, what stands at each place is what was given:   *)
(* none of the values spells a placeholder that comes after its own.       *)
(***************************************************************************)
LEMMA BoundInPlace ==
  ASSUME TypeOK, NoBrace, Bound
  PROVE  ValuesKeepTheirPlace
<1> SUFFICES ASSUME pc = "sent", BoundOnce, NoneSpellsALater
             PROVE  /\ Len(path) = Len(segments) + 2
                    /\ \A i \in DOMAIN segments :
                         IF IsParam(segments[i])
                         THEN /\ {v \in Values : EncodeSegment(v) = path[i + 2]} = {given[Nth(i)]}
                              /\ ToSet(path[i + 2]) \cap {"/", "?", "#", " "} = {}
                         ELSE path[i + 2] = segments[i].words
  BY DEF ValuesKeepTheirPlace, InPlace
<1>1. PICK s : s = segments
  OBVIOUS
<1>2. PICK g : g = given
  OBVIOUS
<1>3. s \in Seq(SegmentType) /\ g \in Seq(Values) /\ DOMAIN s = 1..Len(s)
  BY <1>1, <1>2 DEF TypeOK
<1>4. NamedOnce(s)
  BY <1>1 DEF BoundOnce, NamedOnce, ParamsAt, Places
<1>5. Harmless(s, g)
  <2>1. ParamsAt = Places(s) /\ \A i : Nth(i) = Rank(s, i)
    BY <1>1 DEF Nth, ParamsAt, Rank, Places
  <2>2. QED
    BY <1>1, <1>2, <2>1 DEF Harmless, NoneSpellsALater
<1>6. /\ Len(g) + Len(unbound) = Len(Params(s)) /\ unbound = <<>> /\ Len(path) = Len(s) + 2
      /\ \A i \in 1..Len(s) : StandsAt(s, path, g, i)
  BY <1>1, <1>2, <1>4, <1>5 DEF Bound
<1>7. Len(g) = Len(Params(s)) /\ Len(g) \in Nat
  BY <1>3, <1>6
<1>8. ASSUME NEW i \in DOMAIN s, IsParam(s[i])
      PROVE  /\ {v \in Values : EncodeSegment(v) = path[i + 2]} = {g[Nth(i)]}
             /\ ToSet(path[i + 2]) \cap {"/", "?", "#", " "} = {}
  <2>1. PICK r : r = Rank(s, i)
    OBVIOUS
  <2>2. Nth(i) = r
    BY <1>1, <2>1 DEF Nth, ParamsAt, Rank, Places
  <2>3. i \in Places(s)
    BY <1>8 DEF Places
  <2>4. r \in 1..Len(g)
    BY <1>3, <1>7, <2>1, <2>3, ParamsAreRanked DEF Ranked
  <2>5. PICK value \in Values : value = g[r]
    BY <1>3, <2>4
  <2>6. PICK e : e = path[i + 2]
    OBVIOUS
  <2>7. e = EncodeSegment(value)
    BY <1>3, <1>6, <1>7, <1>8, <2>1, <2>4, <2>5, <2>6 DEF StandsAt
  <2>8. ASSUME NEW v \in Values, EncodeSegment(v) = e PROVE v = value
    <3>1. v \in Seq(Symbols) /\ value \in Seq(Symbols) /\ Escapes \subseteq Symbols
      BY ValueIs, SymbolsAre
    <3>2. EncodeSegment(v) = EncodeSegment(value)
      BY <2>7, <2>8
    <3>3. QED
      BY <3>1, <3>2, EncodeInjective
  <2>9. {v \in Values : EncodeSegment(v) = e} = {value}
    BY <2>7, <2>8
  <2>10. \A k \in DOMAIN e : e[k] \notin Cuts
    BY <2>7, ValueEncoded
  <2>11. ToSet(e) \cap Cuts = {}
    BY <2>10 DEF ToSet
  <2>12. Cuts = {"/", "?", "#", " "}
    BY DEF Cuts
  <2>13. QED
    BY <2>2, <2>5, <2>6, <2>9, <2>11, <2>12
<1>9. ASSUME NEW i \in DOMAIN s, ~IsParam(s[i]) PROVE path[i + 2] = s[i].words
  BY <1>3, <1>6, <1>9 DEF StandsAt, Rendered
<1>10. QED
  BY <1>1, <1>2, <1>6, <1>8, <1>9

(***************************************************************************)
(* A request reaches the route its endpoint names with the values it was   *)
(* given, each in its own segment, for any values and any number of        *)
(* parameters, as long as no value spells the placeholder of a parameter   *)
(* bound after it: none is lost in its encoding, none cuts the path, and   *)
(* none is written over (Route::bind, encode_segment).                     *)
(***************************************************************************)
THEOREM ValuesStayInPlace == Spec => []ValuesKeepTheirPlace
<1>1. Init => TypeOK /\ Fresh /\ NoBrace /\ Bound
  BY InitTyped, InitNoBrace DEF Init, Bound
<1>2. TypeOK /\ Fresh /\ NoBrace /\ Bound /\ [Next]_vars
        => (TypeOK /\ Fresh /\ NoBrace /\ Bound)'
  BY StepTyped, StepNoBrace, StepBound
<1>3. TypeOK /\ NoBrace /\ Bound => ValuesKeepTheirPlace
  BY BoundInPlace
<1>4. QED
  BY <1>1, <1>2, <1>3, PTL DEF Spec

-----------------------------------------------------------------------------
(***************************************************************************)
(* What has been read of a name.                                           *)
(***************************************************************************)

(***************************************************************************)
(* Segment by segment.                                                     *)
(***************************************************************************)
LEMMA SpellAppend ==
  ASSUME NEW s \in Seq(SegmentType), NEW x \in SegmentType
  PROVE  /\ Spell(s) \in Seq(Symbols)
         /\ Spell(Append(s, x)) = Spell(s) \o Spelling(x)
<1> DEFINE t == Append(s, x)
           parts == [i \in DOMAIN s |-> Spelling(s[i])]
           more == [i \in DOMAIN t |-> Spelling(t[i])]
           n == Len(s)
<1>1. n \in Nat /\ DOMAIN s = 1..n /\ \A i \in 1..n : s[i] \in SegmentType
  OBVIOUS
<1>2. DOMAIN t = 1..n + 1 /\ t[n + 1] = x /\ \A i \in 1..n : t[i] = s[i]
  OBVIOUS
<1> HIDE DEF t
<1>3. Spelling(x) \in Seq(Symbols) /\ \A i \in 1..n : Spelling(s[i]) \in Seq(Symbols)
  BY <1>1, SegmentHasWords
<1>4. parts \in Seq(Seq(Symbols)) /\ Len(parts) = n
  BY <1>1, <1>3
<1>5. more = Append(parts, Spelling(x))
  <2> HIDE DEF n
  <2>1. more = [i \in 1..n + 1 |-> IF i = n + 1 THEN Spelling(x) ELSE parts[i]]
    <3>1. \A i \in 1..n + 1 : i # n + 1 => i \in 1..n
      BY <1>1
    <3>2. \A i \in 1..n + 1 : Spelling(t[i]) = IF i = n + 1 THEN Spelling(x) ELSE parts[i]
      BY <1>1, <1>2, <3>1
    <3>3. QED
      BY <1>2, <3>2
  <2> HIDE DEF parts, more
  <2>2. QED
    BY <1>1, <1>3, <1>4, <2>1
<1> HIDE DEF parts, more
<1>6. /\ FlattenSeq(parts) \in Seq(Symbols)
      /\ FlattenSeq(Append(parts, Spelling(x))) = FlattenSeq(parts) \o Spelling(x)
  BY <1>3, <1>4, FlattenAppend
<1>7. QED
  BY <1>5, <1>6 DEF Spell, parts, more, t

\* No segments spell nothing.
LEMMA SpellNothing == Spell(<<>>) = <<>>
<1>1. [i \in DOMAIN <<>> |-> Spelling(<<>>[i])] = <<>>
  OBVIOUS
<1>2. FlattenSeq(<<>>) = <<>>
  BY DEF FlattenSeq
<1>3. QED
  BY <1>1, <1>2 DEF Spell

\* What segments spell is a sequence of symbols.
LEMMA SpellIs ==
  ASSUME NEW s \in Seq(SegmentType)
  PROVE  Spell(s) \in Seq(Symbols)
<1>1. CASE s = <<>>
  <2>1. <<>> \in Seq(Symbols)
    OBVIOUS
  <2>2. QED
    BY <1>1, <2>1, SpellNothing
<1>2. CASE s # <<>>
  <2>1. PICK w \in Seq(SegmentType), x \in SegmentType : s = Append(w, x)
    BY <1>2, LastApart
  <2>2. Spell(w) \in Seq(Symbols) /\ Spell(s) = Spell(w) \o Spelling(x)
    BY <2>1, SpellAppend
  <2>3. Spelling(x) \in Seq(Symbols)
    BY SegmentHasWords
  <2>4. QED
    BY <2>2, <2>3
<1>3. QED
  BY <1>1, <1>2

(***************************************************************************)
(* The words that wait are spelled as they are.                            *)
(***************************************************************************)
LEMMA FlushedSpells ==
  ASSUME TypeOK
  PROVE  Spell(Flushed) = Spell(segments) \o run /\ Spell(segments) \in Seq(Symbols)
<1>1. run \in Seq(Symbols) /\ segments \in Seq(SegmentType)
  BY DEF TypeOK
<1>2. Spell(segments) \in Seq(Symbols)
  BY <1>1, SpellIs
<1>3. CASE run = <<>>
  BY <1>2, <1>3 DEF Flushed
<1>4. CASE run # <<>>
  <2>1. PICK l : l = Literal(run)
    OBVIOUS
  <2>2. l \in SegmentType /\ Spelling(l) = run
    BY <1>1, <2>1, LiteralIs DEF Spelling
  <2>3. Flushed = Append(segments, l)
    BY <1>4, <2>1 DEF Flushed
  <2>4. QED
    BY <1>1, <1>2, <2>2, <2>3, SpellAppend
<1>5. QED
  BY <1>2, <1>3, <1>4

(***************************************************************************)
(* Joining to what is one longer is joining, then one more.                *)
(***************************************************************************)
LEMMA JoinAppend ==
  ASSUME NEW S, NEW a \in Seq(S), NEW r \in Seq(S), NEW x \in S
  PROVE  a \o Append(r, x) = Append(a \o r, x)
OBVIOUS

\* Two neighbouring parts are one.
LEMMA BeginningJoins ==
  ASSUME NEW S, NEW s \in Seq(S), NEW p \in Nat, NEW n \in Nat, p + n <= Len(s)
  PROVE  SubSeq(s, 1, p) \o SubSeq(s, p + 1, p + n) = SubSeq(s, 1, p + n)
<1>1. 1 \in 1..Len(s) + 1 /\ p \in 1 - 1..Len(s) /\ p + n \in p..Len(s)
  OBVIOUS
<1>2. QED
  BY <1>1, ConcatAdjacentSubSeq

(***************************************************************************)
(* The reading of a name: verb, namespace, version and rest are its parts, *)
(* and the segments and the words that wait spell the rest so far.         *)
(***************************************************************************)
ParsedOf(name, p) ==
  LET v == NamespaceEnd(name) IN
  /\ VersionsAt(name) # {} /\ name[1] \in Verbs /\ name[v] \in Fitting
  /\ p = [verb |-> name[1], namespace |-> SubSeq(name, 2, v - 1),
          version |-> name[v], rest |-> SubSeq(name, v + 1, Len(name))]

Refused(name) ==
  \A v \in DOMAIN name :
    (v > 2 /\ name[1] \in Verbs /\ name[v] \in Versions) =>
      \E u \in 3..v : name[u] \in Versions \ Fitting

ReadSoFar ==
  /\ pc \in {"derive", "bind", "sent", "panicked"} =>
       /\ ParsedOf(fn.name, parsed)
       /\ Spell(segments) \o run = SubSeq(parsed.rest, 1, at - 1)
  /\ pc = "none" => Refused(fn.name)

\* A name parse does not take: no verb first, or no version that fits.
LEMMA RefusedIs ==
  ASSUME NEW S, NEW name \in Seq(S),
         ~(Len(name) > 1 /\ name[1] \in Verbs /\ VersionsAt(name) # {}
             /\ name[NamespaceEnd(name)] \in Fitting)
  PROVE  Refused(name)
<1> SUFFICES ASSUME NEW v \in DOMAIN name, v > 2, name[1] \in Verbs, name[v] \in Versions
             PROVE  \E u \in 3..v : name[u] \in Versions \ Fitting
  BY DEF Refused
<1>1. v \in VersionsAt(name) /\ v \in 1..Len(name) /\ Len(name) \in Nat
  BY DEF VersionsAt
<1>2. PICK u : u = NamespaceEnd(name)
  OBVIOUS
<1>3. u \in VersionsAt(name) /\ u <= v
  BY <1>1, <1>2, NamespaceEndIs
<1>4. u \in 3..v /\ name[u] \in Versions
  BY <1>1, <1>3 DEF VersionsAt
<1>5. name[u] \notin Fitting
  BY <1>1, <1>2
<1>6. QED
  BY <1>4, <1>5

\* parse: the name is taken apart, or refused.
LEMMA ParseReads ==
  ASSUME TypeOK, Fresh, Parse
  PROVE  ReadSoFar'
<1>1. /\ pc = "parse" /\ fn' = fn /\ at' = at /\ run' = run /\ segments' = segments
      /\ at = 1 /\ run = <<>> /\ segments = <<>>
  BY DEF Parse, Fresh
<1>2. fn.name \in Seq(Symbols)
  BY FunctionIs DEF TypeOK
<1>3. CASE pc' = "none"
  <2>1. ~(Len(fn.name) > 1 /\ fn.name[1] \in Verbs /\ VersionsAt(fn.name) # {}
             /\ fn.name[NamespaceEnd(fn.name)] \in Fitting)
    BY <1>3 DEF Parse
  <2>2. Refused(fn.name)
    BY <1>2, <2>1, RefusedIs
  <2>3. QED
    BY <1>1, <1>3, <2>2 DEF ReadSoFar
<1>4. CASE pc' = "derive"
  <2>1. ParsedOf(fn.name, parsed') /\ parsed'.rest \in Seq(Symbols)
    BY <1>1, <1>4, ReadingIs DEF ParsedOf
  <2>2. SubSeq(parsed'.rest, 1, 0) = <<>>
    BY <2>1
  <2>3. Spell(<<>>) \o <<>> = <<>>
    BY SpellNothing
  <2>4. Spell(segments') \o run' = SubSeq(parsed'.rest, 1, at' - 1)
    <3>1. segments' = <<>> /\ run' = <<>> /\ at' = 1
      BY <1>1
    <3>2. at' - 1 = 0
      BY <3>1
    <3>3. QED
      BY <2>2, <2>3, <3>1, <3>2
  <2>5. QED
    BY <1>1, <1>4, <2>1, <2>4 DEF ReadSoFar
<1>5. QED
  BY <1>3, <1>4 DEF Parse

\* derive: a parameter spells the "By" and the argument it was read from.
LEMMA TakeParamReads ==
  ASSUME TypeOK, ReadSoFar, TakeParam
  PROVE  ReadSoFar'
<1>1. PICK arg : arg = fn.args[Matched(at)]
  OBVIOUS
<1>2. /\ pc = "derive" /\ pc' = "derive" /\ fn' = fn /\ parsed' = parsed /\ run' = <<>>
      /\ segments' = Append(Flushed, Param(arg)) /\ at' = at + 1 + Len(arg.words)
  BY <1>1 DEF TakeParam, More
<1>3. /\ arg \in ArgType /\ Len(arg.words) \in Nat /\ at + Len(arg.words) <= Len(parsed.rest)
      /\ parsed.rest \in Seq(Symbols) /\ at \in Nat \ {0} /\ parsed.rest[at] = "by"
      /\ SubSeq(parsed.rest, at + 1, at + Len(arg.words)) = arg.words
  BY <1>1, TakenIs
<1>4. PICK rest, n, w : rest = parsed.rest /\ n = Len(arg.words) /\ w = arg.words
  OBVIOUS
<1>5. PICK f, p, x : f = Flushed /\ p = Param(arg) /\ x = rest[at]
  OBVIOUS
<1>6. /\ rest \in Seq(Symbols) /\ at \in Nat \ {0} /\ n \in Nat /\ at + n <= Len(rest)
      /\ Len(rest) \in Nat /\ w = SubSeq(rest, at + 1, at + n)
  BY <1>3, <1>4
<1>7. w \in Seq(Symbols) /\ x \in Symbols
  <2>1. w \in Seq(Symbols)
    BY <1>3, <1>4 DEF ArgType
  <2>2. at \in 1..Len(rest)
    BY <1>6
  <2>3. QED
    BY <1>5, <1>6, <2>1, <2>2
<1>8. f \in Seq(SegmentType) /\ p \in SegmentType
  BY <1>3, <1>5, FlushedIs, ParamIs
<1>9. Spelling(p) = <<x>> \o w
  BY <1>3, <1>4, <1>5, ParamIs DEF Spelling
<1>10. Spell(f) = SubSeq(rest, 1, at - 1)
  BY <1>2, <1>4, <1>5, FlushedSpells DEF ReadSoFar
<1>11. Spell(segments') = Spell(f) \o Spelling(p)
  BY <1>2, <1>5, <1>8, SpellAppend
<1>12. SubSeq(rest, 1, at) = Append(SubSeq(rest, 1, at - 1), x) /\ SubSeq(rest, 1, at - 1) \in Seq(Symbols)
  <2>1. at <= Len(rest)
    BY <1>6
  <2>2. QED
    BY <1>5, <1>6, <2>1, BeginningGrows
<1>13. SubSeq(rest, 1, at) \o w = SubSeq(rest, 1, at + n)
  BY <1>6, BeginningJoins
<1>14. PICK b : b = SubSeq(rest, 1, at - 1)
  OBVIOUS
<1>15. b \o (<<x>> \o w) = Append(b, x) \o w /\ b \o (<<x>> \o w) \in Seq(Symbols)
  <2>1. b \in Seq(Symbols)
    BY <1>12, <1>14
  <2>2. QED
    BY <1>7, <2>1
<1>16. Spell(segments') = SubSeq(rest, 1, at + n) /\ Spell(segments') \in Seq(Symbols)
  BY <1>9, <1>10, <1>11, <1>12, <1>13, <1>14, <1>15
<1>17. at' - 1 = at + n
  <2>1. at' = at + 1 + n
    BY <1>2, <1>4
  <2>2. QED
    BY <1>6, <2>1
<1>18. Spell(segments') \o run' = SubSeq(parsed'.rest, 1, at' - 1)
  BY <1>2, <1>4, <1>16, <1>17
<1>19. QED
  BY <1>2, <1>18 DEF ReadSoFar

\* derive: a word goes to the end of the run.
LEMMA TakeWordReads ==
  ASSUME TypeOK, ReadSoFar, TakeWord
  PROVE  ReadSoFar'
<1>1. PICK rest, x : rest = parsed.rest /\ x = rest[at]
  OBVIOUS
<1>2. /\ pc = "derive" /\ pc' = "derive" /\ fn' = fn /\ parsed' = parsed /\ segments' = segments
      /\ run' = Append(run, x) /\ at' = at + 1 /\ at <= Len(rest)
  BY <1>1 DEF TakeWord, More
<1>3. rest \in Seq(Symbols) /\ at \in 1..Len(rest) + 1 /\ run \in Seq(Symbols)
  BY <1>1 DEF TypeOK, ParsedType
<1>4. Len(rest) \in Nat /\ at \in Nat \ {0} /\ at \in 1..Len(rest)
  BY <1>2, <1>3
<1>5. x \in Symbols
  BY <1>1, <1>3, <1>4
<1>6. PICK a : a = Spell(segments)
  OBVIOUS
<1>7. a \in Seq(Symbols) /\ a \o run = SubSeq(rest, 1, at - 1)
  BY <1>1, <1>2, <1>6, FlushedSpells DEF ReadSoFar
<1>8. a \o Append(run, x) = Append(a \o run, x)
  <2>1. a \in Seq(Symbols) /\ run \in Seq(Symbols) /\ x \in Symbols
    BY <1>3, <1>5, <1>7
  <2>2. QED
    BY ONLY <2>1, JoinAppend
<1>9. SubSeq(rest, 1, at) = Append(SubSeq(rest, 1, at - 1), x)
  BY <1>1, <1>2, <1>3, <1>4, BeginningGrows
<1>10. at' - 1 = at
  BY <1>2, <1>4
<1>11. Spell(segments') \o run' = SubSeq(parsed'.rest, 1, at' - 1)
  BY <1>1, <1>2, <1>6, <1>7, <1>8, <1>9, <1>10
<1>12. QED
  BY <1>2, <1>11 DEF ReadSoFar

\* derive: flushing changes nothing that is spelled.
LEMMA DeclareReads ==
  ASSUME TypeOK, ReadSoFar, Declare
  PROVE  ReadSoFar'
<1>1. /\ pc = "derive" /\ pc' = "bind" /\ fn' = fn /\ parsed' = parsed /\ at' = at
      /\ run' = <<>> /\ segments' = Flushed
  BY DEF Declare
<1>2. Spell(Flushed) = SubSeq(parsed.rest, 1, at - 1)
  BY <1>1, FlushedSpells DEF ReadSoFar
<1>3. Spell(Flushed) \in Seq(Symbols)
  BY FlushedIs, SpellIs
<1>4. Spell(segments') \o run' = SubSeq(parsed'.rest, 1, at' - 1)
  BY <1>1, <1>2, <1>3
<1>5. QED
  BY <1>1, <1>4 DEF ReadSoFar

\* Every step keeps what was read a beginning of the rest.
LEMMA StepReads ==
  ASSUME TypeOK, Fresh, ReadSoFar, [Next]_vars
  PROVE  ReadSoFar'
<1>1. CASE Parse
  BY <1>1, ParseReads
<1>2. CASE TakeParam
  BY <1>2, TakeParamReads
<1>3. CASE TakeWord
  BY <1>3, TakeWordReads
<1>4. CASE Declare
  BY <1>4, DeclareReads
<1>5. CASE BindNext \/ Send \/ UNCHANGED vars
  BY <1>5 DEF BindNext, Send, vars, reading, ReadSoFar
<1>6. QED
  BY <1>1, <1>2, <1>3, <1>4, <1>5 DEF Next

(***************************************************************************)
(* The parts of a name, put together.                                      *)
(***************************************************************************)
LEMMA PartsOfName ==
  ASSUME NEW name \in Seq(Symbols), NEW p, ParsedOf(name, p)
  PROVE  LET v == NamespaceEnd(name)
             head == <<p.verb>> \o p.namespace \o <<p.version>>
         IN /\ v \in 3..Len(name) /\ \A u \in VersionsAt(name) : v <= u
            /\ head = SubSeq(name, 1, v) /\ Len(head) = v
            /\ p.rest = SubSeq(name, v + 1, Len(name))
            /\ p.rest \in Seq(Symbols) /\ Len(p.rest) = Len(name) - v
<1>1. PICK v : v = NamespaceEnd(name)
  OBVIOUS
<1>2. /\ VersionsAt(name) # {}
      /\ p = [verb |-> name[1], namespace |-> SubSeq(name, 2, v - 1),
              version |-> name[v], rest |-> SubSeq(name, v + 1, Len(name))]
  BY <1>1 DEF ParsedOf
<1>3. v \in VersionsAt(name) /\ \A u \in VersionsAt(name) : v <= u
  BY <1>1, <1>2, NamespaceEndIs
<1>4. v \in 3..Len(name) /\ Len(name) \in Nat
  BY <1>3 DEF VersionsAt
<1>5. PICK n : n = SubSeq(name, 2, v - 1)
  OBVIOUS
<1>6. name[1] \in Symbols /\ name[v] \in Symbols
  BY <1>4
<1>7. n \in Seq(Symbols) /\ Len(n) = v - 2 /\ \A i \in 1..v - 2 : n[i] = name[i + 1]
  BY <1>4, <1>5
<1>8. PICK x, y : x = name[1] /\ y = name[v]
  OBVIOUS
<1>9. PICK h : h = <<x>> \o n \o <<y>>
  OBVIOUS
<1>10. /\ h \in Seq(Symbols) /\ Len(h) = Len(n) + 2 /\ h[1] = x /\ h[Len(n) + 2] = y
       /\ \A i \in 1..Len(n) : h[i + 1] = n[i]
  <2>1. n \in Seq(Symbols) /\ x \in Symbols /\ y \in Symbols
    BY <1>6, <1>7, <1>8
  <2>2. QED
    BY <1>9, <2>1, Bracketed
<1>11. PICK b : b = SubSeq(name, 1, v)
  OBVIOUS
<1>12. b \in Seq(Symbols) /\ Len(b) = v /\ \A i \in 1..v : b[i] = name[i]
  BY <1>4, <1>11
<1>13. Len(h) = v
  BY <1>4, <1>7, <1>10
<1>14. ASSUME NEW i \in 1..v PROVE h[i] = b[i]
  <2>1. CASE i = 1
    BY <1>8, <1>10, <1>12, <2>1
  <2>2. CASE i = v
    BY <1>4, <1>7, <1>8, <1>10, <1>12, <2>2
  <2>3. CASE i # 1 /\ i # v
    <3>1. PICK k \in 1..v - 2 : i = k + 1
      <4>1. i - 1 \in 1..v - 2 /\ i = (i - 1) + 1
        BY <1>4, <2>3
      <4>2. QED
        BY <4>1
    <3>2. h[i] = n[k]
      BY <1>7, <1>10, <3>1
    <3>3. n[k] = name[i]
      BY <1>7, <3>1
    <3>4. QED
      BY <1>12, <3>2, <3>3
  <2>4. QED
    BY <2>1, <2>2, <2>3
<1>15. h = b
  BY <1>10, <1>12, <1>13, <1>14, SeqEqual
<1>16. /\ SubSeq(name, v + 1, Len(name)) \in Seq(Symbols)
       /\ Len(SubSeq(name, v + 1, Len(name))) = Len(name) - v
  BY <1>4
<1>17. <<p.verb>> \o p.namespace \o <<p.version>> = h /\ p.rest = SubSeq(name, v + 1, Len(name))
  BY <1>2, <1>5, <1>8, <1>9
<1>18. QED
  BY <1>1, <1>3, <1>4, <1>11, <1>13, <1>15, <1>16, <1>17

\* Declared, the parts spell the whole name again.
LEMMA ReadBack ==
  ASSUME TypeOK, ReadSoFar
  PROVE  NameIsReadBack
<1>1. pc \in {"parse", "none", "derive", "bind", "sent", "panicked"}
  BY DEF TypeOK
<1>2. CASE pc = "parse"
  BY <1>2 DEF NameIsReadBack
<1>3. CASE pc = "none"
  <2>1. Refused(fn.name)
    BY <1>3 DEF ReadSoFar
  <2>2. QED
    BY <1>3, <2>1 DEF NameIsReadBack, Refused
<1>4. CASE pc \in {"derive", "bind", "sent", "panicked"}
  <2>1. PICK name, p : name = fn.name /\ p = parsed
    OBVIOUS
  <2>2. PICK body : body = Spell(segments) \o run
    OBVIOUS
  <2>3. PICK head : head = <<p.verb>> \o p.namespace \o <<p.version>>
    OBVIOUS
  <2>4. PICK v : v = NamespaceEnd(name)
    OBVIOUS
  <2>5. name \in Seq(Symbols) /\ ParsedOf(name, p) /\ body = SubSeq(p.rest, 1, at - 1)
    BY <1>4, <2>1, <2>2, FunctionIs DEF TypeOK, ReadSoFar
  <2>6. /\ v \in 3..Len(name) /\ \A u \in VersionsAt(name) : v <= u
        /\ head = SubSeq(name, 1, v) /\ Len(head) = v
        /\ p.rest = SubSeq(name, v + 1, Len(name))
        /\ p.rest \in Seq(Symbols) /\ Len(p.rest) = Len(name) - v
    BY <2>3, <2>4, <2>5, PartsOfName
  <2>7. at \in 1..Len(p.rest) + 1
    BY <2>1 DEF TypeOK
  <2>8. PICK n : n = at - 1
    OBVIOUS
  <2>9. Len(name) \in Nat /\ v \in Nat /\ n \in Nat /\ v + n <= Len(name) /\ n <= Len(p.rest)
    BY <2>5, <2>6, <2>7, <2>8
  <2>10. body = SubSeq(name, v + 1, v + n)
    <3>1. PICK c : c = SubSeq(name, v + 1, v + n)
      OBVIOUS
    <3>2. c \in Seq(Symbols) /\ Len(c) = n /\ \A i \in 1..n : c[i] = name[v + i]
      <4>1. PICK m : m = v + n
        OBVIOUS
      <4>2. m \in Nat /\ v + 1 \in Nat /\ 1 <= v + 1 /\ m <= Len(name)
        BY <2>9, <4>1
      <4>3. /\ c \in Seq(Symbols) /\ Len(c) = IF v + 1 <= m THEN m - (v + 1) + 1 ELSE 0
            /\ \A i \in 1..Len(c) : c[i] = name[(v + 1) + i - 1]
        BY <2>5, <3>1, <4>1, <4>2, PartOf
      <4>4. Len(c) = n
        BY <2>9, <4>1, <4>3
      <4>5. ASSUME NEW i \in 1..n PROVE c[i] = name[v + i]
        <5>1. (v + 1) + i - 1 = v + i
          BY <2>9
        <5>2. QED
          BY <4>3, <4>4, <5>1
      <4>6. QED
        BY <4>3, <4>4, <4>5
    <3>3. PICK r : r = p.rest
      OBVIOUS
    <3>4. r \in Seq(Symbols) /\ Len(r) = Len(name) - v /\ \A i \in 1..Len(r) : r[i] = name[v + i]
      BY <2>5, <2>6, <2>9, <3>3
    <3>5. body \in Seq(Symbols) /\ Len(body) = n /\ \A i \in 1..n : body[i] = r[i]
      BY <2>5, <2>8, <2>9, <3>3, <3>4
    <3>6. \A i \in 1..n : i \in 1..Len(r)
      BY <2>9, <3>3
    <3>7. \A i \in 1..n : body[i] = c[i]
      BY <3>2, <3>4, <3>5, <3>6
    <3>8. body = c
      BY <3>2, <3>5, <3>7, SeqEqual
    <3>9. QED
      BY <3>1, <3>8
  <2>11. head \o body = SubSeq(name, 1, v + n)
    <3>1. name \in Seq(Symbols) /\ v \in Nat /\ n \in Nat /\ v + n <= Len(name)
      BY <2>5, <2>9
    <3>2. SubSeq(name, 1, v) \o SubSeq(name, v + 1, v + n) = SubSeq(name, 1, v + n)
      BY ONLY <3>1, BeginningJoins
    <3>3. head = SubSeq(name, 1, v)
      BY <2>6
    <3>4. QED
      BY <2>10, <3>2, <3>3
  <2>12. head \o body = SubSeq(name, 1, Len(head) + at - 1)
    <3>1. Len(head) + at - 1 = v + n
      BY <2>6, <2>7, <2>8, <2>9
    <3>2. QED
      BY <2>11, <3>1
  <2>13. PICK ns : ns = p.namespace
    OBVIOUS
  <2>14. ns = SubSeq(name, 2, v - 1)
    BY <2>4, <2>5, <2>13 DEF ParsedOf
  <2>15. ns \in Seq(Symbols) /\ Len(ns) = v - 2 /\ \A i \in 1..v - 2 : ns[i] = name[i + 1]
    BY <2>5, <2>6, <2>9, <2>14
  <2>16. ns # <<>>
    BY <2>6, <2>15
  <2>17. ToSet(Tail(ns)) \cap Versions = {}
    <3>1. /\ Tail(ns) \in Seq(Symbols) /\ Len(Tail(ns)) = v - 3
          /\ \A i \in 1..v - 3 : Tail(ns)[i] = ns[i + 1]
      BY <2>6, <2>15, <2>16
    <3>2. ASSUME NEW i \in 1..v - 3 PROVE Tail(ns)[i] \notin Versions
      <4>1. i + 1 \in 1..v - 2 /\ i + 2 \in 1..Len(name) /\ i + 2 > 2 /\ ~(v <= i + 2)
            /\ (i + 1) + 1 = i + 2
        BY <2>6, <2>9
      <4>2. Tail(ns)[i] = name[i + 2]
        BY <2>15, <3>1, <4>1
      <4>3. i + 2 \notin VersionsAt(name)
        BY <2>6, <4>1
      <4>4. i + 2 \in DOMAIN name
        BY <2>5, <4>1
      <4>5. QED
        BY <4>1, <4>2, <4>3, <4>4 DEF VersionsAt
    <3>3. DOMAIN Tail(ns) = 1..v - 3
      BY <3>1
    <3>4. QED
      BY <3>2, <3>3 DEF ToSet
  <2>18. pc # "parse" /\ pc # "none"
    BY <1>4
  <2>19. QED
    BY <2>1, <2>2, <2>3, <2>12, <2>13, <2>16, <2>17, <2>18 DEF NameIsReadBack
<1>5. QED
  BY <1>1, <1>2, <1>3, <1>4

(***************************************************************************)
(* Nothing of a name is lost, added or put elsewhere, for any name and any *)
(* arguments, and one is refused only where no verb, namespace and version *)
(* can be read (parse_function, derive_segments).                          *)
(***************************************************************************)
THEOREM NamesAreReadBack == Spec => []NameIsReadBack
<1>1. Init => TypeOK /\ Fresh /\ ReadSoFar
  BY InitTyped DEF Init, ReadSoFar
<1>2. TypeOK /\ Fresh /\ ReadSoFar /\ [Next]_vars => (TypeOK /\ Fresh /\ ReadSoFar)'
  BY StepTyped, StepReads
<1>3. TypeOK /\ ReadSoFar => NameIsReadBack
  BY ReadBack
<1>4. QED
  BY <1>1, <1>2, <1>3, PTL DEF Spec

-----------------------------------------------------------------------------
(***************************************************************************)
(* Where the segments of a template stand in its spelling.                 *)
(***************************************************************************)

(***************************************************************************)
(* A segment begins where the one before ends.                             *)
(***************************************************************************)
LEMMA StartNext ==
  ASSUME NEW t \in Seq(SegmentType), NEW i \in 1..Len(t)
  PROVE  /\ Start(t, i) \in Nat \ {0} /\ Len(Spelling(t[i])) \in Nat
         /\ Start(t, i + 1) = Start(t, i) + Len(Spelling(t[i]))
<1>1. Len(t) \in Nat /\ i \in Nat \ {0} /\ i <= Len(t) /\ t[i] \in SegmentType /\ i + 1 - 1 = i
  OBVIOUS
<1>2. PICK s, x : s = SubSeq(t, 1, i - 1) /\ x = t[i]
  OBVIOUS
<1>3. SubSeq(t, 1, i) = Append(s, x) /\ s \in Seq(SegmentType)
  BY <1>1, <1>2, BeginningGrows
<1>4. Spell(s) \in Seq(Symbols) /\ Spell(Append(s, x)) = Spell(s) \o Spelling(x)
  BY <1>1, <1>2, <1>3, SpellAppend
<1>5. Spelling(x) \in Seq(Symbols)
  BY <1>1, <1>2, SegmentHasWords
<1>6. /\ Len(Spell(s)) \in Nat /\ Len(Spelling(x)) \in Nat
      /\ Len(Spell(s) \o Spelling(x)) = Len(Spell(s)) + Len(Spelling(x))
  BY <1>4, <1>5, EndToEnd
<1>7. Start(t, i) = 1 + Len(Spell(s)) /\ Start(t, i + 1) = 1 + Len(Spell(s) \o Spelling(x))
  <2>1. Start(t, i) = 1 + Len(Spell(SubSeq(t, 1, i - 1)))
    BY DEF Start
  <2>2. Start(t, i + 1) = 1 + Len(Spell(SubSeq(t, 1, i + 1 - 1)))
    BY DEF Start
  <2>3. SubSeq(t, 1, i + 1 - 1) = Append(s, x)
    BY <1>1, <1>3
  <2>4. QED
    BY <1>2, <1>4, <2>1, <2>2, <2>3
<1>8. QED
  BY <1>2, <1>6, <1>7

\* What begins after the last segment begins past what is spelled.
LEMMA StartEnds ==
  ASSUME NEW t \in Seq(SegmentType)
  PROVE  /\ Start(t, 1) = 1 /\ Len(Spell(t)) \in Nat
         /\ Start(t, Len(t) + 1) = 1 + Len(Spell(t))
<1>1. SubSeq(t, 1, 1 - 1) = <<>> /\ SubSeq(t, 1, (Len(t) + 1) - 1) = t
  <2>1. Len(t) \in Nat /\ (Len(t) + 1) - 1 = Len(t) /\ 1 - 1 = 0
    OBVIOUS
  <2>2. SubSeq(t, 1, 0) = <<>> /\ SubSeq(t, 1, Len(t)) = t
    OBVIOUS
  <2>3. QED
    BY <2>1, <2>2
<1>2. Spell(t) \in Seq(Symbols)
  BY SpellIs
<1>3. Len(Spell(t)) \in Nat /\ Len(<<>>) = 0
  BY <1>2
<1>4. Start(t, 1) = 1 + Len(Spell(<<>>)) /\ Start(t, Len(t) + 1) = 1 + Len(Spell(t))
  BY <1>1 DEF Start
<1>5. QED
  BY <1>3, <1>4, SpellNothing

(***************************************************************************)
(* Each segment is spelled from where it begins.                           *)
(***************************************************************************)
Laid(t) ==
  \A i \in 1..Len(t) : \A j \in 1..Len(Spelling(t[i])) :
    /\ Start(t, i) + j - 1 \in 1..Len(Spell(t))
    /\ Spell(t)[Start(t, i) + j - 1] = Spelling(t[i])[j]

\* One segment more is laid after the others.
LEMMA LaidAppend ==
  ASSUME NEW t \in Seq(SegmentType), NEW x \in SegmentType, Laid(t)
  PROVE  Laid(Append(t, x))
<1>1. PICK u : u = Append(t, x)
  OBVIOUS
<1>2. PICK n : n = Len(t)
  OBVIOUS
<1>3. /\ n \in Nat /\ u \in Seq(SegmentType) /\ Len(u) = n + 1 /\ u[n + 1] = x
      /\ \A i \in 1..n : u[i] = t[i]
  BY <1>1, <1>2
<1>4. PICK a, b : a = Spell(t) /\ b = Spelling(x)
  OBVIOUS
<1>5. a \in Seq(Symbols) /\ b \in Seq(Symbols) /\ Spell(u) = a \o b
  BY <1>1, <1>4, SpellAppend, SegmentHasWords
<1>6. /\ Len(a \o b) = Len(a) + Len(b) /\ Len(a) \in Nat /\ Len(b) \in Nat
      /\ \A i \in 1..Len(a) : (a \o b)[i] = a[i]
      /\ \A i \in 1..Len(b) : (a \o b)[Len(a) + i] = b[i]
  BY <1>5, EndToEnd
<1>7. ASSUME NEW i \in 1..n + 1 PROVE Start(u, i) = Start(t, i)
  <2>1. SubSeq(u, 1, i - 1) = SubSeq(t, 1, i - 1)
    <3>1. PICK m : m = i - 1
      OBVIOUS
    <3>2. m \in 0..n
      BY <1>3, <3>1
    <3>3. PICK c, d : c = SubSeq(u, 1, m) /\ d = SubSeq(t, 1, m)
      OBVIOUS
    <3>4. c \in Seq(SegmentType) /\ Len(c) = m /\ \A k \in 1..m : c[k] = u[k]
      BY <1>3, <3>2, <3>3
    <3>5. d \in Seq(SegmentType) /\ Len(d) = m /\ \A k \in 1..m : d[k] = t[k]
      BY <1>2, <1>3, <3>2, <3>3
    <3>6. \A k \in 1..m : c[k] = d[k]
      BY <1>3, <3>2, <3>4, <3>5
    <3>7. c = d
      BY <3>4, <3>5, <3>6, SeqEqual
    <3>8. QED
      BY <3>1, <3>3, <3>7
  <2>2. QED
    BY <2>1 DEF Start
<1>8. ASSUME NEW i \in 1..n + 1, NEW j \in 1..Len(Spelling(u[i]))
      PROVE  /\ Start(u, i) + j - 1 \in 1..Len(a \o b)
             /\ (a \o b)[Start(u, i) + j - 1] = Spelling(u[i])[j]
  <2>1. CASE i = n + 1
    <3>1. Start(u, i) = 1 + Len(a)
      BY <1>2, <1>4, <1>7, <2>1, StartEnds
    <3>2. Start(u, i) + j - 1 = Len(a) + j /\ u[i] = x /\ j \in 1..Len(b)
      BY <1>3, <1>4, <1>6, <2>1, <3>1
    <3>3. QED
      BY <1>4, <1>6, <3>2
  <2>2. CASE i # n + 1
    <3>1. i \in 1..Len(t) /\ u[i] = t[i] /\ Start(u, i) = Start(t, i)
      BY <1>2, <1>3, <1>7, <2>2
    <3>2. PICK p : p = Start(t, i) + j - 1
      OBVIOUS
    <3>3. p \in 1..Len(a) /\ a[p] = Spelling(t[i])[j]
      BY <1>4, <3>1, <3>2 DEF Laid
    <3>4. p \in 1..Len(a \o b) /\ (a \o b)[p] = a[p]
      BY <1>6, <3>3
    <3>5. QED
      BY <3>1, <3>2, <3>3, <3>4
  <2>3. QED
    BY <2>1, <2>2
<1>9. QED
  <2>1. Len(u) = n + 1 /\ Spell(u) = a \o b
    BY <1>3, <1>5
  <2>2. \A i \in 1..Len(u) : \A j \in 1..Len(Spelling(u[i])) :
          /\ Start(u, i) + j - 1 \in 1..Len(Spell(u))
          /\ Spell(u)[Start(u, i) + j - 1] = Spelling(u[i])[j]
    BY ONLY <1>8, <2>1
  <2>3. Laid(u)
    BY ONLY <2>2 DEF Laid
  <2>4. QED
    BY <1>1, <2>3

\* So every template is laid: by appending, from the empty one.
LEMMA TemplateIsLaid ==
  ASSUME NEW t \in Seq(SegmentType)
  PROVE  Laid(t)
<1> DEFINE T == {u \in Seq(SegmentType) : Laid(u)}
<1>1. T \subseteq Seq(SegmentType)
  OBVIOUS
<1>2. <<>> \in T
  <2>1. <<>> \in Seq(SegmentType) /\ Len(<<>>) = 0 /\ \A i : i \notin 1..0
    OBVIOUS
  <2>2. QED
    BY <2>1 DEF Laid
<1>3. ASSUME NEW w \in T, NEW x \in SegmentType PROVE Append(w, x) \in T
  <2>1. w \in Seq(SegmentType) /\ Laid(w) /\ Append(w, x) \in Seq(SegmentType)
    OBVIOUS
  <2>2. QED
    BY <2>1, LaidAppend
<1> HIDE DEF T
<1>4. T = Seq(SegmentType)
  BY <1>1, <1>2, <1>3, ByAppending
<1>5. QED
  BY <1>4 DEF T

(***************************************************************************)
(* What climbs at every step climbs.                                       *)
(***************************************************************************)
LEMMA Climbs ==
  ASSUME NEW n \in Nat, NEW f, \A i \in 1..n + 1 : f[i] \in Nat, \A i \in 1..n : f[i] < f[i + 1]
  PROVE  \A i, j \in 1..n + 1 : i < j => f[i] < f[j]
<1> SUFFICES ASSUME NEW i \in 1..n + 1 PROVE \A j \in 1..n + 1 : i < j => f[i] < f[j]
  OBVIOUS
<1> DEFINE T == {j \in 1..n + 1 : i < j /\ ~(f[i] < f[j])}
<1>1. T = {}
  <2> SUFFICES ASSUME T # {} PROVE FALSE
    OBVIOUS
  <2>1. T \subseteq Nat
    OBVIOUS
  <2>2. PICK j \in T : \A k \in T : j <= k
    <3> HIDE DEF T
    <3>1. QED
      BY <2>1, LeastNatural
  <2>3. j \in 1..n + 1 /\ i < j /\ ~(f[i] < f[j])
    OBVIOUS
  <2>4. PICK k : k = j - 1
    OBVIOUS
  <2>5. k \in 1..n /\ k \in 1..n + 1 /\ k + 1 = j /\ ~(j <= k)
    BY <2>3, <2>4
  <2>6. f[k] < f[j] /\ f[k] \in Nat /\ f[j] \in Nat /\ f[i] \in Nat
    BY <2>3, <2>5
  <2>7. CASE k = i
    BY <2>3, <2>6, <2>7
  <2>8. CASE k # i
    <3>1. i < k /\ k \notin T
      BY <2>2, <2>3, <2>5, <2>8
    <3>2. f[i] < f[k]
      BY <2>5, <3>1
    <3>3. QED
      BY <2>3, <2>6, <3>2
  <2>9. QED
    BY <2>7, <2>8
<1>2. QED
  BY <1>1

(***************************************************************************)
(* No segment of a template is spelled by nothing, so they begin one after *)
(* the other.                                                              *)
(***************************************************************************)
LEMMA TemplateClimbs ==
  ASSUME NEW f \in Functions
  PROVE  LET t == f.template IN
         /\ \A i \in 1..Len(t) + 1 : Start(t, i) \in Nat \ {0}
         /\ \A i, j \in 1..Len(t) + 1 : i < j => Start(t, i) < Start(t, j)
<1>1. PICK t : t = f.template
  OBVIOUS
<1>2. t \in Seq(SegmentType) /\ IsTemplate(t, f.args)
  BY <1>1, FunctionIs
<1>3. PICK n : n = Len(t)
  OBVIOUS
<1>4. n \in Nat /\ DOMAIN t = 1..n
  BY <1>2, <1>3
<1>5. ASSUME NEW i \in 1..n PROVE Len(Spelling(t[i])) # 0
  <2>1. t[i] \in SegmentType /\ t[i].words \in Seq(Symbols)
    BY <1>2, <1>4, SegmentHasWords
  <2>2. CASE IsParam(t[i])
    <3>1. PICK by, w : by = "by" /\ w = t[i].words
      OBVIOUS
    <3>2. by \in Symbols /\ w \in Seq(Symbols)
      BY <2>1, <3>1, SymbolsAre
    <3>3. Len(<<by>> \o w) = 1 + Len(w) /\ Len(w) \in Nat
      BY <3>2
    <3>4. QED
      BY <2>2, <3>1, <3>3 DEF Spelling
  <2>3. CASE ~IsParam(t[i])
    <3>1. t[i].words # <<>>
      BY <1>2, <1>4, <2>3 DEF IsTemplate
    <3>2. QED
      BY <2>1, <2>3, <3>1 DEF Spelling
  <2>4. QED
    BY <2>2, <2>3
<1>6. \A i \in 1..n : /\ Start(t, i) \in Nat \ {0} /\ Len(Spelling(t[i])) \in Nat
                      /\ Start(t, i + 1) = Start(t, i) + Len(Spelling(t[i]))
  BY <1>2, <1>3, StartNext
<1>7. Start(t, n + 1) \in Nat \ {0}
  BY <1>2, <1>3, StartEnds
<1>8. PICK st : st = [i \in 1..n + 1 |-> Start(t, i)]
  OBVIOUS
<1>9. ASSUME NEW i \in 1..n + 1 PROVE st[i] \in Nat \ {0}
  <2>1. CASE i = n + 1
    BY <1>7, <1>8, <2>1
  <2>2. CASE i # n + 1
    <3>1. i \in 1..n
      BY <1>4, <2>2
    <3>2. QED
      BY <1>6, <1>8, <3>1
  <2>3. QED
    BY <2>1, <2>2
<1>10. ASSUME NEW i \in 1..n PROVE st[i] < st[i + 1]
  <2>1. i \in 1..n + 1 /\ i + 1 \in 1..n + 1
    BY <1>4
  <2>2. st[i + 1] = st[i] + Len(Spelling(t[i]))
    BY <1>6, <1>8, <2>1
  <2>3. st[i] \in Nat /\ Len(Spelling(t[i])) \in Nat \ {0}
    BY <1>5, <1>6, <1>9, <2>1
  <2>4. QED
    BY <2>2, <2>3
<1>11. \A i, j \in 1..n + 1 : i < j => st[i] < st[j]
  BY <1>4, <1>9, <1>10, Climbs
<1>12. QED
  BY <1>1, <1>3, <1>8, <1>9, <1>11

(***************************************************************************)
(* A place belongs to one segment.                                         *)
(***************************************************************************)
LEMMA PlaceOfOne ==
  ASSUME NEW f \in Functions, NEW t, t = f.template,
         NEW i \in 1..Len(t), NEW k \in 1..Len(t), NEW p \in Nat,
         Start(t, i) <= p, p < Start(t, i + 1), Start(t, k) <= p, p < Start(t, k + 1)
  PROVE  i = k
<1>1. Len(t) \in Nat
  BY FunctionIs
<1>2. /\ i + 1 \in 1..Len(t) + 1 /\ i \in 1..Len(t) + 1
      /\ k + 1 \in 1..Len(t) + 1 /\ k \in 1..Len(t) + 1
  BY <1>1
<1>3. /\ \A m \in 1..Len(t) + 1 : Start(t, m) \in Nat
      /\ \A m, n \in 1..Len(t) + 1 : m < n => Start(t, m) < Start(t, n)
  BY TemplateClimbs
<1>4. ~(i + 1 < k) /\ k # i + 1
  BY <1>2, <1>3
<1>5. ~(k + 1 < i) /\ i # k + 1
  BY <1>2, <1>3
<1>6. QED
  BY <1>1, <1>4, <1>5

-----------------------------------------------------------------------------
(***************************************************************************)
(* A name that can only be read as its template.                           *)
(***************************************************************************)

(***************************************************************************)
(* What is left of such a name spells the template.                        *)
(***************************************************************************)
LEMMA RestIsTemplate ==
  ASSUME NEW f \in Functions, Stands(f), NEW p, ParsedOf(f.name, p)
  PROVE  p.rest = Spell(f.template)
<1>1. PICK name : name = f.name
  OBVIOUS
<1>2. PICK v \in DOMAIN name :
        /\ v > 2 /\ name[v] \in Fitting /\ \A u \in 3..v - 1 : name[u] \notin Versions
        /\ SubSeq(name, v + 1, Len(name)) = Spell(f.template)
  BY <1>1 DEF Stands
<1>3. name \in Seq(Symbols) /\ v \in 1..Len(name) /\ Len(name) \in Nat
  BY <1>1, <1>2, FunctionIs
<1>4. v \in VersionsAt(name)
  BY <1>2 DEF VersionsAt, Versions
<1>5. PICK u : u = NamespaceEnd(name)
  OBVIOUS
<1>6. u \in VersionsAt(name) /\ u <= v
  BY <1>3, <1>4, <1>5, NamespaceEndIs
<1>7. u \in Nat /\ u > 2 /\ name[u] \in Versions
  BY <1>3, <1>6 DEF VersionsAt
<1>8. u \notin 3..v - 1
  BY <1>2, <1>7
<1>9. u = v
  BY <1>3, <1>6, <1>7, <1>8
<1>10. p.rest = SubSeq(name, u + 1, Len(name))
  BY <1>1, <1>5 DEF ParsedOf
<1>11. QED
  BY <1>2, <1>9, <1>10

(***************************************************************************)
(* Where a parameter of the template begins, the argument it stands for is *)
(* spelled out.                                                            *)
(***************************************************************************)
LEMMA ParamSpelled ==
  ASSUME TypeOK, parsed.rest = Spell(fn.template),
         NEW i \in 1..Len(fn.template), IsParam(fn.template[i])
  PROVE  \E k \in Spelled(Start(fn.template, i)) : fn.template[i] = Param(fn.args[k])
<1>1. PICK t, args : t = fn.template /\ args = fn.args
  OBVIOUS
<1>2. t \in Seq(SegmentType) /\ IsTemplate(t, args) /\ args \in Seq(ArgType)
  BY <1>1, FunctionIs DEF TypeOK
<1>3. PICK k \in DOMAIN args : t[i] = Param(args[k])
  BY <1>1, <1>2 DEF IsTemplate
<1>4. PICK w : w = args[k].words
  OBVIOUS
<1>5. args[k] \in ArgType /\ w \in Seq(Symbols) /\ t[i].words = w
  <2>1. args[k] \in ArgType
    BY <1>2, <1>3
  <2>2. QED
    BY <1>3, <1>4, <2>1, ParamIs DEF ArgType
<1>6. PICK by : by = "by"
  OBVIOUS
<1>7. by \in Symbols
  BY <1>6, SymbolsAre
<1>8. PICK e : e = Spelling(t[i])
  OBVIOUS
<1>9. e = <<by>> \o w
  BY <1>1, <1>5, <1>6, <1>8 DEF Spelling
<1>10. /\ Len(e) = 1 + Len(w) /\ e[1] = by /\ Len(w) \in Nat
       /\ \A j \in 1..Len(w) : e[1 + j] = w[j]
  BY <1>5, <1>7, <1>9
<1>11. PICK W : W = Spell(t)
  OBVIOUS
<1>12. PICK p : p = Start(t, i)
  OBVIOUS
<1>13. W \in Seq(Symbols) /\ Len(W) \in Nat /\ p \in Nat \ {0}
  BY <1>1, <1>2, <1>11, <1>12, SpellIs, StartNext
<1>14. \A j \in 1..Len(e) : p + j - 1 \in 1..Len(W) /\ W[p + j - 1] = e[j]
  BY <1>1, <1>2, <1>8, <1>11, <1>12, TemplateIsLaid DEF Laid
<1>15. W[p] = "by"
  <2>1. 1 \in 1..Len(e) /\ p + 1 - 1 = p
    BY <1>10, <1>13
  <2>2. W[p] = e[1]
    BY <1>14, <2>1
  <2>3. QED
    BY <1>6, <1>10, <2>2
<1>16. p + Len(w) <= Len(W)
  <2>1. Len(e) \in 1..Len(e) /\ p + Len(e) - 1 = p + Len(w)
    BY <1>10, <1>13
  <2>2. p + Len(w) \in 1..Len(W)
    BY <1>14, <2>1
  <2>3. QED
    BY <1>13, <2>2
<1>17. SubSeq(W, p + 1, p + Len(w)) = w
  <2>1. PICK c : c = SubSeq(W, p + 1, p + Len(w))
    OBVIOUS
  <2>2. PICK m : m = p + Len(w)
    OBVIOUS
  <2>3. m \in Nat /\ p + 1 \in Nat /\ 1 <= p + 1 /\ m <= Len(W)
    BY <1>10, <1>13, <1>16, <2>2
  <2>4. /\ c \in Seq(Symbols) /\ Len(c) = IF p + 1 <= m THEN m - (p + 1) + 1 ELSE 0
        /\ \A j \in 1..Len(c) : c[j] = W[(p + 1) + j - 1]
    <3>1. PICK q : q = p + 1
      OBVIOUS
    <3>2. /\ W \in Seq(Symbols) /\ q \in Nat /\ m \in Nat /\ 1 <= q /\ m <= Len(W)
          /\ c = SubSeq(W, q, m)
      BY <1>13, <2>1, <2>2, <2>3, <3>1
    <3>3. /\ c \in Seq(Symbols) /\ Len(c) = IF q <= m THEN m - q + 1 ELSE 0
          /\ \A j \in 1..Len(c) : c[j] = W[q + j - 1]
      BY ONLY <3>2, PartOf
    <3>4. QED
      BY <3>1, <3>3
  <2>5. Len(c) = Len(w)
    BY <1>10, <1>13, <2>2, <2>4
  <2>6. ASSUME NEW j \in 1..Len(w) PROVE c[j] = w[j]
    <3>1. (p + 1) + j - 1 = p + (1 + j) - 1 /\ 1 + j \in 1..Len(e)
      BY <1>10, <1>13
    <3>2. W[p + (1 + j) - 1] = e[1 + j]
      BY <1>14, <3>1
    <3>3. QED
      BY <1>10, <2>4, <2>5, <3>1, <3>2
  <2>7. c = w
    BY <1>5, <2>4, <2>5, <2>6, SeqEqual
  <2>8. QED
    BY <2>1, <2>7
<1>18. k \in Spelled(p)
  BY <1>1, <1>3, <1>4, <1>11, <1>15, <1>16, <1>17 DEF Spelled
<1>19. QED
  BY <1>1, <1>3, <1>12, <1>18

(***************************************************************************)
(* Wherever an argument is spelled out, a parameter of the template is,    *)
(* and none shorter where it begins.                                       *)
(***************************************************************************)
LEMMA SpelledCovered ==
  ASSUME TypeOK, Derivable(fn), parsed.rest = Spell(fn.template),
         NEW p \in 1..Len(parsed.rest), NEW k \in Spelled(p)
  PROVE  \E i \in 1..Len(fn.template) :
           /\ IsParam(fn.template[i])
           /\ Start(fn.template, i) <= p /\ p < Start(fn.template, i + 1)
           /\ p = Start(fn.template, i) =>
                \/ Len(fn.args[k].words) < Len(fn.template[i].words)
                \/ /\ fn.args[k].words = fn.template[i].words
                   /\ fn.args[k].name = fn.template[i].arg
<1>1. PICK t, args : t = fn.template /\ args = fn.args
  OBVIOUS
<1>2. PICK W : W = Spell(t)
  OBVIOUS
<1>3. PICK arg : arg = args[k]
  OBVIOUS
<1>4. t \in Seq(SegmentType) /\ W \in Seq(Symbols) /\ DOMAIN t = 1..Len(t) /\ DOMAIN W = 1..Len(W)
  BY <1>1, <1>2, FunctionIs, SpellIs DEF TypeOK
<1>5. /\ k \in DOMAIN args /\ W[p] = "by" /\ p + Len(arg.words) <= Len(W)
      /\ SubSeq(W, p + 1, p + Len(arg.words)) = arg.words
  BY <1>1, <1>2, <1>3 DEF Spelled
<1>6. arg \in ToSet(args)
  BY <1>3, <1>5 DEF ToSet
<1>7. p \in DOMAIN W
  BY <1>1, <1>2, <1>4
<1>8. PICK i \in DOMAIN t : /\ IsParam(t[i]) /\ p \in Start(t, i)..Start(t, i + 1) - 1
                            /\ p = Start(t, i) =>
                                 \/ Len(arg.words) < Len(t[i].words)
                                 \/ arg.words = t[i].words /\ arg.name = t[i].arg
  BY <1>1, <1>2, <1>5, <1>6, <1>7 DEF Derivable
<1>9. Start(t, i) \in Nat /\ Start(t, i + 1) \in Nat
  <2>1. i \in 1..Len(t) /\ Len(t) \in Nat
    BY <1>4
  <2>2. QED
    BY <1>4, <2>1, StartNext
<1>10. Start(t, i) <= p /\ p < Start(t, i + 1)
  BY <1>8, <1>9
<1>11. QED
  BY <1>1, <1>3, <1>4, <1>8, <1>10

(***************************************************************************)
(* Where a segment begins and an argument is spelled out, the segment is   *)
(* the argument that is taken.                                             *)
(***************************************************************************)
LEMMA TakenIsTemplate ==
  ASSUME TypeOK, Derivable(fn), parsed.rest = Spell(fn.template),
         at <= Len(parsed.rest), Spelled(at) # {},
         NEW i \in 1..Len(fn.template), at = Start(fn.template, i)
  PROVE  /\ IsParam(fn.template[i]) /\ Param(fn.args[Matched(at)]) = fn.template[i]
<1>1. PICK t, args : t = fn.template /\ args = fn.args
  OBVIOUS
<1>2. t \in Seq(SegmentType) /\ args \in Seq(ArgType) /\ parsed.rest \in Seq(Symbols)
  BY <1>1, FunctionIs DEF TypeOK, ParsedType
<1>3. Len(parsed.rest) \in Nat /\ at \in 1..Len(parsed.rest) /\ at \in Nat
  <2>1. at \in 1..Len(parsed.rest) + 1
    BY DEF TypeOK
  <2>2. Len(parsed.rest) \in Nat
    BY <1>2
  <2>3. QED
    BY <2>1, <2>2
<1>4. PICK m : m = Matched(at)
  OBVIOUS
<1>5. m \in Spelled(at)
  BY <1>3, <1>4, MatchedIs
<1>6. PICK k \in 1..Len(t) :
        /\ IsParam(t[k]) /\ Start(t, k) <= at /\ at < Start(t, k + 1)
        /\ at = Start(t, k) =>
             \/ Len(args[m].words) < Len(t[k].words)
             \/ args[m].words = t[k].words /\ args[m].name = t[k].arg
  BY <1>1, <1>3, <1>5, SpelledCovered
<1>7. i = k
  <2>1. /\ i \in 1..Len(t) /\ i \in 1..Len(t) + 1 /\ i + 1 \in 1..Len(t) + 1 /\ i < i + 1
    BY <1>1, <1>2
  <2>2. Start(t, i) < Start(t, i + 1)
    BY <1>1, <2>1, TemplateClimbs DEF TypeOK
  <2>3. Start(t, i) <= at /\ at < Start(t, i + 1)
    BY <1>1, <1>3, <2>2
  <2>4. QED
    BY <1>1, <1>3, <1>6, <2>1, <2>3, PlaceOfOne DEF TypeOK
<1>8. PICK j \in Spelled(at) : t[i] = Param(args[j])
  BY <1>1, <1>6, <1>7, ParamSpelled
<1>9. \/ Len(args[j].words) < Len(args[m].words)
      \/ Len(args[j].words) = Len(args[m].words)
  BY <1>1, <1>3, <1>4, <1>8, MatchedIs
<1>10. j \in DOMAIN args /\ m \in DOMAIN args
  BY <1>1, <1>5, <1>8 DEF Spelled
<1>11. args[j] \in ArgType /\ args[m] \in ArgType
  BY <1>2, <1>10
<1>12. t[i].words = args[j].words
  BY <1>8, <1>11, ParamIs
<1>13. Len(args[j].words) \in Nat /\ Len(args[m].words) \in Nat
  <2>1. args[j].words \in Seq(Symbols) /\ args[m].words \in Seq(Symbols)
    BY <1>11 DEF ArgType
  <2>2. QED
    BY <2>1
<1>14. args[m].words = t[i].words /\ args[m].name = t[i].arg
  <2>1. at = Start(t, k) /\ t[k].words = args[j].words
    BY <1>1, <1>7, <1>12
  <2>2. ~(Len(args[m].words) < Len(t[k].words))
    <3>1. PICK a, b : a = Len(args[j].words) /\ b = Len(args[m].words)
      OBVIOUS
    <3>2. a \in Nat /\ b \in Nat /\ (a < b \/ a = b)
      BY <1>9, <1>13, <3>1
    <3>3. ~(b < a)
      BY ONLY <3>2
    <3>4. QED
      BY <2>1, <3>1, <3>3
  <2>3. args[m].words = t[k].words /\ args[m].name = t[k].arg
    BY <1>6, <2>1, <2>2
  <2>4. QED
    BY <1>7, <2>3
<1>15. t[i].arg = args[j].name
  BY <1>8 DEF Param
<1>16. Param(args[m]) = Param(args[j])
  BY <1>12, <1>14, <1>15 DEF Param
<1>17. QED
  BY <1>1, <1>4, <1>6, <1>7, <1>8, <1>16

(***************************************************************************)
(* The reading follows the template of a name that can only be read as it: *)
(* the segments are its first ones, and the words that wait are the first  *)
(* of its next literal.                                                    *)
(***************************************************************************)
Within(t, k) ==
  /\ k < Len(t) /\ ~IsParam(t[k + 1]) /\ Len(run) <= Len(t[k + 1].words)
  /\ run = SubSeq(t[k + 1].words, 1, Len(run)) /\ at = Start(t, k + 1) + Len(run)

Follows(t, k) ==
  /\ k <= Len(t) /\ segments = SubSeq(t, 1, k)
  /\ run = <<>> => at = Start(t, k + 1)
  /\ run # <<>> => Within(t, k)

Following ==
  Derivable(fn) =>
    /\ pc = "derive" => Follows(fn.template, Len(segments))
    /\ pc \in {"bind", "sent"} => segments = fn.template

(***************************************************************************)
(* At the end of a segment what is read so far is the segments before.     *)
(***************************************************************************)
LEMMA FlushedFollows ==
  ASSUME TypeOK, NEW t, t = fn.template, NEW k, k = Len(segments), Follows(t, k),
         run # <<>> => Len(run) = Len(t[k + 1].words)
  PROVE  /\ Len(Flushed) \in 0..Len(t) /\ Flushed = SubSeq(t, 1, Len(Flushed))
         /\ at = Start(t, Len(Flushed) + 1)
<1>1. t \in Seq(SegmentType) /\ IsTemplate(t, fn.args) /\ segments \in Seq(SegmentType)
  BY FunctionIs DEF TypeOK
<1>2. run \in Seq(Symbols) /\ Len(t) \in Nat /\ k \in Nat /\ k <= Len(t)
  BY <1>1 DEF TypeOK, Follows
<1>3. CASE run = <<>>
  <2>1. Flushed = segments
    BY <1>3 DEF Flushed
  <2>2. QED
    BY <1>2, <1>3, <2>1 DEF Follows
<1>4. CASE run # <<>>
  <2>1. /\ k < Len(t) /\ ~IsParam(t[k + 1]) /\ Len(run) = Len(t[k + 1].words)
        /\ run = SubSeq(t[k + 1].words, 1, Len(run)) /\ at = Start(t, k + 1) + Len(run)
    BY <1>4 DEF Follows, Within
  <2>2. k + 1 \in 1..Len(t) /\ k + 1 <= Len(t) /\ k + 1 \in Nat \ {0} /\ (k + 1) - 1 = k
    BY <1>2, <2>1
  <2>3. PICK x : x = t[k + 1]
    OBVIOUS
  <2>4. x \in SegmentType /\ x = Literal(x.words) /\ x.words \in Seq(Symbols)
    <3>1. x \in SegmentType
      BY <1>1, <2>2, <2>3
    <3>2. DOMAIN t = 1..Len(t)
      BY <1>1
    <3>3. x = Literal(x.words)
      BY <1>1, <2>1, <2>2, <2>3, <3>2 DEF IsTemplate
    <3>4. QED
      BY <3>1, <3>3, SegmentHasWords
  <2>5. SubSeq(x.words, 1, Len(x.words)) = x.words
    BY <2>4
  <2>6. run = x.words
    BY <2>1, <2>3, <2>5
  <2>7. Flushed = Append(segments, x)
    BY <1>4, <2>4, <2>6 DEF Flushed
  <2>8. SubSeq(t, 1, k + 1) = Append(SubSeq(t, 1, k), x)
    BY <1>1, <2>2, <2>3, BeginningGrows
  <2>9. Flushed = SubSeq(t, 1, k + 1)
    BY <2>7, <2>8 DEF Follows
  <2>10. Len(Flushed) = k + 1
    BY <1>1, <2>4, <2>7
  <2>11. Spelling(x) = x.words
    BY <2>1, <2>3 DEF Spelling
  <2>12. Start(t, (k + 1) + 1) = Start(t, k + 1) + Len(run)
    BY <1>1, <2>2, <2>3, <2>6, <2>11, StartNext
  <2>13. QED
    BY <2>1, <2>2, <2>9, <2>10, <2>12
<1>5. QED
  BY <1>3, <1>4

(***************************************************************************)
(* In the middle of a literal, no segment begins or is a parameter.        *)
(***************************************************************************)
LEMMA InLiteral ==
  ASSUME TypeOK, NEW t, t = fn.template, NEW k, k = Len(segments), Follows(t, k),
         run # <<>>, Len(run) # Len(t[k + 1].words)
  PROVE  /\ k + 1 \in 1..Len(t) /\ ~IsParam(t[k + 1]) /\ t[k + 1].words \in Seq(Symbols)
         /\ Len(run) \in Nat \ {0} /\ Len(run) < Len(t[k + 1].words)
         /\ Start(t, k + 1) <= at /\ at < Start(t, k + 2) /\ at \in Nat
<1>1. t \in Seq(SegmentType) /\ segments \in Seq(SegmentType) /\ run \in Seq(Symbols)
  BY FunctionIs DEF TypeOK
<1>2. /\ k < Len(t) /\ ~IsParam(t[k + 1]) /\ Len(run) <= Len(t[k + 1].words)
      /\ at = Start(t, k + 1) + Len(run)
  BY DEF Follows, Within
<1>3. Len(t) \in Nat /\ k \in Nat
  BY <1>1
<1>4. k + 1 \in 1..Len(t) /\ (k + 1) + 1 = k + 2
  BY <1>2, <1>3
<1>5. t[k + 1] \in SegmentType
  BY <1>1, <1>4
<1>6. t[k + 1].words \in Seq(Symbols)
  BY <1>5, SegmentHasWords
<1>7. Len(t[k + 1].words) \in Nat /\ Len(run) \in Nat \ {0}
  BY <1>1, <1>6
<1>8. Spelling(t[k + 1]) = t[k + 1].words
  BY <1>2 DEF Spelling
<1>9. Start(t, k + 1) \in Nat /\ Start(t, k + 2) = Start(t, k + 1) + Len(t[k + 1].words)
  BY <1>1, <1>4, <1>8, StartNext
<1>10. PICK n, l, a, b : /\ n = Len(run) /\ l = Len(t[k + 1].words)
                         /\ a = Start(t, k + 1) /\ b = Start(t, k + 2)
  OBVIOUS
<1>11. n \in Nat /\ l \in Nat /\ a \in Nat /\ n <= l /\ n # l /\ at = a + n /\ b = a + l
  BY <1>2, <1>7, <1>9, <1>10
<1>12. n < l /\ a <= at /\ at < b /\ at \in Nat
  BY ONLY <1>11
<1>13. QED
  BY <1>2, <1>4, <1>6, <1>7, <1>10, <1>12

\* derive: the parameter taken is the next segment of the template.
LEMMA TakeParamFollows ==
  ASSUME TypeOK, ReadSoFar, Following, TakeParam
  PROVE  Following'
<1> SUFFICES ASSUME Derivable(fn) PROVE Following'
  BY DEF TakeParam, Following
<1>1. PICK arg, t, k : arg = fn.args[Matched(at)] /\ t = fn.template /\ k = Len(segments)
  OBVIOUS
<1>2. /\ pc = "derive" /\ pc' = "derive" /\ fn' = fn /\ parsed' = parsed /\ run' = <<>>
      /\ segments' = Append(Flushed, Param(arg)) /\ at' = at + 1 + Len(arg.words)
      /\ Spelled(at) # {} /\ at <= Len(parsed.rest)
  BY <1>1 DEF TakeParam, More
<1>3. parsed.rest = Spell(t)
  BY <1>1, <1>2, RestIsTemplate DEF TypeOK, ReadSoFar, Derivable
<1>4. Follows(t, k)
  BY <1>1, <1>2 DEF Following
<1>5. t \in Seq(SegmentType) /\ parsed.rest \in Seq(Symbols) /\ Len(t) \in Nat
  <2>1. t \in Seq(SegmentType)
    BY <1>1, FunctionIs DEF TypeOK
  <2>2. parsed.rest \in Seq(Symbols)
    BY DEF TypeOK, ParsedType
  <2>3. QED
    BY <2>1, <2>2
<1>6. Len(parsed.rest) \in Nat /\ at \in 1..Len(parsed.rest)
  <2>1. at \in 1..Len(parsed.rest) + 1
    BY DEF TypeOK
  <2>2. Len(parsed.rest) \in Nat
    BY <1>5
  <2>3. QED
    BY <1>2, <2>1, <2>2
<1>7. run # <<>> => Len(run) = Len(t[k + 1].words)
  <2> SUFFICES ASSUME run # <<>>, Len(run) # Len(t[k + 1].words) PROVE FALSE
    OBVIOUS
  <2>1. /\ k + 1 \in 1..Len(t) /\ ~IsParam(t[k + 1])
        /\ Start(t, k + 1) <= at /\ at < Start(t, k + 2) /\ at \in Nat
    BY <1>1, <1>4, InLiteral
  <2>2. PICK m : m \in Spelled(at)
    BY <1>2
  <2>3. PICK i \in 1..Len(t) : IsParam(t[i]) /\ Start(t, i) <= at /\ at < Start(t, i + 1)
    BY <1>1, <1>3, <1>6, <2>2, SpelledCovered
  <2>4. (k + 1) + 1 = k + 2
    <3>1. segments \in Seq(SegmentType)
      BY DEF TypeOK
    <3>2. k \in Nat
      BY <1>1, <3>1
    <3>3. QED
      BY <3>2
  <2>5. i = k + 1
    BY <1>1, <2>1, <2>3, <2>4, PlaceOfOne DEF TypeOK
  <2>6. QED
    BY <2>1, <2>3, <2>5
<1>8. PICK f, n : f = Flushed /\ n = Len(f)
  OBVIOUS
<1>9. n \in 0..Len(t) /\ f = SubSeq(t, 1, n) /\ at = Start(t, n + 1)
  BY <1>1, <1>4, <1>7, <1>8, FlushedFollows
<1>10. n # Len(t)
  <2>1. Start(t, Len(t) + 1) = 1 + Len(parsed.rest)
    BY <1>3, <1>5, StartEnds
  <2>2. at # 1 + Len(parsed.rest)
    BY <1>6
  <2>3. QED
    BY <1>9, <2>1, <2>2
<1>11. n + 1 \in 1..Len(t) /\ n + 1 <= Len(t) /\ n + 1 \in Nat \ {0} /\ (n + 1) - 1 = n
  BY <1>5, <1>9, <1>10
<1>12. PICK x : x = t[n + 1]
  OBVIOUS
<1>13. IsParam(x) /\ Param(arg) = x
  BY <1>1, <1>2, <1>3, <1>9, <1>11, <1>12, TakenIsTemplate
<1>14. segments' = SubSeq(t, 1, n + 1)
  <2>1. SubSeq(t, 1, n + 1) = Append(SubSeq(t, 1, n), x)
    BY <1>5, <1>11, <1>12, BeginningGrows
  <2>2. QED
    BY <1>2, <1>8, <1>9, <1>13, <2>1
<1>15. Len(segments') = n + 1
  <2>1. f \in Seq(SegmentType) /\ x \in SegmentType
    <3>1. x \in SegmentType
      BY <1>5, <1>11, <1>12
    <3>2. QED
      BY <1>8, <3>1, FlushedIs
  <2>2. QED
    BY <1>2, <1>8, <1>13, <2>1
<1>16. at' = Start(t, (n + 1) + 1)
  <2>1. arg \in ArgType /\ Len(arg.words) \in Nat
    BY <1>1, TakenIs
  <2>2. PICK by, w : by = "by" /\ w = arg.words
    OBVIOUS
  <2>3. by \in Symbols /\ w \in Seq(Symbols)
    BY <2>1, <2>2, SymbolsAre DEF ArgType
  <2>4. Len(<<by>> \o w) = 1 + Len(w)
    BY <2>3
  <2>5. Len(Spelling(x)) = 1 + Len(w)
    BY <1>13, <2>1, <2>2, <2>4, ParamIs DEF Spelling
  <2>6. Start(t, (n + 1) + 1) = Start(t, n + 1) + Len(Spelling(x)) /\ Start(t, n + 1) \in Nat
    BY <1>5, <1>11, <1>12, StartNext
  <2>7. PICK s : s = Start(t, n + 1)
    OBVIOUS
  <2>8. at' = s + 1 + Len(w)
    BY <1>2, <1>9, <2>2, <2>7
  <2>9. Start(t, (n + 1) + 1) = s + (1 + Len(w)) /\ s \in Nat
    BY <2>5, <2>6, <2>7
  <2>10. Len(w) \in Nat
    BY <2>1, <2>2
  <2>11. QED
    BY <2>8, <2>9, <2>10
<1>17. Follows(t, n + 1)'
  BY <1>1, <1>2, <1>11, <1>14, <1>16 DEF Follows
<1>18. QED
  BY <1>1, <1>2, <1>15, <1>17 DEF Following

\* parse: nothing derived is the beginning of any template.
LEMMA ParseFollows ==
  ASSUME TypeOK, Fresh, Parse
  PROVE  Following'
<1>1. /\ pc = "parse" /\ fn' = fn /\ at' = 1 /\ run' = <<>> /\ segments' = <<>>
      /\ pc' \in {"derive", "none"}
  BY DEF Parse, Fresh
<1>2. PICK t : t = fn.template
  OBVIOUS
<1>3. t \in Seq(SegmentType)
  BY <1>2, FunctionIs DEF TypeOK
<1>4. SubSeq(t, 1, 0) = <<>> /\ Len(<<>>) = 0 /\ 0 <= Len(t) /\ 0 + 1 = 1
  BY <1>3
<1>5. Start(t, 1) = 1
  BY <1>3, StartEnds
<1>6. Follows(t, 0)'
  BY <1>1, <1>2, <1>4, <1>5 DEF Follows
<1>7. QED
  BY <1>1, <1>2, <1>4, <1>6 DEF Following

(***************************************************************************)
(* A word of the literal that is being read is its next.                   *)
(***************************************************************************)
LEMMA NextOfLiteral ==
  ASSUME NEW t \in Seq(SegmentType), NEW i \in 1..Len(t), ~IsParam(t[i]),
         NEW n \in Nat, n < Len(t[i].words), NEW r, r = SubSeq(t[i].words, 1, n),
         NEW x, x = Spell(t)[Start(t, i) + n]
  PROVE  /\ Append(r, x) = SubSeq(t[i].words, 1, n + 1) /\ Len(Append(r, x)) = n + 1
         /\ n + 1 <= Len(t[i].words)
<1>1. PICK w : w = t[i].words
  OBVIOUS
<1>2. t[i] \in SegmentType /\ w \in Seq(Symbols) /\ Len(w) \in Nat
  <2>1. t[i] \in SegmentType
    OBVIOUS
  <2>2. w \in Seq(Symbols)
    BY <1>1, <2>1, SegmentHasWords
  <2>3. QED
    BY <2>1, <2>2
<1>3. Spelling(t[i]) = w
  BY <1>1 DEF Spelling
<1>4. n + 1 \in 1..Len(w) /\ n + 1 <= Len(w) /\ n + 1 \in Nat \ {0} /\ (n + 1) - 1 = n
  BY <1>1, <1>2
<1>5. Start(t, i) \in Nat /\ Start(t, i) + (n + 1) - 1 = Start(t, i) + n
  <2>1. Start(t, i) \in Nat
    BY StartNext
  <2>2. QED
    BY <2>1
<1>6. Spell(t)[Start(t, i) + (n + 1) - 1] = w[n + 1]
  BY <1>3, <1>4, TemplateIsLaid DEF Laid
<1>7. x = w[n + 1]
  BY <1>5, <1>6
<1>8. SubSeq(w, 1, n + 1) = Append(SubSeq(w, 1, n), w[n + 1]) /\ SubSeq(w, 1, n) \in Seq(Symbols)
      /\ Len(SubSeq(w, 1, n)) = n
  BY <1>2, <1>4, BeginningGrows
<1>9. Append(r, x) = SubSeq(w, 1, n + 1)
  BY <1>1, <1>7, <1>8
<1>10. Len(SubSeq(w, 1, n + 1)) = n + 1
  BY <1>2, <1>4
<1>11. QED
  BY <1>1, <1>4, <1>9, <1>10

\* derive: the word taken is the next of the literal it stands in.
LEMMA TakeWordFollows ==
  ASSUME TypeOK, ReadSoFar, Following, TakeWord
  PROVE  Following'
<1> SUFFICES ASSUME Derivable(fn) PROVE Following'
  BY DEF TakeWord, Following
<1>1. PICK x, t, k : x = parsed.rest[at] /\ t = fn.template /\ k = Len(segments)
  OBVIOUS
<1>2. /\ pc = "derive" /\ pc' = "derive" /\ fn' = fn /\ parsed' = parsed /\ segments' = segments
      /\ run' = Append(run, x) /\ at' = at + 1 /\ Spelled(at) = {} /\ at <= Len(parsed.rest)
  BY <1>1 DEF TakeWord, More
<1>3. parsed.rest = Spell(t)
  BY <1>1, <1>2, RestIsTemplate DEF TypeOK, ReadSoFar, Derivable
<1>4. Follows(t, k)
  BY <1>1, <1>2 DEF Following
<1>5. t \in Seq(SegmentType) /\ parsed.rest \in Seq(Symbols) /\ Len(t) \in Nat
      /\ segments \in Seq(SegmentType) /\ k \in Nat /\ run \in Seq(Symbols)
  <2>1. t \in Seq(SegmentType)
    BY <1>1, FunctionIs DEF TypeOK
  <2>2. parsed.rest \in Seq(Symbols) /\ segments \in Seq(SegmentType) /\ run \in Seq(Symbols)
    BY DEF TypeOK, ParsedType
  <2>3. QED
    BY <1>1, <2>1, <2>2
<1>6. Len(parsed.rest) \in Nat /\ at \in 1..Len(parsed.rest)
  <2>1. at \in 1..Len(parsed.rest) + 1
    BY DEF TypeOK
  <2>2. Len(parsed.rest) \in Nat
    BY <1>5
  <2>3. QED
    BY <1>2, <2>1, <2>2
<1>7. ASSUME run = <<>> \/ Len(run) # Len(t[k + 1].words)
      PROVE  /\ k + 1 \in 1..Len(t) /\ ~IsParam(t[k + 1]) /\ Len(run) \in Nat
             /\ Len(run) < Len(t[k + 1].words) /\ run = SubSeq(t[k + 1].words, 1, Len(run))
             /\ at = Start(t, k + 1) + Len(run)
  <2>1. CASE run # <<>>
    <3>1. /\ k + 1 \in 1..Len(t) /\ ~IsParam(t[k + 1])
          /\ Len(run) \in Nat /\ Len(run) < Len(t[k + 1].words)
      BY <1>1, <1>4, <1>7, <2>1, InLiteral
    <3>2. run = SubSeq(t[k + 1].words, 1, Len(run)) /\ at = Start(t, k + 1) + Len(run)
      BY <1>4, <2>1 DEF Follows, Within
    <3>3. QED
      BY <3>1, <3>2
  <2>2. CASE run = <<>>
    <3>1. at = Start(t, k + 1) /\ k <= Len(t)
      BY <1>4, <2>2 DEF Follows
    <3>2. Start(t, Len(t) + 1) = 1 + Len(parsed.rest)
      BY <1>3, <1>5, StartEnds
    <3>3. k # Len(t)
      BY <1>6, <3>1, <3>2
    <3>4. k + 1 \in 1..Len(t)
      BY <1>5, <3>1, <3>3
    <3>5. ~IsParam(t[k + 1])
      BY <1>1, <1>2, <1>3, <3>1, <3>4, ParamSpelled
    <3>6. t[k + 1] \in SegmentType /\ t[k + 1].words \in Seq(Symbols) /\ t[k + 1].words # <<>>
      <4>1. t[k + 1] \in SegmentType /\ k + 1 \in DOMAIN t
        BY <1>5, <3>4
      <4>2. t[k + 1].words # <<>>
        BY <1>1, <3>5, <4>1, FunctionIs DEF TypeOK, IsTemplate
      <4>3. QED
        BY <4>1, <4>2, SegmentHasWords
    <3>7. Len(t[k + 1].words) \in Nat \ {0} /\ SubSeq(t[k + 1].words, 1, 0) = <<>>
      BY <3>6
    <3>8. Len(run) = 0 /\ Start(t, k + 1) + 0 = Start(t, k + 1)
      BY <1>6, <2>2, <3>1
    <3>9. QED
      BY <2>2, <3>1, <3>4, <3>5, <3>7, <3>8
  <2>3. QED
    BY <2>1, <2>2
<1>8. ASSUME run # <<>>, Len(run) = Len(t[k + 1].words) PROVE FALSE
  <2>1. PICK n : n = Len(Flushed)
    OBVIOUS
  <2>2. n \in 0..Len(t) /\ at = Start(t, n + 1)
    BY <1>1, <1>4, <1>8, <2>1, FlushedFollows
  <2>3. n = k + 1
    <3>1. Literal(run) \in SegmentType
      BY <1>5, LiteralIs
    <3>2. Len(Append(segments, Literal(run))) = k + 1
      BY <1>1, <1>5, <3>1
    <3>3. QED
      BY <1>8, <2>1, <3>2 DEF Flushed
  <2>4. Start(t, Len(t) + 1) = 1 + Len(parsed.rest)
    BY <1>3, <1>5, StartEnds
  <2>5. n # Len(t)
    BY <1>6, <2>2, <2>4
  <2>6. n + 1 \in 1..Len(t) /\ n \in DOMAIN t /\ n < Len(t)
    BY <1>5, <2>2, <2>3, <2>5
  <2>7. ~IsParam(t[n + 1])
    BY <1>1, <1>2, <1>3, <2>2, <2>6, ParamSpelled
  <2>8. ~IsParam(t[n])
    BY <1>4, <1>8, <2>3 DEF Follows, Within
  <2>9. QED
    BY <1>1, <2>6, <2>7, <2>8 DEF Derivable
<1>9. PICK n, r, w : n = Len(run) /\ r = run' /\ w = t[k + 1].words
  OBVIOUS
<1>10. /\ k + 1 \in 1..Len(t) /\ ~IsParam(t[k + 1]) /\ n \in Nat
       /\ n < Len(w) /\ run = SubSeq(w, 1, n) /\ at = Start(t, k + 1) + n
  BY <1>7, <1>8, <1>9
<1>11. x = Spell(t)[Start(t, k + 1) + n]
  BY <1>1, <1>3, <1>10
<1>12. r = SubSeq(w, 1, n + 1) /\ Len(r) = n + 1 /\ n + 1 <= Len(w)
  <2>1. PICK i : i = k + 1
    OBVIOUS
  <2>2. /\ t \in Seq(SegmentType) /\ i \in 1..Len(t) /\ ~IsParam(t[i]) /\ n \in Nat
        /\ n < Len(t[i].words) /\ run = SubSeq(t[i].words, 1, n)
        /\ x = Spell(t)[Start(t, i) + n]
    BY <1>5, <1>9, <1>10, <1>11, <2>1
  <2>3. PICK u : u = Append(run, x)
    OBVIOUS
  <2>4. u = SubSeq(t[i].words, 1, n + 1) /\ Len(u) = n + 1 /\ n + 1 <= Len(t[i].words)
    BY ONLY <2>2, <2>3, NextOfLiteral
  <2>5. r = u /\ w = t[i].words
    BY <1>2, <1>9, <2>1, <2>3
  <2>6. QED
    BY <2>4, <2>5
<1>13. Start(t, k + 1) \in Nat
  BY <1>5, <1>10, StartNext
<1>14. at' = Start(t, k + 1) + Len(r)
  BY <1>2, <1>10, <1>12, <1>13
<1>15. k < Len(t)
  BY <1>5, <1>10
<1>16. r # <<>>
  BY <1>10, <1>12
<1>17. Follows(t, k)'
  <2>1. segments = SubSeq(t, 1, k) /\ k <= Len(t)
    BY <1>4 DEF Follows
  <2>2. Within(t, k)'
    BY <1>1, <1>2, <1>9, <1>10, <1>12, <1>14, <1>15 DEF Within
  <2>3. QED
    BY <1>1, <1>2, <1>9, <1>16, <2>1, <2>2 DEF Follows
<1>18. QED
  BY <1>1, <1>2, <1>17 DEF Following

\* derive: at the end of the rest the whole template has been followed.
LEMMA DeclareFollows ==
  ASSUME TypeOK, ReadSoFar, Following, Declare
  PROVE  Following'
<1> SUFFICES ASSUME Derivable(fn) PROVE Following'
  BY DEF Declare, Following
<1>1. PICK t, k : t = fn.template /\ k = Len(segments)
  OBVIOUS
<1>2. /\ pc = "derive" /\ pc' = "bind" /\ fn' = fn /\ segments' = Flushed
      /\ ~(at <= Len(parsed.rest))
  <2>1. at > Len(parsed.rest)
    BY DEF Declare
  <2>2. at \in 1..Len(parsed.rest) + 1 /\ parsed.rest \in Seq(Symbols)
    BY DEF TypeOK, ParsedType
  <2>3. Len(parsed.rest) \in Nat
    BY <2>2
  <2>4. ~(at <= Len(parsed.rest))
    BY <2>1, <2>2, <2>3
  <2>5. QED
    BY <2>4 DEF Declare
<1>3. parsed.rest = Spell(t)
  BY <1>1, <1>2, RestIsTemplate DEF TypeOK, ReadSoFar, Derivable
<1>4. Follows(t, k)
  BY <1>1, <1>2 DEF Following
<1>5. t \in Seq(SegmentType) /\ parsed.rest \in Seq(Symbols) /\ Len(t) \in Nat
  <2>1. t \in Seq(SegmentType)
    BY <1>1, FunctionIs DEF TypeOK
  <2>2. parsed.rest \in Seq(Symbols)
    BY DEF TypeOK, ParsedType
  <2>3. QED
    BY <2>1, <2>2
<1>6. at = Start(t, Len(t) + 1)
  <2>1. at \in 1..Len(parsed.rest) + 1
    BY DEF TypeOK
  <2>2. Len(parsed.rest) \in Nat
    BY <1>5
  <2>3. Start(t, Len(t) + 1) = 1 + Len(parsed.rest)
    BY <1>3, <1>5, StartEnds
  <2>4. QED
    BY <1>2, <2>1, <2>2, <2>3
<1>7. /\ \A i \in 1..Len(t) + 1 : Start(t, i) \in Nat
      /\ \A i, j \in 1..Len(t) + 1 : i < j => Start(t, i) < Start(t, j)
  BY <1>1, TemplateClimbs DEF TypeOK
<1>8. run # <<>> => Len(run) = Len(t[k + 1].words)
  <2> SUFFICES ASSUME run # <<>>, Len(run) # Len(t[k + 1].words) PROVE FALSE
    OBVIOUS
  <2>1. k + 1 \in 1..Len(t) /\ at < Start(t, k + 2) /\ at \in Nat
    BY <1>1, <1>4, InLiteral
  <2>2. k \in Nat
    <3>1. segments \in Seq(SegmentType)
      BY DEF TypeOK
    <3>2. QED
      BY <1>1, <3>1
  <2>3. k + 2 \in 1..Len(t) + 1 /\ Len(t) + 1 \in 1..Len(t) + 1
    BY <1>5, <2>1, <2>2
  <2>4. k + 2 = Len(t) + 1 \/ k + 2 < Len(t) + 1
    BY <1>5, <2>3
  <2>5. Start(t, k + 2) <= Start(t, Len(t) + 1)
    BY <1>7, <2>3, <2>4
  <2>6. QED
    BY <1>6, <1>7, <2>1, <2>3, <2>5
<1>9. PICK n : n = Len(Flushed)
  OBVIOUS
<1>10. n \in 0..Len(t) /\ Flushed = SubSeq(t, 1, n) /\ at = Start(t, n + 1)
  BY <1>1, <1>4, <1>8, <1>9, FlushedFollows
<1>11. n = Len(t)
  <2>1. n + 1 \in 1..Len(t) + 1 /\ Len(t) + 1 \in 1..Len(t) + 1
    BY <1>5, <1>10
  <2>2. ~(n + 1 < Len(t) + 1)
    BY <1>6, <1>7, <1>10, <2>1
  <2>3. QED
    BY <1>5, <1>10, <2>2
<1>12. SubSeq(t, 1, Len(t)) = t
  BY <1>5
<1>13. QED
  BY <1>1, <1>2, <1>10, <1>11, <1>12 DEF Following

\* Every step keeps to the template the name was spelled from.
LEMMA StepFollows ==
  ASSUME TypeOK, Fresh, ReadSoFar, Following, [Next]_vars
  PROVE  Following'
<1>1. CASE Parse
  BY <1>1, ParseFollows
<1>2. CASE TakeParam
  BY <1>2, TakeParamFollows
<1>3. CASE TakeWord
  BY <1>3, TakeWordFollows
<1>4. CASE Declare
  BY <1>4, DeclareFollows
<1>5. CASE BindNext
  <2>1. fn' = fn /\ pc = "bind" /\ pc' = pc /\ segments' = segments
    BY <1>5 DEF BindNext, reading
  <2>2. QED
    BY <2>1 DEF Following
<1>6. CASE Send
  <2>1. fn' = fn /\ pc = "bind" /\ pc' \in {"sent", "panicked"} /\ segments' = segments
    BY <1>6 DEF Send, reading
  <2>2. QED
    BY <2>1 DEF Following
<1>7. CASE UNCHANGED vars
  <2>1. fn' = fn /\ pc' = pc /\ segments' = segments /\ run' = run /\ at' = at
    BY <1>7 DEF vars, reading
  <2>2. QED
    BY <2>1 DEF Following, Follows, Within
<1>8. QED
  BY <1>1, <1>2, <1>3, <1>4, <1>5, <1>6, <1>7 DEF Next

(***************************************************************************)
(* A name that can be read in one way only is read that way, whatever      *)
(* arguments the function takes and in whatever order (derive_segments:    *)
(* the longest argument that matches is the one).                          *)
(***************************************************************************)
THEOREM TemplatesAreFound == Spec => []TemplateIsFound
<1>1. Init => TypeOK /\ Fresh /\ ReadSoFar /\ Following
  BY InitTyped DEF Init, ReadSoFar, Following
<1>2. TypeOK /\ Fresh /\ ReadSoFar /\ Following /\ [Next]_vars
        => (TypeOK /\ Fresh /\ ReadSoFar /\ Following)'
  BY StepTyped, StepReads, StepFollows
<1>3. Following => TemplateIsFound
  BY DEF Following, TemplateIsFound
<1>4. QED
  BY <1>1, <1>2, <1>3, PTL DEF Spec

=============================================================================
