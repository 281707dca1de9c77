--------------------------- MODULE InstallsProofs ---------------------------
(***************************************************************************)
(* Proofs about Installs: for any paths however they are spelled, any      *)
(* documents and any clients, which come, go and write meanwhile.          *)
(***************************************************************************)
EXTENDS Installs, FiniteSetTheorems, SequenceTheorems, TLAPS

----------------------------------------------------------------------------
(***************************************************************************)
(* Spellings.                                                              *)
(***************************************************************************)

\* A key spells a directory: each of its names, and a slash after it.
Spells(key, dir) ==
  /\ key = [i \in 1..2 * Len(dir) |-> key[i]]
  /\ \A i \in 1..Len(dir) : key[2 * i - 1] = dir[i] /\ key[2 * i] = "/"

\* A directory is a sequence of names.
IsDirectory(dir) ==
  /\ Len(dir) \in Nat \ {0} /\ dir = [i \in 1..Len(dir) |-> dir[i]]
  /\ \A i \in 1..Len(dir) : dir[i] # "/"

(***************************************************************************)
(* Half of a number, rounded up.                                           *)
(***************************************************************************)
LEMMA Half ==
  ASSUME NEW n \in Nat, n # 0
  PROVE  /\ (n + 1) \div 2 \in Nat \ {0}
         /\ n % 2 = 0 => 2 * ((n + 1) \div 2) = n
         /\ n % 2 # 0 => 2 * ((n + 1) \div 2) = n + 1
OBVIOUS

(***************************************************************************)
(* Whatever the slashes, the last one and the case: a path's key spells    *)
(* the directory it names.                                                 *)
(***************************************************************************)
LEMMA KeySpellsDirectory ==
  ASSUME NEW path, IsPath(path)
  PROVE  IsDirectory(Directory(path)) /\ Spells(NormalizeKey(path), Directory(path))
<1> DEFINE n == Len(path)
           many == (n + 1) \div 2
           dir == Directory(path)
           key == [i \in DOMAIN path |-> IF path[i] = "\\" THEN "/" ELSE LowerCase[path[i]]]
<1>1. /\ n \in Nat /\ n # 0 /\ DOMAIN path = 1..n
      /\ \A i \in 1..n : path[i] \in DOMAIN LowerCase /\ (path[i] \in Separators <=> i % 2 = 0)
  BY DEF IsPath
<1>2. /\ many \in Nat \ {0}
      /\ n % 2 = 0 => 2 * many = n
      /\ n % 2 # 0 => 2 * many = n + 1
  BY <1>1, Half
<1> HIDE DEF n
<1>3. \A i \in 1..many : /\ 2 * i - 1 \in 1..n /\ (2 * i - 1) % 2 # 0
                         /\ (2 * i) % 2 = 0 /\ (2 * i \in 1..n \/ 2 * i = n + 1)
  BY <1>1, <1>2
<1>4. dir = [i \in 1..many |-> LowerCase[path[2 * i - 1]]]
  BY DEF Directory, n
<1> HIDE DEF many, dir
<1>5. Len(dir) = many
  BY <1>2, <1>4
<1>6. \A i \in 1..n : key[i] = IF i % 2 = 0 THEN "/" ELSE LowerCase[path[i]]
  BY <1>1, SpellingAssumption DEF Separators
<1>7. key = [i \in 1..n |-> key[i]]
  BY <1>1
<1> HIDE DEF key
<1>8. \A i \in 1..n : i % 2 # 0 => key[i] # "/"
  BY <1>1, <1>6, SpellingAssumption
<1>9. IsDirectory(dir)
  BY <1>1, <1>2, <1>3, <1>4, <1>5, SpellingAssumption DEF IsDirectory
<1>10. Len(key) = n /\ Last(key) = key[n]
  BY <1>1, <1>7 DEF Last
<1>11. CASE n % 2 = 0
  <2>1. NormalizeKey(path) = key
    BY <1>1, <1>6, <1>10, <1>11 DEF NormalizeKey, key
  <2>2. Spells(key, dir)
    BY <1>2, <1>3, <1>4, <1>5, <1>6, <1>7, <1>11 DEF Spells
  <2>3. QED
    BY <1>9, <2>1, <2>2 DEF dir
<1>12. CASE n % 2 # 0
  <2> DEFINE all == Append(key, "/")
  <2>1. NormalizeKey(path) = all
    BY <1>1, <1>8, <1>10, <1>12 DEF NormalizeKey, key
  <2>2. all = [i \in 1..n + 1 |-> IF i = n + 1 THEN "/" ELSE key[i]]
    BY <1>1, <1>7, <1>10
  <2> HIDE DEF all
  <2>3. all = [i \in 1..n + 1 |-> all[i]] /\ \A i \in 1..n : all[i] = key[i]
    BY <1>1, <2>2
  <2>4. Spells(all, dir)
    BY <1>1, <1>2, <1>3, <1>4, <1>5, <1>6, <1>12, <2>2, <2>3 DEF Spells
  <2>5. QED
    BY <1>9, <2>1, <2>4 DEF dir
<1>13. QED
  BY <1>11, <1>12

(***************************************************************************)
(* Two keys are one when they spell one directory, and only then.          *)
(***************************************************************************)
LEMMA OneKeyOneDirectory ==
  ASSUME NEW k, NEW l, NEW d, NEW e, IsDirectory(d), IsDirectory(e), Spells(k, d), Spells(l, e)
  PROVE  k = l <=> d = e
<1>1. /\ Len(d) \in Nat \ {0} /\ d = [i \in 1..Len(d) |-> d[i]]
      /\ Len(e) \in Nat \ {0} /\ e = [i \in 1..Len(e) |-> e[i]]
  BY DEF IsDirectory
<1> DEFINE m == Len(d)
           n == Len(e)
<1>2. /\ k = [i \in 1..2 * m |-> k[i]] /\ l = [i \in 1..2 * n |-> l[i]]
      /\ \A i \in 1..m : k[2 * i - 1] = d[i] /\ k[2 * i] = "/"
      /\ \A i \in 1..n : l[2 * i - 1] = e[i] /\ l[2 * i] = "/"
  BY DEF Spells
<1> HIDE DEF m, n
<1>3. ASSUME k = l PROVE d = e
  <2>1. 1..2 * m = 1..2 * n
    BY <1>2, <1>3
  <2>2. m = n
    <3>1. 2 * m \in 1..2 * n /\ 2 * n \in 1..2 * m /\ m \in Nat /\ n \in Nat
      BY <1>1, <2>1 DEF m, n
    <3>2. QED
      BY <3>1
  <2>3. \A i \in 1..m : d[i] = e[i]
    BY <1>2, <1>3, <2>2
  <2>4. QED
    BY <1>1, <2>2, <2>3 DEF m, n
<1>4. ASSUME d = e PROVE k = l
  <2>1. m = n /\ m \in Nat
    BY <1>1, <1>4 DEF m, n
  <2>2. \A i \in 1..2 * m : \/ \E j \in 1..m : i = 2 * j - 1
                            \/ \E j \in 1..m : i = 2 * j
    <3> SUFFICES ASSUME NEW i \in 1..2 * m
                 PROVE  (\E j \in 1..m : i = 2 * j - 1) \/ (\E j \in 1..m : i = 2 * j)
      OBVIOUS
    <3> DEFINE j == (i + 1) \div 2
    <3>1. i \in Nat /\ i # 0 /\ i <= 2 * m
      BY <2>1
    <3>2. j \in Nat \ {0} /\ (2 * j = i \/ 2 * j = i + 1)
      BY <3>1, Half
    <3> HIDE DEF j
    <3>3. j \in 1..m /\ (i = 2 * j \/ i = 2 * j - 1)
      BY <2>1, <3>1, <3>2
    <3>4. QED
      BY <3>3
  <2>3. \A j \in 1..m : k[2 * j - 1] = l[2 * j - 1] /\ k[2 * j] = l[2 * j]
    BY <1>2, <1>4, <2>1
  <2>4. \A i \in 1..2 * m : k[i] = l[i]
    BY <2>2, <2>3
  <2>5. QED
    BY <1>2, <2>1, <2>4
<1>5. QED
  BY <1>3, <1>4

(***************************************************************************)
(* The install a root belongs to: the directory over it where the root is  *)
(* called Game and is in one, and otherwise itself.                        *)
(***************************************************************************)
InstallOf(dir) == IF Len(dir) > 1 /\ Last(dir) = "game" THEN Front(dir) ELSE dir

\* installs_key of a path spells the install that the path's root belongs to.
LEMMA InstallsKeySpells ==
  ASSUME NEW path, IsPath(path)
  PROVE  LET install == InstallOf(Directory(path))
         IN  IsDirectory(install) /\ Spells(InstallsKey(path), install)
<1> DEFINE dir == Directory(path)
           key == NormalizeKey(path)
           n == Len(key)
           m == Len(dir)
<1>1. IsDirectory(dir) /\ Spells(key, dir)
  BY KeySpellsDirectory
<1> HIDE DEF dir, key
<1>2. /\ m \in Nat \ {0} /\ dir = [i \in 1..m |-> dir[i]] /\ \A i \in 1..m : dir[i] # "/"
      /\ key = [i \in 1..2 * m |-> key[i]]
      /\ \A i \in 1..m : key[2 * i - 1] = dir[i] /\ key[2 * i] = "/"
  BY <1>1 DEF IsDirectory, Spells
<1> HIDE DEF m
<1>3. n = 2 * m
  BY <1>2
<1> HIDE DEF n
<1>4. Last(dir) = dir[m] /\ Front(dir) = SubSeq(dir, 1, m - 1)
  BY DEF Last, Front, m
<1>5. /\ m > 1 <=> n > 2
      /\ n - 1 = 2 * m - 1 /\ n - 2 = 2 * (m - 1)
      /\ m \in 1..m /\ (m > 1 => m - 1 \in 1..m)
  BY <1>2, <1>3
<1>6. key[n - 1] = dir[m] /\ key[n] = "/" /\ (m > 1 => key[n - 2] = "/")
  BY <1>2, <1>3, <1>5
<1>7. SubSeq(key, n - 1, n) = <<"game", "/">> <=> dir[m] = "game"
  <2> DEFINE end == SubSeq(key, n - 1, n)
  <2>1. n - 1 \in Int /\ n \in Int /\ n - (n - 1) + 1 = 2 /\ n - 1 <= n
    BY <1>2, <1>3
  <2>2. PICK S : S = {key[i] : i \in n - 1..n}
    OBVIOUS
  <2>3. end \in Seq(S) /\ Len(end) = 2 /\ end[1] = key[n - 1] /\ end[2] = key[n]
    <3>1. /\ end \in Seq(S)
          /\ Len(end) = IF n - 1 <= n THEN n - (n - 1) + 1 ELSE 0
          /\ \A i \in 1..n - (n - 1) + 1 : end[i] = key[n - 1 + i - 1]
      BY <2>1, <2>2, SubSeqProperties
    <3>2. Len(end) = 2 /\ 1 \in 1..n - (n - 1) + 1 /\ 2 \in 1..n - (n - 1) + 1
      BY <2>1, <3>1
    <3>3. n - 1 + 1 - 1 = n - 1 /\ n - 1 + 2 - 1 = n
      BY <2>1
    <3>4. QED
      BY <3>1, <3>2, <3>3
  <2> HIDE DEF end
  <2>4. end = <<end[1], end[2]>>
    BY <2>3
  <2>5. PICK a, b : a = end[1] /\ b = end[2]
    OBVIOUS
  <2>6. <<a, b>> = <<"game", "/">> <=> a = "game" /\ b = "/"
    OBVIOUS
  <2>7. a = dir[m] /\ b = "/" /\ end = <<a, b>>
    BY <1>6, <2>3, <2>4, <2>5
  <2>8. QED
    BY <2>6, <2>7 DEF end
<1>8. CASE m > 1 /\ dir[m] = "game"
  <2> DEFINE front == SubSeq(dir, 1, m - 1)
             cut == SubSeq(key, 1, n - 2)
  <2>1. InstallsKey(path) = cut
    BY <1>5, <1>6, <1>7, <1>8 DEF InstallsKey, key, n
  <2>2. InstallOf(dir) = front
    BY <1>4, <1>8 DEF InstallOf, m
  <2>3. PICK S : S = {dir[i] : i \in 1..m}
    OBVIOUS
  <2>4. /\ front \in Seq(S) /\ Len(front) = m - 1
        /\ \A i \in 1..m - 1 : front[i] = dir[i]
    <3>1. 1 \in Int /\ m - 1 \in Int /\ \A i \in 1..m - 1 : dir[i] \in S
      BY <1>2, <2>3
    <3>2. /\ front \in Seq(S)
          /\ Len(front) = IF 1 <= m - 1 THEN m - 1 - 1 + 1 ELSE 0
          /\ \A i \in 1..m - 1 - 1 + 1 : front[i] = dir[1 + i - 1]
      BY <3>1, SubSeqProperties
    <3>3. 1 <= m - 1 /\ m - 1 - 1 + 1 = m - 1 /\ \A i \in 1..m - 1 : 1 + i - 1 = i
      BY <1>2, <1>8
    <3>4. QED
      BY <3>2, <3>3
  <2>5. PICK T : T = {key[i] : i \in 1..n}
    OBVIOUS
  <2>6. /\ cut \in Seq(T) /\ Len(cut) = n - 2
        /\ \A i \in 1..n - 2 : cut[i] = key[i]
    <3>1. 1 \in Int /\ n - 2 \in Int /\ \A i \in 1..n - 2 : key[i] \in T
      BY <1>2, <1>3, <2>5
    <3>2. /\ cut \in Seq(T)
          /\ Len(cut) = IF 1 <= n - 2 THEN n - 2 - 1 + 1 ELSE 0
          /\ \A i \in 1..n - 2 - 1 + 1 : cut[i] = key[1 + i - 1]
      BY <3>1, SubSeqProperties
    <3>3. 1 <= n - 2 /\ n - 2 - 1 + 1 = n - 2 /\ \A i \in 1..n - 2 : 1 + i - 1 = i
      BY <1>2, <1>3, <1>8
    <3>4. QED
      BY <3>2, <3>3
  <2> HIDE DEF front, cut
  <2>7. IsDirectory(front)
    <3>1. m - 1 \in Nat \ {0} /\ \A i \in 1..m - 1 : i \in 1..m
      BY <1>2, <1>8
    <3>2. Len(front) \in Nat \ {0} /\ front = [i \in 1..Len(front) |-> front[i]]
      BY <2>4, <3>1
    <3>3. \A i \in 1..Len(front) : front[i] # "/"
      BY <1>2, <2>4, <3>1
    <3>4. QED
      BY <3>2, <3>3 DEF IsDirectory
  <2>8. Spells(cut, front)
    <3>1. cut = [i \in 1..2 * (m - 1) |-> cut[i]]
      BY <1>5, <2>6
    <3>2. \A i \in 1..m - 1 : cut[2 * i - 1] = front[i] /\ cut[2 * i] = "/"
      <4>1. \A i \in 1..m - 1 : /\ i \in 1..m
                                /\ 2 * i - 1 \in 1..n - 2 /\ 2 * i \in 1..n - 2
        BY <1>2, <1>3
      <4>2. QED
        BY <1>2, <2>4, <2>6, <4>1
    <3>3. QED
      BY <2>4, <3>1, <3>2 DEF Spells
  <2>9. QED
    BY <2>1, <2>2, <2>7, <2>8 DEF dir
<1>9. CASE ~(m > 1 /\ dir[m] = "game")
  <2>1. InstallsKey(path) = key
    BY <1>5, <1>6, <1>7, <1>9 DEF InstallsKey, key, n
  <2>2. InstallOf(dir) = dir
    BY <1>4, <1>9 DEF InstallOf, m
  <2>3. QED
    BY <1>1, <2>1, <2>2 DEF dir
<1>10. QED
  BY <1>8, <1>9

(***************************************************************************)
(* An association is looked up by the directory alone (installs.rs:288).   *)
(***************************************************************************)
LEMMA SpellingIsNothing ==
  ASSUME NEW install, NEW ours, IsPath(install), IsPath(ours)
  PROVE  NormalizeKey(install) = InstallsKey(ours) <=> Directory(install) = InstallOf(Directory(ours))
BY KeySpellsDirectory, InstallsKeySpells, OneKeyOneDirectory

----------------------------------------------------------------------------
(***************************************************************************)
(* Candidates.                                                             *)
(***************************************************************************)

\* The clients that a document associates with our install.
Associates(d) ==
  IF root = None THEN {}
  ELSE {d.associated[k] : k \in {l \in DOMAIN d.associated :
                                   Directory(l) = InstallOf(Directory(root))}}

RootIsPath == root = None \/ IsPath(root)

(***************************************************************************)
(* An ordering of a finite set holds each of its members.                  *)
(***************************************************************************)
LEMMA OrderingHoldsAll ==
  ASSUME NEW S, IsFiniteSet(S), NEW s \in SetToSeqs(S)
  PROVE  s \in Seq(S) /\ Len(s) = Cardinality(S) /\ \A x \in S : \E i \in DOMAIN s : s[i] = x
<1> DEFINE n == Cardinality(S)
           D == 1..n
           T == {s[i] : i \in D}
<1>1. n \in Nat
  BY FS_CardinalityType
<1>2. s \in [D -> S] /\ \A i, j \in D : i # j => s[i] # s[j]
  BY DEF SetToSeqs
<1> HIDE DEF n
<1>3. s \in Seq(S) /\ Len(s) = n /\ DOMAIN s = D
  BY <1>1, <1>2
<1>4. IsFiniteSet(D) /\ Cardinality(D) = n
  BY <1>1, FS_Interval
<1>5. s \in Surjection(D, T) /\ s \in Injection(D, T)
  BY <1>2 DEF Surjection, Injection, IsInjective
<1>6. IsFiniteSet(T) /\ Cardinality(T) = n
  BY <1>4, <1>5, FS_Surjection
<1>7. T \subseteq S
  BY <1>2
<1>8. T = S
  BY <1>6, <1>7, FS_Subset DEF n
<1>9. QED
  BY <1>3, <1>8 DEF n

(***************************************************************************)
(* Whatever the order of the keys, the candidates are the associated       *)
(* clients, and after those the default and the live one.                  *)
(***************************************************************************)
LEMMA AssociatedIs ==
  ASSUME RootIsPath, NEW d, IsDocument(d), NEW as \in Associated(d)
  PROVE  as \in Seq(Exes) /\ ToSet(as) = Associates(d)
<1>1. CASE root = None
  <2>1. as = <<>>
    BY <1>1 DEF Associated
  <2>2. ToSet(as) = {} /\ as \in Seq(Exes)
    BY <2>1 DEF ToSet
  <2>3. QED
    BY <1>1, <2>2 DEF Associates
<1>2. CASE root # None
  <2> DEFINE keys == {k \in DOMAIN d.associated : NormalizeKey(k) = InstallsKey(root)}
  <2>1. d.associated \in [DOMAIN d.associated -> Exes] /\ IsFiniteSet(DOMAIN d.associated)
    BY DEF IsDocument
  <2>2. keys = {l \in DOMAIN d.associated : Directory(l) = InstallOf(Directory(root))}
    BY <1>2, SpellingIsNothing DEF RootIsPath, IsDocument
  <2>3. IsFiniteSet(keys)
    BY <2>1, FS_Subset
  <2>4. PICK ks \in SetToSeqs(keys) : as = [i \in DOMAIN ks |-> d.associated[ks[i]]]
    BY <1>2 DEF Associated
  <2> HIDE DEF keys
  <2>5. /\ ks \in Seq(keys) /\ Len(ks) \in Nat /\ DOMAIN ks = 1..Len(ks)
        /\ \A x \in keys : \E i \in DOMAIN ks : ks[i] = x
    BY <2>3, <2>4, OrderingHoldsAll
  <2>6. \A i \in DOMAIN ks : ks[i] \in keys /\ ks[i] \in DOMAIN d.associated
    BY <2>5 DEF keys
  <2>7. as \in Seq(Exes)
    <3>1. \A i \in 1..Len(ks) : d.associated[ks[i]] \in Exes
      BY <2>1, <2>5, <2>6
    <3>2. as \in [1..Len(ks) -> Exes]
      BY <2>4, <2>5, <3>1
    <3>3. PICK n \in Nat : n = Len(ks)
      BY <2>5
    <3>4. \A s \in [1..n -> Exes] : s \in Seq(Exes)
      OBVIOUS
    <3>5. QED
      BY <3>2, <3>3, <3>4
  <2>8. ToSet(as) = {d.associated[k] : k \in keys}
    <3>1. DOMAIN as = DOMAIN ks /\ \A i \in DOMAIN ks : as[i] = d.associated[ks[i]]
      BY <2>4
    <3>2. ToSet(as) = {d.associated[ks[i]] : i \in DOMAIN ks}
      BY <3>1 DEF ToSet
    <3>3. {d.associated[ks[i]] : i \in DOMAIN ks} = {d.associated[k] : k \in keys}
      BY <2>5, <2>6
    <3>4. QED
      BY <3>2, <3>3
  <2>9. QED
    BY <1>2, <2>2, <2>7, <2>8 DEF Associates
<1>3. QED
  BY <1>1, <1>2

\* The candidates are the associated clients and the two given, an owner first.
LEMMA CandidatesAre ==
  ASSUME RootIsPath, NEW d, IsDocument(d), NEW c \in Candidates(d)
  PROVE  /\ c \in Seq(Exes)
         /\ ToSet(c) = (Associates(d) \cup {d.rcDefault, d.rcLive}) \ {None}
         /\ Associates(d) # {} => 1 \in DOMAIN c /\ c[1] \in Associates(d)
<1>1. PICK as \in Associated(d) : c = as \o Given(d.rcDefault) \o Given(d.rcLive)
  BY DEF Candidates
<1>2. as \in Seq(Exes) /\ ToSet(as) = Associates(d)
  BY AssociatedIs
<1> DEFINE a == Given(d.rcDefault)
           b == Given(d.rcLive)
<1>3. /\ a \in Seq(Exes) /\ ToSet(a) = {d.rcDefault} \ {None}
      /\ b \in Seq(Exes) /\ ToSet(b) = {d.rcLive} \ {None}
  <2>1. \A e \in Exes \cup {None} :
          Given(e) \in Seq(Exes) /\ ToSet(Given(e)) = {e} \ {None}
    <3>1. ASSUME NEW e \in Exes
          PROVE  Given(e) \in Seq(Exes) /\ ToSet(Given(e)) = {e} \ {None}
      <4>1. e # None /\ Given(e) = <<e>>
        BY ConstantsAssumption DEF Given
      <4>2. PICK one : one = <<e>>
        OBVIOUS
      <4>3. one \in Seq(Exes) /\ DOMAIN one = {1} /\ one[1] = e
        BY <4>2
      <4>4. QED
        BY <4>1, <4>2, <4>3 DEF ToSet
    <3>2. Given(None) = <<>>
      BY DEF Given
    <3>3. Given(None) \in Seq(Exes) /\ ToSet(Given(None)) = {}
      BY <3>2 DEF ToSet
    <3>4. QED
      BY <3>1, <3>3
  <2>2. d.rcDefault \in Exes \cup {None} /\ d.rcLive \in Exes \cup {None}
    BY DEF IsDocument
  <2>3. QED
    BY <2>1, <2>2
<1> HIDE DEF a, b
<1>4. ASSUME NEW s \in Seq(Exes), NEW t \in Seq(Exes)
      PROVE  /\ s \o t \in Seq(Exes)
             /\ ToSet(s \o t)
                  = ToSet(s) \cup ToSet(t)
             /\ 1 \in DOMAIN s => 1 \in DOMAIN (s \o t) /\ (s \o t)[1] = s[1]
  <2>1. PICK u : u = s \o t
    OBVIOUS
  <2>2. /\ u \in Seq(Exes) /\ Len(s) \in Nat /\ Len(t) \in Nat /\ Len(u) = Len(s) + Len(t)
        /\ DOMAIN s = 1..Len(s) /\ DOMAIN t = 1..Len(t) /\ DOMAIN u = 1..Len(u)
        /\ \A i \in 1..Len(s) : u[i] = s[i]
        /\ \A i \in 1..Len(t) : u[Len(s) + i] = t[i]
    BY <2>1
  <2>3. \A i \in DOMAIN u : \/ i \in DOMAIN s /\ u[i] = s[i]
                            \/ \E j \in DOMAIN t : u[i] = t[j]
    <3> SUFFICES ASSUME NEW i \in DOMAIN u, i \notin DOMAIN s PROVE \E j \in DOMAIN t : u[i] = t[j]
      BY <2>2
    <3>1. i - Len(s) \in 1..Len(t) /\ Len(s) + (i - Len(s)) = i
      BY <2>2
    <3>2. QED
      BY <2>2, <3>1
  <2>4. /\ \A i \in DOMAIN s : i \in DOMAIN u /\ u[i] = s[i]
        /\ \A j \in DOMAIN t : Len(s) + j \in DOMAIN u /\ u[Len(s) + j] = t[j]
    BY <2>2
  <2>5. ToSet(u) = ToSet(s) \cup ToSet(t)
    BY <2>3, <2>4 DEF ToSet
  <2>6. QED
    BY <2>1, <2>2, <2>4, <2>5
<1>5. PICK ab : ab = as \o a
  OBVIOUS
<1>6. /\ ab \in Seq(Exes)
      /\ ToSet(ab) = Associates(d) \cup ({d.rcDefault} \ {None})
      /\ 1 \in DOMAIN as => 1 \in DOMAIN ab /\ ab[1] = as[1]
  BY <1>2, <1>3, <1>4, <1>5
<1>7. c = ab \o b
  BY <1>1, <1>5 DEF a, b
<1>8. /\ c \in Seq(Exes)
      /\ ToSet(c)
           = Associates(d) \cup ({d.rcDefault} \ {None}) \cup ({d.rcLive} \ {None})
      /\ 1 \in DOMAIN as => 1 \in DOMAIN c /\ c[1] = as[1]
  <2>1. /\ ab \o b \in Seq(Exes) /\ ToSet(ab \o b) = ToSet(ab) \cup ToSet(b)
        /\ 1 \in DOMAIN ab => 1 \in DOMAIN (ab \o b) /\ (ab \o b)[1] = ab[1]
    BY <1>3, <1>4, <1>6
  <2>2. QED
    BY <1>3, <1>6, <1>7, <2>1
<1>9. Associates(d) \subseteq Exes /\ None \notin Associates(d)
  <2>1. as \in Seq(Exes)
    BY <1>2
  <2>2. \A i \in DOMAIN as : as[i] \in Exes
    <3>1. \A s \in Seq(Exes) : \A i \in DOMAIN s : s[i] \in Exes
      OBVIOUS
    <3>2. QED
      BY <2>1, <3>1
  <2>3. ToSet(as) \subseteq Exes
    BY <2>2 DEF ToSet
  <2>4. QED
    BY <1>2, <2>3, ConstantsAssumption
<1>10. Associates(d) # {} => 1 \in DOMAIN as /\ as[1] \in Associates(d)
  <2>1. as # <<>> => 1 \in DOMAIN as
    <3>1. \A s \in Seq(Exes) : s # <<>> => 1 \in DOMAIN s
      OBVIOUS
    <3>2. QED
      BY <1>2, <3>1
  <2>2. as = <<>> => ToSet(as) = {}
    BY DEF ToSet
  <2>3. 1 \in DOMAIN as => as[1] \in ToSet(as)
    BY DEF ToSet
  <2>4. QED
    BY <1>2, <2>1, <2>2, <2>3
<1>11. QED
  BY <1>8, <1>9, <1>10

(***************************************************************************)
(* The clients of the install are those associated with it; all of them    *)
(* where no install is in a directory called Game.                         *)
(***************************************************************************)
LEMMA AssociatesAreOwners ==
  ASSUME RootIsPath, read # None, IsDocument(read)
  PROVE  Associates(read) \subseteq Owners /\ (NoneIsCalledGame => Associates(read) = Owners)
<1>1. CASE root = None
  BY <1>1 DEF Associates, Owners, ClientsOf
<1>2. CASE root # None
  <2> DEFINE ours == Directory(root)
             installs == DOMAIN read.associated
  <2>1. IsDirectory(ours) /\ \A l \in installs : IsDirectory(Directory(l))
    BY <1>2, KeySpellsDirectory DEF RootIsPath, IsDocument
  <2>2. \A l \in installs : Directory(l) = InstallOf(ours) => IsItselfOrParent(Directory(l), ours)
    BY DEF InstallOf, IsItselfOrParent
  <2>3. ASSUME NoneIsCalledGame, NEW l \in installs, IsItselfOrParent(Directory(l), ours)
        PROVE  Directory(l) = InstallOf(ours)
    <3>1. Last(Directory(l)) # "game"
      BY <2>3 DEF NoneIsCalledGame
    <3>2. CASE Directory(l) = ours
      BY <3>1, <3>2 DEF InstallOf
    <3>3. CASE Last(ours) = "game" /\ Directory(l) = Front(ours)
      <4>1. Len(ours) > 1
        <5> SUFFICES ASSUME ~(Len(ours) > 1) PROVE FALSE
          OBVIOUS
        <5>1. Len(ours) = 1
          BY <2>1 DEF IsDirectory
        <5>2. Front(ours) = <<>>
          BY <5>1, SubSeqEmpty DEF Front
        <5>3. Len(Directory(l)) = 0
          BY <3>3, <5>2
        <5>4. QED
          BY <2>1, <5>3 DEF IsDirectory
      <4>2. QED
        BY <3>3, <4>1 DEF InstallOf
    <3>4. QED
      BY <2>3, <3>2, <3>3 DEF IsItselfOrParent
  <2>4. Associates(read) = {read.associated[k] : k \in {l \in installs : Directory(l) = InstallOf(ours)}}
    BY <1>2 DEF Associates
  <2>5. Owners = {read.associated[k] : k \in {l \in installs : IsItselfOrParent(Directory(l), ours)}}
    BY <1>2 DEF Owners, ClientsOf
  <2> HIDE DEF ours, installs
  <2>6. QED
    BY <2>2, <2>3, <2>4, <2>5
<1>3. QED
  BY <1>1, <1>2

----------------------------------------------------------------------------
(***************************************************************************)
(* The inductive invariant.                                                *)
(***************************************************************************)

\* What is written, and what was read of it, is a document; what is not gone
\* since the document was read is on disk.
Standing ==
  /\ RootIsPath
  /\ \A d \in {doc, next, read} \ {None} : IsDocument(d)
  /\ disk \subseteq Exes
  /\ ~At("load") => Exes \ gone \subseteq disk

\* The queue is what is left of the candidates, and those before it were gone
\* when they were looked at.
LeftOf(c) ==
  \E n \in 0..Len(c) :
    /\ Len(queue) = Len(c) - n /\ \A i \in 1..Len(queue) : queue[i] = c[n + i]
    /\ \A i \in 1..n : c[i] \in gone

FirstOf(c) == \E n \in 1..Len(c) : exe = c[n] /\ \A i \in 1..n - 1 : c[i] \in gone

Looking ==
  /\ pc \in {"load", "test", "found", "notFound"}
  /\ At("test") => read # None /\ queue \in Seq(Exes) /\ \E c \in Candidates(read) : LeftOf(c)
  /\ At("found") => read # None /\ \E c \in Candidates(read) : FirstOf(c)
  /\ At("notFound") =>
       read = None \/ \E c \in Candidates(read) : \A i \in DOMAIN c : c[i] \in gone

InstallsInv == Standing /\ Looking

(***************************************************************************)
(* A client that starts leaves a document.                                 *)
(***************************************************************************)
LEMMA WrittenIsADocument ==
  ASSUME NEW d, IsDocument(d), NEW default \in Exes \cup {None}, NEW live \in Exes \cup {None}
  PROVE  IsDocument([d EXCEPT !.rcDefault = default, !.rcLive = live])
<1>1. PICK e : e = [d EXCEPT !.rcDefault = default, !.rcLive = live]
  OBVIOUS
<1>2. PICK S : S = [DOMAIN d.associated -> Exes]
  OBVIOUS
<1>3. d \in [associated : S, rcDefault : Exes \cup {None}, rcLive : Exes \cup {None}]
  BY <1>2 DEF IsDocument
<1>4. /\ e \in [associated : S, rcDefault : Exes \cup {None}, rcLive : Exes \cup {None}]
      /\ e.associated = d.associated
  BY <1>1, <1>3
<1>5. IsDocument(e)
  BY <1>2, <1>4 DEF IsDocument
<1>6. QED
  BY <1>1, <1>5

(***************************************************************************)
(* What is left, found or given up stays so while more clients go.         *)
(***************************************************************************)
LEMMA GoneStaysGone ==
  ASSUME Looking, UNCHANGED <<root, pc, queue, exe, read>>, At("load") \/ gone \subseteq gone'
  PROVE  Looking'
<1>1. Candidates(read)' = Candidates(read)
  BY DEF Candidates, Associated
<1>2. ASSUME ~At("load"), NEW c
      PROVE  /\ LeftOf(c) => LeftOf(c)'
             /\ FirstOf(c) => FirstOf(c)'
             /\ (\A i \in DOMAIN c : c[i] \in gone) => \A i \in DOMAIN c : c[i] \in gone'
  BY <1>2 DEF LeftOf, FirstOf
<1>3. QED
  BY <1>1, <1>2 DEF Looking, At

\* The documents stay documents, and what is not gone since the reading stays on disk.
LEMMA StandingStep ==
  ASSUME Standing, [Next]_vars
  PROVE  Standing'
<1>1. UNCHANGED root
  BY DEF Next, Load, Test, Machine, StartClient, EndWrite, RemoveClient, PutClient, Moving, vars
<1>2. RootIsPath'
  BY <1>1 DEF Standing, RootIsPath
<1>3. CASE Load
  BY <1>2, <1>3 DEF Load, machine, Standing, At
<1>4. CASE Test
  BY <1>2, <1>4 DEF Test, machine, Standing, At
<1>5. ASSUME NEW c \in Exes, StartClient(c) PROVE Standing'
  <2>1. PICK live \in {doc.rcLive, c} : next' = [doc EXCEPT !.rcDefault = c, !.rcLive = live]
    BY <1>5 DEF StartClient
  <2>2. doc # None /\ IsDocument(doc)
    BY <1>5 DEF StartClient, Standing
  <2>3. live \in Exes \cup {None}
    BY <2>1, <2>2 DEF IsDocument
  <2>4. IsDocument(next')
    BY <2>1, <2>2, <2>3, WrittenIsADocument
  <2>5. doc' = None /\ UNCHANGED <<disk, gone, pc, read>>
    BY <1>5 DEF StartClient, Moving
  <2>6. QED
    BY <1>2, <2>4, <2>5 DEF Standing, At
<1>6. ASSUME NEW c \in Exes, RemoveClient(c) PROVE Standing'
  BY <1>2, <1>6 DEF RemoveClient, Moving, Standing, At
<1>7. ASSUME NEW c \in Exes, PutClient(c) PROVE Standing'
  BY <1>2, <1>7 DEF PutClient, Moving, Standing, At
<1>8. CASE EndWrite
  BY <1>2, <1>8 DEF EndWrite, call, Standing, At
<1>9. CASE UNCHANGED vars
  BY <1>2, <1>9 DEF vars, machine, call, Standing, At
<1>10. QED
  BY <1>3, <1>4, <1>5, <1>6, <1>7, <1>8, <1>9 DEF Next, Machine

\* What is known of the candidates tested so far, whatever step comes next.
LEMMA LookingStep ==
  ASSUME Standing, Looking, [Next]_vars
  PROVE  Looking'
<1>1. CASE Load
  <2>1. read' = doc /\ UNCHANGED root
    BY <1>1 DEF Load
  <2>2. CASE doc = None
    <3>1. pc' = "notFound"
      BY <1>1, <2>2 DEF Load
    <3>2. QED
      BY <2>1, <2>2, <3>1 DEF Looking, At
  <2>3. CASE doc # None
    <3>1. pc' = "test" /\ queue' \in Candidates(doc)
      BY <1>1, <2>3 DEF Load
    <3>2. Candidates(read)' = Candidates(doc)
      BY <2>1 DEF Candidates, Associated
    <3>3. queue' \in Seq(Exes)
      BY <2>3, <3>1, CandidatesAre DEF Standing
    <3>4. PICK c : c = queue'
      OBVIOUS
    <3>5. Len(c) \in Nat
      BY <3>3, <3>4
    <3>6. LeftOf(c)'
      <4>1. 0 \in 0..Len(c) /\ Len(c) = Len(c) - 0 /\ \A i \in 1..Len(c) : 0 + i = i
        BY <3>5
      <4>2. 1..0 = {}
        OBVIOUS
      <4>3. QED
        BY <3>4, <4>1, <4>2 DEF LeftOf
    <3>7. QED
      BY <2>1, <2>3, <3>1, <3>2, <3>3, <3>4, <3>6 DEF Looking, At
  <2>4. QED
    BY <2>2, <2>3
<1>2. CASE Test
  <2>1. pc = "test" /\ UNCHANGED <<root, read, gone, disk>>
    BY <1>2 DEF Test, At, machine
  <2>2. read # None /\ queue \in Seq(Exes)
    BY <2>1 DEF Looking, At
  <2>3. PICK c \in Candidates(read) : LeftOf(c)
    BY <2>1 DEF Looking, At
  <2>4. c \in Candidates(read)'
    <3>1. Candidates(read)' = Candidates(read)
      BY <2>1 DEF Candidates, Associated
    <3>2. QED
      BY <2>3, <3>1
  <2>5. PICK n \in 0..Len(c) :
          /\ Len(queue) = Len(c) - n /\ \A i \in 1..Len(queue) : queue[i] = c[n + i]
          /\ \A i \in 1..n : c[i] \in gone
    BY <2>3 DEF LeftOf
  <2>6. c \in Seq(Exes)
    BY <2>2, <2>3, CandidatesAre DEF Standing
  <2>7. Len(c) \in Nat /\ DOMAIN c = 1..Len(c) /\ n \in Nat /\ n <= Len(c)
    BY <2>6
  <2>8. CASE queue = <<>>
    <3>1. pc' = "notFound" /\ Len(queue) = 0
      BY <1>2, <2>8 DEF Test
    <3>2. n = Len(c)
      BY <2>5, <2>7, <3>1
    <3>3. \A i \in DOMAIN c : c[i] \in gone'
      BY <2>1, <2>5, <2>7, <3>2
    <3>4. QED
      BY <2>4, <3>1, <3>3 DEF Looking, At
  <2>9. CASE queue # <<>>
    <3>1. Len(queue) \in Nat /\ Len(queue) >= 1 /\ Head(queue) = queue[1] /\ Head(queue) \in Exes
      BY <2>2, <2>9
    <3>2. n + 1 \in 1..Len(c) /\ Head(queue) = c[n + 1]
      BY <2>5, <2>7, <3>1
    <3>3. CASE Head(queue) \in disk
      <4>1. pc' = "found" /\ exe' = Head(queue)
        BY <1>2, <2>9, <3>3 DEF Test
      <4>2. n + 1 - 1 = n
        BY <2>7
      <4>3. FirstOf(c)'
        BY <2>1, <2>5, <3>2, <4>1, <4>2 DEF FirstOf
      <4>4. QED
        BY <2>1, <2>2, <2>4, <4>1, <4>3 DEF Looking, At
    <3>4. CASE Head(queue) \notin disk
      <4>1. pc' = "test" /\ queue' = Tail(queue)
        BY <1>2, <2>1, <2>9, <3>4 DEF Test
      <4>2. c[n + 1] \in gone
        BY <2>1, <3>1, <3>2, <3>4 DEF Standing, At
      <4>3. /\ queue' \in Seq(Exes) /\ Len(queue') = Len(queue) - 1
            /\ \A i \in 1..Len(queue') : queue'[i] = queue[i + 1]
        BY <2>2, <2>9, <4>1, HeadTailProperties
      <4>4. /\ n + 1 \in 0..Len(c) /\ Len(queue') = Len(c) - (n + 1)
            /\ \A i \in 1..n + 1 : i \in 1..n \/ i = n + 1
        BY <2>5, <2>7, <3>1, <3>2, <4>3
      <4>5. \A i \in 1..Len(queue') : queue'[i] = c[n + 1 + i]
        <5>1. \A i \in 1..Len(queue') : i + 1 \in 1..Len(queue) /\ n + (i + 1) = n + 1 + i
          BY <2>7, <3>1, <4>3
        <5>2. QED
          BY <2>5, <4>3, <5>1
      <4>6. LeftOf(c)'
        BY <2>1, <2>5, <4>2, <4>4, <4>5 DEF LeftOf
      <4>7. QED
        BY <2>1, <2>2, <2>4, <4>1, <4>3, <4>6 DEF Looking, At
    <3>5. QED
      BY <3>3, <3>4
  <2>10. QED
    BY <2>8, <2>9
<1>3. ASSUME NEW c \in Exes, StartClient(c) \/ RemoveClient(c) \/ PutClient(c)
      PROVE  Looking'
  BY <1>3, GoneStaysGone DEF StartClient, RemoveClient, PutClient, Moving
<1>4. CASE EndWrite
  BY <1>4, GoneStaysGone DEF EndWrite, call
<1>5. CASE UNCHANGED vars
  BY <1>5, GoneStaysGone DEF vars, call
<1>6. QED
  BY <1>1, <1>2, <1>3, <1>4, <1>5 DEF Next, Machine

\* The inductive invariant: it holds first, and every step keeps it.
LEMMA InvHolds == Spec => []InstallsInv
<1>1. Init => InstallsInv
  <2> SUFFICES ASSUME Init PROVE InstallsInv
    OBVIOUS
  <2>1. RootIsPath
    BY SourcesAssumption DEF Init, RootIsPath
  <2>2. \A d \in {doc, next, read} \ {None} : IsDocument(d)
    BY DocumentsAssumption DEF Init
  <2>3. QED
    BY <2>1, <2>2 DEF Init, InstallsInv, Standing, Looking, At
<1>2. InstallsInv /\ [Next]_vars => InstallsInv'
  BY StandingStep, LookingStep DEF InstallsInv
<1>3. QED
  BY <1>1, <1>2, PTL DEF Spec

(***************************************************************************)
(* The client that owns the install is the one that is started, if it      *)
(* stayed on disk throughout the call: whatever the spellings of the root  *)
(* and the keys, the order of the keys, the other clients, and what they   *)
(* all do meanwhile (resolve_riot_client, candidates, installs_key).       *)
(***************************************************************************)
THEOREM OwnersWin == Spec => []OwnerWins
<1>1. InstallsInv => OwnerWins
  <2> SUFFICES ASSUME InstallsInv, At("found"), NoneIsCalledGame,
                      NEW owner \in Owners \ gone, Owners = {owner}
               PROVE  exe = owner
    BY DEF OwnerWins
  <2>1. read # None /\ IsDocument(read) /\ RootIsPath
    BY DEF InstallsInv, Looking, Standing
  <2>2. PICK c \in Candidates(read) : FirstOf(c)
    BY DEF InstallsInv, Looking
  <2>3. Associates(read) = {owner}
    BY <2>1, AssociatesAreOwners
  <2>4. c[1] = owner
    BY <2>1, <2>2, <2>3, CandidatesAre
  <2>5. PICK n \in 1..Len(c) : exe = c[n] /\ \A i \in 1..n - 1 : c[i] \in gone
    BY <2>2 DEF FirstOf
  <2>6. n \in Nat /\ n >= 1
    BY <2>1, <2>2, CandidatesAre
  <2>7. n = 1
    BY <2>4, <2>5, <2>6
  <2>8. QED
    BY <2>4, <2>5, <2>7
<1>2. QED
  BY <1>1, InvHolds, PTL

(***************************************************************************)
(* A launch is refused only if every client the document names for it was  *)
(* away at some time of the call, and only a client it names is started    *)
(* (resolve_riot_client).                                                  *)
(***************************************************************************)
THEOREM NoneIsMissed == Spec => []NotFoundMeansGone
<1>1. InstallsInv => NotFoundMeansGone
  <2> SUFFICES ASSUME InstallsInv PROVE NotFoundMeansGone
    OBVIOUS
  <2>1. CASE read = None
    BY <2>1 DEF InstallsInv, Looking, Named, NotFoundMeansGone, At
  <2>2. CASE read # None
    <3>1. IsDocument(read) /\ RootIsPath
      BY <2>2 DEF InstallsInv, Standing
    <3>2. /\ Associates(read) \subseteq Owners
          /\ NoneIsCalledGame => Associates(read) = Owners
      BY <2>2, <3>1, AssociatesAreOwners
    <3>3. Named = (Owners \cup {read.rcDefault, read.rcLive}) \ {None}
      BY <2>2 DEF Named
    <3>4. ASSUME NEW c \in Candidates(read)
          PROVE  /\ c \in Seq(Exes)
                 /\ ToSet(c) = (Associates(read) \cup {read.rcDefault, read.rcLive}) \ {None}
      BY <3>1, CandidatesAre
    <3>5. ASSUME At("notFound"), NoneIsCalledGame PROVE Named \subseteq gone
      <4>1. PICK c \in Candidates(read) : \A i \in DOMAIN c : c[i] \in gone
        BY <2>2, <3>5 DEF InstallsInv, Looking
      <4>2. ToSet(c) \subseteq gone
        BY <4>1 DEF ToSet
      <4>3. QED
        BY <3>2, <3>3, <3>4, <3>5, <4>2
    <3>6. ASSUME At("found") PROVE exe \in Named
      <4>1. PICK c \in Candidates(read) : FirstOf(c)
        BY <3>6 DEF InstallsInv, Looking
      <4>2. PICK n \in 1..Len(c) : exe = c[n]
        BY <4>1 DEF FirstOf
      <4>3. n \in DOMAIN c
        BY <3>4
      <4>4. exe \in ToSet(c)
        BY <4>2, <4>3 DEF ToSet
      <4>5. QED
        BY <3>2, <3>3, <3>4, <4>4
    <3>7. QED
      BY <3>5, <3>6 DEF NotFoundMeansGone
  <2>3. QED
    BY <2>1, <2>2
<1>2. QED
  BY <1>1, InvHolds, PTL

=============================================================================
