-------------------------- MODULE Inventory_proofs --------------------------
(***************************************************************************)
(* Theorems about two modules that share no state.                          *)
(*                                                                          *)
(* Inventory, for any specs and versions and all bounds: Split and Without  *)
(* are recursive functions; what they return is proved by induction on the  *)
(* length of their argument, in the form of a set of numbers that holds 0   *)
(* and is handed on (UpTo).  UpTo rests on LeastNumber, which the lemmas    *)
(* assume and the end of the module proves (Least).                         *)
(*                                                                          *)
(* Migrate, for any clusters, any source and target clusters, and any       *)
(* number of mishaps: CompletedIsRestored becomes inductive with a conjunct *)
(* on the status alone (MigrateInv): what it reports as complete is         *)
(* complete.  A complete restore is only ever deleted with the Migrate.     *)
(***************************************************************************)
EXTENDS Inventory, Migrate, TLAPS

-----------------------------------------------------------------------------
(* Induction and sequences. *)

\* A sequence is a function on the numbers up to its length.
LEMMA LengthIs ==
  ASSUME NEW S, NEW s \in Seq(S)
  PROVE  Len(s) \in Nat /\ s \in [1..Len(s) -> S] /\ DOMAIN s = 1..Len(s)
OBVIOUS

\* Two sequences joined.
LEMMA ConcatIs ==
  ASSUME NEW S, NEW s \in Seq(S), NEW t \in Seq(S)
  PROVE  /\ s \o t \in Seq(S) /\ Len(s \o t) = Len(s) + Len(t)
         /\ \A i \in 1..Len(s) + Len(t) : (s \o t)[i] = IF i <= Len(s) THEN s[i] ELSE t[i - Len(s)]
OBVIOUS

\* An element at the end.
LEMMA AppendIs ==
  ASSUME NEW S, NEW s \in Seq(S), NEW e \in S
  PROVE  /\ Append(s, e) \in Seq(S) /\ Append(s, e) # <<>> /\ Len(Append(s, e)) = Len(s) + 1
         /\ \A i \in 1..Len(s) : Append(s, e)[i] = s[i]
         /\ Append(s, e)[Len(s) + 1] = e
OBVIOUS

\* Sequences with the same elements are the same.
LEMMA SameElements ==
  ASSUME NEW S, NEW s \in Seq(S), NEW t \in Seq(S), Len(s) = Len(t), \A i \in 1..Len(s) : s[i] = t[i]
  PROVE  s = t
OBVIOUS

\* A part of a sequence.
LEMMA SubSeqIs ==
  ASSUME NEW S, NEW s, NEW m \in Int, NEW n \in Int, \A i \in m..n : s[i] \in S
  PROVE  /\ SubSeq(s, m, n) \in Seq(S) /\ Len(SubSeq(s, m, n)) = IF m <= n THEN n - m + 1 ELSE 0
         /\ \A i \in 1..n - m + 1 : SubSeq(s, m, n)[i] = s[m + i - 1]
OBVIOUS

\* Every set of numbers that is not empty has a least one: the principle all
\* induction rests on here. It is proved where it is needed last (Least).
LeastNumber == \A S \in SUBSET Nat : S # {} => \E i \in S : \A j \in S : i <= j

\* What holds at 0 and is handed on holds up to n.
HandedOn(n, S) == 0 \in S /\ \A i \in 1..n : i - 1 \in S => i \in S

\* Induction over 0..n, on the set of those for which a fact holds.
LEMMA UpTo ==
  ASSUME LeastNumber, NEW n \in Nat, NEW S, HandedOn(n, S)
  PROVE  n \in S
<1> DEFINE bad == (0..n) \ S
<1> SUFFICES ASSUME bad # {} PROVE FALSE
  OBVIOUS
<1>1. bad \in SUBSET Nat
  OBVIOUS
<1>2. PICK m \in bad : \A j \in bad : m <= j
  <2> HIDE DEF bad
  <2> QED BY <1>1 DEF LeastNumber
<1>3. m \in 1..n
  BY DEF HandedOn
<1>4. m - 1 \in 0..n /\ m - 1 \notin bad
  <2> SUFFICES m - 1 \in 0..n /\ ~(m <= m - 1)
    BY <1>2
  <2> QED BY <1>3
<1> QED
  BY <1>3, <1>4 DEF HandedOn

\* A function that is computed step by step from b, the i-th step by st[i].
Steps(n, b, st, G) == G[0] = b /\ \A i \in 1..n : G[i] = st[i][G[i - 1]]

\* There is such a function: a recursive definition has a solution.
LEMMA FoldExists ==
  ASSUME LeastNumber, NEW n \in Nat, NEW X, NEW b \in X, NEW st \in [1..n -> [X -> X]]
  PROVE  \E G \in [0..n -> X] : Steps(n, b, st, G)
<1> DEFINE S == {k \in 0..n : \E G \in [0..k -> X] : Steps(k, b, st, G)}
<1>1. 0 \in S
  <2>1. [i \in 0..0 |-> b] \in [0..0 -> X] /\ Steps(0, b, st, [i \in 0..0 |-> b])
    BY DEF Steps
  <2> QED BY <2>1
<1>2. ASSUME NEW m \in 1..n, m - 1 \in S PROVE m \in S
  <2>1. PICK G \in [0..(m - 1) -> X] : Steps(m - 1, b, st, G)
    BY <1>2
  <2> DEFINE x == st[m][G[m - 1]]
             K == [i \in 0..m |-> IF i = m THEN x ELSE G[i]]
  <2>2. x \in X
    OBVIOUS
  <2> HIDE DEF x, S
  <2>3. K \in [0..m -> X]
    BY <2>2
  <2>4. K[0] = b
    BY <2>1 DEF Steps
  <2>5. ASSUME NEW i \in 1..m PROVE K[i] = st[i][K[i - 1]]
    <3>1. K[i - 1] = G[i - 1]
      OBVIOUS
    <3>2. CASE i = m
      BY <3>1, <3>2 DEF x
    <3>3. CASE i # m
      <4>1. i \in 1..(m - 1)
        BY <3>3
      <4>2. K[i] = G[i]
        BY <3>3
      <4> HIDE DEF K
      <4> QED
        BY <2>1, <3>1, <4>1, <4>2 DEF Steps
    <3> QED BY <3>2, <3>3
  <2>6. Steps(m, b, st, K)
    BY <2>4, <2>5 DEF Steps
  <2> HIDE DEF K
  <2>7. \E H \in [0..m -> X] : Steps(m, b, st, H)
    BY <2>3, <2>6
  <2> QED
    BY <2>7 DEF S
<1> HIDE DEF S
<1>3. n \in S
  <2>1. HandedOn(n, S)
    BY <1>1, <1>2 DEF HandedOn
  <2> QED
    BY <2>1, UpTo
<1> QED
  BY <1>3 DEF S

\* An element in front of a sequence.
Cons(e, t) == <<e>> \o t

\* p is t with x in front.
Longer(p, x, t) == Len(p) = Len(t) + 1 /\ p[1] = x /\ \A i \in 1..Len(t) : p[i + 1] = t[i]

\* What an element in front of a sequence makes of it.
LEMMA OneMore ==
  ASSUME NEW S, NEW e \in S, NEW t \in Seq(S)
  PROVE  Cons(e, t) \in Seq(S) /\ Longer(Cons(e, t), e, t)
<1> DEFINE o == <<e>>
<1>1. o \in Seq(S) /\ Len(o) = 1 /\ o[1] = e
  OBVIOUS
<1> HIDE DEF o
<1>2. o \o t \in Seq(S) /\ Len(o \o t) = Len(o) + Len(t)
  BY <1>1, ConcatIs
<1>3. \A i \in 1..(Len(o) + Len(t)) : (o \o t)[i] = IF i <= Len(o) THEN o[i] ELSE t[i - Len(o)]
  BY <1>1, ConcatIs
<1>4. Len(t) \in Nat
  BY LengthIs
<1> QED
  BY <1>1, <1>2, <1>3, <1>4 DEF o, Cons, Longer

\* The last i elements of a sequence.
LEMMA Suffix ==
  ASSUME NEW S, NEW a \in Seq(S), NEW i \in 0..Len(a)
  PROVE  LET s == SubSeq(a, Len(a) - i + 1, Len(a))
         IN  s \in Seq(S) /\ Len(s) = i /\ \A k \in 1..i : s[k] = a[Len(a) - i + k]
<1>1. Len(a) \in Nat
  BY LengthIs
<1>2. Len(a) - i + 1 \in 1..(Len(a) + 1) /\ Len(a) \in (Len(a) - i + 1 - 1)..Len(a)
  BY <1>1
<1> DEFINE m == Len(a) - i + 1
           n == Len(a)
<1>3. m \in 1..(n + 1) /\ n \in (m - 1)..n
  BY <1>2
<1> HIDE DEF m, n
<1>4. /\ SubSeq(a, m, n) \in Seq(S)
      /\ Len(SubSeq(a, m, n)) = IF m <= n THEN n - m + 1 ELSE 0
      /\ \A k \in 1..(n - m + 1) : SubSeq(a, m, n)[k] = a[m + k - 1]
  BY <1>1, <1>3, SubSeqIs DEF n
<1> QED
  BY <1>1, <1>4 DEF m, n

\* Three sequences may be joined in either order.
LEMMA Assoc ==
  ASSUME NEW S, NEW a \in Seq(S), NEW b \in Seq(S), NEW c \in Seq(S)
  PROVE  a \o (b \o c) = (a \o b) \o c
OBVIOUS

-----------------------------------------------------------------------------
\* The fields of a line (the provers do not know that a literal is a STRING).
Field == STRING \cup {"[all]", "[kube_control_plane]", "[etcd]", "[kube_node]", "[k8s-cluster:children]",
                      "kube_node", "kube_control_plane"}

\* A line is its fields, and what machines are described by.
Line == Seq(Field)

Triple == STRING \X STRING \X STRING

\* The function in the definition of Without.
Kept(names, ms, kept) ==
  /\ kept[0] = <<>>
  /\ \A i \in 1..Len(ms) :
       kept[i] = IF ms[i][1] \in names THEN kept[i - 1] ELSE Append(kept[i - 1], ms[i])

\* The recursive definition of Without has a solution, of this type.
LEMMA WithoutIs ==
  ASSUME LeastNumber, NEW names, NEW ms \in Seq(Triple)
  PROVE  \E kept : Kept(names, ms, kept) /\ Without(names, ms) = kept[Len(ms)]
<1> DEFINE n == Len(ms)
           step(i) == [q \in Seq(Triple) |-> IF ms[i][1] \in names THEN q ELSE Append(q, ms[i])]
           st == [i \in 1..n |-> step(i)]
           f(G) == [i \in 0..n |-> IF i = 0 THEN <<>>
                                   ELSE IF ms[i][1] \in names THEN G[i - 1] ELSE Append(G[i - 1], ms[i])]
<1>1. n \in Nat /\ \A i \in 1..n : ms[i] \in Triple
  BY LengthIs
<1>2. <<>> \in Seq(Triple) /\ \A i \in 1..n : step(i) \in [Seq(Triple) -> Seq(Triple)]
  BY <1>1, AppendIs
<1>3. PICK G \in [0..n -> Seq(Triple)] : Steps(n, <<>>, st, G)
  <2> HIDE DEF step, n
  <2>1. st \in [1..n -> [Seq(Triple) -> Seq(Triple)]]
    BY <1>2
  <2> HIDE DEF st
  <2> QED BY <1>1, <1>2, <2>1, FoldExists
<1>4. ASSUME NEW i \in 1..n
      PROVE  G[i] = IF ms[i][1] \in names THEN G[i - 1] ELSE Append(G[i - 1], ms[i])
  <2> HIDE DEF n
  <2>1. G[i - 1] \in Seq(Triple)
    BY <1>1
  <2>2. G[i] = st[i][G[i - 1]] /\ st[i] = step(i)
    BY <1>3 DEF Steps
  <2> HIDE DEF st
  <2> QED
    BY <2>1, <2>2
<1>5. G = f(G)
  <2> HIDE DEF n, st
  <2>1. G[0] = <<>>
    BY <1>3 DEF Steps
  <2>2. ASSUME NEW i \in 0..n PROVE G[i] = f(G)[i]
    <3>1. CASE i = 0
      BY <2>1, <3>1
    <3>2. CASE i # 0
      <4>1. i \in 1..n
        BY <1>1, <3>2
      <4> HIDE DEF step
      <4> QED
        BY <1>4, <3>2, <4>1
    <3> QED
      BY <3>1, <3>2
  <2>3. f(G) = [i \in 0..n |-> f(G)[i]]
    OBVIOUS
  <2> HIDE DEF f
  <2> QED
    BY <2>2, <2>3
<1> DEFINE kept == CHOOSE K : K = f(K)
<1>6. kept = f(kept)
  <2> HIDE DEF f
  <2> QED BY <1>5
<1>7. Without(names, ms) = kept[n]
  BY DEF Without
<1> HIDE DEF kept
<1>8. Kept(names, ms, kept)
  <2>1. \A i \in 0..n : kept[i] = IF i = 0 THEN <<>>
                                   ELSE IF ms[i][1] \in names THEN kept[i - 1] ELSE Append(kept[i - 1], ms[i])
    BY <1>6
  <2> HIDE DEF f
  <2>2. kept[0] = <<>>
    BY <1>1, <2>1
  <2>3. \A i \in 1..n : kept[i] = IF ms[i][1] \in names THEN kept[i - 1] ELSE Append(kept[i - 1], ms[i])
    BY <1>1, <2>1
  <2> QED
    BY <2>2, <2>3 DEF Kept
<1> QED
  BY <1>7, <1>8

\* The elements of a sequence.
Elements(s) == {s[i] : i \in DOMAIN s}

\* What is kept are machines of the list, and not of those names.
LEMMA WithoutKeeps ==
  ASSUME LeastNumber, NEW names, NEW ms \in Seq(Triple)
  PROVE  Without(names, ms) \in Seq({m \in Elements(ms) : m[1] \notin names})
<1> DEFINE T == {m \in Elements(ms) : m[1] \notin names}
           n == Len(ms)
<1>1. PICK kept : Kept(names, ms, kept) /\ Without(names, ms) = kept[n]
  BY WithoutIs
<1>2. n \in Nat /\ DOMAIN ms = 1..n
  BY LengthIs
<1>3. \A i \in 1..n : ms[i][1] \notin names => ms[i] \in T
  BY <1>2 DEF Elements
<1> HIDE DEF T
<1> DEFINE S == {i \in 0..n : kept[i] \in Seq(T)}
<1>5. 0 \in S
  <2>1. kept[0] = <<>> /\ 0 \in 0..n
    BY <1>1, <1>2 DEF Kept
  <2>2. <<>> \in Seq(T)
    OBVIOUS
  <2> QED
    BY <2>1, <2>2
<1>6. ASSUME NEW i \in 1..n, i - 1 \in S PROVE i \in S
  <2>1. kept[i - 1] \in Seq(T)
    BY <1>6
  <2>2. kept[i] = IF ms[i][1] \in names THEN kept[i - 1] ELSE Append(kept[i - 1], ms[i])
    BY <1>1 DEF Kept
  <2>3. kept[i] \in Seq(T)
    BY <1>3, <2>1, <2>2, AppendIs
  <2> QED
    BY <1>2, <2>3
<1> HIDE DEF S, n
<1>7. n \in S
  <2>1. HandedOn(n, S)
    BY <1>5, <1>6 DEF HandedOn
  <2> QED
    BY <1>2, <2>1, UpTo
<1> QED
  BY <1>1, <1>7 DEF S, T

\* When no machine has one of those names, all are kept.
LEMMA WithoutNone ==
  ASSUME LeastNumber, NEW names, NEW ms \in Seq(Triple), \A i \in 1..Len(ms) : ms[i][1] \notin names
  PROVE  Without(names, ms) = ms
<1> DEFINE n == Len(ms)
           upto(i) == [k \in 1..i |-> ms[k]]
<1>1. PICK kept : Kept(names, ms, kept) /\ Without(names, ms) = kept[n]
  BY WithoutIs
<1>2. n \in Nat /\ DOMAIN ms = 1..n /\ \A i \in 1..n : ms[i] \in Triple
  BY LengthIs
<1> DEFINE S == {i \in 0..n : kept[i] = upto(i)}
<1>5. 0 \in S
  <2>1. upto(0) = <<>>
    OBVIOUS
  <2>2. kept[0] = <<>> /\ 0 \in 0..n
    BY <1>1, <1>2 DEF Kept
  <2> QED
    BY <2>1, <2>2
<1>6. ASSUME NEW i \in 1..n, i - 1 \in S PROVE i \in S
  <2>1. kept[i - 1] = upto(i - 1) /\ i \in 0..n
    BY <1>2, <1>6
  <2>2. kept[i] = Append(kept[i - 1], ms[i])
    BY <1>1 DEF Kept
  <2>3. upto(i - 1) \in Seq(Triple) /\ Len(upto(i - 1)) = i - 1
    BY <1>2
  <2>4. Append(upto(i - 1), ms[i]) = upto(i)
    BY <1>2, <2>3
  <2> QED
    BY <2>1, <2>2, <2>4
<1> HIDE DEF S, n
<1>7. n \in S
  <2>1. HandedOn(n, S)
    BY <1>5, <1>6 DEF HandedOn
  <2> QED
    BY <1>2, <2>1, UpTo
<1>8. upto(n) = ms
  BY <1>2
<1> QED
  BY <1>1, <1>7, <1>8 DEF S

-----------------------------------------------------------------------------
(* What Split returns. *)

\* One part or more, of lines.
Text == {q \in Seq(Seq(Line)) : Len(q) \in Nat \ {0}}

\* An empty part in front.
NewPart(q) == <<<<>>>> \o q

\* More lines at the head of the first part.
AddLines(a, q) == [q EXCEPT ![1] = a \o @]

\* A text with an empty part in front is a text.
LEMMA PartType ==
  ASSUME NEW q \in Text
  PROVE  /\ NewPart(q) \in Text
         /\ Len(NewPart(q)) = Len(q) + 1 /\ NewPart(q)[1] = <<>>
         /\ \A i \in 1..Len(q) : NewPart(q)[i + 1] = q[i]
<1>1. <<<<>>>> \in Seq(Seq(Line)) /\ q \in Seq(Seq(Line)) /\ Len(q) \in Nat \ {0} /\ Len(<<<<>>>>) = 1
  BY DEF Text
<1> DEFINE e == <<<<>>>>
<1>2. e[1] = <<>> /\ Len(e) = 1
  OBVIOUS
<1> HIDE DEF e
<1>3. /\ e \o q \in Seq(Seq(Line)) /\ Len(e \o q) = 1 + Len(q)
      /\ \A i \in 1..(1 + Len(q)) : (e \o q)[i] = IF i <= 1 THEN e[i] ELSE q[i - 1]
  BY <1>1, <1>2, ConcatIs DEF e
<1> QED
  BY <1>1, <1>2, <1>3 DEF NewPart, Text, e

\* A text with more lines at its head is a text.
LEMMA LinesType ==
  ASSUME NEW q \in Text, NEW a \in Seq(Line)
  PROVE  /\ AddLines(a, q) \in Text
         /\ Len(AddLines(a, q)) = Len(q) /\ AddLines(a, q)[1] = a \o q[1]
         /\ \A i \in 2..Len(q) : AddLines(a, q)[i] = q[i]
<1>1. q \in Seq(Seq(Line)) /\ Len(q) \in Nat \ {0}
  BY DEF Text
<1>2. q[1] \in Seq(Line)
  BY <1>1
<1>3. a \o q[1] \in Seq(Line)
  BY <1>2, ConcatIs
<1> DEFINE x == a \o q[1]
<1>4. AddLines(a, q) = [q EXCEPT ![1] = x]
  BY DEF AddLines
<1> HIDE DEF x
<1>5. x \in Seq(Line)
  BY <1>3 DEF x
<1>6. [q EXCEPT ![1] = x] \in Seq(Seq(Line)) /\ Len([q EXCEPT ![1] = x]) = Len(q)
  BY <1>1, <1>5
<1> QED
  BY <1>1, <1>4, <1>5, <1>6 DEF Text, x

\* The function in the definition of Split.
IsSplit(text, headers, parts) ==
  /\ parts[0] = <<<<>>>>
  /\ \A i \in 1..Len(text) :
       parts[i] = IF text[Len(text) - i + 1] \in headers THEN NewPart(parts[i - 1])
                  ELSE AddLines(<<text[Len(text) - i + 1]>>, parts[i - 1])

\* The recursive definition of Split has a solution.
LEMMA SplitIs ==
  ASSUME LeastNumber, NEW text \in Seq(Line), NEW headers
  PROVE  \E parts : /\ IsSplit(text, headers, parts)
                    /\ \A i \in 0..Len(text) : parts[i] \in Text
                    /\ Split(text, headers) = parts[Len(text)]
<1> DEFINE n == Len(text)
           line(i) == text[Len(text) - i + 1]
           next(i, q) == IF line(i) \in headers THEN NewPart(q) ELSE AddLines(<<line(i)>>, q)
           step(i) == [q \in Text |-> next(i, q)]
           st == [i \in 1..n |-> step(i)]
           f(G) == [i \in 0..n |-> IF i = 0 THEN <<<<>>>> ELSE next(i, G[i - 1])]
<1>1. n \in Nat /\ \A i \in 1..n : line(i) \in Line
  BY LengthIs
<1>2. <<<<>>>> \in Text
  BY DEF Text
<1>3. ASSUME NEW i \in 1..n, NEW q \in Text PROVE next(i, q) \in Text
  <2>1. <<line(i)>> \in Seq(Line)
    BY <1>1
  <2> HIDE DEF line
  <2> QED
    BY <2>1, PartType, LinesType
<1> HIDE DEF next
<1>4. \A i \in 1..n : step(i) \in [Text -> Text]
  BY <1>3
<1> DEFINE b == <<<<>>>>
<1>5. PICK G \in [0..n -> Text] : Steps(n, b, st, G)
  <2> HIDE DEF step, n
  <2>1. st \in [1..n -> [Text -> Text]]
    BY <1>4
  <2> HIDE DEF st, b
  <2>2. b \in Text
    BY <1>2 DEF b
  <2> QED BY <1>1, <2>1, <2>2, FoldExists
<1>6. ASSUME NEW i \in 1..n PROVE G[i] = next(i, G[i - 1])
  <2> HIDE DEF n
  <2>1. G[i - 1] \in Text
    BY <1>1
  <2>2. G[i] = st[i][G[i - 1]] /\ st[i] = step(i)
    BY <1>5 DEF Steps
  <2> HIDE DEF st
  <2> QED
    BY <2>1, <2>2
<1>7. G = f(G)
  <2> HIDE DEF n, st
  <2>1. G[0] = <<<<>>>>
    BY <1>5 DEF Steps
  <2>2. ASSUME NEW i \in 0..n PROVE G[i] = f(G)[i]
    <3>1. CASE i = 0
      BY <2>1, <3>1
    <3>2. CASE i # 0
      <4>1. i \in 1..n
        BY <1>1, <3>2
      <4> HIDE DEF step
      <4> QED
        BY <1>6, <3>2, <4>1
    <3> QED
      BY <3>1, <3>2
  <2>3. f(G) = [i \in 0..n |-> f(G)[i]]
    OBVIOUS
  <2> HIDE DEF f
  <2> QED
    BY <2>2, <2>3
<1> DEFINE parts == CHOOSE K : K = f(K)
<1>8. parts = f(parts)
  <2> HIDE DEF f
  <2> QED BY <1>7
<1>9. Split(text, headers) = parts[n]
  BY DEF Split, next, NewPart, AddLines
<1> HIDE DEF parts
<1>10. parts[0] = <<<<>>>> /\ \A i \in 1..n : parts[i] = next(i, parts[i - 1])
  <2>1. \A i \in 0..n : parts[i] = IF i = 0 THEN <<<<>>>> ELSE next(i, parts[i - 1])
    BY <1>8
  <2> HIDE DEF f
  <2> QED
    BY <1>1, <2>1
<1>11. IsSplit(text, headers, parts)
  BY <1>10 DEF IsSplit, next
<1>12. \A k \in 0..n : parts[k] \in Text
  <2> SUFFICES ASSUME NEW k \in 0..n PROVE parts[k] \in Text
    OBVIOUS
  <2> DEFINE S == {i \in 0..n : parts[i] \in Text}
  <2>1. 0 \in S
    <3>1. parts[0] \in Text
      <4>1. parts[0] = b /\ b \in Text
        BY <1>2, <1>10
      <4> QED
        BY <4>1
    <3> QED
      BY <1>1, <3>1
  <2>2. ASSUME NEW i \in 1..n, i - 1 \in S PROVE i \in S
    BY <1>1, <1>3, <1>10, <2>2
  <2> HIDE DEF S, n
  <2>3. HandedOn(k, S)
    BY <1>1, <2>1, <2>2 DEF HandedOn
  <2>4. k \in S
    BY <1>1, <2>3, UpTo
  <2> QED
    BY <2>4 DEF S
<1> QED
  BY <1>9, <1>11, <1>12

\* Nothing is split into one empty part.
LEMMA SplitEmpty ==
  ASSUME LeastNumber, NEW headers
  PROVE  Split(<<>>, headers) = <<<<>>>>
<1>1. <<>> \in Seq(Line) /\ Len(<<>>) = 0
  OBVIOUS
<1>2. PICK parts : /\ IsSplit(<<>>, headers, parts)
                   /\ Split(<<>>, headers) = parts[Len(<<>>)]
  BY <1>1, SplitIs
<1> QED
  BY <1>1, <1>2 DEF IsSplit

\* What is split is a text.
LEMMA SplitType ==
  ASSUME LeastNumber, NEW text \in Seq(Line), NEW headers
  PROVE  Split(text, headers) \in Text
<1>1. PICK parts : /\ \A i \in 0..Len(text) : parts[i] \in Text
                   /\ Split(text, headers) = parts[Len(text)]
  BY SplitIs
<1>2. Len(text) \in 0..Len(text)
  BY LengthIs
<1> QED
  BY <1>1, <1>2

\* A first line more: a part more when it is a header, else a line more in the first part.
LEMMA SplitCons ==
  ASSUME LeastNumber, NEW t \in Seq(Line), NEW l \in Line, NEW headers
  PROVE  Split(Cons(l, t), headers) = IF l \in headers THEN NewPart(Split(t, headers))
                                      ELSE AddLines(<<l>>, Split(t, headers))
<1> DEFINE n == Len(t)
           T == Cons(l, t)
<1>1. n \in Nat
  BY LengthIs
<1>2. T \in Seq(Line) /\ Len(T) = n + 1 /\ T[1] = l /\ \A i \in 1..n : T[(n + 1) - i + 1] = t[n - i + 1]
  <2>1. T \in Seq(Line) /\ Len(T) = n + 1 /\ T[1] = l /\ \A i \in 1..n : T[i + 1] = t[i]
    <3>1. T \in Seq(Line) /\ Longer(T, l, t)
      BY OneMore
    <3> QED
      BY <3>1 DEF Longer
  <2> HIDE DEF T, n
  <2>2. ASSUME NEW i \in 1..n PROVE T[(n + 1) - i + 1] = t[n - i + 1]
    <3>1. n - i + 1 \in 1..n /\ (n + 1) - i + 1 = (n - i + 1) + 1
      BY <1>1
    <3> QED
      BY <2>1, <3>1
  <2> QED
    BY <2>1, <2>2
<1> HIDE DEF T
<1>3. PICK p : /\ IsSplit(t, headers, p)
               /\ Split(t, headers) = p[n]
  BY SplitIs
<1>4. PICK r : /\ IsSplit(T, headers, r)
               /\ Split(T, headers) = r[n + 1]
  BY <1>2, SplitIs
<1> HIDE DEF n
<1> DEFINE S == {i \in 0..n : r[i] = p[i]}
<1>5. 0 \in S
  BY <1>1, <1>3, <1>4 DEF IsSplit
<1>6. ASSUME NEW i \in 1..n, i - 1 \in S PROVE i \in S
  <2>1. i \in 1..(n + 1) /\ i \in 0..n /\ r[i - 1] = p[i - 1]
    BY <1>1, <1>6
  <2>2. r[i] = IF t[n - i + 1] \in headers THEN NewPart(r[i - 1])
               ELSE AddLines(<<t[n - i + 1]>>, r[i - 1])
    BY <1>2, <1>4, <2>1 DEF IsSplit
  <2>3. p[i] = IF t[n - i + 1] \in headers THEN NewPart(p[i - 1])
               ELSE AddLines(<<t[n - i + 1]>>, p[i - 1])
    BY <1>3 DEF IsSplit, n
  <2> QED
    BY <2>1, <2>2, <2>3
<1>7. HandedOn(n, S)
  <2> HIDE DEF S
  <2> QED BY <1>1, <1>5, <1>6 DEF HandedOn
<1>8. n \in S
  <2> HIDE DEF S
  <2> QED BY <1>1, <1>7, UpTo
<1>9. r[n] = p[n]
  BY <1>8
<1>10. r[n + 1] = IF l \in headers THEN NewPart(r[n]) ELSE AddLines(<<l>>, r[n])
  <2>1. n + 1 \in 1..(n + 1) /\ (n + 1) - (n + 1) + 1 = 1 /\ (n + 1) - 1 = n
    BY <1>1
  <2> QED
    BY <1>2, <1>4, <2>1 DEF IsSplit
<1> QED
  BY <1>3, <1>4, <1>9, <1>10 DEF T

\* Adding lines to the head in two portions or in one is the same.
LEMMA LinesTwice ==
  ASSUME NEW q \in Text, NEW a \in Seq(Line), NEW b \in Seq(Line)
  PROVE  AddLines(a, AddLines(b, q)) = AddLines(a \o b, q)
<1>1. q \in Seq(Seq(Line)) /\ Len(q) \in Nat \ {0}
  BY DEF Text
<1>2. q[1] \in Seq(Line)
  BY <1>1
<1>3. a \o (b \o q[1]) = (a \o b) \o q[1]
  <2> DEFINE z == q[1]
  <2>1. z \in Seq(Line)
    BY <1>2
  <2> HIDE DEF z
  <2>2. a \o (b \o z) = (a \o b) \o z
    BY <2>1, Assoc
  <2> QED
    BY <2>2 DEF z
<1> DEFINE x == b \o q[1]
           y == (a \o b) \o q[1]
<1>4. AddLines(b, q) = [q EXCEPT ![1] = x] /\ AddLines(a \o b, q) = [q EXCEPT ![1] = y]
  BY DEF AddLines
<1>5. a \o x = y
  BY <1>3
<1> HIDE DEF x, y
<1>6. 1 \in DOMAIN q
  BY <1>1
<1>7. [q EXCEPT ![1] = x][1] = x
  BY <1>6
<1>8. AddLines(a, [q EXCEPT ![1] = x]) = [[q EXCEPT ![1] = x] EXCEPT ![1] = y]
  BY <1>5, <1>7 DEF AddLines
<1>9. [[q EXCEPT ![1] = x] EXCEPT ![1] = y] = [q EXCEPT ![1] = y]
  OBVIOUS
<1> QED
  BY <1>4, <1>8, <1>9

\* Lines that are no headers go to the first part.
LEMMA SplitPart ==
  ASSUME LeastNumber, NEW a \in Seq(Line), NEW u \in Seq(Line), NEW headers,
         \A i \in 1..Len(a) : a[i] \notin headers
  PROVE  Split(a \o u, headers) = AddLines(a, Split(u, headers))
<1> DEFINE n == Len(a)
           q == Split(u, headers)
           last(i) == SubSeq(a, n - i + 1, n)
<1>1. n \in Nat
  BY LengthIs
<1>2. q \in Text
  BY SplitType
<1>3. ASSUME NEW i \in 0..n PROVE last(i) \in Seq(Line)
  BY <1>1, Suffix
<1>4. ASSUME NEW i \in 1..n PROVE last(i) = Cons(a[n - i + 1], last(i - 1))
  <2>1. last(i) \in Seq(Line) /\ last(i - 1) \in Seq(Line) /\ a[n - i + 1] \in Line
    BY <1>1, <1>3
  <2>2. /\ Len(last(i)) = i /\ \A k \in 1..i : last(i)[k] = a[n - i + k]
        /\ Len(last(i - 1)) = i - 1 /\ \A k \in 1..(i - 1) : last(i - 1)[k] = a[n - (i - 1) + k]
    <3>1. i \in 0..n /\ i - 1 \in 0..n
      BY <1>1
    <3> QED
      BY <3>1, Suffix
  <2> DEFINE l == a[n - i + 1]
             x == last(i)
             y == last(i - 1)
             z == Cons(l, y)
  <2>3. l \in Line /\ x \in Seq(Line) /\ y \in Seq(Line) /\ Len(x) = i /\ Len(y) = i - 1
    BY <2>1, <2>2
  <2>4. x[1] = l /\ \A k \in 1..(i - 1) : x[k + 1] = y[k]
    <3>1. x[1] = l
      BY <1>1, <2>2
    <3>2. ASSUME NEW k \in 1..(i - 1) PROVE x[k + 1] = y[k]
      <4>1. k + 1 \in 1..i /\ n - i + (k + 1) = n - (i - 1) + k
        BY <1>1
      <4> QED
        BY <2>2, <4>1
    <3> QED
      BY <3>1, <3>2
  <2> HIDE DEF l, x, y
  <2>5. z \in Seq(Line) /\ Len(z) = Len(y) + 1 /\ z[1] = l /\ \A k \in 1..Len(y) : z[k + 1] = y[k]
    <3>1. z \in Seq(Line) /\ Longer(z, l, y)
      BY <2>3, OneMore
    <3> HIDE DEF z
    <3> QED
      BY <3>1 DEF Longer
  <2> HIDE DEF z
  <2>6. ASSUME NEW k \in 1..Len(x) PROVE x[k] = z[k]
    <3>1. CASE k = 1
      BY <2>4, <2>5, <3>1
    <3>2. CASE k # 1
      <4>1. k - 1 \in 1..(i - 1) /\ (k - 1) + 1 = k
        BY <2>3, <3>2
      <4>2. x[(k - 1) + 1] = y[k - 1] /\ z[(k - 1) + 1] = y[k - 1]
        BY <2>3, <2>4, <2>5, <4>1
      <4> QED
        BY <4>1, <4>2
    <3> QED
      BY <3>1, <3>2
  <2>7. Len(x) = Len(z)
    BY <2>3, <2>5
  <2>8. x = z
    BY <2>3, <2>5, <2>6, <2>7, SameElements
  <2> QED
    BY <2>8 DEF l, x, y, z
<1> DEFINE S == {i \in 0..n : Split(last(i) \o u, headers) = AddLines(last(i), q)}
<1>5. 0 \in S
  <2>1. last(0) = <<>> /\ <<>> \o u = u
    BY <1>1
  <2>2. AddLines(<<>>, q) = q
    <3>1. q \in Seq(Seq(Line)) /\ Len(q) \in Nat \ {0}
      BY <1>2 DEF Text
    <3> HIDE DEF q
    <3>2. q[1] \in Seq(Line) /\ 1 \in DOMAIN q
      BY <3>1
    <3>3. <<>> \o q[1] = q[1]
      BY <3>2
    <3>4. AddLines(<<>>, q) = [q EXCEPT ![1] = q[1]]
      BY <3>3 DEF AddLines
    <3> QED
      BY <3>1, <3>4
  <2>3. Split(last(0) \o u, headers) = AddLines(last(0), q)
    BY <2>1, <2>2
  <2> HIDE DEF last, q
  <2> QED
    BY <1>1, <2>3
<1>6. ASSUME NEW i \in 1..n, i - 1 \in S PROVE i \in S
  <2> DEFINE l == a[n - i + 1]
             b == last(i - 1)
  <2>1. /\ l \in Line /\ l \notin headers /\ b \in Seq(Line) /\ <<l>> \in Seq(Line)
        /\ Split(b \o u, headers) = AddLines(b, q) /\ last(i) = Cons(l, b)
    BY <1>1, <1>3, <1>4, <1>6
  <2> HIDE DEF b, l, last
  <2>2. b \o u \in Seq(Line)
    BY <2>1, ConcatIs
  <2>3. Cons(l, b) \o u = Cons(l, b \o u)
    BY <2>1, Assoc DEF Cons
  <2>4. Split(Cons(l, b \o u), headers) = AddLines(<<l>>, Split(b \o u, headers))
    <3> DEFINE v == b \o u
    <3>1. v \in Seq(Line)
      BY <2>2
    <3> HIDE DEF v
    <3>2. Split(Cons(l, v), headers) = AddLines(<<l>>, Split(v, headers))
      BY <2>1, <3>1, SplitCons
    <3> QED
      BY <3>2 DEF v
  <2> HIDE DEF q
  <2>5. AddLines(<<l>>, AddLines(b, q)) = AddLines(Cons(l, b), q)
    BY <1>2, <2>1, LinesTwice DEF Cons
  <2>6. Split(last(i) \o u, headers) = AddLines(last(i), q)
    BY <2>1, <2>3, <2>4, <2>5
  <2> QED
    BY <1>1, <2>6
<1>7. HandedOn(n, S)
  <2> HIDE DEF S, n
  <2> QED BY <1>1, <1>5, <1>6 DEF HandedOn
<1>8. n \in S
  <2> HIDE DEF S, n
  <2> QED BY <1>1, <1>7, UpTo
<1>9. last(n) = a
  BY <1>1
<1> HIDE DEF last
<1> QED
  BY <1>8, <1>9

\* The same of a text that ends without another header.
LEMMA SplitLast ==
  ASSUME LeastNumber, NEW a \in Seq(Line), NEW headers, \A i \in 1..Len(a) : a[i] \notin headers
  PROVE  Split(a, headers) = <<a>>
<1>1. <<>> \in Seq(Line) /\ a \o <<>> = a
  OBVIOUS
<1>2. Split(a \o <<>>, headers) = AddLines(a, <<<<>>>>)
  <2> DEFINE u == <<>>
  <2>1. u \in Seq(Line)
    OBVIOUS
  <2> HIDE DEF u
  <2>2. Split(a \o u, headers) = AddLines(a, Split(u, headers))
    BY <2>1, SplitPart
  <2> QED
    BY <2>2, SplitEmpty DEF u
<1>3. AddLines(a, <<<<>>>>) = <<a>>
  BY <1>1 DEF AddLines
<1> QED
  BY <1>1, <1>2, <1>3

\* The part before the first header, then the parts of what follows it.
LEMMA SplitSection ==
  ASSUME LeastNumber, NEW a \in Seq(Line), NEW h \in Line, NEW t \in Seq(Line), NEW headers, h \in headers,
         \A i \in 1..Len(a) : a[i] \notin headers
  PROVE  Split(a \o Cons(h, t), headers) = Cons(a, Split(t, headers))
<1> DEFINE q == Split(t, headers)
<1>1. q \in Text
  BY SplitType
<1>3. Cons(h, t) \in Seq(Line)
  BY OneMore
<1>4. Split(Cons(h, t), headers) = NewPart(q)
  BY SplitCons
<1>5. Split(a \o Cons(h, t), headers) = AddLines(a, NewPart(q))
  <2> DEFINE u == Cons(h, t)
  <2>1. u \in Seq(Line) /\ Split(u, headers) = NewPart(q)
    BY <1>3, <1>4
  <2> HIDE DEF u
  <2>2. Split(a \o u, headers) = AddLines(a, Split(u, headers))
    BY <2>1, SplitPart
  <2> QED
    BY <2>1, <2>2 DEF u
<1> HIDE DEF q
<1>6. /\ NewPart(q) \in Text /\ Len(NewPart(q)) = Len(q) + 1 /\ NewPart(q)[1] = <<>>
      /\ \A i \in 1..Len(q) : NewPart(q)[i + 1] = q[i]
  BY <1>1, PartType
<1> DEFINE p == NewPart(q)
           r == AddLines(a, p)
           s == Cons(a, q)
<1> HIDE DEF p
<1>7. r \in Text /\ Len(r) = Len(p) /\ r[1] = a \o p[1] /\ \A i \in 2..Len(p) : r[i] = p[i]
  BY <1>6, LinesType DEF p
<1> HIDE DEF r
<1>8. r[1] = a
  <2>1. a \o <<>> = a
    OBVIOUS
  <2> QED
    BY <1>6, <1>7, <2>1 DEF p
<1>9. q \in Seq(Seq(Line)) /\ Len(q) \in Nat \ {0} /\ r \in Seq(Seq(Line)) /\ Len(r) = Len(q) + 1
  BY <1>1, <1>6, <1>7 DEF Text, p
<1>11. s \in Seq(Seq(Line)) /\ Len(s) = Len(q) + 1 /\ s[1] = a /\ \A i \in 1..Len(q) : s[i + 1] = q[i]
  <2> DEFINE P == Seq(Line)
  <2>1. a \in P /\ q \in Seq(P)
    BY <1>9
  <2> HIDE DEF P
  <2>2. s \in Seq(P) /\ Len(s) = Len(q) + 1 /\ s[1] = a /\ \A i \in 1..Len(q) : s[i + 1] = q[i]
    <3>1. s \in Seq(P) /\ Longer(s, a, q)
      BY <2>1, OneMore
    <3> HIDE DEF s
    <3> QED
      BY <3>1 DEF Longer
  <2> QED
    BY <2>2 DEF P
<1> HIDE DEF s
<1>12. \A i \in 1..(1 + Len(q)) : s[i] = r[i]
  <2> TAKE i \in 1..(1 + Len(q))
  <2>1. CASE i = 1
    BY <1>8, <1>11, <2>1
  <2>2. CASE i # 1
    <3>1. i - 1 \in 1..Len(q) /\ i \in 2..Len(p) /\ (i - 1) + 1 = i /\ ~(i <= 1)
      BY <1>6, <1>9, <2>2 DEF p
    <3>2. s[i] = q[i - 1]
      BY <1>11, <3>1
    <3>3. r[i] = q[i - 1]
      BY <1>6, <1>7, <3>1 DEF p
    <3> QED
      BY <3>2, <3>3
  <2> QED
    BY <2>1, <2>2
<1>13. s = r
  <2>1. Len(s) = Len(r)
    BY <1>9, <1>11
  <2>2. \A i \in 1..Len(s) : s[i] = r[i]
    BY <1>11, <1>12
  <2> QED
    BY <1>9, <1>11, <2>1, <2>2, SameElements
<1> QED
  BY <1>5, <1>13 DEF s, r, p, q

-----------------------------------------------------------------------------
(* The sections of an inventory. *)

All == <<"[all]">>
ControlPlane == <<"[kube_control_plane]">>
Etcd == <<"[etcd]">>
Node == <<"[kube_node]">>
Children == <<"[k8s-cluster:children]">>

Cut4 == {All, ControlPlane, Node, Children}
Cut2 == {ControlPlane, Children}

\* A sequence of one element.
LEMMA Single ==
  ASSUME NEW S, NEW x \in S
  PROVE  <<x>> \in Seq(S)
OBVIOUS

\* The five headers are lines, and not all of them cut.
LEMMA HeaderFacts ==
  /\ Headers = {All, ControlPlane, Etcd, Node, Children}
  /\ {All, ControlPlane, Etcd, Node, Children} \subseteq Line
  /\ Etcd \notin Cut4
  /\ All \notin Cut2 /\ Etcd \notin Cut2 /\ Node \notin Cut2
<1>1. Headers = {All, ControlPlane, Etcd, Node, Children}
  BY DEF Headers, All, ControlPlane, Etcd, Node, Children
<1>2. {All, ControlPlane, Etcd, Node, Children} \subseteq Line
  <2>1. \A s \in Field : <<s>> \in Line
    BY Single DEF Line
  <2>2. {"[all]", "[kube_control_plane]", "[etcd]", "[kube_node]", "[k8s-cluster:children]"} \subseteq Field
    BY DEF Field
  <2> QED
    BY <2>1, <2>2 DEF All, ControlPlane, Etcd, Node, Children
<1>3. Etcd \notin Cut4 /\ All \notin Cut2 /\ Etcd \notin Cut2 /\ Node \notin Cut2
  BY DEF All, ControlPlane, Etcd, Node, Children, Cut4, Cut2
<1> QED
  BY <1>1, <1>2, <1>3

\* Concatenation, of which the provers see only what the lemmas say.
Cat(a, b) == a \o b

\* Lines none of which is one of these headers.
Clear(t, headers) == t \in Seq(Line) /\ \A i \in 1..Len(t) : t[i] \notin headers

\* Joining lines without headers gives no header.
LEMMA ClearConcat ==
  ASSUME NEW s, NEW t, NEW headers, Clear(s, headers), Clear(t, headers)
  PROVE  Clear(Cat(s, t), headers)
<1>1. s \in Seq(Line) /\ t \in Seq(Line) /\ Len(s) \in Nat /\ Len(t) \in Nat
  BY LengthIs DEF Clear
<1>2. s \o t \in Seq(Line) /\ Len(s \o t) = Len(s) + Len(t)
  BY <1>1, ConcatIs
<1>3. \A i \in 1..(Len(s) + Len(t)) : (s \o t)[i] = IF i <= Len(s) THEN s[i] ELSE t[i - Len(s)]
  BY <1>1, ConcatIs
<1>4. ASSUME NEW i \in 1..(Len(s) + Len(t)) PROVE (s \o t)[i] \notin headers
  <2>1. CASE i <= Len(s)
    BY <1>1, <1>3, <2>1 DEF Clear
  <2>2. CASE ~(i <= Len(s))
    <3>1. i - Len(s) \in 1..Len(t) /\ (s \o t)[i] = t[i - Len(s)]
      BY <1>1, <1>3, <2>2
    <3> QED
      BY <3>1 DEF Clear
  <2> QED
    BY <2>1, <2>2
<1> QED
  BY <1>2, <1>4 DEF Clear, Cat

\* Nor does another such line in front.
LEMMA ClearCons ==
  ASSUME NEW l \in Line, NEW t, NEW headers, l \notin headers, Clear(t, headers)
  PROVE  Clear(Cons(l, t), headers)
<1> DEFINE z == Cons(l, t)
<1>1. t \in Seq(Line) /\ Len(t) \in Nat
  BY LengthIs DEF Clear
<1>2. z \in Seq(Line) /\ Len(z) = Len(t) + 1 /\ z[1] = l /\ \A i \in 1..Len(t) : z[i + 1] = t[i]
  <2>1. z \in Seq(Line) /\ Longer(z, l, t)
    BY <1>1, OneMore
  <2> QED
    BY <2>1 DEF Longer
<1> HIDE DEF z
<1>3. ASSUME NEW i \in 1..Len(z) PROVE z[i] \notin headers
  <2>1. CASE i = 1
    BY <1>2, <2>1
  <2>2. CASE i # 1
    <3>1. i - 1 \in 1..Len(t) /\ (i - 1) + 1 = i
      BY <1>1, <1>2, <2>2
    <3> QED
      BY <1>2, <3>1 DEF Clear
  <2> QED
    BY <2>1, <2>2
<1>4. Clear(z, headers)
  BY <1>2, <1>3 DEF Clear
<1> QED
  BY <1>4 DEF z

\* An inventory with these lines in its sections.
File(a, b, c, d, e) ==
  Cons(All, Cat(a, Cons(ControlPlane, Cat(b, Cons(Etcd, Cat(c, Cons(Node, Cat(d, Cons(Children, e)))))))))

\* Split at the first header that cuts.
LEMMA SplitClear ==
  ASSUME LeastNumber, NEW a, NEW h \in Line, NEW t \in Seq(Line), NEW headers, h \in headers, Clear(a, headers)
  PROVE  /\ Cat(a, Cons(h, t)) \in Seq(Line)
         /\ Split(Cat(a, Cons(h, t)), headers) = Cons(a, Split(t, headers))
<1>1. a \in Seq(Line) /\ \A i \in 1..Len(a) : a[i] \notin headers
  BY DEF Clear
<1>2. Cons(h, t) \in Seq(Line)
  BY OneMore
<1> QED
  BY <1>1, <1>2, SplitSection DEF Cat

\* Split at a header in the first line.
LEMMA SplitFirst ==
  ASSUME LeastNumber, NEW h \in Line, NEW t \in Seq(Line), NEW headers, h \in headers
  PROVE  Split(Cons(h, t), headers) = Cons(<<>>, Split(t, headers))
BY SplitCons DEF NewPart, Cons

\* Lines without a header that cuts are one part.
LEMMA SplitOne ==
  ASSUME LeastNumber, NEW a, NEW headers, Clear(a, headers)
  PROVE  Split(a, headers) = <<a>>
BY SplitLast DEF Clear

\* The sections of an inventory, as the five headers cut it.
LEMMA FiveCuts ==
  ASSUME LeastNumber, NEW a, NEW b, NEW c, NEW d, NEW e,
         Clear(a, Headers), Clear(b, Headers), Clear(c, Headers), Clear(d, Headers), Clear(e, Headers)
  PROVE  Split(File(a, b, c, d, e), Headers) = Cons(<<>>, Cons(a, Cons(b, Cons(c, Cons(d, <<e>>)))))
<1> DEFINE t4 == Cat(d, Cons(Children, e))
           t3 == Cat(c, Cons(Node, t4))
           t2 == Cat(b, Cons(Etcd, t3))
           t1 == Cat(a, Cons(ControlPlane, t2))
<1>1. /\ All \in Headers /\ ControlPlane \in Headers /\ Etcd \in Headers /\ Node \in Headers /\ Children \in Headers
      /\ All \in Line /\ ControlPlane \in Line /\ Etcd \in Line /\ Node \in Line /\ Children \in Line
  BY HeaderFacts
<1>2. Split(e, Headers) = <<e>> /\ e \in Seq(Line)
  BY SplitOne DEF Clear
<1>4. Split(t4, Headers) = Cons(d, <<e>>) /\ t4 \in Seq(Line)
  BY <1>1, <1>2, SplitClear
<1> HIDE DEF t4
<1>5. Split(t3, Headers) = Cons(c, Cons(d, <<e>>)) /\ t3 \in Seq(Line)
  BY <1>1, <1>4, SplitClear
<1> HIDE DEF t3
<1>6. Split(t2, Headers) = Cons(b, Cons(c, Cons(d, <<e>>))) /\ t2 \in Seq(Line)
  BY <1>1, <1>5, SplitClear
<1> HIDE DEF t2
<1>7. Split(t1, Headers) = Cons(a, Cons(b, Cons(c, Cons(d, <<e>>)))) /\ t1 \in Seq(Line)
  BY <1>1, <1>6, SplitClear
<1> HIDE DEF t1
<1>8. Split(Cons(All, t1), Headers) = Cons(<<>>, Cons(a, Cons(b, Cons(c, Cons(d, <<e>>)))))
  BY <1>1, <1>7, SplitFirst
<1> QED
  BY <1>8 DEF File, t1, t2, t3, t4

\* Joining lines gives lines.
LEMMA CatIs ==
  ASSUME NEW a \in Seq(Line), NEW b \in Seq(Line)
  PROVE  Cat(a, b) \in Seq(Line)
BY ConcatIs DEF Cat

\* Cat is associative.
LEMMA CatAssoc ==
  ASSUME NEW a \in Seq(Line), NEW b \in Seq(Line), NEW c \in Seq(Line)
  PROVE  Cat(a, Cat(b, c)) = Cat(Cat(a, b), c)
BY Assoc DEF Cat

\* A text of one line.
One(h) == <<h>>

\* A line in front of others.
LEMMA ConsIs ==
  ASSUME NEW h \in Line, NEW t \in Seq(Line)
  PROVE  Cons(h, t) \in Seq(Line) /\ Cons(h, t) = Cat(One(h), t) /\ One(h) \in Seq(Line)
BY OneMore, Single DEF Cons, Cat, One

\* A line in front of lines that others are joined to.
LEMMA ConsConcat ==
  ASSUME NEW h \in Line, NEW c \in Seq(Line), NEW u \in Seq(Line)
  PROVE  Cons(h, Cat(c, u)) = Cat(Cons(h, c), u)
<1>1. Cat(c, u) \in Seq(Line) /\ One(h) \in Seq(Line)
  BY CatIs, ConsIs
<1>2. Cons(h, Cat(c, u)) = Cat(One(h), Cat(c, u)) /\ Cons(h, c) = Cat(One(h), c)
  BY <1>1, ConsIs
<1> QED
  BY <1>1, <1>2, CatAssoc

\* The brackets of an inventory may be moved: in front of a section,
LEMMA Regroup ==
  ASSUME NEW h \in Line, NEW b \in Seq(Line), NEW c \in Seq(Line), NEW u \in Seq(Line)
  PROVE  Cat(b, Cons(h, Cat(c, u))) = Cat(Cat(b, Cons(h, c)), u)
<1>1. Cons(h, Cat(c, u)) = Cat(Cons(h, c), u) /\ Cons(h, c) \in Seq(Line)
  BY ConsConcat, ConsIs
<1> QED
  BY <1>1, CatAssoc

\* around one that follows a header,
LEMMA Peel ==
  ASSUME NEW h \in Line, NEW x \in Seq(Line), NEW n \in Seq(Line), NEW w \in Seq(Line)
  PROVE  Cat(Cat(Cat(x, One(h)), n), w) = Cat(x, Cons(h, Cat(n, w)))
<1>1. Cat(n, w) \in Seq(Line) /\ One(h) \in Seq(Line) /\ Cat(x, One(h)) \in Seq(Line)
  BY ConsIs, CatIs
<1>2. Cons(h, Cat(n, w)) = Cat(One(h), Cat(n, w))
  BY <1>1, ConsIs
<1>3. Cat(x, Cat(One(h), Cat(n, w))) = Cat(Cat(x, One(h)), Cat(n, w))
  BY <1>1, CatAssoc
<1>4. Cat(Cat(x, One(h)), Cat(n, w)) = Cat(Cat(Cat(x, One(h)), n), w)
  BY <1>1, CatAssoc
<1> QED
  BY <1>2, <1>3, <1>4

\* and around the last.
LEMMA PeelLast ==
  ASSUME NEW h \in Line, NEW x \in Seq(Line), NEW n \in Seq(Line)
  PROVE  Cat(Cat(x, One(h)), n) = Cat(x, Cons(h, n))
<1>1. One(h) \in Seq(Line) /\ Cons(h, n) = Cat(One(h), n)
  BY ConsIs
<1> QED
  BY <1>1, CatAssoc

\* Without [etcd]: its lines belong to the section before it.
LEMMA FourCuts ==
  ASSUME LeastNumber, NEW a, NEW b, NEW c, NEW d, NEW e,
         Clear(a, Headers), Clear(b, Headers), Clear(c, Headers), Clear(d, Headers), Clear(e, Headers)
  PROVE  Parts(File(a, b, c, d, e)) = Cons(<<>>, Cons(a, Cons(Cat(b, Cons(Etcd, c)), Cons(d, <<e>>))))
<1> DEFINE t4 == Cat(d, Cons(Children, e))
           t3 == Cons(Node, t4)
           bc == Cat(b, Cons(Etcd, c))
           t2 == Cat(bc, t3)
           t1 == Cat(a, Cons(ControlPlane, t2))
<1>1. /\ All \in Cut4 /\ ControlPlane \in Cut4 /\ Etcd \notin Cut4 /\ Node \in Cut4 /\ Children \in Cut4
      /\ All \in Line /\ ControlPlane \in Line /\ Etcd \in Line /\ Node \in Line /\ Children \in Line
  BY HeaderFacts DEF Cut4
<1>2. Clear(a, Cut4) /\ Clear(b, Cut4) /\ Clear(c, Cut4) /\ Clear(d, Cut4) /\ Clear(e, Cut4)
  BY HeaderFacts DEF Clear, Cut4
<1>3. Clear(Cons(Etcd, c), Cut4)
  BY <1>1, <1>2, ClearCons
<1>4. Clear(bc, Cut4)
  BY <1>2, <1>3, ClearConcat
<1>5. Split(e, Cut4) = <<e>> /\ e \in Seq(Line)
  BY <1>2, SplitOne DEF Clear
<1>6. Split(t4, Cut4) = Cons(d, <<e>>) /\ t4 \in Seq(Line)
  BY <1>1, <1>2, <1>5, SplitClear
<1> HIDE DEF t4, bc
<1>7. Split(t2, Cut4) = Cons(bc, Cons(d, <<e>>)) /\ t2 \in Seq(Line)
  BY <1>1, <1>4, <1>6, SplitClear
<1>8. t3 \in Seq(Line)
  BY <1>1, <1>6, OneMore
<1> HIDE DEF t2, t3
<1>9. Split(t1, Cut4) = Cons(a, Cons(bc, Cons(d, <<e>>))) /\ t1 \in Seq(Line)
  BY <1>1, <1>2, <1>7, SplitClear
<1> HIDE DEF t1
<1>10. Split(Cons(All, t1), Cut4) = Cons(<<>>, Cons(a, Cons(bc, Cons(d, <<e>>))))
  BY <1>1, <1>9, SplitFirst
<1>11. Cat(b, Cons(Etcd, Cat(c, t3))) = t2
  <2>1. b \in Seq(Line) /\ c \in Seq(Line)
    BY <1>2 DEF Clear
  <2>2. Cat(b, Cons(Etcd, Cat(c, t3))) = Cat(Cat(b, Cons(Etcd, c)), t3)
    BY <1>1, <1>8, <2>1, Regroup
  <2> QED
    BY <2>2 DEF t2, bc
<1>12. File(a, b, c, d, e) = Cons(All, t1)
  BY <1>11 DEF File, t1, t3, t4
<1> QED
  BY <1>10, <1>12 DEF Parts, Cut4, All, ControlPlane, Node, Children, bc

\* Where getScaleUpConfigMapData cuts.
LEMMA TwoCuts ==
  ASSUME LeastNumber, NEW a, NEW b, NEW c, NEW d, NEW e,
         Clear(a, Headers), Clear(b, Headers), Clear(c, Headers), Clear(d, Headers), Clear(e, Headers)
  PROVE  Split(File(a, b, c, d, e), Cut2)
           = Cons(Cons(All, a), Cons(Cat(b, Cons(Etcd, Cat(c, Cons(Node, d)))), <<e>>))
<1> DEFINE w == Cons(Children, e)
           cd == Cat(c, Cons(Node, d))
           bd == Cat(b, Cons(Etcd, cd))
           aa == Cons(All, a)
           u == Cons(ControlPlane, Cat(bd, w))
<1>1. /\ ControlPlane \in Cut2 /\ All \notin Cut2 /\ Etcd \notin Cut2 /\ Node \notin Cut2 /\ Children \in Cut2
      /\ All \in Line /\ ControlPlane \in Line /\ Etcd \in Line /\ Node \in Line /\ Children \in Line
  BY HeaderFacts DEF Cut2
<1>2. Clear(a, Cut2) /\ Clear(b, Cut2) /\ Clear(c, Cut2) /\ Clear(d, Cut2) /\ Clear(e, Cut2)
  BY HeaderFacts DEF Clear, Cut2
<1>3. a \in Seq(Line) /\ b \in Seq(Line) /\ c \in Seq(Line) /\ d \in Seq(Line) /\ e \in Seq(Line)
  BY <1>2 DEF Clear
<1>4. Clear(cd, Cut2)
  BY <1>1, <1>2, ClearCons, ClearConcat
<1>5. w \in Seq(Line)
  BY <1>1, <1>3, OneMore
<1>6. Cat(c, Cons(Node, Cat(d, w))) = Cat(cd, w)
  <2> QED BY <1>1, <1>3, <1>5, Regroup
<1> HIDE DEF cd
<1>7. Clear(bd, Cut2)
  BY <1>1, <1>2, <1>4, ClearCons, ClearConcat
<1>8. Cat(b, Cons(Etcd, Cat(cd, w))) = Cat(bd, w)
  <2>1. cd \in Seq(Line)
    BY <1>4 DEF Clear
  <2> QED BY <1>1, <1>3, <1>5, <2>1, Regroup
<1> HIDE DEF bd
<1>9. Clear(aa, Cut2)
  BY <1>1, <1>2, ClearCons
<1>10. Split(e, Cut2) = <<e>>
  BY <1>2, SplitOne
<1>11. Split(Cat(bd, w), Cut2) = Cons(bd, <<e>>) /\ Cat(bd, w) \in Seq(Line)
  <2>0. Children \in Line /\ Children \in Cut2 /\ e \in Seq(Line)
    BY <1>1, <1>3
  <2>1. Split(Cat(bd, w), Cut2) = Cons(bd, Split(e, Cut2)) /\ Cat(bd, w) \in Seq(Line)
    BY <1>7, <2>0, SplitClear
  <2> QED
    BY <1>10, <2>1
<1>12. u \in Seq(Line)
  BY <1>1, <1>11, OneMore
<1>13. Cons(All, Cat(a, u)) = Cat(aa, u)
  <2> HIDE DEF u
  <2> QED BY <1>1, <1>3, <1>12, ConsConcat
<1> HIDE DEF aa
<1>14. Split(Cat(aa, u), Cut2) = Cons(aa, Cons(bd, <<e>>))
  <2> DEFINE v == Cat(bd, w)
  <2>1. v \in Seq(Line) /\ Split(v, Cut2) = Cons(bd, <<e>>)
    BY <1>11
  <2> HIDE DEF v, w
  <2>2. Split(Cat(aa, Cons(ControlPlane, v)), Cut2) = Cons(aa, Split(v, Cut2))
    BY <1>1, <1>9, <2>1, SplitClear
  <2> QED
    BY <2>1, <2>2 DEF v
<1>15. File(a, b, c, d, e) = Cat(aa, u)
  BY <1>6, <1>8, <1>13 DEF File, w, u
<1> QED
  BY <1>14, <1>15 DEF aa, bd, cd

Part == Seq(Line)

\* One part more.
LEMMA PartMore ==
  ASSUME NEW x \in Part, NEW t \in Seq(Part)
  PROVE  Cons(x, t) \in Seq(Part) /\ Longer(Cons(x, t), x, t)
BY OneMore

\* A split with three, five and six parts.
Three(p, x, y, z) == Len(p) = 3 /\ p[1] = x /\ p[2] = y /\ p[3] = z

\* They are found at their places: three,
LEMMA ThreeParts ==
  ASSUME NEW x \in Part, NEW y \in Part, NEW z \in Part
  PROVE  Cons(x, Cons(y, <<z>>)) \in Seq(Part) /\ Three(Cons(x, Cons(y, <<z>>)), x, y, z)
<1> DEFINE t3 == <<z>>
           t2 == Cons(y, t3)
           t1 == Cons(x, t2)
<1>1. t3 \in Seq(Part) /\ Len(t3) = 1 /\ t3[1] = z
  OBVIOUS
<1> HIDE DEF t3
<1>2. t2 \in Seq(Part) /\ Longer(t2, y, t3)
  BY <1>1, PartMore
<1>3. t2[1 + 1] = z /\ Len(t2) = 2
  BY <1>1, <1>2 DEF Longer
<1> HIDE DEF t2
<1>4. t1 \in Seq(Part) /\ Longer(t1, x, t2)
  BY <1>2, PartMore
<1>5. t1[1 + 1] = t2[1] /\ t1[2 + 1] = t2[2]
  BY <1>3, <1>4 DEF Longer
<1> HIDE DEF t1
<1>6. t1 \in Seq(Part) /\ Three(t1, x, y, z)
  BY <1>2, <1>3, <1>4, <1>5 DEF Three, Longer
<1> QED
  BY <1>6 DEF t1, t2, t3

Five(p, v, w, x, y, z) == Len(p) = 5 /\ p[1] = v /\ p[2] = w /\ p[3] = x /\ p[4] = y /\ p[5] = z

\* five,
LEMMA FiveParts ==
  ASSUME NEW v \in Part, NEW w \in Part, NEW x \in Part, NEW y \in Part, NEW z \in Part
  PROVE  /\ Cons(v, Cons(w, Cons(x, Cons(y, <<z>>)))) \in Seq(Part)
         /\ Five(Cons(v, Cons(w, Cons(x, Cons(y, <<z>>)))), v, w, x, y, z)
<1> DEFINE t3 == Cons(x, Cons(y, <<z>>))
           t2 == Cons(w, t3)
           t1 == Cons(v, t2)
<1>1. t3 \in Seq(Part) /\ Len(t3) = 3 /\ t3[1] = x /\ t3[2] = y /\ t3[3] = z
  BY ThreeParts DEF Three
<1> HIDE DEF t3
<1>2. t2 \in Seq(Part) /\ Longer(t2, w, t3)
  BY <1>1, PartMore
<1>3. t2[1 + 1] = x /\ t2[2 + 1] = y /\ t2[3 + 1] = z /\ Len(t2) = 4
  BY <1>1, <1>2 DEF Longer
<1> HIDE DEF t2
<1>4. t1 \in Seq(Part) /\ Longer(t1, v, t2)
  BY <1>2, PartMore
<1>5. t1[1 + 1] = t2[1] /\ t1[2 + 1] = t2[2] /\ t1[3 + 1] = t2[3] /\ t1[4 + 1] = t2[4]
  BY <1>3, <1>4 DEF Longer
<1> HIDE DEF t1
<1>6. t1 \in Seq(Part) /\ Five(t1, v, w, x, y, z)
  BY <1>2, <1>3, <1>4, <1>5 DEF Longer, Five
<1> QED
  BY <1>6 DEF t1, t2, t3

Six(p, u, v, w, x, y, z) ==
  Len(p) = 6 /\ p[1] = u /\ p[2] = v /\ p[3] = w /\ p[4] = x /\ p[5] = y /\ p[6] = z

\* and six.
LEMMA SixParts ==
  ASSUME NEW u \in Part, NEW v \in Part, NEW w \in Part, NEW x \in Part, NEW y \in Part, NEW z \in Part
  PROVE  Six(Cons(u, Cons(v, Cons(w, Cons(x, Cons(y, <<z>>))))), u, v, w, x, y, z)
<1> DEFINE t2 == Cons(v, Cons(w, Cons(x, Cons(y, <<z>>))))
           t1 == Cons(u, t2)
<1>1. t2 \in Seq(Part) /\ Five(t2, v, w, x, y, z)
  BY FiveParts
<1> HIDE DEF t2
<1>2. Longer(t1, u, t2)
  BY <1>1, PartMore
<1>3. Len(t2) = 5
  BY <1>1 DEF Five
<1>4. /\ t1[1 + 1] = t2[1] /\ t1[2 + 1] = t2[2] /\ t1[3 + 1] = t2[3] /\ t1[4 + 1] = t2[4] /\ t1[5 + 1] = t2[5]
      /\ Len(t1) = 6 /\ t1[1] = u
  BY <1>2, <1>3 DEF Longer
<1> HIDE DEF t1
<1>5. Six(t1, u, v, w, x, y, z)
  BY <1>1, <1>4 DEF Five, Six
<1> QED
  BY <1>5 DEF t1, t2

\* What getScaleUpConfigMapData writes: the new machines are added to [all] and
\* their names to [kube_node], and the rest stays.
LEMMA ScaleUpIs ==
  ASSUME LeastNumber, NEW a, NEW b, NEW c, NEW d, NEW e, NEW nodes,
         Clear(a, Headers), Clear(b, Headers), Clear(c, Headers), Clear(d, Headers), Clear(e, Headers),
         Clear(NodeAndIP(nodes), Headers), Clear(NodeNames(nodes), Headers)
  PROVE  getScaleUpConfigMapData(File(a, b, c, d, e), nodes)
           = File(Cat(a, NodeAndIP(nodes)), b, c, Cat(d, NodeNames(nodes)), e)
<1> DEFINE ns == NodeAndIP(nodes)
           nn == NodeNames(nodes)
           aa == Cons(All, a)
           cd == Cat(c, Cons(Node, d))
           bd == Cat(b, Cons(Etcd, cd))
           w == Cons(Children, e)
           parts == Split(File(a, b, c, d, e), Cut2)
           u == Cons(ControlPlane, Cat(Cat(bd, nn), w))
<1>1. All \in Line /\ ControlPlane \in Line /\ Etcd \in Line /\ Node \in Line /\ Children \in Line
  BY HeaderFacts
<1>2. a \in Seq(Line) /\ b \in Seq(Line) /\ c \in Seq(Line) /\ d \in Seq(Line) /\ e \in Seq(Line)
  BY DEF Clear
<1>3. ns \in Seq(Line) /\ nn \in Seq(Line)
  BY DEF Clear
<1>4. parts = Cons(aa, Cons(bd, <<e>>))
  BY TwoCuts
<1>5. getScaleUpConfigMapData(File(a, b, c, d, e), nodes)
        = Cat(Cat(Cat(Cat(Cat(Cat(parts[1], ns), One(ControlPlane)), parts[2]), nn), One(Children)), parts[3])
  BY DEF getScaleUpConfigMapData, Cat, One, Cut2, ControlPlane, Children
<1> HIDE DEF ns, nn, parts
<1>6. aa \in Seq(Line) /\ cd \in Seq(Line) /\ w \in Seq(Line)
  BY <1>1, <1>2, CatIs, ConsIs
<1>7. bd \in Seq(Line)
  <2> HIDE DEF cd
  <2> QED BY <1>1, <1>2, <1>6, CatIs, ConsIs
<1> DEFINE dn == Cat(d, nn)
<1>8. Cat(Cat(bd, nn), w) = Cat(b, Cons(Etcd, Cat(c, Cons(Node, Cat(dn, w)))))
  <2>1. Cat(cd, nn) = Cat(c, Cons(Node, dn))
    BY <1>1, <1>2, <1>3, Regroup
  <2>2. dn \in Seq(Line)
    BY <1>2, <1>3, CatIs
  <2> HIDE DEF cd, w
  <2>3. Cat(bd, nn) = Cat(b, Cons(Etcd, Cat(cd, nn)))
    BY <1>1, <1>2, <1>3, <1>6, Regroup
  <2> DEFINE cn == Cat(c, Cons(Node, dn))
  <2> HIDE DEF dn
  <2>4. cn \in Seq(Line)
    BY <1>1, <1>2, <2>2, CatIs, ConsIs
  <2>5. Cat(cn, w) = Cat(c, Cons(Node, Cat(dn, w)))
    BY <1>1, <1>2, <1>6, <2>2, Regroup
  <2> HIDE DEF cn
  <2>6. Cat(Cat(b, Cons(Etcd, cn)), w) = Cat(b, Cons(Etcd, Cat(cn, w)))
    BY <1>1, <1>2, <1>6, <2>4, Regroup
  <2>7. Cat(cd, nn) = cn
    BY <2>1 DEF cn
  <2> HIDE DEF bd
  <2> QED
    BY <2>3, <2>5, <2>6, <2>7
<1> HIDE DEF bd, cd, w, dn
<1>9. parts[1] = aa /\ parts[2] = bd /\ parts[3] = e
  <2> HIDE DEF aa
  <2> QED
    <3>1. aa \in Part /\ bd \in Part /\ e \in Part
      BY <1>2, <1>6, <1>7 DEF Part
    <3>2. Three(parts, aa, bd, e)
      BY <1>4, <3>1, ThreeParts
    <3> QED
      BY <3>2 DEF Three
<1>10. Cat(Cat(Cat(Cat(Cat(Cat(aa, ns), One(ControlPlane)), bd), nn), One(Children)), e) = Cat(Cat(aa, ns), u)
  <2> DEFINE x == Cat(aa, ns)
             xb == Cat(Cat(x, One(ControlPlane)), bd)
             bn == Cat(bd, nn)
  <2>1. x \in Seq(Line) /\ bn \in Seq(Line)
    BY <1>3, <1>6, <1>7, CatIs
  <2> HIDE DEF x, aa
  <2>2. One(ControlPlane) \in Seq(Line)
    BY <1>1, <1>2, ConsIs
  <2>3. Cat(x, One(ControlPlane)) \in Seq(Line)
    BY <2>1, <2>2, CatIs
  <2>4. xb \in Seq(Line)
    BY <1>7, <2>3, CatIs
  <2>5. Cat(xb, nn) \in Seq(Line)
    BY <1>3, <2>4, CatIs
  <2>6. Cat(Cat(Cat(xb, nn), One(Children)), e) = Cat(Cat(xb, nn), w)
    BY <1>1, <1>2, <2>5, PeelLast DEF w
  <2>7. Cat(xb, nn) = Cat(Cat(x, One(ControlPlane)), bn)
    BY <1>3, <1>7, <2>3, CatAssoc
  <2> HIDE DEF bn, xb
  <2>8. Cat(Cat(Cat(x, One(ControlPlane)), bn), w) = Cat(x, Cons(ControlPlane, Cat(bn, w)))
    BY <1>1, <1>6, <2>1, Peel
  <2> QED
    BY <2>6, <2>7, <2>8 DEF x, xb, bn
<1>11. Cat(Cat(aa, ns), u) = Cons(All, Cat(Cat(a, ns), u))
  <2>1. Cat(bd, nn) \in Seq(Line)
    BY <1>3, <1>7, CatIs
  <2>2. Cat(Cat(bd, nn), w) \in Seq(Line)
    BY <1>6, <2>1, CatIs
  <2>3. u \in Seq(Line)
    BY <1>1, <2>2, ConsIs
  <2>4. Cat(a, ns) \in Seq(Line)
    BY <1>2, <1>3, CatIs
  <2> HIDE DEF u
  <2>5. Cat(aa, ns) = Cons(All, Cat(a, ns))
    BY <1>1, <1>2, <1>3, ConsConcat
  <2>6. Cons(All, Cat(Cat(a, ns), u)) = Cat(Cons(All, Cat(a, ns)), u)
    BY <1>1, <2>3, <2>4, ConsConcat
  <2> QED
    BY <2>5, <2>6
<1>12. File(Cat(a, ns), b, c, dn, e) = Cons(All, Cat(Cat(a, ns), u))
  BY <1>8 DEF File, w
<1> HIDE DEF u, aa
<1> QED
  BY <1>5, <1>9, <1>10, <1>11, <1>12 DEF ns, nn, dn

\* What CreateClusterHosts writes.
LEMMA CreateIs ==
  ASSUME NEW in, Clear(NodeAndIP(in.master), Headers), Clear(NodeAndIP(in.nodes), Headers),
         Clear(NodeNames(in.master), Headers), Clear(NodeNames(in.nodes), Headers),
         NEW e, Clear(e, Headers), e = <<<<"kube_node">>, <<"kube_control_plane">>>>
  PROVE  CreateClusterHosts(in)
           = File(Cat(NodeAndIP(in.master), NodeAndIP(in.nodes)),
                  NodeNames(in.master), NodeNames(in.master), NodeNames(in.nodes), e)
<1> DEFINE m == NodeAndIP(in.master)
           n == NodeAndIP(in.nodes)
           b == NodeNames(in.master)
           d == NodeNames(in.nodes)
           x1 == Cat(Cat(One(All), m), n)
           x2 == Cat(Cat(x1, One(ControlPlane)), b)
           x3 == Cat(Cat(x2, One(Etcd)), b)
           x4 == Cat(Cat(x3, One(Node)), d)
           w4 == Cat(d, Cons(Children, e))
           w3 == Cat(b, Cons(Node, w4))
           w2 == Cat(b, Cons(Etcd, w3))
<1>1. All \in Line /\ ControlPlane \in Line /\ Etcd \in Line /\ Node \in Line /\ Children \in Line
  BY HeaderFacts
<1>2. m \in Seq(Line) /\ n \in Seq(Line) /\ b \in Seq(Line) /\ d \in Seq(Line) /\ e \in Seq(Line)
  BY DEF Clear
<1>3. CreateClusterHosts(in) = Cat(Cat(x4, One(Children)), e)
  BY DEF CreateClusterHosts, Cat, One, All, ControlPlane, Etcd, Node, Children
<1> HIDE DEF m, n, b, d
<1>4. One(All) \in Seq(Line) /\ One(ControlPlane) \in Seq(Line) /\ One(Etcd) \in Seq(Line) /\ One(Node) \in Seq(Line)
  BY <1>1, <1>2, ConsIs
<1>5. Cat(One(All), m) \in Seq(Line) /\ x1 \in Seq(Line)
  BY <1>2, <1>4, CatIs
<1>6. x1 = Cons(All, Cat(m, n)) /\ Cat(m, n) \in Seq(Line)
  <2>1. Cat(m, n) \in Seq(Line)
    BY <1>2, CatIs
  <2>2. x1 = Cat(One(All), Cat(m, n))
    BY <1>2, <1>4, CatAssoc
  <2> QED
    BY <1>1, <2>1, <2>2, ConsIs
<1> HIDE DEF x1
<1>7. Cat(x1, One(ControlPlane)) \in Seq(Line)
  BY <1>4, <1>5, CatIs
<1>8. x2 \in Seq(Line)
  BY <1>2, <1>7, CatIs
<1> HIDE DEF x2
<1>9. Cat(x2, One(Etcd)) \in Seq(Line)
  BY <1>4, <1>8, CatIs
<1>10. x3 \in Seq(Line)
  BY <1>2, <1>9, CatIs
<1> HIDE DEF x3
<1>11. Cat(x3, One(Node)) \in Seq(Line)
  BY <1>4, <1>10, CatIs
<1>12. x4 \in Seq(Line)
  BY <1>2, <1>11, CatIs
<1> HIDE DEF x4
<1>13. Cat(Cat(x4, One(Children)), e) = Cat(x4, Cons(Children, e)) /\ Cons(Children, e) \in Seq(Line)
  <2>1. Children \in Line /\ e \in Seq(Line)
    BY <1>1, <1>2
  <2> QED
    BY <1>12, <2>1, PeelLast, ConsIs
<1> DEFINE w5 == Cons(Children, e)
<1>14. w5 \in Seq(Line) /\ w4 \in Seq(Line)
  BY <1>2, <1>13, CatIs
<1>15. Cat(x4, w5) = Cat(x3, Cons(Node, w4))
  <2> HIDE DEF w5
  <2>1. Cat(Cat(Cat(x3, One(Node)), d), w5) = Cat(x3, Cons(Node, Cat(d, w5)))
    BY <1>1, <1>2, <1>10, <1>14, Peel
  <2> QED
    BY <2>1 DEF x4, w5
<1> HIDE DEF w5, w4
<1>16. Cons(Node, w4) \in Seq(Line)
  BY <1>1, <1>14, ConsIs
<1>17. w3 \in Seq(Line)
  BY <1>2, <1>16, CatIs
<1>18. Cat(x3, Cons(Node, w4)) = Cat(x2, Cons(Etcd, w3))
  <2> DEFINE v == Cons(Node, w4)
  <2>1. v \in Seq(Line)
    BY <1>16
  <2> HIDE DEF v
  <2>2. Cat(Cat(Cat(x2, One(Etcd)), b), v) = Cat(x2, Cons(Etcd, Cat(b, v)))
    BY <1>1, <1>2, <1>8, <2>1, Peel
  <2> QED
    BY <2>2 DEF x3, v
<1> HIDE DEF w3
<1>19. Cons(Etcd, w3) \in Seq(Line)
  BY <1>1, <1>17, ConsIs
<1>20. Cat(x2, Cons(Etcd, w3)) = Cat(x1, Cons(ControlPlane, w2)) /\ w2 \in Seq(Line)
  <2> DEFINE v == Cons(Etcd, w3)
  <2>1. v \in Seq(Line)
    BY <1>19
  <2> HIDE DEF v
  <2>2. Cat(Cat(Cat(x1, One(ControlPlane)), b), v) = Cat(x1, Cons(ControlPlane, Cat(b, v)))
    BY <1>1, <1>2, <1>5, <2>1, Peel
  <2>3. Cat(b, v) \in Seq(Line)
    BY <1>2, <2>1, CatIs
  <2> QED
    BY <2>2, <2>3 DEF x2, v
<1> HIDE DEF w2
<1>21. Cons(ControlPlane, w2) \in Seq(Line)
  BY <1>1, <1>20, ConsIs
<1>22. Cat(x1, Cons(ControlPlane, w2)) = Cons(All, Cat(Cat(m, n), Cons(ControlPlane, w2)))
  BY <1>1, <1>6, <1>21, ConsConcat
<1>23. CreateClusterHosts(in) = Cons(All, Cat(Cat(m, n), Cons(ControlPlane, w2)))
  BY <1>3, <1>13, <1>15, <1>18, <1>20, <1>22 DEF w5
<1>24. CreateClusterHosts(in) = File(Cat(m, n), b, b, d, e)
  BY <1>23 DEF File, w2, w3, w4
<1> QED
  BY <1>24 DEF m, n, b, d

-----------------------------------------------------------------------------
(* The lines of a section. *)

\* Machines whose names are no headers.
Machines(ms) == ms \in Seq(Triple) /\ \A i \in DOMAIN ms : <<ms[i][1]>> \notin Headers

\* Machines with a name each.
AllNamed(ms) == \A i \in 1..Len(ms) : ms[i][1] # NoName

\* A header is one word.
LEMMA HeaderLen == \A h \in Headers : Len(h) = 1
BY DEF Headers

\* A machine is its three fields.
LEMMA TripleIs ==
  ASSUME NEW m \in Triple
  PROVE  /\ m = <<m[1], m[2], m[3]>> /\ m[1] \in STRING /\ m[2] \in STRING /\ m[3] \in STRING
BY DEF Triple

\* The line of a machine is no header, and has its three fields only when the
\* machine has a name.
LEMMA LineOfMachine ==
  ASSUME NEW m \in Triple
  PROVE  /\ nodeAndIP(m) \in Line /\ nodeAndIP(m) \notin Headers
         /\ Len(nodeAndIP(m)) = 3 => m[1] # NoName
         /\ m[1] # NoName => nodeAndIP(m) = m
<1> DEFINE x == m[1]
           y == m[2]
           z == m[3]
           n == NoName
<1>1. m = <<x, y, z>> /\ x \in Field /\ y \in Field /\ z \in Field
  BY TripleIs DEF Field
<1>2. nodeAndIP(m) = IF x = n THEN <<y, z>> ELSE m
  BY DEF nodeAndIP
<1> HIDE DEF x, y, z, n
<1>3. <<y, z>> \in Seq(Field) /\ Len(<<y, z>>) = 2 /\ <<x, y, z>> \in Seq(Field) /\ Len(<<x, y, z>>) = 3
  BY <1>1
<1>4. CASE x = n
  <2>1. nodeAndIP(m) = <<y, z>>
    BY <1>2, <1>4
  <2> DEFINE l == nodeAndIP(m)
  <2>2. l \in Seq(Field) /\ Len(l) = 2
    BY <1>3, <2>1
  <2> HIDE DEF l
  <2>3. l \notin Headers
    <3>1. l \in Headers => Len(l) = 1
      BY HeaderLen
    <3> QED
      BY <2>2, <3>1
  <2> QED
    BY <1>4, <2>2, <2>3 DEF Line, l, x, n
<1>5. CASE x # n
  <2>1. nodeAndIP(m) = m
    BY <1>2, <1>5
  <2>2. m \in Seq(Field) /\ Len(m) = 3
    BY <1>1, <1>3
  <2>3. m \notin Headers
    BY <2>2, HeaderLen
  <2> QED
    BY <1>5, <2>1, <2>2, <2>3 DEF Line, x, n
<1> QED
  BY <1>4, <1>5

\* The lines of [all] for these machines.
LEMMA NodeAndIPIs ==
  ASSUME NEW ms, Machines(ms)
  PROVE  /\ Clear(NodeAndIP(ms), Headers)
         /\ Len(NodeAndIP(ms)) = Len(ms)
         /\ (\A i \in 1..Len(NodeAndIP(ms)) : Len(NodeAndIP(ms)[i]) = 3) => AllNamed(ms)
         /\ AllNamed(ms) => \A i \in 1..Len(ms) : NodeAndIP(ms)[i] = ms[i]
<1> DEFINE t == NodeAndIP(ms)
           n == Len(ms)
<1>1. n \in Nat /\ DOMAIN ms = 1..n /\ \A i \in 1..n : ms[i] \in Triple
  BY LengthIs DEF Machines
<1>2. t = [i \in 1..n |-> nodeAndIP(ms[i])]
  BY <1>1 DEF NodeAndIP
<1> HIDE DEF t, n
<1>3. \A i \in 1..n : t[i] = nodeAndIP(ms[i])
  BY <1>2
<1>4. \A i \in 1..n : nodeAndIP(ms[i]) \in Line /\ nodeAndIP(ms[i]) \notin Headers
  BY <1>1, LineOfMachine
<1>5. t \in Seq(Line) /\ Len(t) = n
  BY <1>1, <1>2, <1>4
<1>6. Clear(t, Headers)
  BY <1>3, <1>4, <1>5 DEF Clear
<1>7. (\A i \in 1..n : Len(t[i]) = 3) => AllNamed(ms)
  BY <1>1, <1>3, LineOfMachine DEF AllNamed, n
<1>8. AllNamed(ms) => \A i \in 1..n : t[i] = ms[i]
  BY <1>1, <1>3, LineOfMachine DEF AllNamed, n
<1> QED
  BY <1>5, <1>6, <1>7, <1>8 DEF t, n

\* The lines of a group for these machines.
LEMMA NodeNamesAre ==
  ASSUME LeastNumber, NEW ms, Machines(ms)
  PROVE  /\ Clear(NodeNames(ms), Headers)
         /\ \A x \in Names(NodeNames(ms)) : \E i \in 1..Len(ms) : ms[i][1] = x /\ ms[i][1] # NoName
         /\ AllNamed(ms) => /\ Len(NodeNames(ms)) = Len(ms)
                            /\ \A i \in 1..Len(ms) : NodeNames(ms)[i] = <<ms[i][1]>>
<1> DEFINE none == {NoName}
           w == Without(none, ms)
           t == NodeNames(ms)
           T == {m \in Elements(ms) : m[1] \notin none}
<1>1. ms \in Seq(Triple) /\ DOMAIN ms = 1..Len(ms) /\ \A i \in 1..Len(ms) : ms[i] \in Triple
  BY LengthIs DEF Machines
<1>2. w \in Seq(T)
  BY <1>1, WithoutKeeps
<1>3. t = [i \in DOMAIN w |-> <<w[i][1]>>]
  BY DEF NodeNames
<1>4. \A m \in Elements(ms) : <<m[1]>> \in Line /\ <<m[1]>> \notin Headers
  <2> SUFFICES ASSUME NEW i \in DOMAIN ms PROVE <<ms[i][1]>> \in Line /\ <<ms[i][1]>> \notin Headers
    BY DEF Elements
  <2>1. ms[i][1] \in Field
    BY <1>1, TripleIs DEF Field
  <2>2. <<ms[i][1]>> \in Line
    BY <2>1, Single DEF Line
  <2> QED
    BY <2>2 DEF Machines
<1>5. \A m \in T : <<m[1]>> \in Line /\ <<m[1]>> \notin Headers
  BY <1>4
<1> HIDE DEF T, w, t
<1>6. Len(w) \in Nat /\ DOMAIN w = 1..Len(w) /\ \A i \in 1..Len(w) : w[i] \in T
  BY <1>2, LengthIs
<1>7. Clear(t, Headers)
  <2> DEFINE l(i) == <<w[i][1]>>
             n == Len(w)
  <2>1. \A i \in 1..n : l(i) \in Line /\ l(i) \notin Headers
    BY <1>5, <1>6
  <2>2. t = [i \in 1..n |-> l(i)] /\ n \in Nat
    BY <1>3, <1>6
  <2> HIDE DEF l, n
  <2>3. t \in Seq(Line) /\ Len(t) = n /\ \A i \in 1..n : t[i] = l(i)
    BY <2>1, <2>2
  <2> QED
    BY <2>1, <2>3 DEF Clear
<1>8. ASSUME AllNamed(ms)
      PROVE  Len(t) = Len(ms) /\ \A i \in 1..Len(ms) : t[i] = <<ms[i][1]>>
  <2>1. \A i \in 1..Len(ms) : ms[i][1] \notin none
    BY <1>8 DEF AllNamed
  <2>2. w = ms
    <3> HIDE DEF none
    <3> QED BY <1>1, <2>1, WithoutNone DEF w
  <2> DEFINE n == Len(ms)
  <2>3. t = [i \in 1..n |-> <<ms[i][1]>>] /\ n \in Nat
    BY <1>1, <1>3, <2>2, LengthIs
  <2> HIDE DEF n
  <2>4. Len(t) = n /\ \A i \in 1..n : t[i] = <<ms[i][1]>>
    BY <2>3
  <2> QED
    BY <2>4 DEF n
<1>9. \A x \in Names(t) : \E i \in 1..Len(ms) : ms[i][1] = x /\ ms[i][1] # NoName
  <2> SUFFICES ASSUME NEW k \in DOMAIN w PROVE \E i \in 1..Len(ms) : ms[i][1] = <<w[k][1]>>[1] /\ ms[i][1] # NoName
    BY <1>3 DEF Names
  <2>1. w[k] \in Elements(ms) /\ w[k][1] # NoName
    BY <1>6 DEF T
  <2> QED BY <1>1, <2>1 DEF Elements
<1> QED
  BY <1>7, <1>8, <1>9 DEF t

\* The names in joined lines.
LEMMA NamesOfCat ==
  ASSUME NEW s \in Seq(Line), NEW t \in Seq(Line)
  PROVE  Names(Cat(s, t)) = Names(s) \cup Names(t)
<1> DEFINE r == Cat(s, t)
<1>1. Len(s) \in Nat /\ Len(t) \in Nat /\ DOMAIN s = 1..Len(s) /\ DOMAIN t = 1..Len(t)
  BY LengthIs
<1>2. r \in Seq(Line) /\ Len(r) = Len(s) + Len(t)
  BY ConcatIs DEF Cat
<1>3. \A i \in 1..(Len(s) + Len(t)) : r[i] = IF i <= Len(s) THEN s[i] ELSE t[i - Len(s)]
  BY ConcatIs DEF Cat
<1> HIDE DEF r
<1>4. DOMAIN r = 1..(Len(s) + Len(t))
  BY <1>2
<1>5. ASSUME NEW x \in Names(r) PROVE x \in Names(s) \cup Names(t)
  <2>1. PICK i \in 1..(Len(s) + Len(t)) : x = r[i][1]
    BY <1>4 DEF Names
  <2>2. CASE i <= Len(s)
    <3>1. i \in DOMAIN s /\ r[i] = s[i]
      BY <1>1, <1>3, <2>2
    <3> QED
      BY <2>1, <3>1 DEF Names
  <2>3. CASE ~(i <= Len(s))
    <3>1. i - Len(s) \in DOMAIN t /\ r[i] = t[i - Len(s)]
      BY <1>1, <1>3, <2>3
    <3> QED
      BY <2>1, <3>1 DEF Names
  <2> QED
    BY <2>2, <2>3
<1>6. ASSUME NEW x \in Names(s) PROVE x \in Names(r)
  <2>1. PICK i \in 1..Len(s) : x = s[i][1]
    BY <1>1 DEF Names
  <2>2. i \in DOMAIN r /\ r[i] = s[i]
    BY <1>1, <1>3, <1>4
  <2> QED
    BY <2>1, <2>2 DEF Names
<1>7. ASSUME NEW x \in Names(t) PROVE x \in Names(r)
  <2>1. PICK i \in 1..Len(t) : x = t[i][1]
    BY <1>1 DEF Names
  <2>2. i + Len(s) \in DOMAIN r /\ r[i + Len(s)] = t[i]
    <3>1. i + Len(s) \in 1..(Len(s) + Len(t)) /\ ~(i + Len(s) <= Len(s)) /\ (i + Len(s)) - Len(s) = i
      BY <1>1
    <3> QED
      BY <1>3, <1>4, <3>1
  <2> QED
    BY <2>1, <2>2 DEF Names
<1> QED
  BY <1>5, <1>6, <1>7 DEF r

-----------------------------------------------------------------------------
(* What the controller writes. *)

\* Each line of [all] has a name and both addresses, as the reader of the inventory requires.
Full(a) == \A i \in 1..Len(a) : Len(a[i]) = 3

\* Every group names machines of [all], and the etcd members are the masters, odd
\* in number if all machines have their names.
Sound(a, b, c, d) ==
  /\ b = c /\ Names(b) \subseteq Listed(a) /\ Names(d) \subseteq Listed(a)
  /\ Full(a) => Len(c) % 2 = 1

\* Five sections without headers in them.
AreSections(a, b, c, d, e) ==
  Clear(a, Headers) /\ Clear(b, Headers) /\ Clear(c, Headers) /\ Clear(d, Headers) /\ Clear(e, Headers)

\* A file as the controller writes it.
IsInventory(t) ==
  \E a, b, c, d, e : t = File(a, b, c, d, e) /\ AreSections(a, b, c, d, e) /\ Sound(a, b, c, d)

\* What WellFormed says of a file.
Good(t) ==
  LET p == Split(t, Headers) IN
  /\ Names(p[3]) \cup Names(p[4]) \cup Names(p[5]) \subseteq Listed(p[2])
  /\ p[3] = p[4]
  /\ readable(t) => Len(p[4]) % 2 = 1

\* Such a file is read back by its sections, and is what WellFormed asks for.
LEMMA InventoryGood ==
  ASSUME LeastNumber, NEW t, IsInventory(t)
  PROVE  Len(Parts(t)) = 5 /\ Good(t)
<1>1. PICK a, b, c, d, e : t = File(a, b, c, d, e) /\ AreSections(a, b, c, d, e) /\ Sound(a, b, c, d)
  BY DEF IsInventory
<1> DEFINE p == Split(t, Headers)
           q == Parts(t)
           bc == Cat(b, Cons(Etcd, c))
           o == <<>>
<1>2. a \in Part /\ b \in Part /\ c \in Part /\ d \in Part /\ e \in Part /\ o \in Part /\ DOMAIN a = 1..Len(a)
  BY <1>1 DEF AreSections, Clear, Part
<1>3. bc \in Part
  BY <1>2, HeaderFacts, CatIs, ConsIs DEF Part
<1>4. p = Cons(o, Cons(a, Cons(b, Cons(c, Cons(d, <<e>>)))))
  BY <1>1, FiveCuts DEF AreSections
<1>5. q = Cons(o, Cons(a, Cons(bc, Cons(d, <<e>>))))
  BY <1>1, FourCuts DEF AreSections
<1> HIDE DEF p, q, bc, o
<1>6. p[2] = a /\ p[3] = b /\ p[4] = c /\ p[5] = d
  <2>1. Six(p, o, a, b, c, d, e)
    BY <1>2, <1>4, SixParts
  <2> QED
    BY <2>1 DEF Six
<1>7. Len(q) = 5 /\ q[2] = a
  <2>1. Five(q, o, a, bc, d, e)
    BY <1>2, <1>3, <1>5, FiveParts
  <2> QED
    BY <2>1 DEF Five
<1>8. readable(t) => Full(a)
  BY <1>2, <1>7 DEF readable, Full, q
<1>9. /\ Names(p[3]) \cup Names(p[4]) \cup Names(p[5]) \subseteq Listed(p[2])
      /\ p[3] = p[4]
      /\ Full(a) => Len(p[4]) % 2 = 1
  <2>1. /\ b = c /\ Names(b) \cup Names(c) \cup Names(d) \subseteq Listed(a)
        /\ Full(a) => Len(c) % 2 = 1
    BY <1>1 DEF Sound
  <2> QED
    BY <1>6, <2>1
<1> QED
  BY <1>7, <1>8, <1>9 DEF Good, p, q

\* A group names machines by their complete lines of [all].
LEMMA NamesOfLines ==
  ASSUME LeastNumber, NEW ms, Machines(ms)
  PROVE  Names(NodeNames(ms)) \subseteq Listed(NodeAndIP(ms))
<1> DEFINE t == NodeAndIP(ms)
           n == Len(ms)
<1>1. n \in Nat /\ DOMAIN ms = 1..n /\ \A i \in 1..n : ms[i] \in Triple
  BY LengthIs DEF Machines
<1>2. t = [i \in 1..n |-> nodeAndIP(ms[i])]
  BY <1>1 DEF NodeAndIP
<1> HIDE DEF t, n
<1> SUFFICES ASSUME NEW x \in Names(NodeNames(ms)) PROVE x \in Listed(t)
  BY DEF t
<1>3. PICK i \in 1..n : ms[i][1] = x /\ ms[i][1] # NoName
  BY NodeNamesAre DEF n
<1>4. t[i] = ms[i] /\ i \in DOMAIN t
  BY <1>1, <1>2, <1>3, LineOfMachine
<1>5. Len(ms[i]) = 3
  <2> DEFINE y == ms[i][1]
             z == ms[i][2]
             u == ms[i][3]
  <2>1. ms[i] = <<y, z, u>>
    BY <1>1, TripleIs
  <2> HIDE DEF y, z, u
  <2> QED BY <2>1
<1> QED BY <1>3, <1>4, <1>5 DEF Listed

\* Joined lines list what their halves do.
LEMMA ListedCat ==
  ASSUME NEW s \in Seq(Line), NEW t \in Seq(Line)
  PROVE  Listed(s) \cup Listed(t) \subseteq Listed(Cat(s, t))
<1> DEFINE r == Cat(s, t)
<1>1. Len(s) \in Nat /\ Len(t) \in Nat /\ DOMAIN s = 1..Len(s) /\ DOMAIN t = 1..Len(t)
  BY LengthIs
<1>2. r \in Seq(Line) /\ Len(r) = Len(s) + Len(t)
  BY ConcatIs DEF Cat
<1>3. \A i \in 1..(Len(s) + Len(t)) : r[i] = IF i <= Len(s) THEN s[i] ELSE t[i - Len(s)]
  BY ConcatIs DEF Cat
<1> HIDE DEF r
<1>4. DOMAIN r = 1..(Len(s) + Len(t))
  BY <1>2
<1>5. ASSUME NEW x \in Listed(s) PROVE x \in Listed(r)
  <2>1. PICK i \in 1..Len(s) : x = s[i][1] /\ Len(s[i]) = 3
    BY <1>1 DEF Listed
  <2>2. i \in DOMAIN r /\ r[i] = s[i]
    BY <1>1, <1>3, <1>4
  <2> QED
    BY <2>1, <2>2 DEF Listed
<1>6. ASSUME NEW x \in Listed(t) PROVE x \in Listed(r)
  <2>1. PICK i \in 1..Len(t) : x = t[i][1] /\ Len(t[i]) = 3
    BY <1>1 DEF Listed
  <2>2. i + Len(s) \in DOMAIN r /\ r[i + Len(s)] = t[i]
    <3>1. i + Len(s) \in 1..(Len(s) + Len(t)) /\ ~(i + Len(s) <= Len(s)) /\ (i + Len(s)) - Len(s) = i
      BY <1>1
    <3> QED
      BY <1>3, <1>4, <3>1
  <2> QED
    BY <2>1, <2>2 DEF Listed
<1> QED
  BY <1>5, <1>6 DEF r

\* When joined lines are full, so are both halves.
LEMMA FullCat ==
  ASSUME NEW s \in Seq(Line), NEW t \in Seq(Line), Full(Cat(s, t))
  PROVE  Full(s) /\ Full(t)
<1> DEFINE r == Cat(s, t)
<1>1. Len(s) \in Nat /\ Len(t) \in Nat
  BY LengthIs
<1>2. Len(r) = Len(s) + Len(t)
  BY ConcatIs DEF Cat
<1>3. \A i \in 1..(Len(s) + Len(t)) : r[i] = IF i <= Len(s) THEN s[i] ELSE t[i - Len(s)]
  BY ConcatIs DEF Cat
<1>4. \A i \in 1..(Len(s) + Len(t)) : Len(r[i]) = 3
  BY <1>2 DEF Full
<1> HIDE DEF r
<1>5. ASSUME NEW i \in 1..Len(s) PROVE Len(s[i]) = 3
  <2>1. i \in 1..(Len(s) + Len(t)) /\ r[i] = s[i]
    BY <1>1, <1>3
  <2> QED
    BY <1>4, <2>1
<1>6. ASSUME NEW i \in 1..Len(t) PROVE Len(t[i]) = 3
  <2>1. i + Len(s) \in 1..(Len(s) + Len(t)) /\ ~(i + Len(s) <= Len(s)) /\ (i + Len(s)) - Len(s) = i
    BY <1>1
  <2>2. r[i + Len(s)] = t[i]
    BY <1>3, <2>1
  <2> QED
    BY <1>4, <2>1, <2>2
<1> QED
  BY <1>5, <1>6 DEF Full

\* CreateClusterHosts writes an inventory (validate sees to the odd masters).
LEMMA CreateGood ==
  ASSUME LeastNumber, NEW in, Machines(in.master), Machines(in.nodes), Len(in.master) % 2 = 1
  PROVE  IsInventory(CreateClusterHosts(in))
<1> DEFINE m == NodeAndIP(in.master)
           n == NodeAndIP(in.nodes)
           b == NodeNames(in.master)
           d == NodeNames(in.nodes)
           e == <<<<"kube_node">>, <<"kube_control_plane">>>>
           a == Cat(m, n)
<1>1. Clear(m, Headers) /\ Clear(n, Headers) /\ Clear(b, Headers) /\ Clear(d, Headers)
  BY NodeAndIPIs, NodeNamesAre
<1>2. Clear(e, Headers)
  <2>1. \A s \in Field : <<s>> \in Line
    BY Single DEF Line
  <2> DEFINE x == <<"kube_node">>
             y == <<"kube_control_plane">>
  <2>2. x \in Line /\ y \in Line
    BY <2>1 DEF Field
  <2>3. x \notin Headers /\ y \notin Headers
    BY DEF Headers
  <2> HIDE DEF x, y
  <2>4. <<x, y>> \in Seq(Line) /\ \A i \in 1..Len(<<x, y>>) : <<x, y>>[i] \in {x, y}
    BY <2>2
  <2>5. Clear(<<x, y>>, Headers)
    BY <2>3, <2>4 DEF Clear
  <2> QED
    BY <2>5 DEF x, y
<1>3. CreateClusterHosts(in) = File(a, b, b, d, e)
  BY <1>1, <1>2, CreateIs
<1>4. Clear(a, Headers)
  BY <1>1, ClearConcat
<1>5. Sound(a, b, b, d)
  <2> HIDE DEF e
  <2>1. m \in Seq(Line) /\ n \in Seq(Line)
    BY <1>1 DEF Clear
  <2>2. Names(b) \subseteq Listed(m) /\ Names(d) \subseteq Listed(n)
    BY NamesOfLines
  <2>3. Listed(m) \cup Listed(n) \subseteq Listed(a)
    <3> HIDE DEF m, n
    <3> QED BY <2>1, ListedCat
  <2>4. ASSUME Full(a) PROVE Len(b) % 2 = 1
    <3>1. Full(m)
      <4> HIDE DEF m, n
      <4> QED BY <2>1, <2>4, FullCat
    <3>2. AllNamed(in.master)
      BY <3>1, NodeAndIPIs DEF Full
    <3> QED BY <3>2, NodeNamesAre
  <2> HIDE DEF a, b, d, m, n
  <2> QED
    BY <2>2, <2>3, <2>4 DEF Sound
<1> HIDE DEF a, b, d, e
<1>6. AreSections(a, b, b, d, e)
  BY <1>1, <1>2, <1>4 DEF AreSections
<1> QED
  BY <1>3, <1>5, <1>6 DEF IsInventory

\* getScaleUpConfigMapData makes an inventory of an inventory.
LEMMA ScaleUpGood ==
  ASSUME LeastNumber, NEW t, IsInventory(t), NEW nodes, Machines(nodes)
  PROVE  IsInventory(getScaleUpConfigMapData(t, nodes))
<1>1. PICK a, b, c, d, e : t = File(a, b, c, d, e) /\ AreSections(a, b, c, d, e) /\ Sound(a, b, c, d)
  BY DEF IsInventory
<1> DEFINE ns == NodeAndIP(nodes)
           nn == NodeNames(nodes)
           an == Cat(a, ns)
           dn == Cat(d, nn)
<1>2. Clear(a, Headers) /\ Clear(b, Headers) /\ Clear(c, Headers) /\ Clear(d, Headers) /\ Clear(e, Headers)
  BY <1>1 DEF AreSections
<1>3. Clear(ns, Headers) /\ Clear(nn, Headers)
  BY NodeAndIPIs, NodeNamesAre
<1>4. getScaleUpConfigMapData(t, nodes) = File(an, b, c, dn, e)
  BY <1>1, <1>2, <1>3, ScaleUpIs
<1>5. Clear(an, Headers) /\ Clear(dn, Headers)
  BY <1>2, <1>3, ClearConcat
<1>6. Sound(an, b, c, dn)
  <2>1. a \in Seq(Line) /\ d \in Seq(Line) /\ ns \in Seq(Line) /\ nn \in Seq(Line)
    BY <1>2, <1>3 DEF Clear
  <2>2. /\ Full(an) => Full(a)
        /\ Listed(a) \cup Listed(ns) \subseteq Listed(an) /\ Names(dn) = Names(d) \cup Names(nn)
    <3> HIDE DEF ns, nn
    <3> QED BY <2>1, FullCat, ListedCat, NamesOfCat
  <2>3. Names(nn) \subseteq Listed(ns)
    BY NamesOfLines
  <2> HIDE DEF an, dn, ns, nn
  <2> QED
    BY <1>1, <2>2, <2>3 DEF Sound
<1> HIDE DEF an, dn
<1>7. AreSections(an, b, c, dn, e)
  BY <1>2, <1>5 DEF AreSections
<1> QED
  BY <1>4, <1>6, <1>7 DEF IsInventory

\* The two lines of the configuration.
VersionKey == "kube_version: "
VersionLine(v) == <<VersionKey, v>>
Subnet == <<"kube_pods_subnet: ", "10.233.64.0/18">>

\* They are these, and begin differently.
LEMMA ConfigLines ==
  ASSUME NEW v
  PROVE  /\ CreateClusterConfig(v) = <<VersionLine(v), Subnet>>
         /\ VersionLine(v)[1] = VersionKey /\ VersionLine(v)[2] = v /\ Subnet[1] # VersionKey
<1>1. CreateClusterConfig(v) = <<VersionLine(v), Subnet>>
  BY DEF CreateClusterConfig, VersionLine, Subnet, VersionKey
<1>2. VersionLine(v)[1] = VersionKey /\ VersionLine(v)[2] = v
  BY DEF VersionLine
<1>3. Subnet[1] # VersionKey
  <2> DEFINE g == "kube_pods_subnet: "
             n == "10.233.64.0/18"
  <2>1. VersionKey # g /\ Subnet = <<g, n>>
    BY DEF VersionKey, Subnet
  <2> HIDE DEF g, n
  <2> QED
    BY <2>1
<1> QED
  BY <1>1, <1>2, <1>3

\* The version that is read is the one that was written.
LEMMA ConfigRead ==
  ASSUME NEW v
  PROVE  getKubeVersionFromCM(CreateClusterConfig(v)) = v
<1> DEFINE text == CreateClusterConfig(v)
           of == {i \in DOMAIN text : text[i][1] = VersionKey}
<1>1. text = <<VersionLine(v), Subnet>>
  BY ConfigLines
<1>2. DOMAIN text = {1, 2} /\ text[1] = VersionLine(v) /\ text[2] = Subnet
  BY <1>1
<1>3. getKubeVersionFromCM(text) = IF of = {} THEN NoVersion ELSE text[CHOOSE i \in of : \A j \in of : i <= j][2]
  BY DEF getKubeVersionFromCM, VersionKey, NoVersion
<1> HIDE DEF text
<1>4. of = {1}
  BY <1>2, ConfigLines
<1> HIDE DEF of
<1>5. (CHOOSE i \in of : \A j \in of : i <= j) = 1
  BY <1>4
<1> QED
  BY <1>2, <1>3, <1>4, <1>5, ConfigLines DEF text

\* Updating the version in a written configuration is writing it anew.
LEMMA ConfigUpdate ==
  ASSUME NEW v, NEW w
  PROVE  getUpdatedKubeVersionConfigData(CreateClusterConfig(v), w) = CreateClusterConfig(w)
<1> DEFINE text == CreateClusterConfig(v)
           new == CreateClusterConfig(w)
<1>1. text = <<VersionLine(v), Subnet>> /\ new = <<VersionLine(w), Subnet>> /\ VersionLine(v) # Subnet
  BY ConfigLines
<1>2. getKubeVersionFromCM(text) = v
  BY ConfigRead
<1> HIDE DEF text, new
<1>3. getUpdatedKubeVersionConfigData(text, w)
        = [i \in DOMAIN text |-> IF text[i] = VersionLine(v) THEN VersionLine(w) ELSE text[i]]
  BY <1>2 DEF getUpdatedKubeVersionConfigData, VersionLine, VersionKey
<1>4. [i \in DOMAIN text |-> IF text[i] = VersionLine(v) THEN VersionLine(w) ELSE text[i]] = new
  BY <1>1
<1> QED
  BY <1>3, <1>4 DEF text, new

-----------------------------------------------------------------------------
\* The inductive invariant: whatever sequence of reconciliations and edits has
\* written the files, they are files the controller writes.
IInv ==
  /\ machine \in Specs /\ validate(machine) /\ version \in Versions
  /\ key \in BOOLEAN /\ machineReady \in BOOLEAN /\ panicked \in BOOLEAN
  /\ edits \in 0..MaxEdits
  /\ hosts = Absent \/ IsInventory(hosts)
  /\ scaleUp = Absent \/ IsInventory(scaleUp)
  /\ config = Absent \/ \E v \in Versions : config = CreateClusterConfig(v)

\* The machines of a spec.
LEMMA SpecIs ==
  ASSUME NEW in \in Specs
  PROVE  Machines(in.master) /\ Machines(in.nodes)
BY MachineAssumption DEF Machines, Triple

\* Those that are left when some are taken out.
LEMMA NewNodes ==
  ASSUME LeastNumber, NEW names, NEW ms, Machines(ms)
  PROVE  Machines(Without(names, ms))
<1> DEFINE w == Without(names, ms)
           T == {m \in Elements(ms) : m[1] \notin names}
<1>1. ms \in Seq(Triple) /\ DOMAIN ms = 1..Len(ms) /\ \A i \in DOMAIN ms : ms[i] \in Triple /\ <<ms[i][1]>> \notin Headers
  BY LengthIs DEF Machines
<1>2. w \in Seq(T)
  BY <1>1, WithoutKeeps
<1>3. \A m \in T : m \in Triple /\ <<m[1]>> \notin Headers
  BY <1>1 DEF Elements
<1> HIDE DEF T, w
<1>4. DOMAIN w = 1..Len(w) /\ Len(w) \in Nat /\ \A i \in 1..Len(w) : w[i] \in T
  BY <1>2, LengthIs
<1>5. w \in Seq(Triple)
  <2> DEFINE n == Len(w)
  <2>1. n \in Nat /\ \A i \in 1..n : w[i] \in Triple
    BY <1>3, <1>4
  <2>2. w = [i \in 1..n |-> w[i]]
    BY <1>2
  <2> HIDE DEF n
  <2> QED
    BY <2>1, <2>2
<1>6. Machines(w)
  BY <1>3, <1>4, <1>5 DEF Machines
<1> QED
  BY <1>6 DEF w

\* An inventory is well formed.
LEMMA IInvImplies ==
  ASSUME LeastNumber
  PROVE  IInv => WellFormed
<1> SUFFICES ASSUME IInv PROVE WellFormed
  OBVIOUS
<1>1. InventoryTypeOK
  <2>1. hosts # Absent => Len(Parts(hosts)) = 5
    BY InventoryGood DEF IInv
  <2>2. config # Absent => getKubeVersionFromCM(config) \in Versions
    BY ConfigRead DEF IInv
  <2> QED
    BY <2>1, <2>2 DEF InventoryTypeOK, IInv
<1>2. ASSUME NEW t \in {hosts, scaleUp} \ {Absent} PROVE Good(t)
  BY InventoryGood DEF IInv
<1> QED
  BY <1>1, <1>2 DEF WellFormed, Good

\* There are no files yet.
LEMMA InitIInv == InventoryInit => IInv
<1> SUFFICES ASSUME InventoryInit PROVE IInv
  OBVIOUS
<1>1. machine \in Specs /\ validate(machine)
  BY DEF InventoryInit
<1>2. edits \in 0..MaxEdits
  BY EditAssumption DEF InventoryInit
<1> QED
  BY <1>1, <1>2 DEF InventoryInit, IInv

\* Every step of the controller and of the user keeps the files such.
LEMMA NextIInv ==
  ASSUME LeastNumber
  PROVE  IInv /\ [InventoryNext]_inventoryVars => IInv'
<1> SUFFICES ASSUME IInv, [InventoryNext]_inventoryVars PROVE IInv'
  OBVIOUS
<1> USE DEF IInv
<1>1. Machines(machine.master) /\ Machines(machine.nodes) /\ Len(machine.master) % 2 = 1
  BY SpecIs DEF validate
<1>2. IsInventory(CreateClusterHosts(machine))
  BY <1>1, CreateGood
<1>3. ASSUME NEW info, IsInventory(hosts)
      PROVE  IsInventory(getScaleUpConfigMapData(hosts, findScaleUpWorkerNodes(info)))
  <2>1. Machines(findScaleUpWorkerNodes(info))
    BY <1>1, NewNodes DEF findScaleUpWorkerNodes, findAdditionalWorkerNodes
  <2> QED
    BY <1>3, <2>1, ScaleUpGood
<1>4. ASSUME NEW info \in getProvisionedClusterInfo PROVE IsInventory(hosts)
  BY <1>4 DEF getProvisionedClusterInfo, Provisioned
<1>5. CASE reconcileCustomMachine
  BY <1>5 DEF reconcileCustomMachine
<1>6. CASE ensureClusterHostsCreated
  BY <1>2, <1>6 DEF ensureClusterHostsCreated
<1>7. CASE ReadPanics
  BY <1>7 DEF ReadPanics
<1>8. ASSUME NEW info \in getProvisionedClusterInfo, ensureScaleUpHostsCreated(info) PROVE IInv'
  BY <1>3, <1>4, <1>8 DEF ensureScaleUpHostsCreated
<1>9. ASSUME NEW info \in getProvisionedClusterInfo, updateClusterNodes(info) PROVE IInv'
  BY <1>3, <1>4, <1>9 DEF updateClusterNodes
<1>10. ASSUME NEW info \in getProvisionedClusterInfo, recreateClusterHosts(info) PROVE IInv'
  BY <1>2, <1>10 DEF recreateClusterHosts
<1>11. ASSUME NEW info \in getProvisionedClusterInfo, updateKubeVersion(info) PROVE IInv'
  <2>1. config' = getUpdatedKubeVersionConfigData(config, version)
    BY <1>11 DEF updateKubeVersion
  <2>2. CASE config = Absent
    <3>1. getUpdatedKubeVersionConfigData(config, version) = Absent
      BY <2>2 DEF getUpdatedKubeVersionConfigData, Absent
    <3> QED
      BY <1>11, <2>1, <3>1 DEF updateKubeVersion
  <2>3. CASE \E v \in Versions : config = CreateClusterConfig(v)
    <3>1. config' = CreateClusterConfig(version)
      BY <2>1, <2>3, ConfigUpdate
    <3> QED
      BY <1>11, <3>1 DEF updateKubeVersion
  <2> QED
    BY <2>2, <2>3
<1>12. CASE StoreKey
  BY <1>12 DEF StoreKey
<1>13. ASSUME NEW in \in Specs, StoreMachine(in) PROVE IInv'
  <2>1. edits' \in 0..MaxEdits
    BY <1>13, EditAssumption DEF StoreMachine
  <2>2. machine' \in Specs /\ validate(machine)'
    BY <1>13 DEF StoreMachine, validate
  <2> QED
    BY <1>13, <2>1, <2>2 DEF StoreMachine
<1>14. ASSUME NEW v \in Versions, StoreVersion(v) PROVE IInv'
  <2>1. edits' \in 0..MaxEdits
    BY <1>14, EditAssumption DEF StoreVersion
  <2> QED
    BY <1>14, <2>1 DEF StoreVersion, validate
<1>15. CASE UNCHANGED inventoryVars
  BY <1>15 DEF inventoryVars, validate
<1> QED
  BY <1>5, <1>6, <1>7, <1>8, <1>9, <1>10, <1>11, <1>12, <1>13, <1>14, <1>15 DEF InventoryNext, ReconcileInventory

-----------------------------------------------------------------------------
(* Migrate. *)

\* CompletedIsRestored with what makes it inductive: a restore the status reports
\* as complete is complete, unless the Migrate is being deleted.
MigrateInv ==
  /\ CompletedIsRestored
  /\ ~deletionTimestamp => \A c \in Cluster : targetStatus[c] = "Completed" => veleroRestore[c] = "Completed"

\* What EndReconcile leaves of types.
LEMMA EndTypes ==
  ASSUME TypeOK,
         NEW cut \in BOOLEAN, NEW patched \in BOOLEAN, NEW again \in BOOLEAN,
         NEW p \in Phase, NEW sr \in BOOLEAN, NEW ts \in [Cluster -> Status],
         EndReconcile(cut, patched, again, p, sr, ts)
  PROVE  /\ queued' \in BOOLEAN
         /\ phase' \in Phase
         /\ sourceReady' \in BOOLEAN
         /\ targetStatus' \in [Cluster -> Status]
         /\ mishaps' \in Nat
         /\ (phase' = phase /\ targetStatus' = targetStatus) \/ (phase' = p /\ targetStatus' = ts)
<1>1. queued' \in BOOLEAN
  BY DEF EndReconcile
<1>2. phase' \in Phase /\ ((phase' = phase /\ targetStatus' = targetStatus) \/ (phase' = p /\ targetStatus' = ts))
  BY DEF EndReconcile, TypeOK
<1>3. sourceReady' \in BOOLEAN
  BY DEF EndReconcile, TypeOK
<1>4. targetStatus' \in [Cluster -> Status]
  BY DEF EndReconcile, TypeOK
<1>5. mishaps' \in Nat
  BY DEF EndReconcile, TypeOK
<1> QED BY <1>1, <1>2, <1>3, <1>4, <1>5

\* What Finalize leaves of types.
LEMMA FinalizeTypes ==
  ASSUME TypeOK, NEW f \in BOOLEAN, Finalize(f)
  PROVE  exists' \in BOOLEAN /\ finalizer' \in BOOLEAN /\ deletionTimestamp' = deletionTimestamp
BY DEF Finalize

\* Creating a backup or a restore, and the phases a call computes, stay in their types.
LEMMA CallTypes ==
  ASSUME TypeOK
  PROVE  /\ \A s \in source : reconcileMigrateBackup(s) \in [Cluster -> Status]
         /\ startPhase \in Phase /\ restorePhase \in Phase /\ restorePhase # "Completed"
         /\ source \subseteq Cluster /\ target \subseteq Cluster /\ targetClusters \subseteq Cluster
         /\ target # {} => targetClusters = target
<1>1. /\ source \subseteq Cluster /\ target \subseteq Cluster /\ targetClusters \subseteq Cluster
      /\ target # {} => targetClusters = target
  BY SpecAssumption DEF TypeOK, targetClusters
<1>2. \A s \in source : reconcileMigrateBackup(s) \in [Cluster -> Status]
  BY <1>1 DEF TypeOK, reconcileMigrateBackup, Status
<1>3. startPhase \in Phase /\ restorePhase \in Phase /\ restorePhase # "Completed"
  BY DEF TypeOK, startPhase, restorePhase, Phase
<1> QED BY <1>1, <1>2, <1>3

\* A call that fails early writes at most the first phase.
LEMMA ErrorStep ==
  ASSUME MigrateInv, NEW patched \in BOOLEAN, NEW fault \in BOOLEAN,
         reconcileMigrateError(patched, fault)
  PROVE  MigrateInv'
<1>T. TypeOK
  BY DEF MigrateInv, CompletedIsRestored
<1>1. EndReconcile(fault, patched, TRUE, startPhase, sourceReady, targetStatus) /\ Finalize(finalizer \/ patched)
  BY DEF reconcileMigrateError
<1>2. /\ queued' \in BOOLEAN /\ phase' \in Phase /\ sourceReady' \in BOOLEAN
      /\ targetStatus' \in [Cluster -> Status] /\ mishaps' \in Nat
      /\ phase' = phase \/ phase' = startPhase
      /\ targetStatus' = targetStatus
  <2> DEFINE again == TRUE
             p == startPhase
             sr == sourceReady
             ts == targetStatus
  <2>1. again \in BOOLEAN /\ p \in Phase /\ sr \in BOOLEAN /\ ts \in [Cluster -> Status]
    BY <1>T, CallTypes DEF TypeOK
  <2>2. EndReconcile(fault, patched, again, p, sr, ts)
    BY <1>1
  <2>3. p = startPhase /\ ts = targetStatus
    OBVIOUS
  <2> HIDE DEF again, p, sr, ts
  <2> QED BY <1>T, <2>1, <2>2, <2>3, EndTypes
<1>3. exists' \in BOOLEAN /\ finalizer' \in BOOLEAN /\ deletionTimestamp' = deletionTimestamp
  BY <1>T, <1>1, FinalizeTypes DEF TypeOK
<1>4. TypeOK'
  BY <1>T, <1>2, <1>3 DEF TypeOK, reconcileMigrateError, specVars, veleroVars
<1>5. exists /\ ~deletionTimestamp
  BY DEF reconcileMigrateError, Normal
<1>6. phase' = "Completed" => phase = "Completed"
  BY <1>2 DEF startPhase
<1>7. veleroRestore' = veleroRestore /\ target' = target
  BY DEF reconcileMigrateError, specVars, veleroVars
<1> QED BY <1>2, <1>3, <1>4, <1>5, <1>6, <1>7 DEF MigrateInv, CompletedIsRestored

\* A whole call computes Completed only from restores that are all complete; if its
\* patch is lost the phase stays, and so do the restores that were complete.
LEMMA MigrateStep ==
  ASSUME MigrateInv, NEW s \in source, NEW R \in SUBSET targetClusters, NEW patched \in BOOLEAN,
         reconcileMigrate(s, R, patched)
  PROVE  MigrateInv'
<1> DEFINE vb == reconcileMigrateBackup(s)
           sr == sourceReady \/ marksSourceReady(vb[s])
           fetched == ~fetchFails("target", target)
           found == fetched /\ \A c \in targetClusters : isSynced(c, vb)
           vr == [c \in Cluster |-> IF c \in R /\ veleroRestore[c] = "None" THEN "InProgress" ELSE veleroRestore[c]]
           all == found /\ R = targetClusters
           ts == [c \in Cluster |-> IF c \in targetClusters THEN vr[c] ELSE targetStatus[c]]
           cut == found /\ ~all
           again == requeues(all, ts) \/ ~fetched
           p == IF ~fetched THEN startPhase
                ELSE IF all /\ allRestoreCompleted(ts) THEN "Completed" ELSE restorePhase
           status == IF all THEN ts ELSE targetStatus
<1>T. TypeOK
  BY DEF MigrateInv, CompletedIsRestored
<1>1. /\ exists /\ ~deletionTimestamp
      /\ veleroBackup' = vb /\ veleroRestore' = vr
      /\ EndReconcile(cut, patched, again, p, sr, status)
      /\ Finalize(finalizer \/ patched)
      /\ UNCHANGED <<specVars, fleet, ready, synced>>
  BY DEF reconcileMigrate, Normal
<1>2. vb \in [Cluster -> Status] /\ target \subseteq Cluster /\ target \subseteq targetClusters /\ targetClusters \subseteq Cluster
  BY <1>T, CallTypes
<1>3. vr \in [Cluster -> Status] /\ ts \in [Cluster -> Status] /\ status \in [Cluster -> Status]
  <2>1. veleroRestore \in [Cluster -> Status] /\ targetStatus \in [Cluster -> Status]
    BY <1>T DEF TypeOK
  <2>2. vr \in [Cluster -> Status]
    BY <2>1 DEF Status
  <2> HIDE DEF vr
  <2>3. ts \in [Cluster -> Status]
    BY <2>1, <2>2
  <2> QED BY <2>1, <2>2, <2>3
<1>4. p \in Phase
  BY <1>T, CallTypes DEF Phase
<1>5. cut \in BOOLEAN /\ again \in BOOLEAN /\ sr \in BOOLEAN
  BY <1>T DEF TypeOK, fetchFails, requeues, marksSourceReady, allRestoreCompleted, isSynced
<1>6. all => \A c \in targetClusters : ts[c] = vr[c] /\ vr[c] # "None"
  BY <1>2
<1>7. \A c \in Cluster : veleroRestore[c] = "Completed" => vr[c] = "Completed"
  OBVIOUS
<1>8. \A c \in Cluster : status[c] = "Completed" => vr[c] = "Completed"
  BY <1>1, <1>2, <1>7 DEF MigrateInv
<1>8a. ASSUME p = "Completed"
       PROVE  \A c \in target \cup {d \in Cluster : status[d] # "None"} : vr[c] = "Completed"
  <2>1. CASE all /\ allRestoreCompleted(ts)
    BY <1>2, <1>6, <1>8, <2>1 DEF allRestoreCompleted
  <2>2. CASE ~fetched
    BY <1>1, <1>2, <1>7, <1>8a, <2>2 DEF MigrateInv, CompletedIsRestored, startPhase
  <2> QED BY <1>T, <1>8a, <2>1, <2>2, CallTypes
<1> HIDE DEF cut, again, p, sr, status, ts, vr, vb, found, fetched, all
<1>9. /\ queued' \in BOOLEAN /\ phase' \in Phase /\ sourceReady' \in BOOLEAN
      /\ targetStatus' \in [Cluster -> Status] /\ mishaps' \in Nat
      /\ (phase' = phase /\ targetStatus' = targetStatus) \/ (phase' = p /\ targetStatus' = status)
  BY <1>T, <1>1, <1>3, <1>4, <1>5, EndTypes
<1>10. exists' \in BOOLEAN /\ finalizer' \in BOOLEAN
  BY <1>T, <1>1, FinalizeTypes DEF TypeOK
<1>11. TypeOK'
  BY <1>T, <1>1, <1>2, <1>3, <1>9, <1>10 DEF TypeOK, specVars, Finalize
<1>12. target' = target
  BY <1>1 DEF specVars
<1>13. CASE phase' = phase /\ targetStatus' = targetStatus
  BY <1>1, <1>2, <1>7, <1>11, <1>12, <1>13 DEF MigrateInv, CompletedIsRestored
<1>14. CASE phase' = p /\ targetStatus' = status
  BY <1>1, <1>8, <1>8a, <1>11, <1>12, <1>14 DEF MigrateInv, CompletedIsRestored
<1> QED BY <1>9, <1>13, <1>14

\* A call that cannot read the status of the restores takes Completed back.
LEMMA StatusErrorStep ==
  ASSUME MigrateInv, NEW s \in source, reconcileMigrateStatusError(s)
  PROVE  MigrateInv'
<1> DEFINE vb == reconcileMigrateBackup(s)
           sr == sourceReady \/ marksSourceReady(vb[s])
           vr == [c \in Cluster |-> IF c \in targetClusters /\ veleroRestore[c] = "None" THEN "InProgress" ELSE veleroRestore[c]]
           none == [c \in Cluster |-> "None"]
<1>T. TypeOK
  BY DEF MigrateInv, CompletedIsRestored
<1>1. /\ veleroBackup' = vb /\ veleroRestore' = vr
      /\ EndReconcile(TRUE, TRUE, TRUE, restorePhase, sr, none)
      /\ Finalize(TRUE)
      /\ UNCHANGED <<specVars, fleet, ready, synced>>
  BY DEF reconcileMigrateStatusError
<1>2. /\ vb \in [Cluster -> Status] /\ vr \in [Cluster -> Status] /\ none \in [Cluster -> Status]
      /\ sr \in BOOLEAN /\ restorePhase \in Phase /\ restorePhase # "Completed"
  <2>1. veleroRestore \in [Cluster -> Status]
    BY <1>T DEF TypeOK
  <2>2. vr \in [Cluster -> Status] /\ none \in [Cluster -> Status]
    BY <2>1 DEF Status
  <2>3. sr \in BOOLEAN
    BY <1>T DEF TypeOK, marksSourceReady
  <2> QED BY <1>T, <2>2, <2>3, CallTypes
<1>3. phase' = restorePhase /\ targetStatus' = none
  BY <1>1 DEF EndReconcile
<1>3a. \A c \in Cluster : none[c] = "None"
  OBVIOUS
<1> HIDE DEF vb, sr, vr, none
<1>4. /\ queued' \in BOOLEAN /\ phase' \in Phase /\ sourceReady' \in BOOLEAN
      /\ targetStatus' \in [Cluster -> Status] /\ mishaps' \in Nat
  BY <1>T, <1>1, <1>2, EndTypes
<1>5. exists' \in BOOLEAN /\ finalizer' \in BOOLEAN
  BY <1>T, <1>1, FinalizeTypes
<1>6. TypeOK'
  BY <1>T, <1>1, <1>2, <1>4, <1>5 DEF TypeOK, specVars, Finalize
<1> QED BY <1>2, <1>3, <1>3a, <1>6 DEF MigrateInv, CompletedIsRestored

\* The deletion takes restores away, but the Migrate stays marked as deleted.
LEMMA DeleteStep ==
  ASSUME MigrateInv, NEW B, NEW R, NEW patched \in BOOLEAN,
         reconcileDeleteMigrate(B, R, patched)
  PROVE  MigrateInv'
<1> DEFINE fetchedSource == ~fetchFails("source", source)
           fetched == fetchedSource /\ ~fetchFails("target", target)
           done == B = source /\ fetched /\ R = targetClusters
           keeps == keepsFinalizer(fetchedSource /\ (B = source => fetched), done)
           vb == [c \in Cluster |-> IF c \in B THEN "None" ELSE veleroBackup[c]]
           vr == [c \in Cluster |-> IF c \in R THEN "None" ELSE veleroRestore[c]]
<1>T. TypeOK
  BY DEF MigrateInv, CompletedIsRestored
<1>1. /\ deletionTimestamp
      /\ veleroBackup' = vb /\ veleroRestore' = vr
      /\ EndReconcile(keeps, patched, ~done, phase, sourceReady, targetStatus)
      /\ Finalize(keeps \/ ~patched)
      /\ UNCHANGED <<specVars, fleet, ready, synced>>
  BY DEF reconcileDeleteMigrate
<1>2. vb \in [Cluster -> Status] /\ vr \in [Cluster -> Status]
  BY <1>T DEF TypeOK, Status
<1>3. keeps \in BOOLEAN /\ done \in BOOLEAN
  BY DEF keepsFinalizer, fetchFails
<1> HIDE DEF keeps, done, vb, vr
<1>4. /\ queued' \in BOOLEAN /\ phase' \in Phase /\ sourceReady' \in BOOLEAN
      /\ targetStatus' \in [Cluster -> Status] /\ mishaps' \in Nat
  <2> DEFINE again == ~done
             p == phase
             sr == sourceReady
             ts == targetStatus
  <2>1. again \in BOOLEAN /\ p \in Phase /\ sr \in BOOLEAN /\ ts \in [Cluster -> Status]
    BY <1>T DEF TypeOK
  <2>2. EndReconcile(keeps, patched, again, p, sr, ts)
    BY <1>1
  <2> HIDE DEF again, p, sr, ts
  <2> QED BY <1>T, <1>3, <2>1, <2>2, EndTypes
<1>5. exists' \in BOOLEAN /\ finalizer' \in BOOLEAN
  BY <1>T, <1>1, FinalizeTypes
<1>6. TypeOK'
  BY <1>T, <1>1, <1>2, <1>4, <1>5 DEF TypeOK, specVars, Finalize
<1>7. deletionTimestamp'
  BY <1>1 DEF Finalize
<1> QED BY <1>6, <1>7 DEF MigrateInv, CompletedIsRestored

\* Velero, the users and the fleet: a restore only goes on from "InProgress".
LEMMA EnvironmentStep ==
  ASSUME MigrateInv, Environment
  PROVE  MigrateInv'
<1>T. TypeOK /\ target \subseteq Cluster /\ source \in Source
  BY CallTypes DEF MigrateInv, CompletedIsRestored, TypeOK
<1> USE DEF objectVars, specVars, statusVars, veleroVars
<1>1. ASSUME NEW c \in Cluster, VeleroBacksUp(c) PROVE MigrateInv'
  <2>1. veleroBackup' \in [Cluster -> Status] /\ mishaps' \in Nat
    BY <1>T, <1>1 DEF VeleroBacksUp, TypeOK, Status
  <2> QED BY <1>T, <1>1, <2>1 DEF MigrateInv, CompletedIsRestored, TypeOK, VeleroBacksUp
<1>2. ASSUME NEW c \in Cluster, VeleroSyncs(c) PROVE MigrateInv'
  BY <1>T, <1>2 DEF MigrateInv, CompletedIsRestored, TypeOK, VeleroSyncs
<1>3. ASSUME NEW c \in Cluster, VeleroRestores(c) PROVE MigrateInv'
  <2>1. veleroRestore' \in [Cluster -> Status]
    BY <1>T, <1>3 DEF VeleroRestores, TypeOK, Status
  <2>2. TypeOK'
    BY <1>T, <1>3, <2>1 DEF TypeOK, VeleroRestores
  <2>3. \A d \in Cluster : veleroRestore[d] = "Completed" => veleroRestore'[d] = "Completed"
    BY <1>T, <1>3 DEF VeleroRestores, TypeOK
  <2> QED BY <1>T, <1>3, <2>2, <2>3 DEF MigrateInv, CompletedIsRestored, VeleroRestores
<1>4. CASE VeleroExpires
  <2>1. first \in Cluster
    BY <1>T, SpecAssumption
  <2>2. veleroBackup' \in [Cluster -> Status] /\ mishaps' \in Nat
    BY <1>T, <1>4, <2>1 DEF VeleroExpires, TypeOK, Status
  <2> QED BY <1>T, <1>4, <2>2 DEF MigrateInv, CompletedIsRestored, TypeOK, VeleroExpires
<1>5. CASE DeleteMigrate
  <2>1. exists' \in BOOLEAN /\ queued' \in BOOLEAN /\ deletionTimestamp' = TRUE
    BY <1>T, <1>5 DEF TypeOK, DeleteMigrate
  <2>2. TypeOK'
    BY <1>T, <1>5, <2>1 DEF TypeOK, DeleteMigrate
  <2> QED BY <2>1, <2>2 DEF MigrateInv, CompletedIsRestored
<1>6. CASE FleetChanges
  <2>1. fleet' \subseteq {"source", "target"}
    BY <1>T, <1>6 DEF TypeOK, FleetChanges
  <2>2. ready' \subseteq Cluster /\ mishaps' \in Nat
    BY <1>T, <1>6 DEF TypeOK, FleetChanges
  <2>3. UNCHANGED <<objectVars, queued, specVars, statusVars, veleroVars>>
    BY <1>6 DEF FleetChanges
  <2> QED BY <1>T, <2>1, <2>2, <2>3 DEF MigrateInv, CompletedIsRestored, TypeOK
<1>7. ASSUME NEW c \in Cluster, ClusterBecomesReady(c) PROVE MigrateInv'
  BY <1>T, <1>7 DEF MigrateInv, CompletedIsRestored, TypeOK, ClusterBecomesReady
<1>8. CASE Resync
  BY <1>T, <1>8 DEF MigrateInv, CompletedIsRestored, TypeOK, Resync
<1> QED BY <1>1, <1>2, <1>3, <1>4, <1>5, <1>6, <1>7, <1>8 DEF Environment, VeleroStep

\* A step of the specification is one of these, with the restores of a call among the targets.
LEMMA CallSteps ==
  ASSUME [Next]_vars
  PROVE  \/ \E patched, fault \in BOOLEAN : reconcileMigrateError(patched, fault)
         \/ \E s \in source, R \in SUBSET targetClusters, patched \in BOOLEAN : reconcileMigrate(s, R, patched)
         \/ \E s \in source : reconcileMigrateStatusError(s)
         \/ \E B, R : \E patched \in BOOLEAN : reconcileDeleteMigrate(B, R, patched)
         \/ reconcileGone
         \/ Environment
         \/ UNCHANGED vars
<1>1. Reached(targetClusters) \cup {{}} \subseteq SUBSET targetClusters
  BY DEF Reached
<1> QED BY <1>1 DEF Next, Reconcile

\* Every step keeps MigrateInv.
LEMMA StepInv == MigrateInv /\ [Next]_vars => MigrateInv'
<1> SUFFICES ASSUME MigrateInv, [Next]_vars PROVE MigrateInv'
  OBVIOUS
<1>1. CASE reconcileGone
  BY <1>1 DEF MigrateInv, CompletedIsRestored, TypeOK, reconcileGone, objectVars, specVars, statusVars, veleroVars
<1>2. CASE UNCHANGED vars
  BY <1>2 DEF MigrateInv, CompletedIsRestored, TypeOK, vars, objectVars, specVars, statusVars, veleroVars
<1> QED BY <1>1, <1>2, CallSteps, ErrorStep, MigrateStep, StatusErrorStep, DeleteStep, EnvironmentStep

\* MigrateInv always holds.
LEMMA MigrateAlways == Spec => []MigrateInv
<1>1. Init => MigrateInv
  <2> SUFFICES ASSUME Init PROVE MigrateInv
    OBVIOUS
  <2>1. TypeOK
    BY BoundAssumption DEF Init, TypeOK, Phase, Status
  <2> QED BY <2>1 DEF Init, MigrateInv, CompletedIsRestored
<1> QED BY <1>1, StepInv, PTL DEF Spec

\* Whatever calls are cut short, whatever Velero does and whichever clusters are
\* ready, the phase Completed of a Migrate that is not being deleted means that
\* every target cluster it lists, and every one its status reports, has its
\* restore, complete.
THEOREM CompletedTrue == Spec => []CompletedIsRestored
<1>1. MigrateInv => CompletedIsRestored
  BY DEF MigrateInv
<1> QED BY <1>1, MigrateAlways, PTL

\* One step starts a restore outside the source only where the backup has been copied to.
LEMMA RestoreStep ==
  ASSUME MigrateInv, [Next]_vars, NEW c \in Cluster \ {first},
         veleroRestore[c] = "None", veleroRestore'[c] # "None"
  PROVE  c \in synced
<1>T. veleroRestore \in [Cluster -> Status]
  BY DEF MigrateInv, CompletedIsRestored, TypeOK
<1> USE DEF objectVars, specVars, statusVars, veleroVars
<1>1. ASSUME NEW s \in source, NEW R \in SUBSET targetClusters, NEW patched \in BOOLEAN, reconcileMigrate(s, R, patched)
      PROVE  c \in synced
  <2> DEFINE vb == reconcileMigrateBackup(s)
             vr == [d \in Cluster |-> IF d \in R /\ veleroRestore[d] = "None" THEN "InProgress" ELSE veleroRestore[d]]
  <2>1. veleroRestore' = vr /\ (R # {} => \A d \in targetClusters : isSynced(d, vb))
    BY <1>1 DEF reconcileMigrate
  <2>2. c \in R
    BY <2>1
  <2>3. isSynced(c, vb)
    BY <2>1, <2>2
  <2> QED BY <2>3 DEF isSynced
<1>2. ASSUME NEW s \in source, reconcileMigrateStatusError(s) PROVE c \in synced
  <2> DEFINE vb == reconcileMigrateBackup(s)
             vr == [d \in Cluster |-> IF d \in targetClusters /\ veleroRestore[d] = "None" THEN "InProgress" ELSE veleroRestore[d]]
  <2>1. veleroRestore' = vr /\ \A d \in targetClusters : isSynced(d, vb)
    BY <1>2 DEF reconcileMigrateStatusError
  <2>2. c \in targetClusters
    BY <2>1
  <2>3. isSynced(c, vb)
    BY <2>1, <2>2
  <2> QED BY <2>3 DEF isSynced
<1>3. ASSUME NEW B, NEW R, NEW patched \in BOOLEAN, reconcileDeleteMigrate(B, R, patched) PROVE FALSE
  BY <1>3 DEF reconcileDeleteMigrate
<1>4. ASSUME NEW d \in Cluster, VeleroRestores(d) PROVE FALSE
  BY <1>T, <1>4 DEF VeleroRestores
<1>5. ASSUME UNCHANGED veleroRestore PROVE FALSE
  BY <1>5
<1>6. CASE Environment
  <2>1. (\E d \in Cluster : VeleroRestores(d)) \/ UNCHANGED veleroRestore
    BY <1>6 DEF Environment, VeleroStep, VeleroBacksUp, VeleroSyncs, VeleroExpires, DeleteMigrate, FleetChanges,
                ClusterBecomesReady, Resync
  <2> QED BY <1>4, <1>5, <2>1
<1>7. ASSUME NEW patched \in BOOLEAN, NEW fault \in BOOLEAN, reconcileMigrateError(patched, fault) PROVE FALSE
  BY <1>5, <1>7 DEF reconcileMigrateError
<1>8. CASE reconcileGone
  BY <1>5, <1>8 DEF reconcileGone
<1>9. CASE UNCHANGED vars
  BY <1>5, <1>9 DEF vars
<1> QED BY <1>1, <1>2, <1>3, <1>6, <1>7, <1>8, <1>9, CallSteps

\* RestoredAfterBackup, although the controller goes on to the restore stage
\* whatever the backup stage returns: the copy it looks for in each target is
\* one Velero makes of a complete backup only.
THEOREM RestoreWaits == Spec => RestoredAfterBackup
<1> DEFINE Waits == \A c \in Cluster \ {first} : veleroRestore[c] = "None" /\ veleroRestore'[c] # "None" => c \in synced
<1>1. MigrateInv /\ [Next]_vars => [Waits]_vars
  BY RestoreStep
<1> QED BY <1>1, MigrateAlways, PTL DEF Spec, RestoredAfterBackup

-----------------------------------------------------------------------------
(* Inventory: the theorem, and the principle of induction. *)
LOCAL INSTANCE WellFoundedInduction

\* The numbers are well-founded.
LEMMA Least == LeastNumber
<1> SUFFICES ASSUME NEW S \in SUBSET Nat, S # {} PROVE \E i \in S : \A j \in S : i <= j
  BY DEF LeastNumber
<1> DEFINE less == {ij \in Nat \X Nat : ij[1] < ij[2]}
<1>1. IsWellFoundedOn(less, Nat)
  BY NatLessThanWellFounded DEF OpToRel
<1>2. \A i, j \in Nat : <<j, i>> \notin less => i <= j
  OBVIOUS
<1> HIDE DEF less
<1>3. PICK i \in S : \A j \in S : ~(<<j, i>> \in less)
  BY <1>1, WFMin
<1> QED
  BY <1>2, <1>3

\* Every inventory in the two ConfigMaps names in its groups only machines it
\* lists with their three fields, its etcd members are its masters, odd in number
\* if the file can be read, and the version in the configuration is one that was
\* asked for, whatever the order of scaling, upgrades and edits
\* (CreateClusterHosts, getScaleUpConfigMapData, getUpdatedKubeVersionConfigData).
THEOREM Inventories == InventorySpec => []WellFormed
<1>1. IInv /\ [InventoryNext]_inventoryVars => IInv'
  BY Least, NextIInv
<1>2. IInv => WellFormed
  BY Least, IInvImplies
<1> QED
  BY <1>1, <1>2, InitIInv, PTL DEF InventorySpec

=============================================================================
