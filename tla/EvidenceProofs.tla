---------------------------- MODULE EvidenceProofs ----------------------------
(***************************************************************************)
(* The rules of Evidence keep their promises for every schema, every       *)
(* document and every answer of the model.                                 *)
(*                                                                         *)
(* The text functions of the code (normalising, masking, replacing) are    *)
(* recursive, and what they compute is proved by induction over the text,  *)
(* the induction being over a set of numbers (SetInduction, Recursion).    *)
(* The argument then has four parts:                                       *)
(*   1. a stretch of a text that starts and ends on a character has a      *)
(*      normal form that is a stretch of the text's normal form;           *)
(*   2. two occurrences of a value that share characters make the value    *)
(*      overlap itself, so that one pass replaces all of any other;        *)
(*   3. what one secret masks stays masked for those after it, as they     *)
(*      only ever put mask characters, so no later pass can write a value  *)
(*      that an earlier one took out;                                      *)
(*   4. secrets are sorted, so that only a value at least as long can have *)
(*      been at a value before its turn.                                   *)
(***************************************************************************)
EXTENDS Evidence, FiniteSetTheorems, TLAPS

(* A set of numbers has a least one. *)
LEMMA Least ==
    ASSUME NEW T, T \subseteq Nat, T # {}
    PROVE  \E n \in T : \A m \in T : n <= m
<1> DEFINE R == OpToRel(<, Nat)
<1>1. IsWellFoundedOn(R, Nat)
  BY NatLessThanWellFounded
<1>2. \E n \in T : \A m \in T : <<m, n>> \notin R
  BY <1>1, WFMin
<1>3. \A m, n \in Nat : m < n => <<m, n>> \in R
  BY DEF OpToRel
<1> HIDE DEF R
<1>4. PICK n \in T : \A m \in T : <<m, n>> \notin R
  BY <1>2
<1>5. ASSUME NEW m \in T
      PROVE  n <= m
  <2>1. m \in Nat /\ n \in Nat /\ ~(m < n)
    BY <1>3, <1>4
  <2> QED
    BY <2>1
<1> QED
  BY <1>5

(* A set with 0 and every successor has every number. *)
LEMMA SetInduction ==
    ASSUME NEW S, 0 \in S, \A n \in Nat : n \in S => n + 1 \in S
    PROVE  Nat \subseteq S
<1> SUFFICES ASSUME ~(Nat \subseteq S) PROVE FALSE
  OBVIOUS
<1>1. PICK n \in Nat \ S : \A m \in Nat \ S : n <= m
  BY Least
<1>2. n # 0 /\ n - 1 \in Nat
  BY <1>1
<1>3. n - 1 \in S
  BY <1>1, <1>2
<1> QED
  BY <1>1, <1>2, <1>3

(* f is x0 and then, at each place, what the step there makes of the last. *)
Steps(n, X) == [1 .. n -> [X -> X]]

Follows(f, n, X, x0, step) ==
    /\ f \in [0 .. n -> X] /\ f[0] = x0
    /\ \A i \in 1 .. n : f[i] = step[i][f[i - 1]]

(* What a recursive function is defined by exists. *)
LEMMA Recursion ==
    ASSUME NEW n \in Nat, NEW X, NEW x0 \in X, NEW step \in Steps(n, X)
    PROVE  \E f : Follows(f, n, X, x0, step)
<1> DEFINE S == {m \in Nat : m <= n => \E f : Follows(f, m, X, x0, step)}
<1>1. Follows([i \in 0 .. 0 |-> x0], 0, X, x0, step)
  BY DEF Follows
<1>2. ASSUME NEW m \in Nat, m + 1 <= n, NEW f, Follows(f, m, X, x0, step)
      PROVE  \E g : Follows(g, m + 1, X, x0, step)
  <2>1. step[m + 1][f[m]] \in X
    BY <1>2 DEF Follows, Steps
  <2> DEFINE g == [i \in 0 .. m + 1 |-> IF i = m + 1 THEN step[m + 1][f[m]] ELSE f[i]]
  <2>2. g \in [0 .. m + 1 -> X] /\ g[0] = x0
    BY <1>2, <2>1 DEF Follows
  <2>3. ASSUME NEW i \in 1 .. m + 1
        PROVE  g[i] = step[i][g[i - 1]]
    <3>1. CASE i = m + 1
      BY <1>2, <3>1
    <3>2. CASE i \in 1 .. m
      BY <1>2, <3>2 DEF Follows
    <3> QED
      BY <3>1, <3>2
  <2>4. Follows(g, m + 1, X, x0, step)
    BY <2>2, <2>3 DEF Follows
  <2> QED
    BY <2>4
<1>3. 0 \in S /\ \A m \in Nat : m \in S => m + 1 \in S
  BY <1>1, <1>2
<1> HIDE DEF S
<1>4. n \in S
  BY <1>3, SetInduction
<1> QED
  BY <1>4 DEF S


-----------------------------------------------------------------------------
(* Normal forms *)

(* What the recursion of NormalTo defines. *)
LEMMA NormalToIs ==
    ASSUME NEW t \in Text
    PROVE  /\ NormalTo(t) \in [0 .. Len(t) -> Text]
           /\ NormalTo(t)[0] = <<>>
           /\ \A k \in 1 .. Len(t) :
                NormalTo(t)[k] = IF k \in Kept(t) THEN Append(NormalTo(t)[k - 1], t[k])
                                 ELSE NormalTo(t)[k - 1]
<1> DEFINE n == Len(t)
           step == [k \in 1 .. n |->
                       [x \in Text |-> IF k \in Kept(t) THEN Append(x, t[k]) ELSE x]]
<1>1. n \in Nat /\ \A k \in 1 .. n : t[k] \in Characters
  BY DEF Text
<1>2. \A k \in 1 .. n : \A x \in Text : Append(x, t[k]) \in Text
  BY <1>1 DEF Text
<1>3. step \in Steps(n, Text)
  BY <1>2 DEF Steps
<1>4. \A k \in 1 .. n : \A x \in Text :
         step[k][x] = IF k \in Kept(t) THEN Append(x, t[k]) ELSE x
  OBVIOUS
<1>5. <<>> \in Text
  BY DEF Text
<1> DEFINE empty == <<>>
<1> HIDE DEF step, n, empty
<1>6. empty \in Text
  BY <1>5 DEF empty
<1>7. PICK f : Follows(f, n, Text, empty, step)
  BY <1>1, <1>3, <1>6, Recursion
<1>8. \A k \in 1 .. n : f[k] = IF k \in Kept(t) THEN Append(f[k - 1], t[k]) ELSE f[k - 1]
  BY <1>1, <1>4, <1>7 DEF Follows
<1>9. f = [k \in 0 .. n |-> IF k = 0 THEN <<>>
                            ELSE IF k \in Kept(t) THEN Append(f[k - 1], t[k]) ELSE f[k - 1]]
  <2>1. \A k \in 0 .. n : f[k] = IF k = 0 THEN <<>>
                            ELSE IF k \in Kept(t) THEN Append(f[k - 1], t[k]) ELSE f[k - 1]
    <3>1. \A k \in 0 .. n : k = 0 \/ k \in 1 .. n
      BY <1>1
    <3>2. f[0] = <<>>
      BY <1>7 DEF empty, Follows
    <3> QED
      BY <1>8, <3>1, <3>2
  <2> QED
    BY <1>7, <2>1 DEF Follows
<1>10. NormalTo(t) = [k \in 0 .. n |-> IF k = 0 THEN <<>>
                        ELSE IF k \in Kept(t) THEN Append(NormalTo(t)[k - 1], t[k])
                        ELSE NormalTo(t)[k - 1]]
  BY <1>9 DEF NormalTo, n
<1>11. /\ NormalTo(t)[0] = <<>>
       /\ \A k \in 1 .. n :
            NormalTo(t)[k] = IF k \in Kept(t) THEN Append(NormalTo(t)[k - 1], t[k])
                             ELSE NormalTo(t)[k - 1]
  <2>1. 0 \in 0 .. n /\ \A k \in 1 .. n : k \in 0 .. n /\ k # 0
    BY <1>1
  <2>2. \A k \in 0 .. n :
          NormalTo(t)[k] = IF k = 0 THEN <<>>
                        ELSE IF k \in Kept(t) THEN Append(NormalTo(t)[k - 1], t[k])
                        ELSE NormalTo(t)[k - 1]
    BY <1>10, Zenon
  <2> QED
    BY <2>1, <2>2
<1> DEFINE S == {k \in Nat : k <= n => NormalTo(t)[k] \in Text}
<1>12. ASSUME NEW k \in Nat, k \in S
       PROVE  k + 1 \in S
  <2>1. CASE k + 1 <= n
    <3>1. NormalTo(t)[k] \in Text /\ k + 1 \in 1 .. n /\ (k + 1) - 1 = k
      BY <1>1, <1>12, <2>1
    <3>2. NormalTo(t)[k + 1] = IF k + 1 \in Kept(t) THEN Append(NormalTo(t)[k], t[k + 1])
                               ELSE NormalTo(t)[k]
      BY <1>11, <3>1
    <3> QED
      BY <1>2, <3>1, <3>2
  <2> QED
    BY <1>1, <2>1
<1>13. 0 \in S
  BY <1>5, <1>11
<1> HIDE DEF S
<1>14. Nat \subseteq S
  BY <1>12, <1>13, SetInduction
<1>15. \A k \in 0 .. n : NormalTo(t)[k] \in Text
  BY <1>1, <1>14 DEF S
<1>16. NormalTo(t) \in [0 .. n -> Text]
  BY <1>10, <1>15
<1> QED
  BY <1>11, <1>16 DEF n

(* The place in the normal form that the first k places of a text reach. *)
At(t, k) == Len(NormalTo(t)[k])

(* It counts the kept places. *)
LEMMA AtIs ==
    ASSUME NEW t \in Text
    PROVE  /\ \A k \in 0 .. Len(t) : At(t, k) \in Nat
           /\ At(t, 0) = 0
           /\ \A k \in 1 .. Len(t) :
                At(t, k) = IF k \in Kept(t) THEN At(t, k - 1) + 1 ELSE At(t, k - 1)
           /\ Normalise(t) \in Text /\ Len(Normalise(t)) = At(t, Len(t))
<1>1. Len(t) \in Nat /\ \A k \in 1 .. Len(t) : t[k] \in Characters
  BY DEF Text
<1>2. \A k \in 0 .. Len(t) : NormalTo(t)[k] \in Seq(Characters)
  BY NormalToIs DEF Text
<1>3. \A k \in 0 .. Len(t) : At(t, k) \in Nat
  BY <1>2 DEF At
<1>4. At(t, 0) = 0
  BY NormalToIs DEF At
<1>5. ASSUME NEW k \in 1 .. Len(t)
      PROVE  At(t, k) = IF k \in Kept(t) THEN At(t, k - 1) + 1 ELSE At(t, k - 1)
  <2>1. NormalTo(t)[k - 1] \in Seq(Characters)
    BY <1>1, <1>2
  <2>2. Len(Append(NormalTo(t)[k - 1], t[k])) = Len(NormalTo(t)[k - 1]) + 1
    BY <1>1, <2>1
  <2> QED
    BY <2>2, NormalToIs DEF At
<1> QED
  BY <1>1, <1>2, <1>3, <1>4, <1>5 DEF Normalise, At, Text

(* What the normal form has reached stays, and grows by at most one. *)
LEMMA AtGrows ==
    ASSUME NEW t \in Text, NEW k \in 0 .. Len(t), NEW l \in 0 .. Len(t), k <= l
    PROVE  /\ At(t, k) <= At(t, l) /\ At(t, l) <= At(t, k) + (l - k)
           /\ \A m \in 1 .. At(t, k) : NormalTo(t)[l][m] = NormalTo(t)[k][m]
<1> DEFINE Ok(j) == /\ At(t, k) <= At(t, j) /\ At(t, j) <= At(t, k) + (j - k)
                    /\ \A m \in 1 .. At(t, k) : NormalTo(t)[j][m] = NormalTo(t)[k][m]
           S == {d \in Nat : k + d <= Len(t) => Ok(k + d)}
<1>1. Len(t) \in Nat /\ k \in Nat /\ l \in Nat /\ l - k \in Nat /\ At(t, k) \in Nat
  BY AtIs DEF Text
<1>2. Ok(k)
  BY <1>1
<1>3. ASSUME NEW j \in 0 .. Len(t) - 1, k <= j, Ok(j)
      PROVE  Ok(j + 1)
  <2>1. j + 1 \in 1 .. Len(t) /\ (j + 1) - 1 = j /\ j \in 0 .. Len(t)
    BY <1>1
  <2>2. At(t, j) \in Nat /\ At(t, j + 1) \in {At(t, j), At(t, j) + 1}
    BY <2>1, AtIs
  <2>3. NormalTo(t)[j] \in Seq(Characters) /\ t[j + 1] \in Characters
    BY <2>1, NormalToIs DEF Text
  <2>4. ASSUME NEW m \in 1 .. At(t, k)
        PROVE  NormalTo(t)[j + 1][m] = NormalTo(t)[j][m]
    <3>1. m \in 1 .. Len(NormalTo(t)[j])
      BY <1>1, <1>3, <2>2 DEF At
    <3>2. Append(NormalTo(t)[j], t[j + 1])[m] = NormalTo(t)[j][m]
      BY <2>3, <3>1
    <3> QED
      BY <2>1, <3>2, NormalToIs
  <2> QED
    BY <1>1, <1>3, <2>2, <2>4
<1> HIDE DEF Ok
<1>4. 0 \in S
  BY <1>1, <1>2
<1>5. ASSUME NEW d \in Nat, d \in S
      PROVE  d + 1 \in S
  <2>1. CASE k + (d + 1) <= Len(t)
    <3>1. k + d \in 0 .. Len(t) - 1 /\ k <= k + d /\ (k + d) + 1 = k + (d + 1)
      BY <1>1, <2>1
    <3>2. Ok(k + d)
      BY <1>1, <1>5, <3>1
    <3>3. Ok((k + d) + 1)
      BY <1>3, <3>1, <3>2
    <3> QED
      BY <3>1, <3>3
  <2> QED
    BY <2>1
<1> HIDE DEF S
<1>6. l - k \in S
  BY <1>1, <1>4, <1>5, SetInduction
<1>7. Ok(k + (l - k)) /\ k + (l - k) = l
  BY <1>1, <1>6 DEF S
<1> QED
  BY <1>7 DEF Ok

(* A kept character comes at its place in the normal form. *)
LEMMA KeptAt ==
    ASSUME NEW t \in Text, NEW k \in Kept(t)
    PROVE  /\ k \in 1 .. Len(t)
           /\ At(t, k) = At(t, k - 1) + 1
           /\ At(t, k) \in 1 .. Len(Normalise(t))
           /\ Normalise(t)[At(t, k)] = t[k]
<1>1. Len(t) \in Nat /\ k \in 1 .. Len(t) /\ DOMAIN t = 1 .. Len(t) /\ t[k] \in Characters
  BY DEF Text, Kept
<1>2. k - 1 \in 0 .. Len(t) /\ k \in 0 .. Len(t) /\ Len(t) \in 0 .. Len(t)
  BY <1>1
<1>3. /\ NormalTo(t)[k] = Append(NormalTo(t)[k - 1], t[k])
      /\ NormalTo(t)[k - 1] \in Seq(Characters)
  BY <1>1, <1>2, NormalToIs DEF Text
<1>4. At(t, k) = At(t, k - 1) + 1 /\ At(t, k - 1) \in Nat
  BY <1>1, <1>2, AtIs
<1>5. NormalTo(t)[k][At(t, k)] = t[k]
  BY <1>1, <1>3, <1>4 DEF At
<1>6. At(t, k) \in 1 .. At(t, k) /\ At(t, k) <= At(t, Len(t)) /\ At(t, Len(t)) \in Nat
  <2>1. k <= Len(t)
    BY <1>1
  <2>2. At(t, k) <= At(t, Len(t)) /\ At(t, Len(t)) \in Nat
    BY <1>2, <2>1, AtGrows, AtIs
  <2> QED
    BY <1>4, <2>2
<1>7. NormalTo(t)[Len(t)][At(t, k)] = NormalTo(t)[k][At(t, k)]
  BY <1>1, <1>2, <1>6, AtGrows
<1> QED
  BY <1>1, <1>4, <1>5, <1>6, <1>7, AtIs DEF Normalise

(* Every character of the normal form is a kept one. *)
LEMMA AtReaches ==
    ASSUME NEW t \in Text, NEW l \in 0 .. Len(t), NEW m \in 1 .. At(t, l)
    PROVE  \E k \in Kept(t) : k <= l /\ At(t, k) = m
<1> DEFINE T == {k \in 0 .. l : At(t, k) >= m}
<1>1. Len(t) \in Nat /\ l \in Nat /\ m \in Nat /\ m >= 1 /\ At(t, l) >= m
  BY AtIs DEF Text
<1>2. l \in T /\ T \subseteq Nat
  BY <1>1
<1> HIDE DEF T
<1>3. PICK k \in T : \A j \in T : k <= j
  BY <1>2, Least
<1>4. k \in 0 .. l /\ At(t, k) >= m /\ k \in 0 .. Len(t)
  BY <1>1 DEF T
<1>5. k # 0
  BY <1>1, <1>4, AtIs
<1>6. k \in 1 .. Len(t) /\ k - 1 \in 0 .. l /\ k - 1 \in 0 .. Len(t) /\ k - 1 \notin T
  BY <1>1, <1>3, <1>4, <1>5
<1>7. ~(At(t, k - 1) >= m) /\ At(t, k - 1) \in Nat /\ At(t, k) \in Nat
  BY <1>4, <1>6, AtIs DEF T
<1>8. k \in Kept(t) /\ At(t, k) = At(t, k - 1) + 1
  BY <1>4, <1>6, <1>7, AtIs
<1> QED
  BY <1>1, <1>4, <1>7, <1>8

(* No two kept places have the same. *)
LEMMA AtIsStrict ==
    ASSUME NEW t \in Text, NEW k \in 0 .. Len(t), NEW l \in Kept(t), k < l
    PROVE  At(t, k) < At(t, l)
<1>1. Len(t) \in Nat /\ l \in 1 .. Len(t) /\ k \in Nat
  BY DEF Text, Kept
<1>2. l - 1 \in 0 .. Len(t) /\ k <= l - 1
  BY <1>1
<1>3. At(t, k) <= At(t, l - 1) /\ At(t, l) = At(t, l - 1) + 1
  BY <1>2, AtGrows, KeptAt
<1> QED
  BY <1>2, <1>3, AtIs

(* All but spaces are kept. *)
LEMMA OthersAreKept ==
    ASSUME NEW t \in Text, NEW k \in 1 .. Len(t), t[k] # Space
    PROVE  k \in Kept(t)
  BY DEF Kept, Text

(* The normal form goes from one character of the text to another. *)
LEMMA EndsAreKept ==
    ASSUME NEW t \in Text, Normalise(t) # <<>>
    PROVE  \E k, l \in 1 .. Len(t) :
              /\ k <= l /\ t[k] # Space /\ t[l] # Space
              /\ At(t, k) = 1 /\ At(t, l) = Len(Normalise(t))
<1>1. Len(t) \in Nat /\ Len(t) \in 0 .. Len(t) /\ Normalise(t) \in Text
  BY AtIs DEF Text
<1>2. Len(Normalise(t)) \in Nat /\ Len(Normalise(t)) >= 1 /\ At(t, Len(t)) = Len(Normalise(t))
  BY <1>1, AtIs DEF Text
<1>3. 1 \in 1 .. At(t, Len(t)) /\ Len(Normalise(t)) \in 1 .. At(t, Len(t))
  BY <1>2
<1>4. PICK k \in Kept(t) : At(t, k) = 1
  BY <1>1, <1>3, AtReaches
<1>5. PICK l \in Kept(t) : At(t, l) = Len(Normalise(t))
  BY <1>1, <1>3, AtReaches
<1>6. DOMAIN t = 1 .. Len(t) /\ k \in 1 .. Len(t) /\ l \in 1 .. Len(t)
  BY DEF Kept, Text
<1>7. t[k] # Space
  <2> SUFFICES ASSUME t[k] = Space PROVE FALSE
    OBVIOUS
  <2>1. PICK j \in 1 .. k - 1 : t[j] # Space
    BY DEF Kept
  <2>2. j \in 1 .. Len(t) /\ j \in 0 .. Len(t) /\ j < k
    BY <1>1, <1>6
  <2>3. j \in Kept(t)
    BY <2>1, <2>2, OthersAreKept
  <2>4. At(t, j) < 1 /\ At(t, j) \in 1 .. Len(Normalise(t))
    BY <1>4, <2>2, <2>3, AtIsStrict, KeptAt
  <2> QED
    BY <1>2, <2>4
<1>8. t[l] # Space
  <2> SUFFICES ASSUME t[l] = Space PROVE FALSE
    OBVIOUS
  <2>1. l < Len(t) /\ t[l + 1] # Space
    BY DEF Kept
  <2>2. l + 1 \in 1 .. Len(t) /\ l \in 0 .. Len(t) /\ l < l + 1
    BY <1>1, <1>6, <2>1
  <2>3. l + 1 \in Kept(t)
    BY <2>1, <2>2, OthersAreKept
  <2>4. Len(Normalise(t)) < At(t, l + 1) /\ At(t, l + 1) \in 1 .. Len(Normalise(t))
    BY <1>5, <2>2, <2>3, AtIsStrict, KeptAt
  <2> QED
    BY <1>2, <2>4
<1>9. k <= l
  <2> SUFFICES ASSUME l < k PROVE FALSE
    BY <1>1, <1>6
  <2>1. l \in 0 .. Len(t) /\ At(t, l) < At(t, k)
    BY <1>6, AtIsStrict
  <2> QED
    BY <1>2, <1>4, <1>5, <2>1
<1> QED
  BY <1>4, <1>5, <1>6, <1>7, <1>8, <1>9

(* A stretch of a text from a letter to a letter. *)
Stretch(t, i, j) ==
    /\ i \in 1 .. Len(t) /\ j \in 1 .. Len(t) /\ i <= j
    /\ t[i] # Space /\ t[j] # Space

(* The characters of a stretch. *)
LEMMA PartIs ==
    ASSUME NEW t \in Text, NEW i \in 1 .. Len(t), NEW j \in 1 .. Len(t), i <= j
    PROVE  /\ SubSeq(t, i, j) \in Text /\ Len(SubSeq(t, i, j)) = j - i + 1
           /\ DOMAIN SubSeq(t, i, j) = 1 .. j - i + 1
           /\ \A k \in 1 .. j - i + 1 : SubSeq(t, i, j)[k] = t[i + k - 1]
  BY DEF Text

(* Texts are equal that have the same characters. *)
LEMMA SameText ==
    ASSUME NEW s \in Text, NEW t \in Text, NEW n \in Nat, Len(s) = n, Len(t) = n,
           \A m \in 1 .. n : s[m] = t[m]
    PROVE  s = t
  BY DEF Text

(* What a stretch keeps, the text keeps there. *)
LEMMA KeptOfPart ==
    ASSUME NEW t \in Text, NEW i, NEW j, Stretch(t, i, j), NEW k \in 1 .. j - i + 1
    PROVE  k \in Kept(SubSeq(t, i, j)) <=> i + k - 1 \in Kept(t)
<1> DEFINE s == SubSeq(t, i, j)
<1>1. /\ Len(t) \in Nat /\ DOMAIN t = 1 .. Len(t)
      /\ i \in 1 .. Len(t) /\ j \in 1 .. Len(t) /\ i <= j /\ t[i] # Space /\ t[j] # Space
  BY DEF Text, Stretch
<1>2. /\ s \in Text /\ Len(s) = j - i + 1 /\ DOMAIN s = 1 .. j - i + 1
      /\ \A m \in 1 .. j - i + 1 : s[m] = t[i + m - 1]
  BY <1>1, PartIs
<1> HIDE DEF s
<1>3. /\ i + k - 1 \in 1 .. Len(t) /\ s[k] = t[i + k - 1] /\ k \in DOMAIN s
      /\ i + k - 1 \in DOMAIN t
  BY <1>1, <1>2
<1>4. CASE t[i + k - 1] # Space
  BY <1>3, <1>4 DEF Kept, s
<1>5. CASE t[i + k - 1] = Space
  <2>1. k # 1 /\ k # j - i + 1
    BY <1>1, <1>5
  <2>2. /\ 1 \in 1 .. k - 1 /\ s[1] # Space
        /\ i \in 1 .. i + k - 1 - 1 /\ i + k - 1 < Len(t) /\ k < Len(s)
    BY <1>1, <1>2, <2>1
  <2>3. s[k + 1] = t[i + k - 1 + 1]
    BY <1>1, <1>2, <2>1
  <2>4. k \in Kept(s) <=> t[i + k - 1 + 1] # Space
    BY <1>3, <1>5, <2>2, <2>3 DEF Kept
  <2>5. i + k - 1 \in Kept(t) <=> t[i + k - 1 + 1] # Space
    BY <1>1, <1>3, <1>5, <2>2 DEF Kept
  <2> QED
    BY <2>4, <2>5 DEF s
<1> QED
  BY <1>4, <1>5

(* And its places follow one another as there. *)
LEMMA AtOfPart ==
    ASSUME NEW t \in Text, NEW i, NEW j, Stretch(t, i, j), NEW k \in 0 .. j - i + 1
    PROVE  At(SubSeq(t, i, j), k) = At(t, i - 1 + k) - At(t, i - 1)
<1> DEFINE s == SubSeq(t, i, j)
           n == j - i + 1
           S == {m \in Nat : m <= n => At(s, m) = At(t, i - 1 + m) - At(t, i - 1)}
<1>1. /\ Len(t) \in Nat /\ i \in 1 .. Len(t) /\ j \in 1 .. Len(t) /\ i <= j
  BY DEF Text, Stretch
<1>2. s \in Text /\ Len(s) = n /\ n \in Nat
  BY <1>1, PartIs
<1>3. i - 1 \in 0 .. Len(t) /\ At(t, i - 1) \in Nat /\ i - 1 + 0 = i - 1
  BY <1>1, AtIs
<1>4. 0 \in S
  BY <1>2, <1>3, AtIs
<1>5. ASSUME NEW m \in Nat, m \in S
      PROVE  m + 1 \in S
  <2> SUFFICES ASSUME m + 1 <= n
               PROVE  At(s, m + 1) = At(t, i - 1 + (m + 1)) - At(t, i - 1)
    OBVIOUS
  <2>1. At(s, m) = At(t, i - 1 + m) - At(t, i - 1)
    BY <1>2, <1>5
  <2>2. /\ m + 1 \in 1 .. n /\ (m + 1) - 1 = m /\ i + (m + 1) - 1 = i - 1 + (m + 1)
        /\ i - 1 + (m + 1) \in 1 .. Len(t) /\ i - 1 + (m + 1) - 1 = i - 1 + m
        /\ i - 1 + m \in 0 .. Len(t)
    BY <1>1, <1>2
  <2>3. m + 1 \in Kept(s) <=> i - 1 + (m + 1) \in Kept(t)
    BY <2>2, KeptOfPart
  <2>4. At(s, m + 1) = IF m + 1 \in Kept(s) THEN At(s, m) + 1 ELSE At(s, m)
    BY <1>2, <2>2, AtIs
  <2>5. /\ At(t, i - 1 + m) \in Nat
        /\ At(t, i - 1 + (m + 1)) = IF i - 1 + (m + 1) \in Kept(t) THEN At(t, i - 1 + m) + 1
                                    ELSE At(t, i - 1 + m)
    <3> DEFINE l == i - 1 + (m + 1)
    <3>1. l \in 1 .. Len(t) /\ l - 1 = i - 1 + m
      BY <1>1, <2>2
    <3> HIDE DEF l
    <3>2. At(t, l) = IF l \in Kept(t) THEN At(t, l - 1) + 1 ELSE At(t, l - 1)
      BY <3>1, AtIs
    <3> QED
      BY <2>2, <3>1, <3>2, AtIs DEF l
  <2> QED
    BY <1>3, <2>1, <2>3, <2>4, <2>5
<1> HIDE DEF S
<1>6. k \in S
  BY <1>2, <1>4, <1>5, SetInduction
<1> QED
  BY <1>6 DEF S

(* The normal form of a stretch is a part of the text's. *)
LEMMA NormalOfPart ==
    ASSUME NEW t \in Text, NEW i, NEW j, Stretch(t, i, j)
    PROVE  /\ At(t, i) \in 1 .. At(t, j) /\ At(t, j) \in 1 .. Len(Normalise(t))
           /\ Len(Normalise(SubSeq(t, i, j))) = At(t, j) - At(t, i) + 1
           /\ \A m \in 1 .. At(t, j) - At(t, i) + 1 :
                Normalise(SubSeq(t, i, j))[m] = Normalise(t)[At(t, i) + m - 1]
           /\ Normalise(SubSeq(t, i, j)) = SubSeq(Normalise(t), At(t, i), At(t, j))
<1> DEFINE s == SubSeq(t, i, j)
           n == j - i + 1
<1>1. /\ Len(t) \in Nat /\ DOMAIN t = 1 .. Len(t)
      /\ i \in 1 .. Len(t) /\ j \in 1 .. Len(t) /\ i <= j /\ t[i] # Space /\ t[j] # Space
  BY DEF Text, Stretch
<1>2. /\ s \in Text /\ Len(s) = n /\ n \in Nat /\ DOMAIN s = 1 .. n
      /\ \A m \in 1 .. n : s[m] = t[i + m - 1]
  BY <1>1, PartIs
<1>3. i \in Kept(t) /\ j \in Kept(t)
  BY <1>1, OthersAreKept
<1>4. /\ At(t, i) = At(t, i - 1) + 1 /\ At(t, i - 1) \in Nat
      /\ At(t, j) \in 1 .. Len(Normalise(t)) /\ At(t, i) <= At(t, j)
  <2>1. i - 1 \in 0 .. Len(t) /\ i \in 0 .. Len(t) /\ j \in 0 .. Len(t)
    BY <1>1
  <2> QED
    BY <1>1, <1>3, <2>1, AtIs, AtGrows, KeptAt
<1>5. Len(Normalise(s)) = At(t, j) - At(t, i) + 1
  <2>1. n \in 0 .. j - i + 1 /\ i - 1 + n = j
    BY <1>1
  <2> HIDE DEF n
  <2>2. At(s, n) = At(t, i - 1 + n) - At(t, i - 1)
    BY <2>1, AtOfPart
  <2>3. At(s, n) = Len(Normalise(s))
    BY <1>2, AtIs
  <2> QED
    BY <1>4, <2>1, <2>2, <2>3
<1> HIDE DEF s, n
<1>6. ASSUME NEW m \in 1 .. At(t, j) - At(t, i) + 1
      PROVE  Normalise(s)[m] = Normalise(t)[At(t, i) + m - 1]
  <2>1. m \in 1 .. At(s, Len(s)) /\ Len(s) \in 0 .. Len(s)
    BY <1>2, <1>5, AtIs
  <2>2. PICK k \in Kept(s) : At(s, k) = m
    BY <1>2, <2>1, AtReaches
  <2>3. k \in 1 .. n /\ Normalise(s)[m] = s[k]
    BY <1>2, <2>2, KeptAt
  <2>4. i + k - 1 \in Kept(t) /\ At(s, k) = At(t, i - 1 + k) - At(t, i - 1)
    <3>1. k \in 1 .. j - i + 1 /\ k \in 0 .. j - i + 1
      BY <1>1, <2>3 DEF n
    <3> QED
      BY <2>2, <3>1, KeptOfPart, AtOfPart DEF s
  <2>5. At(t, i + k - 1) = At(t, i) + m - 1
    <3>1. i + k - 1 = i - 1 + k /\ i + k - 1 \in 0 .. Len(t)
      BY <1>1, <2>3, <2>4, KeptAt
    <3>2. At(t, i + k - 1) \in Nat
      BY <3>1, AtIs
    <3> QED
      BY <1>4, <2>2, <2>4, <3>1, <3>2
  <2>6. Normalise(t)[At(t, i + k - 1)] = t[i + k - 1]
    BY <2>4, KeptAt
  <2> QED
    BY <1>2, <2>3, <2>5, <2>6
<1>7. Normalise(s) = SubSeq(Normalise(t), At(t, i), At(t, j))
  <2> DEFINE N == Normalise(t)
             p == At(t, i)
             q == At(t, j)
  <2>1. N \in Text /\ Normalise(s) \in Text /\ p \in 1 .. Len(N) /\ q \in 1 .. Len(N) /\ p <= q
    BY <1>2, <1>4, AtIs
  <2> HIDE DEF N, p, q
  <2>2. /\ SubSeq(N, p, q) \in Text /\ Len(SubSeq(N, p, q)) = q - p + 1
        /\ \A m \in 1 .. q - p + 1 : SubSeq(N, p, q)[m] = N[p + m - 1]
    BY <2>1, PartIs
  <2>3. /\ Len(Normalise(s)) = q - p + 1
        /\ \A m \in 1 .. q - p + 1 : Normalise(s)[m] = N[p + m - 1]
    BY <1>5, <1>6 DEF N, p, q
  <2>4. q - p + 1 \in Nat
    BY <2>1
  <2>5. Normalise(s) = SubSeq(N, p, q)
    <3>1. \A m \in 1 .. q - p + 1 : Normalise(s)[m] = SubSeq(N, p, q)[m]
      BY <2>2, <2>3
    <3> QED
      BY <2>1, <2>2, <2>3, <2>4, <3>1, SameText
  <2> QED
    BY <2>5 DEF N, p, q
<1> QED
  BY <1>4, <1>5, <1>6, <1>7 DEF s

-----------------------------------------------------------------------------
(* Quotations *)

(* A value is found from place i to place j of a text. *)
Finds(t, v, i, j) == Stretch(t, i, j) /\ Normalise(SubSeq(t, i, j)) = Normalise(v)

(* Occurrences are the places where a value is found. *)
LEMMA OccurrencesAre ==
    ASSUME NEW t \in Text, NEW v \in Text
    PROVE  /\ \A span \in Occurrences(t, v) :
                 span = <<span[1], span[2]>> /\ Finds(t, v, span[1], span[2])
           /\ \A i, j : Finds(t, v, i, j) => <<i, j>> \in Occurrences(t, v)
<1>1. DOMAIN t = 1 .. Len(t)
  BY DEF Text
<1>2. ASSUME NEW span \in Occurrences(t, v)
      PROVE  span = <<span[1], span[2]>> /\ Finds(t, v, span[1], span[2])
  BY <1>1 DEF Occurrences, FoundAt, Finds, Stretch
<1>3. ASSUME NEW i, NEW j, Finds(t, v, i, j)
      PROVE  <<i, j>> \in Occurrences(t, v)
  BY <1>1, <1>3 DEF Occurrences, FoundAt, Finds, Stretch
<1> QED
  BY <1>2, <1>3

(* A quotation can be trimmed of the spaces at its ends. *)
LEMMA QuoteIsFound ==
    ASSUME NEW t \in Text, NEW v \in Text, Normalise(v) # <<>>, Quoting(t, v)
    PROVE  \E i, j : Finds(t, v, i, j)
<1>1. DOMAIN t = 1 .. Len(t) /\ Len(t) \in Nat
  BY DEF Text
<1>2. PICK i, j \in 1 .. Len(t) : i <= j /\ Normalise(SubSeq(t, i, j)) = Normalise(v)
  BY <1>1 DEF Quoting
<1> DEFINE s == SubSeq(t, i, j)
<1>3. /\ s \in Text /\ Len(s) = j - i + 1
      /\ \A k \in 1 .. j - i + 1 : s[k] = t[i + k - 1]
  BY <1>2, PartIs
<1>4. Normalise(s) # <<>>
  BY <1>2
<1> HIDE DEF s
<1>5. PICK k, l \in 1 .. Len(s) : /\ k <= l /\ s[k] # Space /\ s[l] # Space
                                  /\ At(s, k) = 1 /\ At(s, l) = Len(Normalise(s))
  BY <1>3, <1>4, EndsAreKept
<1>6. Stretch(s, k, l)
  BY <1>5 DEF Stretch
<1>7. Normalise(SubSeq(s, k, l)) = Normalise(s)
  <2>1. Normalise(SubSeq(s, k, l)) = SubSeq(Normalise(s), 1, Len(Normalise(s)))
    <3>1. Normalise(SubSeq(s, k, l)) = SubSeq(Normalise(s), At(s, k), At(s, l))
      BY <1>3, <1>6, NormalOfPart
    <3> QED
      BY <1>5, <3>1
  <2>2. Normalise(s) \in Text
    BY <1>3, AtIs
  <2> QED
    BY <2>1, <2>2 DEF Text
<1>8. Stretch(t, i + k - 1, i + l - 1)
  BY <1>1, <1>2, <1>3, <1>5 DEF Stretch
<1>9. SubSeq(s, k, l) = SubSeq(t, i + k - 1, i + l - 1)
  <2>1. /\ SubSeq(s, k, l) \in Text /\ Len(SubSeq(s, k, l)) = l - k + 1
        /\ \A m \in 1 .. l - k + 1 : SubSeq(s, k, l)[m] = s[k + m - 1]
    BY <1>3, <1>5, PartIs
  <2> DEFINE p == i + k - 1
             q == i + l - 1
  <2>2. p \in 1 .. Len(t) /\ q \in 1 .. Len(t) /\ p <= q /\ q - p + 1 = l - k + 1
    BY <1>1, <1>2, <1>3, <1>5
  <2> HIDE DEF p, q
  <2>3. /\ SubSeq(t, p, q) \in Text /\ Len(SubSeq(t, p, q)) = l - k + 1
        /\ \A m \in 1 .. l - k + 1 : SubSeq(t, p, q)[m] = t[p + m - 1]
    <3>1. /\ SubSeq(t, p, q) \in Text /\ Len(SubSeq(t, p, q)) = q - p + 1
          /\ \A m \in 1 .. q - p + 1 : SubSeq(t, p, q)[m] = t[p + m - 1]
      BY <2>2, PartIs
    <3> QED
      BY <2>2, <3>1
  <2>4. ASSUME NEW m \in 1 .. l - k + 1
        PROVE  s[k + m - 1] = t[p + m - 1]
    <3>1. k + m - 1 \in 1 .. j - i + 1 /\ i + (k + m - 1) - 1 = p + m - 1
      BY <1>1, <1>2, <1>3, <1>5 DEF p
    <3> QED
      BY <1>3, <3>1
  <2>5. SubSeq(s, k, l) = SubSeq(t, p, q)
    <3>1. l - k + 1 \in Nat
      BY <1>5
    <3>2. \A m \in 1 .. l - k + 1 : SubSeq(s, k, l)[m] = SubSeq(t, p, q)[m]
      BY <2>1, <2>3, <2>4
    <3> QED
      BY <2>1, <2>3, <3>1, <3>2, SameText
  <2> QED
    BY <2>5 DEF p, q
<1> QED
  BY <1>2, <1>7, <1>8, <1>9 DEF Finds, s

(* What verification finds is quoted. *)
LEMMA PartIsQuoted ==
    ASSUME NEW t \in Text, NEW v \in Text, Normalise(v) # <<>>,
           Normalise(v) \in SubSeqs(Normalise(t))
    PROVE  Quoting(t, v)
<1> DEFINE N == Normalise(t)
<1>1. N \in Text /\ Normalise(v) \in Text /\ Len(N) = At(t, Len(t))
      /\ Len(t) \in Nat /\ Len(t) \in 0 .. Len(t)
  BY AtIs DEF Text
<1>2. PICK p0, q \in 0 .. Len(N) : Normalise(v) = SubSeq(N, p0 + 1, q)
  BY DEF SubSeqs
<1> DEFINE p == p0 + 1
<1>3. p \in 1 .. Len(N) /\ q \in 1 .. Len(N) /\ p <= q
  <2>1. Len(N) \in Nat
    BY <1>1 DEF Text
  <2>2. CASE q < p
    <3>1. SubSeq(N, p, q) = <<>>
      BY <1>1, <2>1, <2>2 DEF Text
    <3> QED
      BY <1>2, <3>1
  <2> QED
    BY <1>2, <2>1, <2>2
<1>4. Normalise(v) = SubSeq(N, p, q)
  BY <1>2
<1> HIDE DEF N, p
<1>5. /\ Len(Normalise(v)) = q - p + 1
      /\ \A m \in 1 .. q - p + 1 : Normalise(v)[m] = N[p + m - 1]
  BY <1>1, <1>3, <1>4, PartIs
<1>6. PICK i \in Kept(t) : At(t, i) = p
  BY <1>1, <1>3, AtReaches
<1>7. PICK j \in Kept(t) : At(t, j) = q
  BY <1>1, <1>3, AtReaches
<1>8. /\ i \in 1 .. Len(t) /\ j \in 1 .. Len(t)
      /\ t[i] = N[p] /\ t[j] = N[q]
  BY <1>6, <1>7, KeptAt DEF N
<1>9. N[p] # Space /\ N[q] # Space
  <2>1. PICK k, l \in 1 .. Len(v) : /\ v[k] # Space /\ v[l] # Space
                                    /\ At(v, k) = 1 /\ At(v, l) = Len(Normalise(v))
    BY EndsAreKept
  <2>2. Normalise(v)[1] = v[k] /\ Normalise(v)[Len(Normalise(v))] = v[l]
    BY <2>1, OthersAreKept, KeptAt
  <2>3. /\ 1 \in 1 .. q - p + 1 /\ q - p + 1 \in 1 .. q - p + 1
        /\ p + 1 - 1 = p /\ p + (q - p + 1) - 1 = q
    BY <1>3
  <2>4. Normalise(v)[1] = N[p] /\ Normalise(v)[q - p + 1] = N[q]
    BY <1>5, <2>3
  <2> QED
    BY <1>5, <2>1, <2>2, <2>4
<1>10. i <= j
  <2> SUFFICES ASSUME j < i PROVE FALSE
    BY <1>1, <1>8
  <2>1. At(t, j) < At(t, i)
    <3>1. j \in 0 .. Len(t)
      BY <1>8
    <3> QED
      BY <3>1, AtIsStrict
  <2> QED
    BY <1>3, <1>6, <1>7, <2>1
<1>11. Stretch(t, i, j)
  BY <1>8, <1>9, <1>10 DEF Stretch
<1>12. Normalise(SubSeq(t, i, j)) = Normalise(v)
  BY <1>4, <1>6, <1>7, <1>11, NormalOfPart DEF N
<1> QED
  BY <1>8, <1>10, <1>12 DEF Quoting, Text

(* What is found are the characters of the value. *)
LEMMA FoundCharacters ==
    ASSUME NEW t \in Text, NEW v \in Text, NEW i, NEW j, Finds(t, v, i, j),
           NEW k \in i .. j, t[k] # Space
    PROVE  \E l \in 1 .. Len(v) : v[l] = t[k]
<1> DEFINE s == SubSeq(t, i, j)
           m == k - i + 1
<1>1. i \in 1 .. Len(t) /\ j \in 1 .. Len(t) /\ i <= j /\ Len(t) \in Nat /\ Len(v) \in Nat
  BY DEF Finds, Stretch, Text
<1>2. s \in Text /\ m \in 1 .. Len(s) /\ s[m] = t[k]
  <2>1. m \in 1 .. j - i + 1 /\ i + m - 1 = k
    BY <1>1
  <2> HIDE DEF m
  <2> QED
    BY <1>1, <2>1, PartIs
<1> HIDE DEF s, m
<1>3. m \in Kept(s)
  BY <1>2, OthersAreKept
<1>4. At(s, m) \in 1 .. Len(Normalise(s)) /\ Normalise(s)[At(s, m)] = t[k]
  BY <1>2, <1>3, KeptAt
<1>5. Normalise(s) = Normalise(v) /\ Len(Normalise(v)) = At(v, Len(v)) /\ Len(v) \in 0 .. Len(v)
  BY <1>1, AtIs DEF Finds, s
<1>6. PICK l \in Kept(v) : At(v, l) = At(s, m)
  BY <1>4, <1>5, AtReaches
<1> QED
  BY <1>4, <1>5, <1>6, KeptAt

(* A plain value is found nowhere that a mask has been. *)
LEMMA FoundIsPlain ==
    ASSUME NEW t \in Text, NEW v \in Text, NEW i, NEW j, Finds(t, v, i, j), Plain(v),
           NEW k \in i .. j
    PROVE  t[k] # MASK_CHAR
<1>1. CASE t[k] = Space
  BY <1>1 DEF Space, MASK_CHAR
<1>2. CASE t[k] # Space
  BY <1>2, FoundCharacters DEF Plain, Text
<1> QED
  BY <1>1, <1>2

(* Where a value is found from one place, there is one place it goes to. *)
LEMMA OneEnd ==
    ASSUME NEW t \in Text, NEW v \in Text, NEW i, NEW j, NEW l,
           Finds(t, v, i, j), Finds(t, v, i, l)
    PROVE  j = l
<1>1. /\ Stretch(t, i, j) /\ Stretch(t, i, l)
      /\ Normalise(SubSeq(t, i, j)) = Normalise(SubSeq(t, i, l))
  BY DEF Finds
<1>2. /\ Len(t) \in Nat /\ j \in 1 .. Len(t) /\ l \in 1 .. Len(t)
      /\ j \in Kept(t) /\ l \in Kept(t)
  BY <1>1, OthersAreKept DEF Stretch, Text
<1>3. /\ At(t, i) \in Int /\ At(t, j) \in Int /\ At(t, l) \in Int
      /\ At(t, j) - At(t, i) + 1 = At(t, l) - At(t, i) + 1
  <2>1. /\ At(t, i) \in Int /\ At(t, j) \in Int
        /\ Len(Normalise(SubSeq(t, i, j))) = At(t, j) - At(t, i) + 1
    BY <1>1, NormalOfPart
  <2>2. /\ At(t, l) \in Int
        /\ Len(Normalise(SubSeq(t, i, l))) = At(t, l) - At(t, i) + 1
    BY <1>1, NormalOfPart
  <2> QED
    BY <1>1, <2>1, <2>2
<1>4. At(t, j) = At(t, l)
  BY <1>3
<1>5. ~(j < l) /\ ~(l < j)
  <2>1. j \in 0 .. Len(t) /\ l \in 0 .. Len(t)
    BY <1>2
  <2> QED
    BY <1>2, <1>3, <1>4, <2>1, AtIsStrict
<1> QED
  BY <1>2, <1>5

(* Where a value is found in what is left of itself, it overlaps itself. *)
LEMMA FoundInside ==
    ASSUME NEW t \in Text, NEW v \in Text, NEW i, NEW j, NEW k, NEW l,
           Finds(t, v, i, j), Finds(t, v, k, l), i < k, k <= j
    PROVE  j < l /\ OverlapsItself(Normalise(v))
<1>1. Stretch(t, i, j) /\ Stretch(t, k, l)
  BY DEF Finds
<1>2. /\ Len(t) \in Nat
      /\ i \in Kept(t) /\ j \in Kept(t) /\ k \in Kept(t) /\ l \in Kept(t)
      /\ i \in 0 .. Len(t) /\ j \in 0 .. Len(t) /\ k \in 0 .. Len(t) /\ l \in 0 .. Len(t)
  BY <1>1, OthersAreKept DEF Stretch, Text
<1> DEFINE N == Normalise(v)
           a == At(t, i)
           b == At(t, j)
           c == At(t, k)
           d == At(t, l)
<1>3. /\ a \in Nat /\ b \in Nat /\ c \in Nat /\ d \in Nat
      /\ a < c /\ c <= b
  BY <1>2, AtIs, AtIsStrict, AtGrows
<1>4. /\ Len(N) = b - a + 1
      /\ \A m \in 1 .. b - a + 1 : N[m] = Normalise(t)[a + m - 1]
  BY <1>1, NormalOfPart DEF Finds
<1>5. /\ Len(N) = d - c + 1
      /\ \A m \in 1 .. d - c + 1 : N[m] = Normalise(t)[c + m - 1]
  BY <1>1, NormalOfPart DEF Finds
<1>6. b < d
  BY <1>3, <1>4, <1>5
<1>7. j < l
  <2> SUFFICES ASSUME l <= j PROVE FALSE
    BY <1>2
  <2>1. d <= b
    BY <1>2, AtGrows
  <2> QED
    BY <1>3, <1>6, <2>1
<1>8. N \in Text
  BY AtIs
<1> HIDE DEF N, a, b, c, d
<1> DEFINE n == b - c + 1
<1>9. n \in 1 .. Len(N) - 1 /\ Len(N) - n + 1 = c - a + 1 /\ Len(N) - n + 1 \in 1 .. Len(N)
  BY <1>3, <1>4
<1>10. SubSeq(N, 1, n) = SubSeq(N, Len(N) - n + 1, Len(N))
  <2> DEFINE p == Len(N) - n + 1
             q == Len(N)
  <2>1. /\ 1 \in 1 .. Len(N) /\ n \in 1 .. Len(N) /\ 1 <= n
        /\ p \in 1 .. Len(N) /\ q \in 1 .. Len(N) /\ p <= q /\ q - p + 1 = n
    BY <1>3, <1>9
  <2>2. ASSUME NEW m \in 1 .. n
        PROVE  N[m] = N[p + m - 1]
    <3>1. N[m] = Normalise(t)[c + m - 1]
      <4>1. m \in 1 .. d - c + 1
        BY <1>3, <1>6
      <4> QED
        BY <1>5, <4>1
    <3>2. p + m - 1 \in 1 .. b - a + 1 /\ a + (p + m - 1) - 1 = c + m - 1
      BY <1>3, <1>9
    <3>3. N[p + m - 1] = Normalise(t)[c + m - 1]
      BY <1>4, <3>2
    <3> QED
      BY <3>1, <3>3
  <2> HIDE DEF n, p, q
  <2>3. /\ SubSeq(N, p, q) \in Text /\ Len(SubSeq(N, p, q)) = n
        /\ \A m \in 1 .. n : SubSeq(N, p, q)[m] = N[p + m - 1]
    BY <1>8, <2>1, PartIs
  <2>4. /\ SubSeq(N, 1, n) \in Text /\ Len(SubSeq(N, 1, n)) = n
        /\ \A m \in 1 .. n : SubSeq(N, 1, n)[m] = N[m]
    <3>1. n - 1 + 1 = n /\ \A m \in 1 .. n : 1 + m - 1 = m
      BY <2>1
    <3>2. /\ SubSeq(N, 1, n) \in Text /\ Len(SubSeq(N, 1, n)) = n - 1 + 1
          /\ \A m \in 1 .. n - 1 + 1 : SubSeq(N, 1, n)[m] = N[1 + m - 1]
      BY <1>8, <2>1, PartIs
    <3> QED
      BY <3>1, <3>2
  <2>5. SubSeq(N, 1, n) = SubSeq(N, p, q)
    <3>1. n \in Nat
      BY <2>1
    <3>2. \A m \in 1 .. n : SubSeq(N, 1, n)[m] = SubSeq(N, p, q)[m]
      BY <2>2, <2>3, <2>4
    <3> QED
      BY <2>3, <2>4, <3>1, <3>2, SameText
  <2> QED
    BY <2>5 DEF p, q
<1>11. OverlapsItself(N)
  BY <1>9, <1>10 DEF OverlapsItself
<1> QED
  BY <1>7, <1>11 DEF N

-----------------------------------------------------------------------------
(* What a mask leaves *)

(* A mask has the length of what it masks. *)
LEMMA MaskIs ==
    ASSUME NEW x \in Text, NEW tail \in BOOLEAN
    PROVE  /\ MaskValue(x, tail) \in Text /\ Len(MaskValue(x, tail)) = Len(x)
           /\ \A i \in 1 .. Len(x) :
                MaskValue(x, tail)[i] =
                    IF i \in LettersOf(x)
                       /\ Cardinality({j \in LettersOf(x) : j >= i}) > Shown(x, tail)
                    THEN MASK_CHAR ELSE x[i]
<1>1. DOMAIN x = 1 .. Len(x) /\ Len(x) \in Nat /\ \A i \in 1 .. Len(x) : x[i] \in Characters
  BY DEF Text
<1>2. MaskValue(x, tail) =
         [i \in 1 .. Len(x) |->
            IF i \in LettersOf(x) /\ Cardinality({j \in LettersOf(x) : j >= i}) > Shown(x, tail)
            THEN MASK_CHAR ELSE x[i]]
  BY <1>1 DEF MaskValue, LettersOf
<1>3. \A i \in 1 .. Len(x) : MaskValue(x, tail)[i] \in Characters
  <2>1. MASK_CHAR \in Characters
    BY DEF Characters
  <2> QED
    BY <1>1, <1>2, <2>1
<1>4. MaskValue(x, tail) \in Seq(Characters) /\ Len(MaskValue(x, tail)) = Len(x)
  BY <1>1, <1>2, <1>3
<1> QED
  BY <1>2, <1>4 DEF Text

(* The letters of a text can be counted. *)
LEMMA LettersAreFinite ==
    ASSUME NEW x \in Text
    PROVE  /\ LettersOf(x) \subseteq 1 .. Len(x) /\ Len(x) \in Nat
           /\ \A S \in SUBSET LettersOf(x) : IsFiniteSet(S) /\ Cardinality(S) \in Nat
<1>1. LettersOf(x) \subseteq 1 .. Len(x) /\ Len(x) \in Nat
  BY DEF LettersOf, Text
<1>2. IsFiniteSet(1 .. Len(x))
  BY <1>1, FS_Interval
<1> QED
  BY <1>1, <1>2, FS_Subset, FS_CardinalityType

(* Something of a text with letters is always masked. *)
LEMMA MaskHides ==
    ASSUME NEW x \in Text, NEW tail \in BOOLEAN, LettersOf(x) # {}
    PROVE  \E i \in LettersOf(x) : MaskValue(x, tail)[i] = MASK_CHAR
<1>1. LettersOf(x) \subseteq 1 .. Len(x) /\ Len(x) \in Nat
      /\ IsFiniteSet(LettersOf(x)) /\ Cardinality(LettersOf(x)) \in Nat
  BY LettersAreFinite
<1>2. LettersOf(x) \subseteq Nat
  BY <1>1
<1>3. PICK i \in LettersOf(x) : \A j \in LettersOf(x) : i <= j
  BY <1>2, Least
<1>4. {j \in LettersOf(x) : j >= i} = LettersOf(x)
  BY <1>2, <1>3
<1>5. Cardinality(LettersOf(x)) # 0
  BY <1>1, FS_EmptySet
<1>6. Cardinality(LettersOf(x)) > Shown(x, tail)
  BY <1>1, <1>5, EvidenceAssumption DEF Shown
<1>7. MaskValue(x, tail)[i] = MASK_CHAR
  BY <1>1, <1>3, <1>4, <1>6, MaskIs
<1> QED
  BY <1>7

(* Without a tail every letter is. *)
LEMMA MaskHidesAll ==
    ASSUME NEW x \in Text, NEW i \in LettersOf(x)
    PROVE  MaskValue(x, FALSE)[i] = MASK_CHAR
<1> DEFINE S == {j \in LettersOf(x) : j >= i}
<1>1. LettersOf(x) \subseteq 1 .. Len(x) /\ Len(x) \in Nat
      /\ IsFiniteSet(S) /\ Cardinality(S) \in Nat
  BY LettersAreFinite
<1>2. i \in S
  BY <1>1
<1>3. Cardinality(S) # 0
  BY <1>1, <1>2, FS_EmptySet
<1>4. Shown(x, FALSE) = 0
  BY DEF Shown
<1>5. i \in 1 .. Len(x) /\ Cardinality(S) > Shown(x, FALSE)
  <2>1. i \in 1 .. Len(x)
    BY <1>1
  <2>2. Cardinality(S) > 0
    BY <1>1, <1>3
  <2> QED
    BY <1>4, <2>1, <2>2
<1> HIDE DEF S
<1>6. MaskValue(x, FALSE)[i] =
         IF i \in LettersOf(x) /\ Cardinality(S) > Shown(x, FALSE) THEN MASK_CHAR ELSE x[i]
  BY <1>5, MaskIs DEF S
<1> QED
  BY <1>5, <1>6

(* With one, no more than the tail is shown. *)
LEMMA MaskShows ==
    ASSUME NEW x \in Text, NEW tail \in BOOLEAN
    PROVE  Cardinality(LettersOf(MaskValue(x, tail))) <= Shown(x, tail)
<1> DEFINE m == MaskValue(x, tail)
           R == LettersOf(m)
           from(i) == {j \in LettersOf(x) : j >= i}
<1>0. LettersOf(x) \subseteq 1 .. Len(x) /\ Len(x) \in Nat
  BY LettersAreFinite
<1>1. m \in Text /\ Len(m) = Len(x) /\ Shown(x, tail) \in Nat
  BY MaskIs, EvidenceAssumption DEF Shown
<1>2. \A i \in R : i \in LettersOf(x) /\ ~(Cardinality(from(i)) > Shown(x, tail))
  <2> SUFFICES ASSUME NEW i \in R
               PROVE  i \in LettersOf(x) /\ ~(Cardinality(from(i)) > Shown(x, tail))
    OBVIOUS
  <2>1. i \in 1 .. Len(x) /\ m[i] \in Letters
    BY <1>1 DEF LettersOf, Text
  <2>2. m[i] = IF i \in LettersOf(x) /\ Cardinality(from(i)) > Shown(x, tail)
               THEN MASK_CHAR ELSE x[i]
    BY <2>1, MaskIs
  <2>3. ~(i \in LettersOf(x) /\ Cardinality(from(i)) > Shown(x, tail)) /\ m[i] = x[i]
    BY <2>1, <2>2, EvidenceAssumption
  <2>4. i \in LettersOf(x)
    BY <2>1, <2>3 DEF LettersOf, Text
  <2> QED
    BY <2>3, <2>4
<1> HIDE DEF m, R
<1>3. IsFiniteSet(R) /\ Cardinality(R) \in Nat
  BY <1>2, LettersAreFinite
<1>4. CASE R = {}
  BY <1>1, <1>4, FS_EmptySet DEF R, m
<1>5. CASE R # {}
  <2>1. R \subseteq Nat
    <3>1. R \subseteq LettersOf(x)
      BY <1>2
    <3>2. \A i \in 1 .. Len(x) : i \in Nat
      BY <1>0
    <3> QED
      BY <1>0, <3>1, <3>2
  <2>2. PICK i \in R : \A j \in R : i <= j
    BY <1>5, <2>1, Least
  <2>3. R \subseteq from(i) /\ IsFiniteSet(from(i)) /\ Cardinality(from(i)) \in Nat
    <3>1. R \subseteq from(i)
      BY <1>2, <2>1, <2>2
    <3>2. from(i) \in SUBSET LettersOf(x)
      OBVIOUS
    <3> QED
      BY <3>1, <3>2, LettersAreFinite
  <2>4. Cardinality(R) <= Cardinality(from(i))
    BY <2>3, FS_Subset
  <2>5. ~(Cardinality(from(i)) > Shown(x, tail))
    BY <1>2, <2>2
  <2> QED
    BY <1>1, <1>3, <2>3, <2>4, <2>5 DEF R, m
<1> QED
  BY <1>4, <1>5

-----------------------------------------------------------------------------
(* What is replaced *)

(* What the recursion of Done defines. *)
LEMMA DoneIs ==
    ASSUME NEW t \in Text, NEW v \in Text
    PROVE  /\ \A i \in 0 .. Len(t) : Done(t, v)[i] \in 0 .. Len(t)
           /\ Done(t, v)[0] = 0
           /\ \A i \in 1 .. Len(t) : \A j : Finds(t, v, i, j) /\ Done(t, v)[i - 1] < i
                                            => Done(t, v)[i] = j
           /\ \A i \in 1 .. Len(t) : (Done(t, v)[i - 1] < i => \A j : ~Finds(t, v, i, j))
                                            => Done(t, v)[i] = Done(t, v)[i - 1]
<1> DEFINE n == Len(t)
           from(i) == {span \in Occurrences(t, v) : span[1] = i}
           end(i) == (CHOOSE span \in Occurrences(t, v) : span[1] = i)[2]
           X == 0 .. n
           step == [i \in 1 .. n |-> [x \in X |-> IF x < i /\ from(i) # {} THEN end(i) ELSE x]]
<1>1. n \in Nat
  BY DEF Text
<1>2. ASSUME NEW i \in 1 .. n, from(i) # {}
      PROVE  Finds(t, v, i, end(i)) /\ end(i) \in X
  <2> DEFINE span == CHOOSE s \in Occurrences(t, v) : s[1] = i
  <2>1. span \in Occurrences(t, v) /\ span[1] = i
    BY <1>2
  <2>2. Finds(t, v, i, end(i))
    BY <2>1, OccurrencesAre
  <2> QED
    BY <1>1, <2>2 DEF Finds, Stretch
<1>3. step \in Steps(n, X)
  BY <1>2 DEF Steps
<1>4. \A i \in 1 .. n : \A x \in X : step[i][x] = IF x < i /\ from(i) # {} THEN end(i) ELSE x
  OBVIOUS
<1>5. 0 \in X
  BY <1>1
<1>6. \A i \in 1 .. n : from(i) = {} <=> \A j : ~Finds(t, v, i, j)
  <2> SUFFICES ASSUME NEW i \in 1 .. n
               PROVE  from(i) = {} <=> \A j : ~Finds(t, v, i, j)
    OBVIOUS
  <2>1. ASSUME NEW j, Finds(t, v, i, j)
        PROVE  <<i, j>> \in from(i)
    BY <2>1, OccurrencesAre
  <2> QED
    BY <1>2, <2>1
<1> HIDE DEF X, end, from, step
<1>7. PICK f : Follows(f, n, X, 0, step)
  BY <1>1, <1>3, <1>5, Recursion
<1>8. /\ \A i \in 0 .. n : f[i] \in X
      /\ f = [i \in 0 .. n |-> f[i]] /\ f[0] = 0
      /\ \A i \in 1 .. n : f[i] = IF f[i - 1] < i /\ from(i) # {} THEN end(i) ELSE f[i - 1]
  BY <1>1, <1>4, <1>7 DEF Follows
<1> DEFINE g == Done(t, v)
<1>9. f = [i \in 0 .. n |->
             IF i = 0 THEN 0
             ELSE IF f[i - 1] < i /\ (\E span \in Occurrences(t, v) : span[1] = i)
             THEN (CHOOSE span \in Occurrences(t, v) : span[1] = i)[2]
             ELSE f[i - 1]]
  BY <1>1, <1>8 DEF from, end
<1>10. g = [i \in 0 .. n |->
             IF i = 0 THEN 0
             ELSE IF g[i - 1] < i /\ (\E span \in Occurrences(t, v) : span[1] = i)
             THEN (CHOOSE span \in Occurrences(t, v) : span[1] = i)[2]
             ELSE g[i - 1]]
  BY <1>9 DEF Done
<1> HIDE DEF g
<1>11. /\ g[0] = 0
       /\ \A i \in 1 .. n : g[i] = IF g[i - 1] < i /\ from(i) # {} THEN end(i) ELSE g[i - 1]
  BY <1>1, <1>10 DEF from, end
<1> DEFINE S == {i \in Nat : i <= n => g[i] \in X}
<1>12. 0 \in S
  BY <1>5, <1>11
<1>13. ASSUME NEW i \in Nat, i \in S
       PROVE  i + 1 \in S
  <2>1. CASE i + 1 <= n
    <3>1. i + 1 \in 1 .. n /\ (i + 1) - 1 = i /\ g[i] \in X
      BY <1>1, <1>13, <2>1
    <3>2. g[i + 1] = IF g[i] < i + 1 /\ from(i + 1) # {} THEN end(i + 1) ELSE g[i]
      BY <1>11, <3>1
    <3> QED
      BY <1>2, <3>1, <3>2
  <2> QED
    BY <1>1, <2>1
<1> HIDE DEF S
<1>14. Nat \subseteq S
  BY <1>12, <1>13, SetInduction
<1>15. \A i \in 0 .. n : g[i] \in X
  BY <1>1, <1>14 DEF S
<1>16. ASSUME NEW i \in 1 .. n, NEW j, Finds(t, v, i, j), g[i - 1] < i
       PROVE  g[i] = j
  <2>1. from(i) # {}
    BY <1>6, <1>16
  <2>2. g[i] = end(i)
    BY <1>11, <1>16, <2>1
  <2> QED
    BY <1>2, <1>16, <2>1, <2>2, OneEnd
<1>17. ASSUME NEW i \in 1 .. n, g[i - 1] < i => \A j : ~Finds(t, v, i, j)
       PROVE  g[i] = g[i - 1]
  BY <1>6, <1>11, <1>17
<1> QED
  BY <1>11, <1>15, <1>16, <1>17 DEF g, X

(* The pass never goes back. *)
LEMMA DoneGrows ==
    ASSUME NEW t \in Text, NEW v \in Text, NEW k \in 0 .. Len(t), NEW l \in 0 .. Len(t), k <= l
    PROVE  Done(t, v)[k] <= Done(t, v)[l]
<1> DEFINE g == Done(t, v)
           S == {d \in Nat : k + d <= Len(t) => g[k] <= g[k + d]}
<1>1. Len(t) \in Nat /\ \A i \in 0 .. Len(t) : g[i] \in Nat
  <2>1. Len(t) \in Nat
    BY DEF Text
  <2> QED
    BY <2>1, DoneIs
<1>2. ASSUME NEW i \in 1 .. Len(t)
      PROVE  g[i - 1] <= g[i]
  <2>1. i - 1 \in 0 .. Len(t) /\ i \in 0 .. Len(t)
    BY <1>1
  <2>2. CASE g[i - 1] < i /\ \E j : Finds(t, v, i, j)
    <3>1. PICK j : Finds(t, v, i, j)
      BY <2>2
    <3>2. g[i] = j
      BY <2>2, <3>1, DoneIs
    <3>3. i <= j /\ j \in Nat
      BY <1>1, <3>1 DEF Finds, Stretch
    <3> QED
      BY <1>1, <2>1, <2>2, <3>2, <3>3
  <2>3. CASE g[i - 1] < i => \A j : ~Finds(t, v, i, j)
    <3>1. g[i] = g[i - 1]
      BY <2>3, DoneIs
    <3> QED
      BY <1>1, <2>1, <3>1
  <2> QED
    BY <2>2, <2>3
<1> HIDE DEF g
<1>3. 0 \in S
  BY <1>1
<1>4. ASSUME NEW d \in Nat, d \in S
      PROVE  d + 1 \in S
  <2>1. CASE k + (d + 1) <= Len(t)
    <3> DEFINE i == k + (d + 1)
    <3>1. i \in 1 .. Len(t) /\ i - 1 = k + d /\ k + d \in 0 .. Len(t) /\ k + d <= Len(t)
      BY <1>1, <2>1
    <3> HIDE DEF i
    <3>2. g[i - 1] <= g[i] /\ g[k] <= g[k + d]
      BY <1>2, <1>4, <3>1
    <3>3. g[k] <= g[i]
      BY <1>1, <3>1, <3>2
    <3> QED
      BY <3>3 DEF i
  <2> QED
    BY <2>1
<1> HIDE DEF S
<1>5. l - k \in S
  <2>1. l - k \in Nat
    BY <1>1
  <2> QED
    BY <1>3, <1>4, <2>1, SetInduction
<1>6. g[k] <= g[k + (l - k)] /\ k + (l - k) = l
  BY <1>1, <1>5 DEF S
<1> QED
  BY <1>6 DEF g

(* Of the occurrences, re.sub replaces those that it comes to. *)
Replaces(t, v, i, j) == Finds(t, v, i, j) /\ Done(t, v)[i - 1] < i

(* Substituted are the occurrences that are replaced. *)
LEMMA SubstitutedAre ==
    ASSUME NEW t \in Text, NEW v \in Text
    PROVE  /\ \A span \in Substituted(t, v) :
                 span = <<span[1], span[2]>> /\ Replaces(t, v, span[1], span[2])
           /\ \A i, j : Replaces(t, v, i, j) => <<i, j>> \in Substituted(t, v)
  BY OccurrencesAre DEF Substituted, Replaces

(* Each begins after the end of the one before. *)
LEMMA ReplacedApart ==
    ASSUME NEW t \in Text, NEW v \in Text, NEW i, NEW j, NEW k, NEW l,
           Replaces(t, v, i, j), Replaces(t, v, k, l), i < k
    PROVE  j < k
<1>1. /\ Len(t) \in Nat /\ i \in 1 .. Len(t) /\ k \in 1 .. Len(t) /\ j \in 1 .. Len(t)
  BY DEF Replaces, Finds, Stretch, Text
<1>2. Done(t, v)[i] = j
  BY <1>1, DoneIs DEF Replaces
<1>3. i \in 0 .. Len(t) /\ k - 1 \in 0 .. Len(t) /\ i <= k - 1
  BY <1>1
<1>4. Done(t, v)[i] <= Done(t, v)[k - 1]
  BY <1>3, DoneGrows
<1>5. Done(t, v)[k - 1] < k /\ Done(t, v)[k - 1] \in 0 .. Len(t)
  BY <1>3, DoneIs DEF Replaces
<1> QED
  BY <1>1, <1>2, <1>4, <1>5

(* A place is in one of them at most. *)
LEMMA ReplacedOnce ==
    ASSUME NEW t \in Text, NEW v \in Text, NEW i, NEW j, NEW k, NEW l,
           Replaces(t, v, i, j), Replaces(t, v, k, l),
           NEW m, i <= m, m <= j, k <= m, m <= l, m \in Int
    PROVE  i = k /\ j = l
<1>1. /\ Len(t) \in Nat /\ i \in 1 .. Len(t) /\ k \in 1 .. Len(t)
      /\ j \in 1 .. Len(t) /\ l \in 1 .. Len(t)
  BY DEF Replaces, Finds, Stretch, Text
<1>2. ~(i < k) /\ ~(k < i)
  <2>1. i < k => j < k
    BY ReplacedApart
  <2>2. k < i => l < i
    BY ReplacedApart
  <2> QED
    BY <1>1, <2>1, <2>2
<1>3. i = k
  BY <1>1, <1>2
<1> QED
  BY <1>3, OneEnd DEF Replaces

(* An occurrence that is not replaced begins in one that is. *)
LEMMA FoundIsReplaced ==
    ASSUME NEW t \in Text, NEW v \in Text, NEW i, NEW j, Finds(t, v, i, j)
    PROVE  \/ Replaces(t, v, i, j)
           \/ \E k, l : Replaces(t, v, k, l) /\ k < i /\ i <= l
<1> DEFINE g == Done(t, v)
           Ends(m) == g[m] = 0 \/ \E k : Replaces(t, v, k, g[m]) /\ k <= m
           S == {m \in Nat : m <= Len(t) => Ends(m)}
<1>1. Len(t) \in Nat /\ i \in 1 .. Len(t) /\ \A m \in 0 .. Len(t) : g[m] \in Nat
  <2>1. Len(t) \in Nat /\ i \in 1 .. Len(t)
    BY DEF Finds, Stretch, Text
  <2> QED
    BY <2>1, DoneIs
<1>2. 0 \in S
  BY DoneIs
<1>3. ASSUME NEW m \in Nat, m \in S, m + 1 <= Len(t)
      PROVE  Ends(m + 1)
  <2> DEFINE n == m + 1
  <2>1. n \in 1 .. Len(t) /\ n - 1 = m /\ m \in 0 .. Len(t)
    BY <1>1, <1>3
  <2>2. Ends(m)
    BY <1>1, <1>3
  <2> HIDE DEF n
  <2>3. CASE g[n - 1] < n /\ \E l : Finds(t, v, n, l)
    <3>1. PICK l : Finds(t, v, n, l)
      BY <2>3
    <3>2. g[n] = l
      BY <2>1, <2>3, <3>1, DoneIs
    <3>3. Replaces(t, v, n, g[n]) /\ n <= n
      BY <2>1, <2>3, <3>1, <3>2 DEF Replaces
    <3> QED
      BY <3>3 DEF n
  <2>4. CASE g[n - 1] < n => \A l : ~Finds(t, v, n, l)
    <3>1. g[n] = g[m]
      BY <2>1, <2>4, DoneIs
    <3>2. CASE g[m] = 0
      BY <3>1, <3>2 DEF n
    <3>3. CASE \E k : Replaces(t, v, k, g[m]) /\ k <= m
      <4>1. PICK k : Replaces(t, v, k, g[m]) /\ k <= m
        BY <3>3
      <4>2. k \in Nat
        BY <1>1, <4>1 DEF Replaces, Finds, Stretch
      <4>3. k <= n /\ Replaces(t, v, k, g[n])
        BY <2>1, <3>1, <4>1, <4>2
      <4> QED
        BY <4>3 DEF n
    <3> QED
      BY <2>2, <3>2, <3>3
  <2> QED
    BY <2>3, <2>4
<1> HIDE DEF Ends
<1>4. \A m \in Nat : m \in S => m + 1 \in S
  BY <1>3
<1> HIDE DEF S
<1>5. i - 1 \in S
  BY <1>1, <1>2, <1>4, SetInduction
<1>6. Ends(i - 1) /\ i - 1 \in 0 .. Len(t)
  BY <1>1, <1>5 DEF S
<1>7. CASE g[i - 1] < i
  BY <1>7 DEF Replaces
<1>8. CASE ~(g[i - 1] < i)
  <2>1. g[i - 1] \in Nat /\ i <= g[i - 1] /\ g[i - 1] # 0
    BY <1>1, <1>6, <1>8
  <2>2. PICK k : Replaces(t, v, k, g[i - 1]) /\ k <= i - 1
    BY <1>6, <2>1 DEF Ends
  <2>3. k < i
    BY <1>1, <2>2 DEF Replaces, Finds, Stretch
  <2> QED
    BY <2>1, <2>2, <2>3
<1> QED
  BY <1>7, <1>8

(* What a mask does to a text, where re.sub finds a value. *)
LEMMA RedactOneIs ==
    ASSUME NEW t \in Text, NEW s, s.text \in Text, s.tail \in BOOLEAN
    PROVE  /\ RedactOne(t, s) \in Text /\ Len(RedactOne(t, s)) = Len(t)
           /\ \A i, j : Replaces(t, s.text, i, j) =>
                \A k \in i .. j :
                   RedactOne(t, s)[k] = MaskValue(SubSeq(t, i, j), s.tail)[k - i + 1]
           /\ \A k \in 1 .. Len(t) :
                (\A i, j : Replaces(t, s.text, i, j) => k \notin i .. j)
                   => RedactOne(t, s)[k] = t[k]
           /\ \A k \in 1 .. Len(t) : RedactOne(t, s)[k] \in {t[k], MASK_CHAR}
<1> DEFINE r == RedactOne(t, s)
           spans == Substituted(t, s.text)
           over(k) == {span \in spans : span[1] <= k /\ k <= span[2]}
           masked(span) == MaskValue(SubSeq(t, span[1], span[2]), s.tail)
<1>1. DOMAIN t = 1 .. Len(t) /\ Len(t) \in Nat /\ \A k \in 1 .. Len(t) : t[k] \in Characters
  BY DEF Text
<1>2. r = [k \in 1 .. Len(t) |->
             IF over(k) # {}
             THEN LET span == CHOOSE p \in spans : p[1] <= k /\ k <= p[2]
                  IN  masked(span)[k - span[1] + 1]
             ELSE t[k]]
  <2>1. \A k : (\E span \in spans : span[1] <= k /\ k <= span[2]) <=> over(k) # {}
    OBVIOUS
  <2> QED
    BY <1>1, <2>1 DEF RedactOne
<1>3. ASSUME NEW i, NEW j, Replaces(t, s.text, i, j), NEW k \in i .. j
      PROVE  r[k] = MaskValue(SubSeq(t, i, j), s.tail)[k - i + 1] /\ k \in 1 .. Len(t)
  <2> DEFINE span == CHOOSE p \in spans : p[1] <= k /\ k <= p[2]
  <2>1. /\ i \in 1 .. Len(t) /\ j \in 1 .. Len(t) /\ i <= k /\ k <= j /\ k \in Int
    BY <1>1, <1>3 DEF Replaces, Finds, Stretch
  <2>2. <<i, j>> \in spans /\ <<i, j>>[1] = i /\ <<i, j>>[2] = j
    BY <1>3, SubstitutedAre
  <2>3. span \in spans /\ span[1] <= k /\ k <= span[2]
    BY <2>1, <2>2
  <2>4. Replaces(t, s.text, span[1], span[2])
    BY <2>3, SubstitutedAre
  <2> HIDE DEF span
  <2>5. span[1] = i /\ span[2] = j
    BY <1>3, <2>1, <2>3, <2>4, ReplacedOnce
  <2>6. over(k) # {} /\ k \in 1 .. Len(t)
    BY <1>1, <2>1, <2>3
  <2>7. r[k] = masked(span)[k - span[1] + 1]
    BY <1>2, <2>6 DEF span
  <2> QED
    BY <2>5, <2>6, <2>7
<1>4. ASSUME NEW k \in 1 .. Len(t), \A i, j : Replaces(t, s.text, i, j) => k \notin i .. j
      PROVE  r[k] = t[k]
  <2>1. over(k) = {}
    <3> SUFFICES ASSUME NEW span \in over(k) PROVE FALSE
      OBVIOUS
    <3>1. Replaces(t, s.text, span[1], span[2])
      BY SubstitutedAre
    <3>2. span[1] \in Int /\ span[2] \in Int
      BY <1>1, <3>1 DEF Replaces, Finds, Stretch
    <3> QED
      BY <1>4, <3>1, <3>2
  <2> HIDE DEF over
  <2> QED
    BY <1>2, <2>1
<1> HIDE DEF r
<1>5. ASSUME NEW k \in 1 .. Len(t)
      PROVE  r[k] \in {t[k], MASK_CHAR}
  <2>1. ASSUME NEW i, NEW j, Replaces(t, s.text, i, j), k \in i .. j
        PROVE  r[k] \in {t[k], MASK_CHAR}
    <3> DEFINE x == SubSeq(t, i, j)
               m == k - i + 1
    <3>1. /\ i \in 1 .. Len(t) /\ j \in 1 .. Len(t) /\ i <= j
      BY <2>1 DEF Replaces, Finds, Stretch
    <3>2. m \in 1 .. j - i + 1 /\ i + m - 1 = k
      BY <1>1, <2>1, <3>1
    <3> HIDE DEF m
    <3>3. x \in Text /\ m \in 1 .. Len(x) /\ x[m] = t[k]
      BY <3>1, <3>2, PartIs
    <3> HIDE DEF x
    <3>4. MaskValue(x, s.tail)[m] \in {x[m], MASK_CHAR}
      BY <3>3, MaskIs
    <3>5. r[k] = MaskValue(x, s.tail)[m]
      BY <1>3, <2>1 DEF x, m
    <3> QED
      BY <3>3, <3>4, <3>5
  <2> QED
    BY <1>4, <2>1
<1>6. r \in Text /\ Len(r) = Len(t)
  <2>1. \A k \in 1 .. Len(t) : r[k] \in Characters
    BY <1>1, <1>5 DEF Characters
  <2>2. r = [k \in 1 .. Len(t) |-> r[k]]
    BY <1>2 DEF r
  <2> QED
    BY <1>1, <2>1, <2>2 DEF Text
<1> QED
  BY <1>3, <1>4, <1>5, <1>6 DEF r

(* Outside of them the text stays. *)
LEMMA RedactOneElsewhere ==
    ASSUME NEW t \in Text, NEW s, s.text \in Text, s.tail \in BOOLEAN, NEW k \in 1 .. Len(t),
           \A i, j : Replaces(t, s.text, i, j) => k \notin i .. j
    PROVE  RedactOne(t, s)[k] = t[k]
BY RedactOneIs

-----------------------------------------------------------------------------
(* Covers(r, t): r is t, but for characters that are masked. *)

Covers(r, t) ==
    /\ r \in Text /\ Len(r) = Len(t)
    /\ \A k \in 1 .. Len(t) : r[k] \in {t[k], MASK_CHAR}

(* A text masked twice is masked. *)
LEMMA CoversMore ==
    ASSUME NEW t \in Text, NEW r, NEW q, Covers(r, t), Covers(q, r)
    PROVE  Covers(q, t)
  BY DEF Covers

(* Masking brings no plain value about. *)
LEMMA FoundBefore ==
    ASSUME NEW t \in Text, NEW r, Covers(r, t), NEW v \in Text, Plain(v),
           NEW i, NEW j, Finds(r, v, i, j)
    PROVE  Finds(t, v, i, j) /\ \A k \in i .. j : r[k] = t[k]
<1>1. /\ Len(t) \in Nat /\ Len(r) = Len(t) /\ r \in Text
      /\ i \in 1 .. Len(t) /\ j \in 1 .. Len(t) /\ i <= j /\ r[i] # Space /\ r[j] # Space
  BY DEF Covers, Finds, Stretch, Text
<1>2. \A k \in i .. j : r[k] # MASK_CHAR
  BY <1>1, FoundIsPlain
<1>3. \A k \in i .. j : r[k] = t[k] /\ k \in 1 .. Len(t)
  BY <1>1, <1>2 DEF Covers
<1>4. Stretch(t, i, j)
  BY <1>1, <1>3 DEF Stretch
<1>5. SubSeq(r, i, j) = SubSeq(t, i, j)
  <2>1. /\ SubSeq(t, i, j) \in Text /\ Len(SubSeq(t, i, j)) = j - i + 1
        /\ \A k \in 1 .. j - i + 1 : SubSeq(t, i, j)[k] = t[i + k - 1]
    BY <1>1, PartIs
  <2>2. /\ SubSeq(r, i, j) \in Text /\ Len(SubSeq(r, i, j)) = j - i + 1
        /\ \A k \in 1 .. j - i + 1 : SubSeq(r, i, j)[k] = r[i + k - 1]
    BY <1>1, PartIs
  <2>3. ASSUME NEW k \in 1 .. j - i + 1
        PROVE  SubSeq(r, i, j)[k] = SubSeq(t, i, j)[k]
    <3>1. i + k - 1 \in i .. j
      BY <1>1
    <3> QED
      BY <1>3, <2>1, <2>2, <3>1
  <2>4. j - i + 1 \in Nat
    BY <1>1
  <2> QED
    BY <2>1, <2>2, <2>3, <2>4, SameText
<1> QED
  BY <1>3, <1>4, <1>5 DEF Finds

(* Replacing one secret masks the text. *)
LEMMA RedactOneCovers ==
    ASSUME NEW t \in Text, NEW s, s.text \in Text, s.tail \in BOOLEAN
    PROVE  Covers(RedactOne(t, s), t)
  BY RedactOneIs DEF Covers

(* Where a value has a letter, what is found of it has one. *)
LEMMA FoundHasLetter ==
    ASSUME NEW t \in Text, NEW v \in Text, NEW i, NEW j, Finds(t, v, i, j), LettersOf(v) # {}
    PROVE  LettersOf(SubSeq(t, i, j)) # {}
<1> DEFINE s == SubSeq(t, i, j)
<1>1. s \in Text
  BY PartIs DEF Finds, Stretch
<1>2. PICK l \in LettersOf(v) : TRUE
  OBVIOUS
<1>3. l \in 1 .. Len(v) /\ v[l] \in Letters /\ v[l] # Space
  BY EvidenceAssumption DEF LettersOf, Text
<1>4. l \in Kept(v)
  BY <1>3, OthersAreKept
<1>5. At(v, l) \in 1 .. Len(Normalise(v)) /\ Normalise(v)[At(v, l)] = v[l]
  BY <1>4, KeptAt
<1>6. Normalise(s) = Normalise(v) /\ Len(Normalise(s)) = At(s, Len(s)) /\ Len(s) \in 0 .. Len(s)
  <2>1. Normalise(s) = Normalise(v)
    BY DEF Finds
  <2> HIDE DEF s
  <2>2. Len(Normalise(s)) = At(s, Len(s)) /\ Len(s) \in Nat
    BY <1>1, AtIs DEF Text
  <2> QED
    BY <2>1, <2>2
<1> HIDE DEF s
<1>7. PICK k \in Kept(s) : At(s, k) = At(v, l)
  BY <1>1, <1>5, <1>6, AtReaches
<1>8. k \in 1 .. Len(s) /\ s[k] = v[l]
  BY <1>1, <1>5, <1>6, <1>7, KeptAt
<1>9. k \in LettersOf(s)
  BY <1>1, <1>3, <1>8 DEF LettersOf, Text
<1> QED
  BY <1>9 DEF s

(* The second of two occurrences that overlap may keep something. *)
MayEscape(v, tail) ==
    OverlapsItself(Normalise(v)) /\ (tail \/ Normalise(v)[1] \notin Letters)

(* Once a value is replaced it is not found any more. *)
LEMMA RedactOneScrubs ==
    ASSUME NEW t \in Text, NEW s, s.text \in Text, s.tail \in BOOLEAN, Plain(s.text),
           LettersOf(s.text) # {}, ~MayEscape(s.text, s.tail), NEW i, NEW j
    PROVE  ~Finds(RedactOne(t, s), s.text, i, j)
<1> DEFINE r == RedactOne(t, s)
           v == s.text
<1> SUFFICES ASSUME Finds(r, v, i, j) PROVE FALSE
  OBVIOUS
<1>1. /\ Covers(r, t) /\ r \in Text /\ v \in Text
      /\ Finds(t, v, i, j) /\ \A k \in i .. j : r[k] = t[k]
  <2>1. Covers(r, t)
    BY RedactOneCovers
  <2> HIDE DEF r
  <2> QED
    BY <2>1, FoundBefore DEF Covers
<1>2. /\ Len(t) \in Nat /\ i \in 1 .. Len(t) /\ j \in 1 .. Len(t) /\ i <= j
      /\ t[i] # Space
  BY <1>1 DEF Finds, Stretch, Text
<1>3. \A k \in i .. j : r[k] # MASK_CHAR
  BY <1>1, FoundIsPlain
<1>4. CASE Replaces(t, v, i, j)
  <2> DEFINE x == SubSeq(t, i, j)
  <2>1. x \in Text /\ Len(x) = j - i + 1 /\ LettersOf(x) # {}
    BY <1>1, <1>2, PartIs, FoundHasLetter
  <2> HIDE DEF x
  <2>2. PICK k \in LettersOf(x) : MaskValue(x, s.tail)[k] = MASK_CHAR
    BY <2>1, MaskHides
  <2>3. k \in 1 .. j - i + 1
    BY <2>1, LettersAreFinite
  <2> DEFINE m == i + k - 1
  <2>4. m \in i .. j /\ m - i + 1 = k
    BY <1>2, <2>3
  <2> HIDE DEF m
  <2>5. r[m] = MaskValue(x, s.tail)[m - i + 1]
    BY <1>4, <2>4, RedactOneIs DEF x
  <2> QED
    BY <1>3, <2>2, <2>4, <2>5
<1>5. ASSUME NEW k, NEW l, Replaces(t, v, k, l), k < i, i <= l
      PROVE  FALSE
  <2>1. OverlapsItself(Normalise(v))
    BY <1>1, <1>5, FoundInside DEF Replaces
  <2>2. ~s.tail /\ s.tail = FALSE /\ Normalise(v)[1] \in Letters
    BY <2>1 DEF MayEscape
  <2>3. t[i] = Normalise(v)[1]
    <3> DEFINE y == SubSeq(t, i, j)
    <3>1. /\ y \in Text /\ Len(y) = j - i + 1 /\ y[1] = t[i] /\ 1 \in 1 .. Len(y)
      <4>1. 1 \in 1 .. j - i + 1 /\ i + 1 - 1 = i
        BY <1>2
      <4> QED
        BY <1>2, <4>1, PartIs
    <3> HIDE DEF y
    <3>2. 1 \in Kept(y)
      BY <1>2, <3>1, OthersAreKept
    <3>3. At(y, 1) = 1
      <4>1. At(y, 1) = At(y, 1 - 1) + 1 /\ 1 - 1 = 0 /\ At(y, 0) = 0
        BY <3>1, <3>2, KeptAt, AtIs
      <4> QED
        BY <4>1
    <3>4. Normalise(y)[1] = y[1]
      BY <3>1, <3>2, <3>3, KeptAt
    <3> QED
      BY <1>1, <3>1, <3>4 DEF Finds, y
  <2> DEFINE x == SubSeq(t, k, l)
             m == i - k + 1
  <2>4. /\ k \in 1 .. Len(t) /\ l \in 1 .. Len(t) /\ k <= l
    BY <1>5 DEF Replaces, Finds, Stretch
  <2>5. m \in 1 .. l - k + 1 /\ k + m - 1 = i /\ i \in k .. l
    BY <1>2, <1>5, <2>4
  <2> HIDE DEF m
  <2>6. x \in Text /\ m \in 1 .. Len(x) /\ x[m] = t[i]
    BY <2>4, <2>5, PartIs
  <2> HIDE DEF x
  <2>7. m \in LettersOf(x)
    BY <2>2, <2>3, <2>6 DEF LettersOf, Text
  <2>8. MaskValue(x, FALSE)[m] = MASK_CHAR
    BY <2>6, <2>7, MaskHidesAll
  <2>9. r[i] = MaskValue(x, s.tail)[m]
    BY <1>5, <2>5, RedactOneIs DEF x, m
  <2>10. i \in i .. j
    BY <1>2
  <2>11. r[i] = MASK_CHAR
    BY <2>2, <2>8, <2>9
  <2> QED
    BY <1>3, <2>10, <2>11
<1> QED
  BY <1>1, <1>4, <1>5, FoundIsReplaced

-----------------------------------------------------------------------------
(* All the values in turn *)

Secret == [text : Text, tail : BOOLEAN]

(* What each secret is. *)
LEMMA SecretIs ==
    ASSUME NEW secrets \in Seq(Secret)
    PROVE  /\ Len(secrets) \in Nat
           /\ \A k \in 1 .. Len(secrets) :
                secrets[k] \in Secret /\ secrets[k].text \in Text /\ secrets[k].tail \in BOOLEAN
<1>1. Len(secrets) \in Nat /\ \A k \in 1 .. Len(secrets) : secrets[k] \in Secret
  OBVIOUS
<1> QED
  BY <1>1 DEF Secret

(* What the recursion of After defines. *)
LEMMA AfterIs ==
    ASSUME NEW t \in Text, NEW secrets \in Seq(Secret)
    PROVE  /\ \A k \in 0 .. Len(secrets) : After(t, secrets)[k] \in Text
           /\ After(t, secrets)[0] = t
           /\ \A k \in 1 .. Len(secrets) :
                After(t, secrets)[k] =
                    IF Normalise(secrets[k].text) = <<>> THEN After(t, secrets)[k - 1]
                    ELSE RedactOne(After(t, secrets)[k - 1], secrets[k])
<1> DEFINE n == Len(secrets)
           Next(k, x) == IF Normalise(secrets[k].text) = <<>> THEN x ELSE RedactOne(x, secrets[k])
           step == [k \in 1 .. n |-> [x \in Text |-> Next(k, x)]]
           g == After(t, secrets)
<1>1. n \in Nat /\ \A k \in 1 .. n : secrets[k].text \in Text /\ secrets[k].tail \in BOOLEAN
  BY SecretIs
<1>2. \A k \in 1 .. n : \A x \in Text : Next(k, x) \in Text
  BY <1>1, RedactOneIs
<1>3. step \in Steps(n, Text)
  BY <1>2 DEF Steps
<1>4. \A k \in 1 .. n : \A x \in Text : step[k][x] = Next(k, x)
  OBVIOUS
<1> HIDE DEF step, Next, n
<1>5. PICK f : Follows(f, n, Text, t, step)
  BY <1>1, <1>3, Recursion
<1>6. /\ f = [k \in 0 .. n |-> f[k]] /\ f[0] = t
      /\ \A k \in 1 .. n : f[k] = Next(k, f[k - 1])
  BY <1>1, <1>4, <1>5 DEF Follows
<1>7. f = [k \in 0 .. n |-> IF k = 0 THEN t
                            ELSE IF Normalise(secrets[k].text) = <<>> THEN f[k - 1]
                            ELSE RedactOne(f[k - 1], secrets[k])]
  <2>1. \A k \in 0 .. n : k = 0 \/ k \in 1 .. n
    BY <1>1
  <2>2. \A k \in 0 .. n : f[k] = IF k = 0 THEN t ELSE Next(k, f[k - 1])
    BY <1>6, <2>1
  <2> QED
    BY <1>6, <2>2 DEF Next
<1>8. g = [k \in 0 .. n |-> IF k = 0 THEN t
                            ELSE IF Normalise(secrets[k].text) = <<>> THEN g[k - 1]
                            ELSE RedactOne(g[k - 1], secrets[k])]
  BY <1>7 DEF After, n
<1> HIDE DEF g
<1>9. g[0] = t /\ \A k \in 1 .. n : g[k] = Next(k, g[k - 1])
  BY <1>1, <1>8 DEF Next
<1> DEFINE S == {k \in Nat : k <= n => g[k] \in Text}
<1>10. 0 \in S
  BY <1>9
<1>11. ASSUME NEW k \in Nat, k \in S
       PROVE  k + 1 \in S
  <2>1. CASE k + 1 <= n
    <3>1. k + 1 \in 1 .. n /\ (k + 1) - 1 = k /\ g[k] \in Text
      BY <1>1, <1>11, <2>1
    <3>2. g[k + 1] = Next(k + 1, g[k])
      BY <1>9, <3>1
    <3> QED
      BY <1>2, <3>1, <3>2
  <2> QED
    BY <1>1, <2>1
<1> HIDE DEF S
<1>12. Nat \subseteq S
  BY <1>10, <1>11, SetInduction
<1>13. \A k \in 0 .. n : g[k] \in Text
  BY <1>1, <1>12 DEF S
<1> QED
  BY <1>9, <1>13 DEF g, n, Next

(* A text with nothing masked. *)
LEMMA CoversItself ==
    ASSUME NEW t \in Text
    PROVE  Covers(t, t)
  BY DEF Covers

(* Each secret in turn masks the text that those before it left. *)
LEMMA AfterCovers ==
    ASSUME NEW t \in Text, NEW secrets \in Seq(Secret),
           NEW k \in 0 .. Len(secrets), NEW l \in 0 .. Len(secrets), k <= l
    PROVE  Covers(After(t, secrets)[l], After(t, secrets)[k])
<1> DEFINE g == After(t, secrets)
           n == Len(secrets)
           S == {d \in Nat : k + d <= n => Covers(g[k + d], g[k])}
<1>1. n \in Nat /\ \A i \in 0 .. n : g[i] \in Text
  BY AfterIs, SecretIs
<1>2. ASSUME NEW i \in 1 .. n
      PROVE  Covers(g[i], g[i - 1])
  <2>1. i - 1 \in 0 .. n
    BY <1>1
  <2>2. g[i - 1] \in Text /\ secrets[i].text \in Text /\ secrets[i].tail \in BOOLEAN
    BY <1>1, <2>1, SecretIs
  <2>3. g[i] = IF Normalise(secrets[i].text) = <<>> THEN g[i - 1]
               ELSE RedactOne(g[i - 1], secrets[i])
    BY AfterIs
  <2> HIDE DEF g
  <2> QED
    BY <2>2, <2>3, CoversItself, RedactOneCovers
<1> HIDE DEF g, n
<1>3. 0 \in S
  BY <1>1, CoversItself DEF n
<1>4. ASSUME NEW d \in Nat, d \in S
      PROVE  d + 1 \in S
  <2>1. CASE k + (d + 1) <= n
    <3> DEFINE i == k + (d + 1)
    <3>1. i \in 1 .. n /\ i - 1 = k + d /\ k + d <= n /\ k \in 0 .. n
      BY <1>1, <2>1 DEF n
    <3> HIDE DEF i
    <3>2. Covers(g[i], g[i - 1]) /\ Covers(g[i - 1], g[k]) /\ g[k] \in Text
      BY <1>1, <1>2, <1>4, <3>1
    <3>3. Covers(g[i], g[k])
      BY <3>2, CoversMore
    <3> QED
      BY <3>3 DEF i
  <2> QED
    BY <2>1
<1> HIDE DEF S
<1>5. l - k \in Nat /\ k + (l - k) = l /\ l <= n
  BY <1>1 DEF n
<1>6. l - k \in S
  BY <1>3, <1>4, <1>5, SetInduction
<1>7. Covers(g[k + (l - k)], g[k])
  BY <1>5, <1>6 DEF S
<1> QED
  BY <1>5, <1>7 DEF g

(* So do all of them. *)
LEMMA RedactIs ==
    ASSUME NEW t \in Text, t # NULL, NEW secrets \in Seq(Secret)
    PROVE  Redact(t, secrets) \in Text /\ Covers(Redact(t, secrets), t)
<1>1. 0 \in 0 .. Len(secrets) /\ Len(secrets) \in 0 .. Len(secrets) /\ 0 <= Len(secrets)
  OBVIOUS
<1>2. After(t, secrets)[0] = t /\ Covers(After(t, secrets)[Len(secrets)], After(t, secrets)[0])
  BY <1>1, AfterIs, AfterCovers
<1> QED
  BY <1>2 DEF Redact, Covers

(* A text with letters is not of spaces alone. *)
LEMMA LettersAreNormal ==
    ASSUME NEW v \in Text, LettersOf(v) # {}
    PROVE  Normalise(v) # <<>>
<1>1. PICK l \in LettersOf(v) : TRUE
  OBVIOUS
<1>2. l \in 1 .. Len(v) /\ v[l] # Space
  BY EvidenceAssumption DEF LettersOf, Text
<1>3. At(v, l) \in 1 .. Len(Normalise(v)) /\ Normalise(v) \in Text
  BY <1>2, OthersAreKept, KeptAt, AtIs
<1> QED
  BY <1>3

(* A text that has been redacted quotes none of the values. *)
LEMMA RedactScrubs ==
    ASSUME NEW t \in Text, t # NULL, NEW secrets \in Seq(Secret),
           NEW k \in 1 .. Len(secrets), Plain(secrets[k].text), LettersOf(secrets[k].text) # {},
           ~MayEscape(secrets[k].text, secrets[k].tail)
    PROVE  ~Quoting(Redact(t, secrets), secrets[k].text)
<1> DEFINE g == After(t, secrets)
           n == Len(secrets)
           s == secrets[k]
           v == s.text
<1>1. /\ n \in Nat /\ k - 1 \in 0 .. n /\ k \in 0 .. n /\ n \in 0 .. n /\ k <= n
  BY SecretIs
<1>2. v \in Text /\ s.tail \in BOOLEAN /\ Normalise(v) # <<>> /\ Plain(v)
      /\ LettersOf(v) # {} /\ ~MayEscape(v, s.tail)
  BY SecretIs, LettersAreNormal
<1>3. /\ g[k - 1] \in Text /\ g[k] \in Text /\ g[n] \in Text
      /\ g[k] = RedactOne(g[k - 1], s)
  BY <1>1, <1>2, AfterIs
<1>4. Covers(g[n], g[k])
  BY <1>1, AfterCovers
<1>5. Redact(t, secrets) = g[n]
  BY DEF Redact
<1> HIDE DEF g, n, s, v
<1> SUFFICES ASSUME Quoting(g[n], v) PROVE FALSE
  BY <1>5 DEF s, v
<1>6. PICK i, j : Finds(g[n], v, i, j)
  BY <1>2, <1>3, QuoteIsFound
<1>7. Finds(g[k], v, i, j)
  BY <1>2, <1>3, <1>4, <1>6, FoundBefore
<1>8. ~Finds(RedactOne(g[k - 1], s), s.text, i, j)
  BY <1>2, <1>3, RedactOneScrubs DEF v
<1> QED
  BY <1>3, <1>7, <1>8 DEF v

-----------------------------------------------------------------------------
(* The order of the values *)

(* There are finitely many fields, and each has a place in the schema. *)
LEMMA FieldsAre ==
    /\ IsFiniteSet(Fields)
    /\ \A f \in Fields : \E i \in DOMAIN FieldOrder : FieldOrder[i] = f
<1>1. FieldOrder \in Seq(Fields) /\ Len(FieldOrder) \in Nat
      /\ DOMAIN FieldOrder = 1 .. Len(FieldOrder)
  BY EvidenceAssumption
<1>2. \A f \in Fields : \E i \in DOMAIN FieldOrder : FieldOrder[i] = f
  BY DEF Fields, ToSet
<1>3. FieldOrder \in Surjection(1 .. Len(FieldOrder), Fields)
  BY <1>1, <1>2 DEF Surjection
<1>4. IsFiniteSet(1 .. Len(FieldOrder))
  BY <1>1, FS_Interval
<1> QED
  BY <1>2, <1>3, <1>4, FS_Surjection

(* What is extracted, of a text or None. *)
Extracted == [Fields -> [value : Text \cup {NULL}, snippet : Text \cup {NULL},
                         verified : BOOLEAN \cup {NULL}]]

(* The tagged fields with a value, and that they can be counted. *)
LEMMA TaggedAre ==
    ASSUME NEW ex \in Extracted
    PROVE  /\ IsFiniteSet(Tagged(ex)) /\ Cardinality(Tagged(ex)) \in Nat
           /\ \A f \in Tagged(ex) : /\ f \in Fields /\ f \in Sensitive
                                    /\ ex[f].value \in Text /\ ex[f].value # NULL
                                    /\ Len(ex[f].value) \in Nat
<1>1. Tagged(ex) \subseteq Fields /\ Tagged(ex) \subseteq Sensitive
  BY EvidenceAssumption DEF Tagged
<1>2. IsFiniteSet(Tagged(ex)) /\ Cardinality(Tagged(ex)) \in Nat
  BY <1>1, FieldsAre, FS_Subset, FS_CardinalityType
<1>3. ASSUME NEW f \in Tagged(ex)
      PROVE  ex[f].value \in Text /\ ex[f].value # NULL
  <2>1. ex[f].value \in Text \cup {NULL} /\ ex[f].value # NULL
    BY <1>1 DEF Extracted, Tagged, Truthy
  <2> QED
    BY <2>1
<1>4. \A f \in Tagged(ex) : Len(ex[f].value) \in Nat
  BY <1>3 DEF Text
<1> QED
  BY <1>1, <1>2, <1>3, <1>4

(* Before is a strict total order of the tagged fields. *)
LEMMA BeforeIsOrder ==
    ASSUME NEW ex \in Extracted
    PROVE  /\ \A f \in Tagged(ex) : ~Before(ex, f, f)
           /\ \A f, g \in Tagged(ex) : f = g \/ Before(ex, f, g) \/ Before(ex, g, f)
           /\ \A f, g, h \in Tagged(ex) :
                Before(ex, f, g) /\ Before(ex, g, h) => Before(ex, f, h)
           /\ \A f, g \in Tagged(ex) :
                Before(ex, f, g) => Len(ex[f].value) >= Len(ex[g].value)
<1> DEFINE Sooner(f, g) == \E i, j \in DOMAIN FieldOrder :
                              i < j /\ FieldOrder[i] = f /\ FieldOrder[j] = g
           L(f) == Len(ex[f].value)
<1>1. DOMAIN FieldOrder \subseteq Nat
      /\ \A i, j \in DOMAIN FieldOrder : FieldOrder[i] = FieldOrder[j] => i = j
  <2>1. FieldOrder \in Seq(Fields)
    BY EvidenceAssumption
  <2>2. DOMAIN FieldOrder = 1 .. Len(FieldOrder) /\ Len(FieldOrder) \in Nat
    BY <2>1
  <2> QED
    BY <2>2, EvidenceAssumption
<1>2. \A f \in Tagged(ex) : L(f) \in Nat /\ \E i \in DOMAIN FieldOrder : FieldOrder[i] = f
  BY TaggedAre, FieldsAre
<1>3. \A f : ~Sooner(f, f)
  BY <1>1
<1>4. \A f, g, h : Sooner(f, g) /\ Sooner(g, h) => Sooner(f, h)
  <2> SUFFICES ASSUME NEW f, NEW g, NEW h, Sooner(f, g), Sooner(g, h)
               PROVE  Sooner(f, h)
    OBVIOUS
  <2>1. PICK i, j \in DOMAIN FieldOrder : i < j /\ FieldOrder[i] = f /\ FieldOrder[j] = g
    OBVIOUS
  <2>2. PICK k, l \in DOMAIN FieldOrder : k < l /\ FieldOrder[k] = g /\ FieldOrder[l] = h
    OBVIOUS
  <2>3. j = k
    BY <1>1, <2>1, <2>2
  <2>4. i < l
    BY <1>1, <2>1, <2>2, <2>3
  <2> QED
    BY <2>1, <2>2, <2>4
<1>5. \A f, g \in Tagged(ex) : f = g \/ Sooner(f, g) \/ Sooner(g, f)
  BY <1>1, <1>2
<1>6. \A f, g : Before(ex, f, g) <=> L(f) > L(g) \/ (L(f) = L(g) /\ Sooner(f, g))
  BY DEF Before
<1> HIDE DEF L, Sooner
<1>7. \A f \in Tagged(ex) : ~Before(ex, f, f)
  BY <1>2, <1>3, <1>6
<1>8. \A f, g \in Tagged(ex) : f = g \/ Before(ex, f, g) \/ Before(ex, g, f)
  BY <1>2, <1>5, <1>6
<1>9. \A f, g, h \in Tagged(ex) : Before(ex, f, g) /\ Before(ex, g, h) => Before(ex, f, h)
  BY <1>2, <1>4, <1>6
<1>10. \A f, g \in Tagged(ex) : Before(ex, f, g) => L(f) >= L(g)
  BY <1>2, <1>6
<1> QED
  BY <1>7, <1>8, <1>9, <1>10 DEF L

(* The tagged fields each have a place, in the order of Before. *)
LEMMA SortedFieldsAre ==
    ASSUME NEW ex \in Extracted
    PROVE  LET n == Cardinality(Tagged(ex))
               sorted == SortedFields(ex)
           IN  /\ DOMAIN sorted = 1 .. n
               /\ \A k \in 1 .. n : sorted[k] \in Tagged(ex)
               /\ \A f \in Tagged(ex) : \E k \in 1 .. n : sorted[k] = f
               /\ \A k, l \in 1 .. n :
                    k < l => Len(ex[sorted[k]].value) >= Len(ex[sorted[l]].value)
<1> DEFINE S == Tagged(ex)
           n == Cardinality(S)
           below(f) == {g \in S : Before(ex, g, f)}
           rank == [f \in S |-> Cardinality(below(f))]
           sorted == SortedFields(ex)
<1>1. IsFiniteSet(S) /\ n \in Nat
  BY TaggedAre
<1>2. \A f \in S : /\ IsFiniteSet(below(f)) /\ Cardinality(below(f)) \in Nat
                   /\ f \notin below(f)
  <2>1. \A f \in S : below(f) \in SUBSET S
    OBVIOUS
  <2> QED
    BY <1>1, <2>1, FS_Subset, FS_CardinalityType, BeforeIsOrder
<1>3. ASSUME NEW f \in S
      PROVE  Cardinality(below(f)) \in 0 .. n - 1
  <2>1. below(f) \in SUBSET (S \ {f})
    BY <1>2
  <2>2. IsFiniteSet(S \ {f}) /\ Cardinality(S \ {f}) = n - 1
    BY <1>1, FS_RemoveElement
  <2>3. Cardinality(below(f)) <= n - 1
    BY <2>1, <2>2, FS_Subset
  <2> QED
    BY <1>1, <1>2, <2>3
<1>4. ASSUME NEW f \in S, NEW g \in S, Before(ex, f, g)
      PROVE  Cardinality(below(f)) < Cardinality(below(g))
  <2>1. below(f) \cup {f} \in SUBSET below(g)
    BY <1>4, BeforeIsOrder
  <2>2. Cardinality(below(f) \cup {f}) = Cardinality(below(f)) + 1
    BY <1>2, FS_AddElement
  <2>3. Cardinality(below(f) \cup {f}) <= Cardinality(below(g))
    BY <1>2, <2>1, FS_Subset
  <2> QED
    BY <1>2, <2>2, <2>3
<1> HIDE DEF below
<1>5. /\ rank \in Injection(S, 0 .. n - 1)
      /\ \A f, g \in S : rank[f] = rank[g] => f = g
      /\ \A f \in S : rank[f] = Cardinality(below(f)) /\ rank[f] \in 0 .. n - 1
  <2>1. rank \in [S -> 0 .. n - 1]
    BY <1>3
  <2>2. \A f, g \in S : rank[f] = rank[g] => f = g
    BY <1>2, <1>4, BeforeIsOrder
  <2>3. \A f \in S : rank[f] = Cardinality(below(f))
    OBVIOUS
  <2> HIDE DEF rank, S, n
  <2> QED
    BY <2>1, <2>2, <2>3 DEF Injection, IsInjective
<1>6. IsFiniteSet(0 .. n - 1) /\ Cardinality(0 .. n - 1) = n
  BY <1>1, FS_Interval
<1>7. rank \in Surjection(S, 0 .. n - 1)
  <2> HIDE DEF rank, n, S
  <2>1. Cardinality(S) = Cardinality(0 .. n - 1)
    BY <1>6 DEF n
  <2> QED
    BY <1>5, <1>6, <2>1, FS_Injection
<1>8. \A k \in 1 .. n : \E f \in S : rank[f] = k - 1
  <2>1. \A k \in 1 .. n : k - 1 \in 0 .. n - 1
    BY <1>1
  <2> QED
    BY <1>7, <2>1 DEF Surjection
<1>9. sorted = [k \in 1 .. n |-> CHOOSE f \in S : Cardinality(below(f)) = k - 1]
  BY DEF SortedFields, below
<1> HIDE DEF rank, sorted, S, n
<1>10. \A k \in 1 .. n : sorted[k] \in S /\ rank[sorted[k]] = k - 1
  <2>1. \A k \in 1 .. n : \E f \in S : Cardinality(below(f)) = k - 1
    BY <1>5, <1>8
  <2>2. \A k \in 1 .. n : sorted[k] \in S /\ Cardinality(below(sorted[k])) = k - 1
    BY <1>9, <2>1
  <2> QED
    BY <1>5, <2>2
<1>11. ASSUME NEW f \in S
       PROVE  \E k \in 1 .. n : sorted[k] = f
  <2> DEFINE k == rank[f] + 1
  <2>1. k \in 1 .. n /\ k - 1 = rank[f]
    <3>1. rank[f] \in 0 .. n - 1
      BY <1>5
    <3> QED
      BY <1>1, <3>1
  <2> HIDE DEF k
  <2>2. sorted[k] \in S /\ rank[sorted[k]] = rank[f]
    BY <1>10, <2>1
  <2>3. sorted[k] = f
    BY <1>5, <2>2
  <2> QED
    BY <2>1, <2>3
<1>12. ASSUME NEW k \in 1 .. n, NEW l \in 1 .. n, k < l
       PROVE  Len(ex[sorted[k]].value) >= Len(ex[sorted[l]].value)
  <2> DEFINE f == sorted[k]
             g == sorted[l]
  <2>1. f \in S /\ g \in S /\ rank[f] < rank[g]
    BY <1>1, <1>10, <1>12
  <2>2. rank[f] = Cardinality(below(f)) /\ rank[g] = Cardinality(below(g))
    BY <1>5, <2>1
  <2> HIDE DEF f, g
  <2>3. Before(ex, f, g)
    <3>1. f # g /\ ~Before(ex, g, f)
      BY <1>2, <1>4, <2>1, <2>2
    <3> QED
      BY <2>1, <3>1, BeforeIsOrder DEF S
  <2> QED
    BY <2>1, <2>3, BeforeIsOrder DEF S, f, g
<1> QED
  BY <1>9, <1>10, <1>11, <1>12 DEF sorted, S, n

(* The secrets are those fields' values and tails, the longest first. *)
LEMMA SecretsAre ==
    ASSUME NEW ex \in Extracted
    PROVE  LET secrets == Secrets(ex)
               n == Len(secrets)
           IN  /\ secrets \in Seq(Secret)
               /\ \A k \in 1 .. n : \E f \in Tagged(ex) :
                    secrets[k].text = ex[f].value /\ secrets[k].tail = (f \in TailAllowed)
               /\ \A f \in Tagged(ex) : \E k \in 1 .. n :
                    secrets[k].text = ex[f].value /\ secrets[k].tail = (f \in TailAllowed)
               /\ \A k, l \in 1 .. n : k < l => Len(secrets[k].text) >= Len(secrets[l].text)
<1> DEFINE sorted == SortedFields(ex)
           n == Cardinality(Tagged(ex))
           secrets == Secrets(ex)
           entry(f) == [text |-> ex[f].value, tail |-> f \in TailAllowed]
<1>1. /\ n \in Nat /\ DOMAIN sorted = 1 .. n
      /\ \A k \in 1 .. n : sorted[k] \in Tagged(ex)
      /\ \A f \in Tagged(ex) : \E k \in 1 .. n : sorted[k] = f
      /\ \A k, l \in 1 .. n :
            k < l => Len(ex[sorted[k]].value) >= Len(ex[sorted[l]].value)
  BY SortedFieldsAre, TaggedAre
<1>2. \A f \in Tagged(ex) : entry(f) \in Secret
  BY TaggedAre DEF Secret
<1>3. secrets = [k \in 1 .. n |-> entry(sorted[k])]
  BY <1>1 DEF Secrets
<1>4. \A f : entry(f).text = ex[f].value /\ entry(f).tail = (f \in TailAllowed)
  OBVIOUS
<1> HIDE DEF sorted, n, secrets, entry
<1>5. secrets \in Seq(Secret) /\ Len(secrets) = n
  BY <1>1, <1>2, <1>3
<1>6. \A k \in 1 .. n : secrets[k] = entry(sorted[k])
  BY <1>3
<1>7. \A k \in 1 .. n : \E f \in Tagged(ex) :
         secrets[k].text = ex[f].value /\ secrets[k].tail = (f \in TailAllowed)
  BY <1>1, <1>4, <1>6
<1>8. ASSUME NEW f \in Tagged(ex)
      PROVE  \E k \in 1 .. n :
               secrets[k].text = ex[f].value /\ secrets[k].tail = (f \in TailAllowed)
  <2>1. PICK k \in 1 .. n : sorted[k] = f
    BY <1>1
  <2> QED
    BY <1>4, <1>6, <2>1
<1>9. ASSUME NEW k \in 1 .. n, NEW l \in 1 .. n, k < l
      PROVE  Len(secrets[k].text) >= Len(secrets[l].text)
  BY <1>1, <1>4, <1>6, <1>9
<1> QED
  BY <1>5, <1>7, <1>8, <1>9 DEF secrets

-----------------------------------------------------------------------------
(* What is left where the longer values were masked first *)

(* A text has the letters of its normal form. *)
LEMMA NormalLetters ==
    ASSUME NEW t \in Text
    PROVE  Cardinality(LettersOf(t)) = Cardinality(LettersOf(Normalise(t)))
<1> DEFINE N == Normalise(t)
           A == LettersOf(t)
           B == LettersOf(N)
           place == [k \in A |-> At(t, k)]
<1>1. N \in Text /\ Len(N) \in Nat /\ Len(N) = At(t, Len(t)) /\ Len(t) \in 0 .. Len(t)
      /\ Len(t) \in Nat
  BY AtIs DEF Text
<1>2. \A k \in A : /\ k \in 1 .. Len(t) /\ k \in Kept(t) /\ t[k] \in Letters
                   /\ At(t, k) \in 1 .. Len(N) /\ N[At(t, k)] = t[k]
  <2>1. \A k \in A : k \in 1 .. Len(t) /\ t[k] \in Letters /\ t[k] # Space
    BY EvidenceAssumption DEF LettersOf, Text
  <2> HIDE DEF A
  <2> QED
    BY <2>1, OthersAreKept, KeptAt
<1>3. \A k \in A : At(t, k) \in B
  BY <1>1, <1>2 DEF LettersOf, Text
<1>4. \A k, l \in A : At(t, k) = At(t, l) => k = l
  <2> SUFFICES ASSUME NEW k \in A, NEW l \in A, At(t, k) = At(t, l)
               PROVE  k = l
    OBVIOUS
  <2>1. /\ k \in 0 .. Len(t) /\ l \in 0 .. Len(t) /\ k \in Kept(t) /\ l \in Kept(t)
        /\ At(t, k) \in Int /\ At(t, l) \in Int /\ k \in Int /\ l \in Int
    BY <1>1, <1>2
  <2>2. ~(k < l) /\ ~(l < k)
    BY <2>1, AtIsStrict
  <2> QED
    BY <2>1, <2>2
<1>5. \A m \in B : \E k \in A : At(t, k) = m
  <2> SUFFICES ASSUME NEW m \in B
               PROVE  \E k \in A : At(t, k) = m
    OBVIOUS
  <2>1. m \in 1 .. Len(N) /\ N[m] \in Letters
    BY <1>1 DEF LettersOf, Text
  <2>2. PICK k \in Kept(t) : At(t, k) = m
    BY <1>1, <2>1, AtReaches
  <2>3. k \in 1 .. Len(t) /\ t[k] \in Letters
    BY <2>1, <2>2, KeptAt
  <2>4. k \in A
    BY <2>3 DEF LettersOf, Text
  <2> QED
    BY <2>2, <2>4
<1> HIDE DEF A, B, N
<1>6. place \in Injection(A, B) /\ place \in Surjection(A, B)
  BY <1>3, <1>4, <1>5 DEF Injection, IsInjective, Surjection
<1>7. IsFiniteSet(B)
  <2>1. B \in SUBSET LettersOf(N)
    BY DEF B
  <2> QED
    BY <1>1, <2>1, LettersAreFinite
<1>8. Cardinality(A) = Cardinality(B)
  BY <1>6, <1>7, FS_Injection
<1> QED
  BY <1>8 DEF A, B, N

(* Finding a value depends on the stretch alone. *)
LEMMA SameStretch ==
    ASSUME NEW t \in Text, NEW r \in Text, Len(r) = Len(t), NEW v, NEW i, NEW j,
           Finds(t, v, i, j), \A k \in i .. j : r[k] = t[k]
    PROVE  SubSeq(r, i, j) = SubSeq(t, i, j) /\ Finds(r, v, i, j)
<1>1. /\ Len(t) \in Nat /\ i \in 1 .. Len(t) /\ j \in 1 .. Len(t) /\ i <= j
      /\ t[i] # Space /\ t[j] # Space /\ i \in i .. j /\ j \in i .. j
  BY DEF Finds, Stretch, Text
<1>2. Stretch(r, i, j)
  BY <1>1 DEF Stretch
<1>3. /\ SubSeq(t, i, j) \in Text /\ Len(SubSeq(t, i, j)) = j - i + 1
      /\ \A k \in 1 .. j - i + 1 : SubSeq(t, i, j)[k] = t[i + k - 1]
  BY <1>1, PartIs
<1>4. /\ SubSeq(r, i, j) \in Text /\ Len(SubSeq(r, i, j)) = j - i + 1
      /\ \A k \in 1 .. j - i + 1 : SubSeq(r, i, j)[k] = r[i + k - 1]
  BY <1>1, PartIs
<1>5. ASSUME NEW k \in 1 .. j - i + 1
      PROVE  SubSeq(r, i, j)[k] = SubSeq(t, i, j)[k]
  <2>1. i + k - 1 \in i .. j
    BY <1>1
  <2> QED
    BY <1>3, <1>4, <2>1
<1>6. SubSeq(r, i, j) = SubSeq(t, i, j)
  <2>1. j - i + 1 \in Nat
    BY <1>1
  <2> QED
    BY <1>3, <1>4, <1>5, <2>1, SameText
<1> QED
  BY <1>2, <1>6 DEF Finds

(* A value that no earlier one touches is masked as it stands. *)
LEMMA UntouchedUntil ==
    ASSUME NEW t \in Text, NEW secrets \in Seq(Secret), NEW k \in 1 .. Len(secrets),
           NEW i, NEW j, Stretch(t, i, j),
           \A l \in 1 .. k - 1 :
              /\ Plain(secrets[l].text)
              /\ \A p, q : Finds(t, secrets[l].text, p, q) => q < i \/ j < p
    PROVE  \A m \in i .. j : After(t, secrets)[k - 1][m] = t[m]
<1> DEFINE g == After(t, secrets)
           n == Len(secrets)
           S == {l \in Nat : l <= k - 1 => \A m \in i .. j : g[l][m] = t[m]}
<1>1. /\ Len(t) \in Nat /\ i \in 1 .. Len(t) /\ j \in 1 .. Len(t) /\ i <= j
      /\ n \in Nat /\ k \in 1 .. n
  BY SecretIs DEF Stretch, Text
<1>2. 0 \in S
  BY AfterIs
<1>3. ASSUME NEW l \in Nat, l \in S, l + 1 <= k - 1, NEW m \in i .. j
      PROVE  g[l + 1][m] = t[m]
  <2> DEFINE w == secrets[l + 1].text
             s == secrets[l + 1]
  <2>1. /\ l + 1 \in 1 .. n /\ l + 1 \in 1 .. k - 1 /\ l \in 0 .. n /\ (l + 1) - 1 = l
        /\ 0 \in 0 .. n /\ 0 <= l
    BY <1>1, <1>3
  <2>2. /\ s.text \in Text /\ s.tail \in BOOLEAN /\ s.text = w
        /\ Plain(w) /\ \A p, q : Finds(t, w, p, q) => q < i \/ j < p
    BY <2>1, SecretIs
  <2>3. g[l] \in Text /\ Covers(g[l], t)
    <3>1. g[l] \in Text /\ g[0] = t
      BY <2>1, AfterIs
    <3>2. Covers(g[l], g[0])
      BY <2>1, AfterCovers
    <3> QED
      BY <3>1, <3>2
  <2>4. g[l][m] = t[m]
    BY <1>1, <1>3
  <2>5. g[l + 1] = IF Normalise(w) = <<>> THEN g[l] ELSE RedactOne(g[l], s)
    <3> DEFINE a == l + 1
    <3>1. a \in 1 .. n /\ a - 1 = l
      BY <2>1
    <3> HIDE DEF a
    <3>2. g[a] = IF Normalise(secrets[a].text) = <<>> THEN g[a - 1]
                 ELSE RedactOne(g[a - 1], secrets[a])
      BY <3>1, AfterIs
    <3> QED
      BY <3>1, <3>2 DEF a
  <2> HIDE DEF g, s, w
  <2>6. CASE Normalise(w) = <<>>
    BY <2>4, <2>5, <2>6
  <2>7. CASE Normalise(w) # <<>>
    <3>1. m \in 1 .. Len(g[l]) /\ m \in Int
      BY <1>1, <2>3 DEF Covers
    <3>2. \A p, q : Replaces(g[l], s.text, p, q) => m \notin p .. q
      <4> SUFFICES ASSUME NEW p, NEW q, Replaces(g[l], s.text, p, q), m \in p .. q
                   PROVE  FALSE
        OBVIOUS
      <4>1. Finds(t, w, p, q) /\ p \in Int /\ q \in Int
        <5>1. Finds(g[l], w, p, q) /\ w \in Text
          BY <2>2 DEF Replaces
        <5>2. Finds(t, w, p, q)
          BY <2>2, <2>3, <5>1, FoundBefore
        <5> QED
          BY <1>1, <5>2 DEF Finds, Stretch
      <4>2. q < i \/ j < p
        BY <2>2, <4>1
      <4> QED
        BY <1>1, <3>1, <4>1, <4>2
    <3>3. RedactOne(g[l], s)[m] = g[l][m]
      BY <2>2, <2>3, <3>1, <3>2, RedactOneElsewhere
    <3> QED
      BY <2>4, <2>5, <2>7, <3>3
  <2> QED
    BY <2>6, <2>7
<1>4. \A l \in Nat : l \in S => l + 1 \in S
  BY <1>3
<1> HIDE DEF S
<1>5. k - 1 \in S
  BY <1>1, <1>2, <1>4, SetInduction
<1> QED
  BY <1>1, <1>5 DEF S

(* And then no more of it is left than its tail. *)
LEMMA RedactMasksWhole ==
    ASSUME NEW t \in Text, t # NULL, NEW secrets \in Seq(Secret), NEW k \in 1 .. Len(secrets),
           LettersOf(secrets[k].text) # {}, ~OverlapsItself(Normalise(secrets[k].text)),
           NEW i, NEW j, Finds(t, secrets[k].text, i, j),
           \A l \in 1 .. k - 1 :
              /\ Plain(secrets[l].text)
              /\ \A p, q : Finds(t, secrets[l].text, p, q) => q < i \/ j < p
    PROVE  Cardinality({m \in i .. j : Redact(t, secrets)[m] \in Letters})
               <= Shown(secrets[k].text, secrets[k].tail)
<1> DEFINE g == After(t, secrets)
           n == Len(secrets)
           s == secrets[k]
           v == s.text
           r == g[k - 1]
           x == SubSeq(t, i, j)
           mask == MaskValue(x, s.tail)
           R == {m \in i .. j : g[n][m] \in Letters}
<1>1. /\ n \in Nat /\ k - 1 \in 0 .. n /\ k \in 0 .. n /\ n \in 0 .. n /\ k <= n
      /\ 0 \in 0 .. n /\ 0 <= k - 1
      /\ v \in Text /\ s.tail \in BOOLEAN /\ Normalise(v) # <<>>
  BY SecretIs, LettersAreNormal
<1>2. /\ Len(t) \in Nat /\ i \in 1 .. Len(t) /\ j \in 1 .. Len(t) /\ i <= j
      /\ Stretch(t, i, j)
  BY DEF Finds, Stretch, Text
<1>3. r \in Text /\ Covers(r, t) /\ g[k] = RedactOne(r, s) /\ Covers(g[n], g[k])
  <2>1. g[0] = t /\ r \in Text /\ Covers(r, g[0]) /\ Covers(g[n], g[k])
    BY <1>1, AfterIs, AfterCovers
  <2>2. g[k] = RedactOne(r, s)
    BY <1>1, AfterIs
  <2> QED
    BY <2>1, <2>2
<1>4. \A m \in i .. j : r[m] = t[m]
  BY <1>2, UntouchedUntil
<1>5. SubSeq(r, i, j) = x /\ Finds(r, v, i, j)
  <2>1. Len(r) = Len(t) /\ Finds(t, v, i, j)
    BY <1>3 DEF Covers
  <2> HIDE DEF r, v
  <2> QED
    BY <1>3, <1>4, <2>1, SameStretch
<1>6. Redact(t, secrets) = g[n]
  BY DEF Redact
<1> HIDE DEF g, n, s, r
<1>7. Replaces(r, v, i, j)
  <2>1. ASSUME NEW p, NEW q, Replaces(r, v, p, q), p < i, i <= q
        PROVE  FALSE
    <3>1. OverlapsItself(Normalise(v))
      BY <1>1, <1>3, <1>5, <2>1, FoundInside DEF Replaces
    <3> QED
      BY <3>1 DEF s
  <2> HIDE DEF v
  <2> QED
    BY <1>1, <1>3, <1>5, <2>1, FoundIsReplaced
<1>8. x \in Text /\ Len(x) = j - i + 1 /\ mask \in Text /\ Len(mask) = j - i + 1
  <2>1. x \in Text /\ Len(x) = j - i + 1
    BY <1>2, PartIs
  <2> HIDE DEF x
  <2> QED
    BY <1>1, <2>1, MaskIs
<1>9. ASSUME NEW m \in R
      PROVE  m - i + 1 \in LettersOf(mask) /\ m \in Int
  <2>1. m \in i .. j /\ g[n][m] \in Letters
    OBVIOUS
  <2>2. m \in 1 .. Len(t) /\ Len(g[k]) = Len(t) /\ m \in Int /\ m - i + 1 \in 1 .. j - i + 1
    BY <1>1, <1>2, <1>3, <2>1, RedactOneIs DEF Covers
  <2>3. g[n][m] \in {g[k][m], MASK_CHAR}
    BY <1>3, <2>2 DEF Covers
  <2>4. g[k][m] \in Letters
    BY <2>1, <2>3, EvidenceAssumption
  <2>5. g[k][m] = MaskValue(SubSeq(r, i, j), s.tail)[m - i + 1]
    BY <1>1, <1>3, <1>7, <2>1, RedactOneIs
  <2>6. mask[m - i + 1] \in Letters
    BY <1>5, <2>4, <2>5
  <2> HIDE DEF mask
  <2> QED
    BY <1>8, <2>2, <2>6 DEF LettersOf, Text
<1> HIDE DEF R, mask, x, v
<1>10. Cardinality(R) <= Cardinality(LettersOf(mask))
  <2> DEFINE f == [m \in R |-> m - i + 1]
  <2>1. f \in Injection(R, LettersOf(mask))
    <3>1. \A a, b \in R : f[a] = f[b] => a = b
      BY <1>2, <1>9
    <3>2. f \in [R -> LettersOf(mask)]
      BY <1>9
    <3> HIDE DEF f
    <3> QED
      BY <3>1, <3>2 DEF Injection, IsInjective
  <2>2. IsFiniteSet(LettersOf(mask))
    BY <1>8, LettersAreFinite
  <2> HIDE DEF f
  <2> QED
    BY <2>1, <2>2, FS_Injection
<1>11. /\ Cardinality(LettersOf(mask)) <= Shown(x, s.tail)
       /\ Cardinality(LettersOf(mask)) \in Nat /\ Cardinality(R) \in Nat /\ Shown(x, s.tail) \in Nat
  <2>1. Cardinality(LettersOf(mask)) <= Shown(x, s.tail)
    BY <1>1, <1>8, MaskShows DEF mask
  <2>2. Cardinality(LettersOf(mask)) \in Nat
    BY <1>8, LettersAreFinite
  <2>3. IsFiniteSet(R)
    <3>1. R \in SUBSET (i .. j)
      BY DEF R
    <3>2. IsFiniteSet(i .. j)
      BY <1>2, FS_Interval
    <3> QED
      BY <3>1, <3>2, FS_Subset
  <2>4. Shown(x, s.tail) \in Nat
    BY EvidenceAssumption DEF Shown
  <2> QED
    BY <2>1, <2>2, <2>3, <2>4, FS_CardinalityType
<1>12. Shown(x, s.tail) = Shown(v, s.tail)
  <2>1. Normalise(x) = Normalise(v)
    BY <1>5 DEF Finds, x, v
  <2>2. Cardinality(LettersOf(x)) = Cardinality(LettersOf(v))
    BY <1>1, <1>8, <2>1, NormalLetters
  <2> QED
    BY <2>2 DEF Shown
<1> QED
  BY <1>6, <1>10, <1>11, <1>12 DEF R, v, s

-----------------------------------------------------------------------------
(* What masking makes of the fields *)

Optional == Text \cup {NULL}

(* There is a redacted text just where there is a text. *)
LEMMA RedactKeepsType ==
    ASSUME NEW t \in Optional, NEW secrets \in Seq(Secret)
    PROVE  /\ Redact(t, secrets) \in Optional
           /\ t = NULL => Redact(t, secrets) = NULL
           /\ Redact(t, secrets) # NULL => t \in Text /\ t # NULL
<1>1. CASE t = NULL
  BY <1>1 DEF Redact, Optional
<1>2. CASE t \in Text /\ t # NULL
  BY <1>2, RedactIs DEF Optional
<1> QED
  BY <1>1, <1>2 DEF Optional

(* A field, and what is in it. *)
Entry == [value : Optional, snippet : Optional, verified : BOOLEAN \cup {NULL}]

(* The fields are entries. *)
LEMMA ExtractedAre ==
    /\ \A ex \in Extracted, f \in Fields : /\ ex[f] \in Entry /\ ex[f].value \in Optional
                                           /\ ex[f].snippet \in Optional
    /\ \A entry \in [Fields -> Entry] : entry \in Extracted
BY DEF Extracted, Entry, Optional

(* What a field is after masking. *)
LEMMA MaskedIs ==
    ASSUME NEW ex \in Extracted, NEW f \in Fields
    PROVE  LET secrets == Secrets(ex)
               masked == Masked(f, ex, secrets)
           IN  /\ masked \in Entry
               /\ ex[f].value = NULL => masked.value = NULL
               /\ f \notin Sensitive => masked.value = Redact(ex[f].value, secrets)
               /\ f \in Sensitive => \/ masked.value = NULL
                                     \/ /\ f \in Tagged(ex)
                                        /\ masked.value = MaskValue(ex[f].value, f \in TailAllowed)
               /\ masked.snippet \in {NULL, Redact(ex[f].snippet, secrets)}
<1> DEFINE secrets == Secrets(ex)
           masked == Masked(f, ex, secrets)
           e == ex[f]
<1>1. e \in Entry /\ e.value \in Optional /\ e.snippet \in Optional
  BY ExtractedAre
<1>2. secrets \in Seq(Secret)
  BY SecretsAre
<1>3. /\ masked = IF f \notin Sensitive
                  THEN [e EXCEPT !.value = Redact(e.value, secrets),
                                 !.snippet = Redact(e.snippet, secrets)]
                  ELSE IF ~Truthy(e.value) THEN [e EXCEPT !.value = NULL, !.snippet = NULL]
                  ELSE [e EXCEPT !.value = MaskValue(e.value, f \in TailAllowed),
                                 !.snippet = Redact(e.snippet, secrets)]
      /\ f \in Sensitive /\ Truthy(e.value) => f \in Tagged(ex)
  BY DEF Masked, Tagged
<1>4. /\ Redact(e.value, secrets) \in Optional /\ Redact(e.snippet, secrets) \in Optional
      /\ e.value = NULL => Redact(e.value, secrets) = NULL
      /\ NULL \in Optional
  <2> HIDE DEF secrets, e
  <2> QED
    BY <1>1, <1>2, RedactKeepsType DEF Optional
<1>5. Truthy(e.value) => MaskValue(e.value, f \in TailAllowed) \in Optional /\ e.value # NULL
  <2>1. (f \in TailAllowed) \in BOOLEAN
    OBVIOUS
  <2>2. Truthy(e.value) => e.value \in Text /\ e.value # NULL
    BY <1>1 DEF Truthy, Optional
  <2> HIDE DEF e
  <2> QED
    BY <2>1, <2>2, MaskIs DEF Optional
<1> HIDE DEF secrets, masked, e
<1>6. masked \in Entry /\ (e.value = NULL => masked.value = NULL)
  BY <1>1, <1>3, <1>4, <1>5 DEF Entry
<1>7. f \notin Sensitive => masked.value = Redact(e.value, secrets)
  BY <1>1, <1>3 DEF Entry
<1>8. f \in Sensitive => \/ masked.value = NULL
                         \/ /\ f \in Tagged(ex)
                            /\ masked.value = MaskValue(e.value, f \in TailAllowed)
  BY <1>1, <1>3 DEF Entry
<1>9. masked.snippet \in {NULL, Redact(e.snippet, secrets)}
  BY <1>1, <1>3 DEF Entry
<1> QED
  BY <1>6, <1>7, <1>8, <1>9 DEF secrets, masked, e

(* A redacted text quotes no secret ... *)
LEMMA TextIsScrubbed ==
    ASSUME NEW ex \in Extracted, NEW f \in Tagged(ex), LettersOf(ex[f].value) # {},
           Plain(ex[f].value), ~MayEscape(ex[f].value, f \in TailAllowed),
           NEW t \in Text, t # NULL
    PROVE  ~Quoting(Redact(t, Secrets(ex)), ex[f].value)
<1> DEFINE secrets == Secrets(ex)
           v == ex[f].value
           tail == f \in TailAllowed
<1>1. secrets \in Seq(Secret)
  BY SecretsAre
<1>2. PICK k \in 1 .. Len(secrets) : secrets[k].text = v /\ secrets[k].tail = tail
  BY SecretsAre
<1>3. LettersOf(v) # {} /\ Plain(v) /\ ~MayEscape(v, tail)
  OBVIOUS
<1> HIDE DEF secrets, v, tail
<1>4. ~Quoting(Redact(t, secrets), v)
  BY <1>1, <1>2, <1>3, RedactScrubs
<1> QED
  BY <1>4 DEF secrets, v

(* ... nor does a mask without a tail, of any text. *)
LEMMA MaskIsScrubbed ==
    ASSUME NEW x \in Text, NEW v \in Text, LettersOf(v) # {}
    PROVE  ~Quoting(MaskValue(x, FALSE), v)
<1> DEFINE m == MaskValue(x, FALSE)
<1> SUFFICES ASSUME Quoting(m, v)
             PROVE  FALSE
  OBVIOUS
<1>1. m \in Text /\ Len(m) = Len(x) /\ Len(x) \in Nat
  <2>1. m \in Text /\ Len(m) = Len(x)
    BY MaskIs
  <2>2. Len(x) \in Nat
    BY DEF Text
  <2> QED
    BY <2>1, <2>2
<1>2. \A i \in 1 .. Len(x) : m[i] \notin Letters
  <2> SUFFICES ASSUME NEW i \in 1 .. Len(x)
               PROVE  m[i] \notin Letters
    OBVIOUS
  <2>1. CASE i \in LettersOf(x)
    <3>1. m[i] = MASK_CHAR
      BY <2>1, MaskHidesAll
    <3> QED
      BY <3>1, EvidenceAssumption
  <2>2. CASE i \notin LettersOf(x)
    <3>1. m[i] = x[i]
      BY <2>2, MaskIs
    <3>2. x[i] \notin Letters
      BY <2>2 DEF LettersOf, Text
    <3> QED
      BY <3>1, <3>2
  <2> QED
    BY <2>1, <2>2
<1> HIDE DEF m
<1>3. PICK i, j : Finds(m, v, i, j)
  BY <1>1, LettersAreNormal, QuoteIsFound
<1>4. PICK k \in LettersOf(SubSeq(m, i, j)) : TRUE
  BY <1>1, <1>3, FoundHasLetter
<1>5. /\ i \in 1 .. Len(m) /\ j \in 1 .. Len(m) /\ i <= j
  BY <1>3 DEF Finds, Stretch
<1>6. /\ SubSeq(m, i, j) \in Text /\ Len(SubSeq(m, i, j)) = j - i + 1
      /\ \A l \in 1 .. j - i + 1 : SubSeq(m, i, j)[l] = m[i + l - 1]
  BY <1>1, <1>5, PartIs
<1>7. k \in 1 .. j - i + 1 /\ SubSeq(m, i, j)[k] \in Letters
  BY <1>6 DEF LettersOf, Text
<1>8. i + k - 1 \in 1 .. Len(x)
  BY <1>1, <1>5, <1>7
<1> QED
  BY <1>2, <1>6, <1>7, <1>8

(* A value is masked whole where none as long that is not its own reaches. *)
LEMMA FieldIsMaskedWhole ==
    ASSUME NEW ex \in Extracted, NEW f \in Tagged(ex), LettersOf(ex[f].value) # {},
           ~OverlapsItself(Normalise(ex[f].value)),
           NEW t \in Text, t # NULL, NEW i, NEW j, Finds(t, ex[f].value, i, j),
           \A g \in Tagged(ex) \ {f} :
              Len(ex[g].value) >= Len(ex[f].value) =>
                 /\ Plain(ex[g].value)
                 /\ \A p, q : Finds(t, ex[g].value, p, q) => q < i \/ j < p
    PROVE  Cardinality({m \in i .. j : Redact(t, Secrets(ex))[m] \in Letters})
               <= Shown(ex[f].value, f \in TailAllowed)
<1> DEFINE secrets == Secrets(ex)
           n == Len(secrets)
           v == ex[f].value
           tail == f \in TailAllowed
           K == {k \in 1 .. n : secrets[k].text = v /\ secrets[k].tail = tail}
<1>1. secrets \in Seq(Secret) /\ n \in Nat
  BY SecretsAre, SecretIs
<1>2. K \subseteq Nat /\ K # {}
  BY <1>1, SecretsAre
<1>3. PICK k \in K : \A l \in K : k <= l
  <2> HIDE DEF K
  <2> QED
    BY <1>2, Least
<1>4. k \in 1 .. n /\ secrets[k].text = v /\ secrets[k].tail = tail
  OBVIOUS
<1>5. ASSUME NEW l \in 1 .. k - 1
      PROVE  /\ Plain(secrets[l].text)
             /\ \A p, q : Finds(t, secrets[l].text, p, q) => q < i \/ j < p
  <2>1. l \in 1 .. n /\ l < k /\ l \notin K
    BY <1>1, <1>3, <1>4
  <2>2. PICK g \in Tagged(ex) : secrets[l].text = ex[g].value
                                /\ secrets[l].tail = (g \in TailAllowed)
    BY <2>1, SecretsAre
  <2>3. g # f
    BY <2>1, <2>2
  <2>4. Len(ex[g].value) >= Len(ex[f].value)
    <3>1. \A a, b \in 1 .. n : a < b => Len(secrets[a].text) >= Len(secrets[b].text)
      BY SecretsAre
    <3>2. Len(secrets[l].text) >= Len(secrets[k].text)
      BY <1>4, <2>1, <3>1
    <3> QED
      BY <1>4, <2>2, <3>2
  <2> QED
    BY <2>2, <2>3, <2>4
<1>6. LettersOf(v) # {} /\ ~OverlapsItself(Normalise(v)) /\ Finds(t, v, i, j)
  OBVIOUS
<1> HIDE DEF secrets, n, v, tail, K
<1>7. Cardinality({m \in i .. j : Redact(t, secrets)[m] \in Letters}) <= Shown(v, tail)
  BY <1>1, <1>4, <1>5, <1>6, RedactMasksWhole DEF n
<1> QED
  BY <1>7 DEF secrets, v, tail

-----------------------------------------------------------------------------
(* The invariant *)

EvidenceTypes ==
    /\ stage \in {"classified", "extracted", "validated", "unsupported", "masked"}
    /\ document \in [text : Text, image_only : BOOLEAN]
    /\ answer \in Extracted /\ extracted \in Extracted /\ held \in Extracted
    /\ errors \subseteq [field : Fields, quote : Optional]
    /\ missing \subseteq Fields
    /\ notes \in Optional /\ trace \in Optional

(* Before a node has run, what it is to fill is empty, and what the model  *)
(* answered is what validation reads.                                      *)
Staged ==
    /\ stage = "extracted" => extracted = answer
    /\ stage \in {"classified", "unsupported"} => answer = [f \in Fields |-> Nothing]

EvidenceInv == /\ EvidenceTypes /\ Staged
               /\ HeldValuesAreScrubbed /\ LongerIsMaskedWhole /\ FabricationIsRecorded

(* Before masking the first two say nothing. *)
LEMMA NotMasked ==
    ASSUME stage # "masked"
    PROVE  HeldValuesAreScrubbed /\ LongerIsMaskedWhole
BY DEF HeldValuesAreScrubbed, LongerIsMaskedWhole

(* Before extraction no field has a value. *)
LEMMA NothingIs ==
    /\ [f \in Fields |-> Nothing] \in Extracted
    /\ \A f \in Fields : [g \in Fields |-> Nothing][f].value = NULL
BY DEF Extracted, Nothing

(* What the model draws from are texts, or NULL. *)
LEMMA BoundsAreTexts ==
    Values \subseteq Optional /\ Snippets \subseteq Optional /\ Quotes \subseteq Optional
    /\ Sources \subseteq Text /\ <<>> \in Text
BY EvidenceAssumption DEF Optional, Text

(* It holds at first, *)
LEMMA EvidenceStarts == EvidenceInit => EvidenceInv
<1> SUFFICES ASSUME EvidenceInit
             PROVE  EvidenceInv
  OBVIOUS
<1> USE DEF EvidenceInit
<1>1. document \in [text : Text, image_only : BOOLEAN]
  BY BoundsAreTexts
<1>2. EvidenceTypes
  BY <1>1, BoundsAreTexts, NothingIs DEF EvidenceTypes
<1>3. Staged
  BY DEF Staged
<1>4. HeldValuesAreScrubbed /\ LongerIsMaskedWhole
  BY NotMasked
<1>5. FabricationIsRecorded
  BY DEF FabricationIsRecorded
<1> QED
  BY <1>2, <1>3, <1>4, <1>5 DEF EvidenceInv

(* and each of the nodes keeps it: whatever the model answers, *)
LEMMA ExtractKeeps == EvidenceInv /\ Extract => EvidenceInv'
<1> SUFFICES ASSUME EvidenceInv, Extract
             PROVE  EvidenceInv'
  OBVIOUS
<1> USE DEF Extract
<1>1. answer' \in Extracted
  BY BoundsAreTexts DEF Extracted, Optional
<1>2. EvidenceTypes'
  BY <1>1 DEF EvidenceInv, EvidenceTypes
<1>3. Staged'
  BY DEF Staged
<1>4. HeldValuesAreScrubbed' /\ LongerIsMaskedWhole' /\ FabricationIsRecorded'
  BY DEF HeldValuesAreScrubbed, LongerIsMaskedWhole, FabricationIsRecorded
<1> QED
  BY <1>2, <1>3, <1>4 DEF EvidenceInv

(* a document of no known class, *)
LEMMA MarkUnsupportedKeeps == EvidenceInv /\ MarkUnsupported => EvidenceInv'
<1> SUFFICES ASSUME EvidenceInv, MarkUnsupported
             PROVE  EvidenceInv'
  OBVIOUS
<1> USE DEF MarkUnsupported
<1>1. EvidenceTypes'
  BY NothingIs DEF EvidenceInv, EvidenceTypes
<1>2. Staged'
  BY DEF EvidenceInv, Staged
<1>3. HeldValuesAreScrubbed' /\ LongerIsMaskedWhole' /\ FabricationIsRecorded'
  BY DEF HeldValuesAreScrubbed, LongerIsMaskedWhole, FabricationIsRecorded
<1> QED
  BY <1>1, <1>2, <1>3 DEF EvidenceInv

(* Evidence that is not in the document is rejected. *)
LEMMA FabricatedIsRejected ==
    ASSUME EvidenceTypes, ~document.image_only, NEW f \in Fields,
           extracted[f].value # NULL, Fabricated(extracted[f].snippet)
    PROVE  Rejected(extracted[f])
<1> DEFINE snippet == extracted[f].snippet
           text == document.text
<1>1. text \in Text /\ snippet \in Optional
  BY ExtractedAre DEF EvidenceTypes
<1> HIDE DEF snippet, text
<1>2. ASSUME Truthy(snippet), VerifySnippet(snippet)
      PROVE  FALSE
  <2>1. snippet \in Text
    BY <1>1, <1>2 DEF Truthy, Optional
  <2>2. Normalise(snippet) # <<>> /\ ~Quoting(text, snippet)
    BY <1>2 DEF Fabricated, snippet, text
  <2>3. Normalise(snippet) \in SubSeqs(Normalise(text))
    BY <1>2 DEF VerifySnippet, text
  <2> QED
    BY <1>1, <2>1, <2>2, <2>3, PartIsQuoted
<1>3. ~Truthy(snippet) \/ ~VerifySnippet(snippet)
  BY <1>2
<1> QED
  BY <1>3 DEF Rejected, snippet

(* validation, where FabricationIsRecorded comes true, *)
LEMMA ValidateKeeps == EvidenceInv /\ Validate => EvidenceInv'
<1> SUFFICES ASSUME EvidenceInv, Validate
             PROVE  EvidenceInv'
  OBVIOUS
<1>1. /\ EvidenceTypes /\ extracted = answer
      /\ stage' = "validated" /\ extracted' = [f \in Fields |-> Verified(extracted[f])]
      /\ errors' = Errors(extracted') /\ missing' = Missing(extracted')
      /\ UNCHANGED <<document, answer, notes, trace, held>>
  BY DEF EvidenceInv, Staged, Validate
<1>2. extracted' \in Extracted
  <2>1. ASSUME NEW f \in Fields
        PROVE  Verified(extracted[f]) \in Entry
    <3> DEFINE e == extracted[f]
    <3>1. e \in Entry
      BY <1>1, ExtractedAre DEF EvidenceTypes
    <3> HIDE DEF e
    <3>2. Verified(e) \in Entry
      BY <3>1 DEF Verified, Entry, Optional
    <3> QED
      BY <3>2 DEF e
  <2>2. extracted' \in [Fields -> Entry]
    BY <1>1, <2>1
  <2> QED
    BY <2>2, ExtractedAre
<1>3. errors' \subseteq [field : Fields, quote : Optional]
  <2> SUFFICES ASSUME NEW e \in errors'
               PROVE  e \in [field : Fields, quote : Optional]
    OBVIOUS
  <2>1. \/ \E f \in Fields : e = [field |-> f, quote |-> <<>>]
        \/ \E f \in Checked : e = [field |-> f, quote |-> extracted'[f].value]
    BY <1>1 DEF Errors
  <2>2. Checked \subseteq Fields /\ <<>> \in Optional
    BY EvidenceAssumption, BoundsAreTexts DEF Optional
  <2>3. \A f \in Fields : extracted'[f].value \in Optional
    BY <1>2, ExtractedAre
  <2> QED
    BY <2>1, <2>2, <2>3
<1>4. EvidenceTypes'
  <2>1. missing' \subseteq Fields
    BY <1>1, EvidenceAssumption DEF Missing
  <2> QED
    BY <1>1, <1>2, <1>3, <2>1 DEF EvidenceTypes
<1>5. Staged' /\ HeldValuesAreScrubbed' /\ LongerIsMaskedWhole'
  BY <1>1 DEF Staged, HeldValuesAreScrubbed, LongerIsMaskedWhole
<1>6. FabricationIsRecorded'
  <2> SUFFICES ASSUME ~document'.image_only, NEW f \in Fields,
                      answer'[f].value # NULL, Fabricated(answer[f].snippet)'
               PROVE  /\ extracted'[f].value = NULL
                      /\ \E e \in errors' : e.field = f
                      /\ f \in Required => f \in missing'
    BY DEF FabricationIsRecorded
  <2>1. Rejected(extracted[f])
    <3>1. /\ ~document.image_only /\ extracted[f].value # NULL
          /\ Fabricated(extracted[f].snippet)
      BY <1>1 DEF Fabricated
    <3> QED
      BY <1>1, <3>1, FabricatedIsRejected
  <2>2. extracted'[f].value = NULL
    <3> DEFINE e == extracted[f]
    <3>1. e \in Entry /\ e.value # NULL /\ Rejected(e) /\ ~document.image_only
      BY <1>1, <2>1, ExtractedAre DEF EvidenceTypes
    <3> HIDE DEF e
    <3>2. Verified(e).value = NULL
      BY <3>1 DEF Verified, Entry
    <3> QED
      BY <1>1, <3>2 DEF e
  <2>3. [field |-> f, quote |-> <<>>] \in errors'
    BY <1>1, <2>1 DEF Errors
  <2>4. f \in Required => f \in missing'
    BY <1>1, <2>2 DEF Missing
  <2> QED
    BY <2>2, <2>3, <2>4
<1> QED
  BY <1>4, <1>5, <1>6 DEF EvidenceInv

(* What masking publishes was redacted, or is a value masked without tail. *)
LEMMA PublishedAre ==
    ASSUME EvidenceTypes, MaskPii, NEW text \in Published'
    PROVE  \/ \E t \in Text : t # NULL /\ text = Redact(t, Secrets(extracted))
           \/ \E x \in Text : text = MaskValue(x, FALSE)
<1> DEFINE secrets == Secrets(extracted)
           Redacted == \E t \in Text : t # NULL /\ text = Redact(t, secrets)
<1>1. /\ text # NULL
      /\ \/ \E f \in Fields \ TailAllowed : text = extracted'[f].value
         \/ \E f \in Fields : text = extracted'[f].snippet
         \/ \E e \in errors' : text = e.quote
         \/ text \in {notes', trace'}
  BY DEF Published, Says
<1>2. extracted \in Extracted /\ secrets \in Seq(Secret)
  BY SecretsAre DEF EvidenceTypes
<1>3. /\ \A f \in Fields : extracted'[f] = Masked(f, extracted, secrets)
      /\ errors' = {[e EXCEPT !.quote = Redact(e.quote, secrets)] : e \in errors}
      /\ notes' \in {NULL, Redact(notes, secrets)} /\ trace' \in {NULL, Redact(trace, secrets)}
  BY DEF MaskPii, SafeNotes
<1> HIDE DEF secrets
<1>4. ASSUME NEW t \in Optional, text = Redact(t, secrets)
      PROVE  Redacted
  <2>1. t \in Text /\ t # NULL
    BY <1>1, <1>2, <1>4, RedactKeepsType
  <2> QED
    BY <1>4, <2>1
<1> HIDE DEF Redacted
<1>5. ASSUME NEW f \in Fields \ TailAllowed, text = extracted'[f].value
      PROVE  Redacted \/ \E x \in Text : text = MaskValue(x, FALSE)
  <2>1. text = Masked(f, extracted, secrets).value /\ extracted[f].value \in Optional
    BY <1>2, <1>3, <1>5, ExtractedAre
  <2>2. CASE f \notin Sensitive
    <3>1. text = Redact(extracted[f].value, secrets)
      BY <1>2, <2>1, <2>2, MaskedIs DEF secrets
    <3> QED
      BY <1>4, <2>1, <3>1
  <2>3. CASE f \in Sensitive
    <3>1. f \in Tagged(extracted) /\ text = MaskValue(extracted[f].value, f \in TailAllowed)
      BY <1>1, <1>2, <2>1, <2>3, MaskedIs DEF secrets
    <3>2. extracted[f].value \in Text
      BY <1>2, <3>1, TaggedAre
    <3>3. (f \in TailAllowed) = FALSE
      BY <1>5
    <3> QED
      BY <3>1, <3>2, <3>3
  <2> QED
    BY <2>2, <2>3
<1>6. ASSUME NEW f \in Fields, text = extracted'[f].snippet
      PROVE  Redacted
  <2>1. text = Masked(f, extracted, secrets).snippet /\ extracted[f].snippet \in Optional
    BY <1>2, <1>3, <1>6, ExtractedAre
  <2>2. text = Redact(extracted[f].snippet, secrets)
    BY <1>1, <1>2, <2>1, MaskedIs DEF secrets
  <2> QED
    BY <1>4, <2>1, <2>2
<1>7. ASSUME NEW e \in errors', text = e.quote
      PROVE  Redacted
  <2>1. PICK d \in errors : e = [d EXCEPT !.quote = Redact(d.quote, secrets)]
    BY <1>3, <1>7
  <2>2. d \in [field : Fields, quote : Optional]
    BY DEF EvidenceTypes
  <2>3. d.quote \in Optional /\ text = Redact(d.quote, secrets)
    BY <1>7, <2>1, <2>2
  <2> QED
    BY <1>4, <2>3
<1>8. ASSUME text \in {notes', trace'}
      PROVE  Redacted
  <2>1. text \in {Redact(notes, secrets), Redact(trace, secrets)}
    BY <1>1, <1>3, <1>8
  <2>2. notes \in Optional /\ trace \in Optional
    BY DEF EvidenceTypes
  <2> QED
    BY <1>4, <2>1, <2>2
<1>9. Redacted \/ \E x \in Text : text = MaskValue(x, FALSE)
  BY <1>1, <1>5, <1>6, <1>7, <1>8
<1> QED
  BY <1>9 DEF Redacted, secrets

(* Masking makes HeldValuesAreScrubbed true ... *)
LEMMA MaskingScrubs == EvidenceTypes /\ MaskPii => HeldValuesAreScrubbed'
<1> SUFFICES ASSUME EvidenceTypes, MaskPii, NEW f \in Sensitive,
                    Holds(f)', ~Escapes(f)', NEW text \in Published'
             PROVE  ~Quoting(text, held'[f].value)
  BY DEF HeldValuesAreScrubbed, Quoting
<1> DEFINE v == extracted[f].value
<1>1. extracted \in Extracted /\ held' = extracted
  BY DEF MaskPii, EvidenceTypes
<1>2. /\ f \in Tagged(extracted) /\ LettersOf(v) # {} /\ Plain(v)
      /\ ~MayEscape(v, f \in TailAllowed)
  BY <1>1 DEF Holds, Escapes, Tagged, MayEscape
<1>3. v \in Text
  BY <1>1, <1>2, TaggedAre
<1>4. CASE \E t \in Text : t # NULL /\ text = Redact(t, Secrets(extracted))
  BY <1>1, <1>2, <1>4, TextIsScrubbed
<1>5. CASE \E x \in Text : text = MaskValue(x, FALSE)
  BY <1>1, <1>2, <1>3, <1>5, MaskIsScrubbed
<1> QED
  BY <1>4, <1>5, PublishedAre

(* ... and LongerIsMaskedWhole ... *)
LEMMA MaskingMasksWhole == EvidenceTypes /\ MaskPii => LongerIsMaskedWhole'
<1> SUFFICES ASSUME EvidenceTypes, MaskPii,
                    NEW f \in Sensitive, NEW u \in Fields \ Sensitive,
                    Holds(f)', ~OverlapsItself(Normalise(held'[f].value)),
                    held'[u].value # NULL,
                    NEW span \in Occurrences(held'[u].value, held'[f].value),
                    \A g \in Sensitive \ {f} :
                       Truthy(held'[g].value) /\ Len(held'[g].value) >= Len(held'[f].value)
                       => ~TouchedBy(g, held[u].value, span)'
             PROVE  Cardinality({k \in span[1] .. span[2] : extracted'[u].value[k] \in Letters})
                        <= Shown(held'[f].value, f \in TailAllowed)
  BY DEF LongerIsMaskedWhole
<1> DEFINE v == extracted[f].value
           t == extracted[u].value
           i == span[1]
           j == span[2]
<1>1. extracted \in Extracted /\ held' = extracted
  BY DEF MaskPii, EvidenceTypes
<1>2. f \in Tagged(extracted) /\ LettersOf(v) # {} /\ ~OverlapsItself(Normalise(v))
  BY <1>1 DEF Holds, Tagged
<1>3. v \in Text /\ t \in Text /\ t # NULL
  <2>1. t \in Optional /\ t # NULL
    BY <1>1, ExtractedAre
  <2> QED
    BY <1>1, <1>2, <2>1, TaggedAre DEF Optional
<1>4. span = <<i, j>> /\ Finds(t, v, i, j)
  <2>1. span \in Occurrences(t, v)
    BY <1>1
  <2> HIDE DEF t, v
  <2> QED
    BY <1>3, <2>1, OccurrencesAre
<1>5. ASSUME NEW g \in Tagged(extracted) \ {f}, Len(extracted[g].value) >= Len(v)
      PROVE  /\ Plain(extracted[g].value)
             /\ \A p, q : Finds(t, extracted[g].value, p, q) => q < i \/ j < p
  <2> DEFINE w == extracted[g].value
  <2>1. g \in Sensitive \ {f} /\ Truthy(w) /\ w \in Text
    BY <1>1, TaggedAre DEF Tagged
  <2>2. ~TouchedBy(g, held[u].value, span)'
    BY <1>1, <1>5, <2>1
  <2>3. /\ Plain(w)
        /\ \A other \in Occurrences(t, w) : ~(other[1] <= span[2] /\ span[1] <= other[2])
    BY <1>1, <2>2 DEF TouchedBy
  <2>4. ASSUME NEW p, NEW q, Finds(t, w, p, q)
        PROVE  q < i \/ j < p
    <3> HIDE DEF t, v, w
    <3>1. <<p, q>> \in Occurrences(t, w)
      BY <1>3, <2>1, <2>4, OccurrencesAre
    <3>2. ~(p <= j /\ i <= q)
      BY <2>3, <3>1
    <3>3. p \in Int /\ q \in Int /\ i \in Int /\ j \in Int
      BY <1>3, <1>4, <2>4 DEF Finds, Stretch
    <3> QED
      BY <3>2, <3>3
  <2> QED
    BY <2>3, <2>4
<1>6. Cardinality({m \in i .. j : Redact(t, Secrets(extracted))[m] \in Letters})
          <= Shown(v, f \in TailAllowed)
  BY <1>1, <1>2, <1>3, <1>4, <1>5, FieldIsMaskedWhole
<1>7. extracted'[u].value = Redact(t, Secrets(extracted))
  <2>1. extracted'[u] = Masked(u, extracted, Secrets(extracted))
    BY DEF MaskPii
  <2> QED
    BY <1>1, <2>1, MaskedIs
<1> QED
  BY <1>1, <1>6, <1>7

(* ... and, being the last node, undoes nothing validation did. *)
LEMMA MaskPiiKeeps == EvidenceInv /\ MaskPii => EvidenceInv'
<1> SUFFICES ASSUME EvidenceInv, MaskPii
             PROVE  EvidenceInv'
  OBVIOUS
<1> DEFINE secrets == Secrets(extracted)
<1>1. /\ EvidenceTypes /\ stage \in {"validated", "unsupported"} /\ stage' = "masked"
      /\ held' = extracted /\ extracted' = [f \in Fields |-> Masked(f, extracted, secrets)]
      /\ errors' = {[e EXCEPT !.quote = Redact(e.quote, secrets)] : e \in errors}
      /\ notes' \in {NULL, Redact(notes, secrets)} /\ trace' \in {NULL, Redact(trace, secrets)}
      /\ UNCHANGED <<document, answer, missing>>
  BY DEF EvidenceInv, MaskPii, SafeNotes
<1>2. extracted \in Extracted /\ secrets \in Seq(Secret)
  BY <1>1, SecretsAre DEF EvidenceTypes
<1>3. extracted' \in Extracted
  <2>1. \A f \in Fields : Masked(f, extracted, secrets) \in Entry
    BY <1>2, MaskedIs
  <2>2. extracted' \in [Fields -> Entry]
    BY <1>1, <2>1
  <2> QED
    BY <2>2, ExtractedAre
<1> HIDE DEF secrets
<1>4. errors' \subseteq [field : Fields, quote : Optional]
  <2> SUFFICES ASSUME NEW e \in errors
               PROVE  [e EXCEPT !.quote = Redact(e.quote, secrets)]
                          \in [field : Fields, quote : Optional]
    BY <1>1
  <2>1. e \in [field : Fields, quote : Optional]
    BY <1>1 DEF EvidenceTypes
  <2>2. Redact(e.quote, secrets) \in Optional
    BY <1>2, <2>1, RedactKeepsType
  <2> QED
    BY <2>1, <2>2
<1>5. notes' \in Optional /\ trace' \in Optional
  <2>1. notes \in Optional /\ trace \in Optional /\ NULL \in Optional
    BY <1>1 DEF EvidenceTypes, Optional
  <2> QED
    BY <1>1, <1>2, <2>1, RedactKeepsType
<1>6. EvidenceTypes'
  BY <1>1, <1>3, <1>4, <1>5 DEF EvidenceTypes
<1>7. Staged'
  BY <1>1 DEF Staged
<1>8. HeldValuesAreScrubbed' /\ LongerIsMaskedWhole'
  BY <1>1, MaskingScrubs, MaskingMasksWhole
<1>9. FabricationIsRecorded'
  <2> SUFFICES ASSUME ~document'.image_only, NEW f \in Fields,
                      answer'[f].value # NULL, Fabricated(answer[f].snippet)'
               PROVE  /\ extracted'[f].value = NULL
                      /\ \E e \in errors' : e.field = f
                      /\ f \in Required => f \in missing'
    BY DEF FabricationIsRecorded
  <2>1. stage = "validated"
    BY <1>1, NothingIs DEF EvidenceInv, Staged
  <2>2. ~document.image_only /\ answer[f].value # NULL /\ Fabricated(answer[f].snippet)
    BY <1>1 DEF Fabricated
  <2>3. /\ extracted[f].value = NULL
        /\ f \in Required => f \in missing
    BY <2>1, <2>2 DEF EvidenceInv, FabricationIsRecorded
  <2>4. PICK e \in errors : e.field = f
    BY <2>1, <2>2 DEF EvidenceInv, FabricationIsRecorded
  <2>5. extracted'[f].value = NULL
    <3>1. Masked(f, extracted, secrets).value = NULL
      BY <1>2, <2>3, MaskedIs DEF secrets
    <3> QED
      BY <1>1, <3>1
  <2>6. \E d \in errors' : d.field = f
    <3>1. e \in [field : Fields, quote : Optional]
      BY <1>1 DEF EvidenceTypes
    <3>2. [e EXCEPT !.quote = Redact(e.quote, secrets)].field = f
      BY <2>4, <3>1
    <3> QED
      BY <1>1, <3>2
  <2> QED
    BY <1>1, <2>3, <2>5, <2>6
<1> QED
  BY <1>6, <1>7, <1>8, <1>9 DEF EvidenceInv

(* What the rules promise holds in every state, for every schema and every *)
(* text the model answers or the document has (mask.py 14-20, 194-195;     *)
(* snippets.py 47-51).                                                     *)
THEOREM EvidenceIsInvariant == EvidenceSpec => []EvidenceInv
<1>1. EvidenceInv /\ [EvidenceNext]_evidenceVars => EvidenceInv'
  <2> SUFFICES ASSUME EvidenceInv, [EvidenceNext]_evidenceVars
               PROVE  EvidenceInv'
    OBVIOUS
  <2>1. CASE Extract
    BY <2>1, ExtractKeeps
  <2>2. CASE Validate
    BY <2>2, ValidateKeeps
  <2>3. CASE MaskPii
    BY <2>3, MaskPiiKeeps
  <2>4. CASE MarkUnsupported
    BY <2>4, MarkUnsupportedKeeps
  <2>5. CASE UNCHANGED evidenceVars
    <3>1. /\ EvidenceTypes' = EvidenceTypes /\ Staged' = Staged
          /\ HeldValuesAreScrubbed' = HeldValuesAreScrubbed
          /\ LongerIsMaskedWhole' = LongerIsMaskedWhole
          /\ FabricationIsRecorded' = FabricationIsRecorded
      BY <2>5 DEF evidenceVars, EvidenceTypes, Staged, HeldValuesAreScrubbed,
                  LongerIsMaskedWhole, FabricationIsRecorded, Published, Says, Holds,
                  Escapes, TouchedBy, Fabricated
    <3> QED
      BY <3>1 DEF EvidenceInv
  <2> QED
    BY <2>1, <2>2, <2>3, <2>4, <2>5 DEF EvidenceNext
<1> QED
  BY <1>1, EvidenceStarts, PTL DEF EvidenceSpec

(* No text of the report quotes a value that a tagged field held when      *)
(* masking ran, but for the cases Escapes names (mask.py 14-20).           *)
THEOREM HeldValuesAreScrubbedAlways == EvidenceSpec => []HeldValuesAreScrubbed
<1>1. EvidenceInv => HeldValuesAreScrubbed
  BY DEF EvidenceInv
<1> QED
  BY <1>1, EvidenceIsInvariant, PTL

(* Taking the longest value first, masking leaves no more of it than its   *)
(* tail where another field quotes it (mask.py 194-195).                   *)
THEOREM LongerIsMaskedWholeAlways == EvidenceSpec => []LongerIsMaskedWhole
<1>1. EvidenceInv => LongerIsMaskedWhole
  BY DEF EvidenceInv
<1> QED
  BY <1>1, EvidenceIsInvariant, PTL

(* A value whose snippet is not in the document is gone, with an error     *)
(* that names its field and, if required, the field counted missing        *)
(* (snippets.py 47-51, validate.py 259-263).                               *)
THEOREM FabricationIsRecordedAlways == EvidenceSpec => []FabricationIsRecorded
<1>1. EvidenceInv => FabricationIsRecorded
  BY DEF EvidenceInv
<1> QED
  BY <1>1, EvidenceIsInvariant, PTL
=============================================================================
