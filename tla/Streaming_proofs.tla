---------------------------- MODULE Streaming_proofs ----------------------------
(***************************************************************************)
(* For every set of scenarios and replies, every chunking of the wire and  *)
(* every retry setting: what a client is sent is the events of one call,   *)
(* each once and in order, which add up to the answer the same reply would *)
(* have been whole, as long as no chunk ended inside a character; the      *)
(* calls made and the delays between them are bounded; nothing is recorded *)
(* but what the call that answered reported; and the conversation has      *)
(* reached its provider whole.                                             *)
(*                                                                         *)
(* First the data.  A provider's events are rows put end to end, block by  *)
(* block; translated one by one they are the row of chunks that a client   *)
(* is owed, whichever the provider, of which only the end tells the usage. *)
(* What is put end to end is taken apart by induction on how many rows     *)
(* there are: a set of numbers that holds 0 and every successor has them   *)
(* all.                                                                    *)
(*                                                                         *)
(* Then the steps.  The parser's position tells how many events it has     *)
(* dispatched: it is at one of four places of the seven pieces of an       *)
(* event, and holds the data of that event at the last of them.  The       *)
(* chunks sent, or the items collected, are those of that many events, and *)
(* the usage known is theirs.  Until a first event is dispatched there are *)
(* none, so a retry, a renewal and a fallback start from none.  A chunk    *)
(* that ends inside a character alters an event still to be dispatched.    *)
(*                                                                         *)
(* Then the client.  What it makes of a row is picked out of it by kind    *)
(* and index, and so is what each block contributes.  Where an adapter     *)
(* gives each tool call a number of its own the two meet call by call; the *)
(* one index of Codex's calls is enough for one of them.                   *)
(*                                                                         *)
(* Last the conversation.  Each message becomes a row that says what the   *)
(* message says, each thing once; the turns are the messages filtered, and *)
(* what is heard is their rows put end to end.  No two messages say the    *)
(* same, so where a thing stands tells whose it is.                        *)
(***************************************************************************)
EXTENDS Streaming, FiniteSetTheorems, SequenceTheorems, WellFoundedInduction, TLAPS

--------------------------------------------------------------------------------
(* Every natural number is reached by steps of one.                         *)
LEMMA NatSteps ==
    ASSUME NEW T, 0 \in T, \A n \in Nat : n \in T => n + 1 \in T
    PROVE  Nat \subseteq T
<1> SUFFICES ASSUME Nat \ T # {} PROVE FALSE
  OBVIOUS
<1> DEFINE R == {ss \in Nat \X Nat : ss[1] < ss[2]}
<1>1. IsWellFoundedOn(R, Nat)
  BY NatLessThanWellFounded DEF OpToRel
<1>2. PICK n \in Nat \ T : \A m \in Nat \ T : ~ (<<m, n>> \in R)
  <2> HIDE DEF R
  <2> QED
    BY <1>1, WFMin
<1> HIDE DEF R
<1>3. n # 0 /\ n - 1 \in Nat
  BY <1>2
<1>4. <<n - 1, n>> \in R
  <2>1. <<n - 1, n>> \in Nat \X Nat
    BY <1>3
  <2> QED
    BY <2>1, <1>3 DEF R
<1>5. n - 1 \in T
  BY <1>2, <1>3, <1>4
<1>6. (n - 1) + 1 \in T /\ (n - 1) + 1 = n
  BY <1>3, <1>5
<1> QED
  BY <1>2, <1>6

(* The first n rows of F put end to end, as the community modules' function *)
(* computes it: from the first row on.                                      *)
Flat(F, n) == FlattenSeq([i \in 1..n |-> F[i]])
Flats(F, n, g) == g = [i \in 1..n |-> IF i = 1 THEN F[i] ELSE g[i - 1] \o F[i]]

LEMMA FlatsAt ==
    ASSUME NEW F, NEW n \in Nat, NEW g, Flats(F, n, g), NEW i \in 1..n
    PROVE  g[i] = IF i = 1 THEN F[i] ELSE g[i - 1] \o F[i]
<1>1. g = [j \in 1..n |-> IF j = 1 THEN F[j] ELSE g[j - 1] \o F[j]]
  BY DEF Flats
<1> QED
  BY <1>1

LEMMA FlatsExist ==
    ASSUME NEW F, NEW n \in Nat
    PROVE  \E g : Flats(F, n, g)
<1> DEFINE T == {m \in Nat : \E g : Flats(F, m, g)}
<1>1. 0 \in T
  <2>1. Flats(F, 0, [i \in 1..0 |-> <<>>])
    BY DEF Flats
  <2> QED
    BY <2>1
<1>2. ASSUME NEW m \in Nat, m \in T
      PROVE  m + 1 \in T
  <2>1. PICK g : Flats(F, m, g)
    BY <1>2
  <2> DEFINE h == [i \in 1..(m + 1) |-> IF i = 1 THEN F[i] ELSE g[i - 1] \o F[i]]
  <2>2. \A i \in 1..m : h[i] = g[i]
    <3> SUFFICES ASSUME NEW i \in 1..m PROVE h[i] = g[i]
      OBVIOUS
    <3>1. g[i] = IF i = 1 THEN F[i] ELSE g[i - 1] \o F[i]
      BY <2>1, FlatsAt
    <3> QED
      BY <3>1
  <2>3. \A i \in 1..(m + 1) : h[i] = IF i = 1 THEN F[i] ELSE h[i - 1] \o F[i]
    <3> SUFFICES ASSUME NEW i \in 1..(m + 1)
                 PROVE  h[i] = IF i = 1 THEN F[i] ELSE h[i - 1] \o F[i]
      OBVIOUS
    <3>1. h[i] = IF i = 1 THEN F[i] ELSE g[i - 1] \o F[i]
      OBVIOUS
    <3>2. i # 1 => i - 1 \in 1..m
      OBVIOUS
    <3> HIDE DEF h
    <3> QED
      BY <2>2, <3>1, <3>2
  <2>4. h = [i \in 1..(m + 1) |-> h[i]]
    OBVIOUS
  <2> HIDE DEF h
  <2>5. Flats(F, m + 1, h)
    BY <2>3, <2>4 DEF Flats
  <2> QED
    BY <2>5
<1>3. Nat \subseteq T
  <2> HIDE DEF T
  <2> QED
    BY <1>1, <1>2, NatSteps
<1> QED
  BY <1>3

LEMMA FlatsAgree ==
    ASSUME NEW F, NEW m \in Nat, NEW n \in Nat, m <= n, NEW g, NEW h,
           Flats(F, m, g), Flats(F, n, h)
    PROVE  \A i \in 1..m : g[i] = h[i]
<1> DEFINE T == {k \in Nat : k \in 1..m => g[k] = h[k]}
<1>1. 0 \in T
  OBVIOUS
<1>2. ASSUME NEW k \in Nat, k \in T
      PROVE  k + 1 \in T
  <2> SUFFICES ASSUME k + 1 \in 1..m
               PROVE  g[k + 1] = h[k + 1]
    OBVIOUS
  <2>0. k + 1 \in 1..n
    OBVIOUS
  <2>1. g[k + 1] = IF k + 1 = 1 THEN F[k + 1] ELSE g[(k + 1) - 1] \o F[k + 1]
    BY FlatsAt
  <2>2. h[k + 1] = IF k + 1 = 1 THEN F[k + 1] ELSE h[(k + 1) - 1] \o F[k + 1]
    BY <2>0, FlatsAt
  <2>3. (k + 1) - 1 = k /\ (k + 1 # 1 => g[k] = h[k])
    BY <1>2
  <2> QED
    BY <2>1, <2>2, <2>3
<1>3. Nat \subseteq T
  <2> HIDE DEF T
  <2> QED
    BY <1>1, <1>2, NatSteps
<1> QED
  BY <1>3

LEMMA FlatIs ==
    ASSUME NEW F, NEW n \in Nat \ {0}, NEW g, Flats(F, n, g)
    PROVE  Flat(F, n) = g[n]
<1> DEFINE ss == [i \in 1..n |-> F[i]]
           f  == CHOOSE f : f = [i \in 1..Len(ss) |-> IF i = 1 THEN ss[i] ELSE f[i - 1] \o ss[i]]
<1>1. Len(ss) = n
  OBVIOUS
<1>2. Flat(F, n) = f[Len(ss)]
  BY <1>1 DEF Flat, FlattenSeq
<1>3. g = [i \in 1..Len(ss) |-> IF i = 1 THEN ss[i] ELSE g[i - 1] \o ss[i]]
  <2>1. g = [i \in 1..n |-> IF i = 1 THEN F[i] ELSE g[i - 1] \o F[i]]
    BY DEF Flats
  <2> QED
    BY <1>1, <2>1
<1>4. f = [i \in 1..Len(ss) |-> IF i = 1 THEN ss[i] ELSE f[i - 1] \o ss[i]]
  BY <1>3
<1> HIDE DEF f
<1>5. Flats(F, n, f)
  BY <1>1, <1>4 DEF Flats
<1> QED
  BY <1>1, <1>2, <1>5, FlatsAgree

LEMMA FlatZero == ASSUME NEW F PROVE Flat(F, 0) = <<>>
BY DEF Flat, FlattenSeq

LEMMA FlatNext ==
    ASSUME NEW F, NEW n \in Nat, NEW S, F[1] \in Seq(S)
    PROVE  Flat(F, n + 1) = Flat(F, n) \o F[n + 1]
<1>0. n + 1 \in Nat \ {0} /\ n + 1 \in 1..(n + 1) /\ (n + 1) - 1 = n
  OBVIOUS
<1>1. PICK h : Flats(F, n + 1, h)
  BY <1>0, FlatsExist
<1>2. Flat(F, n + 1) = h[n + 1]
  BY <1>0, <1>1, FlatIs
<1>10. h[n + 1] = IF n + 1 = 1 THEN F[n + 1] ELSE h[n] \o F[n + 1]
  BY <1>0, <1>1, FlatsAt
<1>3. CASE n = 0
  <2>1. h[n + 1] = F[1]
    BY <1>3, <1>10
  <2> QED
    BY <1>2, <1>3, <2>1, FlatZero
<1>4. CASE n # 0
  <2>1. PICK g : Flats(F, n, g)
    BY FlatsExist
  <2>2. Flat(F, n) = g[n]
    BY <1>4, <2>1, FlatIs
  <2>3. g[n] = h[n]
    <3>1. n <= n + 1 /\ n \in 1..n
      BY <1>4
    <3> QED
      BY <1>0, <1>1, <2>1, <3>1, FlatsAgree
  <2>4. h[n + 1] = h[n] \o F[n + 1]
    <3>1. n + 1 # 1
      BY <1>4
    <3> QED
      BY <1>10, <3>1
  <2> QED
    BY <1>2, <2>2, <2>3, <2>4
<1> QED
  BY <1>3, <1>4

LEMMA FlatSame ==
    ASSUME NEW F, NEW G, NEW n, \A i \in 1..n : F[i] = G[i]
    PROVE  Flat(F, n) = Flat(G, n)
<1>1. [i \in 1..n |-> F[i]] = [i \in 1..n |-> G[i]]
  OBVIOUS
<1> QED
  BY <1>1 DEF Flat

LEMMA FlatType ==
    ASSUME NEW S, NEW n \in Nat, NEW F, \A i \in 1..n : F[i] \in Seq(S)
    PROVE  Flat(F, n) \in Seq(S)
<1> DEFINE T == {m \in Nat : m <= n => Flat(F, m) \in Seq(S)}
<1>1. 0 \in T
  BY FlatZero, EmptySeq
<1>2. ASSUME NEW m \in Nat, m \in T
      PROVE  m + 1 \in T
  <2> SUFFICES ASSUME m + 1 <= n
               PROVE  Flat(F, m + 1) \in Seq(S)
    OBVIOUS
  <2>1. F[1] \in Seq(S) /\ F[m + 1] \in Seq(S) /\ Flat(F, m) \in Seq(S)
    BY <1>2
  <2>2. Flat(F, m + 1) = Flat(F, m) \o F[m + 1]
    BY <2>1, FlatNext
  <2> QED
    BY <2>1, <2>2, ConcatProperties
<1>3. Nat \subseteq T
  <2> HIDE DEF T
  <2> QED
    BY <1>1, <1>2, NatSteps
<1> QED
  BY <1>3

LEMMA FlatEmpty ==
    ASSUME NEW n \in Nat, NEW F, \A i \in 1..n : F[i] = <<>>
    PROVE  Flat(F, n) = <<>>
<1>1. \A i \in 1..n : F[i] \in Seq({})
  BY EmptySeq
<1>2. Flat(F, n) \in Seq({})
  BY <1>1, FlatType
<1> QED
  BY <1>2, EmptySeq, ElementOfSeq

(* Rows of one element each.                                                *)
LEMMA FlatSingles ==
    ASSUME NEW n \in Nat, NEW f, NEW F, \A i \in 1..n : F[i] = <<f[i]>>
    PROVE  Flat(F, n) = [i \in 1..n |-> f[i]]
<1> DEFINE T == {m \in Nat : m <= n => Flat(F, m) = [i \in 1..m |-> f[i]]}
<1>1. 0 \in T
  <2>1. [i \in 1..0 |-> f[i]] = <<>>
    OBVIOUS
  <2> QED
    BY <2>1, FlatZero
<1>2. ASSUME NEW m \in Nat, m \in T
      PROVE  m + 1 \in T
  <2> SUFFICES ASSUME m + 1 <= n
               PROVE  Flat(F, m + 1) = [i \in 1..(m + 1) |-> f[i]]
    OBVIOUS
  <2>1. F[1] = <<f[1]>> /\ F[m + 1] = <<f[m + 1]>> /\ Flat(F, m) = [i \in 1..m |-> f[i]]
    BY <1>2
  <2>2. F[1] \in Seq({f[1]})
    BY <2>1
  <2>3. Flat(F, m + 1) = Flat(F, m) \o F[m + 1]
    BY <2>2, FlatNext
  <2>4. [i \in 1..m |-> f[i]] \o <<f[m + 1]>> = [i \in 1..(m + 1) |-> f[i]]
    OBVIOUS
  <2> QED
    BY <2>1, <2>3, <2>4
<1>3. Nat \subseteq T
  <2> HIDE DEF T
  <2> QED
    BY <1>1, <1>2, NatSteps
<1> QED
  BY <1>3

(* The first m rows, then the others.                                       *)
LEMMA FlatSplit ==
    ASSUME NEW S, NEW m \in Nat, NEW n \in Nat, NEW F, \A i \in 1..(m + n) : F[i] \in Seq(S)
    PROVE  Flat(F, m + n) = Flat(F, m) \o Flat([i \in 1..n |-> F[m + i]], n)
<1> DEFINE G == [i \in 1..n |-> F[m + i]]
           T == {k \in Nat : k <= n => Flat(F, m + k) = Flat(F, m) \o Flat(G, k)}
<1>0. Flat(F, m) \in Seq(S)
  BY FlatType
<1>1. 0 \in T
  BY <1>0, FlatZero
<1>2. ASSUME NEW k \in Nat, k \in T
      PROVE  k + 1 \in T
  <2> SUFFICES ASSUME k + 1 <= n
               PROVE  Flat(F, m + (k + 1)) = Flat(F, m) \o Flat(G, k + 1)
    OBVIOUS
  <2>1. /\ F[1] \in Seq(S) /\ F[(m + k) + 1] \in Seq(S) /\ m + k \in Nat
        /\ m + (k + 1) = (m + k) + 1 /\ m + 1 \in 1..(m + n) /\ 1 \in 1..n
    OBVIOUS
  <2>2. G[1] \in Seq(S) /\ G[k + 1] = F[(m + k) + 1]
    BY <2>1
  <2>3. Flat(G, k) \in Seq(S)
    <3>1. \A i \in 1..k : G[i] \in Seq(S)
      OBVIOUS
    <3> HIDE DEF G
    <3> QED
      BY <3>1, FlatType
  <2> HIDE DEF G
  <2>4. Flat(F, (m + k) + 1) = Flat(F, m + k) \o F[(m + k) + 1]
    BY <2>1, FlatNext
  <2>5. Flat(G, k + 1) = Flat(G, k) \o G[k + 1]
    BY <2>2, FlatNext
  <2>6. Flat(F, m + k) = Flat(F, m) \o Flat(G, k)
    BY <1>2
  <2>7. (Flat(F, m) \o Flat(G, k)) \o G[k + 1] = Flat(F, m) \o (Flat(G, k) \o G[k + 1])
    <3> DEFINE s == Flat(F, m)
               t == Flat(G, k)
               u == G[k + 1]
    <3>1. s \in Seq(S) /\ t \in Seq(S) /\ u \in Seq(S)
      BY <1>0, <2>1, <2>2, <2>3
    <3> HIDE DEF s, t, u
    <3>2. (s \o t) \o u = s \o (t \o u)
      BY <3>1, ConcatAssociative
    <3> QED
      BY <3>2 DEF s, t, u
  <2> QED
    BY <2>1, <2>2, <2>4, <2>5, <2>6, <2>7
<1>3. Nat \subseteq T
  <2> HIDE DEF T
  <2> QED
    BY <1>1, <1>2, NatSteps
<1>4. n \in T
  BY <1>3
<1> QED
  BY <1>4

(* Rows after the m-th that are empty.                                      *)
LEMMA FlatCut ==
    ASSUME NEW S, NEW m \in Nat, NEW n \in Nat, m <= n, NEW F, \A i \in 1..m : F[i] \in Seq(S),
           \A i \in 1..n : i > m => F[i] = <<>>
    PROVE  Flat(F, n) = Flat(F, m)
<1>1. PICK d \in Nat : n = m + d
  <2>1. n - m \in Nat /\ n = m + (n - m)
    OBVIOUS
  <2> QED
    BY <2>1
<1>2. \A i \in 1..(m + d) : F[i] \in Seq(S)
  <2> SUFFICES ASSUME NEW i \in 1..(m + d) PROVE F[i] \in Seq(S)
    OBVIOUS
  <2>1. i \in 1..m \/ F[i] = <<>>
    BY <1>1
  <2> QED
    BY <2>1, EmptySeq
<1> DEFINE G == [i \in 1..d |-> F[m + i]]
<1>3. Flat(G, d) = <<>>
  <2>1. \A i \in 1..d : G[i] = <<>>
    BY <1>1
  <2> HIDE DEF G
  <2> QED
    BY <2>1, FlatEmpty
<1>4. Flat(F, m + d) = Flat(F, m) \o Flat(G, d)
  BY <1>2, FlatSplit
<1>5. Flat(F, m) \in Seq(S)
  BY FlatType
<1> HIDE DEF G
<1> QED
  BY <1>1, <1>3, <1>4, <1>5, ConcatEmptySeq

(* Only row j has anything in it.                                           *)
LEMMA FlatOne ==
    ASSUME NEW S, NEW n \in Nat, NEW F, NEW j \in 1..n, F[j] \in Seq(S),
           \A i \in 1..n \ {j} : F[i] = <<>>
    PROVE  Flat(F, n) = F[j]
<1>1. \A i \in 1..n : F[i] \in Seq(S)
  BY EmptySeq
<1>2. PICK c \in Nat : j = c + 1
  <2>1. j - 1 \in Nat /\ j = (j - 1) + 1
    OBVIOUS
  <2> QED
    BY <2>1
<1>3. Flat(F, c) = <<>>
  <2>1. \A i \in 1..c : F[i] = <<>>
    BY <1>2
  <2> QED
    BY <2>1, FlatEmpty
<1>4. Flat(F, n) = Flat(F, j)
  <2>1. j \in Nat /\ j <= n /\ (\A i \in 1..j : F[i] \in Seq(S))
        /\ (\A i \in 1..n : i > j => F[i] = <<>>)
    BY <1>1
  <2> QED
    BY <2>1, FlatCut
<1>5. Flat(F, j) = Flat(F, c) \o F[j]
  <2>1. F[1] \in Seq(S)
    BY <1>1
  <2> QED
    BY <1>2, <2>1, FlatNext
<1> QED
  BY <1>3, <1>4, <1>5, ConcatEmptySeq

(* What P makes of each element of s, end to end.                           *)
Picks(P, D, R) == \A x \in D : P[x] \in Seq(R)
Picked(P, s) == Flat([i \in 1..Len(s) |-> P[s[i]]], Len(s))

LEMMA PickedType ==
    ASSUME NEW D, NEW R, NEW P, Picks(P, D, R), NEW s \in Seq(D)
    PROVE  Picked(P, s) \in Seq(R)
<1> DEFINE F == [i \in 1..Len(s) |-> P[s[i]]]
<1>1. Len(s) \in Nat /\ \A i \in 1..Len(s) : F[i] \in Seq(R)
  BY LenProperties, ElementOfSeq DEF Picks
<1> HIDE DEF F
<1>2. Flat(F, Len(s)) \in Seq(R)
  BY <1>1, FlatType
<1> QED
  BY <1>2 DEF Picked, F

LEMMA PickedOne ==
    ASSUME NEW R, NEW P, NEW x, P[x] \in Seq(R)
    PROVE  Picked(P, <<x>>) = P[x]
<1> DEFINE F == [i \in 1..1 |-> P[<<x>>[i]]]
<1>1. F[1] = P[x] /\ F[0 + 1] = P[x] /\ 0 + 1 = 1
  OBVIOUS
<1> HIDE DEF F
<1>2. Flat(F, 0 + 1) = Flat(F, 0) \o F[0 + 1]
  BY <1>1, FlatNext
<1>3. Flat(F, 1) = P[x]
  BY <1>1, <1>2, FlatZero, ConcatEmptySeq
<1>4. Len(<<x>>) = 1
  OBVIOUS
<1> QED
  BY <1>3, <1>4 DEF Picked, F

LEMMA PickedEmpty == ASSUME NEW P PROVE Picked(P, <<>>) = <<>>
BY FlatZero DEF Picked

LEMMA PickedConcat ==
    ASSUME NEW D, NEW R, NEW P, Picks(P, D, R), NEW s \in Seq(D), NEW t \in Seq(D)
    PROVE  Picked(P, s \o t) = Picked(P, s) \o Picked(P, t)
<1> DEFINE m == Len(s)
           n == Len(t)
           F == [i \in 1..(m + n) |-> P[(s \o t)[i]]]
           G == [i \in 1..n |-> F[m + i]]
<1>1. m \in Nat /\ n \in Nat /\ Len(s \o t) = m + n /\ s \o t \in Seq(D)
  BY LenProperties, ConcatProperties
<1>2. \A i \in 1..(m + n) : F[i] \in Seq(R)
  BY <1>1, ElementOfSeq DEF Picks
<1>3. \A i \in 1..m : F[i] = P[s[i]]
  BY <1>1, ConcatProperties
<1>4. \A i \in 1..n : G[i] = P[t[i]]
  BY <1>1, ConcatProperties
<1>5. Picked(P, s \o t) = Flat(F, m + n)
  BY <1>1 DEF Picked
<1> HIDE DEF F, m, n
<1>6. Flat(F, m + n) = Flat(F, m) \o Flat(G, n)
  BY <1>1, <1>2, FlatSplit
<1> HIDE DEF G
<1>7. Flat(F, m) = Picked(P, s)
  <2>1. Flat(F, m) = Flat([i \in 1..m |-> P[s[i]]], m)
    BY <1>1, <1>3, FlatSame
  <2> QED
    BY <2>1 DEF Picked, m
<1>8. Flat(G, n) = Picked(P, t)
  <2>1. Flat(G, n) = Flat([i \in 1..n |-> P[t[i]]], n)
    BY <1>1, <1>4, FlatSame
  <2> QED
    BY <2>1 DEF Picked, n
<1> QED
  BY <1>5, <1>6, <1>7, <1>8

(* Picking from rows put end to end is picking from each.                   *)
LEMMA PickedFlat ==
    ASSUME NEW D, NEW R, NEW P, Picks(P, D, R),
           NEW n \in Nat, NEW G, \A b \in 1..n : G[b] \in Seq(D),
           NEW H, \A b \in 1..n : H[b] = Picked(P, G[b])
    PROVE  Picked(P, Flat(G, n)) = Flat(H, n)
<1> DEFINE T == {m \in Nat : m <= n => Picked(P, Flat(G, m)) = Flat(H, m)}
<1>1. 0 \in T
  BY FlatZero, PickedEmpty
<1>2. ASSUME NEW m \in Nat, m \in T
      PROVE  m + 1 \in T
  <2> SUFFICES ASSUME m + 1 <= n
               PROVE  Picked(P, Flat(G, m + 1)) = Flat(H, m + 1)
    OBVIOUS
  <2>1. G[1] \in Seq(D) /\ G[m + 1] \in Seq(D) /\ 1 \in 1..n /\ m + 1 \in 1..n
        /\ \A b \in 1..m : G[b] \in Seq(D)
    OBVIOUS
  <2>2. H[1] \in Seq(R) /\ H[m + 1] = Picked(P, G[m + 1])
    BY <2>1, PickedType
  <2>3. Flat(G, m + 1) = Flat(G, m) \o G[m + 1] /\ Flat(H, m + 1) = Flat(H, m) \o H[m + 1]
    BY <2>1, <2>2, FlatNext
  <2>4. Flat(G, m) \in Seq(D)
    BY <2>1, FlatType
  <2>5. Picked(P, Flat(G, m) \o G[m + 1]) = Picked(P, Flat(G, m)) \o Picked(P, G[m + 1])
    <3> DEFINE s == Flat(G, m)
               t == G[m + 1]
    <3>1. s \in Seq(D) /\ t \in Seq(D)
      BY <2>1, <2>4
    <3> HIDE DEF s, t
    <3>2. Picked(P, s \o t) = Picked(P, s) \o Picked(P, t)
      BY <3>1, PickedConcat
    <3> QED
      BY <3>2 DEF s, t
  <2>6. Picked(P, Flat(G, m)) = Flat(H, m)
    BY <1>2
  <2> QED
    BY <2>2, <2>3, <2>5, <2>6
<1>3. Nat \subseteq T
  <2> HIDE DEF T
  <2> QED
    BY <1>1, <1>2, NatSteps
<1>4. n \in T
  BY <1>3
<1> QED
  BY <1>4

(* A provider's blocks, and what the client is sent for them, whoever the   *)
(* provider: the start of a tool call, then the fragments, numbered as the  *)
(* adapter numbers its calls; adapters pad what has no content.             *)
Ids    == Nat \X Nat
Frags  == Nat \X Nat \X Nat
Block  == [kind : BlockKinds, id : Ids, frags : Seq(Frags)]
Usages == [call : Nat, prompt : BOOLEAN, completion : BOOLEAN]

DeltaChunk(block, x, i) ==
    CASE block.kind = "text" -> Delta("text", 0, block.frags[i])
      [] block.kind = "tool" -> Delta("args", x, block.frags[i])
      [] OTHER               -> NoChunk
HeadRow(block, x, pad) == IF block.kind = "tool" THEN <<Delta("call", x, block.id)>> ELSE pad
BlockRow(block, x, pad) ==
    HeadRow(block, x, pad) \o [i \in 1..Len(block.frags) |-> DeltaChunk(block, x, i)] \o pad
Rows(C, X, pad) == [b \in 1..Len(C) |-> BlockRow(C[b], X[b], pad)]

Pad(adapter)  == IF adapter = "compat" THEN <<>> ELSE <<NoChunk>>
Index(adapter, C) ==
    [b \in 1..Len(C) |->
        CASE adapter = "anthropic" -> b
          [] adapter = "codex"     -> 0
          [] OTHER                 -> Cardinality({i \in 1..b : C[i].kind = "tool"})]
FirstRow(adapter) == IF adapter = "codex" THEN <<NoChunk>> ELSE <<Delta("role", 0, <<>>)>>

(* A reply that ends without its finish_reason and its usage.               *)
Unfinished(adapter, stop) == stop = "failed" \/ (adapter = "codex" /\ stop = "max_tokens")
LastRow(adapter, stop, spent) ==
    CASE adapter = "compat" /\ stop = "failed" -> <<>>
      [] adapter = "compat" /\ stop # "failed" ->
            <<Final(AnthropicFinish(stop), NoUsage), Final("none", spent)>>
      [] adapter # "compat" /\ Unfinished(adapter, stop) -> <<NoChunk>>
      [] adapter = "anthropic" /\ stop # "failed" ->
            <<Final(AnthropicFinish(stop), [spent EXCEPT !.prompt = FALSE]), NoChunk>>
      [] OTHER -> <<Final("stop", spent)>>
Middle(adapter, C) == Flat(Rows(C, Index(adapter, C), Pad(adapter)), Len(C))
ClientRow(adapter, response) ==
    FirstRow(adapter) \o Middle(adapter, response.content)
    \o LastRow(adapter, response.stop, response.usage)

LEMMA ResponseType ==
    ASSUME NEW call \in Nat, NEW told \in Reply
    PROVE  LET response == Response(call, told)
           IN  /\ response.content \in Seq(Block) /\ response.stop = told.stop
               /\ told.stop \in Stops
               /\ response.usage \in Usages
               /\ response.usage = IF told.metered
                     THEN [call |-> call, prompt |-> TRUE, completion |-> TRUE] ELSE NoUsage
               /\ response = [content |-> response.content, stop |-> told.stop,
                              usage |-> response.usage]
<1>1. told.blocks \in Seq([kind : BlockKinds, size : Nat]) /\ told.stop \in Stops
      /\ told.metered \in BOOLEAN
  BY DEF Reply
<1>2. \A b \in DOMAIN told.blocks : told.blocks[b].kind \in BlockKinds /\ told.blocks[b].size \in Nat
  <2> DEFINE T == [kind : BlockKinds, size : Nat]
  <2>1. told.blocks \in Seq(T) /\ \A t \in T : t.kind \in BlockKinds /\ t.size \in Nat
    BY <1>1
  <2> HIDE DEF T
  <2> QED
    BY <2>1, LenProperties, ElementOfSeq
<1>3. DOMAIN told.blocks = 1..Len(told.blocks) /\ Len(told.blocks) \in Nat
  BY <1>1, LenProperties
<1> DEFINE C == [b \in DOMAIN told.blocks |->
                    [kind  |-> told.blocks[b].kind,
                     id    |-> <<call, b>>,
                     frags |-> [i \in 1..told.blocks[b].size |-> <<call, b, i>>]]]
<1>4. ASSUME NEW b \in 1..Len(told.blocks)
      PROVE  C[b] \in Block
  <2>1. [i \in 1..told.blocks[b].size |-> <<call, b, i>>] \in Seq(Frags)
    BY <1>2, <1>3 DEF Frags
  <2> QED
    BY <1>2, <1>3, <2>1 DEF Block, Ids
<1>5. C \in Seq(Block)
  <2>1. C \in [1..Len(told.blocks) -> Block]
    BY <1>3, <1>4
  <2> HIDE DEF C
  <2> QED
    BY <1>3, <2>1, SeqDef
<1>6. Response(call, told).content = C
  BY DEF Response
<1>7. Response(call, told).usage \in Usages
  BY <1>1 DEF Response, NoUsage, Usages
<1> HIDE DEF C
<1> QED
  BY <1>1, <1>5, <1>6, <1>7 DEF Response

--------------------------------------------------------------------------------
(* What the provider's events become, one by one: the rows above.           *)

Whatever == Ids \cup Frags \cup {<<>>}
Bodies(last) == {Nothing, last} \cup Block \cup [usage : Usages]
Typed(types, last) ==
    [type : types, kind : BlockKinds \cup {"none"}, index : Nat, what : Whatever, body : Bodies(last)]
FrontTypes(adapter) ==
    IF adapter = "anthropic"
    THEN {"message_start", "content_block_start", "content_block_delta", "content_block_stop"}
    ELSE {"created", "output_item.added", "output_text.delta", "function_call_arguments.delta",
          "reasoning_summary_text.delta", "output_item.done"}
LastTypes(adapter) ==
    IF adapter = "anthropic" THEN {"error", "message_delta", "message_stop"}
    ELSE {"failed", "incomplete", "completed"}
StartType(adapter) ==
    IF adapter = "anthropic" THEN "content_block_start" ELSE "output_item.added"
DeltaType(adapter) ==
    IF adapter = "anthropic" THEN [kind \in BlockKinds |-> "content_block_delta"]
    ELSE [text      |-> "output_text.delta",
          tool      |-> "function_call_arguments.delta",
          reasoning |-> "reasoning_summary_text.delta"]
StopType(adapter) ==
    IF adapter = "anthropic" THEN "content_block_stop" ELSE "output_item.done"

EventRow(adapter, block, b) ==
    <<Event(StartType(adapter), block.kind, b, block.id, Nothing)>>
    \o [i \in 1..Len(block.frags) |->
          Event(DeltaType(adapter)[block.kind], block.kind, b, block.frags[i], Nothing)]
    \o <<Event(StopType(adapter), block.kind, b, block.id, block)>>
EventRows(adapter, C) == [b \in 1..Len(C) |-> EventRow(adapter, C[b], b)]
FirstEvent(adapter, spent) ==
    IF adapter = "anthropic"
    THEN Lifecycle("message_start", [usage |-> [spent EXCEPT !.completion = FALSE]])
    ELSE Lifecycle("created", Nothing)
LastEvents(adapter, response) ==
    CASE adapter = "anthropic" /\ response.stop = "failed" -> <<Lifecycle("error", Nothing)>>
      [] adapter = "anthropic" /\ response.stop # "failed" ->
            <<Lifecycle("message_delta", [stop  |-> response.stop,
                                          usage |-> [response.usage EXCEPT !.prompt = FALSE]]),
              Lifecycle("message_stop", Nothing)>>
      [] adapter # "anthropic" /\ response.stop = "failed" -> <<Lifecycle("failed", Nothing)>>
      [] adapter # "anthropic" /\ response.stop = "max_tokens" ->
            <<Lifecycle("incomplete", [response EXCEPT !.content = <<>>])>>
      [] OTHER -> <<Lifecycle("completed", [response EXCEPT !.content = <<>>])>>
LastBody(adapter, response) ==
    IF adapter = "anthropic"
    THEN [stop |-> response.stop, usage |-> [response.usage EXCEPT !.prompt = FALSE]]
    ELSE [response EXCEPT !.content = <<>>]

LEMMA BlockParts ==
    ASSUME NEW block \in Block
    PROVE  /\ block.kind \in BlockKinds /\ block.id \in Ids /\ block.frags \in Seq(Frags)
           /\ Len(block.frags) \in Nat /\ DOMAIN block.frags = 1..Len(block.frags)
           /\ \A i \in 1..Len(block.frags) : block.frags[i] \in Frags
<1>1. block.kind \in BlockKinds /\ block.id \in Ids /\ block.frags \in Seq(Frags)
  BY DEF Block
<1> QED
  BY <1>1, LenProperties, ElementOfSeq

LEMMA BlockEventsAre ==
    ASSUME NEW adapter, NEW response, response.content \in Seq(Block)
    PROVE  BlockEvents(response, StartType(adapter), DeltaType(adapter), StopType(adapter))
               = Flat(EventRows(adapter, response.content), Len(response.content))
<1> DEFINE C == response.content
<1>1. C \in Seq(Block) /\ DOMAIN C = 1..Len(C)
  BY LenProperties
<1>2. \A b \in 1..Len(C) : DOMAIN C[b].frags = 1..Len(C[b].frags)
  BY <1>1, ElementOfSeq, BlockParts
<1>3. [b \in DOMAIN C |->
         LET block == C[b]
         IN  <<Event(StartType(adapter), block.kind, b, block.id, Nothing)>>
             \o [i \in DOMAIN block.frags |->
                   Event(DeltaType(adapter)[block.kind], block.kind, b, block.frags[i], Nothing)]
             \o <<Event(StopType(adapter), block.kind, b, block.id, block)>>]
      = [b \in 1..Len(C) |-> EventRow(adapter, C[b], b)]
  BY <1>1, <1>2 DEF EventRow
<1>4. [b \in 1..Len(C) |-> EventRow(adapter, C[b], b)]
      = [b \in 1..Len(C) |-> EventRows(adapter, C)[b]]
  BY DEF EventRows
<1> QED
  BY <1>3, <1>4 DEF BlockEvents, Flat

LEMMA EventRowType ==
    ASSUME NEW adapter \in {"anthropic", "codex"}, NEW block \in Block, NEW b \in Nat, NEW last
    PROVE  LET D == Typed(FrontTypes(adapter), last)
               s == Event(StartType(adapter), block.kind, b, block.id, Nothing)
               t == [i \in 1..Len(block.frags) |->
                       Event(DeltaType(adapter)[block.kind], block.kind, b, block.frags[i], Nothing)]
               z == Event(StopType(adapter), block.kind, b, block.id, block)
           IN  s \in D /\ t \in Seq(D) /\ z \in D /\ EventRow(adapter, block, b) \in Seq(D)
<1> DEFINE D == Typed(FrontTypes(adapter), last)
           s == Event(StartType(adapter), block.kind, b, block.id, Nothing)
           t == [i \in 1..Len(block.frags) |->
                   Event(DeltaType(adapter)[block.kind], block.kind, b, block.frags[i], Nothing)]
           z == Event(StopType(adapter), block.kind, b, block.id, block)
<1>1. s \in D
  BY BlockParts DEF Typed, Event, FrontTypes, StartType, Whatever, Bodies
<1>2. z \in D
  BY BlockParts DEF Typed, Event, FrontTypes, StopType, Whatever, Bodies
<1>3. DeltaType(adapter)[block.kind] \in FrontTypes(adapter)
  BY BlockParts DEF DeltaType, FrontTypes, BlockKinds
<1>4. \A i \in 1..Len(block.frags) : t[i] \in D
  BY <1>3, BlockParts DEF Typed, Event, Whatever, Bodies
<1>5. t \in Seq(D)
  <2>1. t \in [1..Len(block.frags) -> D]
    BY <1>4
  <2> HIDE DEF t
  <2> QED
    BY <2>1, BlockParts, SeqDef
<1>6. EventRow(adapter, block, b) = <<s>> \o t \o <<z>>
  BY DEF EventRow
<1> HIDE DEF s, t, z, D
<1>7. <<s>> \o t \o <<z>> \in Seq(D)
  BY <1>1, <1>2, <1>5, ConcatProperties
<1> QED
  BY <1>1, <1>2, <1>5, <1>6, <1>7 DEF s, t, z, D

(* Picking one for each.                                                    *)
LEMMA PickedSingles ==
    ASSUME NEW D, NEW P, NEW f, \A x \in D : P[x] = <<f[x]>>, NEW s \in Seq(D)
    PROVE  Picked(P, s) = [i \in 1..Len(s) |-> f[s[i]]]
<1> DEFINE F == [i \in 1..Len(s) |-> P[s[i]]]
           g == [i \in 1..Len(s) |-> f[s[i]]]
<1>1. Len(s) \in Nat /\ \A i \in 1..Len(s) : F[i] = <<g[i]>>
  BY LenProperties, ElementOfSeq
<1>2. g = [i \in 1..Len(s) |-> g[i]]
  OBVIOUS
<1> HIDE DEF F, g
<1>3. Flat(F, Len(s)) = [i \in 1..Len(s) |-> g[i]]
  BY <1>1, FlatSingles
<1> QED
  BY <1>2, <1>3 DEF Picked, F, g

LEMMA EventRowBecomes ==
    ASSUME NEW adapter \in {"anthropic", "codex"}, NEW block \in Block, NEW b \in Nat, NEW last,
           NEW D, Typed(FrontTypes(adapter), last) \subseteq D,
           NEW P, \A e \in D : P[e] = <<FromEvent(adapter, e)>>
    PROVE  Picked(P, EventRow(adapter, block, b))
               = BlockRow(block, IF adapter = "anthropic" THEN b ELSE 0, Pad(adapter))
<1> DEFINE f == [e \in D |-> FromEvent(adapter, e)]
           R == {FromEvent(adapter, e) : e \in D}
           s == Event(StartType(adapter), block.kind, b, block.id, Nothing)
           t == [i \in 1..Len(block.frags) |->
                   Event(DeltaType(adapter)[block.kind], block.kind, b, block.frags[i], Nothing)]
           z == Event(StopType(adapter), block.kind, b, block.id, block)
           x == IF adapter = "anthropic" THEN b ELSE 0
<1>1. s \in D /\ z \in D /\ t \in Seq(D)
  <2>1. \A u : u \in Seq(Typed(FrontTypes(adapter), last)) => u \in Seq(D)
    BY SeqDef
  <2> HIDE DEF s, t, z
  <2> QED
    BY <2>1, EventRowType DEF s, t, z
<1>2. EventRow(adapter, block, b) = <<s>> \o t \o <<z>>
  BY DEF EventRow
<1>3. \A e \in D : P[e] = <<f[e]>>
  OBVIOUS
<1>14. Picks(P, D, R)
  <2> SUFFICES ASSUME NEW e \in D PROVE P[e] \in Seq(R)
    BY DEF Picks
  <2>1. FromEvent(adapter, e) \in R /\ P[e] = <<FromEvent(adapter, e)>>
    OBVIOUS
  <2> HIDE DEF R
  <2> QED
    BY <2>1
<1>4. <<FromEvent(adapter, s)>> = HeadRow(block, x, Pad(adapter))
  BY BlockParts DEF FromEvent, AnthropicChunk, CodexChunk, Event, StartType, HeadRow, Pad, BlockKinds
<1>5. <<FromEvent(adapter, z)>> = Pad(adapter)
  BY BlockParts DEF FromEvent, AnthropicChunk, CodexChunk, Event, StopType, Pad, BlockKinds
<1>6. \A i \in 1..Len(block.frags) : FromEvent(adapter, t[i]) = DeltaChunk(block, x, i)
  <2> SUFFICES ASSUME NEW i \in 1..Len(block.frags)
               PROVE  FromEvent(adapter, t[i]) = DeltaChunk(block, x, i)
    OBVIOUS
  <2> DEFINE type == DeltaType(adapter)[block.kind]
  <2>1. t[i] = Event(type, block.kind, b, block.frags[i], Nothing)
    OBVIOUS
  <2>2. CASE adapter = "anthropic"
    <3>1. type = "content_block_delta" /\ x = b
      BY <2>2, BlockParts DEF DeltaType
    <3> HIDE DEF type, t, x
    <3> QED
      BY <2>1, <2>2, <3>1, BlockParts
         DEF FromEvent, AnthropicChunk, Event, DeltaChunk, BlockKinds
  <2>3. CASE adapter = "codex"
    <3>1. /\ block.kind = "text" => type = "output_text.delta"
          /\ block.kind = "tool" => type = "function_call_arguments.delta"
          /\ block.kind = "reasoning" => type = "reasoning_summary_text.delta"
          /\ x = 0
      BY <2>3 DEF DeltaType
    <3> HIDE DEF type, t, x
    <3> QED
      BY <2>1, <2>3, <3>1, BlockParts DEF FromEvent, CodexChunk, Event, DeltaChunk, BlockKinds
  <2> QED
    BY <2>2, <2>3
<1>7. Len(t) = Len(block.frags)
  BY BlockParts
<1>8. \A i \in 1..Len(t) : t[i] \in D
  BY <1>1, ElementOfSeq
<1>9. HeadRow(block, x, Pad(adapter)) \o [i \in 1..Len(block.frags) |-> DeltaChunk(block, x, i)]
      \o Pad(adapter) = BlockRow(block, x, Pad(adapter))
  BY DEF BlockRow
<1> HIDE DEF s, t, z, R, x, f
<1>10. <<s>> \in Seq(D) /\ <<z>> \in Seq(D)
  BY <1>1
<1>11. Picked(P, <<s>> \o t \o <<z>>) = Picked(P, <<s>>) \o Picked(P, t) \o Picked(P, <<z>>)
  <2> DEFINE u == <<s>>
             v == <<z>>
  <2>1. u \in Seq(D) /\ v \in Seq(D)
    BY <1>10
  <2> HIDE DEF u, v
  <2> DEFINE w == u \o t
  <2>2. w \in Seq(D)
    BY <1>1, <2>1, ConcatProperties
  <2>3. Picked(P, w) = Picked(P, u) \o Picked(P, t)
    BY <1>1, <1>14, <2>1, PickedConcat
  <2>4. Picked(P, w \o v) = Picked(P, w) \o Picked(P, v)
    <3> HIDE DEF w
    <3> QED
      BY <1>1, <1>14, <2>1, <2>2, PickedConcat
  <2> QED
    BY <2>3, <2>4 DEF u, v
<1>12. Picked(P, <<s>>) = <<FromEvent(adapter, s)>> /\ Picked(P, <<z>>) = <<FromEvent(adapter, z)>>
  <2>1. P[s] \in Seq(R) /\ P[z] \in Seq(R) /\ P[s] = <<FromEvent(adapter, s)>>
        /\ P[z] = <<FromEvent(adapter, z)>>
    BY <1>1, <1>14 DEF Picks
  <2> QED
    BY <2>1, PickedOne
<1>13. Picked(P, t) = [i \in 1..Len(block.frags) |-> DeltaChunk(block, x, i)]
  <2>1. \A i \in 1..Len(t) : f[t[i]] = DeltaChunk(block, x, i)
    BY <1>6, <1>7, <1>8 DEF f
  <2>2. Picked(P, t) = [i \in 1..Len(t) |-> f[t[i]]]
    BY <1>1, <1>3, PickedSingles
  <2> QED
    BY <1>7, <2>1, <2>2
<1> QED
  BY <1>2, <1>4, <1>5, <1>9, <1>11, <1>12, <1>13 DEF x

Opening(adapter, C, spent) ==
    <<FirstEvent(adapter, spent)>> \o Flat(EventRows(adapter, C), Len(C))

LEMMA FrontType ==
    ASSUME NEW adapter \in {"anthropic", "codex"}, NEW C \in Seq(Block), NEW last,
           NEW spent \in Usages
    PROVE  LET D == Typed(FrontTypes(adapter), last)
           IN  /\ FirstEvent(adapter, spent) \in D
               /\ \A b \in 1..Len(C) : EventRows(adapter, C)[b] \in Seq(D)
               /\ Flat(EventRows(adapter, C), Len(C)) \in Seq(D)
               /\ Opening(adapter, C, spent) \in Seq(D)
<1> DEFINE D == Typed(FrontTypes(adapter), last)
           s == FirstEvent(adapter, spent)
           t == Flat(EventRows(adapter, C), Len(C))
<1>1. s \in D
  <2>1. [usage |-> [spent EXCEPT !.completion = FALSE]] \in [usage : Usages]
    BY DEF Usages
  <2> QED
    BY <2>1 DEF FirstEvent, Lifecycle, Event, Typed, FrontTypes, Whatever, Bodies
<1>2. Len(C) \in Nat /\ \A b \in 1..Len(C) : C[b] \in Block
  BY LenProperties, ElementOfSeq
<1>3. \A b \in 1..Len(C) : EventRow(adapter, C[b], b) \in Seq(D)
  <2> SUFFICES ASSUME NEW b \in 1..Len(C) PROVE EventRow(adapter, C[b], b) \in Seq(D)
    OBVIOUS
  <2>1. C[b] \in Block /\ b \in Nat
    BY <1>2
  <2> DEFINE c == C[b]
  <2> HIDE DEF c
  <2>2. c \in Block
    BY <2>1 DEF c
  <2>3. EventRow(adapter, c, b) \in Seq(D)
    BY <2>1, <2>2, EventRowType
  <2> QED
    BY <2>3 DEF c
<1>4. \A b \in 1..Len(C) : EventRows(adapter, C)[b] \in Seq(D)
  <2> HIDE DEF D
  <2> QED
    BY <1>3 DEF EventRows
<1> HIDE DEF D, s
<1>5. t \in Seq(D)
  BY <1>2, <1>4, FlatType
<1> HIDE DEF t
<1>6. <<s>> \o t \in Seq(D)
  <2>1. <<s>> \in Seq(D)
    BY <1>1
  <2> QED
    BY <1>5, <2>1, ConcatProperties
<1> QED
  BY <1>1, <1>4, <1>5, <1>6 DEF s, t, D, Opening

LEMMA EventsSplit ==
    ASSUME NEW adapter \in {"anthropic", "codex"}, NEW call \in Nat, NEW told \in Reply
    PROVE  LET response == Response(call, told)
           IN  StreamEvents(adapter, call, told)
                   = Opening(adapter, response.content, response.usage)
                     \o LastEvents(adapter, response)
<1> DEFINE response == Response(call, told)
           C == response.content
<1>1. C \in Seq(Block) /\ response.stop = told.stop
  BY ResponseType
<1>2. BlockEvents(response, StartType(adapter), DeltaType(adapter), StopType(adapter))
          = Flat(EventRows(adapter, C), Len(C))
  <2> HIDE DEF response
  <2> QED
    BY <1>1, BlockEventsAre
<1>3. CASE adapter = "anthropic"
  <2>1. StreamEvents(adapter, call, told)
          = <<FirstEvent(adapter, response.usage)>>
            \o BlockEvents(response, StartType(adapter), DeltaType(adapter), StopType(adapter))
            \o LastEvents(adapter, response)
    BY <1>1, <1>3 DEF StreamEvents, AnthropicEvents, FirstEvent, StartType, DeltaType, StopType,
       LastEvents
  <2> QED
    BY <1>2, <2>1 DEF Opening
<1>4. CASE adapter = "codex"
  <2>1. StreamEvents(adapter, call, told)
          = <<FirstEvent(adapter, response.usage)>>
            \o BlockEvents(response, StartType(adapter), DeltaType(adapter), StopType(adapter))
            \o LastEvents(adapter, response)
    BY <1>1, <1>4 DEF StreamEvents, CodexEvents, FirstEvent, StartType, DeltaType, StopType,
       LastEvents
  <2> QED
    BY <1>2, <2>1 DEF Opening
<1> QED
  BY <1>3, <1>4

LEMMA FrontBecomes ==
    ASSUME NEW adapter \in {"anthropic", "codex"}, NEW C \in Seq(Block), NEW last,
           NEW spent \in Usages,
           NEW D, Typed(FrontTypes(adapter), last) \subseteq D,
           NEW P, \A e \in D : P[e] = <<FromEvent(adapter, e)>>
    PROVE  Picked(P, Opening(adapter, C, spent)) = FirstRow(adapter) \o Middle(adapter, C)
<1> DEFINE R == {FromEvent(adapter, e) : e \in D}
           s == FirstEvent(adapter, spent)
           G == EventRows(adapter, C)
           X == Index(adapter, C)
           n == Len(C)
<1>1. Picks(P, D, R)
  <2> SUFFICES ASSUME NEW e \in D PROVE P[e] \in Seq(R)
    BY DEF Picks
  <2>1. FromEvent(adapter, e) \in R /\ P[e] = <<FromEvent(adapter, e)>>
    OBVIOUS
  <2> HIDE DEF R
  <2> QED
    BY <2>1
<1>2. n \in Nat /\ \A b \in 1..n : C[b] \in Block
  BY LenProperties, ElementOfSeq
<1>3. s \in D /\ Flat(G, n) \in Seq(D) /\ \A b \in 1..n : G[b] \in Seq(D)
  <2>1. \A u : u \in Seq(Typed(FrontTypes(adapter), last)) => u \in Seq(D)
    BY SeqDef
  <2>2. /\ s \in Typed(FrontTypes(adapter), last)
        /\ Flat(G, n) \in Seq(Typed(FrontTypes(adapter), last))
        /\ \A b \in 1..n : G[b] \in Seq(Typed(FrontTypes(adapter), last))
    BY FrontType
  <2> HIDE DEF s, G, n
  <2> QED
    BY <2>1, <2>2
<1>4. <<FromEvent(adapter, s)>> = FirstRow(adapter)
  BY DEF FirstEvent, Lifecycle, Event, FromEvent, AnthropicChunk, CodexChunk, FirstRow
<1>5. Opening(adapter, C, spent) = <<s>> \o Flat(G, n)
  BY DEF Opening
<1>6. \A b \in 1..n : Picked(P, G[b]) = BlockRow(C[b], X[b], Pad(adapter))
  <2> SUFFICES ASSUME NEW b \in 1..n
               PROVE  Picked(P, EventRow(adapter, C[b], b)) = BlockRow(C[b], X[b], Pad(adapter))
    BY DEF EventRows
  <2> DEFINE c == C[b]
             x == IF adapter = "anthropic" THEN b ELSE 0
  <2>1. c \in Block /\ b \in Nat /\ X[b] = x
    BY <1>2 DEF Index
  <2> HIDE DEF c, X
  <2>2. Picked(P, EventRow(adapter, c, b)) = BlockRow(c, x, Pad(adapter))
    BY <2>1, EventRowBecomes
  <2> QED
    BY <2>1, <2>2 DEF c
<1>7. \A b \in 1..n : Rows(C, X, Pad(adapter))[b] = Picked(P, G[b])
  <2> HIDE DEF G, X
  <2> QED
    BY <1>6 DEF Rows
<1> HIDE DEF R, s, G, n, X
<1>8. Picked(P, Flat(G, n)) = Flat(Rows(C, X, Pad(adapter)), n)
  <2> DEFINE H == Rows(C, X, Pad(adapter))
  <2>1. \A b \in 1..n : H[b] = Picked(P, G[b])
    BY <1>7
  <2> HIDE DEF H
  <2>2. Picked(P, Flat(G, n)) = Flat(H, n)
    BY <1>1, <1>2, <1>3, <2>1, PickedFlat
  <2> QED
    BY <2>2 DEF H
<1>10. Picked(P, <<s>>) = FirstRow(adapter)
  <2>1. P[s] = <<FromEvent(adapter, s)>> /\ P[s] \in Seq(R)
    BY <1>1, <1>3 DEF Picks
  <2> QED
    BY <1>4, <2>1, PickedOne
<1>11. Picked(P, <<s>> \o Flat(G, n)) = Picked(P, <<s>>) \o Picked(P, Flat(G, n))
  <2> DEFINE u == <<s>>
             v == Flat(G, n)
  <2>1. u \in Seq(D) /\ v \in Seq(D)
    BY <1>3
  <2> HIDE DEF u, v
  <2>2. Picked(P, u \o v) = Picked(P, u) \o Picked(P, v)
    BY <1>1, <2>1, PickedConcat
  <2> QED
    BY <2>2 DEF u, v
<1> QED
  BY <1>5, <1>8, <1>10, <1>11 DEF Middle, n, X

LEMMA LastEventsBecome ==
    ASSUME NEW adapter \in {"anthropic", "codex"}, NEW call \in Nat, NEW told \in Reply
    PROVE  LET response == Response(call, told)
               L == LastEvents(adapter, response)
           IN  /\ L \in Seq(Typed(LastTypes(adapter), LastBody(adapter, response)))
               /\ [i \in 1..Len(L) |-> FromEvent(adapter, L[i])]
                     = LastRow(adapter, response.stop, response.usage)
<1> DEFINE response == Response(call, told)
           L == LastEvents(adapter, response)
           B == LastBody(adapter, response)
           S == Typed(LastTypes(adapter), B)
<1> HIDE DEF response
<1>1. \A type \in LastTypes(adapter) :
        /\ Lifecycle(type, B) \in S /\ Lifecycle(type, Nothing) \in S
  BY DEF Lifecycle, Event, Typed, Whatever, Bodies
<1> HIDE DEF S
<1>2. CASE adapter = "anthropic" /\ response.stop = "failed"
  <2>1. L = <<Lifecycle("error", Nothing)>>
    BY <1>2 DEF LastEvents
  <2>2. Lifecycle("error", Nothing) \in S
    BY <1>1, <1>2 DEF LastTypes
  <2>3. FromEvent(adapter, Lifecycle("error", Nothing)) = NoChunk
    BY <1>2 DEF FromEvent, AnthropicChunk, Lifecycle, Event
  <2>4. LastRow(adapter, response.stop, response.usage) = <<NoChunk>>
    BY <1>2 DEF LastRow, Unfinished
  <2> QED
    BY <2>1, <2>2, <2>3, <2>4 DEF S, response
<1>3. CASE adapter = "anthropic" /\ response.stop # "failed"
  <2>1. L = <<Lifecycle("message_delta", B), Lifecycle("message_stop", Nothing)>>
    BY <1>3 DEF LastEvents, LastBody
  <2>2. Lifecycle("message_delta", B) \in S /\ Lifecycle("message_stop", Nothing) \in S
    BY <1>1, <1>3 DEF LastTypes
  <2>3. FromEvent(adapter, Lifecycle("message_stop", Nothing)) = NoChunk
    BY <1>3 DEF FromEvent, AnthropicChunk, Lifecycle, Event
  <2>4. FromEvent(adapter, Lifecycle("message_delta", B))
            = Final(AnthropicFinish(response.stop), [response.usage EXCEPT !.prompt = FALSE])
    BY <1>3 DEF FromEvent, AnthropicChunk, Lifecycle, Event, LastBody
  <2>5. LastRow(adapter, response.stop, response.usage)
            = <<Final(AnthropicFinish(response.stop), [response.usage EXCEPT !.prompt = FALSE]),
                NoChunk>>
    BY <1>3 DEF LastRow, Unfinished
  <2> QED
    BY <2>1, <2>2, <2>3, <2>4, <2>5 DEF S, response
<1>4. CASE adapter = "codex" /\ response.stop = "failed"
  <2>1. L = <<Lifecycle("failed", Nothing)>>
    BY <1>4 DEF LastEvents
  <2>2. Lifecycle("failed", Nothing) \in S
    BY <1>1, <1>4 DEF LastTypes
  <2>3. FromEvent(adapter, Lifecycle("failed", Nothing)) = NoChunk
    BY <1>4 DEF FromEvent, CodexChunk, Lifecycle, Event
  <2>4. LastRow(adapter, response.stop, response.usage) = <<NoChunk>>
    BY <1>4 DEF LastRow, Unfinished
  <2> QED
    BY <2>1, <2>2, <2>3, <2>4 DEF S, response
<1>6. CASE adapter = "codex" /\ response.stop = "max_tokens"
  <2>1. L = <<Lifecycle("incomplete", B)>>
    BY <1>6 DEF LastEvents, LastBody
  <2>2. Lifecycle("incomplete", B) \in S
    BY <1>1, <1>6 DEF LastTypes
  <2>3. FromEvent(adapter, Lifecycle("incomplete", B)) = NoChunk
    BY <1>6 DEF FromEvent, CodexChunk, Lifecycle, Event
  <2>4. LastRow(adapter, response.stop, response.usage) = <<NoChunk>>
    BY <1>6 DEF LastRow, Unfinished
  <2> QED
    BY <2>1, <2>2, <2>3, <2>4 DEF S, response
<1>5. CASE adapter = "codex" /\ response.stop \notin {"failed", "max_tokens"}
  <2>1. L = <<Lifecycle("completed", B)>>
    BY <1>5 DEF LastEvents, LastBody
  <2>2. Lifecycle("completed", B) \in S
    BY <1>1, <1>5 DEF LastTypes
  <2>3. B.usage = response.usage
    BY <1>5 DEF LastBody, response, Response
  <2>4. FromEvent(adapter, Lifecycle("completed", B)) = Final("stop", response.usage)
    BY <1>5, <2>3 DEF FromEvent, CodexChunk, Lifecycle, Event
  <2>5. LastRow(adapter, response.stop, response.usage) = <<Final("stop", response.usage)>>
    BY <1>5 DEF LastRow, Unfinished
  <2> QED
    BY <2>1, <2>2, <2>4, <2>5 DEF S, response
<1> QED
  BY <1>2, <1>3, <1>4, <1>5, <1>6

(* What a stream of events becomes for the client, event by event.  After   *)
(* the chunks of a compatible provider comes one more event, its [DONE] or  *)
(* its error.                                                               *)
Shaped(e) ==
    e = [type |-> e.type, kind |-> e.kind, index |-> e.index, what |-> e.what, body |-> e.body]
IsMetered(chunk) ==
    chunk = [delta |-> chunk.delta, index |-> chunk.index, what |-> chunk.what,
             finish |-> chunk.finish, usage |-> chunk.usage]
Passed(adapter, e) == e.type # "[DONE]" /\ IsChunk(adapter, e)
Sendable(adapter, e) == Passed(adapter, e) /\ (adapter = "compat" => IsMetered(e.body))
Becomes(adapter, E, W) ==
    /\ Len(E) \in Nat /\ Len(W) \in Nat
    /\ Len(E) = Len(W) + (IF adapter = "compat" THEN 1 ELSE 0)
    /\ \A i \in 1..Len(W) : FromEvent(adapter, E[i]) = W[i] /\ Sendable(adapter, E[i])
    /\ \A i \in 1..Len(E) : Shaped(E[i])
    /\ adapter = "compat" => E[Len(E)].type \in {"[DONE]", "error"}

LEMMA PipedBecomes ==
    ASSUME NEW adapter \in {"anthropic", "codex"}, NEW call \in Nat, NEW told \in Reply
    PROVE  Becomes(adapter, StreamEvents(adapter, call, told),
                   ClientRow(adapter, Response(call, told)))
<1> DEFINE response == Response(call, told)
           C == response.content
           B == LastBody(adapter, response)
           D == Typed(FrontTypes(adapter) \cup LastTypes(adapter), B)
           P == [e \in D |-> <<FromEvent(adapter, e)>>]
           f == [e \in D |-> FromEvent(adapter, e)]
           R == {FromEvent(adapter, e) : e \in D}
           spent == response.usage
           F == Opening(adapter, C, spent)
           L == LastEvents(adapter, response)
           E == StreamEvents(adapter, call, told)
           W == ClientRow(adapter, response)
           last == LastRow(adapter, response.stop, response.usage)
<1>1. C \in Seq(Block) /\ spent \in Usages
  BY ResponseType
<1>2. E = F \o L
  BY EventsSplit
<1>3. /\ L \in Seq(Typed(LastTypes(adapter), B))
      /\ [i \in 1..Len(L) |-> FromEvent(adapter, L[i])] = last
  BY LastEventsBecome
<1>4. W = FirstRow(adapter) \o Middle(adapter, C) \o last
  BY DEF ClientRow
<1>5. /\ Typed(FrontTypes(adapter), B) \subseteq D
      /\ Typed(LastTypes(adapter), B) \subseteq D
  BY DEF Typed
<1>6. \A e \in D : P[e] = <<FromEvent(adapter, e)>> /\ P[e] = <<f[e]>> /\ f[e] = FromEvent(adapter, e)
  OBVIOUS
<1>7. Picks(P, D, R)
  <2> SUFFICES ASSUME NEW e \in D PROVE P[e] \in Seq(R)
    BY DEF Picks
  <2>1. FromEvent(adapter, e) \in R /\ P[e] = <<FromEvent(adapter, e)>>
    OBVIOUS
  <2> HIDE DEF R, P
  <2> QED
    BY <2>1
<1>8. \A e \in D : Sendable(adapter, e) /\ Shaped(e)
  <2> HIDE DEF B
  <2> QED
    BY DEF Typed, FrontTypes, LastTypes, Sendable, Passed, Shaped, IsChunk
<1> HIDE DEF E, W, L, last, response, B
<1>9. F \in Seq(Typed(FrontTypes(adapter), B))
  <2> HIDE DEF C, spent
  <2> QED
    BY <1>1, FrontType
<1> HIDE DEF D, R, f
<1>10. Picked(P, F) = FirstRow(adapter) \o Middle(adapter, C)
  <2>1. \A e \in D : P[e] = <<FromEvent(adapter, e)>>
    BY <1>6
  <2>2. Typed(FrontTypes(adapter), B) \subseteq D
    BY <1>5
  <2> HIDE DEF P, C, spent
  <2> QED
    BY <1>1, <2>1, <2>2, FrontBecomes
<1> HIDE DEF P, F, C, spent
<1>11. F \in Seq(D) /\ L \in Seq(D)
  <2>1. \A S : S \subseteq D => \A u \in Seq(S) : u \in Seq(D)
    BY SeqDef
  <2> QED
    BY <1>3, <1>5, <1>9, <2>1
<1>12. Picked(P, L) = last
  <2>1. Picked(P, L) = [i \in 1..Len(L) |-> f[L[i]]]
    BY <1>6, <1>11, PickedSingles
  <2>2. \A i \in 1..Len(L) : f[L[i]] = FromEvent(adapter, L[i])
    BY <1>6, <1>11, ElementOfSeq
  <2> QED
    BY <1>3, <2>1, <2>2
<1>13. E \in Seq(D)
  BY <1>2, <1>11, ConcatProperties
<1>14. Picked(P, E) = Picked(P, F) \o Picked(P, L)
  BY <1>2, <1>7, <1>11, PickedConcat
<1>15. Picked(P, E) = W
  BY <1>4, <1>10, <1>12, <1>14
<1>16. W = [i \in 1..Len(E) |-> f[E[i]]]
  BY <1>6, <1>13, <1>15, PickedSingles
<1>17. Len(E) \in Nat /\ \A i \in 1..Len(E) : E[i] \in D
  BY <1>13, LenProperties, ElementOfSeq
<1>18. Len(W) = Len(E)
  BY <1>16, <1>17
<1>19. /\ \A i \in 1..Len(W) : FromEvent(adapter, E[i]) = W[i] /\ Sendable(adapter, E[i])
       /\ \A i \in 1..Len(E) : Shaped(E[i])
  BY <1>6, <1>8, <1>16, <1>17, <1>18
<1>20. adapter # "compat"
  OBVIOUS
<1> QED
  BY <1>17, <1>18, <1>19, <1>20 DEF Becomes, E, W, response

--------------------------------------------------------------------------------
(* What the client's row is made of: only its end tells how it finished and *)
(* what was used.                                                           *)

Deltas  == {"role", "text", "call", "args", "dropped"}
Quiet   == [delta : Deltas, index : Nat, what : Whatever, finish : {"none"}, usage : {NoUsage}]
Ending  == [delta : {"none", "dropped"}, index : Nat, what : Whatever,
            finish : {"none", "stop", "length", "tool_calls"}, usage : Usages]
Reported(adapter, all) == IF adapter = "anthropic" THEN [all EXCEPT !.prompt = FALSE] ELSE all

LEMMA QuietChunks ==
    /\ NoChunk \in Quiet
    /\ \A x \in Nat, w \in Whatever, d \in Deltas : Delta(d, x, w) \in Quiet
BY DEF NoChunk, Delta, Quiet, Deltas, Whatever

LEMMA IndexType ==
    ASSUME NEW adapter, NEW C, Len(C) \in Nat
    PROVE  \A b \in 1..Len(C) : Index(adapter, C)[b] \in Nat
<1> SUFFICES ASSUME NEW b \in 1..Len(C) PROVE Index(adapter, C)[b] \in Nat
  OBVIOUS
<1> DEFINE S == {i \in 1..b : C[i].kind = "tool"}
<1>1. IsFiniteSet(1..b) /\ S \subseteq 1..b
  BY FS_Interval
<1> HIDE DEF S
<1>2. Cardinality(S) \in Nat
  BY <1>1, FS_Subset, FS_CardinalityType
<1> QED
  BY <1>2 DEF Index, S

LEMMA BlockRowType ==
    ASSUME NEW block \in Block, NEW x \in Nat, NEW pad \in Seq(Quiet)
    PROVE  /\ HeadRow(block, x, pad) \in Seq(Quiet)
           /\ [i \in 1..Len(block.frags) |-> DeltaChunk(block, x, i)] \in Seq(Quiet)
           /\ BlockRow(block, x, pad) \in Seq(Quiet)
<1> DEFINE h == HeadRow(block, x, pad)
           t == [i \in 1..Len(block.frags) |-> DeltaChunk(block, x, i)]
<1>1. h \in Seq(Quiet)
  <2>1. Delta("call", x, block.id) \in Quiet
    BY QuietChunks, BlockParts DEF Whatever, Deltas
  <2> QED
    BY <2>1 DEF HeadRow
<1>2. \A i \in 1..Len(block.frags) : DeltaChunk(block, x, i) \in Quiet
  BY QuietChunks, BlockParts DEF Whatever, Deltas, DeltaChunk
<1>3. t \in Seq(Quiet)
  <2>1. t \in [1..Len(block.frags) -> Quiet]
    BY <1>2
  <2> HIDE DEF t
  <2> QED
    BY <2>1, BlockParts, SeqDef
<1> HIDE DEF h, t
<1>4. h \o t \in Seq(Quiet)
  BY <1>1, <1>3, ConcatProperties
<1> DEFINE u == h \o t
<1> HIDE DEF u
<1>5. u \o pad \in Seq(Quiet)
  BY <1>4, ConcatProperties DEF u
<1> QED
  BY <1>1, <1>3, <1>5 DEF u, h, t, BlockRow

LEMMA RowsType ==
    ASSUME NEW adapter \in Adapters, NEW C \in Seq(Block)
    PROVE  /\ FirstRow(adapter) \in Seq(Quiet) /\ Len(FirstRow(adapter)) = 1
           /\ Pad(adapter) \in Seq(Quiet)
           /\ \A b \in 1..Len(C) : Rows(C, Index(adapter, C), Pad(adapter))[b] \in Seq(Quiet)
           /\ Middle(adapter, C) \in Seq(Quiet)
<1> DEFINE pad == Pad(adapter)
           X == Index(adapter, C)
           F == Rows(C, X, pad)
<1>1. FirstRow(adapter) \in Seq(Quiet) /\ Len(FirstRow(adapter)) = 1
  BY QuietChunks DEF FirstRow, Deltas, Whatever
<1>2. pad \in Seq(Quiet)
  BY QuietChunks, EmptySeq DEF Pad
<1>3. Len(C) \in Nat /\ \A b \in 1..Len(C) : C[b] \in Block
  BY LenProperties, ElementOfSeq
<1> HIDE DEF pad
<1>4. \A b \in 1..Len(C) : F[b] \in Seq(Quiet)
  <2> SUFFICES ASSUME NEW b \in 1..Len(C) PROVE F[b] \in Seq(Quiet)
    OBVIOUS
  <2>1. X[b] \in Nat /\ C[b] \in Block
    BY <1>3, IndexType
  <2>2. F[b] = BlockRow(C[b], X[b], pad)
    BY DEF Rows
  <2> DEFINE c == C[b]
             x == X[b]
  <2> HIDE DEF c, x
  <2>3. BlockRow(c, x, pad) \in Seq(Quiet)
    BY <1>2, <2>1, BlockRowType DEF c, x
  <2> QED
    BY <2>2, <2>3 DEF c, x
<1> HIDE DEF F
<1>5. Flat(F, Len(C)) \in Seq(Quiet)
  BY <1>3, <1>4, FlatType
<1> QED
  BY <1>1, <1>2, <1>4, <1>5 DEF Middle, F, pad

LEMMA LastRowIs ==
    ASSUME NEW adapter \in Adapters, NEW stop \in Stops, NEW spent \in Usages
    PROVE  LET L == LastRow(adapter, stop, spent)
           IN  /\ L \in Seq(Ending) /\ Len(L) \in {0, 1, 2}
               /\ \A i \in 1..Len(L) : L[i].usage \in {NoUsage, Reported(adapter, spent)}
               /\ ~Unfinished(adapter, stop) =>
                     \E i \in 1..Len(L) : L[i].usage = Reported(adapter, spent)
<1> DEFINE L == LastRow(adapter, stop, spent)
           D == NoChunk
<1>1. NoUsage \in Usages /\ Reported(adapter, spent) \in Usages
  BY DEF NoUsage, Usages, Reported
<1>2. D \in Ending /\ D.usage = NoUsage
  BY <1>1 DEF NoChunk, Delta, Ending, Whatever
<1>3. \A finish \in {"none", "stop", "length", "tool_calls"}, u \in Usages :
        Final(finish, u) \in Ending /\ Final(finish, u).usage = u
  BY DEF Final, Ending, Whatever
<1>4. AnthropicFinish(stop) \in {"stop", "length", "tool_calls"}
  BY DEF AnthropicFinish
<1> DEFINE a == Final(AnthropicFinish(stop), NoUsage)
           b == Final("none", spent)
           c == Final(AnthropicFinish(stop), [spent EXCEPT !.prompt = FALSE])
           d == Final("stop", spent)
<1>9. CASE adapter = "compat" /\ stop = "failed"
  <2>1. L = <<>>
    BY <1>9 DEF LastRow
  <2>2. L \in Seq(Ending) /\ Len(L) = 0
    BY <2>1, EmptySeq
  <2> HIDE DEF L
  <2> QED
    BY <1>9, <2>2 DEF L, Unfinished
<1>5. CASE adapter = "compat" /\ stop # "failed"
  <2>1. Reported(adapter, spent) = spent
    BY <1>5 DEF Reported
  <2>2. a \in Ending /\ b \in Ending /\ a.usage = NoUsage /\ b.usage = spent
    BY <1>1, <1>3, <1>4
  <2>3. L = <<a, b>>
    BY <1>5 DEF LastRow
  <2> HIDE DEF a, b, L
  <2> QED
    BY <2>1, <2>2, <2>3 DEF L
<1>6. CASE adapter # "compat" /\ Unfinished(adapter, stop)
  <2>1. L = <<D>>
    BY <1>6 DEF LastRow, Unfinished
  <2> HIDE DEF D, L
  <2>2. L \in Seq(Ending) /\ Len(L) = 1 /\ L[1] = D
    BY <1>2, <2>1
  <2> QED
    BY <1>2, <1>6, <2>2 DEF L
<1>7. CASE adapter = "anthropic" /\ stop # "failed"
  <2>1. Reported(adapter, spent) = [spent EXCEPT !.prompt = FALSE]
    BY <1>7 DEF Reported
  <2>2. c \in Ending /\ c.usage = Reported(adapter, spent)
    BY <1>1, <1>3, <1>4, <2>1
  <2>3. L = <<c, D>>
    BY <1>7 DEF LastRow, Unfinished
  <2> HIDE DEF c, D, L
  <2> QED
    BY <1>2, <2>2, <2>3 DEF L
<1>8. CASE adapter = "codex" /\ ~Unfinished(adapter, stop)
  <2>1. Reported(adapter, spent) = spent
    BY <1>8 DEF Reported
  <2>2. d \in Ending /\ d.usage = spent
    BY <1>1, <1>3
  <2>3. L = <<d>>
    BY <1>8 DEF LastRow
  <2> HIDE DEF d, L
  <2> QED
    BY <2>1, <2>2, <2>3 DEF L
<1> QED
  BY <1>5, <1>6, <1>7, <1>8, <1>9 DEF Adapters, Unfinished

LEMMA ClientRowIs ==
    ASSUME NEW adapter \in Adapters, NEW call \in Nat, NEW told \in Reply
    PROVE  LET response == Response(call, told)
               W == ClientRow(adapter, response)
           IN  /\ W \in Seq(Quiet \cup Ending) /\ Len(W) \in Nat
               /\ \A i \in 1..Len(W) : W[i].usage \in {NoUsage, Reported(adapter, response.usage)}
               /\ ~Unfinished(adapter, told.stop) =>
                     \E i \in 1..Len(W) : W[i].usage = Reported(adapter, response.usage)
<1> DEFINE response == Response(call, told)
           C == response.content
           u == response.usage
           s == FirstRow(adapter)
           t == Middle(adapter, C)
           L == LastRow(adapter, response.stop, u)
           S == Quiet \cup Ending
           R == Reported(adapter, u)
<1>1. C \in Seq(Block) /\ response.stop = told.stop /\ told.stop \in Stops /\ u \in Usages
  BY ResponseType
<1>2. ClientRow(adapter, response) = s \o t \o L
  BY DEF ClientRow
<1> HIDE DEF response, C, u
<1>3. s \in Seq(Quiet) /\ t \in Seq(Quiet)
  BY <1>1, RowsType
<1>4. /\ L \in Seq(Ending)
      /\ \A i \in 1..Len(L) : L[i].usage \in {NoUsage, R}
      /\ ~Unfinished(adapter, told.stop) => \E i \in 1..Len(L) : L[i].usage = R
  BY <1>1, LastRowIs
<1>5. \A c \in Quiet : c.usage = NoUsage
  BY DEF Quiet
<1> HIDE DEF s, t, L, R
<1>6. s \in Seq(S) /\ t \in Seq(S) /\ L \in Seq(S)
  <2>1. \A T : T \subseteq S => \A v \in Seq(T) : v \in Seq(S)
    BY SeqDef
  <2>2. Quiet \subseteq S /\ Ending \subseteq S
    OBVIOUS
  <2> HIDE DEF S
  <2> QED
    BY <1>3, <1>4, <2>1, <2>2
<1> DEFINE v == s \o t
<1> HIDE DEF S
<1>7. v \in Seq(Quiet) /\ v \in Seq(S)
  BY <1>3, <1>6, ConcatProperties
<1> HIDE DEF v
<1>8. v \o L \in Seq(S) /\ Len(v \o L) = Len(v) + Len(L) /\ Len(v) \in Nat /\ Len(L) \in Nat
  BY <1>6, <1>7, ConcatProperties, LenProperties
<1>9. \A i \in 1..Len(v \o L) :
        (v \o L)[i] = IF i <= Len(v) THEN v[i] ELSE L[i - Len(v)]
  BY <1>6, <1>7, ConcatProperties
<1>10. \A i \in 1..Len(v) : v[i].usage = NoUsage
  BY <1>5, <1>7, ElementOfSeq
<1> DEFINE W == v \o L
<1> HIDE DEF W
<1>11. Len(W) = Len(v) + Len(L) /\ W \in Seq(S)
      /\ \A i \in 1..Len(W) : W[i] = IF i <= Len(v) THEN v[i] ELSE L[i - Len(v)]
  BY <1>8, <1>9 DEF W
<1>12. \A i \in 1..Len(W) : W[i].usage \in {NoUsage, R}
  <2> SUFFICES ASSUME NEW i \in 1..Len(W) PROVE W[i].usage \in {NoUsage, R}
    OBVIOUS
  <2>1. CASE i <= Len(v)
    BY <1>8, <1>10, <1>11, <2>1
  <2>2. CASE ~(i <= Len(v))
    <3>1. i - Len(v) \in 1..Len(L) /\ W[i] = L[i - Len(v)]
      BY <1>8, <1>11, <2>2
    <3> QED
      BY <1>4, <3>1
  <2> QED
    BY <2>1, <2>2
<1>13. ASSUME ~Unfinished(adapter, told.stop)
       PROVE  \E i \in 1..Len(W) : W[i].usage = R
  <2>1. PICK j \in 1..Len(L) : L[j].usage = R
    BY <1>4, <1>13
  <2>2. Len(v) + j \in 1..Len(W) /\ ~(Len(v) + j <= Len(v)) /\ (Len(v) + j) - Len(v) = j
    BY <1>8, <1>11
  <2>3. W[Len(v) + j] = L[j]
    BY <1>11, <2>2
  <2> QED
    BY <2>1, <2>2, <2>3
<1>14. Len(W) \in Nat
  BY <1>8, <1>11
<1> QED
  BY <1>2, <1>11, <1>12, <1>13, <1>14 DEF W, v, R, S, u, response

CompatEnd(stop) == IF stop = "failed" THEN "error" ELSE "[DONE]"

LEMMA CompatRow ==
    ASSUME NEW call \in Nat, NEW told \in Reply
    PROVE  LET W == ClientRow("compat", Response(call, told))
           IN  StreamEvents("compat", call, told)
                  = [i \in DOMAIN W |-> Lifecycle("chunk", W[i])]
                    \o <<Lifecycle(CompatEnd(told.stop), Nothing)>>
<1> DEFINE response == Response(call, told)
           C == response.content
           X == Index("compat", C)
           row(b) == (IF C[b].kind = "tool" THEN <<Delta("call", X[b], C[b].id)>> ELSE <<>>)
                     \o [i \in 1..Len(C[b].frags) |-> DeltaChunk(C[b], X[b], i)]
<1>1. C \in Seq(Block) /\ response.stop = told.stop
  BY ResponseType
<1>2. DOMAIN C = 1..Len(C) /\ Len(C) \in Nat /\ \A b \in 1..Len(C) : C[b] \in Block
  BY <1>1, LenProperties, ElementOfSeq
<1>3. \A b \in 1..Len(C) : X[b] = Cardinality({i \in 1..b : C[i].kind = "tool"})
  BY DEF Index
<1>4. FlattenSeq([b \in DOMAIN C |->
            LET block == C[b]
            IN  (IF block.kind = "tool"
                 THEN <<Delta("call", Cardinality({i \in 1..b : C[i].kind = "tool"}), block.id)>>
                 ELSE <<>>)
                \o [i \in DOMAIN block.frags |->
                    CASE block.kind = "text" -> Delta("text", 0, block.frags[i])
                      [] block.kind = "tool" ->
                             Delta("args", Cardinality({j \in 1..b : C[j].kind = "tool"}), block.frags[i])
                      [] OTHER               -> NoChunk]])
      = FlattenSeq([b \in 1..Len(C) |-> row(b)])
  <2>1. \A b \in 1..Len(C) : DOMAIN C[b].frags = 1..Len(C[b].frags)
    BY <1>2, BlockParts
  <2> HIDE DEF X, C
  <2> QED
    BY <1>2, <1>3, <2>1 DEF DeltaChunk
<1>5. \A b \in 1..Len(C) : row(b) = Rows(C, X, <<>>)[b]
  <2> SUFFICES ASSUME NEW b \in 1..Len(C) PROVE row(b) = Rows(C, X, <<>>)[b]
    OBVIOUS
  <2> DEFINE h == HeadRow(C[b], X[b], <<>>)
             t == [i \in 1..Len(C[b].frags) |-> DeltaChunk(C[b], X[b], i)]
  <2>1. row(b) = h \o t
    BY DEF HeadRow
  <2>2. C[b] \in Block /\ X[b] \in Nat
    BY <1>2, IndexType
  <2>3. h \in Seq(Quiet) /\ t \in Seq(Quiet)
    <3> DEFINE c == C[b]
               x == X[b]
    <3> HIDE DEF c, x
    <3>1. c \in Block /\ x \in Nat /\ <<>> \in Seq(Quiet)
      BY <2>2, EmptySeq DEF c, x
    <3>2. HeadRow(c, x, <<>>) \in Seq(Quiet)
          /\ [i \in 1..Len(c.frags) |-> DeltaChunk(c, x, i)] \in Seq(Quiet)
      BY <3>1, BlockRowType
    <3> QED
      BY <3>2 DEF c, x
  <2>4. Rows(C, X, <<>>)[b] = h \o t \o <<>>
    BY DEF Rows, BlockRow
  <2> DEFINE v == h \o t
  <2> HIDE DEF h, t
  <2>5. v \in Seq(Quiet)
    BY <2>3, ConcatProperties
  <2> HIDE DEF v
  <2>6. v \o <<>> = v
    BY <2>5, ConcatEmptySeq
  <2> QED
    BY <2>1, <2>4, <2>6 DEF v
<1>6. FlattenSeq([b \in 1..Len(C) |-> row(b)]) = Middle("compat", C)
  <2>1. [b \in 1..Len(C) |-> row(b)] = [b \in 1..Len(C) |-> Rows(C, X, <<>>)[b]]
    <3> HIDE DEF row
    <3> QED
      BY <1>5
  <2> HIDE DEF row, X, C
  <2> QED
    BY <2>1 DEF Middle, Flat, Pad, X
<1>7. LastRow("compat", response.stop, response.usage)
      = IF told.stop = "failed" THEN <<>>
        ELSE <<Final(AnthropicFinish(told.stop), NoUsage), Final("none", response.usage)>>
  BY <1>1 DEF LastRow
<1> QED
  BY <1>1, <1>4, <1>6, <1>7 DEF StreamEvents, CompatEvents, ClientRow, FirstRow, CompatEnd

LEMMA CompatBecomes ==
    ASSUME NEW call \in Nat, NEW told \in Reply
    PROVE  Becomes("compat", StreamEvents("compat", call, told),
                   ClientRow("compat", Response(call, told)))
<1> DEFINE W == ClientRow("compat", Response(call, told))
           T == [i \in DOMAIN W |-> Lifecycle("chunk", W[i])]
           E == StreamEvents("compat", call, told)
           d == Lifecycle(CompatEnd(told.stop), Nothing)
<1>1. E = T \o <<d>>
  BY CompatRow
<1>2. W \in Seq(Quiet \cup Ending) /\ Len(W) \in Nat
  BY ClientRowIs DEF Adapters
<1> HIDE DEF W, E
<1>3. DOMAIN W = 1..Len(W)
  BY <1>2, LenProperties
<1>4. \A w \in Quiet \cup Ending :
        /\ FromEvent("compat", Lifecycle("chunk", w)) = w
        /\ Sendable("compat", Lifecycle("chunk", w)) /\ Shaped(Lifecycle("chunk", w))
  <2> SUFFICES ASSUME NEW w \in Quiet \cup Ending
               PROVE  /\ FromEvent("compat", Lifecycle("chunk", w)) = w
                      /\ Sendable("compat", Lifecycle("chunk", w))
                      /\ Shaped(Lifecycle("chunk", w))
    OBVIOUS
  <2>1. IsMetered(w)
    BY DEF Quiet, Ending, IsMetered
  <2>2. FromEvent("compat", Lifecycle("chunk", w)) = w /\ Shaped(Lifecycle("chunk", w))
    BY DEF FromEvent, CompatChunk, Lifecycle, Event, Shaped
  <2>3. Lifecycle("chunk", w).type = "chunk" /\ Lifecycle("chunk", w).body = w
    BY DEF Lifecycle, Event
  <2> QED
    BY <2>1, <2>2, <2>3 DEF Sendable, Passed, IsChunk
<1>5. d.type \in {"[DONE]", "error"} /\ Shaped(d)
  BY DEF Lifecycle, Event, Shaped, CompatEnd
<1> DEFINE D == {Lifecycle("chunk", W[i]) : i \in 1..Len(W)} \cup {d}
<1>9. \A i \in 1..Len(W) : W[i] \in Quiet \cup Ending
  BY <1>2, ElementOfSeq
<1>6. T \in Seq(D) /\ <<d>> \in Seq(D) /\ Len(T) = Len(W)
  BY <1>2, <1>3
<1>7. \A i \in 1..Len(W) : T[i] = Lifecycle("chunk", W[i])
  BY <1>3
<1> HIDE DEF T, d, D
<1>8. Len(E) = Len(W) + 1 /\ (\A i \in 1..Len(W) : E[i] = T[i]) /\ E[Len(W) + 1] = d
  <2> DEFINE u == <<d>>
  <2>1. Len(u) = 1 /\ u[1] = d
    OBVIOUS
  <2>2. E = T \o u
    BY <1>1 DEF d
  <2> HIDE DEF u
  <2>3. Len(T \o u) = Len(T) + Len(u)
        /\ \A i \in 1..(Len(T) + Len(u)) : (T \o u)[i] = IF i <= Len(T) THEN T[i] ELSE u[i - Len(T)]
    BY <1>6, ConcatProperties DEF u
  <2>4. Len(W) + 1 \in 1..(Len(W) + 1) /\ ~(Len(W) + 1 <= Len(W)) /\ (Len(W) + 1) - Len(W) = 1
    BY <1>2
  <2>5. \A i \in 1..Len(W) : i \in 1..(Len(W) + 1) /\ i <= Len(W)
    BY <1>2
  <2> QED
    BY <1>6, <2>1, <2>2, <2>3, <2>4, <2>5
<1> QED
  <2>1. \A i \in 1..Len(W) : /\ FromEvent("compat", E[i]) = W[i]
                             /\ Sendable("compat", E[i]) /\ Shaped(E[i])
    BY <1>4, <1>7, <1>8, <1>9
  <2>2. \A i \in 1..Len(E) : i \in 1..Len(W) \/ i = Len(W) + 1
    BY <1>2, <1>8
  <2>3. Shaped(E[Len(W) + 1]) /\ E[Len(E)].type \in {"[DONE]", "error"}
    BY <1>5, <1>8
  <2>4. \A i \in 1..Len(E) : Shaped(E[i])
    BY <2>1, <2>2, <2>3
  <2> QED
    BY <1>2, <1>8, <2>1, <2>3, <2>4 DEF Becomes, E, W

LEMMA EventsBecome ==
    ASSUME NEW adapter \in Adapters, NEW call \in Nat, NEW told \in Reply
    PROVE  Becomes(adapter, StreamEvents(adapter, call, told),
                   ClientRow(adapter, Response(call, told)))
<1>1. CASE adapter = "compat"
  BY <1>1, CompatBecomes
<1>2. CASE adapter \in {"anthropic", "codex"}
  BY <1>2, PipedBecomes
<1> QED
  BY <1>1, <1>2 DEF Adapters

--------------------------------------------------------------------------------
(* The items of a Codex stream, and its last event.                         *)

ItemRows(E) == [i \in Nat |-> IF E[i].type = "output_item.done" THEN <<E[i].body>> ELSE <<>>]

TakesItems(P, last) ==
    \A e \in Typed(FrontTypes("codex"), last) :
        P[e] = IF e.type = "output_item.done" THEN <<e.body>> ELSE <<>>

LEMMA FrontItems ==
    ASSUME NEW C \in Seq(Block), NEW last, NEW spent \in Usages, NEW P, TakesItems(P, last)
    PROVE  Picked(P, Opening("codex", C, spent)) = C
<1> DEFINE D == Typed(FrontTypes("codex"), last)
           R == Bodies(last)
           s == FirstEvent("codex", spent)
           G == EventRows("codex", C)
           n == Len(C)
<1>1. Picks(P, D, R)
  <2> SUFFICES ASSUME NEW e \in D PROVE P[e] \in Seq(R)
    BY DEF Picks
  <2>1. e.body \in R
    BY DEF Typed
  <2>2. P[e] \in {<<>>, <<e.body>>}
    BY DEF TakesItems
  <2> HIDE DEF R
  <2>3. <<>> \in Seq(R) /\ <<e.body>> \in Seq(R)
    BY <2>1, EmptySeq
  <2> QED
    BY <2>2, <2>3
<1>2. n \in Nat /\ \A b \in 1..n : C[b] \in Block
  BY LenProperties, ElementOfSeq
<1>3. /\ s \in D /\ Flat(G, n) \in Seq(D) /\ \A b \in 1..n : G[b] \in Seq(D)
  BY FrontType
<1>4. P[s] = <<>>
  BY <1>3 DEF FirstEvent, Lifecycle, Event, TakesItems
<1>5. \A b \in 1..n : Picked(P, G[b]) = <<C[b]>>
  <2> SUFFICES ASSUME NEW b \in 1..n
               PROVE  Picked(P, EventRow("codex", C[b], b)) = <<C[b]>>
    BY DEF EventRows
  <2> DEFINE c == C[b]
             u == Event(StartType("codex"), c.kind, b, c.id, Nothing)
             t == [i \in 1..Len(c.frags) |->
                     Event(DeltaType("codex")[c.kind], c.kind, b, c.frags[i], Nothing)]
             z == Event(StopType("codex"), c.kind, b, c.id, c)
  <2>1. c \in Block /\ b \in Nat
    BY <1>2
  <2> HIDE DEF c
  <2>2. u \in D /\ t \in Seq(D) /\ z \in D
    BY <2>1, EventRowType
  <2>3. EventRow("codex", c, b) = <<u>> \o t \o <<z>>
    BY DEF EventRow
  <2>4. P[u] = <<>> /\ P[z] = <<c>>
    BY <2>2 DEF Event, StartType, StopType, TakesItems
  <2>5. \A i \in 1..Len(t) : P[t[i]] = <<>>
    <3> SUFFICES ASSUME NEW i \in 1..Len(t) PROVE P[t[i]] = <<>>
      OBVIOUS
    <3>1. t[i] \in D
      BY <2>2, ElementOfSeq
    <3>2. Len(t) = Len(c.frags)
      BY <2>1, BlockParts
    <3>3. t[i].type = DeltaType("codex")[c.kind]
      BY <3>2 DEF Event
    <3>4. DeltaType("codex")[c.kind] # "output_item.done"
      BY <2>1, BlockParts DEF DeltaType, BlockKinds
    <3> HIDE DEF t
    <3> QED
      BY <3>1, <3>3, <3>4 DEF TakesItems
  <2>6. Picked(P, t) = <<>>
    <3> DEFINE F == [i \in 1..Len(t) |-> P[t[i]]]
    <3>1. Len(t) \in Nat /\ \A i \in 1..Len(t) : F[i] = <<>>
      BY <2>2, <2>5, LenProperties
    <3> HIDE DEF F
    <3>2. Flat(F, Len(t)) = <<>>
      BY <3>1, FlatEmpty
    <3> QED
      BY <3>2 DEF F, Picked
  <2> DEFINE v == <<u>>
             w == v \o t
             x == <<z>>
  <2>7. v \in Seq(D) /\ x \in Seq(D)
    BY <2>2
  <2>8. Picked(P, v) = <<>> /\ Picked(P, x) = <<c>>
    <3>1. P[u] \in Seq(R) /\ P[z] \in Seq(R)
      BY <1>1, <2>2 DEF Picks
    <3> HIDE DEF u, z, R
    <3>2. Picked(P, <<u>>) = P[u] /\ Picked(P, <<z>>) = P[z]
      BY <3>1, PickedOne
    <3> QED
      BY <2>4, <3>2
  <2> HIDE DEF u, t, z, v, x, D, R
  <2>9. w \in Seq(D)
    BY <2>2, <2>7, ConcatProperties
  <2>10. Picked(P, w) = Picked(P, v) \o Picked(P, t)
    BY <1>1, <2>2, <2>7, PickedConcat
  <2>11. Picked(P, w \o x) = Picked(P, w) \o Picked(P, x)
    <3> HIDE DEF w
    <3> QED
      BY <1>1, <2>7, <2>9, PickedConcat
  <2>12. Picked(P, w) = <<>>
    BY <2>6, <2>8, <2>10
  <2>13. <<>> \o <<c>> = <<c>>
    OBVIOUS
  <2>14. EventRow("codex", c, b) = w \o x
    BY <2>3 DEF v, x
  <2> HIDE DEF w
  <2>15. Picked(P, EventRow("codex", c, b)) = <<c>>
    BY <2>8, <2>11, <2>12, <2>13, <2>14
  <2> QED
    BY <2>15 DEF c
<1> HIDE DEF D, R, s, G, n
<1>6. Picked(P, Flat(G, n)) = C
  <2> DEFINE H == [b \in 1..n |-> <<C[b]>>]
  <2>1. \A b \in 1..n : H[b] = Picked(P, G[b])
    BY <1>5
  <2>5. \A b \in 1..n : H[b] = <<C[b]>>
    OBVIOUS
  <2> HIDE DEF H
  <2>6. n \in Nat /\ \A b \in 1..n : G[b] \in Seq(D)
    BY <1>2, <1>3
  <2>2. Picked(P, Flat(G, n)) = Flat(H, n)
    BY <1>1, <2>1, <2>6, PickedFlat
  <2>3. Flat(H, n) = [b \in 1..n |-> C[b]]
    BY <1>2, <2>5, FlatSingles
  <2>4. C = [b \in 1..n |-> C[b]]
    BY DEF n
  <2> QED
    BY <2>2, <2>3, <2>4
<1>7. Picked(P, <<s>>) = <<>>
  <2>1. P[s] \in Seq(R)
    BY <1>1, <1>3 DEF Picks
  <2>2. Picked(P, <<s>>) = P[s]
    BY <2>1, PickedOne
  <2> QED
    BY <1>4, <2>2
<1>8. Picked(P, <<s>> \o Flat(G, n)) = Picked(P, <<s>>) \o Picked(P, Flat(G, n))
  <2> DEFINE u == <<s>>
             v == Flat(G, n)
  <2>1. u \in Seq(D) /\ v \in Seq(D)
    BY <1>3
  <2> HIDE DEF u, v
  <2>2. Picked(P, u \o v) = Picked(P, u) \o Picked(P, v)
    BY <1>1, <2>1, PickedConcat
  <2> QED
    BY <2>2 DEF u, v
<1>9. <<>> \o C = C
  BY ConcatEmptySeq
<1> QED
  BY <1>6, <1>7, <1>8, <1>9 DEF Opening, s, G, n

LEMMA CodexStream ==
    ASSUME NEW call \in Nat, NEW told \in Reply
    PROVE  LET response == Response(call, told)
               E == StreamEvents("codex", call, told)
           IN  /\ Len(E) \in Nat \ {0}
               /\ \A i \in 1..Len(E) : E[i].type = "completed" => i = Len(E)
               /\ E[Len(E)].type = "completed" =>
                     /\ E[Len(E)].body = [response EXCEPT !.content = <<>>]
                     /\ Flat(ItemRows(E), Len(E) - 1) = response.content
<1> DEFINE response == Response(call, told)
           C == response.content
           B == LastBody("codex", response)
           D == Typed(FrontTypes("codex"), B)
           spent == response.usage
           F == Opening("codex", C, spent)
           L == LastEvents("codex", response)
           E == StreamEvents("codex", call, told)
           P == [e \in D |-> IF e.type = "output_item.done" THEN <<e.body>> ELSE <<>>]
<1>1. C \in Seq(Block) /\ spent \in Usages
  BY ResponseType
<1>2. E = F \o L
  BY EventsSplit
<1>3. Len(L) = 1 /\ (L[1].type = "completed" => L[1].body = [response EXCEPT !.content = <<>>])
  BY DEF LastEvents, Lifecycle, Event
<1>4. L \in Seq({L[1]})
  <2>1. L = <<L[1]>>
    BY DEF LastEvents
  <2> HIDE DEF L
  <2>2. <<L[1]>> \in Seq({L[1]})
    OBVIOUS
  <2> QED
    BY <2>1, <2>2
<1> HIDE DEF response, E, L, C, spent
<1>5. F \in Seq(D)
  BY <1>1, FrontType
<1>6. Picked(P, F) = C
  <2>1. TakesItems(P, B)
    BY DEF TakesItems
  <2> HIDE DEF P, B
  <2> QED
    BY <1>1, <2>1, FrontItems
<1>7. \A e \in D : e.type # "completed"
  BY DEF Typed, FrontTypes
<1>8. \A e \in D : P[e] = IF e.type = "output_item.done" THEN <<e.body>> ELSE <<>>
  OBVIOUS
<1> HIDE DEF D, F, P, B
<1> DEFINE m == Len(F)
           S == D \cup {L[1]}
<1>9. F \in Seq(S) /\ L \in Seq(S)
  <2>1. \A T : T \subseteq S => \A v \in Seq(T) : v \in Seq(S)
    BY SeqDef
  <2>2. D \subseteq S /\ {L[1]} \subseteq S
    OBVIOUS
  <2> HIDE DEF S
  <2> QED
    BY <1>4, <1>5, <2>1, <2>2
<1>10. m \in Nat /\ \A i \in 1..m : F[i] \in D
  BY <1>5, LenProperties, ElementOfSeq
<1> HIDE DEF S, m
<1>11. Len(E) = m + 1 /\ \A i \in 1..(m + 1) : E[i] = IF i <= m THEN F[i] ELSE L[i - m]
  <2>1. Len(F \o L) = Len(F) + Len(L)
        /\ \A i \in 1..(Len(F) + Len(L)) :
              (F \o L)[i] = IF i <= Len(F) THEN F[i] ELSE L[i - Len(F)]
    BY <1>9, ConcatProperties
  <2>2. Len(F) + Len(L) = m + 1 /\ Len(F) = m
    BY <1>3 DEF m
  <2> QED
    BY <1>2, <2>1, <2>2
<1>12. (\A i \in 1..m : E[i] = F[i]) /\ E[m + 1] = L[1]
  <2>1. m + 1 \in 1..(m + 1) /\ ~(m + 1 <= m) /\ (m + 1) - m = 1
    BY <1>10
  <2>2. \A i \in 1..m : i \in 1..(m + 1) /\ i <= m
    BY <1>10
  <2> QED
    BY <1>11, <2>1, <2>2
<1>13. \A i \in 1..Len(E) : E[i].type = "completed" => i = Len(E)
  <2> SUFFICES ASSUME NEW i \in 1..(m + 1), E[i].type = "completed", i # m + 1
               PROVE  FALSE
    BY <1>11
  <2>1. i \in 1..m
    BY <1>10
  <2> QED
    BY <1>7, <1>10, <1>12, <2>1
<1>14. Flat(ItemRows(E), m) = C
  <2> DEFINE H == [i \in 1..m |-> P[F[i]]]
             K == ItemRows(E)
  <2>1. \A i \in 1..m : H[i] = K[i]
    <3> SUFFICES ASSUME NEW i \in 1..m PROVE H[i] = K[i]
      OBVIOUS
    <3>1. H[i] = (IF F[i].type = "output_item.done" THEN <<F[i].body>> ELSE <<>>) /\ E[i] = F[i]
      BY <1>8, <1>10, <1>12
    <3>2. K[i] = IF E[i].type = "output_item.done" THEN <<E[i].body>> ELSE <<>>
      BY <1>10 DEF ItemRows
    <3> QED
      BY <3>1, <3>2
  <2>2. Picked(P, F) = Flat(H, m)
    BY DEF Picked, m
  <2> HIDE DEF H, K
  <2>3. Flat(H, m) = Flat(K, m)
    BY <1>10, <2>1, FlatSame
  <2> QED
    BY <1>6, <2>2, <2>3 DEF K
<1>15. Len(E) - 1 = m /\ Len(E) \in Nat \ {0}
  BY <1>10, <1>11
<1> QED
  BY <1>3, <1>11, <1>12, <1>13, <1>14, <1>15 DEF E, C, response

(* What a boundary inside a character leaves alone: what kind of event it   *)
(* is and, for the client, what it tells of the usage.                      *)
LEMMA TornTells ==
    ASSUME NEW e, Shaped(e)
    PROVE  /\ Torn(e).type = e.type /\ Torn(e).kind = e.kind
           /\ e.type \notin {"output_item.done", "chunk"} => Torn(e).body = e.body
           /\ e.type = "chunk" => Torn(e).body = [e.body EXCEPT !.what = Replaced(@)]
<1>1. e = [type |-> e.type, kind |-> e.kind, index |-> e.index, what |-> e.what, body |-> e.body]
  BY DEF Shaped
<1> QED
  BY <1>1 DEF Torn

LEMMA TornUsage ==
    ASSUME NEW adapter \in Adapters, NEW e, Shaped(e), Sendable(adapter, e)
    PROVE  FromEvent(adapter, Torn(e)).usage = FromEvent(adapter, e).usage
<1> DEFINE t == Torn(e)
<1>1. /\ t.type = e.type /\ t.kind = e.kind
      /\ e.type \notin {"output_item.done", "chunk"} => t.body = e.body
      /\ e.type = "chunk" => t.body = [e.body EXCEPT !.what = Replaced(@)]
  BY TornTells
<1> SUFFICES FromEvent(adapter, t).usage = FromEvent(adapter, e).usage
  OBVIOUS
<1> HIDE DEF t
<1>2. CASE adapter = "anthropic"
  BY <1>1, <1>2 DEF FromEvent, AnthropicChunk, Delta, Final, NoChunk
<1>3. CASE adapter = "codex"
  BY <1>1, <1>3 DEF FromEvent, CodexChunk, Delta, Final, NoChunk
<1>4. CASE adapter = "compat"
  <2>1. e.type = "chunk" /\ IsMetered(e.body)
    BY <1>4 DEF Sendable, Passed, IsChunk
  <2>2. t.body.usage = e.body.usage
    BY <1>1, <2>1 DEF IsMetered
  <2> QED
    BY <1>4, <2>2 DEF FromEvent, CompatChunk
<1> QED
  BY <1>2, <1>3, <1>4 DEF Adapters

--------------------------------------------------------------------------------
(* The invariant.                                                           *)

Chunk  == [i \in Nat |-> FromEvent(Adapter, Decoded(Events, i))]
Whole  == Response(calls, reply)
Row    == ClientRow(Adapter, Whole)
Before == {"acquire", "renew", "call", "wait"}

(* HTTP requests the earlier targets, and this one before its renewal, may  *)
(* have taken.                                                              *)
Budget == 2 * MaxAttempts * (target - 1) + (IF renewed THEN MaxAttempts ELSE 0)

CallsInv ==
    /\ calls <= 2 * MaxAttempts * target
    /\ pc = "acquire" => calls <= Budget
    /\ pc = "renew" => ~renewed /\ calls <= Budget + MaxAttempts
    /\ pc \in {"call", "wait", "body"} => calls <= Budget + tries
    /\ pc = "call" => tries < MaxAttempts

DelayInv == BackoffMax > 0 => delay <= 2 * BackoffMax

(* What e events have left behind. *)
Progress(e) ==
    /\ e <= Len(Events)
    /\ Streamed => Len(chunks) = e /\ \A i \in 1..e : Passed(Adapter, Events[i])
    /\ ~Streamed /\ torn = {} => items = Flat(ItemRows(Events), e)

(* Between two events, or at the blank line that ends the next one.         *)
At(e) ==
    /\ \/ read \in {Pieces * e, Pieces * e + 2, Pieces * e + 3} /\ data = <<>>
       \/ read = Pieces * e + 6 /\ data = <<e + 1>>
    /\ Progress(e)

(* After the last byte, with perhaps an event or half of one to be flushed. *)
AtEnd(e) ==
    /\ data \in {<<>>, <<Garbled>>, <<e + 1>>}
    /\ data = <<e + 1>> => e < Len(Events)
    /\ got = Total => data = <<>> /\ e = Len(Events)
    /\ Progress(e)

RowInv ==
    /\ Len(chunks) \in Nat
    /\ chunks = [i \in 1..Len(chunks) |-> Chunk[i]]
    /\ pc \in Before \/ ~Streamed => Len(chunks) = 0

ReadInv ==
    /\ pc = "body" => reply \in Replies /\ got <= Total /\ (~Streamed => Adapter = "codex")
    /\ pc = "body" /\ ~eof => \E e \in Nat : At(e)
    /\ pc = "body" /\ eof => \E e \in Nat : AtEnd(e)
    /\ eof => read = got
    /\ got = 0 => torn = {}
    /\ pc = "wait" => read = 0 /\ got = 0 /\ data = <<>> /\ ~eof
    /\ pc \in {"call", "wait"} /\ ~Streamed => items = <<>>

(* The usage known is the one reported in the chunks so far.                *)
UsageInv ==
    Streamed => usage = IF \E i \in 1..Len(chunks) : Chunk[i].usage # NoUsage
                        THEN Reported(Adapter, Whole.usage) ELSE NoUsage

OutcomeInv ==
    pc \in {"account", "success"} =>
        /\ reply \in Replies
        /\ ~Streamed => /\ torn = {} => answer = FromResponse(Adapter, Whole)
                        /\ usage = Whole.usage
        /\ Streamed => Len(chunks) <= Len(Row) /\ (Uncut => Len(chunks) = Len(Row))
        /\ pc = "success" => recorded = usage /\ (~Streamed => stored = usage)

ResultInv == RowInv /\ ReadInv /\ UsageInv /\ OutcomeInv

IInv == TypeOK /\ CallsInv /\ DelayInv /\ ResultInv

--------------------------------------------------------------------------------
(* Arithmetic of the wire, and of rows of chunks.                           *)

LEMMA PieceKinds ==
    ASSUME NEW e \in Nat, NEW p \in 1..7
    PROVE  Kind(Pieces * e + p) = Frame[p] /\ Of(Pieces * e + p) = e + 1
BY DEF Kind, Of, Frame, Pieces

LEMMA RowGrows ==
    ASSUME NEW f, NEW n \in Nat, NEW s, s = [i \in 1..n |-> f[i]]
    PROVE  Append(s, f[n + 1]) = [i \in 1..(n + 1) |-> f[i]] /\ Len(s) = n
           /\ Len(Append(s, f[n + 1])) = n + 1
OBVIOUS

LEMMA RowEmpty ==
    ASSUME NEW f, NEW g, NEW s, Len(s) = 0, s = [i \in 1..Len(s) |-> f[i]]
    PROVE  s = [i \in 1..Len(s) |-> g[i]]
OBVIOUS

(* The stream that is read is fixed while its call stands.                  *)
LEMMA SameStream ==
    ASSUME UNCHANGED <<scenario, target, calls, reply>>
    PROVE  /\ Adapter' = Adapter /\ Streamed' = Streamed /\ Events' = Events /\ Total' = Total
           /\ Whole' = Whole /\ Row' = Row
           /\ torn' = torn => Chunk' = Chunk
<1>1. /\ Adapter' = Adapter /\ Streamed' = Streamed /\ Events' = Events /\ Total' = Total
      /\ Whole' = Whole /\ Row' = Row
  BY DEF Adapter, Current, Events, Streamed, Total, Whole, Row
<1>2. torn' = torn => Chunk' = Chunk
  BY <1>1 DEF Chunk, Decoded
<1> QED
  BY <1>1, <1>2

LEMMA ProgressKept ==
    ASSUME UNCHANGED <<scenario, target, calls, reply, chunks, items>>, torn \subseteq torn', NEW e
    PROVE  Progress(e) => Progress(e)'
<1>1. Adapter' = Adapter /\ Streamed' = Streamed /\ Events' = Events
  BY SameStream
<1>2. torn' = {} => torn = {}
  OBVIOUS
<1> QED
  BY <1>1, <1>2 DEF Progress

(* Characters may be cut in events that are still to come.                  *)
LEMMA ChunksKept ==
    ASSUME RowInv, UNCHANGED <<scenario, target, calls, reply>>,
           \A i \in 1..Len(chunks) : i \in torn' <=> i \in torn
    PROVE  \A i \in 1..Len(chunks) : Chunk'[i] = Chunk[i]
<1> SUFFICES ASSUME NEW i \in 1..Len(chunks) PROVE Chunk'[i] = Chunk[i]
  OBVIOUS
<1>1. Adapter' = Adapter /\ Events' = Events
  BY SameStream
<1>2. i \in Nat /\ (i \in torn' <=> i \in torn)
  BY DEF RowInv
<1>3. Chunk[i] = FromEvent(Adapter, IF i \in torn THEN Torn(Events[i]) ELSE Events[i])
  BY <1>2 DEF Chunk, Decoded
<1>4. Chunk'[i] = FromEvent(Adapter', IF i \in torn' THEN Torn(Events'[i]) ELSE Events'[i])
  BY <1>2 DEF Chunk, Decoded
<1> QED
  BY <1>1, <1>2, <1>3, <1>4

(* A state whose chunks are as before, or that has none, keeps the row.     *)
LEMMA RowKept ==
    ASSUME RowInv, chunks' = chunks, scenario' = scenario,
           \/ UNCHANGED <<target, calls, reply>> /\ \A i \in 1..Len(chunks) : i \in torn' <=> i \in torn
           \/ Len(chunks) = 0
    PROVE  /\ chunks' = [i \in 1..Len(chunks') |-> Chunk'[i]] /\ Len(chunks') = Len(chunks)
           /\ (pc' \in Before => pc \in Before \/ Len(chunks) = 0) => RowInv'
           /\ UsageInv /\ usage' = usage => UsageInv'
<1>1. chunks = [i \in 1..Len(chunks) |-> Chunk[i]] /\ Len(chunks) \in Nat
  BY DEF RowInv
<1>2. \A i \in 1..Len(chunks) : Chunk'[i] = Chunk[i]
  BY <1>1, ChunksKept
<1>3. chunks' = [i \in 1..Len(chunks') |-> Chunk'[i]] /\ Len(chunks') = Len(chunks)
  BY <1>1, <1>2
<1>4. Streamed' = Streamed
  BY DEF Streamed
<1>5. (pc' \in Before => pc \in Before \/ Len(chunks) = 0) => RowInv'
  BY <1>1, <1>3, <1>4 DEF RowInv
<1>6. UsageInv /\ usage' = usage => UsageInv'
  <2> SUFFICES ASSUME UsageInv, usage' = usage, Streamed
               PROVE  usage = IF \E i \in 1..Len(chunks) : Chunk'[i].usage # NoUsage
                              THEN Reported(Adapter, Whole.usage)' ELSE NoUsage
    BY <1>3, <1>4 DEF UsageInv
  <2>1. usage = IF \E i \in 1..Len(chunks) : Chunk'[i].usage # NoUsage
                THEN Reported(Adapter, Whole.usage) ELSE NoUsage
    BY <1>2 DEF UsageInv
  <2>2. CASE UNCHANGED <<target, calls, reply>>
    <3>1. Adapter' = Adapter /\ Whole' = Whole
      BY <2>2, SameStream
    <3> QED
      BY <2>1, <3>1
  <2>3. CASE Len(chunks) = 0
    BY <2>1, <2>3
  <2> QED
    BY <2>2, <2>3
<1> QED
  BY <1>3, <1>5, <1>6

--------------------------------------------------------------------------------
LEMMA Positions ==
    ASSUME TypeOK
    PROVE  /\ Len(scenario.targets) \in Nat
           /\ DOMAIN scenario.targets = 1..Len(scenario.targets)
           /\ target \in Nat \ {0} /\ target <= Len(scenario.targets)
           /\ Adapter \in Adapters
<1>1. scenario.targets \in Seq(Target)
  BY ScenariosAssumption DEF TypeOK
<1>2. DOMAIN scenario.targets = 1..Len(scenario.targets) /\ Len(scenario.targets) \in Nat
  BY <1>1
<1>3. target \in 1..Len(scenario.targets)
  BY <1>2 DEF TypeOK
<1>4. scenario.targets[target] \in Target
  <2> HIDE DEF Target
  <2> QED
    BY <1>1, <1>3, ElementOfSeq
<1>5. Adapter \in Adapters
  BY <1>4 DEF Adapter, Current, Target
<1> QED
  BY <1>2, <1>3, <1>5

(* What the provider of a call sends, as it was taken apart above.          *)
LEMMA Streams ==
    ASSUME TypeOK, reply \in Replies
    PROVE  /\ Becomes(Adapter, Events, Row) /\ Len(Events) \in Nat /\ Len(Row) \in Nat
           /\ Total = Pieces * Len(Events)
           /\ \A i \in 1..Len(Row) : Row[i].usage \in {NoUsage, Reported(Adapter, Whole.usage)}
           /\ ~Unfinished(Adapter, reply.stop) =>
                 \E i \in 1..Len(Row) : Row[i].usage = Reported(Adapter, Whole.usage)
<1>1. reply \in Reply /\ calls \in Nat /\ Adapter \in Adapters
  BY RepliesAssumption, Positions DEF TypeOK
<1>2. Becomes(Adapter, Events, Row)
  BY <1>1, EventsBecome DEF Events, Row, Whole
<1>3. /\ \A i \in 1..Len(Row) : Row[i].usage \in {NoUsage, Reported(Adapter, Whole.usage)}
      /\ ~Unfinished(Adapter, reply.stop) =>
            \E i \in 1..Len(Row) : Row[i].usage = Reported(Adapter, Whole.usage)
  BY <1>1, ClientRowIs DEF Row, Whole
<1> QED
  BY <1>2, <1>3 DEF Becomes, Total

(* Decoding an event leaves its type, and the usage it reports, alone.      *)
LEMMA DecodedTells ==
    ASSUME TypeOK, reply \in Replies, NEW i \in 1..Len(Events)
    PROVE  /\ Decoded(Events, i).type = Events[i].type
           /\ Passed(Adapter, Decoded(Events, i)) <=> Passed(Adapter, Events[i])
           /\ Events[i].type = "completed" => Decoded(Events, i).body = Events[i].body
<1>1. Shaped(Events[i])
  BY Streams DEF Becomes
<1> DEFINE e == Events[i]
<1> HIDE DEF e
<1>2. Shaped(e)
  BY <1>1 DEF e
<1>3. Torn(e).type = e.type /\ (e.type = "completed" => Torn(e).body = e.body)
  BY <1>2, TornTells
<1>4. Decoded(Events, i) \in {e, Torn(e)}
  BY DEF Decoded, e
<1>5. Decoded(Events, i).type = e.type /\ (e.type = "completed" => Decoded(Events, i).body = e.body)
  BY <1>3, <1>4
<1> QED
  BY <1>5 DEF Passed, IsChunk, e

(* An event that can be passed on has its chunk in the client's row.        *)
LEMMA ChunkIsRow ==
    ASSUME TypeOK, reply \in Replies, NEW i \in 1..Len(Events), Passed(Adapter, Events[i])
    PROVE  /\ i \in 1..Len(Row) /\ Chunk[i].usage = Row[i].usage
           /\ torn = {} => Chunk[i] = Row[i]
<1>1. Becomes(Adapter, Events, Row) /\ Len(Events) \in Nat /\ Len(Row) \in Nat
  BY Streams
<1>2. i # Len(Row) + 1
  BY <1>1 DEF Becomes, Passed, IsChunk
<1>3. i \in 1..Len(Row)
  BY <1>1, <1>2 DEF Becomes
<1>4. Chunk[i] = FromEvent(Adapter, Decoded(Events, i))
  BY <1>1 DEF Chunk
<1>5. Row[i] = FromEvent(Adapter, Events[i]) /\ Sendable(Adapter, Events[i]) /\ Shaped(Events[i])
  BY <1>1, <1>3 DEF Becomes
<1>6. FromEvent(Adapter, Torn(Events[i])).usage = FromEvent(Adapter, Events[i]).usage
  <2> DEFINE e == Events[i]
  <2> HIDE DEF e
  <2>1. Shaped(e) /\ Sendable(Adapter, e) /\ Adapter \in Adapters
    BY <1>5, Positions DEF e
  <2>2. FromEvent(Adapter, Torn(e)).usage = FromEvent(Adapter, e).usage
    BY <2>1, TornUsage
  <2> QED
    BY <2>2 DEF e
<1> QED
  BY <1>3, <1>4, <1>5, <1>6 DEF Decoded

LEMMA Budgets ==
    ASSUME TypeOK
    PROVE  /\ Budget \in Nat
           /\ Budget + MaxAttempts <= 2 * MaxAttempts * target
           /\ 2 * MaxAttempts * ((target + 1) - 1) = 2 * MaxAttempts * target
           /\ 2 * MaxAttempts * (target + 1) = 2 * MaxAttempts * target + 2 * MaxAttempts
<1>1. target \in Nat \ {0} /\ MaxAttempts \in Nat \ {0}
  BY Positions, AttemptsAssumption
<1>2. 2 * MaxAttempts * (target - 1) \in Nat
      /\ 2 * MaxAttempts * (target - 1) + 2 * MaxAttempts = 2 * MaxAttempts * target
  BY <1>1
<1> QED
  BY <1>1, <1>2 DEF Budget

(* Failing: of a target, of a call, of an attempt.                          *)

LEMMA TargetFailsKeeps ==
    ASSUME IInv, NEW error, TargetFails(error), Len(chunks) = 0
    PROVE  IInv'
<1>1. TypeOK'
  <2>1. TypeOK
    BY DEF IInv
  <2>2. UNCHANGED <<scenario, attempt, wire, result>>
    BY DEF TargetFails
  <2>3. CASE target < Len(scenario.targets) /\ target' = target + 1 /\ renewed' = FALSE /\ pc' = "acquire"
    <3>1. target' \in DOMAIN scenario'.targets
      BY <2>1, <2>2, <2>3, Positions
    <3> QED
      BY <2>1, <2>2, <2>3, <3>1 DEF TypeOK, attempt, wire, result, PCs
  <2>4. CASE pc' = "failed" /\ UNCHANGED <<target, renewed>>
    BY <2>1, <2>2, <2>4 DEF TypeOK, attempt, wire, result, PCs, Ended
  <2> QED
    BY <2>3, <2>4 DEF TargetFails
<1>2. CallsInv'
  <2>1. CASE target' = target + 1 /\ renewed' = FALSE /\ pc' = "acquire" /\ calls' = calls
    <3>1. Budget' = 2 * MaxAttempts * target
      <4>1. Budget' = 2 * MaxAttempts * ((target + 1) - 1) + 0
        BY <2>1 DEF Budget
      <4>2. 2 * MaxAttempts * target \in Nat
        BY Positions, AttemptsAssumption DEF IInv
      <4> QED
        BY <4>1, <4>2, Budgets DEF IInv
    <3>2. calls <= 2 * MaxAttempts * target' /\ calls \in Nat
      BY <2>1, Budgets, Positions, AttemptsAssumption DEF IInv, TypeOK, CallsInv
    <3> QED
      BY <2>1, <3>1, <3>2 DEF IInv, CallsInv
  <2>2. CASE pc' = "failed" /\ UNCHANGED <<target, renewed, calls>>
    BY <2>2 DEF IInv, CallsInv
  <2> QED
    BY <2>1, <2>2 DEF TargetFails, attempt
<1>3. DelayInv'
  BY DEF IInv, DelayInv, TargetFails, attempt
<1>4. ResultInv'
  <2>1. /\ chunks' = chunks /\ usage' = usage /\ pc' \in {"acquire", "failed"}
        /\ UNCHANGED <<scenario, eof, read, got, torn>>
    BY DEF TargetFails, wire, result
  <2>2. RowInv' /\ UsageInv'
    BY <2>1, RowKept DEF IInv, ResultInv
  <2>3. ReadInv' /\ OutcomeInv'
    BY <2>1 DEF IInv, ResultInv, ReadInv, OutcomeInv
  <2> QED
    BY <2>2, <2>3 DEF ResultInv
<1> QED
  BY <1>1, <1>2, <1>3, <1>4 DEF IInv

LEMMA CallFailsKeeps ==
    ASSUME IInv, NEW error, CallFails(error), Len(chunks) = 0, pc \in {"wait", "body"}
    PROVE  IInv'
<1>1. CASE TargetFails(error)
  BY <1>1, TargetFailsKeeps
<1>2. CASE pc' = "renew" /\ ~renewed /\ UNCHANGED <<route, attempt, wire, result>>
  <2>1. TypeOK'
    BY <1>2 DEF IInv, TypeOK, route, attempt, wire, result, PCs
  <2>2. CallsInv'
    <3>1. Budget' = Budget /\ Budget \in Nat
      BY <1>2, Budgets DEF Budget, IInv, route
    <3>2. calls <= Budget + MaxAttempts
      BY <3>1, AttemptsAssumption DEF IInv, TypeOK, CallsInv
    <3> QED
      BY <1>2, <3>1, <3>2 DEF IInv, CallsInv, route, attempt
  <2>3. DelayInv'
    BY <1>2 DEF IInv, DelayInv, attempt
  <2>4. ResultInv'
    <3>1. RowInv' /\ UsageInv'
      BY <1>2, RowKept DEF IInv, ResultInv, route, result
    <3>2. ReadInv' /\ OutcomeInv'
      BY <1>2 DEF IInv, ResultInv, ReadInv, OutcomeInv, wire
    <3> QED
      BY <3>1, <3>2 DEF ResultInv
  <2> QED
    BY <2>1, <2>2, <2>3, <2>4 DEF IInv
<1> QED
  BY <1>1, <1>2 DEF CallFails

LEMMA AgainOrFailKeeps ==
    ASSUME IInv, AgainOrFail, Len(chunks) = 0, pc \in {"wait", "body"}, ~Streamed => items = <<>>
    PROVE  IInv'
<1>1. CASE CallFails("retryable")
  BY <1>1, CallFailsKeeps
<1>2. CASE tries < MaxAttempts /\ Again
  <2>1. delay' \in Capped(tries)..(2 * Capped(tries))
    BY <1>2 DEF Again
  <2>2. Exponential(tries) \in Int
    <3>1. tries - 1 \in Int /\ 2^(tries - 1) \in Int
      BY DEF IInv, TypeOK
    <3> QED
      BY <3>1, BackoffAssumption DEF Exponential
  <2>3. Capped(tries) \in Int /\ (BackoffMax > 0 => Capped(tries) <= BackoffMax)
    BY <2>2, BackoffAssumption DEF Capped
  <2>4. delay' \in Nat /\ (BackoffMax > 0 => delay' <= 2 * BackoffMax)
    BY <2>1, <2>3, BackoffAssumption
  <2>5. TypeOK'
    BY <1>2, <2>4 DEF IInv, TypeOK, Again, route, wire, result, PCs
  <2>6. CallsInv'
    BY <1>2 DEF IInv, CallsInv, Again, Budget, route
  <2>7. DelayInv'
    BY <2>4 DEF DelayInv
  <2>8. ResultInv'
    <3>1. pc' = "call" /\ UNCHANGED <<scenario, eof, read, got, torn, chunks, items, usage>>
      BY <1>2 DEF Again, route, wire, result
    <3>2. RowInv' /\ UsageInv'
      BY <3>1, RowKept DEF IInv, ResultInv
    <3>3. ReadInv' /\ OutcomeInv'
      BY <3>1 DEF IInv, ResultInv, ReadInv, OutcomeInv, Streamed
    <3> QED
      BY <3>2, <3>3 DEF ResultInv
  <2> QED
    BY <2>5, <2>6, <2>7, <2>8 DEF IInv
<1> QED
  BY <1>1, <1>2 DEF AgainOrFail

(* No byte, no event.                                                       *)
LEMMA NothingRead ==
    ASSUME IInv, pc = "body", ~eof, got = 0
    PROVE  Len(chunks) = 0 /\ (~Streamed => items = <<>>)
<1>1. PICK e \in Nat : At(e)
  BY DEF IInv, ResultInv, ReadInv
<1>2. e = 0 /\ Progress(e)
  BY <1>1 DEF IInv, TypeOK, At, Pieces
<1>3. CASE Streamed
  BY <1>2, <1>3 DEF Progress
<1>4. CASE ~Streamed
  <2>1. torn = {}
    BY DEF IInv, ResultInv, ReadInv
  <2> QED
    BY <1>2, <1>4, <2>1, FlatZero DEF Progress, IInv, ResultInv, RowInv
<1> QED
  BY <1>3, <1>4

--------------------------------------------------------------------------------
(* The parser.                                                              *)

(* The first line end after each place: where the next line is cut.         *)
LEMMA NextLineEnd ==
    ASSUME TypeOK, NEW e \in Nat, At(e), NEW k \in LineEnds, LineEnd(k)
    PROVE  \/ read = Pieces * e     /\ k = read + 2
           \/ read = Pieces * e + 2 /\ k = read + 1
           \/ read = Pieces * e + 3 /\ k = read + 3
           \/ read = Pieces * e + 6 /\ k = read + 1
<1>1. k \in Nat /\ read + 1 <= k /\ k <= got /\ Kind(k) = "newline" /\ read \in Nat /\ got \in Nat
  BY DEF LineEnds, TypeOK
<1>2. \A j \in Nat : read + 1 <= j /\ j <= got /\ Kind(j) = "newline" => k <= j
  BY <1>1 DEF LineEnd, LineEnds
<1>3. /\ Kind(Pieces * e + 1) = "comment" /\ Kind(Pieces * e + 2) = "newline"
      /\ Kind(Pieces * e + 3) = "newline" /\ Kind(Pieces * e + 4) = "head"
      /\ Kind(Pieces * e + 5) = "tail"    /\ Kind(Pieces * e + 6) = "newline"
      /\ Kind(Pieces * e + 7) = "newline"
  BY PieceKinds DEF Frame
<1>4. Pieces * e \in Nat
  BY DEF Pieces
<1>5. CASE read = Pieces * e
  BY <1>1, <1>2, <1>3, <1>4, <1>5
<1>6. CASE read = Pieces * e + 2
  BY <1>1, <1>2, <1>3, <1>4, <1>6
<1>7. CASE read = Pieces * e + 3
  BY <1>1, <1>2, <1>3, <1>4, <1>7
<1>8. CASE read = Pieces * e + 6
  BY <1>1, <1>2, <1>3, <1>4, <1>8
<1> QED
  BY <1>5, <1>6, <1>7, <1>8 DEF At

LEMMA LineKeeps ==
    ASSUME IInv, Line
    PROVE  IInv'
<1> USE DEF IInv, ResultInv
<1>1. PICK k \in LineEnds :
        /\ LineEnd(k)
        /\ k > read + 1 \/ data = <<>>
        /\ read' = k
        /\ data' = IF k > read + 1 THEN data \o Value(read + 1, k - 1) ELSE data
  BY DEF Line
<1>2. pc = "body" /\ UNCHANGED <<route, pc, attempt, reply, got, eof, torn, result>>
  BY DEF Line
<1>3. k \in Nat /\ read + 1 <= k /\ k <= got
  BY DEF LineEnds, TypeOK
<1>4. Value(read + 1, k - 1) \in Seq(Nat)
  BY <1>3 DEF Value, Of, Pieces, Garbled, TypeOK
<1>5. TypeOK'
  BY <1>1, <1>2, <1>3, <1>4 DEF TypeOK, route, attempt, result
<1>6. CallsInv' /\ DelayInv'
  BY <1>2 DEF CallsInv, DelayInv, Budget, route, attempt
<1>7. UNCHANGED <<scenario, target, calls, reply, chunks, items, usage, pc, got, eof, torn>>
  BY <1>2 DEF route, attempt, result
<1>8. ASSUME ~eof
      PROVE  \E e \in Nat : At(e)'
  <2>1. PICK e \in Nat : At(e)
    BY <1>2, <1>8 DEF ReadInv
  <2>2. Progress(e)'
    BY <1>7, <2>1, ProgressKept DEF At
  <2>3. /\ Kind(Pieces * e + 1) = "comment"
        /\ Kind(Pieces * e + 4) = "head" /\ Kind(Pieces * e + 5) = "tail"
        /\ Of(Pieces * e + 4) = e + 1
    BY PieceKinds DEF Frame
  <2>4. Pieces * e \in Nat
    BY DEF Pieces
  <2>5. CASE read = Pieces * e /\ k = read + 2
    <3>1. Value(read + 1, k - 1) = <<>> /\ data = <<>>
      BY <2>1, <2>3, <2>4, <2>5 DEF Value, At, Pieces
    <3> QED
      BY <1>1, <2>2, <2>4, <2>5, <3>1 DEF At
  <2>6. CASE read = Pieces * e + 2 /\ k = read + 1
    <3>1. data' = <<>>
      BY <1>1, <2>1, <2>4, <2>6 DEF At, Pieces
    <3> QED
      BY <1>1, <2>2, <2>4, <2>6, <3>1 DEF At
  <2>7. CASE read = Pieces * e + 3 /\ k = read + 3
    <3>1. read + 1 = Pieces * e + 4 /\ k - 1 = Pieces * e + 5 /\ data = <<>>
      BY <2>1, <2>4, <2>7 DEF At, Pieces
    <3>2. Value(read + 1, k - 1) = <<e + 1>>
      BY <2>3, <3>1 DEF Value
    <3> QED
      BY <1>1, <2>2, <2>4, <2>7, <3>1, <3>2 DEF At
  <2>8. CASE read = Pieces * e + 6 /\ k = read + 1
    <3>1. data = <<e + 1>>
      BY <2>1, <2>4, <2>8 DEF At, Pieces
    <3>2. ~(k > read + 1)
      BY <2>8 DEF TypeOK
    <3> QED
      BY <1>1, <3>1, <3>2
  <2> QED
    BY <1>1, <2>1, <2>5, <2>6, <2>7, <2>8, NextLineEnd
(* At the end of the wire nothing is left to cut lines from.                *)
<1>9. ~eof
  BY <1>3 DEF ReadInv, TypeOK
<1>10. RowInv' /\ UsageInv'
  BY <1>7, RowKept
<1>11. ReadInv' /\ OutcomeInv'
  BY <1>2, <1>7, <1>8, <1>9, SameStream DEF ReadInv, OutcomeInv
<1> QED
  BY <1>5, <1>6, <1>10, <1>11

LEMMA EofKeeps ==
    ASSUME IInv, Eof
    PROVE  IInv'
<1> USE DEF IInv, ResultInv
<1>1. /\ pc = "body" /\ ~eof /\ LineEnds = {} /\ eof' /\ read' = got
      /\ data' = data \o (IF read < got THEN Value(read + 1, got) ELSE <<>>)
      /\ UNCHANGED <<route, pc, attempt, reply, got, torn, result>>
  BY DEF Eof, Starving
<1>2. Value(read + 1, got) \in Seq(Nat)
  BY DEF Value, Of, Pieces, Garbled, TypeOK
<1>3. TypeOK'
  BY <1>1, <1>2 DEF TypeOK, Eof, route, attempt, result
<1>4. CallsInv' /\ DelayInv'
  BY <1>1 DEF CallsInv, DelayInv, Budget, route, attempt
<1>5. UNCHANGED <<scenario, target, calls, reply, chunks, items, usage, pc, got, torn>>
  BY <1>1 DEF route, attempt, result
<1>6. PICK e \in Nat : At(e)
  BY <1>1 DEF ReadInv
<1>7. /\ data' \in {<<>>, <<Garbled>>, <<e + 1>>}
      /\ \E p \in 0..6 : got = Pieces * e + p /\ (data' # <<>> => p # 0)
  <2>3. /\ Kind(Pieces * e + 1) = "comment" /\ Kind(Pieces * e + 2) = "newline"
        /\ Kind(Pieces * e + 3) = "newline" /\ Kind(Pieces * e + 4) = "head"
        /\ Kind(Pieces * e + 5) = "tail"    /\ Kind(Pieces * e + 6) = "newline"
        /\ Kind(Pieces * e + 7) = "newline" /\ Of(Pieces * e + 4) = e + 1
    BY PieceKinds DEF Frame
  <2>4. Pieces * e \in Nat /\ read \in Nat /\ got \in Nat /\ read <= got
    BY DEF Pieces, TypeOK
  <2>5. \A k \in Nat : read + 1 <= k /\ k <= got => Kind(k) # "newline"
    BY <1>1, <2>4 DEF LineEnds
  <2>6. CASE read = Pieces * e /\ data = <<>>
    <3>1. got <= read + 1
      <4>1. read + 2 \in Nat /\ Kind(read + 2) = "newline" /\ read + 1 <= read + 2
        <5>1. read + 2 = Pieces * e + 2
          BY <2>6
        <5> QED
          BY <2>3, <2>4, <5>1
      <4>2. ~(read + 2 <= got)
        BY <2>5, <4>1
      <4> QED
        BY <2>4, <4>2
    <3>2. read < got => Value(read + 1, got) = <<>>
      BY <2>3, <2>4, <2>6, <3>1 DEF Value
    <3>3. data' = <<>>
      BY <1>1, <2>6, <3>2
    <3>4. got = Pieces * e + 0 \/ got = Pieces * e + 1
      BY <2>4, <2>6, <3>1
    <3> QED
      BY <3>3, <3>4
  <2>7. CASE read = Pieces * e + 2 /\ data = <<>>
    <3>1. got = read
      <4>1. read + 1 = Pieces * e + 3
        BY <2>4, <2>7
      <4>2. read + 1 \in Nat /\ Kind(read + 1) = "newline" /\ read + 1 <= read + 1
        BY <2>3, <2>4, <4>1
      <4>3. ~(read + 1 <= got)
        BY <2>5, <4>2
      <4> QED
        BY <2>4, <4>3
    <3>2. data' = <<>>
      BY <1>1, <2>7, <3>1, <2>4
    <3> QED
      BY <2>7, <3>1, <3>2
  <2>8. CASE read = Pieces * e + 3 /\ data = <<>>
    <3>1. got <= read + 2
      <4>1. read + 3 = Pieces * e + 6
        BY <2>4, <2>8
      <4>2. read + 3 \in Nat /\ Kind(read + 3) = "newline" /\ read + 1 <= read + 3
        BY <2>3, <2>4, <4>1
      <4>3. ~(read + 3 <= got)
        BY <2>5, <4>2
      <4> QED
        BY <2>4, <4>3
    <3>2. read < got => Value(read + 1, got) \in {<<Garbled>>, <<e + 1>>}
      <4>1. read + 1 = Pieces * e + 4
        BY <2>4, <2>8
      <4>2. Kind(read + 1) = "head" /\ Of(read + 1) = e + 1
        BY <2>3, <4>1
      <4> QED
        BY <4>2 DEF Value
    <3>3. data' \in {<<>>, <<Garbled>>, <<e + 1>>}
      BY <1>1, <2>8, <3>2
    <3>4. got = Pieces * e + 3 \/ got = Pieces * e + 4 \/ got = Pieces * e + 5
      BY <2>4, <2>8, <3>1
    <3> QED
      BY <3>3, <3>4
  <2>9. CASE read = Pieces * e + 6 /\ data = <<e + 1>>
    <3>1. got = read
      BY <2>3, <2>4, <2>5, <2>9
    <3>2. data' = <<e + 1>>
      <4>1. ~(read < got)
        BY <3>1, <2>4
      <4>2. data' = data \o <<>>
        BY <1>1, <4>1
      <4> QED
        BY <2>9, <4>2
    <3> QED
      BY <2>9, <3>1, <3>2
  <2> QED
    BY <1>6, <2>6, <2>7, <2>8, <2>9 DEF At
<1>8. AtEnd(e)'
  <2>1. Progress(e)' /\ Total' = Total
    BY <1>5, <1>6, ProgressKept, SameStream DEF At
  <2>2. Len(Events) \in Nat /\ Total = Pieces * Len(Events) /\ got <= Total /\ Events' = Events
    BY <1>1, <1>5, Streams, SameStream DEF ReadInv
  <2>3. PICK p \in 0..6 : got = Pieces * e + p /\ (data' # <<>> => p # 0)
    BY <1>7
  <2>4. data' # <<>> => e < Len(Events)
    BY <2>2, <2>3 DEF Pieces
  <2>5. got = Total => p = 0 /\ e = Len(Events)
    BY <2>2, <2>3 DEF Pieces
  <2>6. <<e + 1>> # <<>>
    OBVIOUS
  <2> QED
    BY <1>5, <1>7, <2>1, <2>2, <2>3, <2>4, <2>5, <2>6 DEF AtEnd
<1>9. RowInv' /\ UsageInv'
  BY <1>5, RowKept
<1>10. ReadInv' /\ OutcomeInv'
  BY <1>1, <1>5, <1>8, SameStream DEF ReadInv, OutcomeInv
<1> QED
  BY <1>3, <1>4, <1>9, <1>10

(* The blank line that ends event e + 1, or the flush at the end.           *)
LEMMA DispatchedOnce ==
    ASSUME IInv, Dispatched
    PROVE  /\ data' = <<>> /\ read' \in 0..got
           /\ \E e \in Nat : /\ Progress(e)
                             /\ ~eof => IsEvent /\ read' = Pieces * (e + 1)
                             /\ eof => got # Total
                             /\ IsEvent => data[1] = e + 1 /\ e + 1 \in 1..Len(Events)
<1> USE DEF IInv, ResultInv
<1>1. /\ pc = "body" /\ data # <<>> /\ data' = <<>>
      /\ eof \/ LineEnd(read + 1)
      /\ read' = IF eof THEN read ELSE read + 1
  BY DEF Dispatched
<1>2. read' \in 0..got
  BY <1>1 DEF TypeOK, LineEnd, LineEnds
<1>3. Len(Events) \in Nat /\ Total = Pieces * Len(Events) /\ got <= Total
  BY <1>1, Streams DEF ReadInv
<1>4. CASE ~eof
  <2>1. PICK e \in Nat : At(e)
    BY <1>1, <1>4 DEF ReadInv
  <2>2. read = Pieces * e + 6 /\ data = <<e + 1>> /\ Progress(e)
    BY <1>1, <2>1 DEF At
  <2>3. IsEvent /\ data[1] = e + 1
    BY <2>2 DEF IsEvent, Garbled
  <2>4. e + 1 \in 1..Len(Events)
    BY <1>3, <2>2 DEF TypeOK, Pieces
  <2>5. read' = Pieces * (e + 1)
    BY <1>1, <1>4, <2>2 DEF Pieces
  <2> QED
    BY <1>1, <1>2, <1>4, <2>2, <2>3, <2>4, <2>5
<1>5. CASE eof
  <2>1. PICK e \in Nat : AtEnd(e)
    BY <1>1, <1>5 DEF ReadInv
  <2>2. got # Total /\ data \in {<<Garbled>>, <<e + 1>>} /\ Progress(e)
    BY <1>1, <2>1 DEF AtEnd
  <2>3. IsEvent => data = <<e + 1>>
    BY <2>2 DEF IsEvent
  <2>4. data = <<e + 1>> => data[1] = e + 1 /\ e + 1 \in 1..Len(Events)
    BY <1>3, <2>1 DEF AtEnd
  <2> QED
    BY <1>1, <1>2, <1>5, <2>2, <2>3, <2>4
<1> QED
  BY <1>4, <1>5

(* After it, the parser is where the next event begins.                     *)
LEMMA PlaceMoves ==
    ASSUME IInv, Dispatched, NEW e \in Nat,
           ~eof => IsEvent /\ read' = Pieces * (e + 1), eof => got # Total,
           IsEvent => Progress(e + 1)', ~IsEvent => Progress(e)', pc' = "body"
    PROVE  ReadInv'
<1>1. /\ pc = "body" /\ data' = <<>> /\ read' = IF eof THEN read ELSE read + 1
      /\ UNCHANGED <<scenario, target, calls, reply, got, eof, torn>>
  BY DEF Dispatched, route, attempt
<1>2. Streamed' = Streamed /\ Adapter' = Adapter /\ Total' = Total
  BY <1>1, SameStream
<1>3. IsEvent => (~eof => At(e + 1)')
  BY <1>1 DEF At
<1>4. eof => AtEnd(e + 1)' \/ AtEnd(e)'
  <2> SUFFICES ASSUME eof PROVE AtEnd(e + 1)' \/ AtEnd(e)'
    OBVIOUS
  <2>1. \A k \in Nat : <<>> # <<k + 1>>
    OBVIOUS
  <2>2. CASE IsEvent
    <3>1. Progress(e + 1)'
      BY <2>2
    <3> QED
      BY <1>1, <1>2, <2>1, <3>1 DEF AtEnd
  <2>3. CASE ~IsEvent
    <3>1. Progress(e)'
      BY <2>3
    <3> QED
      BY <1>1, <1>2, <2>1, <3>1 DEF AtEnd
  <2> QED
    BY <2>2, <2>3
<1>5. e + 1 \in Nat
  OBVIOUS
<1> QED
  BY <1>1, <1>2, <1>3, <1>4, <1>5 DEF IInv, ResultInv, ReadInv

(* What a dispatch leaves alone.                                            *)
LEMMA DispatchKeeps ==
    ASSUME IInv, Dispatched, pc' \in {"body", "account", "untyped"}
    PROVE  /\ TypeOK' /\ CallsInv' /\ DelayInv'
           /\ UNCHANGED <<scenario, target, calls, reply, got, eof, torn>>
           /\ pc = "body" /\ reply \in Replies
<1>0. data' = <<>> /\ read' \in 0..got
  BY DispatchedOnce
<1> USE DEF IInv, ResultInv
<1>1. pc = "body" /\ UNCHANGED <<route, attempt, reply, got, eof, torn>>
  BY DEF Dispatched
<1>2. UNCHANGED <<scenario, target, renewed, tries, delay, calls, reply, got, eof, torn>>
  BY <1>1 DEF route, attempt
<1>3. TypeOK'
  BY <1>0, <1>1, <1>2 DEF TypeOK, PCs, Ended
<1>4. CallsInv' /\ DelayInv'
  BY <1>1, <1>2 DEF CallsInv, DelayInv, Budget
<1> QED
  BY <1>1, <1>2, <1>3, <1>4 DEF ReadInv

LEMMA SkipKeeps ==
    ASSUME IInv, Skip
    PROVE  IInv'
<1>1. Dispatched /\ ~IsEvent /\ pc' = pc /\ UNCHANGED <<chunks, items, usage>>
  BY DEF Skip, result
<1>2. pc' = "body"
  BY <1>1 DEF Dispatched
<1>3. /\ TypeOK' /\ CallsInv' /\ DelayInv'
      /\ UNCHANGED <<scenario, target, calls, reply, got, eof, torn>> /\ pc = "body"
  BY <1>1, <1>2, DispatchKeeps
<1>4. PICK e \in Nat : /\ Progress(e)
                       /\ ~eof => IsEvent /\ read' = Pieces * (e + 1)
                       /\ eof => got # Total
  BY <1>1, DispatchedOnce
<1>5. Progress(e)'
  BY <1>1, <1>3, <1>4, ProgressKept
<1>6. ReadInv'
  BY <1>1, <1>2, <1>4, <1>5, PlaceMoves
<1>7. RowInv' /\ UsageInv'
  BY <1>1, <1>2, <1>3, RowKept DEF IInv, ResultInv, Before
<1>8. OutcomeInv'
  BY <1>2 DEF OutcomeInv
<1> QED
  BY <1>3, <1>6, <1>7, <1>8 DEF IInv, ResultInv

LEMMA ForwardKeeps ==
    ASSUME IInv, Forward
    PROVE  IInv'
<1>1. /\ Dispatched /\ IsEvent /\ Streamed /\ Passed(Adapter, Read) /\ pc' = pc
      /\ chunks' = Append(chunks, FromEvent(Adapter, Read))
      /\ usage' = IF FromEvent(Adapter, Read).usage = NoUsage THEN usage
                  ELSE FromEvent(Adapter, Read).usage
  BY DEF Forward, Passed
<1>2. pc' = "body"
  BY <1>1 DEF Dispatched
<1>3. /\ TypeOK' /\ CallsInv' /\ DelayInv'
      /\ UNCHANGED <<scenario, target, calls, reply, got, eof, torn>>
      /\ pc = "body" /\ reply \in Replies
  BY <1>1, <1>2, DispatchKeeps
<1>4. PICK e \in Nat : /\ Progress(e)
                       /\ ~eof => IsEvent /\ read' = Pieces * (e + 1)
                       /\ eof => got # Total
                       /\ data[1] = e + 1 /\ e + 1 \in 1..Len(Events)
  BY <1>1, DispatchedOnce
<1>5. /\ Chunk' = Chunk /\ Events' = Events /\ Streamed' = Streamed
      /\ Adapter' = Adapter /\ Whole' = Whole
  BY <1>3, SameStream
<1>6. /\ Len(chunks) = e /\ chunks = [i \in 1..e |-> Chunk[i]]
      /\ e <= Len(Events) /\ \A i \in 1..e : Passed(Adapter, Events[i])
  BY <1>1, <1>4 DEF Progress, IInv, ResultInv, RowInv
<1>7. Chunk[e + 1] = FromEvent(Adapter, Read) /\ Passed(Adapter, Events[e + 1])
  <2>1. Read = Decoded(Events, e + 1)
    BY <1>4 DEF Read
  <2>2. Passed(Adapter, Events[e + 1])
    BY <1>1, <1>3, <1>4, <2>1, DecodedTells DEF IInv
  <2>3. Chunk[e + 1] = FromEvent(Adapter, Decoded(Events, e + 1))
    BY DEF Chunk
  <2> QED
    BY <2>1, <2>2, <2>3
<1>8. chunks' = [i \in 1..(e + 1) |-> Chunk[i]] /\ Len(chunks') = e + 1
  BY <1>1, <1>6, <1>7, RowGrows
<1>9. Progress(e + 1)'
  <2>1. e + 1 <= Len(Events) /\ Len(Events) \in Nat
    BY <1>3, <1>4, Streams DEF IInv
  <2>2. \A i \in 1..(e + 1) : Passed(Adapter, Events[i])
    BY <1>6, <1>7
  <2> QED
    BY <1>1, <1>5, <1>8, <2>1, <2>2 DEF Progress
<1>10. ReadInv'
  BY <1>1, <1>2, <1>4, <1>9, PlaceMoves
<1>11. RowInv'
  BY <1>1, <1>2, <1>5, <1>8 DEF RowInv, Before
<1>12. UsageInv'
  <2>1. Chunk[e + 1].usage \in {NoUsage, Reported(Adapter, Whole.usage)}
    <3>1. e + 1 \in 1..Len(Row) /\ Chunk[e + 1].usage = Row[e + 1].usage
      BY <1>3, <1>4, <1>7, ChunkIsRow DEF IInv
    <3> QED
      BY <1>3, <3>1, Streams DEF IInv
  <2>2. usage = IF \E i \in 1..e : Chunk[i].usage # NoUsage
                THEN Reported(Adapter, Whole.usage) ELSE NoUsage
    BY <1>1, <1>6 DEF IInv, ResultInv, UsageInv
  <2>3. usage' = IF Chunk[e + 1].usage = NoUsage THEN usage ELSE Chunk[e + 1].usage
    BY <1>1, <1>7
  <2>4. \A i : i \in 1..(e + 1) <=> i \in 1..e \/ i = e + 1
    OBVIOUS
  <2>5. usage' = IF \E i \in 1..(e + 1) : Chunk[i].usage # NoUsage
                 THEN Reported(Adapter, Whole.usage) ELSE NoUsage
    BY <2>1, <2>2, <2>3, <2>4
  <2> QED
    BY <1>5, <1>8, <2>5 DEF UsageInv
<1>13. OutcomeInv'
  BY <1>2 DEF OutcomeInv
<1> QED
  BY <1>3, <1>10, <1>11, <1>12, <1>13 DEF IInv, ResultInv

(* The end marker comes last: every chunk has been sent.                    *)
LEMMA DoneKeeps ==
    ASSUME IInv, Done
    PROVE  IInv'
<1>1. /\ Dispatched /\ IsEvent /\ Streamed /\ Read.type = "[DONE]" /\ pc' = "account"
      /\ UNCHANGED <<chunks, items, usage>>
  BY DEF Done, result
<1>2. /\ TypeOK' /\ CallsInv' /\ DelayInv'
      /\ UNCHANGED <<scenario, target, calls, reply, got, eof, torn>>
      /\ pc = "body" /\ reply \in Replies
  BY <1>1, DispatchKeeps
<1>3. PICK e \in Nat : /\ Progress(e)
                       /\ data[1] = e + 1 /\ e + 1 \in 1..Len(Events)
  BY <1>1, DispatchedOnce
<1>4. /\ Streamed' = Streamed /\ Row' = Row
  BY <1>2, SameStream
<1>5. Len(chunks) = Len(Row)
  <2>1. Len(chunks) = e /\ Events[e + 1].type = "[DONE]"
    <3>1. Len(chunks) = e /\ Read = Decoded(Events, e + 1)
      BY <1>1, <1>3 DEF Progress, Read
    <3>2. Decoded(Events, e + 1).type = Events[e + 1].type
      BY <1>2, <1>3, DecodedTells DEF IInv
    <3> QED
      BY <1>1, <3>1, <3>2
  <2>2. Becomes(Adapter, Events, Row) /\ Len(Events) \in Nat /\ Len(Row) \in Nat
    BY <1>2, Streams DEF IInv
  <2>3. ~(e + 1 \in 1..Len(Row))
    BY <2>1, <2>2 DEF Becomes, Sendable, Passed
  <2>4. Len(Events) \in {Len(Row), Len(Row) + 1}
    BY <2>2 DEF Becomes
  <2> QED
    BY <1>3, <2>1, <2>2, <2>3, <2>4
<1>6. RowInv' /\ UsageInv'
  BY <1>1, <1>2, RowKept DEF IInv, ResultInv, Before
<1>7. Len(Row) \in Nat
  BY <1>2, Streams DEF IInv
<1>8. OutcomeInv'
  BY <1>1, <1>2, <1>4, <1>5, <1>7 DEF OutcomeInv
<1>9. (eof' => read' = got') /\ (got' = 0 => torn' = {})
  BY <1>1, <1>2 DEF Dispatched, IInv, ResultInv, ReadInv
<1>10. ReadInv'
  BY <1>1, <1>9 DEF ReadInv
<1> QED
  BY <1>2, <1>6, <1>8, <1>10 DEF IInv, ResultInv

(* An event that is no chunk ends the request where it is.                  *)
LEMMA InvalidKeeps ==
    ASSUME IInv, Invalid
    PROVE  IInv'
<1>1. Dispatched /\ pc' = "untyped" /\ UNCHANGED <<chunks, items, usage>>
  BY DEF Invalid, result
<1>2. /\ TypeOK' /\ CallsInv' /\ DelayInv'
      /\ UNCHANGED <<scenario, target, calls, reply, got, eof, torn>>
  BY <1>1, DispatchKeeps
<1>3. RowInv' /\ UsageInv'
  BY <1>1, <1>2, RowKept DEF IInv, ResultInv, Before
<1>4. OutcomeInv'
  BY <1>1 DEF OutcomeInv
<1>5. (eof' => read' = got') /\ (got' = 0 => torn' = {})
  BY <1>1, <1>2 DEF Dispatched, IInv, ResultInv, ReadInv
<1>6. ReadInv'
  BY <1>1, <1>5 DEF ReadInv
<1> QED
  BY <1>2, <1>3, <1>4, <1>6 DEF IInv, ResultInv

(* The items that e + 1 events have brought.                                *)
LEMMA ItemsGrow ==
    ASSUME NEW E, NEW e \in Nat, NEW x, x = Flat(ItemRows(E), e),
           NEW y, y = IF E[e + 1].type = "output_item.done" THEN Append(x, E[e + 1].body) ELSE x
    PROVE  y = Flat(ItemRows(E), e + 1)
<1> DEFINE F == ItemRows(E)
           S == {E[i].body : i \in Nat}
<1>1. /\ \A i \in Nat : F[i] \in Seq(S)
      /\ F[e + 1] = IF E[e + 1].type = "output_item.done" THEN <<E[e + 1].body>> ELSE <<>>
  <2>1. \A i \in Nat : F[i] = IF E[i].type = "output_item.done" THEN <<E[i].body>> ELSE <<>>
    BY DEF ItemRows
  <2>2. \A i \in Nat : <<E[i].body>> \in Seq(S)
    <3> SUFFICES ASSUME NEW i \in Nat PROVE <<E[i].body>> \in Seq(S)
      OBVIOUS
    <3>1. E[i].body \in S
      OBVIOUS
    <3> HIDE DEF S
    <3> QED
      BY <3>1
  <2>3. <<>> \in Seq(S)
    BY EmptySeq
  <2>4. \A i \in Nat : F[i] \in Seq(S)
    <3> HIDE DEF F, S
    <3> QED
      BY <2>1, <2>2, <2>3
  <2>5. e + 1 \in Nat
    OBVIOUS
  <2> HIDE DEF F, S
  <2>6. F[e + 1] = IF E[e + 1].type = "output_item.done" THEN <<E[e + 1].body>> ELSE <<>>
    BY <2>1, <2>5
  <2> QED
    BY <2>4, <2>6
<1> HIDE DEF F, S
<1>2. F[1] \in Seq(S) /\ F[e + 1] \in Seq(S) /\ \A i \in 1..e : F[i] \in Seq(S)
  <2>1. 1 \in Nat /\ e + 1 \in Nat /\ \A i \in 1..e : i \in Nat
    OBVIOUS
  <2> QED
    BY <1>1, <2>1
<1>3. x = Flat(F, e) /\ x \in Seq(S)
  <2>1. Flat(F, e) \in Seq(S)
    BY <1>2, FlatType
  <2> QED
    BY <2>1 DEF F
<1>4. Flat(F, e + 1) = Flat(F, e) \o F[e + 1]
  BY <1>2, FlatNext
<1>5. CASE E[e + 1].type = "output_item.done"
  <2> DEFINE z == E[e + 1].body
  <2>1. y = Append(x, z) /\ F[e + 1] = <<z>>
    BY <1>1, <1>5
  <2> HIDE DEF z
  <2>2. Append(x, z) = x \o <<z>>
    BY <1>3
  <2> QED
    BY <1>3, <1>4, <2>1, <2>2 DEF F
<1>6. CASE E[e + 1].type # "output_item.done"
  <2>1. y = x /\ F[e + 1] = <<>>
    BY <1>1, <1>6
  <2>2. x \o <<>> = x
    BY <1>3, ConcatEmptySeq
  <2> QED
    BY <1>3, <1>4, <2>1, <2>2 DEF F
<1> QED
  BY <1>5, <1>6

(* A Codex stream that is collected: the completed event is its last, and   *)
(* the items before it are the whole answer.                                *)
LEMMA AggregateKeeps ==
    ASSUME IInv, Aggregate
    PROVE  IInv'
<1>1. /\ Dispatched /\ IsEvent /\ ~Streamed /\ chunks' = chunks /\ pc' \in {"body", "account"}
      /\ items' = IF Read.type = "output_item.done" THEN Append(items, Read.body) ELSE items
      /\ pc' = "account" => /\ Read.type = "completed" /\ usage' = Read.body.usage
                            /\ answer' = FromResponse(Adapter, [Read.body EXCEPT !.content = items])
  BY DEF Aggregate, Dispatched
<1>2. /\ TypeOK' /\ CallsInv' /\ DelayInv'
      /\ UNCHANGED <<scenario, target, calls, reply, got, eof, torn>>
      /\ pc = "body" /\ reply \in Replies
  BY <1>1, DispatchKeeps
<1>3. PICK e \in Nat : /\ Progress(e)
                       /\ ~eof => IsEvent /\ read' = Pieces * (e + 1)
                       /\ eof => got # Total
                       /\ data[1] = e + 1 /\ e + 1 \in 1..Len(Events)
  BY <1>1, DispatchedOnce
<1>4. /\ Events' = Events /\ Streamed' = Streamed /\ Adapter' = Adapter /\ Whole' = Whole
  BY <1>2, SameStream
<1>5. reply \in Reply /\ calls \in Nat /\ Adapter = "codex"
  BY <1>1, <1>2, RepliesAssumption DEF IInv, TypeOK, ResultInv, ReadInv
<1>6. Events = StreamEvents("codex", calls, reply) /\ Whole = Response(calls, reply)
  BY <1>5 DEF Events, Whole
<1>7. /\ Read = Decoded(Events, e + 1) /\ Read.type = Events[e + 1].type
      /\ Read.type = "completed" => Read.body = Events[e + 1].body
  <2>1. Read = Decoded(Events, e + 1)
    BY <1>3 DEF Read
  <2> QED
    BY <1>2, <1>3, <2>1, DecodedTells DEF IInv
<1>8. torn = {} => items = Flat(ItemRows(Events), e) /\ Read = Events[e + 1]
  BY <1>1, <1>3, <1>7 DEF Progress, Decoded
<1>10. torn = {} => items' = Flat(ItemRows(Events), e + 1)
  <2> SUFFICES ASSUME torn = {} PROVE items' = Flat(ItemRows(Events), e + 1)
    OBVIOUS
  <2>1. items' = IF Events[e + 1].type = "output_item.done"
                 THEN Append(items, Events[e + 1].body) ELSE items
    BY <1>1, <1>8
  <2> QED
    BY <1>8, <2>1, ItemsGrow
<1>11. ReadInv'
  <2>1. CASE pc' = "body"
    <3>1. torn' = {} => items' = Flat(ItemRows(Events)', e + 1)
      BY <1>2, <1>4, <1>10
    <3>2. e + 1 <= Len(Events) /\ Len(Events') = Len(Events)
      <4>1. Len(Events) \in Nat
        BY <1>2, Streams DEF IInv
      <4> QED
        BY <1>3, <1>4, <4>1
    <3>3. ~Streamed'
      BY <1>1, <1>4
    <3>4. Progress(e + 1)'
      BY <3>1, <3>2, <3>3 DEF Progress
    <3> QED
      BY <1>1, <1>3, <2>1, <3>4, PlaceMoves
  <2>2. CASE pc' = "account"
    <3>1. (eof' => read' = got') /\ (got' = 0 => torn' = {})
      BY <1>1, <1>2 DEF Dispatched, IInv, ResultInv, ReadInv
    <3> QED
      BY <2>2, <3>1 DEF ReadInv
  <2> QED
    BY <1>1, <2>1, <2>2
<1>12. RowInv'
  BY <1>1, <1>2, RowKept DEF IInv, ResultInv, Before
<1>13. UsageInv'
  BY <1>1, <1>4 DEF UsageInv
<1>14. OutcomeInv'
  <2> SUFFICES ASSUME pc' = "account"
               PROVE  /\ torn = {} => answer' = FromResponse(Adapter, Whole)
                      /\ usage' = Whole.usage
    BY <1>1, <1>2, <1>4 DEF OutcomeInv
  <2>1. /\ Len(Events) \in Nat \ {0}
        /\ Events[e + 1].type = "completed" => e + 1 = Len(Events)
        /\ Events[Len(Events)].type = "completed" =>
              /\ Events[Len(Events)].body = [Whole EXCEPT !.content = <<>>]
              /\ Flat(ItemRows(Events), Len(Events) - 1) = Whole.content
    BY <1>3, <1>5, <1>6, CodexStream
  <2>2. Events[e + 1].type = "completed"
    BY <1>1, <1>7
  <2>3. e = Len(Events) - 1
    BY <2>1, <2>2
  <2>4. /\ torn = {} => items = Whole.content
        /\ Read.body = [Whole EXCEPT !.content = <<>>]
    BY <1>1, <1>7, <1>8, <2>1, <2>2, <2>3
  <2>5. Whole = [content |-> Whole.content, stop |-> reply.stop, usage |-> Whole.usage]
    BY <1>5, ResponseType DEF Whole
  <2>6. /\ torn = {} => [Read.body EXCEPT !.content = items] = Whole
        /\ Read.body.usage = Whole.usage
    BY <2>4, <2>5
  <2> QED
    BY <1>1, <2>6
<1> QED
  BY <1>2, <1>11, <1>12, <1>13, <1>14 DEF IInv, ResultInv


--------------------------------------------------------------------------------
(* The request leaves the upstream call: for its end or its metering.       *)
LEMMA LeavingKeeps ==
    ASSUME IInv, pc' \in Ended \cup {"account"}, OutcomeInv',
           UNCHANGED <<route, attempt, wire, chunks, items, usage>>
    PROVE  IInv'
<1>1. UNCHANGED <<scenario, target, renewed, tries, delay, calls, reply, got, read, eof, torn,
                  data, chunks, items, usage>>
  BY DEF route, attempt, wire
<1>2. TypeOK' /\ CallsInv' /\ DelayInv'
  BY <1>1 DEF IInv, TypeOK, CallsInv, DelayInv, Budget, PCs, Ended
<1>3. RowInv' /\ UsageInv'
  BY <1>1, RowKept DEF IInv, ResultInv, Ended, Before
<1>4. ReadInv'
  BY <1>1 DEF IInv, ResultInv, ReadInv, Ended
<1> QED
  BY <1>2, <1>3, <1>4 DEF IInv, ResultInv

(* What is answered stays answered while it is metered.                     *)
LEMMA OutcomeStays ==
    ASSUME IInv, UNCHANGED <<scenario, target, calls, reply, got, eof, torn, chunks, usage, answer>>,
           pc' \in {"account", "success"} => pc \in {"account", "success"},
           pc' = "success" => recorded' = usage' /\ (~Streamed => stored' = usage')
    PROVE  OutcomeInv'
<1>1. Streamed' = Streamed /\ Adapter' = Adapter /\ Whole' = Whole /\ Row' = Row /\ Total' = Total
  BY SameStream
<1>2. Uncut' = Uncut
  BY <1>1 DEF Uncut
<1> QED
  BY <1>1, <1>2 DEF IInv, ResultInv, OutcomeInv

(* A client that leaves, a peer that closes, a stream that breaks off.      *)
LEMMA GivingUpKeeps ==
    ASSUME IInv, pc' \in {"untyped", "broken", "gone"},
           UNCHANGED <<route, attempt, wire, result>>
    PROVE  IInv'
<1>1. OutcomeInv'
  BY DEF OutcomeInv
<1> QED
  BY <1>1, LeavingKeeps DEF Ended, result

LEMMA AcquireKeeps ==
    ASSUME IInv, Acquire
    PROVE  IInv'
<1>1. pc = "acquire" /\ Len(chunks) = 0
  BY DEF Acquire, IInv, ResultInv, RowInv, Before
<1>2. CASE \E error \in {"reauth", "other"} : TargetFails(error)
  BY <1>1, <1>2, TargetFailsKeeps
<1>3. CASE /\ tries' = 0 /\ delay' = 0 /\ items' = <<>> /\ pc' = "call"
           /\ UNCHANGED <<route, calls, wire, chunks, usage>>
  <2>1. TypeOK'
    BY <1>3, AttemptsAssumption DEF IInv, TypeOK, route, wire, PCs
  <2>2. CallsInv'
    BY <1>1, <1>3, AttemptsAssumption, Budgets DEF IInv, TypeOK, CallsInv, Budget, route
  <2>3. DelayInv'
    BY <1>3, BackoffAssumption DEF DelayInv
  <2>4. UNCHANGED <<scenario, target, reply, calls, read, got, eof, torn>>
    BY <1>3 DEF route, wire
  <2>5. RowInv' /\ UsageInv'
    BY <1>1, <1>3, <2>4, RowKept DEF IInv, ResultInv
  <2>6. ReadInv' /\ OutcomeInv'
    BY <1>3, <2>4 DEF IInv, ResultInv, ReadInv, OutcomeInv
  <2> QED
    BY <2>1, <2>2, <2>3, <2>5, <2>6 DEF IInv, ResultInv
<1>4. CASE RaisesUntyped
  BY <1>4, GivingUpKeeps DEF RaisesUntyped
<1> QED
  BY <1>2, <1>3, <1>4 DEF Acquire

LEMMA RenewKeeps ==
    ASSUME IInv, Renew
    PROVE  IInv'
<1>1. pc = "renew" /\ Len(chunks) = 0
  BY DEF Renew, IInv, ResultInv, RowInv, Before
<1>2. CASE \E error \in {"unauthorized", "reauth"} : TargetFails(error)
  BY <1>1, <1>2, TargetFailsKeeps
<1>3. CASE renewed' = TRUE /\ pc' = "acquire" /\ UNCHANGED <<scenario, target, attempt, wire, result>>
  <2>1. TypeOK'
    BY <1>3 DEF IInv, TypeOK, attempt, wire, PCs
  <2>2. CallsInv'
    <3>1. Budget \in Nat /\ ~renewed /\ calls <= Budget + MaxAttempts
      BY <1>1, Budgets DEF IInv, CallsInv
    <3>2. 2 * MaxAttempts * (target - 1) \in Int
      BY Positions, AttemptsAssumption DEF IInv
    <3>3. Budget' = Budget + MaxAttempts
      BY <1>3, <3>1, <3>2, AttemptsAssumption DEF Budget
    <3> QED
      BY <1>3, <3>1, <3>3 DEF IInv, CallsInv, attempt
  <2>3. DelayInv'
    BY <1>3 DEF IInv, DelayInv, attempt
  <2>4. UNCHANGED <<scenario, target, reply, calls, read, got, eof, torn, chunks, usage>>
    BY <1>3 DEF attempt, wire, result
  <2>5. RowInv' /\ UsageInv'
    BY <1>1, <2>4, RowKept DEF IInv, ResultInv
  <2>6. ReadInv' /\ OutcomeInv'
    BY <1>3, <2>4 DEF IInv, ResultInv, ReadInv, OutcomeInv
  <2> QED
    BY <2>1, <2>2, <2>3, <2>5, <2>6 DEF IInv, ResultInv
<1>4. CASE RaisesUntyped
  BY <1>4, GivingUpKeeps DEF RaisesUntyped
<1> QED
  BY <1>2, <1>3, <1>4 DEF Renew

LEMMA SendKeeps ==
    ASSUME IInv, Send
    PROVE  IInv'
<1>1. /\ pc = "call" /\ pc' = "wait" /\ tries' = tries + 1 /\ calls' = calls + 1
      /\ reply' = NoReply /\ got' = 0 /\ read' = 0 /\ eof' = FALSE /\ torn' = {} /\ data' = <<>>
      /\ delay' = 0 /\ UNCHANGED <<route, chunks, items, usage>>
  BY DEF Send, result
<1>2. Len(chunks) = 0 /\ tries < MaxAttempts
  BY <1>1 DEF IInv, ResultInv, RowInv, Before, CallsInv
<1>3. TypeOK'
  <2>1. tries' \in 0..MaxAttempts /\ calls' \in Nat
    BY <1>1, <1>2, AttemptsAssumption DEF IInv, TypeOK
  <2>2. got' \in Nat /\ read' \in 0..got' /\ data' \in Seq(Nat) /\ eof' \in BOOLEAN
    <3>1. 0 \in Nat /\ 0 \in 0..0 /\ <<>> \in Seq(Nat)
      OBVIOUS
    <3> QED
      BY <1>1, <3>1
  <2> QED
    BY <1>1, <2>1, <2>2 DEF IInv, TypeOK, route, PCs
<1>4. CallsInv'
  <2>1. Budget' = Budget /\ Budget \in Nat /\ calls <= Budget + tries
        /\ Budget + MaxAttempts <= 2 * MaxAttempts * target
    BY <1>1, Budgets DEF IInv, CallsInv, Budget, route
  <2>2. 2 * MaxAttempts * target \in Nat
    BY Positions, AttemptsAssumption DEF IInv
  <2>3. calls' <= Budget' + tries' /\ calls' <= 2 * MaxAttempts * target'
    BY <1>1, <1>2, <2>1, <2>2, AttemptsAssumption DEF IInv, TypeOK, route
  <2> QED
    BY <1>1, <2>3 DEF CallsInv
<1>5. DelayInv'
  BY <1>1, BackoffAssumption DEF DelayInv
<1>6. scenario' = scenario /\ Streamed' = Streamed
  BY <1>1 DEF route, Streamed
<1>7. RowInv' /\ UsageInv'
  BY <1>1, <1>2, <1>6, RowKept DEF IInv, ResultInv
<1>8. ReadInv' /\ OutcomeInv'
  BY <1>1, <1>6 DEF IInv, ResultInv, ReadInv, OutcomeInv
<1> QED
  BY <1>3, <1>4, <1>5, <1>7, <1>8 DEF IInv, ResultInv

(* A reply: read whole, or its stream begun.                                *)
LEMMA AnsweredKeeps ==
    ASSUME IInv, Answered
    PROVE  IInv'
<1>1. /\ pc = "wait" /\ reply' \in Replies
      /\ UNCHANGED <<scenario, target, renewed, tries, delay, calls, got, read, eof, torn, data,
                     chunks, items>>
      /\ \/ Piped /\ pc' = "body" /\ UNCHANGED <<answer, usage>>
         \/ /\ ~Piped /\ pc' = "account"
            /\ answer' = FromResponse(Adapter, Response(calls, reply'))
            /\ usage' = Response(calls, reply').usage
  BY DEF Answered, route, attempt
<1>2. /\ Len(chunks) = 0 /\ read = 0 /\ got = 0 /\ data = <<>> /\ ~eof /\ torn = {}
      /\ ~Streamed => items = <<>>
  BY <1>1 DEF IInv, ResultInv, RowInv, ReadInv, Before
<1>3. TypeOK'
  BY <1>1 DEF IInv, TypeOK, PCs
<1>4. CallsInv' /\ DelayInv'
  BY <1>1 DEF IInv, CallsInv, DelayInv, Budget
<1>5. Adapter' = Adapter /\ Streamed' = Streamed /\ Whole' = Response(calls, reply')
  BY <1>1 DEF Adapter, Current, Streamed, Whole
<1>6. Len(Events') \in Nat /\ Total' = Pieces * Len(Events')
  <2>1. Events' = StreamEvents(Adapter, calls, reply')
    BY <1>1, <1>5 DEF Events
  <2>2. Adapter \in Adapters /\ calls \in Nat /\ reply' \in Reply
    BY <1>1, Positions, RepliesAssumption DEF IInv, TypeOK
  <2>3. Becomes(Adapter, StreamEvents(Adapter, calls, reply'),
                ClientRow(Adapter, Response(calls, reply')))
    BY <2>2, EventsBecome
  <2> QED
    BY <2>1, <2>3 DEF Becomes, Total
<1>7. At(0)'
  <2>1. Progress(0)'
    <3>1. ~Streamed => items' = Flat(ItemRows(Events'), 0)
      BY <1>1, <1>2, FlatZero
    <3> QED
      BY <1>1, <1>2, <1>5, <1>6, <3>1 DEF Progress
  <2> QED
    BY <1>1, <1>2, <2>1 DEF At, Pieces
<1>8. ReadInv'
  <2>1. got' <= Total'
    BY <1>1, <1>2, <1>6 DEF Pieces
  <2>2. pc' = "body" => (~Streamed' => Adapter' = "codex")
    BY <1>1, <1>5 DEF Piped
  <2> QED
    BY <1>1, <1>2, <1>7, <2>1, <2>2 DEF ReadInv
<1>9. RowInv'
  BY <1>1, <1>2, RowKept DEF IInv, ResultInv, Before
<1>10. UsageInv'
  <2>1. CASE Streamed
    BY <1>1, <1>2, <2>1, RowKept DEF IInv, ResultInv, Piped
  <2>2. CASE ~Streamed
    BY <1>5, <2>2 DEF UsageInv
  <2> QED
    BY <2>1, <2>2
<1>11. OutcomeInv'
  BY <1>1, <1>5 DEF OutcomeInv, Piped
<1> QED
  BY <1>3, <1>4, <1>8, <1>9, <1>10, <1>11 DEF IInv, ResultInv

LEMMA OfLater ==
    ASSUME NEW e \in Nat, NEW k \in Nat, Pieces * e < k
    PROVE  Of(k) \in Nat /\ Of(k) > e
BY DEF Of, Pieces

LEMMA ArriveKeeps ==
    ASSUME IInv, Arrive
    PROVE  IInv'
<1> USE DEF IInv, ResultInv
<1>1. /\ pc = "body" /\ ~eof /\ got' \in Nat /\ got < got' /\ got' <= Total
      /\ torn \subseteq torn' /\ torn' \subseteq torn \cup {Of(got')}
      /\ UNCHANGED <<route, pc, attempt, reply, read, eof, data, result>>
  BY ChunksAssumption DEF Arrive, Starving, TypeOK
<1>2. TypeOK'
  <2>1. Of(got') \in Nat
    <3>1. Pieces * 0 < got'
      BY <1>1 DEF TypeOK, Pieces
    <3> QED
      BY <1>1, <3>1, OfLater
  <2>2. torn' \subseteq Nat
    BY <1>1, <2>1 DEF TypeOK
  <2>3. read' \in 0..got'
    BY <1>1 DEF TypeOK
  <2> QED
    BY <1>1, <2>2, <2>3 DEF TypeOK, route, attempt
<1>3. CallsInv' /\ DelayInv'
  BY <1>1 DEF CallsInv, DelayInv, Budget, route, attempt
<1>4. UNCHANGED <<scenario, target, calls, reply, chunks, items, usage>>
  BY <1>1 DEF route, attempt, result
<1>5. PICK e \in Nat : At(e)
  BY <1>1 DEF ReadInv
<1>6. At(e)'
  <2>1. Progress(e)'
    BY <1>1, <1>4, <1>5, ProgressKept DEF At
  <2> QED
    BY <1>1, <1>5, <2>1 DEF At
<1>7. Total' = Total /\ Streamed' = Streamed /\ Adapter' = Adapter
  BY <1>4, SameStream
<1>8. ReadInv'
  <2>1. got' # 0
    BY <1>1 DEF TypeOK
  <2> QED
    BY <1>1, <1>6, <1>7, <2>1 DEF ReadInv
<1>9. \A i \in 1..Len(chunks) : i \in torn' <=> i \in torn
  <2>1. Pieces * e <= got
    BY <1>5 DEF At, TypeOK, Pieces
  <2>2. Of(got') > e
    <3>1. Pieces * e < got'
      BY <1>1, <2>1 DEF TypeOK, Pieces
    <3> QED
      BY <1>1, <3>1, OfLater
  <2>3. Len(chunks) \in {0, e}
    BY <1>5 DEF At, Progress, RowInv
  <2> QED
    BY <1>1, <2>2, <2>3
<1>10. RowInv' /\ UsageInv'
  BY <1>1, <1>4, <1>9, RowKept
<1>11. OutcomeInv'
  BY <1>1 DEF OutcomeInv
<1> QED
  BY <1>2, <1>3, <1>8, <1>10, <1>11

(* A stream that ends without its marker has sent every chunk, unless it    *)
(* was cut short.                                                           *)
LEMMA EndKeeps ==
    ASSUME IInv, End
    PROVE  IInv'
<1>1. pc = "body" /\ eof /\ data = <<>>
  BY DEF End
<1>2. CASE ~Streamed
  <2>1. Len(chunks) = 0
    BY <1>2 DEF IInv, ResultInv, RowInv
  <2> QED
    BY <1>1, <1>2, <2>1, CallFailsKeeps DEF End
<1>3. CASE Streamed
  <2>1. pc' = "account" /\ UNCHANGED <<route, attempt, wire, result>>
    BY <1>3 DEF End
  <2>2. UNCHANGED <<scenario, target, calls, reply, got, eof, torn, chunks, usage>>
    BY <2>1 DEF route, attempt, wire, result
  <2>3. Streamed' = Streamed /\ Row' = Row /\ Total' = Total
    BY <2>2, SameStream
  <2>4. PICK e \in Nat : AtEnd(e)
    BY <1>1 DEF IInv, ResultInv, ReadInv
  <2>5. /\ Len(chunks) = e /\ e <= Len(Events) /\ (got = Total => e = Len(Events))
        /\ \A i \in 1..e : Passed(Adapter, Events[i])
    BY <1>3, <2>4 DEF AtEnd, Progress
  <2>6. reply \in Replies /\ TypeOK
    BY <1>1 DEF IInv, ResultInv, ReadInv
  <2>7. Len(Events) \in Nat /\ Len(Row) \in Nat /\ Becomes(Adapter, Events, Row)
    BY <2>6, Streams
  <2>8. e <= Len(Row) /\ (e = Len(Events) => e = Len(Row))
    <3>1. e # 0 => e \in 1..Len(Row)
      <4>1. e # 0 => e \in 1..Len(Events) /\ Passed(Adapter, Events[e])
        BY <2>5, <2>7
      <4> QED
        BY <2>6, <4>1, ChunkIsRow
    <3>2. e <= Len(Row)
      BY <2>7, <3>1
    <3>3. e = Len(Events) => Len(Row) <= e
      BY <2>7 DEF Becomes
    <3> QED
      BY <2>7, <3>2, <3>3
  <2>9. OutcomeInv'
    <3>1. Len(chunks') <= Len(Row') /\ (Uncut' => Len(chunks') = Len(Row'))
      BY <1>1, <2>2, <2>3, <2>5, <2>8 DEF Uncut
    <3> QED
      BY <1>3, <2>1, <2>2, <2>3, <2>6, <3>1 DEF OutcomeInv
  <2> QED
    BY <2>1, <2>9, LeavingKeeps DEF result
<1> QED
  BY <1>2, <1>3

LEMMA AccountKeeps ==
    ASSUME IInv, Account
    PROVE  IInv'
<1>1. /\ pc = "account" /\ pc' = "success" /\ recorded' = usage /\ (~Streamed => stored' = usage)
      /\ UNCHANGED <<route, attempt, wire, chunks, items, usage, answer>>
  BY DEF Account
<1>2. OutcomeInv'
  BY <1>1, OutcomeStays DEF route, attempt, wire
<1> QED
  BY <1>1, <1>2, LeavingKeeps DEF Ended

LEMMA StutterKeeps ==
    ASSUME IInv, UNCHANGED vars
    PROVE  IInv'
<1>1. UNCHANGED <<scenario, target, renewed, pc, tries, delay, calls, reply, got, read, eof,
                  torn, data, chunks, items, usage, answer, recorded, stored>>
  BY DEF vars, route, attempt, wire, result, metering
<1>2. TypeOK' /\ CallsInv' /\ DelayInv'
  BY <1>1 DEF IInv, TypeOK, CallsInv, DelayInv, Budget
<1>3. RowInv' /\ UsageInv'
  BY <1>1, RowKept DEF IInv, ResultInv
<1>4. OutcomeInv'
  BY <1>1, OutcomeStays DEF IInv, ResultInv, OutcomeInv
<1>5. Streamed' = Streamed /\ Adapter' = Adapter /\ Total' = Total /\ Events' = Events
  BY <1>1, SameStream
<1>6. \A e : Progress(e) => Progress(e)'
  BY <1>1, ProgressKept
<1>7. \A e : (At(e) => At(e)') /\ (AtEnd(e) => AtEnd(e)')
  BY <1>1, <1>5, <1>6 DEF At, AtEnd
<1>8. ReadInv'
  BY <1>1, <1>5, <1>7 DEF IInv, ResultInv, ReadInv
<1> QED
  BY <1>2, <1>3, <1>4, <1>8 DEF IInv, ResultInv

--------------------------------------------------------------------------------
LEMMA InitIInv == Init => IInv
<1> SUFFICES ASSUME Init PROVE IInv
  OBVIOUS
<1>1. scenario.targets \in Seq(Target) \ {<<>>}
  BY ScenariosAssumption DEF Init
<1>2. 1 \in DOMAIN scenario.targets
  BY <1>1
<1>3. TypeOK
  <2>1. 0 \in 0..MaxAttempts /\ 0 \in 0..0 /\ <<>> \in Seq(Nat)
    BY AttemptsAssumption
  <2> QED
    BY <1>2, <2>1 DEF Init, TypeOK, PCs
<1>4. CallsInv
  BY AttemptsAssumption DEF Init, CallsInv, Budget
<1>5. DelayInv
  BY BackoffAssumption DEF Init, DelayInv
<1>6. chunks = <<>> /\ Len(chunks) = 0 /\ usage = NoUsage
  BY DEF Init
<1>7. RowInv
  <2>1. chunks = [i \in 1..Len(chunks) |-> Chunk[i]]
    BY <1>6
  <2> QED
    BY <1>6, <2>1 DEF RowInv
<1>8. UsageInv
  BY <1>6 DEF UsageInv
<1>9. ReadInv /\ OutcomeInv
  BY DEF Init, ReadInv, OutcomeInv
<1> QED
  BY <1>3, <1>4, <1>5, <1>7, <1>8, <1>9 DEF IInv, ResultInv

LEMMA NextIInv == IInv /\ [Next]_vars => IInv'
<1> SUFFICES ASSUME IInv, [Next]_vars PROVE IInv'
  OBVIOUS
<1>0. /\ pc \in Before \/ ~Streamed => Len(chunks) = 0
      /\ pc = "wait" /\ ~Streamed => items = <<>>
  BY DEF IInv, ResultInv, RowInv, ReadInv
<1>1. CASE Acquire
  BY <1>1, AcquireKeeps
<1>2. CASE Renew
  BY <1>2, RenewKeeps
<1>3. CASE Send
  BY <1>3, SendKeeps
<1>4. CASE Unanswered
  BY <1>0, <1>4, AgainOrFailKeeps DEF Unanswered, Before
<1>5. CASE Refused
  BY <1>0, <1>5, CallFailsKeeps DEF Refused, Before
<1>6. CASE ProtocolFails
  BY <1>6, GivingUpKeeps DEF ProtocolFails, RaisesUntyped
<1>7. CASE Answered
  BY <1>7, AnsweredKeeps
<1>8. CASE Arrive
  BY <1>8, ArriveKeeps
<1>9. CASE Eof
  BY <1>9, EofKeeps
<1>10. CASE BodyFails
  <2>1. pc = "body" /\ ~eof
    BY <1>10 DEF BodyFails, Starving
  <2>2. CASE got = 0
    BY <1>10, <2>1, <2>2, NothingRead, AgainOrFailKeeps DEF BodyFails
  <2>3. CASE got # 0 /\ Streamed
    BY <1>10, <2>3, GivingUpKeeps DEF BodyFails
  <2>4. CASE got # 0 /\ ~Streamed
    BY <1>0, <1>10, <2>1, <2>4, CallFailsKeeps DEF BodyFails
  <2> QED
    BY <2>2, <2>3, <2>4
<1>11. CASE Line
  BY <1>11, LineKeeps
<1>12. CASE Skip
  BY <1>12, SkipKeeps
<1>13. CASE Forward
  BY <1>13, ForwardKeeps
<1>14. CASE Done
  BY <1>14, DoneKeeps
<1>15. CASE Aggregate
  BY <1>15, AggregateKeeps
<1>16. CASE ReportsFailure
  BY <1>0, <1>16, CallFailsKeeps DEF ReportsFailure
<1>17. CASE End
  BY <1>17, EndKeeps
<1>18. CASE Disconnect
  BY <1>18, GivingUpKeeps DEF Disconnect
<1>19. CASE Account
  BY <1>19, AccountKeeps
<1>21. CASE Invalid
  BY <1>21, InvalidKeeps
<1>20. CASE Over \/ UNCHANGED vars
  BY <1>20, StutterKeeps DEF Over
<1> QED
  BY <1>1, <1>2, <1>3, <1>4, <1>5, <1>6, <1>7, <1>8, <1>9, <1>10, <1>11, <1>12, <1>13, <1>14,
     <1>15, <1>16, <1>17, <1>18, <1>19, <1>20, <1>21 DEF Next

LEMMA Invariance == Spec => []IInv
BY InitIInv, NextIInv, PTL DEF Spec

(* Every step of every request keeps its variables in their types: no       *)
(* fallback runs past the last target, no attempt past MaxAttempts.         *)
THEOREM TypeCorrect == Spec => []TypeOK
<1>1. IInv => TypeOK
  BY DEF IInv
<1> QED
  BY <1>1, Invariance, PTL

(* However the wire is cut into chunks and whatever was retried, renewed or *)
(* fallen back from before, a client is sent the events of one HTTP         *)
(* request, in order and each once, as decoded: a boundary inside a         *)
(* character alters the event it falls in and no other.                     *)
THEOREM ClientsSeeOneCall == Spec => []FromOneCall
<1>1. IInv => FromOneCall
  <2> SUFFICES ASSUME IInv
               PROVE  chunks = [i \in 1..Len(chunks) |-> FromEvent(Adapter, Decoded(Events, i))]
    BY DEF FromOneCall
  <2>1. /\ Len(chunks) \in Nat
        /\ chunks = [i \in 1..Len(chunks) |-> Chunk[i]]
    BY DEF IInv, ResultInv, RowInv
  <2>2. \A i \in 1..Len(chunks) : Chunk[i] = FromEvent(Adapter, Decoded(Events, i))
    BY <2>1 DEF Chunk
  <2>3. [i \in 1..Len(chunks) |-> Chunk[i]]
           = [i \in 1..Len(chunks) |-> FromEvent(Adapter, Decoded(Events, i))]
    BY <2>2
  <2> QED
    BY <2>1, <2>3
<1> QED
  BY <1>1, Invariance, PTL

(* A route of n targets costs at most 2n times MaxAttempts HTTP requests,   *)
(* and no delay between two of them exceeds the cap, however often the      *)
(* exponential has doubled.                                                 *)
THEOREM CallsAreBounded == Spec => []RetriesBounded
<1>1. IInv => RetriesBounded
  BY DEF IInv, CallsInv, DelayInv, RetriesBounded
<1> QED
  BY <1>1, Invariance, PTL

--------------------------------------------------------------------------------
(* A stream read to its end is the whole row a client is owed, in what it   *)
(* tells of the usage and, where no character was cut, in everything.       *)
LEMMA RowIsWhole ==
    ASSUME IInv, pc = "success", Streamed, Uncut
    PROVE  /\ Len(chunks) = Len(Row)
           /\ \A i \in 1..Len(Row) : Chunk[i].usage = Row[i].usage
           /\ torn = {} => chunks = Row
<1>1. reply \in Replies /\ TypeOK /\ Len(chunks) = Len(Row)
  BY DEF IInv, ResultInv, OutcomeInv
<1>2. /\ Becomes(Adapter, Events, Row) /\ Len(Events) \in Nat /\ Len(Row) \in Nat
  BY <1>1, Streams
<1>3. \A i \in 1..Len(Row) : /\ Chunk[i].usage = Row[i].usage
                             /\ torn = {} => Chunk[i] = Row[i]
  <2> SUFFICES ASSUME NEW i \in 1..Len(Row)
               PROVE  Chunk[i].usage = Row[i].usage /\ (torn = {} => Chunk[i] = Row[i])
    OBVIOUS
  <2>1. i \in 1..Len(Events) /\ Passed(Adapter, Events[i])
    BY <1>2 DEF Becomes, Sendable
  <2> QED
    BY <1>1, <2>1, ChunkIsRow
<1>4. Row = [i \in 1..Len(Row) |-> Row[i]]
  <2>1. reply \in Reply /\ calls \in Nat /\ Adapter \in Adapters
    BY <1>1, RepliesAssumption, Positions DEF TypeOK
  <2>2. Row \in Seq(Quiet \cup Ending)
    BY <2>1, ClientRowIs DEF Row, Whole
  <2> QED
    BY <2>2
<1>5. chunks = [i \in 1..Len(Row) |-> Chunk[i]]
  BY <1>1 DEF IInv, ResultInv, RowInv
<1>6. torn = {} => chunks = Row
  <2> SUFFICES ASSUME torn = {} PROVE chunks = Row
    OBVIOUS
  <2>1. \A i \in 1..Len(Row) : Chunk[i] = Row[i]
    BY <1>3
  <2>2. [i \in 1..Len(Row) |-> Chunk[i]] = [i \in 1..Len(Row) |-> Row[i]]
    BY <2>1
  <2> QED
    BY <1>4, <1>5, <2>2
<1>7. \A i \in 1..Len(Row) : Chunk[i].usage = Row[i].usage
  BY <1>3
<1> QED
  BY <1>1, <1>6, <1>7

LEMMA ReportedTells ==
    ASSUME NEW adapter, NEW u \in Usages, NEW call, u = NoUsage \/ u.call = call
    PROVE  LET v == Reported(adapter, u)
           IN  /\ v = NoUsage \/ v.call = call
               /\ v.prompt => u.prompt
               /\ v.completion = u.completion
               /\ adapter # "anthropic" => v = u
<1>1. CASE adapter # "anthropic"
  BY <1>1 DEF Reported, Usages
<1>2. CASE adapter = "anthropic"
  <2> DEFINE v == [u EXCEPT !.prompt = FALSE]
  <2>1. v.call = u.call /\ v.prompt = FALSE /\ v.completion = u.completion
    BY DEF Usages
  <2>2. u = NoUsage => v = NoUsage
    <3>1. NoUsage.prompt = FALSE /\ NoUsage \in Usages
      BY DEF NoUsage, Usages
    <3>2. [NoUsage EXCEPT !.prompt = NoUsage.prompt] = NoUsage
      BY <3>1 DEF Usages
    <3> QED
      BY <3>1, <3>2
  <2>3. Reported(adapter, u) = v
    BY <1>2 DEF Reported
  <2> HIDE DEF v
  <2> QED
    BY <1>2, <2>1, <2>2, <2>3
<1> QED
  BY <1>1, <1>2

(* Nothing is recorded but what the answering call reported.  All of it is, *)
(* and committed, when the answer was whole; of a stream read to its end    *)
(* that is neither failed nor, with Codex, incomplete, all of it but an     *)
(* Anthropic prompt: the report is in one chunk of each such stream, the    *)
(* same in all that have one, and no boundary between chunks alters it.     *)
THEOREM UsageIsMetered == Spec => []Metered
<1>1. IInv => Metered
  <2> SUFFICES ASSUME IInv, pc = "success"
               PROVE  /\ recorded = NoUsage \/ recorded.call = calls
                      /\ recorded.prompt => Whole.usage.prompt
                      /\ recorded.completion => Whole.usage.completion
                      /\ ~Streamed => recorded = Whole.usage /\ stored = Whole.usage
                      /\ Streamed /\ Uncut /\ ~Unfinished(Adapter, reply.stop) =>
                            /\ recorded.completion = Whole.usage.completion
                            /\ Adapter # "anthropic" => recorded = Whole.usage
    <3>1. ASSUME reply.stop # "failed", Adapter = "codex" => reply.stop # "max_tokens"
          PROVE  ~Unfinished(Adapter, reply.stop)
      BY <3>1 DEF Unfinished
    <3> QED
      BY <3>1 DEF Metered, Whole
  <2>1. recorded = usage /\ reply \in Replies /\ TypeOK
    BY DEF IInv, ResultInv, OutcomeInv
  <2>2. /\ Whole.usage \in Usages
        /\ Whole.usage = NoUsage \/ Whole.usage.call = calls
    <3>1. reply \in Reply /\ calls \in Nat
      BY <2>1, RepliesAssumption DEF TypeOK
    <3>2. /\ Whole.usage \in Usages
          /\ Whole.usage = IF reply.metered
                           THEN [call |-> calls, prompt |-> TRUE, completion |-> TRUE] ELSE NoUsage
      BY <3>1, ResponseType DEF Whole
    <3>3. [call |-> calls, prompt |-> TRUE, completion |-> TRUE].call = calls
      OBVIOUS
    <3> QED
      BY <3>2, <3>3
  <2>3. CASE ~Streamed
    BY <2>1, <2>2, <2>3 DEF IInv, ResultInv, OutcomeInv
  <2>4. CASE Streamed
    <3> DEFINE told == Reported(Adapter, Whole.usage)
    <3>1. usage = IF \E i \in 1..Len(chunks) : Chunk[i].usage # NoUsage THEN told ELSE NoUsage
      BY <2>4 DEF IInv, ResultInv, UsageInv
    <3>2. /\ told = NoUsage \/ told.call = calls
          /\ told.prompt => Whole.usage.prompt
          /\ told.completion = Whole.usage.completion
          /\ Adapter # "anthropic" => told = Whole.usage
      <4> DEFINE u == Whole.usage
      <4>1. u \in Usages /\ (u = NoUsage \/ u.call = calls)
        BY <2>2
      <4> HIDE DEF u
      <4>2. LET v == Reported(Adapter, u)
            IN  /\ v = NoUsage \/ v.call = calls
                /\ v.prompt => u.prompt
                /\ v.completion = u.completion
                /\ Adapter # "anthropic" => v = u
        BY <4>1, ReportedTells
      <4> QED
        BY <4>2 DEF u
    <3>3. ~NoUsage.prompt /\ ~NoUsage.completion
      BY DEF NoUsage
    <3>4. ASSUME Uncut, ~Unfinished(Adapter, reply.stop)
          PROVE  usage = told
      <4>1. PICK i \in 1..Len(Row) : Row[i].usage = told
        BY <2>1, <3>4, Streams
      <4>2. i \in 1..Len(chunks) /\ Chunk[i].usage = told
        BY <2>4, <3>4, <4>1, RowIsWhole
      <4> QED
        BY <3>1, <4>2
    <3> HIDE DEF told
    <3>5. usage \in {told, NoUsage}
      BY <3>1
    <3> QED
      BY <2>1, <2>4, <3>2, <3>3, <3>4, <3>5
  <2> QED
    BY <2>3, <2>4
<1> QED
  BY <1>1, Invariance, PTL

--------------------------------------------------------------------------------
(* A stream put together again.                                             *)

(* Two rows of rows that grow together: where one gains a row so does the   *)
(* other, or it gains an empty one.                                         *)
GrowTogether(Z, U, G, n) ==
    \A m \in Nat : m + 1 <= n =>
        \/ Z[m + 1] = Z[m] /\ G[m + 1] = <<>>
        \/ Z[m + 1] = Z[m] + 1 /\ G[m + 1] = U[Z[m + 1]]

LEMMA FlatsMeet ==
    ASSUME NEW S, NEW n \in Nat, NEW Z, Z[0] = 0, \A m \in 0..n : Z[m] \in Nat,
           NEW U, NEW G, U[1] \in Seq(S), \A i \in 1..n : G[i] \in Seq(S),
           GrowTogether(Z, U, G, n)
    PROVE  Flat(U, Z[n]) = Flat(G, n)
<1> DEFINE T == {m \in Nat : m <= n => Flat(U, Z[m]) = Flat(G, m)}
<1>1. 0 \in T
  BY FlatZero
<1>2. ASSUME NEW m \in Nat, m \in T
      PROVE  m + 1 \in T
  <2> SUFFICES ASSUME m + 1 <= n
               PROVE  Flat(U, Z[m + 1]) = Flat(G, m + 1)
    OBVIOUS
  <2>1. Flat(U, Z[m]) = Flat(G, m)
    BY <1>2
  <2>2. G[1] \in Seq(S) /\ Z[m] \in Nat
    <3>1. 1 \in 1..n /\ m \in 0..n
      OBVIOUS
    <3> QED
      BY <3>1
  <2>3. Flat(G, m + 1) = Flat(G, m) \o G[m + 1]
    BY <2>2, FlatNext
  <2>4. Flat(G, m) \in Seq(S)
    <3>1. \A i \in 1..m : G[i] \in Seq(S)
      OBVIOUS
    <3> QED
      BY <3>1, FlatType
  <2> HIDE DEF T
  <2>0. \/ Z[m + 1] = Z[m] /\ G[m + 1] = <<>>
        \/ Z[m + 1] = Z[m] + 1 /\ G[m + 1] = U[Z[m + 1]]
    BY DEF GrowTogether
  <2>5. CASE Z[m + 1] = Z[m] /\ G[m + 1] = <<>>
    BY <2>1, <2>3, <2>4, <2>5, ConcatEmptySeq
  <2>6. CASE Z[m + 1] = Z[m] + 1 /\ G[m + 1] = U[Z[m + 1]]
    <3>1. Flat(U, Z[m] + 1) = Flat(U, Z[m]) \o U[Z[m] + 1]
      BY <2>2, FlatNext
    <3> QED
      BY <2>1, <2>3, <2>6, <3>1
  <2> QED
    BY <2>0, <2>5, <2>6
<1> HIDE DEF T
<1>3. Nat \subseteq T
  BY <1>1, <1>2, NatSteps
<1>4. n \in T
  BY <1>3
<1> QED
  BY <1>4 DEF T

(* As long as what it gains at the steps counted.                           *)
LEMMA FlatLength ==
    ASSUME NEW S, NEW n \in Nat, NEW Z, Z[0] = 0, \A m \in 0..n : Z[m] \in Nat,
           NEW G, \A i \in 1..n : G[i] \in Seq(S),
           \A m \in Nat : m + 1 <= n =>
               \/ Z[m + 1] = Z[m]
               \/ Z[m + 1] = Z[m] + 1 /\ G[m + 1] # <<>>
    PROVE  Z[n] <= Len(Flat(G, n))
<1> DEFINE T == {m \in Nat : m <= n => Z[m] <= Len(Flat(G, m))}
<1>1. 0 \in T
  <2>1. Len(<<>>) = 0
    OBVIOUS
  <2> QED
    BY <2>1, FlatZero
<1>2. ASSUME NEW m \in Nat, m \in T
      PROVE  m + 1 \in T
  <2> SUFFICES ASSUME m + 1 <= n
               PROVE  Z[m + 1] <= Len(Flat(G, m + 1))
    OBVIOUS
  <2>1. Z[m] <= Len(Flat(G, m))
    BY <1>2
  <2>2. G[1] \in Seq(S) /\ G[m + 1] \in Seq(S) /\ Z[m] \in Nat
    <3>1. 1 \in 1..n /\ m + 1 \in 1..n /\ m \in 0..n
      OBVIOUS
    <3> QED
      BY <3>1
  <2>3. Flat(G, m + 1) = Flat(G, m) \o G[m + 1]
    BY <2>2, FlatNext
  <2>4. Flat(G, m) \in Seq(S)
    <3>1. \A i \in 1..m : G[i] \in Seq(S)
      OBVIOUS
    <3> QED
      BY <3>1, FlatType
  <2>5. Len(Flat(G, m + 1)) = Len(Flat(G, m)) + Len(G[m + 1])
        /\ Len(Flat(G, m)) \in Nat /\ Len(G[m + 1]) \in Nat
    BY <2>2, <2>3, <2>4, ConcatProperties, LenProperties
  <2>6. G[m + 1] # <<>> => Len(G[m + 1]) > 0
    BY <2>2, EmptySeq, LenProperties
  <2> QED
    BY <2>1, <2>2, <2>5, <2>6
<1> HIDE DEF T
<1>3. Nat \subseteq T
  BY <1>1, <1>2, NatSteps
<1>4. n \in T
  BY <1>3
<1> QED
  BY <1>4 DEF T

(* Nothing is picked where nothing matches.                                 *)
LEMMA PickedNone ==
    ASSUME NEW P, NEW s, Len(s) \in Nat, \A i \in 1..Len(s) : P[s[i]] = <<>>
    PROVE  Picked(P, s) = <<>>
<1> DEFINE F == [i \in 1..Len(s) |-> P[s[i]]]
<1>1. \A i \in 1..Len(s) : F[i] = <<>>
  OBVIOUS
<1> HIDE DEF F
<1>2. Flat(F, Len(s)) = <<>>
  BY <1>1, FlatEmpty
<1> QED
  BY <1>2 DEF Picked, F

(* What the chunks of one kind and index say, and what each block adds.     *)
Sent == Quiet \cup Ending
WhatIf(kind, x) == [c \in Sent |-> IF c.delta = kind /\ c.index = x THEN <<c.what>> ELSE <<>>]
Tells(kind, x, block, y) ==
    IF kind = "text" THEN (IF block.kind = "text" THEN block.frags ELSE <<>>)
    ELSE IF block.kind = "tool" /\ y = x
         THEN (IF kind = "call" THEN <<block.id>> ELSE block.frags)
         ELSE <<>>

LEMMA WhatIfPicks ==
    ASSUME NEW kind, NEW x
    PROVE  /\ Picks(WhatIf(kind, x), Sent, Whatever)
           /\ \A c \in Sent : c.what \in Whatever
<1>1. \A c \in Sent : c.what \in Whatever
  BY DEF Sent, Quiet, Ending
<1>2. ASSUME NEW c \in Sent PROVE WhatIf(kind, x)[c] \in Seq(Whatever)
  <2>1. WhatIf(kind, x)[c] = IF c.delta = kind /\ c.index = x THEN <<c.what>> ELSE <<>>
    BY DEF WhatIf
  <2> DEFINE w == c.what
  <2>2. w \in Whatever
    BY <1>1
  <2> HIDE DEF w
  <2>3. <<w>> \in Seq(Whatever) /\ <<>> \in Seq(Whatever)
    BY <2>2, EmptySeq
  <2> QED
    BY <2>1, <2>3 DEF w
<1> QED
  BY <1>1, <1>2 DEF Picks

LEMMA WhatsAre ==
    ASSUME NEW s \in Seq(Sent), NEW kind, NEW x
    PROVE  Whats(Selected(s, LAMBDA c : c.delta = kind /\ c.index = x)) = Picked(WhatIf(kind, x), s)
<1> DEFINE n == Len(s)
           F == [i \in 1..n |-> IF s[i].delta = kind /\ s[i].index = x THEN <<s[i]>> ELSE <<>>]
           f == [c \in Sent |-> c.what]
           Q == [c \in Sent |-> <<c.what>>]
           H == [i \in 1..n |-> WhatIf(kind, x)[s[i]]]
<1>0. n \in Nat /\ DOMAIN s = 1..n /\ \A i \in 1..n : s[i] \in Sent
  BY LenProperties, ElementOfSeq
<1>1. Selected(s, LAMBDA c : c.delta = kind /\ c.index = x) = Flat(F, n)
  BY <1>0 DEF Selected, Flat
<1>2. \A c \in Sent : c.what \in Whatever
  BY WhatIfPicks
<1>3. Picks(Q, Sent, Whatever)
  <2>1. ASSUME NEW c \in Sent PROVE Q[c] \in Seq(Whatever)
    <3> DEFINE w == c.what
    <3>1. w \in Whatever /\ Q[c] = <<w>>
      BY <1>2
    <3> HIDE DEF w, Q
    <3> QED
      BY <3>1
  <2> HIDE DEF Q
  <2> QED
    BY <2>1 DEF Picks
<1>4. \A i \in 1..n : F[i] \in Seq(Sent)
  <2> SUFFICES ASSUME NEW i \in 1..n PROVE F[i] \in Seq(Sent)
    OBVIOUS
  <2> DEFINE c == s[i]
  <2>1. c \in Sent /\ F[i] \in {<<c>>, <<>>}
    BY <1>0
  <2> HIDE DEF c, F, Sent
  <2>2. <<c>> \in Seq(Sent) /\ <<>> \in Seq(Sent)
    BY <2>1, EmptySeq
  <2> QED
    BY <2>1, <2>2
<1>5. \A i \in 1..n : H[i] = Picked(Q, F[i])
  <2> SUFFICES ASSUME NEW i \in 1..n PROVE H[i] = Picked(Q, F[i])
    OBVIOUS
  <2> DEFINE c == s[i]
             hit == c.delta = kind /\ c.index = x
  <2>1. c \in Sent
    BY <1>0
  <2>2. H[i] = (IF hit THEN Q[c] ELSE <<>>) /\ F[i] = IF hit THEN <<c>> ELSE <<>>
    BY <2>1 DEF WhatIf
  <2>3. Q[c] \in Seq(Whatever)
    BY <1>3, <2>1 DEF Picks
  <2> HIDE DEF c, Q, F, H, hit
  <2>4. Picked(Q, <<c>>) = Q[c] /\ Picked(Q, <<>>) = <<>>
    BY <2>3, PickedOne, PickedEmpty
  <2> QED
    BY <2>2, <2>4
<1> DEFINE t == Flat(F, n)
<1>6. t \in Seq(Sent)
  <2> HIDE DEF F
  <2> QED
    BY <1>0, <1>4, FlatType
<1>7. Picked(Q, t) = Flat(H, n)
  <2> HIDE DEF F, H, Q, n
  <2> QED
    BY <1>0, <1>3, <1>4, <1>5, PickedFlat
<1>8. Whats(t) = Picked(Q, t)
  <2>1. \A c \in Sent : Q[c] = <<f[c]>>
    OBVIOUS
  <2> HIDE DEF t, Q
  <2>2. Picked(Q, t) = [i \in 1..Len(t) |-> f[t[i]]]
    <3> HIDE DEF f
    <3> QED
      BY <1>6, <2>1, PickedSingles
  <2>3. DOMAIN t = 1..Len(t) /\ \A i \in 1..Len(t) : t[i] \in Sent
    BY <1>6, LenProperties, ElementOfSeq
  <2>4. [i \in 1..Len(t) |-> f[t[i]]] = [i \in DOMAIN t |-> t[i].what]
    BY <2>3
  <2> QED
    BY <2>2, <2>4 DEF Whats
<1>9. Flat(H, n) = Picked(WhatIf(kind, x), s)
  BY DEF Picked
<1> QED
  BY <1>1, <1>7, <1>8, <1>9

LEMMA BlockTells ==
    ASSUME NEW block \in Block, NEW y \in Nat, NEW pad \in Seq({NoChunk}),
           NEW kind \in {"text", "call", "args"}, NEW x \in Nat, kind = "text" => x = 0
    PROVE  Picked(WhatIf(kind, x), BlockRow(block, y, pad)) = Tells(kind, x, block, y)
<1> DEFINE P == WhatIf(kind, x)
           h == HeadRow(block, y, pad)
           k == Len(block.frags)
           g == [i \in 1..k |-> DeltaChunk(block, y, i)]
           hit == IF kind = "text" THEN block.kind = "text"
                  ELSE block.kind = "tool" /\ y = x
<1>0. NoChunk \in Quiet /\ pad \in Seq(Quiet)
  <2>1. NoChunk \in Quiet
    BY QuietChunks
  <2>2. {NoChunk} \subseteq Quiet
    BY <2>1
  <2> QED
    BY <2>1, <2>2, SeqDef
<1>1. k \in Nat /\ \A i \in 1..k : block.frags[i] \in Whatever
  BY BlockParts DEF Whatever
<1>2. h \in Seq(Quiet) /\ g \in Seq(Quiet)
  BY <1>0, BlockRowType
<1>3. \A T : T \subseteq Sent => \A v \in Seq(T) : v \in Seq(Sent)
  BY SeqDef
<1>4. h \in Seq(Sent) /\ g \in Seq(Sent) /\ pad \in Seq(Sent)
  <2>1. Quiet \subseteq Sent
    BY DEF Sent
  <2> HIDE DEF h, g
  <2> QED
    BY <1>0, <1>2, <1>3, <2>1
<1>5. \A c \in Quiet : P[c] = IF c.delta = kind /\ c.index = x THEN <<c.what>> ELSE <<>>
  BY DEF WhatIf, Sent
<1>6. P[NoChunk] = <<>>
  BY <1>0, <1>5 DEF NoChunk, Delta
<1>7. Picked(P, pad) = <<>>
  <2> HIDE DEF P
  <2>1. Len(pad) \in Nat /\ \A i \in 1..Len(pad) : pad[i] \in {NoChunk}
    BY LenProperties, ElementOfSeq
  <2>2. \A i \in 1..Len(pad) : P[pad[i]] = <<>>
    BY <1>6, <2>1
  <2> QED
    BY <2>1, <2>2, PickedNone
<1>8. Picked(P, h) = IF kind = "call" /\ hit THEN <<block.id>> ELSE <<>>
  <2>1. CASE block.kind = "tool"
    <3> DEFINE c == Delta("call", y, block.id)
    <3>1. c \in Quiet /\ h = <<c>>
      BY <2>1, BlockParts, QuietChunks DEF HeadRow, Whatever, Deltas
    <3>2. P[c] = IF kind = "call" /\ hit THEN <<block.id>> ELSE <<>>
      BY <1>5, <2>1, <3>1 DEF Delta
    <3>3. P[c] \in Seq(Whatever)
      <4>1. c \in Sent
        BY <3>1 DEF Sent
      <4> QED
        BY <4>1, WhatIfPicks DEF Picks
    <3> HIDE DEF c, P, h, hit
    <3> QED
      BY <3>1, <3>2, <3>3, PickedOne
  <2>2. CASE block.kind # "tool"
    <3>1. h = pad /\ ~(kind = "call" /\ hit)
      BY <2>2 DEF HeadRow
    <3> QED
      BY <1>7, <3>1
  <2> QED
    BY <2>1, <2>2
<1>9. Picked(P, g) = IF kind # "call" /\ hit THEN block.frags ELSE <<>>
  <2>1. \A i \in 1..k : g[i] \in Quiet /\ g[i] = DeltaChunk(block, y, i)
    BY <1>1, <1>2, ElementOfSeq
  <2>2. Len(g) = k
    BY <1>1
  <2>3. CASE kind # "call" /\ hit
    <3> DEFINE F == [i \in 1..Len(g) |-> P[g[i]]]
    <3>1. \A i \in 1..k : F[i] = <<block.frags[i]>>
      BY <1>1, <1>5, <2>1, <2>2, <2>3 DEF DeltaChunk, Delta
    <3>2. Picked(P, g) = Flat(F, k)
      BY <2>2 DEF Picked
    <3> DEFINE f == block.frags
    <3>3. f = [i \in 1..k |-> f[i]]
      BY BlockParts
    <3> HIDE DEF F, f, k
    <3>4. Flat(F, k) = [i \in 1..k |-> f[i]]
      BY <1>1, <3>1, FlatSingles DEF f
    <3> QED
      BY <2>3, <3>2, <3>3, <3>4 DEF f
  <2>4. CASE ~(kind # "call" /\ hit)
    <3>1. \A i \in 1..k : P[g[i]] = <<>>
      BY <1>1, <1>5, <2>1, <2>4 DEF DeltaChunk, Delta, NoChunk
    <3> HIDE DEF P, g, k, hit
    <3> QED
      BY <1>1, <2>2, <2>4, <3>1, PickedNone
  <2> QED
    BY <2>3, <2>4
<1>10. Picks(P, Sent, Whatever)
  BY WhatIfPicks
<1> HIDE DEF P, h, g, hit
<1> DEFINE u == h \o g
<1>11. u \in Seq(Sent) /\ Picked(P, u) = Picked(P, h) \o Picked(P, g)
  BY <1>4, <1>10, PickedConcat, ConcatProperties
<1> HIDE DEF u
<1>12. Picked(P, u \o pad) = Picked(P, u) \o Picked(P, pad)
  <2> DEFINE D == Sent
             R == Whatever
  <2>1. u \in Seq(D) /\ pad \in Seq(D) /\ Picks(P, D, R)
    BY <1>4, <1>10, <1>11
  <2> HIDE DEF D, R
  <2> QED
    BY <2>1, PickedConcat
<1>13. BlockRow(block, y, pad) = u \o pad
  BY DEF BlockRow, u, h, g, k
<1>14. Picked(P, h) \in Seq(Whatever) /\ Picked(P, g) \in Seq(Whatever)
  BY <1>4, <1>10, PickedType
<1>15. Picked(P, u \o pad) = Picked(P, h) \o Picked(P, g)
  <2> DEFINE v == Picked(P, h) \o Picked(P, g)
  <2>1. v \in Seq(Whatever)
    BY <1>14, ConcatProperties
  <2> HIDE DEF v
  <2>2. v \o <<>> = v
    BY <2>1, ConcatEmptySeq
  <2> QED
    BY <1>7, <1>11, <1>12, <2>2 DEF v
<1>16. Picked(P, h) \o Picked(P, g)
          = IF kind = "call" THEN Picked(P, h) ELSE Picked(P, g)
  <2>1. CASE kind = "call"
    <3>1. Picked(P, g) = <<>>
      BY <1>9, <2>1
    <3> QED
      BY <1>14, <2>1, <3>1, ConcatEmptySeq
  <2>2. CASE kind # "call"
    <3>1. Picked(P, h) = <<>>
      BY <1>8, <2>2
    <3> QED
      BY <1>14, <2>2, <3>1, ConcatEmptySeq
  <2> QED
    BY <2>1, <2>2
<1>17. Tells(kind, x, block, y) = IF kind = "call" THEN Picked(P, h) ELSE Picked(P, g)
  BY <1>8, <1>9 DEF Tells, hit
<1> QED
  BY <1>13, <1>15, <1>16, <1>17 DEF P

(* All blocks together, in their order.                                     *)
AllTell(kind, x, C, X) == Flat([b \in 1..Len(C) |-> Tells(kind, x, C[b], X[b])], Len(C))

LEMMA TellsType ==
    ASSUME NEW block \in Block, NEW kind, NEW x, NEW y
    PROVE  Tells(kind, x, block, y) \in Seq(Whatever)
<1>1. block.frags \in Seq(Frags) /\ block.id \in Ids
  BY BlockParts
<1>2. Frags \subseteq Whatever /\ Ids \subseteq Whatever
  BY DEF Whatever
<1> DEFINE v == block.frags
           w == block.id
<1>3. v \in Seq(Frags) /\ w \in Whatever
  BY <1>1, <1>2
<1> HIDE DEF v, w
<1>4. v \in Seq(Whatever) /\ <<w>> \in Seq(Whatever) /\ <<>> \in Seq(Whatever)
  BY <1>2, <1>3, SeqDef, EmptySeq
<1> QED
  BY <1>4 DEF Tells, v, w

LEMMA MiddleTells ==
    ASSUME NEW adapter \in Adapters, NEW C \in Seq(Block),
           NEW kind \in {"text", "call", "args"}, NEW x \in Nat, kind = "text" => x = 0
    PROVE  Picked(WhatIf(kind, x), Middle(adapter, C)) = AllTell(kind, x, C, Index(adapter, C))
<1> DEFINE P == WhatIf(kind, x)
           X == Index(adapter, C)
           pad == Pad(adapter)
           n == Len(C)
           F == Rows(C, X, pad)
           H == [b \in 1..n |-> Tells(kind, x, C[b], X[b])]
<1>1. n \in Nat /\ \A b \in 1..n : C[b] \in Block /\ X[b] \in Nat
  BY LenProperties, ElementOfSeq, IndexType
<1>2. pad \in Seq({NoChunk})
  <2> DEFINE c == NoChunk
  <2>1. pad \in {<<>>, <<c>>}
    BY DEF Pad
  <2> HIDE DEF c, pad
  <2>2. <<>> \in Seq({c}) /\ <<c>> \in Seq({c})
    BY EmptySeq
  <2> QED
    BY <2>1, <2>2 DEF c
<1>3. \A b \in 1..n : F[b] \in Seq(Sent)
  <2>1. \A b \in 1..n : F[b] \in Seq(Quiet)
    BY RowsType
  <2>2. Quiet \subseteq Sent
    BY DEF Sent
  <2> HIDE DEF F
  <2> QED
    BY <2>1, <2>2, SeqDef
<1>4. ASSUME NEW b \in 1..n
      PROVE  H[b] = Picked(P, F[b])
  <2> DEFINE c == C[b]
             y == X[b]
  <2>1. c \in Block /\ y \in Nat
    BY <1>1
  <2>2. F[b] = BlockRow(c, y, pad) /\ H[b] = Tells(kind, x, c, y)
    BY DEF Rows
  <2> HIDE DEF c, y, F, H, pad
  <2>3. Picked(WhatIf(kind, x), BlockRow(c, y, pad)) = Tells(kind, x, c, y)
    BY <1>2, <2>1, BlockTells
  <2> QED
    BY <2>2, <2>3
<1>5. Picks(P, Sent, Whatever)
  BY WhatIfPicks
<1>6. Picked(P, Flat(F, n)) = Flat(H, n)
  <2> HIDE DEF F, H, P, n
  <2> QED
    BY <1>1, <1>3, <1>4, <1>5, PickedFlat
<1> QED
  BY <1>6 DEF Middle, AllTell

LEMMA RowTells ==
    ASSUME NEW adapter \in Adapters, NEW C \in Seq(Block), NEW stop \in Stops, NEW spent \in Usages,
           NEW kind \in {"text", "call", "args"}, NEW x \in Nat, kind = "text" => x = 0
    PROVE  Picked(WhatIf(kind, x), FirstRow(adapter) \o Middle(adapter, C) \o LastRow(adapter, stop, spent))
              = AllTell(kind, x, C, Index(adapter, C))
<1> DEFINE P == WhatIf(kind, x)
           s == FirstRow(adapter)
           t == Middle(adapter, C)
           L == LastRow(adapter, stop, spent)
           all == AllTell(kind, x, C, Index(adapter, C))
<1>1. s \in Seq(Quiet) /\ t \in Seq(Quiet) /\ L \in Seq(Ending)
  BY RowsType, LastRowIs
<1>2. s \in Seq(Sent) /\ t \in Seq(Sent) /\ L \in Seq(Sent)
  <2>1. Quiet \subseteq Sent /\ Ending \subseteq Sent
    BY DEF Sent
  <2> HIDE DEF s, t, L
  <2> QED
    BY <1>1, <2>1, SeqDef
<1>3. Picks(P, Sent, Whatever)
  BY WhatIfPicks
<1>4. \A c \in Sent : c.delta \in {"role", "dropped", "none"} => P[c] = <<>>
  BY DEF WhatIf
<1>5. Picked(P, s) = <<>>
  <2>1. \A i \in 1..Len(s) : s[i].delta \in {"role", "dropped"} /\ s[i] \in Sent
    <3>1. \A i \in 1..Len(s) : s[i] \in Sent
      BY <1>2, ElementOfSeq
    <3>2. \A i \in 1..Len(s) : s[i].delta \in {"role", "dropped"}
      BY DEF FirstRow, Delta, NoChunk
    <3> QED
      BY <3>1, <3>2
  <2> HIDE DEF P, s
  <2>2. \A i \in 1..Len(s) : P[s[i]] = <<>>
    BY <1>4, <2>1
  <2>3. Len(s) \in Nat
    BY <1>2, LenProperties
  <2> QED
    BY <2>2, <2>3, PickedNone
<1>6. Picked(P, L) = <<>>
  <2> HIDE DEF P, L
  <2>1. \A i \in 1..Len(L) : L[i] \in Ending /\ L[i] \in Sent
    BY <1>1, <1>2, ElementOfSeq
  <2>2. \A c \in Ending : c.delta \in {"none", "dropped"}
    BY DEF Ending
  <2>3. \A i \in 1..Len(L) : P[L[i]] = <<>>
    BY <1>4, <2>1, <2>2
  <2>4. Len(L) \in Nat
    BY <1>2, LenProperties
  <2> QED
    BY <2>3, <2>4, PickedNone
<1>7. Picked(P, t) = all
  BY MiddleTells
<1>8. Picked(P, t) \in Seq(Whatever)
  <2> HIDE DEF P, t
  <2> QED
    BY <1>2, <1>3, PickedType
<1> HIDE DEF P, s, t, L, all
<1> DEFINE u == s \o t
<1>9. u \in Seq(Sent) /\ Picked(P, u) = Picked(P, s) \o Picked(P, t)
  BY <1>2, <1>3, PickedConcat, ConcatProperties
<1> HIDE DEF u
<1>10. Picked(P, u \o L) = Picked(P, u) \o Picked(P, L)
  <2> DEFINE D == Sent
             R == Whatever
  <2>1. u \in Seq(D) /\ L \in Seq(D) /\ Picks(P, D, R)
    BY <1>2, <1>3, <1>9
  <2> HIDE DEF D, R
  <2> QED
    BY <2>1, PickedConcat
<1>11. Picked(P, u) = all
  BY <1>5, <1>7, <1>8, <1>9, ConcatEmptySeq
<1>12. all \o <<>> = all
  BY <1>7, <1>8, ConcatEmptySeq
<1> QED
  BY <1>6, <1>10, <1>11, <1>12 DEF u, P, s, t, L, all

(* The whole answer, block by block.                                        *)
Call(block)  == [ids |-> <<block.id>>, args |-> block.frags]
Made         == [ids : Seq(Whatever), args : Seq(Whatever)]
CallsMade(C) == [b \in 1..Len(C) |-> IF C[b].kind = "tool" THEN <<Call(C[b])>> ELSE <<>>]

LEMMA CallType ==
    ASSUME NEW block \in Block
    PROVE  Call(block) \in Made
<1> DEFINE v == block.frags
           w == block.id
<1>1. v \in Seq(Frags) /\ w \in Whatever /\ Frags \subseteq Whatever
  BY BlockParts DEF Whatever
<1> HIDE DEF v, w
<1>2. v \in Seq(Whatever) /\ <<w>> \in Seq(Whatever)
  BY <1>1, SeqDef
<1> QED
  BY <1>2 DEF Call, Made, v, w

LEMMA OfKindPicked ==
    ASSUME NEW C \in Seq(Block), NEW kind, NEW R, NEW Q, Picks(Q, Block, R)
    PROVE  /\ OfKind(C, kind) \in Seq(Block)
           /\ Picked(Q, OfKind(C, kind))
                 = Flat([b \in 1..Len(C) |-> IF C[b].kind = kind THEN Q[C[b]] ELSE <<>>], Len(C))
<1> DEFINE n == Len(C)
           F == [b \in 1..n |-> IF C[b].kind = kind THEN <<C[b]>> ELSE <<>>]
           H == [b \in 1..n |-> IF C[b].kind = kind THEN Q[C[b]] ELSE <<>>]
<1>1. n \in Nat /\ DOMAIN C = 1..n /\ \A b \in 1..n : C[b] \in Block
  BY LenProperties, ElementOfSeq
<1>2. OfKind(C, kind) = Flat(F, n)
  BY <1>1 DEF OfKind, Selected, Flat
<1>3. \A b \in 1..n : F[b] \in Seq(Block) /\ H[b] = Picked(Q, F[b])
  <2> SUFFICES ASSUME NEW b \in 1..n PROVE F[b] \in Seq(Block) /\ H[b] = Picked(Q, F[b])
    OBVIOUS
  <2> DEFINE c == C[b]
             hit == c.kind = kind
  <2>1. c \in Block /\ F[b] = (IF hit THEN <<c>> ELSE <<>>) /\ H[b] = IF hit THEN Q[c] ELSE <<>>
    BY <1>1
  <2>2. Q[c] \in Seq(R)
    BY <2>1 DEF Picks
  <2> HIDE DEF c, F, H, hit
  <2>3. <<c>> \in Seq(Block) /\ <<>> \in Seq(Block)
    BY <2>1, EmptySeq
  <2>4. Picked(Q, <<c>>) = Q[c] /\ Picked(Q, <<>>) = <<>>
    BY <2>2, PickedOne, PickedEmpty
  <2> QED
    BY <2>1, <2>3, <2>4
<1> HIDE DEF F, H, n
<1>4. Flat(F, n) \in Seq(Block)
  BY <1>1, <1>3, FlatType
<1>5. Picked(Q, Flat(F, n)) = Flat(H, n)
  BY <1>1, <1>3, PickedFlat
<1> QED
  BY <1>2, <1>4, <1>5 DEF H, n

LEMMA WholeText ==
    ASSUME NEW C \in Seq(Block), NEW X
    PROVE  FlattenSeq([i \in DOMAIN OfKind(C, "text") |-> OfKind(C, "text")[i].frags])
              = AllTell("text", 0, C, X)
<1> DEFINE Q == [block \in Block |-> block.frags]
           t == OfKind(C, "text")
           H == [b \in 1..Len(C) |-> IF C[b].kind = "text" THEN Q[C[b]] ELSE <<>>]
           K == [b \in 1..Len(C) |-> Tells("text", 0, C[b], X[b])]
           F == [i \in 1..Len(t) |-> Q[t[i]]]
<1>1. Picks(Q, Block, Frags)
  BY BlockParts DEF Picks
<1>2. t \in Seq(Block) /\ Picked(Q, t) = Flat(H, Len(C))
  <2> HIDE DEF Q
  <2> QED
    BY <1>1, OfKindPicked
<1> HIDE DEF t
<1>3. DOMAIN t = 1..Len(t) /\ \A i \in 1..Len(t) : t[i] \in Block
  BY <1>2, LenProperties, ElementOfSeq
<1>4. [i \in DOMAIN t |-> t[i].frags] = [i \in 1..Len(t) |-> F[i]]
  BY <1>3
<1>5. FlattenSeq([i \in DOMAIN t |-> t[i].frags]) = Picked(Q, t)
  BY <1>4 DEF Picked, Flat
<1>6. Flat(H, Len(C)) = Flat(K, Len(C))
  <2>1. Len(C) \in Nat /\ \A b \in 1..Len(C) : C[b] \in Block
    BY LenProperties, ElementOfSeq
  <2>2. \A b \in 1..Len(C) : H[b] = K[b]
    BY <2>1 DEF Tells
  <2> HIDE DEF H, K
  <2> QED
    BY <2>2, FlatSame
<1> QED
  BY <1>2, <1>5, <1>6 DEF AllTell, t

LEMMA WholeCalls ==
    ASSUME NEW C \in Seq(Block)
    PROVE  [i \in DOMAIN OfKind(C, "tool") |->
              [ids |-> <<OfKind(C, "tool")[i].id>>, args |-> OfKind(C, "tool")[i].frags]]
              = Flat(CallsMade(C), Len(C))
<1> DEFINE f == [block \in Block |-> Call(block)]
           Q == [block \in Block |-> <<Call(block)>>]
           t == OfKind(C, "tool")
           H == [b \in 1..Len(C) |-> IF C[b].kind = "tool" THEN Q[C[b]] ELSE <<>>]
<1>1. Picks(Q, Block, Made)
  <2>1. ASSUME NEW block \in Block PROVE Q[block] \in Seq(Made)
    <3> DEFINE c == Call(block)
    <3>1. Q[block] = <<c>> /\ c \in Made
      BY CallType
    <3> HIDE DEF c, Q, Made
    <3> QED
      BY <3>1
  <2> HIDE DEF Q
  <2> QED
    BY <2>1 DEF Picks
<1>2. t \in Seq(Block) /\ Picked(Q, t) = Flat(H, Len(C))
  <2> HIDE DEF Q
  <2> QED
    BY <1>1, OfKindPicked
<1> HIDE DEF t
<1>3. DOMAIN t = 1..Len(t) /\ \A i \in 1..Len(t) : t[i] \in Block
  BY <1>2, LenProperties, ElementOfSeq
<1>4. \A block \in Block : Q[block] = <<f[block]>>
  OBVIOUS
<1>5. Picked(Q, t) = [i \in 1..Len(t) |-> f[t[i]]]
  <2> DEFINE D == Block
  <2>1. t \in Seq(D) /\ \A block \in D : Q[block] = <<f[block]>>
    BY <1>2, <1>4
  <2> HIDE DEF Q, f, H, D
  <2> QED
    BY <2>1, PickedSingles
<1>6. [i \in 1..Len(t) |-> f[t[i]]]
         = [i \in DOMAIN t |-> [ids |-> <<t[i].id>>, args |-> t[i].frags]]
  BY <1>3 DEF Call
<1>7. Flat(H, Len(C)) = Flat(CallsMade(C), Len(C))
  <2>1. Len(C) \in Nat /\ \A b \in 1..Len(C) : C[b] \in Block
    BY LenProperties, ElementOfSeq
  <2>2. \A b \in 1..Len(C) : H[b] = CallsMade(C)[b]
    BY <2>1 DEF CallsMade
  <2> HIDE DEF H
  <2> QED
    BY <2>2, FlatSame
<1> QED
  BY <1>2, <1>5, <1>6, <1>7 DEF t

(* What a client makes of the chunks it was sent: an entry for each index.  *)
Hits(s, kind, x) ==
    FlattenSeq([i \in DOMAIN s |-> IF s[i].delta = kind /\ s[i].index = x THEN <<s[i]>> ELSE <<>>])
Entry(s, x) == [ids |-> Picked(WhatIf("call", x), s), args |-> Picked(WhatIf("args", x), s)]
Used(s)     == {s[i].index : i \in {j \in DOMAIN s : s[j].delta \in {"call", "args"}}}
Entries(s)  == [i \in 1..(Len(s) + 1) |-> IF i - 1 \in Used(s) THEN <<Entry(s, i - 1)>> ELSE <<>>]

LEMMA EntryType ==
    ASSUME NEW s \in Seq(Sent), NEW x
    PROVE  Entry(s, x) \in Made
<1>1. Picked(WhatIf("call", x), s) \in Seq(Whatever) /\ Picked(WhatIf("args", x), s) \in Seq(Whatever)
  BY WhatIfPicks, PickedType
<1> QED
  BY <1>1 DEF Entry, Made

LEMMA HitsAre ==
    ASSUME NEW s \in Seq(Sent), NEW kind, NEW x
    PROVE  Whats(Hits(s, kind, x)) = Picked(WhatIf(kind, x), s)
<1>1. Hits(s, kind, x) = Selected(s, LAMBDA c : c.delta = kind /\ c.index = x)
  BY DEF Hits, Selected
<1> QED
  BY <1>1, WhatsAre

LEMMA AssembledIs ==
    ASSUME NEW s \in Seq(Sent)
    PROVE  /\ Assembled(s).text = Picked(WhatIf("text", 0), s)
           /\ Assembled(s).calls = Flat(Entries(s), Len(s) + 1)
<1> DEFINE m == Len(s) + 1
           T == [i \in 1..m |-> i - 1]
           I == [i \in 1..m |-> IF i - 1 \in Used(s) THEN <<i - 1>> ELSE <<>>]
           t == Flat(I, m)
           f == [x \in Nat |-> Entry(s, x)]
           Y == [x \in Nat |-> <<Entry(s, x)>>]
<1>0. Len(s) \in Nat /\ m \in Nat
  BY LenProperties
<1>1. Assembled(s).text = Picked(WhatIf("text", 0), s)
  <2>1. Assembled(s).text = Whats(Hits(s, "text", 0))
    BY DEF Assembled, Selected, Hits
  <2> QED
    BY <2>1, HitsAre
<1>2. Assembled(s).calls
         = LET indexes == FlattenSeq([i \in DOMAIN T |-> IF T[i] \in Used(s) THEN <<T[i]>> ELSE <<>>])
           IN  [k \in DOMAIN indexes |-> [ids  |-> Whats(Hits(s, "call", indexes[k])),
                                          args |-> Whats(Hits(s, "args", indexes[k]))]]
  BY DEF Assembled, Selected, Hits, Used
<1>3. FlattenSeq([i \in DOMAIN T |-> IF T[i] \in Used(s) THEN <<T[i]>> ELSE <<>>]) = t
  <2>1. [i \in DOMAIN T |-> IF T[i] \in Used(s) THEN <<T[i]>> ELSE <<>>] = [i \in 1..m |-> I[i]]
    OBVIOUS
  <2> QED
    BY <2>1 DEF Flat
<1>4. Assembled(s).calls = [k \in DOMAIN t |-> [ids  |-> Whats(Hits(s, "call", t[k])),
                                               args |-> Whats(Hits(s, "args", t[k]))]]
  BY <1>2, <1>3
<1>5. \A x : Entry(s, x) = [ids |-> Whats(Hits(s, "call", x)), args |-> Whats(Hits(s, "args", x))]
  BY HitsAre DEF Entry
<1>6. \A i \in 1..m : I[i] \in Seq(Nat)
  <2> SUFFICES ASSUME NEW i \in 1..m PROVE I[i] \in Seq(Nat)
    OBVIOUS
  <2>1. i - 1 \in Nat
    BY <1>0
  <2>2. <<i - 1>> \in Seq(Nat) /\ <<>> \in Seq(Nat)
    BY <2>1, EmptySeq
  <2> QED
    BY <2>2
<1>7. t \in Seq(Nat)
  <2> HIDE DEF I
  <2> QED
    BY <1>0, <1>6, FlatType
<1>8. DOMAIN t = 1..Len(t) /\ \A k \in 1..Len(t) : t[k] \in Nat
  BY <1>7, LenProperties, ElementOfSeq
<1>9. Assembled(s).calls = [i \in 1..Len(t) |-> f[t[i]]]
  BY <1>4, <1>5, <1>8
<1>10. \A x \in Nat : Y[x] = <<f[x]>>
  OBVIOUS
<1>11. Picks(Y, Nat, Made)
  <2>1. ASSUME NEW x \in Nat PROVE Y[x] \in Seq(Made)
    <3> DEFINE c == Entry(s, x)
    <3>1. Y[x] = <<c>> /\ c \in Made
      BY EntryType
    <3> HIDE DEF c, Y, Made
    <3> QED
      BY <3>1
  <2> HIDE DEF Y
  <2> QED
    BY <2>1 DEF Picks
<1>12. \A i \in 1..m : Entries(s)[i] = Picked(Y, I[i])
  <2> SUFFICES ASSUME NEW i \in 1..m PROVE Entries(s)[i] = Picked(Y, I[i])
    OBVIOUS
  <2> DEFINE x == i - 1
             hit == x \in Used(s)
  <2>1. x \in Nat /\ I[i] = IF hit THEN <<x>> ELSE <<>>
    BY <1>0
  <2>2. Entries(s)[i] = IF hit THEN Y[x] ELSE <<>>
    BY <2>1 DEF Entries
  <2>3. Y[x] \in Seq(Made)
    BY <1>11, <2>1 DEF Picks
  <2> HIDE DEF x, Y, I, hit
  <2>4. Picked(Y, <<x>>) = Y[x] /\ Picked(Y, <<>>) = <<>>
    BY <2>3, PickedOne, PickedEmpty
  <2> QED
    BY <2>1, <2>2, <2>4
<1>13. Picked(Y, t) = [i \in 1..Len(t) |-> f[t[i]]]
  <2> DEFINE D == Nat
  <2>1. t \in Seq(D) /\ \A x \in D : Y[x] = <<f[x]>>
    BY <1>7, <1>10
  <2> HIDE DEF t, Y, f, T, I, D, m
  <2>2. t \in Seq(D)
    BY <2>1
  <2>3. \A x \in D : Y[x] = <<f[x]>>
    BY <2>1
  <2> QED
    BY <2>2, <2>3, PickedSingles, SMTT(60)
<1>14. Picked(Y, Flat(I, m)) = Flat(Entries(s), m)
  <2> DEFINE D == Nat
             R == Made
             H == Entries(s)
  <2>1. Picks(Y, D, R) /\ (\A i \in 1..m : I[i] \in Seq(D)) /\ \A i \in 1..m : H[i] = Picked(Y, I[i])
    BY <1>6, <1>11, <1>12
  <2> HIDE DEF I, Y, m, T, f, t, D, R, H
  <2>2. Picked(Y, Flat(I, m)) = Flat(H, m)
    BY <1>0, <2>1, PickedFlat
  <2> QED
    BY <2>2 DEF H
<1> QED
  BY <1>1, <1>9, <1>13, <1>14

(* Rows that are not empty show in what they are put together to.           *)
LEMMA FlatSome ==
    ASSUME NEW S, NEW n \in Nat, NEW G, \A i \in 1..n : G[i] \in Seq(S),
           NEW j \in 1..n, G[j] # <<>>
    PROVE  Flat(G, n) # <<>>
<1> DEFINE Z == [m \in 0..n |-> IF m < j THEN 0 ELSE 1]
<1>1. Z[0] = 0 /\ (\A m \in 0..n : Z[m] \in Nat) /\ Z[n] = 1
  OBVIOUS
<1>2. \A m \in Nat : m + 1 <= n =>
         Z[m + 1] = Z[m] \/ (Z[m + 1] = Z[m] + 1 /\ G[m + 1] # <<>>)
  OBVIOUS
<1> HIDE DEF Z
<1>3. Z[n] <= Len(Flat(G, n))
  BY <1>1, <1>2, FlatLength
<1>4. Len(<<>>) = 0
  OBVIOUS
<1> QED
  BY <1>1, <1>3, <1>4

LEMMA FlatTwo ==
    ASSUME NEW S, NEW n \in Nat, NEW G, \A i \in 1..n : G[i] \in Seq(S),
           NEW j \in 1..n, G[j] # <<>>, NEW k \in 1..n, G[k] # <<>>, j < k
    PROVE  2 <= Len(Flat(G, n))
<1> DEFINE Z == [m \in 0..n |-> IF m < j THEN 0 ELSE IF m < k THEN 1 ELSE 2]
<1>1. Z[0] = 0 /\ (\A m \in 0..n : Z[m] \in Nat) /\ Z[n] = 2
  OBVIOUS
<1>2. \A m \in Nat : m + 1 <= n =>
         Z[m + 1] = Z[m] \/ (Z[m + 1] = Z[m] + 1 /\ G[m + 1] # <<>>)
  <2> SUFFICES ASSUME NEW m \in Nat, m + 1 <= n
               PROVE  Z[m + 1] = Z[m] \/ (Z[m + 1] = Z[m] + 1 /\ G[m + 1] # <<>>)
    OBVIOUS
  <2>1. /\ Z[m] = IF m < j THEN 0 ELSE IF m < k THEN 1 ELSE 2
        /\ Z[m + 1] = IF m + 1 < j THEN 0 ELSE IF m + 1 < k THEN 1 ELSE 2
    OBVIOUS
  <2> HIDE DEF Z
  <2>2. CASE m + 1 = j
    BY <2>1, <2>2
  <2>3. CASE m + 1 = k
    BY <2>1, <2>3
  <2>4. CASE m + 1 # j /\ m + 1 # k
    BY <2>1, <2>4
  <2> QED
    BY <2>2, <2>3, <2>4
<1> HIDE DEF Z
<1>3. Z[n] <= Len(Flat(G, n))
  BY <1>1, <1>2, FlatLength
<1> QED
  BY <1>1, <1>3

LEMMA PickedSome ==
    ASSUME NEW D, NEW R, NEW P, Picks(P, D, R), NEW s \in Seq(D), NEW j \in 1..Len(s), P[s[j]] # <<>>
    PROVE  Picked(P, s) # <<>>
<1> DEFINE F == [i \in 1..Len(s) |-> P[s[i]]]
<1>1. Len(s) \in Nat /\ \A i \in 1..Len(s) : F[i] \in Seq(R)
  BY LenProperties, ElementOfSeq DEF Picks
<1>2. F[j] # <<>>
  OBVIOUS
<1> HIDE DEF F
<1>3. Flat(F, Len(s)) # <<>>
  BY <1>1, <1>2, FlatSome
<1> QED
  BY <1>3 DEF Picked, F

(* The row a client is owed, as a sequence of what adapters send.           *)
ToolAt(C, b) == C[b].kind = "tool"
IsRow(s, adapter, C) ==
    /\ s \in Seq(Sent)
    /\ Len(Middle(adapter, C)) < Len(s)
    /\ \A kind \in {"text", "call", "args"}, x \in Nat : (kind = "text" => x = 0) =>
          Picked(WhatIf(kind, x), s) = AllTell(kind, x, C, Index(adapter, C))

(* The indexes a client sees are those of the tool calls.                   *)
LEMMA UsedIs ==
    ASSUME NEW adapter, NEW C \in Seq(Block), NEW s, IsRow(s, adapter, C), NEW x \in Nat
    PROVE  x \in Used(s) <=> \E b \in 1..Len(C) : ToolAt(C, b) /\ Index(adapter, C)[b] = x
<1> DEFINE n == Len(C)
           X == Index(adapter, C)
           P == WhatIf("call", x)
           Q == WhatIf("args", x)
           G == [b \in 1..n |-> Tells("call", x, C[b], X[b])]
           H == [b \in 1..n |-> Tells("args", x, C[b], X[b])]
<1>1. n \in Nat /\ \A b \in 1..n : C[b] \in Block
  BY LenProperties, ElementOfSeq
<1>2. s \in Seq(Sent) /\ Picked(P, s) = Flat(G, n) /\ Picked(Q, s) = Flat(H, n)
  BY DEF IsRow, AllTell
<1>3. Len(s) \in Nat /\ DOMAIN s = 1..Len(s) /\ \A i \in 1..Len(s) : s[i] \in Sent
  BY <1>2, LenProperties, ElementOfSeq
<1>4. x \in Used(s) <=>
         \E i \in 1..Len(s) : s[i].index = x /\ (s[i].delta = "call" \/ s[i].delta = "args")
  BY <1>3 DEF Used
<1>5. \A i \in 1..Len(s) :
         /\ P[s[i]] # <<>> <=> s[i].delta = "call" /\ s[i].index = x
         /\ Q[s[i]] # <<>> <=> s[i].delta = "args" /\ s[i].index = x
  BY <1>3 DEF WhatIf
<1>6. Picks(P, Sent, Whatever) /\ Picks(Q, Sent, Whatever)
  BY WhatIfPicks
<1>7. \A b \in 1..n : /\ G[b] \in Seq(Whatever) /\ H[b] \in Seq(Whatever)
                      /\ G[b] # <<>> <=> ToolAt(C, b) /\ X[b] = x
                      /\ H[b] # <<>> => ToolAt(C, b) /\ X[b] = x
  <2>1. \A b \in 1..n : G[b] \in Seq(Whatever) /\ H[b] \in Seq(Whatever)
    BY <1>1, TellsType
  <2>2. \A b \in 1..n : G[b] = IF ToolAt(C, b) /\ X[b] = x THEN <<C[b].id>> ELSE <<>>
    BY DEF Tells, ToolAt
  <2>3. \A b \in 1..n : H[b] = IF ToolAt(C, b) /\ X[b] = x THEN C[b].frags ELSE <<>>
    BY DEF Tells, ToolAt
  <2>4. \A w : <<w>> # <<>>
    OBVIOUS
  <2> HIDE DEF G, H, X, n
  <2>5. \A b \in 1..n : G[b] # <<>> <=> ToolAt(C, b) /\ X[b] = x
    BY <2>2, <2>4
  <2>6. \A b \in 1..n : H[b] # <<>> => ToolAt(C, b) /\ X[b] = x
    BY <2>3
  <2> QED
    BY <2>1, <2>5, <2>6
<1> HIDE DEF P, Q, G, H, n, X
<1>8. ASSUME x \in Used(s)
      PROVE  \E b \in 1..n : ToolAt(C, b) /\ X[b] = x
  <2>1. PICK i \in 1..Len(s) : P[s[i]] # <<>> \/ Q[s[i]] # <<>>
    BY <1>4, <1>5, <1>8
  <2>2. Picked(P, s) # <<>> \/ Picked(Q, s) # <<>>
    BY <1>2, <1>6, <2>1, PickedSome
  <2>3. CASE Flat(G, n) # <<>>
    <3>1. ~(\A b \in 1..n : G[b] = <<>>)
      BY <1>1, <2>3, FlatEmpty
    <3> QED
      BY <1>7, <3>1
  <2>4. CASE Flat(H, n) # <<>>
    <3>1. ~(\A b \in 1..n : H[b] = <<>>)
      BY <1>1, <2>4, FlatEmpty
    <3> QED
      BY <1>7, <3>1
  <2> QED
    BY <1>2, <2>2, <2>3, <2>4
<1>9. ASSUME NEW b \in 1..n, ToolAt(C, b), X[b] = x
      PROVE  x \in Used(s)
  <2>1. Flat(G, n) # <<>>
    BY <1>1, <1>7, <1>9, FlatSome
  <2>2. ~(\A i \in 1..Len(s) : P[s[i]] = <<>>)
    BY <1>2, <1>3, <2>1, PickedNone
  <2> QED
    BY <1>4, <1>5, <2>2
<1> QED
  BY <1>8, <1>9 DEF n, X

(* An index of its own gathers the call of its block.                       *)
LEMMA EntryIsCall ==
    ASSUME NEW adapter, NEW C \in Seq(Block), NEW s, IsRow(s, adapter, C),
           NEW b \in 1..Len(C), ToolAt(C, b), Index(adapter, C)[b] \in Nat,
           \A d \in 1..Len(C) : ToolAt(C, d) /\ Index(adapter, C)[d] = Index(adapter, C)[b] => d = b
    PROVE  Entry(s, Index(adapter, C)[b]) = Call(C[b])
<1> DEFINE n == Len(C)
           X == Index(adapter, C)
           x == X[b]
           G == [d \in 1..n |-> Tells("call", x, C[d], X[d])]
           H == [d \in 1..n |-> Tells("args", x, C[d], X[d])]
<1>1. n \in Nat /\ x \in Nat /\ \A d \in 1..n : C[d] \in Block
  BY LenProperties, ElementOfSeq
<1>2. Picked(WhatIf("call", x), s) = Flat(G, n) /\ Picked(WhatIf("args", x), s) = Flat(H, n)
  BY <1>1 DEF IsRow, AllTell
<1>3. G[b] = <<C[b].id>> /\ H[b] = C[b].frags
  BY DEF Tells, ToolAt
<1>4. \A d \in 1..n \ {b} : G[d] = <<>> /\ H[d] = <<>>
  BY DEF Tells, ToolAt
<1>5. G[b] \in Seq(Whatever) /\ H[b] \in Seq(Whatever)
  BY <1>1, TellsType
<1>6. n \in Nat /\ b \in 1..n
  BY <1>1
<1> DEFINE R == Whatever
<1>7. G[b] \in Seq(R) /\ \A d \in 1..n \ {b} : G[d] = <<>>
  BY <1>4, <1>5
<1>8. H[b] \in Seq(R) /\ \A d \in 1..n \ {b} : H[d] = <<>>
  BY <1>4, <1>5
<1> HIDE DEF G, H, n, x, X, R
<1>9. Flat(G, n) = G[b]
  BY <1>6, <1>7, FlatOne
<1>10. Flat(H, n) = H[b]
  BY <1>6, <1>8, FlatOne
<1> QED
  BY <1>2, <1>3, <1>9, <1>10 DEF Entry, Call, x, X

(* How adapters that number their calls do it: Z counts, each tool call     *)
(* takes the next number, and what takes no number has no index.            *)
Counted(adapter, C) ==
    [m \in 0..Len(C) |-> IF adapter = "anthropic" THEN m
                         ELSE Cardinality({i \in 1..m : ToolAt(C, i)})]
Numbered(adapter, C, Z) ==
    /\ Z[0] = 0 /\ \A m \in 0..Len(C) : Z[m] \in Nat /\ Z[m] <= Z[Len(C)]
    /\ \A m \in Nat : m + 1 <= Len(C) =>
          IF ToolAt(C, m + 1)
          THEN Z[m + 1] = Z[m] + 1 /\ Rows(C, Index(adapter, C), Pad(adapter))[m + 1] # <<>>
          ELSE \/ Z[m + 1] = Z[m]
               \/ /\ Z[m + 1] = Z[m] + 1 /\ Rows(C, Index(adapter, C), Pad(adapter))[m + 1] # <<>>
                  /\ \A b \in 1..Len(C) : ToolAt(C, b) => Z[b] # Z[m + 1]
    /\ \A b \in 1..Len(C) : ToolAt(C, b) => Index(adapter, C)[b] = Z[b]
    /\ \A b, d \in 1..Len(C) : ToolAt(C, b) /\ ToolAt(C, d) /\ Z[b] = Z[d] => b = d

(* Then the client's calls are the answer's.                                *)
LEMMA CallsMeet ==
    ASSUME NEW adapter \in Adapters, NEW C \in Seq(Block), NEW s, IsRow(s, adapter, C),
           NEW Z, Numbered(adapter, C, Z)
    PROVE  Flat(Entries(s), Len(s) + 1) = Flat(CallsMade(C), Len(C))
<1> DEFINE n == Len(C)
           X == Index(adapter, C)
           m == Len(s)
           G == CallsMade(C)
           U == [i \in 1..m |-> Entries(s)[1 + i]]
           F == Rows(C, X, Pad(adapter))
<1>1. n \in Nat /\ \A b \in 1..n : C[b] \in Block
  BY LenProperties, ElementOfSeq
<1>2. s \in Seq(Sent) /\ m \in Nat /\ Len(Middle(adapter, C)) < m
  BY LenProperties DEF IsRow
<1>3. /\ Z[0] = 0 /\ \A l \in 0..n : Z[l] \in Nat /\ Z[l] <= Z[n]
      /\ \A b \in 1..n : ToolAt(C, b) => X[b] = Z[b]
      /\ \A b, d \in 1..n : ToolAt(C, b) /\ ToolAt(C, d) /\ Z[b] = Z[d] => b = d
  BY DEF Numbered
<1>4. \A l \in Nat : l + 1 <= n =>
         IF ToolAt(C, l + 1) THEN Z[l + 1] = Z[l] + 1 /\ F[l + 1] # <<>>
         ELSE \/ Z[l + 1] = Z[l]
              \/ /\ Z[l + 1] = Z[l] + 1 /\ F[l + 1] # <<>>
                 /\ \A b \in 1..n : ToolAt(C, b) => Z[b] # Z[l + 1]
  BY DEF Numbered
<1>5. \A b \in 1..n : F[b] \in Seq(Quiet)
  BY RowsType
<1>6. Z[n] < m
  <2> HIDE DEF F, n, m
  <2>1. \A l \in Nat : l + 1 <= n => Z[l + 1] = Z[l] \/ (Z[l + 1] = Z[l] + 1 /\ F[l + 1] # <<>>)
    BY <1>4
  <2>2. Z[n] <= Len(Flat(F, n))
    BY <1>1, <1>3, <1>5, <2>1, FlatLength
  <2>3. Flat(F, n) = Middle(adapter, C)
    BY DEF Middle, F, n
  <2>4. Flat(F, n) \in Seq(Quiet)
    BY <1>1, <1>5, FlatType
  <2>5. Len(Flat(F, n)) \in Nat /\ Z[n] \in Nat
    BY <1>1, <1>3, <2>4, LenProperties
  <2> QED
    BY <1>2, <2>2, <2>3, <2>5
<1>7. \A x \in Nat : x \in Used(s) <=> \E b \in 1..n : ToolAt(C, b) /\ Z[b] = x
  <2>1. \A x \in Nat : x \in Used(s) <=> \E b \in 1..n : ToolAt(C, b) /\ X[b] = x
    BY UsedIs
  <2> HIDE DEF X, n
  <2> QED
    BY <1>3, <2>1
<1>8. \A i \in 1..(m + 1) : Entries(s)[i] = IF i - 1 \in Used(s) THEN <<Entry(s, i - 1)>> ELSE <<>>
  BY DEF Entries
<1>9. \A i \in 1..(m + 1) : Entries(s)[i] \in Seq(Made)
  <2> SUFFICES ASSUME NEW i \in 1..(m + 1) PROVE Entries(s)[i] \in Seq(Made)
    OBVIOUS
  <2> DEFINE c == Entry(s, i - 1)
  <2>1. c \in Made /\ Entries(s)[i] \in {<<c>>, <<>>}
    BY <1>2, <1>8, EntryType
  <2> HIDE DEF c
  <2>2. <<c>> \in Seq(Made) /\ <<>> \in Seq(Made)
    BY <2>1, EmptySeq
  <2> QED
    BY <2>1, <2>2
<1>10. \A i \in 1..m : U[i] = (IF i \in Used(s) THEN <<Entry(s, i)>> ELSE <<>>) /\ U[i] \in Seq(Made)
  <2> SUFFICES ASSUME NEW i \in 1..m
               PROVE  U[i] = (IF i \in Used(s) THEN <<Entry(s, i)>> ELSE <<>>) /\ U[i] \in Seq(Made)
    OBVIOUS
  <2>1. 1 + i \in 1..(m + 1) /\ (1 + i) - 1 = i /\ U[i] = Entries(s)[1 + i]
    BY <1>2
  <2> QED
    BY <1>8, <1>9, <2>1
<1>11. 0 \notin Used(s)
  <2> SUFFICES ASSUME NEW b \in 1..n, ToolAt(C, b), Z[b] = 0 PROVE FALSE
    BY <1>7
  <2>1. b - 1 \in Nat /\ (b - 1) + 1 = b /\ b - 1 \in 0..n
    BY <1>1
  <2>2. Z[b] = Z[b - 1] + 1 /\ Z[b - 1] \in Nat
    BY <1>1, <1>3, <1>4, <2>1
  <2> QED
    BY <2>2
<1> HIDE DEF U, G, F, n, X
<1>12. Flat(Entries(s), m + 1) = Flat(U, m)
  <2> DEFINE V == Entries(s)
  <2>1. V[1] = <<>>
    <3>1. 1 \in 1..(m + 1) /\ 1 - 1 = 0
      BY <1>2
    <3> QED
      BY <1>8, <1>11, <3>1
  <2>2. \A i \in 1..(1 + m) : V[i] \in Seq(Made)
    BY <1>2, <1>9
  <2>3. Flat(U, m) \in Seq(Made)
    BY <1>2, <1>10, FlatType
  <2>4. U = [i \in 1..m |-> V[1 + i]]
    BY DEF U
  <2>5. Flat(V, 1 + m) = Flat(V, 1) \o Flat([i \in 1..m |-> V[1 + i]], m)
    <3> DEFINE D == Made
               k == 1
    <3>1. k \in Nat /\ m \in Nat /\ \A i \in 1..(k + m) : V[i] \in Seq(D)
      BY <1>2, <2>2
    <3> HIDE DEF D, k, V, m
    <3>2. Flat(V, k + m) = Flat(V, k) \o Flat([i \in 1..m |-> V[k + i]], m)
      BY <3>1, FlatSplit
    <3> QED
      BY <3>2 DEF k
  <2> HIDE DEF V, m
  <2>6. Flat(V, 1) = <<>>
    <3>1. 1 \in Nat /\ \A i \in 1..1 : V[i] = <<>>
      BY <2>1
    <3> QED
      BY <3>1, FlatEmpty
  <2>7. 1 + m = m + 1
    BY <1>2
  <2> QED
    BY <2>3, <2>4, <2>5, <2>6, <2>7, ConcatEmptySeq DEF V
<1> HIDE DEF m
<1>13. Flat(U, m) = Flat(U, Z[n])
  <2> DEFINE z == Z[n]
             D == Made
  <2>1. z \in Nat /\ z <= m /\ m \in Nat
    BY <1>1, <1>2, <1>3, <1>6
  <2>2. \A i \in 1..m : i > z => U[i] = <<>>
    <3> SUFFICES ASSUME NEW i \in 1..m, i > z, i \in Used(s) PROVE FALSE
      BY <1>10
    <3>1. PICK b \in 1..n : Z[b] = i
      BY <1>2, <1>7
    <3>2. Z[b] <= z /\ Z[b] \in Nat
      BY <1>1, <1>3
    <3> QED
      BY <2>1, <3>1, <3>2
  <2> HIDE DEF z
  <2>3. \A i \in 1..z : i \in 1..m
    BY <2>1
  <2>4. \A i \in 1..z : U[i] \in Seq(D)
    BY <1>10, <2>3
  <2> HIDE DEF D
  <2>5. Flat(U, m) = Flat(U, z)
    BY <2>1, <2>2, <2>4, FlatCut
  <2> QED
    BY <2>5 DEF z
<1>14. ASSUME NEW b \in 1..n, ToolAt(C, b)
       PROVE  Entry(s, Z[b]) = Call(C[b])
  <2>1. X[b] = Z[b] /\ Z[b] \in Nat
    BY <1>1, <1>3, <1>14
  <2>2. \A d \in 1..n : ToolAt(C, d) /\ X[d] = X[b] => d = b
    BY <1>3, <1>14
  <2>3. Entry(s, X[b]) = Call(C[b])
    BY <1>14, <2>1, <2>2, EntryIsCall DEF n, X
  <2> QED
    BY <2>1, <2>3
<1>15. \A b \in 1..n : G[b] = (IF ToolAt(C, b) THEN <<Call(C[b])>> ELSE <<>>) /\ G[b] \in Seq(Made)
  <2> SUFFICES ASSUME NEW b \in 1..n
               PROVE  G[b] = (IF ToolAt(C, b) THEN <<Call(C[b])>> ELSE <<>>) /\ G[b] \in Seq(Made)
    OBVIOUS
  <2> DEFINE c == Call(C[b])
  <2>1. G[b] = IF ToolAt(C, b) THEN <<c>> ELSE <<>>
    BY DEF G, CallsMade, ToolAt, n
  <2>2. c \in Made
    BY <1>1, CallType
  <2> HIDE DEF c
  <2>3. <<c>> \in Seq(Made) /\ <<>> \in Seq(Made)
    BY <2>2, EmptySeq
  <2> QED
    BY <2>1, <2>3 DEF c
<1>16. \A l \in Nat : l + 1 <= n =>
          \/ Z[l + 1] = Z[l] /\ G[l + 1] = <<>>
          \/ Z[l + 1] = Z[l] + 1 /\ G[l + 1] = U[Z[l + 1]]
  <2> SUFFICES ASSUME NEW l \in Nat, l + 1 <= n
               PROVE  \/ Z[l + 1] = Z[l] /\ G[l + 1] = <<>>
                      \/ Z[l + 1] = Z[l] + 1 /\ G[l + 1] = U[Z[l + 1]]
    OBVIOUS
  <2>1. l \in 0..n /\ l + 1 \in 0..n /\ l + 1 \in 1..n
    BY <1>1
  <2>2. Z[l] \in Nat /\ Z[l + 1] \in Nat /\ Z[l + 1] <= Z[n] /\ Z[n] \in Nat
    BY <1>1, <1>3, <2>1
  <2>3. Z[l + 1] = Z[l] + 1 => Z[l + 1] \in 1..m
    BY <1>2, <1>6, <2>2
  <2>4. CASE ToolAt(C, l + 1)
    <3>1. Z[l + 1] = Z[l] + 1
      BY <1>4, <2>4
    <3>2. Z[l + 1] \in Used(s)
      BY <1>7, <2>1, <2>2, <2>4
    <3>3. U[Z[l + 1]] = <<Entry(s, Z[l + 1])>>
      BY <1>10, <2>3, <3>1, <3>2
    <3>4. Entry(s, Z[l + 1]) = Call(C[l + 1])
      BY <1>14, <2>1, <2>4
    <3>5. G[l + 1] = <<Call(C[l + 1])>>
      BY <1>15, <2>1, <2>4
    <3> QED
      BY <3>1, <3>3, <3>4, <3>5
  <2>5. CASE ~ToolAt(C, l + 1)
    <3>1. G[l + 1] = <<>>
      BY <1>15, <2>1, <2>5
    <3>2. CASE Z[l + 1] = Z[l]
      BY <3>1, <3>2
    <3>3. CASE Z[l + 1] = Z[l] + 1 /\ \A b \in 1..n : ToolAt(C, b) => Z[b] # Z[l + 1]
      <4>1. Z[l + 1] \notin Used(s)
        BY <1>7, <2>2, <3>3
      <4>2. U[Z[l + 1]] = <<>>
        BY <1>10, <2>3, <3>3, <4>1
      <4> QED
        BY <3>1, <3>3, <4>2
    <3> QED
      BY <1>4, <2>5, <3>2, <3>3
  <2> QED
    BY <2>4, <2>5
<1>17. Flat(U, Z[n]) = Flat(G, n)
  <2>1. U[1] \in Seq(Made)
    <3>1. 1 \in 1..m
      <4>1. Z[n] \in Nat
        BY <1>1, <1>3
      <4> QED
        BY <1>2, <1>6, <4>1
    <3> QED
      BY <1>10, <3>1
  <2> DEFINE D == Made
  <2>2. U[1] \in Seq(D) /\ \A i \in 1..n : G[i] \in Seq(D)
    BY <1>15, <2>1
  <2>3. n \in Nat /\ Z[0] = 0 /\ \A l \in 0..n : Z[l] \in Nat
    BY <1>1, <1>3
  <2> HIDE DEF D
  <2>4. GrowTogether(Z, U, G, n)
    BY <1>16 DEF GrowTogether
  <2>5. U[1] \in Seq(D) /\ (\A i \in 1..n : G[i] \in Seq(D))
    BY <2>2
  <2> QED
    BY <2>3, <2>4, <2>5, FlatsMeet
<1> QED
  BY <1>12, <1>13, <1>17 DEF G, n, m

(* What takes a number has something in its row.                            *)
LEMMA RowIsSome ==
    ASSUME NEW adapter \in Adapters, NEW block \in Block, NEW x \in Nat,
           block.kind = "tool" \/ adapter # "compat"
    PROVE  BlockRow(block, x, Pad(adapter)) # <<>>
<1> DEFINE pad == Pad(adapter)
           h == HeadRow(block, x, pad)
           g == [i \in 1..Len(block.frags) |-> DeltaChunk(block, x, i)]
<1>1. h \in Seq(Quiet) /\ g \in Seq(Quiet) /\ pad \in Seq(Quiet)
  <2>1. pad \in Seq(Quiet)
    <3>1. <<>> \in Seq(Block)
      OBVIOUS
    <3> QED
      BY <3>1, RowsType
  <2> HIDE DEF pad
  <2> QED
    BY <2>1, BlockRowType DEF h, g
<1>2. Len(h) = 1
  <2> DEFINE c == Delta("call", x, block.id)
             d == NoChunk
  <2>1. h = <<c>> \/ h = <<d>>
    BY DEF HeadRow, Pad
  <2> HIDE DEF c, d, h
  <2> QED
    BY <2>1
<1>3. BlockRow(block, x, pad) = h \o g \o pad
  BY DEF BlockRow
<1> HIDE DEF h, g, pad
<1>4. Len(h \o g \o pad) = Len(h) + Len(g) + Len(pad) /\ Len(g) \in Nat /\ Len(pad) \in Nat
  BY <1>1, ConcatProperties, LenProperties
<1>5. Len(<<>>) = 0
  OBVIOUS
<1> QED
  BY <1>2, <1>3, <1>4, <1>5 DEF pad

(* Counting the tool calls.                                                 *)
LEMMA ToolCount ==
    ASSUME NEW C, NEW m \in Nat, NEW b \in Nat, b <= m
    PROVE  LET count(j) == Cardinality({i \in 1..j : ToolAt(C, i)})
           IN  /\ count(b) \in Nat /\ count(m) \in Nat /\ count(b) <= count(m)
               /\ count(0) = 0
               /\ count(m + 1) = IF ToolAt(C, m + 1) THEN count(m) + 1 ELSE count(m)
<1> DEFINE T(j) == {i \in 1..j : ToolAt(C, i)}
<1>1. ASSUME NEW j \in Nat PROVE IsFiniteSet(T(j)) /\ Cardinality(T(j)) \in Nat
  <2>1. IsFiniteSet(1..j) /\ T(j) \subseteq 1..j
    BY FS_Interval
  <2> QED
    BY <2>1, FS_Subset, FS_CardinalityType
<1>2. Cardinality(T(b)) <= Cardinality(T(m))
  <2>1. T(b) \subseteq T(m)
    OBVIOUS
  <2> HIDE DEF T
  <2> QED
    BY <1>1, <2>1, FS_Subset
<1>3. Cardinality(T(0)) = 0
  <2>1. T(0) = {}
    OBVIOUS
  <2> QED
    BY <2>1, FS_EmptySet
<1>4. Cardinality(T(m + 1)) = IF ToolAt(C, m + 1) THEN Cardinality(T(m)) + 1 ELSE Cardinality(T(m))
  <2>1. CASE ToolAt(C, m + 1)
    <3>1. T(m + 1) = T(m) \cup {m + 1} /\ m + 1 \notin T(m)
      BY <2>1
    <3> HIDE DEF T
    <3> QED
      BY <1>1, <2>1, <3>1, FS_AddElement
  <2>2. CASE ~ToolAt(C, m + 1)
    <3>1. T(m + 1) = T(m)
      BY <2>2
    <3> QED
      BY <2>2, <3>1
  <2> QED
    BY <2>1, <2>2
<1> QED
  BY <1>1, <1>2, <1>3, <1>4

LEMMA CompatNumbers ==
    ASSUME NEW C \in Seq(Block)
    PROVE  Numbered("compat", C, Counted("compat", C))
<1> DEFINE n == Len(C)
           X == Index("compat", C)
           Z == Counted("compat", C)
           F == Rows(C, X, Pad("compat"))
           count(j) == Cardinality({i \in 1..j : ToolAt(C, i)})
<1>1. n \in Nat /\ \A b \in 1..n : C[b] \in Block /\ X[b] \in Nat
  BY LenProperties, ElementOfSeq, IndexType
<1>2. \A l \in 0..n : Z[l] = count(l)
  BY DEF Counted
<1>3. \A b \in 1..n : X[b] = count(b)
  BY DEF Index, ToolAt
<1>4. \A l \in Nat : /\ count(l) \in Nat /\ count(0) = 0
                     /\ count(l + 1) = IF ToolAt(C, l + 1) THEN count(l) + 1 ELSE count(l)
  <2> SUFFICES ASSUME NEW l \in Nat
               PROVE  /\ count(l) \in Nat /\ count(0) = 0
                      /\ count(l + 1) = IF ToolAt(C, l + 1) THEN count(l) + 1 ELSE count(l)
    OBVIOUS
  <2>1. l <= l
    OBVIOUS
  <2> QED
    BY <2>1, ToolCount
<1>5. \A b, l \in Nat : b <= l => count(b) <= count(l)
  BY ToolCount
<1>6. \A b \in 1..n : ToolAt(C, b) => F[b] # <<>>
  <2> SUFFICES ASSUME NEW b \in 1..n, ToolAt(C, b) PROVE F[b] # <<>>
    OBVIOUS
  <2> DEFINE c == C[b]
             x == X[b]
  <2>1. c \in Block /\ x \in Nat /\ c.kind = "tool"
    BY <1>1 DEF ToolAt
  <2>2. F[b] = BlockRow(c, x, Pad("compat"))
    BY DEF Rows
  <2> HIDE DEF c, x, F
  <2>3. "compat" \in Adapters
    BY DEF Adapters
  <2> QED
    BY <2>1, <2>2, <2>3, RowIsSome
<1> HIDE DEF n, X, Z, F, count
<1>7. Z[0] = 0 /\ \A l \in 0..n : Z[l] \in Nat /\ Z[l] <= Z[n]
  <2>1. 0 \in 0..n /\ n \in 0..n /\ \A l \in 0..n : l \in Nat /\ l <= n
    BY <1>1
  <2> QED
    BY <1>1, <1>2, <1>4, <1>5, <2>1
<1>8. ASSUME NEW l \in Nat, l + 1 <= n
      PROVE  IF ToolAt(C, l + 1) THEN Z[l + 1] = Z[l] + 1 /\ F[l + 1] # <<>>
             ELSE Z[l + 1] = Z[l]
  <2>1. l \in 0..n /\ l + 1 \in 0..n /\ l + 1 \in 1..n
    BY <1>1, <1>8
  <2>2. Z[l] = count(l) /\ Z[l + 1] = count(l + 1)
    BY <1>2, <2>1
  <2> QED
    BY <1>4, <1>6, <2>1, <2>2
<1>9. \A b \in 1..n : ToolAt(C, b) => X[b] = Z[b]
  <2>1. \A b \in 1..n : b \in 0..n
    BY <1>1
  <2> QED
    BY <1>2, <1>3, <2>1
<1>10. \A b, d \in 1..n : ToolAt(C, b) /\ ToolAt(C, d) /\ Z[b] = Z[d] => b = d
  <2>1. ASSUME NEW b \in 1..n, NEW d \in 1..n, ToolAt(C, d), b < d
        PROVE  Z[b] # Z[d]
    <3>1. b \in 0..n /\ d \in 0..n /\ b \in Nat /\ d - 1 \in Nat /\ (d - 1) + 1 = d /\ b <= d - 1
      BY <1>1, <2>1
    <3>2. count(b) <= count(d - 1)
      BY <1>5, <3>1
    <3>3. count((d - 1) + 1) = count(d - 1) + 1 /\ count(d - 1) \in Nat /\ count(b) \in Nat
      BY <1>4, <2>1, <3>1
    <3>4. count(d) = count(d - 1) + 1
      BY <3>1, <3>3
    <3> QED
      BY <1>2, <3>1, <3>2, <3>3, <3>4
  <2>2. \A b, d \in 1..n : b < d \/ d < b \/ b = d
    BY <1>1
  <2> QED
    BY <2>1, <2>2
<1> QED
  BY <1>7, <1>8, <1>9, <1>10 DEF Numbered, n, X, Z, F

LEMMA AnthropicNumbers ==
    ASSUME NEW C \in Seq(Block)
    PROVE  Numbered("anthropic", C, Counted("anthropic", C))
<1> DEFINE n == Len(C)
           X == Index("anthropic", C)
           Z == Counted("anthropic", C)
           F == Rows(C, X, Pad("anthropic"))
<1>1. n \in Nat /\ \A b \in 1..n : C[b] \in Block
  BY LenProperties, ElementOfSeq
<1>2. \A l \in 0..n : Z[l] = l
  BY DEF Counted
<1>3. \A b \in 1..n : X[b] = b
  BY DEF Index
<1>4. \A b \in 1..n : F[b] # <<>>
  <2> SUFFICES ASSUME NEW b \in 1..n PROVE F[b] # <<>>
    OBVIOUS
  <2> DEFINE c == C[b]
  <2>1. c \in Block /\ b \in Nat
    BY <1>1
  <2>2. F[b] = BlockRow(c, X[b], Pad("anthropic"))
    BY DEF Rows
  <2>3. F[b] = BlockRow(c, b, Pad("anthropic"))
    BY <1>3, <2>2
  <2> HIDE DEF c, F, X
  <2>4. "anthropic" \in Adapters /\ "anthropic" # "compat"
    BY DEF Adapters
  <2> QED
    BY <2>1, <2>3, <2>4, RowIsSome
<1> HIDE DEF n, X, Z, F
<1>5. Z[0] = 0 /\ \A l \in 0..n : Z[l] \in Nat /\ Z[l] <= Z[n]
  BY <1>1, <1>2
<1>6. ASSUME NEW l \in Nat, l + 1 <= n
      PROVE  /\ Z[l + 1] = Z[l] + 1 /\ F[l + 1] # <<>>
             /\ ~ToolAt(C, l + 1) => \A b \in 1..n : ToolAt(C, b) => Z[b] # Z[l + 1]
  <2>1. l \in 0..n /\ l + 1 \in 0..n /\ l + 1 \in 1..n
    BY <1>1, <1>6
  <2>2. Z[l] = l /\ Z[l + 1] = l + 1
    BY <1>2, <2>1
  <2>3. \A b \in 1..n : Z[b] = b
    BY <1>1, <1>2
  <2> QED
    BY <1>4, <2>1, <2>2, <2>3
<1>7. \A b \in 1..n : X[b] = Z[b] /\ Z[b] = b
  BY <1>1, <1>2, <1>3
<1> QED
  BY <1>5, <1>6, <1>7 DEF Numbered, n, X, Z, F

(* Codex gives all its calls index 0: with one call that is no loss.        *)
LEMMA OneCallMeets ==
    ASSUME NEW C \in Seq(Block), NEW s, IsRow(s, "codex", C), Len(Flat(CallsMade(C), Len(C))) <= 1
    PROVE  Flat(Entries(s), Len(s) + 1) = Flat(CallsMade(C), Len(C))
<1> DEFINE n == Len(C)
           X == Index("codex", C)
           m == Len(s) + 1
           G == CallsMade(C)
           V == Entries(s)
<1>1. n \in Nat /\ \A b \in 1..n : C[b] \in Block /\ X[b] = 0
  BY LenProperties, ElementOfSeq DEF Index
<1>2. s \in Seq(Sent) /\ Len(s) \in Nat /\ m \in Nat /\ 1 \in 1..m
  BY LenProperties DEF IsRow
<1>3. \A b \in 1..n : /\ G[b] = IF ToolAt(C, b) THEN <<Call(C[b])>> ELSE <<>>
                      /\ G[b] \in Seq(Made)
                      /\ ToolAt(C, b) => G[b] # <<>>
  <2> SUFFICES ASSUME NEW b \in 1..n
               PROVE  /\ G[b] = IF ToolAt(C, b) THEN <<Call(C[b])>> ELSE <<>>
                      /\ G[b] \in Seq(Made)
                      /\ ToolAt(C, b) => G[b] # <<>>
    OBVIOUS
  <2> DEFINE c == Call(C[b])
  <2>1. G[b] = IF ToolAt(C, b) THEN <<c>> ELSE <<>>
    BY DEF CallsMade, ToolAt
  <2>2. c \in Made
    BY <1>1, CallType
  <2> HIDE DEF c, G
  <2>3. <<c>> \in Seq(Made) /\ <<>> \in Seq(Made) /\ <<c>> # <<>>
    BY <2>2, EmptySeq
  <2> QED
    BY <2>1, <2>3 DEF c
<1>4. \A i \in 1..m : V[i] = IF i - 1 \in Used(s) THEN <<Entry(s, i - 1)>> ELSE <<>>
  BY DEF Entries
<1>5. \A x \in Nat : x \in Used(s) <=> \E b \in 1..n : ToolAt(C, b) /\ x = 0
  <2>1. \A x \in Nat : x \in Used(s) <=> \E b \in 1..n : ToolAt(C, b) /\ X[b] = x
    BY UsedIs
  <2> HIDE DEF X, n
  <2> QED
    BY <1>1, <2>1
<1>6. ASSUME NEW j \in 1..n, NEW k \in 1..n, ToolAt(C, j), ToolAt(C, k)
      PROVE  j = k
  <2>1. ASSUME NEW p \in 1..n, NEW q \in 1..n, ToolAt(C, p), ToolAt(C, q), p < q
        PROVE  FALSE
    <3>1. G[p] # <<>> /\ G[q] # <<>> /\ \A b \in 1..n : G[b] \in Seq(Made)
      BY <1>3, <2>1
    <3>2. Len(Flat(G, n)) <= 1
      OBVIOUS
    <3>3. Flat(G, n) \in Seq(Made)
      <4> HIDE DEF G, n
      <4> QED
        BY <1>1, <3>1, FlatType
    <3> HIDE DEF G, n
    <3>4. 2 <= Len(Flat(G, n))
      BY <1>1, <2>1, <3>1, FlatTwo
    <3>5. Len(Flat(G, n)) \in Nat
      BY <3>3, LenProperties
    <3> QED
      BY <3>2, <3>4, <3>5
  <2> HIDE DEF n
  <2>2. j < k \/ k < j \/ j = k
    BY <1>1
  <2> QED
    BY <1>6, <2>1, <2>2
<1>7. CASE \A b \in 1..n : ~ToolAt(C, b)
  <2>1. \A b \in 1..n : G[b] = <<>>
    BY <1>3, <1>7
  <2>2. \A i \in 1..m : V[i] = <<>>
    <3> SUFFICES ASSUME NEW i \in 1..m PROVE V[i] = <<>>
      OBVIOUS
    <3>1. i - 1 \in Nat
      BY <1>2
    <3>2. i - 1 \notin Used(s)
      BY <1>5, <1>7, <3>1
    <3> QED
      BY <1>4, <3>2
  <2> HIDE DEF G, V, n, m
  <2>3. Flat(G, n) = <<>> /\ Flat(V, m) = <<>>
    BY <1>1, <1>2, <2>1, <2>2, FlatEmpty
  <2> QED
    BY <2>3 DEF G, V, n, m
<1>8. CASE \E b \in 1..n : ToolAt(C, b)
  <2>1. PICK b \in 1..n : ToolAt(C, b)
    BY <1>8
  <2>2. Entry(s, 0) = Call(C[b])
    <3>1. X[b] = 0 /\ 0 \in Nat
      BY <1>1
    <3>2. \A d \in 1..n : ToolAt(C, d) /\ X[d] = X[b] => d = b
      BY <1>6, <2>1
    <3>3. Entry(s, X[b]) = Call(C[b])
      BY <2>1, <3>1, <3>2, EntryIsCall
    <3> QED
      BY <3>1, <3>3
  <2>3. G[b] = <<Call(C[b])>> /\ G[b] \in Seq(Made)
    BY <1>3, <2>1
  <2>4. \A d \in 1..n \ {b} : G[d] = <<>>
    BY <1>3, <1>6, <2>1
  <2>5. V[1] = <<Entry(s, 0)>>
    <3>1. 1 - 1 = 0 /\ 0 \in Nat
      OBVIOUS
    <3>2. 0 \in Used(s)
      BY <1>5, <2>1, <3>1
    <3> HIDE DEF V, m
    <3> QED
      BY <1>2, <1>4, <3>1, <3>2
  <2>6. \A i \in 1..m \ {1} : V[i] = <<>>
    <3> SUFFICES ASSUME NEW i \in 1..m, i # 1 PROVE V[i] = <<>>
      OBVIOUS
    <3>1. i - 1 \in Nat /\ i - 1 # 0
      BY <1>2
    <3>2. i - 1 \notin Used(s)
      BY <1>5, <3>1
    <3> HIDE DEF V, m
    <3> QED
      BY <1>4, <3>2
  <2>7. V[1] = G[b]
    BY <2>2, <2>3, <2>5
  <2> HIDE DEF G, V, n, m
  <2>8. Flat(G, n) = G[b]
    BY <1>1, <2>3, <2>4, FlatOne
  <2>9. Flat(V, m) = V[1]
    BY <1>2, <2>3, <2>6, <2>7, FlatOne
  <2> QED
    BY <2>7, <2>8, <2>9 DEF G, V, n, m
<1> QED
  BY <1>7, <1>8

(* The row of a reply that did not fail says once how it finished.          *)
Finishes(s) == FlattenSeq([i \in DOMAIN s |-> IF s[i].finish # "none" THEN <<s[i]>> ELSE <<>>])
Tellers     == [c \in Sent |-> IF c.finish # "none" THEN <<c>> ELSE <<>>]

LEMMA TellersPick == Picks(Tellers, Sent, Sent)
<1>1. ASSUME NEW c \in Sent PROVE Tellers[c] \in Seq(Sent)
  <2>1. Tellers[c] \in {<<c>>, <<>>}
    BY DEF Tellers
  <2> HIDE DEF Sent
  <2>2. <<c>> \in Seq(Sent) /\ <<>> \in Seq(Sent)
    BY EmptySeq
  <2> QED
    BY <2>1, <2>2
<1> QED
  BY <1>1 DEF Picks

LEMMA RowFinishes ==
    ASSUME NEW adapter \in {"anthropic", "compat"}, NEW C \in Seq(Block),
           NEW stop \in Stops, stop # "failed", NEW spent \in Usages
    PROVE  Assembled(FirstRow(adapter) \o Middle(adapter, C) \o LastRow(adapter, stop, spent)).finish
              = AnthropicFinish(stop)
<1> DEFINE P == Tellers
           s == FirstRow(adapter)
           t == Middle(adapter, C)
           L == LastRow(adapter, stop, spent)
           W == s \o t \o L
<1>0. adapter \in Adapters
  BY DEF Adapters
<1>1. s \in Seq(Quiet) /\ t \in Seq(Quiet) /\ L \in Seq(Ending)
  BY <1>0, RowsType, LastRowIs
<1>2. s \in Seq(Sent) /\ t \in Seq(Sent) /\ L \in Seq(Sent)
  <2>1. Quiet \subseteq Sent /\ Ending \subseteq Sent
    BY DEF Sent
  <2> HIDE DEF s, t, L
  <2> QED
    BY <1>1, <2>1, SeqDef
<1>3. \A c \in Sent : P[c] = IF c.finish # "none" THEN <<c>> ELSE <<>>
  BY DEF Tellers
<1>4. \A v \in Seq(Quiet) : v \in Seq(Sent) => Picked(P, v) = <<>>
  <2> SUFFICES ASSUME NEW v \in Seq(Quiet), v \in Seq(Sent) PROVE Picked(P, v) = <<>>
    OBVIOUS
  <2>1. Len(v) \in Nat /\ \A i \in 1..Len(v) : v[i] \in Quiet /\ v[i] \in Sent
    BY LenProperties, ElementOfSeq
  <2>2. \A c \in Quiet : c.finish = "none"
    BY DEF Quiet
  <2>3. \A i \in 1..Len(v) : P[v[i]] = <<>>
    BY <1>3, <2>1, <2>2
  <2> HIDE DEF P
  <2> QED
    BY <2>1, <2>3, PickedNone
<1>5. PICK c \in Sent : Picked(P, L) = <<c>> /\ c.finish = AnthropicFinish(stop)
  <2>1. L \in Seq(Sent) /\ Len(L) = 2 /\ L[1].finish = AnthropicFinish(stop) /\ L[2].finish = "none"
    BY <1>2 DEF LastRow, Unfinished, Final, NoChunk, Delta
  <2>3. AnthropicFinish(stop) # "none"
    BY DEF AnthropicFinish
  <2> HIDE DEF L, P
  <2>2. L[1] \in Sent /\ L[2] \in Sent
    <3>1. 1 \in 1..Len(L) /\ 2 \in 1..Len(L)
      BY <2>1
    <3> QED
      BY <2>1, <3>1, ElementOfSeq
  <2> DEFINE c == L[1]
             F == [i \in 1..Len(L) |-> P[L[i]]]
  <2>4. F[1] = <<c>> /\ F[2] = <<>>
    <3>1. F[1] = P[L[1]] /\ F[2] = P[L[2]]
      BY <2>1
    <3> HIDE DEF F
    <3> QED
      BY <1>3, <2>1, <2>2, <2>3, <3>1
  <2>5. c \in Sent
    BY <2>2
  <2>6. Picked(P, L) = Flat(F, 2)
    BY <2>1 DEF Picked
  <2> HIDE DEF c, F, Sent
  <2>7. F[1] \in Seq(Sent)
    BY <2>4, <2>5
  <2>8. Flat(F, 2) = F[1]
    <3> DEFINE D == Sent
               n == 2
               j == 1
    <3>1. n \in Nat /\ j \in 1..n /\ F[j] \in Seq(D) /\ \A i \in 1..n \ {j} : F[i] = <<>>
      BY <2>4, <2>7
    <3> HIDE DEF D, n, j
    <3>2. Flat(F, n) = F[j]
      BY <3>1, FlatOne
    <3> QED
      BY <3>2 DEF n, j
  <2>9. Picked(P, L) = <<c>>
    BY <2>4, <2>6, <2>8
  <2>10. c.finish = AnthropicFinish(stop)
    BY <2>1 DEF c
  <2> QED
    BY <2>5, <2>9, <2>10
<1> HIDE DEF s, t, L
<1>6. s \o t \in Seq(Sent) /\ W \in Seq(Sent)
  <2> HIDE DEF Sent
  <2> QED
    BY <1>2, ConcatProperties
<1>7. Picked(P, W) = <<c>>
  <2> DEFINE D == Sent
             u == s \o t
  <2>1. /\ s \in Seq(D) /\ t \in Seq(D) /\ L \in Seq(D) /\ u \in Seq(D) /\ Picks(P, D, D)
        /\ Picked(P, s) = <<>> /\ Picked(P, t) = <<>>
    BY <1>1, <1>2, <1>4, <1>6, TellersPick
  <2> HIDE DEF D, P, u
  <2>2. Picked(P, s \o t) = Picked(P, s) \o Picked(P, t)
    BY <2>1, PickedConcat
  <2>3. Picked(P, u \o L) = Picked(P, u) \o Picked(P, L)
    BY <2>1, PickedConcat
  <2> DEFINE w == <<c>>
  <2>4. w \in Seq(Sent) /\ <<>> \in Seq(Sent) /\ Picked(P, L) = w
    BY <1>5
  <2> HIDE DEF w
  <2>5. <<>> \o <<>> = <<>> /\ <<>> \o w = w
    BY <2>4, ConcatEmptySeq
  <2>6. Picked(P, u) = <<>>
    BY <2>1, <2>2, <2>5 DEF u
  <2>7. W = u \o L
    BY DEF u
  <2> QED
    BY <2>3, <2>4, <2>5, <2>6, <2>7 DEF w
<1> HIDE DEF W
<1>8. Finishes(W) = Picked(P, W)
  <2>1. DOMAIN W = 1..Len(W) /\ \A i \in 1..Len(W) : W[i] \in Sent
    BY <1>6, LenProperties, ElementOfSeq
  <2>2. [i \in DOMAIN W |-> IF W[i].finish # "none" THEN <<W[i]>> ELSE <<>>]
           = [i \in 1..Len(W) |-> P[W[i]]]
    BY <1>3, <2>1
  <2>3. Flat([i \in 1..Len(W) |-> P[W[i]]], Len(W)) = FlattenSeq([i \in 1..Len(W) |-> P[W[i]]])
    <3> DEFINE F == [i \in 1..Len(W) |-> P[W[i]]]
    <3>1. F = [i \in 1..Len(W) |-> F[i]]
      OBVIOUS
    <3> HIDE DEF F
    <3>2. Flat(F, Len(W)) = FlattenSeq(F)
      BY <3>1 DEF Flat
    <3> QED
      BY <3>2 DEF F
  <2> QED
    BY <2>2, <2>3 DEF Finishes, Picked
<1>9. Assembled(W).finish = IF Finishes(W) = <<>> THEN "none" ELSE Last(Finishes(W)).finish
  BY DEF Assembled, Selected, Finishes
<1>10. <<c>> # <<>> /\ Last(<<c>>) = c
  BY DEF Last
<1> QED
  BY <1>5, <1>7, <1>8, <1>9, <1>10 DEF W, s, t, L

(* The row of a stream is a row.                                            *)
LEMMA RowIsRow ==
    ASSUME NEW adapter \in Adapters, NEW C \in Seq(Block), NEW stop \in Stops, NEW spent \in Usages
    PROVE  IsRow(FirstRow(adapter) \o Middle(adapter, C) \o LastRow(adapter, stop, spent), adapter, C)
<1> DEFINE s == FirstRow(adapter)
           t == Middle(adapter, C)
           L == LastRow(adapter, stop, spent)
           W == s \o t \o L
<1>1. /\ s \in Seq(Quiet) /\ t \in Seq(Quiet) /\ L \in Seq(Ending)
      /\ Len(s) = 1 /\ Len(L) \in {0, 1, 2}
  BY RowsType, LastRowIs
<1>2. s \in Seq(Sent) /\ t \in Seq(Sent) /\ L \in Seq(Sent)
  <2>1. Quiet \subseteq Sent /\ Ending \subseteq Sent
    BY DEF Sent
  <2> HIDE DEF s, t, L
  <2> QED
    BY <1>1, <2>1, SeqDef
<1>3. \A kind \in {"text", "call", "args"}, x \in Nat : (kind = "text" => x = 0) =>
         Picked(WhatIf(kind, x), W) = AllTell(kind, x, C, Index(adapter, C))
  BY RowTells
<1> HIDE DEF s, t, L
<1>4. W \in Seq(Sent) /\ Len(W) = Len(s) + Len(t) + Len(L) /\ Len(t) \in Nat
  <2> HIDE DEF Sent
  <2> QED
    BY <1>2, ConcatProperties, LenProperties
<1>5. Len(t) < Len(W)
  BY <1>1, <1>4
<1> HIDE DEF W
<1>6. IsRow(W, adapter, C)
  BY <1>3, <1>4, <1>5 DEF IsRow, t
<1> QED
  BY <1>6 DEF W, s, t, L

(* What is made of a stream is what the reply would have been whole.        *)
LEMMA StreamAddsUp ==
    ASSUME NEW adapter \in Adapters, NEW call \in Nat, NEW told \in Reply, told.stop # "failed"
    PROVE  LET whole == FromResponse(adapter, Response(call, told))
               parts == Assembled(ClientRow(adapter, Response(call, told)))
           IN  IF adapter # "codex" THEN parts = whole
               ELSE /\ parts.text = whole.text
                    /\ Len(whole.calls) <= 1 => parts.calls = whole.calls
<1> DEFINE response == Response(call, told)
           C == response.content
           W == ClientRow(adapter, response)
           whole == FromResponse(adapter, response)
           parts == Assembled(W)
           F == FirstRow(adapter) \o Middle(adapter, C) \o LastRow(adapter, response.stop, response.usage)
<1>1. /\ C \in Seq(Block) /\ response.stop \in Stops /\ response.stop # "failed"
      /\ response.usage \in Usages
  BY ResponseType
<1>2. W = F
  BY DEF ClientRow
<1> HIDE DEF response
<1>3. IsRow(W, adapter, C)
  BY <1>1, <1>2, RowIsRow
<1>4. whole.text = AllTell("text", 0, C, Index(adapter, C)) /\ whole.calls = Flat(CallsMade(C), Len(C))
  <2>1. whole.text = FlattenSeq([i \in DOMAIN OfKind(C, "text") |-> OfKind(C, "text")[i].frags])
    BY DEF FromResponse, MessageOf
  <2>2. whole.calls = [i \in DOMAIN OfKind(C, "tool") |->
                         [ids |-> <<OfKind(C, "tool")[i].id>>, args |-> OfKind(C, "tool")[i].frags]]
    BY DEF FromResponse, MessageOf
  <2> HIDE DEF C, whole
  <2> QED
    BY <1>1, <2>1, <2>2, WholeText, WholeCalls
<1> HIDE DEF W
<1>5. parts.text = whole.text /\ parts.calls = Flat(Entries(W), Len(W) + 1)
  <2>1. W \in Seq(Sent)
    BY <1>3 DEF IsRow
  <2>2. parts.text = Picked(WhatIf("text", 0), W) /\ parts.calls = Flat(Entries(W), Len(W) + 1)
    BY <2>1, AssembledIs
  <2>3. Picked(WhatIf("text", 0), W) = AllTell("text", 0, C, Index(adapter, C))
    BY <1>3 DEF IsRow
  <2> QED
    BY <1>4, <2>2, <2>3
<1>6. CASE adapter = "codex"
  <2>1. ASSUME Len(whole.calls) <= 1 PROVE parts.calls = whole.calls
    <3> HIDE DEF C, whole, parts
    <3>1. Len(Flat(CallsMade(C), Len(C))) <= 1
      BY <1>4, <2>1
    <3>2. IsRow(W, "codex", C)
      BY <1>3, <1>6
    <3> QED
      BY <1>1, <1>4, <1>5, <3>1, <3>2, OneCallMeets
  <2> QED
    BY <1>5, <1>6, <2>1 DEF W, response
<1>7. CASE adapter \in {"anthropic", "compat"}
  <2>1. parts.calls = whole.calls
    <3> HIDE DEF C, whole, parts
    <3>1. Numbered(adapter, C, Counted(adapter, C))
      BY <1>1, <1>7, AnthropicNumbers, CompatNumbers
    <3> QED
      BY <1>1, <1>3, <1>4, <1>5, <3>1, CallsMeet
  <2>2. parts.finish = AnthropicFinish(response.stop)
    <3>1. Assembled(F).finish = AnthropicFinish(response.stop)
      BY <1>1, <1>7, RowFinishes
    <3> QED
      BY <1>2, <3>1
  <2>3. whole.finish = AnthropicFinish(response.stop)
    BY <1>7 DEF FromResponse, MessageOf
  <2>4. whole = [text |-> whole.text, calls |-> whole.calls, finish |-> whole.finish]
    BY DEF FromResponse, MessageOf
  <2>5. parts = [text |-> parts.text, calls |-> parts.calls, finish |-> parts.finish]
    BY DEF Assembled
  <2>6. parts = whole
    BY <1>5, <2>1, <2>2, <2>3, <2>4, <2>5
  <2> QED
    BY <1>7, <2>6 DEF W, response
<1> QED
  BY <1>6, <1>7 DEF Adapters

(* However it was retried, renewed or fallen back, and cut into chunks of   *)
(* which none ends inside a character: what a request is answered is the    *)
(* reply of one call, and the chunks of a stream add up to the answer the   *)
(* same reply would have been whole.                                        *)
THEOREM AnswersAreReplies == Spec => []AnswerIsReply
<1>1. IInv => AnswerIsReply
  <2> SUFFICES ASSUME IInv, pc = "success", torn = {} PROVE AnswerIsReply
    BY DEF AnswerIsReply
  <2>1. reply \in Reply /\ calls \in Nat /\ Adapter \in Adapters
    BY RepliesAssumption, Positions DEF IInv, ResultInv, OutcomeInv, TypeOK
  <2>2. ASSUME ~Streamed PROVE answer = FromResponse(Adapter, Response(calls, reply))
    BY <2>2 DEF IInv, ResultInv, OutcomeInv, Whole
  <2>3. ASSUME Streamed, Uncut, reply.stop # "failed"
        PROVE  LET whole == FromResponse(Adapter, Response(calls, reply))
                   parts == Assembled(chunks)
               IN  IF Adapter # "codex" THEN parts = whole
                   ELSE /\ parts.text = whole.text
                        /\ Len(whole.calls) <= 1 => parts.calls = whole.calls
    <3>1. chunks = ClientRow(Adapter, Response(calls, reply))
      BY <2>3, RowIsWhole DEF Row, Whole
    <3> QED
      BY <2>1, <2>3, <3>1, StreamAddsUp
  <2> QED
    BY <2>2, <2>3 DEF AnswerIsReply
<1> QED
  BY <1>1, Invariance, PTL

--------------------------------------------------------------------------------
(* The conversation on its way to the provider.                             *)

(* Where the elements of rows put end to end come from: in order, all.      *)
Places(F, n, t, o, p) ==
    /\ \A i \in 1..Len(t) : /\ o[i] \in 1..n /\ p[i] \in 1..Len(F[o[i]])
                            /\ t[i] = F[o[i]][p[i]]
    /\ \A i, j \in 1..Len(t) : i < j => \/ o[i] < o[j]
                                        \/ o[i] = o[j] /\ p[i] < p[j]
    /\ \A b \in 1..n : \A q \in 1..Len(F[b]) : \E i \in 1..Len(t) : o[i] = b /\ p[i] = q

LEMMA FlatPlaces ==
    ASSUME NEW S, NEW n \in Nat, NEW F, \A b \in 1..n : F[b] \in Seq(S)
    PROVE  \E o, p : Places(F, n, Flat(F, n), o, p)
<1> DEFINE T == {m \in Nat : m <= n => \E o, p : Places(F, m, Flat(F, m), o, p)}
<1>1. 0 \in T
  <2>1. Flat(F, 0) = <<>>
    BY FlatZero
  <2>2. Places(F, 0, <<>>, <<>>, <<>>)
    BY DEF Places
  <2> QED
    BY <2>1, <2>2
<1>2. ASSUME NEW m \in Nat, m \in T
      PROVE  m + 1 \in T
  <2> SUFFICES ASSUME m + 1 <= n
               PROVE  \E o, p : Places(F, m + 1, Flat(F, m + 1), o, p)
    OBVIOUS
  <2>1. PICK o, p : Places(F, m, Flat(F, m), o, p)
    BY <1>2
  <2> DEFINE t == Flat(F, m)
             u == Flat(F, m + 1)
             r == F[m + 1]
             k == Len(t)
             oo == [i \in 1..Len(u) |-> IF i <= k THEN o[i] ELSE m + 1]
             pp == [i \in 1..Len(u) |-> IF i <= k THEN p[i] ELSE i - k]
  <2>2. t \in Seq(S) /\ r \in Seq(S)
    <3>1. m + 1 \in 1..n /\ \A b \in 1..m : F[b] \in Seq(S)
      OBVIOUS
    <3> QED
      BY <3>1, FlatType
  <2>3. u = t \o r
    <3>1. F[1] \in Seq(S)
      <4>1. 1 \in 1..n
        OBVIOUS
      <4> QED
        BY <4>1
    <3> QED
      BY <3>1, FlatNext
  <2> HIDE DEF t, u, r
  <2>4. Len(u) = k + Len(r) /\ k \in Nat /\ Len(r) \in Nat
        /\ \A i \in 1..Len(u) : u[i] = IF i <= k THEN t[i] ELSE r[i - k]
    BY <2>2, <2>3, ConcatProperties, LenProperties
  <2>5. Places(F, m, t, o, p)
    BY <2>1 DEF t
  <2>6. ASSUME NEW i \in 1..Len(u)
        PROVE  /\ oo[i] \in 1..(m + 1) /\ pp[i] \in 1..Len(F[oo[i]])
               /\ u[i] = F[oo[i]][pp[i]]
    <3>1. CASE i <= k
      <4>1. i \in 1..k
        BY <2>4, <3>1
      <4>2. o[i] \in 1..m /\ p[i] \in 1..Len(F[o[i]]) /\ t[i] = F[o[i]][p[i]]
        BY <2>5, <4>1 DEF Places
      <4>3. oo[i] = o[i] /\ pp[i] = p[i] /\ u[i] = t[i]
        BY <2>4, <3>1
      <4> QED
        BY <4>2, <4>3
    <3>2. CASE ~(i <= k)
      <4>1. oo[i] = m + 1 /\ pp[i] = i - k /\ u[i] = r[i - k] /\ i - k \in 1..Len(r)
        BY <2>4, <3>2
      <4> QED
        BY <4>1 DEF r
    <3> QED
      BY <3>1, <3>2
  <2>7. ASSUME NEW i \in 1..Len(u), NEW j \in 1..Len(u), i < j
        PROVE  oo[i] < oo[j] \/ (oo[i] = oo[j] /\ pp[i] < pp[j])
    <3>1. CASE j <= k
      <4>1. i \in 1..k /\ j \in 1..k /\ i <= k
        BY <2>4, <2>7, <3>1
      <4>2. o[i] < o[j] \/ (o[i] = o[j] /\ p[i] < p[j])
        BY <2>5, <2>7, <4>1 DEF Places
      <4>3. oo[i] = o[i] /\ pp[i] = p[i] /\ oo[j] = o[j] /\ pp[j] = p[j]
        BY <3>1, <4>1
      <4> QED
        BY <4>2, <4>3
    <3>2. CASE i <= k /\ ~(j <= k)
      <4>1. i \in 1..k
        BY <2>4, <3>2
      <4>2. o[i] \in 1..m
        BY <2>5, <4>1 DEF Places
      <4>3. oo[i] = o[i] /\ oo[j] = m + 1
        BY <3>2
      <4> QED
        BY <4>2, <4>3
    <3>3. CASE ~(i <= k)
      <4>1. ~(j <= k)
        BY <2>4, <2>7, <3>3
      <4>2. oo[i] = m + 1 /\ oo[j] = m + 1 /\ pp[i] = i - k /\ pp[j] = j - k
        BY <3>3, <4>1
      <4> QED
        BY <2>4, <2>7, <4>2
    <3> QED
      BY <3>1, <3>2, <3>3
  <2>8. ASSUME NEW b \in 1..(m + 1), NEW q \in 1..Len(F[b])
        PROVE  \E i \in 1..Len(u) : oo[i] = b /\ pp[i] = q
    <3>1. CASE b \in 1..m
      <4>1. PICK i \in 1..k : o[i] = b /\ p[i] = q
        BY <2>5, <3>1 DEF Places
      <4>2. i \in 1..Len(u) /\ i <= k
        BY <2>4
      <4>3. oo[i] = o[i] /\ pp[i] = p[i]
        BY <4>2
      <4> QED
        BY <4>1, <4>2, <4>3
    <3>2. CASE b = m + 1
      <4>1. q \in 1..Len(r)
        BY <3>2 DEF r
      <4>2. k + q \in 1..Len(u) /\ ~(k + q <= k) /\ (k + q) - k = q
        BY <2>4, <4>1
      <4>3. oo[k + q] = m + 1 /\ pp[k + q] = q
        BY <4>2
      <4> QED
        BY <3>2, <4>2, <4>3
    <3> QED
      BY <3>1, <3>2
  <2> HIDE DEF oo, pp
  <2>9. Places(F, m + 1, u, oo, pp)
    BY <2>6, <2>7, <2>8 DEF Places
  <2> QED
    BY <2>9 DEF u
<1> HIDE DEF T
<1>3. Nat \subseteq T
  BY <1>1, <1>2, NatSteps
<1>4. n \in T
  BY <1>3
<1> QED
  BY <1>4 DEF T

(* A sequence filtered: what is left, in order, all of it.                  *)
Filters(Q, D) == \A x \in D : Q[x] \in {<<x>>, <<>>}

Filtered(Q, s, t, o) ==
    /\ \A k \in 1..Len(t) : o[k] \in 1..Len(s) /\ t[k] = s[o[k]] /\ Q[s[o[k]]] # <<>>
    /\ \A k, l \in 1..Len(t) : k < l => o[k] < o[l]
    /\ \A i \in 1..Len(s) : Q[s[i]] # <<>> => \E k \in 1..Len(t) : o[k] = i

LEMMA FilterPlaces ==
    ASSUME NEW D, NEW Q, Filters(Q, D), NEW s \in Seq(D)
    PROVE  Picked(Q, s) \in Seq(D) /\ \E o : Filtered(Q, s, Picked(Q, s), o)
<1> DEFINE n == Len(s)
           F == [i \in 1..n |-> Q[s[i]]]
           t == Flat(F, n)
<1>1. n \in Nat /\ \A i \in 1..n : s[i] \in D
  BY LenProperties, ElementOfSeq
<1>2. \A i \in 1..n : /\ F[i] = Q[s[i]]
                      /\ F[i] \in {<<s[i]>>, <<>>}
  BY <1>1 DEF Filters
<1>5. \A i \in 1..n : F[i] \in Seq(D)
  <2> SUFFICES ASSUME NEW i \in 1..n PROVE F[i] \in Seq(D)
    OBVIOUS
  <2> DEFINE x == s[i]
  <2>1. x \in D /\ F[i] \in {<<x>>, <<>>}
    BY <1>1, <1>2
  <2> HIDE DEF x, F
  <2>2. <<x>> \in Seq(D) /\ <<>> \in Seq(D)
    BY <2>1, EmptySeq
  <2> QED
    BY <2>1, <2>2
<1>6. \A i \in 1..n : /\ Len(F[i]) \in {0, 1}
                      /\ F[i] # <<>> => Len(F[i]) = 1
                      /\ Len(F[i]) = 1 => F[i] # <<>> /\ F[i][1] = s[i]
  <2> SUFFICES ASSUME NEW i \in 1..n
               PROVE  /\ Len(F[i]) \in {0, 1}
                      /\ F[i] # <<>> => Len(F[i]) = 1
                      /\ Len(F[i]) = 1 => F[i] # <<>> /\ F[i][1] = s[i]
    OBVIOUS
  <2> DEFINE x == s[i]
             f == F[i]
  <2>1. f \in {<<x>>, <<>>}
    BY <1>2
  <2> HIDE DEF f, x, F
  <2>2. /\ Len(f) \in {0, 1}
        /\ f # <<>> => Len(f) = 1
        /\ Len(f) = 1 => f # <<>> /\ f[1] = x
    <3>1. Len(<<x>>) = 1 /\ <<x>>[1] = x /\ <<x>> # <<>> /\ Len(<<>>) = 0
      OBVIOUS
    <3> QED
      BY <2>1, <3>1
  <2> QED
    BY <2>2 DEF f, x
<1> HIDE DEF F
<1>7. t \in Seq(D)
  BY <1>1, <1>5, FlatType
<1>8. PICK o, p : Places(F, n, t, o, p)
  BY <1>1, <1>5, FlatPlaces
<1> HIDE DEF t
<1>9. Len(t) \in Nat
  BY <1>7, LenProperties
<1>10. \A k \in 1..Len(t) : o[k] \in 1..n /\ p[k] = 1 /\ t[k] = s[o[k]] /\ F[o[k]] # <<>>
  <2> SUFFICES ASSUME NEW k \in 1..Len(t)
               PROVE  o[k] \in 1..n /\ p[k] = 1 /\ t[k] = s[o[k]] /\ F[o[k]] # <<>>
    OBVIOUS
  <2>1. o[k] \in 1..n /\ p[k] \in 1..Len(F[o[k]]) /\ t[k] = F[o[k]][p[k]]
    BY <1>8 DEF Places
  <2>2. Len(F[o[k]]) = 1 /\ p[k] = 1
    BY <1>6, <2>1
  <2> QED
    BY <1>6, <2>1, <2>2
<1>11. \A k, l \in 1..Len(t) : k < l => o[k] < o[l]
  <2> SUFFICES ASSUME NEW k \in 1..Len(t), NEW l \in 1..Len(t), k < l PROVE o[k] < o[l]
    OBVIOUS
  <2>1. o[k] < o[l] \/ (o[k] = o[l] /\ p[k] < p[l])
    BY <1>8 DEF Places
  <2>2. p[k] = 1 /\ p[l] = 1
    BY <1>10
  <2> QED
    BY <2>1, <2>2
<1>12. \A i \in 1..n : F[i] # <<>> => \E k \in 1..Len(t) : o[k] = i
  <2> SUFFICES ASSUME NEW i \in 1..n, F[i] # <<>> PROVE \E k \in 1..Len(t) : o[k] = i
    OBVIOUS
  <2>1. 1 \in 1..Len(F[i])
    BY <1>6
  <2> QED
    BY <1>8, <2>1 DEF Places
<1>13. Picked(Q, s) = t
  BY DEF Picked, t, F
<1>14. Filtered(Q, s, t, o)
  BY <1>2, <1>10, <1>11, <1>12 DEF Filtered
<1> QED
  BY <1>7, <1>13, <1>14

(* What a row says: these things, each once.                                *)
PartType  == [kind : {"text", "image"}, id : Words]
Thing     == {"part", "call", "answers"} \X Words
Says(R, S) ==
    /\ R \in Seq(Thing)
    /\ S = {R[i] : i \in 1..Len(R)}
    /\ \A i, j \in 1..Len(R) : R[i] = R[j] => i = j

LEMMA SaysNothing == Says(<<>>, {})
<1>1. <<>> \in Seq(Thing) /\ Len(<<>>) = 0
  BY EmptySeq
<1> QED
  BY <1>1 DEF Says

LEMMA SaysOne ==
    ASSUME NEW w \in Thing
    PROVE  Says(<<w>>, {w})
<1> HIDE DEF Thing
<1>1. <<w>> \in Seq(Thing) /\ Len(<<w>>) = 1 /\ <<w>>[1] = w
  OBVIOUS
<1>2. 1..1 = {1}
  OBVIOUS
<1> DEFINE R == <<w>>
<1>3. R \in Seq(Thing) /\ Len(R) = 1 /\ R[1] = w
  BY <1>1
<1> HIDE DEF R
<1>4. Says(R, {w})
  BY <1>2, <1>3 DEF Says
<1> QED
  BY <1>4 DEF R

LEMMA SaysBoth ==
    ASSUME NEW Q, NEW R, NEW S, NEW T, Says(Q, S), Says(R, T), S \cap T = {}
    PROVE  Says(Q \o R, S \cup T)
<1> DEFINE k == Len(Q)
           l == Len(R)
           U == Q \o R
<1>1. Q \in Seq(Thing) /\ R \in Seq(Thing)
  BY DEF Says
<1>2. k \in Nat /\ l \in Nat
  BY <1>1, LenProperties
<1>3. U \in Seq(Thing) /\ Len(U) = k + l
      /\ \A i \in 1..Len(U) : U[i] = IF i <= k THEN Q[i] ELSE R[i - k]
  <2> HIDE DEF Thing
  <2> QED
    BY <1>1, ConcatProperties
<1> HIDE DEF U
<1>4. \A i \in 1..k : Q[i] \in S
  BY DEF Says
<1>5. \A i \in 1..l : R[i] \in T
  BY DEF Says
<1>6. \A i \in 1..(k + l) : \/ i \in 1..k /\ U[i] = Q[i]
                            \/ i - k \in 1..l /\ i > k /\ U[i] = R[i - k]
  BY <1>2, <1>3
<1>7. \A i \in 1..k : i \in 1..(k + l) /\ U[i] = Q[i]
  BY <1>2, <1>3
<1>8. \A i \in 1..l : k + i \in 1..(k + l) /\ U[k + i] = R[i]
  <2> SUFFICES ASSUME NEW i \in 1..l PROVE k + i \in 1..(k + l) /\ U[k + i] = R[i]
    OBVIOUS
  <2>1. k + i \in 1..(k + l) /\ ~(k + i <= k) /\ (k + i) - k = i
    BY <1>2
  <2> QED
    BY <1>3, <2>1
<1>9. {U[i] : i \in 1..(k + l)} = S \cup T
  <2>1. ASSUME NEW i \in 1..(k + l) PROVE U[i] \in S \cup T
    BY <1>4, <1>5, <1>6
  <2>2. ASSUME NEW x \in S PROVE x \in {U[i] : i \in 1..(k + l)}
    <3>1. PICK i \in 1..k : Q[i] = x
      BY DEF Says
    <3> QED
      BY <1>7, <3>1
  <2>3. ASSUME NEW x \in T PROVE x \in {U[i] : i \in 1..(k + l)}
    <3>1. PICK i \in 1..l : R[i] = x
      BY DEF Says
    <3> QED
      BY <1>8, <3>1
  <2> QED
    BY <2>1, <2>2, <2>3
<1>10. ASSUME NEW i \in 1..(k + l), NEW j \in 1..(k + l), U[i] = U[j]
       PROVE  i = j
  <2>1. CASE i \in 1..k /\ j \in 1..k
    BY <1>7, <1>10, <2>1 DEF Says
  <2>2. CASE i - k \in 1..l /\ j - k \in 1..l /\ i > k /\ j > k
    <3>1. R[i - k] = R[j - k]
      BY <1>2, <1>6, <1>10, <2>2
    <3>2. i - k = j - k
      BY <2>2, <3>1 DEF Says
    <3> QED
      BY <1>2, <3>2
  <2>3. CASE i \in 1..k /\ j - k \in 1..l /\ j > k
    BY <1>2, <1>4, <1>5, <1>6, <1>7, <1>10, <2>3
  <2>4. CASE j \in 1..k /\ i - k \in 1..l /\ i > k
    BY <1>2, <1>4, <1>5, <1>6, <1>7, <1>10, <2>4
  <2> QED
    BY <1>6, <2>1, <2>2, <2>3, <2>4
<1> QED
  BY <1>3, <1>9, <1>10 DEF Says, U

(* A list of names, each there once.                                        *)
Once(ids) == /\ ids \in Seq(Words)
             /\ \A i, j \in 1..Len(ids) : ids[i] = ids[j] => i = j

LEMMA SaysAs ==
    ASSUME NEW kind \in {"part", "call", "answers"}, NEW ids, Once(ids)
    PROVE  Says(As(kind, ids), {<<kind, ids[i]>> : i \in 1..Len(ids)})
<1> DEFINE R == As(kind, ids)
           n == Len(ids)
<1>1. n \in Nat /\ DOMAIN ids = 1..n /\ \A i \in 1..n : ids[i] \in Words
  BY LenProperties, ElementOfSeq DEF Once
<1>2. R = [i \in 1..n |-> <<kind, ids[i]>>]
  BY <1>1 DEF As
<1>3. \A i \in 1..n : <<kind, ids[i]>> \in Thing
  BY <1>1 DEF Thing
<1>4. R \in [1..n -> Thing]
  <2> HIDE DEF Thing, R
  <2> QED
    BY <1>2, <1>3
<1>5. R \in Seq(Thing) /\ Len(R) = n
  <2> HIDE DEF Thing, R
  <2>1. R \in Seq(Thing)
    BY <1>1, <1>4, SeqDef
  <2>2. DOMAIN R = 1..n /\ DOMAIN R = 1..Len(R) /\ Len(R) \in Nat
    BY <1>2, <2>1, LenProperties
  <2> QED
    BY <1>1, <2>1, <2>2
<1>6. \A i \in 1..n : R[i] = <<kind, ids[i]>>
  BY <1>2
<1> HIDE DEF R
<1>7. {R[i] : i \in 1..n} = {<<kind, ids[i]>> : i \in 1..n}
  BY <1>6
<1>8. \A i, j \in 1..n : R[i] = R[j] => i = j
  <2>1. \A i, j \in 1..n : R[i] = R[j] => ids[i] = ids[j]
    BY <1>6
  <2> QED
    BY <2>1 DEF Once
<1> QED
  BY <1>5, <1>7, <1>8 DEF Says, R

(* A message by itself.                                                     *)
Sane(message) ==
    /\ message \in ChatMessage
    /\ message.role # "assistant" => message.calls = <<>>
    /\ message.role = "tool" => \A p \in DOMAIN message.parts : IsText(message.parts[p])
    /\ \A p, q \in DOMAIN message.parts : message.parts[p].id = message.parts[q].id => p = q
    /\ \A p, q \in DOMAIN message.calls : message.calls[p] = message.calls[q] => p = q

LEMMA MessageParts ==
    ASSUME NEW message, Sane(message)
    PROVE  /\ message.parts \in Seq(PartType) /\ DOMAIN message.parts = 1..Len(message.parts)
           /\ Len(message.parts) \in Nat
           /\ \A p \in 1..Len(message.parts) : message.parts[p] \in PartType
           /\ Once(message.calls) /\ DOMAIN message.calls = 1..Len(message.calls)
           /\ Len(message.calls) \in Nat
           /\ message.answers \in Words
<1>1. message.parts \in Seq(PartType) /\ message.calls \in Seq(Words) /\ message.answers \in Words
  BY DEF Sane, ChatMessage, PartType
<1> HIDE DEF PartType
<1>2. DOMAIN message.parts = 1..Len(message.parts) /\ Len(message.parts) \in Nat
      /\ DOMAIN message.calls = 1..Len(message.calls) /\ Len(message.calls) \in Nat
  BY <1>1, LenProperties
<1>3. \A p \in 1..Len(message.parts) : message.parts[p] \in PartType
  BY <1>1, ElementOfSeq
<1> QED
  BY <1>1, <1>2, <1>3 DEF Sane, Once

(* Its text: the text parts, each once.                                     *)
LEMMA TextIsOnce ==
    ASSUME NEW message, Sane(message)
    PROVE  /\ Once(TextOf(message))
           /\ {TextOf(message)[i] : i \in 1..Len(TextOf(message))}
                 = {message.parts[p].id : p \in {q \in 1..Len(message.parts) : IsText(message.parts[q])}}
<1> DEFINE s == message.parts
           Q == [x \in PartType |-> IF IsText(x) THEN <<x>> ELSE <<>>]
           t == Picked(Q, s)
           u == TextOf(message)
<1>1. s \in Seq(PartType) /\ DOMAIN s = 1..Len(s) /\ Len(s) \in Nat
      /\ \A p \in 1..Len(s) : s[p] \in PartType
  BY MessageParts
<1>2. Filters(Q, PartType)
  BY DEF Filters
<1>3. Selected(s, IsText) = t
  <2>1. [i \in DOMAIN s |-> IF IsText(s[i]) THEN <<s[i]>> ELSE <<>>]
           = [i \in 1..Len(s) |-> Q[s[i]]]
    BY <1>1
  <2> DEFINE F == [i \in 1..Len(s) |-> Q[s[i]]]
  <2>2. F = [i \in 1..Len(s) |-> F[i]]
    OBVIOUS
  <2>3. Selected(s, IsText) = FlattenSeq(F)
    BY <2>1 DEF Selected
  <2>4. t = Flat(F, Len(s))
    BY DEF Picked
  <2> HIDE DEF F, t
  <2>5. Flat(F, Len(s)) = FlattenSeq(F)
    BY <2>2 DEF Flat
  <2> QED
    BY <2>3, <2>4, <2>5
<1>4. \A x \in PartType : Q[x] # <<>> <=> IsText(x)
  <2>1. \A x \in PartType : Q[x] = IF IsText(x) THEN <<x>> ELSE <<>>
    OBVIOUS
  <2>2. \A x : <<x>> # <<>>
    OBVIOUS
  <2> HIDE DEF Q, PartType
  <2> QED
    BY <2>1, <2>2
<1> HIDE DEF Q, PartType
<1>5. t \in Seq(PartType) /\ \E o : Filtered(Q, s, t, o)
  <2> HIDE DEF s
  <2> QED
    BY <1>1, <1>2, FilterPlaces
<1>6. PICK o : Filtered(Q, s, t, o)
  BY <1>5
<1>7. DOMAIN t = 1..Len(t) /\ Len(t) \in Nat /\ \A k \in 1..Len(t) : t[k] \in PartType
  BY <1>5, LenProperties, ElementOfSeq
<1>8. u = [i \in 1..Len(t) |-> t[i].id]
  BY <1>3, <1>7 DEF TextOf
<1>9. \A k \in 1..Len(t) : t[k].id \in Words
  BY <1>7 DEF PartType
<1> HIDE DEF u, t, s
<1>10. u \in Seq(Words) /\ Len(u) = Len(t) /\ \A k \in 1..Len(t) : u[k] = t[k].id
  <2>1. u \in [1..Len(t) -> Words]
    BY <1>8, <1>9
  <2>2. u \in Seq(Words)
    BY <1>7, <2>1, SeqDef
  <2>3. DOMAIN u = 1..Len(u) /\ Len(u) \in Nat /\ DOMAIN u = 1..Len(t)
    BY <1>8, <2>2, LenProperties
  <2> QED
    BY <1>7, <1>8, <2>2, <2>3
<1>11. \A k \in 1..Len(t) : o[k] \in 1..Len(s) /\ u[k] = s[o[k]].id /\ IsText(s[o[k]])
  BY <1>1, <1>4, <1>6, <1>10 DEF Filtered
<1>12. ASSUME NEW k \in 1..Len(u), NEW l \in 1..Len(u), u[k] = u[l]
       PROVE  k = l
  <2>1. k \in 1..Len(t) /\ l \in 1..Len(t)
    BY <1>10
  <2>2. o[k] = o[l]
    <3>1. \A p, q \in 1..Len(s) : s[p].id = s[q].id => p = q
      BY <1>1 DEF Sane, s
    <3>2. o[k] \in 1..Len(s) /\ o[l] \in 1..Len(s) /\ s[o[k]].id = s[o[l]].id
      BY <1>11, <1>12, <2>1
    <3> QED
      BY <3>1, <3>2
  <2>3. o[k] \in Nat
    BY <1>11, <2>1
  <2>4. k < l => o[k] < o[l]
    BY <1>6, <2>1 DEF Filtered
  <2>5. l < k => o[l] < o[k]
    BY <1>6, <2>1 DEF Filtered
  <2> QED
    BY <1>7, <2>1, <2>2, <2>3, <2>4, <2>5
<1>13. \A p \in 1..Len(s) : IsText(s[p]) => \E k \in 1..Len(u) : u[k] = s[p].id
  <2> SUFFICES ASSUME NEW p \in 1..Len(s), IsText(s[p])
               PROVE  \E k \in 1..Len(u) : u[k] = s[p].id
    OBVIOUS
  <2>1. Q[s[p]] # <<>>
    BY <1>1, <1>4
  <2>2. PICK k \in 1..Len(t) : o[k] = p
    BY <1>6, <2>1 DEF Filtered
  <2> QED
    BY <1>10, <1>11, <2>2
<1>14. {u[k] : k \in 1..Len(u)} = {s[p].id : p \in {q \in 1..Len(s) : IsText(s[q])}}
  BY <1>10, <1>11, <1>13
<1> QED
  BY <1>10, <1>12, <1>14 DEF Once, u, s

(* A row of things, all said by one speaker.                                *)
Tag(row, role) == [i \in DOMAIN row |-> <<row[i], role>>]

Tagged(t, row, role, S) ==
    /\ t \in Seq(Thing \X {role})
    /\ Len(row) \in Nat /\ DOMAIN row = 1..Len(row)
    /\ Len(t) = Len(row) /\ DOMAIN t = 1..Len(row)
    /\ \A i \in 1..Len(row) : row[i] \in S /\ t[i] = <<row[i], role>>

LEMMA TagIs ==
    ASSUME NEW S, NEW row, Says(row, S), NEW role
    PROVE  Tagged(Tag(row, role), row, role, S)
<1>1. row \in Seq(Thing)
  BY DEF Says
<1> HIDE DEF Thing
<1> DEFINE n == Len(row)
           t == Tag(row, role)
<1>2. n \in Nat /\ DOMAIN row = 1..n /\ \A i \in 1..n : row[i] \in Thing
  BY <1>1, LenProperties, ElementOfSeq
<1>3. t = [i \in 1..n |-> <<row[i], role>>]
  BY <1>2 DEF Tag
<1>4. \A i \in 1..n : t[i] = <<row[i], role>> /\ t[i] \in Thing \X {role}
  BY <1>2, <1>3
<1>5. DOMAIN t = 1..n /\ t = [i \in 1..n |-> t[i]]
  BY <1>3
<1> HIDE DEF t
<1>6. t \in Seq(Thing \X {role})
  <2> DEFINE W == Thing \X {role}
  <2>1. \A i \in 1..n : t[i] \in W
    BY <1>4
  <2> HIDE DEF W
  <2>2. t \in [1..n -> W]
    BY <1>5, <2>1
  <2>3. t \in Seq(W)
    BY <1>2, <2>2, SeqDef
  <2> QED
    BY <2>3 DEF W
<1>7. Len(t) = n
  <2>1. DOMAIN t = 1..Len(t) /\ Len(t) \in Nat
    BY <1>6, LenProperties
  <2> QED
    BY <1>2, <1>5, <2>1
<1> QED
  BY <1>2, <1>4, <1>5, <1>6, <1>7 DEF Says, Tagged, t

LEMMA TagConcat ==
    ASSUME NEW Q, NEW R, NEW S, NEW T, Says(Q, S), Says(R, T), S \cap T = {}, NEW role
    PROVE  Tag(Q \o R, role) = Tag(Q, role) \o Tag(R, role)
<1> DEFINE U == Q \o R
           k == Len(Q)
           l == Len(R)
           a == Tag(Q, role)
           b == Tag(R, role)
           c == Tag(U, role)
           W == Thing \X {role}
<1>1. Says(U, S \cup T)
  BY SaysBoth
<1>2. Q \in Seq(Thing) /\ R \in Seq(Thing)
  BY DEF Says
<1>3. k \in Nat /\ a \in Seq(W) /\ Len(a) = k /\ \A i \in 1..k : a[i] = <<Q[i], role>>
  <2>1. Tagged(Tag(Q, role), Q, role, S)
    BY TagIs
  <2> QED
    BY <2>1 DEF Tagged
<1>4. l \in Nat /\ b \in Seq(W) /\ Len(b) = l /\ \A i \in 1..l : b[i] = <<R[i], role>>
  <2>1. Tagged(Tag(R, role), R, role, T)
    BY TagIs
  <2> QED
    BY <2>1 DEF Tagged
<1>5. c \in Seq(W) /\ Len(c) = Len(U) /\ \A i \in 1..Len(U) : c[i] = <<U[i], role>>
  <2> HIDE DEF U
  <2>1. Tagged(Tag(U, role), U, role, S \cup T)
    BY <1>1, TagIs
  <2> QED
    BY <2>1 DEF Tagged
<1> HIDE DEF Thing, W, a, b, c
<1>6. Len(U) = k + l /\ \A i \in 1..Len(U) : U[i] = IF i <= k THEN Q[i] ELSE R[i - k]
  BY <1>2, ConcatProperties
<1>7. /\ a \o b \in Seq(W) /\ Len(a \o b) = k + l
      /\ \A i \in 1..Len(a \o b) : (a \o b)[i] = IF i <= k THEN a[i] ELSE b[i - k]
  <2>1. a \in Seq(W) /\ b \in Seq(W) /\ Len(a) = k /\ Len(b) = l
    BY <1>3, <1>4
  <2> HIDE DEF k, l
  <2> QED
    BY <2>1, ConcatProperties
<1> HIDE DEF U
<1> DEFINE d == a \o b
<1> HIDE DEF d
<1>8. \A i \in 1..(k + l) : c[i] = d[i]
  <2> SUFFICES ASSUME NEW i \in 1..(k + l) PROVE c[i] = d[i]
    OBVIOUS
  <2>1. CASE i <= k
    <3>1. i \in 1..k
      BY <1>3, <1>4, <2>1
    <3> QED
      BY <1>3, <1>5, <1>6, <1>7, <2>1, <3>1 DEF d
  <2>2. CASE ~(i <= k)
    <3>1. i - k \in 1..l
      BY <1>3, <1>4, <2>2
    <3> QED
      BY <1>4, <1>5, <1>6, <1>7, <2>2, <3>1 DEF d
  <2> QED
    BY <2>1, <2>2
<1>9. c = d
  <2>1. d \in Seq(W) /\ Len(d) = k + l
    BY <1>7 DEF d
  <2> QED
    BY <1>5, <1>6, <1>8, <2>1, SeqEqual
<1> QED
  BY <1>9 DEF a, b, c, d, U

(* Rows put end to end: everything is heard once, in order, from its own    *)
(* speaker.                                                                 *)
Apart(S, n)       == \A a, b \in 1..n : S[a] \cap S[b] # {} => a = b
Spoken(F, row, role, S, n) ==
    \A b \in 1..n : Says(row[b], S[b]) /\ F[b] = Tag(row[b], role[b])
Heeded(heard, role, S, n, o) ==
    /\ \A i \in 1..Len(heard) : /\ o[i] \in 1..n /\ heard[i][1] \in S[o[i]]
                                /\ heard[i][2] = role[o[i]]
    /\ \A i, j \in 1..Len(heard) : i < j => heard[i][1] # heard[j][1] /\ o[i] <= o[j]
    /\ \A b \in 1..n : \A x \in S[b] : \E i \in 1..Len(heard) : heard[i][1] = x

LEMMA HeardWhole ==
    ASSUME NEW n \in Nat, NEW F, NEW row, NEW role, NEW S, Spoken(F, row, role, S, n),
           Apart(S, n)
    PROVE  /\ DOMAIN Flat(F, n) = 1..Len(Flat(F, n)) /\ Len(Flat(F, n)) \in Nat
           /\ \E o : Heeded(Flat(F, n), role, S, n, o)
<1> DEFINE V == Thing \X {role[b] : b \in 1..n}
           h == Flat(F, n)
<1>1. ASSUME NEW b \in 1..n
      PROVE  /\ F[b] \in Seq(V)
             /\ Len(F[b]) = Len(row[b])
             /\ \A q \in 1..Len(F[b]) : row[b][q] \in S[b] /\ F[b][q] = <<row[b][q], role[b]>>
             /\ \A q, r \in 1..Len(F[b]) : row[b][q] = row[b][r] => q = r
             /\ \A x \in S[b] : \E q \in 1..Len(F[b]) : row[b][q] = x
  <2> DEFINE rb == row[b]
             sb == S[b]
             fb == F[b]
             ob == role[b]
             W  == Thing \X {ob}
  <2>1. Says(rb, sb) /\ fb = Tag(rb, ob)
    BY DEF Spoken
  <2>2. W \subseteq V
    OBVIOUS
  <2> HIDE DEF rb, sb, fb, V
  <2>3. /\ fb \in Seq(W) /\ Len(fb) = Len(rb)
        /\ \A q \in 1..Len(rb) : rb[q] \in sb /\ fb[q] = <<rb[q], ob>>
    <3>1. Tagged(Tag(rb, ob), rb, ob, sb)
      BY <2>1, TagIs
    <3> QED
      BY <2>1, <3>1 DEF Tagged
  <2> HIDE DEF W
  <2>4. fb \in Seq(V)
    BY <2>2, <2>3
  <2>5. /\ \A q, r \in 1..Len(rb) : rb[q] = rb[r] => q = r
        /\ \A x \in sb : \E q \in 1..Len(rb) : rb[q] = x
    BY <2>1 DEF Says
  <2> QED
    BY <2>3, <2>4, <2>5 DEF fb, rb, sb
<1>2. PICK o, p : Places(F, n, h, o, p)
  <2> HIDE DEF V
  <2> QED
    BY <1>1, FlatPlaces
<1>3. h \in Seq(V)
  <2> HIDE DEF V
  <2> QED
    BY <1>1, FlatType
<1>4. DOMAIN h = 1..Len(h) /\ Len(h) \in Nat
  <2> HIDE DEF V, h
  <2> QED
    BY <1>3, LenProperties
<1> HIDE DEF h, V
<1>5. ASSUME NEW i \in 1..Len(h)
      PROVE  /\ o[i] \in 1..n /\ p[i] \in 1..Len(F[o[i]])
             /\ h[i][1] = row[o[i]][p[i]] /\ h[i][1] \in S[o[i]] /\ h[i][2] = role[o[i]]
  <2>1. o[i] \in 1..n /\ p[i] \in 1..Len(F[o[i]]) /\ h[i] = F[o[i]][p[i]]
    BY <1>2 DEF Places
  <2>2. row[o[i]][p[i]] \in S[o[i]] /\ F[o[i]][p[i]] = <<row[o[i]][p[i]], role[o[i]]>>
    BY <1>1, <2>1
  <2> QED
    BY <2>1, <2>2
<1>6. ASSUME NEW i \in 1..Len(h), NEW j \in 1..Len(h), i < j
      PROVE  h[i][1] # h[j][1] /\ o[i] <= o[j]
  <2>1. o[i] < o[j] \/ (o[i] = o[j] /\ p[i] < p[j])
    BY <1>2, <1>6 DEF Places
  <2>2. o[i] \in Nat /\ o[j] \in Nat /\ p[i] \in Int /\ p[j] \in Int
    BY <1>5
  <2>3. h[i][1] # h[j][1]
    <3> SUFFICES ASSUME h[i][1] = h[j][1] PROVE FALSE
      OBVIOUS
    <3>1. o[i] = o[j]
      BY <1>5 DEF Apart
    <3>2. p[i] < p[j] /\ row[o[i]][p[i]] = row[o[i]][p[j]]
      BY <1>5, <2>1, <2>2, <3>1
    <3>3. p[i] = p[j]
      <4>1. \A q, r \in 1..Len(F[o[i]]) : row[o[i]][q] = row[o[i]][r] => q = r
        BY <1>1, <1>5
      <4>2. p[i] \in 1..Len(F[o[i]]) /\ p[j] \in 1..Len(F[o[i]])
        BY <1>5, <3>1
      <4> QED
        BY <3>2, <4>1, <4>2
    <3> QED
      BY <2>2, <3>2, <3>3
  <2> QED
    BY <2>1, <2>2, <2>3
<1>7. ASSUME NEW b \in 1..n, NEW x \in S[b]
      PROVE  \E i \in 1..Len(h) : h[i][1] = x
  <2>1. PICK q \in 1..Len(F[b]) : row[b][q] = x
    BY <1>1
  <2>2. PICK i \in 1..Len(h) : o[i] = b /\ p[i] = q
    BY <1>2 DEF Places
  <2> QED
    BY <1>5, <2>1, <2>2
<1>8. Heeded(h, role, S, n, o)
  BY <1>5, <1>6, <1>7 DEF Heeded
<1> QED
  BY <1>4, <1>8 DEF h

(* What a message says, and the rows that say it.                           *)
PartIds(message)  == [i \in DOMAIN message.parts |-> message.parts[i].id]
Things(kind, ids) == {<<kind, ids[i]>> : i \in 1..Len(ids)}
Answers(message)  == IF message.role = "tool" THEN <<<<"answers", message.answers>>>> ELSE <<>>
Resolved(message) == IF message.role = "tool" THEN {<<"answers", message.answers>>} ELSE {}
Kinds == {"part", "call", "answers"}

LEMMA PartIdsOnce ==
    ASSUME NEW message, Sane(message)
    PROVE  Once(PartIds(message)) /\ Len(PartIds(message)) = Len(message.parts)
<1> DEFINE s == message.parts
           n == Len(s)
           u == PartIds(message)
<1>1. n \in Nat /\ DOMAIN s = 1..n /\ \A p \in 1..n : s[p] \in PartType
  BY MessageParts
<1>2. \A p \in 1..n : s[p].id \in Words
  BY <1>1 DEF PartType
<1>3. u = [i \in 1..n |-> s[i].id]
  BY <1>1 DEF PartIds
<1>4. \A p, q \in 1..n : s[p].id = s[q].id => p = q
  BY <1>1 DEF Sane
<1> HIDE DEF s, n, u
<1>5. u \in [1..n -> Words] /\ DOMAIN u = 1..n /\ \A p \in 1..n : u[p] = s[p].id
  BY <1>2, <1>3
<1>6. u \in Seq(Words)
  BY <1>1, <1>5, SeqDef
<1>7. Len(u) = n
  <2>1. DOMAIN u = 1..Len(u) /\ Len(u) \in Nat
    BY <1>6, LenProperties
  <2> QED
    BY <1>1, <1>5, <2>1
<1>8. Once(u)
  BY <1>4, <1>5, <1>6, <1>7 DEF Once
<1> QED
  BY <1>7, <1>8 DEF u, n, s

LEMMA SaidIs ==
    ASSUME NEW message, Sane(message)
    PROVE  /\ Adapter # "codex" =>
                  Said(message) = Things("part", PartIds(message)) \cup Things("call", message.calls)
                                  \cup Resolved(message)
           /\ Adapter = "codex" \/ message.role = "tool" =>
                  Said(message) = Things("part", TextOf(message)) \cup Things("call", message.calls)
                                  \cup Resolved(message)
<1> DEFINE s == message.parts
           n == Len(s)
           c == message.calls
           u == PartIds(message)
           t == TextOf(message)
           P == {<<"part", s[i].id>> : i \in {j \in 1..n : s[j].kind = "text" \/ Adapter # "codex"}}
<1>1. n \in Nat /\ DOMAIN s = 1..n /\ DOMAIN c = 1..Len(c)
  BY MessageParts
<1>2. ToSet(As("call", c)) = Things("call", c)
  BY <1>1 DEF ToSet, As, Things
<1>3. Said(message) = P \cup Things("call", c) \cup Resolved(message)
  BY <1>1, <1>2 DEF Said, Resolved
<1>4. ASSUME Adapter # "codex" PROVE P = Things("part", u)
  <2>1. u = [i \in 1..n |-> s[i].id] /\ Len(u) = n
    BY <1>1, PartIdsOnce DEF PartIds
  <2>2. P = {<<"part", s[i].id>> : i \in 1..n}
    BY <1>4
  <2> HIDE DEF u, P, s, n
  <2> QED
    BY <2>1, <2>2 DEF Things
<1>5. ASSUME Adapter = "codex" \/ message.role = "tool" PROVE P = Things("part", t)
  <2>1. {t[i] : i \in 1..Len(t)} = {s[p].id : p \in {q \in 1..n : IsText(s[q])}}
    BY TextIsOnce
  <2>2. message.role = "tool" => \A p \in 1..n : IsText(s[p])
    BY <1>1 DEF Sane
  <2>3. P = {<<"part", s[i].id>> : i \in {j \in 1..n : IsText(s[j])}}
    BY <1>5, <2>2 DEF IsText
  <2> HIDE DEF t, P, s, n
  <2>4. ASSUME NEW x \in P PROVE x \in Things("part", t)
    <3>1. PICK p \in 1..n : IsText(s[p]) /\ x = <<"part", s[p].id>>
      BY <2>3
    <3>2. PICK i \in 1..Len(t) : t[i] = s[p].id
      BY <2>1, <3>1
    <3> QED
      BY <3>1, <3>2 DEF Things
  <2>5. ASSUME NEW x \in Things("part", t) PROVE x \in P
    <3>1. PICK i \in 1..Len(t) : x = <<"part", t[i]>>
      BY DEF Things
    <3>2. PICK p \in 1..n : IsText(s[p]) /\ t[i] = s[p].id
      BY <2>1
    <3> QED
      BY <2>3, <3>1, <3>2
  <2> QED
    BY <2>4, <2>5
<1> HIDE DEF P, u, t
<1> QED
  BY <1>3, <1>4, <1>5 DEF u, t

LEMMA ThingsApart ==
    ASSUME NEW kind, NEW other, kind # other, NEW ids, NEW more
    PROVE  Things(kind, ids) \cap Things(other, more) = {}
BY DEF Things

LEMMA SaysThings ==
    ASSUME NEW kind \in Kinds, NEW ids, Once(ids)
    PROVE  Says(As(kind, ids), Things(kind, ids))
BY SaysAs DEF Things, Kinds

LEMMA SaysAnswers ==
    ASSUME NEW message, Sane(message)
    PROVE  Says(Answers(message), Resolved(message))
<1>1. CASE message.role = "tool"
  <2> DEFINE w == <<"answers", message.answers>>
  <2>1. w \in Thing
    BY MessageParts DEF Thing
  <2> HIDE DEF w
  <2>2. Says(<<w>>, {w})
    BY <2>1, SaysOne
  <2> QED
    BY <1>1, <2>2 DEF Answers, Resolved, w
<1>2. CASE message.role # "tool"
  BY <1>2, SaysNothing DEF Answers, Resolved
<1> QED
  BY <1>1, <1>2

(* Parts, then calls, then what is answered.                                *)
LEMMA SaysInOrder ==
    ASSUME NEW message, Sane(message), NEW ids, Once(ids)
    PROVE  Says(As("part", ids) \o As("call", message.calls) \o Answers(message),
                Things("part", ids) \cup Things("call", message.calls) \cup Resolved(message))
<1> DEFINE a == As("part", ids)
           b == As("call", message.calls)
           c == Answers(message)
           A == Things("part", ids)
           B == Things("call", message.calls)
           C == Resolved(message)
<1>1. Says(a, A) /\ Says(b, B) /\ Says(c, C)
  BY MessageParts, SaysThings, SaysAnswers DEF Kinds
<1>2. A \cap B = {}
  BY ThingsApart
<1>3. (A \cup B) \cap C = {}
  BY DEF Things, Resolved
<1> HIDE DEF a, b, c, A, B, C
<1>4. Says(a \o b, A \cup B)
  BY <1>1, <1>2, SaysBoth
<1>5. Says((a \o b) \o c, (A \cup B) \cup C)
  <2> DEFINE d == a \o b
             D == A \cup B
  <2>1. Says(d, D) /\ D \cap C = {}
    BY <1>3, <1>4
  <2> HIDE DEF d, D
  <2>2. Says(d \o c, D \cup C)
    BY <1>1, <2>1, SaysBoth
  <2> QED
    BY <2>2 DEF d, D
<1> QED
  BY <1>5 DEF a, b, c, A, B, C

(* An assistant's calls, then its text.                                     *)
LEMMA SaysCallsFirst ==
    ASSUME NEW message, Sane(message), NEW ids, Once(ids)
    PROVE  Says(As("call", message.calls) \o As("part", ids),
                Things("part", ids) \cup Things("call", message.calls))
<1> DEFINE a == As("part", ids)
           b == As("call", message.calls)
           A == Things("part", ids)
           B == Things("call", message.calls)
<1>1. Says(a, A) /\ Says(b, B)
  BY MessageParts, SaysThings DEF Kinds
<1>2. B \cap A = {}
  BY ThingsApart
<1> HIDE DEF a, b, A, B
<1>3. Says(b \o a, B \cup A)
  BY <1>1, <1>2, SaysBoth
<1>4. B \cup A = A \cup B
  OBVIOUS
<1> QED
  BY <1>3, <1>4 DEF a, b, A, B

(* A tool's result: what it answers, then its text.                         *)
LEMMA SaysOutput ==
    ASSUME NEW message, Sane(message), message.role = "tool"
    PROVE  Says(Output(<<message.answers, TextOf(message)>>), Said(message))
<1> DEFINE a == As("part", TextOf(message))
           c == Answers(message)
           A == Things("part", TextOf(message))
           C == Resolved(message)
<1>1. Says(a, A) /\ Says(c, C)
  BY TextIsOnce, SaysThings, SaysAnswers DEF Kinds
<1>2. C \cap A = {}
  BY DEF Things, Resolved
<1>3. Things("call", message.calls) = {}
  <2>1. message.calls = <<>> /\ Len(<<>>) = 0
    BY DEF Sane
  <2> QED
    BY <2>1 DEF Things
<1>4. Said(message) = A \cup {} \cup C
  BY <1>3, SaidIs
<1>5. Output(<<message.answers, TextOf(message)>>) = c \o a
  BY DEF Output, Answers
<1> HIDE DEF a, c, A, C
<1>6. Says(c \o a, C \cup A)
  BY <1>1, <1>2, SaysBoth
<1>7. C \cup A = A \cup {} \cup C
  OBVIOUS
<1> QED
  BY <1>4, <1>5, <1>6, <1>7

(* An OpenAI-compatible provider is sent the messages as they are.          *)
LEMMA CompatHears ==
    ASSUME NEW message, Sane(message), Adapter = "compat"
    PROVE  Says(Heard(message), Said(message))
<1> DEFINE ids == PartIds(message)
           s   == message.parts
<1>1. [i \in DOMAIN s |-> <<"part", s[i].id>>] = As("part", ids)
  BY DEF PartIds, As
<1>2. Heard(message) = As("part", ids) \o As("call", message.calls) \o Answers(message)
  BY <1>1 DEF Heard, Answers
<1>3. Said(message) = Things("part", ids) \cup Things("call", message.calls) \cup Resolved(message)
  BY SaidIs
<1>4. Once(ids)
  BY PartIdsOnce
<1> HIDE DEF ids
<1> QED
  BY <1>2, <1>3, <1>4, SaysInOrder

(* Anthropic is sent blocks: one for each part, then one for each call.     *)
BlockSays(block) ==
    CASE block.kind = "tool_result" -> Output(block.id)
      [] block.kind = "tool_use"    -> <<<<"call", block.id>>>>
      [] OTHER                      -> <<<<"part", block.id>>>>
PlainBlock == [kind : {"text", "image", "tool_use"}, id : Words]

LEMMA BlocksAre ==
    ASSUME NEW message, Sane(message), message.role # "tool"
    PROVE  LET s == message.parts
               c == message.calls
               B == AnthropicTurn(message).blocks
           IN  /\ B \in Seq(PlainBlock) /\ Len(B) = Len(s) + Len(c)
               /\ \A i \in 1..(Len(s) + Len(c)) :
                      B[i] = IF i <= Len(s) THEN [kind |-> s[i].kind, id |-> s[i].id]
                             ELSE [kind |-> "tool_use", id |-> c[i - Len(s)]]
<1> DEFINE s == message.parts
           c == message.calls
           n == Len(s)
           k == Len(c)
           a == ContentBlocks(message)
           b == ToolUses(message)
           B == AnthropicTurn(message).blocks
<1>1. /\ n \in Nat /\ DOMAIN s = 1..n /\ \A i \in 1..n : s[i] \in PartType
      /\ c \in Seq(Words) /\ k \in Nat /\ DOMAIN c = 1..k
  BY MessageParts DEF Once
<1>2. \A i \in 1..k : c[i] \in Words
  BY <1>1, ElementOfSeq
<1>3. B = a \o b
  <2>1. CASE message.role = "assistant"
    BY <2>1 DEF AnthropicTurn
  <2>2. CASE message.role # "assistant"
    <3>1. c = <<>>
      BY <2>2 DEF Sane
    <3>2. b = <<>>
      BY <3>1 DEF ToolUses
    <3> QED
      BY <2>2, <3>2 DEF AnthropicTurn
  <2> QED
    BY <2>1, <2>2
<1>4. a = [i \in 1..n |-> [kind |-> s[i].kind, id |-> s[i].id]]
  BY <1>1 DEF ContentBlocks
<1>5. b = [i \in 1..k |-> [kind |-> "tool_use", id |-> c[i]]]
  BY <1>1 DEF ToolUses
<1>6. \A i \in 1..n : [kind |-> s[i].kind, id |-> s[i].id] \in PlainBlock
  BY <1>1 DEF PartType, PlainBlock
<1>7. \A i \in 1..k : [kind |-> "tool_use", id |-> c[i]] \in PlainBlock
  BY <1>2 DEF PlainBlock
<1> HIDE DEF a, b, B, PlainBlock
<1>8. a \in Seq(PlainBlock) /\ Len(a) = n
  <2>1. a \in [1..n -> PlainBlock] /\ DOMAIN a = 1..n
    BY <1>4, <1>6
  <2>2. a \in Seq(PlainBlock)
    BY <1>1, <2>1, SeqDef
  <2>3. DOMAIN a = 1..Len(a) /\ Len(a) \in Nat
    BY <2>2, LenProperties
  <2> QED
    BY <1>1, <2>1, <2>2, <2>3
<1>9. b \in Seq(PlainBlock) /\ Len(b) = k
  <2>1. b \in [1..k -> PlainBlock] /\ DOMAIN b = 1..k
    BY <1>5, <1>7
  <2>2. b \in Seq(PlainBlock)
    BY <1>1, <2>1, SeqDef
  <2>3. DOMAIN b = 1..Len(b) /\ Len(b) \in Nat
    BY <2>2, LenProperties
  <2> QED
    BY <1>1, <2>1, <2>2, <2>3
<1>10. /\ B \in Seq(PlainBlock) /\ Len(B) = n + k
       /\ \A i \in 1..(n + k) : B[i] = IF i <= n THEN a[i] ELSE b[i - n]
  <2> HIDE DEF n, k, s, c
  <2> QED
    BY <1>3, <1>8, <1>9, ConcatProperties
<1>11. ASSUME NEW i \in 1..(n + k)
       PROVE  B[i] = IF i <= n THEN [kind |-> s[i].kind, id |-> s[i].id]
                     ELSE [kind |-> "tool_use", id |-> c[i - n]]
  <2> HIDE DEF n, k, s, c
  <2>1. CASE i <= n
    <3>1. i \in 1..n
      BY <1>1, <2>1
    <3> QED
      BY <1>4, <1>10, <2>1, <3>1
  <2>2. CASE ~(i <= n)
    <3>1. i - n \in 1..k
      BY <1>1, <2>2
    <3> QED
      BY <1>5, <1>10, <2>2, <3>1
  <2> QED
    BY <2>1, <2>2
<1> QED
  BY <1>10, <1>11 DEF B

LEMMA AnthropicHears ==
    ASSUME NEW message, Sane(message), Adapter = "anthropic"
    PROVE  Says(Heard(AnthropicTurn(message)), Said(message))
<1> DEFINE turn == AnthropicTurn(message)
           B    == turn.blocks
           G    == [i \in DOMAIN B |-> BlockSays(B[i])]
<1>1. Heard(turn) = FlattenSeq(G)
  BY DEF Heard, BlockSays
<1>2. CASE message.role = "tool"
  <2> DEFINE b == [kind |-> "tool_result", id |-> <<message.answers, TextOf(message)>>]
             r == Output(<<message.answers, TextOf(message)>>)
             H == [i \in 1..1 |-> r]
  <2>1. B = <<b>>
    BY <1>2 DEF AnthropicTurn, ToolResult
  <2>2. b.kind = "tool_result" /\ b.id = <<message.answers, TextOf(message)>>
    OBVIOUS
  <2>3. BlockSays(b) = r
    <3> HIDE DEF b
    <3> QED
      BY <2>2 DEF BlockSays
  <2>4. Says(r, Said(message))
    BY <1>2, SaysOutput
  <2> HIDE DEF b, r, B
  <2>5. DOMAIN B = 1..1 /\ B[1] = b
    BY <2>1
  <2>6. G = H
    BY <2>3, <2>5
  <2>7. H = [i \in 1..1 |-> H[i]] /\ H[1] = r
    OBVIOUS
  <2> HIDE DEF G, H
  <2>8. FlattenSeq(G) = Flat(H, 1)
    BY <2>6, <2>7 DEF Flat
  <2>9. Flat(H, 1) = H[1]
    <3>1. H[1] \in Seq(Thing) /\ 1 \in 1..1 /\ \A i \in 1..1 \ {1} : H[i] = <<>>
      BY <2>4, <2>7 DEF Says
    <3> QED
      BY <3>1, FlatOne
  <2> QED
    BY <1>1, <2>4, <2>7, <2>8, <2>9
<1>3. CASE message.role # "tool"
  <2> DEFINE s == message.parts
             c == message.calls
             n == Len(s)
             k == Len(c)
             f == [i \in 1..(n + k) |-> IF i <= n THEN <<"part", s[i].id>> ELSE <<"call", c[i - n]>>]
             x == As("part", PartIds(message))
             y == As("call", c)
  <2>1. /\ B \in Seq(PlainBlock) /\ Len(B) = n + k
        /\ \A i \in 1..(n + k) :
              B[i] = IF i <= n THEN [kind |-> s[i].kind, id |-> s[i].id]
                     ELSE [kind |-> "tool_use", id |-> c[i - n]]
    BY <1>3, BlocksAre
  <2>2. /\ n \in Nat /\ DOMAIN s = 1..n /\ \A i \in 1..n : s[i] \in PartType
        /\ k \in Nat /\ DOMAIN c = 1..k
    BY MessageParts
  <2>3. DOMAIN B = 1..(n + k)
    <3> HIDE DEF B, n, k, PlainBlock
    <3> QED
      BY <2>1, LenProperties
  <2>4. ASSUME NEW i \in 1..(n + k) PROVE BlockSays(B[i]) = <<f[i]>>
    <3> HIDE DEF B, n, k, s, c
    <3>1. CASE i <= n
      <4>1. i \in 1..n
        BY <2>2, <3>1
      <4>2. s[i].kind \in {"text", "image"}
        BY <2>2, <4>1 DEF PartType
      <4>3. B[i] = [kind |-> s[i].kind, id |-> s[i].id]
        BY <2>1, <3>1
      <4>4. B[i].kind \notin {"tool_result", "tool_use"} /\ B[i].id = s[i].id
        BY <4>2, <4>3
      <4>5. BlockSays(B[i]) = <<<<"part", s[i].id>>>>
        BY <4>4 DEF BlockSays
      <4> QED
        BY <3>1, <4>5
    <3>2. CASE ~(i <= n)
      <4>1. B[i] = [kind |-> "tool_use", id |-> c[i - n]]
        BY <2>1, <3>2
      <4>2. B[i].kind = "tool_use" /\ B[i].id = c[i - n]
        BY <4>1
      <4>3. BlockSays(B[i]) = <<<<"call", c[i - n]>>>>
        BY <4>2 DEF BlockSays
      <4> QED
        BY <3>2, <4>3
    <3> QED
      BY <3>1, <3>2
  <2>5. G = [i \in 1..(n + k) |-> G[i]] /\ \A i \in 1..(n + k) : G[i] = <<f[i]>>
    <3> HIDE DEF B, f, n, k, s, c
    <3> QED
      BY <2>3, <2>4
  <2>6. n + k \in Nat
    <3>1. n \in Nat /\ k \in Nat
      BY <2>2
    <3> HIDE DEF n, k
    <3> QED
      BY <3>1
  <2>7. FlattenSeq(G) = [i \in 1..(n + k) |-> f[i]]
    <3> DEFINE N == n + k
    <3>1. N \in Nat /\ G = [i \in 1..N |-> G[i]] /\ \A i \in 1..N : G[i] = <<f[i]>>
      BY <2>5, <2>6
    <3> HIDE DEF G, f, N, n, k, s, c
    <3>2. FlattenSeq(G) = Flat(G, N)
      BY <3>1 DEF Flat
    <3>3. Flat(G, N) = [i \in 1..N |-> f[i]]
      BY <3>1, FlatSingles
    <3> QED
      BY <3>2, <3>3 DEF N
  <2>8. f = x \o y
    <3>1. Says(x, Things("part", PartIds(message))) /\ Says(y, Things("call", c))
      BY PartIdsOnce, MessageParts, SaysThings DEF Kinds
    <3>2. x \in Seq(Thing) /\ y \in Seq(Thing)
      BY <3>1 DEF Says
    <3>3. x = [i \in 1..n |-> <<"part", s[i].id>>]
      BY <2>2 DEF As, PartIds
    <3>4. y = [i \in 1..k |-> <<"call", c[i]>>]
      BY <2>2 DEF As
    <3> HIDE DEF x, y, n, k, s, c, Thing
    <3>5. Len(x) = n /\ Len(y) = k
      <4>1. DOMAIN x = 1..Len(x) /\ Len(x) \in Nat /\ DOMAIN y = 1..Len(y) /\ Len(y) \in Nat
        BY <3>2, LenProperties
      <4> QED
        BY <2>2, <3>3, <3>4, <4>1
    <3>6. /\ x \o y \in Seq(Thing) /\ Len(x \o y) = n + k
          /\ \A i \in 1..(n + k) : (x \o y)[i] = IF i <= n THEN x[i] ELSE y[i - n]
      BY <3>2, <3>5, ConcatProperties
    <3> DEFINE z == x \o y
    <3>7. z = [i \in 1..(n + k) |-> z[i]]
      <4> HIDE DEF z
      <4>1. z \in Seq(Thing) /\ Len(z) = n + k
        BY <3>6 DEF z
      <4>2. DOMAIN z = 1..(n + k) /\ z \in [1..Len(z) -> Thing]
        BY <4>1, LenProperties
      <4> QED
        BY <4>1, <4>2
    <3>8. ASSUME NEW i \in 1..(n + k) PROVE z[i] = f[i]
      <4>1. CASE i <= n
        <5>1. i \in 1..n
          BY <2>2, <4>1
        <5> QED
          BY <3>3, <3>6, <4>1, <5>1
      <4>2. CASE ~(i <= n)
        <5>1. i - n \in 1..k
          BY <2>2, <4>2
        <5> QED
          BY <3>4, <3>6, <4>2, <5>1
      <4> QED
        BY <4>1, <4>2
    <3>9. f = [i \in 1..(n + k) |-> f[i]]
      OBVIOUS
    <3> HIDE DEF f, z
    <3>10. f = z
      BY <3>7, <3>8, <3>9
    <3> QED
      BY <3>10 DEF z
  <2>9. f = [i \in 1..(n + k) |-> f[i]]
    OBVIOUS
  <2>10. Heard(turn) = x \o y
    <3> HIDE DEF f, x, y, G
    <3> QED
      BY <1>1, <2>7, <2>8, <2>9
  <2>11. Answers(message) = <<>> /\ Resolved(message) = {}
    BY <1>3 DEF Answers, Resolved
  <2>12. Says(x \o y \o <<>>, Things("part", PartIds(message)) \cup Things("call", c) \cup {})
    <3>1. Once(PartIds(message))
      BY PartIdsOnce
    <3>2. Says(x \o y \o Answers(message), Things("part", PartIds(message)) \cup Things("call", c)
                                           \cup Resolved(message))
      BY <3>1, SaysInOrder
    <3> QED
      BY <2>11, <3>2
  <2>13. x \o y \o <<>> = x \o y
    <3>1. Says(x, Things("part", PartIds(message))) /\ Says(y, Things("call", c))
      BY PartIdsOnce, MessageParts, SaysThings DEF Kinds
    <3>2. x \in Seq(Thing) /\ y \in Seq(Thing)
      BY <3>1 DEF Says
    <3> DEFINE z == x \o y
    <3> HIDE DEF x, y, Thing
    <3>3. z \in Seq(Thing)
      BY <3>2, ConcatProperties
    <3> HIDE DEF z
    <3>4. z \o <<>> = z
      BY <3>3, ConcatEmptySeq
    <3> QED
      BY <3>4 DEF z
  <2>14. Said(message) = Things("part", PartIds(message)) \cup Things("call", c) \cup {}
    BY <2>11, SaidIs
  <2> DEFINE z == x \o y
             S == Things("part", PartIds(message)) \cup Things("call", c) \cup {}
  <2>15. Says(z, S) /\ Heard(turn) = z /\ Said(message) = S
    BY <2>10, <2>12, <2>13, <2>14
  <2> HIDE DEF z, S
  <2> QED
    BY <2>15 DEF turn
<1> QED
  BY <1>2, <1>3

(* Codex is sent items.                                                     *)
Roles    == STRING \cup {"assistant", "tool"}
OnceSeqs == {ids \in Seq(Words) : Once(ids)}
TextItem == [role : Roles, kind : {"message"}, id : OnceSeqs]
CallItem == [role : Roles, kind : {"function_call"}, id : Words]
ToolItem == [role : Roles, kind : {"function_call_output"}, id : Words \X OnceSeqs]
Item     == TextItem \cup CallItem \cup ToolItem
Told     == [item \in Item |-> Tag(Heard(item), item.role)]
Speech   == Thing \X Roles

LEMMA ItemHeard ==
    ASSUME NEW item \in Item, Adapter = "codex"
    PROVE  \E S : Says(Heard(item), S)
<1>1. CASE item \in TextItem
  <2>1. item.kind = "message" /\ Once(item.id)
    BY <1>1 DEF TextItem, OnceSeqs
  <2>2. Heard(item) = As("part", item.id)
    BY <2>1 DEF Heard
  <2> QED
    BY <2>1, <2>2, SaysThings DEF Kinds
<1>2. CASE item \in CallItem
  <2> DEFINE w == <<"call", item.id>>
  <2>1. item.kind = "function_call" /\ w \in Thing
    BY <1>2 DEF CallItem, Thing
  <2>2. Heard(item) = <<w>>
    BY <2>1 DEF Heard
  <2> HIDE DEF w
  <2> QED
    BY <2>1, <2>2, SaysOne
<1>3. CASE item \in ToolItem
  <2> DEFINE w == <<"answers", item.id[1]>>
             ids == item.id[2]
             a == As("part", ids)
  <2>1. item.kind = "function_call_output" /\ w \in Thing /\ Once(ids)
    BY <1>3 DEF ToolItem, Thing, OnceSeqs
  <2>2. Heard(item) = <<w>> \o a
    BY <2>1 DEF Heard, Output
  <2>3. {w} \cap Things("part", ids) = {}
    BY DEF Things
  <2> HIDE DEF w
  <2>4. Says(<<w>>, {w}) /\ Says(a, Things("part", ids))
    BY <2>1, SaysOne, SaysThings DEF Kinds
  <2> DEFINE b == <<w>>
             W == {w}
             A == Things("part", ids)
  <2>5. Says(b, W) /\ Says(a, A) /\ W \cap A = {}
    BY <2>3, <2>4
  <2> HIDE DEF a, b, W, A
  <2>6. Says(b \o a, W \cup A)
    BY <2>5, SaysBoth
  <2> QED
    BY <2>2, <2>6 DEF b
<1> QED
  BY <1>1, <1>2, <1>3 DEF Item

LEMMA ToldPicks ==
    ASSUME Adapter = "codex"
    PROVE  Picks(Told, Item, Speech)
<1> SUFFICES ASSUME NEW item \in Item PROVE Tag(Heard(item), item.role) \in Seq(Speech)
  BY DEF Picks, Told
<1> DEFINE row == Heard(item)
           role == item.role
<1>1. PICK S : Says(row, S)
  BY ItemHeard
<1>2. role \in Roles
  BY DEF Item, TextItem, CallItem, ToolItem
<1> DEFINE W == Thing \X {role}
<1>3. W \subseteq Speech
  BY <1>2 DEF Speech
<1> HIDE DEF row, role
<1>4. Tag(row, role) \in Seq(W)
  <2>1. Tagged(Tag(row, role), row, role, S)
    BY <1>1, TagIs
  <2> QED
    BY <2>1 DEF Tagged
<1> HIDE DEF W
<1>5. Tag(row, role) \in Seq(Speech)
  BY <1>3, <1>4
<1> QED
  BY <1>5 DEF row, role

LEMMA TellOne ==
    ASSUME NEW item \in Item, Adapter = "codex"
    PROVE  Picked(Told, <<item>>) = Tag(Heard(item), item.role)
<1>1. Told[item] = Tag(Heard(item), item.role)
  BY DEF Told
<1>2. Told[item] \in Seq(Speech)
  BY ToldPicks DEF Picks
<1> HIDE DEF Told
<1> QED
  BY <1>1, <1>2, PickedOne

CallItems(message) ==
    [i \in DOMAIN message.calls |->
        [role |-> "assistant", kind |-> "function_call", id |-> message.calls[i]]]

LEMMA TellCalls ==
    ASSUME NEW message, Sane(message), Adapter = "codex"
    PROVE  /\ CallItems(message) \in Seq(Item)
           /\ Picked(Told, CallItems(message)) = Tag(As("call", message.calls), "assistant")
<1> DEFINE c == message.calls
           k == Len(c)
           s == CallItems(message)
           F == [i \in 1..k |-> Told[s[i]]]
           f == [i \in 1..k |-> <<<<"call", c[i]>>, "assistant">>]
<1>1. c \in Seq(Words) /\ k \in Nat /\ DOMAIN c = 1..k
  BY MessageParts DEF Once
<1>2. \A i \in 1..k : c[i] \in Words
  BY <1>1, ElementOfSeq
<1>3. s = [i \in 1..k |-> [role |-> "assistant", kind |-> "function_call", id |-> c[i]]]
  BY <1>1 DEF CallItems
<1>4. ASSUME NEW i \in 1..k
      PROVE  /\ s[i] \in CallItem /\ s[i].role = "assistant"
             /\ s[i].kind = "function_call" /\ s[i].id = c[i]
  BY <1>2, <1>3 DEF CallItem, Roles
<1>5. \A i \in 1..k : s[i] \in Item
  BY <1>4 DEF Item
<1> HIDE DEF s
<1>6. s \in Seq(Item) /\ Len(s) = k
  <2> HIDE DEF k, c
  <2>1. s \in [1..k -> Item] /\ DOMAIN s = 1..k
    BY <1>3, <1>5
  <2>2. s \in Seq(Item)
    BY <1>1, <2>1, SeqDef
  <2>3. DOMAIN s = 1..Len(s) /\ Len(s) \in Nat
    BY <2>2, LenProperties
  <2> QED
    BY <1>1, <2>1, <2>2, <2>3
<1>7. ASSUME NEW i \in 1..k PROVE F[i] = <<f[i]>>
  <2> DEFINE x == s[i]
             w == <<"call", c[i]>>
             row == Heard(x)
  <2>1. x \in Item /\ x.kind = "function_call" /\ x.role = "assistant" /\ x.id = c[i]
    BY <1>4, <1>5
  <2>2. row = <<w>>
    <3> HIDE DEF x
    <3> QED
      BY <2>1 DEF Heard
  <2>3. Told[x] = Tag(row, "assistant")
    <3> HIDE DEF x
    <3> QED
      BY <2>1 DEF Told
  <2> HIDE DEF w, row
  <2>4. Tag(row, "assistant") = <<<<w, "assistant">>>>
    BY <2>2 DEF Tag
  <2>5. F[i] = Told[x] /\ f[i] = <<w, "assistant">>
    BY DEF w
  <2> HIDE DEF F, f, x
  <2> QED
    BY <2>3, <2>4, <2>5
<1>8. f = [i \in 1..k |-> f[i]]
  OBVIOUS
<1>9. Picked(Told, s) = Flat(F, k)
  BY <1>6 DEF Picked
<1>10. Flat(F, k) = [i \in 1..k |-> f[i]]
  <2> HIDE DEF F, f, k
  <2> QED
    BY <1>1, <1>7, FlatSingles
<1>11. f = Tag(As("call", c), "assistant")
  <2> DEFINE a == As("call", c)
  <2>1. a = [i \in 1..k |-> <<"call", c[i]>>]
    BY <1>1 DEF As
  <2> HIDE DEF a
  <2>2. DOMAIN a = 1..k /\ \A i \in 1..k : a[i] = <<"call", c[i]>>
    BY <2>1
  <2>3. Tag(a, "assistant") = [i \in 1..k |-> <<a[i], "assistant">>]
    BY <2>2 DEF Tag
  <2> QED
    BY <2>2, <2>3 DEF a
<1> HIDE DEF F, f
<1> QED
  BY <1>6, <1>8, <1>9, <1>10, <1>11 DEF s

(* A message's items say it, in its speaker's name.                         *)
LEMMA CodexTells ==
    ASSUME NEW message, Sane(message), Adapter = "codex"
    PROVE  /\ CodexItems(message) \in Seq(Item)
           /\ \E row : /\ Says(row, Said(message))
                       /\ Picked(Told, CodexItems(message)) = Tag(row, message.role)
<1> DEFINE u    == TextOf(message)
           text == [role |-> message.role, kind |-> "message", id |-> u]
           a    == As("part", u)
           c    == CallItems(message)
           b    == As("call", message.calls)
           A    == Things("part", u)
           B    == Things("call", message.calls)
<1>1. Once(u) /\ u \in Seq(Words)
  BY TextIsOnce DEF Once
<1>2. message.role \in Roles
  BY DEF Sane, ChatMessage, Roles
<1>3. text \in Item /\ text.role = message.role /\ text.kind = "message" /\ text.id = u
  <2> HIDE DEF u
  <2> QED
    BY <1>1, <1>2 DEF Item, TextItem, OnceSeqs
<1>4. Heard(text) = a
  <2> HIDE DEF text
  <2> QED
    BY <1>3 DEF Heard
<1>5. Picked(Told, <<text>>) = Tag(a, message.role) /\ <<text>> \in Seq(Item)
  <2> HIDE DEF text, a
  <2>1. Picked(Told, <<text>>) = Tag(Heard(text), text.role)
    BY <1>3, TellOne
  <2> HIDE DEF Item
  <2>2. <<text>> \in Seq(Item)
    BY <1>3
  <2> QED
    BY <1>3, <1>4, <2>1, <2>2
<1>6. Says(a, A) /\ Says(b, B)
  BY <1>1, MessageParts, SaysThings DEF Kinds
<1>7. Said(message) = A \cup B \cup Resolved(message)
  BY SaidIs
<1>8. message.role # "assistant" => B = {}
  <2>1. message.role # "assistant" => message.calls = <<>>
    BY DEF Sane
  <2>2. Len(<<>>) = 0
    OBVIOUS
  <2> QED
    BY <2>1, <2>2 DEF Things
<1>9. message.role # "tool" => Resolved(message) = {}
  BY DEF Resolved
<1>10. CASE message.role = "assistant"
  <2>1. c \in Seq(Item) /\ Picked(Told, c) = Tag(b, "assistant")
    BY TellCalls
  <2>2. CodexItems(message) = c \o (IF u = <<>> THEN <<>> ELSE <<text>>)
    BY <1>10 DEF CodexItems, CallItems
  <2>3. Said(message) = B \cup A
    BY <1>7, <1>9, <1>10
  <2>4. Says(b \o a, B \cup A) /\ B \cap A = {}
    <3>1. B \cap A = {}
      BY ThingsApart
    <3> HIDE DEF a, b, A, B
    <3> QED
      BY <1>6, <3>1, SaysBoth
  <2> DEFINE t == IF u = <<>> THEN <<>> ELSE <<text>>
  <2>5. t \in Seq(Item) /\ Picked(Told, t) = Tag(a, "assistant")
    <3>1. CASE u = <<>>
      <4>1. a = <<>> /\ t = <<>>
        BY <3>1 DEF As
      <4>2. Tag(<<>>, "assistant") = <<>>
        BY DEF Tag
      <4>3. Picked(Told, <<>>) = <<>> /\ <<>> \in Seq(Item)
        BY PickedEmpty, EmptySeq
      <4> HIDE DEF a, t
      <4> QED
        BY <4>1, <4>2, <4>3
    <3>2. CASE u # <<>>
      <4>1. t = <<text>>
        BY <3>2
      <4> HIDE DEF t, text, a
      <4> QED
        BY <1>5, <1>10, <4>1
    <3> QED
      BY <3>1, <3>2
  <2> HIDE DEF c, t, a, b, A, B, u, text
  <2>6. c \o t \in Seq(Item)
    BY <2>1, <2>5, ConcatProperties
  <2>7. Picked(Told, c \o t) = Picked(Told, c) \o Picked(Told, t)
    <3> HIDE DEF Told, Item, Speech
    <3> QED
      BY <2>1, <2>5, ToldPicks, PickedConcat
  <2>8. Tag(b \o a, "assistant") = Tag(b, "assistant") \o Tag(a, "assistant")
    BY <1>6, <2>4, TagConcat
  <2>9. CodexItems(message) = c \o t
    BY <2>2 DEF t
  <2> DEFINE row == b \o a
  <2>10. Says(row, Said(message)) /\ Picked(Told, CodexItems(message)) = Tag(row, message.role)
    BY <1>10, <2>1, <2>3, <2>4, <2>5, <2>7, <2>8, <2>9
  <2> HIDE DEF row
  <2> QED
    BY <2>6, <2>9, <2>10
<1>11. CASE message.role = "tool"
  <2> DEFINE id   == <<message.answers, u>>
             item == [role |-> "tool", kind |-> "function_call_output", id |-> id]
             row  == Output(id)
  <2>1. CodexItems(message) = <<item>>
    BY <1>11 DEF CodexItems
  <2>2. item \in ToolItem
    <3>1. message.answers \in Words
      BY MessageParts
    <3> HIDE DEF u
    <3> QED
      BY <1>1, <3>1 DEF ToolItem, Roles, OnceSeqs
  <2>3. item \in Item /\ item.kind = "function_call_output" /\ item.id = id /\ item.role = "tool"
    BY <2>2 DEF Item
  <2>4. Says(row, Said(message))
    BY <1>11, SaysOutput
  <2> HIDE DEF item, id, row
  <2>5. Heard(item) = row
    BY <2>3 DEF Heard, row
  <2>6. Picked(Told, <<item>>) = Tag(row, "tool")
    BY <2>3, <2>5, TellOne
  <2>7. <<item>> \in Seq(Item)
    <3> HIDE DEF Item
    <3> QED
      BY <2>3
  <2> QED
    BY <1>11, <2>1, <2>4, <2>6, <2>7
<1>12. CASE message.role \notin {"assistant", "tool"}
  <2>1. CodexItems(message) = <<text>>
    BY <1>12 DEF CodexItems
  <2>2. Said(message) = A
    BY <1>7, <1>8, <1>9, <1>12
  <2> HIDE DEF text, a, A
  <2> QED
    BY <1>5, <1>6, <2>1, <2>2
<1> QED
  BY <1>10, <1>11, <1>12

(* The turns of a well-formed conversation: each sane by itself, none says  *)
(* what another says.                                                       *)
SaidBy(turns) == [k \in 1..Len(turns) |-> Said(turns[k])]

LEMMA SaidIn ==
    ASSUME NEW message, Sane(message), NEW x \in Said(message)
    PROVE  \/ \E p \in DOMAIN message.parts : x = <<"part", message.parts[p].id>>
           \/ \E p \in DOMAIN message.calls : x = <<"call", message.calls[p]>>
           \/ message.role = "tool" /\ x = <<"answers", message.answers>>
<1>1. DOMAIN message.calls = 1..Len(message.calls)
  BY MessageParts
<1>2. ToSet(As("call", message.calls)) = {<<"call", message.calls[p]>> : p \in DOMAIN message.calls}
  BY DEF ToSet, As
<1>3. \/ x \in {<<"part", message.parts[i].id>> : i \in {j \in DOMAIN message.parts :
                                     message.parts[j].kind = "text" \/ Adapter # "codex"}}
      \/ x \in ToSet(As("call", message.calls))
      \/ message.role = "tool" /\ x = <<"answers", message.answers>>
  BY DEF Said
<1> QED
  BY <1>2, <1>3

LEMMA WellFormedIsSane ==
    ASSUME NEW messages \in Seq(ChatMessage), WellFormed(messages)
    PROVE  DOMAIN messages = 1..Len(messages) /\ \A i \in 1..Len(messages) : Sane(messages[i])
<1>1. DOMAIN messages = 1..Len(messages) /\ \A i \in 1..Len(messages) : messages[i] \in ChatMessage
  <2> HIDE DEF ChatMessage
  <2> QED
    BY LenProperties, ElementOfSeq
<1>2. ASSUME NEW i \in 1..Len(messages) PROVE Sane(messages[i])
  <2> DEFINE m == messages[i]
  <2>1. /\ m.role # "assistant" => m.calls = <<>>
        /\ m.role = "tool" => \A p \in DOMAIN m.parts : IsText(m.parts[p])
    BY <1>1 DEF WellFormed
  <2>2. \A p, q \in DOMAIN m.parts : m.parts[p].id = m.parts[q].id => p = q
    BY <1>1 DEF WellFormed
  <2>3. \A p, q \in DOMAIN m.calls : m.calls[p] = m.calls[q] => p = q
    BY <1>1 DEF WellFormed
  <2>4. m \in ChatMessage
    BY <1>1
  <2> HIDE DEF m
  <2>5. Sane(m)
    BY <2>1, <2>2, <2>3, <2>4 DEF Sane
  <2> QED
    BY <2>5 DEF m
<1> QED
  BY <1>1, <1>2

LEMMA SaidTwice ==
    ASSUME NEW messages \in Seq(ChatMessage), WellFormed(messages),
           NEW i \in 1..Len(messages), NEW j \in 1..Len(messages),
           Said(messages[i]) \cap Said(messages[j]) # {}
    PROVE  i = j
<1> DEFINE m == messages[i]
           l == messages[j]
<1>1. DOMAIN messages = 1..Len(messages) /\ Sane(m) /\ Sane(l)
  BY WellFormedIsSane
<1>2. PICK x : x \in Said(m) /\ x \in Said(l)
  OBVIOUS
<1>3. /\ \A p \in DOMAIN m.parts, q \in DOMAIN l.parts : m.parts[p].id = l.parts[q].id => i = j
      /\ \A p \in DOMAIN m.calls, q \in DOMAIN l.calls : m.calls[p] = l.calls[q] => i = j
      /\ m.role = "tool" /\ l.role = "tool" /\ m.answers = l.answers => i = j
  BY <1>1 DEF WellFormed
<1> HIDE DEF m, l
<1>4. \/ \E p \in DOMAIN m.parts : x = <<"part", m.parts[p].id>>
      \/ \E p \in DOMAIN m.calls : x = <<"call", m.calls[p]>>
      \/ m.role = "tool" /\ x = <<"answers", m.answers>>
  BY <1>1, <1>2, SaidIn
<1>5. \/ \E p \in DOMAIN l.parts : x = <<"part", l.parts[p].id>>
      \/ \E p \in DOMAIN l.calls : x = <<"call", l.calls[p]>>
      \/ l.role = "tool" /\ x = <<"answers", l.answers>>
  BY <1>1, <1>2, SaidIn
<1> QED
  BY <1>3, <1>4, <1>5

LEMMA TurnsKept ==
    ASSUME NEW messages \in Seq(ChatMessage), WellFormed(messages)
    PROVE  LET turns == Selected(messages, IsTurn)
           IN  /\ Len(turns) \in Nat /\ DOMAIN turns = 1..Len(turns)
               /\ \A k \in 1..Len(turns) : Sane(turns[k])
               /\ Apart(SaidBy(turns), Len(turns))
<1> DEFINE s == messages
           Q == [x \in ChatMessage |-> IF IsTurn(x) THEN <<x>> ELSE <<>>]
           t == Picked(Q, s)
<1>1. DOMAIN s = 1..Len(s) /\ \A p \in 1..Len(s) : Sane(s[p])
  BY WellFormedIsSane
<1>2. Len(s) \in Nat /\ \A p \in 1..Len(s) : s[p] \in ChatMessage
  BY <1>1, LenProperties DEF Sane
<1>3. Filters(Q, ChatMessage)
  BY DEF Filters
<1>4. Selected(s, IsTurn) = t
  <2>1. [i \in DOMAIN s |-> IF IsTurn(s[i]) THEN <<s[i]>> ELSE <<>>]
           = [i \in 1..Len(s) |-> Q[s[i]]]
    BY <1>1, <1>2
  <2> DEFINE F == [i \in 1..Len(s) |-> Q[s[i]]]
  <2>2. F = [i \in 1..Len(s) |-> F[i]]
    OBVIOUS
  <2>3. Selected(s, IsTurn) = FlattenSeq(F)
    BY <2>1 DEF Selected
  <2>4. t = Flat(F, Len(s))
    BY DEF Picked
  <2> HIDE DEF F, t
  <2>5. Flat(F, Len(s)) = FlattenSeq(F)
    BY <2>2 DEF Flat
  <2> QED
    BY <2>3, <2>4, <2>5
<1> HIDE DEF Q, ChatMessage
<1>5. t \in Seq(ChatMessage) /\ \E o : Filtered(Q, s, t, o)
  <2> HIDE DEF s
  <2>1. s \in Seq(ChatMessage)
    BY DEF s
  <2> QED
    BY <1>3, <2>1, FilterPlaces
<1>6. PICK o : Filtered(Q, s, t, o)
  BY <1>5
<1> HIDE DEF t
<1>7. DOMAIN t = 1..Len(t) /\ Len(t) \in Nat
  BY <1>5, LenProperties
<1>8. \A k \in 1..Len(t) : o[k] \in 1..Len(s) /\ t[k] = s[o[k]]
  BY <1>6 DEF Filtered
<1>9. \A k, l \in 1..Len(t) : k < l => o[k] < o[l]
  BY <1>6 DEF Filtered
<1>10. \A k \in 1..Len(t) : Sane(t[k])
  BY <1>1, <1>8
<1>11. ASSUME NEW k \in 1..Len(t), NEW l \in 1..Len(t), SaidBy(t)[k] \cap SaidBy(t)[l] # {}
       PROVE  k = l
  <2>1. Said(t[k]) \cap Said(t[l]) # {}
    BY <1>11 DEF SaidBy
  <2>2. Said(s[o[k]]) \cap Said(s[o[l]]) # {} /\ o[k] \in 1..Len(s) /\ o[l] \in 1..Len(s)
    BY <1>8, <2>1
  <2>3. o[k] = o[l]
    BY <2>2, SaidTwice
  <2>4. o[k] \in Int /\ o[l] \in Int /\ k \in Int /\ l \in Int
    BY <2>2
  <2>5. ~(k < l) /\ ~(l < k)
    BY <1>9, <2>3, <2>4
  <2> QED
    BY <2>4, <2>5
<1>12. Apart(SaidBy(t), Len(t))
  BY <1>11 DEF Apart
<1> QED
  BY <1>4, <1>7, <1>10, <1>12

(* What a provider hears, from whom.                                        *)
HeardOf(turns) == FlattenSeq([t \in DOMAIN turns |-> Tag(Heard(turns[t]), turns[t].role)])

Conveyed(heard, turns) ==
    \E F, row, role :
        /\ heard = Flat(F, Len(turns))
        /\ Spoken(F, row, role, SaidBy(turns), Len(turns))
        /\ \A b \in 1..Len(turns) : role[b] = "assistant" <=> turns[b].role = "assistant"

LEMMA CompatConveys ==
    ASSUME NEW turns, Len(turns) \in Nat, DOMAIN turns = 1..Len(turns),
           \A k \in 1..Len(turns) : Sane(turns[k]), Adapter = "compat"
    PROVE  Conveyed(HeardOf(turns), turns)
<1> DEFINE n    == Len(turns)
           row  == [b \in 1..n |-> Heard(turns[b])]
           role == [b \in 1..n |-> turns[b].role]
           F    == [b \in 1..n |-> Tag(Heard(turns[b]), turns[b].role)]
           S    == SaidBy(turns)
<1>1. \A b \in 1..n : row[b] = Heard(turns[b]) /\ role[b] = turns[b].role
                      /\ F[b] = Tag(row[b], role[b]) /\ S[b] = Said(turns[b])
  BY DEF SaidBy
<1>2. F = [b \in 1..n |-> F[b]]
  OBVIOUS
<1>3. HeardOf(turns) = FlattenSeq(F)
  BY DEF HeardOf
<1> HIDE DEF row, role, F, S
<1>4. HeardOf(turns) = Flat(F, n)
  BY <1>2, <1>3 DEF Flat
<1>5. \A b \in 1..n : Says(row[b], S[b])
  BY <1>1, CompatHears
<1>6. Spoken(F, row, role, S, n)
  BY <1>1, <1>5 DEF Spoken
<1>7. \A b \in 1..n : role[b] = "assistant" <=> turns[b].role = "assistant"
  BY <1>1
<1> HIDE DEF n
<1> QED
  BY <1>4, <1>6, <1>7 DEF Conveyed, S, n

LEMMA AnthropicConveys ==
    ASSUME NEW turns, Len(turns) \in Nat, DOMAIN turns = 1..Len(turns),
           \A k \in 1..Len(turns) : Sane(turns[k]), Adapter = "anthropic"
    PROVE  Conveyed(HeardOf([i \in DOMAIN turns |-> AnthropicTurn(turns[i])]), turns)
<1> DEFINE n    == Len(turns)
           out  == [i \in DOMAIN turns |-> AnthropicTurn(turns[i])]
           row  == [b \in 1..n |-> Heard(out[b])]
           role == [b \in 1..n |-> out[b].role]
           F    == [b \in 1..n |-> Tag(Heard(out[b]), out[b].role)]
           S    == SaidBy(turns)
<1>0. DOMAIN out = 1..n /\ \A b \in 1..n : out[b] = AnthropicTurn(turns[b])
  OBVIOUS
<1> HIDE DEF out
<1>1. \A b \in 1..n : row[b] = Heard(out[b]) /\ role[b] = out[b].role
                      /\ F[b] = Tag(row[b], role[b]) /\ S[b] = Said(turns[b])
  BY DEF SaidBy
<1>2. F = [b \in 1..n |-> F[b]]
  OBVIOUS
<1>3. HeardOf(out) = FlattenSeq(F)
  BY <1>0 DEF HeardOf
<1> HIDE DEF row, role, F, S
<1>4. HeardOf(out) = Flat(F, n)
  BY <1>2, <1>3 DEF Flat
<1>5. \A b \in 1..n : Says(row[b], S[b])
  BY <1>0, <1>1, AnthropicHears
<1>6. Spoken(F, row, role, S, n)
  BY <1>1, <1>5 DEF Spoken
<1>7. \A b \in 1..n : role[b] = "assistant" <=> turns[b].role = "assistant"
  BY <1>0, <1>1 DEF AnthropicTurn
<1> HIDE DEF n
<1>8. Conveyed(HeardOf(out), turns)
  BY <1>4, <1>6, <1>7 DEF Conveyed, S, n
<1> QED
  BY <1>8 DEF out

CodexRow(message) ==
    CHOOSE row : /\ Says(row, Said(message))
                 /\ Picked(Told, CodexItems(message)) = Tag(row, message.role)

LEMMA CodexConveys ==
    ASSUME NEW turns, Len(turns) \in Nat, DOMAIN turns = 1..Len(turns),
           \A k \in 1..Len(turns) : Sane(turns[k]), Adapter = "codex"
    PROVE  Conveyed(HeardOf(FlattenSeq([i \in DOMAIN turns |-> CodexItems(turns[i])])), turns)
<1> DEFINE n    == Len(turns)
           G    == [b \in 1..n |-> CodexItems(turns[b])]
           out  == FlattenSeq([i \in DOMAIN turns |-> CodexItems(turns[i])])
           row  == [b \in 1..n |-> CodexRow(turns[b])]
           role == [b \in 1..n |-> turns[b].role]
           H    == [b \in 1..n |-> Picked(Told, G[b])]
           S    == SaidBy(turns)
<1>1. ASSUME NEW b \in 1..n
      PROVE  /\ G[b] \in Seq(Item) /\ H[b] = Picked(Told, G[b])
             /\ Says(row[b], S[b]) /\ H[b] = Tag(row[b], role[b])
  <2> DEFINE m == turns[b]
  <2>1. Sane(m)
    OBVIOUS
  <2> HIDE DEF m
  <2>2. /\ CodexItems(m) \in Seq(Item)
        /\ \E r : Says(r, Said(m)) /\ Picked(Told, CodexItems(m)) = Tag(r, m.role)
    BY <2>1, CodexTells
  <2>3. /\ Says(CodexRow(m), Said(m))
        /\ Picked(Told, CodexItems(m)) = Tag(CodexRow(m), m.role)
    BY <2>2 DEF CodexRow
  <2>4. /\ G[b] = CodexItems(m) /\ row[b] = CodexRow(m) /\ role[b] = m.role
        /\ H[b] = Picked(Told, G[b]) /\ S[b] = Said(m)
    BY DEF SaidBy, m
  <2> HIDE DEF G, row, role, H, S
  <2> QED
    BY <2>2, <2>3, <2>4
<1>2. out = Flat(G, n)
  <2>1. G = [b \in 1..n |-> G[b]] /\ out = FlattenSeq(G)
    OBVIOUS
  <2> HIDE DEF G, out
  <2> QED
    BY <2>1 DEF Flat
<1> HIDE DEF G, row, role, H, S, out
<1>3. out \in Seq(Item)
  BY <1>1, <1>2, FlatType
<1>4. DOMAIN out = 1..Len(out) /\ Len(out) \in Nat /\ \A i \in 1..Len(out) : out[i] \in Item
  <2> HIDE DEF Item
  <2> QED
    BY <1>3, LenProperties, ElementOfSeq
<1>5. HeardOf(out) = Picked(Told, out)
  <2> DEFINE K == [i \in 1..Len(out) |-> Told[out[i]]]
  <2>1. \A i \in 1..Len(out) : Told[out[i]] = Tag(Heard(out[i]), out[i].role)
    BY <1>4 DEF Told
  <2>2. K = [i \in DOMAIN out |-> Tag(Heard(out[i]), out[i].role)]
    BY <1>4, <2>1
  <2>3. K = [i \in 1..Len(out) |-> K[i]]
    OBVIOUS
  <2>4. Picked(Told, out) = Flat(K, Len(out))
    BY DEF Picked
  <2>5. HeardOf(out) = FlattenSeq(K)
    BY <2>2 DEF HeardOf
  <2> HIDE DEF K
  <2> QED
    BY <2>3, <2>4, <2>5 DEF Flat
<1>6. Picked(Told, Flat(G, n)) = Flat(H, n)
  <2>1. /\ n \in Nat
        /\ \A b \in 1..n : G[b] \in Seq(Item)
        /\ \A b \in 1..n : H[b] = Picked(Told, G[b])
    BY <1>1
  <2>2. Picks(Told, Item, Speech)
    BY ToldPicks
  <2> HIDE DEF n, Told, Item, Speech
  <2> QED
    BY <2>1, <2>2, PickedFlat
<1>7. HeardOf(out) = Flat(H, n)
  BY <1>2, <1>5, <1>6
<1>8. Spoken(H, row, role, S, n)
  BY <1>1 DEF Spoken
<1>9. \A b \in 1..n : role[b] = "assistant" <=> turns[b].role = "assistant"
  BY DEF role
<1> HIDE DEF n
<1>10. Conveyed(HeardOf(out), turns)
  BY <1>7, <1>8, <1>9 DEF Conveyed, S, n
<1> QED
  BY <1>10 DEF out

(* From the translation until the target fails or has answered, what is     *)
(* sent is this request for this target.                                    *)
Underway == pc \in {"call", "wait", "body"}
SentInv  == Underway => sent = ToProvider(Adapter, scenario)
Goes     == Underway /\ UNCHANGED <<scenario, target, sent>>
Leaves   == pc' \notin {"call", "wait", "body"}

LEMMA FailingStops ==
    ASSUME NEW error, TargetFails(error) \/ CallFails(error)
    PROVE  Leaves
BY DEF TargetFails, CallFails, Leaves

LEMMA StepsGoOrStop ==
    ASSUME Next
    PROVE  Acquire \/ Goes \/ Leaves \/ UNCHANGED vars
<1>1. AgainOrFail /\ Underway => Goes \/ Leaves
  BY FailingStops DEF AgainOrFail, Again, Goes, route
<1>2. ASSUME Renew PROVE Goes \/ Leaves
  BY <1>2, FailingStops DEF Renew, RaisesUntyped, Leaves
<1>3. ASSUME Send PROVE Goes \/ Leaves
  BY <1>3 DEF Send, Goes, Underway, route
<1>4. ASSUME Unanswered PROVE Goes \/ Leaves
  BY <1>1, <1>4 DEF Unanswered, Underway
<1>5. ASSUME Refused PROVE Goes \/ Leaves
  BY <1>5, FailingStops DEF Refused
<1>6. ASSUME ProtocolFails PROVE Goes \/ Leaves
  BY <1>6 DEF ProtocolFails, RaisesUntyped, Leaves
<1>7. ASSUME Answered PROVE Goes \/ Leaves
  BY <1>7 DEF Answered, Goes, Leaves, Underway, route, attempt
<1>8. ASSUME Arrive PROVE Goes \/ Leaves
  BY <1>8 DEF Arrive, Starving, Goes, Underway, route, attempt
<1>9. ASSUME Eof PROVE Goes \/ Leaves
  BY <1>9 DEF Eof, Starving, Goes, Underway, route, attempt
<1>10. ASSUME BodyFails PROVE Goes \/ Leaves
  <2>1. Underway
    BY <1>10 DEF BodyFails, Starving, Underway
  <2> QED
    BY <1>1, <1>10, <2>1, FailingStops DEF BodyFails, Leaves
<1>11. ASSUME Line PROVE Goes \/ Leaves
  BY <1>11 DEF Line, Goes, Underway, route, attempt
<1>12. ASSUME Dispatched PROVE Goes
  BY <1>12 DEF Dispatched, Goes, Underway, route, attempt
<1>13. ASSUME ReportsFailure \/ End PROVE Goes \/ Leaves
  BY <1>13, FailingStops DEF ReportsFailure, End, Leaves
<1>14. ASSUME Disconnect \/ Account \/ Invalid PROVE Leaves
  BY <1>14 DEF Disconnect, Account, Invalid, Leaves
<1>15. Skip \/ Forward \/ Done \/ Aggregate => Dispatched
  BY DEF Skip, Forward, Done, Aggregate
<1>16. Over => UNCHANGED vars
  BY DEF Over
<1> QED
  BY <1>2, <1>3, <1>4, <1>5, <1>6, <1>7, <1>8, <1>9, <1>10, <1>11, <1>12, <1>13, <1>14,
     <1>15, <1>16 DEF Next

LEMMA SentInvariance == Spec => []SentInv
<1>1. Init => SentInv
  BY DEF Init, SentInv, Underway
<1>2. SentInv /\ [Next]_vars => SentInv'
  <2> SUFFICES ASSUME SentInv, [Next]_vars PROVE SentInv'
    OBVIOUS
  <2>1. CASE Acquire
    <3>1. CASE /\ sent' = ToProvider(Adapter, scenario)
               /\ UNCHANGED <<scenario, target>>
      <4>1. Adapter' = Adapter /\ scenario' = scenario
        BY <3>1 DEF Adapter, Current
      <4>2. ToProvider(Adapter, scenario)' = ToProvider(Adapter, scenario)
        BY <4>1 DEF ToProvider, AnthropicRequest, CodexRequest, CompatRequest
      <4> QED
        BY <3>1, <4>2 DEF SentInv
    <3>2. CASE \E error : TargetFails(error)
      BY <3>2, FailingStops DEF SentInv, Underway, Leaves
    <3>3. CASE RaisesUntyped
      BY <3>3 DEF RaisesUntyped, SentInv, Underway
    <3> QED
      BY <2>1, <3>1, <3>2, <3>3 DEF Acquire, route
  <2>2. CASE Goes
    <3>1. Adapter' = Adapter /\ scenario' = scenario /\ sent' = sent
      BY <2>2 DEF Goes, Adapter, Current
    <3>2. ToProvider(Adapter, scenario)' = ToProvider(Adapter, scenario)
      BY <3>1 DEF ToProvider, AnthropicRequest, CodexRequest, CompatRequest
    <3> QED
      BY <2>2, <3>1, <3>2 DEF Goes, SentInv
  <2>3. CASE Leaves
    BY <2>3 DEF Leaves, SentInv, Underway
  <2>4. CASE UNCHANGED vars
    <3>1. Adapter' = Adapter /\ scenario' = scenario /\ sent' = sent /\ Underway' = Underway
      BY <2>4 DEF vars, route, attempt, Adapter, Current, Underway
    <3>2. ToProvider(Adapter, scenario)' = ToProvider(Adapter, scenario)
      BY <3>1 DEF ToProvider, AnthropicRequest, CodexRequest, CompatRequest
    <3> QED
      BY <3>1, <3>2 DEF SentInv
  <2> QED
    BY <2>1, <2>2, <2>3, <2>4, StepsGoOrStop
<1> QED
  BY <1>1, <1>2, PTL DEF Spec

(* The turns that a provider is owed are a well-formed conversation.        *)
LEMMA OwedKept ==
    ASSUME scenario.messages \in Seq(ChatMessage), WellFormed(scenario.messages)
    PROVE  /\ Len(Owed) \in Nat /\ DOMAIN Owed = 1..Len(Owed)
           /\ \A k \in 1..Len(Owed) : Sane(Owed[k])
           /\ Apart(SaidBy(Owed), Len(Owed))
<1>1. CASE Adapter = "compat"
  <2> DEFINE messages == scenario.messages
  <2>1. DOMAIN messages = 1..Len(messages) /\ \A i \in 1..Len(messages) : Sane(messages[i])
    BY WellFormedIsSane
  <2>2. Len(messages) \in Nat
    <3> HIDE DEF ChatMessage
    <3> QED
      BY LenProperties
  <2>3. Apart(SaidBy(messages), Len(messages))
    <3> SUFFICES ASSUME NEW a \in 1..Len(messages), NEW b \in 1..Len(messages),
                        SaidBy(messages)[a] \cap SaidBy(messages)[b] # {}
                 PROVE  a = b
      BY DEF Apart
    <3>1. PICK x : x \in Said(messages[a]) /\ x \in Said(messages[b])
      BY DEF SaidBy
    <3> QED
      BY <2>1, <3>1, SaidTwice
  <2>4. Owed = messages
    BY <1>1 DEF Owed
  <2> QED
    BY <2>1, <2>2, <2>3, <2>4
<1>2. CASE Adapter # "compat"
  <2>1. Owed = Selected(scenario.messages, IsTurn)
    BY <1>2 DEF Owed
  <2> QED
    BY <2>1, TurnsKept
<1> QED
  BY <1>1, <1>2

LEMMA SentIsConveyed ==
    ASSUME scenario.messages \in Seq(ChatMessage), WellFormed(scenario.messages),
           Adapter \in Adapters, sent = ToProvider(Adapter, scenario)
    PROVE  /\ Conveyed(HeardOf(sent.turns), Owed)
           /\ Adapter = "anthropic" => sent.limit # "unset"
<1> DEFINE turns == Owed
<1>1. Len(turns) \in Nat /\ DOMAIN turns = 1..Len(turns) /\ \A k \in 1..Len(turns) : Sane(turns[k])
  BY OwedKept
<1>2. CASE Adapter = "anthropic"
  <2>1. sent = AnthropicRequest(scenario) /\ turns = Selected(scenario.messages, IsTurn)
    BY <1>2 DEF ToProvider, Owed
  <2>2. /\ sent.turns = [i \in DOMAIN turns |-> AnthropicTurn(turns[i])]
        /\ sent.limit # "unset"
    BY <2>1 DEF AnthropicRequest
  <2> HIDE DEF turns
  <2>3. Conveyed(HeardOf(sent.turns), turns)
    BY <1>1, <1>2, <2>2, AnthropicConveys
  <2> QED
    BY <2>2, <2>3 DEF turns
<1>3. CASE Adapter = "codex"
  <2>1. sent = CodexRequest(scenario) /\ turns = Selected(scenario.messages, IsTurn)
    BY <1>3 DEF ToProvider, Owed
  <2>2. sent.turns = FlattenSeq([i \in DOMAIN turns |-> CodexItems(turns[i])])
    BY <2>1 DEF CodexRequest
  <2> HIDE DEF turns
  <2>3. Conveyed(HeardOf(sent.turns), turns)
    BY <1>1, <1>3, <2>2, CodexConveys
  <2> QED
    BY <1>3, <2>3 DEF turns
<1>4. CASE Adapter = "compat"
  <2>1. sent = CompatRequest(scenario) /\ turns = scenario.messages
    BY <1>4 DEF ToProvider, Owed
  <2>2. sent.turns = turns
    BY <2>1 DEF CompatRequest
  <2> HIDE DEF turns
  <2>3. Conveyed(HeardOf(sent.turns), turns)
    BY <1>1, <1>4, <2>2, CompatConveys
  <2> QED
    BY <1>4, <2>3 DEF turns
<1> QED
  BY <1>2, <1>3, <1>4 DEF Adapters

(* What is conveyed is kept.                                                *)
Kept(messages, heard) ==
    LET owner(i) == CHOOSE m \in DOMAIN messages : heard[i][1] \in Said(messages[m])
    IN  /\ {heard[i][1] : i \in DOMAIN heard} = UNION {Said(messages[m]) : m \in DOMAIN messages}
        /\ \A i, j \in DOMAIN heard :
               i < j => heard[i][1] # heard[j][1] /\ owner(i) <= owner(j)
        /\ \A i \in DOMAIN heard :
               heard[i][2] = "assistant" <=> messages[owner(i)].role = "assistant"

LEMMA ConveyedIsKept ==
    ASSUME NEW turns, Len(turns) \in Nat, DOMAIN turns = 1..Len(turns),
           Apart(SaidBy(turns), Len(turns)), NEW heard, Conveyed(heard, turns)
    PROVE  Kept(turns, heard)
<1> DEFINE n == Len(turns)
           S == SaidBy(turns)
           owner(i) == CHOOSE m \in 1..n : heard[i][1] \in Said(turns[m])
<1>1. PICK F, row, role :
          /\ heard = Flat(F, n)
          /\ Spoken(F, row, role, S, n)
          /\ \A b \in 1..n : role[b] = "assistant" <=> turns[b].role = "assistant"
  BY DEF Conveyed
<1>2. \A b \in 1..n : S[b] = Said(turns[b])
  BY DEF SaidBy
<1> HIDE DEF S
<1>3. /\ DOMAIN heard = 1..Len(heard) /\ Len(heard) \in Nat
      /\ \E o : Heeded(heard, role, S, n, o)
  <2>1. n \in Nat /\ Spoken(F, row, role, S, n) /\ Apart(S, n)
    BY <1>1 DEF S
  <2> HIDE DEF n
  <2> QED
    BY <1>1, <2>1, HeardWhole
<1>4. PICK o : Heeded(heard, role, S, n, o)
  BY <1>3
<1>5. \A i \in 1..Len(heard) : /\ o[i] \in 1..n /\ heard[i][1] \in Said(turns[o[i]])
                               /\ heard[i][2] = role[o[i]]
  BY <1>2, <1>4 DEF Heeded
<1>6. ASSUME NEW i \in 1..Len(heard) PROVE owner(i) = o[i]
  <2>1. owner(i) \in 1..n /\ heard[i][1] \in Said(turns[owner(i)])
    BY <1>5
  <2>2. heard[i][1] \in S[owner(i)] /\ heard[i][1] \in S[o[i]]
    BY <1>2, <1>5, <2>1
  <2>3. \A a, b \in 1..n : S[a] \cap S[b] # {} => a = b
    BY DEF Apart, S
  <2> HIDE DEF owner
  <2> QED
    BY <1>5, <2>1, <2>2, <2>3
<1>7. \A i, j \in 1..Len(heard) : i < j => heard[i][1] # heard[j][1] /\ o[i] <= o[j]
  BY <1>4 DEF Heeded
<1>8. \A b \in 1..n : \A x \in Said(turns[b]) : \E i \in 1..Len(heard) : heard[i][1] = x
  BY <1>2, <1>4 DEF Heeded
<1>9. {heard[i][1] : i \in DOMAIN heard} = UNION {Said(turns[m]) : m \in DOMAIN turns}
  BY <1>3, <1>5, <1>8
<1>10. \A i, j \in DOMAIN heard : i < j => heard[i][1] # heard[j][1] /\ owner(i) <= owner(j)
  <2> HIDE DEF owner
  <2> QED
    BY <1>3, <1>6, <1>7
<1>11. \A i \in DOMAIN heard : heard[i][2] = "assistant" <=> turns[owner(i)].role = "assistant"
  <2> HIDE DEF owner
  <2> QED
    BY <1>1, <1>3, <1>5, <1>6
<1> QED
  BY <1>9, <1>10, <1>11 DEF Kept

(* Whatever its provider and however long it is: a well-formed conversation *)
(* reaches the provider whole, in order, from its own speakers.             *)
THEOREM ConversationsAreKept == Spec => []ConversationKept
<1>1. IInv /\ SentInv => ConversationKept
  <2> SUFFICES ASSUME IInv, SentInv, pc = "wait", WellFormed(scenario.messages)
               PROVE  ConversationKept
    BY DEF ConversationKept
  <2> DEFINE turns == Owed
             heard == HeardOf(sent.turns)
  <2>1. scenario.messages \in Seq(ChatMessage) /\ Adapter \in Adapters
    BY ScenariosAssumption, Positions DEF IInv, TypeOK
  <2>2. sent = ToProvider(Adapter, scenario)
    BY DEF SentInv, Underway
  <2>3. /\ Conveyed(heard, turns)
        /\ Adapter = "anthropic" => sent.limit # "unset"
    BY <2>1, <2>2, SentIsConveyed
  <2>4. /\ Len(turns) \in Nat /\ DOMAIN turns = 1..Len(turns)
        /\ Apart(SaidBy(turns), Len(turns))
    BY <2>1, OwedKept
  <2>5. Kept(turns, heard)
    <3> HIDE DEF turns, heard
    <3> QED
      BY <2>3, <2>4, ConveyedIsKept
  <2>6. heard = FlattenSeq([t \in DOMAIN sent.turns |->
                             LET said == Heard(sent.turns[t])
                             IN  [i \in DOMAIN said |-> <<said[i], sent.turns[t].role>>]])
    BY DEF HeardOf, Tag
  <2> QED
    BY <2>3, <2>5, <2>6 DEF ConversationKept, Kept
<1> QED
  BY <1>1, Invariance, SentInvariance, PTL
================================================================================
