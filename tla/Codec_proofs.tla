---------------------------- MODULE Codec_proofs ----------------------------
(***************************************************************************)
(* The protocol hides itself, for any number of outlets, any integers and   *)
(* any texts: every call of a setter and every query acts as Panel says.    *)
(*                                                                         *)
(* What encoders, parsers and device make of a text is defined by recursion  *)
(* over it.  Texts are inductive data: a set that has the empty text and,   *)
(* with a text, all that are longer by a token has all texts; this rests on  *)
(* the well-foundedness of < on the natural numbers.                       *)
(***************************************************************************)
EXTENDS Codec, SequenceTheorems, WellFoundedInduction, TLAPS

-----------------------------------------------------------------------------
(* Induction                                                                *)

LEMMA LessOnNat == OpToRel(<, Nat) = {ss \in Nat \X Nat : ss[1] < ss[2]}
  BY Zenon DEF OpToRel

(* A set of natural numbers has a least one.                                *)
LEMMA LeastNumber ==
    ASSUME NEW T \in SUBSET Nat, T # {}
    PROVE  \E n \in T : \A m \in T : n <= m
<1>. DEFINE R == {ss \in Nat \X Nat : ss[1] < ss[2]}
<1>1. IsWellFoundedOn(R, Nat)
  BY NatLessThanWellFounded, LessOnNat, Zenon
<1>2. PICK x \in T : \A y \in T : ~ (<<y, x>> \in R)
  BY <1>1, WFMin, Zenon
<1>3. ASSUME NEW y \in T, y < x
      PROVE  <<y, x>> \in R
  BY <1>3
<1>. HIDE DEF R
<1>4. \A y \in T : ~ (y < x)
  BY <1>2, <1>3
<1>. QED
  BY <1>4

(* A set with 0 and, with a number, the next one has all numbers.           *)
LEMMA Counting ==
    ASSUME NEW T, 0 \in T, \A n \in Nat : n \in T => n + 1 \in T
    PROVE  \A n \in Nat : n \in T
<1>. DEFINE U == Nat \ T
<1>1. ASSUME U # {}
      PROVE  FALSE
  <2>1. PICK n \in U : \A m \in U : n <= m
    BY <1>1, LeastNumber
  <2>2. n \in Nat /\ n # 0 /\ n \notin T
    OBVIOUS
  <2>3. n - 1 \in Nat /\ n - 1 \notin U
    BY <2>1, <2>2
  <2>4. (n - 1) + 1 \in T
    BY <2>3
  <2>. QED
    BY <2>2, <2>4
<1>. QED
  BY <1>1

(* The same for sequences, by their last element.                          *)
LEMMA Appending ==
    ASSUME NEW S, NEW T, <<>> \in T, \A s \in Seq(S), x \in S : s \in T => Append(s, x) \in T
    PROVE  \A s \in Seq(S) : s \in T
<1>. DEFINE U == {n \in Nat : \A s \in Seq(S) : Len(s) = n => s \in T}
<1>1. 0 \in U
  BY EmptySeq
<1>2. ASSUME NEW n \in Nat, n \in U
      PROVE  n + 1 \in U
  <2>1. SUFFICES ASSUME NEW s \in Seq(S), Len(s) = n + 1
                 PROVE  s \in T
    OBVIOUS
  <2>2. s # <<>> /\ 1 <= Len(s)
    BY <2>1, EmptySeq
  <2>3. PICK front \in Seq(S), x \in S : s = Append(front, x)
    BY <2>2, SequenceEmptyOrAppend
  <2>4. Len(front) = n
    BY <2>1, <2>3, AppendProperties, LenProperties
  <2>. QED
    BY <1>2, <2>3, <2>4
<1>. HIDE DEF U
<1>3. \A n \in Nat : n \in U
  BY <1>1, <1>2, Counting
<1>4. \A s \in Seq(S) : Len(s) \in Nat
  BY LenProperties
<1>. QED
  BY <1>3, <1>4 DEF U

(* Two recursions that begin alike and go on alike are equal.               *)
LEMMA SameRun ==
    ASSUME NEW n \in Nat, NEW f, NEW g, f[0] = g[0],
           \A i \in 1 .. n : f[i - 1] = g[i - 1] => f[i] = g[i]
    PROVE  \A i \in 0 .. n : f[i] = g[i]
<1>. DEFINE T == {i \in Nat : i <= n => f[i] = g[i]}
<1>1. 0 \in T
  OBVIOUS
<1>2. ASSUME NEW i \in Nat, i \in T
      PROVE  i + 1 \in T
  <2>1. CASE i + 1 <= n
    <3>1. i + 1 \in 1 .. n /\ (i + 1) - 1 = i
      BY <2>1
    <3>2. f[i] = g[i]
      BY <1>2, <2>1
    <3>. QED
      BY <3>1, <3>2
  <2>. QED
    BY <2>1
<1>. HIDE DEF T
<1>3. \A i \in Nat : i \in T
  BY <1>1, <1>2, Counting
<1>. QED
  BY <1>3 DEF T

-----------------------------------------------------------------------------
(* The recursive definitions, token by token                                *)

(* An element put behind a sequence.                                       *)
LEMMA Lengthened ==
    ASSUME NEW S, NEW s \in Seq(S), NEW x \in S
    PROVE  /\ Append(s, x) \in Seq(S) /\ Len(s) \in Nat /\ Len(Append(s, x)) = Len(s) + 1
           /\ \A i \in 1 .. Len(s) : Append(s, x)[i] = s[i]
           /\ Append(s, x)[Len(s) + 1] = x
<1>1. Len(s) \in Nat /\ DOMAIN s = 1 .. Len(s)
  BY LenProperties
<1>. QED
  BY <1>1, AppendProperties

(* The pieces between the commas.                                          *)
LEMMA CutFound ==
    ASSUME NEW text, NEW n \in Nat
    PROVE  \E f : f = [i \in 0 .. n |-> IF i = 0 THEN << <<>> >> ELSE Cut(f[i - 1], text[i])]
<1>. DEFINE base == << <<>> >>
            Run(f, k) == f = [i \in 0 .. k |-> IF i = 0 THEN base ELSE Cut(f[i - 1], text[i])]
            T == {k \in Nat : \E f : Run(f, k)}
<1>. HIDE DEF base
<1>1. 0 \in T
  <2>1. Run([i \in 0 .. 0 |-> base], 0)
    OBVIOUS
  <2>. QED
    BY <2>1
<1>2. ASSUME NEW k \in Nat, k \in T
      PROVE  k + 1 \in T
  <2>1. PICK f : Run(f, k)
    BY <1>2
  <2>. DEFINE g == [i \in 0 .. k + 1 |-> IF i <= k THEN f[i] ELSE Cut(f[k], text[k + 1])]
  <2>2. ASSUME NEW i \in 0 .. k + 1
        PROVE  g[i] = IF i = 0 THEN base ELSE Cut(g[i - 1], text[i])
    <3>1. CASE i = 0
      BY <2>1, <3>1
    <3>2. CASE i \in 1 .. k
      BY <2>1, <3>2
    <3>3. CASE i = k + 1
      <4>1. g[k + 1] = Cut(f[k], text[k + 1]) /\ g[(k + 1) - 1] = f[k]
        OBVIOUS
      <4>. QED
        BY <3>3, <4>1
    <3>. QED
      BY <3>1, <3>2, <3>3
  <2>3. Run(g, k + 1)
    BY <2>2
  <2>. HIDE DEF Run, g
  <2>4. \E h : Run(h, k + 1)
    BY <2>3
  <2>. QED
    BY <2>4
<1>. HIDE DEF T
<1>3. n \in T
  BY <1>1, <1>2, Counting
<1>. QED
  BY <1>3 DEF T, base

(* Split() goes token by token.                                            *)
LEMMA CutSteps ==
    /\ Split(<<>>) = << <<>> >>
    /\ \A text \in Texts, token \in Tokens :
          Split(Append(text, token)) = Cut(Split(text), token)
<1>. DEFINE base == << <<>> >>
            Run(f, text) == /\ Split(text) = f[Len(text)] /\ f[0] = base
                            /\ \A i \in 1 .. Len(text) : f[i] = Cut(f[i - 1], text[i])
<1>1. ASSUME NEW text \in Texts
      PROVE  \E f : Run(f, text)
  <2>. DEFINE Rec(f) == f = [i \in 0 .. Len(text) |-> IF i = 0 THEN base ELSE Cut(f[i - 1], text[i])]
  <2>1. Len(text) \in Nat
    BY LenProperties DEF Texts
  <2>2. \E f : Rec(f)
    BY <2>1, CutFound
  <2>3. PICK f : Rec(f) /\ Split(text) = f[Len(text)]
    BY <2>2 DEF Split
  <2>. HIDE DEF base
  <2>4. \A i \in 0 .. Len(text) : f[i] = IF i = 0 THEN base ELSE Cut(f[i - 1], text[i])
    BY <2>3
  <2>. HIDE DEF Rec
  <2>. QED
    BY <2>1, <2>3, <2>4
<1>. HIDE DEF base
<1>2. Split(<<>>) = base
  <2>1. <<>> \in Texts /\ Len(<<>>) = 0
    BY EmptySeq DEF Texts
  <2>. QED
    BY <1>1, <2>1
<1>3. ASSUME NEW text \in Texts, NEW token \in Tokens
      PROVE  Split(Append(text, token)) = Cut(Split(text), token)
  <2>. DEFINE longer == Append(text, token)
              n == Len(text)
  <2>1. /\ longer \in Texts /\ Len(longer) = n + 1 /\ n \in Nat
        /\ \A i \in 1 .. n : longer[i] = text[i]
        /\ longer[n + 1] = token
    <3>1. text \in Seq(Tokens) /\ token \in Tokens
      BY DEF Texts
    <3>. QED
      BY ONLY <3>1, Lengthened DEF Texts
  <2>2. PICK f : Run(f, text)
    BY <1>1
  <2>3. PICK g : Run(g, longer)
    BY <1>1, <2>1
  <2>. HIDE DEF longer, n
  <2>4. \A i \in 1 .. n : f[i] = Cut(f[i - 1], text[i])
    BY <2>2 DEF n
  <2>5. \A i \in 1 .. n + 1 : g[i] = Cut(g[i - 1], longer[i])
    BY <2>1, <2>3
  <2>. HIDE DEF Run
  <2>6. \A i \in 1 .. n : f[i - 1] = g[i - 1] => f[i] = g[i]
    BY <2>1, <2>4, <2>5
  <2>7. f[0] = g[0]
    BY <2>2, <2>3 DEF Run
  <2>8. f[n] = g[n]
    <3>1. \A i \in 0 .. n : f[i] = g[i]
      BY <2>1, <2>6, <2>7, SameRun
    <3>. QED
      BY <2>1, <3>1
  <2>9. g[n + 1] = Cut(g[n], token)
    <3>1. n + 1 \in 1 .. n + 1 /\ (n + 1) - 1 = n
      BY <2>1
    <3>. QED
      BY <2>1, <2>5, <3>1
  <2>10. Split(text) = f[n] /\ Split(longer) = g[n + 1]
    BY <2>1, <2>2, <2>3 DEF Run, n
  <2>. QED
    BY <2>8, <2>9, <2>10 DEF longer
<1>. QED
  BY <1>2, <1>3 DEF base

(* The walk of parse_outlet_names().                                       *)
LEMMA WalkFound ==
    ASSUME NEW text, NEW n \in Nat
    PROVE  \E f : f = [i \in 0 .. n |-> IF i = 0 THEN [at |-> "between", names |-> <<>>]
                                        ELSE Walk(f[i - 1], text[i])]
<1>. DEFINE base == [at |-> "between", names |-> <<>>]
            Run(f, k) == f = [i \in 0 .. k |-> IF i = 0 THEN base ELSE Walk(f[i - 1], text[i])]
            T == {k \in Nat : \E f : Run(f, k)}
<1>. HIDE DEF base
<1>1. 0 \in T
  <2>1. Run([i \in 0 .. 0 |-> base], 0)
    OBVIOUS
  <2>. QED
    BY <2>1
<1>2. ASSUME NEW k \in Nat, k \in T
      PROVE  k + 1 \in T
  <2>1. PICK f : Run(f, k)
    BY <1>2
  <2>. DEFINE g == [i \in 0 .. k + 1 |-> IF i <= k THEN f[i] ELSE Walk(f[k], text[k + 1])]
  <2>2. ASSUME NEW i \in 0 .. k + 1
        PROVE  g[i] = IF i = 0 THEN base ELSE Walk(g[i - 1], text[i])
    <3>1. CASE i = 0
      BY <2>1, <3>1
    <3>2. CASE i \in 1 .. k
      BY <2>1, <3>2
    <3>3. CASE i = k + 1
      <4>1. g[k + 1] = Walk(f[k], text[k + 1]) /\ g[(k + 1) - 1] = f[k]
        OBVIOUS
      <4>. QED
        BY <3>3, <4>1
    <3>. QED
      BY <3>1, <3>2, <3>3
  <2>3. Run(g, k + 1)
    BY <2>2
  <2>. HIDE DEF Run, g
  <2>4. \E h : Run(h, k + 1)
    BY <2>3
  <2>. QED
    BY <2>4
<1>. HIDE DEF T
<1>3. n \in T
  BY <1>1, <1>2, Counting
<1>. QED
  BY <1>3 DEF T, base

(* So does the walk over the braces,                                       *)
LEMMA WalkSteps ==
    /\ Walked(<<>>) = [at |-> "between", names |-> <<>>]
    /\ \A text \in Texts, token \in Tokens :
          Walked(Append(text, token)) = Walk(Walked(text), token)
<1>. DEFINE base == [at |-> "between", names |-> <<>>]
            Run(f, text) == /\ Walked(text) = f[Len(text)] /\ f[0] = base
                            /\ \A i \in 1 .. Len(text) : f[i] = Walk(f[i - 1], text[i])
<1>1. ASSUME NEW text \in Texts
      PROVE  \E f : Run(f, text)
  <2>. DEFINE Rec(f) == f = [i \in 0 .. Len(text) |-> IF i = 0 THEN base ELSE Walk(f[i - 1], text[i])]
  <2>1. Len(text) \in Nat
    BY LenProperties DEF Texts
  <2>2. \E f : Rec(f)
    BY <2>1, WalkFound
  <2>3. PICK f : Rec(f) /\ Walked(text) = f[Len(text)]
    BY <2>2 DEF Walked
  <2>. HIDE DEF base
  <2>4. \A i \in 0 .. Len(text) : f[i] = IF i = 0 THEN base ELSE Walk(f[i - 1], text[i])
    BY <2>3
  <2>. HIDE DEF Rec
  <2>. QED
    BY <2>1, <2>3, <2>4
<1>. HIDE DEF base
<1>2. Walked(<<>>) = base
  <2>1. <<>> \in Texts /\ Len(<<>>) = 0
    BY EmptySeq DEF Texts
  <2>. QED
    BY <1>1, <2>1
<1>3. ASSUME NEW text \in Texts, NEW token \in Tokens
      PROVE  Walked(Append(text, token)) = Walk(Walked(text), token)
  <2>. DEFINE longer == Append(text, token)
              n == Len(text)
  <2>1. /\ longer \in Texts /\ Len(longer) = n + 1 /\ n \in Nat
        /\ \A i \in 1 .. n : longer[i] = text[i]
        /\ longer[n + 1] = token
    <3>1. text \in Seq(Tokens) /\ token \in Tokens
      BY DEF Texts
    <3>. QED
      BY ONLY <3>1, Lengthened DEF Texts
  <2>2. PICK f : Run(f, text)
    BY <1>1
  <2>3. PICK g : Run(g, longer)
    BY <1>1, <2>1
  <2>. HIDE DEF longer, n
  <2>4. \A i \in 1 .. n : f[i] = Walk(f[i - 1], text[i])
    BY <2>2 DEF n
  <2>5. \A i \in 1 .. n + 1 : g[i] = Walk(g[i - 1], longer[i])
    BY <2>1, <2>3
  <2>. HIDE DEF Run
  <2>6. \A i \in 1 .. n : f[i - 1] = g[i - 1] => f[i] = g[i]
    BY <2>1, <2>4, <2>5
  <2>7. f[0] = g[0]
    BY <2>2, <2>3 DEF Run
  <2>8. f[n] = g[n]
    <3>1. \A i \in 0 .. n : f[i] = g[i]
      BY <2>1, <2>6, <2>7, SameRun
    <3>. QED
      BY <2>1, <3>1
  <2>9. g[n + 1] = Walk(g[n], token)
    <3>1. n + 1 \in 1 .. n + 1 /\ (n + 1) - 1 = n
      BY <2>1
    <3>. QED
      BY <2>1, <2>5, <3>1
  <2>10. Walked(text) = f[n] /\ Walked(longer) = g[n + 1]
    BY <2>1, <2>2, <2>3 DEF Run, n
  <2>. QED
    BY <2>8, <2>9, <2>10 DEF longer
<1>. QED
  BY <1>2, <1>3 DEF base

(* What the device finds in braces.                                        *)
LEMMA GatherFound ==
    ASSUME NEW text, NEW n \in Nat
    PROVE  \E f : f = [i \in 0 .. n |-> IF i = 0 THEN [open |-> FALSE, texts |-> <<>>]
                                        ELSE Gather(f[i - 1], text[i])]
<1>. DEFINE base == [open |-> FALSE, texts |-> <<>>]
            Run(f, k) == f = [i \in 0 .. k |-> IF i = 0 THEN base ELSE Gather(f[i - 1], text[i])]
            T == {k \in Nat : \E f : Run(f, k)}
<1>. HIDE DEF base
<1>1. 0 \in T
  <2>1. Run([i \in 0 .. 0 |-> base], 0)
    OBVIOUS
  <2>. QED
    BY <2>1
<1>2. ASSUME NEW k \in Nat, k \in T
      PROVE  k + 1 \in T
  <2>1. PICK f : Run(f, k)
    BY <1>2
  <2>. DEFINE g == [i \in 0 .. k + 1 |-> IF i <= k THEN f[i] ELSE Gather(f[k], text[k + 1])]
  <2>2. ASSUME NEW i \in 0 .. k + 1
        PROVE  g[i] = IF i = 0 THEN base ELSE Gather(g[i - 1], text[i])
    <3>1. CASE i = 0
      BY <2>1, <3>1
    <3>2. CASE i \in 1 .. k
      BY <2>1, <3>2
    <3>3. CASE i = k + 1
      <4>1. g[k + 1] = Gather(f[k], text[k + 1]) /\ g[(k + 1) - 1] = f[k]
        OBVIOUS
      <4>. QED
        BY <3>3, <4>1
    <3>. QED
      BY <3>1, <3>2, <3>3
  <2>3. Run(g, k + 1)
    BY <2>2
  <2>. HIDE DEF Run, g
  <2>4. \E h : Run(h, k + 1)
    BY <2>3
  <2>. QED
    BY <2>4
<1>. HIDE DEF T
<1>3. n \in T
  BY <1>1, <1>2, Counting
<1>. QED
  BY <1>3 DEF T, base

(* and the device, looking for texts in braces.                            *)
LEMMA GatherSteps ==
    /\ Gathered(<<>>) = [open |-> FALSE, texts |-> <<>>]
    /\ \A text \in Texts, token \in Tokens :
          Gathered(Append(text, token)) = Gather(Gathered(text), token)
<1>. DEFINE base == [open |-> FALSE, texts |-> <<>>]
            Run(f, text) == /\ Gathered(text) = f[Len(text)] /\ f[0] = base
                            /\ \A i \in 1 .. Len(text) : f[i] = Gather(f[i - 1], text[i])
<1>1. ASSUME NEW text \in Texts
      PROVE  \E f : Run(f, text)
  <2>. DEFINE Rec(f) == f = [i \in 0 .. Len(text) |-> IF i = 0 THEN base ELSE Gather(f[i - 1], text[i])]
  <2>1. Len(text) \in Nat
    BY LenProperties DEF Texts
  <2>2. \E f : Rec(f)
    BY <2>1, GatherFound
  <2>3. PICK f : Rec(f) /\ Gathered(text) = f[Len(text)]
    BY <2>2 DEF Gathered
  <2>. HIDE DEF base
  <2>4. \A i \in 0 .. Len(text) : f[i] = IF i = 0 THEN base ELSE Gather(f[i - 1], text[i])
    BY <2>3
  <2>. HIDE DEF Rec
  <2>. QED
    BY <2>1, <2>3, <2>4
<1>. HIDE DEF base
<1>2. Gathered(<<>>) = base
  <2>1. <<>> \in Texts /\ Len(<<>>) = 0
    BY EmptySeq DEF Texts
  <2>. QED
    BY <1>1, <2>1
<1>3. ASSUME NEW text \in Texts, NEW token \in Tokens
      PROVE  Gathered(Append(text, token)) = Gather(Gathered(text), token)
  <2>. DEFINE longer == Append(text, token)
              n == Len(text)
  <2>1. /\ longer \in Texts /\ Len(longer) = n + 1 /\ n \in Nat
        /\ \A i \in 1 .. n : longer[i] = text[i]
        /\ longer[n + 1] = token
    <3>1. text \in Seq(Tokens) /\ token \in Tokens
      BY DEF Texts
    <3>. QED
      BY ONLY <3>1, Lengthened DEF Texts
  <2>2. PICK f : Run(f, text)
    BY <1>1
  <2>3. PICK g : Run(g, longer)
    BY <1>1, <2>1
  <2>. HIDE DEF longer, n
  <2>4. \A i \in 1 .. n : f[i] = Gather(f[i - 1], text[i])
    BY <2>2 DEF n
  <2>5. \A i \in 1 .. n + 1 : g[i] = Gather(g[i - 1], longer[i])
    BY <2>1, <2>3
  <2>. HIDE DEF Run
  <2>6. \A i \in 1 .. n : f[i - 1] = g[i - 1] => f[i] = g[i]
    BY <2>1, <2>4, <2>5
  <2>7. f[0] = g[0]
    BY <2>2, <2>3 DEF Run
  <2>8. f[n] = g[n]
    <3>1. \A i \in 0 .. n : f[i] = g[i]
      BY <2>1, <2>6, <2>7, SameRun
    <3>. QED
      BY <2>1, <3>1
  <2>9. g[n + 1] = Gather(g[n], token)
    <3>1. n + 1 \in 1 .. n + 1 /\ (n + 1) - 1 = n
      BY <2>1
    <3>. QED
      BY <2>1, <2>5, <3>1
  <2>10. Gathered(text) = f[n] /\ Gathered(longer) = g[n + 1]
    BY <2>1, <2>2, <2>3 DEF Run, n
  <2>. QED
    BY <2>8, <2>9, <2>10 DEF longer
<1>. QED
  BY <1>2, <1>3 DEF base

LEMMA OneElement ==
    ASSUME NEW S, NEW x \in S
    PROVE  <<x>> \in Seq(S) /\ Len(<<x>>) = 1 /\ <<x>>[1] = x
  OBVIOUS

LEMMA FunctionsAreSeqs ==
    ASSUME NEW S, NEW n \in Nat, NEW f \in [1 .. n -> S]
    PROVE  f \in Seq(S) /\ Len(f) = n
  OBVIOUS

(* FlattenSeq                                                               *)
LEMMA FlatFound ==
    ASSUME NEW s, NEW n \in Nat
    PROVE  \E f : f = [i \in 1 .. n |-> IF i = 1 THEN s[i] ELSE f[i - 1] \o s[i]]
<1>. DEFINE Run(f, k) == f = [i \in 1 .. k |-> IF i = 1 THEN s[i] ELSE f[i - 1] \o s[i]]
            T == {k \in Nat : \E f : Run(f, k)}
<1>1. 0 \in T
  <2>1. Run([i \in 1 .. 0 |-> s[i]], 0)
    OBVIOUS
  <2>. QED
    BY <2>1
<1>2. ASSUME NEW k \in Nat, k \in T
      PROVE  k + 1 \in T
  <2>1. PICK f : Run(f, k)
    BY <1>2
  <2>. DEFINE g == [i \in 1 .. k + 1 |-> IF i <= k THEN f[i] ELSE IF i = 1 THEN s[i] ELSE f[k] \o s[i]]
  <2>2. ASSUME NEW i \in 1 .. k + 1
        PROVE  g[i] = IF i = 1 THEN s[i] ELSE g[i - 1] \o s[i]
    <3>1. CASE i \in 1 .. k
      <4>1. f[i] = IF i = 1 THEN s[i] ELSE f[i - 1] \o s[i]
        BY <2>1, <3>1
      <4>2. g[i] = f[i] /\ (i # 1 => g[i - 1] = f[i - 1])
        BY <3>1
      <4>. QED
        BY <4>1, <4>2
    <3>2. CASE i = k + 1 /\ i = 1
      BY <3>2
    <3>3. CASE i = k + 1 /\ i # 1
      <4>1. i \in 1 .. k + 1 /\ ~ (i <= k) /\ i - 1 = k /\ k \in 1 .. k + 1 /\ k <= k
        BY <3>3
      <4>2. g[i] = f[k] \o s[i]
        BY <3>3, <4>1
      <4>3. g[k] = f[k]
        BY <4>1
      <4>. QED
        BY <3>3, <4>1, <4>2, <4>3
    <3>. QED
      BY <3>1, <3>2, <3>3
  <2>3. Run(g, k + 1)
    BY <2>2
  <2>. HIDE DEF Run, g
  <2>4. \E h : Run(h, k + 1)
    BY <2>3
  <2>. QED
    BY <2>4
<1>. HIDE DEF T
<1>3. n \in T
  BY <1>1, <1>2, Counting
<1>. QED
  BY <1>3 DEF T

(* FlattenSeq puts one text behind the others.                             *)
LEMMA FlatSteps ==
    /\ FlattenSeq(<<>>) = <<>>
    /\ \A t \in Texts : FlattenSeq(<<t>>) = t
    /\ \A s \in Seq(Texts), t \in Texts : s # <<>> =>
          FlattenSeq(Append(s, t)) = FlattenSeq(s) \o t
<1>. DEFINE Run(f, s) == /\ FlattenSeq(s) = f[Len(s)] /\ f[1] = s[1]
                         /\ \A i \in 2 .. Len(s) : f[i] = f[i - 1] \o s[i]
<1>1. ASSUME NEW s \in Seq(Texts), s # <<>>
      PROVE  \E f : Run(f, s)
  <2>. DEFINE Rec(f) == f = [i \in 1 .. Len(s) |-> IF i = 1 THEN s[i] ELSE f[i - 1] \o s[i]]
  <2>1. Len(s) \in Nat /\ Len(s) # 0
    BY <1>1, LenProperties, EmptySeq
  <2>2. \E f : Rec(f)
    BY <2>1, FlatFound
  <2>3. PICK f : Rec(f) /\ FlattenSeq(s) = f[Len(s)]
    BY <2>1, <2>2 DEF FlattenSeq
  <2>4. \A i \in 1 .. Len(s) : f[i] = IF i = 1 THEN s[i] ELSE f[i - 1] \o s[i]
    BY <2>3
  <2>. HIDE DEF Rec
  <2>5. f[1] = s[1]
    BY <2>1, <2>4
  <2>6. ASSUME NEW i \in 2 .. Len(s)
        PROVE  f[i] = f[i - 1] \o s[i]
    <3>1. i \in 1 .. Len(s) /\ i # 1
      BY <2>1
    <3>. QED
      BY <2>4, <3>1
  <2>. QED
    BY <2>3, <2>5, <2>6
<1>2. FlattenSeq(<<>>) = <<>>
  BY DEF FlattenSeq
<1>3. ASSUME NEW t \in Texts
      PROVE  FlattenSeq(<<t>>) = t
  <2>1. <<t>> \in Seq(Texts) /\ <<t>> # <<>> /\ Len(<<t>>) = 1 /\ <<t>>[1] = t
    OBVIOUS
  <2>. QED
    BY <1>1, <2>1
<1>4. ASSUME NEW s \in Seq(Texts), NEW t \in Texts, s # <<>>
      PROVE  FlattenSeq(Append(s, t)) = FlattenSeq(s) \o t
  <2>. DEFINE longer == Append(s, t)
              n == Len(s)
  <2>1. /\ longer \in Seq(Texts) /\ Len(longer) = n + 1 /\ n \in Nat
        /\ \A i \in 1 .. n : longer[i] = s[i]
        /\ longer[n + 1] = t
    BY Lengthened
  <2>2. n # 0
    BY <1>4, EmptySeq
  <2>3. longer # <<>>
    BY <2>1, EmptySeq
  <2>4. PICK f : Run(f, s)
    BY <1>1, <1>4
  <2>5. PICK g : Run(g, longer)
    BY <1>1, <2>1, <2>3
  <2>. HIDE DEF longer, n
  <2>. DEFINE F == [i \in 0 .. n - 1 |-> f[i + 1]]
              G == [i \in 0 .. n - 1 |-> g[i + 1]]
  <2>6. \A i \in 1 .. n - 1 : F[i - 1] = G[i - 1] => F[i] = G[i]
    <3>1. SUFFICES ASSUME NEW i \in 1 .. n - 1, f[i] = g[i]
                   PROVE  f[i + 1] = g[i + 1]
      BY <2>1
    <3>2. f[i + 1] = f[i] \o s[i + 1]
      <4>1. i + 1 \in 2 .. n /\ (i + 1) - 1 = i
        BY <2>1
      <4>. QED
        BY <2>4, <4>1 DEF n
    <3>3. g[i + 1] = g[i] \o longer[i + 1]
      <4>1. i + 1 \in 2 .. n + 1 /\ (i + 1) - 1 = i
        BY <2>1
      <4>. QED
        BY <2>1, <2>5, <4>1
    <3>4. longer[i + 1] = s[i + 1]
      BY <2>1
    <3>. QED
      BY <3>1, <3>2, <3>3, <3>4
  <2>7. F[0] = G[0]
    <3>1. f[1] = s[1] /\ g[1] = longer[1] /\ longer[1] = s[1]
      BY <2>1, <2>2, <2>4, <2>5
    <3>. QED
      BY <2>1, <2>2, <3>1
  <2>8. F[n - 1] = G[n - 1]
    <3>1. n - 1 \in Nat /\ n - 1 \in 0 .. n - 1
      BY <2>1, <2>2
    <3>. HIDE DEF F, G
    <3>2. \A i \in 0 .. n - 1 : F[i] = G[i]
      BY <2>6, <2>7, <3>1, SameRun
    <3>. QED
      BY <3>1, <3>2
  <2>9. f[n] = g[n]
    BY <2>1, <2>2, <2>8
  <2>10. g[n + 1] = g[n] \o t
    <3>1. n + 1 \in 2 .. n + 1 /\ (n + 1) - 1 = n
      BY <2>1, <2>2
    <3>. QED
      BY <2>1, <2>5, <3>1
  <2>11. FlattenSeq(s) = f[n] /\ FlattenSeq(longer) = g[n + 1]
    BY <2>1, <2>4, <2>5 DEF n
  <2>. QED
    BY <2>9, <2>10, <2>11 DEF longer
<1>. QED
  BY <1>2, <1>3, <1>4

(* Joined: texts with commas between them.                                  *)
LEMMA JoinedSteps ==
    /\ Joined(<<>>) = <<>>
    /\ \A t \in Texts : Joined(<<t>>) = t
    /\ \A s \in Seq(Texts), t \in Texts : s # <<>> =>
          Joined(Append(s, t)) = Joined(s) \o (<<",">> \o t)
<1>. DEFINE Marked(s) == [i \in DOMAIN s |-> IF i = 1 THEN s[i] ELSE <<",">> \o s[i]]
<1>1. <<",">> \in Texts /\ \A t \in Texts : <<",">> \o t \in Texts
  <2>1. "," \in Tokens
    BY TokensAssumption DEF Marks
  <2>2. <<",">> \in Texts
    BY <2>1, OneElement DEF Texts
  <2>. QED
    BY <2>2, ConcatProperties DEF Texts
<1>2. ASSUME NEW s \in Seq(Texts)
      PROVE  /\ Marked(s) \in Seq(Texts)
             /\ Len(Marked(s)) = Len(s)
             /\ \A i \in 1 .. Len(s) : Marked(s)[i] = IF i = 1 THEN s[i] ELSE <<",">> \o s[i]
  <2>1. Len(s) \in Nat /\ DOMAIN s = 1 .. Len(s) /\ \A i \in 1 .. Len(s) : s[i] \in Texts
    BY LenProperties, ElementOfSeq
  <2>2. \A i \in 1 .. Len(s) : Marked(s)[i] \in Texts
    BY <1>1, <2>1
  <2>3. Marked(s) \in [1 .. Len(s) -> Texts]
    BY <2>1, <2>2
  <2>4. Marked(s) \in Seq(Texts) /\ Len(Marked(s)) = Len(s)
    <3>. HIDE DEF Marked
    <3>. QED
      BY <2>1, <2>3, FunctionsAreSeqs
  <2>. QED
    BY <2>1, <2>4
<1>3. Joined(<<>>) = <<>>
  <2>1. Marked(<<>>) = <<>>
    BY <1>2, EmptySeq
  <2>. QED
    BY <2>1, FlatSteps DEF Joined
<1>4. ASSUME NEW t \in Texts
      PROVE  Joined(<<t>>) = t
  <2>1. Marked(<<t>>) = <<t>>
    OBVIOUS
  <2>. QED
    BY <2>1, FlatSteps DEF Joined
<1>5. ASSUME NEW s \in Seq(Texts), NEW t \in Texts, s # <<>>
      PROVE  Joined(Append(s, t)) = Joined(s) \o (<<",">> \o t)
  <2>1. /\ Append(s, t) \in Seq(Texts) /\ Len(s) \in Nat /\ Len(Append(s, t)) = Len(s) + 1
        /\ \A i \in 1 .. Len(s) : Append(s, t)[i] = s[i]
        /\ Append(s, t)[Len(s) + 1] = t
    BY Lengthened
  <2>2. Len(s) # 0
    BY <1>5, EmptySeq
  <2>3. /\ Marked(s) \in Seq(Texts) /\ Len(Marked(s)) = Len(s)
        /\ \A i \in 1 .. Len(s) : Marked(s)[i] = IF i = 1 THEN s[i] ELSE <<",">> \o s[i]
    BY <1>2
  <2>4. /\ Marked(Append(s, t)) \in Seq(Texts) /\ Len(Marked(Append(s, t))) = Len(s) + 1
        /\ \A i \in 1 .. Len(s) + 1 :
              Marked(Append(s, t))[i] = IF i = 1 THEN Append(s, t)[i] ELSE <<",">> \o Append(s, t)[i]
    BY <1>2, <2>1
  <2>. DEFINE mark == <<",">> \o t
              long == Append(s, t)
              m == Marked(s)
              ml == Marked(long)
              am == Append(m, mark)
  <2>5. mark \in Texts
    BY <1>1
  <2>6. /\ am \in Seq(Texts) /\ Len(am) = Len(s) + 1
        /\ \A i \in 1 .. Len(s) : am[i] = m[i]
        /\ am[Len(s) + 1] = mark
    <3>1. m \in Seq(Texts) /\ Len(m) = Len(s)
      BY <2>3
    <3>. HIDE DEF Marked, mark, m
    <3>2. /\ Append(m, mark) \in Seq(Texts) /\ Len(Append(m, mark)) = Len(m) + 1
          /\ \A i \in 1 .. Len(m) : Append(m, mark)[i] = m[i]
          /\ Append(m, mark)[Len(m) + 1] = mark
      BY <2>5, <3>1, Lengthened
    <3>. QED
      BY <3>1, <3>2
  <2>7. ml = am
    <3>1. ASSUME NEW i \in 1 .. Len(s) + 1
          PROVE  ml[i] = am[i]
      <4>. HIDE DEF Marked, mark, m, ml, am, long
      <4>1. CASE i \in 1 .. Len(s)
        <5>1. am[i] = m[i] /\ long[i] = s[i]
          BY <2>1, <2>6, <4>1 DEF long
        <5>2. m[i] = IF i = 1 THEN s[i] ELSE <<",">> \o s[i]
          BY <2>3, <4>1 DEF m
        <5>3. ml[i] = IF i = 1 THEN long[i] ELSE <<",">> \o long[i]
          BY <2>4 DEF ml, long
        <5>. QED
          BY <5>1, <5>2, <5>3
      <4>2. CASE i = Len(s) + 1
        <5>1. am[i] = mark /\ long[i] = t /\ i # 1
          BY <2>1, <2>2, <2>6, <4>2 DEF long
        <5>2. ml[i] = IF i = 1 THEN long[i] ELSE <<",">> \o long[i]
          BY <2>4 DEF ml, long
        <5>. QED
          BY <5>1, <5>2 DEF mark
      <4>. QED
        BY <2>1, <4>1, <4>2
    <3>2. ml \in Seq(Texts) /\ Len(ml) = Len(s) + 1
      BY <2>4
    <3>. HIDE DEF ml, am
    <3>. QED
      BY <2>6, <3>1, <3>2, SeqEqual
  <2>8. Marked(s) # <<>>
    BY <2>2, <2>3, EmptySeq
  <2>9. FlattenSeq(am) = FlattenSeq(m) \o mark
    <3>. HIDE DEF m, mark
    <3>. QED
      BY <2>3, <2>5, <2>8, FlatSteps DEF m
  <2>. QED
    BY <2>7, <2>9 DEF Joined
<1>. QED
  BY <1>3, <1>4, <1>5

-----------------------------------------------------------------------------
(* Pieces between commas                                                    *)

Lacking(marks) == {t \in Texts : \A i \in DOMAIN t : t[i] \notin marks}
CommaFree == Lacking({","})

(* Concatenation and its neutral element.                                  *)
LEMMA Chained ==
    ASSUME NEW S, NEW a \in Seq(S), NEW b \in Seq(S), NEW x \in S
    PROVE  /\ a \o b \in Seq(S) /\ <<x>> \in Seq(S)
           /\ a \o <<>> = a /\ <<>> \o a = a
           /\ a \o <<x>> = Append(a, x)
           /\ a \o (<<x>> \o b) = Append(a, x) \o b
           /\ a \o Append(b, x) = Append(a \o b, x)
<1>1. <<x>> \in Seq(S)
  BY OneElement
<1>2. a \o b \in Seq(S) /\ a \o <<>> = a /\ <<>> \o a = a
  BY ConcatProperties, ConcatEmptySeq
<1>3. a \o <<x>> = Append(a, x) /\ (a \o b) \o <<x>> = Append(a \o b, x) /\ b \o <<x>> = Append(b, x)
  BY <1>2, AppendIsConcat
<1>4. a \o (<<x>> \o b) = (a \o <<x>>) \o b
  BY <1>1, ConcatAssociative
<1>5. a \o (b \o <<x>>) = (a \o b) \o <<x>>
  BY <1>1, ConcatAssociative
<1>. QED
  BY <1>1, <1>2, <1>3, <1>4, <1>5

(* The same for texts.                                                     *)
LEMMA TextsChained ==
    /\ \A a, b \in Texts : a \o b \in Texts
    /\ \A a \in Texts : a \o <<>> = a /\ <<>> \o a = a
    /\ \A a \in Texts, x \in Tokens : Append(a, x) \in Texts
    /\ \A a, b \in Texts, x \in Tokens : a \o (<<x>> \o b) = Append(a, x) \o b
    /\ \A a, b \in Texts, x \in Tokens : a \o Append(b, x) = Append(a \o b, x)
<1>1. ASSUME NEW a \in Texts, NEW b \in Texts
      PROVE  a \o b \in Texts /\ a \o <<>> = a /\ <<>> \o a = a
  BY ConcatProperties, ConcatEmptySeq DEF Texts
<1>2. ASSUME NEW a \in Texts, NEW b \in Texts, NEW x \in Tokens
      PROVE  /\ Append(a, x) \in Texts
             /\ a \o (<<x>> \o b) = Append(a, x) \o b
             /\ a \o Append(b, x) = Append(a \o b, x)
  <2>1. a \in Seq(Tokens) /\ b \in Seq(Tokens)
    BY DEF Texts
  <2>2. Append(a, x) \in Texts
    BY <2>1, Lengthened DEF Texts
  <2>. DEFINE m == <<x>>
  <2>3. a \o (m \o b) = Append(a, x) \o b
    <3>1. m \in Seq(Tokens) /\ a \o m = Append(a, x)
      BY <2>1, AppendIsConcat
    <3>. HIDE DEF m
    <3>2. (a \o m) \o b = a \o (m \o b)
      <4>1. \A s, t, u \in Seq(Tokens) : (s \o t) \o u = s \o (t \o u)
        BY ONLY ConcatAssociative
      <4>. QED
        BY <2>1, <3>1, <4>1
    <3>. QED
      BY <3>1, <3>2
  <2>4. a \o Append(b, x) = Append(a \o b, x)
    BY <2>1, Chained
  <2>. QED
    BY <2>2, <2>3, <2>4
<1>. QED
  BY <1>1, <1>2

(* The last element is another one.                                        *)
LEMMA LastChanged ==
    ASSUME NEW S, NEW s \in Seq(S), NEW x \in S, NEW y \in S
    PROVE  [Append(s, x) EXCEPT ![Len(s) + 1] = y] = Append(s, y)
<1>. DEFINE n == Len(s)
            sx == Append(s, x)
            sy == Append(s, y)
            e == [sx EXCEPT ![n + 1] = y]
<1>1. /\ sx \in Seq(S) /\ n \in Nat /\ Len(sx) = n + 1
      /\ \A i \in 1 .. n : sx[i] = s[i]
  BY Lengthened
<1>2. /\ sy \in Seq(S) /\ Len(sy) = n + 1 /\ sy[n + 1] = y
      /\ \A i \in 1 .. n : sy[i] = s[i]
  BY Lengthened
<1>. HIDE DEF sx, sy, n
<1>3. /\ e \in Seq(S) /\ Len(e) = n + 1
      /\ \A i \in 1 .. n + 1 : e[i] = IF i = n + 1 THEN y ELSE sx[i]
  <2>1. n + 1 \in 1 .. Len(sx)
    BY <1>1
  <2>. QED
    BY <1>1, <2>1, ExceptSeq
<1>. HIDE DEF e
<1>4. ASSUME NEW i \in 1 .. n + 1
      PROVE  e[i] = sy[i]
  BY <1>1, <1>2, <1>3
<1>5. e = sy
  BY <1>2, <1>3, <1>4, SeqEqual
<1>. QED
  BY <1>5 DEF e, sx, sy, n

(* The texts at hand.                                                      *)
LEMMA MarksAreTokens ==
    /\ {",", "{", "}", "NL", " ", ":", "/"} \subseteq Tokens
    /\ <<>> \in Texts
    /\ \A x \in Tokens : <<x>> \in Texts
    /\ \A a, b \in Texts : a \o b \in Texts
    /\ \A t \in Texts : Brace(t) \in Texts
<1>1. {",", "{", "}", "NL", " ", ":", "/"} \subseteq Tokens
  BY TokensAssumption DEF Marks
<1>2. <<>> \in Texts /\ \A x \in Tokens : <<x>> \in Texts
  BY EmptySeq, OneElement DEF Texts
<1>3. \A a, b \in Texts : a \o b \in Texts
  BY ConcatProperties DEF Texts
<1>4. "{" \in Tokens /\ "}" \in Tokens
  BY <1>1
<1>5. <<"{">> \in Texts /\ <<"}">> \in Texts
  BY <1>2, <1>4
<1>6. \A t \in Texts : Brace(t) \in Texts
  BY <1>3, <1>5 DEF Brace
<1>. QED
  BY <1>1, <1>2, <1>3, <1>6

(* What a shorter text lacks.                                               *)
LEMMA LackingAppend ==
    ASSUME NEW marks, NEW t \in Texts, NEW x \in Tokens
    PROVE  Append(t, x) \in Lacking(marks) <=> t \in Lacking(marks) /\ x \notin marks
<1>. DEFINE u == Append(t, x)
            n == Len(t)
<1>1. /\ u \in Texts /\ n \in Nat /\ Len(u) = n + 1
      /\ \A i \in 1 .. n : u[i] = t[i]
      /\ u[n + 1] = x
  BY Lengthened DEF Texts
<1>2. DOMAIN t = 1 .. n /\ DOMAIN u = 1 .. n + 1
  BY <1>1, LenProperties DEF Texts
<1>. HIDE DEF u, n
<1>3. n + 1 \in 1 .. n + 1 /\ 1 .. n \subseteq 1 .. n + 1
  BY <1>1
<1>4. ASSUME \A i \in 1 .. n : t[i] \notin marks, x \notin marks, NEW i \in 1 .. n + 1
      PROVE  u[i] \notin marks
  <2>1. CASE i = n + 1
    BY <1>1, <1>4, <2>1
  <2>2. CASE i \in 1 .. n
    BY <1>1, <1>4, <2>2
  <2>3. i = n + 1 \/ i \in 1 .. n
    BY <1>1
  <2>. QED
    BY <2>1, <2>2, <2>3
<1>5. ASSUME \A i \in 1 .. n + 1 : u[i] \notin marks
      PROVE  (\A i \in 1 .. n : t[i] \notin marks) /\ x \notin marks
  BY <1>1, <1>3, <1>5
<1>. QED
  BY <1>1, <1>2, <1>4, <1>5 DEF Lacking, u

(* A text has at least one piece.                                          *)
LEMMA SplitTyped ==
    ASSUME NEW text \in Texts
    PROVE  Split(text) \in Seq(Texts) /\ Len(Split(text)) \in Nat \ {0}
<1>. DEFINE T == {t \in Texts : Split(t) \in Seq(Texts) /\ Len(Split(t)) \in Nat \ {0}}
<1>1. <<>> \in T
  <2>1. Split(<<>>) = << <<>> >>
    BY CutSteps
  <2>2. <<>> \in Texts
    BY MarksAreTokens
  <2>3. << <<>> >> \in Seq(Texts) /\ Len(<< <<>> >>) = 1
    BY <2>2, OneElement
  <2>. DEFINE e == << <<>> >>
  <2>4. e \in Seq(Texts) /\ Len(e) = 1
    BY <2>3
  <2>5. Split(<<>>) = e
    BY <2>1
  <2>. HIDE DEF e
  <2>6. Split(<<>>) \in Seq(Texts) /\ Len(Split(<<>>)) \in Nat \ {0}
    <3>1. Len(e) \in Nat \ {0}
      BY <2>4
    <3>. QED
      BY <2>4, <2>5, <3>1, Zenon
  <2>. QED
    BY <2>2, <2>6
<1>2. ASSUME NEW t \in Seq(Tokens), NEW x \in Tokens, t \in T
      PROVE  Append(t, x) \in T
  <2>1. t \in Texts /\ Append(t, x) \in Texts
    BY Lengthened DEF Texts
  <2>2. Split(Append(t, x)) = Cut(Split(t), x)
    BY <2>1, CutSteps
  <2>. DEFINE c == Split(t)
              n == Len(c)
  <2>3. c \in Seq(Texts) /\ n \in Nat \ {0}
    BY <1>2
  <2>. HIDE DEF c, n
  <2>4. CASE x = ","
    <3>1. Append(c, <<>>) \in Seq(Texts) /\ Len(Append(c, <<>>)) = n + 1
      <4>1. <<>> \in Texts /\ c \in Seq(Texts)
        BY <2>3, MarksAreTokens
      <4>. QED
        BY <4>1, Lengthened, Zenon DEF n
    <3>2. Split(Append(t, x)) = Append(c, <<>>)
      BY <2>2, <2>4 DEF Cut, c
    <3>. DEFINE d == Append(c, <<>>)
    <3>. HIDE DEF d
    <3>. QED
      BY <2>1, <2>3, <3>1, <3>2 DEF d
  <2>5. CASE x # ","
    <3>1. n \in 1 .. Len(c) /\ c[n] \in Texts
      BY <2>3, ElementOfSeq DEF n
    <3>2. Append(c[n], x) \in Texts
      BY <3>1, Lengthened DEF Texts
    <3>3. /\ [c EXCEPT ![n] = Append(c[n], x)] \in Seq(Texts)
          /\ Len([c EXCEPT ![n] = Append(c[n], x)]) = n
      BY <2>3, <3>1, <3>2, ExceptSeq DEF n
    <3>4. Cut(c, x) = [c EXCEPT ![n] = Append(c[n], x)]
      BY <2>5 DEF Cut, n
    <3>. QED
      BY <2>1, <2>2, <2>3, <3>3, <3>4 DEF c, n
  <2>. QED
    BY <2>4, <2>5
<1>. HIDE DEF T
<1>3. \A t \in Seq(Tokens) : t \in T
  BY <1>1, <1>2, Appending
<1>. QED
  BY <1>3 DEF T, Texts

(* A text without a comma goes to the last piece.                           *)
LEMMA SplitOn ==
    ASSUME NEW a \in Texts, NEW b \in CommaFree
    PROVE  Split(a \o b) = [Split(a) EXCEPT ![Len(Split(a))] = @ \o b]
<1>. DEFINE c == Split(a)
            n == Len(c)
            T == {t \in Texts : t \in CommaFree => Split(a \o t) = [c EXCEPT ![n] = @ \o t]}
<1>1. c \in Seq(Texts) /\ n \in Nat \ {0} /\ n \in 1 .. n /\ c[n] \in Texts
  <2>1. c \in Seq(Texts) /\ n \in Nat \ {0} /\ n \in 1 .. n
    BY SplitTyped
  <2>. QED
    BY <2>1, ElementOfSeq
<1>2. <<>> \in T
  <2>1. a \o <<>> = a /\ c[n] \o <<>> = c[n] /\ <<>> \in Texts
    BY <1>1, ConcatEmptySeq, MarksAreTokens DEF Texts
  <2>2. [c EXCEPT ![n] = @ \o <<>>] = c
    BY <1>1, <2>1
  <2>. QED
    BY <2>1, <2>2
<1>. HIDE DEF c, n
<1>3. ASSUME NEW t \in Seq(Tokens), NEW x \in Tokens, t \in T
      PROVE  Append(t, x) \in T
  <2>1. t \in Texts /\ Append(t, x) \in Texts /\ a \o t \in Texts
    BY Lengthened, ConcatProperties DEF Texts
  <2>2. SUFFICES ASSUME Append(t, x) \in CommaFree
                 PROVE  Split(a \o Append(t, x)) = [c EXCEPT ![n] = @ \o Append(t, x)]
    BY <2>1
  <2>3. t \in CommaFree /\ x # ","
    BY <2>1, <2>2, LackingAppend DEF CommaFree
  <2>4. Split(a \o t) = [c EXCEPT ![n] = c[n] \o t]
    BY <1>3, <2>3
  <2>5. a \o Append(t, x) = Append(a \o t, x) /\ c[n] \o Append(t, x) = Append(c[n] \o t, x)
    <3>1. c[n] \in Texts
      BY <1>1
    <3>2. \A u, v \in Texts, y \in Tokens : u \o Append(v, y) = Append(u \o v, y)
      BY TextsChained
    <3>. QED
      BY <2>1, <3>1, <3>2, Zenon
  <2>6. Split(a \o Append(t, x)) = Cut(Split(a \o t), x)
    BY <2>1, <2>5, CutSteps
  <2>7. c[n] \o t \in Texts
    BY <1>1, <2>1, ConcatProperties DEF Texts
  <2>. DEFINE d == [c EXCEPT ![n] = c[n] \o t]
  <2>8. Len(d) = n /\ d[n] = c[n] \o t
    BY <1>1, <2>7, ExceptSeq DEF n
  <2>9. Cut(d, x) = [d EXCEPT ![n] = Append(d[n], x)]
    BY <2>3, <2>8 DEF Cut
  <2>10. [d EXCEPT ![n] = Append(d[n], x)] = [c EXCEPT ![n] = Append(c[n] \o t, x)]
    BY <1>1, <2>8
  <2>. QED
    BY <2>4, <2>5, <2>6, <2>9, <2>10
<1>. HIDE DEF T
<1>4. \A t \in Seq(Tokens) : t \in T
  BY <1>2, <1>3, Appending
<1>5. b \in T
  BY <1>4 DEF CommaFree, Lacking, Texts
<1>. QED
  BY <1>5 DEF T, c, n

(* A comma begins a new one.                                                *)
LEMMA SplitComma ==
    ASSUME NEW a \in Texts, NEW b \in CommaFree
    PROVE  Split(a \o (<<",">> \o b)) = Append(Split(a), b)
<1>. DEFINE c == Split(a)
            n == Len(c)
            d == Append(c, <<>>)
<1>1. c \in Seq(Texts) /\ n \in Nat /\ <<>> \in Texts /\ "," \in Tokens /\ b \in Texts
  BY SplitTyped, MarksAreTokens DEF CommaFree, Lacking
<1>2. a \o (<<",">> \o b) = Append(a, ",") \o b /\ <<>> \o b = b /\ Append(a, ",") \in Texts
  <2>. HIDE DEF c, n, d
  <2>1. a \o (<<",">> \o b) = Append(a, ",") \o b
    BY <1>1, TextsChained
  <2>2. <<>> \o b = b
    BY <1>1, TextsChained
  <2>3. Append(a, ",") \in Texts
    BY <1>1, TextsChained
  <2>. QED
    BY <2>1, <2>2, <2>3
<1>3. Split(Append(a, ",")) = d
  BY <1>1, CutSteps DEF Cut
<1>. HIDE DEF c
<1>4. Len(d) = n + 1 /\ d[n + 1] = <<>>
  BY <1>1, Lengthened, Zenon
<1>5. Split(Append(a, ",") \o b) = [d EXCEPT ![Len(d)] = d[Len(d)] \o b]
  BY <1>2, <1>3, SplitOn
<1>6. [d EXCEPT ![n + 1] = b] = Append(c, b)
  <2>1. c \in Seq(Texts) /\ <<>> \in Texts /\ b \in Texts
    BY <1>1
  <2>2. [Append(c, <<>>) EXCEPT ![Len(c) + 1] = b] = Append(c, b)
    BY <2>1, LastChanged
  <2>. QED
    BY <2>2
<1>. HIDE DEF d, n
<1>7. Split(Append(a, ",") \o b) = [d EXCEPT ![n + 1] = b]
  BY <1>2, <1>4, <1>5
<1>. QED
  BY <1>2, <1>6, <1>7 DEF c

(* What is joined is a text.                                               *)
LEMMA JoinedTyped ==
    ASSUME NEW ts \in Seq(Texts)
    PROVE  Joined(ts) \in Texts
<1>. DEFINE T == {s \in Seq(Texts) : Joined(s) \in Texts}
<1>1. <<>> \in T
  BY JoinedSteps, MarksAreTokens, EmptySeq
<1>2. ASSUME NEW s \in Seq(Texts), NEW t \in Texts, s \in T
      PROVE  Append(s, t) \in T
  <2>1. Append(s, t) \in Seq(Texts)
    BY Lengthened
  <2>2. CASE s = <<>>
    <3>1. Append(s, t) = <<t>>
      BY <2>2
    <3>. QED
      BY <2>1, <3>1, JoinedSteps
  <2>3. CASE s # <<>>
    <3>1. Joined(Append(s, t)) = Joined(s) \o (<<",">> \o t)
      BY <2>3, JoinedSteps
    <3>2. "," \in Tokens
      BY MarksAreTokens
    <3>. QED
      BY <1>2, <2>1, <3>1, <3>2, MarksAreTokens
  <2>. QED
    BY <2>2, <2>3
<1>. HIDE DEF T
<1>3. \A s \in Seq(Texts) : s \in T
  BY <1>1, <1>2, Appending
<1>. QED
  BY <1>3 DEF T

(* What was joined is found again.                                          *)
LEMMA SplitJoined ==
    ASSUME NEW ts \in Seq(CommaFree), ts # <<>>
    PROVE  Split(Joined(ts)) = ts
<1>. DEFINE T == {s \in Seq(CommaFree) : s # <<>> => Split(Joined(s)) = s}
<1>1. <<>> \in T
  BY EmptySeq
<1>2. ASSUME NEW s \in Seq(CommaFree), NEW t \in CommaFree, s \in T
      PROVE  Append(s, t) \in T
  <2>1. Append(s, t) \in Seq(CommaFree) /\ s \in Seq(Texts) /\ t \in Texts
    <3>1. CommaFree \subseteq Texts
      BY DEF CommaFree, Lacking
    <3>. QED
      BY <3>1, Lengthened, SeqMonotonic, Zenon
  <2>2. CASE s = <<>>
    <3>1. Append(s, t) = <<t>>
      BY <2>2
    <3>2. Joined(<<t>>) = t
      BY <2>1, JoinedSteps
    <3>3. <<>> \in Texts /\ <<>> \o t = t
      BY <2>1, MarksAreTokens, TextsChained
    <3>4. Split(<<>> \o t) = [Split(<<>>) EXCEPT ![Len(Split(<<>>))] = @ \o t]
      BY <3>3, SplitOn
    <3>. DEFINE e == << <<>> >>
    <3>5. Split(<<>>) = e /\ Len(e) = 1
      BY CutSteps
    <3>6. [e EXCEPT ![1] = e[1] \o t] = <<t>>
      BY <3>3
    <3>. HIDE DEF e
    <3>7. Split(t) = <<t>>
      BY <3>3, <3>4, <3>5, <3>6
    <3>. QED
      BY <2>1, <3>1, <3>2, <3>7
  <2>3. CASE s # <<>>
    <3>1. Joined(Append(s, t)) = Joined(s) \o (<<",">> \o t)
      BY <2>1, <2>3, JoinedSteps
    <3>2. Split(Joined(s) \o (<<",">> \o t)) = Append(Split(Joined(s)), t)
      BY <2>1, JoinedTyped, SplitComma
    <3>. QED
      BY <1>2, <2>1, <2>3, <3>1, <3>2
  <2>. QED
    BY <2>2, <2>3
<1>. HIDE DEF T
<1>3. \A s \in Seq(CommaFree) : s \in T
  BY <1>1, <1>2, Appending
<1>. QED
  BY <1>3 DEF T

-----------------------------------------------------------------------------
(* Names in braces                                                          *)

(* The last text of s has t added to it.                                    *)
Grown(s, t)  == [s EXCEPT ![Len(s)] = @ \o t]
Longer(s, x) == [s EXCEPT ![Len(s)] = Append(@, x)]

(* The last text of several grows.                                         *)
LEMMA Growing ==
    ASSUME NEW s \in Seq(Texts), s # <<>>, NEW t \in Texts, NEW x \in Tokens
    PROVE  /\ Grown(s, t) \in Seq(Texts) /\ Len(Grown(s, t)) = Len(s) /\ Grown(s, t) # <<>>
           /\ Grown(s, <<>>) = s
           /\ Longer(Grown(s, t), x) = Grown(s, Append(t, x))
<1>. DEFINE n == Len(s)
            g == Grown(s, t)
<1>1. n \in Nat /\ n \in 1 .. n /\ n # 0
  BY LenProperties, EmptySeq
<1>2. s[n] \in Texts
  BY <1>1, ElementOfSeq
<1>3. s[n] \o t \in Texts /\ s[n] \o <<>> = s[n]
  BY <1>2, TextsChained
<1>4. s[n] \o Append(t, x) = Append(s[n] \o t, x)
  BY <1>2, TextsChained
<1>. HIDE DEF n
<1>. DEFINE u == s[n] \o t
            v == s[n] \o Append(t, x)
<1>5. u \in Texts /\ v = Append(u, x)
  BY <1>3, <1>4
<1>6. g = [s EXCEPT ![n] = u]
  BY DEF Grown, n
<1>. HIDE DEF g, u, v
<1>7. g \in Seq(Texts) /\ Len(g) = n /\ g[n] = u
  BY <1>1, <1>5, <1>6, ExceptSeq DEF n
<1>8. Longer(g, x) = [s EXCEPT ![n] = v]
  BY <1>1, <1>5, <1>6, <1>7 DEF Longer
<1>9. Grown(s, Append(t, x)) = [s EXCEPT ![n] = v]
  BY DEF Grown, n, v
<1>10. Grown(s, <<>>) = s
  BY <1>1, <1>3 DEF Grown, n
<1>11. g # <<>>
  BY <1>1, <1>7, EmptySeq
<1>12. Len(s) = n
  BY DEF n
<1>. QED
  BY <1>7, <1>8, <1>9, <1>10, <1>11, <1>12 DEF g

(* A new text grows from nothing.                                          *)
LEMMA GrownNew ==
    ASSUME NEW s \in Seq(Texts), NEW t \in Texts
    PROVE  Grown(Append(s, <<>>), t) = Append(s, t)
<1>1. <<>> \in Texts /\ <<>> \o t = t
  BY MarksAreTokens, TextsChained
<1>2. [Append(s, <<>>) EXCEPT ![Len(s) + 1] = t] = Append(s, t)
  BY <1>1, LastChanged
<1>3. Len(Append(s, <<>>)) = Len(s) + 1 /\ Append(s, <<>>)[Len(s) + 1] = <<>>
  <2>. DEFINE e == <<>>
  <2>1. e \in Texts
    BY <1>1
  <2>. HIDE DEF e
  <2>2. Len(Append(s, e)) = Len(s) + 1 /\ Append(s, e)[Len(s) + 1] = e
    BY <2>1, Lengthened
  <2>. QED
    BY <2>2 DEF e
<1>. DEFINE d == Append(s, <<>>)
<1>4. Grown(d, t) = [d EXCEPT ![Len(d)] = d[Len(d)] \o t]
  BY DEF Grown
<1>5. d[Len(d)] \o t = t /\ Len(d) = Len(s) + 1
  BY <1>1, <1>3
<1>. HIDE DEF d
<1>6. Grown(d, t) = [d EXCEPT ![Len(s) + 1] = t]
  BY <1>4, <1>5
<1>. QED
  BY <1>2, <1>6 DEF d

LEMMA NamesLack == Names = Lacking({"}"})
  BY DEF Names, Lacking

(* In braces the walk collects.                                             *)
LEMMA WalkOn ==
    ASSUME NEW a \in Texts, NEW ns \in Seq(Texts), ns # <<>>,
           Walked(a) = [at |-> "in", names |-> ns], NEW b \in Names
    PROVE  Walked(a \o b) = [at |-> "in", names |-> Grown(ns, b)]
<1>. DEFINE T == {t \in Texts : t \in Names => Walked(a \o t) = [at |-> "in", names |-> Grown(ns, t)]}
<1>1. <<>> \in T
  <2>1. a \o <<>> = a /\ <<>> \in Texts /\ "," \in Tokens
    BY TextsChained, MarksAreTokens
  <2>2. Grown(ns, <<>>) = ns
    BY <2>1, Growing
  <2>. QED
    BY <2>1, <2>2
<1>2. ASSUME NEW t \in Seq(Tokens), NEW x \in Tokens, t \in T
      PROVE  Append(t, x) \in T
  <2>1. t \in Texts /\ Append(t, x) \in Texts /\ a \o t \in Texts
    BY TextsChained DEF Texts
  <2>2. SUFFICES ASSUME Append(t, x) \in Names
                 PROVE  Walked(a \o Append(t, x)) = [at |-> "in", names |-> Grown(ns, Append(t, x))]
    BY <2>1
  <2>3. t \in Names /\ x # "}"
    BY <2>1, <2>2, LackingAppend, NamesLack
  <2>4. Walked(a \o t) = [at |-> "in", names |-> Grown(ns, t)]
    BY <1>2, <2>3
  <2>5. a \o Append(t, x) = Append(a \o t, x)
    BY <2>1, TextsChained
  <2>6. Walked(Append(a \o t, x)) = Walk(Walked(a \o t), x)
    BY <2>1, WalkSteps
  <2>7. Longer(Grown(ns, t), x) = Grown(ns, Append(t, x))
    BY <2>1, Growing
  <2>. DEFINE g == Grown(ns, t)
              w == [at |-> "in", names |-> g]
  <2>. HIDE DEF g
  <2>8. Walk(w, x) = [at |-> "in", names |-> Longer(g, x)]
    BY <2>3 DEF Walk, Longer
  <2>. QED
    BY <2>4, <2>5, <2>6, <2>7, <2>8 DEF g
<1>. HIDE DEF T
<1>3. \A t \in Seq(Tokens) : t \in T
  BY <1>1, <1>2, Appending
<1>. QED
  BY <1>3 DEF T, Names, Texts

(* A text in braces, token by token.                                       *)
LEMMA BraceChained ==
    ASSUME NEW a \in Texts, NEW t \in Texts
    PROVE  /\ a \o Brace(t) = Append(Append(a, "{") \o t, "}")
           /\ Append(a, "{") \in Texts /\ Append(a, "{") \o t \in Texts
<1>1. "{" \in Tokens /\ "}" \in Tokens /\ "," \in Tokens
  BY MarksAreTokens
<1>2. <<"{">> \in Texts /\ <<"{">> \o t \in Texts /\ Append(a, "{") \in Texts /\ Append(a, "{") \o t \in Texts
  BY <1>1, TextsChained, MarksAreTokens
<1>. DEFINE o == <<"{">> \o t
<1>3. o \in Texts /\ Brace(t) = o \o <<"}">>
  BY <1>2 DEF Brace
<1>4. a \o o = Append(a, "{") \o t
  BY <1>1, TextsChained
<1>. HIDE DEF o
<1>5. \A u \in Texts : u \o <<"}">> = Append(u, "}")
  BY <1>1, AppendIsConcat DEF Texts
<1>6. Brace(t) = Append(o, "}")
  BY <1>3, <1>5
<1>7. a \o Append(o, "}") = Append(a \o o, "}")
  BY <1>1, <1>3, TextsChained
<1>. QED
  BY <1>2, <1>4, <1>6, <1>7

(* Between the names the walk passes over commas, and finds one more name.  *)
LEMMA WalkBraced ==
    ASSUME NEW a \in Texts, NEW ns \in Seq(Texts), NEW b \in Names,
           Walked(a) = [at |-> "between", names |-> ns]
    PROVE  /\ Walked(Append(a, ",")) = [at |-> "between", names |-> ns]
           /\ Walked(a \o Brace(b)) = [at |-> "between", names |-> Append(ns, b)]
<1>1. "{" \in Tokens /\ "}" \in Tokens /\ "," \in Tokens /\ b \in Texts /\ <<>> \in Texts
  BY MarksAreTokens DEF Names
<1>2. Walked(Append(a, ",")) = [at |-> "between", names |-> ns]
  <2>1. Walked(Append(a, ",")) = Walk(Walked(a), ",")
    BY <1>1, WalkSteps
  <2>2. Walk([at |-> "between", names |-> ns], ",") = [at |-> "between", names |-> ns]
    BY DEF Walk
  <2>. QED
    BY <2>1, <2>2
<1>. DEFINE o == Append(a, "{")
            new == Append(ns, <<>>)
<1>3. a \o Brace(b) = Append(o \o b, "}") /\ o \in Texts /\ o \o b \in Texts
  BY <1>1, BraceChained
<1>4. Walked(o) = [at |-> "in", names |-> new]
  <2>1. Walked(o) = Walk(Walked(a), "{")
    BY <1>1, WalkSteps
  <2>2. Walk([at |-> "between", names |-> ns], "{") = [at |-> "in", names |-> new]
    BY DEF Walk
  <2>. QED
    BY <2>1, <2>2
<1>5. new \in Seq(Texts) /\ Len(new) = Len(ns) + 1 /\ Len(ns) \in Nat
  <2>. DEFINE e == <<>>
  <2>1. e \in Texts
    BY <1>1
  <2>. HIDE DEF e
  <2>2. Append(ns, e) \in Seq(Texts) /\ Len(Append(ns, e)) = Len(ns) + 1 /\ Len(ns) \in Nat
    BY <2>1, Lengthened
  <2>. QED
    BY <2>2 DEF e
<1>6. Grown(new, b) = Append(ns, b)
  BY <1>1, GrownNew
<1>. HIDE DEF o, new
<1>7. new # <<>>
  BY <1>5, EmptySeq
<1>8. Walked(o \o b) = [at |-> "in", names |-> Append(ns, b)]
  BY <1>3, <1>4, <1>5, <1>6, <1>7, WalkOn
<1>9. Walked(Append(o \o b, "}")) = Walk(Walked(o \o b), "}")
  BY <1>1, <1>3, WalkSteps
<1>10. Walk([at |-> "in", names |-> Append(ns, b)], "}") = [at |-> "between", names |-> Append(ns, b)]
  BY DEF Walk
<1>. QED
  BY <1>2, <1>3, <1>8, <1>9, <1>10

(* Texts in braces.                                                        *)
Braced(ts) == [i \in DOMAIN ts |-> Brace(ts[i])]

(* Texts in braces, one behind the others.                                 *)
LEMMA BracedSteps ==
    /\ Braced(<<>>) = <<>>
    /\ \A ts \in Seq(Texts) : Braced(ts) \in Seq(Texts) /\ (ts # <<>> => Braced(ts) # <<>>)
    /\ \A ts \in Seq(Texts), t \in Texts : Braced(Append(ts, t)) = Append(Braced(ts), Brace(t))
<1>1. ASSUME NEW ts \in Seq(Texts)
      PROVE  /\ Braced(ts) \in Seq(Texts) /\ Len(Braced(ts)) = Len(ts) /\ Len(ts) \in Nat
             /\ \A i \in 1 .. Len(ts) : Braced(ts)[i] = Brace(ts[i])
             /\ (ts # <<>> => Braced(ts) # <<>>)
  <2>. DEFINE n == Len(ts)
  <2>1. n \in Nat /\ DOMAIN ts = 1 .. n /\ \A i \in 1 .. n : ts[i] \in Texts
    BY LenProperties, ElementOfSeq
  <2>2. \A i \in 1 .. n : Brace(ts[i]) \in Texts
    BY <2>1, MarksAreTokens
  <2>3. Braced(ts) \in [1 .. n -> Texts] /\ \A i \in 1 .. n : Braced(ts)[i] = Brace(ts[i])
    BY <2>1, <2>2 DEF Braced
  <2>4. Braced(ts) \in Seq(Texts) /\ Len(Braced(ts)) = n
    <3>. HIDE DEF n
    <3>. QED
      BY <2>1, <2>3, FunctionsAreSeqs
  <2>5. ts # <<>> => Braced(ts) # <<>>
    <3>1. ts # <<>> => n # 0
      BY EmptySeq
    <3>. QED
      BY <2>4, <3>1, EmptySeq
  <2>. QED
    BY <2>1, <2>3, <2>4, <2>5
<1>2. Braced(<<>>) = <<>>
  BY DEF Braced
<1>3. ASSUME NEW ts \in Seq(Texts), NEW t \in Texts
      PROVE  Braced(Append(ts, t)) = Append(Braced(ts), Brace(t))
  <2>. DEFINE n == Len(ts)
              b == Braced(ts)
              l == Append(ts, t)
              bl == Braced(l)
              lb == Append(b, Brace(t))
  <2>1. l \in Seq(Texts) /\ Len(l) = n + 1 /\ n \in Nat /\ l[n + 1] = t /\ \A i \in 1 .. n : l[i] = ts[i]
    BY Lengthened
  <2>2. b \in Seq(Texts) /\ Len(b) = n /\ \A i \in 1 .. n : b[i] = Brace(ts[i])
    BY <1>1
  <2>3. Brace(t) \in Texts
    BY MarksAreTokens
  <2>. HIDE DEF b, l
  <2>4. bl \in Seq(Texts) /\ Len(bl) = n + 1 /\ \A i \in 1 .. n + 1 : bl[i] = Brace(l[i])
    BY <1>1, <2>1
  <2>5. /\ lb \in Seq(Texts) /\ Len(lb) = n + 1 /\ lb[n + 1] = Brace(t)
        /\ \A i \in 1 .. n : lb[i] = b[i]
    <3>. HIDE DEF n
    <3>1. /\ lb \in Seq(Texts) /\ Len(lb) = Len(b) + 1 /\ lb[Len(b) + 1] = Brace(t)
          /\ \A i \in 1 .. Len(b) : lb[i] = b[i]
      BY <2>2, <2>3, Lengthened
    <3>. QED
      BY <2>2, <3>1
  <2>. HIDE DEF bl, lb, n
  <2>6. ASSUME NEW i \in 1 .. n + 1
        PROVE  bl[i] = lb[i]
    <3>1. i = n + 1 \/ i \in 1 .. n
      BY <2>1
    <3>2. CASE i = n + 1
      BY <2>1, <2>4, <2>5, <3>2
    <3>3. CASE i \in 1 .. n
      BY <2>1, <2>2, <2>4, <2>5, <3>3
    <3>. QED
      BY <3>1, <3>2, <3>3
  <2>7. bl = lb
    BY <2>4, <2>5, <2>6, SeqEqual
  <2>. QED
    BY <2>7 DEF bl, lb, b, l
<1>. QED
  BY <1>1, <1>2, <1>3

(* parse_outlet_names() finds the names a device lists.                     *)
LEMMA WalkedJoined ==
    ASSUME NEW ns \in Seq(Names)
    PROVE  Walked(Joined(Braced(ns))) = [at |-> "between", names |-> ns]
<1>. DEFINE T == {s \in Seq(Names) : Walked(Joined(Braced(s))) = [at |-> "between", names |-> s]}
<1>1. <<>> \in T
  BY WalkSteps, JoinedSteps, BracedSteps, EmptySeq
<1>2. ASSUME NEW s \in Seq(Names), NEW b \in Names, s \in T
      PROVE  Append(s, b) \in T
  <2>1. Names \subseteq Texts
    BY DEF Names
  <2>2. s \in Seq(Texts) /\ b \in Texts /\ Append(s, b) \in Seq(Names)
    BY <2>1, SeqMonotonic, Lengthened
  <2>. DEFINE j == Joined(Braced(s))
  <2>3. j \in Texts /\ Braced(s) \in Seq(Texts) /\ Brace(b) \in Texts /\ <<>> \in Texts
    BY <2>2, BracedSteps, JoinedTyped, MarksAreTokens
  <2>4. Braced(Append(s, b)) = Append(Braced(s), Brace(b))
    BY <2>2, BracedSteps
  <2>5. Walked(j) = [at |-> "between", names |-> s]
    BY <1>2
  <2>6. CASE s = <<>>
    <3>1. Joined(Append(Braced(s), Brace(b))) = Brace(b)
      <4>1. Append(Braced(s), Brace(b)) = <<Brace(b)>>
        <5>1. Braced(s) = <<>>
          BY <2>6, BracedSteps
        <5>2. Append(<<>>, Brace(b)) = <<Brace(b)>>
          OBVIOUS
        <5>. QED
          BY <5>1, <5>2, Zenon
      <4>. QED
        BY <2>3, <4>1, JoinedSteps
    <3>2. <<>> \o Brace(b) = Brace(b)
      BY <2>3, TextsChained
    <3>3. Walked(<<>> \o Brace(b)) = [at |-> "between", names |-> Append(s, b)]
      <4>1. Walked(<<>>) = [at |-> "between", names |-> s]
        BY <2>6, WalkSteps
      <4>. QED
        BY <2>2, <2>3, <4>1, WalkBraced
    <3>. QED
      BY <2>2, <2>4, <3>1, <3>2, <3>3
  <2>7. CASE s # <<>>
    <3>1. Joined(Append(Braced(s), Brace(b))) = j \o (<<",">> \o Brace(b))
      <4>1. Braced(s) # <<>>
        BY <2>2, <2>7, BracedSteps
      <4>. QED
        BY <2>3, <4>1, JoinedSteps
    <3>2. "," \in Tokens
      BY MarksAreTokens
    <3>. HIDE DEF j
    <3>3. j \o (<<",">> \o Brace(b)) = Append(j, ",") \o Brace(b) /\ Append(j, ",") \in Texts
      BY <2>3, <3>2, TextsChained
    <3>4. Walked(Append(j, ",")) = [at |-> "between", names |-> s]
      BY <2>2, <2>3, <2>5, WalkBraced
    <3>5. Walked(Append(j, ",") \o Brace(b)) = [at |-> "between", names |-> Append(s, b)]
      BY <2>2, <3>3, <3>4, WalkBraced
    <3>. QED
      BY <2>2, <2>4, <3>1, <3>3, <3>5
  <2>. QED
    BY <2>6, <2>7
<1>. HIDE DEF T
<1>3. \A s \in Seq(Names) : s \in T
  BY <1>1, <1>2, Appending
<1>. QED
  BY <1>3 DEF T

-----------------------------------------------------------------------------
(* What the device finds in braces                                          *)

Unbraced == Lacking({"{", "}"})

(* In braces it collects, elsewhere it passes over.                         *)
LEMMA GatherOn ==
    ASSUME NEW a \in Texts, NEW ts \in Seq(Texts), NEW open \in BOOLEAN, open => ts # <<>>,
           Gathered(a) = [open |-> open, texts |-> ts], NEW b \in Unbraced
    PROVE  Gathered(a \o b) = [open |-> open, texts |-> IF open THEN Grown(ts, b) ELSE ts]
<1>. DEFINE Found(t) == IF open THEN Grown(ts, t) ELSE ts
            T == {t \in Texts : t \in Unbraced => Gathered(a \o t) = [open |-> open, texts |-> Found(t)]}
<1>1. <<>> \in T
  <2>1. a \o <<>> = a /\ <<>> \in Texts /\ "," \in Tokens
    BY TextsChained, MarksAreTokens
  <2>2. open => Grown(ts, <<>>) = ts
    BY <2>1, Growing
  <2>. QED
    BY <2>1, <2>2
<1>2. ASSUME NEW t \in Seq(Tokens), NEW x \in Tokens, t \in T
      PROVE  Append(t, x) \in T
  <2>1. t \in Texts /\ Append(t, x) \in Texts /\ a \o t \in Texts
    BY TextsChained DEF Texts
  <2>2. SUFFICES ASSUME Append(t, x) \in Unbraced
                 PROVE  Gathered(a \o Append(t, x)) = [open |-> open, texts |-> Found(Append(t, x))]
    BY <2>1
  <2>3. t \in Unbraced /\ x \notin {"{", "}"}
    BY <2>1, <2>2, LackingAppend DEF Unbraced
  <2>4. Gathered(a \o t) = [open |-> open, texts |-> Found(t)]
    BY <1>2, <2>3
  <2>5. a \o Append(t, x) = Append(a \o t, x)
    BY <2>1, TextsChained
  <2>6. Gathered(Append(a \o t, x)) = Gather(Gathered(a \o t), x)
    BY <2>1, GatherSteps
  <2>. DEFINE g == Found(t)
  <2>7. Gather([open |-> open, texts |-> g], x) = [open |-> open, texts |-> IF open THEN Longer(g, x) ELSE g]
    <3>. HIDE DEF g
    <3>. QED
      BY <2>3 DEF Gather, Longer
  <2>8. open => Longer(Grown(ts, t), x) = Grown(ts, Append(t, x))
    BY <2>1, Growing
  <2>9. (IF open THEN Longer(g, x) ELSE g) = Found(Append(t, x))
    BY <2>8
  <2>. HIDE DEF Found
  <2>. QED
    BY <2>4, <2>5, <2>6, <2>7, <2>9
<1>. HIDE DEF T
<1>3. \A t \in Seq(Tokens) : t \in T
  BY <1>1, <1>2, Appending
<1>. QED
  BY <1>3 DEF T, Unbraced, Lacking, Texts

(* A comma or a text between braces is passed over, one in braces is found.*)
LEMMA GatherBraced ==
    ASSUME NEW a \in Texts, NEW ts \in Seq(Texts), NEW b \in Unbraced,
           Gathered(a) = [open |-> FALSE, texts |-> ts]
    PROVE  /\ Gathered(Append(a, ",")) = [open |-> FALSE, texts |-> ts]
           /\ Gathered(a \o b) = [open |-> FALSE, texts |-> ts]
           /\ Gathered(a \o Brace(b)) = [open |-> FALSE, texts |-> Append(ts, b)]
<1>1. "{" \in Tokens /\ "}" \in Tokens /\ "," \in Tokens /\ b \in Texts /\ <<>> \in Texts
  BY MarksAreTokens DEF Unbraced, Lacking
<1>2. Gathered(Append(a, ",")) = [open |-> FALSE, texts |-> ts]
  <2>1. Gathered(Append(a, ",")) = Gather(Gathered(a), ",")
    BY <1>1, GatherSteps
  <2>2. Gather([open |-> FALSE, texts |-> ts], ",") = [open |-> FALSE, texts |-> ts]
    BY DEF Gather
  <2>. QED
    BY <2>1, <2>2
<1>3. Gathered(a \o b) = [open |-> FALSE, texts |-> ts]
  BY GatherOn
<1>. DEFINE o == Append(a, "{")
            new == Append(ts, <<>>)
<1>4. a \o Brace(b) = Append(o \o b, "}") /\ o \in Texts /\ o \o b \in Texts
  BY <1>1, BraceChained
<1>5. Gathered(o) = [open |-> TRUE, texts |-> new]
  <2>1. Gathered(o) = Gather(Gathered(a), "{")
    BY <1>1, GatherSteps
  <2>2. Gather([open |-> FALSE, texts |-> ts], "{") = [open |-> TRUE, texts |-> new]
    BY DEF Gather
  <2>. QED
    BY <2>1, <2>2
<1>6. new \in Seq(Texts) /\ Len(new) = Len(ts) + 1 /\ Len(ts) \in Nat
  <2>. DEFINE e == <<>>
  <2>1. e \in Texts
    BY <1>1
  <2>. HIDE DEF e
  <2>2. Append(ts, e) \in Seq(Texts) /\ Len(Append(ts, e)) = Len(ts) + 1 /\ Len(ts) \in Nat
    BY <2>1, Lengthened
  <2>. QED
    BY <2>2 DEF e
<1>7. Grown(new, b) = Append(ts, b)
  BY <1>1, GrownNew
<1>. HIDE DEF o, new
<1>8. new # <<>>
  BY <1>6, EmptySeq
<1>9. Gathered(o \o b) = [open |-> TRUE, texts |-> Append(ts, b)]
  <2>1. Gathered(o \o b) = [open |-> TRUE, texts |-> IF TRUE THEN Grown(new, b) ELSE new]
    BY <1>4, <1>5, <1>6, <1>8, GatherOn
  <2>. QED
    BY <1>7, <2>1
<1>10. Gathered(Append(o \o b, "}")) = Gather(Gathered(o \o b), "}")
  BY <1>1, <1>4, GatherSteps
<1>11. Gather([open |-> TRUE, texts |-> Append(ts, b)], "}") = [open |-> FALSE, texts |-> Append(ts, b)]
  BY DEF Gather
<1>. QED
  BY <1>2, <1>3, <1>4, <1>9, <1>10, <1>11

(* The device finds the texts that were put in braces.                     *)
LEMMA GatheredJoined ==
    ASSUME NEW ts \in Seq(Unbraced)
    PROVE  Gathered(Joined(Braced(ts))) = [open |-> FALSE, texts |-> ts]
<1>. DEFINE T == {s \in Seq(Unbraced) : Gathered(Joined(Braced(s))) = [open |-> FALSE, texts |-> s]}
<1>1. <<>> \in T
  BY GatherSteps, JoinedSteps, BracedSteps, EmptySeq
<1>2. ASSUME NEW s \in Seq(Unbraced), NEW b \in Unbraced, s \in T
      PROVE  Append(s, b) \in T
  <2>1. Unbraced \subseteq Texts
    BY DEF Unbraced, Lacking
  <2>2. s \in Seq(Texts) /\ b \in Texts /\ Append(s, b) \in Seq(Unbraced)
    BY <2>1, SeqMonotonic, Lengthened
  <2>. DEFINE j == Joined(Braced(s))
  <2>3. j \in Texts /\ Braced(s) \in Seq(Texts) /\ Brace(b) \in Texts /\ <<>> \in Texts
    BY <2>2, BracedSteps, JoinedTyped, MarksAreTokens
  <2>4. Braced(Append(s, b)) = Append(Braced(s), Brace(b))
    BY <2>2, BracedSteps
  <2>5. Gathered(j) = [open |-> FALSE, texts |-> s]
    BY <1>2
  <2>6. CASE s = <<>>
    <3>1. Joined(Append(Braced(s), Brace(b))) = Brace(b)
      <4>1. Append(Braced(s), Brace(b)) = <<Brace(b)>>
        <5>1. Braced(s) = <<>>
          BY <2>6, BracedSteps
        <5>2. Append(<<>>, Brace(b)) = <<Brace(b)>>
          OBVIOUS
        <5>. QED
          BY <5>1, <5>2, Zenon
      <4>. QED
        BY <2>3, <4>1, JoinedSteps
    <3>2. <<>> \o Brace(b) = Brace(b)
      BY <2>3, TextsChained
    <3>3. Gathered(<<>> \o Brace(b)) = [open |-> FALSE, texts |-> Append(s, b)]
      <4>1. Gathered(<<>>) = [open |-> FALSE, texts |-> s]
        BY <2>6, GatherSteps
      <4>. QED
        BY <2>2, <2>3, <4>1, GatherBraced
    <3>. QED
      BY <2>2, <2>4, <3>1, <3>2, <3>3
  <2>7. CASE s # <<>>
    <3>1. Joined(Append(Braced(s), Brace(b))) = j \o (<<",">> \o Brace(b))
      <4>1. Braced(s) # <<>>
        BY <2>2, <2>7, BracedSteps
      <4>. QED
        BY <2>3, <4>1, JoinedSteps
    <3>2. "," \in Tokens
      BY MarksAreTokens
    <3>. HIDE DEF j
    <3>3. j \o (<<",">> \o Brace(b)) = Append(j, ",") \o Brace(b) /\ Append(j, ",") \in Texts
      BY <2>3, <3>2, TextsChained
    <3>4. Gathered(Append(j, ",")) = [open |-> FALSE, texts |-> s]
      BY <2>2, <2>3, <2>5, GatherBraced
    <3>5. Gathered(Append(j, ",") \o Brace(b)) = [open |-> FALSE, texts |-> Append(s, b)]
      BY <2>2, <3>3, <3>4, GatherBraced
    <3>. QED
      BY <2>2, <2>4, <3>1, <3>3, <3>5
  <2>. QED
    BY <2>6, <2>7
<1>. HIDE DEF T
<1>3. \A s \in Seq(Unbraced) : s \in T
  BY <1>1, <1>2, Appending
<1>. QED
  BY <1>3 DEF T

(* What stands behind a comma leaves the pieces before it alone.            *)
LEMMA SplitPrefix ==
    ASSUME NEW a \in Texts, NEW b \in Texts
    PROVE  \A i \in 1 .. Len(Split(a)) - 1 : Split(a \o b)[i] = Split(a)[i]
<1>. DEFINE n == Len(Split(a))
            Kept(t) == LET s == Split(a \o t)
                       IN n <= Len(s) /\ \A i \in 1 .. n - 1 : s[i] = Split(a)[i]
            T == {t \in Texts : Kept(t)}
<1>0. n \in Nat \ {0}
  BY SplitTyped
<1>1. <<>> \in T
  <2>1. a \o <<>> = a /\ <<>> \in Texts
    BY TextsChained, MarksAreTokens
  <2>. QED
    BY <1>0, <2>1
<1>2. ASSUME NEW t \in Seq(Tokens), NEW x \in Tokens, t \in T
      PROVE  Append(t, x) \in T
  <2>1. t \in Texts /\ Append(t, x) \in Texts /\ a \o t \in Texts
    BY TextsChained DEF Texts
  <2>. DEFINE s == Split(a \o t)
              m == Len(s)
              u == Split(a \o Append(t, x))
  <2>2. u = Cut(s, x)
    <3>1. a \o Append(t, x) = Append(a \o t, x)
      BY <2>1, TextsChained
    <3>. QED
      BY <2>1, <3>1, CutSteps
  <2>3. n <= m /\ \A i \in 1 .. n - 1 : s[i] = Split(a)[i]
    BY <1>2
  <2>4. s \in Seq(Texts) /\ m \in Nat \ {0}
    BY <2>1, SplitTyped
  <2>5. n <= Len(u) /\ \A i \in 1 .. n - 1 : u[i] = s[i]
    <3>. HIDE DEF s, u, n
    <3>1. CASE x = ","
      <4>. DEFINE e == <<>>
      <4>1. u = Append(s, e)
        BY <2>2, <3>1 DEF Cut
      <4>2. e \in Texts
        BY MarksAreTokens
      <4>. HIDE DEF e
      <4>3. Len(u) = m + 1 /\ \A i \in 1 .. m : u[i] = s[i]
        BY <2>4, <4>1, <4>2, Lengthened
      <4>. QED
        BY <1>0, <2>3, <2>4, <4>3
    <3>2. CASE x # ","
      <4>. DEFINE v == Append(s[m], x)
      <4>1. u = [s EXCEPT ![m] = v]
        BY <2>2, <3>2 DEF Cut
      <4>2. m \in 1 .. m /\ s[m] \in Texts
        BY <2>4, ElementOfSeq
      <4>3. v \in Texts
        BY <4>2, TextsChained
      <4>. HIDE DEF v
      <4>4. Len(u) = m /\ \A i \in 1 .. m : u[i] = IF i = m THEN v ELSE s[i]
        BY <2>4, <4>1, <4>2, <4>3, ExceptSeq
      <4>. QED
        BY <1>0, <2>3, <2>4, <4>4
    <3>. QED
      BY <3>1, <3>2
  <2>. HIDE DEF s, u
  <2>6. Kept(Append(t, x))
    BY <2>3, <2>5 DEF u
  <2>. QED
    BY <2>1, <2>6
<1>. HIDE DEF T
<1>3. \A t \in Seq(Tokens) : t \in T
  BY <1>1, <1>2, Appending
<1>. QED
  BY <1>3 DEF T, Texts

-----------------------------------------------------------------------------
(* Words and numerals                                                       *)

Simple == Tokens \ (Marks \cup {" "})
Single == {t \in Texts : \E x \in Simple : t = <<x>>}

(* Texts of one word or numeral need no care.                              *)
LEMMA Singles ==
    /\ \A x \in Simple : <<x>> \in Single
    /\ \A t \in Single : /\ Len(t) = 1 /\ t = <<t[1]>> /\ t[1] \in Simple /\ t \in Texts
                         /\ t \in CommaFree /\ t \in Unbraced /\ t \in Names
    /\ Single \subseteq CommaFree
<1>1. ASSUME NEW x \in Simple
      PROVE  <<x>> \in Single
  <2>1. x \in Tokens
    BY DEF Simple
  <2>2. <<x>> \in Texts
    BY <2>1, MarksAreTokens
  <2>. QED
    BY <2>2 DEF Single
<1>2. ASSUME NEW t \in Single
      PROVE  /\ Len(t) = 1 /\ t = <<t[1]>> /\ t[1] \in Simple /\ t \in Texts
             /\ t \in CommaFree /\ t \in Unbraced /\ t \in Names
  <2>1. PICK x \in Simple : t = <<x>>
    BY DEF Single
  <2>2. t \in Texts
    BY DEF Single
  <2>3. Len(t) = 1 /\ t[1] = x /\ DOMAIN t = {1}
    BY <2>1
  <2>4. x \notin {",", "{", "}", " "}
    BY DEF Simple, Marks
  <2>. QED
    BY <2>1, <2>2, <2>3, <2>4 DEF CommaFree, Unbraced, Names, Lacking
<1>. QED
  BY <1>1, <1>2

(* A numeral stands for its number.                                        *)
LEMMA Numbered ==
    ASSUME NEW n \in Numbers
    PROVE  /\ ToString(n) \in Simple /\ Num(n) \in Single /\ Num(n)[1] = ToString(n)
           /\ ToString(n) \in DOMAIN NumOf /\ NumOf[ToString(n)] = n /\ NumOf[Num(n)[1]] = n
           /\ n \in Int
<1>1. ToString(n) \in Simple
  BY NumbersAssumption DEF Simple, Readings, Numerals
<1>2. Num(n) \in Single /\ Num(n)[1] = ToString(n)
  BY <1>1, Singles DEF Num
<1>3. ToString(n) \in {ToString(m) : m \in Numbers}
  OBVIOUS
<1>4. NumOf[ToString(n)] = CHOOSE m \in Numbers : ToString(m) = ToString(n)
  BY <1>3 DEF NumOf
<1>. DEFINE c == CHOOSE m \in Numbers : ToString(m) = ToString(n)
<1>5. c \in Numbers /\ ToString(c) = ToString(n)
  OBVIOUS
<1>. HIDE DEF c
<1>6. c = n
  BY <1>5, NumbersAssumption
<1>. QED
  BY <1>1, <1>2, <1>3, <1>4, <1>6, NumbersAssumption DEF c, NumOf

(* A single token has no blanks around it.                                 *)
LEMMA StripOne ==
    ASSUME NEW t \in Single
    PROVE  Strip(t) = t
<1>1. Len(t) = 1 /\ t = <<t[1]>> /\ t[1] # " "
  BY Singles DEF Simple
<1>2. {i \in DOMAIN t : t[i] # " "} = {1}
  <2>1. DOMAIN t = 1 .. 1
    BY <1>1, Singles, LenProperties DEF Texts
  <2>2. \A i : i \in 1 .. 1 <=> i = 1
    OBVIOUS
  <2>. QED
    BY <1>1, <2>1, <2>2, Zenon
<1>3. Min({1}) = 1 /\ Max({1}) = 1
  BY DEF Min, Max
<1>4. SubSeq(t, 1, 1) = t
  <2>1. t \in Seq(Tokens)
    BY Singles DEF Texts
  <2>. QED
    BY <1>1, <2>1, SubSeqFull
<1>. QED
  BY <1>2, <1>3, <1>4 DEF Strip

(* Words and numerals that are joined come apart as they were.             *)
LEMMA PartsJoined ==
    ASSUME NEW ts \in Seq(Single), ts # <<>>
    PROVE  /\ Split(Joined(ts)) = ts /\ Parts(Joined(ts)) = ts
           /\ Len(ts) \in Nat \ {0} /\ DOMAIN ts = 1 .. Len(ts)
           /\ \A i \in DOMAIN ts : ts[i] \in Single
<1>1. ts \in Seq(CommaFree)
  BY Singles, SeqMonotonic
<1>2. Split(Joined(ts)) = ts
  BY <1>1, SplitJoined
<1>3. Len(ts) \in Nat /\ DOMAIN ts = 1 .. Len(ts) /\ \A i \in DOMAIN ts : ts[i] \in Single
  BY LenProperties, ElementOfSeq
<1>4. Parts(Joined(ts)) = [i \in DOMAIN ts |-> Strip(ts[i])]
  BY <1>2 DEF Parts
<1>5. [i \in DOMAIN ts |-> Strip(ts[i])] = [i \in DOMAIN ts |-> ts[i]]
  BY <1>3, StripOne
<1>6. [i \in DOMAIN ts |-> ts[i]] = ts
  BY <1>3
<1>. QED
  BY <1>2, <1>3, <1>4, <1>5, <1>6, EmptySeq

LEMMA AppendedToNone == \A x : Append(<<>>, x) = <<x>>
  OBVIOUS

(* Texts without braces make texts without braces.                         *)
LEMMA UnbracedChained ==
    /\ \A a, b \in Unbraced : a \o b \in Unbraced
    /\ <<>> \in Unbraced /\ <<",">> \in Unbraced /\ <<":">> \in Unbraced /\ <<"/">> \in Unbraced
<1>1. ASSUME NEW a \in Unbraced, NEW b \in Unbraced
      PROVE  a \o b \in Unbraced
  <2>1. a \in Seq(Tokens) /\ b \in Seq(Tokens)
    BY DEF Unbraced, Lacking, Texts
  <2>2. /\ a \o b \in Seq(Tokens) /\ Len(a) \in Nat /\ Len(b) \in Nat
        /\ Len(a \o b) = Len(a) + Len(b)
        /\ \A i \in 1 .. Len(a) + Len(b) : (a \o b)[i] = IF i <= Len(a) THEN a[i] ELSE b[i - Len(a)]
    BY <2>1, ConcatProperties, LenProperties
  <2>3. DOMAIN a = 1 .. Len(a) /\ DOMAIN b = 1 .. Len(b) /\ DOMAIN (a \o b) = 1 .. Len(a) + Len(b)
    BY <2>1, <2>2, LenProperties
  <2>4. (\A i \in 1 .. Len(a) : a[i] \notin {"{", "}"}) /\ (\A i \in 1 .. Len(b) : b[i] \notin {"{", "}"})
    BY <2>3 DEF Unbraced, Lacking
  <2>5. ASSUME NEW i \in 1 .. Len(a) + Len(b)
        PROVE  (a \o b)[i] \notin {"{", "}"}
    <3>1. CASE i <= Len(a)
      <4>1. i \in 1 .. Len(a)
        BY <2>2, <3>1
      <4>. QED
        BY <2>2, <2>4, <3>1, <4>1
    <3>2. CASE ~ (i <= Len(a))
      <4>1. i - Len(a) \in 1 .. Len(b)
        BY <2>2, <3>2
      <4>. QED
        BY <2>2, <2>4, <3>2, <4>1
    <3>. QED
      BY <3>1, <3>2
  <2>. QED
    BY <2>2, <2>3, <2>5 DEF Unbraced, Lacking, Texts
<1>2. <<>> \in Unbraced
  <2>. DEFINE d == <<>>
  <2>1. d \in Texts /\ Len(d) = 0
    BY MarksAreTokens, EmptySeq
  <2>. HIDE DEF d
  <2>2. DOMAIN d = {}
    BY <2>1, LenProperties DEF Texts
  <2>3. d \in Unbraced
    BY <2>1, <2>2 DEF Unbraced, Lacking
  <2>. QED
    BY <2>3 DEF d
<1>3. ASSUME NEW x \in {",", ":", "/"}
      PROVE  <<x>> \in Unbraced
  <2>1. x \in Tokens /\ x \notin {"{", "}"}
    BY MarksAreTokens
  <2>2. Append(<<>>, x) \in Unbraced
    BY <1>2, <2>1, MarksAreTokens, LackingAppend DEF Unbraced
  <2>3. Append(<<>>, x) = <<x>>
    BY <2>1, AppendedToNone
  <2>. QED
    BY <2>2, <2>3
<1>. QED
  BY <1>1, <1>2, <1>3

LEMMA JoinedUnbraced ==
    ASSUME NEW ts \in Seq(Single)
    PROVE  Joined(ts) \in Unbraced
<1>. DEFINE T == {s \in Seq(Single) : Joined(s) \in Unbraced}
<1>1. <<>> \in T
  BY JoinedSteps, UnbracedChained, EmptySeq
<1>2. ASSUME NEW s \in Seq(Single), NEW t \in Single, s \in T
      PROVE  Append(s, t) \in T
  <2>1. Single \subseteq Texts /\ t \in Unbraced
    BY Singles DEF Single
  <2>2. Append(s, t) \in Seq(Single) /\ s \in Seq(Texts) /\ t \in Texts
    BY <2>1, Lengthened, SeqMonotonic
  <2>3. CASE s = <<>>
    <3>1. Append(s, t) = <<t>>
      BY <2>3
    <3>. QED
      BY <2>1, <2>2, <3>1, JoinedSteps
  <2>4. CASE s # <<>>
    <3>1. Joined(Append(s, t)) = Joined(s) \o (<<",">> \o t)
      BY <2>2, <2>4, JoinedSteps
    <3>2. <<",">> \o t \in Unbraced
      BY <2>1, UnbracedChained
    <3>. QED
      BY <1>2, <2>2, <3>1, <3>2, UnbracedChained
  <2>. QED
    BY <2>3, <2>4
<1>. HIDE DEF T
<1>3. \A s \in Seq(Single) : s \in T
  BY <1>1, <1>2, Appending
<1>. QED
  BY <1>3 DEF T

(* Numbers come back from their list.                                      *)
LEMMA IntsNums ==
    ASSUME NEW ns \in Seq(Numbers), ns # <<>>
    PROVE  Ints(Nums(ns)) = ns /\ Nums(ns) \in Unbraced
<1>. DEFINE ts == [i \in DOMAIN ns |-> Num(ns[i])]
<1>1. Len(ns) \in Nat /\ DOMAIN ns = 1 .. Len(ns) /\ \A i \in DOMAIN ns : ns[i] \in Numbers
  BY LenProperties, ElementOfSeq
<1>2. \A i \in DOMAIN ns : Num(ns[i]) \in Single /\ NumOf[Num(ns[i])[1]] = ns[i]
  BY <1>1, Numbered
<1>3. ts \in [1 .. Len(ns) -> Single] /\ DOMAIN ts = DOMAIN ns
  BY <1>1, <1>2
<1>4. ts \in Seq(Single) /\ Len(ts) = Len(ns)
  <2>. HIDE DEF ts
  <2>. QED
    BY <1>1, <1>3, FunctionsAreSeqs
<1>5. ts # <<>>
  BY <1>4, EmptySeq
<1>6. Split(Nums(ns)) = ts
  BY <1>4, <1>5, PartsJoined DEF Nums
<1>7. Ints(Nums(ns)) = [i \in DOMAIN ts |-> NumOf[ts[i][1]]]
  BY <1>6 DEF Ints
<1>8. [i \in DOMAIN ts |-> NumOf[ts[i][1]]] = [i \in DOMAIN ns |-> ns[i]]
  BY <1>2, <1>3
<1>9. [i \in DOMAIN ns |-> ns[i]] = ns
  BY <1>1
<1>10. Nums(ns) \in Unbraced
  BY <1>4, <1>5, JoinedUnbraced DEF Nums
<1>. QED
  BY <1>7, <1>8, <1>9, <1>10

(* A list of words and numerals is not the empty text.                     *)
LEMMA JoinedNotEmpty ==
    ASSUME NEW ts \in Seq(Single), ts # <<>>
    PROVE  Joined(ts) # <<>>
<1>. DEFINE e == << <<>> >>
<1>1. Split(<<>>) = e /\ Len(e) = 1 /\ e[1] = <<>>
  BY CutSteps
<1>. HIDE DEF e
<1>2. Split(Joined(ts)) = ts /\ 1 \in DOMAIN ts /\ ts[1] \in Single
  BY PartsJoined
<1>3. Len(ts[1]) = 1
  BY <1>2, Singles
<1>. QED
  BY <1>1, <1>2, <1>3, EmptySeq

-----------------------------------------------------------------------------
(* Queries                                                                  *)

(* The reply is the first line that answers, whatever stands before it.     *)
LEMMA ReplyFound ==
    ASSUME NEW q \in Queries, NEW noise \in Noise, NEW reply, AnswersTo(q[1], FALSE, reply)
    PROVE  ReadResponse(q[1], FALSE, noise \o <<reply>>) = reply
<1>. DEFINE n == Len(noise)
            S == {noise[i] : i \in DOMAIN noise} \cup {reply}
            lines == Append(noise, reply)
            A == {i \in DOMAIN lines : AnswersTo(q[1], FALSE, lines[i])}
<1>1. n \in Nat /\ noise \in [1 .. n -> S]
  BY NoiseAssumption, LenProperties
<1>2. noise \in Seq(S) /\ reply \in S
  <2>. HIDE DEF S
  <2>1. noise \in Seq(S)
    BY <1>1, FunctionsAreSeqs
  <2>. QED
    BY <2>1 DEF S
<1>. HIDE DEF S
<1>3. noise \o <<reply>> = lines
  BY <1>2, AppendIsConcat
<1>4. /\ lines \in Seq(S) /\ Len(lines) = n + 1 /\ lines[n + 1] = reply
      /\ \A i \in 1 .. n : lines[i] = noise[i]
  BY <1>2, Lengthened
<1>5. DOMAIN lines = 1 .. n + 1
  BY <1>4, LenProperties
<1>6. ASSUME NEW i \in 1 .. n
      PROVE  ~ AnswersTo(q[1], FALSE, noise[i])
  <2>1. i \in DOMAIN noise
    BY <1>1
  <2>2. CASE noise[i] = Plain("")
    BY <2>2 DEF AnswersTo
  <2>3. CASE /\ noise[i].mark \in {"?", "~"} /\ noise[i].name \notin Sentinels \cup {NoName}
             /\ noise[i].mark = "?" => noise[i].name # q[1]
    <3>1. ResponseCommandName(noise[i]) = noise[i].name
      BY <2>3 DEF ResponseCommandName
    <3>. QED
      BY <2>3, <3>1 DEF AnswersTo
  <2>. QED
    BY <2>1, <2>2, <2>3, NoiseAssumption
<1>. HIDE DEF lines, n
<1>7. A = {n + 1}
  <2>1. ASSUME NEW i \in A
        PROVE  i = n + 1
    <3>1. i \in 1 .. n + 1 /\ AnswersTo(q[1], FALSE, lines[i])
      BY <1>5
    <3>2. i = n + 1 \/ i \in 1 .. n
      BY <1>1, <3>1
    <3>3. ASSUME i \in 1 .. n
          PROVE  FALSE
      <4>1. lines[i] = noise[i] /\ ~ AnswersTo(q[1], FALSE, noise[i])
        BY <1>4, <1>6, <3>3
      <4>2. AnswersTo(q[1], FALSE, noise[i])
        BY <3>1, <4>1, Zenon
      <4>. QED
        BY <4>1, <4>2
    <3>. QED
      BY <3>2, <3>3
  <2>2. n + 1 \in A
    <3>1. n + 1 \in DOMAIN lines
      BY <1>1, <1>5
    <3>2. AnswersTo(q[1], FALSE, lines[n + 1])
      BY <1>4, Zenon
    <3>. QED
      BY <3>1, <3>2
  <2>. QED
    BY <2>1, <2>2
<1>. HIDE DEF A
<1>8. Min({n + 1}) = n + 1
  BY <1>1 DEF Min
<1>9. ReadResponse(q[1], FALSE, lines) = lines[Min(A)]
  BY DEF ReadResponse, A
<1>. QED
  BY <1>3, <1>4, <1>7, <1>8, <1>9

(* Truth values and readings as words.                                     *)
LEMMA Flags ==
    /\ \A b \in BOOLEAN : /\ Flag(b) \in {"0", "1"} /\ (Flag(b) = "1") = b
                          /\ Flag(b) \in Simple /\ <<Flag(b)>> \in Single
                          /\ Word(b) \in {"True", "False"} /\ (Word(b) \in Truths) = b
                          /\ Word(b) \in Simple /\ <<Word(b)>> \in Single
    /\ \A x \in Readings : x \in Simple /\ <<x>> \in Single /\ x \in DOMAIN NumOf \cup Decimals
    /\ \A h \in {"Good", "Fair", "Bad", "Unknown"} : h \in Simple /\ <<h>> \in Single
<1>1. {"0", "1"} \subseteq Simple
  <2>1. {0, 1} \subseteq Numbers /\ ToString(0) = "0" /\ ToString(1) = "1"
    BY NumbersAssumption
  <2>. QED
    BY <2>1, Numbered
<1>2. {"Good", "Fair", "Bad", "Unknown", "True", "False"} \subseteq Simple
  BY TokensAssumption DEF Simple, Words, Marks
<1>3. \A x \in Readings : x \in Simple /\ x \in DOMAIN NumOf \cup Decimals
  BY NumbersAssumption DEF Simple, NumOf, Readings, Numerals
<1>4. \A x \in Simple : <<x>> \in Single
  BY Singles
<1>5. ASSUME NEW b \in BOOLEAN
      PROVE  /\ Flag(b) \in {"0", "1"} /\ (Flag(b) = "1") = b
             /\ Word(b) \in {"True", "False"} /\ (Word(b) \in Truths) = b
  BY DEF Flag, Word, Truths
<1>. QED
  BY <1>1, <1>2, <1>3, <1>4, <1>5

(* On one token <<x>>, equality is that of the tokens.                      *)
LEMMA SameToken == \A x, y : (<<x>> = <<y>>) = (x = y)
  OBVIOUS

(* What each parser makes of what a device shows.                          *)
LEMMA OutletStatusShown ==
    ASSUME NEW on \in [Outlets -> BOOLEAN]
    PROVE  ParseOutletStatus(Joined([o \in Outlets |-> <<Flag(on[o])>>])) = Good(on)
<1>. DEFINE ts == [o \in Outlets |-> <<Flag(on[o])>>]
<1>1. N \in Nat /\ Outlets = 1 .. N
  BY PanelAssumption DEF Outlets
<1>2. \A o \in Outlets : <<Flag(on[o])>> \in Single
  BY Flags
<1>3. ts \in [1 .. N -> Single] /\ DOMAIN ts = 1 .. N
  BY <1>1, <1>2
<1>4. ts \in Seq(Single) /\ Len(ts) = N
  <2>. HIDE DEF ts
  <2>. QED
    BY <1>1, <1>3, FunctionsAreSeqs
<1>5. CASE N = 0
  <2>1. ts = <<>>
    BY <1>4, <1>5, EmptySeq
  <2>2. on = <<>>
    <3>1. on \in [1 .. N -> BOOLEAN]
      BY <1>1
    <3>2. on \in Seq(BOOLEAN) /\ Len(on) = N
      BY <1>1, <3>1, FunctionsAreSeqs
    <3>. QED
      BY <1>5, <3>2, EmptySeq
  <2>3. ParseOutletStatus(<<>>) = Good(<<>>)
    BY DEF ParseOutletStatus
  <2>. QED
    BY <2>1, <2>2, <2>3, JoinedSteps
<1>6. CASE N # 0
  <2>1. ts # <<>>
    BY <1>4, <1>6, EmptySeq
  <2>2. Joined(ts) # <<>> /\ Parts(Joined(ts)) = ts
    BY <1>4, <2>1, JoinedNotEmpty, PartsJoined
  <2>3. IsOne(ts, {"0", "1"})
    <3>1. ASSUME NEW i \in 1 .. N
          PROVE  Len(ts[i]) = 1 /\ ts[i][1] \in {"0", "1"}
      BY <1>1, Flags
    <3>. QED
      BY <1>3, <3>1 DEF IsOne
  <2>4. [i \in DOMAIN ts |-> ts[i] = <<"1">>] = on
    <3>1. \A i \in 1 .. N : (ts[i] = <<"1">>) = on[i]
      BY <1>1, Flags, SameToken
    <3>2. on = [i \in 1 .. N |-> on[i]]
      BY <1>1
    <3>. QED
      BY <1>3, <3>1, <3>2
  <2>. HIDE DEF ts
  <2>5. ParseOutletStatus(Joined(ts)) = Good(on)
    BY <2>2, <2>3, <2>4 DEF ParseOutletStatus
  <2>. QED
    BY <2>5 DEF ts
<1>. QED
  BY <1>5, <1>6

LEMMA PowerOnDelaysShown ==
    ASSUME NEW delays \in [Outlets -> Numbers]
    PROVE  ParsePowerOnDelays(Nums([o \in Outlets |-> delays[o]])) = Good(delays)
<1>. DEFINE ts == [i \in DOMAIN delays |-> Num(delays[i])]
<1>1. N \in Nat /\ Outlets = 1 .. N
  BY PanelAssumption DEF Outlets
<1>2. \A o \in 1 .. N : Num(delays[o]) \in Single /\ NumOf[Num(delays[o])[1]] = delays[o]
                        /\ Num(delays[o])[1] \in DOMAIN NumOf
  BY <1>1, Numbered
<1>3. ts \in [1 .. N -> Single] /\ DOMAIN ts = 1 .. N
  BY <1>1, <1>2
<1>4. ts \in Seq(Single) /\ Len(ts) = N
  <2>. HIDE DEF ts
  <2>. QED
    BY <1>1, <1>3, FunctionsAreSeqs
<1>5. [o \in Outlets |-> delays[o]] = delays
  OBVIOUS
<1>6. Nums(delays) = Joined(ts)
  BY DEF Nums
<1>7. CASE N = 0
  <2>1. ts = <<>>
    BY <1>4, <1>7, EmptySeq
  <2>2. delays = <<>>
    <3>1. delays \in [1 .. N -> Numbers]
      BY <1>1
    <3>2. delays \in Seq(Numbers) /\ Len(delays) = N
      BY <1>1, <3>1, FunctionsAreSeqs
    <3>. QED
      BY <1>7, <3>2, EmptySeq
  <2>3. ParsePowerOnDelays(<<>>) = Good(<<>>)
    BY DEF ParsePowerOnDelays
  <2>. QED
    BY <1>5, <1>6, <2>1, <2>2, <2>3, JoinedSteps
<1>8. CASE N # 0
  <2>1. ts # <<>>
    BY <1>4, <1>8, EmptySeq
  <2>2. Joined(ts) # <<>> /\ Parts(Joined(ts)) = ts
    BY <1>4, <2>1, JoinedNotEmpty, PartsJoined
  <2>3. IsOne(ts, DOMAIN NumOf)
    <3>1. ASSUME NEW i \in 1 .. N
          PROVE  Len(ts[i]) = 1 /\ ts[i][1] \in DOMAIN NumOf
      <4>1. ts[i] = Num(delays[i])
        BY <1>3
      <4>. QED
        BY <1>2, <4>1, Singles
    <3>. QED
      BY <1>3, <3>1 DEF IsOne
  <2>4. [i \in DOMAIN ts |-> NumOf[ts[i][1]]] = delays
    <3>1. \A i \in 1 .. N : NumOf[ts[i][1]] = delays[i]
      BY <1>2, <1>3
    <3>2. delays = [i \in 1 .. N |-> delays[i]]
      BY <1>1
    <3>. QED
      BY <1>3, <3>1, <3>2
  <2>. HIDE DEF ts
  <2>5. ParsePowerOnDelays(Joined(ts)) = Good(delays)
    BY <2>2, <2>3, <2>4 DEF ParsePowerOnDelays
  <2>. QED
    BY <1>5, <1>6, <2>5
<1>. QED
  BY <1>7, <1>8

LEMMA OutletNamesShown ==
    ASSUME NEW names \in [Outlets -> Names]
    PROVE  ParseOutletNames(Joined([o \in Outlets |-> Brace(names[o])])) = Good(names)
<1>1. names \in Seq(Names)
  BY PanelAssumption, FunctionsAreSeqs DEF Outlets
<1>2. [o \in Outlets |-> Brace(names[o])] = Braced(names)
  BY DEF Braced
<1>3. Walked(Joined(Braced(names))) = [at |-> "between", names |-> names]
  BY <1>1, WalkedJoined
<1>. QED
  BY <1>2, <1>3 DEF ParseOutletNames

LEMMA FlagShown ==
    ASSUME NEW b \in BOOLEAN
    PROVE  ParseFlag(<<Flag(b)>>) = Good(b)
<1>1. <<Flag(b)>> \in Single /\ Flag(b) \in {"0", "1"} /\ (Flag(b) = "1") = b
  BY Flags
<1>2. Strip(<<Flag(b)>>) = <<Flag(b)>>
  BY <1>1, StripOne
<1>3. <<Flag(b)>> \in {<<"0">>, <<"1">>} /\ (<<Flag(b)>> = <<"1">>) = b
  BY <1>1, SameToken
<1>. QED
  BY <1>2, <1>3 DEF ParseFlag

LEMMA IntShown ==
    ASSUME NEW n \in Numbers
    PROVE  ParseInt(Num(n)) = Good(n)
<1>1. Num(n) \in Single /\ NumOf[Num(n)[1]] = n /\ Num(n)[1] \in DOMAIN NumOf
  BY Numbered
<1>2. Strip(Num(n)) = Num(n) /\ Len(Num(n)) = 1
  BY <1>1, StripOne, Singles
<1>. QED
  BY <1>1, <1>2 DEF ParseInt, IsInt

LEMMA FourTokens ==
    ASSUME NEW a \in Single, NEW b \in Single, NEW c \in Single, NEW d \in Single
    PROVE  Parts(Joined(<<a, b, c, d>>)) = <<a, b, c, d>> /\ Split(Joined(<<a, b, c, d>>)) = <<a, b, c, d>>
<1>1. <<a, b, c, d>> \in Seq(Single) /\ <<a, b, c, d>> # <<>>
  OBVIOUS
<1>. QED
  BY <1>1, PartsJoined

LEMMA PowerStatusShown ==
    ASSUME NEW m \in [current_amps : Readings, power_watts : Readings, voltage_volts : Readings,
                      safe_voltage : BOOLEAN]
    PROVE  ParsePowerStatus(Joined(<<<<m.current_amps>>, <<m.power_watts>>,
                                     <<m.voltage_volts>>, <<Flag(m.safe_voltage)>>>>)) = Good(m)
<1>. DEFINE p == <<<<m.current_amps>>, <<m.power_watts>>, <<m.voltage_volts>>, <<Flag(m.safe_voltage)>>>>
<1>1. /\ m.current_amps \in Readings /\ m.power_watts \in Readings /\ m.voltage_volts \in Readings
      /\ m.safe_voltage \in BOOLEAN
      /\ m = [current_amps |-> m.current_amps, power_watts |-> m.power_watts,
              voltage_volts |-> m.voltage_volts, safe_voltage |-> m.safe_voltage]
  OBVIOUS
<1>2. Parts(Joined(p)) = p
  <2>1. /\ <<m.current_amps>> \in Single /\ <<m.power_watts>> \in Single
        /\ <<m.voltage_volts>> \in Single /\ <<Flag(m.safe_voltage)>> \in Single
    BY <1>1, Flags
  <2>. QED
    BY <2>1, FourTokens
<1>3. Len(p) = 4 /\ p[1] = <<m.current_amps>> /\ p[2] = <<m.power_watts>> /\ p[3] = <<m.voltage_volts>>
      /\ p[4] = <<Flag(m.safe_voltage)>>
  OBVIOUS
<1>4. \A x \in Readings : IsFloat(<<x>>) /\ <<x>>[1] = x
  BY Flags DEF IsFloat
<1>5. (p[4] = <<"1">>) = m.safe_voltage
  BY <1>1, <1>3, Flags, SameToken
<1>6. p[1][1] = m.current_amps /\ p[2][1] = m.power_watts /\ p[3][1] = m.voltage_volts
  OBVIOUS
<1>7. \A i \in 1 .. 3 : IsFloat(p[i])
  <2>1. IsFloat(p[1]) /\ IsFloat(p[2]) /\ IsFloat(p[3])
    BY <1>1, <1>3, <1>4
  <2>. QED
    BY <2>1
<1>. HIDE DEF p
<1>8. ParsePowerStatus(Joined(p)) = Good(m)
  BY <1>1, <1>2, <1>3, <1>5, <1>6, <1>7 DEF ParsePowerStatus
<1>. QED
  BY <1>8 DEF p

LEMMA OutletPowerStatusShown ==
    ASSUME NEW m \in [outlet : Numbers, power_watts : Readings, current_amps : Readings,
                      voltage_volts : Readings]
    PROVE  ParseOutletPowerStatus(Joined(<<Num(m.outlet), <<m.power_watts>>,
                                           <<m.current_amps>>, <<m.voltage_volts>>>>)) = Good(m)
<1>. DEFINE p == <<Num(m.outlet), <<m.power_watts>>, <<m.current_amps>>, <<m.voltage_volts>>>>
<1>1. /\ m.current_amps \in Readings /\ m.power_watts \in Readings /\ m.voltage_volts \in Readings
      /\ m.outlet \in Numbers
      /\ m = [outlet |-> m.outlet, power_watts |-> m.power_watts,
              current_amps |-> m.current_amps, voltage_volts |-> m.voltage_volts]
  OBVIOUS
<1>2. /\ Num(m.outlet) \in Single /\ Num(m.outlet)[1] \in DOMAIN NumOf
      /\ NumOf[Num(m.outlet)[1]] = m.outlet /\ Len(Num(m.outlet)) = 1
  BY <1>1, Numbered, Singles
<1>3. Parts(Joined(p)) = p
  BY <1>1, <1>2, Flags, FourTokens
<1>4. Len(p) = 4 /\ p[1] = Num(m.outlet) /\ p[2] = <<m.power_watts>> /\ p[3] = <<m.current_amps>>
      /\ p[4] = <<m.voltage_volts>>
  OBVIOUS
<1>5. \A x \in Readings : IsFloat(<<x>>) /\ <<x>>[1] = x
  BY Flags DEF IsFloat
<1>6. p[2][1] = m.power_watts /\ p[3][1] = m.current_amps /\ p[4][1] = m.voltage_volts
  OBVIOUS
<1>7. \A i \in 2 .. 4 : IsFloat(p[i])
  <2>1. IsFloat(p[2]) /\ IsFloat(p[3]) /\ IsFloat(p[4])
    BY <1>1, <1>4, <1>5
  <2>. QED
    BY <2>1
<1>8. IsInt(p[1]) /\ NumOf[p[1][1]] = m.outlet
  BY <1>2, <1>4 DEF IsInt
<1>. HIDE DEF p
<1>9. ParseOutletPowerStatus(Joined(p)) = Good(m)
  BY <1>1, <1>3, <1>4, <1>6, <1>7, <1>8 DEF ParseOutletPowerStatus
<1>. QED
  BY <1>9 DEF p

LEMMA UpsShown ==
    ASSUME NEW u \in [battery_charge_pct : Numbers, battery_load_pct : Numbers,
                      battery_health : {"Good", "Fair", "Bad", "Unknown"}, power_lost : BOOLEAN,
                      battery_runtime_min : Numbers, alarm_enabled : BOOLEAN, alarm_muted : BOOLEAN]
    PROVE  ParseUpsStatus(Joined(Ups(u))) = Good(u)
<1>. DEFINE p == Ups(u)
            flags == <<p[4], p[6], p[7]>>
<1>1. /\ u.battery_charge_pct \in Numbers /\ u.battery_load_pct \in Numbers
      /\ u.battery_health \in {"Good", "Fair", "Bad", "Unknown"} /\ u.power_lost \in BOOLEAN
      /\ u.battery_runtime_min \in Numbers /\ u.alarm_enabled \in BOOLEAN /\ u.alarm_muted \in BOOLEAN
      /\ u = [battery_charge_pct |-> u.battery_charge_pct, battery_load_pct |-> u.battery_load_pct,
              battery_health |-> u.battery_health, power_lost |-> u.power_lost,
              battery_runtime_min |-> u.battery_runtime_min,
              alarm_enabled |-> u.alarm_enabled, alarm_muted |-> u.alarm_muted]
  OBVIOUS
<1>2. /\ Len(p) = 7 /\ p[1] = Num(u.battery_charge_pct) /\ p[2] = Num(u.battery_load_pct)
      /\ p[3] = <<u.battery_health>> /\ p[4] = <<Word(u.power_lost)>>
      /\ p[5] = Num(u.battery_runtime_min) /\ p[6] = <<Word(u.alarm_enabled)>>
      /\ p[7] = <<Word(u.alarm_muted)>>
  BY DEF Ups
<1>3. Parts(Joined(p)) = p
  <2>1. /\ Num(u.battery_charge_pct) \in Single /\ Num(u.battery_load_pct) \in Single
        /\ <<u.battery_health>> \in Single /\ <<Word(u.power_lost)>> \in Single
        /\ Num(u.battery_runtime_min) \in Single /\ <<Word(u.alarm_enabled)>> \in Single
        /\ <<Word(u.alarm_muted)>> \in Single
    BY <1>1, Numbered, Flags
  <2>2. p \in Seq(Single) /\ p # <<>>
    BY <2>1 DEF Ups
  <2>. QED
    BY <2>2, PartsJoined
<1>4. \A n \in Numbers : IsInt(Num(n)) /\ NumOf[Num(n)[1]] = n
  BY Numbered, Singles DEF IsInt
<1>5. /\ IsInt(p[1]) /\ IsInt(p[2]) /\ IsInt(p[5])
      /\ NumOf[p[1][1]] = u.battery_charge_pct /\ NumOf[p[2][1]] = u.battery_load_pct
      /\ NumOf[p[5][1]] = u.battery_runtime_min
  BY <1>1, <1>2, <1>4
<1>6. \A b \in BOOLEAN : /\ Len(<<Word(b)>>) = 1 /\ <<Word(b)>>[1] = Word(b)
                         /\ Word(b) \in Truths \cup Falses /\ (Word(b) \in Truths) = b
  BY Flags DEF Truths, Falses
<1>7. /\ (p[4][1] \in Truths) = u.power_lost /\ (p[6][1] \in Truths) = u.alarm_enabled
      /\ (p[7][1] \in Truths) = u.alarm_muted
  BY <1>1, <1>2, <1>6
<1>8. IsOne(flags, Truths \cup Falses)
  <2>1. DOMAIN flags = 1 .. 3 /\ flags[1] = p[4] /\ flags[2] = p[6] /\ flags[3] = p[7]
    OBVIOUS
  <2>2. \A t \in {p[4], p[6], p[7]} : Len(t) = 1 /\ t[1] \in Truths \cup Falses
    BY <1>1, <1>2, <1>6
  <2>. HIDE DEF flags, p
  <2>3. ASSUME NEW i \in 1 .. 3
        PROVE  Len(flags[i]) = 1 /\ flags[i][1] \in Truths \cup Falses
    <3>1. i = 1 \/ i = 2 \/ i = 3
      OBVIOUS
    <3>2. flags[i] \in {p[4], p[6], p[7]}
      BY <2>1, <3>1
    <3>. QED
      BY <2>2, <3>2
  <2>. QED
    BY <2>1, <2>3 DEF IsOne
<1>9. Health(p[3]) = u.battery_health
  <2>1. Health(<<u.battery_health>>) = u.battery_health
    BY <1>1, SameToken DEF Health
  <2>. QED
    BY <1>2, <2>1
<1>10. ~ \E i \in {1, 2, 5} : ~ IsInt(p[i])
  BY <1>5
<1>. HIDE DEF p
<1>11. ParseUpsStatus(Joined(p)) = Good(u)
  BY <1>1, <1>2, <1>3, <1>5, <1>7, <1>8, <1>9, <1>10 DEF ParseUpsStatus
<1>. QED
  BY <1>11 DEF p

(* Each parser returns what the device has.                                 *)
LEMMA ParseShown ==
    ASSUME NEW q \in Queries, panel \in PanelType, meter \in MeterType
    PROVE  Parse(q, Shown(q)) = Good(Value(q))
<1>1. /\ panel.on \in [Outlets -> BOOLEAN] /\ panel.names \in [Outlets -> Names]
      /\ panel.delays \in [Outlets -> Numbers] /\ panel.reboots \in BOOLEAN
  BY DEF PanelType
<1>2. /\ meter.power \in [current_amps : Readings, power_watts : Readings, voltage_volts : Readings,
                          safe_voltage : BOOLEAN]
      /\ meter.outlets \in [Outlets -> [outlet : Numbers, power_watts : Readings,
                                        current_amps : Readings, voltage_volts : Readings]]
      /\ meter.ups \in [battery_charge_pct : Numbers, battery_load_pct : Numbers,
                        battery_health : {"Good", "Fair", "Bad", "Unknown"}, power_lost : BOOLEAN,
                        battery_runtime_min : Numbers, alarm_enabled : BOOLEAN, alarm_muted : BOOLEAN]
      /\ meter.ups_connected \in BOOLEAN
  BY DEF MeterType
<1>3. CASE q[1] = "OutletStatus"
  BY <1>1, <1>3, OutletStatusShown DEF Parse, Shown, Value
<1>4. CASE q[1] = "OutletName"
  BY <1>1, <1>4, OutletNamesShown DEF Parse, Shown, Value
<1>5. CASE q[1] = "OutletPowerOnDelay"
  BY <1>1, <1>5, PowerOnDelaysShown DEF Parse, Shown, Value
<1>6. CASE q[1] = "AutoReboot"
  BY <1>1, <1>6, FlagShown DEF Parse, Shown, Value
<1>7. CASE q[1] = "OutletCount"
  BY <1>7, NumbersAssumption, IntShown DEF Parse, Shown, Value
<1>8. CASE q[1] = "PowerStatus"
  BY <1>2, <1>8, PowerStatusShown DEF Parse, Shown, Value
<1>9. CASE q[1] = "UPSStatus"
  BY <1>2, <1>9, UpsShown DEF Parse, Shown, Value
<1>10. CASE q[1] = "UPSConnection"
  BY <1>2, <1>10, FlagShown DEF Parse, Shown, Value
<1>11. CASE q[1] = "OutletPowerStatus" /\ q[2] \in Outlets
  BY <1>2, <1>11, OutletPowerStatusShown DEF Parse, Shown, Value
<1>12. \/ q[1] \in {"OutletStatus", "OutletName", "OutletPowerOnDelay", "AutoReboot", "OutletCount",
                    "PowerStatus", "UPSStatus", "UPSConnection"}
       \/ q[1] = "OutletPowerStatus" /\ q[2] \in Outlets
  BY QueriesAssumption
<1>. QED
  BY <1>3, <1>4, <1>5, <1>6, <1>7, <1>8, <1>9, <1>10, <1>11, <1>12

(* An error of expect_value() or of the parser is raised,                  *)
LEMMA ReceivedBad ==
    ASSUME NEW q, NEW noise, NEW reply, NEW error,
           ReadResponse(q[1], FALSE, noise \o <<reply>>) = reply, ExpectValue(q[1], reply) = Bad(error)
    PROVE  Received(q, noise, reply) = Raised(q, error)
<1>1. ExpectValue(q[1], ReadResponse(q[1], FALSE, noise \o <<reply>>)) = Bad(error)
  OBVIOUS
<1>2. Bad(error)[1] = "bad" /\ Bad(error)[2] = error
  BY DEF Bad
<1>. QED
  BY <1>1, <1>2, Zenon DEF Received

(* a value is returned.                                                    *)
LEMMA ReceivedGood ==
    ASSUME NEW q, NEW noise, NEW reply, NEW text, NEW value,
           ReadResponse(q[1], FALSE, noise \o <<reply>>) = reply, ExpectValue(q[1], reply) = Good(text),
           Parse(q, text) = Good(value)
    PROVE  Received(q, noise, reply) = Read(q, value)
<1>1. ExpectValue(q[1], ReadResponse(q[1], FALSE, noise \o <<reply>>)) = Good(text)
  OBVIOUS
<1>2. Good(text)[1] # "bad" /\ Good(text)[2] = text /\ Good(value)[1] # "bad" /\ Good(value)[2] = value
  BY DEF Good
<1>. QED
  BY <1>1, <1>2, Zenon DEF Received

(* A query returns what the device has, whatever comes before the reply.   *)
LEMMA QueryActs ==
    ASSUME NEW q \in Queries, panel \in PanelType, meter \in MeterType, SendQuery(q)
    PROVE  Query(q)
<1>1. PICK noise \in Noise : answer' = Received(q, noise, DeviceReply(q))
  BY DEF SendQuery
<1>. DEFINE reply == DeviceReply(q)
<1>2. q[1] \notin Sentinels \cup {NoName}
  <2>1. q[1] \in {"OutletStatus", "OutletName", "OutletPowerOnDelay", "AutoReboot", "OutletCount",
                  "PowerStatus", "OutletPowerStatus", "UPSStatus", "UPSConnection"}
    BY QueriesAssumption
  <2>. QED
    BY <2>1 DEF Sentinels, NoName
<1>3. AnswersTo(q[1], FALSE, reply)
  BY <1>2 DEF AnswersTo, DeviceReply, ResponseCommandName, Plain, Reply, Sentinels, NoName
<1>4. ReadResponse(q[1], FALSE, noise \o <<reply>>) = reply
  <2>. HIDE DEF reply
  <2>. QED
    BY <1>3, ReplyFound
<1>5. CASE q[1] \in Optional \ supported
  <2>1. ExpectValue(q[1], reply) = Bad("Unsupported")
    <3>1. reply = Plain("#Error")
      BY <1>5 DEF DeviceReply
    <3>2. ExpectValue(q[1], Plain("#Error")) = Bad("Unsupported")
      <4>1. Plain("#Error").mark \notin {"?", "~"}
        BY DEF Plain
      <4>. QED
        BY <4>1 DEF ExpectValue
    <3>. HIDE DEF reply
    <3>. QED
      BY <3>1, <3>2, Zenon
  <2>2. Received(q, noise, reply) = Raised(q, "Unsupported")
    <3>. HIDE DEF reply
    <3>. QED
      BY <1>4, <2>1, ReceivedBad
  <2>. QED
    BY <1>1, <1>5, <2>2 DEF Query, SendQuery
<1>6. CASE q[1] \notin Optional \ supported
  <2>1. reply = Reply("?", q[1], Shown(q))
    BY <1>6 DEF DeviceReply
  <2>2. ExpectValue(q[1], reply) = Good(Shown(q))
    <3>. DEFINE v == Shown(q)
    <3>. HIDE DEF v
    <3>1. ExpectValue(q[1], Reply("?", q[1], v)) = Good(v)
      BY DEF ExpectValue, Reply, Plain
    <3>. QED
      BY <2>1, <3>1 DEF v
  <2>3. Parse(q, Shown(q)) = Good(Value(q))
    BY ParseShown
  <2>4. Received(q, noise, reply) = Read(q, Value(q))
    <3>. HIDE DEF reply
    <3>. QED
      BY <1>4, <2>2, <2>3, ReceivedGood
  <2>. QED
    BY <1>1, <1>6, <2>4 DEF Query, SendQuery
<1>. QED
  BY <1>5, <1>6

-----------------------------------------------------------------------------
(* Setters                                                                  *)

(* No line is an error.                                                    *)
LEMMA Lines ==
    ASSUME NEW command, NEW texts
    PROVE  /\ command # "ValueError" => Line(command, texts) # ValueError
           /\ Line(command, texts).command = command /\ Line(command, texts).value = Joined(texts)
<1>1. /\ Line(command, texts).command = command /\ Line(command, texts).value = Joined(texts)
      /\ ValueError.command = "ValueError"
  BY DEF Line, ValueError
<1>. HIDE DEF Line, ValueError
<1>. QED
  BY <1>1

(* What the device does with each line.                                     *)
SetAt(f, i, value) == [o \in Outlets |-> IF o = i THEN value ELSE f[o]]

LEMMA DeviceArms ==
    ASSUME NEW l
    PROVE  LET v == l.value
               p == Split(v)
               i == NumOf[p[1][1]]
           IN /\ l.command = "!OutletSet" => DeviceRuns(l) = RunOutletSet(p)
              /\ l.command = "!AutoReboot" => DeviceRuns(l) = [panel EXCEPT !.reboots = (v = <<"1">>)]
              /\ l.command = "!OutletNameSet" =>
                    DeviceRuns(l) = [panel EXCEPT !.names = SetAt(panel.names, i, FirstWord(Rest(v)))]
              /\ l.command = "!OutletNameSetAll" => DeviceRuns(l) = [panel EXCEPT !.names = Groups(v)]
              /\ l.command = "!OutletPowerOnDelaySet" =>
                    DeviceRuns(l) = [panel EXCEPT !.delays = SetAt(panel.delays, i, Ints(v)[2])]
              /\ l.command = "!OutletModeSet" =>
                    DeviceRuns(l) = [panel EXCEPT !.modes = SetAt(panel.modes, i, Ints(v)[2])]
              /\ l.command = "!OutletRebootSet" => DeviceRuns(l) = [panel EXCEPT !.ops = Ints(v)]
              /\ l.command = "!AutoRebootTimeoutSet" => DeviceRuns(l) = [panel EXCEPT !.timeouts = Ints(v)]
              /\ l.command = "!HostAdd" =>
                    DeviceRuns(l) = [panel EXCEPT !.hosts = @ \cup {<<p[1], p[2], Ints(Groups(v)[1])>>}]
              /\ l.command = "!ScheduleAdd" =>
                    DeviceRuns(l) = [panel EXCEPT !.schedule = @ \cup {Schedule(Groups(v))}]
<1>1. CASE l.command = "!OutletSet"
  BY <1>1 DEF DeviceRuns
<1>2. CASE l.command = "!AutoReboot"
  BY <1>2 DEF DeviceRuns
<1>3. CASE l.command = "!OutletNameSet"
  BY <1>3 DEF DeviceRuns, SetAt
<1>4. CASE l.command = "!OutletNameSetAll"
  BY <1>4 DEF DeviceRuns
<1>5. CASE l.command = "!OutletPowerOnDelaySet"
  BY <1>5 DEF DeviceRuns, SetAt
<1>6. CASE l.command = "!OutletModeSet"
  BY <1>6 DEF DeviceRuns, SetAt
<1>7. CASE l.command = "!OutletRebootSet"
  BY <1>7 DEF DeviceRuns
<1>8. CASE l.command = "!AutoRebootTimeoutSet"
  BY <1>8 DEF DeviceRuns
<1>9. CASE l.command = "!HostAdd"
  BY <1>9 DEF DeviceRuns
<1>10. CASE l.command = "!ScheduleAdd"
  BY <1>10 DEF DeviceRuns
<1>. QED
  BY <1>1, <1>2, <1>3, <1>4, <1>5, <1>6, <1>7, <1>8, <1>9, <1>10

(* A call is refused before it is sent, or the device does what it asks.    *)
Obeyed(c) == IF Accepted(panel, c)
             THEN Encoded(c) # ValueError /\ DeviceRuns(Encoded(c)) = Effect(panel, c)
             ELSE Encoded(c) = ValueError

(* A line of two numbers.                                                  *)
LEMMA NumberPair ==
    ASSUME NEW i \in Numbers, NEW n \in Numbers
    PROVE  LET v == Joined(<<Num(i), Num(n)>>)
           IN NumOf[Split(v)[1][1]] = i /\ Ints(v)[2] = n /\ i \in Int /\ n \in Int
<1>. DEFINE ts == <<Num(i), Num(n)>>
<1>1. ts \in Seq(Single) /\ ts # <<>> /\ ts[1] = Num(i) /\ ts[2] = Num(n) /\ DOMAIN ts = 1 .. 2
  <2>1. Num(i) \in Single /\ Num(n) \in Single
    BY Numbered
  <2>. QED
    BY <2>1
<1>2. NumOf[Num(i)[1]] = i /\ NumOf[Num(n)[1]] = n /\ i \in Int /\ n \in Int
  BY Numbered
<1>. HIDE DEF ts
<1>3. Split(Joined(ts)) = ts
  BY <1>1, PartsJoined
<1>4. Ints(Joined(ts))[2] = n
  BY <1>1, <1>2, <1>3 DEF Ints
<1>. QED
  BY <1>1, <1>2, <1>3, <1>4 DEF ts

(* One lemma for each setter.  set_outlet_power_on_delay():                *)
LEMMA DelayObeyed ==
    ASSUME NEW c \in [op : {"set_delay"}, index : Numbers, seconds : Numbers]
    PROVE  Obeyed(c)
<1>. DEFINE v == Joined(<<Num(c.index), Num(c.seconds)>>)
            l == Line("!OutletPowerOnDelaySet", <<Num(c.index), Num(c.seconds)>>)
<1>1. c.op = "set_delay" /\ c.index \in Numbers /\ c.seconds \in Numbers
  OBVIOUS
<1>2. Encoded(c) = IF c.index < 1 \/ c.seconds < 1 \/ c.seconds > 600 THEN ValueError ELSE l
  BY <1>1 DEF Encoded, EncodeOutletPowerOnDelaySet
<1>3. Accepted(panel, c) <=> c.index >= 1 /\ c.seconds \in 1 .. 600
  BY <1>1 DEF Accepted
<1>4. Effect(panel, c) = [panel EXCEPT !.delays = At(panel.delays, c.index, c.seconds)]
  BY <1>1 DEF Effect
<1>5. NumOf[Split(v)[1][1]] = c.index /\ Ints(v)[2] = c.seconds /\ c.index \in Int /\ c.seconds \in Int
  BY <1>1, NumberPair
<1>6. l # ValueError /\ l.command = "!OutletPowerOnDelaySet" /\ l.value = v
  BY Lines
<1>. HIDE DEF l, v
<1>7. DeviceRuns(l) = [panel EXCEPT !.delays = SetAt(panel.delays, c.index, c.seconds)]
  BY <1>5, <1>6, DeviceArms
<1>8. c.index >= 1 => SetAt(panel.delays, c.index, c.seconds) = At(panel.delays, c.index, c.seconds)
  BY <1>5 DEF SetAt, At, Named
<1>. QED
  BY <1>2, <1>3, <1>4, <1>5, <1>6, <1>7, <1>8 DEF Obeyed

(* set_outlet_mode():                                                      *)
LEMMA ModeObeyed ==
    ASSUME NEW c \in [op : {"set_mode"}, index : Numbers, mode : Numbers]
    PROVE  Obeyed(c)
<1>. DEFINE v == Joined(<<Num(c.index), Num(c.mode)>>)
            l == Line("!OutletModeSet", <<Num(c.index), Num(c.mode)>>)
<1>1. c.op = "set_mode" /\ c.index \in Numbers /\ c.mode \in Numbers
  OBVIOUS
<1>2. Encoded(c) = IF c.index < 1 \/ c.mode \notin {0, 1, 2} THEN ValueError ELSE l
  BY <1>1 DEF Encoded, EncodeOutletModeSet
<1>3. Accepted(panel, c) <=> c.index >= 1 /\ c.mode \in 0 .. 2
  BY <1>1 DEF Accepted
<1>4. Effect(panel, c) = [panel EXCEPT !.modes = At(panel.modes, c.index, c.mode)]
  BY <1>1 DEF Effect
<1>5. NumOf[Split(v)[1][1]] = c.index /\ Ints(v)[2] = c.mode /\ c.index \in Int /\ c.mode \in Int
  BY <1>1, NumberPair
<1>6. l # ValueError /\ l.command = "!OutletModeSet" /\ l.value = v
  BY Lines
<1>. HIDE DEF l, v
<1>7. DeviceRuns(l) = [panel EXCEPT !.modes = SetAt(panel.modes, c.index, c.mode)]
  BY <1>5, <1>6, DeviceArms
<1>8. c.index >= 1 => SetAt(panel.modes, c.index, c.mode) = At(panel.modes, c.index, c.mode)
  BY <1>5 DEF SetAt, At, Named
<1>. QED
  BY <1>2, <1>3, <1>4, <1>5, <1>6, <1>7, <1>8 DEF Obeyed

LEMMA JoinedOne == \A t \in Texts : Joined(<<t>>) = t
  BY JoinedSteps

(* set_outlet_reboot_ops():                                                *)
LEMMA OpsObeyed ==
    ASSUME NEW c \in [op : {"set_ops"}, ops : Seq(Numbers)]
    PROVE  Obeyed(c)
<1>. DEFINE l == Line("!OutletRebootSet", <<Nums(c.ops)>>)
<1>1. c.op = "set_ops" /\ c.ops \in Seq(Numbers)
  OBVIOUS
<1>2. Encoded(c) = IF c.ops = <<>> \/ \E i \in DOMAIN c.ops : c.ops[i] \notin {0, 1} THEN ValueError ELSE l
  BY <1>1 DEF Encoded, EncodeOutletRebootSet
<1>3. Accepted(panel, c) <=> c.ops # <<>> /\ \A i \in DOMAIN c.ops : c.ops[i] \in {0, 1}
  BY <1>1 DEF Accepted
<1>4. Effect(panel, c) = [panel EXCEPT !.ops = c.ops]
  BY <1>1 DEF Effect
<1>5. ASSUME c.ops # <<>>
      PROVE  Ints(Nums(c.ops)) = c.ops /\ Joined(<<Nums(c.ops)>>) = Nums(c.ops)
  <2>1. Ints(Nums(c.ops)) = c.ops /\ Nums(c.ops) \in Texts
    BY <1>1, <1>5, IntsNums DEF Unbraced, Lacking
  <2>. QED
    BY <2>1, JoinedOne
<1>6. l # ValueError /\ l.command = "!OutletRebootSet" /\ l.value = Joined(<<Nums(c.ops)>>)
  BY Lines
<1>. HIDE DEF l
<1>7. c.ops # <<>> => DeviceRuns(l) = [panel EXCEPT !.ops = c.ops]
  BY <1>5, <1>6, DeviceArms
<1>. QED
  BY <1>2, <1>3, <1>4, <1>6, <1>7 DEF Obeyed

(* set_auto_reboot():                                                      *)
LEMMA RebootsObeyed ==
    ASSUME NEW c \in [op : {"set_reboots"}, enabled : BOOLEAN]
    PROVE  Obeyed(c)
<1>. DEFINE n == IF c.enabled THEN 1 ELSE 0
            l == Line("!AutoReboot", <<Num(n)>>)
<1>1. c.op = "set_reboots" /\ c.enabled \in BOOLEAN
  OBVIOUS
<1>2. Encoded(c) = l
  BY <1>1 DEF Encoded, EncodeAutoReboot
<1>3. Accepted(panel, c)
  BY <1>1 DEF Accepted
<1>4. Effect(panel, c) = [panel EXCEPT !.reboots = c.enabled]
  BY <1>1 DEF Effect
<1>5. Num(n) = <<Flag(c.enabled)>>
  BY <1>1, NumbersAssumption DEF Num, Flag
<1>6. Num(n) \in Texts /\ (Num(n) = <<"1">>) = c.enabled
  <2>1. <<Flag(c.enabled)>> \in Single /\ (Flag(c.enabled) = "1") = c.enabled
    BY <1>1, Flags
  <2>2. (<<Flag(c.enabled)>> = <<"1">>) = (Flag(c.enabled) = "1")
    BY SameToken
  <2>3. <<Flag(c.enabled)>> \in Texts
    BY <2>1, Singles
  <2>. HIDE DEF n
  <2>. QED
    BY <1>5, <2>1, <2>2, <2>3
<1>7. l # ValueError /\ l.command = "!AutoReboot" /\ l.value = Num(n)
  BY <1>6, Lines, JoinedOne
<1>. HIDE DEF l, n
<1>8. DeviceRuns(l) = [panel EXCEPT !.reboots = c.enabled]
  <2>1. DeviceRuns(l) = [panel EXCEPT !.reboots = (l.value = <<"1">>)]
    BY <1>7, DeviceArms
  <2>2. (l.value = <<"1">>) = c.enabled
    BY <1>6, <1>7
  <2>. QED
    BY <2>1, <2>2, Zenon
<1>. QED
  BY <1>2, <1>3, <1>4, <1>7, <1>8 DEF Obeyed

(* set_auto_reboot_timeout():                                              *)
LEMMA TimeoutObeyed ==
    ASSUME NEW c \in [op : {"set_timeout"}, timeout : Numbers, count : Numbers,
                      ping : Numbers, attempts : Numbers]
    PROVE  Obeyed(c)
<1>. DEFINE ns == <<c.timeout, c.count, c.ping, c.attempts>>
            ts == <<Num(c.timeout), Num(c.count), Num(c.ping), Num(c.attempts)>>
            l == Line("!AutoRebootTimeoutSet", ts)
<1>1. c.op = "set_timeout" /\ {c.timeout, c.count, c.ping, c.attempts} \subseteq Numbers
  OBVIOUS
<1>2. Encoded(c) = IF /\ 1 <= c.timeout /\ c.timeout <= 60
                      /\ 1 <= c.count /\ c.count <= 10
                      /\ 1 <= c.ping /\ c.ping <= 30
                      /\ 0 <= c.attempts /\ c.attempts <= 10
                   THEN l ELSE ValueError
  BY <1>1 DEF Encoded, EncodeAutoRebootTimeoutSet
<1>3. Accepted(panel, c) <=> /\ c.timeout \in 1 .. 60 /\ c.count \in 1 .. 10
                             /\ c.ping \in 1 .. 30 /\ c.attempts \in 0 .. 10
  BY <1>1 DEF Accepted
<1>4. Effect(panel, c) = [panel EXCEPT !.timeouts = ns]
  BY <1>1 DEF Effect
<1>5. c.timeout \in Int /\ c.count \in Int /\ c.ping \in Int /\ c.attempts \in Int
  BY <1>1, Numbered
<1>6. Ints(Joined(ts)) = ns
  <2>1. ns \in Seq(Numbers) /\ ns # <<>>
    BY <1>1
  <2>2. [i \in DOMAIN ns |-> Num(ns[i])] = ts
    OBVIOUS
  <2>3. Nums(ns) = Joined(ts)
    BY <2>2 DEF Nums
  <2>. QED
    BY <2>1, <2>3, IntsNums
<1>7. l # ValueError /\ l.command = "!AutoRebootTimeoutSet" /\ l.value = Joined(ts)
  BY Lines
<1>. HIDE DEF l, ts, ns
<1>8. DeviceRuns(l) = [panel EXCEPT !.timeouts = ns]
  BY <1>6, <1>7, DeviceArms
<1>. QED
  BY <1>2, <1>3, <1>4, <1>5, <1>7, <1>8 DEF Obeyed

(* The line of set_outlet() and reset_outlet(), with a delay or without.    *)
SetTexts(i, verb, delay) == <<Num(i), <<verb>>>> \o [j \in DOMAIN delay |-> Num(delay[j])]

LEMMA OutletSetLine ==
    ASSUME NEW i \in Numbers, NEW verb \in {"ON", "OFF", "TOGGLE", "RESET"}, NEW delay \in OneOrNo(Numbers)
    PROVE  LET p == Split(Joined(SetTexts(i, verb, delay)))
           IN /\ NumOf[p[1][1]] = i /\ p[2][1] = verb
              /\ delay = <<>> => Len(p) = 2
              /\ delay # <<>> => Len(p) = 3 /\ NumOf[p[3][1]] = Head(delay)
<1>. DEFINE pair == <<Num(i), <<verb>>>>
            rest == [j \in DOMAIN delay |-> Num(delay[j])]
            ts == pair \o rest
<1>1. Num(i) \in Single /\ NumOf[Num(i)[1]] = i
  BY Numbered
<1>2. verb \in Simple
  BY TokensAssumption DEF Simple, Words, Marks
<1>3. <<verb>> \in Single /\ <<verb>>[1] = verb
  BY <1>2, Singles
<1>4. pair \in Seq(Single) /\ Len(pair) = 2 /\ pair[1] = Num(i) /\ pair[2] = <<verb>>
  BY <1>1, <1>3
<1>5. CASE delay = <<>>
  <2>1. rest = <<>>
    BY <1>5
  <2>. HIDE DEF pair, rest
  <2>2. ts = pair
    BY <1>4, <2>1, ConcatEmptySeq
  <2>3. ts # <<>>
    BY <1>4, <2>2, EmptySeq
  <2>. HIDE DEF ts
  <2>4. Split(Joined(ts)) = ts
    BY <1>4, <2>2, <2>3, PartsJoined
  <2>5. NumOf[ts[1][1]] = i /\ ts[2][1] = verb /\ Len(ts) = 2
    BY <1>1, <1>3, <1>4, <2>2
  <2>. QED
    BY <1>5, <2>4, <2>5 DEF ts, pair, rest, SetTexts
<1>6. CASE delay # <<>>
  <2>1. PICK d \in Numbers : delay = <<d>>
    BY <1>6 DEF OneOrNo
  <2>2. Head(delay) = d /\ rest = <<Num(d)>>
    BY <2>1
  <2>3. Num(d) \in Single /\ NumOf[Num(d)[1]] = d
    BY Numbered
  <2>. HIDE DEF pair, rest
  <2>4. ts = Append(pair, Num(d))
    BY <1>4, <2>2, <2>3, AppendIsConcat
  <2>. HIDE DEF ts
  <2>5. /\ ts \in Seq(Single) /\ Len(ts) = 3 /\ ts[3] = Num(d) /\ ts[1] = Num(i) /\ ts[2] = <<verb>>
    <3>. DEFINE y == Num(d)
    <3>1. y \in Single /\ ts = Append(pair, y)
      BY <2>3, <2>4
    <3>. HIDE DEF y
    <3>2. /\ Append(pair, y) \in Seq(Single) /\ Len(Append(pair, y)) = Len(pair) + 1
          /\ \A j \in 1 .. Len(pair) : Append(pair, y)[j] = pair[j]
          /\ Append(pair, y)[Len(pair) + 1] = y
      <4>1. pair \in Seq(Single) /\ y \in Single
        BY <1>4, <3>1
      <4>. QED
        BY ONLY <4>1, Lengthened
    <3>3. /\ ts \in Seq(Single) /\ Len(ts) = 3 /\ ts[3] = y /\ ts[1] = Num(i) /\ ts[2] = <<verb>>
      BY <1>4, <3>1, <3>2
    <3>. QED
      BY <3>3 DEF y
  <2>6. ts # <<>>
    BY <2>5, EmptySeq
  <2>7. Split(Joined(ts)) = ts
    BY <2>5, <2>6, PartsJoined
  <2>8. NumOf[ts[1][1]] = i /\ ts[2][1] = verb /\ NumOf[ts[3][1]] = d
    BY <1>1, <1>3, <2>3, <2>5
  <2>. QED
    BY <1>6, <2>2, <2>5, <2>7, <2>8 DEF ts, pair, rest, SetTexts
<1>. QED
  BY <1>5, <1>6

(* set_outlet():                                                           *)
LEMMA OutletObeyed ==
    ASSUME NEW c \in [op : {"set_outlet"}, index : Numbers, action : {"ON", "OFF", "TOGGLE"}],
           panel \in PanelType
    PROVE  Obeyed(c)
<1>. DEFINE ts == SetTexts(c.index, c.action, <<>>)
            l == Line("!OutletSet", ts)
            p == Split(Joined(ts))
<1>1. c.op = "set_outlet" /\ c.index \in Numbers /\ c.action \in {"ON", "OFF", "TOGGLE"}
  OBVIOUS
<1>2. c.index \in Int
  BY <1>1, Numbered
<1>3. Encoded(c) = IF c.index >= 0 /\ c.index # 0 THEN l ELSE ValueError
  BY <1>1 DEF Encoded, EncodeOutletSet, SetTexts
<1>4. Accepted(panel, c) <=> c.index >= 1
  BY <1>1 DEF Accepted
<1>5. Effect(panel, c) = [panel EXCEPT !.on = Switched(panel, c)]
  BY <1>1 DEF Effect
<1>6. NumOf[p[1][1]] = c.index /\ p[2][1] = c.action
  <2>1. <<>> \in OneOrNo(Numbers)
    BY DEF OneOrNo
  <2>. QED
    BY <1>1, <2>1, OutletSetLine
<1>7. l # ValueError /\ l.command = "!OutletSet" /\ l.value = Joined(ts)
  BY Lines
<1>8. DeviceRuns(l) = RunOutletSet(p)
  <2>. HIDE DEF l, ts
  <2>. QED
    BY <1>7, DeviceArms
<1>. HIDE DEF l, p
<1>9. RunOutletSet(p) = [panel EXCEPT !.on = [o \in Outlets |->
            IF c.index \notin {0, o} THEN panel.on[o]
            ELSE IF c.action = "TOGGLE" THEN ~ panel.on[o] ELSE c.action = "ON"]]
  BY <1>1, <1>6 DEF RunOutletSet
<1>10. ASSUME c.index >= 1, NEW o \in Outlets
       PROVE  (IF c.index \notin {0, o} THEN panel.on[o]
               ELSE IF c.action = "TOGGLE" THEN ~ panel.on[o] ELSE c.action = "ON") = Switched(panel, c)[o]
  <2>. DEFINE value == CASE c.action = "ON"  -> TRUE
                         [] c.action = "OFF" -> FALSE
                         [] c.action = "TOGGLE" -> c.index \in Outlets /\ ~ panel.on[c.index]
  <2>1. Switched(panel, c)[o] = IF o \in Named(c.index) THEN value ELSE panel.on[o]
    BY DEF Switched, At
  <2>2. o \in Named(c.index) <=> o = c.index
    BY <1>2, <1>10 DEF Named
  <2>3. o = c.index => value = IF c.action = "TOGGLE" THEN ~ panel.on[o] ELSE c.action = "ON"
    BY <1>1
  <2>. HIDE DEF value
  <2>4. c.index \notin {0, o} <=> o # c.index
    BY <1>2, <1>10
  <2>. QED
    BY <2>1, <2>2, <2>3, <2>4
<1>11. c.index >= 1 => RunOutletSet(p) = Effect(panel, c)
  <2>1. DOMAIN Switched(panel, c) = Outlets /\ Switched(panel, c) = [o \in Outlets |-> Switched(panel, c)[o]]
    BY DEF Switched, At
  <2>2. ASSUME c.index >= 1
        PROVE  [o \in Outlets |->
                  IF c.index \notin {0, o} THEN panel.on[o]
                  ELSE IF c.action = "TOGGLE" THEN ~ panel.on[o] ELSE c.action = "ON"] = Switched(panel, c)
    BY <1>10, <2>1, <2>2
  <2>. QED
    BY <1>5, <1>9, <2>2
<1>. QED
  BY <1>2, <1>3, <1>4, <1>7, <1>8, <1>11 DEF Obeyed

(* reset_outlet():                                                         *)
LEMMA ResetObeyed ==
    ASSUME NEW c \in [op : {"reset_outlet"}, index : Numbers, delay : OneOrNo(Numbers)]
    PROVE  Obeyed(c)
<1>. DEFINE ts == SetTexts(c.index, "RESET", c.delay)
            l == Line("!OutletSet", ts)
            p == Split(Joined(ts))
<1>1. c.op = "reset_outlet" /\ c.index \in Numbers /\ c.delay \in OneOrNo(Numbers)
  OBVIOUS
<1>2. c.index \in Int
  BY <1>1, Numbered
<1>3. c.delay # <<>> => Head(c.delay) \in Int
  <2>1. ASSUME c.delay # <<>>
        PROVE  Head(c.delay) \in Int
    <3>1. PICK d \in Numbers : c.delay = <<d>>
      BY <1>1, <2>1 DEF OneOrNo
    <3>. QED
      BY <3>1, Numbered
  <2>. QED
    BY <2>1
<1>4. Encoded(c) = IF c.index >= 0 /\ (c.delay # <<>> => 1 <= Head(c.delay) /\ Head(c.delay) <= 600)
                   THEN l ELSE ValueError
  BY <1>1 DEF Encoded, EncodeOutletSet, SetTexts
<1>5. Accepted(panel, c) <=> c.index >= 0 /\ (c.delay # <<>> => Head(c.delay) \in 1 .. 600)
  <2>1. (\A i \in DOMAIN c.delay : c.delay[i] \in 1 .. 600) <=> (c.delay # <<>> => Head(c.delay) \in 1 .. 600)
    <3>1. CASE c.delay = <<>>
      BY <3>1
    <3>2. CASE c.delay # <<>>
      <4>1. PICK d \in Numbers : c.delay = <<d>>
        BY <1>1, <3>2 DEF OneOrNo
      <4>2. Head(c.delay) = d /\ \A i \in DOMAIN c.delay : c.delay[i] = d
        BY <4>1
      <4>3. 1 \in DOMAIN c.delay
        BY <4>1
      <4>4. (\A i \in DOMAIN c.delay : c.delay[i] \in 1 .. 600) <=> d \in 1 .. 600
        <5>. DEFINE s == c.delay
                    T == 1 .. 600
        <5>. HIDE DEF T
        <5>1. (\A i \in DOMAIN s : s[i] = d) /\ 1 \in DOMAIN s
          BY <4>2, <4>3
        <5>. HIDE DEF s
        <5>2. (\A i \in DOMAIN s : s[i] \in T) <=> d \in T
          BY <5>1
        <5>. QED
          BY <5>2 DEF s, T
      <4>. QED
        BY <3>2, <4>2, <4>4
    <3>. QED
      BY <3>1, <3>2
  <2>. QED
    BY <1>1, <2>1 DEF Accepted
<1>6. Effect(panel, c) =
          [panel EXCEPT !.cycled = [o \in Outlets |->
                IF o \notin Named(c.index) THEN panel.cycled[o]
                ELSE IF c.delay = <<>> THEN panel.delays[o] ELSE Head(c.delay)]]
  BY <1>1 DEF Effect
<1>7. /\ NumOf[p[1][1]] = c.index /\ p[2][1] = "RESET"
      /\ c.delay = <<>> => Len(p) = 2
      /\ c.delay # <<>> => Len(p) = 3 /\ NumOf[p[3][1]] = Head(c.delay)
  BY <1>1, OutletSetLine
<1>8. l # ValueError /\ l.command = "!OutletSet" /\ l.value = Joined(ts)
  BY Lines
<1>9. DeviceRuns(l) = RunOutletSet(p)
  <2>. HIDE DEF l, ts
  <2>. QED
    BY <1>8, DeviceArms
<1>. HIDE DEF l, p
<1>10. RunOutletSet(p) = [panel EXCEPT !.cycled = [o \in Outlets |->
            IF c.index \notin {0, o} THEN panel.cycled[o]
            ELSE IF Len(p) = 3 THEN NumOf[p[3][1]] ELSE panel.delays[o]]]
  BY <1>7 DEF RunOutletSet
<1>11. ASSUME c.index >= 0, NEW o \in Outlets
       PROVE  c.index \notin {0, o} <=> o \notin Named(c.index)
  BY <1>2, <1>11 DEF Named
<1>12. c.index >= 0 => RunOutletSet(p) = Effect(panel, c)
  BY <1>6, <1>7, <1>10, <1>11
<1>13. Encoded(c) = IF Accepted(panel, c) THEN l ELSE ValueError
  <2>. DEFINE h == Head(c.delay)
              none == c.delay = <<>>
  <2>. HIDE DEF h, none
  <2>1. ~ none => h \in Int
    BY <1>3 DEF h, none
  <2>2. Encoded(c) = IF c.index >= 0 /\ (~ none => 1 <= h /\ h <= 600) THEN l ELSE ValueError
    BY <1>4 DEF h, none
  <2>3. Accepted(panel, c) <=> c.index >= 0 /\ (~ none => h \in 1 .. 600)
    BY <1>5 DEF h, none
  <2>. QED
    BY <1>2, <2>1, <2>2, <2>3
<1>14. Accepted(panel, c) => c.index >= 0
  BY <1>5
<1>. QED
  BY <1>8, <1>9, <1>12, <1>13, <1>14 DEF Obeyed
Unmarked(names) == \A i \in DOMAIN names : Free(names[i], Marks \ {","})

(* The line of all names is sent when none is empty or has a mark of its own. *)
LEMMA NamesEncoded ==
    ASSUME NEW names
    PROVE  EncodeOutletNameSetAll(names) =
              IF names # <<>> /\ Unmarked(names)
              THEN Line("!OutletNameSetAll", Braced(names)) ELSE ValueError
<1>. DEFINE bad == {"{", "}", "NL"}
<1>1. Marks \ {","} = bad
  BY DEF Marks
<1>. HIDE DEF bad
<1>2. \A t : Free(t, bad) <=> ~ (t = <<>> \/ Has(t, bad))
  BY DEF Free, Has
<1>3. EncodeOutletNameSetAll(names) =
          IF names = <<>> \/ \E i \in DOMAIN names : names[i] = <<>> \/ Has(names[i], bad)
          THEN ValueError ELSE Line("!OutletNameSetAll", Braced(names))
  BY DEF EncodeOutletNameSetAll, Braced, bad
<1>4. (names # <<>> /\ \A i \in DOMAIN names : Free(names[i], bad)) <=>
      ~ (names = <<>> \/ \E i \in DOMAIN names : names[i] = <<>> \/ Has(names[i], bad))
  BY <1>2
<1>. QED
  BY <1>1, <1>3, <1>4 DEF Unmarked

(* Names without marks, commas apart, arrive as they were.                 *)
LEMMA NamesTaken ==
    ASSUME NEW names \in Seq(Texts), Unmarked(names)
    PROVE  /\ Line("!OutletNameSetAll", Braced(names)) # ValueError
           /\ DeviceRuns(Line("!OutletNameSetAll", Braced(names))) = [panel EXCEPT !.names = names]
<1>. DEFINE l == Line("!OutletNameSetAll", Braced(names))
<1>1. names \in Seq(Unbraced)
  <2>1. Len(names) \in Nat /\ DOMAIN names = 1 .. Len(names) /\ names \in [1 .. Len(names) -> Texts]
    BY LenProperties
  <2>2. ASSUME NEW i \in 1 .. Len(names)
        PROVE  names[i] \in Unbraced
    <3>1. names[i] \in Texts /\ Free(names[i], Marks \ {","})
      BY <2>1, Zenon DEF Unmarked
    <3>2. {"{", "}"} \subseteq Marks \ {","}
      BY DEF Marks
    <3>. QED
      BY <3>1, <3>2 DEF Free, Unbraced, Lacking
  <2>3. names \in [1 .. Len(names) -> Unbraced]
    BY <2>1, <2>2
  <2>. QED
    BY <2>1, <2>3, FunctionsAreSeqs
<1>2. Groups(Joined(Braced(names))) = names
  <2>1. Gathered(Joined(Braced(names))) = [open |-> FALSE, texts |-> names]
    BY <1>1, GatheredJoined
  <2>. QED
    BY <2>1 DEF Groups
<1>3. l # ValueError /\ l.command = "!OutletNameSetAll" /\ l.value = Joined(Braced(names))
  BY Lines
<1>. HIDE DEF l
<1>4. DeviceRuns(l) = [panel EXCEPT !.names = names]
  <2>1. DeviceRuns(l) = [panel EXCEPT !.names = Groups(l.value)]
    BY <1>3, DeviceArms
  <2>. QED
    BY <1>2, <1>3, <2>1
<1>. QED
  BY <1>3, <1>4 DEF l

(* set_all_outlet_names():                                                 *)
LEMMA RenameAllObeyed ==
    ASSUME NEW c \in [op : {"rename_all"}, names : {<<>>} \cup [Outlets -> Texts]]
    PROVE  Obeyed(c)
<1>1. c.op = "rename_all" /\ c.names \in {<<>>} \cup [Outlets -> Texts]
  OBVIOUS
<1>2. Encoded(c) = EncodeOutletNameSetAll(c.names)
  BY <1>1 DEF Encoded
<1>3. Accepted(panel, c) <=> c.names # <<>> /\ Unmarked(c.names)
  BY <1>1 DEF Accepted, Unmarked
<1>4. Effect(panel, c) = [panel EXCEPT !.names = c.names]
  BY <1>1 DEF Effect
<1>5. c.names # <<>> => c.names \in Seq(Texts)
  <2>1. ASSUME c.names # <<>>
        PROVE  c.names \in Seq(Texts)
    <3>1. c.names \in [1 .. N -> Texts]
      BY <1>1, <2>1 DEF Outlets
    <3>. QED
      BY <3>1, PanelAssumption, FunctionsAreSeqs
  <2>. QED
    BY <2>1
<1>6. Encoded(c) = IF Accepted(panel, c) THEN Line("!OutletNameSetAll", Braced(c.names)) ELSE ValueError
  BY <1>2, <1>3, NamesEncoded
<1>7. Accepted(panel, c) =>
         /\ Line("!OutletNameSetAll", Braced(c.names)) # ValueError
         /\ DeviceRuns(Line("!OutletNameSetAll", Braced(c.names))) = [panel EXCEPT !.names = c.names]
  BY <1>3, <1>5, NamesTaken
<1>. QED
  BY <1>4, <1>6, <1>7 DEF Obeyed

(* The single setter of names keeps the first word, which is all of it.     *)
After(text, mark) == SubSeq(text, Min({i \in DOMAIN text : text[i] = mark}) + 1, Len(text))

(* What stands behind a mark that ends a single token.                     *)
LEMMA AfterFirst ==
    ASSUME NEW mark \in Tokens, NEW a \in Texts, NEW b \in Texts, Len(a) = 1, a[1] # mark
    PROVE  After(Append(a, mark) \o b, mark) = b
<1>. DEFINE n == Len(b)
            h == Append(a, mark)
            v == h \o b
            A == {k \in DOMAIN v : v[k] = mark}
            s == SubSeq(v, 3, 2 + n)
<1>1. n \in Nat /\ b \in Seq(Tokens) /\ a \in Seq(Tokens)
  BY LenProperties DEF Texts
<1>2. h \in Seq(Tokens) /\ Len(h) = 2 /\ h[1] = a[1] /\ h[2] = mark
  <2>1. /\ h \in Seq(Tokens) /\ Len(h) = Len(a) + 1 /\ h[Len(a) + 1] = mark
        /\ \A k \in 1 .. Len(a) : h[k] = a[k]
    BY ONLY <1>1, Lengthened, mark \in Tokens
  <2>. HIDE DEF h
  <2>2. 1 \in 1 .. Len(a)
    OBVIOUS
  <2>. QED
    BY <2>1, <2>2
<1>. HIDE DEF h
<1>3. /\ v \in Seq(Tokens) /\ Len(v) = 2 + n
      /\ \A k \in 1 .. 2 + n : v[k] = IF k <= 2 THEN h[k] ELSE b[k - 2]
  <2>1. /\ v \in Seq(Tokens) /\ Len(v) = Len(h) + Len(b)
        /\ \A k \in 1 .. Len(h) + Len(b) : v[k] = IF k <= Len(h) THEN h[k] ELSE b[k - Len(h)]
    BY <1>1, <1>2, ConcatProperties
  <2>. HIDE DEF v
  <2>. QED
    BY <1>2, <2>1
<1>. HIDE DEF v, n
<1>4. DOMAIN v = 1 .. 2 + n /\ v[1] # mark /\ v[2] = mark
  BY <1>1, <1>2, <1>3, LenProperties
<1>5. ASSUME NEW k \in 1 .. n
      PROVE  v[2 + k] = b[k]
  <2>1. 2 + k \in 1 .. 2 + n /\ ~ (2 + k <= 2) /\ (2 + k) - 2 = k
    BY <1>1
  <2>. QED
    BY <1>3, <2>1
<1>6. Min(A) = 2
  <2>1. 2 \in A /\ \A k \in A : k \in Nat /\ 2 <= k
    BY <1>1, <1>4
  <2>. HIDE DEF A
  <2>. QED
    BY <2>1 DEF Min
<1>. HIDE DEF A
<1>7. After(v, mark) = s
  <2>1. After(v, mark) = SubSeq(v, Min(A) + 1, Len(v))
    BY DEF After, A
  <2>. QED
    BY <1>3, <1>6, <2>1
<1>8. s \in Seq(Tokens) /\ Len(s) = n /\ \A k \in 1 .. n : s[k] = v[2 + k]
  <2>1. \A k \in 3 .. 2 + n : v[k] \in Tokens
    BY <1>1, <1>3, ElementOfSeq
  <2>2. 3 \in Int /\ 2 + n \in Int
    BY <1>1
  <2>3. /\ s \in Seq(Tokens)
        /\ Len(s) = IF 3 <= 2 + n THEN (2 + n) - 3 + 1 ELSE 0
        /\ \A k \in 1 .. (2 + n) - 3 + 1 : s[k] = v[3 + k - 1]
    BY <2>1, <2>2, SubSeqProperties
  <2>4. (2 + n) - 3 + 1 = n /\ \A k \in 1 .. n : 3 + k - 1 = 2 + k
    BY <1>1
  <2>. HIDE DEF s
  <2>5. Len(s) = n
    BY <1>1, <2>3
  <2>. QED
    BY <2>3, <2>4, <2>5
<1>. HIDE DEF s
<1>9. s = b
  <2>1. \A k \in 1 .. n : s[k] = b[k]
    BY <1>5, <1>8
  <2>. QED
    BY <1>1, <1>8, <2>1, SeqEqual DEF n
<1>. QED
  BY <1>7, <1>9 DEF v, h

(* A name without a space is not cut.                                      *)
LEMMA FirstWordOf ==
    ASSUME NEW name \in Texts, ~ Spaced(name)
    PROVE  FirstWord(name) = name
<1>. DEFINE n == Len(name)
<1>1. n \in Nat /\ name \in Seq(Tokens)
  BY LenProperties DEF Texts
<1>. HIDE DEF n
<1>2. {k \in DOMAIN name : name[k] = " "} \cup {n + 1} = {n + 1}
  BY Zenon DEF Spaced
<1>3. Min({n + 1}) = n + 1 /\ (n + 1) - 1 = n
  BY <1>1 DEF Min
<1>4. SubSeq(name, 1, n) = name
  BY <1>1, SubSeqFull DEF n
<1>. QED
  BY <1>2, <1>3, <1>4, Zenon DEF FirstWord, n

LEMMA PairAppended ==
    ASSUME NEW S, NEW a \in S, NEW b \in S
    PROVE  Append(<<a>>, b) = <<a, b>>
<1>. DEFINE s == <<a>>
            t == <<a, b>>
            u == Append(s, b)
<1>1. s \in Seq(S) /\ t \in Seq(S) /\ Len(s) = 1 /\ Len(t) = 2 /\ s[1] = a /\ t[1] = a /\ t[2] = b
  OBVIOUS
<1>. HIDE DEF s, t
<1>2. u \in Seq(S) /\ Len(u) = Len(s) + 1 /\ u[Len(s) + 1] = b /\ \A i \in 1 .. Len(s) : u[i] = s[i]
  <2>1. s \in Seq(S) /\ b \in S
    BY <1>1
  <2>. QED
    BY ONLY <2>1, Lengthened
<1>. HIDE DEF u
<1>3. Len(u) = 2 /\ u[2] = b /\ u[1] = a
  BY <1>1, <1>2
<1>4. \A i \in 1 .. 2 : u[i] = t[i]
  BY <1>1, <1>3
<1>5. u = t
  BY <1>1, <1>2, <1>3, <1>4, SeqEqual
<1>. QED
  BY <1>5 DEF s, t, u

(* Two texts, the first without a comma.                                    *)
LEMMA JoinedTwo ==
    ASSUME NEW a \in Texts, NEW b \in Texts
    PROVE  Joined(<<a, b>>) = Append(a, ",") \o b /\ Append(a, ",") \in Texts
<1>. DEFINE e == <<a>>
<1>1. e \in Seq(Texts) /\ e # <<>>
  OBVIOUS
<1>0. Append(e, b) = <<a, b>>
  BY PairAppended
<1>2. Joined(e) = a
  BY JoinedOne
<1>. HIDE DEF e
<1>3. Joined(Append(e, b)) = Joined(e) \o (<<",">> \o b)
  BY <1>1, JoinedSteps
<1>4. "," \in Tokens
  BY MarksAreTokens
<1>5. a \o (<<",">> \o b) = Append(a, ",") \o b /\ Append(a, ",") \in Texts
  BY <1>4, TextsChained
<1>. QED
  BY <1>0, <1>2, <1>3, <1>5

(* A number and a name without a comma.                                    *)
LEMMA NameLine ==
    ASSUME NEW i \in Numbers, NEW name \in CommaFree, ~ Spaced(name)
    PROVE  LET v == Joined(<<Num(i), name>>)
           IN NumOf[Split(v)[1][1]] = i /\ FirstWord(Rest(v)) = name
<1>. DEFINE v == Joined(<<Num(i), name>>)
<1>1. Num(i) \in Single /\ NumOf[Num(i)[1]] = i
  BY Numbered
<1>2. Num(i) \in CommaFree /\ Num(i) \in Texts /\ Len(Num(i)) = 1 /\ Num(i)[1] \in Simple
  BY <1>1, Singles
<1>3. name \in Texts
  BY DEF CommaFree, Lacking
<1>4. Split(v) = <<Num(i), name>>
  <2>1. <<Num(i), name>> \in Seq(CommaFree) /\ <<Num(i), name>> # <<>>
    BY <1>2
  <2>. QED
    BY <2>1, SplitJoined
<1>5. Rest(v) = name
  <2>1. v = Append(Num(i), ",") \o name
    BY <1>2, <1>3, JoinedTwo
  <2>2. Num(i)[1] # "," /\ "," \in Tokens
    BY <1>2, MarksAreTokens DEF Simple, Marks
  <2>3. After(Append(Num(i), ",") \o name, ",") = name
    BY <1>2, <1>3, <2>2, AfterFirst
  <2>. HIDE DEF v
  <2>4. Rest(v) = After(v, ",")
    BY Zenon DEF Rest, After
  <2>. QED
    BY <2>1, <2>3, <2>4
<1>6. FirstWord(name) = name
  BY <1>3, FirstWordOf
<1>. HIDE DEF v
<1>7. NumOf[Split(v)[1][1]] = i
  BY <1>1, <1>4
<1>. QED
  BY <1>5, <1>6, <1>7 DEF v

(* set_outlet_name() with a name without a space:                          *)
LEMMA UnspacedObeyed ==
    ASSUME NEW c \in [op : {"rename"}, index : Numbers, name : Texts], ~ Spaced(c.name)
    PROVE  Obeyed(c)
<1>. DEFINE ts == <<Num(c.index), c.name>>
            l == Line("!OutletNameSet", ts)
<1>1. c.op = "rename" /\ c.index \in Numbers /\ c.name \in Texts
  OBVIOUS
<1>2. c.index \in Int
  BY <1>1, Numbered
<1>3. Has(c.name, {" "}) = Spaced(c.name)
  BY Zenon DEF Has, Spaced
<1>4. Encoded(c) = EncodeOutletNameSet(c.index, c.name)
  <2>1. Encoded(c) = EncodeRename(c.index, c.name)
    BY <1>1 DEF Encoded
  <2>. QED
    BY <1>3, <2>1, Zenon DEF EncodeRename
<1>5. Free(c.name, Marks) <=> ~ (c.name = <<>> \/ Has(c.name, {",", "{", "}", "NL"}))
  BY Zenon DEF Free, Has, Marks
<1>6. Encoded(c) = IF c.index >= 1 /\ Free(c.name, Marks) THEN l ELSE ValueError
  <2>. DEFINE bad == c.name = <<>> \/ Has(c.name, {",", "{", "}", "NL"})
  <2>1. EncodeOutletNameSet(c.index, c.name) = IF c.index < 1 \/ bad THEN ValueError ELSE l
    BY Zenon DEF EncodeOutletNameSet
  <2>2. Free(c.name, Marks) <=> ~ bad
    BY <1>5
  <2>. HIDE DEF bad, l
  <2>. QED
    BY <1>2, <1>4, <2>1, <2>2
<1>7. Accepted(panel, c) <=> c.index >= 1 /\ Free(c.name, Marks)
  BY <1>1 DEF Accepted
<1>8. Effect(panel, c) = [panel EXCEPT !.names = At(panel.names, c.index, c.name)]
  BY <1>1 DEF Effect
<1>9. ASSUME Free(c.name, Marks)
      PROVE  NumOf[Split(Joined(ts))[1][1]] = c.index /\ FirstWord(Rest(Joined(ts))) = c.name
  <2>1. "," \in Marks
    BY Zenon DEF Marks
  <2>2. \A i \in DOMAIN c.name : c.name[i] \notin {","}
    BY <1>9, <2>1, Zenon DEF Free
  <2>3. c.name \in CommaFree
    BY <1>1, <2>2, Zenon DEF CommaFree, Lacking
  <2>. QED
    BY <1>1, <2>3, NameLine
<1>10. l # ValueError /\ l.command = "!OutletNameSet" /\ l.value = Joined(ts)
  BY Lines
<1>. HIDE DEF l, ts
<1>11. Free(c.name, Marks) =>
          DeviceRuns(l) = [panel EXCEPT !.names = SetAt(panel.names, c.index, c.name)]
  <2>1. DeviceRuns(l) = [panel EXCEPT !.names =
                            SetAt(panel.names, NumOf[Split(l.value)[1][1]], FirstWord(Rest(l.value)))]
    BY <1>10, DeviceArms
  <2>. QED
    BY <1>9, <1>10, <2>1
<1>12. c.index >= 1 => SetAt(panel.names, c.index, c.name) = At(panel.names, c.index, c.name)
  BY <1>2 DEF SetAt, At, Named
<1>. QED
  BY <1>6, <1>7, <1>8, <1>10, <1>11, <1>12 DEF Obeyed

(* One outlet changed.                                                     *)
LEMMA ChangedAt ==
    ASSUME NEW S, NEW f \in [Outlets -> S], NEW i \in Outlets, NEW x
    PROVE  [f EXCEPT ![i] = x] = At(f, i, x)
<1>1. i \in Int /\ i # 0
  BY PanelAssumption DEF Outlets
<1>2. \A o \in Outlets : o \in Named(i) <=> o = i
  BY <1>1 DEF Named
<1>3. At(f, i, x) = [o \in Outlets |-> IF o \in Named(i) THEN x ELSE f[o]]
  BY DEF At
<1>4. [f EXCEPT ![i] = x] = [o \in Outlets |-> IF o = i THEN x ELSE f[o]]
  OBVIOUS
<1>. QED
  BY <1>2, <1>3, <1>4

(* set_outlet_name() with a space sends the names of all outlets:          *)
LEMMA SpacedObeyed ==
    ASSUME NEW c \in [op : {"rename"}, index : Numbers, name : Texts], Spaced(c.name), panel \in PanelType
    PROVE  Obeyed(c)
<1>. DEFINE names == Renamed(panel, c)
            l == Line("!OutletNameSetAll", Braced(names))
<1>1. c.op = "rename" /\ c.index \in Numbers /\ c.name \in Texts
  OBVIOUS
<1>2. panel.names \in [Outlets -> Names] /\ DOMAIN panel.names = Outlets
  BY DEF PanelType
<1>3. Has(c.name, {" "}) = Spaced(c.name)
  BY Zenon DEF Has, Spaced
<1>4. ParseOutletNames(Shown(<<"OutletName">>))[2] = panel.names
  <2>1. Shown(<<"OutletName">>) = Joined([o \in Outlets |-> Brace(panel.names[o])])
    BY DEF Shown
  <2>2. ParseOutletNames(Shown(<<"OutletName">>)) = Good(panel.names)
    BY <1>2, <2>1, OutletNamesShown
  <2>. QED
    BY <2>2 DEF Good
<1>5. Encoded(c) = IF c.index \in Outlets THEN EncodeOutletNameSetAll(names) ELSE ValueError
  <2>1. Encoded(c) = EncodeRename(c.index, c.name)
    BY <1>1 DEF Encoded
  <2>2. EncodeRename(c.index, c.name) =
           IF c.index \notin DOMAIN panel.names THEN ValueError
           ELSE EncodeOutletNameSetAll([panel.names EXCEPT ![c.index] = c.name])
    BY <1>3, <1>4, Zenon DEF EncodeRename
  <2>. QED
    BY <1>2, <2>1, <2>2 DEF Renamed
<1>6. ASSUME c.index \in Outlets
      PROVE  names \in Seq(Texts) /\ names # <<>> /\ DOMAIN names = Outlets
  <2>1. names \in [1 .. N -> Texts] /\ DOMAIN names = Outlets
    BY <1>1, <1>2 DEF Renamed, Names, Outlets
  <2>2. N \in Nat /\ N # 0
    BY <1>6, PanelAssumption DEF Outlets
  <2>3. names \in Seq(Texts) /\ Len(names) = N
    <3>. HIDE DEF names
    <3>. QED
      BY <2>1, <2>2, FunctionsAreSeqs
  <2>. QED
    BY <2>1, <2>2, <2>3, EmptySeq
<1>7. Accepted(panel, c) <=> c.index \in Outlets /\ Unmarked(names)
  <2>1. Accepted(panel, c) <=> c.index \in Outlets /\ \A o \in Outlets : Free(names[o], Marks \ {","})
    BY <1>1, Zenon DEF Accepted
  <2>. HIDE DEF names
  <2>. QED
    BY <1>6, <2>1, Zenon DEF Unmarked
<1>8. Effect(panel, c) = [panel EXCEPT !.names = At(panel.names, c.index, c.name)]
  BY <1>1 DEF Effect
<1>9. c.index \in Outlets => names = At(panel.names, c.index, c.name)
  <2>1. ASSUME c.index \in Outlets PROVE names = At(panel.names, c.index, c.name)
    <3>1. names = [panel.names EXCEPT ![c.index] = c.name]
      BY DEF Renamed
    <3>2. [panel.names EXCEPT ![c.index] = c.name] = At(panel.names, c.index, c.name)
      BY ONLY <1>2, <2>1, ChangedAt
    <3>. QED
      BY ONLY <3>1, <3>2
  <2>. QED
    BY <2>1
<1>. HIDE DEF names
<1>10. EncodeOutletNameSetAll(names) = IF names # <<>> /\ Unmarked(names) THEN l ELSE ValueError
  BY NamesEncoded, Zenon
<1>11. c.index \in Outlets /\ Unmarked(names) =>
          l # ValueError /\ DeviceRuns(l) = [panel EXCEPT !.names = names]
  BY <1>6, NamesTaken
<1>. HIDE DEF l
<1>12. Encoded(c) = IF Accepted(panel, c) THEN l ELSE ValueError
  BY <1>5, <1>6, <1>7, <1>10
<1>. QED
  BY <1>7, <1>8, <1>9, <1>11, <1>12 DEF Obeyed

-----------------------------------------------------------------------------
(* Hosts and schedules                                                      *)

(* A text that has no mark has no comma and no brace.                       *)
LEMMA FreeOfMarks ==
    ASSUME NEW text \in Texts, Free(text, Marks)
    PROVE  text \in CommaFree /\ text \in Unbraced
<1>1. {","} \subseteq Marks /\ {"{", "}"} \subseteq Marks
  BY Zenon DEF Marks
<1>2. \A i \in DOMAIN text : text[i] \notin Marks
  BY DEF Free
<1>3. \A i \in DOMAIN text : text[i] \notin {","}
  BY <1>1, <1>2, Zenon
<1>4. \A i \in DOMAIN text : text[i] \notin {"{", "}"}
  BY <1>1, <1>2, Zenon
<1>. QED
  BY <1>3, <1>4, Zenon DEF CommaFree, Unbraced, Lacking

(* The check of a name in the encoders.                                     *)
LEMMA MarksChecked ==
    ASSUME NEW text
    PROVE  Free(text, Marks) <=> ~ (text = <<>> \/ Has(text, {",", "{", "}", "NL"}))
BY Zenon DEF Free, Has, Marks

LEMMA PairExtended ==
    ASSUME NEW S, NEW a \in S, NEW b \in S, NEW c \in S
    PROVE  Append(<<a, b>>, c) = <<a, b, c>>
<1>. DEFINE s == <<a, b>>
            t == <<a, b, c>>
            u == Append(s, c)
<1>1. /\ s \in Seq(S) /\ t \in Seq(S) /\ Len(s) = 2 /\ Len(t) = 3
      /\ s[1] = a /\ s[2] = b /\ t[1] = a /\ t[2] = b /\ t[3] = c
  OBVIOUS
<1>. HIDE DEF s, t
<1>2. u \in Seq(S) /\ Len(u) = Len(s) + 1 /\ u[Len(s) + 1] = c /\ \A i \in 1 .. Len(s) : u[i] = s[i]
  <2>1. s \in Seq(S) /\ c \in S
    BY <1>1
  <2>. QED
    BY ONLY <2>1, Lengthened
<1>. HIDE DEF u
<1>3. Len(u) = 3 /\ u[3] = c /\ u[1] = a /\ u[2] = b
  BY <1>1, <1>2
<1>4. \A i \in 1 .. 3 : u[i] = t[i]
  BY <1>1, <1>3
<1>5. u = t
  BY <1>1, <1>2, <1>3, <1>4, SeqEqual
<1>. QED
  BY <1>5 DEF s, t, u

(* A name, an address and a list in braces.                                *)
LEMMA HostLine ==
    ASSUME NEW name \in Texts, NEW ip \in Texts, NEW nums \in Unbraced,
           Free(name, Marks), Free(ip, Marks)
    PROVE  LET v == Joined(<<name, ip, Brace(nums)>>)
           IN Split(v)[1] = name /\ Split(v)[2] = ip /\ Groups(v) = <<nums>>
<1>. DEFINE g == Brace(nums)
            two == <<name, ip>>
            a == Append(name, ",") \o ip
            b == Append(a, ",")
            v == Joined(<<name, ip, g>>)
<1>1. /\ name \in CommaFree /\ ip \in CommaFree /\ name \in Unbraced /\ ip \in Unbraced
      /\ nums \in Texts /\ g \in Texts /\ "," \in Tokens /\ <<>> \in Texts
  BY FreeOfMarks, MarksAreTokens DEF Unbraced, Lacking
<1>2. two \in Seq(CommaFree) /\ two \in Seq(Texts) /\ two # <<>> /\ Len(two) = 2
      /\ two[1] = name /\ two[2] = ip
  <2>1. two \in Seq(CommaFree)
    <3>1. name \in CommaFree /\ ip \in CommaFree
      BY <1>1
    <3>. HIDE DEF a, b, v, g
    <3>. QED
      BY ONLY <3>1
  <2>2. two \in Seq(Texts) /\ two # <<>> /\ Len(two) = 2 /\ two[1] = name /\ two[2] = ip
    OBVIOUS
  <2>. QED
    BY <2>1, <2>2
<1>3. Append(two, g) = <<name, ip, g>>
  BY <1>1, PairExtended
<1>4. Joined(two) = a /\ Append(name, ",") \in Texts /\ a \in Texts
  <2>1. Joined(two) = a /\ Append(name, ",") \in Texts
    BY JoinedTwo
  <2>. QED
    BY <2>1, TextsChained
<1>. HIDE DEF two, g
<1>5. v = b \o g /\ b \in Texts
  <2>1. Joined(Append(two, g)) = Joined(two) \o (<<",">> \o g)
    BY <1>1, <1>2, JoinedSteps
  <2>2. a \o (<<",">> \o g) = b \o g /\ b \in Texts
    BY <1>1, <1>4, TextsChained
  <2>. QED
    BY <1>3, <1>4, <2>1, <2>2
<1>6. Split(v)[1] = name /\ Split(v)[2] = ip
  <2>. DEFINE e == <<>>
              s == Append(two, e)
  <2>1. Split(a) = two
    BY <1>2, <1>4, SplitJoined
  <2>2. Split(b) = s
    <3>1. Split(b) = Cut(two, ",")
      BY <1>1, <1>4, <2>1, CutSteps
    <3>. QED
      BY <3>1 DEF Cut
  <2>3. e \in Texts
    BY <1>1
  <2>. HIDE DEF e
  <2>4. Len(s) = 3 /\ s[1] = name /\ s[2] = ip
    <3>1. Len(s) = Len(two) + 1 /\ \A i \in 1 .. Len(two) : s[i] = two[i]
      <4>1. two \in Seq(Texts) /\ e \in Texts
        BY <1>2, <2>3
      <4>2. Len(Append(two, e)) = Len(two) + 1 /\ \A i \in 1 .. Len(two) : Append(two, e)[i] = two[i]
        BY ONLY <4>1, Lengthened
      <4>. QED
        BY <4>2
    <3>. HIDE DEF s
    <3>. QED
      BY <1>2, <3>1
  <2>. HIDE DEF s, a
  <2>5. \A i \in 1 .. Len(Split(b)) - 1 : Split(b \o g)[i] = Split(b)[i]
    <3>1. b \in Texts /\ g \in Texts
      BY <1>1, <1>5
    <3>. QED
      BY ONLY <3>1, SplitPrefix
  <2>. HIDE DEF b, v
  <2>. QED
    BY <1>5, <2>2, <2>4, <2>5
<1>7. Groups(v) = <<nums>>
  <2>. DEFINE none == <<>>
              At1(t) == Gathered(t) = [open |-> FALSE, texts |-> none]
  <2>1. none \in Seq(Texts)
    BY EmptySeq
  <2>2. At1(<<>>)
    BY GatherSteps
  <2>. HIDE DEF none
  <2>3. At1(name)
    <3>1. Gathered(<<>> \o name) = [open |-> FALSE, texts |-> none]
      BY <1>1, <2>1, <2>2, GatherBraced
    <3>2. <<>> \o name = name
      BY TextsChained
    <3>. QED
      BY <3>1, <3>2
  <2>4. At1(Append(name, ","))
    BY <1>1, <2>1, <2>3, GatherBraced
  <2>5. At1(a)
    BY <1>1, <1>4, <2>1, <2>4, GatherBraced
  <2>6. At1(b)
    BY <1>1, <1>4, <2>1, <2>5, GatherBraced
  <2>. HIDE DEF a, b
  <2>7. Gathered(b \o g) = [open |-> FALSE, texts |-> Append(none, nums)]
    BY <1>1, <1>5, <2>1, <2>6, GatherBraced DEF g
  <2>8. Append(none, nums) = <<nums>>
    BY AppendedToNone DEF none
  <2>. HIDE DEF v
  <2>. QED
    BY <1>5, <2>7, <2>8 DEF Groups
<1>. QED
  BY <1>6, <1>7 DEF v, g

(* add_host():                                                             *)
LEMMA HostObeyed ==
    ASSUME NEW c \in [op : {"add_host"}, name : Texts, ip : Texts, outlets : Seq(Numbers)]
    PROVE  Obeyed(c)
<1>. DEFINE nums == Nums(c.outlets)
            ts == <<c.name, c.ip, Brace(nums)>>
            l == Line("!HostAdd", ts)
            v == Joined(ts)
            ok == Free(c.name, Marks) /\ Free(c.ip, Marks) /\ Positive(c.outlets)
<1>1. c.op = "add_host" /\ c.name \in Texts /\ c.ip \in Texts /\ c.outlets \in Seq(Numbers)
  OBVIOUS
<1>2. Encoded(c) = IF ok THEN l ELSE ValueError
  <2>1. Encoded(c) = EncodeHostAdd(c.name, c.ip, c.outlets)
    BY <1>1 DEF Encoded
  <2>2. EncodeHostAdd(c.name, c.ip, c.outlets) =
           IF \/ c.name = <<>> \/ c.ip = <<>>
              \/ Has(c.name, {",", "{", "}", "NL"}) \/ Has(c.ip, {",", "{", "}", "NL"})
              \/ ~ Positive(c.outlets)
           THEN ValueError ELSE l
    BY Zenon DEF EncodeHostAdd
  <2>3. ok <=> ~ (\/ c.name = <<>> \/ c.ip = <<>>
                  \/ Has(c.name, {",", "{", "}", "NL"}) \/ Has(c.ip, {",", "{", "}", "NL"})
                  \/ ~ Positive(c.outlets))
    BY MarksChecked, Zenon
  <2>. HIDE DEF ok, l
  <2>. QED
    BY <2>1, <2>2, <2>3, Zenon
<1>3. Accepted(panel, c) <=> ok
  BY <1>1 DEF Accepted, Positive
<1>4. Effect(panel, c) = [panel EXCEPT !.hosts = panel.hosts \cup {<<c.name, c.ip, c.outlets>>}]
  BY <1>1 DEF Effect
<1>5. ok => Split(v)[1] = c.name /\ Split(v)[2] = c.ip /\ Ints(Groups(v)[1]) = c.outlets
  <2>1. ASSUME ok
        PROVE  Split(v)[1] = c.name /\ Split(v)[2] = c.ip /\ Groups(v) = <<nums>>
               /\ Ints(nums) = c.outlets
    <3>1. c.outlets # <<>>
      BY <2>1 DEF Positive
    <3>2. Ints(nums) = c.outlets /\ nums \in Unbraced
      BY <1>1, <3>1, IntsNums
    <3>. HIDE DEF nums
    <3>3. Split(v)[1] = c.name /\ Split(v)[2] = c.ip /\ Groups(v) = <<nums>>
      BY <1>1, <2>1, <3>2, HostLine
    <3>. QED
      BY <3>2, <3>3
  <2>2. <<nums>>[1] = nums
    OBVIOUS
  <2>. HIDE DEF v, nums, ok
  <2>. QED
    BY <2>1, <2>2
<1>6. l # ValueError /\ l.command = "!HostAdd" /\ l.value = v
  BY Lines
<1>. HIDE DEF l, v, ts, ok
<1>7. ok => DeviceRuns(l) = [panel EXCEPT !.hosts = panel.hosts \cup {<<c.name, c.ip, c.outlets>>}]
  <2>1. DeviceRuns(l) =
           [panel EXCEPT !.hosts = panel.hosts \cup {<<Split(v)[1], Split(v)[2], Ints(Groups(v)[1])>>}]
    BY <1>6, DeviceArms
  <2>. QED
    BY <1>5, <2>1
<1>. QED
  BY <1>2, <1>3, <1>4, <1>6, <1>7 DEF Obeyed

(* A text, and a token put behind it.                                       *)
LEMMA OneMore ==
    ASSUME NEW s \in Texts, NEW x \in Tokens
    PROVE  /\ s \o <<x>> \in Texts /\ Len(s \o <<x>>) = Len(s) + 1
           /\ (s \o <<x>>)[Len(s) + 1] = x
           /\ \A i \in 1 .. Len(s) : (s \o <<x>>)[i] = s[i]
<1>1. s \o <<x>> = Append(s, x)
  BY AppendIsConcat DEF Texts
<1>2. /\ Append(s, x) \in Seq(Tokens) /\ Len(Append(s, x)) = Len(s) + 1
      /\ \A i \in 1 .. Len(s) : Append(s, x)[i] = s[i]
      /\ Append(s, x)[Len(s) + 1] = x
  BY Lengthened DEF Texts
<1>. QED
  BY <1>1, <1>2 DEF Texts

LEMMA Three ==
    ASSUME NEW a \in Tokens, NEW b \in Tokens, NEW c \in Tokens
    PROVE  LET s == (<<a>> \o <<b>>) \o <<c>> IN s[1] = a /\ s[3] = c
<1>. DEFINE s1 == <<a>>
            s2 == s1 \o <<b>>
            s3 == s2 \o <<c>>
<1>1. s1 \in Texts /\ Len(s1) = 1 /\ s1[1] = a
  BY OneElement DEF Texts
<1>. HIDE DEF s1
<1>2. s2 \in Texts /\ Len(s2) = 2 /\ s2[1] = a
  <2>1. /\ s2 \in Texts /\ Len(s2) = Len(s1) + 1 /\ s2[Len(s1) + 1] = b
        /\ \A i \in 1 .. Len(s1) : s2[i] = s1[i]
    <3>1. s1 \in Texts /\ b \in Tokens
      BY <1>1
    <3>. QED
      BY ONLY <3>1, OneMore
  <2>. HIDE DEF s2
  <2>. QED
    BY <1>1, <2>1
<1>. HIDE DEF s2
<1>3. s3 \in Texts /\ Len(s3) = 3 /\ s3[1] = a /\ s3[3] = c
  <2>1. /\ s3 \in Texts /\ Len(s3) = Len(s2) + 1 /\ s3[Len(s2) + 1] = c
        /\ \A i \in 1 .. Len(s2) : s3[i] = s2[i]
    <3>1. s2 \in Texts /\ c \in Tokens
      BY <1>2
    <3>. QED
      BY ONLY <3>1, OneMore
  <2>. HIDE DEF s3
  <2>. QED
    BY <1>2, <2>1
<1>. HIDE DEF s3
<1>. QED
  BY <1>3 DEF s1, s2, s3

LEMMA Five ==
    ASSUME NEW a \in Tokens, NEW b \in Tokens, NEW c \in Tokens, NEW d \in Tokens, NEW e \in Tokens
    PROVE  LET s == (((<<a>> \o <<b>>) \o <<c>>) \o <<d>>) \o <<e>>
           IN s[1] = a /\ s[3] = c /\ s[5] = e
<1>. DEFINE s1 == <<a>>
            s2 == s1 \o <<b>>
            s3 == s2 \o <<c>>
            s4 == s3 \o <<d>>
            s5 == s4 \o <<e>>
<1>1. s1 \in Texts /\ Len(s1) = 1 /\ s1[1] = a
  BY OneElement DEF Texts
<1>. HIDE DEF s1
<1>2. s2 \in Texts /\ Len(s2) = 2 /\ s2[1] = a
  <2>1. /\ s2 \in Texts /\ Len(s2) = Len(s1) + 1 /\ s2[Len(s1) + 1] = b
        /\ \A i \in 1 .. Len(s1) : s2[i] = s1[i]
    <3>1. s1 \in Texts /\ b \in Tokens
      BY <1>1
    <3>. QED
      BY ONLY <3>1, OneMore
  <2>. HIDE DEF s2
  <2>. QED
    BY <1>1, <2>1
<1>. HIDE DEF s2
<1>3. s3 \in Texts /\ Len(s3) = 3 /\ s3[1] = a /\ s3[3] = c
  <2>1. /\ s3 \in Texts /\ Len(s3) = Len(s2) + 1 /\ s3[Len(s2) + 1] = c
        /\ \A i \in 1 .. Len(s2) : s3[i] = s2[i]
    <3>1. s2 \in Texts /\ c \in Tokens
      BY <1>2
    <3>. QED
      BY ONLY <3>1, OneMore
  <2>. HIDE DEF s3
  <2>. QED
    BY <1>2, <2>1
<1>. HIDE DEF s3
<1>4. s4 \in Texts /\ Len(s4) = 4 /\ s4[1] = a /\ s4[3] = c
  <2>1. /\ s4 \in Texts /\ Len(s4) = Len(s3) + 1 /\ s4[Len(s3) + 1] = d
        /\ \A i \in 1 .. Len(s3) : s4[i] = s3[i]
    <3>1. s3 \in Texts /\ d \in Tokens
      BY <1>3
    <3>. QED
      BY ONLY <3>1, OneMore
  <2>. HIDE DEF s4
  <2>. QED
    BY <1>3, <2>1
<1>. HIDE DEF s4
<1>5. s5 \in Texts /\ Len(s5) = 5 /\ s5[1] = a /\ s5[3] = c /\ s5[5] = e
  <2>1. /\ s5 \in Texts /\ Len(s5) = Len(s4) + 1 /\ s5[Len(s4) + 1] = e
        /\ \A i \in 1 .. Len(s4) : s5[i] = s4[i]
    <3>1. s4 \in Texts /\ e \in Tokens
      BY <1>4
    <3>. QED
      BY ONLY <3>1, OneMore
  <2>. HIDE DEF s5
  <2>. QED
    BY <1>4, <2>1
<1>. HIDE DEF s5
<1>. QED
  BY <1>5 DEF s1, s2, s3, s4, s5

(* Times, dates and days as texts.                                         *)
LEMMA TimeShown ==
    ASSUME NEW t \in Clocks
    PROVE  TimeOf(TimeText(t)) = t /\ TimeText(t) \in Unbraced
<1>. DEFINE h == ToString(t.h)
            m == ToString(t.m)
            colon == ":"
            s == TimeText(t)
<1>1. t.h \in Numbers /\ t.m \in Numbers /\ t = [h |-> t.h, m |-> t.m]
  BY DEF Clocks
<1>2. NumOf[h] = t.h /\ NumOf[m] = t.m /\ Num(t.h) \in Unbraced /\ Num(t.m) \in Unbraced
  BY <1>1, Numbered, Singles
<1>3. s = (Num(t.h) \o <<colon>>) \o Num(t.m)
  BY Zenon DEF TimeText
<1>4. <<colon>> \in Unbraced /\ colon \in Tokens /\ h \in Tokens /\ m \in Tokens
  BY <1>1, UnbracedChained, MarksAreTokens, Numbered DEF Simple
<1>5. s \in Unbraced
  <2>1. Num(t.h) \o <<colon>> \in Unbraced
    BY <1>2, <1>4, UnbracedChained
  <2>. HIDE DEF colon, s
  <2>. QED
    BY <1>2, <1>3, <2>1, UnbracedChained
<1>. HIDE DEF h, m, colon, s
<1>6. s[1] = h /\ s[3] = m
  <2>1. Num(t.h) = <<h>> /\ Num(t.m) = <<m>>
    BY Zenon DEF Num, h, m
  <2>. QED
    <3>1. LET u == (<<h>> \o <<colon>>) \o <<m>> IN u[1] = h /\ u[3] = m
      <4>1. h \in Tokens /\ colon \in Tokens /\ m \in Tokens
        BY <1>4
      <4>. QED
        BY ONLY <4>1, Three
    <3>. QED
      BY <1>3, <2>1, <3>1
<1>7. TimeOf(s) = [h |-> NumOf[h], m |-> NumOf[m]]
  BY <1>6 DEF TimeOf
<1>. QED
  BY <1>1, <1>2, <1>5, <1>7 DEF s

LEMMA DateShown ==
    ASSUME NEW d \in Dates
    PROVE  DateOf(DateText(d)) = d /\ DateText(d) \in Unbraced
<1>. DEFINE y == ToString(d.y)
            m == ToString(d.m)
            k == ToString(d.d)
            slash == "/"
            s == DateText(d)
<1>1. d.y \in Numbers /\ d.m \in Numbers /\ d.d \in Numbers /\ d = [y |-> d.y, m |-> d.m, d |-> d.d]
  BY DEF Dates
<1>2. /\ NumOf[y] = d.y /\ NumOf[m] = d.m /\ NumOf[k] = d.d
      /\ Num(d.y) \in Unbraced /\ Num(d.m) \in Unbraced /\ Num(d.d) \in Unbraced
  BY <1>1, Numbered, Singles
<1>3. s = (((Num(d.y) \o <<slash>>) \o Num(d.m)) \o <<slash>>) \o Num(d.d)
  BY Zenon DEF DateText
<1>4. <<slash>> \in Unbraced /\ slash \in Tokens /\ y \in Tokens /\ m \in Tokens /\ k \in Tokens
  BY <1>1, UnbracedChained, MarksAreTokens, Numbered DEF Simple
<1>. HIDE DEF slash, s
<1>5. s \in Unbraced
  <2>1. Num(d.y) \o <<slash>> \in Unbraced
    BY <1>2, <1>4, UnbracedChained
  <2>2. (Num(d.y) \o <<slash>>) \o Num(d.m) \in Unbraced
    BY <1>2, <2>1, UnbracedChained
  <2>3. ((Num(d.y) \o <<slash>>) \o Num(d.m)) \o <<slash>> \in Unbraced
    BY <1>4, <2>2, UnbracedChained
  <2>. QED
    BY <1>2, <1>3, <2>3, UnbracedChained
<1>. HIDE DEF y, m, k
<1>6. s[1] = y /\ s[3] = m /\ s[5] = k
  <2>1. Num(d.y) = <<y>> /\ Num(d.m) = <<m>> /\ Num(d.d) = <<k>>
    BY Zenon DEF Num, y, m, k
  <2>. QED
    <3>1. LET u == (((<<y>> \o <<slash>>) \o <<m>>) \o <<slash>>) \o <<k>>
          IN u[1] = y /\ u[3] = m /\ u[5] = k
      <4>1. y \in Tokens /\ slash \in Tokens /\ m \in Tokens /\ k \in Tokens
        BY <1>4
      <4>. QED
        BY ONLY <4>1, Five
    <3>. QED
      BY <1>3, <2>1, <3>1
<1>7. DateOf(s) = [y |-> NumOf[y], m |-> NumOf[m], d |-> NumOf[k]]
  BY <1>6 DEF DateOf
<1>. QED
  BY <1>1, <1>2, <1>5, <1>7 DEF s

LEMMA DaysShown ==
    ASSUME NEW days \in Weeks
    PROVE  DaysOf(DaysText(days)) = days /\ DaysText(days) \in Unbraced
<1>. DEFINE Bit(i) == IF days[i] THEN 1 ELSE 0
            bits == [i \in DOMAIN days |-> Bit(i)]
            ts == [i \in DOMAIN bits |-> Num(bits[i])]
<1>1. days \in [1 .. 7 -> BOOLEAN] /\ DOMAIN days = 1 .. 7
  BY DEF Weeks
<1>2. DOMAIN bits = 1 .. 7 /\ \A i \in 1 .. 7 : bits[i] = Bit(i)
  BY <1>1
<1>3. \A i \in 1 .. 7 : Num(Bit(i)) = <<Flag(days[i])>>
  BY <1>1, NumbersAssumption DEF Num, Flag
<1>. HIDE DEF Bit, bits
<1>4. DOMAIN ts = 1 .. 7 /\ \A i \in 1 .. 7 : ts[i] = <<Flag(days[i])>>
  BY <1>2, <1>3
<1>5. \A i \in 1 .. 7 : <<Flag(days[i])>> \in Single /\ (<<Flag(days[i])>> = <<"1">>) = days[i]
  <2>1. \A i \in 1 .. 7 : <<Flag(days[i])>> \in Single /\ (Flag(days[i]) = "1") = days[i]
    BY <1>1, Flags
  <2>2. \A i \in 1 .. 7 : (<<Flag(days[i])>> = <<"1">>) = (Flag(days[i]) = "1")
    BY SameToken
  <2>. QED
    BY <2>1, <2>2
<1>6. ts \in [1 .. 7 -> Single] /\ Nums(bits) = Joined(ts)
  <2>1. \A i \in 1 .. 7 : ts[i] \in Single
    BY <1>4, <1>5
  <2>2. Nums(bits) = Joined(ts)
    BY Zenon DEF Nums
  <2>3. ts = [i \in 1 .. 7 |-> ts[i]]
    BY <1>4
  <2>. HIDE DEF ts
  <2>. QED
    BY <2>1, <2>2, <2>3
<1>. HIDE DEF ts
<1>7. ts \in Seq(Single) /\ ts # <<>>
  <2>1. ts \in Seq(Single) /\ Len(ts) = 7
    BY <1>6, FunctionsAreSeqs
  <2>. QED
    BY <2>1, EmptySeq
<1>8. DaysText(days) = Joined(ts)
  BY <1>6 DEF DaysText, bits, Bit
<1>9. Split(Joined(ts)) = ts /\ Joined(ts) \in Unbraced
  BY <1>7, PartsJoined, JoinedUnbraced
<1>10. DaysOf(DaysText(days)) = [i \in 1 .. 7 |-> ts[i] = <<"1">>]
  <2>1. Split(DaysText(days)) = ts
    BY <1>8, <1>9
  <2>. QED
    BY <1>4, <2>1, Zenon DEF DaysOf
<1>11. \A i \in 1 .. 7 : (ts[i] = <<"1">>) = days[i]
  BY <1>4, <1>5
<1>12. [i \in 1 .. 7 |-> ts[i] = <<"1">>] = [i \in 1 .. 7 |-> days[i]]
  BY <1>11, Zenon
<1>13. days = [i \in 1 .. 7 |-> days[i]]
  BY <1>1
<1>. QED
  BY <1>8, <1>9, <1>10, <1>12, <1>13

LEMMA IntOfNum ==
    ASSUME NEW n \in Numbers
    PROVE  Ints(Num(n))[1] = n /\ Num(n) \in Unbraced
<1>. DEFINE ts == <<Num(n)>>
<1>1. Num(n) \in Single /\ NumOf[Num(n)[1]] = n
  BY Numbered
<1>2. Num(n) \in Texts /\ Num(n) \in Unbraced
  BY <1>1, Singles
<1>3. ts \in Seq(Single) /\ ts # <<>> /\ ts[1] = Num(n) /\ DOMAIN ts = 1 .. 1
  <2>1. ts \in Seq(Single) /\ Len(ts) = 1 /\ ts[1] = Num(n)
    BY <1>1, OneElement
  <2>. QED
    BY <2>1
<1>4. Split(Joined(ts)) = ts /\ Joined(ts) = Num(n)
  BY <1>2, <1>3, PartsJoined, JoinedOne
<1>. HIDE DEF ts
<1>5. Ints(Num(n)) = [i \in DOMAIN ts |-> NumOf[ts[i][1]]]
  BY <1>4 DEF Ints
<1>. QED
  BY <1>1, <1>2, <1>3, <1>5

(* An argument that may be missing.                                        *)
LEMMA Given ==
    ASSUME NEW S, NEW x \in OneOrNo(S)
    PROVE  /\ x = <<>> => Len(x) = 0 /\ DOMAIN x = {}
           /\ x # <<>> => Len(x) = 1 /\ DOMAIN x = {1} /\ x[1] = Head(x) /\ x = <<Head(x)>> /\ Head(x) \in S
<1>1. CASE x = <<>>
  BY <1>1
<1>2. CASE x # <<>>
  <2>1. PICK y \in S : x = <<y>>
    BY <1>2 DEF OneOrNo
  <2>2. Len(<<y>>) = 1 /\ DOMAIN <<y>> = {1} /\ <<y>>[1] = y /\ Head(<<y>>) = y /\ <<y>> # <<>>
    OBVIOUS
  <2>. QED
    BY <2>1, <2>2
<1>. QED
  BY <1>1, <1>2

LEMMA BracedSix ==
    ASSUME NEW a, NEW b, NEW c, NEW d, NEW e, NEW f
    PROVE  Braced(<<a, b, c, d, e, f>>) = <<Brace(a), Brace(b), Brace(c), Brace(d), Brace(e), Brace(f)>>
BY DEF Braced

(* Six texts in braces.                                                    *)
LEMMA ScheduleLine ==
    ASSUME NEW a \in Unbraced, NEW b \in Unbraced, NEW c \in Unbraced,
           NEW d \in Unbraced, NEW e \in Unbraced, NEW f \in Unbraced
    PROVE  Groups(Joined(<<Brace(a), Brace(b), Brace(c), Brace(d), Brace(e), Brace(f)>>)) = <<a, b, c, d, e, f>>
<1>. DEFINE gs == <<a, b, c, d, e, f>>
<1>1. gs \in Seq(Unbraced)
  OBVIOUS
<1>2. Braced(gs) = <<Brace(a), Brace(b), Brace(c), Brace(d), Brace(e), Brace(f)>>
  BY BracedSix
<1>. HIDE DEF gs
<1>3. Groups(Joined(Braced(gs))) = gs
  BY <1>1, GatheredJoined DEF Groups
<1>. QED
  BY <1>2, <1>3 DEF gs

(* The days or the date of a schedule, and which of them it is.             *)
LEMMA WhenShown ==
    ASSUME NEW days \in OneOrNo(Weeks), NEW date \in OneOrNo(Dates), (days = <<>>) # (date = <<>>)
    PROVE  LET when == IF days = <<>> THEN DateText(Head(date)) ELSE DaysText(Head(days))
               kind == Num(IF days = <<>> THEN 0 ELSE 1)
           IN /\ when \in Unbraced /\ kind \in Unbraced
              /\ (IF kind = <<"1">> THEN <<DaysOf(when)>> ELSE <<>>) = days
              /\ (IF kind = <<"1">> THEN <<>> ELSE <<DateOf(when)>>) = date
<1>0. /\ Num(0) \in Unbraced /\ Num(1) \in Unbraced /\ Num(1) = <<"1">> /\ Num(0) # <<"1">>
  <2>1. Num(0) \in Unbraced /\ Num(1) \in Unbraced
    BY NumbersAssumption, IntOfNum
  <2>2. Num(0) = <<"0">> /\ Num(1) = <<"1">>
    BY NumbersAssumption DEF Num
  <2>3. "0" # "1"
    OBVIOUS
  <2>4. <<"0">> # <<"1">>
    BY <2>3, SameToken
  <2>. QED
    BY <2>1, <2>2, <2>4
<1>1. CASE days = <<>>
  <2>1. date # <<>>
    BY <1>1
  <2>2. date = <<Head(date)>> /\ Head(date) \in Dates
    BY <2>1, Given
  <2>3. DateOf(DateText(Head(date))) = Head(date) /\ DateText(Head(date)) \in Unbraced
    BY <2>2, DateShown
  <2>. QED
    BY <1>0, <1>1, <2>2, <2>3
<1>2. CASE days # <<>>
  <2>1. date = <<>>
    BY <1>2
  <2>2. days = <<Head(days)>> /\ Head(days) \in Weeks
    BY <1>2, Given
  <2>3. DaysOf(DaysText(Head(days))) = Head(days) /\ DaysText(Head(days)) \in Unbraced
    BY <2>2, DaysShown
  <2>. QED
    BY <1>0, <1>2, <2>1, <2>2, <2>3
<1>. QED
  BY <1>1, <1>2

(* Either days or a date.                                                  *)
LEMMA OneOfBoth ==
    ASSUME NEW days \in OneOrNo(Weeks), NEW date \in OneOrNo(Dates)
    PROVE  /\ Len(days) + Len(date) = 1 <=> (days = <<>>) # (date = <<>>)
           /\ (days = <<>>) # (date = <<>>) =>
                 ((\A i \in DOMAIN date : DateMatches(date[i])) <=> (days = <<>> => DateMatches(Head(date))))
<1>1. /\ days = <<>> => Len(days) = 0
      /\ days # <<>> => Len(days) = 1
  BY Given
<1>2. /\ date = <<>> => Len(date) = 0 /\ DOMAIN date = {}
      /\ date # <<>> => Len(date) = 1 /\ DOMAIN date = {1} /\ date[1] = Head(date)
  BY Given
<1>3. Len(days) + Len(date) = 1 <=> (days = <<>>) # (date = <<>>)
  <2>1. CASE days = <<>> /\ date = <<>>
    BY <1>1, <1>2, <2>1
  <2>2. CASE days = <<>> /\ date # <<>>
    <3>1. Len(days) = 0 /\ Len(date) = 1
      BY <1>1, <1>2, <2>2
    <3>. QED
      BY <2>2, <3>1
  <2>3. CASE days # <<>> /\ date = <<>>
    <3>1. Len(days) = 1 /\ Len(date) = 0
      BY <1>1, <1>2, <2>3
    <3>. QED
      BY <2>3, <3>1
  <2>4. CASE days # <<>> /\ date # <<>>
    <3>1. Len(days) = 1 /\ Len(date) = 1
      BY <1>1, <1>2, <2>4
    <3>2. Len(days) + Len(date) # 1
      BY ONLY <3>1
    <3>3. (days = <<>>) = (date = <<>>)
      BY <2>4
    <3>. QED
      BY ONLY <3>2, <3>3
  <2>. QED
    BY <2>1, <2>2, <2>3, <2>4
<1>4. ASSUME (days = <<>>) # (date = <<>>)
      PROVE  (\A i \in DOMAIN date : DateMatches(date[i])) <=> (days = <<>> => DateMatches(Head(date)))
  <2>1. CASE days = <<>>
    <3>1. DOMAIN date = {1} /\ date[1] = Head(date)
      BY <1>2, <1>4, <2>1
    <3>. QED
      BY <2>1, <3>1
  <2>2. CASE days # <<>>
    <3>1. DOMAIN date = {}
      BY <1>2, <1>4, <2>2
    <3>. QED
      BY <2>2, <3>1
  <2>. QED
    BY <2>1, <2>2
<1>. QED
  BY <1>3, <1>4

(* add_schedule():                                                         *)
LEMMA ScheduleObeyed ==
    ASSUME NEW c \in [op : {"add_schedule"}, name : Texts, outlets : Seq(Numbers), action : Numbers,
                      days : OneOrNo(Weeks), date : OneOrNo(Dates), time : Clocks]
    PROVE  Obeyed(c)
<1>. DEFINE when == IF c.days = <<>> THEN DateText(Head(c.date)) ELSE DaysText(Head(c.days))
            kind == Num(IF c.days = <<>> THEN 0 ELSE 1)
            nums == Nums(c.outlets)
            act == Num(c.action)
            clock == TimeText(c.time)
            line == <<Brace(c.name), Brace(nums), Brace(act), Brace(kind), Brace(when), Brace(clock)>>
            l == Line("!ScheduleAdd", line)
            v == Joined(line)
            entry == <<c.name, c.outlets, c.action, c.days, c.date, c.time>>
            bad == \/ c.name = <<>> \/ Has(c.name, {",", "{", "}", "NL"})
                   \/ ~ Positive(c.outlets)
                   \/ c.action \notin {0, 1, 2}
                   \/ (c.days = <<>>) = (c.date = <<>>)
                   \/ ~ TimeMatches(c.time)
                   \/ c.days = <<>> /\ ~ DateMatches(Head(c.date))
<1>1. /\ c.op = "add_schedule" /\ c.name \in Texts /\ c.outlets \in Seq(Numbers) /\ c.action \in Numbers
      /\ c.days \in OneOrNo(Weeks) /\ c.date \in OneOrNo(Dates) /\ c.time \in Clocks
  OBVIOUS
<1>2. Encoded(c) = IF bad THEN ValueError ELSE l
  <2>1. Encoded(c) = EncodeScheduleAdd(c.name, c.outlets, c.action, c.days, c.date, c.time)
    BY <1>1 DEF Encoded
  <2>2. EncodeScheduleAdd(c.name, c.outlets, c.action, c.days, c.date, c.time) = IF bad THEN ValueError ELSE l
    BY Zenon DEF EncodeScheduleAdd
  <2>. HIDE DEF bad, l
  <2>. QED
    BY <2>1, <2>2, Zenon
<1>3. Accepted(panel, c) <=> ~ bad
  <2>1. Accepted(panel, c) <=>
           /\ Free(c.name, Marks) /\ Positive(c.outlets)
           /\ c.action \in 0 .. 2 /\ TimeMatches(c.time)
           /\ Len(c.days) + Len(c.date) = 1
           /\ \A i \in DOMAIN c.date : DateMatches(c.date[i])
    BY <1>1 DEF Accepted, Positive, TimeMatches, Clock, DateMatches
  <2>2. Free(c.name, Marks) <=> ~ (c.name = <<>> \/ Has(c.name, {",", "{", "}", "NL"}))
    BY MarksChecked
  <2>3. c.action \in 0 .. 2 <=> c.action \in {0, 1, 2}
    BY <1>1, Numbered
  <2>4. /\ Len(c.days) + Len(c.date) = 1 <=> (c.days = <<>>) # (c.date = <<>>)
        /\ (c.days = <<>>) # (c.date = <<>>) =>
              ((\A i \in DOMAIN c.date : DateMatches(c.date[i])) <=> (c.days = <<>> => DateMatches(Head(c.date))))
    BY <1>1, OneOfBoth
  <2>. QED
    BY <2>1, <2>2, <2>3, <2>4, Zenon
<1>4. Effect(panel, c) = [panel EXCEPT !.schedule = panel.schedule \cup {entry}]
  BY <1>1 DEF Effect
<1>5. ASSUME ~ bad
      PROVE  Schedule(Groups(v)) = entry
  <2>1. /\ Free(c.name, Marks) /\ c.outlets # <<>> /\ (c.days = <<>>) # (c.date = <<>>)
    <3>1. Free(c.name, Marks) /\ Positive(c.outlets) /\ ~ ((c.days = <<>>) = (c.date = <<>>))
      BY <1>5, MarksChecked, Zenon
    <3>. QED
      BY <3>1 DEF Positive
  <2>2. c.name \in Unbraced
    BY <1>1, <2>1, FreeOfMarks
  <2>3. Ints(nums) = c.outlets /\ nums \in Unbraced
    BY <1>1, <2>1, IntsNums
  <2>4. Ints(act)[1] = c.action /\ act \in Unbraced
    BY <1>1, IntOfNum
  <2>5. /\ when \in Unbraced /\ kind \in Unbraced
        /\ (IF kind = <<"1">> THEN <<DaysOf(when)>> ELSE <<>>) = c.days
        /\ (IF kind = <<"1">> THEN <<>> ELSE <<DateOf(when)>>) = c.date
    BY <1>1, <2>1, WhenShown
  <2>6. TimeOf(clock) = c.time /\ clock \in Unbraced
    BY <1>1, TimeShown
  <2>. HIDE DEF nums, act, when, kind, clock, bad
  <2>7. Groups(v) = <<c.name, nums, act, kind, when, clock>>
    BY <2>2, <2>3, <2>4, <2>5, <2>6, ScheduleLine
  <2>. DEFINE g == <<c.name, nums, act, kind, when, clock>>
  <2>8. g[1] = c.name /\ g[2] = nums /\ g[3] = act /\ g[4] = kind /\ g[5] = when /\ g[6] = clock
    OBVIOUS
  <2>. HIDE DEF g
  <2>9. Schedule(g) = <<c.name, Ints(nums), Ints(act)[1],
                        IF kind = <<"1">> THEN <<DaysOf(when)>> ELSE <<>>,
                        IF kind = <<"1">> THEN <<>> ELSE <<DateOf(when)>>,
                        TimeOf(clock)>>
    BY <2>8, Zenon DEF Schedule
  <2>. HIDE DEF v
  <2>. QED
    BY <2>3, <2>4, <2>5, <2>6, <2>7, <2>9, Zenon DEF g, entry
<1>6. l # ValueError /\ l.command = "!ScheduleAdd" /\ l.value = v
  BY Lines
<1>. HIDE DEF l, v, line, entry, bad, nums, act, when, kind, clock
<1>7. ~ bad => DeviceRuns(l) = [panel EXCEPT !.schedule = panel.schedule \cup {entry}]
  <2>1. DeviceRuns(l) = [panel EXCEPT !.schedule = panel.schedule \cup {Schedule(Groups(v))}]
    BY <1>6, DeviceArms
  <2>. QED
    BY <1>5, <2>1
<1>. QED
  BY <1>2, <1>3, <1>4, <1>6, <1>7 DEF Obeyed

-----------------------------------------------------------------------------
(* Every call, and what a device has                                        *)

(* Every setter.                                                           *)
LEMMA CallObeyed ==
    ASSUME NEW c \in Calls, panel \in PanelType
    PROVE  Obeyed(c)
<1>1. CASE c \in [op : {"set_outlet"}, index : Numbers, action : {"ON", "OFF", "TOGGLE"}]
  BY <1>1, OutletObeyed
<1>2. CASE c \in [op : {"reset_outlet"}, index : Numbers, delay : OneOrNo(Numbers)]
  BY <1>2, ResetObeyed
<1>3. CASE c \in [op : {"set_delay"}, index : Numbers, seconds : Numbers]
  BY <1>3, DelayObeyed
<1>4. CASE c \in [op : {"set_mode"}, index : Numbers, mode : Numbers]
  BY <1>4, ModeObeyed
<1>5. CASE c \in [op : {"set_ops"}, ops : Seq(Numbers)]
  BY <1>5, OpsObeyed
<1>6. CASE c \in [op : {"set_reboots"}, enabled : BOOLEAN]
  BY <1>6, RebootsObeyed
<1>7. CASE c \in [op : {"set_timeout"}, timeout : Numbers, count : Numbers,
                  ping : Numbers, attempts : Numbers]
  BY <1>7, TimeoutObeyed
<1>8. CASE c \in [op : {"rename"}, index : Numbers, name : Texts]
  BY <1>8, UnspacedObeyed, SpacedObeyed
<1>9. CASE c \in [op : {"rename_all"}, names : {<<>>} \cup [Outlets -> Texts]]
  BY <1>9, RenameAllObeyed
<1>10. CASE c \in [op : {"add_host"}, name : Texts, ip : Texts, outlets : Seq(Numbers)]
  BY <1>10, HostObeyed
<1>11. CASE c \in [op : {"add_schedule"}, name : Texts, outlets : Seq(Numbers), action : Numbers,
                   days : OneOrNo(Weeks), date : OneOrNo(Dates), time : Clocks]
  BY <1>11, ScheduleObeyed
<1>. HIDE DEF Obeyed, PanelType
<1>. QED
  BY <1>1, <1>2, <1>3, <1>4, <1>5, <1>6, <1>7, <1>8, <1>9, <1>10, <1>11, CallsAssumption, Zenon

LEMMA CallActs ==
    ASSUME NEW c \in Calls, panel \in PanelType, SendSet(c)
    PROVE  Call(c)
<1>1. CASE Accepted(panel, c)
  <2>1. Encoded(c) # ValueError /\ DeviceRuns(Encoded(c)) = Effect(panel, c)
    BY <1>1, CallObeyed DEF Obeyed
  <2>. QED
    BY <1>1, <2>1, Zenon DEF SendSet, Call
<1>2. CASE ~ Accepted(panel, c)
  <2>1. Encoded(c) = ValueError
    BY <1>2, CallObeyed DEF Obeyed
  <2>. QED
    BY <1>2, <2>1, Zenon DEF SendSet, Call
<1>. QED
  BY <1>1, <1>2

LEMMA AtTyped ==
    ASSUME NEW S, NEW f \in [Outlets -> S], NEW i, NEW x \in S
    PROVE  At(f, i, x) \in [Outlets -> S]
BY DEF At

(* A name without marks is one that a device may have.                      *)
LEMMA FreeNames ==
    ASSUME NEW text \in Texts, Free(text, Marks) \/ Free(text, Marks \ {","})
    PROVE  text \in Names
<1>1. "}" \in Marks /\ "}" \in Marks \ {","}
  BY DEF Marks
<1>. QED
  BY <1>1, Zenon DEF Free, Names

(* A device has only what an accepted call may put there.                  *)
LEMMA EffectTyped ==
    ASSUME NEW c \in Calls, NEW p \in PanelType, Accepted(p, c)
    PROVE  Effect(p, c) \in PanelType
<1>0. /\ p.on \in [Outlets -> BOOLEAN] /\ p.names \in [Outlets -> Names]
      /\ p.delays \in [Outlets -> Numbers] /\ p.modes \in [Outlets -> Numbers]
      /\ p.cycled \in [Outlets -> Numbers]
  BY DEF PanelType
<1>1. CASE c \in [op : {"set_outlet"}, index : Numbers, action : {"ON", "OFF", "TOGGLE"}]
  <2>. DEFINE b == CASE c.action = "ON"  -> TRUE
                     [] c.action = "OFF" -> FALSE
                     [] c.action = "TOGGLE" -> c.index \in Outlets /\ ~ p.on[c.index]
  <2>1. c.op = "set_outlet" /\ b \in BOOLEAN
    BY <1>1
  <2>. HIDE DEF b
  <2>2. At(p.on, c.index, b) \in [Outlets -> BOOLEAN]
    BY <1>0, <2>1, AtTyped
  <2>3. Switched(p, c) = At(p.on, c.index, b)
    BY Zenon DEF Switched, b
  <2>4. Effect(p, c) = [p EXCEPT !.on = Switched(p, c)]
    BY <2>1 DEF Effect
  <2>. QED
    BY <2>2, <2>3, <2>4 DEF PanelType
<1>2. CASE c \in [op : {"reset_outlet"}, index : Numbers, delay : OneOrNo(Numbers)]
  <2>. DEFINE x == [o \in Outlets |-> IF o \notin Named(c.index) THEN p.cycled[o]
                                      ELSE IF c.delay = <<>> THEN p.delays[o] ELSE Head(c.delay)]
  <2>1. c.op = "reset_outlet" /\ c.delay \in OneOrNo(Numbers)
    BY <1>2
  <2>2. c.delay # <<>> => Head(c.delay) \in Numbers
    BY <2>1, Given
  <2>3. x \in [Outlets -> Numbers]
    BY <1>0, <2>2
  <2>4. Effect(p, c) = [p EXCEPT !.cycled = x]
    BY <2>1 DEF Effect
  <2>. HIDE DEF x
  <2>. QED
    BY <2>3, <2>4 DEF PanelType
<1>3. CASE c \in [op : {"set_delay"}, index : Numbers, seconds : Numbers]
  <2>1. c.op = "set_delay" /\ c.seconds \in Numbers
    BY <1>3
  <2>2. At(p.delays, c.index, c.seconds) \in [Outlets -> Numbers]
    BY <1>0, <2>1, AtTyped
  <2>3. Effect(p, c) = [p EXCEPT !.delays = At(p.delays, c.index, c.seconds)]
    BY <2>1 DEF Effect
  <2>. QED
    BY <2>2, <2>3 DEF PanelType
<1>4. CASE c \in [op : {"set_mode"}, index : Numbers, mode : Numbers]
  <2>1. c.op = "set_mode" /\ c.mode \in Numbers
    BY <1>4
  <2>2. At(p.modes, c.index, c.mode) \in [Outlets -> Numbers]
    BY <1>0, <2>1, AtTyped
  <2>3. Effect(p, c) = [p EXCEPT !.modes = At(p.modes, c.index, c.mode)]
    BY <2>1 DEF Effect
  <2>. QED
    BY <2>2, <2>3 DEF PanelType
<1>5. CASE c \in [op : {"set_ops"}, ops : Seq(Numbers)]
  <2>1. c.op = "set_ops" /\ c.ops \in Seq(Numbers)
    BY <1>5
  <2>2. Effect(p, c) = [p EXCEPT !.ops = c.ops]
    BY <2>1 DEF Effect
  <2>. QED
    BY <2>1, <2>2 DEF PanelType
<1>6. CASE c \in [op : {"set_reboots"}, enabled : BOOLEAN]
  <2>1. c.op = "set_reboots" /\ c.enabled \in BOOLEAN
    BY <1>6
  <2>2. Effect(p, c) = [p EXCEPT !.reboots = c.enabled]
    BY <2>1 DEF Effect
  <2>. QED
    BY <2>1, <2>2 DEF PanelType
<1>7. CASE c \in [op : {"set_timeout"}, timeout : Numbers, count : Numbers,
                  ping : Numbers, attempts : Numbers]
  <2>. DEFINE ns == <<c.timeout, c.count, c.ping, c.attempts>>
  <2>1. c.op = "set_timeout" /\ ns \in Seq(Numbers)
    BY <1>7
  <2>2. Effect(p, c) = [p EXCEPT !.timeouts = ns]
    BY <2>1 DEF Effect
  <2>. HIDE DEF ns
  <2>. QED
    BY <2>1, <2>2 DEF PanelType
<1>8. CASE c \in [op : {"rename"}, index : Numbers, name : Texts]
  <2>1. c.op = "rename" /\ c.name \in Texts
    BY <1>8
  <2>2. Accepted(p, c) <=> IF Spaced(c.name)
                           THEN /\ c.index \in Outlets
                                /\ \A o \in Outlets : Free(Renamed(p, c)[o], Marks \ {","})
                           ELSE c.index >= 1 /\ Free(c.name, Marks)
    BY <2>1, Zenon DEF Accepted
  <2>3. c.index \in Outlets => Renamed(p, c)[c.index] = c.name
    BY <1>0 DEF Renamed
  <2>4. Free(c.name, Marks) \/ Free(c.name, Marks \ {","})
    BY <2>2, <2>3, Zenon
  <2>5. c.name \in Names
    BY <2>1, <2>4, FreeNames
  <2>6. At(p.names, c.index, c.name) \in [Outlets -> Names]
    BY <1>0, <2>5, AtTyped
  <2>7. Effect(p, c) = [p EXCEPT !.names = At(p.names, c.index, c.name)]
    BY <2>1 DEF Effect
  <2>. QED
    BY <2>6, <2>7 DEF PanelType
<1>9. CASE c \in [op : {"rename_all"}, names : {<<>>} \cup [Outlets -> Texts]]
  <2>1. c.op = "rename_all" /\ c.names \in {<<>>} \cup [Outlets -> Texts]
    BY <1>9
  <2>2. c.names # <<>> /\ \A i \in DOMAIN c.names : Free(c.names[i], Marks \ {","})
    BY <2>1, Zenon DEF Accepted
  <2>3. c.names \in [Outlets -> Texts]
    BY <2>1, <2>2
  <2>4. \A o \in Outlets : c.names[o] \in Names
    BY <2>2, <2>3, FreeNames
  <2>5. c.names \in [Outlets -> Names]
    BY <2>3, <2>4
  <2>6. Effect(p, c) = [p EXCEPT !.names = c.names]
    BY <2>1 DEF Effect
  <2>. QED
    BY <2>5, <2>6 DEF PanelType
<1>10. CASE c \in [op : {"add_host"}, name : Texts, ip : Texts, outlets : Seq(Numbers)]
  <2>. DEFINE host == <<c.name, c.ip, c.outlets>>
              All == Texts \X Texts \X Seq(Numbers)
  <2>1. c.op = "add_host" /\ host \in All
    BY <1>10
  <2>2. Effect(p, c) = [p EXCEPT !.hosts = p.hosts \cup {host}]
    BY <2>1 DEF Effect
  <2>3. p.hosts \subseteq All
    BY DEF PanelType
  <2>. HIDE DEF host
  <2>4. p.hosts \cup {host} \in SUBSET All
    BY <2>1, <2>3
  <2>. QED
    BY <2>2, <2>4 DEF PanelType
<1>11. CASE c \in [op : {"add_schedule"}, name : Texts, outlets : Seq(Numbers), action : Numbers,
                   days : OneOrNo(Weeks), date : OneOrNo(Dates), time : Clocks]
  <2>. DEFINE entry == <<c.name, c.outlets, c.action, c.days, c.date, c.time>>
              All == Texts \X Seq(Numbers) \X Numbers \X OneOrNo(Weeks) \X OneOrNo(Dates) \X Clocks
  <2>1. c.op = "add_schedule" /\ entry \in All
    BY <1>11
  <2>2. Effect(p, c) = [p EXCEPT !.schedule = p.schedule \cup {entry}]
    BY <2>1 DEF Effect
  <2>3. p.schedule \subseteq All
    BY DEF PanelType
  <2>. HIDE DEF entry
  <2>4. p.schedule \cup {entry} \in SUBSET All
    BY <2>1, <2>3
  <2>. QED
    BY <2>2, <2>4 DEF PanelType
<1>. QED
  BY <1>1, <1>2, <1>3, <1>4, <1>5, <1>6, <1>7, <1>8, <1>9, <1>10, <1>11, CallsAssumption, Zenon

-----------------------------------------------------------------------------
(* Replies out of format                                                    *)

(* A reply that is taken for the answer to q, and is no value of it.        *)
OutOfFormat(q, reply) ==
    /\ AnswersTo(q[1], FALSE, reply)
    /\ \/ ExpectValue(q[1], reply) = Bad("ProtocolError")
       \/ \E text : ExpectValue(q[1], reply) = Good(text) /\ Parse(q, text)[1] = "bad"

(* A parser that raises raises WattboxProtocolError.                        *)
LEMMA ParsersRaise ==
    ASSUME NEW q \in Queries, NEW text, Parse(q, text)[1] = "bad"
    PROVE  Parse(q, text) = Bad("ProtocolError")
<1>. DEFINE error == Bad("ProtocolError")
            Raises(r) == r = error \/ r[1] = "good"
<1>1. \A value : Good(value)[1] = "good" /\ Raises(Good(value))
  BY DEF Good
<1>. HIDE DEF error
<1>2. Raises(ParseOutletStatus(text)) /\ Raises(ParseOutletNames(text))
  <2>. HIDE DEF Raises
  <2>1. Raises(error)
    BY DEF Raises
  <2>. QED
    BY <1>1, <2>1, Zenon DEF ParseOutletStatus, ParseOutletNames, error
<1>3. Raises(ParsePowerOnDelays(text)) /\ Raises(ParseFlag(text)) /\ Raises(ParseInt(text))
  <2>. HIDE DEF Raises
  <2>1. Raises(error)
    BY DEF Raises
  <2>. QED
    BY <1>1, <2>1, Zenon DEF ParsePowerOnDelays, ParseFlag, ParseInt, error
<1>4. Raises(ParsePowerStatus(text)) /\ Raises(ParseOutletPowerStatus(text)) /\ Raises(ParseUpsStatus(text))
  <2>. HIDE DEF Raises
  <2>1. Raises(error)
    BY DEF Raises
  <2>. QED
    BY <1>1, <2>1, Zenon DEF ParsePowerStatus, ParseOutletPowerStatus, ParseUpsStatus, error
<1>5. q[1] \in {"OutletStatus", "OutletName", "OutletPowerOnDelay", "AutoReboot", "OutletCount",
                "PowerStatus", "OutletPowerStatus", "UPSStatus", "UPSConnection"}
  BY QueriesAssumption
<1>6. \/ Parse(q, text) = ParseOutletStatus(text) \/ Parse(q, text) = ParseOutletNames(text)
      \/ Parse(q, text) = ParsePowerOnDelays(text) \/ Parse(q, text) = ParseFlag(text)
      \/ Parse(q, text) = ParseInt(text) \/ Parse(q, text) = ParsePowerStatus(text)
      \/ Parse(q, text) = ParseOutletPowerStatus(text) \/ Parse(q, text) = ParseUpsStatus(text)
  BY <1>5 DEF Parse
<1>7. Raises(Parse(q, text))
  <2>. HIDE DEF Raises
  <2>. QED
    BY <1>2, <1>3, <1>4, <1>6
<1>. QED
  BY <1>7 DEF error

(* A reply with nothing before it.                                         *)
LEMMA OnlyLine ==
    ASSUME NEW q, NEW reply, AnswersTo(q[1], FALSE, reply)
    PROVE  ReadResponse(q[1], FALSE, <<>> \o <<reply>>) = reply
<1>. DEFINE lines == <<reply>>
            A == {i \in DOMAIN lines : AnswersTo(q[1], FALSE, lines[i])}
<1>1. <<>> \o <<reply>> = lines /\ DOMAIN lines = {1} /\ lines[1] = reply
  OBVIOUS
<1>. HIDE DEF lines
<1>2. A = {1}
  BY <1>1
<1>. HIDE DEF A
<1>3. Min({1}) = 1
  BY DEF Min
<1>4. ReadResponse(q[1], FALSE, lines) = lines[Min(A)]
  BY DEF ReadResponse, A
<1>. QED
  BY <1>1, <1>2, <1>3, <1>4

(* A reply that no parser takes is an error.                               *)
LEMMA GarbledActs ==
    ASSUME NEW q \in Queries, \A reply \in Junk[q[1]] : OutOfFormat(q, reply), SendQueryGarbled(q)
    PROVE  BadReply(q)
<1>1. PICK reply \in Junk[q[1]] : answer' = Received(q, <<>>, reply)
  BY DEF SendQueryGarbled
<1>2. OutOfFormat(q, reply)
  OBVIOUS
<1>3. ReadResponse(q[1], FALSE, <<>> \o <<reply>>) = reply
  BY <1>2, OnlyLine DEF OutOfFormat
<1>4. CASE ExpectValue(q[1], reply) = Bad("ProtocolError")
  <2>1. Received(q, <<>>, reply) = Raised(q, "ProtocolError")
    BY <1>3, <1>4, ReceivedBad
  <2>. QED
    BY <1>1, <2>1 DEF SendQueryGarbled, BadReply
<1>5. CASE \E text : ExpectValue(q[1], reply) = Good(text) /\ Parse(q, text)[1] = "bad"
  <2>1. PICK text : ExpectValue(q[1], reply) = Good(text) /\ Parse(q, text)[1] = "bad"
    BY <1>5
  <2>2. Parse(q, text) = Bad("ProtocolError")
    BY <2>1, ParsersRaise
  <2>3. Received(q, <<>>, reply) = Raised(q, "ProtocolError")
    <3>1. Good(text)[1] = "good" /\ Good(text)[2] = text
      BY DEF Good
    <3>2. Bad("ProtocolError")[1] = "bad" /\ Bad("ProtocolError")[2] = "ProtocolError"
      BY DEF Bad
    <3>. QED
      BY <1>3, <2>1, <2>2, <3>1, <3>2 DEF Received
  <2>. QED
    BY <1>1, <2>3 DEF SendQueryGarbled, BadReply
<1>. QED
  BY <1>2, <1>4, <1>5 DEF OutOfFormat

-----------------------------------------------------------------------------
(* The codec and Panel                                                      *)

(* What a device has is always of these kinds: a call that is accepted puts  *)
(* nothing else there, whatever the caller passed.                          *)
Typed == panel \in PanelType /\ meter \in MeterType

(* The invariant: what a device has is of its kind at first,               *)
LEMMA Begins == PInit => Typed
  BY DeviceAssumption DEF PInit, Typed

(* and after every step.                                                   *)
LEMMA Goes == Typed /\ [Next]_pvars => Typed'
<1>. SUFFICES ASSUME Typed, [Next]_pvars
              PROVE  Typed'
  OBVIOUS
<1>. USE DEF Typed
<1>1. ASSUME NEW c \in Calls, SendSet(c)
      PROVE  Typed'
  <2>1. Call(c)
    BY <1>1, CallActs
  <2>2. CASE Accepted(panel, c)
    <3>1. panel' = Effect(panel, c) /\ meter' = meter
      BY <2>1, <2>2 DEF Call
    <3>2. Effect(panel, c) \in PanelType
      BY <2>2, EffectTyped
    <3>. QED
      BY <3>1, <3>2
  <2>3. CASE ~ Accepted(panel, c)
    BY <2>1, <2>3 DEF Call
  <2>. QED
    BY <2>2, <2>3
<1>2. ASSUME NEW q \in Queries, SendQuery(q) \/ SendQueryGarbled(q)
      PROVE  Typed'
  BY <1>2 DEF SendQuery, SendQueryGarbled
<1>3. CASE UNCHANGED pvars
  BY <1>3 DEF pvars
<1>. QED
  BY <1>1, <1>2, <1>3, Zenon DEF Next

(* Whatever callers pass, accepted or refused, a device never has a name   *)
(* with "}" in it, nor a setting of another kind: the parsers rely on it.  *)
THEOREM StaysTyped == Spec => []Typed
<1>. QED
  BY Begins, Goes, PTL DEF Spec

(* Every call of a setter, for all texts and numbers, is refused before     *)
(* anything is sent or makes the device do what the caller asked for and   *)
(* nothing else: encoders, line and device together are Panel's Call.      *)
THEOREM CallsActAsPanel == Spec => [][\A c \in Calls : SendSet(c) => Call(c)]_pvars
<1>1. ASSUME Typed, [Next]_pvars
      PROVE  [\A c \in Calls : SendSet(c) => Call(c)]_pvars
  BY <1>1, CallActs, Zenon DEF Typed
<1>. QED
  BY <1>1, StaysTyped, PTL DEF Spec

(* Every query returns what the device has, or the error of a firmware      *)
(* that lacks it, whatever blank lines, pushes and late replies come        *)
(* before the reply: _read_response_for(), expect_value() and the parsers   *)
(* together are Panel's Query.                                              *)
THEOREM QueriesActAsPanel == Spec => [][\A q \in Queries : SendQuery(q) => Query(q)]_pvars
<1>1. ASSUME Typed, [Next]_pvars
      PROVE  [\A q \in Queries : SendQuery(q) => Query(q)]_pvars
  BY <1>1, QueryActs, Zenon DEF Typed
<1>. QED
  BY <1>1, StaysTyped, PTL DEF Spec

(* Where no reply out of format passes for a value, the whole protocol      *)
(* implements Panel: ActsAsPanel, for every device and every caller.       *)
THEOREM CodecImplementsPanel ==
    ASSUME \A q \in Queries : \A reply \in Junk[q[1]] : OutOfFormat(q, reply)
    PROVE  Spec => ActsAsPanel
<1>1. ASSUME Typed, [Next]_pvars
      PROVE  [PNext]_pvars
  <2>1. ASSUME NEW c \in Calls, SendSet(c)
        PROVE  PNext
    <3>1. Call(c)
      BY <1>1, <2>1, CallActs DEF Typed
    <3>. QED
      BY <3>1, Zenon DEF PNext
  <2>2. ASSUME NEW q \in Queries, SendQuery(q)
        PROVE  PNext
    <3>1. Query(q)
      BY <1>1, <2>2, QueryActs DEF Typed
    <3>. QED
      BY <3>1, Zenon DEF PNext
  <2>3. ASSUME NEW q \in Queries, SendQueryGarbled(q)
        PROVE  PNext
    <3>1. BadReply(q)
      BY <2>3, GarbledActs
    <3>. QED
      BY <3>1, Zenon DEF PNext
  <2>. QED
    BY <1>1, <2>1, <2>2, <2>3, Zenon DEF Next
<1>. QED
  BY <1>1, StaysTyped, PTL DEF Spec, ActsAsPanel, PSpec
=============================================================================
