---------------------------- MODULE Prompts_proofs ----------------------------
(***************************************************************************)
(* Proofs about Prompts and Posts, for messages of any length: that the    *)
(* parser, which sees one symbol at a time and adds each key to a hash,    *)
(* makes of a message what its fields say, each apart from the others;     *)
(* that a form comes back as it was shown; that a form saved without a     *)
(* change leaves the value of any column that is no array; and, through    *)
(* the writing and the reading of an array by PostgreSQL and by the        *)
(* program, that so it does with an array that has an input per element.   *)
(***************************************************************************)
EXTENDS Prompts, FiniteSetTheorems, SequenceTheorems, WellFoundedInduction, TLAPS

-----------------------------------------------------------------------------
(* The first of some symbols *)

LEMMA Least ==
    ASSUME NEW T, T \subseteq Nat, T # {}
    PROVE  \E x \in T : \A y \in T : x <= y
<1> DEFINE R == OpToRel(<, Nat)
<1>1. IsWellFoundedOn(R, Nat) BY NatLessThanWellFounded
<1>2. \A x, y \in Nat : y < x => <<y, x>> \in R BY DEF OpToRel
<1> HIDE DEF R
<1>3. PICK x \in T : \A y \in T : ~ (<<y, x>> \in R) BY <1>1, WFMin
<1>4. ASSUME NEW y \in T PROVE x <= y
  <2>1. x \in Nat /\ y \in Nat OBVIOUS
  <2>2. ~ (y < x) BY <1>2, <1>3, <2>1
  <2> QED BY <2>1, <2>2
<1> QED BY <1>4

IsFirst(k, s, from, S) ==
    /\ k \in from .. Len(s) + 1
    /\ k = Len(s) + 1 \/ s[k] \in S
    /\ \A j \in from .. k - 1 : s[j] \notin S

LEMMA FirstExists ==
    ASSUME NEW s, Len(s) \in Nat, NEW from \in 1 .. Len(s) + 1, NEW S
    PROVE  IsFirst(FirstOf(s, from, S), s, from, S)
<1> DEFINE T == {k \in from .. Len(s) + 1 : k = Len(s) + 1 \/ s[k] \in S}
<1>1. Len(s) + 1 \in T OBVIOUS
<1>a. T \subseteq Nat OBVIOUS
<1>2. PICK x \in T : \A y \in T : x <= y BY <1>1, <1>a, Least
<1>3. \A j \in from .. x - 1 : s[j] \notin S BY <1>2
<1>4. IsFirst(x, s, from, S) BY <1>3 DEF IsFirst
<1> HIDE DEF T
<1>5. FirstOf(s, from, S) = CHOOSE k \in from .. Len(s) + 1 : IsFirst(k, s, from, S)
  BY Zenon DEF FirstOf, IsFirst
<1> QED BY <1>4, <1>5 DEF IsFirst

LEMMA FirstUnique ==
    ASSUME NEW s, Len(s) \in Nat, NEW from \in 1 .. Len(s) + 1, NEW S,
           NEW k, IsFirst(k, s, from, S)
    PROVE  FirstOf(s, from, S) = k
<1> DEFINE f == FirstOf(s, from, S)
<1>1. IsFirst(f, s, from, S) BY FirstExists
<1> HIDE DEF f
<1>2. ~ (f < k) BY <1>1 DEF IsFirst
<1>3. ~ (k < f) BY <1>1 DEF IsFirst
<1> QED BY <1>1, <1>2, <1>3 DEF IsFirst, f

-----------------------------------------------------------------------------
(* Words *)

Indent(s) == FirstOf(s, 1, Range(s) \ {Space})

LEMMA Signs ==
    /\ Space # Equals /\ Space # Separator /\ Equals # Separator
    /\ ~Legal(Space) /\ ~Legal(Equals) /\ ~Legal(Separator)
<1>2. Space.char = " " /\ Equals.char = "=" /\ Separator.char = "&"
  BY DEF Space, Equals, Separator, Raw
<1>3. Space.escaped = FALSE /\ Equals.escaped = FALSE /\ Separator.escaped = FALSE
  BY DEF Space, Equals, Separator, Raw
<1>4. Space # Equals /\ Space # Separator /\ Equals # Separator BY <1>2
<1>5. " " \notin Letters /\ "=" \notin Letters /\ "&" \notin Letters
  BY PostConstants DEF Special
<1>6. ~Legal(Space) BY <1>2, <1>3, <1>5 DEF Legal
<1>7. ~Legal(Equals) BY <1>2, <1>3, <1>5 DEF Legal
<1>8. ~Legal(Separator) BY <1>2, <1>3, <1>5 DEF Legal
<1> QED BY <1>4, <1>6, <1>7, <1>8

LEMMA SeqOfWider ==
    ASSUME NEW A, NEW B, NEW s \in Seq(A), Range(s) \subseteq B
    PROVE  s \in Seq(B)
<1>1. s \in [1 .. Len(s) -> A] /\ Len(s) \in Nat BY LenProperties
<1>2. \A i \in 1 .. Len(s) : s[i] \in B BY <1>1 DEF Range
<1>3. s \in [1 .. Len(s) -> B] BY <1>1, <1>2
<1> QED BY <1>1, <1>3, SeqDef

LEMMA IndentIs ==
    ASSUME NEW A, NEW s \in Seq(A)
    PROVE  /\ Indent(s) \in 1 .. Len(s) + 1
           /\ \A j \in 1 .. Indent(s) - 1 : s[j] = Space
           /\ Indent(s) <= Len(s) => s[Indent(s)] # Space
<1>1. IsFirst(Indent(s), s, 1, Range(s) \ {Space}) BY FirstExists DEF Indent
<1>2. \A j \in 1 .. Len(s) : s[j] \in Range(s) BY DEF Range
<1> HIDE DEF Indent
<1> QED BY <1>1, <1>2 DEF IsFirst

LEMMA IndentIsOnly ==
    ASSUME NEW A, NEW s \in Seq(A), NEW k \in 1 .. Len(s) + 1,
           \A j \in 1 .. k - 1 : s[j] = Space,
           k <= Len(s) => s[k] # Space
    PROVE  Indent(s) = k
<1>1. \A j \in 1 .. Len(s) : s[j] \in Range(s) BY DEF Range
<1>2. IsFirst(k, s, 1, Range(s) \ {Space}) BY <1>1 DEF IsFirst
<1> QED BY <1>2, FirstUnique DEF Indent

LEMMA WordIs ==
    ASSUME NEW A, NEW s \in Seq(A)
    PROVE  /\ Word(s) = SubSeq(s, Indent(s), Len(s))
           /\ Word(s) \in Seq(A)
           /\ Len(Word(s)) = Len(s) + 1 - Indent(s)
           /\ \A i \in 1 .. Len(Word(s)) : Word(s)[i] = s[Indent(s) + i - 1]
           /\ Word(s) = <<>> <=> Indent(s) = Len(s) + 1
<1>1. Word(s) = SubSeq(s, Indent(s), Len(s)) BY DEF Word, Indent
<1>2. Indent(s) \in 1 .. Len(s) + 1 BY IndentIs
<1>3. \A i \in Indent(s) .. Len(s) : s[i] \in A BY <1>2
<1>4. /\ Word(s) \in Seq(A)
      /\ Len(Word(s)) = IF Indent(s) <= Len(s) THEN Len(s) - Indent(s) + 1 ELSE 0
      /\ \A i \in 1 .. Len(s) - Indent(s) + 1 : Word(s)[i] = s[Indent(s) + i - 1]
  BY <1>1, <1>2, <1>3, SubSeqProperties
<1>5. Len(Word(s)) = Len(s) + 1 - Indent(s) BY <1>2, <1>4
<1>6. Word(s) = <<>> <=> Len(Word(s)) = 0 BY <1>4
<1> QED BY <1>1, <1>2, <1>4, <1>5, <1>6

LEMMA WordGrows ==
    ASSUME NEW A, NEW s \in Seq(A), NEW x \in A, Word(s) # <<>> \/ x # Space
    PROVE  Word(Append(s, x)) = Append(Word(s), x)
<1> DEFINE t == Append(s, x)
<1>1. /\ t \in Seq(A) /\ Len(t) = Len(s) + 1
      /\ \A i \in 1 .. Len(s) : t[i] = s[i]
      /\ t[Len(s) + 1] = x
  BY AppendProperties
<1> HIDE DEF t
<1>2. /\ Indent(s) \in 1 .. Len(s) + 1
      /\ \A j \in 1 .. Indent(s) - 1 : s[j] = Space
      /\ Indent(s) <= Len(s) => s[Indent(s)] # Space
  BY IndentIs
<1>3. Word(s) = <<>> <=> Indent(s) = Len(s) + 1 BY WordIs
<1>4. Indent(t) = Indent(s)
  <2>1. Indent(s) \in 1 .. Len(t) + 1 BY <1>1, <1>2
  <2>2. \A j \in 1 .. Indent(s) - 1 : t[j] = Space
    <3>1. \A j \in 1 .. Indent(s) - 1 : j \in 1 .. Len(s) BY <1>2
    <3> QED BY <1>1, <1>2, <3>1
  <2>3. Indent(s) <= Len(t) /\ t[Indent(s)] # Space
    <3>1. CASE Indent(s) <= Len(s) BY <1>1, <1>2, <3>1
    <3>2. CASE Indent(s) = Len(s) + 1 BY <1>1, <1>3, <3>2
    <3> QED BY <1>2, <3>1, <3>2
  <2> QED BY <1>1, <2>1, <2>2, <2>3, IndentIsOnly
<1>5. /\ Word(s) \in Seq(A) /\ Len(Word(s)) = Len(s) + 1 - Indent(s)
      /\ \A i \in 1 .. Len(Word(s)) : Word(s)[i] = s[Indent(s) + i - 1]
  BY WordIs
<1>6. /\ Word(t) \in Seq(A) /\ Len(Word(t)) = Len(t) + 1 - Indent(t)
      /\ \A i \in 1 .. Len(Word(t)) : Word(t)[i] = t[Indent(t) + i - 1]
  BY <1>1, WordIs
<1> DEFINE u == Append(Word(s), x)
<1>7. /\ u \in Seq(A) /\ Len(u) = Len(Word(s)) + 1
      /\ \A i \in 1 .. Len(Word(s)) : u[i] = Word(s)[i]
      /\ u[Len(Word(s)) + 1] = x
  BY <1>5, AppendProperties
<1> HIDE DEF u
<1>8. Len(Word(t)) = Len(u) BY <1>1, <1>2, <1>4, <1>5, <1>6, <1>7
<1>9. ASSUME NEW i \in 1 .. Len(u) PROVE Word(t)[i] = u[i]
  <2>1. CASE i <= Len(Word(s))
    <3>1. u[i] = s[Indent(s) + i - 1] BY <1>5, <1>7, <2>1
    <3>2. Word(t)[i] = t[Indent(s) + i - 1] BY <1>4, <1>6, <1>8
    <3>3. Indent(s) + i - 1 \in 1 .. Len(s) BY <1>2, <1>5, <2>1
    <3> QED BY <1>1, <3>1, <3>2, <3>3
  <2>2. CASE i = Len(Word(s)) + 1
    <3>1. Word(t)[i] = t[Indent(s) + i - 1] BY <1>4, <1>6, <1>8
    <3>2. Indent(s) + i - 1 = Len(s) + 1 BY <1>2, <1>5, <2>2
    <3> QED BY <1>1, <1>7, <2>2, <3>1, <3>2
  <2> QED BY <1>5, <1>7, <2>1, <2>2
<1>10. Word(t) = u BY <1>6, <1>7, <1>8, <1>9, SeqEqual
<1> QED BY <1>10 DEF t, u

LEMMA WordStaysEmpty ==
    ASSUME NEW A, NEW s \in Seq(A), Word(s) = <<>>, Space \in A
    PROVE  Word(Append(s, Space)) = <<>>
<1> DEFINE t == Append(s, Space)
<1>1. /\ t \in Seq(A) /\ Len(t) = Len(s) + 1
      /\ \A i \in 1 .. Len(s) : t[i] = s[i]
      /\ t[Len(s) + 1] = Space
  BY AppendProperties
<1> HIDE DEF t
<1>2. Indent(s) = Len(s) + 1 BY WordIs
<1>3. \A j \in 1 .. Len(s) : s[j] = Space BY <1>2, IndentIs
<1>4. Indent(t) = Len(t) + 1 BY <1>1, <1>3, IndentIsOnly
<1>5. Word(t) = <<>> BY <1>1, <1>4, WordIs
<1> QED BY <1>5 DEF t

LEMMA IsWordGrows ==
    ASSUME NEW A, NEW s \in Seq(A), NEW x \in A
    PROVE  IsWord(Append(s, x)) <=> IsWord(s) /\ (Legal(x) \/ (x = Space /\ Word(s) = <<>>))
<1>1. Word(s) \in Seq(A) BY WordIs
<1>2. CASE Word(s) = <<>> /\ x = Space
  <2>1. Word(Append(s, x)) = <<>> BY <1>2, WordStaysEmpty
  <2> QED BY <1>2, <2>1 DEF IsWord
<1>3. CASE Word(s) # <<>> \/ x # Space
  <2> DEFINE u == Append(Word(s), x)
  <2>1. Word(Append(s, x)) = u BY <1>3, WordGrows
  <2>2. /\ Len(u) = Len(Word(s)) + 1 /\ DOMAIN u = 1 .. Len(u)
        /\ \A i \in 1 .. Len(Word(s)) : u[i] = Word(s)[i]
        /\ u[Len(Word(s)) + 1] = x
    BY <1>1, AppendProperties, LenProperties
  <2> HIDE DEF u
  <2>3. Len(Word(s)) \in Nat /\ DOMAIN Word(s) = 1 .. Len(Word(s)) BY <1>1, LenProperties
  <2>4. (\A i \in DOMAIN u : Legal(u[i])) <=> (\A i \in DOMAIN Word(s) : Legal(Word(s)[i])) /\ Legal(x)
    BY <2>2, <2>3
  <2>5. IsWord(Append(s, x)) <=> IsWord(s) /\ Legal(x) BY <2>1, <2>4 DEF IsWord
  <2> QED BY <1>3, <2>5
<1> QED BY <1>2, <1>3

LEMMA EmptyWord == Word(<<>>) = <<>> /\ IsWord(<<>>)
<1> DEFINE e == <<>>
<1>1. e \in Seq({}) /\ Len(e) = 0 /\ DOMAIN e = {} OBVIOUS
<1>2. e = <<>> OBVIOUS
<1> HIDE DEF e
<1>3. Indent(e) \in 1 .. Len(e) + 1 BY <1>1, IndentIs
<1>4. Indent(e) = Len(e) + 1 BY <1>1, <1>3
<1>7. Word(e) = <<>> BY <1>1, <1>4, WordIs
<1>5. Word(e) = e BY <1>7 DEF e
<1>6. IsWord(e) BY <1>1, <1>5 DEF IsWord
<1> QED BY <1>2, <1>7, <1>6

-----------------------------------------------------------------------------
(* A field: key, sign and value *)

LEMMA SignIs ==
    ASSUME NEW A, NEW f \in Seq(A)
    PROVE  /\ Sign(f) \in 1 .. Len(f) + 1
           /\ Sign(f) <= Len(f) => f[Sign(f)] = Equals
           /\ \A j \in 1 .. Sign(f) - 1 : f[j] # Equals
<1>1. IsFirst(Sign(f), f, 1, {Equals}) BY FirstExists DEF Sign
<1> QED BY <1>1 DEF IsFirst

LEMMA SignIsOnly ==
    ASSUME NEW A, NEW f \in Seq(A), NEW k \in 1 .. Len(f) + 1,
           k <= Len(f) => f[k] = Equals,
           \A j \in 1 .. k - 1 : f[j] # Equals
    PROVE  Sign(f) = k
<1>1. IsFirst(k, f, 1, {Equals}) BY DEF IsFirst
<1> QED BY <1>1, FirstUnique DEF Sign

LEMMA KeyAndValueTyped ==
    ASSUME NEW A, NEW f \in Seq(A)
    PROVE  KeyOf(f) \in Seq(A) /\ ValueOf(f) \in Seq(A)
<1>1. Sign(f) \in 1 .. Len(f) + 1 BY SignIs
<1>2. \A i \in 1 .. Sign(f) - 1 : f[i] \in A BY <1>1
<1>3. \A i \in Sign(f) + 1 .. Len(f) : f[i] \in A BY <1>1
<1>4. KeyOf(f) \in Seq(A) BY <1>1, <1>2, SubSeqProperties DEF KeyOf
<1>5. ValueOf(f) \in Seq(A) BY <1>1, <1>3, SubSeqProperties DEF ValueOf
<1> QED BY <1>4, <1>5

\* The key stands once its sign is read.
LEMMA ValueGrows ==
    ASSUME NEW A, NEW f \in Seq(A), NEW x \in A, Sign(f) <= Len(f)
    PROVE  /\ Sign(Append(f, x)) = Sign(f)
           /\ KeyOf(Append(f, x)) = KeyOf(f)
           /\ ValueOf(Append(f, x)) = Append(ValueOf(f), x)
<1> DEFINE t == Append(f, x)
<1>1. /\ t \in Seq(A) /\ Len(t) = Len(f) + 1
      /\ \A i \in 1 .. Len(f) : t[i] = f[i]
      /\ t[Len(f) + 1] = x
  BY AppendProperties
<1> HIDE DEF t
<1>2. /\ Sign(f) \in 1 .. Len(f) /\ f[Sign(f)] = Equals
      /\ \A j \in 1 .. Sign(f) - 1 : f[j] # Equals
  BY SignIs
<1>3. Sign(t) = Sign(f)
  <2>1. Sign(f) \in 1 .. Len(t) + 1 /\ t[Sign(f)] = Equals BY <1>1, <1>2
  <2>2. \A j \in 1 .. Sign(f) - 1 : j \in 1 .. Len(f) BY <1>2
  <2>3. \A j \in 1 .. Sign(f) - 1 : t[j] # Equals BY <1>1, <1>2, <2>2
  <2> QED BY <1>1, <2>1, <2>3, SignIsOnly
<1>4. KeyOf(t) = KeyOf(f)
  <2> DEFINE n == Sign(f) - 1
  <2>0. n \in 0 .. Len(f) /\ n \in Int BY <1>2
  <2>1. KeyOf(t) = SubSeq(t, 1, n) BY <1>3 DEF KeyOf
  <2>2. KeyOf(f) = SubSeq(f, 1, n) BY DEF KeyOf
  <2> HIDE DEF n
  <2>3. \A i \in 1 .. n : f[i] \in A /\ t[i] = f[i] BY <1>1, <2>0
  <2>4. /\ SubSeq(f, 1, n) \in Seq(A) /\ SubSeq(t, 1, n) \in Seq(A)
        /\ Len(SubSeq(f, 1, n)) = n /\ Len(SubSeq(t, 1, n)) = n
        /\ \A i \in 1 .. n : SubSeq(f, 1, n)[i] = f[i]
        /\ \A i \in 1 .. n : SubSeq(t, 1, n)[i] = t[i]
    <3>1. \A i \in 1 .. n : t[i] \in A BY <2>3
    <3>2. /\ SubSeq(f, 1, n) \in Seq(A)
          /\ Len(SubSeq(f, 1, n)) = IF 1 <= n THEN n - 1 + 1 ELSE 0
          /\ \A i \in 1 .. n - 1 + 1 : SubSeq(f, 1, n)[i] = f[1 + i - 1]
      BY <2>0, <2>3, SubSeqProperties
    <3>3. /\ SubSeq(t, 1, n) \in Seq(A)
          /\ Len(SubSeq(t, 1, n)) = IF 1 <= n THEN n - 1 + 1 ELSE 0
          /\ \A i \in 1 .. n - 1 + 1 : SubSeq(t, 1, n)[i] = t[1 + i - 1]
      BY <2>0, <3>1, SubSeqProperties
    <3> QED BY <2>0, <3>2, <3>3
  <2>5. SubSeq(t, 1, n) = SubSeq(f, 1, n) BY <2>3, <2>4, SeqEqual
  <2> QED BY <2>1, <2>2, <2>5
<1>5. ValueOf(t) = Append(ValueOf(f), x)
  <2> DEFINE m == Sign(f) + 1
             v == ValueOf(f)
             u == Append(v, x)
             w == SubSeq(t, m, Len(t))
  <2>0. m \in 2 .. Len(f) + 1 /\ m \in Int BY <1>2
  <2>1. ValueOf(t) = w BY <1>3 DEF ValueOf
  <2>2. v = SubSeq(f, m, Len(f)) BY DEF ValueOf
  <2> HIDE DEF m, v
  <2>3. \A i \in m .. Len(f) : f[i] \in A BY <2>0
  <2>4. /\ v \in Seq(A) /\ Len(v) = Len(f) + 1 - m
        /\ \A i \in 1 .. Len(f) - m + 1 : v[i] = f[m + i - 1]
    BY <2>0, <2>2, <2>3, SubSeqProperties
  <2>5. /\ u \in Seq(A) /\ Len(u) = Len(v) + 1
        /\ \A i \in 1 .. Len(v) : u[i] = v[i]
        /\ u[Len(v) + 1] = x
    BY <2>4, AppendProperties
  <2>6. \A i \in m .. Len(t) : t[i] \in A BY <1>1, <2>0
  <2>7. /\ w \in Seq(A) /\ Len(w) = Len(t) + 1 - m
        /\ \A i \in 1 .. Len(t) - m + 1 : w[i] = t[m + i - 1]
    BY <1>1, <2>0, <2>6, SubSeqProperties
  <2> HIDE DEF u, w
  <2>8. Len(w) = Len(u) BY <1>1, <2>0, <2>4, <2>5, <2>7
  <2>9. ASSUME NEW i \in 1 .. Len(u) PROVE w[i] = u[i]
    <3>1. CASE i \in 1 .. Len(v)
      <4>1. m + i - 1 \in 1 .. Len(f) BY <2>0, <2>4, <3>1
      <4>2. w[i] = t[m + i - 1] BY <1>1, <2>0, <2>4, <2>7, <3>1
      <4>3. u[i] = f[m + i - 1] BY <2>0, <2>4, <2>5, <3>1
      <4> QED BY <1>1, <4>1, <4>2, <4>3
    <3>2. CASE i = Len(v) + 1
      <4>1. m + i - 1 = Len(f) + 1 BY <2>0, <2>4, <3>2
      <4>2. w[i] = t[m + i - 1] BY <1>1, <2>0, <2>4, <2>7, <3>2
      <4> QED BY <1>1, <2>5, <3>2, <4>1, <4>2
    <3> QED BY <2>4, <2>5, <3>1, <3>2
  <2>10. w = u BY <2>5, <2>7, <2>8, <2>9, SeqEqual
  <2> QED BY <2>1, <2>10 DEF u, v
<1> QED BY <1>3, <1>4, <1>5 DEF t

LEMMA KeyGrows ==
    ASSUME NEW A, NEW f \in Seq(A), NEW x \in A, Sign(f) > Len(f), x # Equals
    PROVE  Sign(Append(f, x)) > Len(Append(f, x)) /\ ~IsField(Append(f, x))
<1> DEFINE t == Append(f, x)
<1>1. /\ t \in Seq(A) /\ Len(t) = Len(f) + 1
      /\ \A i \in 1 .. Len(f) : t[i] = f[i]
      /\ t[Len(f) + 1] = x
  BY AppendProperties
<1> HIDE DEF t
<1>2. \A j \in 1 .. Len(f) : f[j] # Equals BY SignIs
<1>3. \A j \in 1 .. Len(f) + 1 : t[j] # Equals BY <1>1, <1>2
<1>4. Sign(t) = Len(t) + 1 BY <1>1, <1>3, SignIsOnly
<1>5. ~ (Sign(t) <= Len(t)) BY <1>1, <1>4
<1> QED BY <1>1, <1>4, <1>5 DEF IsField, t

LEMMA SignIsRead ==
    ASSUME NEW A, NEW f \in Seq(A), Sign(f) > Len(f), Equals \in A
    PROVE  /\ Sign(Append(f, Equals)) <= Len(Append(f, Equals))
           /\ KeyOf(Append(f, Equals)) = f
           /\ ValueOf(Append(f, Equals)) = <<>>
<1> DEFINE t == Append(f, Equals)
<1>1. /\ t \in Seq(A) /\ Len(t) = Len(f) + 1
      /\ \A i \in 1 .. Len(f) : t[i] = f[i]
      /\ t[Len(f) + 1] = Equals
  BY AppendProperties
<1> HIDE DEF t
<1>2. \A j \in 1 .. Len(f) : f[j] # Equals BY SignIs
<1>3. Sign(t) = Len(f) + 1
  <2>1. \A j \in 1 .. Len(f) + 1 - 1 : t[j] # Equals BY <1>1, <1>2
  <2>2. Len(f) + 1 \in 1 .. Len(t) + 1 BY <1>1
  <2> QED BY <1>1, <2>1, <2>2, SignIsOnly
<1>4. KeyOf(t) = f
  <2>1. KeyOf(t) = SubSeq(t, 1, Len(f)) BY <1>3 DEF KeyOf
  <2>2. \A i \in 1 .. Len(f) : t[i] \in A BY <1>1
  <2>3. /\ SubSeq(t, 1, Len(f)) \in Seq(A)
        /\ Len(SubSeq(t, 1, Len(f))) = IF 1 <= Len(f) THEN Len(f) - 1 + 1 ELSE 0
        /\ \A i \in 1 .. Len(f) - 1 + 1 : SubSeq(t, 1, Len(f))[i] = t[1 + i - 1]
    BY <2>2, SubSeqProperties
  <2>4. Len(SubSeq(t, 1, Len(f))) = Len(f) BY <2>3
  <2>5. \A i \in 1 .. Len(f) : SubSeq(t, 1, Len(f))[i] = f[i] BY <1>1, <2>3
  <2>6. SubSeq(t, 1, Len(f)) = f BY <2>3, <2>4, <2>5, SeqEqual
  <2> QED BY <2>1, <2>6
<1>5. ValueOf(t) = <<>>
  <2>1. Len(t) < Len(f) + 2 /\ Len(t) \in Int /\ Len(f) + 2 \in Int BY <1>1
  <2>2. ValueOf(t) = SubSeq(t, Len(f) + 2, Len(t)) BY <1>3 DEF ValueOf
  <2> QED BY <2>1, <2>2, SubSeqEmpty
<1> QED BY <1>1, <1>3, <1>4, <1>5 DEF t

LEMMA SignIsNoWord ==
    ASSUME NEW A, NEW f \in Seq(A), Sign(f) <= Len(f)
    PROVE  ~IsWord(f)
<1>1. Sign(f) \in 1 .. Len(f) /\ f[Sign(f)] = Equals BY SignIs
<1> HIDE DEF Sign, Indent
<1>2. Indent(f) \in 1 .. Len(f) + 1 /\ \A j \in 1 .. Indent(f) - 1 : f[j] = Space BY IndentIs
<1>3. Indent(f) <= Sign(f) BY <1>1, <1>2, Signs
<1>4. /\ Word(f) \in Seq(A) /\ Len(Word(f)) = Len(f) + 1 - Indent(f)
      /\ \A i \in 1 .. Len(Word(f)) : Word(f)[i] = f[Indent(f) + i - 1]
  BY WordIs
<1>a. Indent(f) \in Nat /\ Sign(f) \in Nat /\ Len(f) \in Nat BY <1>1, <1>2
<1>b. PICK k \in Int : k = Sign(f) + 1 - Indent(f) BY <1>a
<1>c. Indent(f) + k - 1 = Sign(f) /\ k >= 1 BY <1>3, <1>a, <1>b
<1>d. Sign(f) <= Len(f) /\ Len(Word(f)) \in Nat BY <1>4
<1>e. k <= Len(Word(f)) BY <1>4, <1>a, <1>b, <1>d
<1>5. k \in 1 .. Len(Word(f)) /\ Indent(f) + k - 1 = Sign(f) BY <1>c, <1>d, <1>e
<1>6. k \in DOMAIN Word(f) BY <1>4, <1>5, LenProperties
<1>7. Word(f)[k] = Equals BY <1>1, <1>4, <1>5
<1> QED BY <1>6, <1>7, Signs DEF IsWord

LEMMA BadFieldStays ==
    ASSUME NEW A, NEW f \in Seq(A), NEW x \in A, ~IsField(f), ~IsWord(f)
    PROVE  ~IsField(Append(f, x)) /\ ~IsWord(Append(f, x))
<1> DEFINE t == Append(f, x)
<1>1. ~IsWord(t) BY IsWordGrows
<1>2. Sign(f) <= Len(f) \/ Sign(f) > Len(f)
  <2>1. Sign(f) \in 1 .. Len(f) + 1 /\ Len(f) \in Nat BY SignIs
  <2> HIDE DEF Sign
  <2> QED BY <2>1
<1>3. CASE Sign(f) <= Len(f)
  <2>1. KeyOf(t) = KeyOf(f) /\ ValueOf(t) = Append(ValueOf(f), x) BY <1>3, ValueGrows
  <2>2. ValueOf(f) \in Seq(A) BY KeyAndValueTyped
  <2>3. IsWord(ValueOf(t)) => IsWord(ValueOf(f)) BY <2>1, <2>2, IsWordGrows
  <2> QED BY <1>1, <1>3, <2>1, <2>3 DEF IsField
<1>4. CASE Sign(f) > Len(f) /\ x = Equals
  <2>1. KeyOf(t) = f BY <1>4, SignIsRead
  <2> QED BY <1>1, <2>1 DEF IsField
<1>5. CASE Sign(f) > Len(f) /\ x # Equals BY <1>1, <1>5, KeyGrows
<1> QED BY <1>2, <1>3, <1>4, <1>5

\* What follows a key and its sign cannot change them.
LEMMA KeyOfFieldStays ==
    ASSUME NEW A, NEW f \in Seq(A), NEW x \in A, IsField(f)
    PROVE  /\ KeyOf(Append(f, x)) = KeyOf(f) /\ ~IsWord(Append(f, x))
           /\ IsField(Append(f, x)) <=> IsWord(ValueOf(Append(f, x)))
<1> DEFINE t == Append(f, x)
<1>1. t \in Seq(A) /\ Len(t) = Len(f) + 1 BY AppendProperties
<1>2. Sign(f) <= Len(f) /\ IsWord(KeyOf(f)) /\ Word(KeyOf(f)) # <<>> BY DEF IsField
<1>3. Sign(f) \in Int BY SignIs
<1>4. Sign(t) = Sign(f) /\ KeyOf(t) = KeyOf(f) BY <1>2, ValueGrows
<1> HIDE DEF t
<1>5. Sign(t) <= Len(t) BY <1>1, <1>2, <1>3, <1>4
<1>6. ~IsWord(t) BY <1>1, <1>5, SignIsNoWord
<1>7. IsField(t) <=> IsWord(ValueOf(t)) BY <1>2, <1>4, <1>5 DEF IsField
<1> QED BY <1>4, <1>6, <1>7 DEF t

\* What a symbol makes of a field without a key, with a part of one, or with all.
LEMMA BlankGrows ==
    ASSUME NEW A, NEW f \in Seq(A), NEW x \in A, Word(f) = <<>>, Sign(f) > Len(f)
    PROVE  /\ Legal(x) =>
                /\ IsWord(Append(f, x)) /\ Word(Append(f, x)) = <<x>>
                /\ Sign(Append(f, x)) > Len(Append(f, x))
           /\ x = Space =>
                Word(Append(f, x)) = <<>> /\ Sign(Append(f, x)) > Len(Append(f, x))
           /\ ~Legal(x) /\ x # Space => ~IsField(Append(f, x)) /\ ~IsWord(Append(f, x))
<1>1. IsWord(f) BY DEF IsWord
<1>2. CASE Legal(x)
  <2>1. x # Space /\ x # Equals BY <1>2, Signs
  <2>a. Word(Append(f, x)) = Append(Word(f), x) BY <2>1, WordGrows
  <2>b. Append(<<>>, x) = <<x>> OBVIOUS
  <2>2. Word(Append(f, x)) = <<x>> BY <2>a, <2>b, Zenon
  <2>3. IsWord(Append(f, x)) BY <1>1, <1>2, IsWordGrows
  <2>4. Sign(Append(f, x)) > Len(Append(f, x)) BY <2>1, KeyGrows
  <2> QED BY <1>2, <2>1, <2>2, <2>3, <2>4
<1>3. CASE x = Space
  <2>1. Word(Append(f, x)) = <<>> BY <1>3, WordStaysEmpty
  <2>2. x # Equals BY <1>3, Signs
  <2>3. Sign(Append(f, x)) > Len(Append(f, x)) BY <2>2, KeyGrows
  <2> QED BY <1>3, <2>1, <2>3, Signs
<1>4. CASE ~Legal(x) /\ x # Space
  <2>1. ~IsWord(Append(f, x)) BY <1>4, IsWordGrows
  <2>2. CASE x = Equals
    <3>1. KeyOf(Append(f, x)) = f BY <2>2, SignIsRead
    <3> QED BY <1>4, <2>1, <3>1 DEF IsField
  <2>3. CASE x # Equals
    <3>1. ~IsField(Append(f, x)) BY <2>3, KeyGrows
    <3> QED BY <1>4, <2>1, <3>1
  <2> QED BY <2>2, <2>3
<1> QED BY <1>2, <1>3, <1>4

LEMMA PartOfKeyGrows ==
    ASSUME NEW A, NEW f \in Seq(A), NEW x \in A,
           IsWord(f), Word(f) # <<>>, Sign(f) > Len(f)
    PROVE  /\ x = Equals =>
                /\ IsField(Append(f, x)) /\ Word(KeyOf(Append(f, x))) = Word(f)
                /\ Word(ValueOf(Append(f, x))) = <<>>
           /\ Legal(x) =>
                /\ IsWord(Append(f, x)) /\ Word(Append(f, x)) = Append(Word(f), x)
                /\ Sign(Append(f, x)) > Len(Append(f, x))
           /\ ~Legal(x) /\ x # Equals => ~IsField(Append(f, x)) /\ ~IsWord(Append(f, x))
<1>1. CASE x = Equals
  <2>1. /\ Sign(Append(f, x)) <= Len(Append(f, x))
        /\ KeyOf(Append(f, x)) = f /\ ValueOf(Append(f, x)) = <<>>
    BY <1>1, SignIsRead
  <2>2. IsField(Append(f, x)) BY <2>1, EmptyWord DEF IsField
  <2> QED BY <1>1, <2>1, <2>2, EmptyWord, Signs
<1>2. CASE x # Equals
  <2>1. Sign(Append(f, x)) > Len(Append(f, x)) BY <1>2, KeyGrows
  <2>2. ~IsField(Append(f, x)) BY <1>2, KeyGrows
  <2>3. Word(Append(f, x)) = Append(Word(f), x) BY WordGrows
  <2>4. IsWord(Append(f, x)) <=> Legal(x) BY IsWordGrows
  <2> QED BY <1>2, <2>1, <2>2, <2>3, <2>4
<1> QED BY <1>1, <1>2

LEMMA FieldWithKeyGrows ==
    ASSUME NEW A, NEW f \in Seq(A), NEW x \in A, IsField(f)
    PROVE  /\ KeyOf(Append(f, x)) = KeyOf(f)
           /\ Legal(x) =>
                /\ IsField(Append(f, x))
                /\ Word(ValueOf(Append(f, x))) = Append(Word(ValueOf(f)), x)
           /\ x = Space /\ Word(ValueOf(f)) = <<>> =>
                IsField(Append(f, x)) /\ Word(ValueOf(Append(f, x))) = <<>>
           /\ ~Legal(x) /\ ~(x = Space /\ Word(ValueOf(f)) = <<>>) =>
                ~IsField(Append(f, x)) /\ ~IsWord(Append(f, x))
<1>1. /\ KeyOf(Append(f, x)) = KeyOf(f) /\ ~IsWord(Append(f, x))
      /\ IsField(Append(f, x)) <=> IsWord(ValueOf(Append(f, x)))
  BY KeyOfFieldStays
<1>2. IsWord(ValueOf(f)) /\ Sign(f) <= Len(f) BY DEF IsField
<1>3. ValueOf(Append(f, x)) = Append(ValueOf(f), x) BY <1>2, ValueGrows
<1>4. ValueOf(f) \in Seq(A) BY KeyAndValueTyped
<1>5. IsField(Append(f, x)) <=> Legal(x) \/ (x = Space /\ Word(ValueOf(f)) = <<>>)
  BY <1>1, <1>2, <1>3, <1>4, IsWordGrows
<1>6. Legal(x) => Word(Append(ValueOf(f), x)) = Append(Word(ValueOf(f)), x)
  BY <1>3, <1>4, WordGrows, Signs
<1>7. x = Space /\ Word(ValueOf(f)) = <<>> => Word(Append(ValueOf(f), x)) = <<>>
  BY <1>3, <1>4, WordStaysEmpty
<1> QED BY <1>1, <1>3, <1>5, <1>6, <1>7

LEMMA NoSign == ASSUME NEW A, NEW f \in Seq(A), Sign(f) > Len(f) PROVE ~IsField(f)
<1>2. Sign(f) \in 1 .. Len(f) + 1 BY SignIs
<1> HIDE DEF Sign
<1>3. ~ (Sign(f) <= Len(f)) BY <1>2
<1> QED BY <1>3 DEF IsField

LEMMA EmptyField == Word(<<>>) = <<>> /\ Sign(<<>>) > Len(<<>>)
<1> DEFINE e == <<>>
<1>1. e \in Seq({}) /\ Len(e) = 0 OBVIOUS
<1>2. Sign(e) \in 1 .. Len(e) + 1 BY <1>1, SignIs
<1>3. Sign(e) > Len(e)
  <2> HIDE DEF e
  <2> QED BY <1>1, <1>2
<1> QED BY <1>3, EmptyWord DEF e

-----------------------------------------------------------------------------
(* The fields of a message that grows *)

LEMMA PartIs ==
    ASSUME NEW A, NEW m \in Seq(A), NEW b \in 1 .. Len(m) + 1, NEW n \in b - 1 .. Len(m)
    PROVE  /\ SubSeq(m, b, n) \in Seq(A)
           /\ Len(SubSeq(m, b, n)) = n + 1 - b
           /\ \A i \in 1 .. n + 1 - b : SubSeq(m, b, n)[i] = m[b + i - 1]
<1>1. b \in Int /\ n \in Int OBVIOUS
<1>2. \A i \in b .. n : m[i] \in A OBVIOUS
<1>3. /\ SubSeq(m, b, n) \in Seq(A)
      /\ Len(SubSeq(m, b, n)) = IF b <= n THEN n - b + 1 ELSE 0
      /\ \A i \in 1 .. n - b + 1 : SubSeq(m, b, n)[i] = m[b + i - 1]
  BY <1>1, <1>2, SubSeqProperties
<1> QED BY <1>1, <1>3

LEMMA PartKept ==
    ASSUME NEW A, NEW m \in Seq(A), NEW x \in A,
           NEW b \in 1 .. Len(m) + 1, NEW n \in b - 1 .. Len(m)
    PROVE  SubSeq(Append(m, x), b, n) = SubSeq(m, b, n)
<1> DEFINE t == Append(m, x)
           u == SubSeq(t, b, n)
           v == SubSeq(m, b, n)
<1>1. /\ t \in Seq(A) /\ Len(t) = Len(m) + 1
      /\ \A i \in 1 .. Len(m) : t[i] = m[i]
  BY AppendProperties
<1> HIDE DEF t
<1>2. b \in 1 .. Len(t) + 1 /\ n \in b - 1 .. Len(t) BY <1>1
<1>3. /\ u \in Seq(A) /\ Len(u) = n + 1 - b
      /\ \A i \in 1 .. n + 1 - b : u[i] = t[b + i - 1]
  BY <1>1, <1>2, PartIs
<1>4. /\ v \in Seq(A) /\ Len(v) = n + 1 - b
      /\ \A i \in 1 .. n + 1 - b : v[i] = m[b + i - 1]
  BY PartIs
<1> HIDE DEF u, v
<1>5. \A i \in 1 .. n + 1 - b : b + i - 1 \in 1 .. Len(m) OBVIOUS
<1>6. \A i \in 1 .. Len(u) : u[i] = v[i] BY <1>1, <1>3, <1>4, <1>5
<1>7. u = v BY <1>3, <1>4, <1>6, SeqEqual
<1> QED BY <1>7 DEF t, u, v

LEMMA PartGrows ==
    ASSUME NEW A, NEW m \in Seq(A), NEW x \in A, NEW b \in 1 .. Len(m) + 1
    PROVE  SubSeq(Append(m, x), b, Len(m) + 1) = Append(SubSeq(m, b, Len(m)), x)
<1> DEFINE t == Append(m, x)
           u == SubSeq(t, b, Len(m) + 1)
           v == SubSeq(m, b, Len(m))
           w == Append(v, x)
<1>1. /\ t \in Seq(A) /\ Len(t) = Len(m) + 1
      /\ \A i \in 1 .. Len(m) : t[i] = m[i]
      /\ t[Len(m) + 1] = x
  BY AppendProperties
<1> HIDE DEF t
<1>2. b \in 1 .. Len(t) + 1 /\ Len(m) + 1 \in b - 1 .. Len(t) BY <1>1
<1>3. /\ u \in Seq(A) /\ Len(u) = Len(m) + 1 + 1 - b
      /\ \A i \in 1 .. Len(m) + 1 + 1 - b : u[i] = t[b + i - 1]
  BY <1>1, <1>2, PartIs
<1>a. Len(m) \in b - 1 .. Len(m) OBVIOUS
<1>4. /\ v \in Seq(A) /\ Len(v) = Len(m) + 1 - b
      /\ \A i \in 1 .. Len(m) + 1 - b : v[i] = m[b + i - 1]
  BY <1>a, PartIs
<1> HIDE DEF u, v
<1>5. /\ w \in Seq(A) /\ Len(w) = Len(v) + 1
      /\ \A i \in 1 .. Len(v) : w[i] = v[i]
      /\ w[Len(v) + 1] = x
  BY <1>4, AppendProperties
<1> HIDE DEF w
<1>6. Len(u) = Len(w) BY <1>3, <1>4, <1>5
<1>7. ASSUME NEW i \in 1 .. Len(u) PROVE u[i] = w[i]
  <2>1. CASE i \in 1 .. Len(v)
    <3>1. b + i - 1 \in 1 .. Len(m) BY <1>4, <2>1
    <3> QED BY <1>1, <1>3, <1>4, <1>5, <2>1, <3>1
  <2>2. CASE i = Len(v) + 1
    <3>1. b + i - 1 = Len(m) + 1 BY <1>4, <2>2
    <3>2. u[i] = t[b + i - 1] BY <1>3
    <3> QED BY <1>1, <1>5, <2>2, <3>1, <3>2
  <2> QED BY <1>3, <1>4, <2>1, <2>2
<1>8. u = w BY <1>3, <1>5, <1>6, <1>7, SeqEqual
<1> QED BY <1>8 DEF t, u, v, w

EndIn(m, b) == FirstOf(m, b, {Separator})
FieldIn(m, b) == SubSeq(m, b, EndIn(m, b) - 1)

LEMMA FieldIs ==
    ASSUME NEW A, NEW m \in Seq(A), NEW b \in 1 .. Len(m) + 1
    PROVE  /\ EndIn(m, b) \in b .. Len(m) + 1
           /\ EndIn(m, b) <= Len(m) => m[EndIn(m, b)] = Separator
           /\ \A j \in b .. EndIn(m, b) - 1 : m[j] # Separator
           /\ FieldIn(m, b) \in Seq(A)
<1>1. IsFirst(EndIn(m, b), m, b, {Separator}) BY FirstExists DEF EndIn
<1> HIDE DEF EndIn
<1>2. EndIn(m, b) \in b .. Len(m) + 1 BY <1>1 DEF IsFirst
<1>3. EndIn(m, b) - 1 \in b - 1 .. Len(m) BY <1>2
<1>4. FieldIn(m, b) \in Seq(A) BY <1>3, PartIs DEF FieldIn
<1> QED BY <1>1, <1>2, <1>4 DEF IsFirst

LEMMA EndIsOnly ==
    ASSUME NEW A, NEW m \in Seq(A), NEW b \in 1 .. Len(m) + 1, NEW k \in b .. Len(m) + 1,
           k <= Len(m) => m[k] = Separator,
           \A j \in b .. k - 1 : m[j] # Separator
    PROVE  EndIn(m, b) = k
<1>1. IsFirst(k, m, b, {Separator}) BY DEF IsFirst
<1> QED BY <1>1, FirstUnique DEF EndIn

LEMMA FieldKept ==
    ASSUME NEW A, NEW m \in Seq(A), NEW x \in A, NEW b \in 1 .. Len(m) + 1,
           EndIn(m, b) <= Len(m)
    PROVE  EndIn(Append(m, x), b) = EndIn(m, b) /\ FieldIn(Append(m, x), b) = FieldIn(m, b)
<1> DEFINE t == Append(m, x)
           k == EndIn(m, b)
<1>1. /\ t \in Seq(A) /\ Len(t) = Len(m) + 1
      /\ \A i \in 1 .. Len(m) : t[i] = m[i]
  BY AppendProperties
<1>2. k \in b .. Len(m) /\ m[k] = Separator /\ \A j \in b .. k - 1 : m[j] # Separator BY FieldIs
<1>3. SubSeq(t, b, k - 1) = SubSeq(m, b, k - 1) BY <1>2, PartKept
<1> HIDE DEF t, k
<1>4. \A j \in b .. k - 1 : j \in 1 .. Len(m) BY <1>2
<1>5. b \in 1 .. Len(t) + 1 /\ k \in b .. Len(t) + 1 BY <1>1, <1>2
<1>6. k <= Len(t) => t[k] = Separator BY <1>1, <1>2
<1>7. \A j \in b .. k - 1 : t[j] # Separator BY <1>1, <1>2, <1>4
<1>8. EndIn(t, b) = k BY <1>1, <1>5, <1>6, <1>7, EndIsOnly
<1> QED BY <1>3, <1>8 DEF FieldIn, t, k

LEMMA FieldGrows ==
    ASSUME NEW A, NEW m \in Seq(A), NEW x \in A, NEW b \in 1 .. Len(m) + 1,
           EndIn(m, b) > Len(m), x # Separator
    PROVE  /\ EndIn(Append(m, x), b) > Len(m) + 1
           /\ FieldIn(Append(m, x), b) = Append(FieldIn(m, b), x)
<1> DEFINE t == Append(m, x)
<1>1. /\ t \in Seq(A) /\ Len(t) = Len(m) + 1
      /\ \A i \in 1 .. Len(m) : t[i] = m[i]
      /\ t[Len(m) + 1] = x
  BY AppendProperties
<1>2. EndIn(m, b) = Len(m) + 1 /\ \A j \in b .. Len(m) : m[j] # Separator
  BY FieldIs
<1>3. SubSeq(t, b, Len(m) + 1) = Append(SubSeq(m, b, Len(m)), x) BY PartGrows
<1> HIDE DEF t
<1>4. \A j \in b .. Len(m) + 1 : t[j] # Separator BY <1>1, <1>2
<1>5. EndIn(t, b) = Len(m) + 2 BY <1>1, <1>4, EndIsOnly
<1>6. FieldIn(t, b) = SubSeq(t, b, Len(m) + 1) BY <1>5 DEF FieldIn
<1>7. FieldIn(m, b) = SubSeq(m, b, Len(m)) BY <1>2 DEF FieldIn
<1>8. FieldIn(t, b) = Append(FieldIn(m, b), x) BY <1>3, <1>6, <1>7
<1> QED BY <1>5, <1>8 DEF t

LEMMA FieldEnds ==
    ASSUME NEW A, NEW m \in Seq(A), NEW b \in 1 .. Len(m) + 1, EndIn(m, b) > Len(m), Separator \in A
    PROVE  /\ EndIn(Append(m, Separator), b) = Len(m) + 1
           /\ FieldIn(Append(m, Separator), b) = FieldIn(m, b)
<1> DEFINE t == Append(m, Separator)
<1>1. /\ t \in Seq(A) /\ Len(t) = Len(m) + 1
      /\ \A i \in 1 .. Len(m) : t[i] = m[i]
      /\ t[Len(m) + 1] = Separator
  BY AppendProperties
<1>2. EndIn(m, b) = Len(m) + 1 /\ \A j \in b .. Len(m) : m[j] # Separator
  BY FieldIs
<1>a. Len(m) \in b - 1 .. Len(m) OBVIOUS
<1>3. SubSeq(t, b, Len(m)) = SubSeq(m, b, Len(m)) BY <1>a, PartKept
<1> HIDE DEF t
<1>4. \A j \in b .. Len(m) : t[j] # Separator BY <1>1, <1>2
<1>5. EndIn(t, b) = Len(m) + 1 BY <1>1, <1>4, EndIsOnly
<1>6. FieldIn(t, b) = SubSeq(t, b, Len(m)) BY <1>5 DEF FieldIn
<1>7. FieldIn(m, b) = SubSeq(m, b, Len(m)) BY <1>2 DEF FieldIn
<1> QED BY <1>3, <1>5, <1>6, <1>7 DEF t

LEMMA FieldBegins ==
    ASSUME NEW A, NEW m \in Seq(A)
    PROVE  EndIn(m, Len(m) + 1) = Len(m) + 1 /\ FieldIn(m, Len(m) + 1) = <<>>
<1> DEFINE n == Len(m) + 1
<1>1. n \in 1 .. Len(m) + 1 /\ n \in Int /\ n - 1 < n /\ n - 1 \in Int /\ n = Len(m) + 1 OBVIOUS
<1>3. SubSeq(m, n, n - 1) = <<>> BY <1>1, SubSeqEmpty
<1> HIDE DEF n
<1>a. EndIn(m, n) \in n .. Len(m) + 1 BY <1>1, FieldIs
<1>2. EndIn(m, n) = n BY <1>1, <1>a
<1>4. FieldIn(m, n) = <<>> BY <1>2, <1>3 DEF FieldIn
<1> QED BY <1>2, <1>4 DEF n

BeginsIn(m) == {1} \cup {k + 1 : k \in {j \in DOMAIN m : m[j] = Separator}}

LEMMA BeginsAre ==
    ASSUME NEW A, NEW m \in Seq(A)
    PROVE  /\ BeginsIn(m) \subseteq 1 .. Len(m) + 1
           /\ \A b, c \in BeginsIn(m) : EndIn(m, b) > Len(m) /\ EndIn(m, c) > Len(m) => b = c
<1>1. BeginsIn(m) \subseteq 1 .. Len(m) + 1 BY LenProperties DEF BeginsIn
<1>2. \A b \in BeginsIn(m) : b = 1 \/ (b > 1 /\ m[b - 1] = Separator)
  BY LenProperties DEF BeginsIn
<1>3. ASSUME NEW b \in BeginsIn(m), NEW c \in BeginsIn(m), EndIn(m, b) > Len(m), b < c
      PROVE  FALSE
  <2>1. EndIn(m, b) = Len(m) + 1 /\ \A j \in b .. Len(m) + 1 - 1 : m[j] # Separator
    BY <1>1, <1>3, FieldIs
  <2>2. c - 1 \in b .. Len(m) + 1 - 1 BY <1>1, <1>3
  <2> QED BY <1>1, <1>2, <1>3, <2>1, <2>2
<1> QED BY <1>1, <1>3

LEMMA BeginsGrow ==
    ASSUME NEW A, NEW m \in Seq(A), NEW x \in A
    PROVE  BeginsIn(Append(m, x)) = BeginsIn(m) \cup (IF x = Separator THEN {Len(m) + 2} ELSE {})
<1> DEFINE t == Append(m, x)
<1>1. /\ t \in Seq(A) /\ Len(t) = Len(m) + 1
      /\ \A i \in 1 .. Len(m) : t[i] = m[i]
      /\ t[Len(m) + 1] = x
      /\ DOMAIN t = 1 .. Len(m) + 1 /\ DOMAIN m = 1 .. Len(m)
  BY AppendProperties, LenProperties
<1> HIDE DEF t
<1> QED BY <1>1 DEF BeginsIn, t

LEMMA MessageIs ==
    /\ Begins = BeginsIn(message)
    /\ \A b : /\ Field(b) = FieldIn(message, b)
              /\ IsLast(b) <=> EndIn(message, b) > Len(message)
BY DEF Begins, BeginsIn, Field, FieldIn, IsLast, End, EndIn

LEMMA MessageIsNext ==
    /\ Begins' = BeginsIn(message')
    /\ \A b : /\ Field(b)' = FieldIn(message', b)
              /\ IsLast(b)' <=> EndIn(message', b) > Len(message')
BY DEF Begins, BeginsIn, Field, FieldIn, IsLast, End, EndIn

LEMMA FieldsTyped ==
    ASSUME NEW A, message \in Seq(A)
    PROVE  /\ \A b \in Begins : Field(b) \in Seq(A)
           /\ \A b, c \in Begins : IsLast(b) /\ IsLast(c) => b = c
BY MessageIs, BeginsAre, FieldIs

\* A symbol that is no separator is added to the last field.
LEMMA LastFieldGrows ==
    ASSUME NEW A, message \in Seq(A), NEW symbol \in A, symbol # Separator,
           message' = Append(message, symbol)
    PROVE  /\ message' \in Seq(A) /\ Begins' = Begins
           /\ \A b \in Begins : IsLast(b)' <=> IsLast(b)
           /\ \A b \in Begins : IsLast(b) => Field(b)' = Append(Field(b), symbol)
           /\ \A b \in Begins : ~IsLast(b) => Field(b)' = Field(b)
<1>1. message' \in Seq(A) /\ Len(message') = Len(message) + 1 BY AppendProperties
<1>2. BeginsIn(message') = BeginsIn(message) BY BeginsGrow
<1>3. \A b \in BeginsIn(message) : b \in 1 .. Len(message) + 1 BY BeginsAre
<1>4. ASSUME NEW b \in BeginsIn(message)
      PROVE  /\ EndIn(message', b) > Len(message') <=> EndIn(message, b) > Len(message)
             /\ EndIn(message, b) > Len(message) =>
                    FieldIn(message', b) = Append(FieldIn(message, b), symbol)
             /\ EndIn(message, b) <= Len(message) => FieldIn(message', b) = FieldIn(message, b)
  <2>0. b \in 1 .. Len(message) + 1 BY <1>3
  <2>1. EndIn(message, b) \in b .. Len(message) + 1 BY <2>0, FieldIs
  <2>2. CASE EndIn(message, b) > Len(message)
    <3>1. /\ EndIn(message', b) > Len(message) + 1
          /\ FieldIn(message', b) = Append(FieldIn(message, b), symbol)
      BY <2>0, <2>2, FieldGrows
    <3> QED BY <1>1, <2>0, <2>1, <2>2, <3>1
  <2>3. CASE EndIn(message, b) <= Len(message)
    <3>1. EndIn(message', b) = EndIn(message, b) /\ FieldIn(message', b) = FieldIn(message, b)
      BY <2>0, <2>3, FieldKept
    <3> QED BY <1>1, <2>0, <2>1, <2>3, <3>1
  <2> QED BY <2>0, <2>1, <2>2, <2>3
<1>5. \A b \in BeginsIn(message) : EndIn(message, b) \in Int BY <1>3, FieldIs
<1>6. \A b \in BeginsIn(message) : ~(EndIn(message, b) > Len(message)) => EndIn(message, b) <= Len(message)
  BY <1>5
<1> QED BY <1>1, <1>2, <1>4, <1>6, MessageIs, MessageIsNext

\* A separator ends the last field and begins the next.
LEMMA NextFieldBegins ==
    ASSUME NEW A, message \in Seq(A), Separator \in A, message' = Append(message, Separator)
    PROVE  /\ message' \in Seq(A)
           /\ \E next : /\ Begins' = Begins \cup {next} /\ next \notin Begins
                        /\ IsLast(next)' /\ Field(next)' = <<>>
           /\ \A b \in Begins : ~IsLast(b)' /\ Field(b)' = Field(b)
<1>1. message' \in Seq(A) /\ Len(message') = Len(message) + 1
  BY AppendProperties
<1>2. BeginsIn(message') = BeginsIn(message) \cup {Len(message) + 2}
  BY BeginsGrow
<1>3. \A b \in BeginsIn(message) : b \in 1 .. Len(message) + 1 BY BeginsAre
<1>4. ASSUME NEW b \in BeginsIn(message)
      PROVE  EndIn(message', b) <= Len(message') /\ FieldIn(message', b) = FieldIn(message, b)
  <2>0. b \in 1 .. Len(message) + 1 BY <1>3
  <2>1. EndIn(message, b) \in b .. Len(message) + 1 BY <2>0, FieldIs
  <2>2. CASE EndIn(message, b) > Len(message)
    <3>1. /\ EndIn(message', b) = Len(message) + 1
          /\ FieldIn(message', b) = FieldIn(message, b)
      BY <2>0, <2>2, FieldEnds
    <3> QED BY <1>1, <3>1
  <2>3. CASE EndIn(message, b) <= Len(message)
    <3>1. EndIn(message', b) = EndIn(message, b) /\ FieldIn(message', b) = FieldIn(message, b)
      BY <2>0, <2>3, FieldKept
    <3> QED BY <1>1, <2>1, <2>3, <3>1
  <2> QED BY <2>0, <2>1, <2>2, <2>3
<1>5. /\ EndIn(message', Len(message') + 1) = Len(message') + 1
      /\ FieldIn(message', Len(message') + 1) = <<>>
  BY <1>1, FieldBegins
<1>6. PICK next : next = Len(message) + 2 OBVIOUS
<1>7. next \notin BeginsIn(message) BY <1>3, <1>6
<1>8. next = Len(message') + 1 /\ next > Len(message') BY <1>1, <1>6
<1>9. Begins' = Begins \cup {next} /\ next \notin Begins
  BY <1>2, <1>6, <1>7, MessageIs, MessageIsNext
<1>10. IsLast(next)' /\ Field(next)' = <<>>
  <2>1. EndIn(message', next) = next /\ FieldIn(message', next) = <<>> BY <1>5, <1>8
  <2> QED BY <1>8, <2>1, MessageIsNext
<1>12. ASSUME NEW b \in Begins PROVE ~IsLast(b)' /\ Field(b)' = Field(b)
  <2>1. b \in BeginsIn(message) BY MessageIs
  <2>2. b \in BeginsIn(message') BY <1>2, <2>1
  <2>3. b \in 1 .. Len(message') + 1 BY <1>1, <2>2, BeginsAre
  <2>4. EndIn(message', b) \in b .. Len(message') + 1 BY <1>1, <2>3, FieldIs
  <2>5. ~ (EndIn(message', b) > Len(message')) BY <1>1, <1>4, <2>1, <2>3, <2>4
  <2> QED BY <1>4, <2>1, <2>5, MessageIs, MessageIsNext
<1> QED BY <1>1, <1>9, <1>10, <1>12

-----------------------------------------------------------------------------
(* The invariant of the parser *)

\* Fields that are in post: those that have ended, and one whose value has begun.
Entered == {b \in Begins : ~IsLast(b) \/ state = "inval"}

\* What a state says of the field that is being read.
Reading(f) ==
    /\ state = "nextkey" => Word(f) = <<>> /\ Sign(f) > Len(f)
    /\ state = "inkey" => IsWord(f) /\ Word(f) = key /\ key # <<>> /\ Sign(f) > Len(f)
    /\ state \in {"nextval", "inval"} => IsField(f) /\ Word(KeyOf(f)) = key
    /\ state = "nextval" => Word(ValueOf(f)) = <<>>
    /\ state = "inval" => Word(ValueOf(f)) # <<>>

PostHasFields ==
    /\ \A b \in Entered : IsField(Field(b))
    /\ \A b, c \in Entered : Name(b) = Name(c) => b = c
    /\ DOMAIN post = {Name(b) : b \in Entered}
    /\ \A b \in Entered : post[Name(b)] = Word(ValueOf(Field(b)))

\* No symbol that follows makes a message of it.
Broken ==
    \/ \E b \in Begins \ Complete : ~(IsLast(b) /\ IsWord(Field(b)))
    \/ \E b, c \in Complete : b # c /\ Name(b) = Name(c)

ReadTypeOK ==
    /\ message \in Seq(Range(message))
    /\ state \in {"nextkey", "inkey", "nextval", "inval", "parse_error"}

ReadInv ==
    /\ ReadTypeOK
    /\ \E b \in Begins : IsLast(b)
    /\ state # "parse_error" =>
            PostHasFields /\ \A b \in Begins : IsLast(b) => Reading(Field(b))
    /\ state = "parse_error" => Broken

\* The invariant of the parser names a message that stays broken.
LEMMA BrokenStays ==
    ASSUME NEW A, message \in Seq(A), NEW symbol \in A,
           message' = Append(message, symbol), Broken
    PROVE  Broken'
<1>1. \A b \in Begins : Field(b) \in Seq(A) BY FieldsTyped
<1>2. CASE symbol = Separator
  <2>1. /\ Begins \subseteq Begins'
        /\ \A b \in Begins : ~IsLast(b)' /\ Field(b)' = Field(b)
    BY <1>2, NextFieldBegins
  <2>2. CASE \E b \in Begins \ Complete : ~(IsLast(b) /\ IsWord(Field(b)))
    <3>1. PICK b \in Begins : b \notin Complete BY <2>2
    <3>2. ~IsField(Field(b)) BY <3>1 DEF Complete
    <3>3. b \in Begins' /\ ~IsField(Field(b))' /\ ~IsLast(b)' BY <2>1, <3>1, <3>2
    <3> QED BY <3>3 DEF Broken, Complete
  <2>3. CASE \E b, c \in Complete : b # c /\ Name(b) = Name(c)
    <3>1. PICK b \in Complete, c \in Complete : b # c /\ Name(b) = Name(c) BY <2>3
    <3>2. b \in Complete' /\ c \in Complete' BY <2>1, <3>1 DEF Complete
    <3>3. Name(b)' = Name(b) /\ Name(c)' = Name(c) BY <2>1, <3>1 DEF Complete, Name
    <3> QED BY <3>1, <3>2, <3>3 DEF Broken
  <2> QED BY <2>2, <2>3 DEF Broken
<1>3. CASE symbol # Separator
  <2>1. /\ Begins' = Begins
        /\ \A b \in Begins : IsLast(b)' <=> IsLast(b)
        /\ \A b \in Begins : IsLast(b) => Field(b)' = Append(Field(b), symbol)
        /\ \A b \in Begins : ~IsLast(b) => Field(b)' = Field(b)
    BY <1>3, LastFieldGrows
  <2>2. CASE \E b \in Begins \ Complete : ~(IsLast(b) /\ IsWord(Field(b)))
    <3>1. PICK b \in Begins : b \notin Complete /\ ~(IsLast(b) /\ IsWord(Field(b))) BY <2>2
    <3>2. ~IsField(Field(b)) BY <3>1 DEF Complete
    <3>3. CASE IsLast(b)
      <4>1. ~IsField(Field(b)') /\ ~IsWord(Field(b)')
        BY <1>1, <2>1, <3>1, <3>2, <3>3, BadFieldStays
      <4> QED BY <2>1, <4>1 DEF Broken, Complete
    <3>4. CASE ~IsLast(b)
      <4>1. ~IsField(Field(b)') /\ ~IsLast(b)' BY <2>1, <3>2, <3>4
      <4> QED BY <2>1, <4>1 DEF Broken, Complete
    <3> QED BY <3>3, <3>4
  <2>3. CASE \E b, c \in Complete : b # c /\ Name(b) = Name(c)
    <3>1. PICK b \in Complete, c \in Complete : b # c /\ Name(b) = Name(c) BY <2>3
    <3>2. ASSUME NEW d \in Complete
          PROVE  Name(d)' = Name(d) /\ (d \in Complete' \/ Broken')
      <4>0. d \in Begins /\ IsField(Field(d)) BY DEF Complete
      <4>1. CASE IsLast(d)
        <5>a. Field(d) \in Seq(A) /\ Field(d)' = Append(Field(d), symbol)
          BY <1>1, <2>1, <4>0, <4>1
        <5>1. KeyOf(Field(d)') = KeyOf(Field(d)) /\ ~IsWord(Field(d)')
          BY <4>0, <5>a, KeyOfFieldStays
        <5>2. Name(d)' = Name(d) BY <5>1 DEF Name
        <5>3. d \in Complete' \/ Broken' BY <2>1, <4>0, <5>1 DEF Complete, Broken
        <5> QED BY <5>2, <5>3
      <4>2. CASE ~IsLast(d)
        <5>1. Field(d)' = Field(d) BY <2>1, <4>0, <4>2
        <5> QED BY <2>1, <4>0, <5>1 DEF Complete, Name
      <4> QED BY <4>1, <4>2
    <3> QED BY <3>1, <3>2 DEF Broken
  <2> QED BY <2>2, <2>3 DEF Broken
<1> QED BY <1>2, <1>3

-----------------------------------------------------------------------------
(* The invariant is kept *)

\* The field that is read, and what a symbol makes of it and of the others.
LEMMA LastField ==
    ASSUME NEW A, message \in Seq(A), NEW symbol \in A, message' = Append(message, symbol),
           Separator \in A, \E b \in Begins : IsLast(b)
    PROVE  /\ message' \in Seq(A)
           /\ \E last \in Begins :
                /\ IsLast(last) /\ Field(last) \in Seq(A)
                /\ \A b \in Begins : b # last => ~IsLast(b)
                /\ symbol # Separator =>
                        /\ Begins' = Begins /\ IsLast(last)'
                        /\ Field(last)' = Append(Field(last), symbol)
                        /\ \A b \in Begins : b # last => ~IsLast(b)' /\ Field(b)' = Field(b)
                /\ symbol = Separator =>
                        \E next : /\ Begins' = Begins \cup {next} /\ next \notin Begins
                                  /\ IsLast(next)' /\ Field(next)' = <<>>
                                  /\ \A b \in Begins : ~IsLast(b)' /\ Field(b)' = Field(b)
<1>1. PICK last \in Begins : IsLast(last) OBVIOUS
<1>2. \A b \in Begins : b # last => ~IsLast(b) BY <1>1, FieldsTyped
<1>3. Field(last) \in Seq(A) BY FieldsTyped
<1>4. CASE symbol # Separator
  <2>1. /\ message' \in Seq(A) /\ Begins' = Begins
        /\ \A b \in Begins : IsLast(b)' <=> IsLast(b)
        /\ \A b \in Begins : IsLast(b) => Field(b)' = Append(Field(b), symbol)
        /\ \A b \in Begins : ~IsLast(b) => Field(b)' = Field(b)
    BY <1>4, LastFieldGrows
  <2> QED BY <1>1, <1>2, <1>3, <1>4, <2>1
<1>5. CASE symbol = Separator
  <2>1. /\ message' \in Seq(A)
        /\ \E next : /\ Begins' = Begins \cup {next} /\ next \notin Begins
                     /\ IsLast(next)' /\ Field(next)' = <<>>
        /\ \A b \in Begins : ~IsLast(b)' /\ Field(b)' = Field(b)
    BY <1>5, NextFieldBegins
  <2> QED BY <1>1, <1>2, <1>3, <1>5, <2>1
<1> QED BY <1>4, <1>5

LEMMA PostKept ==
    ASSUME PostHasFields, post' = post, Entered' = Entered,
           \A b \in Entered : Field(b)' = Field(b)
    PROVE  PostHasFields'
<1>1. \A b \in Entered : Name(b)' = Name(b) BY DEF Name
<1> QED BY <1>1 DEF PostHasFields

LEMMA PostAdded ==
    ASSUME PostHasFields, NEW last, Entered' = Entered \cup {last},
           \A b \in Entered : Field(b)' = Field(b),
           IsField(Field(last)'),
           NEW name, name = Name(last)', name \notin DOMAIN post,
           post' = Added(name, Word(ValueOf(Field(last)')))
    PROVE  PostHasFields'
<1>1. \A b \in Entered : Name(b)' = Name(b) BY DEF Name
<1>2. /\ \A b \in Entered : IsField(Field(b)')
      /\ \A b, c \in Entered : Name(b)' = Name(c)' => b = c
      /\ DOMAIN post = {Name(b)' : b \in Entered}
      /\ \A b \in Entered : post[Name(b)'] = Word(ValueOf(Field(b)'))
  <2>1. {Name(b)' : b \in Entered} = {Name(b) : b \in Entered} BY <1>1
  <2> QED BY <1>1, <2>1 DEF PostHasFields
<1>3. DOMAIN post' = DOMAIN post \cup {name} BY DEF Added
<1>4. post'[name] = Word(ValueOf(Field(last)')) BY DEF Added
<1>5. \A k \in DOMAIN post : post'[k] = post[k] BY DEF Added
<1>6. \A b \in Entered : Name(b)' \in DOMAIN post /\ Name(b)' # name BY <1>2
<1>7. (\A b \in Entered : IsField(Field(b)))' BY <1>2
<1>8. (\A b, c \in Entered : Name(b) = Name(c) => b = c)' BY <1>2, <1>6
<1>9. (DOMAIN post = {Name(b) : b \in Entered})' BY <1>2, <1>3
<1>10. (\A b \in Entered : post[Name(b)] = Word(ValueOf(Field(b))))'
  BY <1>2, <1>4, <1>5, <1>6
<1> QED BY <1>7, <1>8, <1>9, <1>10 DEF PostHasFields

LEMMA PostGrown ==
    ASSUME PostHasFields, NEW last \in Entered, Entered' = Entered,
           \A b \in Entered : b # last => Field(b)' = Field(b),
           IsField(Field(last)'), Name(last)' = Name(last), NEW x,
           Word(ValueOf(Field(last)')) = Append(Word(ValueOf(Field(last))), x),
           post' = [post EXCEPT ![Name(last)] = Append(@, x)]
    PROVE  PostHasFields'
<1>1. \A b \in Entered : Name(b)' = Name(b) BY DEF Name
<1>2. DOMAIN post' = DOMAIN post OBVIOUS
<1>3. \A b \in Entered : Name(b) \in DOMAIN post BY DEF PostHasFields
<1>4. \A b \in Entered : b # last => Name(b) # Name(last) BY DEF PostHasFields
<1>5. post'[Name(last)] = Append(post[Name(last)], x) BY <1>3
<1>6. \A k \in DOMAIN post : k # Name(last) => post'[k] = post[k] OBVIOUS
<1>7. (\A b \in Entered : IsField(Field(b)))' BY DEF PostHasFields
<1>8. (\A b, c \in Entered : Name(b) = Name(c) => b = c)' BY <1>1 DEF PostHasFields
<1>9. (DOMAIN post = {Name(b) : b \in Entered})'
  <2>1. {Name(b)' : b \in Entered} = {Name(b) : b \in Entered} BY <1>1
  <2> QED BY <1>2, <2>1 DEF PostHasFields
<1>10. (\A b \in Entered : post[Name(b)] = Word(ValueOf(Field(b))))'
  <2>1. ASSUME NEW b \in Entered PROVE post'[Name(b)'] = Word(ValueOf(Field(b)'))
    <3>1. CASE b = last BY <1>1, <1>5, <3>1 DEF PostHasFields
    <3>2. CASE b # last
      <4>1. post'[Name(b)'] = post[Name(b)] BY <1>1, <1>3, <1>4, <1>6, <3>2
      <4>2. Field(b)' = Field(b) BY <3>2
      <4>3. post[Name(b)] = Word(ValueOf(Field(b))) BY DEF PostHasFields
      <4> QED BY <4>1, <4>2, <4>3
    <3> QED BY <3>1, <3>2
  <2> QED BY <2>1
<1> QED BY <1>7, <1>8, <1>9, <1>10 DEF PostHasFields

\* A field that cannot become one, as the last or ended.
LEMMA BreaksHere ==
    ASSUME NEW b \in Begins', ~IsField(Field(b)'), ~IsWord(Field(b)') \/ ~IsLast(b)'
    PROVE  Broken'
BY DEF Broken, Complete

\* What is left to show of a step to a state that is no error.
LEMMA Goes ==
    ASSUME NEW A, message' \in Seq(A),
           state' \in {"nextkey", "inkey", "nextval", "inval"},
           NEW last \in Begins', IsLast(last)', Reading(Field(last))', PostHasFields'
    PROVE  ReadInv'
<1>1. ReadTypeOK' BY SeqOfWider DEF ReadTypeOK
<1>2. (\A b, c \in Begins : IsLast(b) /\ IsLast(c) => b = c)'
  BY MessageIsNext, BeginsAre
<1>3. (\A b \in Begins : IsLast(b) => Reading(Field(b)))' BY <1>2
<1>4. state' # "parse_error" OBVIOUS
<1> QED BY <1>1, <1>3, <1>4 DEF ReadInv

LEMMA Fails ==
    ASSUME NEW A, message' \in Seq(A), state' = "parse_error",
           NEW last \in Begins', IsLast(last)', Broken'
    PROVE  ReadInv'
BY SeqOfWider DEF ReadInv, ReadTypeOK

LEMMA NextKeyKeeps ==
    ASSUME ReadInv, NEW A, message \in Seq(A), Separator \in A, NEW symbol \in A,
           message' = Append(message, symbol), NextKey(symbol)
    PROVE  ReadInv'
<1>1. /\ state = "nextkey" /\ PostHasFields
      /\ \A b \in Begins : IsLast(b) => Reading(Field(b))
      /\ message \in Seq(A) /\ \E b \in Begins : IsLast(b)
  BY DEF ReadInv, ReadTypeOK, NextKey
<1>2. PICK last \in Begins :
        /\ IsLast(last) /\ Field(last) \in Seq(A)
        /\ \A b \in Begins : b # last => ~IsLast(b)
        /\ symbol # Separator =>
                /\ Begins' = Begins /\ IsLast(last)'
                /\ Field(last)' = Append(Field(last), symbol)
                /\ \A b \in Begins : b # last => ~IsLast(b)' /\ Field(b)' = Field(b)
        /\ symbol = Separator =>
                \E next : /\ Begins' = Begins \cup {next} /\ next \notin Begins
                          /\ IsLast(next)' /\ Field(next)' = <<>>
                          /\ \A b \in Begins : ~IsLast(b)' /\ Field(b)' = Field(b)
  BY <1>1, LastField
<1>3. message' \in Seq(A) BY <1>1, LastField
<1> DEFINE f == Field(last)
           t == Append(f, symbol)
<1>4. f \in Seq(A) /\ Word(f) = <<>> /\ Sign(f) > Len(f) BY <1>1, <1>2 DEF Reading
<1>5. /\ Legal(symbol) => IsWord(t) /\ Word(t) = <<symbol>> /\ Sign(t) > Len(t)
      /\ symbol = Space => Word(t) = <<>> /\ Sign(t) > Len(t)
      /\ ~Legal(symbol) /\ symbol # Space => ~IsField(t) /\ ~IsWord(t)
  BY <1>4, BlankGrows
<1>6. Entered = Begins \ {last} BY <1>1, <1>2 DEF Entered
<1>7. ~IsField(f) BY <1>4, NoSign
<1> HIDE DEF f, t
<1>8. CASE Legal(symbol) \/ symbol = Space
  <2>1. symbol # Separator BY <1>8, Signs
  <2>2. /\ Begins' = Begins /\ IsLast(last)' /\ Field(last)' = t
        /\ \A b \in Begins : b # last => ~IsLast(b)' /\ Field(b)' = Field(b)
    BY <1>2, <2>1 DEF f, t
  <2>3. state' \in {"nextkey", "inkey"} /\ post' = post BY <1>8 DEF NextKey, Goto
  <2>4. Entered' = Begins \ {last} BY <2>2, <2>3 DEF Entered
  <2>5. PostHasFields' BY <1>1, <1>6, <2>2, <2>3, <2>4, PostKept
  <2>6. CASE Legal(symbol)
    <3>1. state' = "inkey" /\ key' = <<symbol>> BY <2>6 DEF NextKey, Goto
    <3>2. Reading(Field(last))' BY <1>5, <2>2, <2>6, <3>1 DEF Reading
    <3> QED BY <1>3, <2>2, <2>3, <2>5, <3>2, Goes
  <2>7. CASE ~Legal(symbol)
    <3>1. state' = "nextkey" BY <1>8, <2>7 DEF NextKey, Goto
    <3>2. Reading(Field(last))' BY <1>5, <1>8, <2>2, <2>7, <3>1 DEF Reading
    <3> QED BY <1>3, <2>2, <2>3, <2>5, <3>2, Goes
  <2> QED BY <2>6, <2>7
<1>9. CASE ~Legal(symbol) /\ symbol # Space
  <2>1. state' = "parse_error" BY <1>9 DEF NextKey, Goto
  <2>2. CASE symbol # Separator
    <3>1. last \in Begins' /\ IsLast(last)' /\ ~IsField(Field(last)') /\ ~IsWord(Field(last)')
      BY <1>2, <1>5, <1>9, <2>2 DEF f, t
    <3> QED BY <1>3, <2>1, <3>1, BreaksHere, Fails
  <2>3. CASE symbol = Separator
    <3>1. PICK next \in Begins' : IsLast(next)' BY <1>2, <2>3
    <3>2. last \in Begins' /\ ~IsLast(last)' /\ Field(last)' = f BY <1>2, <2>3 DEF f
    <3>3. Broken' BY <1>7, <3>2, BreaksHere
    <3> QED BY <1>3, <2>1, <3>1, <3>3, Fails
  <2> QED BY <2>2, <2>3
<1> QED BY <1>8, <1>9

LEMMA InKeyKeeps ==
    ASSUME ReadInv, NEW A, message \in Seq(A), Separator \in A, NEW symbol \in A,
           message' = Append(message, symbol), InKey(symbol)
    PROVE  ReadInv'
<1>1. /\ state = "inkey" /\ PostHasFields
      /\ \A b \in Begins : IsLast(b) => Reading(Field(b))
      /\ message \in Seq(A) /\ \E b \in Begins : IsLast(b)
  BY DEF ReadInv, ReadTypeOK, InKey
<1>2. PICK last \in Begins :
        /\ IsLast(last) /\ Field(last) \in Seq(A)
        /\ \A b \in Begins : b # last => ~IsLast(b)
        /\ symbol # Separator =>
                /\ Begins' = Begins /\ IsLast(last)'
                /\ Field(last)' = Append(Field(last), symbol)
                /\ \A b \in Begins : b # last => ~IsLast(b)' /\ Field(b)' = Field(b)
        /\ symbol = Separator =>
                \E next : /\ Begins' = Begins \cup {next} /\ next \notin Begins
                          /\ IsLast(next)' /\ Field(next)' = <<>>
                          /\ \A b \in Begins : ~IsLast(b)' /\ Field(b)' = Field(b)
  BY <1>1, LastField
<1>3. message' \in Seq(A) BY <1>1, LastField
<1> DEFINE f == Field(last)
           t == Append(f, symbol)
<1>4. f \in Seq(A) /\ IsWord(f) /\ Word(f) = key /\ key # <<>> /\ Sign(f) > Len(f)
  BY <1>1, <1>2 DEF Reading
<1>5. /\ symbol = Equals => IsField(t) /\ Word(KeyOf(t)) = key /\ Word(ValueOf(t)) = <<>>
      /\ Legal(symbol) => IsWord(t) /\ Word(t) = Append(key, symbol) /\ Sign(t) > Len(t)
      /\ ~Legal(symbol) /\ symbol # Equals => ~IsField(t) /\ ~IsWord(t)
  BY <1>4, PartOfKeyGrows
<1>6. Entered = Begins \ {last} BY <1>1, <1>2 DEF Entered
<1>7. ~IsField(f) BY <1>4, NoSign
<1>a. Append(key, symbol) # <<>>
  <2>1. key \in Seq(A) BY <1>4, WordIs
  <2>2. Len(Append(key, symbol)) = Len(key) + 1 BY <2>1, AppendProperties
  <2>3. Len(Append(key, symbol)) # 0 BY <2>1, <2>2
  <2> QED BY <2>3, EmptySeq
<1> HIDE DEF f, t
<1>8. CASE Legal(symbol) \/ symbol = Equals
  <2>1. symbol # Separator BY <1>8, Signs
  <2>2. /\ Begins' = Begins /\ IsLast(last)' /\ Field(last)' = t
        /\ \A b \in Begins : b # last => ~IsLast(b)' /\ Field(b)' = Field(b)
    BY <1>2, <2>1 DEF f, t
  <2>3. state' \in {"inkey", "nextval"} /\ post' = post BY <1>8 DEF InKey, Goto
  <2>4. Entered' = Begins \ {last} BY <2>2, <2>3 DEF Entered
  <2>5. PostHasFields' BY <1>1, <1>6, <2>2, <2>3, <2>4, PostKept
  <2>6. CASE symbol = Equals
    <3>1. state' = "nextval" /\ key' = key BY <2>6 DEF InKey, Goto
    <3>2. Reading(Field(last))' BY <1>5, <2>2, <2>6, <3>1 DEF Reading
    <3> QED BY <1>3, <2>2, <2>3, <2>5, <3>2, Goes
  <2>7. CASE symbol # Equals
    <3>1. state' = "inkey" /\ key' = Append(key, symbol) BY <1>8, <2>7 DEF InKey, Goto
    <3>2. Reading(Field(last))' BY <1>5, <1>8, <1>a, <2>2, <2>7, <3>1 DEF Reading
    <3> QED BY <1>3, <2>2, <2>3, <2>5, <3>2, Goes
  <2> QED BY <2>6, <2>7
<1>9. CASE ~Legal(symbol) /\ symbol # Equals
  <2>1. state' = "parse_error" BY <1>9 DEF InKey, Goto
  <2>2. CASE symbol # Separator
    <3>1. last \in Begins' /\ IsLast(last)' /\ ~IsField(Field(last)') /\ ~IsWord(Field(last)')
      BY <1>2, <1>5, <1>9, <2>2 DEF f, t
    <3> QED BY <1>3, <2>1, <3>1, BreaksHere, Fails
  <2>3. CASE symbol = Separator
    <3>1. PICK next \in Begins' : IsLast(next)' BY <1>2, <2>3
    <3>2. last \in Begins' /\ ~IsLast(last)' /\ Field(last)' = f BY <1>2, <2>3 DEF f
    <3>3. Broken' BY <1>7, <3>2, BreaksHere
    <3> QED BY <1>3, <2>1, <3>1, <3>3, Fails
  <2> QED BY <2>2, <2>3
<1> QED BY <1>8, <1>9

LEMMA NextValKeeps ==
    ASSUME ReadInv, NEW A, message \in Seq(A), Separator \in A, NEW symbol \in A,
           message' = Append(message, symbol), NextVal(symbol)
    PROVE  ReadInv'
<1>1. /\ state = "nextval" /\ PostHasFields
      /\ \A b \in Begins : IsLast(b) => Reading(Field(b))
      /\ message \in Seq(A) /\ \E b \in Begins : IsLast(b)
  BY DEF ReadInv, ReadTypeOK, NextVal
<1>2. PICK last \in Begins :
        /\ IsLast(last) /\ Field(last) \in Seq(A)
        /\ \A b \in Begins : b # last => ~IsLast(b)
        /\ symbol # Separator =>
                /\ Begins' = Begins /\ IsLast(last)'
                /\ Field(last)' = Append(Field(last), symbol)
                /\ \A b \in Begins : b # last => ~IsLast(b)' /\ Field(b)' = Field(b)
        /\ symbol = Separator =>
                \E next : /\ Begins' = Begins \cup {next} /\ next \notin Begins
                          /\ IsLast(next)' /\ Field(next)' = <<>>
                          /\ \A b \in Begins : ~IsLast(b)' /\ Field(b)' = Field(b)
  BY <1>1, LastField
<1>3. message' \in Seq(A) BY <1>1, LastField
<1> DEFINE f == Field(last)
           t == Append(f, symbol)
<1>4. /\ f \in Seq(A) /\ IsField(f) /\ Word(KeyOf(f)) = key
      /\ Word(ValueOf(f)) = <<>>
  BY <1>1, <1>2 DEF Reading
<1>5. /\ KeyOf(t) = KeyOf(f)
      /\ Legal(symbol) => IsField(t) /\ Word(ValueOf(t)) = <<symbol>>
      /\ symbol = Space => IsField(t) /\ Word(ValueOf(t)) = <<>>
      /\ ~Legal(symbol) /\ symbol # Space => ~IsField(t) /\ ~IsWord(t)
  <2>1. Append(<<>>, symbol) = <<symbol>> OBVIOUS
  <2>2. Legal(symbol) => Word(ValueOf(t)) = Append(Word(ValueOf(f)), symbol)
    BY <1>4, FieldWithKeyGrows
  <2>3. Legal(symbol) => Word(ValueOf(t)) = <<symbol>> BY <1>4, <2>1, <2>2, Zenon
  <2> QED BY <1>4, <2>3, FieldWithKeyGrows
<1>6. Entered = Begins \ {last} BY <1>1, <1>2 DEF Entered
<1>7. Name(last) = Unescape(key) BY <1>4 DEF Name
<1>a. <<symbol>> # <<>> OBVIOUS
<1>8. CASE Legal(symbol)
  <2>1. symbol # Separator BY <1>8, Signs
  <2>2. /\ Begins' = Begins /\ IsLast(last)' /\ Field(last)' = t
        /\ \A b \in Begins : b # last => ~IsLast(b)' /\ Field(b)' = Field(b)
    BY <1>2, <2>1
  <2>3. key' = key /\ AddEntry(<<symbol>>) BY <1>8, <2>1, Signs DEF NextVal
  <2>4. Name(last)' = Unescape(key) BY <1>4, <1>5, <2>2 DEF Name
  <2> HIDE DEF f, t
  <2>5. CASE Unescape(key) \in DOMAIN post
    <3>1. state' = "parse_error" BY <2>3, <2>5 DEF AddEntry, Goto
    <3>2. PICK b \in Entered : Name(b) = Unescape(key) BY <1>1, <2>5 DEF PostHasFields
    <3>3. b # last /\ b \in Begins' /\ last \in Begins' /\ Field(b)' = Field(b)
      BY <1>6, <2>2, <3>2
    <3>4. Name(b)' = Name(last)' BY <2>4, <3>2, <3>3 DEF Name
    <3>5. IsField(Field(b)) BY <1>1, <3>2 DEF PostHasFields
    <3>6. b \in Complete' /\ last \in Complete' BY <1>5, <1>8, <2>2, <3>3, <3>5 DEF Complete
    <3>7. Broken' BY <3>3, <3>4, <3>6 DEF Broken
    <3> QED BY <1>3, <2>2, <3>1, <3>7, Fails
  <2>6. CASE Unescape(key) \notin DOMAIN post
    <3>1. state' = "inval" /\ post' = Added(Unescape(key), <<symbol>>)
      BY <1>a, <2>3, <2>6 DEF AddEntry, Goto
    <3>2. Entered' = Entered \cup {last} BY <1>6, <2>2, <3>1 DEF Entered
    <3>3. \A b \in Entered : Field(b)' = Field(b) BY <1>6, <2>2
    <3>4. PostHasFields'
      BY <1>1, <1>5, <1>8, <2>2, <2>4, <2>6, <3>1, <3>2, <3>3, PostAdded
    <3>5. Reading(Field(last))' BY <1>4, <1>5, <1>8, <1>a, <2>2, <2>3, <3>1 DEF Reading
    <3> QED BY <1>3, <2>2, <3>1, <3>4, <3>5, Goes
  <2> QED BY <2>5, <2>6
<1>9. CASE symbol = Separator
  <2>1. PICK next : /\ Begins' = Begins \cup {next} /\ next \notin Begins
                    /\ IsLast(next)' /\ Field(next)' = <<>>
                    /\ \A b \in Begins : ~IsLast(b)' /\ Field(b)' = Field(b)
    BY <1>2, <1>9
  <2>2. last \in Begins' /\ next \in Begins' /\ Field(last)' = f BY <2>1
  <2>3. key' = key /\ AddEntry(<<>>) BY <1>9, Signs DEF NextVal
  <2>4. Name(last)' = Unescape(key) BY <1>4, <2>2 DEF Name
  <2> HIDE DEF f, t
  <2>5. CASE Unescape(key) \in DOMAIN post
    <3>1. state' = "parse_error" BY <2>3, <2>5 DEF AddEntry, Goto
    <3>2. PICK b \in Entered : Name(b) = Unescape(key) BY <1>1, <2>5 DEF PostHasFields
    <3>3. b # last /\ b \in Begins' /\ Field(b)' = Field(b) BY <1>6, <2>1, <3>2
    <3>4. Name(b)' = Name(last)' BY <2>4, <3>2, <3>3 DEF Name
    <3>5. IsField(Field(b)) BY <1>1, <3>2 DEF PostHasFields
    <3>6. b \in Complete' /\ last \in Complete' BY <1>4, <2>2, <3>3, <3>5 DEF Complete
    <3>7. Broken' BY <3>3, <3>4, <3>6 DEF Broken
    <3> QED BY <1>3, <2>1, <2>2, <3>1, <3>7, Fails
  <2>6. CASE Unescape(key) \notin DOMAIN post
    <3>1. state' = "nextkey" /\ post' = Added(Unescape(key), <<>>)
      BY <2>3, <2>6 DEF AddEntry, Goto
    <3>2. Entered' = Entered \cup {last} BY <1>2, <1>6, <2>1, <3>1 DEF Entered
    <3>3. \A b \in Entered : Field(b)' = Field(b) BY <1>6, <2>1
    <3>4. PostHasFields'
      BY <1>1, <1>4, <2>2, <2>4, <2>6, <3>1, <3>2, <3>3, PostAdded
    <3>5. Reading(Field(next))' BY <2>1, <3>1, EmptyField DEF Reading
    <3> QED BY <1>3, <2>1, <2>2, <3>1, <3>4, <3>5, Goes
  <2> QED BY <2>5, <2>6
<1>10. CASE ~Legal(symbol) /\ symbol # Separator
  <2>1. /\ state' = IF symbol = Space THEN "nextval" ELSE "parse_error"
        /\ post' = post /\ key' = key
    BY <1>10 DEF NextVal, Goto
  <2>2. /\ Begins' = Begins /\ IsLast(last)' /\ Field(last)' = t
        /\ \A b \in Begins : b # last => ~IsLast(b)' /\ Field(b)' = Field(b)
    BY <1>2, <1>10
  <2> HIDE DEF f, t
  <2>3. CASE symbol = Space
    <3>1. state' = "nextval" BY <2>1, <2>3
    <3>2. Entered' = Begins \ {last} BY <2>2, <3>1 DEF Entered
    <3>3. PostHasFields' BY <1>1, <1>6, <2>1, <2>2, <3>2, PostKept
    <3>4. Reading(Field(last))' BY <1>4, <1>5, <2>1, <2>2, <2>3, <3>1 DEF Reading
    <3> QED BY <1>3, <2>2, <3>1, <3>3, <3>4, Goes
  <2>4. CASE symbol # Space
    <3>1. state' = "parse_error" BY <2>1, <2>4
    <3>2. Broken' BY <1>5, <1>10, <2>2, <2>4, BreaksHere
    <3> QED BY <1>3, <2>2, <3>1, <3>2, Fails
  <2> QED BY <2>3, <2>4
<1> QED BY <1>8, <1>9, <1>10

LEMMA InValKeeps ==
    ASSUME ReadInv, NEW A, message \in Seq(A), Separator \in A, NEW symbol \in A,
           message' = Append(message, symbol), InVal(symbol)
    PROVE  ReadInv'
<1>1. /\ state = "inval" /\ PostHasFields
      /\ \A b \in Begins : IsLast(b) => Reading(Field(b))
      /\ message \in Seq(A) /\ \E b \in Begins : IsLast(b)
  BY DEF ReadInv, ReadTypeOK, InVal
<1>2. PICK last \in Begins :
        /\ IsLast(last) /\ Field(last) \in Seq(A)
        /\ \A b \in Begins : b # last => ~IsLast(b)
        /\ symbol # Separator =>
                /\ Begins' = Begins /\ IsLast(last)'
                /\ Field(last)' = Append(Field(last), symbol)
                /\ \A b \in Begins : b # last => ~IsLast(b)' /\ Field(b)' = Field(b)
        /\ symbol = Separator =>
                \E next : /\ Begins' = Begins \cup {next} /\ next \notin Begins
                          /\ IsLast(next)' /\ Field(next)' = <<>>
                          /\ \A b \in Begins : ~IsLast(b)' /\ Field(b)' = Field(b)
  BY <1>1, LastField
<1>3. message' \in Seq(A) BY <1>1, LastField
<1> DEFINE f == Field(last)
           t == Append(f, symbol)
<1>4. /\ f \in Seq(A) /\ IsField(f) /\ Word(KeyOf(f)) = key
      /\ Word(ValueOf(f)) # <<>>
  BY <1>1, <1>2 DEF Reading
<1>5. /\ KeyOf(t) = KeyOf(f)
      /\ Legal(symbol) => IsField(t) /\ Word(ValueOf(t)) = Append(Word(ValueOf(f)), symbol)
      /\ ~Legal(symbol) => ~IsField(t) /\ ~IsWord(t)
  BY <1>4, FieldWithKeyGrows
<1>6. Entered = Begins BY <1>1 DEF Entered
<1>7. Name(last) = Unescape(key) BY <1>4 DEF Name
<1>a. Append(Word(ValueOf(f)), symbol) # <<>>
  <2> DEFINE w == Word(ValueOf(f))
  <2>1. w \in Seq(A) BY <1>4, KeyAndValueTyped, WordIs
  <2> HIDE DEF w
  <2>2. Len(Append(w, symbol)) = Len(w) + 1 BY <2>1, AppendProperties
  <2>3. Len(Append(w, symbol)) # 0 BY <2>1, <2>2
  <2>4. Append(w, symbol) # <<>> BY <2>3, EmptySeq
  <2> QED BY <2>4 DEF w
<1>8. CASE Legal(symbol)
  <2>1. symbol # Separator BY <1>8, Signs
  <2>2. /\ Begins' = Begins /\ IsLast(last)' /\ Field(last)' = t
        /\ \A b \in Begins : b # last => ~IsLast(b)' /\ Field(b)' = Field(b)
    BY <1>2, <2>1
  <2>3. /\ state' = "inval" /\ key' = key
        /\ post' = [post EXCEPT ![Name(last)] = Append(@, symbol)]
    BY <1>7, <1>8 DEF InVal, Goto
  <2>4. Name(last)' = Name(last) BY <1>5, <2>2 DEF Name
  <2>5. Entered' = Entered BY <1>6, <2>2, <2>3 DEF Entered
  <2>6. /\ last \in Entered
        /\ \A b \in Entered : b # last => Field(b)' = Field(b)
        /\ IsField(Field(last)')
        /\ Word(ValueOf(Field(last)')) = Append(Word(ValueOf(Field(last))), symbol)
    BY <1>5, <1>6, <1>8, <2>2
  <2>7. PostHasFields' BY <1>1, <2>3, <2>4, <2>5, <2>6, PostGrown
  <2>8. Reading(Field(last))'
    <3> HIDE DEF f, t
    <3> QED BY <1>4, <1>5, <1>8, <1>a, <2>2, <2>3 DEF Reading
  <2> QED BY <1>3, <2>2, <2>3, <2>7, <2>8, Goes
<1>9. CASE symbol = Separator
  <2>1. PICK next : /\ Begins' = Begins \cup {next} /\ next \notin Begins
                    /\ IsLast(next)' /\ Field(next)' = <<>>
                    /\ \A b \in Begins : ~IsLast(b)' /\ Field(b)' = Field(b)
    BY <1>2, <1>9
  <2>2. state' = "nextkey" /\ key' = key /\ post' = post
    BY <1>9, Signs DEF InVal, Goto
  <2>3. Entered' = Entered BY <1>6, <2>1, <2>2 DEF Entered
  <2>4. \A b \in Entered : Field(b)' = Field(b) BY <1>6, <2>1
  <2>5. PostHasFields' BY <1>1, <2>2, <2>3, <2>4, PostKept
  <2>6. Reading(Field(next))' BY <2>1, <2>2, EmptyField DEF Reading
  <2>7. next \in Begins' BY <2>1
  <2> QED BY <1>3, <2>1, <2>2, <2>5, <2>6, <2>7, Goes
<1>10. CASE ~Legal(symbol) /\ symbol # Separator
  <2>1. state' = "parse_error" BY <1>10 DEF InVal, Goto
  <2>2. Begins' = Begins /\ IsLast(last)' /\ Field(last)' = t BY <1>2, <1>10
  <2> HIDE DEF f, t
  <2>3. Broken' BY <1>5, <1>10, <2>2, BreaksHere
  <2> QED BY <1>3, <2>1, <2>2, <2>3, Fails
<1> QED BY <1>8, <1>9, <1>10

LEMMA ReadKeeps ==
    ASSUME ReadInv, NEW symbol, Read(symbol)
    PROVE  ReadInv'
<1>1. message' = Append(message, symbol) BY DEF Read
<1>2. PICK A : message \in Seq(A) /\ symbol \in A /\ Separator \in A
  <2> DEFINE B == Range(message) \cup {symbol, Separator}
  <2>1. message \in Seq(Range(message)) BY DEF ReadInv, ReadTypeOK
  <2>2. message \in Seq(B) BY <2>1, SeqOfWider
  <2> QED BY <2>2
<1>3. CASE NextKey(symbol) BY <1>1, <1>2, <1>3, NextKeyKeeps
<1>4. CASE InKey(symbol) BY <1>1, <1>2, <1>4, InKeyKeeps
<1>5. CASE NextVal(symbol) BY <1>1, <1>2, <1>5, NextValKeeps
<1>6. CASE InVal(symbol) BY <1>1, <1>2, <1>6, InValKeeps
<1>7. CASE InError
  <2>1. state' = "parse_error" /\ Broken /\ \E b \in Begins : IsLast(b)
    BY <1>7 DEF InError, ReadInv
  <2>2. Broken' BY <1>1, <1>2, <2>1, BrokenStays
  <2>3. message' \in Seq(A) /\ \E b \in Begins' : IsLast(b)'
    <3>1. CASE symbol = Separator BY <1>1, <1>2, <2>1, <3>1, NextFieldBegins
    <3>2. CASE symbol # Separator BY <1>1, <1>2, <2>1, <3>2, LastFieldGrows
    <3> QED BY <3>1, <3>2
  <2> QED BY <2>1, <2>2, <2>3, Fails
<1> QED BY <1>3, <1>4, <1>5, <1>6, <1>7 DEF Read

LEMMA ReadStarts == ASSUME ReadNothing PROVE ReadInv
<1> DEFINE m == message
<1>1. m \in Seq({}) /\ Len(m) = 0 /\ DOMAIN m = {} BY DEF ReadNothing
<1>2. EndIn(m, Len(m) + 1) = Len(m) + 1 /\ FieldIn(m, Len(m) + 1) = <<>>
  BY <1>1, FieldBegins
<1>3. IsLast(1) /\ Field(1) = <<>> BY <1>1, <1>2, MessageIs
<1>4. Begins = {1} BY <1>1 DEF Begins
<1>5. state = "nextkey" /\ DOMAIN post = {} BY DEF ReadNothing
<1>6. PostHasFields
  <2>1. Entered = {} BY <1>3, <1>4, <1>5 DEF Entered
  <2> QED BY <1>5, <2>1 DEF PostHasFields
<1>7. Reading(Field(1)) BY <1>3, <1>5, EmptyField DEF Reading
<1> QED BY <1>1, <1>3, <1>4, <1>5, <1>6, <1>7 DEF ReadInv, ReadTypeOK

-----------------------------------------------------------------------------
(* The invariant says enough *)

TextsOf(all) == [k \in DOMAIN all |-> Unescape(all[k])]

LEMMA SameMeaning ==
    ASSUME NEW all, DOMAIN all = {Name(b) : b \in Complete},
           \A b \in Complete : all[Name(b)] = Word(ValueOf(Field(b))),
           \A b, c \in Complete : Name(b) = Name(c) => b = c,
           \A b \in Begins \ Complete : IsLast(b) /\ IsWord(Field(b))
    PROVE  Meaning = IF \E k \in DOMAIN TextsOf(all) : ~Utf8(k) \/ ~Utf8(TextsOf(all)[k])
                     THEN Null ELSE TextsOf(all)
<1> DEFINE texts == TextsOf(all)
<1>1. DOMAIN texts = {Name(b) : b \in Complete} BY DEF TextsOf
<1>2. \A b \in Complete : texts[Name(b)] = Text(b) BY DEF TextsOf, Text
<1>3. texts = [k \in {Name(b) : b \in Complete} |-> texts[k]] BY <1>1 DEF TextsOf
<1> HIDE DEF texts
<1> DEFINE chosen(k) == CHOOSE b \in Complete : Name(b) = k
<1>4. \A k \in {Name(b) : b \in Complete} : chosen(k) \in Complete /\ Name(chosen(k)) = k
  OBVIOUS
<1> HIDE DEF chosen
<1>5. \A k \in {Name(b) : b \in Complete} : texts[k] = Text(chosen(k)) BY <1>2, <1>4
<1>6. texts = [k \in {Name(b) : b \in Complete} |-> Text(chosen(k))] BY <1>3, <1>5
<1>7. (\E k \in DOMAIN texts : ~Utf8(k) \/ ~Utf8(texts[k]))
        <=> \E b \in Complete : ~Utf8(Name(b)) \/ ~Utf8(Text(b))
  BY <1>1, <1>2
<1>8. Meaning = IF \E b \in Complete : ~Utf8(Name(b)) \/ ~Utf8(Text(b))
                THEN Null ELSE [k \in {Name(b) : b \in Complete} |-> Text(chosen(k))]
  BY Zenon DEF Meaning, chosen
<1> QED BY <1>6, <1>7, <1>8 DEF texts

LEMMA InvGivesMeaning == ASSUME ReadInv PROVE ReadAsWritten
<1> DEFINE name == Unescape(key)
           all == IF state = "nextval" THEN Added(name, <<>>) ELSE post
<1>1. PostData = IF \/ state = "parse_error"
                    \/ state = "nextval" /\ name \in DOMAIN post
                    \/ \E k \in DOMAIN TextsOf(all) : ~Utf8(k) \/ ~Utf8(TextsOf(all)[k])
                 THEN Null ELSE TextsOf(all)
  BY DEF PostData, TextsOf
<1>2. Broken => Meaning = Null BY DEF Broken, Meaning
<1>3. CASE state = "parse_error"
  <2>1. PostData = Null BY <1>1, <1>3
  <2>2. Meaning = Null BY <1>2, <1>3 DEF ReadInv
  <2> QED BY <2>1, <2>2 DEF ReadAsWritten
<1>4. CASE state # "parse_error"
  <2>1. PICK last \in Begins : IsLast(last) BY DEF ReadInv
  <2>2. \A b \in Begins : b # last => ~IsLast(b) BY <2>1, FieldsTyped DEF ReadInv, ReadTypeOK
  <2>3. Field(last) \in Seq(Range(message)) BY FieldsTyped DEF ReadInv, ReadTypeOK
  <2>4. PostHasFields /\ Reading(Field(last)) BY <1>4, <2>1 DEF ReadInv
  <2>5. \A b \in Entered : b \in Complete BY <2>4 DEF Complete, Entered, PostHasFields
  <2> HIDE DEF all
  <2>6. CASE state \in {"nextkey", "inkey"}
    <3>1. Entered = Begins \ {last} BY <2>1, <2>2, <2>6 DEF Entered
    <3>2. Sign(Field(last)) > Len(Field(last)) /\ IsWord(Field(last))
      BY <2>4, <2>6 DEF Reading, IsWord
    <3>3. last \notin Complete BY <2>3, <3>2, NoSign DEF Complete
    <3>4. Complete = Entered BY <2>5, <3>1, <3>3 DEF Complete
    <3>5. \A b \in Begins \ Complete : IsLast(b) /\ IsWord(Field(b)) BY <2>1, <3>1, <3>2, <3>4
    <3>6. /\ DOMAIN post = {Name(b) : b \in Complete}
          /\ \A b \in Complete : post[Name(b)] = Word(ValueOf(Field(b)))
          /\ \A b, c \in Complete : Name(b) = Name(c) => b = c
      BY <2>4, <3>4 DEF PostHasFields
    <3>7. all = post BY <2>6 DEF all
    <3> QED BY <1>1, <2>6, <3>5, <3>6, <3>7, SameMeaning DEF ReadAsWritten
  <2>7. CASE state = "inval"
    <3>1. Entered = Begins BY <2>7 DEF Entered
    <3>4. Complete = Entered BY <2>5, <3>1 DEF Complete
    <3>5. \A b \in Begins \ Complete : IsLast(b) /\ IsWord(Field(b)) BY <3>1, <3>4
    <3>6. /\ DOMAIN post = {Name(b) : b \in Complete}
          /\ \A b \in Complete : post[Name(b)] = Word(ValueOf(Field(b)))
          /\ \A b, c \in Complete : Name(b) = Name(c) => b = c
      BY <2>4, <3>4 DEF PostHasFields
    <3>7. all = post BY <2>7 DEF all
    <3> QED BY <1>1, <2>7, <3>5, <3>6, <3>7, SameMeaning DEF ReadAsWritten
  <2>8. CASE state = "nextval"
    <3>1. Entered = Begins \ {last} BY <2>1, <2>2, <2>8 DEF Entered
    <3>2. /\ IsField(Field(last)) /\ Word(KeyOf(Field(last))) = key
          /\ Word(ValueOf(Field(last))) = <<>>
      BY <2>4, <2>8 DEF Reading
    <3>3. Complete = Entered \cup {last} BY <2>1, <2>5, <3>1, <3>2 DEF Complete
    <3>4. Name(last) = name BY <3>2 DEF Name
    <3>5. CASE name \in DOMAIN post
      <4>1. PICK b \in Entered : Name(b) = Name(last) BY <2>4, <3>4, <3>5 DEF PostHasFields
      <4>2. Broken BY <3>1, <3>3, <4>1 DEF Broken
      <4> QED BY <1>1, <1>2, <2>8, <3>5, <4>2 DEF ReadAsWritten
    <3>6. CASE name \notin DOMAIN post
      <4>0. all = Added(name, <<>>) BY <2>8 DEF all
      <4>1. \A b \in Entered : Name(b) \in DOMAIN post /\ Name(b) # name
        BY <2>4, <3>6 DEF PostHasFields
      <4>2. \A b, c \in Complete : Name(b) = Name(c) => b = c
        BY <2>4, <3>3, <3>4, <4>1 DEF PostHasFields
      <4>3. DOMAIN all = DOMAIN post \cup {name} BY <4>0 DEF Added
      <4>4. DOMAIN all = {Name(b) : b \in Complete}
        BY <2>4, <3>3, <3>4, <4>3 DEF PostHasFields
      <4>5. all[name] = <<>> /\ \A k \in DOMAIN post : k # name => all[k] = post[k]
        BY <4>0 DEF Added
      <4>6. \A b \in Complete : all[Name(b)] = Word(ValueOf(Field(b)))
        BY <2>4, <3>2, <3>3, <3>4, <4>1, <4>5 DEF PostHasFields
      <4>7. \A b \in Begins \ Complete : IsLast(b) /\ IsWord(Field(b)) BY <3>1, <3>3
      <4> QED BY <1>1, <2>8, <3>6, <4>2, <4>4, <4>6, <4>7, SameMeaning DEF ReadAsWritten
    <3> QED BY <3>5, <3>6
  <2> QED BY <1>4, <2>6, <2>7, <2>8 DEF ReadInv, ReadTypeOK
<1> QED BY <1>3, <1>4

\* Every message, of any length and of any symbols, is read as its fields say,
\* each apart from the others (parse_key_eq_val.c:153-330).
THEOREM MessagesReadAsWritten == Spec => []ReadAsWritten
<1>1. Init => ReadInv BY ReadStarts DEF Init
<1>2. ReadInv /\ [Next]_vars => ReadInv'
  <2> SUFFICES ASSUME ReadInv, [Next]_vars PROVE ReadInv' OBVIOUS
  <2>1. CASE \E symbol : Read(symbol) BY <2>1, ReadKeeps
  <2>2. CASE UNCHANGED reading
    <3>1. message' = message /\ state' = state /\ key' = key /\ post' = post
      BY <2>2 DEF reading
    <3>2. Begins' = Begins /\ \A b : (IsLast(b)' <=> IsLast(b)) /\ Field(b)' = Field(b)
      BY <3>1, MessageIs, MessageIsNext
    <3>3. Entered' = Entered /\ Broken' = Broken
      BY <3>1, <3>2 DEF Entered, Broken, Complete, Name
    <3>4. PostHasFields => PostHasFields' BY <3>1, <3>2, <3>3, PostKept
    <3>5. \A b : Reading(Field(b)) => Reading(Field(b))' BY <3>1, <3>2 DEF Reading
    <3> QED BY <3>1, <3>2, <3>3, <3>4, <3>5 DEF ReadInv, ReadTypeOK
  <2> QED BY <2>1, <2>2 DEF Next, AddPrompt, ReadForm, ReadOther, PerformPostAction, vars
<1>3. ReadInv => ReadAsWritten BY InvGivesMeaning
<1> QED BY <1>1, <1>2, <1>3, PTL DEF Spec

-----------------------------------------------------------------------------
(* What a browser sends of a text *)

Sent == {Encoded(char) : char \in Characters} \cup {Equals, Separator}

\* No character is lost between a browser's encoding and percent_unescape.
LEMMA EncodedIs ==
    ASSUME NEW char \in Characters
    PROVE  /\ Legal(Encoded(char)) /\ Converted(Encoded(char)) = char
           /\ Encoded(char) # Raw("%") /\ char # "nul"
<1>1. \A c \in Special : c \notin Letters BY PostConstants
<1>2. char # "nul" /\ "+" \notin Letters /\ "%" \notin Letters
  BY <1>1, CharactersAssumption, Zenon DEF Special
<1>3. \A c : /\ Raw(c).char = c /\ Raw(c).escaped = FALSE
             /\ Esc(c).char = c /\ Esc(c).escaped = TRUE
  BY DEF Raw, Esc
<1>4. CASE char \in Letters
  <2>1. Encoded(char) = Raw(char) BY <1>4, Zenon DEF Encoded
  <2>2. char # "+" /\ char # "%" BY <1>2, <1>4, Zenon
  <2>3. Raw(char) # Raw("+") /\ Raw(char) # Raw("%") BY <1>3, <2>2, Zenon
  <2>4. Converted(Raw(char)) = Raw(char).char BY <2>3, Zenon DEF Converted
  <2>5. Legal(Raw(char)) BY <1>3, <1>4, Zenon DEF Legal
  <2> QED BY <1>2, <1>3, <2>1, <2>3, <2>4, <2>5, Zenon
<1>5. CASE char \notin Letters /\ char = " "
  <2>1. Encoded(char) = Raw("+") BY <1>5, Zenon DEF Encoded
  <2>2. Converted(Raw("+")) = char BY <1>5, Zenon DEF Converted
  <2>3. Raw("+") # Raw("%") BY <1>3, Zenon
  <2>4. Legal(Raw("+")) BY <1>3, Zenon DEF Legal
  <2> QED BY <1>2, <2>1, <2>2, <2>3, <2>4, Zenon
<1>6. CASE char \notin Letters /\ char # " "
  <2>1. Encoded(char) = Esc(char) BY <1>6, Zenon DEF Encoded
  <2>2. Esc(char) # Raw("+") /\ Esc(char) # Raw("%") BY <1>3, Zenon
  <2>3. Converted(Esc(char)) = Esc(char).char BY <2>2, Zenon DEF Converted
  <2>4. Legal(Esc(char)) BY <1>3, Zenon DEF Legal
  <2> QED BY <1>2, <1>3, <2>1, <2>2, <2>3, <2>4, Zenon
<1> QED BY <1>4, <1>5, <1>6, Zenon

LEMMA EncodingIs ==
    ASSUME NEW t \in Seq(Characters)
    PROVE  /\ Encoding(t) \in Seq(Sent) /\ Len(Encoding(t)) = Len(t)
           /\ \A k \in 1 .. Len(t) : Encoding(t)[k] = Encoded(t[k]) /\ Legal(Encoding(t)[k])
           /\ \A k \in 1 .. Len(t) : Encoding(t)[k] \notin {Space, Equals, Separator}
<1>1. DOMAIN t = 1 .. Len(t) /\ Len(t) \in Nat BY LenProperties
<1>2. Encoding(t) = [k \in 1 .. Len(t) |-> Encoded(t[k])] BY <1>1 DEF Encoding
<1>3. \A k \in 1 .. Len(t) : Encoded(t[k]) \in Sent BY DEF Sent
<1>4. Encoding(t) \in [1 .. Len(t) -> Sent] BY <1>2, <1>3
<1>5. Encoding(t) \in Seq(Sent) BY <1>1, <1>4, SeqDef
<1>6. Len(Encoding(t)) = Len(t) BY <1>1, <1>2, <1>5, LenProperties
<1>7. \A k \in 1 .. Len(t) : Legal(Encoded(t[k])) BY EncodedIs
<1> QED BY <1>2, <1>5, <1>6, <1>7, Signs

LEMMA EncodingComesBack ==
    ASSUME NEW t \in Seq(Characters)
    PROVE  Unescape(Encoding(t)) = t
<1> DEFINE e == Encoding(t)
           stop == FirstOf(e, 1, {Raw("%")})
           converted == [k \in 1 .. stop - 1 |-> Converted(e[k])]
<1>1. /\ e \in Seq(Sent) /\ Len(e) = Len(t) /\ Len(t) \in Nat
      /\ \A k \in 1 .. Len(t) : e[k] = Encoded(t[k])
  BY EncodingIs
<1>2. \A k \in 1 .. Len(t) : Converted(e[k]) = t[k] /\ e[k] # Raw("%") /\ t[k] # "nul"
  BY <1>1, EncodedIs
<1> HIDE DEF e
<1>3. stop = Len(e) + 1
  <2>1. IsFirst(Len(e) + 1, e, 1, {Raw("%")}) BY <1>1, <1>2 DEF IsFirst
  <2> QED BY <1>1, <2>1, FirstUnique
<1>4. converted = t
  <2> HIDE DEF stop
  <2>a. stop - 1 = Len(t) BY <1>1, <1>3
  <2>1. converted = [k \in 1 .. Len(t) |-> t[k]] BY <1>2, <2>a
  <2>2. t = [k \in 1 .. Len(t) |-> t[k]] BY LenProperties
  <2> QED BY <2>1, <2>2
<1>5. stop >= Len(e) BY <1>1, <1>3
<1> HIDE DEF stop, converted
<1>6. t \o <<>> = t BY ConcatEmptySeq
<1>7. FirstOf(t, 1, {"nul"}) = Len(t) + 1
  <2>1. IsFirst(Len(t) + 1, t, 1, {"nul"}) BY <1>1, <1>2 DEF IsFirst
  <2> QED BY <1>1, <2>1, FirstUnique
<1>8. Unescape(e) = SubSeq(t, 1, FirstOf(t, 1, {"nul"}) - 1)
  <2>1. Unescape(e) =
            LET buffer == converted \o <<>> IN SubSeq(buffer, 1, FirstOf(buffer, 1, {"nul"}) - 1)
    BY <1>5 DEF Unescape, stop, converted
  <2> QED BY <1>4, <1>6, <2>1
<1>9. SubSeq(t, 1, Len(t)) = t BY SubSeqFull
<1>10. Len(t) + 1 - 1 = Len(t) BY <1>1
<1> QED BY <1>7, <1>8, <1>9, <1>10 DEF e

LEMMA SolidWord ==
    ASSUME NEW A, NEW s \in Seq(A), \A k \in 1 .. Len(s) : s[k] # Space
    PROVE  Word(s) = s
<1>1. CASE Len(s) = 0
  <2>1. Indent(s) \in 1 .. Len(s) + 1 BY IndentIs
  <2>2. Indent(s) = Len(s) + 1 BY <1>1, <2>1
  <2>3. Word(s) = <<>> BY <2>2, WordIs
  <2>4. s = <<>> BY <1>1, EmptySeq
  <2> QED BY <2>3, <2>4
<1>2. CASE Len(s) # 0
  <2>0. Len(s) \in Nat /\ Len(s) >= 1 BY <1>2, LenProperties
  <2>1. Indent(s) = 1
    <3>1. 1 \in 1 .. Len(s) + 1 /\ s[1] # Space /\ \A j \in 1 .. 1 - 1 : s[j] = Space BY <2>0
    <3> QED BY <3>1, IndentIsOnly
  <2>2. Word(s) = SubSeq(s, 1, Len(s)) BY <2>1, WordIs
  <2> QED BY <2>2, SubSeqFull
<1> QED BY <1>1, <1>2

LEMMA EncodingIsWord ==
    ASSUME NEW t \in Seq(Characters)
    PROVE  Word(Encoding(t)) = Encoding(t) /\ IsWord(Encoding(t))
<1> DEFINE e == Encoding(t)
<1>1. /\ e \in Seq(Sent) /\ Len(e) = Len(t)
      /\ \A k \in 1 .. Len(t) : Legal(e[k]) /\ e[k] # Space
  BY EncodingIs
<1>2. DOMAIN e = 1 .. Len(e) BY <1>1, LenProperties
<1> HIDE DEF e
<1>3. Word(e) = e BY <1>1, SolidWord
<1>4. IsWord(e) BY <1>1, <1>2, <1>3 DEF IsWord
<1> QED BY <1>3, <1>4 DEF e

\* A control, as it is sent.
Pair(control) == Encoding(control.name) \o <<Equals>> \o Encoding(control.text)

\* A sequence of two others with an element between them.
IsPair(w, A, s, x, t) ==
    /\ w \in Seq(A) /\ Len(w) = Len(s) + 1 + Len(t)
    /\ \A i \in 1 .. Len(s) : w[i] = s[i]
    /\ w[Len(s) + 1] = x
    /\ \A i \in 1 .. Len(t) : w[Len(s) + 1 + i] = t[i]
    /\ SubSeq(w, 1, Len(s)) = s
    /\ SubSeq(w, Len(s) + 2, Len(s) + 1 + Len(t)) = t

LEMMA TwoParts ==
    ASSUME NEW A, NEW s \in Seq(A), NEW x \in A, NEW t \in Seq(A)
    PROVE  IsPair(s \o <<x>> \o t, A, s, x, t)
<1> DEFINE u == <<x>>
           v == s \o u
           w == v \o t
<1>1. u \in Seq(A) /\ Len(u) = 1 /\ u[1] = x OBVIOUS
<1>0. Len(s) \in Nat /\ Len(t) \in Nat BY LenProperties
<1> HIDE DEF u
<1>2. /\ v \in Seq(A) /\ Len(v) = Len(s) + Len(u)
      /\ \A i \in 1 .. Len(s) + Len(u) : v[i] = IF i <= Len(s) THEN s[i] ELSE u[i - Len(s)]
  BY <1>1, ConcatProperties
<1>a. Len(v) = Len(s) + 1 BY <1>1, <1>2
<1>b. v \in Seq(A) BY <1>2
<1> HIDE DEF v
<1>c. /\ w \in Seq(A) /\ Len(w) = Len(v) + Len(t)
      /\ \A i \in 1 .. Len(v) + Len(t) : w[i] = IF i <= Len(v) THEN v[i] ELSE t[i - Len(v)]
  BY <1>b, ConcatProperties
<1> HIDE DEF w
<1>3. Len(w) = Len(s) + 1 + Len(t) BY <1>a, <1>c
<1>4. \A i \in 1 .. Len(s) : w[i] = s[i] BY <1>0, <1>1, <1>2, <1>a, <1>c
<1>5. w[Len(s) + 1] = x
  <2>1. Len(s) + 1 \in 1 .. Len(s) + Len(u) /\ Len(s) + 1 - Len(s) = 1 BY <1>0, <1>1
  <2>2. v[Len(s) + 1] = u[1] BY <1>0, <1>2, <2>1
  <2> QED BY <1>0, <1>1, <1>a, <1>c, <2>2
<1>6. ASSUME NEW i \in 1 .. Len(t) PROVE w[Len(s) + 1 + i] = t[i]
  <2>1. /\ Len(s) + 1 + i \in 1 .. Len(v) + Len(t) /\ ~ (Len(s) + 1 + i <= Len(v))
        /\ Len(s) + 1 + i - Len(v) = i
    BY <1>0, <1>a
  <2> QED BY <1>c, <2>1
<1>7. SubSeq(w, 1, Len(s)) = s
  <2> DEFINE p == SubSeq(w, 1, Len(s))
  <2>1. 1 \in 1 .. Len(w) + 1 /\ Len(s) \in 1 - 1 .. Len(w) BY <1>0, <1>3, <1>c
  <2>2. /\ p \in Seq(A) /\ Len(p) = Len(s) + 1 - 1
        /\ \A i \in 1 .. Len(s) + 1 - 1 : p[i] = w[1 + i - 1]
    BY <1>c, <2>1, PartIs
  <2> HIDE DEF p
  <2>3. Len(p) = Len(s) /\ \A i \in 1 .. Len(s) : p[i] = s[i] BY <1>0, <1>4, <2>2
  <2>4. p = s BY <2>2, <2>3, SeqEqual
  <2> QED BY <2>4 DEF p
<1>8. SubSeq(w, Len(s) + 2, Len(s) + 1 + Len(t)) = t
  <2> DEFINE b == Len(s) + 2
             n == Len(s) + 1 + Len(t)
             p == SubSeq(w, b, n)
  <2>1. b \in 1 .. Len(w) + 1 /\ n \in b - 1 .. Len(w) /\ n + 1 - b = Len(t) BY <1>0, <1>3, <1>c
  <2>a. \A i \in 1 .. Len(t) : b + i - 1 = Len(s) + 1 + i BY <1>0
  <2> HIDE DEF b, n
  <2>2. /\ p \in Seq(A) /\ Len(p) = n + 1 - b
        /\ \A i \in 1 .. n + 1 - b : p[i] = w[b + i - 1]
    BY <1>c, <2>1, PartIs
  <2> HIDE DEF p
  <2>3. Len(p) = Len(t) /\ \A i \in 1 .. Len(t) : p[i] = t[i] BY <1>6, <2>1, <2>2, <2>a
  <2>4. p = t BY <2>2, <2>3, SeqEqual
  <2> QED BY <2>4 DEF p, b, n
<1>9. IsPair(w, A, s, x, t) BY <1>3, <1>4, <1>5, <1>6, <1>7, <1>8, <1>c DEF IsPair
<1> QED BY <1>9 DEF w, v, u

LEMMA PairIs ==
    ASSUME NEW control, control.name \in Seq(Characters), control.text \in Seq(Characters),
           control.name # <<>>
    PROVE  /\ Pair(control) \in Seq(Sent)
           /\ \A k \in 1 .. Len(Pair(control)) : Pair(control)[k] # Separator
           /\ IsField(Pair(control))
           /\ Unescape(Word(KeyOf(Pair(control)))) = control.name
           /\ Unescape(Word(ValueOf(Pair(control)))) = control.text
<1> DEFINE s == Encoding(control.name)
           t == Encoding(control.text)
           f == Pair(control)
<1>0. f = s \o <<Equals>> \o t BY DEF Pair
<1>1. /\ s \in Seq(Sent) /\ Len(s) = Len(control.name)
      /\ \A k \in 1 .. Len(s) : s[k] # Equals /\ s[k] # Separator
  BY EncodingIs
<1>2. /\ t \in Seq(Sent) /\ Len(t) = Len(control.text)
      /\ \A k \in 1 .. Len(t) : t[k] # Equals /\ t[k] # Separator
  BY EncodingIs
<1>a. Word(s) = s /\ IsWord(s) /\ Word(t) = t /\ IsWord(t) BY EncodingIsWord
<1>b. Unescape(s) = control.name /\ Unescape(t) = control.text BY EncodingComesBack
<1>c. Equals \in Sent BY DEF Sent
<1>d. Len(control.name) # 0 BY EmptySeq
<1> HIDE DEF s, t, f
<1>e. Len(s) \in Nat /\ Len(t) \in Nat BY <1>1, <1>2, LenProperties
<1>3. /\ f \in Seq(Sent) /\ Len(f) = Len(s) + 1 + Len(t)
      /\ \A i \in 1 .. Len(s) : f[i] = s[i]
      /\ f[Len(s) + 1] = Equals
      /\ \A i \in 1 .. Len(t) : f[Len(s) + 1 + i] = t[i]
      /\ SubSeq(f, 1, Len(s)) = s
      /\ SubSeq(f, Len(s) + 2, Len(s) + 1 + Len(t)) = t
  <2>1. IsPair(f, Sent, s, Equals, t) BY <1>0, <1>1, <1>2, <1>c, TwoParts
  <2> HIDE DEF Equals
  <2> QED BY <2>1 DEF IsPair
<1>5. ASSUME NEW k \in 1 .. Len(f) PROVE f[k] # Separator
  <2>1. CASE k \in 1 .. Len(s) BY <1>1, <1>3, <2>1
  <2>2. CASE k = Len(s) + 1 BY <1>3, <2>2, Signs
  <2>3. CASE k > Len(s) + 1
    <3>1. PICK i \in 1 .. Len(t) : k = Len(s) + 1 + i
      <4>1. k - (Len(s) + 1) \in 1 .. Len(t) /\ k = Len(s) + 1 + (k - (Len(s) + 1))
        BY <1>3, <1>e, <2>3
      <4> QED BY <4>1
    <3> QED BY <1>2, <1>3, <3>1
  <2> QED BY <1>3, <1>e, <2>1, <2>2, <2>3, SMTT(30)
<1>6. Sign(f) = Len(s) + 1
  <2>1. PICK k \in 1 .. Len(f) + 1 : k = Len(s) + 1 BY <1>3, <1>e
  <2>2. \A j \in 1 .. k - 1 : f[j] # Equals BY <1>1, <1>3, <1>e, <2>1
  <2>3. f[k] = Equals BY <1>3, <2>1
  <2> QED BY <1>3, <2>1, <2>2, <2>3, SignIsOnly
<1>7. KeyOf(f) = s
  <2>1. Len(s) + 1 - 1 = Len(s) BY <1>e
  <2> QED BY <1>3, <1>6, <2>1 DEF KeyOf
<1>8. ValueOf(f) = t
  <2>1. Len(s) + 1 + 1 = Len(s) + 2 BY <1>e
  <2> QED BY <1>3, <1>6, <2>1 DEF ValueOf
<1>9. Sign(f) <= Len(f) BY <1>3, <1>6, <1>e
<1>10. s # <<>> BY <1>1, <1>d, EmptySeq
<1>11. IsField(f) BY <1>7, <1>8, <1>9, <1>10, <1>a DEF IsField
<1> QED BY <1>3, <1>5, <1>7, <1>8, <1>11, <1>a, <1>b DEF f

LEMMA InPair ==
    ASSUME NEW A, NEW m \in Seq(A), NEW x \in A, NEW f \in Seq(A), NEW t, IsPair(t, A, m, x, f),
           NEW j \in 1 .. Len(t)
    PROVE  \/ j \in 1 .. Len(m) /\ t[j] = m[j]
           \/ j = Len(m) + 1 /\ t[j] = x
           \/ j > Len(m) + 1 /\ \E i \in 1 .. Len(f) : t[j] = f[i]
<1>1. Len(m) \in Nat /\ Len(f) \in Nat BY LenProperties
<1>2. Len(t) = Len(m) + 1 + Len(f) BY DEF IsPair
<1>3. CASE j \in 1 .. Len(m) BY <1>3 DEF IsPair
<1>4. CASE j = Len(m) + 1 BY <1>4 DEF IsPair
<1>5. CASE j > Len(m) + 1
  <2>1. PICK i : i = j - (Len(m) + 1) OBVIOUS
  <2>2. i \in 1 .. Len(f) /\ j = Len(m) + 1 + i BY <1>1, <1>2, <1>5, <2>1
  <2>3. t[Len(m) + 1 + i] = f[i] BY <2>2 DEF IsPair
  <2> QED BY <1>5, <2>2, <2>3
<1> QED BY <1>1, <1>3, <1>4, <1>5

\* A separator and a text without one are a field more.
LEMMA FieldsOfTwo ==
    ASSUME NEW A, NEW m \in Seq(A), Separator \in A, NEW f \in Seq(A),
           \A i \in 1 .. Len(f) : f[i] # Separator,
           NEW t, IsPair(t, A, m, Separator, f)
    PROVE  /\ BeginsIn(t) = BeginsIn(m) \cup {Len(m) + 2}
           /\ \A b \in BeginsIn(m) : FieldIn(t, b) = FieldIn(m, b)
           /\ FieldIn(t, Len(m) + 2) = f
<1>1. Len(m) \in Nat /\ Len(f) \in Nat BY LenProperties
<1>2. /\ t \in Seq(A) /\ Len(t) = Len(m) + 1 + Len(f)
      /\ \A i \in 1 .. Len(m) : t[i] = m[i]
      /\ t[Len(m) + 1] = Separator
      /\ SubSeq(t, Len(m) + 2, Len(m) + 1 + Len(f)) = f
  BY DEF IsPair
<1>3. \A j \in 1 .. Len(t) : /\ t[j] = Separator => j \in 1 .. Len(m) + 1
                             /\ j > Len(m) + 1 => t[j] # Separator
  BY <1>1, InPair
<1>4. DOMAIN m = 1 .. Len(m) /\ DOMAIN t = 1 .. Len(t) BY <1>2, LenProperties
<1>5. BeginsIn(t) = BeginsIn(m) \cup {Len(m) + 2}
  <2>1. \A j \in 1 .. Len(t) :
            t[j] = Separator <=> (j \in 1 .. Len(m) /\ m[j] = Separator) \/ j = Len(m) + 1
    BY <1>1, <1>2, <1>3
  <2>2. {j \in DOMAIN t : t[j] = Separator} = {j \in DOMAIN m : m[j] = Separator} \cup {Len(m) + 1}
    BY <1>1, <1>2, <1>4, <2>1
  <2>3. Len(m) + 1 + 1 = Len(m) + 2 BY <1>1
  <2> QED BY <2>2, <2>3 DEF BeginsIn
<1>6. ASSUME NEW b \in BeginsIn(m) PROVE FieldIn(t, b) = FieldIn(m, b)
  <2> DEFINE k == EndIn(m, b)
  <2>1. b \in 1 .. Len(m) + 1 BY BeginsAre
  <2>2. /\ k \in b .. Len(m) + 1
        /\ k <= Len(m) => m[k] = Separator
        /\ \A j \in b .. k - 1 : m[j] # Separator
    BY <2>1, FieldIs
  <2> HIDE DEF k
  <2>3. \A j \in b .. k - 1 : j \in 1 .. Len(m) BY <2>1, <2>2
  <2>4. b \in 1 .. Len(t) + 1 /\ k \in b .. Len(t) + 1 BY <1>1, <1>2, <2>1, <2>2
  <2>5. t[k] = Separator BY <1>1, <1>2, <2>1, <2>2
  <2>6. \A j \in b .. k - 1 : t[j] # Separator BY <1>2, <2>2, <2>3
  <2>7. EndIn(t, b) = k BY <1>2, <2>4, <2>5, <2>6, EndIsOnly
  <2>8. SubSeq(t, b, k - 1) = SubSeq(m, b, k - 1)
    <3> DEFINE u == SubSeq(t, b, k - 1)
               v == SubSeq(m, b, k - 1)
    <3>1. PICK n : n = k - 1 OBVIOUS
    <3>2. n \in b - 1 .. Len(m) /\ n \in b - 1 .. Len(t) BY <1>1, <1>2, <2>1, <2>2, <3>1
    <3>3. /\ SubSeq(t, b, n) \in Seq(A) /\ Len(SubSeq(t, b, n)) = n + 1 - b
          /\ \A i \in 1 .. n + 1 - b : SubSeq(t, b, n)[i] = t[b + i - 1]
      BY <1>2, <2>4, <3>2, PartIs
    <3>4. /\ SubSeq(m, b, n) \in Seq(A) /\ Len(SubSeq(m, b, n)) = n + 1 - b
          /\ \A i \in 1 .. n + 1 - b : SubSeq(m, b, n)[i] = m[b + i - 1]
      BY <2>1, <3>2, PartIs
    <3>5. \A i \in 1 .. n + 1 - b : b + i - 1 \in 1 .. Len(m) BY <2>1, <3>2
    <3>6. \A i \in 1 .. n + 1 - b : t[b + i - 1] = m[b + i - 1] BY <1>2, <3>5
    <3>7. SubSeq(t, b, n) = SubSeq(m, b, n) BY <3>3, <3>4, <3>6, SeqEqual, SMTT(30)
    <3> QED BY <3>1, <3>7
  <2> QED BY <2>7, <2>8 DEF FieldIn, k
<1>7. FieldIn(t, Len(m) + 2) = f
  <2>1. PICK c : c = Len(m) + 2 OBVIOUS
  <2>2. PICK k : k = Len(t) + 1 OBVIOUS
  <2>3. c \in 1 .. Len(t) + 1 /\ k \in c .. Len(t) + 1 /\ ~ (k <= Len(t)) BY <1>1, <1>2, <2>1, <2>2
  <2>4. \A j \in c .. k - 1 : t[j] # Separator BY <1>1, <1>2, <1>3, <2>1, <2>2
  <2>5. EndIn(t, c) = k BY <1>2, <2>3, <2>4, EndIsOnly
  <2>6. k - 1 = Len(m) + 1 + Len(f) BY <1>1, <1>2, <2>2
  <2> QED BY <1>2, <2>1, <2>5, <2>6 DEF FieldIn
<1> QED BY <1>5, <1>6, <1>7

LEMMA OneField ==
    ASSUME NEW A, NEW f \in Seq(A), \A i \in 1 .. Len(f) : f[i] # Separator
    PROVE  BeginsIn(f) = {1} /\ FieldIn(f, 1) = f
<1>1. DOMAIN f = 1 .. Len(f) /\ Len(f) \in Nat BY LenProperties
<1>2. {j \in DOMAIN f : f[j] = Separator} = {} BY <1>1
<1>3. BeginsIn(f) = {1} BY <1>2 DEF BeginsIn
<1>4. PICK k : k = Len(f) + 1 OBVIOUS
<1>5. 1 \in 1 .. Len(f) + 1 /\ k \in 1 .. Len(f) + 1 /\ ~ (k <= Len(f)) BY <1>1, <1>4
<1>6. EndIn(f, 1) = k BY <1>1, <1>4, <1>5, EndIsOnly
<1>7. k - 1 = Len(f) BY <1>1, <1>4
<1>8. FieldIn(f, 1) = SubSeq(f, 1, Len(f)) BY <1>6, <1>7 DEF FieldIn
<1> QED BY <1>3, <1>8, SubSeqFull

-----------------------------------------------------------------------------
(* Sequences put together, and their elements *)

LEMMA Induction ==
    ASSUME NEW S, 0 \in S, \A n \in Nat : n \in S => n + 1 \in S
    PROVE  Nat \subseteq S
<1> SUFFICES ASSUME Nat \ S # {} PROVE FALSE OBVIOUS
<1>1. PICK x \in Nat \ S : \A y \in Nat \ S : x <= y BY Least
<1>2. x # 0 /\ x \in Nat OBVIOUS
<1>3. x - 1 \in Nat /\ x - 1 + 1 = x /\ x - 1 < x BY <1>2
<1>4. x - 1 \in S BY <1>1, <1>3
<1>5. x - 1 + 1 \in S BY <1>3, <1>4
<1> QED BY <1>3, <1>5

\* The function that FlattenSeq chooses.
Flat(f, s, n) == f = [i \in 1 .. n |-> IF i = 1 THEN s[i] ELSE f[i - 1] \o s[i]]

LEMMA FlatExists == ASSUME NEW s, NEW n \in Nat PROVE \E f : Flat(f, s, n)
<1> DEFINE S == {k \in Nat : \E f : Flat(f, s, k)}
<1>1. 0 \in S
  <2>1. Flat([i \in 1 .. 0 |-> 0], s, 0) BY DEF Flat
  <2> QED BY <2>1
<1>2. ASSUME NEW k \in Nat, k \in S PROVE k + 1 \in S
  <2>1. PICK f : Flat(f, s, k) BY <1>2
  <2> DEFINE g == [i \in 1 .. k + 1 |-> IF i = 1 THEN s[i] ELSE f[i - 1] \o s[i]]
  <2>2. ASSUME NEW i \in 1 .. k PROVE f[i] = g[i]
    <3>1. i \in 1 .. k + 1 OBVIOUS
    <3>2. f[i] = IF i = 1 THEN s[i] ELSE f[i - 1] \o s[i] BY <2>1 DEF Flat
    <3> QED BY <3>1, <3>2
  <2>3. \A i \in 1 .. k + 1 : i # 1 => i - 1 \in 1 .. k OBVIOUS
  <2>4. \A i \in 1 .. k + 1 : i # 1 => f[i - 1] = g[i - 1] BY <2>2, <2>3
  <2> DEFINE h == [i \in 1 .. k + 1 |-> IF i = 1 THEN s[i] ELSE g[i - 1] \o s[i]]
  <2>a. \A i \in 1 .. k + 1 : g[i] = IF i = 1 THEN s[i] ELSE f[i - 1] \o s[i] OBVIOUS
  <2>b. g = [i \in 1 .. k + 1 |-> g[i]] OBVIOUS
  <2> HIDE DEF g
  <2>c. \A i \in 1 .. k + 1 : g[i] = IF i = 1 THEN s[i] ELSE g[i - 1] \o s[i] BY <2>4, <2>a
  <2>5. g = h BY <2>b, <2>c
  <2>6. Flat(g, s, k + 1) BY <2>5 DEF Flat
  <2> QED BY <2>6
<1> HIDE DEF S
<1>3. Nat \subseteq S BY <1>1, <1>2, Induction
<1> QED BY <1>3 DEF S

LEMMA FlattenIs ==
    ASSUME NEW A, NEW s \in Seq(Seq(A))
    PROVE  \E f : /\ \A n \in 1 .. Len(s) : f[n] \in Seq(A)
                  /\ Len(s) > 0 => f[1] = s[1]
                  /\ \A n \in 1 .. Len(s) : n > 1 => f[n] = f[n - 1] \o s[n]
                  /\ FlattenSeq(s) = IF Len(s) = 0 THEN <<>> ELSE f[Len(s)]
<1> DEFINE N == Len(s)
           f == CHOOSE g : Flat(g, s, N)
<1>1. N \in Nat /\ \A n \in 1 .. N : s[n] \in Seq(A) BY LenProperties
<1>2. FlattenSeq(s) = IF N = 0 THEN s ELSE f[N] BY DEF FlattenSeq, Flat
<1> HIDE DEF N
<1>3. Flat(f, s, N) BY <1>1, FlatExists
<1> HIDE DEF f
<1>4. \A n \in 1 .. N : f[n] = IF n = 1 THEN s[n] ELSE f[n - 1] \o s[n]
  <2> SUFFICES ASSUME NEW n \in 1 .. N PROVE f[n] = IF n = 1 THEN s[n] ELSE f[n - 1] \o s[n]
    OBVIOUS
  <2> QED BY <1>3 DEF Flat
<1>5. N > 0 => f[1] = s[1] BY <1>1, <1>4
<1>6. \A n \in 1 .. N : n > 1 => f[n] = f[n - 1] \o s[n]
  <2> SUFFICES ASSUME NEW n \in 1 .. N, n > 1 PROVE f[n] = f[n - 1] \o s[n] OBVIOUS
  <2>1. n # 1 OBVIOUS
  <2>2. f[n] = IF n = 1 THEN s[n] ELSE f[n - 1] \o s[n] BY <1>4
  <2> QED BY <2>1, <2>2, Zenon
<1> DEFINE S == {n \in Nat : n \in 1 .. N => f[n] \in Seq(A)}
<1>7. 0 \in S OBVIOUS
<1>8. ASSUME NEW n \in Nat, n \in S PROVE n + 1 \in S
  <2> SUFFICES ASSUME n + 1 \in 1 .. N PROVE f[n + 1] \in Seq(A) OBVIOUS
  <2>1. CASE n = 0
    <3>1. N > 0 /\ 1 \in 1 .. N BY <1>1, <2>1
    <3>2. f[1] = s[1] /\ s[1] \in Seq(A) BY <1>1, <1>5, <3>1
    <3> QED BY <2>1, <3>2
  <2>2. CASE n # 0
    <3>1. PICK k \in 1 .. N : k = n + 1 OBVIOUS
    <3>a. n \in 1 .. N /\ k > 1 /\ k - 1 = n BY <1>1, <2>2, <3>1
    <3>2. PICK a \in Seq(A) : a = f[n] BY <1>8, <3>a
    <3>3. PICK b \in Seq(A) : b = s[k] BY <1>1
    <3>4. f[k] = f[k - 1] \o s[k] BY <1>6, <3>a
    <3>5. f[n + 1] = a \o b BY <3>1, <3>a, <3>2, <3>3, <3>4, Zenon
    <3>6. a \o b \in Seq(A) BY ConcatProperties
    <3> QED BY <3>5, <3>6
  <2> QED BY <2>1, <2>2
<1> HIDE DEF S
<1>9. Nat \subseteq S BY <1>7, <1>8, Induction
<1>10. \A n \in 1 .. N : f[n] \in Seq(A) BY <1>9 DEF S
<1>11. N = 0 => s = <<>> BY EmptySeq DEF N
<1> QED BY <1>2, <1>5, <1>6, <1>10, <1>11 DEF N

LEMMA FlattenTyped ==
    ASSUME NEW A, NEW s \in Seq(Seq(A))
    PROVE  FlattenSeq(s) \in Seq(A)
<1>1. Len(s) \in Nat BY LenProperties
<1>2. <<>> \in Seq(A) OBVIOUS
<1>3. PICK f : /\ \A n \in 1 .. Len(s) : f[n] \in Seq(A)
               /\ FlattenSeq(s) = IF Len(s) = 0 THEN <<>> ELSE f[Len(s)]
  BY FlattenIs
<1>4. Len(s) # 0 => Len(s) \in 1 .. Len(s) BY <1>1
<1> QED BY <1>2, <1>3, <1>4

\* A sequence made element by element.
LEMMA MadeOf ==
    ASSUME NEW B, NEW n \in Nat, NEW f \in [1 .. n -> B]
    PROVE  f \in Seq(B) /\ Len(f) = n
<1>1. f \in Seq(B) BY SeqDef
<1> QED BY <1>1, LenProperties

-----------------------------------------------------------------------------
(* The fields of a form *)

Controls == [name : Seq(Characters) \ {<<>>}, text : Seq(Characters)]

\* Controls with different names.
IsForm(form) ==
    /\ form \in Seq(Controls)
    /\ \A j, k \in 1 .. Len(form) : form[j].name = form[k].name => j = k

Before(n) == IF n = 1 THEN <<>> ELSE <<Separator>>

Piece(form, n) ==
    Before(n) \o Encoding(form[n].name) \o <<Equals>> \o Encoding(form[n].text)

LEMMA ControlIs ==
    ASSUME NEW control \in Controls
    PROVE  /\ control.name \in Seq(Characters) /\ control.name # <<>>
           /\ control.text \in Seq(Characters)
BY DEF Controls

LEMMA PieceIs ==
    ASSUME NEW form \in Seq(Controls), NEW n \in 1 .. Len(form)
    PROVE  /\ Piece(form, n) = Before(n) \o Pair(form[n])
           /\ Piece(form, n) \in Seq(Sent) /\ Pair(form[n]) \in Seq(Sent)
<1>1. form[n] \in Controls OBVIOUS
<1> DEFINE b == Before(n)
           s == Encoding(form[n].name)
           e == <<Equals>>
           t == Encoding(form[n].text)
<1>2. s \in Seq(Sent) /\ t \in Seq(Sent) BY <1>1, ControlIs, EncodingIs
<1>a. Equals \in Sent /\ Separator \in Sent BY DEF Sent
<1>b. <<>> \in Seq(Sent) /\ <<Equals>> \in Seq(Sent) /\ <<Separator>> \in Seq(Sent) BY <1>a
<1>3. e \in Seq(Sent) /\ b \in Seq(Sent) BY <1>b, Zenon DEF Before
<1>4. Pair(form[n]) = (s \o e) \o t BY DEF Pair
<1>5. Piece(form, n) = ((b \o s) \o e) \o t BY DEF Piece
<1> HIDE DEF b, s, e, t
<1>c. b \in Seq(Sent) BY <1>3
<1>d. s \in Seq(Sent) BY <1>2
<1>e. e \in Seq(Sent) BY <1>3
<1>f. t \in Seq(Sent) BY <1>2
<1>6. (b \o s) \o e = b \o (s \o e) BY <1>c, <1>d, <1>e, ConcatAssociative, SMTT(30)
<1>7. s \o e \in Seq(Sent) BY <1>2, <1>3, ConcatProperties
<1>8. (b \o (s \o e)) \o t = b \o ((s \o e) \o t)
  <2>1. PICK w \in Seq(Sent) : w = s \o e BY <1>7
  <2>2. (b \o w) \o t = b \o (w \o t) BY <1>c, <1>f, ConcatAssociative, SMTT(30)
  <2> QED BY <2>1, <2>2
<1>9. (s \o e) \o t \in Seq(Sent) BY <1>2, <1>7, ConcatProperties
<1>10. b \o ((s \o e) \o t) \in Seq(Sent) BY <1>3, <1>9, ConcatProperties
<1> QED BY <1>4, <1>5, <1>6, <1>8, <1>9, <1>10 DEF b

\* The fields of a message are the first n controls of the form.
HasFields(m, form, n) ==
    \E g : /\ BeginsIn(m) = {g[k] : k \in 1 .. n}
           /\ \A k \in 1 .. n : FieldIn(m, g[k]) = Pair(form[k])

LEMMA OneFieldMore ==
    ASSUME NEW form \in Seq(Controls), NEW n \in Nat, n # 0, n + 1 <= Len(form),
           NEW m \in Seq(Sent), HasFields(m, form, n)
    PROVE  HasFields(m \o Piece(form, n + 1), form, n + 1)
<1>1. PICK k \in 1 .. Len(form) : k = n + 1 BY LenProperties
<1> DEFINE f == Pair(form[k])
           u == <<Separator>>
           t == (m \o u) \o f
<1>2. form[k] \in Controls /\ k # 1 BY <1>1
<1>3. /\ f \in Seq(Sent) /\ \A i \in 1 .. Len(f) : f[i] # Separator
      /\ Piece(form, k) = u \o f
  BY <1>2, ControlIs, PairIs, PieceIs DEF Before
<1>4. Separator \in Sent BY DEF Sent
<1>5. u \in Seq(Sent) BY <1>4
<1> HIDE DEF f
<1>6. IsPair(t, Sent, m, Separator, f) BY <1>3, <1>4, TwoParts
<1> HIDE DEF u
<1>7. t = m \o Piece(form, k) BY <1>3, <1>5, ConcatAssociative, SMTT(30)
<1> HIDE DEF t
<1>8. /\ BeginsIn(t) = BeginsIn(m) \cup {Len(m) + 2}
      /\ \A b \in BeginsIn(m) : FieldIn(t, b) = FieldIn(m, b)
      /\ FieldIn(t, Len(m) + 2) = f
  BY <1>3, <1>4, <1>6, FieldsOfTwo, SMTT(30)
<1>9. PICK g : /\ BeginsIn(m) = {g[j] : j \in 1 .. n}
               /\ \A j \in 1 .. n : FieldIn(m, g[j]) = Pair(form[j])
  BY DEF HasFields
<1>10. PICK last : last = Len(m) + 2 OBVIOUS
<1> DEFINE h == [j \in 1 .. k |-> IF j = k THEN last ELSE g[j]]
<1>11. \A j \in 1 .. n : j \in 1 .. k /\ j # k /\ h[j] = g[j] BY <1>1
<1>12. k \in 1 .. k /\ h[k] = last BY <1>1
<1>13. \A j \in 1 .. k : j \in 1 .. n \/ j = k BY <1>1
<1> HIDE DEF h
<1>14. BeginsIn(t) = {h[j] : j \in 1 .. k} BY <1>8, <1>9, <1>10, <1>11, <1>12, <1>13
<1>15. ASSUME NEW j \in 1 .. k PROVE FieldIn(t, h[j]) = Pair(form[j])
  <2>1. CASE j \in 1 .. n
    <3>1. g[j] \in BeginsIn(m) BY <1>9, <2>1
    <3> QED BY <1>8, <1>9, <1>11, <2>1, <3>1
  <2>2. CASE j = k BY <1>8, <1>10, <1>12, <2>2 DEF f
  <2> QED BY <1>13, <2>1, <2>2
<1>16. HasFields(t, form, k) BY <1>14, <1>15 DEF HasFields
<1> QED BY <1>1, <1>7, <1>16

LEMMA FormFields ==
    ASSUME NEW form \in Seq(Controls), form # <<>>
    PROVE  LET m == FlattenSeq([n \in DOMAIN form |-> Piece(form, n)])
           IN  m \in Seq(Sent) /\ HasFields(m, form, Len(form))
<1> DEFINE N == Len(form)
           s == [n \in 1 .. N |-> Piece(form, n)]
<1>1. N \in Nat /\ DOMAIN form = 1 .. N /\ N # 0 BY LenProperties, EmptySeq
<1>2. \A n \in 1 .. N : Piece(form, n) \in Seq(Sent) BY PieceIs
<1>3. s \in [1 .. N -> Seq(Sent)] BY <1>2
<1>4. s \in Seq(Seq(Sent)) /\ Len(s) = N BY <1>1, <1>3, MadeOf
<1>5. \A n \in 1 .. N : s[n] = Piece(form, n) OBVIOUS
<1>6. FlattenSeq([n \in DOMAIN form |-> Piece(form, n)]) = FlattenSeq(s) BY <1>1
<1> HIDE DEF s
<1>7. PICK f : /\ \A n \in 1 .. Len(s) : f[n] \in Seq(Sent)
               /\ Len(s) > 0 => f[1] = s[1]
               /\ \A n \in 1 .. Len(s) : n > 1 => f[n] = f[n - 1] \o s[n]
               /\ FlattenSeq(s) = IF Len(s) = 0 THEN <<>> ELSE f[Len(s)]
  BY <1>4, FlattenIs
<1> DEFINE S == {n \in Nat : n \in 1 .. N => HasFields(f[n], form, n)}
<1>8. 0 \in S OBVIOUS
<1>9. ASSUME NEW n \in Nat, n \in S PROVE n + 1 \in S
  <2> SUFFICES ASSUME n + 1 \in 1 .. N PROVE HasFields(f[n + 1], form, n + 1) OBVIOUS
  <2>1. CASE n = 0
    <3>1. form[1] \in Controls /\ 1 \in 1 .. N BY <1>1
    <3>2. /\ Pair(form[1]) \in Seq(Sent)
          /\ \A i \in 1 .. Len(Pair(form[1])) : Pair(form[1])[i] # Separator
      BY <3>1, ControlIs, PairIs
    <3>3. Piece(form, 1) = <<>> \o Pair(form[1]) BY <3>1, PieceIs DEF Before
    <3>4. Piece(form, 1) = Pair(form[1]) BY <3>2, <3>3, ConcatEmptySeq
    <3>5. f[1] = Pair(form[1]) BY <1>1, <1>4, <1>5, <1>7, <3>1, <3>4
    <3>6. BeginsIn(f[1]) = {1} /\ FieldIn(f[1], 1) = f[1] BY <3>2, <3>5, OneField
    <3> DEFINE g == [k \in 1 .. 1 |-> 1]
    <3>7. BeginsIn(f[1]) = {g[k] : k \in 1 .. 1} BY <3>6
    <3>8. \A k \in 1 .. 1 : FieldIn(f[1], g[k]) = Pair(form[k]) BY <3>5, <3>6
    <3>9. HasFields(f[1], form, 1) BY <3>7, <3>8 DEF HasFields
    <3> QED BY <2>1, <3>9
  <2>2. CASE n # 0
    <3>1. PICK k \in 1 .. N : k = n + 1 OBVIOUS
    <3>a. n \in 1 .. N /\ k > 1 /\ k - 1 = n /\ n + 1 <= Len(form) BY <1>1, <2>2, <3>1
    <3>2. PICK m \in Seq(Sent) : m = f[n] BY <1>4, <1>7, <3>a
    <3>3. HasFields(m, form, n) BY <1>9, <3>a, <3>2
    <3>4. f[k] = f[k - 1] \o s[k] BY <1>4, <1>7, <3>a
    <3>5. f[k] = m \o Piece(form, k) BY <1>5, <3>a, <3>2, <3>4, Zenon
    <3>6. HasFields(m \o Piece(form, n + 1), form, n + 1) BY <2>2, <3>3, <3>a, OneFieldMore
    <3> QED BY <3>1, <3>5, <3>6
  <2> QED BY <2>1, <2>2
<1> HIDE DEF S
<1>10. Nat \subseteq S BY <1>8, <1>9, Induction
<1>11. N \in 1 .. N BY <1>1
<1>12. HasFields(f[N], form, N) BY <1>1, <1>10, <1>11 DEF S
<1>13. FlattenSeq(s) = f[N] /\ f[N] \in Seq(Sent) BY <1>1, <1>4, <1>7, <1>11
<1> QED BY <1>6, <1>12, <1>13

-----------------------------------------------------------------------------
(* The texts of a form: arrays *)

AnyText == Seq(Characters)

LEMMA MarksAreCharacters ==
    /\ {"{", "}", ",", "\"", "\\", "[", "]", "yes", "no", "NULL", "1"} \subseteq Characters
    /\ \A char \in Characters : <<char>> \in AnyText
<1>1. Letters \cup Marks \subseteq Characters BY CharactersAssumption
<1>2. {"{", "}", ",", "\"", "\\", "[", "]", "yes", "no", "NULL"} \subseteq Marks BY Zenon DEF Marks
<1>3. "1" \in Letters BY PostConstants
<1>4. \A char \in Characters : <<char>> \in AnyText BY DEF AnyText
<1> QED BY <1>1, <1>2, <1>3, <1>4

LEMMA SameFlatten == \A s : Arrays!FlattenSeq(s) = FlattenSeq(s)
BY DEF Arrays!FlattenSeq, FlattenSeq

LEMMA JoinedTyped ==
    ASSUME NEW texts \in Seq(AnyText)
    PROVE  Arrays!Joined(texts) \in AnyText
<1> DEFINE s == [k \in DOMAIN texts |-> IF k = 1 THEN texts[k] ELSE <<",">> \o texts[k]]
<1>1. DOMAIN texts = 1 .. Len(texts) /\ Len(texts) \in Nat BY LenProperties
<1>2. <<",">> \in AnyText BY MarksAreCharacters
<1>3. ASSUME NEW k \in 1 .. Len(texts)
      PROVE  texts[k] \in AnyText /\ <<",">> \o texts[k] \in AnyText
  <2>1. texts[k] \in AnyText OBVIOUS
  <2> QED BY <1>2, <2>1, ConcatProperties DEF AnyText
<1>4. s \in [1 .. Len(texts) -> AnyText] BY <1>1, <1>3
<1>5. s \in Seq(AnyText) BY <1>1, <1>4, MadeOf
<1> HIDE DEF s
<1>6. FlattenSeq(s) \in AnyText BY <1>5, FlattenTyped DEF AnyText
<1> QED BY <1>6, SameFlatten DEF Arrays!Joined, s

LEMMA BetweenTyped ==
    ASSUME NEW a \in Characters, NEW t \in AnyText, NEW b \in Characters
    PROVE  <<a>> \o t \o <<b>> \in AnyText
<1>1. PICK u \in AnyText : u = <<a>> BY MarksAreCharacters, Zenon
<1>2. PICK v \in AnyText : v = <<b>> BY MarksAreCharacters, Zenon
<1>3. u \o t \in AnyText BY ConcatProperties DEF AnyText
<1>4. (u \o t) \o v \in AnyText BY <1>3, ConcatProperties DEF AnyText
<1> QED BY <1>1, <1>2, <1>4

LEMMA OutTyped ==
    ASSUME NEW element \in AnyText \cup {Null}
    PROVE  Arrays!Out(element) \in AnyText
<1>0. CASE element = Null
  <2>1. <<"NULL">> \in AnyText BY MarksAreCharacters
  <2> QED BY <1>0, <2>1 DEF Arrays!Out
<1> SUFFICES ASSUME element \in AnyText, element # Null PROVE Arrays!Out(element) \in AnyText
  BY <1>0
<1> DEFINE s == [k \in DOMAIN element |->
                    IF element[k] \in {"\"", "\\"} THEN <<"\\", element[k]>> ELSE <<element[k]>>]
<1>1. DOMAIN element = 1 .. Len(element) /\ Len(element) \in Nat BY LenProperties DEF AnyText
<1>2. \A k \in 1 .. Len(element) : element[k] \in Characters BY DEF AnyText
<1>3. "\\" \in Characters /\ "\"" \in Characters BY MarksAreCharacters
<1>a. \A sign, char \in Characters : <<sign, char>> \in AnyText BY DEF AnyText
<1>4. \A char \in Characters : <<"\\", char>> \in AnyText /\ <<char>> \in AnyText
  BY <1>3, <1>a, MarksAreCharacters, Zenon
<1>5. s \in [1 .. Len(element) -> AnyText] BY <1>1, <1>2, <1>4
<1>6. s \in Seq(AnyText) BY <1>1, <1>5, MadeOf
<1> HIDE DEF s
<1>7. FlattenSeq(s) \in AnyText BY <1>6, FlattenTyped DEF AnyText
<1>8. Arrays!Escaped(element) \in AnyText BY <1>7, SameFlatten DEF Arrays!Escaped, s
<1>9. <<"\"">> \o Arrays!Escaped(element) \o <<"\"">> \in AnyText BY <1>3, <1>8, BetweenTyped
<1> QED BY <1>9 DEF Arrays!Out

LEMMA ArrayOutTyped ==
    ASSUME NEW elements \in Seq(AnyText \cup {Null})
    PROVE  Arrays!ArrayOut(elements) \in AnyText
<1> DEFINE s == [k \in DOMAIN elements |-> Arrays!Out(elements[k])]
<1>1. DOMAIN elements = 1 .. Len(elements) /\ Len(elements) \in Nat BY LenProperties
<1>2. \A k \in 1 .. Len(elements) : Arrays!Out(elements[k]) \in AnyText BY OutTyped
<1>3. s \in [1 .. Len(elements) -> AnyText] BY <1>1, <1>2
<1>4. s \in Seq(AnyText) BY <1>1, <1>3, MadeOf
<1>5. "{" \in Characters /\ "}" \in Characters BY MarksAreCharacters
<1> HIDE DEF s
<1>6. Arrays!Joined(s) \in AnyText BY <1>4, JoinedTyped
<1>7. <<"{">> \o Arrays!Joined(s) \o <<"}">> \in AnyText BY <1>5, <1>6, BetweenTyped
<1> QED BY <1>7 DEF Arrays!ArrayOut, s

\* The function that ParsePgArray chooses.
Parsed(f, text, n) ==
    f = [i \in 0 .. n |-> IF i = 0 THEN [state |-> "begin", elements |-> <<>>]
                          ELSE Arrays!ParseChar(f[i - 1], text[i])]

LEMMA ParsedExists == ASSUME NEW text, NEW n \in Nat PROVE \E f : Parsed(f, text, n)
<1> DEFINE S == {k \in Nat : \E f : Parsed(f, text, k)}
           start == [state |-> "begin", elements |-> <<>>]
<1>1. 0 \in S
  <2> DEFINE f == [i \in 0 .. 0 |-> start]
             h == [i \in 0 .. 0 |-> IF i = 0 THEN start ELSE Arrays!ParseChar(f[i - 1], text[i])]
  <2>1. \A i \in 0 .. 0 : i = 0 OBVIOUS
  <2>2. f = h BY <2>1
  <2>3. Parsed(f, text, 0) BY <2>2 DEF Parsed
  <2> QED BY <2>3
<1>2. ASSUME NEW k \in Nat, k \in S PROVE k + 1 \in S
  <2>1. PICK f : Parsed(f, text, k) BY <1>2
  <2> DEFINE g == [i \in 0 .. k + 1 |-> IF i = 0 THEN start ELSE Arrays!ParseChar(f[i - 1], text[i])]
             h == [i \in 0 .. k + 1 |-> IF i = 0 THEN start ELSE Arrays!ParseChar(g[i - 1], text[i])]
  <2>2. ASSUME NEW i \in 0 .. k PROVE f[i] = g[i]
    <3>1. i \in 0 .. k + 1 OBVIOUS
    <3>2. f[i] = IF i = 0 THEN start ELSE Arrays!ParseChar(f[i - 1], text[i]) BY <2>1 DEF Parsed
    <3> QED BY <3>1, <3>2
  <2>3. \A i \in 0 .. k + 1 : i # 0 => i - 1 \in 0 .. k OBVIOUS
  <2>4. \A i \in 0 .. k + 1 : i # 0 => f[i - 1] = g[i - 1] BY <2>2, <2>3
  <2>5. \A i \in 0 .. k + 1 : g[i] = IF i = 0 THEN start ELSE Arrays!ParseChar(f[i - 1], text[i])
    OBVIOUS
  <2>6. g = [i \in 0 .. k + 1 |-> g[i]] OBVIOUS
  <2> HIDE DEF g, start
  <2>7. \A i \in 0 .. k + 1 : g[i] = IF i = 0 THEN start ELSE Arrays!ParseChar(g[i - 1], text[i])
    BY <2>4, <2>5
  <2>8. g = h BY <2>6, <2>7
  <2>9. Parsed(g, text, k + 1) BY <2>8 DEF Parsed, start
  <2> QED BY <2>9
<1> HIDE DEF S
<1>3. Nat \subseteq S BY <1>1, <1>2, Induction
<1> QED BY <1>3 DEF S

LEMMA ParseCharTyped ==
    ASSUME NEW p, p.elements \in Seq(AnyText), NEW char \in Characters
    PROVE  Arrays!ParseChar(p, char).elements \in Seq(AnyText)
<1> DEFINE e == p.elements
           n == Arrays!NextState(p.state, char)
<1>1. PICK c \in AnyText : c = <<char>> BY MarksAreCharacters
<1>2. Append(e, c) \in Seq(AnyText) OBVIOUS
<1>3. <<>> \in AnyText BY DEF AnyText
<1>4. Append(e, <<>>) \in Seq(AnyText) BY <1>3, SMTT(30)
<1>5. [e EXCEPT ![Len(e)] = Append(@, char)] \in Seq(AnyText)
  <2>1. \A t \in AnyText : Append(t, char) \in AnyText BY DEF AnyText
  <2>2. DOMAIN e = 1 .. Len(e) /\ Len(e) \in Nat /\ \A k \in 1 .. Len(e) : e[k] \in AnyText
    BY LenProperties
  <2> HIDE DEF e
  <2>3. [e EXCEPT ![Len(e)] = Append(@, char)] =
            [k \in 1 .. Len(e) |-> IF k = Len(e) THEN Append(e[k], char) ELSE e[k]]
    BY <2>2
  <2>4. [k \in 1 .. Len(e) |-> IF k = Len(e) THEN Append(e[k], char) ELSE e[k]]
            \in [1 .. Len(e) -> AnyText]
    BY <2>1, <2>2
  <2> QED BY <2>2, <2>3, <2>4, MadeOf, ZenonT(30)
<1>6. Arrays!ParseChar(p, char).elements =
        IF p.state \in Arrays!Starting /\ n = "inval" THEN Append(e, <<char>>)
        ELSE IF p.state \in Arrays!Starting /\ n = "inquote" THEN Append(e, <<>>)
        ELSE IF p.state \in Arrays!Inside /\ n \in Arrays!Inside
        THEN [e EXCEPT ![Len(e)] = Append(@, char)] ELSE e
  BY DEF Arrays!ParseChar, Arrays!Enter
<1>7. Append(e, <<char>>) \in Seq(AnyText) BY <1>1, <1>2
<1> HIDE DEF n
<1> QED BY <1>4, <1>5, <1>6, <1>7, Zenon

LEMMA ParsePgArrayTyped ==
    ASSUME NEW text \in AnyText
    PROVE  Arrays!ParsePgArray(text) = Null \/ Arrays!ParsePgArray(text) \in Seq(AnyText)
<1> DEFINE N == Len(text)
           f == CHOOSE g : Parsed(g, text, N)
           start == [state |-> "begin", elements |-> <<>>]
<1>1. N \in Nat /\ \A n \in 1 .. N : text[n] \in Characters BY LenProperties DEF AnyText
<1>2. Arrays!ParsePgArray(text) = Null \/ Arrays!ParsePgArray(text) = f[N].elements
  BY DEF Arrays!ParsePgArray, Arrays!Parsed, Parsed
<1> HIDE DEF N
<1>3. Parsed(f, text, N) BY <1>1, ParsedExists
<1> HIDE DEF f
<1>4. ASSUME NEW n \in 0 .. N
      PROVE  f[n] = IF n = 0 THEN start ELSE Arrays!ParseChar(f[n - 1], text[n])
  BY <1>3 DEF Parsed
<1> DEFINE S == {n \in Nat : n \in 0 .. N => f[n].elements \in Seq(AnyText)}
<1>5. 0 \in S
  <2>1. 0 \in 0 .. N BY <1>1
  <2>2. f[0] = start BY <1>4, <2>1
  <2>3. f[0].elements = <<>> /\ <<>> \in Seq(AnyText) BY <2>2
  <2> QED BY <2>1, <2>3
<1>6. ASSUME NEW n \in Nat, n \in S PROVE n + 1 \in S
  <2> SUFFICES ASSUME n + 1 \in 0 .. N PROVE f[n + 1].elements \in Seq(AnyText) OBVIOUS
  <2>1. PICK k \in 1 .. N : k = n + 1 BY <1>1
  <2>2. k \in 0 .. N /\ k # 0 /\ k - 1 = n /\ n \in 0 .. N BY <1>1, <2>1
  <2>3. f[n].elements \in Seq(AnyText) BY <1>6, <2>2
  <2>4. f[k] = Arrays!ParseChar(f[n], text[k]) BY <1>4, <2>2
  <2>5. text[k] \in Characters BY <1>1
  <2>6. Arrays!ParseChar(f[n], text[k]).elements \in Seq(AnyText) BY <2>3, <2>5, ParseCharTyped
  <2> QED BY <2>1, <2>4, <2>6
<1> HIDE DEF S
<1>7. Nat \subseteq S BY <1>5, <1>6, Induction
<1>8. N \in S /\ N \in 0 .. N BY <1>1, <1>7
<1>9. f[N].elements \in Seq(AnyText) BY <1>8 DEF S
<1> QED BY <1>2, <1>9

-----------------------------------------------------------------------------
(* The texts of a form: a value and its options *)

LEMMA ColumnIs ==
    ASSUME column \in Columns
    PROVE  /\ column.name \in AnyText /\ column.name # <<>>
           /\ column.options \in AnyText /\ column.labels \in AnyText
           /\ column.fkey \in Seq(AnyText)
           /\ \/ column.value = Null
              \/ column.type # "array" /\ column.value \in AnyText
              \/ column.type = "array" /\ column.value \in Seq(AnyText \cup {Null})
BY ColumnsAssumption DEF AnyText

LEMMA ShownTyped == ASSUME column \in Columns PROVE Shown \in AnyText
<1>1. <<>> \in AnyText BY DEF AnyText
<1>2. CASE column.value = Null BY <1>1, <1>2 DEF Shown
<1>3. CASE column.value # Null /\ column.type # "array" BY <1>3, ColumnIs DEF Shown
<1>4. CASE column.value # Null /\ column.type = "array"
  <2>1. column.value \in Seq(AnyText \cup {Null}) BY <1>4, ColumnIs
  <2> QED BY <1>4, <2>1, ArrayOutTyped DEF Shown
<1> QED BY <1>2, <1>3, <1>4

LEMMA OptionsTyped ==
    ASSUME column \in Columns
    PROVE  Options = Null \/ Options \in Seq(AnyText)
<1>1. <<<<"yes">>, <<"no">>>> \in Seq(AnyText)
  <2>1. PICK a \in AnyText : a = <<"yes">> BY MarksAreCharacters, Zenon
  <2>2. PICK b \in AnyText : b = <<"no">> BY MarksAreCharacters, Zenon
  <2>3. <<a, b>> \in Seq(AnyText) OBVIOUS
  <2> QED BY <2>1, <2>2, <2>3
<1>2. /\ Arrays!ParsePgArray(column.options) \in Seq(AnyText) \cup {Null}
      /\ Arrays!ParsePgArray(column.labels) \in Seq(AnyText) \cup {Null}
      /\ column.fkey \in Seq(AnyText)
  BY ColumnIs, ParsePgArrayTyped
<1> QED BY <1>1, <1>2 DEF Options

LEMMA StrippedTyped == ASSUME NEW text \in AnyText PROVE Stripped(text) \in AnyText
<1> DEFINE kept(k) == \/ text[k] # " "
                      \/ k > 1 /\ text[k - 1] # " " /\ \E j \in k .. Len(text) : text[j] # " "
           s == [k \in DOMAIN text |-> IF kept(k) THEN <<text[k]>> ELSE <<>>]
<1>1. DOMAIN text = 1 .. Len(text) /\ Len(text) \in Nat BY LenProperties DEF AnyText
<1>2. Stripped(text) = FlattenSeq(s) BY Zenon DEF Stripped
<1> HIDE DEF kept
<1>3. \A k \in 1 .. Len(text) : <<text[k]>> \in AnyText BY DEF AnyText
<1>4. <<>> \in AnyText BY DEF AnyText
<1>5. s \in [1 .. Len(text) -> AnyText] BY <1>1, <1>3, <1>4
<1>6. s \in Seq(AnyText) BY <1>1, <1>5, MadeOf
<1> HIDE DEF s
<1>7. FlattenSeq(s) \in AnyText BY <1>6, FlattenTyped DEF AnyText
<1> QED BY <1>2, <1>7

OptionRecords == [text : AnyText, selected : BOOLEAN]

LEMMA MarkedTyped ==
    ASSUME NEW options \in Seq(AnyText)
    PROVE  Marked(options) \in Seq(OptionRecords)
<1>1. DOMAIN options = 1 .. Len(options) /\ Len(options) \in Nat BY LenProperties
<1>2. ASSUME NEW text \in AnyText PROVE Option(text, Matches(text)) \in OptionRecords
  <2>1. Matches(text) \in BOOLEAN BY Zenon DEF Matches
  <2> QED BY <2>1 DEF Option, OptionRecords
<1>3. \A k \in 1 .. Len(options) : Option(options[k], Matches(options[k])) \in OptionRecords BY <1>2
<1>4. Marked(options) \in [1 .. Len(options) -> OptionRecords] BY <1>1, <1>3 DEF Marked
<1> QED BY <1>1, <1>4, MadeOf

LEMMA SelectOptionsTyped ==
    ASSUME column \in Columns, NEW options, options = Null \/ options \in Seq(AnyText)
    PROVE  SelectOptions(options) \in Seq(OptionRecords)
<1> DEFINE first == IF column.nullable THEN <<Option(<<>>, Shown = <<>>)>> ELSE <<>>
           rest == IF options # Null THEN Marked(options) \o CurrentValue(options)
                   ELSE IF Shown # <<>> THEN ShownOption ELSE <<>>
<1>1. <<>> \in Seq(OptionRecords) OBVIOUS
<1>2. ASSUME NEW r \in OptionRecords PROVE <<r>> \in Seq(OptionRecords) OBVIOUS
<1>3. ASSUME NEW text \in AnyText, NEW b \in BOOLEAN PROVE Option(text, b) \in OptionRecords
  BY DEF Option, OptionRecords
<1>4. first \in Seq(OptionRecords)
  <2>1. <<>> \in AnyText /\ (Shown = <<>>) \in BOOLEAN BY DEF AnyText
  <2>2. Option(<<>>, Shown = <<>>) \in OptionRecords BY <1>3, <2>1
  <2> HIDE DEF Option
  <2>3. <<Option(<<>>, Shown = <<>>)>> \in Seq(OptionRecords) BY <1>2, <2>2
  <2> QED BY <1>1, <2>3
<1>5. ShownOption \in Seq(OptionRecords)
  <2>1. Option(Stripped(Shown), TRUE) \in OptionRecords BY <1>3, ShownTyped, StrippedTyped
  <2> QED BY <1>2, <2>1 DEF ShownOption
<1>6. rest \in Seq(OptionRecords)
  <2>1. CASE options = Null BY <1>1, <1>5, <2>1
  <2>2. CASE options # Null
    <3>1. Marked(options) \in Seq(OptionRecords) BY <2>2, MarkedTyped
    <3>2. CurrentValue(options) \in Seq(OptionRecords) BY <1>1, <1>5, Zenon DEF CurrentValue
    <3>3. Marked(options) \o CurrentValue(options) \in Seq(OptionRecords)
      BY <3>1, <3>2, ConcatProperties
    <3> QED BY <2>2, <3>3
  <2> QED BY <2>1, <2>2
<1>7. SelectOptions(options) = first \o rest BY Zenon DEF SelectOptions
<1> HIDE DEF first, rest
<1> QED BY <1>4, <1>6, <1>7, ConcatProperties

LEMMA MaxIs ==
    ASSUME NEW n \in Nat, NEW S \in SUBSET (1 .. n), S # {}
    PROVE  Max(S) \in S /\ \A y \in S : Max(S) >= y
<1> DEFINE T == {n - x : x \in S}
<1>a. \A x \in S : x \in 1 .. n OBVIOUS
<1>b. \A x \in S : n - x \in Nat BY <1>a
<1>c. PICK z \in S : TRUE OBVIOUS
<1>d. n - z \in T OBVIOUS
<1>1. T \subseteq Nat /\ T # {} BY <1>b, <1>d
<1>2. PICK t \in T : \A y \in T : t <= y BY <1>1, Least
<1>3. PICK x \in S : t = n - x OBVIOUS
<1>4. ASSUME NEW y \in S PROVE x >= y
  <2>1. n - y \in T OBVIOUS
  <2>2. n - x <= n - y BY <1>2, <1>3, <2>1
  <2> QED BY <1>a, <2>2
<1> QED BY <1>4 DEF Max

LEMMA EmptyForm == IsForm(<<>>)
<1>1. <<>> \in Seq(Controls) /\ Len(<<>>) = 0 OBVIOUS
<1> QED BY <1>1 DEF IsForm

LEMMA ControlIsForm ==
    ASSUME column \in Columns, NEW text \in AnyText
    PROVE  IsForm(Control(text))
<1> DEFINE c == [name |-> column.name, text |-> text]
<1>1. c \in Controls BY ColumnIs DEF Controls, AnyText
<1>2. Control(text) = <<c>> BY DEF Control
<1> HIDE DEF c
<1>3. <<c>> \in Seq(Controls) /\ Len(<<c>>) = 1 BY <1>1
<1> QED BY <1>2, <1>3 DEF IsForm

LEMMA OneOfIsForm ==
    ASSUME column \in Columns, NEW options \in Seq(OptionRecords), NEW S,
           S \in SUBSET (1 .. Len(options)), S # {}
    PROVE  IsForm(Control(options[Max(S)].text))
<1>1. Len(options) \in Nat BY LenProperties
<1>2. Max(S) \in 1 .. Len(options) BY <1>1, MaxIs
<1>3. options[Max(S)] \in OptionRecords BY <1>2
<1>4. options[Max(S)].text \in AnyText BY <1>3 DEF OptionRecords
<1> QED BY <1>4, ControlIsForm

LEMMA SelectIsForm ==
    ASSUME column \in Columns, NEW options \in Seq(OptionRecords)
    PROVE  IsForm(Select(options))
<1>1. CASE options = <<>> BY <1>1, EmptyForm DEF Select
<1>2. CASE options # <<>>
  <2> DEFINE S == {1} \cup Selected(options)
  <2>1. Len(options) \in Nat /\ DOMAIN options = 1 .. Len(options) /\ Len(options) # 0
    BY <1>2, LenProperties, EmptySeq
  <2>2. S \in SUBSET (1 .. Len(options)) /\ S # {} BY <2>1 DEF Selected
  <2>3. Select(options) = Control(options[Max(S)].text) BY <1>2 DEF Select
  <2> HIDE DEF S
  <2> QED BY <2>2, <2>3, OneOfIsForm
<1> QED BY <1>1, <1>2

LEMMA RadioIsForm ==
    ASSUME column \in Columns, NEW options, options = Null \/ options \in Seq(AnyText)
    PROVE  IsForm(Radio(options))
<1>1. CASE options = Null BY <1>1, EmptyForm DEF Radio
<1>2. CASE options # Null /\ Selected(Marked(options)) = {} BY <1>2, EmptyForm DEF Radio
<1>3. CASE options # Null /\ Selected(Marked(options)) # {}
  <2> DEFINE S == Selected(Marked(options))
             marked == Marked(options)
  <2>1. marked \in Seq(OptionRecords) BY <1>3, MarkedTyped
  <2>a. /\ Len(marked) = Len(options) /\ \A k \in 1 .. Len(options) : marked[k].text = options[k]
    BY <1>3, LenProperties DEF Marked, Option
  <2>2. S \in SUBSET (1 .. Len(marked)) /\ S # {} BY <1>3, <2>1, LenProperties DEF Selected
  <2>3. Radio(options) = Control(options[Max(S)]) BY <1>3, Zenon DEF Radio
  <2> HIDE DEF S, marked
  <2>4. Max(S) \in 1 .. Len(marked) BY <2>1, <2>2, MaxIs, LenProperties
  <2>5. options[Max(S)] \in AnyText BY <1>3, <2>a, <2>4
  <2> QED BY <2>3, <2>5, ControlIsForm
<1> QED BY <1>1, <1>2, <1>3

LEMMA NumeralIs == ASSUME NEW k \in Nat PROVE Numeral(k) \in AnyText /\ Len(Numeral(k)) = k
<1>1. Numeral(k) \in [1 .. k -> Characters] BY MarksAreCharacters DEF Numeral
<1> QED BY <1>1, MadeOf DEF AnyText

LEMMA ItemNameIs ==
    ASSUME column \in Columns, NEW k \in Nat
    PROVE  /\ ItemName(k) \in AnyText
           /\ Len(ItemName(k)) = Len(column.name) + 1 + k + 1
<1>1. PICK n \in AnyText : n = column.name BY ColumnIs
<1>2. PICK a \in AnyText : a = <<"[">> /\ Len(a) = 1 BY MarksAreCharacters
<1>3. PICK b \in AnyText : b = <<"]">> /\ Len(b) = 1 BY MarksAreCharacters
<1>4. PICK d \in AnyText : d = Numeral(k) /\ Len(d) = k BY NumeralIs
<1>5. n \o a \in AnyText /\ Len(n \o a) = Len(n) + 1 BY <1>2, ConcatProperties DEF AnyText
<1>6. PICK u \in AnyText : u = n \o a /\ Len(u) = Len(n) + 1 BY <1>5
<1>7. u \o d \in AnyText /\ Len(u \o d) = Len(n) + 1 + k BY <1>4, <1>6, ConcatProperties DEF AnyText
<1>8. PICK v \in AnyText : v = u \o d /\ Len(v) = Len(n) + 1 + k BY <1>7
<1>9. v \o b \in AnyText /\ Len(v \o b) = Len(n) + 1 + k + 1
  <2>1. v \o b \in AnyText /\ Len(v \o b) = Len(v) + Len(b) BY ConcatProperties DEF AnyText
  <2> QED BY <1>3, <1>8, <2>1
<1>10. ItemName(k) = v \o b BY <1>1, <1>2, <1>3, <1>4, <1>6, <1>8, Zenon DEF ItemName
<1> QED BY <1>1, <1>9, <1>10

LEMMA TextArrayIsForm ==
    ASSUME column \in Columns, NEW elements, elements = Null \/ elements \in Seq(AnyText)
    PROVE  IsForm(TextArray(elements))
<1>1. CASE elements = Null BY <1>1, EmptyForm DEF TextArray
<1>2. CASE elements # Null
  <2> DEFINE N == Len(elements)
             f == TextArray(elements)
  <2>1. N \in Nat /\ DOMAIN elements = 1 .. N /\ \A k \in 1 .. N : elements[k] \in AnyText
    BY <1>2, LenProperties
  <2>a. Len(column.name) \in Nat BY ColumnIs, LenProperties DEF AnyText
  <2>2. ASSUME NEW k \in 1 .. N
        PROVE  /\ ItemName(k) \in AnyText /\ ItemName(k) # <<>>
               /\ Len(ItemName(k)) = Len(column.name) + 1 + k + 1
    <3>1. /\ ItemName(k) \in AnyText
          /\ Len(ItemName(k)) = Len(column.name) + 1 + k + 1
      BY ItemNameIs
    <3>2. Len(ItemName(k)) # 0 BY <2>a, <3>1
    <3>3. Len(<<>>) = 0 OBVIOUS
    <3> QED BY <3>1, <3>2, <3>3
  <2>3. \A k \in 1 .. N : [name |-> ItemName(k), text |-> elements[k]] \in Controls
    BY <2>1, <2>2 DEF Controls, AnyText
  <2>4. f = [k \in 1 .. N |-> [name |-> ItemName(k), text |-> elements[k]]]
    BY <1>2, <2>1 DEF TextArray
  <2>5. f \in [1 .. N -> Controls] BY <2>3, <2>4
  <2>6. f \in Seq(Controls) /\ Len(f) = N BY <2>1, <2>5, MadeOf
  <2>7. \A k \in 1 .. N : f[k].name = ItemName(k) BY <2>4
  <2> HIDE DEF f
  <2>8. ASSUME NEW j \in 1 .. N, NEW k \in 1 .. N, f[j].name = f[k].name PROVE j = k
    <3>1. Len(ItemName(j)) = Len(ItemName(k)) BY <2>7, <2>8
    <3> QED BY <2>a, <2>2, <3>1
  <2>9. IsForm(f) BY <2>6, <2>8 DEF IsForm
  <2> QED BY <2>9 DEF f
<1> QED BY <1>1, <1>2

\* Whatever the prompt is, the form has texts in it, and no name twice.
LEMMA AddPromptShowsForm ==
    ASSUME column \in Columns, AddPrompt
    PROVE  \/ at' = "form" /\ IsForm(shown')
           \/ at' \in {"broken", "error"}
<1>1. Shown \in AnyText BY ShownTyped
<1>2. Options = Null \/ Options \in Seq(AnyText) BY OptionsTyped
<1>3. IsForm(Control(Shown)) BY <1>1, ControlIsForm
<1>4. IsForm(Select(SelectOptions(Options))) BY <1>2, SelectOptionsTyped, SelectIsForm
<1>5. IsForm(Radio(Options)) BY <1>2, RadioIsForm
<1>6. IsForm(TextArray(Arrays!ParsePgArray(Shown))) BY <1>1, ParsePgArrayTyped, TextArrayIsForm
<1>7. IsForm(<<>>) BY EmptyForm
<1>8. \/ \E form \in {Control(Shown), Select(SelectOptions(Options)), Radio(Options),
                      TextArray(Arrays!ParsePgArray(Shown)), <<>>} : Show(form)
      \/ at' \in {"broken", "error"}
  BY DEF AddPrompt
<1>9. ASSUME NEW form, Show(form) PROVE at' = "form" /\ shown' = form BY <1>9 DEF Show
<1> QED BY <1>3, <1>4, <1>5, <1>6, <1>7, <1>8, <1>9

-----------------------------------------------------------------------------
(* What is posted is what was shown *)

PostedOf(form) == FlattenSeq([n \in DOMAIN form |-> Piece(form, n)])

LEMMA PostedIs == Posted = PostedOf(shown) /\ Posted' = PostedOf(shown')
BY DEF Posted, PostedOf, Piece, Before

LEMMA PostedTyped == ASSUME NEW form, IsForm(form) PROVE PostedOf(form) \in Seq(Sent)
<1>1. CASE form = <<>>
  <2>1. PostedOf(form) = FlattenSeq(<<>>) BY <1>1 DEF PostedOf
  <2>2. PostedOf(form) = <<>> BY <2>1 DEF FlattenSeq
  <2> QED BY <2>2
<1>2. CASE form # <<>> BY <1>2, FormFields DEF IsForm, PostedOf
<1> QED BY <1>1, <1>2

\* While a form is read, what has been read of it is a beginning of it.
FormInv ==
    /\ column \in Columns
    /\ at = "row" => message = <<>>
    /\ at = "form" =>
        /\ IsForm(shown)
        /\ message \in Seq(Sent) /\ Len(message) <= Len(Posted)
        /\ \A k \in 1 .. Len(message) : message[k] = Posted[k]

LEMMA FormStarts == ASSUME Init PROVE FormInv
BY DEF Init, FormInv, ReadNothing

LEMMA FormKept == ASSUME FormInv, [Next]_vars PROVE FormInv'
<1>1. CASE AddPrompt
  <2>1. at = "row" /\ message' = message /\ column' = column BY <1>1 DEF AddPrompt, reading
  <2>2. column \in Columns /\ message = <<>> BY <2>1 DEF FormInv
  <2>3. CASE at' = "form" /\ IsForm(shown')
    <3>2. Posted' \in Seq(Sent) BY <2>3, PostedIs, PostedTyped
    <3>3. Len(Posted') \in Nat BY <3>2, LenProperties
    <3>4. message' = <<>> /\ message' \in Seq(Sent) /\ Len(message') = 0 BY <2>1, <2>2
    <3> QED BY <2>1, <2>2, <2>3, <3>3, <3>4 DEF FormInv, IsForm
  <2>4. CASE at' \in {"broken", "error"} BY <2>1, <2>2, <2>4 DEF FormInv
  <2> QED BY <1>1, <2>2, <2>3, <2>4, AddPromptShowsForm
<1>2. CASE ReadForm
  <2>1. /\ at = "form" /\ at' = at /\ shown' = shown /\ column' = column /\ Posted' = Posted
        /\ Len(message) < Len(Posted) /\ message' = Append(message, Posted[Len(message) + 1])
    BY <1>2 DEF ReadForm, Read, field, Posted
  <2>2. /\ IsForm(shown) /\ column \in Columns
        /\ message \in Seq(Sent) /\ Len(message) <= Len(Posted)
        /\ \A k \in 1 .. Len(message) : message[k] = Posted[k]
    BY <2>1 DEF FormInv
  <2>3. Posted \in Seq(Sent) BY <2>2, PostedIs, PostedTyped
  <2>4. PICK p \in Seq(Sent) : p = Posted BY <2>3
  <2>5. Len(message) \in Nat /\ Len(p) \in Nat BY <2>2, LenProperties
  <2>6. Len(message) + 1 \in 1 .. Len(p) BY <2>1, <2>4, <2>5
  <2>7. p[Len(message) + 1] \in Sent BY <2>6
  <2>8. PICK x \in Sent : x = p[Len(message) + 1] BY <2>7
  <2>9. /\ Append(message, x) \in Seq(Sent) /\ Len(Append(message, x)) = Len(message) + 1
        /\ \A i \in 1 .. Len(message) : Append(message, x)[i] = message[i]
        /\ Append(message, x)[Len(message) + 1] = x
    BY <2>2, AppendProperties
  <2>10. message' = Append(message, x) BY <2>1, <2>4, <2>8
  <2>11. \A k \in 1 .. Len(message) + 1 : k \in 1 .. Len(message) \/ k = Len(message) + 1
    BY <2>5
  <2>12. \A k \in 1 .. Len(message') : message'[k] = p[k] BY <2>2, <2>4, <2>8, <2>9, <2>10, <2>11
  <2>13. message' \in Seq(Sent) /\ Len(message') <= Len(p) BY <2>6, <2>9, <2>10
  <2>14. IsForm(shown)' BY <2>1, <2>2 DEF IsForm
  <2> QED BY <2>1, <2>2, <2>4, <2>12, <2>13, <2>14 DEF FormInv
<1>3. CASE ReadOther BY <1>3 DEF ReadOther, FormInv
<1>4. CASE PerformPostAction
  <2>1. at' \in {"refused", "saved"} /\ column' = column BY <1>4, Zenon DEF PerformPostAction
  <2> QED BY <2>1 DEF FormInv
<1>5. CASE UNCHANGED vars
  <2>1. /\ at' = at /\ shown' = shown /\ column' = column /\ Posted' = Posted
        /\ message' = message
    BY <1>5 DEF vars, reading, field, Posted
  <2> QED BY <2>1 DEF FormInv, IsForm
<1> QED BY <1>1, <1>2, <1>3, <1>4, <1>5 DEF Next

\* The fields of the message are the controls of the form, one each.
LEMMA FieldsAreControls ==
    ASSUME IsForm(shown), shown # <<>>, message = Posted
    PROVE  /\ \A b \in Begins : \E k \in 1 .. Len(shown) : Field(b) = Pair(shown[k])
           /\ \A k \in 1 .. Len(shown) : \E b \in Begins : Field(b) = Pair(shown[k])
           /\ \A b, c \in Begins : Field(b) = Field(c) => b = c
<1>1. HasFields(message, shown, Len(shown)) BY PostedIs, FormFields DEF IsForm, PostedOf
<1>2. PICK g : /\ BeginsIn(message) = {g[k] : k \in 1 .. Len(shown)}
               /\ \A k \in 1 .. Len(shown) : FieldIn(message, g[k]) = Pair(shown[k])
  BY <1>1 DEF HasFields
<1>3. Begins = {g[k] : k \in 1 .. Len(shown)} BY <1>2, MessageIs
<1>4. \A k \in 1 .. Len(shown) : Field(g[k]) = Pair(shown[k]) BY <1>2, MessageIs
<1>5. ASSUME NEW j \in 1 .. Len(shown), NEW k \in 1 .. Len(shown), Pair(shown[j]) = Pair(shown[k])
      PROVE  j = k
  <2>1. shown[j] \in Controls /\ shown[k] \in Controls BY DEF IsForm
  <2>2. /\ Unescape(Word(KeyOf(Pair(shown[j])))) = shown[j].name
        /\ Unescape(Word(KeyOf(Pair(shown[k])))) = shown[k].name
    BY <2>1, ControlIs, PairIs
  <2>3. shown[j].name = shown[k].name BY <1>5, <2>2
  <2> QED BY <2>3 DEF IsForm
<1>6. ASSUME NEW b \in Begins, NEW c \in Begins, Field(b) = Field(c) PROVE b = c
  <2>1. PICK j \in 1 .. Len(shown) : b = g[j] BY <1>3
  <2>2. PICK k \in 1 .. Len(shown) : c = g[k] BY <1>3
  <2>3. j = k BY <1>4, <1>5, <1>6, <2>1, <2>2
  <2> QED BY <2>1, <2>2, <2>3
<1> QED BY <1>3, <1>4, <1>6

LEMMA FormGivesData ==
    ASSUME IsForm(shown), message = Posted, ReadAsWritten
    PROVE  PostData = [name \in {shown[n].name : n \in DOMAIN shown} |->
                        (CHOOSE control \in Range(shown) : control.name = name).text]
<1> DEFINE N == Len(shown)
           Names == {shown[n].name : n \in DOMAIN shown}
           Of(name) == CHOOSE control \in Range(shown) : control.name = name
<1>1. /\ N \in Nat /\ DOMAIN shown = 1 .. N /\ \A k \in 1 .. N : shown[k] \in Controls
      /\ \A j, k \in 1 .. N : shown[j].name = shown[k].name => j = k
  BY LenProperties DEF IsForm
<1>2. CASE shown = <<>>
  <2>1. message = <<>>
    <3>1. Posted = FlattenSeq(<<>>) BY <1>2 DEF Posted
    <3> QED BY <3>1 DEF FlattenSeq
  <2>2. \A i \in 1 .. Len(<<>>) : <<>>[i] # Separator OBVIOUS
  <2>3. <<>> \in Seq(Sent) OBVIOUS
  <2>4. BeginsIn(<<>>) = {1} /\ FieldIn(<<>>, 1) = <<>> BY <2>2, <2>3, OneField
  <2>5. Begins = {1} /\ Field(1) = <<>> BY <2>1, <2>4, MessageIs
  <2>6. EndIn(<<>>, Len(<<>>) + 1) = Len(<<>>) + 1 BY <2>3, FieldBegins
  <2>7. IsLast(1) BY <2>1, <2>6, MessageIs
  <2>8. ~IsField(<<>>) BY <2>3, EmptyField, NoSign
  <2>9. IsWord(<<>>) BY EmptyWord
  <2>10. Complete = {} BY <2>5, <2>8 DEF Complete
  <2>11. Meaning = [name \in {} |-> Text(CHOOSE b \in {} : Name(b) = name)]
    BY <2>5, <2>7, <2>9, <2>10 DEF Meaning
  <2>12. Names = {} BY <1>2
  <2>13. [name \in {} |-> Text(CHOOSE b \in {} : Name(b) = name)] = [name \in Names |-> Of(name).text]
    BY <2>12
  <2> QED BY <2>11, <2>13 DEF ReadAsWritten
<1>3. CASE shown # <<>>
  <2>1. /\ \A b \in Begins : \E k \in 1 .. N : Field(b) = Pair(shown[k])
        /\ \A k \in 1 .. N : \E b \in Begins : Field(b) = Pair(shown[k])
        /\ \A b, c \in Begins : Field(b) = Field(c) => b = c
    BY <1>3, FieldsAreControls
  <2>2. ASSUME NEW b, NEW k \in 1 .. N, Field(b) = Pair(shown[k])
        PROVE  /\ IsField(Field(b)) /\ Name(b) = shown[k].name /\ Text(b) = shown[k].text
               /\ Utf8(Name(b)) /\ Utf8(Text(b))
    <3>1. shown[k] \in Controls BY <1>1
    <3>2. /\ shown[k].name \in Seq(Characters) /\ shown[k].name # <<>>
          /\ shown[k].text \in Seq(Characters)
      BY <3>1, ControlIs
    <3>3. /\ IsField(Pair(shown[k]))
          /\ Unescape(Word(KeyOf(Pair(shown[k])))) = shown[k].name
          /\ Unescape(Word(ValueOf(Pair(shown[k])))) = shown[k].text
      BY <3>2, PairIs
    <3>4. Name(b) = shown[k].name /\ Text(b) = shown[k].text BY <2>2, <3>3 DEF Name, Text
    <3>5. ASSUME NEW t \in Seq(Characters) PROVE Utf8(t)
      <4>1. "ff" \notin Characters BY CharactersAssumption
      <4> QED BY <4>1, LenProperties DEF Utf8, Range
    <3> QED BY <2>2, <3>2, <3>3, <3>4, <3>5
  <2>3. Complete = Begins BY <2>1, <2>2 DEF Complete
  <2>4. \A b, c \in Complete : Name(b) = Name(c) => b = c
    <3> SUFFICES ASSUME NEW b \in Begins, NEW c \in Begins, Name(b) = Name(c) PROVE b = c BY <2>3
    <3>1. PICK j \in 1 .. N : Field(b) = Pair(shown[j]) BY <2>1
    <3>2. PICK k \in 1 .. N : Field(c) = Pair(shown[k]) BY <2>1
    <3>3. shown[j].name = shown[k].name BY <2>2, <3>1, <3>2
    <3>4. j = k BY <1>1, <3>3
    <3> QED BY <2>1, <3>1, <3>2, <3>4
  <2>5. \A b \in Complete : Utf8(Name(b)) /\ Utf8(Text(b)) BY <2>1, <2>2, <2>3
  <2>6. Meaning = [name \in {Name(b) : b \in Complete} |->
                        Text(CHOOSE b \in Complete : Name(b) = name)]
    BY <2>3, <2>4, <2>5 DEF Meaning
  <2>7. {Name(b) : b \in Complete} = Names
    <3>1. \A b \in Complete : Name(b) \in Names BY <1>1, <2>1, <2>2, <2>3
    <3>2. \A k \in 1 .. N : \E b \in Complete : Name(b) = shown[k].name BY <2>1, <2>2, <2>3
    <3> QED BY <1>1, <3>1, <3>2
  <2>8. ASSUME NEW name \in Names
        PROVE  Text(CHOOSE b \in Complete : Name(b) = name) = Of(name).text
    <3>1. PICK k \in 1 .. N : name = shown[k].name BY <1>1
    <3>2. PICK b \in Complete : Field(b) = Pair(shown[k]) BY <2>1, <2>3
    <3>3. Name(b) = name /\ Text(b) = shown[k].text BY <2>2, <3>1, <3>2
    <3>4. (CHOOSE c \in Complete : Name(c) = name) = b BY <2>4, <3>3
    <3>5. shown[k] \in Range(shown) BY <1>1 DEF Range
    <3>6. \A control \in Range(shown) : control.name = name => control = shown[k]
      BY <1>1, <3>1 DEF Range
    <3>7. Of(name) = shown[k] BY <3>1, <3>5, <3>6
    <3> QED BY <3>3, <3>4, <3>7
  <2> HIDE DEF Names, Of
  <2>9. Meaning = [name \in Names |-> Of(name).text] BY <2>6, <2>7, <2>8
  <2> QED BY <2>9 DEF ReadAsWritten, Names, Of
<1> QED BY <1>2, <1>3

LEMMA FormInvGivesForm == ASSUME FormInv, ReadAsWritten PROVE FormComesBack
<1> SUFFICES ASSUME at = "form", Len(message) = Len(Posted)
             PROVE  PostData = [name \in {shown[n].name : n \in DOMAIN shown} |->
                        (CHOOSE control \in Range(shown) : control.name = name).text]
  BY DEF FormComesBack
<1>1. /\ IsForm(shown) /\ message \in Seq(Sent)
      /\ \A k \in 1 .. Len(message) : message[k] = Posted[k]
  BY DEF FormInv
<1>2. Posted \in Seq(Sent) BY <1>1, PostedIs, PostedTyped
<1>3. message = Posted BY <1>1, <1>2, SeqEqual
<1> QED BY <1>1, <1>3, FormGivesData

\* A form comes to perform_post_action name by name as the page showed it, for
\* any column, prompt and options, and texts of any length: encoded by the
\* browser, split and decoded (parse_key_eq_val.c:47-330), no text is taken for
\* a sign of the form, and none is lost.
THEOREM FormsComeBack == Spec => []FormComesBack
<1>1. Init => FormInv BY FormStarts
<1>2. FormInv /\ [Next]_vars => FormInv' BY FormKept
<1>3. FormInv /\ ReadAsWritten => FormComesBack BY FormInvGivesForm
<1> QED BY <1>1, <1>2, <1>3, MessagesReadAsWritten, PTL DEF Spec

-----------------------------------------------------------------------------
(* A form that is saved without a change *)

\* All columns but arrays, and all prompts but that of an array.
NoArray == column.type # "array" /\ column.prompt # "text_array"

IsOption(text) ==
    Options # Null /\ text \in Range(Options) /\ text \in AnyText /\ Matches(text)

\* What a form may send for the value that it shows.
Sends(text) ==
    \/ text = Shown
    \/ column.prompt \in Selects /\ text = Stripped(Shown)
    \/ IsOption(text)

LEMMA FoldedIs ==
    ASSUME NEW text \in AnyText
    PROVE  /\ FoldCase(text) = <<>> <=> text = <<>>
           /\ FoldCase(text) = <<"t">> => text \in {<<"t">>, <<"T">>}
           /\ FoldCase(text) = <<"f">> => text = <<"f">>
           /\ FoldCase(text) = <<"yes">> => text = <<"yes">>
<1> DEFINE Fold(char) == CASE char = "X" -> "x" [] char = "T" -> "t" [] OTHER -> char
           f == FoldCase(text)
<1>1. Len(text) \in Nat /\ DOMAIN text = 1 .. Len(text) /\ text \in Seq(Characters)
  BY LenProperties DEF AnyText
<1>2. /\ f = [k \in 1 .. Len(text) |-> Fold(text[k])]
      /\ \A k \in 1 .. Len(text) : f[k] = Fold(text[k])
  BY <1>1 DEF FoldCase
<1>3. DOMAIN f = 1 .. Len(text) BY <1>2
<1>4. \A char : /\ Fold(char) = "t" => char \in {"t", "T"}
                /\ Fold(char) = "f" => char = "f"
                /\ Fold(char) = "yes" => char = "yes"
  OBVIOUS
<1> HIDE DEF f, Fold
<1>5. f = <<>> <=> text = <<>>
  <2>1. ASSUME f = <<>> PROVE text = <<>>
    <3>1. DOMAIN f = {} BY <2>1
    <3>a. Len(text) # 0 => 1 \in 1 .. Len(text) BY <1>1
    <3>b. 1 \notin 1 .. Len(text) BY <1>3, <3>1, Zenon
    <3>2. Len(text) = 0 BY <3>a, <3>b
    <3> QED BY <1>1, <3>2, EmptySeq
  <2>2. ASSUME text = <<>> PROVE f = <<>>
    <3>1. Len(text) = 0 BY <2>2
    <3> QED BY <1>2, <3>1
  <2> QED BY <2>1, <2>2
<1>6. ASSUME NEW char, f = <<char>>
      PROVE  \E c : text = <<c>> /\ Fold(c) = char
  <2>1. DOMAIN f = 1 .. 1 /\ f[1] = char BY <1>6
  <2>2. Len(text) = 1
    <3>a. 1 \in 1 .. 1 /\ ~ (2 \in 1 .. 1) OBVIOUS
    <3>b. 1 .. 1 = 1 .. Len(text) BY <1>3, <2>1, Zenon
    <3>1. 1 \in 1 .. Len(text) /\ ~ (2 \in 1 .. Len(text)) BY <3>a, <3>b, Zenon
    <3> QED BY <1>1, <3>1
  <2>3. text = <<text[1]>>
    <3>1. PICK c \in Characters : c = text[1] BY <1>1, <2>2
    <3>2. <<c>> \in Seq(Characters) /\ Len(<<c>>) = 1 /\ <<c>>[1] = c OBVIOUS
    <3>3. text = <<c>> BY <1>1, <2>2, <3>1, <3>2, SeqEqual
    <3> QED BY <3>1, <3>3
  <2>4. Fold(text[1]) = char BY <1>2, <2>1, <2>2
  <2> QED BY <2>3, <2>4
<1>7. f = <<"t">> => text \in {<<"t">>, <<"T">>} BY <1>4, <1>6
<1>8. f = <<"f">> => text = <<"f">> BY <1>4, <1>6
<1>9. f = <<"yes">> => text = <<"yes">> BY <1>4, <1>6
<1> QED BY <1>5, <1>7, <1>8, <1>9 DEF f

LEMMA FoldedSigns ==
    /\ FoldCase(<<"t">>) = <<"t">> /\ FoldCase(<<"f">>) = <<"f">>
    /\ FoldCase(<<"yes">>) = <<"yes">> /\ FoldCase(<<>>) = <<>>
    /\ <<"t">> # <<"f">> /\ <<"yes">> # <<"f">> /\ <<"t">> # <<>> /\ <<"f">> # <<>>
    /\ <<"T">> # <<"t">> /\ <<"yes">> # <<"t">> /\ <<"no">> # <<"t">> /\ <<"no">> # <<"yes">>
<1>1. ASSUME NEW a, NEW b, <<a>> = <<b>> PROVE a = b
  <2>1. <<a>>[1] = a /\ <<b>>[1] = b OBVIOUS
  <2> QED BY <1>1, <2>1, Zenon
<1>2. <<"t">> # <<>> /\ <<"f">> # <<>> OBVIOUS
<1>3. FoldCase(<<>>) = <<>> BY DEF FoldCase
<1>4. \A c : c # "X" /\ c # "T" => FoldCase(<<c>>) = <<c>> BY DEF FoldCase
<1>5. /\ FoldCase(<<"t">>) = <<"t">> /\ FoldCase(<<"f">>) = <<"f">>
      /\ FoldCase(<<"yes">>) = <<"yes">>
  BY <1>4
<1> QED BY <1>1, <1>2, <1>3, <1>5

\* Of the options of a select some are selected, and all of these may be sent.
LEMMA SelectedSends ==
    ASSUME column \in Columns, column.prompt \in Selects, SelectOptions(Options) # <<>>
    PROVE  /\ \E r \in Range(SelectOptions(Options)) : r.selected
           /\ \A r \in Range(SelectOptions(Options)) : r.selected => Sends(r.text)
<1> DEFINE blank == Option(<<>>, Shown = <<>>)
           current == Option(Stripped(Shown), TRUE)
           first == IF column.nullable THEN <<blank>> ELSE <<>>
           rest == IF Options # Null THEN Marked(Options) \o CurrentValue(Options)
                   ELSE IF Shown # <<>> THEN ShownOption ELSE <<>>
           all == SelectOptions(Options)
<1>1. all = first \o rest BY Zenon DEF SelectOptions
<1>2. ShownOption = <<current>> BY DEF ShownOption
<1>a. /\ blank.text = <<>> /\ (blank.selected <=> Shown = <<>>)
      /\ current.text = Stripped(Shown) /\ current.selected
  BY DEF Option
<1>3. /\ blank \in OptionRecords /\ current \in OptionRecords
  <2>1. <<>> \in AnyText /\ (Shown = <<>>) \in BOOLEAN BY DEF AnyText
  <2>2. Stripped(Shown) \in AnyText BY ShownTyped, StrippedTyped
  <2> QED BY <2>1, <2>2 DEF Option, OptionRecords
<1>b. Options # Null =>
        /\ Options \in Seq(AnyText) /\ Marked(Options) \in Seq(OptionRecords)
        /\ CurrentValue(Options) =
                IF \E k \in DOMAIN Options : Matches(Options[k]) THEN <<>> ELSE <<current>>
  BY <1>2, OptionsTyped, MarkedTyped, Zenon DEF CurrentValue
<1> HIDE DEF blank, current
<1>4. /\ \A r \in OptionRecords : <<r>> \in Seq(OptionRecords)
      /\ <<>> \in Seq(OptionRecords)
  OBVIOUS
<1>5. first \in Seq(OptionRecords) BY <1>3, <1>4
<1>6. rest \in Seq(OptionRecords)
  <2>1. CASE Options = Null BY <1>2, <1>3, <1>4, <2>1
  <2>2. CASE Options # Null
    <3>1. Marked(Options) \in Seq(OptionRecords) /\ CurrentValue(Options) \in Seq(OptionRecords)
      BY <1>3, <1>4, <1>b, <2>2, Zenon
    <3>2. Marked(Options) \o CurrentValue(Options) \in Seq(OptionRecords) BY <3>1, ConcatProperties
    <3> QED BY <2>2, <3>2
  <2> QED BY <2>1, <2>2
<1>7. Range(<<>>) = {} /\ \A r : Range(<<r>>) = {r} BY DEF Range
<1>8. Range(first) = IF column.nullable THEN {blank} ELSE {} BY <1>7
<1>9. Range(all) = Range(first) \cup Range(rest)
  <2> HIDE DEF first, rest, all
  <2> QED BY <1>1, <1>5, <1>6, RangeConcatenation
<1>10. CASE Options = Null
  <2>1. rest = IF Shown # <<>> THEN <<current>> ELSE <<>> BY <1>2, <1>10
  <2>2. Range(rest) = IF Shown # <<>> THEN {current} ELSE {} BY <1>7, <2>1
  <2>3. Shown # <<>> \/ column.nullable
    <3>1. ASSUME Shown = <<>>, ~column.nullable PROVE FALSE
      <4>1. first = <<>> /\ rest = <<>> BY <2>1, <3>1
      <4>2. all = <<>> BY <1>1, <4>1
      <4> QED BY <4>2
    <3> QED BY <3>1
  <2> HIDE DEF first, rest, all
  <2>4. \E r \in Range(all) : r.selected BY <1>8, <1>9, <1>a, <2>2, <2>3
  <2>5. \A r \in Range(all) : r.selected => Sends(r.text) BY <1>8, <1>9, <1>a, <2>2 DEF Sends
  <2> QED BY <2>4, <2>5 DEF all
<1>11. CASE Options # Null
  <2>1. rest = Marked(Options) \o CurrentValue(Options) BY <1>11
  <2>2. CurrentValue(Options) \in Seq(OptionRecords) BY <1>3, <1>4, <1>b, <1>11, Zenon
  <2>3. Range(rest) = Range(Marked(Options)) \cup Range(CurrentValue(Options))
    BY <1>b, <1>11, <2>1, <2>2, RangeConcatenation
  <2> HIDE DEF first, rest, all
  <2>4. /\ DOMAIN Marked(Options) = DOMAIN Options
        /\ \A k \in DOMAIN Options : /\ Marked(Options)[k].text = Options[k]
                                     /\ Marked(Options)[k].selected <=> Matches(Options[k])
    BY DEF Marked, Option
  <2>5. \A k \in DOMAIN Options : Options[k] \in AnyText /\ Options[k] \in Range(Options)
    BY <1>b, <1>11, LenProperties DEF Range
  <2>6. \A r \in Range(Marked(Options)) : r.selected => Sends(r.text)
    BY <1>11, <2>4, <2>5 DEF Range, Sends, IsOption
  <2>7. \A r \in Range(CurrentValue(Options)) : r = current BY <1>7, <1>b, <1>11
  <2>8. \A r \in Range(all) : r.selected => Sends(r.text)
    BY <1>8, <1>9, <1>a, <2>3, <2>6, <2>7 DEF Sends
  <2>9. \E r \in Range(rest) : r.selected
    <3>1. CASE \E k \in DOMAIN Options : Matches(Options[k])
      <4>1. PICK k \in DOMAIN Options : Matches(Options[k]) BY <3>1
      <4>2. Marked(Options)[k] \in Range(Marked(Options)) /\ Marked(Options)[k].selected
        BY <2>4, <4>1 DEF Range
      <4> QED BY <2>3, <4>2
    <3>2. CASE ~ \E k \in DOMAIN Options : Matches(Options[k])
      <4>1. CurrentValue(Options) = <<current>> BY <1>b, <1>11, <3>2, Zenon
      <4>2. current \in Range(CurrentValue(Options)) BY <1>7, <4>1
      <4> QED BY <1>a, <2>3, <4>2
    <3> QED BY <3>1, <3>2
  <2> QED BY <1>9, <2>8, <2>9 DEF all
<1> QED BY <1>10, <1>11

LEMMA SelectSends ==
    ASSUME column \in Columns, column.prompt \in Selects
    PROVE  LET form == Select(SelectOptions(Options))
           IN  form = <<>> \/ \E text \in AnyText : form = Control(text) /\ Sends(text)
<1> DEFINE all == SelectOptions(Options)
           S == {1} \cup Selected(all)
<1>1. all \in Seq(OptionRecords) BY OptionsTyped, SelectOptionsTyped
<1>2. CASE all = <<>> BY <1>2 DEF Select
<1>3. CASE all # <<>>
  <2>1. /\ \E r \in Range(all) : r.selected
        /\ \A r \in Range(all) : r.selected => Sends(r.text)
    BY <1>3, SelectedSends
  <2>2. Select(all) = Control(all[Max(S)].text) BY <1>3 DEF Select
  <2> HIDE DEF all
  <2>3. Len(all) \in Nat /\ DOMAIN all = 1 .. Len(all) BY <1>1, LenProperties
  <2>4. PICK k \in 1 .. Len(all) : all[k].selected BY <2>1, <2>3 DEF Range
  <2>5. S \in SUBSET (1 .. Len(all)) /\ S # {} /\ k \in S BY <2>3, <2>4 DEF Selected
  <2>6. PICK m \in S : m = Max(S) /\ \A y \in S : m >= y BY <2>3, <2>5, MaxIs
  <2>7. m \in 1 .. Len(all) BY <2>5
  <2>8. all[m].selected
    <3>1. CASE m \in Selected(all) BY <3>1 DEF Selected
    <3>2. CASE m = 1
      <4>1. k <= 1 BY <2>5, <2>6, <3>2
      <4> QED BY <2>4, <3>2, <4>1
    <3> QED BY <3>1, <3>2
  <2>9. Sends(all[m].text) BY <2>1, <2>3, <2>7, <2>8 DEF Range
  <2>a. all[m] \in OptionRecords BY <1>1, <2>7
  <2>10. all[m].text \in AnyText BY <2>a DEF OptionRecords
  <2> QED BY <2>2, <2>6, <2>9, <2>10 DEF all
<1> QED BY <1>2, <1>3

LEMMA RadioSends ==
    ASSUME column \in Columns
    PROVE  \/ Radio(Options) = <<>>
           \/ \E text \in AnyText : Radio(Options) = Control(text) /\ Sends(text)
<1> DEFINE S == Selected(Marked(Options))
<1>1. CASE Options = Null \/ S = {} BY <1>1 DEF Radio
<1>2. CASE Options # Null /\ S # {}
  <2>1. Options \in Seq(AnyText) BY <1>2, OptionsTyped
  <2>2. Len(Options) \in Nat /\ DOMAIN Options = 1 .. Len(Options) BY <2>1, LenProperties
  <2>3. S \in SUBSET (1 .. Len(Options)) BY <2>2 DEF Selected, Marked
  <2>4. Radio(Options) = Control(Options[Max(S)]) BY <1>2, Zenon DEF Radio
  <2>5. \A k \in S : Matches(Options[k]) BY DEF Selected, Marked, Option
  <2> HIDE DEF S
  <2>6. Max(S) \in S BY <1>2, <2>2, <2>3, MaxIs
  <2>7. PICK m \in 1 .. Len(Options) : m = Max(S) BY <2>3, <2>6
  <2>8. Options[m] \in AnyText /\ Options[m] \in Range(Options) BY <2>1, <2>2 DEF Range
  <2>9. Sends(Options[m]) BY <1>2, <2>5, <2>6, <2>7, <2>8 DEF Sends, IsOption
  <2> QED BY <2>4, <2>7, <2>8, <2>9
<1> QED BY <1>1, <1>2

LEMMA AddPromptSends ==
    ASSUME column \in Columns, NoArray, AddPrompt, at' = "form"
    PROVE  shown' = <<>> \/ \E text \in AnyText : shown' = Control(text) /\ Sends(text)
<1>1. Shown \in AnyText /\ Sends(Shown) BY ShownTyped DEF Sends
<1>2. \/ Show(Control(Shown))
      \/ column.prompt \in Selects /\ Show(Select(SelectOptions(Options)))
      \/ Show(Radio(Options))
      \/ Show(<<>>)
  BY DEF AddPrompt, NoArray
<1>3. ASSUME NEW form, Show(form) PROVE shown' = form BY <1>3 DEF Show
<1> QED BY <1>1, <1>2, <1>3, SelectSends, RadioSends

LEMMA SameColumn ==
    ASSUME column' = column
    PROVE  /\ Shown' = Shown /\ Options' = Options /\ Selects' = Selects
           /\ NoArray' <=> NoArray
           /\ \A text : /\ Stored(text)' = Stored(text)
                        /\ NullIfEmpty(text)' = NullIfEmpty(text)
                        /\ Matches(text)' <=> Matches(text)
BY DEF Shown, Options, Selects, NoArray, Stored, NullIfEmpty, Matches

\* A boolean: what an option like the value is stored as.
LEMMA BooleanKept ==
    ASSUME column \in Columns, column.type = "boolean", NEW text \in AnyText, text # <<>>,
           Matches(text), BooleanIn(text) # Null
    PROVE  \/ BooleanIn(text) = column.value
           \/ column.value = Null /\ BooleanIn(text) = <<"f">>
           \/ text = <<"T">> /\ BooleanIn(text) = <<"t">>
<1>1. /\ column.value \in {Null, <<"t">>, <<"f">>}
      /\ Shown = IF column.value = Null THEN <<>> ELSE column.value
  BY ColumnsAssumption DEF Shown
<1>2. SameButCase(Shown, text) \/ Truthishness(Shown) = Truthishness(text) BY Zenon DEF Matches
<1>3. CASE FoldCase(text) \in {<<"t">>, <<"yes">>}
  <2>1. BooleanIn(text) = <<"t">> BY <1>3 DEF BooleanIn
  <2>2. text \in {<<"t">>, <<"T">>, <<"yes">>} BY <1>3, FoldedIs
  <2>3. CASE text = <<"T">> BY <2>1, <2>3
  <2>4. CASE text \in {<<"t">>, <<"yes">>}
    <3>1. Truthishness(text) = TRUE BY <2>4 DEF Truthishness
    <3>2. CASE SameButCase(Shown, text)
      <4>1. FoldCase(Shown) \in {<<"t">>, <<"yes">>} BY <1>3, <3>2 DEF SameButCase
      <4>2. Shown # <<>> /\ Shown # <<"f">> BY <4>1, FoldedSigns
      <4> QED BY <1>1, <2>1, <4>2
    <3>3. CASE Truthishness(Shown) = Truthishness(text)
      <4>1. Shown \in {<<"t">>, <<"yes">>} BY <3>1, <3>3 DEF Truthishness
      <4>2. Shown # <<>> /\ Shown # <<"f">> BY <4>1, FoldedSigns
      <4> QED BY <1>1, <2>1, <4>2
    <3> QED BY <1>2, <3>2, <3>3
  <2> QED BY <2>2, <2>3, <2>4
<1>4. CASE FoldCase(text) \in {<<"f">>, <<"no">>}
  <2>1. FoldCase(text) # <<"t">> /\ FoldCase(text) # <<"yes">> BY <1>4, FoldedSigns
  <2>2. BooleanIn(text) = <<"f">> BY <1>4, <2>1 DEF BooleanIn
  <2>3. text # <<"t">> /\ text # <<"yes">> BY <2>1, FoldedSigns
  <2>4. Truthishness(text) = FALSE BY <2>3 DEF Truthishness
  <2>5. Shown # <<"t">>
    <3>1. CASE SameButCase(Shown, text) BY <2>1, <3>1, FoldedSigns DEF SameButCase
    <3>2. CASE Truthishness(Shown) = Truthishness(text) BY <2>4, <3>2 DEF Truthishness
    <3> QED BY <1>2, <3>1, <3>2
  <2> QED BY <1>1, <2>2, <2>5
<1>5. CASE FoldCase(text) \notin {<<"t">>, <<"yes">>, <<"f">>, <<"no">>}
  <2>1. BooleanIn(text) = Null BY <1>5 DEF BooleanIn
  <2> QED BY <2>1
<1> QED BY <1>3, <1>4, <1>5

LEMMA Saved ==
    ASSUME column \in Columns, NoArray, NEW text \in AnyText, Sends(text),
           ~(text # <<>> /\ Stored(text) = Null),
           column' = column, saved' = NullIfEmpty(text)
    PROVE  EditWithoutChange'
<1> DEFINE value == column.value
<1>1. /\ Shown = IF value = Null THEN <<>> ELSE value
      /\ value = Null \/ value \in AnyText
      /\ column.type = "boolean" => value \in {Null, <<"t">>, <<"f">>}
      /\ Shown \in AnyText
  BY ColumnIs, ColumnsAssumption, ShownTyped DEF Shown, NoArray
<1>2. Shown' = Shown /\ Options' = Options /\ Selects' = Selects /\ column' = column
  BY SameColumn
<1>3. /\ saved' = value => EditWithoutChange'
      /\ value = <<>> /\ saved' = Null => EditWithoutChange'
      /\ column.type = "boolean" /\ {value, saved'} = {Null, <<"f">>} => EditWithoutChange'
      /\ column.prompt \in Selects /\ saved' = NullIfEmpty(Stripped(Shown)) => EditWithoutChange'
      /\ Options # Null /\ saved' # Null /\ SameButCase(Shown, saved') => EditWithoutChange'
      /\ /\ column.type = "boolean" /\ saved' = <<"t">>
         /\ Options # Null /\ <<"T">> \in Range(Options)
         => EditWithoutChange'
  <2>1. NullIfEmpty(Stripped(Shown))' = NullIfEmpty(Stripped(Shown)) BY <1>2 DEF NullIfEmpty, Stored
  <2> QED BY <1>2, <2>1 DEF EditWithoutChange, Merged, Misread, NoArray
<1>4. CASE Shown = <<>> /\ text = <<>>
  <2>1. saved' = Null BY <1>4 DEF NullIfEmpty
  <2> QED BY <1>1, <1>3, <1>4, <2>1
<1>5. CASE column.prompt \in Selects /\ text = Stripped(Shown) BY <1>3, <1>5
<1>6. CASE text = Shown /\ text # <<>>
  <2>1. value # Null /\ text = value BY <1>1, <1>6
  <2>2. saved' = Stored(value) BY <1>6, <2>1 DEF NullIfEmpty
  <2>3. CASE column.type = "boolean"
    <3>1. value \in {<<"t">>, <<"f">>} BY <1>1, <2>1, <2>3
    <3>2. BooleanIn(value) = value BY <3>1, FoldedSigns DEF BooleanIn
    <3>3. Stored(value) = value BY <2>3, <3>2 DEF Stored
    <3> QED BY <1>3, <2>2, <3>3
  <2>4. CASE column.type # "boolean"
    <3>1. Stored(value) = value BY <2>4 DEF Stored, NoArray
    <3> QED BY <1>3, <2>2, <3>1
  <2> QED BY <2>3, <2>4
<1>7. CASE IsOption(text) /\ text = <<>>
  <2>1. saved' = Null BY <1>7 DEF NullIfEmpty
  <2>2. SameButCase(Shown, <<>>) \/ column.type = "boolean" BY <1>7 DEF IsOption, Matches
  <2>3. CASE SameButCase(Shown, <<>>)
    <3>1. FoldCase(Shown) = <<>> BY <2>3, FoldedSigns DEF SameButCase
    <3>2. Shown = <<>> BY <1>1, <3>1, FoldedIs
    <3> QED BY <1>4, <1>7, <3>2
  <2>4. CASE column.type = "boolean" /\ ~SameButCase(Shown, <<>>)
    <3>1. Truthishness(Shown) = Truthishness(<<>>) BY <1>7, <2>4, Zenon DEF IsOption, Matches
    <3>2. ~Truthishness(<<>>) /\ Truthishness(<<"t">>) BY DEF Truthishness
    <3>3. value = Null \/ value = <<"f">> BY <1>1, <2>4, <3>1, <3>2
    <3> QED BY <1>3, <2>1, <2>4, <3>3
  <2> QED BY <2>2, <2>3, <2>4
<1>8. CASE IsOption(text) /\ text # <<>>
  <2>1. saved' = Stored(text) /\ Stored(text) # Null BY <1>8 DEF NullIfEmpty
  <2>2. Options # Null /\ text \in Range(Options) /\ Matches(text) BY <1>8 DEF IsOption
  <2>3. CASE column.type = "boolean"
    <3>1. Stored(text) = BooleanIn(text) BY <2>3 DEF Stored
    <3>2. \/ saved' = value
          \/ value = Null /\ saved' = <<"f">>
          \/ text = <<"T">> /\ saved' = <<"t">>
      BY <1>8, <2>1, <2>2, <2>3, <3>1, BooleanKept
    <3> QED BY <1>3, <2>2, <2>3, <3>2
  <2>4. CASE column.type # "boolean"
    <3>1. Stored(text) = text BY <2>4 DEF Stored, NoArray
    <3>2. SameButCase(Shown, text) BY <2>2, <2>4, Zenon DEF Matches
    <3> QED BY <1>3, <2>1, <2>2, <3>1, <3>2
  <2> QED BY <2>3, <2>4
<1> QED BY <1>4, <1>5, <1>6, <1>7, <1>8 DEF Sends

\* Until the form is posted it is one of a text that the column may send; and
\* what is saved then is as EditWithoutChange says.
EditInv ==
    /\ FormInv
    /\ NoArray /\ at = "form" =>
        shown = <<>> \/ \E text \in AnyText : shown = Control(text) /\ Sends(text)
    /\ NoArray => EditWithoutChange

LEMMA EditStarts == ASSUME Init PROVE EditInv
<1>1. FormInv BY FormStarts
<1>2. at = "row" BY DEF Init
<1> QED BY <1>1, <1>2 DEF EditInv, EditWithoutChange

\* The data of a form with one control.
LEMMA DataOfOne ==
    ASSUME NEW text, shown = Control(text),
           PostData = [name \in {shown[n].name : n \in DOMAIN shown} |->
                        (CHOOSE control \in Range(shown) : control.name = name).text]
    PROVE  DOMAIN PostData = {column.name} /\ PostData[column.name] = text
<1> DEFINE c == [name |-> column.name, text |-> text]
           Names == {shown[n].name : n \in DOMAIN shown}
           Of(name) == (CHOOSE control \in Range(shown) : control.name = name).text
<1>1. shown = <<c>> BY DEF Control
<1>2. c.name = column.name /\ c.text = text OBVIOUS
<1>3. PostData = [name \in Names |-> Of(name)] OBVIOUS
<1> HIDE DEF c
<1>4. DOMAIN shown = {1} /\ shown[1] = c BY <1>1
<1>5. Names = {column.name} BY <1>2, <1>4
<1>6. Range(shown) = {c} BY <1>4 DEF Range
<1>7. Of(column.name) = text
  <2>1. (CHOOSE control \in Range(shown) : control.name = column.name) = c BY <1>2, <1>6
  <2> QED BY <1>2, <2>1
<1> HIDE DEF Names, Of
<1> QED BY <1>3, <1>5, <1>7

LEMMA PerformKeeps ==
    ASSUME EditInv, ReadAsWritten, PerformPostAction, NoArray
    PROVE  EditWithoutChange'
<1>1. /\ at = "form" /\ Len(message) = Len(Posted) /\ column' = column
      /\ column \in Columns
      /\ shown = <<>> \/ \E text \in AnyText : shown = Control(text) /\ Sends(text)
  BY DEF PerformPostAction, EditInv, FormInv
<1>2. PostData = [name \in {shown[n].name : n \in DOMAIN shown} |->
                    (CHOOSE control \in Range(shown) : control.name = name).text]
  BY <1>1, FormInvGivesForm DEF FormComesBack, EditInv
<1>3. CASE at' = "refused" BY <1>3 DEF EditWithoutChange
<1>4. CASE at' # "refused"
  <2>1. /\ Parameter # Null /\ ~(Parameter # <<>> /\ Stored(Parameter) = Null)
        /\ saved' = NullIfEmpty(Parameter)
    BY <1>4 DEF PerformPostAction
  <2>2. CASE shown = <<>>
    <3>1. DOMAIN PostData = {} BY <1>2, <2>2
    <3>2. Parameter = Null BY <3>1 DEF Parameter, NoArray
    <3> QED BY <2>1, <3>2
  <2>3. CASE \E text \in AnyText : shown = Control(text) /\ Sends(text)
    <3>1. PICK text \in AnyText : shown = Control(text) /\ Sends(text) BY <2>3
    <3>2. DOMAIN PostData = {column.name} /\ PostData[column.name] = text BY <1>2, <3>1, DataOfOne
    <3>3. Parameter = text BY <3>2 DEF Parameter
    <3> QED BY <1>1, <2>1, <3>1, <3>3, Saved
  <2> QED BY <1>1, <2>2, <2>3
<1> QED BY <1>3, <1>4

LEMMA EditKept == ASSUME EditInv, ReadAsWritten, [Next]_vars PROVE EditInv'
<1>1. FormInv' BY FormKept DEF EditInv
<1>2. CASE AddPrompt
  <2>1. column' = column /\ column \in Columns /\ at' \in {"form", "broken", "error"}
    BY <1>2, AddPromptShowsForm DEF AddPrompt, EditInv, FormInv
  <2>2. EditWithoutChange' BY <2>1 DEF EditWithoutChange
  <2>3. NoArray /\ at' = "form" =>
            shown' = <<>> \/ \E text \in AnyText : shown' = Control(text) /\ Sends(text)
    BY <1>2, <2>1, AddPromptSends
  <2>4. \A text : Control(text)' = Control(text) /\ (Sends(text)' <=> Sends(text))
    BY <2>1, SameColumn DEF Control, Sends, IsOption
  <2> QED BY <1>1, <2>1, <2>2, <2>3, <2>4, SameColumn DEF EditInv
<1>3. CASE ReadForm
  <2>1. at = "form" /\ at' = at /\ shown' = shown /\ column' = column BY <1>3 DEF ReadForm, field
  <2>2. EditWithoutChange' BY <2>1 DEF EditWithoutChange
  <2>4. \A text : Control(text)' = Control(text) /\ (Sends(text)' <=> Sends(text))
    BY <2>1, SameColumn DEF Control, Sends, IsOption
  <2> QED BY <1>1, <2>1, <2>2, <2>4, SameColumn DEF EditInv
<1>4. CASE ReadOther
  <2>1. at' = "other" BY <1>4 DEF ReadOther
  <2> QED BY <1>1, <2>1 DEF EditInv, EditWithoutChange
<1>5. CASE PerformPostAction
  <2>1. at' \in {"refused", "saved"} /\ column' = column BY <1>5, Zenon DEF PerformPostAction
  <2>2. NoArray => EditWithoutChange' BY <1>5, PerformKeeps
  <2> QED BY <1>1, <2>1, <2>2, SameColumn DEF EditInv
<1>6. CASE UNCHANGED vars
  <2>1. at' = at /\ shown' = shown /\ column' = column /\ saved' = saved
    BY <1>6 DEF vars, field
  <2>2. /\ Shown' = Shown /\ Options' = Options /\ Selects' = Selects
        /\ NullIfEmpty(Stripped(Shown))' = NullIfEmpty(Stripped(Shown))
    BY <2>1 DEF Shown, Options, Selects, NullIfEmpty, Stored
  <2>3. EditWithoutChange' <=> EditWithoutChange
    BY <2>1, <2>2 DEF EditWithoutChange, Merged, Misread, Regrouped
  <2>4. \A text : Control(text)' = Control(text) /\ (Sends(text)' <=> Sends(text))
    BY <2>1, SameColumn DEF Control, Sends, IsOption
  <2> QED BY <1>1, <2>1, <2>3, <2>4, SameColumn DEF EditInv
<1> QED BY <1>2, <1>3, <1>4, <1>5, <1>6 DEF Next

\* For every column but an array, every prompt but that of an array, and any
\* options: what an unchanged form stores is what the database had, or one of
\* the values that the prompts do not keep apart (prompt_rule.c:283-312,
\* 640-745, 790-870, opentable.c:980-1180).
THEOREM UnchangedFormKeepsValue == Spec => [](NoArray => EditWithoutChange)
<1>1. Init => EditInv BY EditStarts
<1>2. EditInv /\ ReadAsWritten /\ [Next]_vars => EditInv' BY EditKept
<1>3. EditInv => (NoArray => EditWithoutChange) BY DEF EditInv
<1> QED BY <1>1, <1>2, <1>3, MessagesReadAsWritten, PTL DEF Spec

-----------------------------------------------------------------------------
(* The signs of an array, and how the parser sees them *)

\* The signs of an array by their names.
Open  == "{"
Close == "}"
Comma == ","
Blank == " "
Quote == "\""
Slash == "\\"
Apostrophe == "'"

LEMMA SignsDiffer ==
    /\ Open \notin {Close, Comma, Blank, Quote, Slash, Apostrophe}
    /\ Close \notin {Comma, Blank, Quote, Slash, Apostrophe}
    /\ Comma \notin {Blank, Quote, Slash, Apostrophe}
    /\ Blank \notin {Quote, Slash, Apostrophe}
    /\ Quote \notin {Slash, Apostrophe}
    /\ Slash # Apostrophe
BY Zenon DEF Open, Close, Comma, Blank, Quote, Slash, Apostrophe

LEMMA ClassIs ==
    /\ Arrays!Class(Open) = "open" /\ Arrays!Class(Close) = "close"
    /\ Arrays!Class(Comma) = "comma" /\ Arrays!Class(Quote) = "quote"
    /\ Arrays!Class(Apostrophe) = "other"
    /\ \A char : char \notin {Open, Close, Comma, Blank, Quote, Apostrophe}
                => Arrays!Class(char) = "legal"
<1> DEFINE Of(char) == CASE char = Open  -> "open"
                         [] char = Close -> "close"
                         [] char = Comma -> "comma"
                         [] char = Blank -> "space"
                         [] char = Quote -> "quote"
                         [] char = Apostrophe -> "other"
                         [] OTHER -> "legal"
<1>1. \A char : Arrays!Class(char) = Of(char)
  BY Zenon DEF Arrays!Class, Open, Close, Comma, Blank, Quote, Apostrophe
<1> QED BY <1>1, SignsDiffer

LEMMA Leads ==
    /\ Arrays!NextState("begin", Open) = "firstval"
    /\ Arrays!NextState("firstval", Open) = "error"
    /\ \A char : Arrays!Class(char) = "legal" => Arrays!NextState("begin", char) = "error"
    /\ \A s \in Arrays!Starting :
        /\ \A char : Arrays!Class(char) = "legal" => Arrays!NextState(s, char) = "inval"
        /\ Arrays!NextState(s, Quote) = "inquote"
        /\ Arrays!NextState(s, Apostrophe) = "error"
    /\ \A char : Arrays!Class(char) \in {"legal", "other"} => Arrays!NextState("inval", char) = "inval"
    /\ \A char : char \notin {Quote, Slash} => Arrays!NextState("inquote", char) = "inquote"
    /\ Arrays!NextState("inquote", Slash) = "escapeq"
    /\ Arrays!NextState("inquote", Quote) = "findcomma"
    /\ \A char : Arrays!NextState("escapeq", char) = "inquote"
    /\ \A s \in {"inval", "findcomma"} :
        /\ Arrays!NextState(s, Comma) = "findval"
        /\ Arrays!NextState(s, Close) = "finish"
    /\ Arrays!NextState("firstval", Close) = "finish"
    /\ \A char : Arrays!NextState("error", char) = "error"
<1> DEFINE T == Arrays!Table
<1>1. ASSUME NEW s, s \notin {"inquote", "escapeq"}, NEW char
      PROVE  Arrays!NextState(s, char) =
                IF Arrays!Class(char) \in DOMAIN T[s] THEN T[s][Arrays!Class(char)] ELSE "error"
  BY <1>1 DEF Arrays!NextState
<1>2. /\ DOMAIN T["begin"] = {"open", "space"} /\ T["begin"]["open"] = "firstval"
      /\ DOMAIN T["error"] = {}
  BY DEF Arrays!Table
<1>3. /\ DOMAIN T["firstval"] = {"legal", "quote", "close", "space"}
      /\ T["firstval"]["legal"] = "inval" /\ T["firstval"]["quote"] = "inquote"
      /\ T["firstval"]["close"] = "finish"
  BY DEF Arrays!Table
<1>4. /\ DOMAIN T["findval"] = {"legal", "quote", "space"}
      /\ T["findval"]["legal"] = "inval" /\ T["findval"]["quote"] = "inquote"
  BY DEF Arrays!Table
<1>5. /\ DOMAIN T["inval"] = {"legal", "quote", "other", "space", "comma", "close"}
      /\ T["inval"]["legal"] = "inval" /\ T["inval"]["other"] = "inval"
      /\ T["inval"]["comma"] = "findval" /\ T["inval"]["close"] = "finish"
  BY DEF Arrays!Table
<1>6. /\ DOMAIN T["findcomma"] = {"comma", "close", "space"}
      /\ T["findcomma"]["comma"] = "findval" /\ T["findcomma"]["close"] = "finish"
  BY DEF Arrays!Table
<1> HIDE DEF T
<1>7. /\ Arrays!NextState("begin", Open) = "firstval"
      /\ \A char : Arrays!Class(char) = "legal" => Arrays!NextState("begin", char) = "error"
  BY <1>1, <1>2, ClassIs
<1>a. Arrays!NextState("firstval", Open) = "error" BY <1>1, <1>3, ClassIs
<1>8. ASSUME NEW s \in Arrays!Starting
      PROVE  /\ \A char : Arrays!Class(char) = "legal" => Arrays!NextState(s, char) = "inval"
             /\ Arrays!NextState(s, Quote) = "inquote"
             /\ Arrays!NextState(s, Apostrophe) = "error"
  BY <1>1, <1>3, <1>4, ClassIs DEF Arrays!Starting
<1>9. \A char : Arrays!Class(char) \in {"legal", "other"} => Arrays!NextState("inval", char) = "inval"
  BY <1>1, <1>5
<1>10. /\ \A char : char \notin {Quote, Slash} => Arrays!NextState("inquote", char) = "inquote"
       /\ Arrays!NextState("inquote", Slash) = "escapeq"
       /\ Arrays!NextState("inquote", Quote) = "findcomma"
       /\ \A char : Arrays!NextState("escapeq", char) = "inquote"
  <2>1. \A char : Arrays!NextState("inquote", char) =
            CASE char = Slash -> "escapeq" [] char = Quote -> "findcomma" [] OTHER -> "inquote"
    BY Zenon DEF Arrays!NextState, Quote, Slash
  <2>2. \A char : Arrays!NextState("escapeq", char) = "inquote" BY Zenon DEF Arrays!NextState
  <2> QED BY <2>1, <2>2, SignsDiffer
<1>11. ASSUME NEW s \in {"inval", "findcomma"}
       PROVE  /\ Arrays!NextState(s, Comma) = "findval"
              /\ Arrays!NextState(s, Close) = "finish"
  BY <1>1, <1>5, <1>6, ClassIs
<1>12. Arrays!NextState("firstval", Close) = "finish" BY <1>1, <1>3, ClassIs
<1>13. \A char : Arrays!NextState("error", char) = "error" BY <1>1, <1>2
<1> QED BY <1>7, <1>a, <1>8, <1>9, <1>10, <1>11, <1>12, <1>13

LEMMA LastReplaced ==
    ASSUME NEW A, NEW e \in Seq(A), NEW x \in A, NEW y \in A
    PROVE  [Append(e, x) EXCEPT ![Len(Append(e, x))] = y] = Append(e, y)
<1>1. PICK s \in Seq(A) : s = Append(e, x) BY AppendProperties
<1>2. PICK t \in Seq(A) : t = Append(e, y) BY AppendProperties
<1>3. Len(e) \in Nat /\ Len(s) = Len(e) + 1 /\ Len(t) = Len(e) + 1 BY <1>1, <1>2, LenProperties
<1>4. DOMAIN s = 1 .. Len(s) /\ DOMAIN t = 1 .. Len(s) BY <1>3, LenProperties
<1>5. t = [k \in 1 .. Len(s) |-> t[k]] BY <1>3
<1>6. \A k \in 1 .. Len(s) : t[k] = IF k = Len(s) THEN y ELSE s[k]
  BY <1>1, <1>2, <1>3, SMTT(30)
<1>7. [s EXCEPT ![Len(s)] = y] = [k \in 1 .. Len(s) |-> IF k = Len(s) THEN y ELSE s[k]] BY <1>4
<1> QED BY <1>1, <1>2, <1>5, <1>6, <1>7

\* What the parser has come to.
At(s, elements) == [state |-> s, elements |-> elements]

LEMMA CharParsed ==
    ASSUME NEW e \in Seq(AnyText), NEW x \in AnyText, NEW c \in Characters
    PROVE  /\ Arrays!ParseChar(At("begin", e), Open) = At("firstval", e)
           /\ \A s \in Arrays!Starting :
                /\ Arrays!Class(c) = "legal" =>
                        Arrays!ParseChar(At(s, e), c) = At("inval", Append(e, <<c>>))
                /\ Arrays!ParseChar(At(s, e), Quote) = At("inquote", Append(e, <<>>))
                /\ Arrays!ParseChar(At(s, e), Apostrophe).state = "error"
           /\ Arrays!Class(c) \in {"legal", "other"} =>
                Arrays!ParseChar(At("inval", Append(e, x)), c) = At("inval", Append(e, Append(x, c)))
           /\ c \notin {Quote, Slash} =>
                Arrays!ParseChar(At("inquote", Append(e, x)), c)
                    = At("inquote", Append(e, Append(x, c)))
           /\ Arrays!ParseChar(At("inquote", Append(e, x)), Slash)
                    = At("escapeq", Append(e, Append(x, Slash)))
           /\ Arrays!ParseChar(At("escapeq", Append(e, x)), c)
                    = At("inquote", Append(e, Append(x, c)))
           /\ Arrays!ParseChar(At("inquote", e), Quote) = At("findcomma", e)
           /\ \A s \in {"inval", "findcomma"} :
                /\ Arrays!ParseChar(At(s, e), Comma) = At("findval", e)
                /\ Arrays!ParseChar(At(s, e), Close) = At("finish", e)
           /\ Arrays!ParseChar(At("firstval", e), Close) = At("finish", e)
           /\ \A p : p.state = "error" => Arrays!ParseChar(p, c).state = "error"
<1> DEFINE Inside == {"inval", "inquote", "escapeq"}
           Starts == {"firstval", "findval"}
<1>1. Arrays!Inside = Inside /\ Arrays!Starting = Starts BY DEF Arrays!Inside, Arrays!Starting
<1>2. ASSUME NEW p, NEW char
      PROVE  /\ Arrays!ParseChar(p, char).state = Arrays!NextState(p.state, char)
             /\ Arrays!ParseChar(p, char) = At(Arrays!NextState(p.state, char),
                    Arrays!ParseChar(p, char).elements)
  BY DEF Arrays!ParseChar, Arrays!Enter, At
<1> DEFINE Made(s, n, elements, char) ==
                IF s \in Starts /\ n = "inval" THEN Append(elements, <<char>>)
                ELSE IF s \in Starts /\ n = "inquote" THEN Append(elements, <<>>)
                ELSE IF s \in Inside /\ n \in Inside
                THEN [elements EXCEPT ![Len(elements)] = Append(@, char)]
                ELSE elements
           Same(s, n) == ~(s \in Starts /\ n \in {"inval", "inquote"}) /\ ~(s \in Inside /\ n \in Inside)
<1>3. ASSUME NEW s, NEW elements, NEW char
      PROVE  Arrays!ParseChar(At(s, elements), char) =
                At(Arrays!NextState(s, char), Made(s, Arrays!NextState(s, char), elements, char))
  <2>1. At(s, elements).state = s /\ At(s, elements).elements = elements BY DEF At
  <2> QED BY <1>1, <2>1, Zenon DEF Arrays!ParseChar, Arrays!Enter, At
<1>a. \A s \in Starts : \A elements, char :
        /\ Made(s, "inval", elements, char) = Append(elements, <<char>>)
        /\ Made(s, "inquote", elements, char) = Append(elements, <<>>)
  OBVIOUS
<1> HIDE DEF Made
<1>c. ASSUME NEW s, NEW n, NEW char, Arrays!NextState(s, char) = n, Same(s, n)
      PROVE  Arrays!ParseChar(At(s, e), char) = At(n, e)
  <2>1. Arrays!ParseChar(At(s, e), char) = At(n, Made(s, n, e, char)) BY <1>3, <1>c, Zenon
  <2>2. Made(s, n, e, char) = e BY <1>c DEF Made
  <2> QED BY <2>1, <2>2, Zenon
<1>4. ASSUME NEW s \in Inside, NEW n \in Inside, NEW char \in Characters, Arrays!NextState(s, char) = n
      PROVE  Arrays!ParseChar(At(s, Append(e, x)), char) = At(n, Append(e, Append(x, char)))
  <2>1. PICK y \in AnyText : y = Append(x, char) BY AppendProperties DEF AnyText
  <2>2. [Append(e, x) EXCEPT ![Len(Append(e, x))] = y] = Append(e, y) BY LastReplaced
  <2>3. Append(e, x)[Len(Append(e, x))] = x
    <3>1. Len(e) \in Nat BY LenProperties
    <3>2. Len(Append(e, x)) = Len(e) + 1 /\ Append(e, x)[Len(e) + 1] = x BY <3>1, AppendProperties
    <3> QED BY <3>2
  <2> DEFINE elements == Append(e, x)
  <2>4. elements[Len(elements)] = x BY <2>3
  <2>5. [elements EXCEPT ![Len(elements)] = y] = Append(e, y) BY <2>2
  <2> HIDE DEF elements
  <2>6. Arrays!ParseChar(At(s, elements), char) =
            At(n, [elements EXCEPT ![Len(elements)] = Append(elements[Len(elements)], char)])
    <3>1. Arrays!ParseChar(At(s, elements), char) = At(n, Made(s, n, elements, char))
      BY <1>3, <1>4, Zenon
    <3>2. Made(s, n, elements, char) =
            [elements EXCEPT ![Len(elements)] = Append(elements[Len(elements)], char)]
      BY DEF Made
    <3> QED BY <3>1, <3>2, Zenon
  <2> QED BY <2>1, <2>4, <2>5, <2>6 DEF elements
<1> HIDE DEF Same
<1>5. Slash \in Characters BY MarksAreCharacters, Zenon DEF Slash
<1>6. Arrays!ParseChar(At("begin", e), Open) = At("firstval", e)
  <2>1. Same("begin", "firstval") BY DEF Same
  <2> QED BY <1>c, <2>1, Leads
<1>7. ASSUME NEW s \in Arrays!Starting
      PROVE  /\ Arrays!Class(c) = "legal" =>
                    Arrays!ParseChar(At(s, e), c) = At("inval", Append(e, <<c>>))
             /\ Arrays!ParseChar(At(s, e), Quote) = At("inquote", Append(e, <<>>))
             /\ Arrays!ParseChar(At(s, e), Apostrophe).state = "error"
  <2>1. s \in Starts BY <1>1
  <2>2. /\ Arrays!Class(c) = "legal" => Arrays!NextState(s, c) = "inval"
        /\ Arrays!NextState(s, Quote) = "inquote"
        /\ Arrays!NextState(s, Apostrophe) = "error"
    BY Leads
  <2> HIDE DEF Starts
  <2>3. Arrays!ParseChar(At(s, e), Quote) = At("inquote", Append(e, <<>>))
    <3>1. Arrays!ParseChar(At(s, e), Quote) = At("inquote", Made(s, "inquote", e, Quote))
      BY <1>3, <2>2, Zenon
    <3>2. Made(s, "inquote", e, Quote) = Append(e, <<>>) BY <1>a, <2>1, Zenon
    <3> QED BY <3>1, <3>2, Zenon
  <2>4. Arrays!Class(c) = "legal" => Arrays!ParseChar(At(s, e), c) = At("inval", Append(e, <<c>>))
    <3> SUFFICES ASSUME Arrays!Class(c) = "legal"
                 PROVE  Arrays!ParseChar(At(s, e), c) = At("inval", Append(e, <<c>>)) OBVIOUS
    <3>1. Arrays!ParseChar(At(s, e), c) = At("inval", Made(s, "inval", e, c)) BY <1>3, <2>2, Zenon
    <3>2. Made(s, "inval", e, c) = Append(e, <<c>>) BY <1>a, <2>1, Zenon
    <3> QED BY <3>1, <3>2, Zenon
  <2>5. At(s, e).state = s BY DEF At
  <2> QED BY <1>2, <2>2, <2>3, <2>4, <2>5
<1>8. Arrays!Class(c) \in {"legal", "other"} =>
        Arrays!ParseChar(At("inval", Append(e, x)), c) = At("inval", Append(e, Append(x, c)))
  <2>1. Arrays!Class(c) \in {"legal", "other"} => Arrays!NextState("inval", c) = "inval" BY Leads
  <2> QED BY <1>4, <2>1
<1>9. c \notin {Quote, Slash} =>
        Arrays!ParseChar(At("inquote", Append(e, x)), c) = At("inquote", Append(e, Append(x, c)))
  <2>1. c \notin {Quote, Slash} => Arrays!NextState("inquote", c) = "inquote" BY Leads
  <2> QED BY <1>4, <2>1
<1>10. Arrays!ParseChar(At("inquote", Append(e, x)), Slash)
            = At("escapeq", Append(e, Append(x, Slash)))
  <2>1. Arrays!NextState("inquote", Slash) = "escapeq" BY Leads
  <2> QED BY <1>4, <1>5, <2>1
<1>11. Arrays!ParseChar(At("escapeq", Append(e, x)), c) = At("inquote", Append(e, Append(x, c)))
  <2>1. Arrays!NextState("escapeq", c) = "inquote" BY Leads
  <2> QED BY <1>4, <2>1
<1>12. Arrays!ParseChar(At("inquote", e), Quote) = At("findcomma", e)
  <2>1. Same("inquote", "findcomma") BY DEF Same
  <2> QED BY <1>c, <2>1, Leads
<1>13. ASSUME NEW s \in {"inval", "findcomma"}
       PROVE  /\ Arrays!ParseChar(At(s, e), Comma) = At("findval", e)
              /\ Arrays!ParseChar(At(s, e), Close) = At("finish", e)
  <2>1. Same(s, "findval") /\ Same(s, "finish") BY DEF Same
  <2>2. Arrays!NextState(s, Comma) = "findval" /\ Arrays!NextState(s, Close) = "finish" BY Leads
  <2> QED BY <1>c, <2>1, <2>2
<1>14. Arrays!ParseChar(At("firstval", e), Close) = At("finish", e)
  <2>1. Same("firstval", "finish") BY DEF Same
  <2> QED BY <1>c, <2>1, Leads
<1>15. \A p : p.state = "error" => Arrays!ParseChar(p, c).state = "error" BY <1>2, Leads
<1> QED BY <1>6, <1>7, <1>8, <1>9, <1>10, <1>11, <1>12, <1>13, <1>14, <1>15

LEMMA ParsedStarts == Arrays!Parsed(<<>>) = At("begin", <<>>)
<1> DEFINE f == CHOOSE g : Parsed(g, <<>>, 0)
<1>0. Len(<<>>) = 0 OBVIOUS
<1>1. Arrays!Parsed(<<>>) = f[0] BY <1>0 DEF Arrays!Parsed, Parsed
<1>2. Parsed(f, <<>>, 0) BY ParsedExists
<1>3. 0 \in 0 .. 0 OBVIOUS
<1> HIDE DEF f
<1> QED BY <1>1, <1>2, <1>3 DEF Parsed, At

LEMMA ParsedGrows ==
    ASSUME NEW text \in AnyText, NEW c \in Characters
    PROVE  Arrays!Parsed(Append(text, c)) = Arrays!ParseChar(Arrays!Parsed(text), c)
<1> DEFINE N == Len(text)
           longer == Append(text, c)
           f == CHOOSE g : Parsed(g, text, N)
           h == CHOOSE g : Parsed(g, longer, N + 1)
           start == [state |-> "begin", elements |-> <<>>]
<1>1. /\ N \in Nat /\ Len(longer) = N + 1 /\ longer[N + 1] = c
      /\ \A n \in 1 .. N : longer[n] = text[n]
  BY AppendProperties, LenProperties DEF AnyText
<1>2. Arrays!Parsed(text) = f[N] BY DEF Arrays!Parsed, Parsed
<1>3. Arrays!Parsed(longer) = h[N + 1]
  <2>1. Arrays!Parsed(longer) = (CHOOSE g : Parsed(g, longer, Len(longer)))[Len(longer)]
    BY DEF Arrays!Parsed, Parsed
  <2> QED BY <1>1, <2>1
<1> HIDE DEF N, longer
<1>4. Parsed(f, text, N) /\ Parsed(h, longer, N + 1)
  <2>1. N \in Nat /\ N + 1 \in Nat BY <1>1
  <2>2. \E g : Parsed(g, text, N) BY <2>1, ParsedExists
  <2>3. \E g : Parsed(g, longer, N + 1) BY <2>1, ParsedExists
  <2> QED BY <2>2, <2>3, Zenon
<1> HIDE DEF f, h
<1>5. \A n \in 0 .. N : f[n] = IF n = 0 THEN start ELSE Arrays!ParseChar(f[n - 1], text[n])
  BY <1>4 DEF Parsed
<1>6. \A n \in 0 .. N + 1 : h[n] = IF n = 0 THEN start ELSE Arrays!ParseChar(h[n - 1], longer[n])
  BY <1>4 DEF Parsed
<1> HIDE DEF start
<1> DEFINE S == {n \in Nat : n \in 0 .. N => f[n] = h[n]}
<1>7. 0 \in S BY <1>1, <1>5, <1>6
<1>8. ASSUME NEW n \in Nat, n \in S PROVE n + 1 \in S
  <2> SUFFICES ASSUME n + 1 \in 0 .. N PROVE f[n + 1] = h[n + 1] OBVIOUS
  <2>1. PICK k \in 1 .. N : k = n + 1 BY <1>1
  <2>2. k \in 0 .. N /\ k \in 0 .. N + 1 /\ k # 0 /\ k - 1 = n /\ n \in 0 .. N BY <1>1, <2>1
  <2>3. f[n] = h[n] BY <1>8, <2>2
  <2>4. f[k] = Arrays!ParseChar(f[n], text[k]) BY <1>5, <2>2
  <2>5. h[k] = Arrays!ParseChar(h[n], longer[k]) BY <1>6, <2>2
  <2> QED BY <1>1, <2>1, <2>3, <2>4, <2>5
<1> HIDE DEF S
<1>9. Nat \subseteq S BY <1>7, <1>8, Induction
<1>10. f[N] = h[N]
  <2>1. N \in S /\ N \in 0 .. N BY <1>1, <1>9
  <2> QED BY <2>1 DEF S
<1>11. h[N + 1] = Arrays!ParseChar(h[N], longer[N + 1])
  <2>1. N + 1 \in 0 .. N + 1 /\ N + 1 # 0 /\ N + 1 - 1 = N BY <1>1
  <2>2. PICK m \in 0 .. N + 1 : m = N + 1 BY <2>1
  <2>3. h[m] = Arrays!ParseChar(h[m - 1], longer[m]) BY <1>6, <2>1, <2>2
  <2>4. m - 1 = N BY <1>1, <2>2
  <2> QED BY <2>2, <2>3, <2>4, Zenon
<1>12. Arrays!Parsed(longer) = Arrays!ParseChar(Arrays!Parsed(text), c)
  BY <1>1, <1>2, <1>3, <1>10, <1>11, Zenon
<1> QED BY <1>12 DEF longer

\* What PostgreSQL has taken: all of it as a list of texts, or too much.
Held(s, depth, nested, elements, last, spaces) ==
    [state |-> s, depth |-> depth, nested |-> nested,
     elements |-> elements, last |-> last, spaces |-> spaces]

Has(s, elements, last, spaces) == Held(s, 0, FALSE, elements, last, spaces)

Lost(p) ==
    \E s, depth, nested, e, x, sp :
        p = Held(s, depth, nested, e, x, sp) /\ (s = "refused" \/ nested = TRUE)

\* What is lost stays lost.
LEMMA LostStays == \A p, c : Lost(p) => Lost(Arrays!TakeChar(p, c))
<1> SUFFICES ASSUME NEW p, NEW c, Lost(p) PROVE Lost(Arrays!TakeChar(p, c)) OBVIOUS
<1>1. PICK s, d, b, e, x, sp : p = Held(s, d, b, e, x, sp) /\ (s = "refused" \/ b = TRUE)
  BY DEF Lost
<1>2. \A t, depth, nested, f, y, z :
        t = "refused" \/ nested = TRUE => Lost(Held(t, depth, nested, f, y, z))
  BY DEF Lost
<1> DEFINE q == Arrays!TakeChar(p, c)
<1>3. \/ q = p
      \/ q = [p EXCEPT !.state = "refused"]
      \/ q = [p EXCEPT !.nested = TRUE, !.depth = @ + 1]
      \/ /\ s # "refused"
         /\ \/ q = [p EXCEPT !.depth = @ - 1]
            \/ q = [p EXCEPT !.state = "protecting"]
            \/ q = [p EXCEPT !.elements = Append(@, p.last), !.last = <<>>, !.spaces = <<>>]
            \/ q = [p EXCEPT !.spaces = IF p.last = <<>> THEN <<>> ELSE Append(@, c)]
            \/ q = [p EXCEPT !.state = "taking", !.last = Append(@ \o p.spaces, c), !.spaces = <<>>]
  <2>1. p.state = s BY <1>1 DEF Held
  <2> QED BY <2>1, Zenon DEF Arrays!TakeChar
<1> HIDE DEF q
<1>a. CASE q = p BY <1>a DEF q
<1>4. CASE q = [p EXCEPT !.state = "refused"]
  <2>1. q = Held("refused", d, b, e, x, sp) BY <1>1, <1>4 DEF Held
  <2> QED BY <1>2, <2>1 DEF q
<1>5. CASE q = [p EXCEPT !.nested = TRUE, !.depth = @ + 1]
  <2>1. q = Held(s, d + 1, TRUE, e, x, sp) BY <1>1, <1>5 DEF Held
  <2> QED BY <1>2, <2>1 DEF q
<1>6. ASSUME s # "refused", NEW t, NEW h, NEW f, NEW y, NEW z, q = Held(t, h, b, f, y, z) PROVE Lost(q)
  BY <1>1, <1>2, <1>6
<1>7. CASE s # "refused" /\ q = [p EXCEPT !.state = "protecting"]
  <2>1. q = Held("protecting", d, b, e, x, sp) BY <1>1, <1>7 DEF Held
  <2> QED BY <1>6, <1>7, <2>1 DEF q
<1>8. CASE /\ s # "refused"
           /\ q = [p EXCEPT !.elements = Append(@, p.last), !.last = <<>>, !.spaces = <<>>]
  <2>1. q = Held(s, d, b, Append(e, p.last), <<>>, <<>>) BY <1>1, <1>8 DEF Held
  <2> QED BY <1>6, <1>8, <2>1 DEF q
<1>9. CASE s # "refused" /\ q = [p EXCEPT !.spaces = IF p.last = <<>> THEN <<>> ELSE Append(@, c)]
  <2>1. q = Held(s, d, b, e, x, IF p.last = <<>> THEN <<>> ELSE Append(sp, c))
    BY <1>1, <1>9 DEF Held
  <2> QED BY <1>6, <1>9, <2>1 DEF q
<1>10. CASE /\ s # "refused"
            /\ q = [p EXCEPT !.state = "taking", !.last = Append(@ \o p.spaces, c), !.spaces = <<>>]
  <2>1. q = Held("taking", d, b, e, Append(x \o p.spaces, c), <<>>) BY <1>1, <1>10 DEF Held
  <2> QED BY <1>6, <1>10, <2>1 DEF q
<1>11. CASE s # "refused" /\ q = [p EXCEPT !.depth = @ - 1]
  <2>1. q = Held(s, d - 1, b, e, x, sp) BY <1>1, <1>11 DEF Held
  <2> QED BY <1>6, <1>11, <2>1 DEF q
<1> QED BY <1>3, <1>a, <1>4, <1>5, <1>7, <1>8, <1>9, <1>10, <1>11 DEF q

LEMMA CharTaken ==
    ASSUME NEW e, NEW x, NEW sp, NEW c
    PROVE  /\ c \notin {Open, Close, Quote, Slash, Comma, Blank} =>
                Arrays!TakeChar(Has("taking", e, x, sp), c)
                    = Has("taking", e, Append(x \o sp, c), <<>>)
           /\ c \in {Open, Close} => Lost(Arrays!TakeChar(Has("taking", e, x, sp), c))
           /\ Arrays!TakeChar(Has("taking", e, x, sp), Slash) = Has("protecting", e, x, sp)
           /\ Arrays!TakeChar(Has("protecting", e, x, sp), c)
                = Has("taking", e, Append(x \o sp, c), <<>>)
           /\ Arrays!TakeChar(Has("taking", e, x, sp), Comma)
                = Has("taking", Append(e, x), <<>>, <<>>)
           /\ x # <<>> => Arrays!TakeChar(Has("taking", e, x, sp), Blank)
                = Has("taking", e, x, Append(sp, Blank))
<1>1. ASSUME NEW s \in {"taking", "protecting"}, NEW char,
             s = "taking" => char \notin {Open, Close, Quote, Slash, Comma, Blank}
      PROVE  Arrays!TakeChar(Has(s, e, x, sp), char) = Has("taking", e, Append(x \o sp, char), <<>>)
  BY <1>1, Zenon DEF Arrays!TakeChar, Has, Held, Open, Close, Quote, Slash, Comma, Blank
<1>2. Has("taking", e, x, sp).state = "taking" /\ Has("taking", e, x, sp).depth = 0
  BY DEF Has, Held
<1>3. Arrays!TakeChar(Has("taking", e, x, sp), Slash) = Has("protecting", e, x, sp)
  BY SignsDiffer, Zenon DEF Arrays!TakeChar, Has, Held, Open, Close, Quote, Slash, Comma, Blank
<1>4. Arrays!TakeChar(Has("taking", e, x, sp), Comma) = Has("taking", Append(e, x), <<>>, <<>>)
  BY SignsDiffer, Zenon DEF Arrays!TakeChar, Has, Held, Open, Close, Quote, Slash, Comma, Blank
<1>5. x # <<>> =>
        Arrays!TakeChar(Has("taking", e, x, sp), Blank) = Has("taking", e, x, Append(sp, Blank))
  BY SignsDiffer, Zenon DEF Arrays!TakeChar, Has, Held, Open, Close, Quote, Slash, Comma, Blank
<1>6. Lost(Arrays!TakeChar(Has("taking", e, x, sp), Open))
  <2>a. /\ Open # Quote /\ Open # Close /\ Open # Slash /\ Open # Comma /\ Open # Blank
        /\ "taking" # "refused"
    BY SignsDiffer
  <2>1. Arrays!TakeChar(Has("taking", e, x, sp), Open)
            = [Has("taking", e, x, sp) EXCEPT !.nested = TRUE, !.depth = @ + 1]
    BY <1>2, <2>a, Zenon DEF Arrays!TakeChar, Open, Close, Quote, Slash, Comma, Blank
  <2>2. Arrays!TakeChar(Has("taking", e, x, sp), Open) = Held("taking", 0 + 1, TRUE, e, x, sp)
    BY <2>1 DEF Has, Held
  <2>3. Lost(Held("taking", 0 + 1, TRUE, e, x, sp)) BY DEF Lost
  <2> QED BY <2>2, <2>3
<1>7. Lost(Arrays!TakeChar(Has("taking", e, x, sp), Close))
  <2>a. Close # Quote /\ Close # Open /\ Close # Slash /\ Close # Comma /\ Close # Blank
    BY SignsDiffer
  <2>1. Arrays!TakeChar(Has("taking", e, x, sp), Close)
            = [Has("taking", e, x, sp) EXCEPT !.state = "refused"]
    BY <1>2, <2>a, Zenon DEF Arrays!TakeChar, Open, Close, Quote, Slash, Comma, Blank
  <2>2. Arrays!TakeChar(Has("taking", e, x, sp), Close) = Held("refused", 0, FALSE, e, x, sp)
    BY <2>1 DEF Has, Held
  <2>3. Lost(Held("refused", 0, FALSE, e, x, sp)) BY DEF Lost
  <2> QED BY <2>2, <2>3
<1>8. c \in {Open, Close} => Lost(Arrays!TakeChar(Has("taking", e, x, sp), c)) BY <1>6, <1>7
<1>9. c \notin {Open, Close, Quote, Slash, Comma, Blank} =>
        Arrays!TakeChar(Has("taking", e, x, sp), c) = Has("taking", e, Append(x \o sp, c), <<>>)
  BY <1>1
<1>10. Arrays!TakeChar(Has("protecting", e, x, sp), c) = Has("taking", e, Append(x \o sp, c), <<>>)
  BY <1>1
<1> QED BY <1>3, <1>4, <1>5, <1>8, <1>9, <1>10

\* The function that Taken chooses.
TakenBy(f, text, n) ==
    f = [i \in 0 .. n |->
            IF i = 0 THEN Arrays!NothingTaken ELSE Arrays!TakeChar(f[i - 1], text[i])]

LEMMA TakenExists == ASSUME NEW text, NEW n \in Nat PROVE \E f : TakenBy(f, text, n)
<1> DEFINE S == {k \in Nat : \E f : TakenBy(f, text, k)}
           start == Arrays!NothingTaken
<1>1. 0 \in S
  <2> DEFINE f == [i \in 0 .. 0 |-> start]
             h == [i \in 0 .. 0 |-> IF i = 0 THEN start ELSE Arrays!TakeChar(f[i - 1], text[i])]
  <2>1. \A i \in 0 .. 0 : i = 0 OBVIOUS
  <2>2. f = h BY <2>1
  <2>3. TakenBy(f, text, 0) BY <2>2 DEF TakenBy
  <2> QED BY <2>3
<1>2. ASSUME NEW k \in Nat, k \in S PROVE k + 1 \in S
  <2>1. PICK f : TakenBy(f, text, k) BY <1>2
  <2> DEFINE g == [i \in 0 .. k + 1 |-> IF i = 0 THEN start ELSE Arrays!TakeChar(f[i - 1], text[i])]
             h == [i \in 0 .. k + 1 |-> IF i = 0 THEN start ELSE Arrays!TakeChar(g[i - 1], text[i])]
  <2>2. ASSUME NEW i \in 0 .. k PROVE f[i] = g[i]
    <3>1. i \in 0 .. k + 1 OBVIOUS
    <3>2. f[i] = IF i = 0 THEN start ELSE Arrays!TakeChar(f[i - 1], text[i]) BY <2>1 DEF TakenBy
    <3> QED BY <3>1, <3>2
  <2>3. \A i \in 0 .. k + 1 : i # 0 => i - 1 \in 0 .. k OBVIOUS
  <2>4. \A i \in 0 .. k + 1 : i # 0 => f[i - 1] = g[i - 1] BY <2>2, <2>3
  <2>5. \A i \in 0 .. k + 1 : g[i] = IF i = 0 THEN start ELSE Arrays!TakeChar(f[i - 1], text[i])
    OBVIOUS
  <2>6. g = [i \in 0 .. k + 1 |-> g[i]] OBVIOUS
  <2> HIDE DEF g, start
  <2>7. \A i \in 0 .. k + 1 : g[i] = IF i = 0 THEN start ELSE Arrays!TakeChar(g[i - 1], text[i])
    BY <2>4, <2>5
  <2>8. g = h BY <2>6, <2>7
  <2>9. TakenBy(g, text, k + 1) BY <2>8 DEF TakenBy, start
  <2> QED BY <2>9
<1> HIDE DEF S
<1>3. Nat \subseteq S BY <1>1, <1>2, Induction
<1> QED BY <1>3 DEF S

LEMMA TakenStarts == Arrays!Taken(<<>>) = Has("taking", <<>>, <<>>, <<>>)
<1> DEFINE f == CHOOSE g : TakenBy(g, <<>>, 0)
<1>0. Len(<<>>) = 0 OBVIOUS
<1>1. Arrays!Taken(<<>>) = f[0] BY <1>0 DEF Arrays!Taken, TakenBy
<1>2. TakenBy(f, <<>>, 0) BY TakenExists
<1>3. 0 \in 0 .. 0 OBVIOUS
<1> HIDE DEF f
<1> QED BY <1>1, <1>2, <1>3 DEF TakenBy, Arrays!NothingTaken, Has, Held

LEMMA TakenGrows ==
    ASSUME NEW text \in AnyText, NEW c \in Characters
    PROVE  Arrays!Taken(Append(text, c)) = Arrays!TakeChar(Arrays!Taken(text), c)
<1> DEFINE N == Len(text)
           longer == Append(text, c)
           f == CHOOSE g : TakenBy(g, text, N)
           h == CHOOSE g : TakenBy(g, longer, N + 1)
           start == Arrays!NothingTaken
<1>1. /\ N \in Nat /\ Len(longer) = N + 1 /\ longer[N + 1] = c
      /\ \A n \in 1 .. N : longer[n] = text[n]
  BY AppendProperties, LenProperties DEF AnyText
<1>2. Arrays!Taken(text) = f[N] BY DEF Arrays!Taken, TakenBy
<1>3. Arrays!Taken(longer) = h[N + 1]
  <2>1. Arrays!Taken(longer) = (CHOOSE g : TakenBy(g, longer, Len(longer)))[Len(longer)]
    BY DEF Arrays!Taken, TakenBy
  <2> QED BY <1>1, <2>1
<1> HIDE DEF N, longer
<1>4. TakenBy(f, text, N) /\ TakenBy(h, longer, N + 1)
  <2>1. N \in Nat /\ N + 1 \in Nat BY <1>1
  <2>2. \E g : TakenBy(g, text, N) BY <2>1, TakenExists
  <2>3. \E g : TakenBy(g, longer, N + 1) BY <2>1, TakenExists
  <2> QED BY <2>2, <2>3, Zenon
<1> HIDE DEF f, h
<1>5. \A n \in 0 .. N : f[n] = IF n = 0 THEN start ELSE Arrays!TakeChar(f[n - 1], text[n])
  BY <1>4 DEF TakenBy
<1>6. \A n \in 0 .. N + 1 : h[n] = IF n = 0 THEN start ELSE Arrays!TakeChar(h[n - 1], longer[n])
  BY <1>4 DEF TakenBy
<1> HIDE DEF start
<1> DEFINE S == {n \in Nat : n \in 0 .. N => f[n] = h[n]}
<1>7. 0 \in S BY <1>1, <1>5, <1>6
<1>8. ASSUME NEW n \in Nat, n \in S PROVE n + 1 \in S
  <2> SUFFICES ASSUME n + 1 \in 0 .. N PROVE f[n + 1] = h[n + 1] OBVIOUS
  <2>1. PICK k \in 1 .. N : k = n + 1 BY <1>1
  <2>2. k \in 0 .. N /\ k \in 0 .. N + 1 /\ k # 0 /\ k - 1 = n /\ n \in 0 .. N BY <1>1, <2>1
  <2>3. f[n] = h[n] BY <1>8, <2>2
  <2>4. f[k] = Arrays!TakeChar(f[n], text[k]) BY <1>5, <2>2
  <2>5. h[k] = Arrays!TakeChar(h[n], longer[k]) BY <1>6, <2>2
  <2> QED BY <1>1, <2>1, <2>3, <2>4, <2>5
<1> HIDE DEF S
<1>9. Nat \subseteq S BY <1>7, <1>8, Induction
<1>10. f[N] = h[N]
  <2>1. N \in S /\ N \in 0 .. N BY <1>1, <1>9
  <2> QED BY <2>1 DEF S
<1>11. h[N + 1] = Arrays!TakeChar(h[N], longer[N + 1])
  <2>1. N + 1 \in 0 .. N + 1 /\ N + 1 # 0 /\ N + 1 - 1 = N BY <1>1
  <2>2. PICK m \in 0 .. N + 1 : m = N + 1 BY <2>1
  <2>3. h[m] = Arrays!TakeChar(h[m - 1], longer[m]) BY <1>6, <2>1, <2>2
  <2>4. m - 1 = N BY <1>1, <2>2
  <2> QED BY <2>2, <2>3, <2>4, Zenon
<1>12. Arrays!Taken(longer) = Arrays!TakeChar(Arrays!Taken(text), c)
  BY <1>1, <1>2, <1>3, <1>10, <1>11, Zenon
<1> QED BY <1>12 DEF longer

-----------------------------------------------------------------------------
(* Texts in the order in which they are read *)

LEMMA ConcatAppend ==
    ASSUME NEW A, NEW s \in Seq(A), NEW t \in Seq(A), NEW x \in A
    PROVE  s \o Append(t, x) = Append(s \o t, x)
<1>1. Append(t, x) = t \o <<x>> BY AppendIsConcat
<1>2. s \o t \in Seq(A) BY ConcatProperties
<1>3. Append(s \o t, x) = (s \o t) \o <<x>> BY <1>2, AppendIsConcat
<1>4. <<x>> \in Seq(A) OBVIOUS
<1>5. s \o (t \o <<x>>) = (s \o t) \o <<x>> BY <1>4, ConcatAssociative
<1> QED BY <1>1, <1>3, <1>5

\* A sequence put together comes about piece by piece.
LEMMA FlattenSteps ==
    ASSUME NEW A, NEW s \in Seq(Seq(A))
    PROVE  \E g : /\ g[0] = <<>>
                  /\ \A n \in 0 .. Len(s) : g[n] \in Seq(A)
                  /\ \A n \in 1 .. Len(s) : g[n] = g[n - 1] \o s[n]
                  /\ FlattenSeq(s) = g[Len(s)]
<1> DEFINE N == Len(s)
<1>1. N \in Nat /\ \A n \in 1 .. N : s[n] \in Seq(A) BY LenProperties
<1>2. PICK f : /\ \A n \in 1 .. N : f[n] \in Seq(A)
               /\ N > 0 => f[1] = s[1]
               /\ \A n \in 1 .. N : n > 1 => f[n] = f[n - 1] \o s[n]
               /\ FlattenSeq(s) = IF N = 0 THEN <<>> ELSE f[N]
  BY FlattenIs
<1> HIDE DEF N
<1> DEFINE g == [n \in 0 .. N |-> IF n = 0 THEN <<>> ELSE f[n]]
<1>3. \A n \in 0 .. N : g[n] = IF n = 0 THEN <<>> ELSE f[n] OBVIOUS
<1>4. <<>> \in Seq(A) OBVIOUS
<1> HIDE DEF g
<1>5. g[0] = <<>> BY <1>1, <1>3
<1>6. ASSUME NEW n \in 0 .. N PROVE g[n] \in Seq(A)
  <2>1. CASE n = 0 BY <1>4, <1>5, <2>1
  <2>2. CASE n # 0
    <3>1. n \in 1 .. N BY <1>1, <2>2
    <3> QED BY <1>2, <1>3, <2>2, <3>1
  <2> QED BY <2>1, <2>2
<1>7. ASSUME NEW n \in 1 .. N PROVE g[n] = g[n - 1] \o s[n]
  <2>1. n \in 0 .. N /\ n # 0 /\ n - 1 \in 0 .. N /\ n \in Nat BY <1>1
  <2>2. g[n] = f[n] BY <1>3, <2>1
  <2>3. CASE n = 1
    <3>1. N > 0 /\ n - 1 = 0 BY <1>1, <2>3
    <3>2. g[n] = s[n] /\ s[n] \in Seq(A) BY <1>1, <1>2, <2>2, <2>3, <3>1
    <3>3. <<>> \o s[n] = s[n] BY <3>2, ConcatEmptySeq
    <3> QED BY <1>5, <3>1, <3>2, <3>3
  <2>4. CASE n # 1
    <3>1. n > 1 /\ n - 1 # 0 BY <2>1, <2>4
    <3>2. f[n] = f[n - 1] \o s[n] BY <1>2, <3>1
    <3>3. g[n - 1] = f[n - 1] BY <1>3, <2>1, <3>1
    <3> QED BY <2>2, <3>2, <3>3
  <2> QED BY <2>3, <2>4
<1>8. FlattenSeq(s) = g[N]
  <2>1. N \in 0 .. N BY <1>1
  <2> QED BY <1>2, <1>3, <2>1
<1> QED BY <1>5, <1>6, <1>7, <1>8 DEF N

\* And any sequence element by element.
LEMMA AppendSteps ==
    ASSUME NEW A, NEW s \in Seq(A)
    PROVE  \E g : /\ g[0] = <<>>
                  /\ \A n \in 0 .. Len(s) : g[n] \in Seq(A)
                  /\ \A n \in 1 .. Len(s) : g[n] = Append(g[n - 1], s[n])
                  /\ g[Len(s)] = s
<1> DEFINE N == Len(s)
           part(n) == [k \in 1 .. n |-> s[k]]
           h == [n \in 0 .. N |-> part(n)]
<1>1. N \in Nat /\ s = [k \in 1 .. N |-> s[k]] /\ \A n \in 1 .. N : s[n] \in A BY LenProperties
<1> HIDE DEF N
<1>2. \A n \in 0 .. N : h[n] = part(n) OBVIOUS
<1> HIDE DEF h
<1>3. part(0) = <<>> OBVIOUS
<1>4. ASSUME NEW n \in 0 .. N PROVE part(n) \in Seq(A) /\ Len(part(n)) = n
  <2>1. n \in Nat /\ part(n) \in [1 .. n -> A] BY <1>1
  <2> HIDE DEF part
  <2> QED BY <2>1, MadeOf
<1>5. ASSUME NEW n \in 1 .. N PROVE part(n) = Append(part(n - 1), s[n])
  <2>1. n - 1 \in 0 .. N /\ n \in 0 .. N /\ n \in Nat BY <1>1
  <2>2. PICK t \in Seq(A) : t = part(n - 1) /\ Len(t) = n - 1 BY <1>4, <2>1
  <2>3. PICK u \in Seq(A) : u = part(n) /\ Len(u) = n BY <1>4, <2>1
  <2>4. s[n] \in A BY <1>1
  <2>5. PICK w \in Seq(A) : w = Append(t, s[n]) BY <2>4, AppendProperties
  <2>6. Len(w) = n /\ w[n] = s[n] /\ \A k \in 1 .. n - 1 : w[k] = t[k]
    BY <2>1, <2>2, <2>4, <2>5, AppendProperties
  <2>7. \A k \in 1 .. n : k # n => k \in 1 .. n - 1 BY <2>1
  <2>8. \A k \in 1 .. n : u[k] = s[k] BY <2>3
  <2>9. \A k \in 1 .. n - 1 : t[k] = s[k] BY <2>2
  <2>10. \A k \in 1 .. n : u[k] = w[k] BY <2>6, <2>7, <2>8, <2>9
  <2>11. u = w BY <2>3, <2>6, <2>10, SeqEqual
  <2> QED BY <2>2, <2>3, <2>5, <2>11
<1> HIDE DEF part
<1>6. /\ h[0] = <<>> /\ h[N] = part(N)
      /\ \A n \in 0 .. N : h[n] \in Seq(A)
      /\ \A n \in 1 .. N : h[n] = Append(h[n - 1], s[n])
  <2>1. 0 \in 0 .. N /\ N \in 0 .. N /\ \A n \in 1 .. N : n \in 0 .. N /\ n - 1 \in 0 .. N BY <1>1
  <2> QED BY <1>2, <1>3, <1>4, <1>5, <2>1
<1>7. part(N) = s BY <1>1 DEF part
<1> QED BY <1>6, <1>7 DEF N

-----------------------------------------------------------------------------
(* Reading what array_out wrote *)

LEMMA OneMore ==
    ASSUME NEW t \in AnyText, NEW a \in Characters, NEW c \in Characters
    PROVE  /\ t \o <<c>> = Append(t, c) /\ Append(t, c) \in AnyText
           /\ t \o <<a, c>> = Append(Append(t, a), c)
           /\ <<c>> \in AnyText /\ <<a, c>> \in AnyText /\ <<>> \in AnyText
<1>1. /\ t \in Seq(Characters) /\ <<c>> \in Seq(Characters) /\ <<a>> \in Seq(Characters)
      /\ <<a, c>> \in Seq(Characters) /\ <<>> \in Seq(Characters)
  BY DEF AnyText
<1>2. t \o <<c>> = Append(t, c) /\ t \o <<a>> = Append(t, a) BY <1>1, AppendIsConcat
<1>3. Append(t, c) \in Seq(Characters) BY <1>1, AppendProperties
<1>4. <<a, c>> = Append(<<a>>, c) OBVIOUS
<1>5. t \o Append(<<a>>, c) = Append(t \o <<a>>, c) BY <1>1, ConcatAppend
<1> QED BY <1>1, <1>2, <1>3, <1>4, <1>5 DEF AnyText

LEMMA SignsAreCharacters == {Open, Close, Comma, Blank, Quote, Slash, Apostrophe} \subseteq Characters
BY CharactersAssumption, Zenon DEF Open, Close, Comma, Blank, Quote, Slash, Apostrophe, Marks

LEMMA EscapedIs ==
    ASSUME NEW x \in AnyText
    PROVE  \E g : /\ g[0] = <<>> /\ g[Len(x)] = Arrays!Escaped(x)
                  /\ \A n \in 0 .. Len(x) : g[n] \in AnyText
                  /\ \A n \in 1 .. Len(x) :
                        g[n] = IF x[n] \in {Quote, Slash}
                               THEN Append(Append(g[n - 1], Slash), x[n])
                               ELSE Append(g[n - 1], x[n])
<1> DEFINE piece(c) == IF c \in {Quote, Slash} THEN <<Slash, c>> ELSE <<c>>
           s == [k \in 1 .. Len(x) |-> piece(x[k])]
<1>1. Len(x) \in Nat /\ DOMAIN x = 1 .. Len(x) /\ \A n \in 1 .. Len(x) : x[n] \in Characters
  BY LenProperties DEF AnyText
<1>2. Arrays!Escaped(x) = FlattenSeq(s)
  <2>1. Arrays!Escaped(x) = FlattenSeq([k \in DOMAIN x |-> piece(x[k])])
    BY SameFlatten, Zenon DEF Arrays!Escaped, Quote, Slash
  <2> QED BY <1>1, <2>1
<1>3. Slash \in Characters BY SignsAreCharacters
<1>4. \A n \in 1 .. Len(x) : s[n] = piece(x[n]) OBVIOUS
<1>5. \A n \in 1 .. Len(x) : piece(x[n]) \in AnyText BY <1>1, <1>3, OneMore
<1> HIDE DEF piece
<1>6. s \in [1 .. Len(x) -> AnyText] BY <1>5
<1> HIDE DEF s
<1>7. s \in Seq(AnyText) /\ Len(s) = Len(x) BY <1>1, <1>6, MadeOf
<1>8. PICK g : /\ g[0] = <<>>
               /\ \A n \in 0 .. Len(s) : g[n] \in AnyText
               /\ \A n \in 1 .. Len(s) : g[n] = g[n - 1] \o s[n]
               /\ FlattenSeq(s) = g[Len(s)]
  BY <1>7, FlattenSteps DEF AnyText
<1>9. ASSUME NEW n \in 1 .. Len(x)
      PROVE  g[n] = IF x[n] \in {Quote, Slash} THEN Append(Append(g[n - 1], Slash), x[n])
                    ELSE Append(g[n - 1], x[n])
  <2>1. n - 1 \in 0 .. Len(x) BY <1>1
  <2>2. PICK t \in AnyText : t = g[n - 1] BY <1>7, <1>8, <2>1
  <2>3. PICK c \in Characters : c = x[n] BY <1>1
  <2>4. g[n] = t \o piece(c) BY <1>4, <1>7, <1>8, <2>2, <2>3
  <2>5. t \o <<c>> = Append(t, c) /\ t \o <<Slash, c>> = Append(Append(t, Slash), c)
    BY <1>3, OneMore
  <2> QED BY <2>2, <2>3, <2>4, <2>5 DEF piece
<1> QED BY <1>2, <1>7, <1>8, <1>9

LEMMA JoinedIs ==
    ASSUME NEW texts \in Seq(AnyText)
    PROVE  \E g : /\ g[0] = <<>> /\ g[Len(texts)] = Arrays!Joined(texts)
                  /\ \A n \in 0 .. Len(texts) : g[n] \in AnyText
                  /\ \A n \in 1 .. Len(texts) :
                        g[n] = IF n = 1 THEN texts[n] ELSE Append(g[n - 1], Comma) \o texts[n]
<1> DEFINE piece(k) == IF k = 1 THEN texts[k] ELSE <<Comma>> \o texts[k]
           N == Len(texts)
           s == [k \in 1 .. N |-> piece(k)]
<1>1. N \in Nat /\ DOMAIN texts = 1 .. N /\ \A n \in 1 .. N : texts[n] \in AnyText BY LenProperties
<1>2. Arrays!Joined(texts) = FlattenSeq(s)
  <2>1. Arrays!Joined(texts) = FlattenSeq([k \in DOMAIN texts |-> piece(k)])
    BY SameFlatten, Zenon DEF Arrays!Joined, Comma
  <2> QED BY <1>1, <2>1
<1>3. Comma \in Characters BY SignsAreCharacters
<1>4. \A n \in 1 .. N : s[n] = piece(n) OBVIOUS
<1>5. ASSUME NEW n \in 1 .. N PROVE piece(n) \in AnyText
  <2>1. <<Comma>> \in Seq(Characters) BY <1>3
  <2>2. <<Comma>> \o texts[n] \in Seq(Characters) BY <1>1, <2>1, ConcatProperties DEF AnyText
  <2> QED BY <1>1, <2>2 DEF AnyText
<1> HIDE DEF piece, N
<1>6. s \in [1 .. N -> AnyText] BY <1>5
<1> HIDE DEF s
<1>7. s \in Seq(AnyText) /\ Len(s) = N BY <1>1, <1>6, MadeOf
<1>8. PICK g : /\ g[0] = <<>>
               /\ \A n \in 0 .. Len(s) : g[n] \in AnyText
               /\ \A n \in 1 .. Len(s) : g[n] = g[n - 1] \o s[n]
               /\ FlattenSeq(s) = g[Len(s)]
  BY <1>7, FlattenSteps DEF AnyText
<1>9. ASSUME NEW n \in 1 .. N
      PROVE  g[n] = IF n = 1 THEN texts[n] ELSE Append(g[n - 1], Comma) \o texts[n]
  <2>1. n - 1 \in 0 .. N BY <1>1
  <2>2. PICK t \in Seq(Characters) : t = g[n - 1] BY <1>7, <1>8, <2>1 DEF AnyText
  <2>3. PICK u \in Seq(Characters) : u = texts[n] BY <1>1 DEF AnyText
  <2>4. g[n] = t \o piece(n) BY <1>4, <1>7, <1>8, <2>2
  <2>5. <<>> \o u = u BY ConcatEmptySeq
  <2>6. t \o (<<Comma>> \o u) = Append(t, Comma) \o u
    <3>1. <<Comma>> \in Seq(Characters) BY <1>3
    <3>2. t \o (<<Comma>> \o u) = (t \o <<Comma>>) \o u BY <3>1, ConcatAssociative, SMTT(30)
    <3>3. t \o <<Comma>> = Append(t, Comma) BY <1>3, AppendIsConcat
    <3> QED BY <3>2, <3>3
  <2>7. n = 1 => t = <<>> BY <1>8, <2>2
  <2> QED BY <2>2, <2>3, <2>4, <2>5, <2>6, <2>7 DEF piece
<1> QED BY <1>2, <1>7, <1>8, <1>9 DEF N

\* A text and one it begins with.
LEMMA Beginning ==
    ASSUME NEW text \in AnyText, NEW t \in AnyText, Len(t) <= Len(text),
           \A k \in 1 .. Len(t) : t[k] = text[k]
    PROVE  \E u \in AnyText : text = t \o u
<1>1. Len(t) \in Nat /\ Len(text) \in Nat BY LenProperties DEF AnyText
<1>2. Len(t) + 1 \in 1 .. Len(text) + 1 /\ Len(text) \in (Len(t) + 1) - 1 .. Len(text) BY <1>1
<1>a. text \in Seq(Characters) BY DEF AnyText
<1>b. /\ SubSeq(text, Len(t) + 1, Len(text)) \in Seq(Characters)
      /\ Len(SubSeq(text, Len(t) + 1, Len(text))) = Len(text) + 1 - (Len(t) + 1)
      /\ \A i \in 1 .. Len(text) + 1 - (Len(t) + 1) :
            SubSeq(text, Len(t) + 1, Len(text))[i] = text[Len(t) + 1 + i - 1]
  BY <1>2, <1>a, PartIs
<1>3. PICK u \in Seq(Characters) :
        /\ Len(u) = Len(text) + 1 - (Len(t) + 1)
        /\ \A i \in 1 .. Len(text) + 1 - (Len(t) + 1) : u[i] = text[Len(t) + 1 + i - 1]
  BY <1>b, Zenon
<1>4. PICK w \in Seq(Characters) : w = t \o u BY ConcatProperties DEF AnyText
<1>5. /\ Len(w) = Len(t) + Len(u)
      /\ \A i \in 1 .. Len(t) + Len(u) :
            w[i] = IF i <= Len(t) THEN t[i] ELSE u[i - Len(t)]
  BY <1>4, ConcatProperties DEF AnyText
<1>6. Len(w) = Len(text) BY <1>1, <1>3, <1>5
<1>7. ASSUME NEW i \in 1 .. Len(text) PROVE w[i] = text[i]
  <2>1. CASE i <= Len(t)
    <3>1. i \in 1 .. Len(t) BY <1>1, <2>1
    <3> QED BY <1>5, <1>6, <2>1, <3>1
  <2>2. CASE ~(i <= Len(t))
    <3>1. i - Len(t) \in 1 .. Len(text) + 1 - (Len(t) + 1) BY <1>1, <2>2
    <3>2. u[i - Len(t)] = text[Len(t) + 1 + (i - Len(t)) - 1] BY <1>3, <3>1
    <3>3. Len(t) + 1 + (i - Len(t)) - 1 = i BY <1>1
    <3>4. w[i] = u[i - Len(t)] BY <1>1, <1>5, <1>6, <2>2
    <3> QED BY <3>2, <3>3, <3>4
  <2> QED BY <2>1, <2>2
<1>8. w = text BY <1>6, <1>7, SeqEqual DEF AnyText
<1> QED BY <1>3, <1>4, <1>8 DEF AnyText

LEMMA ErrorStays ==
    ASSUME NEW t \in AnyText, Arrays!Parsed(t).state = "error", NEW u \in AnyText
    PROVE  Arrays!Parsed(t \o u).state = "error"
<1> DEFINE N == Len(u)
<1>1. N \in Nat /\ \A n \in 1 .. N : u[n] \in Characters BY LenProperties DEF AnyText
<1>2. PICK g : /\ g[0] = <<>>
               /\ \A n \in 0 .. N : g[n] \in Seq(Characters)
               /\ \A n \in 1 .. N : g[n] = Append(g[n - 1], u[n])
               /\ g[N] = u
  BY AppendSteps, ZenonT(30) DEF AnyText
<1> HIDE DEF N
<1> DEFINE S == {n \in Nat : n \in 0 .. N => Arrays!Parsed(t \o g[n]).state = "error"}
<1>3. 0 \in S
  <2>1. t \o <<>> = t BY ConcatEmptySeq DEF AnyText
  <2> QED BY <1>2, <2>1
<1>4. ASSUME NEW n \in Nat, n \in S PROVE n + 1 \in S
  <2> SUFFICES ASSUME n + 1 \in 0 .. N PROVE Arrays!Parsed(t \o g[n + 1]).state = "error" OBVIOUS
  <2>1. n \in 0 .. N /\ n + 1 \in 1 .. N /\ (n + 1) - 1 = n BY <1>1
  <2>2. PICK w \in Seq(Characters) : w = g[n] BY <1>2, <2>1
  <2>3. PICK c \in Characters : c = u[n + 1] BY <1>1, <2>1
  <2>4. g[n + 1] = Append(w, c) BY <1>2, <2>1, <2>2, <2>3
  <2>5. t \o w \in AnyText /\ t \o Append(w, c) = Append(t \o w, c)
    BY ConcatAppend, ConcatProperties DEF AnyText
  <2>6. Arrays!Parsed(t \o w).state = "error" BY <1>4, <2>1, <2>2
  <2>7. Arrays!Parsed(Append(t \o w, c)) = Arrays!ParseChar(Arrays!Parsed(t \o w), c)
    BY <2>5, ParsedGrows
  <2>8. <<>> \in Seq(AnyText) /\ <<>> \in AnyText BY DEF AnyText
  <2>9. Arrays!ParseChar(Arrays!Parsed(t \o w), c).state = "error" BY <2>6, <2>8, CharParsed
  <2> QED BY <2>4, <2>5, <2>7, <2>9
<1> HIDE DEF S
<1>5. Nat \subseteq S BY <1>3, <1>4, Induction
<1>6. N \in S /\ N \in 0 .. N BY <1>1, <1>5
<1> QED BY <1>2, <1>6 DEF S

\* What array_out writes without quotes.
Unquoted(x) == x # <<>> /\ \A k \in 1 .. Len(x) : x[k] \notin {Open, Close, Comma, Blank, Quote, Slash}

LEMMA UnquotedParsed ==
    ASSUME NEW t \in AnyText, NEW e \in Seq(AnyText), NEW s \in Arrays!Starting,
           Arrays!Parsed(t) = At(s, e), NEW x \in AnyText, Unquoted(x)
    PROVE  /\ x[1] = Apostrophe => Arrays!Parsed(t \o x).state = "error"
           /\ x[1] # Apostrophe => Arrays!Parsed(t \o x) = At("inval", Append(e, x))
<1> DEFINE N == Len(x)
<1>1. N \in Nat /\ N # 0 /\ \A n \in 1 .. N : x[n] \in Characters
  BY LenProperties, EmptySeq DEF AnyText, Unquoted
<1>2. \A n \in 1 .. N : Arrays!Class(x[n]) = IF x[n] = Apostrophe THEN "other" ELSE "legal"
  BY ClassIs DEF Unquoted
<1>3. PICK g : /\ g[0] = <<>>
               /\ \A n \in 0 .. N : g[n] \in Seq(Characters)
               /\ \A n \in 1 .. N : g[n] = Append(g[n - 1], x[n])
               /\ g[N] = x
  BY AppendSteps, ZenonT(30) DEF AnyText
<1> HIDE DEF N
<1> DEFINE Right(n) == IF x[1] = Apostrophe THEN Arrays!Parsed(t \o g[n]).state = "error"
                       ELSE Arrays!Parsed(t \o g[n]) = At("inval", Append(e, g[n]))
           S == {n \in Nat : n + 1 \in 1 .. N => Right(n + 1)}
<1>4. ASSUME NEW n \in 1 .. N, NEW w \in Seq(Characters), w = g[n - 1]
      PROVE  /\ g[n] = Append(w, x[n]) /\ t \o w \in AnyText
             /\ Arrays!Parsed(t \o g[n]) = Arrays!ParseChar(Arrays!Parsed(t \o w), x[n])
  <2>1. PICK c \in Characters : c = x[n] BY <1>1
  <2>2. g[n] = Append(w, c) BY <1>3, <1>4, <2>1
  <2>3. t \o w \in AnyText /\ t \o Append(w, c) = Append(t \o w, c)
    BY ConcatAppend, ConcatProperties DEF AnyText
  <2>4. Arrays!Parsed(Append(t \o w, c)) = Arrays!ParseChar(Arrays!Parsed(t \o w), c)
    BY <2>3, ParsedGrows
  <2> QED BY <2>1, <2>2, <2>3, <2>4
<1>5. 0 \in S
  <2>1. 1 \in 1 .. N /\ 1 - 1 = 0 BY <1>1
  <2>a. <<>> \in Seq(Characters) OBVIOUS
  <2>2. PICK w \in Seq(Characters) : w = <<>> BY <2>a
  <2>3. PICK c \in Characters : c = x[1] BY <1>1, <2>1
  <2>4. w = g[1 - 1] BY <1>3, <2>1, <2>2
  <2>5. g[1] = Append(<<>>, c) /\ Arrays!Parsed(t \o g[1]) = Arrays!ParseChar(Arrays!Parsed(t \o <<>>), c)
    BY <1>4, <2>1, <2>2, <2>3, <2>4
  <2>6. t \o <<>> = t BY ConcatEmptySeq DEF AnyText
  <2>7. Append(<<>>, c) = <<c>> OBVIOUS
  <2>8. <<>> \in AnyText BY DEF AnyText
  <2>9. c # Apostrophe => Arrays!ParseChar(At(s, e), c) = At("inval", Append(e, <<c>>))
    <3>1. c # Apostrophe => Arrays!Class(c) = "legal" BY <1>2, <2>1, <2>3
    <3> QED BY <2>8, <3>1, CharParsed
  <2>10. Arrays!ParseChar(At(s, e), Apostrophe).state = "error" BY <2>3, <2>8, CharParsed
  <2>11. Right(1) BY <2>3, <2>5, <2>6, <2>7, <2>9, <2>10
  <2> HIDE DEF Right
  <2> QED BY <2>11
<1>6. ASSUME NEW n \in Nat, n \in S PROVE n + 1 \in S
  <2> SUFFICES ASSUME n + 2 \in 1 .. N PROVE Right(n + 2) BY DEF S
  <2>1. n + 1 \in 1 .. N /\ n + 1 \in 0 .. N /\ (n + 2) - 1 = n + 1 BY <1>1
  <2>2. PICK w \in Seq(Characters) : w = g[n + 1] BY <1>3, <2>1
  <2>3. PICK c \in Characters : c = x[n + 2] BY <1>1
  <2>4. /\ g[n + 2] = Append(w, c)
        /\ Arrays!Parsed(t \o g[n + 2]) = Arrays!ParseChar(Arrays!Parsed(t \o w), c)
    BY <1>4, <2>1, <2>2, <2>3
  <2>5. Right(n + 1) BY <1>6, <2>1 DEF S
  <2>6. CASE x[1] = Apostrophe
    <3>1. Arrays!Parsed(t \o w).state = "error" BY <2>2, <2>5, <2>6
    <3>2. <<>> \in AnyText BY DEF AnyText
    <3>3. Arrays!ParseChar(Arrays!Parsed(t \o w), c).state = "error" BY <3>1, <3>2, CharParsed
    <3> QED BY <2>4, <2>6, <3>3
  <2>7. CASE x[1] # Apostrophe
    <3>1. Arrays!Parsed(t \o w) = At("inval", Append(e, w)) BY <2>2, <2>5, <2>7
    <3>2. Arrays!Class(c) \in {"legal", "other"} BY <1>2, <2>3
    <3>3. w \in AnyText BY DEF AnyText
    <3>4. Arrays!ParseChar(At("inval", Append(e, w)), c) = At("inval", Append(e, Append(w, c)))
      BY <3>2, <3>3, CharParsed
    <3> QED BY <2>4, <2>7, <3>1, <3>4
  <2> QED BY <2>6, <2>7
<1> HIDE DEF S
<1>7. Nat \subseteq S BY <1>5, <1>6, Induction
<1>8. Right(N)
  <2>1. PICK n \in Nat : n + 1 = N
    <3>1. N - 1 \in Nat /\ (N - 1) + 1 = N BY <1>1
    <3> QED BY <3>1
  <2>2. n \in S /\ n + 1 \in 1 .. N BY <1>1, <1>7, <2>1
  <2>3. Right(n + 1) BY <2>2 DEF S
  <2> QED BY <2>1, <2>3
<1> QED BY <1>3, <1>8

LEMMA Associative ==
    ASSUME NEW A, NEW s \in Seq(A), NEW t \in Seq(A), NEW u \in Seq(A)
    PROVE  (s \o t) \o u = s \o (t \o u)
BY ConcatAssociative

LEMMA QuotedAt ==
    ASSUME NEW A, NEW t \in Seq(A), NEW c \in A, NEW w \in Seq(A)
    PROVE  t \o (<<c>> \o w \o <<c>>) = Append(t, c) \o Append(w, c)
<1>a. <<c>> \in Seq(A) OBVIOUS
<1>b. \A x, y, z \in Seq(A) : (x \o y) \o z = x \o (y \o z) BY Associative
<1>1. PICK q \in Seq(A) : q = <<c>> BY <1>a
<1>2. PICK v \in Seq(A) : v = Append(w, c) BY AppendProperties
<1>3. w \o q = v /\ t \o q = Append(t, c) BY <1>1, <1>2, AppendIsConcat
<1>4. (q \o w) \o q = q \o (w \o q) BY <1>b, Zenon
<1>5. t \o (q \o v) = (t \o q) \o v BY <1>b, Zenon
<1> QED BY <1>1, <1>2, <1>3, <1>4, <1>5

LEMMA JoinedAt ==
    \A w, o \in AnyText : <<Open>> \o (Append(w, Comma) \o o) = Append(<<Open>> \o w, Comma) \o o
<1> SUFFICES ASSUME NEW w \in AnyText, NEW o \in AnyText
             PROVE  <<Open>> \o (Append(w, Comma) \o o) = Append(<<Open>> \o w, Comma) \o o
  OBVIOUS
<1>1. Open \in Characters /\ Comma \in Characters BY SignsAreCharacters
<1>2. <<Open>> \in Seq(Characters) BY <1>1
<1>3. PICK s \in Seq(Characters) : s = <<Open>> BY <1>2
<1>4. PICK v \in Seq(Characters) : v = Append(w, Comma) BY <1>1, AppendProperties DEF AnyText
<1>5. s \o (v \o o) = (s \o v) \o o
  <2>1. o \in Seq(Characters) BY DEF AnyText
  <2> QED BY <2>1, Associative
<1>6. s \o v = Append(s \o w, Comma) BY <1>1, <1>4, ConcatAppend DEF AnyText
<1> QED BY <1>3, <1>4, <1>5, <1>6

LEMMA QuotedParsed ==
    ASSUME NEW t \in AnyText, NEW e \in Seq(AnyText), NEW s \in Arrays!Starting,
           Arrays!Parsed(t) = At(s, e), NEW x \in AnyText
    PROVE  Arrays!Parsed(t \o (<<Quote>> \o Arrays!Escaped(x) \o <<Quote>>))
                = At("findcomma", Append(e, Arrays!Escaped(x)))
<1> DEFINE N == Len(x)
           u == Append(t, Quote)
<1>1. N \in Nat /\ \A n \in 1 .. N : x[n] \in Characters BY LenProperties DEF AnyText
<1>2. PICK g : /\ g[0] = <<>> /\ g[N] = Arrays!Escaped(x)
               /\ \A n \in 0 .. N : g[n] \in AnyText
               /\ \A n \in 1 .. N : g[n] = IF x[n] \in {Quote, Slash}
                                           THEN Append(Append(g[n - 1], Slash), x[n])
                                           ELSE Append(g[n - 1], x[n])
  BY EscapedIs
<1>3. Quote \in Characters /\ Slash \in Characters BY SignsAreCharacters
<1>4. u \in AnyText BY <1>3, OneMore
<1>5. Arrays!Parsed(u) = At("inquote", Append(e, <<>>))
  <2>1. Arrays!Parsed(u) = Arrays!ParseChar(At(s, e), Quote) BY <1>3, ParsedGrows
  <2>2. <<>> \in AnyText BY DEF AnyText
  <2> QED BY <1>3, <2>1, <2>2, CharParsed
<1> HIDE DEF N, u
<1>6. ASSUME NEW w \in AnyText, NEW c \in Characters
      PROVE  /\ u \o w \in AnyText /\ u \o Append(w, c) = Append(u \o w, c) /\ Append(w, c) \in AnyText
             /\ Arrays!Parsed(u \o Append(w, c)) = Arrays!ParseChar(Arrays!Parsed(u \o w), c)
  <2>1. /\ u \o w \in AnyText /\ u \o Append(w, c) = Append(u \o w, c)
        /\ Append(w, c) \in AnyText
    BY <1>4, ConcatAppend, ConcatProperties, AppendProperties DEF AnyText
  <2> QED BY <2>1, ParsedGrows
<1> DEFINE Right(w) == Arrays!Parsed(u \o w) = At("inquote", Append(e, w))
           S == {n \in Nat : n \in 0 .. N => Right(g[n])}
<1>7. 0 \in S
  <2>1. u \o <<>> = u BY <1>4, ConcatEmptySeq DEF AnyText
  <2> QED BY <1>2, <1>5, <2>1
<1>8. ASSUME NEW n \in Nat, n \in S PROVE n + 1 \in S
  <2> SUFFICES ASSUME n + 1 \in 0 .. N PROVE Right(g[n + 1]) OBVIOUS
  <2>1. n \in 0 .. N /\ n + 1 \in 1 .. N /\ (n + 1) - 1 = n BY <1>1
  <2>2. PICK w \in AnyText : w = g[n] BY <1>2, <2>1
  <2>3. PICK c \in Characters : c = x[n + 1] BY <1>1, <2>1
  <2>4. g[n + 1] = IF c \in {Quote, Slash} THEN Append(Append(w, Slash), c) ELSE Append(w, c)
    BY <1>2, <2>1, <2>2, <2>3
  <2>5. Right(w) BY <1>8, <2>1, <2>2
  <2>6. CASE c \notin {Quote, Slash}
    <3>1. Arrays!ParseChar(At("inquote", Append(e, w)), c) = At("inquote", Append(e, Append(w, c)))
      BY <2>6, CharParsed
    <3> QED BY <1>6, <2>4, <2>5, <2>6, <3>1
  <2>7. CASE c \in {Quote, Slash}
    <3>1. PICK v \in AnyText : v = Append(w, Slash) BY <1>3, <1>6
    <3>2. Arrays!ParseChar(At("inquote", Append(e, w)), Slash) = At("escapeq", Append(e, v))
      BY <1>3, <3>1, CharParsed
    <3>3. Arrays!Parsed(u \o v) = At("escapeq", Append(e, v)) BY <1>3, <1>6, <2>5, <3>1, <3>2
    <3>4. Arrays!ParseChar(At("escapeq", Append(e, v)), c) = At("inquote", Append(e, Append(v, c)))
      BY CharParsed
    <3> QED BY <1>6, <2>4, <2>7, <3>1, <3>3, <3>4
  <2> QED BY <2>6, <2>7
<1> HIDE DEF S
<1>9. Nat \subseteq S BY <1>7, <1>8, Induction
<1>10. Right(Arrays!Escaped(x))
  <2>1. N \in S /\ N \in 0 .. N BY <1>1, <1>9
  <2> QED BY <1>2, <2>1 DEF S
<1>11. PICK w \in AnyText : w = Arrays!Escaped(x)
  <2>1. N \in 0 .. N BY <1>1
  <2> QED BY <1>2, <2>1
<1>12. PICK f \in Seq(AnyText) : f = Append(e, w) BY AppendProperties
<1>13. Arrays!Parsed(u \o Append(w, Quote)) = At("findcomma", f)
  <2>1. Arrays!Parsed(u \o w) = At("inquote", f) BY <1>10, <1>11, <1>12
  <2>2. <<>> \in AnyText BY DEF AnyText
  <2>3. Arrays!ParseChar(At("inquote", f), Quote) = At("findcomma", f) BY <1>3, <2>2, CharParsed
  <2> QED BY <1>3, <1>6, <2>1, <2>3
<1>14. t \o (<<Quote>> \o w \o <<Quote>>) = u \o Append(w, Quote)
  BY <1>3, QuotedAt DEF u, AnyText
<1> QED BY <1>11, <1>12, <1>13, <1>14

\* What is in the input for an element; and the elements that
\* parse_pg_array refuses.
Item(v) == IF v = Null THEN <<"NULL">> ELSE IF Arrays!Plain(v) THEN v ELSE Arrays!Escaped(v)
Wrong(v) == v # Null /\ Arrays!Plain(v) /\ v[1] = Apostrophe

LEMMA OutIs ==
    /\ \A v : Arrays!Out(v) = IF v = Null THEN <<"NULL">> ELSE IF Arrays!Plain(v) THEN v
                              ELSE <<Quote>> \o Arrays!Escaped(v) \o <<Quote>>
    /\ \A v \in AnyText : Arrays!Plain(v) => Unquoted(v)
    /\ <<"NULL">> \in AnyText /\ Unquoted(<<"NULL">>) /\ <<"NULL">>[1] # Apostrophe
    /\ \A v \in AnyText : Arrays!Escaped(v) \in AnyText
<1>1. \A v : Arrays!Out(v) = IF v = Null THEN <<"NULL">> ELSE IF Arrays!Plain(v) THEN v
                             ELSE <<Quote>> \o Arrays!Escaped(v) \o <<Quote>>
  BY Zenon DEF Arrays!Out, Quote
<1>2. ASSUME NEW v \in AnyText, Arrays!Plain(v) PROVE Unquoted(v)
  <2>1. DOMAIN v = 1 .. Len(v) BY DEF AnyText
  <2>2. v # <<>> /\ \A k \in DOMAIN v : v[k] \notin {Open, Close, Comma, Blank, Quote, Slash}
    BY <1>2, Zenon DEF Arrays!Plain, Open, Close, Comma, Blank, Quote, Slash
  <2> QED BY <2>1, <2>2 DEF Unquoted
<1>3. <<"NULL">> \in AnyText BY MarksAreCharacters
<1>4. "NULL" \notin {Open, Close, Comma, Blank, Quote, Slash, Apostrophe}
  BY Zenon DEF Open, Close, Comma, Blank, Quote, Slash, Apostrophe
<1>5. Unquoted(<<"NULL">>) /\ <<"NULL">>[1] # Apostrophe
  <2>1. Len(<<"NULL">>) = 1 /\ <<"NULL">>[1] = "NULL" /\ <<"NULL">> # <<>> OBVIOUS
  <2>2. \A k \in 1 .. 1 : k = 1 OBVIOUS
  <2>3. \A k \in 1 .. Len(<<"NULL">>) : <<"NULL">>[k] = "NULL" BY <2>1, <2>2
  <2> QED BY <1>4, <2>1, <2>3 DEF Unquoted
<1>6. ASSUME NEW v \in AnyText PROVE Arrays!Escaped(v) \in AnyText
  <2>1. PICK g : g[Len(v)] = Arrays!Escaped(v) /\ \A n \in 0 .. Len(v) : g[n] \in AnyText
    BY EscapedIs
  <2>2. Len(v) \in 0 .. Len(v) BY LenProperties DEF AnyText
  <2> QED BY <2>1, <2>2
<1> QED BY <1>1, <1>2, <1>3, <1>5, <1>6

LEMMA ItemTyped == \A v \in AnyText \cup {Null} : Item(v) \in AnyText
BY OutIs DEF Item

LEMMA OutParsed ==
    ASSUME NEW t \in AnyText, NEW e \in Seq(AnyText), NEW s \in Arrays!Starting,
           Arrays!Parsed(t) = At(s, e), NEW v \in AnyText \cup {Null}
    PROVE  /\ Wrong(v) => Arrays!Parsed(t \o Arrays!Out(v)).state = "error"
           /\ ~Wrong(v) => \E q \in {"inval", "findcomma"} :
                            Arrays!Parsed(t \o Arrays!Out(v)) = At(q, Append(e, Item(v)))
<1>1. CASE v = Null
  <2>1. Arrays!Out(v) = <<"NULL">> /\ Item(v) = <<"NULL">> BY <1>1, OutIs DEF Item
  <2>2. PICK x \in AnyText : x = <<"NULL">> BY OutIs
  <2>3. Unquoted(x) /\ x[1] # Apostrophe BY <2>2, OutIs
  <2>4. Arrays!Parsed(t \o x) = At("inval", Append(e, x)) BY <2>3, UnquotedParsed
  <2> QED BY <1>1, <2>1, <2>2, <2>4 DEF Wrong
<1>2. CASE v # Null /\ Arrays!Plain(v)
  <2>1. v \in AnyText BY <1>2
  <2>2. Arrays!Out(v) = v /\ Item(v) = v /\ Unquoted(v) BY <1>2, <2>1, OutIs DEF Item
  <2>3. /\ v[1] = Apostrophe => Arrays!Parsed(t \o v).state = "error"
        /\ v[1] # Apostrophe => Arrays!Parsed(t \o v) = At("inval", Append(e, v))
    BY <2>1, <2>2, UnquotedParsed
  <2> QED BY <1>2, <2>2, <2>3 DEF Wrong
<1>3. CASE v # Null /\ ~Arrays!Plain(v)
  <2>1. v \in AnyText BY <1>3
  <2>2. /\ Arrays!Out(v) = <<Quote>> \o Arrays!Escaped(v) \o <<Quote>>
        /\ Item(v) = Arrays!Escaped(v)
    BY <1>3, OutIs DEF Item
  <2>3. Arrays!Parsed(t \o (<<Quote>> \o Arrays!Escaped(v) \o <<Quote>>))
            = At("findcomma", Append(e, Arrays!Escaped(v)))
    BY <2>1, QuotedParsed
  <2> QED BY <1>3, <2>2, <2>3 DEF Wrong
<1> QED BY <1>1, <1>2, <1>3

LEMMA ArrayParsed ==
    ASSUME NEW value \in Seq(AnyText \cup {Null})
    PROVE  /\ (\E k \in 1 .. Len(value) : Wrong(value[k])) =>
                Arrays!ParsePgArray(Arrays!ArrayOut(value)) = Null
           /\ (\A k \in 1 .. Len(value) : ~Wrong(value[k])) =>
                Arrays!ParsePgArray(Arrays!ArrayOut(value))
                    = [k \in 1 .. Len(value) |-> Item(value[k])]
<1> DEFINE N == Len(value)
           outs == [k \in 1 .. N |-> Arrays!Out(value[k])]
           items == [k \in 1 .. N |-> Item(value[k])]
           Some(n) == \E k \in 1 .. n : Wrong(value[k])
<1>1. /\ N \in Nat /\ DOMAIN value = 1 .. N
      /\ \A k \in 1 .. N : value[k] \in AnyText \cup {Null}
  BY LenProperties
<1>2. /\ \A k \in 1 .. N : outs[k] = Arrays!Out(value[k])
      /\ \A k \in 1 .. N : items[k] = Item(value[k])
  OBVIOUS
<1>3. outs \in [1 .. N -> AnyText] /\ items \in [1 .. N -> AnyText] BY <1>1, OutTyped, ItemTyped
<1>4. Arrays!ArrayOut(value) = <<Open>> \o Arrays!Joined(outs) \o <<Close>>
  <2>1. Arrays!ArrayOut(value)
            = <<Open>> \o Arrays!Joined([k \in DOMAIN value |-> Arrays!Out(value[k])]) \o <<Close>>
    BY Zenon DEF Arrays!ArrayOut, Open, Close
  <2> QED BY <1>1, <2>1
<1> HIDE DEF outs, items, N
<1>5. outs \in Seq(AnyText) /\ Len(outs) = N /\ items \in Seq(AnyText) /\ Len(items) = N
  BY <1>1, <1>3, MadeOf
<1>a. PICK g : /\ g[0] = <<>> /\ g[Len(outs)] = Arrays!Joined(outs)
               /\ \A n \in 0 .. Len(outs) : g[n] \in AnyText
               /\ \A n \in 1 .. Len(outs) :
                    g[n] = IF n = 1 THEN outs[n] ELSE Append(g[n - 1], Comma) \o outs[n]
  BY <1>5, JoinedIs
<1>6. /\ g[0] = <<>> /\ g[N] = Arrays!Joined(outs)
      /\ \A n \in 0 .. N : g[n] \in AnyText
      /\ \A n \in 1 .. N :
            g[n] = IF n = 1 THEN outs[n] ELSE Append(g[n - 1], Comma) \o outs[n]
  BY <1>5, <1>a
<1>b. PICK h : /\ h[0] = <<>>
               /\ \A n \in 0 .. Len(items) : h[n] \in Seq(AnyText)
               /\ \A n \in 1 .. Len(items) : h[n] = Append(h[n - 1], items[n])
               /\ h[Len(items)] = items
  BY <1>5, AppendSteps
<1>7. /\ h[0] = <<>> /\ h[N] = items
      /\ \A n \in 0 .. N : h[n] \in Seq(AnyText)
      /\ \A n \in 1 .. N : h[n] = Append(h[n - 1], items[n])
  BY <1>5, <1>b
<1>c. <<>> \in AnyText BY DEF AnyText
<1>8. <<Open>> \in AnyText /\ Comma \in Characters /\ Close \in Characters /\ Open \in Characters
  BY <1>c, SignsAreCharacters, OneMore
<1> DEFINE Right(n) ==
                /\ Some(n) => Arrays!Parsed(<<Open>> \o g[n]).state = "error"
                /\ ~Some(n) => \E q \in IF n = 0 THEN {"firstval"} ELSE {"inval", "findcomma"} :
                                Arrays!Parsed(<<Open>> \o g[n]) = At(q, h[n])
           S == {n \in Nat : n \in 0 .. N => Right(n)}
<1>9. 0 \in S
  <2>1. ~Some(0) OBVIOUS
  <2>2. <<Open>> \o <<>> = <<Open>> OBVIOUS
  <2>3. <<>> \in AnyText /\ <<>> \in Seq(AnyText) BY DEF AnyText
  <2>4. Append(<<>>, Open) = <<Open>> OBVIOUS
  <2>5. Arrays!Parsed(<<Open>>) = Arrays!ParseChar(At("begin", <<>>), Open)
    BY <1>8, <2>3, <2>4, ParsedStarts, ParsedGrows
  <2>6. Arrays!ParseChar(At("begin", <<>>), Open) = At("firstval", <<>>)
    BY <1>8, <2>3, CharParsed
  <2>7. Arrays!Parsed(<<Open>> \o g[0]) = At("firstval", h[0]) BY <1>6, <1>7, <2>2, <2>5, <2>6
  <2> HIDE DEF Some
  <2>8. Right(0) BY <2>1, <2>7
  <2> QED BY <2>8
<1>10. ASSUME NEW n \in Nat, n \in S PROVE n + 1 \in S
  <2> SUFFICES ASSUME n + 1 \in 0 .. N PROVE Right(n + 1) OBVIOUS
  <2>1. n \in 0 .. N /\ n + 1 \in 1 .. N /\ (n + 1) - 1 = n /\ n + 1 # 0 BY <1>1
  <2>2. PICK w \in AnyText : w = g[n] BY <1>6, <2>1
  <2>3. PICK o \in AnyText : o = outs[n + 1] /\ o = Arrays!Out(value[n + 1]) BY <1>2, <1>3, <2>1
  <2>4. PICK e \in Seq(AnyText) : e = h[n] BY <1>7, <2>1
  <2>5. PICK v \in AnyText \cup {Null} : v = value[n + 1] BY <1>1, <2>1
  <2>6. PICK p \in AnyText : p = <<Open>> \o w BY <1>8, ConcatProperties DEF AnyText
  <2>7. Right(n) BY <1>10, <2>1
  <2>8. h[n + 1] = Append(e, Item(v)) BY <1>2, <1>7, <2>1, <2>4, <2>5
  <2>9. Some(n + 1) <=> Some(n) \/ Wrong(v)
    <3>1. \A k \in 1 .. n + 1 : k \in 1 .. n \/ k = n + 1 BY <2>1
    <3>2. \A k \in 1 .. n : k \in 1 .. n + 1 BY <2>1
    <3>3. n + 1 \in 1 .. n + 1 BY <2>1
    <3> QED BY <2>5, <3>1, <3>2, <3>3
  <2>10. \E u \in AnyText :
            /\ <<Open>> \o g[n + 1] = u \o o
            /\ Some(n) => Arrays!Parsed(u).state = "error"
            /\ ~Some(n) => \E s \in Arrays!Starting : Arrays!Parsed(u) = At(s, e)
    <3>1. CASE n = 0
      <4>a. PICK m \in 1 .. N : m = n + 1 /\ m = 1 BY <2>1, <3>1
      <4>1. g[n + 1] = o BY <1>6, <2>3, <4>a, Zenon
      <4>2. ~Some(n) BY <3>1
      <4>3. p = <<Open>>
        <5>1. <<Open>> \o <<>> = <<Open>> OBVIOUS
        <5> QED BY <1>6, <2>2, <2>6, <3>1, <5>1
      <4> HIDE DEF Some
      <4>4. Arrays!Parsed(p) = At("firstval", e) BY <2>2, <2>4, <2>6, <2>7, <3>1, <4>2
      <4>5. "firstval" \in Arrays!Starting BY DEF Arrays!Starting
      <4> QED BY <4>1, <4>2, <4>3, <4>4, <4>5
    <3>2. CASE n # 0
      <4> HIDE DEF Some
      <4>a. PICK m \in 1 .. N : m = n + 1 /\ m # 1 /\ m - 1 = n BY <2>1, <3>2
      <4>1. g[n + 1] = Append(w, Comma) \o o BY <1>6, <2>2, <2>3, <4>a, Zenon
      <4>2. PICK u \in AnyText : u = Append(p, Comma) BY <1>8, OneMore
      <4>3. <<Open>> \o (Append(w, Comma) \o o) = u \o o BY <2>6, <4>2, JoinedAt, Zenon
      <4>6. Arrays!Parsed(u) = Arrays!ParseChar(Arrays!Parsed(p), Comma) BY <1>8, <4>2, ParsedGrows
      <4>7. <<>> \in AnyText BY DEF AnyText
      <4>8. Some(n) => Arrays!Parsed(u).state = "error"
        <5>1. Some(n) => Arrays!Parsed(p).state = "error" BY <2>2, <2>6, <2>7
        <5>2. \A r : r.state = "error" => Arrays!ParseChar(r, Comma).state = "error"
          BY <1>8, <2>4, <4>7, CharParsed
        <5> QED BY <4>6, <5>1, <5>2
      <4>9. ASSUME ~Some(n) PROVE Arrays!Parsed(u) = At("findval", e)
        <5>1. PICK q \in {"inval", "findcomma"} : Arrays!Parsed(p) = At(q, e)
          BY <2>2, <2>4, <2>6, <2>7, <3>2, <4>9
        <5>2. Arrays!ParseChar(At(q, e), Comma) = At("findval", e) BY <1>8, <4>7, CharParsed
        <5> QED BY <4>6, <5>1, <5>2
      <4>10. "findval" \in Arrays!Starting BY DEF Arrays!Starting
      <4> QED BY <4>1, <4>3, <4>8, <4>9, <4>10
    <3> QED BY <3>1, <3>2
  <2>11. PICK u \in AnyText :
            /\ <<Open>> \o g[n + 1] = u \o o
            /\ Some(n) => Arrays!Parsed(u).state = "error"
            /\ ~Some(n) => \E s \in Arrays!Starting : Arrays!Parsed(u) = At(s, e)
    BY <2>10
  <2> HIDE DEF Some
  <2>12. CASE Some(n)
    <3>1. Arrays!Parsed(u \o o).state = "error" BY <2>11, <2>12, ErrorStays
    <3> QED BY <2>9, <2>11, <2>12, <3>1
  <2>13. CASE ~Some(n)
    <3>1. PICK s \in Arrays!Starting : Arrays!Parsed(u) = At(s, e) BY <2>11, <2>13
    <3>2. /\ Wrong(v) => Arrays!Parsed(u \o Arrays!Out(v)).state = "error"
          /\ ~Wrong(v) => \E q \in {"inval", "findcomma"} :
                            Arrays!Parsed(u \o Arrays!Out(v)) = At(q, Append(e, Item(v)))
      BY <3>1, OutParsed
    <3> QED BY <2>1, <2>3, <2>5, <2>8, <2>9, <2>11, <2>13, <3>2
  <2> QED BY <2>12, <2>13
<1> HIDE DEF S
<1>11. Nat \subseteq S BY <1>9, <1>10, Induction
<1>12. Right(N)
  <2>1. N \in S /\ N \in 0 .. N BY <1>1, <1>11
  <2> QED BY <2>1 DEF S
<1>13. PICK w \in AnyText : w = g[N]
  <2>1. N \in 0 .. N BY <1>1
  <2> QED BY <1>6, <2>1
<1>14. PICK p \in AnyText : p = <<Open>> \o w BY <1>8, ConcatProperties DEF AnyText
<1>15. PICK text \in AnyText : text = Append(p, Close) /\ text # <<>>
  BY <1>8, AppendProperties DEF AnyText
<1>16. Arrays!ArrayOut(value) = text
  <2>1. p \o <<Close>> = text BY <1>8, <1>15, OneMore
  <2> QED BY <1>4, <1>6, <1>13, <1>14, <2>1
<1>17. Arrays!Parsed(text) = Arrays!ParseChar(Arrays!Parsed(p), Close) BY <1>8, <1>15, ParsedGrows
<1>18. <<>> \in AnyText BY DEF AnyText
<1>19. ASSUME Some(N) PROVE Arrays!ParsePgArray(text) = Null
  <2> HIDE DEF Some
  <2>1. Arrays!Parsed(p).state = "error" BY <1>12, <1>13, <1>14, <1>19
  <2>a. \A r : r.state = "error" => Arrays!ParseChar(r, Close).state = "error"
    BY <1>5, <1>8, <1>18, CharParsed
  <2>2. Arrays!Parsed(text).state = "error" BY <1>17, <2>1, <2>a
  <2> QED BY <2>2 DEF Arrays!ParsePgArray
<1>20. ASSUME ~Some(N) PROVE Arrays!ParsePgArray(text) = items
  <2> HIDE DEF Some
  <2>1. PICK q \in {"firstval", "inval", "findcomma"} : Arrays!Parsed(p) = At(q, items)
    BY <1>7, <1>12, <1>13, <1>14, <1>20
  <2>2. Arrays!ParseChar(At(q, items), Close) = At("finish", items)
    BY <1>5, <1>8, <1>18, CharParsed
  <2>3. Arrays!Parsed(text) = At("finish", items) BY <1>17, <2>1, <2>2
  <2> QED BY <1>15, <2>3 DEF Arrays!ParsePgArray, At
<1> QED BY <1>16, <1>19, <1>20 DEF N, items

-----------------------------------------------------------------------------
(* Taking the elements back *)

LEMMA LostToTheEnd ==
    ASSUME NEW t \in AnyText, Lost(Arrays!Taken(t)), NEW u \in AnyText
    PROVE  Lost(Arrays!Taken(t \o u))
<1> DEFINE N == Len(u)
<1>1. N \in Nat /\ \A n \in 1 .. N : u[n] \in Characters BY LenProperties DEF AnyText
<1>2. PICK g : /\ g[0] = <<>>
               /\ \A n \in 0 .. N : g[n] \in Seq(Characters)
               /\ \A n \in 1 .. N : g[n] = Append(g[n - 1], u[n])
               /\ g[N] = u
  BY AppendSteps, ZenonT(30) DEF AnyText
<1> HIDE DEF N
<1> DEFINE S == {n \in Nat : n \in 0 .. N => Lost(Arrays!Taken(t \o g[n]))}
<1>3. 0 \in S
  <2>1. t \o <<>> = t BY ConcatEmptySeq DEF AnyText
  <2> QED BY <1>2, <2>1
<1>4. ASSUME NEW n \in Nat, n \in S PROVE n + 1 \in S
  <2> SUFFICES ASSUME n + 1 \in 0 .. N PROVE Lost(Arrays!Taken(t \o g[n + 1])) OBVIOUS
  <2>1. n \in 0 .. N /\ n + 1 \in 1 .. N /\ (n + 1) - 1 = n BY <1>1
  <2>2. PICK w \in Seq(Characters) : w = g[n] BY <1>2, <2>1
  <2>3. PICK c \in Characters : c = u[n + 1] BY <1>1, <2>1
  <2>4. g[n + 1] = Append(w, c) BY <1>2, <2>1, <2>2, <2>3
  <2>5. t \o w \in AnyText /\ t \o Append(w, c) = Append(t \o w, c)
    BY ConcatAppend, ConcatProperties DEF AnyText
  <2>6. Lost(Arrays!Taken(t \o w)) BY <1>4, <2>1, <2>2
  <2>7. Arrays!Taken(Append(t \o w, c)) = Arrays!TakeChar(Arrays!Taken(t \o w), c)
    BY <2>5, TakenGrows
  <2>8. Lost(Arrays!TakeChar(Arrays!Taken(t \o w), c)) BY <2>6, LostStays
  <2> QED BY <2>4, <2>5, <2>7, <2>8
<1> HIDE DEF S
<1>5. Nat \subseteq S BY <1>3, <1>4, Induction
<1>6. N \in S /\ N \in 0 .. N BY <1>1, <1>5
<1> QED BY <1>2, <1>6 DEF S

LEMMA EscapedUnquoted ==
    ASSUME NEW x \in AnyText, Unquoted(x)
    PROVE  Arrays!Escaped(x) = x
<1> DEFINE N == Len(x)
<1>1. N \in Nat BY LenProperties DEF AnyText
<1>2. PICK g : /\ g[0] = <<>> /\ g[N] = Arrays!Escaped(x)
               /\ \A n \in 1 .. N : g[n] = IF x[n] \in {Quote, Slash}
                                           THEN Append(Append(g[n - 1], Slash), x[n])
                                           ELSE Append(g[n - 1], x[n])
  BY EscapedIs
<1>3. PICK h : /\ h[0] = <<>> /\ h[N] = x
               /\ \A n \in 1 .. N : h[n] = Append(h[n - 1], x[n])
  BY AppendSteps, SMTT(30) DEF AnyText
<1>4. \A n \in 1 .. N : x[n] \notin {Quote, Slash} BY DEF Unquoted
<1> HIDE DEF N
<1> DEFINE S == {n \in Nat : n \in 0 .. N => g[n] = h[n]}
<1>5. 0 \in S BY <1>2, <1>3
<1>6. ASSUME NEW n \in Nat, n \in S PROVE n + 1 \in S
  <2> SUFFICES ASSUME n + 1 \in 0 .. N PROVE g[n + 1] = h[n + 1] OBVIOUS
  <2>1. PICK m \in 1 .. N : m = n + 1 /\ m - 1 = n /\ n \in 0 .. N BY <1>1
  <2>2. g[m] = Append(g[n], x[m]) BY <1>2, <1>4, <2>1
  <2>3. h[m] = Append(h[n], x[m]) BY <1>3, <2>1
  <2> QED BY <1>6, <2>1, <2>2, <2>3
<1> HIDE DEF S
<1>7. Nat \subseteq S BY <1>5, <1>6, Induction
<1>8. N \in S /\ N \in 0 .. N BY <1>1, <1>7
<1> QED BY <1>2, <1>3, <1>8 DEF S

\* A text that is not dropped or cut.
Whole(v) ==
    /\ v # <<>> /\ v[1] # Blank /\ v[Len(v)] # Blank
    /\ \A k \in 1 .. Len(v) : v[k] # Comma

Braced(v) == \E k \in 1 .. Len(v) : v[k] \in {Open, Close}

LEMMA EscapedTaken ==
    ASSUME NEW t \in AnyText, NEW e, Arrays!Taken(t) = Has("taking", e, <<>>, <<>>),
           NEW v \in AnyText, Whole(v)
    PROVE  \/ Braced(v) /\ Lost(Arrays!Taken(t \o Arrays!Escaped(v)))
           \/ Arrays!Taken(t \o Arrays!Escaped(v)) = Has("taking", e, v, <<>>)
<1> DEFINE N == Len(v)
<1>1. N \in Nat /\ N # 0 /\ \A n \in 1 .. N : v[n] \in Characters
  BY LenProperties, EmptySeq DEF AnyText, Whole
<1>2. PICK g : /\ g[0] = <<>> /\ g[N] = Arrays!Escaped(v)
               /\ \A n \in 0 .. N : g[n] \in AnyText
               /\ \A n \in 1 .. N : g[n] = IF v[n] \in {Quote, Slash}
                                           THEN Append(Append(g[n - 1], Slash), v[n])
                                           ELSE Append(g[n - 1], v[n])
  BY EscapedIs
<1>3. PICK h : /\ h[0] = <<>> /\ h[N] = v
               /\ \A n \in 1 .. N : h[n] = Append(h[n - 1], v[n])
  BY AppendSteps, SMTT(30) DEF AnyText
<1>4. v[1] # Blank /\ v[N] # Blank /\ \A n \in 1 .. N : v[n] # Comma BY DEF Whole
<1> HIDE DEF N
<1>5. Slash \in Characters /\ Blank \in Characters /\ <<>> \in AnyText
  BY SignsAreCharacters DEF AnyText
<1>6. ASSUME NEW w \in AnyText, NEW c \in Characters
      PROVE  /\ t \o w \in AnyText /\ Append(w, c) \in AnyText
             /\ Arrays!Taken(t \o Append(w, c)) = Arrays!TakeChar(Arrays!Taken(t \o w), c)
  <2>1. /\ t \o w \in AnyText /\ t \o Append(w, c) = Append(t \o w, c)
        /\ Append(w, c) \in AnyText
    BY ConcatAppend, ConcatProperties, AppendProperties DEF AnyText
  <2> QED BY <2>1, TakenGrows
<1> DEFINE Reached(n, x, spaces) ==
                /\ Arrays!Taken(t \o g[n]) = Has("taking", e, x, spaces)
                /\ x \o spaces = h[n]
                /\ n = 0 => x = <<>> /\ spaces = <<>>
                /\ n # 0 => x # <<>> /\ (v[n] # Blank => spaces = <<>>)
           Right(n) == \/ Braced(v) /\ Lost(Arrays!Taken(t \o g[n]))
                       \/ \E x, spaces \in AnyText : Reached(n, x, spaces)
           S == {n \in Nat : n \in 0 .. N => Right(n)}
<1>7. 0 \in S
  <2>1. t \o <<>> = t BY ConcatEmptySeq DEF AnyText
  <2>2. <<>> \o <<>> = <<>> OBVIOUS
  <2>3. Reached(0, <<>>, <<>>) BY <1>2, <1>3, <2>1, <2>2
  <2> HIDE DEF Reached
  <2>4. Right(0) BY <1>5, <2>3
  <2> QED BY <2>4
<1> HIDE DEF Right
<1>8. ASSUME NEW n \in Nat, n \in S PROVE n + 1 \in S
  <2> SUFFICES ASSUME n + 1 \in 0 .. N PROVE Right(n + 1) OBVIOUS
  <2>1. PICK m \in 1 .. N : m = n + 1 /\ m - 1 = n /\ n \in 0 .. N /\ m # 0 BY <1>1
  <2>2. PICK w \in AnyText : w = g[n] BY <1>2, <2>1
  <2>3. PICK c \in Characters : c = v[m] BY <1>1
  <2>4. g[m] = IF c \in {Quote, Slash} THEN Append(Append(w, Slash), c) ELSE Append(w, c)
    BY <1>2, <2>1, <2>2, <2>3
  <2>5. h[m] = Append(h[n], c) BY <1>3, <2>1, <2>3
  <2>6. Right(n) BY <1>8, <2>1
  <2>7. c # Comma BY <1>4, <2>3
  <2>8. CASE Braced(v) /\ Lost(Arrays!Taken(t \o w))
    <3>1. \A r, q : Lost(r) => Lost(Arrays!TakeChar(r, q)) BY LostStays
    <3>2. Lost(Arrays!Taken(t \o Append(w, c))) BY <1>6, <2>8, <3>1
    <3>3. PICK b \in AnyText : b = Append(w, Slash) BY <1>5, <1>6
    <3>4. Lost(Arrays!Taken(t \o b)) BY <1>5, <1>6, <2>8, <3>1, <3>3
    <3>5. Lost(Arrays!Taken(t \o Append(b, c))) BY <1>6, <3>1, <3>4
    <3>6. Lost(Arrays!Taken(t \o g[m])) BY <2>4, <3>2, <3>3, <3>5
    <3> QED BY <2>1, <2>8, <3>6 DEF Right
  <2>9. ASSUME NEW x \in AnyText, NEW spaces \in AnyText, Reached(n, x, spaces)
        PROVE  Right(m)
    <3>1. /\ Arrays!Taken(t \o w) = Has("taking", e, x, spaces) /\ x \o spaces = h[n]
          /\ n = 0 => x = <<>> /\ spaces = <<>>
          /\ n # 0 => x # <<>>
      BY <2>2, <2>9
    <3>2. PICK y \in AnyText : y = x \o spaces BY ConcatProperties DEF AnyText
    <3>3. PICK z \in AnyText : z = Append(y, c) /\ z # <<>> /\ z \o <<>> = z
      <4>1. Append(y, c) \in Seq(Characters) /\ Append(y, c) # <<>>
        BY AppendProperties DEF AnyText
      <4>2. Append(y, c) \o <<>> = Append(y, c) BY <4>1, ConcatEmptySeq
      <4> QED BY <4>1, <4>2 DEF AnyText
    <3>4. h[m] = z BY <2>5, <3>1, <3>2, <3>3
    <3>5. ASSUME Arrays!Taken(t \o g[m]) = Has("taking", e, z, <<>>) PROVE Right(m)
      <4>1. Reached(m, z, <<>>) BY <2>1, <3>3, <3>4, <3>5
      <4> HIDE DEF Reached
      <4> QED BY <1>5, <4>1 DEF Right
    <3>6. CASE c \in {Quote, Slash}
      <4>1. PICK b \in AnyText : b = Append(w, Slash) BY <1>5, <1>6
      <4>2. Arrays!TakeChar(Has("taking", e, x, spaces), Slash) = Has("protecting", e, x, spaces)
        BY CharTaken
      <4>3. Arrays!Taken(t \o b) = Has("protecting", e, x, spaces) BY <1>5, <1>6, <3>1, <4>1, <4>2
      <4>4. Arrays!TakeChar(Has("protecting", e, x, spaces), c)
                = Has("taking", e, Append(x \o spaces, c), <<>>)
        BY CharTaken
      <4>5. Arrays!Taken(t \o Append(b, c)) = Has("taking", e, z, <<>>)
        BY <1>6, <3>2, <3>3, <4>3, <4>4
      <4>6. g[m] = Append(b, c) BY <2>4, <3>6, <4>1
      <4> QED BY <3>5, <4>5, <4>6
    <3>7. ASSUME c \notin {Quote, Slash}
          PROVE  Arrays!Taken(t \o g[m]) = Arrays!TakeChar(Has("taking", e, x, spaces), c)
      BY <1>6, <2>4, <3>1, <3>7
    <3>8. CASE c \in {Open, Close}
      <4>1. Lost(Arrays!TakeChar(Has("taking", e, x, spaces), c)) BY <3>8, CharTaken
      <4>2. c \notin {Quote, Slash} BY <3>8, SignsDiffer
      <4>3. Lost(Arrays!Taken(t \o g[m])) BY <3>7, <4>1, <4>2
      <4>4. Braced(v) BY <2>3, <3>8 DEF Braced, N
      <4> QED BY <4>3, <4>4 DEF Right
    <3>9. CASE c = Blank
      <4>1. c \notin {Quote, Slash} BY <3>9, SignsDiffer
      <4>a. n = 0 => m = 1 BY <2>1
      <4>2. n # 0 BY <1>4, <2>3, <3>9, <4>a, Zenon
      <4>3. x # <<>> BY <3>1, <4>2
      <4>4. Arrays!TakeChar(Has("taking", e, x, spaces), Blank) = Has("taking", e, x, Append(spaces, Blank))
        BY <4>3, CharTaken
      <4>5. PICK b \in AnyText : b = Append(spaces, Blank) BY <1>5, <1>6
      <4>6. x \o b = z BY <1>5, <3>2, <3>3, <3>9, <4>5, ConcatAppend, SMTT(30) DEF AnyText
      <4>7. Arrays!Taken(t \o g[m]) = Has("taking", e, x, b) BY <3>7, <3>9, <4>1, <4>4, <4>5
      <4>8. Reached(m, x, b) BY <2>1, <2>3, <3>4, <3>9, <4>3, <4>6, <4>7
      <4> HIDE DEF Reached
      <4> QED BY <4>8 DEF Right
    <3>10. CASE c \notin {Open, Close, Quote, Slash, Blank}
      <4>1. Arrays!TakeChar(Has("taking", e, x, spaces), c)
                = Has("taking", e, Append(x \o spaces, c), <<>>)
        BY <2>7, <3>10, CharTaken
      <4>2. Arrays!Taken(t \o g[m]) = Has("taking", e, z, <<>>)
        BY <3>2, <3>3, <3>7, <3>10, <4>1
      <4> QED BY <3>5, <4>2
    <3> QED BY <3>6, <3>8, <3>9, <3>10
  <2> HIDE DEF Reached
  <2> QED BY <2>1, <2>2, <2>6, <2>8, <2>9 DEF Right
<1> HIDE DEF S
<1>9. Nat \subseteq S BY <1>7, <1>8, Induction
<1>10. Right(N)
  <2>1. N \in S /\ N \in 0 .. N BY <1>1, <1>9
  <2> QED BY <2>1 DEF S
<1>11. ASSUME NEW x \in AnyText, NEW spaces \in AnyText, Reached(N, x, spaces)
       PROVE  Arrays!Taken(t \o Arrays!Escaped(v)) = Has("taking", e, v, <<>>)
  <2>1. spaces = <<>> /\ x \o spaces = v BY <1>1, <1>3, <1>4, <1>11
  <2>2. x \o <<>> = x BY ConcatEmptySeq DEF AnyText
  <2> QED BY <1>2, <1>11, <2>1, <2>2
<1> HIDE DEF Reached
<1> QED BY <1>2, <1>10, <1>11 DEF Right

\* How an element comes back.
Back(v) == IF v = Null THEN <<"NULL">> ELSE v

LEMMA KeptIs ==
    ASSUME NEW v \in AnyText \cup {Null}, ~Unkept(v)
    PROVE  /\ Back(v) \in AnyText /\ Whole(Back(v)) /\ Back(v) # <<>>
           /\ Item(v) = Arrays!Escaped(Back(v))
           /\ (IF Back(v) = <<"NULL">> THEN Null ELSE Back(v)) = v
<1>1. CASE v = Null
  <2>1. Back(v) = <<"NULL">> /\ Item(v) = <<"NULL">> BY <1>1 DEF Back, Item
  <2>2. PICK x \in AnyText : x = <<"NULL">> BY OutIs
  <2>3. Unquoted(x) /\ Arrays!Escaped(x) = x
    <3>1. Unquoted(x) BY <2>2, OutIs
    <3> QED BY <3>1, EscapedUnquoted
  <2>4. Whole(x)
    <3>1. Len(x) = 1 /\ x # <<>> BY <2>2
    <3>2. 1 \in 1 .. Len(x) BY <3>1
    <3> QED BY <2>3, <3>1, <3>2 DEF Unquoted, Whole
  <2>5. x # <<>> BY <2>2
  <2> QED BY <1>1, <2>1, <2>2, <2>3, <2>4, <2>5
<1>2. CASE v # Null
  <2>1. v \in AnyText /\ Back(v) = v BY <1>2 DEF Back
  <2>2. v # <<>> /\ v # <<"NULL">> BY <1>2 DEF Unkept
  <2>3. Comma \notin Range(v) /\ Blank \notin {v[1], Last(v)}
    BY <1>2, Zenon DEF Unkept, Comma, Blank
  <2>4. Range(v) = {v[k] : k \in 1 .. Len(v)} /\ Last(v) = v[Len(v)]
    BY <2>1 DEF Range, Last, AnyText
  <2>5. Whole(v) BY <2>2, <2>3, <2>4 DEF Whole
  <2>6. Item(v) = Arrays!Escaped(v)
    <3>1. Arrays!Plain(v) => Arrays!Escaped(v) = v BY <2>1, OutIs, EscapedUnquoted
    <3> QED BY <1>2, <3>1 DEF Item
  <2> QED BY <2>1, <2>2, <2>5, <2>6
<1> QED BY <1>1, <1>2

LEMMA ItemTaken ==
    ASSUME NEW t \in AnyText, NEW e, Arrays!Taken(t) = Has("taking", e, <<>>, <<>>),
           NEW v \in AnyText \cup {Null}, ~Unkept(v)
    PROVE  \/ v # Null /\ Braced(v) /\ Lost(Arrays!Taken(t \o Item(v)))
           \/ Arrays!Taken(t \o Item(v)) = Has("taking", e, Back(v), <<>>)
<1>1. Back(v) \in AnyText /\ Whole(Back(v)) /\ Item(v) = Arrays!Escaped(Back(v)) BY KeptIs
<1>2. v = Null => ~Braced(Back(v)) BY OutIs DEF Back, Braced, Unquoted
<1>3. v # Null => Back(v) = v BY DEF Back
<1> QED BY <1>1, <1>2, <1>3, EscapedTaken

\* An element has a brace.
SomeBraced(value) == \E k \in 1 .. Len(value) : value[k] # Null /\ Braced(value[k])

LEMMA ItemsTaken ==
    ASSUME NEW value \in Seq(AnyText \cup {Null}), value # <<>>,
           \A k \in 1 .. Len(value) : ~Unkept(value[k])
    PROVE  LET end == Arrays!Taken(Arrays!Joined([k \in 1 .. Len(value) |-> Item(value[k])]))
           IN  \/ SomeBraced(value) /\ Lost(end)
               \/ \E front :
                    /\ end = Has("taking", front, Back(value[Len(value)]), <<>>)
                    /\ Append(front, Back(value[Len(value)]))
                            = [k \in 1 .. Len(value) |-> Back(value[k])]
<1> DEFINE N == Len(value)
           items == [k \in 1 .. N |-> Item(value[k])]
           backs == [k \in 1 .. N |-> Back(value[k])]
<1>1. /\ N \in Nat /\ N # 0
      /\ \A k \in 1 .. N : value[k] \in AnyText \cup {Null} /\ ~Unkept(value[k])
  BY LenProperties, EmptySeq
<1>2. /\ \A k \in 1 .. N : items[k] = Item(value[k])
      /\ \A k \in 1 .. N : backs[k] = Back(value[k])
  OBVIOUS
<1>3. items \in [1 .. N -> AnyText] /\ backs \in [1 .. N -> AnyText] BY <1>1, ItemTyped, KeptIs
<1> HIDE DEF items, backs, N
<1>4. items \in Seq(AnyText) /\ Len(items) = N /\ backs \in Seq(AnyText) /\ Len(backs) = N
  BY <1>1, <1>3, MadeOf
<1>a. PICK g : /\ g[0] = <<>> /\ g[Len(items)] = Arrays!Joined(items)
               /\ \A n \in 0 .. Len(items) : g[n] \in AnyText
               /\ \A n \in 1 .. Len(items) :
                    g[n] = IF n = 1 THEN items[n] ELSE Append(g[n - 1], Comma) \o items[n]
  BY <1>4, JoinedIs
<1>5. /\ g[N] = Arrays!Joined(items)
      /\ \A n \in 0 .. N : g[n] \in AnyText
      /\ \A n \in 1 .. N :
            g[n] = IF n = 1 THEN items[n] ELSE Append(g[n - 1], Comma) \o items[n]
  BY <1>4, <1>a
<1>b. PICK h : /\ h[0] = <<>>
               /\ \A n \in 1 .. Len(backs) : h[n] = Append(h[n - 1], backs[n])
               /\ h[Len(backs)] = backs
  BY <1>4, AppendSteps
<1>6. /\ h[0] = <<>> /\ h[N] = backs
      /\ \A n \in 1 .. N : h[n] = Append(h[n - 1], backs[n])
  BY <1>4, <1>b
<1>7. Comma \in Characters /\ <<>> \in AnyText BY SignsAreCharacters DEF AnyText
<1>c. \A k \in 1 .. N : value[k] # Null /\ Braced(value[k]) => SomeBraced(value)
  BY DEF SomeBraced, N
<1> DEFINE Right(n) == \/ SomeBraced(value) /\ Lost(Arrays!Taken(g[n]))
                       \/ Arrays!Taken(g[n]) = Has("taking", h[n - 1], backs[n], <<>>)
           S == {n \in Nat : n + 1 \in 1 .. N => Right(n + 1)}
<1> HIDE DEF Right
<1>8. 0 \in S
  <2>1. 1 \in 1 .. N /\ 1 - 1 = 0 BY <1>1
  <2>2. PICK v \in AnyText \cup {Null} : v = value[1] /\ ~Unkept(v) BY <1>1, <2>1
  <2>3. g[1] = Item(v) /\ backs[1] = Back(v) BY <1>2, <1>5, <2>1, <2>2
  <2>4. <<>> \o Item(v) = Item(v) BY ItemTyped, ConcatEmptySeq DEF AnyText
  <2>5. \/ v # Null /\ Braced(v) /\ Lost(Arrays!Taken(<<>> \o Item(v)))
        \/ Arrays!Taken(<<>> \o Item(v)) = Has("taking", <<>>, Back(v), <<>>)
    BY <1>7, <2>2, TakenStarts, ItemTaken
  <2>6. Right(1) BY <1>6, <1>c, <2>1, <2>2, <2>3, <2>4, <2>5 DEF Right
  <2> QED BY <2>6
<1>9. ASSUME NEW n \in Nat, n \in S PROVE n + 1 \in S
  <2> SUFFICES ASSUME n + 2 \in 1 .. N PROVE Right(n + 2) OBVIOUS
  <2>1. PICK m \in 1 .. N : m = n + 1 BY <1>1
  <2>2. PICK j \in 1 .. N : j = n + 2 /\ j - 1 = m /\ j # 1 BY <1>1, <2>1
  <2>3. Right(m) BY <1>9, <2>1
  <2>4. PICK w \in AnyText : w = g[m]
    <3>1. m \in 0 .. N BY <1>1
    <3> QED BY <1>5, <3>1
  <2>5. PICK v \in AnyText \cup {Null} : v = value[j] /\ ~Unkept(v) BY <1>1
  <2>6. PICK u \in AnyText : u = Append(w, Comma) BY <1>7, OneMore
  <2>7. g[j] = u \o Item(v) BY <1>2, <1>5, <2>2, <2>4, <2>5, <2>6, Zenon
  <2>8. Arrays!Taken(u) = Arrays!TakeChar(Arrays!Taken(w), Comma) BY <1>7, <2>6, TakenGrows
  <2>9. CASE SomeBraced(value) /\ Lost(Arrays!Taken(w))
    <3>1. Lost(Arrays!Taken(u)) BY <2>8, <2>9, LostStays
    <3>2. Item(v) \in AnyText BY ItemTyped
    <3>3. Lost(Arrays!Taken(u \o Item(v))) BY <3>1, <3>2, LostToTheEnd
    <3> QED BY <2>2, <2>7, <2>9, <3>3 DEF Right
  <2>10. CASE Arrays!Taken(w) = Has("taking", h[m - 1], backs[m], <<>>)
    <3>1. Arrays!TakeChar(Has("taking", h[m - 1], backs[m], <<>>), Comma)
            = Has("taking", Append(h[m - 1], backs[m]), <<>>, <<>>)
      BY CharTaken
    <3>2. h[m] = Append(h[m - 1], backs[m]) BY <1>6
    <3>3. Arrays!Taken(u) = Has("taking", h[m], <<>>, <<>>) BY <2>8, <2>10, <3>1, <3>2
    <3>4. \/ v # Null /\ Braced(v) /\ Lost(Arrays!Taken(u \o Item(v)))
          \/ Arrays!Taken(u \o Item(v)) = Has("taking", h[m], Back(v), <<>>)
      BY <2>5, <3>3, ItemTaken
    <3>5. backs[j] = Back(v) BY <1>2, <2>5
    <3> QED BY <1>c, <2>2, <2>5, <2>7, <3>4, <3>5 DEF Right
  <2> QED BY <2>3, <2>4, <2>9, <2>10 DEF Right
<1> HIDE DEF S
<1>10. Nat \subseteq S BY <1>8, <1>9, Induction
<1>11. Right(N)
  <2>1. N - 1 \in Nat /\ (N - 1) + 1 = N BY <1>1
  <2>2. PICK n \in Nat : n + 1 = N BY <2>1
  <2>3. n \in S /\ n + 1 \in 1 .. N BY <1>1, <1>10, <2>2
  <2>4. Right(n + 1) BY <2>3 DEF S
  <2> QED BY <2>2, <2>4
<1>12. N \in 1 .. N BY <1>1
<1>13. backs[N] = Back(value[N]) /\ Append(h[N - 1], backs[N]) = backs BY <1>2, <1>6, <1>12
<1>14. \/ SomeBraced(value) /\ Lost(Arrays!Taken(Arrays!Joined(items)))
       \/ /\ Arrays!Taken(Arrays!Joined(items)) = Has("taking", h[N - 1], Back(value[N]), <<>>)
          /\ Append(h[N - 1], Back(value[N])) = backs
  BY <1>5, <1>11, <1>13 DEF Right
<1> QED BY <1>14, Zenon DEF N, items, backs

LEMMA Within ==
    ASSUME NEW t \in AnyText
    PROVE  LET text == <<Open>> \o t \o <<Close>>
           IN  SubSeq(text, 2, Len(text) - 1) = t /\ text # <<>>
<1>1. Open \in Characters /\ Close \in Characters /\ t \in Seq(Characters) /\ <<>> \in Seq(Characters)
  BY SignsAreCharacters DEF AnyText
<1>2. PICK m \in Seq(Characters) : m = <<Open>> \o t
  <2>1. <<Open>> \in Seq(Characters) BY <1>1
  <2>2. <<Open>> \o t \in Seq(Characters) BY <1>1, <2>1, ConcatProperties
  <2> QED BY <2>2
<1>3. IsPair(<<>> \o <<Open>> \o t, Characters, <<>>, Open, t) BY <1>1, TwoParts
<1>4. <<>> \o <<Open>> = <<Open>> /\ Len(<<>>) = 0 OBVIOUS
<1>5. Len(t) \in Nat /\ Len(m) = 1 + Len(t) /\ SubSeq(m, 2, 1 + Len(t)) = t
  <2>1. Len(t) \in Nat BY <1>1, LenProperties
  <2>2. IsPair(m, Characters, <<>>, Open, t) BY <1>2, <1>3, <1>4
  <2> QED BY <1>4, <2>1, <2>2 DEF IsPair
<1>6. PICK text \in Seq(Characters) : text = Append(m, Close) BY <1>1, AppendProperties
<1>7. m \o <<Close>> = text BY <1>1, <1>6, AppendIsConcat
<1>8. Len(text) - 1 = Len(m) /\ text # <<>>
  <2>1. Len(text) = Len(m) + 1 /\ text # <<>> BY <1>1, <1>6, AppendProperties
  <2> QED BY <1>5, <2>1
<1>9. SubSeq(Append(m, Close), 2, Len(m)) = SubSeq(m, 2, Len(m))
  <2>1. 2 \in 1 .. Len(m) + 1 /\ Len(m) \in 2 - 1 .. Len(m) BY <1>5
  <2> QED BY <1>1, <2>1, PartKept
<1>10. SubSeq(text, 2, Len(text) - 1) = t BY <1>5, <1>6, <1>8, <1>9
<1> QED BY <1>2, <1>7, <1>8, <1>10

LEMMA ArrayTaken ==
    ASSUME NEW value \in Seq(AnyText \cup {Null}), value # <<>>,
           \A k \in 1 .. Len(value) : ~Unkept(value[k])
    PROVE  LET text == <<Open>> \o Arrays!Joined([k \in 1 .. Len(value) |-> Item(value[k])])
                       \o <<Close>>
           IN  /\ text # <<>>
               /\ \/ Arrays!ArrayIn(text) = value
                  \/ Arrays!ArrayIn(text) \in {Null, Nested} /\ SomeBraced(value)
<1> DEFINE N == Len(value)
           items == [k \in 1 .. N |-> Item(value[k])]
           backs == [k \in 1 .. N |-> Back(value[k])]
           text == <<Open>> \o Arrays!Joined(items) \o <<Close>>
           end == Arrays!Taken(Arrays!Joined(items))
           read == Append(end.elements, end.last)
<1>1. /\ N \in Nat /\ N # 0 /\ value = [k \in 1 .. N |-> value[k]]
      /\ \A k \in 1 .. N : value[k] \in AnyText \cup {Null} /\ ~Unkept(value[k])
  BY LenProperties, EmptySeq
<1>2. Arrays!Joined(items) \in AnyText
  <2>1. items \in [1 .. N -> AnyText] BY <1>1, ItemTyped
  <2> HIDE DEF items, N
  <2>2. items \in Seq(AnyText) BY <1>1, <2>1, MadeOf
  <2> QED BY <2>2, JoinedTyped
<1>3. SubSeq(text, 2, Len(text) - 1) = Arrays!Joined(items) /\ text # <<>> BY <1>2, Within
<1>4. \/ SomeBraced(value) /\ Lost(end)
      \/ \E front : end = Has("taking", front, Back(value[N]), <<>>)
                    /\ Append(front, Back(value[N])) = backs
  BY ItemsTaken
<1>5. \A k \in 1 .. N : backs[k] = Back(value[k]) OBVIOUS
<1>6. DOMAIN backs = 1 .. N OBVIOUS
<1> HIDE DEF items, text, N, backs
<1>7. Arrays!ArrayIn(text) =
        IF end.state # "taking" \/ end.depth # 0 THEN Null
        ELSE IF end.nested THEN Nested
        ELSE IF Len(read) > 1 /\ <<>> \in Arrays!Range(read) THEN Null
        ELSE IF read = <<<<>>>> THEN <<>>
        ELSE [k \in DOMAIN read |-> IF read[k] = <<"NULL">> THEN Null ELSE read[k]]
  BY <1>3 DEF Arrays!ArrayIn
<1> HIDE DEF end
<1>8. ASSUME end.state = "taking", end.depth = 0, end.nested = FALSE, read = backs
      PROVE  Arrays!ArrayIn(text) = value
  <2>1. \A k \in 1 .. N : backs[k] # <<>> /\ (IF backs[k] = <<"NULL">> THEN Null ELSE backs[k]) = value[k]
    BY <1>1, <1>5, KeptIs
  <2>2. <<>> \notin Arrays!Range(backs) BY <1>6, <2>1 DEF Arrays!Range
  <2>3. backs # <<<<>>>>
    <3>1. 1 \in 1 .. N BY <1>1
    <3>2. <<<<>>>>[1] = <<>> OBVIOUS
    <3> QED BY <2>1, <3>1, <3>2
  <2>4. [k \in DOMAIN backs |-> IF backs[k] = <<"NULL">> THEN Null ELSE backs[k]] = value
    BY <1>1, <1>6, <2>1
  <2> HIDE DEF read
  <2> QED BY <1>7, <1>8, <2>2, <2>3, <2>4
<1>9. ASSUME Lost(end) PROVE Arrays!ArrayIn(text) \in {Null, Nested}
  <2>1. end.state = "refused" \/ end.nested = TRUE BY <1>9 DEF Lost, Held
  <2> QED BY <1>7, <2>1
<1>10. ASSUME NEW front, end = Has("taking", front, Back(value[N]), <<>>),
              Append(front, Back(value[N])) = backs
       PROVE  Arrays!ArrayIn(text) = value
  <2>1. /\ end.state = "taking" /\ end.depth = 0 /\ end.nested = FALSE
        /\ end.elements = front /\ end.last = Back(value[N])
    BY <1>10 DEF Has, Held
  <2>2. read = backs BY <1>10, <2>1
  <2> QED BY <1>8, <2>1, <2>2
<1>11. \/ Arrays!ArrayIn(text) = value
       \/ Arrays!ArrayIn(text) \in {Null, Nested} /\ SomeBraced(value)
  BY <1>4, <1>9, <1>10
<1> QED BY <1>3, <1>11 DEF text, items, N

-----------------------------------------------------------------------------
(* An array that is saved without a change *)

LEMMA BuildIs ==
    /\ Arrays!BuildPgArray(<<>>) = <<>>
    /\ \A posted \in Seq(AnyText) :
        posted # <<>> /\ (\A k \in 1 .. Len(posted) : posted[k] # <<>>) =>
            Arrays!BuildPgArray(posted) = <<Open>> \o Arrays!Joined(posted) \o <<Close>>
<1> DEFINE Filled(posted, n) == \A k \in 1 .. n : posted[k] # <<>>
           IsLength(posted, n) ==
                Filled(posted, n) /\ (n < Len(posted) => posted[n + 1] = <<>>)
           length(posted) == CHOOSE n \in 0 .. Len(posted) : IsLength(posted, n)
<1>1. \A posted : Arrays!BuildPgArray(posted) =
            IF posted = <<>> THEN <<>>
            ELSE <<Open>> \o Arrays!Joined(SubSeq(posted, 1, length(posted))) \o <<Close>>
  BY Zenon DEF Arrays!BuildPgArray, Open, Close
<1>2. Arrays!BuildPgArray(<<>>) = <<>> BY <1>1
<1>3. ASSUME NEW posted \in Seq(AnyText), posted # <<>>,
             \A k \in 1 .. Len(posted) : posted[k] # <<>>
      PROVE  SubSeq(posted, 1, length(posted)) = posted
  <2> DEFINE N == Len(posted)
  <2>1. N \in Nat /\ N \in 0 .. N BY LenProperties
  <2>2. IsLength(posted, N) BY <1>3, <2>1
  <2>3. ASSUME NEW n \in 0 .. N, IsLength(posted, n) PROVE n = N
    <3>1. SUFFICES ASSUME n < N PROVE FALSE BY <2>1
    <3>2. n + 1 \in 1 .. N BY <2>1, <3>1
    <3>3. posted[n + 1] = <<>> BY <2>3, <3>1
    <3> QED BY <1>3, <3>2, <3>3
  <2> HIDE DEF IsLength
  <2>4. length(posted) = N BY <2>1, <2>2, <2>3
  <2> HIDE DEF length
  <2>5. 1 \in 1 .. Len(posted) + 1 /\ Len(posted) \in 1 - 1 .. Len(posted) BY <2>1
  <2>6. PICK s \in Seq(AnyText) :
            /\ s = SubSeq(posted, 1, N) /\ Len(s) = N + 1 - 1
            /\ \A i \in 1 .. N + 1 - 1 : s[i] = posted[1 + i - 1]
    BY <2>5, PartIs
  <2>7. Len(s) = Len(posted) /\ \A i \in 1 .. Len(s) : s[i] = posted[i] BY <2>1, <2>6
  <2>8. s = posted BY <2>7, SeqEqual
  <2> QED BY <2>4, <2>6, <2>8
<1> HIDE DEF length
<1>4. ASSUME NEW posted \in Seq(AnyText), posted # <<>>,
             \A k \in 1 .. Len(posted) : posted[k] # <<>>
      PROVE  Arrays!BuildPgArray(posted) = <<Open>> \o Arrays!Joined(posted) \o <<Close>>
  BY <1>1, <1>3, <1>4, Zenon
<1> QED BY <1>2, <1>4

LEMMA ItemNamesDiffer ==
    ASSUME column \in Columns
    PROVE  /\ \A j, k \in Nat : ItemName(j) = ItemName(k) => j = k
           /\ \A k \in Nat : ItemName(k) # column.name
<1>1. Len(column.name) \in Nat BY ColumnIs, LenProperties DEF AnyText
<1>2. \A k \in Nat : Len(ItemName(k)) = Len(column.name) + 1 + k + 1 BY ItemNameIs
<1>3. ASSUME NEW j \in Nat, NEW k \in Nat, ItemName(j) = ItemName(k) PROVE j = k
  <2> DEFINE L == Len(column.name)
  <2>1. L + 1 + j + 1 = L + 1 + k + 1 BY <1>2, <1>3
  <2>2. L \in Nat BY <1>1
  <2> HIDE DEF L
  <2> QED BY <2>1, <2>2
<1>4. ASSUME NEW k \in Nat, ItemName(k) = column.name PROVE FALSE
  <2> DEFINE L == Len(column.name)
  <2>1. L = L + 1 + k + 1 BY <1>2, <1>4
  <2>2. L \in Nat BY <1>1
  <2> HIDE DEF L
  <2> QED BY <2>1, <2>2
<1> QED BY <1>3, <1>4

\* The data of a form with an input for every element.
LEMMA DataOfArray ==
    ASSUME column \in Columns, NEW items \in Seq(AnyText), shown = TextArray(items),
           PostData = [name \in {shown[n].name : n \in DOMAIN shown} |->
                        (CHOOSE control \in Range(shown) : control.name = name).text]
    PROVE  /\ column.name \notin DOMAIN PostData
           /\ [k \in 1 .. Cardinality(Indexed) |-> PostData[ItemName(k)]] = items
<1> DEFINE N == Len(items)
           Names == {shown[n].name : n \in DOMAIN shown}
           Of(name) == (CHOOSE control \in Range(shown) : control.name = name).text
<1>0. /\ N \in Nat /\ DOMAIN items = 1 .. N /\ items = [k \in 1 .. N |-> items[k]]
      /\ \A k \in 1 .. N : k \in Nat
  BY LenProperties
<1>1. items # Null BY NullAssumption DEF AnyText
<1>2. shown = [k \in 1 .. N |-> [name |-> ItemName(k), text |-> items[k]]]
  BY <1>0, <1>1 DEF TextArray
<1>3. PostData = [name \in Names |-> Of(name)] OBVIOUS
<1> HIDE DEF N
<1>4. /\ DOMAIN shown = 1 .. N
      /\ \A k \in 1 .. N : shown[k].name = ItemName(k) /\ shown[k].text = items[k]
  BY <1>2
<1>5. Names = {ItemName(k) : k \in 1 .. N} BY <1>4
<1>6. Range(shown) = {shown[k] : k \in 1 .. N} BY <1>4 DEF Range
<1>7. ASSUME NEW k \in 1 .. N PROVE Of(ItemName(k)) = items[k]
  <2>1. shown[k] \in Range(shown) /\ shown[k].name = ItemName(k) BY <1>4, <1>6
  <2>2. ASSUME NEW c \in Range(shown), c.name = ItemName(k) PROVE c.text = items[k]
    <3>1. PICK j \in 1 .. N : c = shown[j] BY <1>6
    <3>2. ItemName(j) = ItemName(k) BY <1>4, <2>2, <3>1
    <3>3. j = k BY <1>0, <3>2, ItemNamesDiffer
    <3> QED BY <1>4, <3>1, <3>3
  <2> QED BY <2>1, <2>2
<1> HIDE DEF Names, Of
<1>8. DOMAIN PostData = {ItemName(k) : k \in 1 .. N} BY <1>3, <1>5
<1>9. \A k \in 1 .. N : PostData[ItemName(k)] = items[k] BY <1>3, <1>5, <1>7
<1>10. Cardinality(1 .. N) = N /\ IsFiniteSet(1 .. N)
  <2>1. IsFiniteSet(1 .. N) /\ Cardinality(1 .. N) = IF 1 > N THEN 0 ELSE N - 1 + 1
    BY <1>0, FS_Interval, SMTT(30)
  <2> QED BY <1>0, <2>1
<1>11. Cardinality(DOMAIN PostData) = N
  <2> DEFINE T == {ItemName(k) : k \in 1 .. N}
             f == [k \in 1 .. N |-> ItemName(k)]
  <2>1. f \in [1 .. N -> T] OBVIOUS
  <2>2. \A j, k \in 1 .. N : f[j] = f[k] => j = k BY <1>0, ItemNamesDiffer
  <2>3. \A x \in T : \E k \in 1 .. N : f[k] = x OBVIOUS
  <2> HIDE DEF f, T
  <2>4. f \in Bijection(1 .. N, T)
    BY <2>1, <2>2, <2>3 DEF Bijection, Injection, Surjection, IsInjective
  <2>5. Cardinality(T) = Cardinality(1 .. N) BY <1>10, <2>4, FS_Bijection DEF ExistsBijection
  <2> QED BY <1>8, <1>10, <2>5 DEF T
<1>12. Indexed = 1 .. N
  <2>1. Indexed = {k \in 1 .. N : \A j \in 1 .. k : ItemName(j) \in DOMAIN PostData}
    BY <1>11 DEF Indexed
  <2>2. ASSUME NEW k \in 1 .. N, NEW j \in 1 .. k PROVE ItemName(j) \in DOMAIN PostData
    <3>1. j \in 1 .. N BY <1>0
    <3> QED BY <1>8, <3>1
  <2> QED BY <2>1, <2>2
<1>13. Cardinality(Indexed) = N BY <1>10, <1>12
<1>14. [k \in 1 .. Cardinality(Indexed) |-> PostData[ItemName(k)]] = items BY <1>0, <1>9, <1>13
<1>15. column.name \notin DOMAIN PostData BY <1>0, <1>8, ItemNamesDiffer
<1> QED BY <1>14, <1>15

\* An array that has an input for every element, or that parse_pg_array refuses.
IsArray == column.type \in {"array", "nested"} /\ column.prompt = "text_array"

ArrayInv ==
    /\ FormInv
    /\ IsArray /\ at = "form" => shown = TextArray(Arrays!ParsePgArray(Shown))
    /\ IsArray => EditWithoutChange

\* What is posted of no element.
LEMMA DataOfNothing ==
    ASSUME column \in Columns, IsArray, shown = <<>>,
           PostData = [name \in {shown[n].name : n \in DOMAIN shown} |->
                        (CHOOSE control \in Range(shown) : control.name = name).text]
    PROVE  Parameter = <<>>
<1>1. <<>> \in Seq(AnyText) /\ TextArray(<<>>) = <<>>
  <2>1. <<>> \in Seq(AnyText) OBVIOUS
  <2>2. [k \in DOMAIN <<>> |-> [name |-> ItemName(k), text |-> <<>>[k]]] = <<>> OBVIOUS
  <2> QED BY <2>1, <2>2 DEF TextArray
<1>2. /\ column.name \notin DOMAIN PostData
      /\ [k \in 1 .. Cardinality(Indexed) |-> PostData[ItemName(k)]] = <<>>
  <2>1. shown = TextArray(<<>>) BY <1>1
  <2> QED BY <1>1, <2>1, DataOfArray
<1>3. Arrays!BuildPgArray(<<>>) = <<>> BY BuildIs
<1> QED BY <1>2, <1>3 DEF Parameter, IsArray

LEMMA NestedRefused ==
    ASSUME column \in Columns, column.type = "nested"
    PROVE  Arrays!ParsePgArray(Shown) = Null
<1>1. CASE column.value = Null BY <1>1 DEF Shown, Arrays!ParsePgArray
<1>2. CASE column.value # Null
  <2>1. PICK text \in AnyText : text = column.value /\ text = Shown
    BY <1>2, ColumnIs DEF Shown
  <2>2. text[1] = "[" \/ (Len(text) > 1 /\ text[1] = Open /\ text[2] = Open)
    BY <1>2, <2>1, ColumnsAssumption, Zenon DEF Open
  <2>3. text # <<>> BY <1>2, <2>1, ColumnsAssumption
  <2>4. PICK n \in Nat : n = Len(text) /\ n # 0 BY <2>3, LenProperties, EmptySeq DEF AnyText
  <2>5. \A p, char : Arrays!ParseChar(p, char).state = Arrays!NextState(p.state, char)
    BY Zenon DEF Arrays!ParseChar, Arrays!Enter
  <2>6. /\ <<>> \in AnyText /\ Open \in Characters /\ Arrays!Parsed(<<>>).state = "begin"
        /\ \A k \in 1 .. n : text[k] \in Characters
    BY <2>4, SignsAreCharacters, ParsedStarts DEF At, AnyText
  <2>a. \A v \in AnyText, a \in Characters :
            /\ Append(v, a) \in AnyText
            /\ Arrays!Parsed(Append(v, a)).state = Arrays!NextState(Arrays!Parsed(v).state, a)
    <3> SUFFICES ASSUME NEW v \in AnyText, NEW a \in Characters
                 PROVE  /\ Append(v, a) \in AnyText
                        /\ Arrays!Parsed(Append(v, a)).state
                                = Arrays!NextState(Arrays!Parsed(v).state, a)
      OBVIOUS
    <3>1. Append(v, a) \in AnyText BY AppendProperties DEF AnyText
    <3>2. Arrays!Parsed(Append(v, a)) = Arrays!ParseChar(Arrays!Parsed(v), a) BY ParsedGrows
    <3> QED BY <2>5, <3>1, <3>2
  <2>b. \A t \in AnyText : Len(t) <= Len(text) /\ (\A k \in 1 .. Len(t) : t[k] = text[k])
            => \E u \in AnyText : text = t \o u
    BY Beginning
  <2>7. \E t, u \in AnyText : text = t \o u /\ Arrays!Parsed(t).state = "error"
    <3>1. CASE text[1] = "["
      <4> DEFINE c == text[1]
      <4>1. c \in Characters BY <2>4, <2>6
      <4>2. Arrays!Class(c) = "legal"
        <5>1. "[" \notin {Open, Close, Comma, Blank, Quote, Apostrophe}
          BY Zenon DEF Open, Close, Comma, Blank, Quote, Apostrophe
        <5> QED BY <3>1, <5>1, ClassIs
      <4> HIDE DEF c
      <4>3. PICK t \in AnyText : t = Append(<<>>, c) BY <2>6, <2>a, <4>1
      <4>4. Arrays!Parsed(t).state = "error"
        <5>1. Arrays!Parsed(t).state = Arrays!NextState("begin", c) BY <2>6, <2>a, <4>1, <4>3, Zenon
        <5>2. Arrays!NextState("begin", c) = "error" BY <4>2, Leads
        <5> QED BY <5>1, <5>2
      <4>5. Len(t) = 1 /\ t[1] = text[1] BY <4>3 DEF c
      <4>6. Len(t) <= Len(text) /\ \A k \in 1 .. Len(t) : t[k] = text[k] BY <2>4, <4>5
      <4>7. PICK u \in AnyText : text = t \o u BY <2>b, <4>6
      <4> QED BY <4>4, <4>7
    <3>2. CASE n > 1 /\ text[1] = Open /\ text[2] = Open
      <4>1. PICK r \in AnyText : r = Append(<<>>, Open) BY <2>6, <2>a
      <4>2. PICK t \in AnyText : t = Append(r, Open) BY <2>6, <2>a
      <4>3. Arrays!Parsed(r).state = "firstval"
        <5>1. Arrays!Parsed(r).state = Arrays!NextState("begin", Open) BY <2>6, <2>a, <4>1, Zenon
        <5>2. Arrays!NextState("begin", Open) = "firstval" BY Leads
        <5> QED BY <5>1, <5>2
      <4>4. Arrays!Parsed(t).state = "error" BY <2>6, <2>a, <4>2, <4>3, Leads
      <4>5. Len(t) = 2 /\ t[1] = text[1] /\ t[2] = text[2] BY <3>2, <4>1, <4>2
      <4>6. Len(t) <= Len(text) /\ \A k \in 1 .. Len(t) : t[k] = text[k] BY <2>4, <3>2, <4>5
      <4>7. PICK u \in AnyText : text = t \o u BY <2>b, <4>6
      <4> QED BY <4>4, <4>7
    <3> QED BY <2>2, <2>4, <3>1, <3>2
  <2>8. Arrays!Parsed(text).state = "error" BY <2>7, ErrorStays
  <2> QED BY <2>1, <2>8 DEF Arrays!ParsePgArray
<1> QED BY <1>1, <1>2

LEMMA KeptIsPosted ==
    ASSUME NEW v \in AnyText \cup {Null}, ~Unkept(v)
    PROVE  Item(v) # <<>>
<1>1. PICK x \in AnyText : x = Back(v) /\ x # <<>> /\ Item(v) = Arrays!Escaped(x) BY KeptIs
<1>2. PICK g : /\ g[Len(x)] = Arrays!Escaped(x)
               /\ \A n \in 0 .. Len(x) : g[n] \in AnyText
               /\ \A n \in 1 .. Len(x) : g[n] = IF x[n] \in {Quote, Slash}
                                               THEN Append(Append(g[n - 1], Slash), x[n])
                                               ELSE Append(g[n - 1], x[n])
  BY EscapedIs
<1>3. Len(x) \in Nat /\ Len(x) # 0 BY <1>1, LenProperties, EmptySeq DEF AnyText
<1>4. PICK n \in 1 .. Len(x) : n = Len(x) /\ n - 1 \in 0 .. Len(x) BY <1>3
<1>5. PICK w \in AnyText : w = g[n - 1] BY <1>2, <1>4
<1>6. PICK c \in Characters : c = x[n] BY DEF AnyText
<1>7. Slash \in Characters BY SignsAreCharacters
<1>8. \A t \in AnyText, a \in Characters : Append(t, a) \in AnyText /\ Append(t, a) # <<>>
  BY AppendProperties DEF AnyText
<1>9. g[n] # <<>> BY <1>2, <1>5, <1>6, <1>7, <1>8
<1> QED BY <1>1, <1>2, <1>4, <1>9

LEMMA PerformArrayKeeps ==
    ASSUME ArrayInv, ReadAsWritten, PerformPostAction, IsArray
    PROVE  EditWithoutChange'
<1> DEFINE value == column.value
<1>1. /\ at = "form" /\ Len(message) = Len(Posted) /\ column' = column /\ column \in Columns
      /\ shown = TextArray(Arrays!ParsePgArray(Shown))
  BY DEF PerformPostAction, ArrayInv, FormInv
<1>2. PostData = [name \in {shown[n].name : n \in DOMAIN shown} |->
                    (CHOOSE control \in Range(shown) : control.name = name).text]
  BY <1>1, FormInvGivesForm DEF FormComesBack, ArrayInv
<1>3. CASE at' = "refused" BY <1>3 DEF EditWithoutChange
<1>4. CASE at' # "refused"
  <2>1. /\ ~(Parameter # <<>> /\ Stored(Parameter) = Null)
        /\ saved' = NullIfEmpty(Parameter)
    BY <1>4 DEF PerformPostAction
  <2>3. shown = <<>> => saved' = Null BY <1>1, <1>2, <2>1, DataOfNothing DEF NullIfEmpty
  <2>a. CASE column.type = "nested"
    <3>1. Arrays!ParsePgArray(Shown) = Null BY <1>1, <2>a, NestedRefused
    <3>2. saved' = Null BY <1>1, <2>3, <3>1 DEF TextArray
    <3>3. Merged' BY <1>1, <2>a, <3>2 DEF Merged
    <3> QED BY <3>3 DEF EditWithoutChange
  <2> SUFFICES ASSUME column.type = "array" PROVE EditWithoutChange' BY <2>a DEF IsArray
  <2>2. column.type = "array" /\ (value = Null \/ value \in Seq(AnyText \cup {Null}))
    BY <1>1, ColumnIs
  <2>4. CASE value = Null
    <3>1. Arrays!ParsePgArray(Shown) = Null BY <2>4 DEF Shown, Arrays!ParsePgArray
    <3>2. saved' = column'.value BY <1>1, <2>3, <2>4, <3>1 DEF TextArray
    <3> QED BY <3>2 DEF EditWithoutChange
  <2>5. CASE value # Null /\ value = <<>>
    <3>1. Shown = Arrays!ArrayOut(value) BY <2>2, <2>5 DEF Shown
    <3>2. Arrays!ParsePgArray(Shown) = [k \in 1 .. Len(value) |-> Item(value[k])]
      <4>1. Len(value) = 0 BY <2>5
      <4>2. \A k \in 1 .. Len(value) : ~Wrong(value[k]) BY <4>1
      <4> QED BY <2>2, <2>5, <3>1, <4>2, ArrayParsed
    <3>3. Arrays!ParsePgArray(Shown) = <<>> BY <2>5, <3>2
    <3>4. shown = <<>> BY <1>1, <3>3 DEF TextArray
    <3> QED BY <1>1, <2>3, <2>5, <3>4 DEF EditWithoutChange, Merged
  <2>6. CASE value # Null /\ value # <<>>
    <3> DEFINE N == Len(value)
               items == [k \in 1 .. N |-> Item(value[k])]
    <3>1. /\ value \in Seq(AnyText \cup {Null}) /\ Shown = Arrays!ArrayOut(value)
          /\ N \in Nat /\ N # 0 /\ DOMAIN value = 1 .. N
          /\ \A k \in 1 .. N : value[k] \in AnyText \cup {Null}
      BY <2>2, <2>6, LenProperties, EmptySeq DEF Shown
    <3>2. CASE \E k \in 1 .. N : Unkept(value[k])
      <4>1. \E k \in DOMAIN column'.value : Unkept(column'.value[k]) BY <1>1, <3>1, <3>2
      <4>2. \A v : Unkept(v)' <=> Unkept(v) BY DEF Unkept
      <4>3. (\E k \in DOMAIN column.value : Unkept(column.value[k]))' BY <4>1, <4>2
      <4> QED BY <1>1, <2>2, <2>6, <4>3 DEF EditWithoutChange
    <3>3. CASE \E k \in 1 .. N : Wrong(value[k])
      <4>1. Arrays!ParsePgArray(Shown) = Null BY <3>1, <3>3, ArrayParsed
      <4>2. saved' = Null BY <1>1, <2>3, <4>1 DEF TextArray
      <4>3. PICK k \in 1 .. N : Wrong(value[k]) BY <3>3
      <4>4. \E element \in Range(value) \ {Null} :
                Arrays!Plain(element) /\ element[1] = Apostrophe
        BY <3>1, <4>3 DEF Wrong, Range
      <4>5. Merged' BY <1>1, <2>2, <2>6, <4>2, <4>4, Zenon DEF Merged, Apostrophe
      <4> QED BY <4>5 DEF EditWithoutChange
    <3>4. CASE ~(\E k \in 1 .. N : Unkept(value[k]) \/ Wrong(value[k]))
      <4>1. Arrays!ParsePgArray(Shown) = items BY <3>1, <3>4, ArrayParsed
      <4>2. items \in [1 .. N -> AnyText] BY <3>1, ItemTyped
      <4>3. \A k \in 1 .. N : items[k] # <<>>
        <5> SUFFICES ASSUME NEW k \in 1 .. N PROVE Item(value[k]) # <<>> OBVIOUS
        <5>1. ~Unkept(value[k]) BY <3>4
        <5> QED BY <3>1, <5>1, KeptIsPosted
      <4> HIDE DEF items
      <4>4. items \in Seq(AnyText) /\ Len(items) = N BY <3>1, <4>2, MadeOf
      <4>5. items # <<>> BY <3>1, <4>4
      <4>6. /\ column.name \notin DOMAIN PostData
            /\ [k \in 1 .. Cardinality(Indexed) |-> PostData[ItemName(k)]] = items
        BY <1>1, <1>2, <4>1, <4>4, DataOfArray
      <4>7. Parameter = <<Open>> \o Arrays!Joined(items) \o <<Close>>
        <5>1. Arrays!BuildPgArray(items) = <<Open>> \o Arrays!Joined(items) \o <<Close>>
          BY <4>3, <4>4, <4>5, BuildIs
        <5> QED BY <4>6, <5>1 DEF Parameter, IsArray
      <4>8. /\ Parameter # <<>>
            /\ \/ Arrays!ArrayIn(Parameter) = value
               \/ Arrays!ArrayIn(Parameter) \in {Null, Nested} /\ SomeBraced(value)
        <5>1. \A k \in 1 .. Len(value) : ~Unkept(value[k]) BY <3>4
        <5> QED BY <2>6, <3>1, <4>7, <5>1, ArrayTaken DEF items
      <4>9. Stored(Parameter) = Arrays!ArrayIn(Parameter) BY <2>2 DEF Stored
      <4>10. saved' = value \/ (saved' = Nested /\ SomeBraced(value))
        BY <2>1, <4>8, <4>9 DEF NullIfEmpty
      <4>11. ASSUME saved' = Nested, SomeBraced(value) PROVE Regrouped'
        <5>1. PICK k \in 1 .. N : value[k] # Null /\ Braced(value[k]) BY <4>11 DEF SomeBraced
        <5>2. PICK element \in AnyText : element = value[k] /\ element # Null /\ Braced(element)
          BY <3>1, <5>1
        <5>3. element \in Range(value) \ {Null} BY <3>1, <5>2 DEF Range
        <5>4. PICK sign \in {Open, Close} : sign \in Range(element)
          BY <5>2 DEF Braced, Range, AnyText
        <5>5. {"{", "}"} \cap Range(element) # {} BY <5>4, Zenon DEF Open, Close
        <5> QED BY <1>1, <2>2, <2>6, <4>11, <5>3, <5>5, Zenon DEF Regrouped
      <4> QED BY <1>1, <4>10, <4>11 DEF EditWithoutChange
    <3> QED BY <3>2, <3>3, <3>4
  <2> QED BY <2>2, <2>4, <2>5, <2>6
<1> QED BY <1>3, <1>4

LEMMA SameArray ==
    ASSUME column' = column
    PROVE  /\ IsArray' <=> IsArray
           /\ \A elements : TextArray(elements)' = TextArray(elements)
BY DEF IsArray, TextArray, ItemName

LEMMA ArrayStarts == ASSUME Init PROVE ArrayInv
<1>1. FormInv BY FormStarts
<1>2. at = "row" BY DEF Init
<1> QED BY <1>1, <1>2 DEF ArrayInv, EditWithoutChange

LEMMA AddPromptShowsArray ==
    ASSUME AddPrompt, IsArray, at' = "form"
    PROVE  shown' = TextArray(Arrays!ParsePgArray(Shown))
<1>1. column.prompt = "text_array" BY DEF IsArray
<1>2. /\ column.prompt \notin Texts /\ column.prompt \notin NotPosted
      /\ column.prompt \notin Selects /\ column.prompt # "select_fkey"
  BY <1>1, Zenon DEF Texts, NotPosted, Selects
<1> QED BY <1>1, <1>2 DEF AddPrompt, Show

LEMMA ArrayKept == ASSUME ArrayInv, ReadAsWritten, [Next]_vars PROVE ArrayInv'
<1>1. FormInv' BY FormKept DEF ArrayInv
<1>2. CASE AddPrompt
  <2>1. column' = column /\ column \in Columns /\ at' \in {"form", "broken", "error"}
    BY <1>2, AddPromptShowsForm DEF AddPrompt, ArrayInv, FormInv
  <2>2. EditWithoutChange' BY <2>1 DEF EditWithoutChange
  <2>3. IsArray /\ at' = "form" => shown' = TextArray(Arrays!ParsePgArray(Shown))
    BY <1>2, AddPromptShowsArray
  <2> QED BY <1>1, <2>1, <2>2, <2>3, SameColumn, SameArray DEF ArrayInv
<1>3. CASE ReadForm
  <2>1. at = "form" /\ at' = at /\ shown' = shown /\ column' = column BY <1>3 DEF ReadForm, field
  <2>2. EditWithoutChange' BY <2>1 DEF EditWithoutChange
  <2> QED BY <1>1, <2>1, <2>2, SameColumn, SameArray DEF ArrayInv
<1>4. CASE ReadOther
  <2>1. at' = "other" BY <1>4 DEF ReadOther
  <2> QED BY <1>1, <2>1 DEF ArrayInv, EditWithoutChange
<1>5. CASE PerformPostAction
  <2>1. at' \in {"refused", "saved"} /\ column' = column BY <1>5, Zenon DEF PerformPostAction
  <2>2. IsArray => EditWithoutChange' BY <1>5, PerformArrayKeeps
  <2> QED BY <1>1, <2>1, <2>2, SameArray DEF ArrayInv
<1>6. CASE UNCHANGED vars
  <2>1. at' = at /\ shown' = shown /\ column' = column /\ saved' = saved
    BY <1>6 DEF vars, field
  <2>2. EditWithoutChange' <=> EditWithoutChange
    BY <2>1, SameColumn DEF EditWithoutChange, Merged, Misread, Regrouped
  <2> QED BY <1>1, <2>1, <2>2, SameColumn, SameArray DEF ArrayInv
<1> QED BY <1>2, <1>3, <1>4, <1>5, <1>6 DEF Next

\* For every array that has an input for each element, of any texts and NULLs:
\* what the unchanged form stores is the array that PostgreSQL wrote, unless an
\* element is one of those that build_pgarray_from_post does not put back or
\* parse_pg_array refuses, or has a brace and makes it an array of arrays; an
\* array of arrays becomes NULL (parse_pg_array.c:49-306,
\* prompt_rule.c:1172-1246, opentable.c:1006-1075).
THEOREM ArraysComeBack == Spec => [](IsArray => EditWithoutChange)
<1>1. Init => ArrayInv BY ArrayStarts
<1>2. ArrayInv /\ ReadAsWritten /\ [Next]_vars => ArrayInv' BY ArrayKept
<1>3. ArrayInv => (IsArray => EditWithoutChange) BY DEF ArrayInv
<1> QED BY <1>1, <1>2, <1>3, MessagesReadAsWritten, PTL DEF Spec
===============================================================================
