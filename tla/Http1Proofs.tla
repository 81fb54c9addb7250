---------------------------- MODULE Http1Proofs ----------------------------
(***************************************************************************)
(* Proofs about Http1: no pump loses, repeats or reorders an item of its   *)
(* stream, however reads cut it and however often the pump changes mode.   *)
(***************************************************************************)
EXTENDS Http1, SequenceTheorems, WellFoundedInduction, TLAPS

----------------------------------------------------------------------------
(* Sequences of items that need have nothing in common                     *)

IsSeq(s) == s \in Seq({s[i] : i \in DOMAIN s})

LEMMA SeqIsSeq ==
  ASSUME NEW S, NEW s \in Seq(S)
  PROVE  IsSeq(s)
<1>1. Len(s) \in Nat /\ s \in [1 .. Len(s) -> S] /\ DOMAIN s = 1 .. Len(s)
  BY LenProperties
<1> DEFINE T == {s[i] : i \in DOMAIN s}
<1>2. s \in [1 .. Len(s) -> T]
  BY <1>1
<1>3. s \in Seq(T)
  BY <1>1, <1>2, SeqDef
<1> QED BY <1>3 DEF IsSeq

LEMMA SeqsTogether ==
  ASSUME NEW s, NEW t, NEW u, IsSeq(s), IsSeq(t), IsSeq(u)
  PROVE  \E S : s \in Seq(S) /\ t \in Seq(S) /\ u \in Seq(S)
<1> DEFINE A == {s[i] : i \in DOMAIN s}
           B == {t[i] : i \in DOMAIN t}
           C == {u[i] : i \in DOMAIN u}
           S == A \cup B \cup C
<1>1. s \in Seq(A) /\ t \in Seq(B) /\ u \in Seq(C)
  BY DEF IsSeq
<1>2. A \subseteq S /\ B \subseteq S /\ C \subseteq S
  OBVIOUS
<1> HIDE DEF A, B, C, S
<1>3. s \in Seq(S) /\ t \in Seq(S) /\ u \in Seq(S)
  BY <1>1, <1>2, SeqMonotonic
<1> QED BY <1>3

LEMMA SeqFacts ==
  ASSUME NEW s, IsSeq(s)
  PROVE  Len(s) \in Nat /\ DOMAIN s = 1 .. Len(s) /\ (s # <<>> => Len(s) > 0)
<1>1. PICK S : s \in Seq(S)
  BY DEF IsSeq
<1> QED BY <1>1, LenProperties, EmptySeq

LEMMA EmptyIsSeq == IsSeq(<<>>) /\ Len(<<>>) = 0
BY EmptySeq, SeqIsSeq

LEMMA Cat ==
  ASSUME NEW s, NEW t, IsSeq(s), IsSeq(t)
  PROVE  /\ IsSeq(s \o t) /\ Len(s \o t) = Len(s) + Len(t)
         /\ \A i \in 1 .. Len(s) + Len(t) :
              (s \o t)[i] = IF i <= Len(s) THEN s[i] ELSE t[i - Len(s)]
         /\ s \o <<>> = s /\ <<>> \o s = s
<1>1. PICK S : s \in Seq(S) /\ t \in Seq(S)
  BY SeqsTogether
<1> QED BY <1>1, ConcatProperties, ConcatEmptySeq, SeqIsSeq, ZenonT(30)

LEMMA CatAssociates ==
  ASSUME NEW s, NEW t, NEW u, IsSeq(s), IsSeq(t), IsSeq(u)
  PROVE  (s \o t) \o u = s \o (t \o u)
<1>1. PICK S : s \in Seq(S) /\ t \in Seq(S) /\ u \in Seq(S)
  BY SeqsTogether
<1> QED BY <1>1, ConcatAssociative

LEMMA SameSeq ==
  ASSUME NEW s, NEW t, IsSeq(s), IsSeq(t), Len(s) = Len(t),
         \A i \in 1 .. Len(s) : s[i] = t[i]
  PROVE  s = t
<1>1. PICK S : s \in Seq(S) /\ t \in Seq(S)
  BY SeqsTogether
<1> QED BY <1>1, SeqEqual

LEMMA Part ==
  ASSUME NEW s, IsSeq(s), NEW m \in Nat \ {0}, NEW n \in 0 .. Len(s)
  PROVE  /\ IsSeq(SubSeq(s, m, n))
         /\ Len(SubSeq(s, m, n)) = IF m <= n THEN n - m + 1 ELSE 0
         /\ \A i \in 1 .. n - m + 1 : SubSeq(s, m, n)[i] = s[m + i - 1]
<1>0. Len(s) \in Nat
  BY SeqFacts
<1>1. PICK S : s \in Seq(S)
  BY DEF IsSeq
<1>2. \A i \in m .. n : s[i] \in S
  BY <1>0, <1>1, ElementOfSeq
<1>3. m \in Int /\ n \in Int
  BY <1>0
<1>4. SubSeq(s, m, n) \in Seq(S)
  BY <1>2, <1>3, SubSeqProperties
<1>5. /\ Len(SubSeq(s, m, n)) = IF m <= n THEN n - m + 1 ELSE 0
      /\ \A i \in 1 .. n - m + 1 : SubSeq(s, m, n)[i] = s[m + i - 1]
  BY <1>2, <1>3, SubSeqProperties
<1> QED BY <1>4, <1>5, SeqIsSeq

\* A sequence is its first n items and the rest.
LEMMA Cut ==
  ASSUME NEW s, IsSeq(s), NEW n \in 0 .. Len(s)
  PROVE  SubSeq(s, 1, n) \o SubSeq(s, n + 1, Len(s)) = s
<1>0. Len(s) \in Nat
  BY SeqFacts
<1>1. PICK S : s \in Seq(S)
  BY DEF IsSeq
<1>2. SubSeq(s, 1, n) \o SubSeq(s, n + 1, Len(s)) = SubSeq(s, 1, Len(s))
  <2>1. 1 \in 1 .. Len(s) + 1 /\ n \in 1 - 1 .. Len(s) /\ Len(s) \in n .. Len(s)
    BY <1>0
  <2> QED BY <1>1, <2>1, ConcatAdjacentSubSeq
<1> QED BY <1>1, <1>2, SubSeqFull

\* What is not read yet, less its first k items, is what is not read after reading them.
LEMMA CutRest ==
  ASSUME NEW s, IsSeq(s), NEW n \in 0 .. Len(s), NEW k \in 0 .. Len(s) - n
  PROVE  /\ SubSeq(SubSeq(s, n + 1, Len(s)), 1, k) \o SubSeq(s, n + k + 1, Len(s))
              = SubSeq(s, n + 1, Len(s))
         /\ Len(SubSeq(s, n + 1, Len(s))) = Len(s) - n
<1> DEFINE u == SubSeq(s, n + 1, Len(s))
<1>0. Len(s) \in Nat
  BY SeqFacts
<1>1. IsSeq(u) /\ Len(u) = Len(s) - n /\ \A i \in 1 .. Len(s) - n : u[i] = s[n + i]
  BY <1>0, Part
<1>2. SubSeq(u, 1, k) \o SubSeq(u, k + 1, Len(u)) = u
  BY <1>0, <1>1, Cut
<1>3. SubSeq(u, k + 1, Len(u)) = SubSeq(s, n + k + 1, Len(s))
  <2>1. /\ IsSeq(SubSeq(u, k + 1, Len(u))) /\ Len(SubSeq(u, k + 1, Len(u))) = Len(s) - n - k
        /\ \A i \in 1 .. Len(s) - n - k : SubSeq(u, k + 1, Len(u))[i] = u[k + i]
    <3>1. k + 1 \in Nat \ {0} /\ Len(u) \in 0 .. Len(u) /\ k \in Nat
      BY <1>0, <1>1
    <3> HIDE DEF u
    <3>2. /\ IsSeq(SubSeq(u, k + 1, Len(u)))
          /\ Len(SubSeq(u, k + 1, Len(u))) = IF k + 1 <= Len(u) THEN Len(u) - (k + 1) + 1 ELSE 0
          /\ \A i \in 1 .. Len(u) - (k + 1) + 1 : SubSeq(u, k + 1, Len(u))[i] = u[k + 1 + i - 1]
      BY <1>1, <3>1, Part
    <3>3. Len(u) - (k + 1) + 1 = Len(s) - n - k
      BY <1>0, <1>1, <3>1
    <3>4. (IF k + 1 <= Len(u) THEN Len(u) - (k + 1) + 1 ELSE 0) = Len(s) - n - k
      BY <1>0, <1>1, <3>1
    <3>5. ASSUME NEW i \in 1 .. Len(s) - n - k
          PROVE  SubSeq(u, k + 1, Len(u))[i] = u[k + i]
      <4>1. k + 1 + i - 1 = k + i
        BY <1>0, <3>1
      <4> QED BY <3>2, <3>3, <4>1
    <3> QED BY <3>2, <3>4, <3>5
  <2>2. /\ IsSeq(SubSeq(s, n + k + 1, Len(s))) /\ Len(SubSeq(s, n + k + 1, Len(s))) = Len(s) - n - k
        /\ \A i \in 1 .. Len(s) - n - k : SubSeq(s, n + k + 1, Len(s))[i] = s[n + k + i]
    <3>1. n + k + 1 \in Nat \ {0} /\ Len(s) \in 0 .. Len(s)
      BY <1>0
    <3> QED BY <1>0, <3>1, Part
  <2>3. \A i \in 1 .. Len(s) - n - k : u[k + i] = s[n + k + i]
    BY <1>0, <1>1
  <2> QED BY <2>1, <2>2, <2>3, SameSeq
<1> QED BY <1>1, <1>2, <1>3

----------------------------------------------------------------------------
(* Items as their source made them, and as they were sent                  *)

\* What the source of pump p makes.
ItemOK(p, x) ==
  /\ x.is = "head" => p # "rsp" /\ x = HeadItem(x.head)
  /\ x.is = "size" => x.n \in Nat
  /\ x.is = "answer" => p # "req" /\ x.length \subseteq Nat

AsMade(p, s) == \A i \in 1 .. Len(s) : ItemOK(p, s[i])

PlainItem(x) == IF x.is = "head" THEN [x EXCEPT !.own = FALSE] ELSE x

LEMMA HeadItemFacts ==
  ASSUME NEW h
  PROVE  LET x == HeadItem(h) IN
         /\ PlainItem(x) = x
         /\ PlainItem([x EXCEPT !.own = TRUE]) = x
<1> DEFINE x == [is |-> "head", head |-> h, own |-> FALSE]
           y == [is |-> "head", head |-> h, own |-> TRUE]
           R == [is : {"head"}, head : {h}, own : BOOLEAN]
           z == [x EXCEPT !.own = TRUE]
           w == [y EXCEPT !.own = FALSE]
           v == [x EXCEPT !.own = FALSE]
<1>0. x \in R /\ y \in R
  OBVIOUS
<1>1. z \in R /\ w \in R /\ v \in R
  BY <1>0
<1>2. z.own = TRUE /\ w.own = FALSE /\ v.own = FALSE
  OBVIOUS
<1>3. \A a, b \in R : a.own = b.own => a = b
  OBVIOUS
<1>4. x.is = "head" /\ y.is = "head" /\ x.own = FALSE /\ y.own = TRUE
  OBVIOUS
<1> HIDE DEF R, x, y, z, w, v
<1>5. z = y
  BY <1>0, <1>1, <1>2, <1>3, <1>4
<1>6. w = x /\ v = x
  BY <1>0, <1>1, <1>2, <1>3, <1>4
<1> USE DEF z, w, v
<1>7. PlainItem(x) = x /\ PlainItem([x EXCEPT !.own = TRUE]) = x
  BY <1>5, <1>6, <1>4 DEF PlainItem
<1> QED BY <1>7 DEF x, HeadItem

LEMMA PlainFacts ==
  ASSUME NEW s, IsSeq(s)
  PROVE  /\ IsSeq(Plain(s)) /\ Len(Plain(s)) = Len(s)
         /\ \A i \in 1 .. Len(s) : Plain(s)[i] = PlainItem(s[i])
<1>0. Len(s) \in Nat
  BY SeqFacts
<1> DEFINE S == {PlainItem(s[i]) : i \in 1 .. Len(s)}
<1>1. Plain(s) = [i \in 1 .. Len(s) |-> PlainItem(s[i])]
  BY DEF Plain, PlainItem
<1>2. Plain(s) \in [1 .. Len(s) -> S]
  BY <1>1
<1>3. Plain(s) \in Seq(S)
  BY <1>0, <1>2, SeqDef
<1> HIDE DEF S
<1>4. Len(Plain(s)) \in Nat /\ DOMAIN Plain(s) = 1 .. Len(Plain(s)) /\ IsSeq(Plain(s))
  BY <1>3, LenProperties, SeqIsSeq
<1>5. DOMAIN Plain(s) = 1 .. Len(s)
  BY <1>1
<1>6. Len(Plain(s)) = Len(s)
  BY <1>0, <1>4, <1>5
<1> QED BY <1>1, <1>4, <1>6

LEMMA PlainCat ==
  ASSUME NEW s, NEW t, IsSeq(s), IsSeq(t)
  PROVE  Plain(s \o t) = Plain(s) \o Plain(t)
<1>0. Len(s) \in Nat /\ Len(t) \in Nat
  BY SeqFacts
<1>1. /\ IsSeq(s \o t) /\ Len(s \o t) = Len(s) + Len(t)
      /\ \A i \in 1 .. Len(s) + Len(t) : (s \o t)[i] = IF i <= Len(s) THEN s[i] ELSE t[i - Len(s)]
  BY Cat
<1>2. /\ IsSeq(Plain(s \o t)) /\ Len(Plain(s \o t)) = Len(s) + Len(t)
      /\ \A i \in 1 .. Len(s) + Len(t) : Plain(s \o t)[i] = PlainItem((s \o t)[i])
  BY <1>1, PlainFacts
<1>3. /\ IsSeq(Plain(s)) /\ Len(Plain(s)) = Len(s)
      /\ \A i \in 1 .. Len(s) : Plain(s)[i] = PlainItem(s[i])
  BY PlainFacts
<1>4. /\ IsSeq(Plain(t)) /\ Len(Plain(t)) = Len(t)
      /\ \A i \in 1 .. Len(t) : Plain(t)[i] = PlainItem(t[i])
  BY PlainFacts
<1>5. /\ IsSeq(Plain(s) \o Plain(t)) /\ Len(Plain(s) \o Plain(t)) = Len(s) + Len(t)
      /\ \A i \in 1 .. Len(s) + Len(t) :
           (Plain(s) \o Plain(t))[i] = IF i <= Len(s) THEN Plain(s)[i] ELSE Plain(t)[i - Len(s)]
  BY <1>3, <1>4, Cat
<1>6. ASSUME NEW i \in 1 .. Len(s) + Len(t)
      PROVE  Plain(s \o t)[i] = (Plain(s) \o Plain(t))[i]
  <2>1. CASE i <= Len(s)
    <3>1. i \in 1 .. Len(s)
      BY <1>0, <2>1
    <3> QED BY <1>1, <1>2, <1>3, <1>5, <2>1, <3>1
  <2>2. CASE ~ (i <= Len(s))
    <3>1. i - Len(s) \in 1 .. Len(t)
      BY <1>0, <2>2
    <3> QED BY <1>1, <1>2, <1>4, <1>5, <2>2, <3>1
  <2> QED BY <2>1, <2>2
<1> QED BY <1>2, <1>5, <1>6, SameSeq

LEMMA PlainAsMade ==
  ASSUME NEW p, NEW s, IsSeq(s), AsMade(p, s)
  PROVE  Plain(s) = s
<1>1. ASSUME NEW i \in 1 .. Len(s) PROVE PlainItem(s[i]) = s[i]
  <2>1. CASE s[i].is = "head"
    BY <2>1, HeadItemFacts DEF AsMade, ItemOK
  <2>2. CASE s[i].is # "head"
    BY <2>2 DEF PlainItem
  <2> QED BY <2>1, <2>2
<1> QED BY <1>1, PlainFacts, SameSeq

LEMMA AsMadeParts ==
  ASSUME NEW p, NEW s, IsSeq(s), AsMade(p, s), NEW m \in Nat \ {0}, NEW n \in 0 .. Len(s)
  PROVE  AsMade(p, SubSeq(s, m, n))
<1>0. Len(s) \in Nat
  BY SeqFacts
<1>1. ASSUME NEW i \in 1 .. Len(SubSeq(s, m, n))
      PROVE  SubSeq(s, m, n)[i] = s[m + i - 1] /\ m + i - 1 \in 1 .. Len(s)
  <2>1. i \in 1 .. n - m + 1
    BY <1>0, Part
  <2> QED BY <1>0, <2>1, Part
<1> QED BY <1>1 DEF AsMade

LEMMA AsMadeCat ==
  ASSUME NEW p, NEW s, NEW t, IsSeq(s), IsSeq(t), AsMade(p, s), AsMade(p, t)
  PROVE  AsMade(p, s \o t)
<1>0. Len(s) \in Nat /\ Len(t) \in Nat
  BY SeqFacts
<1>1. ASSUME NEW i \in 1 .. Len(s \o t)
      PROVE  ItemOK(p, (s \o t)[i])
  <2>0. i \in 1 .. Len(s) + Len(t)
    BY Cat
  <2>1. CASE i <= Len(s)
    <3>1. (s \o t)[i] = s[i] /\ i \in 1 .. Len(s)
      BY <1>0, <2>0, <2>1, Cat
    <3> QED BY <1>1, <3>1 DEF AsMade
  <2>2. CASE ~ (i <= Len(s))
    <3>1. (s \o t)[i] = t[i - Len(s)] /\ i - Len(s) \in 1 .. Len(t)
      BY <1>0, <2>0, <2>2, Cat
    <3> QED BY <1>1, <3>1 DEF AsMade
  <2> QED BY <2>1, <2>2
<1> QED BY <1>1 DEF AsMade

\* rewrite_request_head changes what the head says of itself and nothing else.
LEMMA RewriteIsPlain ==
  ASSUME NEW p, NEW s, IsSeq(s), AsMade(p, s), Len(s) > 0, s[Len(s)].is = "head"
  PROVE  IsSeq(RewriteHead(s)) /\ Plain(RewriteHead(s)) = s
<1>0. Len(s) \in Nat /\ Len(s) \in 1 .. Len(s) /\ DOMAIN s = 1 .. Len(s)
  BY SeqFacts
<1> DEFINE last == [s[Len(s)] EXCEPT !.own = TRUE]
           r == RewriteHead(s)
           S == {s[i] : i \in DOMAIN s} \cup {last}
<1>1. r = [s EXCEPT ![Len(s)] = last]
  BY DEF RewriteHead
<1>2. s[Len(s)] = HeadItem(s[Len(s)].head)
  BY <1>0 DEF AsMade, ItemOK
<1>3. PlainItem(last) = s[Len(s)]
  BY <1>2, HeadItemFacts
<1>4. s \in Seq(S) /\ last \in S
  BY SeqMonotonic DEF IsSeq
<1> HIDE DEF last, S
<1>5. /\ r \in Seq(S) /\ Len(r) = Len(s)
      /\ \A j \in 1 .. Len(s) : r[j] = IF j = Len(s) THEN last ELSE s[j]
  BY <1>0, <1>1, <1>4, ExceptSeq
<1> HIDE DEF r
<1>6. IsSeq(r)
  BY <1>5, SeqIsSeq
<1>7. ASSUME NEW j \in 1 .. Len(s) PROVE Plain(r)[j] = s[j]
  <2>1. Plain(r)[j] = PlainItem(r[j])
    BY <1>5, <1>6, PlainFacts
  <2>2. CASE j = Len(s)
    BY <1>3, <1>5, <2>1, <2>2
  <2>3. CASE j # Len(s)
    <3>1. Plain(s)[j] = PlainItem(s[j]) /\ Plain(s)[j] = s[j]
      BY PlainFacts, PlainAsMade
    <3> QED BY <1>5, <2>1, <2>3, <3>1
  <2> QED BY <2>2, <2>3
<1>8. IsSeq(Plain(r)) /\ Len(Plain(r)) = Len(s)
  BY <1>5, <1>6, PlainFacts
<1> QED BY <1>6, <1>7, <1>8, SameSeq DEF r

----------------------------------------------------------------------------
(* What is known of a pump                                                 *)

Modes == Lines \cup {"head", "body", "chunk", "verdict", "raw", "done"}

\* A pump whose source made m, having read n items of it, holding c and having written s,
\* is in mode x: nothing is missing, and a raw copy holds nothing back.
Flows(p, m, n, c, s, x) ==
  /\ IsSeq(c) /\ IsSeq(s) /\ AsMade(p, c)
  /\ n \in 0 .. Len(m)
  /\ x \in Modes /\ (x = "raw" => c = <<>>)
  /\ (Plain(s) \o c) \o SubSeq(m, n + 1, Len(m)) = m

LEMMA Buffers ==
  ASSUME NEW p, NEW m, NEW n, NEW c, NEW s, NEW x, Flows(p, m, n, c, s, x),
         IsSeq(m), AsMade(p, m), NEW k \in 1 .. Len(m) - n, x # "raw"
  PROVE  Flows(p, m, n + k, c \o SubSeq(SubSeq(m, n + 1, Len(m)), 1, k), s, x)
<1> DEFINE u == SubSeq(m, n + 1, Len(m))
           a == SubSeq(u, 1, k)
           v == SubSeq(m, n + k + 1, Len(m))
<1>0. /\ Len(m) \in Nat /\ n \in 0 .. Len(m) /\ k \in 0 .. Len(m) - n /\ k \in Nat
      /\ n + 1 \in Nat \ {0} /\ n + k + 1 \in Nat \ {0} /\ n + k \in 0 .. Len(m)
      /\ Len(m) \in 0 .. Len(m)
  BY SeqFacts DEF Flows
<1>1. a \o v = u /\ Len(u) = Len(m) - n
  BY <1>0, CutRest
<1>2. IsSeq(u) /\ IsSeq(v) /\ AsMade(p, u)
  BY <1>0, Part, AsMadeParts
<1>3. k \in 0 .. Len(u) /\ 1 \in Nat \ {0}
  BY <1>0, <1>1
<1> HIDE DEF u, v
<1>4. IsSeq(a) /\ AsMade(p, a)
  BY <1>2, <1>3, Part, AsMadeParts
<1> HIDE DEF a
<1>5. IsSeq(c) /\ IsSeq(s) /\ AsMade(p, c) /\ IsSeq(Plain(s))
  BY PlainFacts DEF Flows
<1>6. IsSeq(c \o a) /\ AsMade(p, c \o a)
  BY <1>4, <1>5, Cat, AsMadeCat
<1>7. (Plain(s) \o (c \o a)) \o v = m
  <2>1. (Plain(s) \o c) \o u = m
    BY DEF Flows, u
  <2>2. IsSeq(Plain(s) \o c)
    BY <1>5, Cat
  <2>3. ((Plain(s) \o c) \o a) \o v = (Plain(s) \o c) \o (a \o v)
    BY <1>2, <1>4, <2>2, CatAssociates, SMTT(30)
  <2>4. (Plain(s) \o c) \o a = Plain(s) \o (c \o a)
    <3> DEFINE q == Plain(s)
    <3>1. IsSeq(q) /\ IsSeq(c) /\ IsSeq(a)
      BY <1>4, <1>5
    <3> HIDE DEF q
    <3>2. (q \o c) \o a = q \o (c \o a)
      BY <3>1, CatAssociates, SMTT(30)
    <3> QED BY <3>2 DEF q
  <2> QED BY <1>1, <2>1, <2>3, <2>4
<1>8. n + k + 1 = (n + k) + 1
  OBVIOUS
<1> QED BY <1>0, <1>5, <1>6, <1>7 DEF Flows, a, u, v

\* The first items of what is held are written, as they are or rewritten.
LEMMA Writes ==
  ASSUME NEW p, NEW m, NEW n, NEW c, NEW s, NEW x, Flows(p, m, n, c, s, x), IsSeq(m),
         NEW k \in 0 .. Len(c), NEW a, IsSeq(a), Plain(a) = SubSeq(c, 1, k),
         NEW y \in Modes, y = "raw" => SubSeq(c, k + 1, Len(c)) = <<>>
  PROVE  Flows(p, m, n, SubSeq(c, k + 1, Len(c)), s \o a, y)
<1> DEFINE d == SubSeq(c, k + 1, Len(c))
           u == SubSeq(m, n + 1, Len(m))
<1>0. /\ IsSeq(c) /\ IsSeq(s) /\ AsMade(p, c) /\ IsSeq(Plain(s)) /\ IsSeq(Plain(a))
      /\ n \in 0 .. Len(m) /\ Len(m) \in Nat /\ Len(c) \in Nat
  BY PlainFacts, SeqFacts DEF Flows
<1>1. k + 1 \in Nat \ {0} /\ Len(c) \in 0 .. Len(c) /\ n + 1 \in Nat \ {0} /\ Len(m) \in 0 .. Len(m)
  BY <1>0
<1>2. IsSeq(d) /\ AsMade(p, d) /\ IsSeq(u)
  BY <1>0, <1>1, Part, AsMadeParts
<1>3. Plain(a) \o d = c
  BY <1>0, Cut
<1>4. Plain(s \o a) = Plain(s) \o Plain(a) /\ IsSeq(s \o a)
  BY <1>0, PlainCat, Cat
<1>5. (Plain(s \o a) \o d) \o u = m
  <2> HIDE DEF d
  <2>1. (Plain(s) \o Plain(a)) \o d = Plain(s) \o (Plain(a) \o d)
    <3> DEFINE q == Plain(s)
               r == Plain(a)
    <3>1. IsSeq(q) /\ IsSeq(r)
      BY <1>0
    <3> HIDE DEF q, r
    <3>2. (q \o r) \o d = q \o (r \o d)
      BY <1>2, <3>1, CatAssociates, SMTT(30)
    <3> QED BY <3>2 DEF q, r
  <2> QED BY <1>3, <1>4, <2>1 DEF Flows
<1> QED BY <1>0, <1>2, <1>4, <1>5 DEF Flows

\* Nothing is held, and what is read is written.
LEMMA Copies ==
  ASSUME NEW p, NEW m, NEW n, NEW c, NEW s, NEW x, Flows(p, m, n, c, s, x), IsSeq(m), AsMade(p, m),
         NEW k \in 1 .. Len(m) - n, c = <<>>, NEW y \in Modes
  PROVE  Flows(p, m, n + k, c, s \o SubSeq(SubSeq(m, n + 1, Len(m)), 1, k), y)
<1> DEFINE u == SubSeq(m, n + 1, Len(m))
           a == SubSeq(u, 1, k)
           v == SubSeq(m, n + k + 1, Len(m))
<1>0. /\ Len(m) \in Nat /\ n \in 0 .. Len(m) /\ k \in 0 .. Len(m) - n /\ k \in Nat
      /\ n + 1 \in Nat \ {0} /\ n + k + 1 \in Nat \ {0} /\ n + k \in 0 .. Len(m)
      /\ Len(m) \in 0 .. Len(m)
  BY SeqFacts DEF Flows
<1>1. a \o v = u /\ Len(u) = Len(m) - n
  BY <1>0, CutRest
<1>2. IsSeq(u) /\ IsSeq(v) /\ AsMade(p, u)
  BY <1>0, Part, AsMadeParts
<1>3. k \in 0 .. Len(u) /\ 1 \in Nat \ {0}
  BY <1>0, <1>1
<1> HIDE DEF u, v
<1>4. IsSeq(a) /\ AsMade(p, a)
  BY <1>2, <1>3, Part, AsMadeParts
<1> HIDE DEF a
<1>5. IsSeq(s) /\ IsSeq(Plain(s)) /\ Plain(s) \o c = Plain(s)
  BY PlainFacts, Cat DEF Flows
<1>6. Plain(s \o a) = Plain(s) \o a /\ IsSeq(s \o a)
  BY <1>4, <1>5, PlainCat, PlainAsMade, Cat
<1>7. Plain(s \o a) \o c = Plain(s \o a)
  BY <1>4, <1>5, <1>6, PlainFacts, Cat
<1>8. (Plain(s) \o a) \o v = m
  <2>1. (Plain(s) \o a) \o v = Plain(s) \o (a \o v)
    <3> DEFINE q == Plain(s)
    <3>1. IsSeq(q)
      BY <1>5
    <3> HIDE DEF q
    <3>2. (q \o a) \o v = q \o (a \o v)
      BY <1>2, <1>4, <3>1, CatAssociates
    <3> QED BY <3>2 DEF q
  <2>2. (Plain(s) \o c) \o u = m
    BY DEF Flows, u
  <2> QED BY <1>1, <1>5, <2>1, <2>2
<1> QED BY <1>0, <1>6, <1>7, <1>8 DEF Flows, a, u, v

\* The source makes more.
LEMMA Grows ==
  ASSUME NEW p, NEW m, NEW n, NEW c, NEW s, NEW x, Flows(p, m, n, c, s, x), IsSeq(m),
         NEW items, IsSeq(items)
  PROVE  Flows(p, m \o items, n, c, s, x)
<1> DEFINE w == m \o items
           u == SubSeq(m, n + 1, Len(m))
           v == SubSeq(w, n + 1, Len(w))
<1>0. /\ IsSeq(c) /\ IsSeq(s) /\ IsSeq(Plain(s)) /\ n \in 0 .. Len(m) /\ Len(m) \in Nat
      /\ Len(items) \in Nat
  BY PlainFacts, SeqFacts DEF Flows
<1>1. /\ IsSeq(w) /\ Len(w) = Len(m) + Len(items)
      /\ \A i \in 1 .. Len(m) + Len(items) : w[i] = IF i <= Len(m) THEN m[i] ELSE items[i - Len(m)]
  BY Cat
<1>2. IsSeq(Plain(s) \o c)
  BY <1>0, Cat
<1>3. (Plain(s) \o c) \o u = m
  BY DEF Flows
<1>4. IsSeq(u)
  <2>1. n + 1 \in Nat \ {0} /\ Len(m) \in 0 .. Len(m)
    BY <1>0
  <2> QED BY <1>0, <2>1, Part
<1> HIDE DEF u
<1>5. (Plain(s) \o c) \o (u \o items) = w
  <2> DEFINE q == Plain(s) \o c
  <2>1. IsSeq(q)
    BY <1>2
  <2> HIDE DEF q
  <2>2. (q \o u) \o items = q \o (u \o items)
    BY <1>4, <2>1, CatAssociates
  <2> QED BY <1>3, <2>2 DEF q
<1>6. v = u \o items
  <2>0. n + 1 \in Nat \ {0} /\ Len(m) \in 0 .. Len(m) /\ Len(w) \in 0 .. Len(w) /\ n \in Nat
    BY <1>0, <1>1
  <2>1. /\ Len(u) = Len(m) - n
        /\ \A i \in 1 .. Len(m) - n : u[i] = m[n + i]
    <3>1. Len(m) - (n + 1) + 1 = Len(m) - n
      BY <1>0, <2>0
    <3>2. /\ Len(u) = IF n + 1 <= Len(m) THEN Len(m) - (n + 1) + 1 ELSE 0
          /\ \A i \in 1 .. Len(m) - (n + 1) + 1 : u[i] = m[(n + 1) + i - 1]
      BY <2>0, Part DEF u
    <3>3. \A i \in 1 .. Len(m) - n : (n + 1) + i - 1 = n + i
      BY <1>0, <2>0
    <3>4. (IF n + 1 <= Len(m) THEN Len(m) - (n + 1) + 1 ELSE 0) = Len(m) - n
      BY <1>0, <2>0
    <3> QED BY <3>1, <3>2, <3>3, <3>4
  <2> HIDE DEF w
  <2>2. /\ IsSeq(v) /\ Len(v) = Len(w) - n
        /\ \A i \in 1 .. Len(w) - n : v[i] = w[n + i]
    <3>1. Len(w) - (n + 1) + 1 = Len(w) - n
      BY <1>0, <1>1, <2>0
    <3>2. /\ IsSeq(v) /\ Len(v) = IF n + 1 <= Len(w) THEN Len(w) - (n + 1) + 1 ELSE 0
          /\ \A i \in 1 .. Len(w) - (n + 1) + 1 : v[i] = w[(n + 1) + i - 1]
      BY <1>1, <2>0, Part
    <3>3. \A i \in 1 .. Len(w) - n : (n + 1) + i - 1 = n + i
      BY <1>0, <1>1, <2>0
    <3>4. (IF n + 1 <= Len(w) THEN Len(w) - (n + 1) + 1 ELSE 0) = Len(w) - n
      BY <1>0, <1>1, <2>0
    <3> QED BY <3>1, <3>2, <3>3, <3>4
  <2>3. /\ IsSeq(u \o items) /\ Len(u \o items) = Len(w) - n
        /\ \A i \in 1 .. Len(u) + Len(items) :
             (u \o items)[i] = IF i <= Len(u) THEN u[i] ELSE items[i - Len(u)]
    <3>1. /\ IsSeq(u \o items) /\ Len(u \o items) = Len(u) + Len(items)
          /\ \A i \in 1 .. Len(u) + Len(items) :
               (u \o items)[i] = IF i <= Len(u) THEN u[i] ELSE items[i - Len(u)]
      BY <1>4, Cat
    <3>2. Len(u) + Len(items) = Len(w) - n
      BY <1>0, <1>1, <2>0, <2>1
    <3> QED BY <3>1, <3>2
  <2> HIDE DEF v
  <2>4. ASSUME NEW i \in 1 .. Len(w) - n PROVE v[i] = (u \o items)[i]
    <3>0. i \in 1 .. Len(u) + Len(items) /\ n + i \in 1 .. Len(m) + Len(items)
      BY <1>0, <1>1, <2>0, <2>1
    <3>1. CASE i <= Len(u)
      <4>1. i \in 1 .. Len(m) - n /\ n + i <= Len(m)
        BY <1>0, <2>0, <2>1, <3>1
      <4> QED BY <1>1, <2>1, <2>2, <2>3, <3>0, <3>1, <4>1
    <3>2. CASE ~ (i <= Len(u))
      <4>1. ~ (n + i <= Len(m)) /\ (n + i) - Len(m) = i - Len(u)
        BY <1>0, <2>0, <2>1, <3>0, <3>2
      <4> QED BY <1>1, <2>2, <2>3, <3>0, <3>2, <4>1
    <3> QED BY <3>1, <3>2
  <2> QED BY <2>2, <2>3, <2>4, SameSeq
<1>7. n \in 0 .. Len(w)
  BY <1>0, <1>1
<1> QED BY <1>0, <1>5, <1>6, <1>7 DEF Flows

----------------------------------------------------------------------------
(* The invariant                                                           *)

MadeOK ==
  /\ DOMAIN made = Pumps
  /\ \A p \in Pumps : IsSeq(made[p]) /\ AsMade(p, made[p])

FlowOK ==
  /\ DOMAIN took = Pumps /\ DOMAIN carry = Pumps /\ DOMAIN sent = Pumps /\ DOMAIN pc = Pumps
  /\ \A p \in Pumps : Flows(p, made[p], took[p], carry[p], sent[p], pc[p])

LeftOK == left \in [Pumps -> Nat]

IInv == MadeOK /\ FlowOK /\ LeftOK

\* A step of pump p leaves the other pump alone.
Only(p) ==
  /\ DOMAIN took' = Pumps /\ DOMAIN carry' = Pumps /\ DOMAIN sent' = Pumps /\ DOMAIN pc' = Pumps
  /\ \A q \in Pumps \ {p} :
       took'[q] = took[q] /\ carry'[q] = carry[q] /\ sent'[q] = sent[q] /\ pc'[q] = pc[q]

LEMMA PumpMoves ==
  ASSUME IInv, NEW p \in Pumps, made' = made, Only(p), LeftOK',
         Flows(p, made[p], took'[p], carry'[p], sent'[p], pc'[p])
  PROVE  IInv'
<1>1. MadeOK'
  BY DEF IInv, MadeOK
<1>2. ASSUME NEW q \in Pumps
      PROVE  Flows(q, made'[q], took'[q], carry'[q], sent'[q], pc'[q])
  <2>1. CASE q = p
    BY <2>1
  <2>2. CASE q # p
    BY <2>2 DEF IInv, FlowOK, Only
  <2> QED BY <2>1, <2>2
<1>3. FlowOK'
  BY <1>2 DEF FlowOK, Only
<1> QED BY <1>1, <1>3 DEF IInv

\* A pump that ends, whether with an error or not.
LEMMA EndStep ==
  ASSUME IInv, NEW p \in Pumps, UNCHANGED <<made, took, carry, sent, left>>,
         pc' = [pc EXCEPT ![p] = "done"]
  PROVE  IInv'
<1>1. Only(p) /\ pc'[p] = "done" /\ LeftOK'
  BY DEF IInv, FlowOK, Only, LeftOK
<1>2. Flows(p, made[p], took[p], carry[p], sent[p], "done")
  BY DEF IInv, FlowOK, Flows, Modes
<1> QED BY <1>1, <1>2, PumpMoves

LEMMA BufferStep ==
  ASSUME IInv, NEW p \in Pumps, Buffer(p)
  PROVE  IInv'
<1>0. /\ Flows(p, made[p], took[p], carry[p], sent[p], pc[p])
      /\ IsSeq(made[p]) /\ AsMade(p, made[p])
  BY DEF IInv, MadeOK, FlowOK
<1>1. PICK k \in 1 .. Avail(p) :
        /\ took' = [took EXCEPT ![p] = took[p] + k]
        /\ carry' = [carry EXCEPT ![p] = carry[p] \o SubSeq(Unread(p), 1, k)]
  BY DEF Buffer
<1>2. UNCHANGED <<made, sent, pc>> /\ pc[p] # "raw" /\ LeftOK'
  BY DEF Buffer, Lines, IInv, LeftOK
<1>3. /\ Only(p) /\ took'[p] = took[p] + k
      /\ carry'[p] = carry[p] \o SubSeq(SubSeq(made[p], took[p] + 1, Len(made[p])), 1, k)
  BY <1>1, <1>2 DEF IInv, FlowOK, Only, Unread
<1>4. k \in 1 .. Len(made[p]) - took[p]
  BY DEF Avail
<1>5. Flows(p, made[p], took'[p], carry'[p], sent'[p], pc'[p])
  BY <1>0, <1>2, <1>3, <1>4, Buffers
<1> QED BY <1>2, <1>3, <1>5, PumpMoves

\* A value written into one place of a function over the pumps.
LEMMA PutAt ==
  ASSUME NEW f, DOMAIN f = Pumps, NEW p \in Pumps, NEW v
  PROVE  /\ DOMAIN [f EXCEPT ![p] = v] = Pumps /\ [f EXCEPT ![p] = v][p] = v
         /\ \A q \in Pumps \ {p} : [f EXCEPT ![p] = v][q] = f[q]
OBVIOUS

\* A body of which n units have been copied.
LEMMA CopiedMode ==
  ASSUME IInv, NEW p \in Pumps, NEW n \in Nat, n <= left[p], pc[p] \in {"body", "chunk"}, Copied(p, n)
  PROVE  /\ LeftOK' /\ pc'[p] \in Modes \ {"raw"}
         /\ DOMAIN pc' = Pumps /\ \A q \in Pumps \ {p} : pc'[q] = pc[q]
<1>1. LeftOK'
  BY DEF IInv, LeftOK, Copied
<1>2. DOMAIN pc = Pumps
  BY DEF IInv, FlowOK
<1>3. /\ DOMAIN pc' = Pumps /\ \A q \in Pumps \ {p} : pc'[q] = pc[q]
      /\ pc'[p] = IF n < left[p] THEN pc[p] ELSE IF pc[p] = "chunk" THEN "crlf" ELSE AfterBody(p)
  BY <1>2 DEF Copied
<1>4. pc'[p] \in {"body", "chunk", "crlf", "verdict", "head"}
  BY <1>3 DEF AfterBody
<1>5. pc'[p] \in Modes \ {"raw"}
  BY <1>4 DEF Modes, Lines
<1> QED BY <1>1, <1>3, <1>5

LEMMA CopyBufferedStep ==
  ASSUME IInv, NEW p \in Pumps, CopyBuffered(p)
  PROVE  IInv'
<1> DEFINE n == Least(left[p], Len(carry[p]))
           c == carry[p]
<1>0. /\ Flows(p, made[p], took[p], c, sent[p], pc[p])
      /\ IsSeq(made[p]) /\ AsMade(p, made[p]) /\ IsSeq(c) /\ AsMade(p, c)
      /\ left[p] \in Nat
  BY DEF IInv, MadeOK, FlowOK, LeftOK, Flows
<1>1. n \in Nat /\ n \in 0 .. Len(c) /\ n <= left[p]
  BY <1>0, SeqFacts DEF Least
<1>2. /\ sent' = [sent EXCEPT ![p] = sent[p] \o SubSeq(c, 1, n)]
      /\ carry' = [carry EXCEPT ![p] = SubSeq(c, n + 1, Len(c))]
      /\ Copied(p, n) /\ pc[p] \in {"body", "chunk"} /\ UNCHANGED <<made, took>>
  BY DEF CopyBuffered, Drop
<1> HIDE DEF n
<1>3. /\ LeftOK' /\ pc'[p] \in Modes \ {"raw"}
      /\ DOMAIN pc' = Pumps /\ \A q \in Pumps \ {p} : pc'[q] = pc[q]
  BY <1>1, <1>2, CopiedMode
<1>4. Only(p) /\ sent'[p] = sent[p] \o SubSeq(c, 1, n) /\ carry'[p] = SubSeq(c, n + 1, Len(c))
  BY <1>2, <1>3, PutAt DEF IInv, FlowOK, Only
<1>5. IsSeq(SubSeq(c, 1, n)) /\ Plain(SubSeq(c, 1, n)) = SubSeq(c, 1, n)
  <2>1. 1 \in Nat \ {0}
    OBVIOUS
  <2>2. IsSeq(SubSeq(c, 1, n)) /\ AsMade(p, SubSeq(c, 1, n))
    BY <1>0, <1>1, <2>1, Part, AsMadeParts
  <2> QED BY <2>2, PlainAsMade
<1>6. Flows(p, made[p], took'[p], carry'[p], sent'[p], pc'[p])
  <2> DEFINE a == SubSeq(c, 1, n)
  <2>1. IsSeq(a) /\ Plain(a) = SubSeq(c, 1, n)
    BY <1>5
  <2>2. pc'[p] \in Modes /\ pc'[p] # "raw" /\ took'[p] = took[p]
    BY <1>2, <1>3
  <2> HIDE DEF a, c
  <2>3. Flows(p, made[p], took[p], SubSeq(c, n + 1, Len(c)), sent[p] \o a, pc'[p])
    BY <1>0, <1>1, <2>1, <2>2, Writes
  <2> QED BY <1>4, <2>2, <2>3 DEF a
<1> QED BY <1>2, <1>3, <1>4, <1>6, PumpMoves

LEMMA CopyExactStep ==
  ASSUME IInv, NEW p \in Pumps, CopyExact(p)
  PROVE  IInv'
<1>0. /\ Flows(p, made[p], took[p], carry[p], sent[p], pc[p])
      /\ IsSeq(made[p]) /\ AsMade(p, made[p]) /\ left[p] \in Nat /\ took[p] \in 0 .. Len(made[p])
      /\ Len(made[p]) \in Nat
  BY SeqFacts DEF IInv, MadeOK, FlowOK, LeftOK, Flows
<1>1. PICK k \in 1 .. ReadLimit(p) :
        /\ took' = [took EXCEPT ![p] = took[p] + k]
        /\ sent' = [sent EXCEPT ![p] = sent[p] \o SubSeq(Unread(p), 1, k)]
        /\ Copied(p, k)
  BY DEF CopyExact
<1>2. carry[p] = <<>> /\ pc[p] \in {"body", "chunk"} /\ UNCHANGED <<made, carry>>
  BY DEF CopyExact
<1>3. k \in Nat /\ k <= left[p] /\ k \in 1 .. Len(made[p]) - took[p]
  BY <1>0 DEF ReadLimit, Least, Avail
<1>4. /\ LeftOK' /\ pc'[p] \in Modes
      /\ DOMAIN pc' = Pumps /\ \A q \in Pumps \ {p} : pc'[q] = pc[q]
  BY <1>1, <1>2, <1>3, CopiedMode
<1>5. /\ Only(p) /\ took'[p] = took[p] + k /\ carry'[p] = carry[p]
      /\ sent'[p] = sent[p] \o SubSeq(SubSeq(made[p], took[p] + 1, Len(made[p])), 1, k)
  BY <1>1, <1>2, <1>4, PutAt DEF IInv, FlowOK, Only, Unread
<1>6. Flows(p, made[p], took'[p], carry'[p], sent'[p], pc'[p])
  BY <1>0, <1>2, <1>3, <1>4, <1>5, Copies
<1> QED BY <1>2, <1>4, <1>5, <1>6, PumpMoves

LEMMA RawCopyStep ==
  ASSUME IInv, NEW p \in Pumps, RawCopy(p)
  PROVE  IInv'
<1>0. /\ Flows(p, made[p], took[p], carry[p], sent[p], pc[p])
      /\ IsSeq(made[p]) /\ AsMade(p, made[p])
  BY DEF IInv, MadeOK, FlowOK
<1>1. PICK k \in 1 .. Avail(p) :
        /\ took' = [took EXCEPT ![p] = took[p] + k]
        /\ sent' = [sent EXCEPT ![p] = sent[p] \o SubSeq(Unread(p), 1, k)]
  BY DEF RawCopy
<1>2. pc[p] = "raw" /\ UNCHANGED <<made, carry, pc>> /\ LeftOK'
  BY DEF RawCopy, IInv, LeftOK
<1>3. k \in 1 .. Len(made[p]) - took[p] /\ carry[p] = <<>> /\ pc[p] \in Modes
  BY <1>0, <1>2 DEF Avail, Flows
<1>4. /\ Only(p) /\ took'[p] = took[p] + k
      /\ sent'[p] = sent[p] \o SubSeq(SubSeq(made[p], took[p] + 1, Len(made[p])), 1, k)
  BY <1>1, <1>2, PutAt DEF IInv, FlowOK, Only, Unread
<1>5. Flows(p, made[p], took'[p], carry'[p], sent'[p], pc'[p])
  BY <1>0, <1>2, <1>3, <1>4, Copies
<1> QED BY <1>2, <1>4, <1>5, PumpMoves

\* The first item held is written.
LEMMA WritesOne ==
  ASSUME NEW p, NEW m, NEW n, NEW c, NEW s, NEW x, Flows(p, m, n, c, s, x), IsSeq(m), c # <<>>,
         NEW y \in Modes, y # "raw"
  PROVE  Flows(p, m, n, Tail(c), Append(s, Head(c)), y)
<1>0. IsSeq(c) /\ IsSeq(s) /\ AsMade(p, c)
  BY DEF Flows
<1>1. Len(c) \in Nat /\ Len(c) > 0
  BY <1>0, SeqFacts
<1>2. PICK S : c \in Seq(S) /\ s \in Seq(S)
  BY <1>0, SeqsTogether
<1> DEFINE a == SubSeq(c, 1, 1)
<1>3. 1 \in 0 .. Len(c) /\ 1 \in Nat \ {0} /\ 1 \in 1 .. Len(c)
  BY <1>1
<1>4. IsSeq(a) /\ AsMade(p, a)
  BY <1>0, <1>3, Part, AsMadeParts
<1>5. Plain(a) = SubSeq(c, 1, 1)
  BY <1>4, PlainAsMade
<1>6. Tail(c) = SubSeq(c, 1 + 1, Len(c))
  BY <1>2, TailIsSubSeq
<1>7. Append(s, Head(c)) = s \o a
  <2>1. Head(c) = c[1] /\ c[1] \in S
    BY <1>2, <1>3, ElementOfSeq
  <2>2. Append(s, Head(c)) = s \o <<c[1]>>
    BY <1>2, <2>1, AppendIsConcat
  <2>3. a = <<c[1]>>
    <3>1. Len(a) = 1 /\ a[1] = c[1]
      BY <1>0, <1>3, Part
    <3>2. IsSeq(<<c[1]>>) /\ Len(<<c[1]>>) = 1 /\ <<c[1]>>[1] = c[1]
      <4>1. <<c[1]>> \in Seq({c[1]})
        OBVIOUS
      <4> QED BY <4>1, SeqIsSeq
    <3> HIDE DEF a
    <3> QED BY <1>4, <3>1, <3>2, SameSeq
  <2> QED BY <2>2, <2>3
<1> HIDE DEF a
<1>8. Flows(p, m, n, SubSeq(c, 1 + 1, Len(c)), s \o a, y)
  BY <1>3, <1>4, <1>5, Writes
<1> QED BY <1>6, <1>7, <1>8

LEMMA ChunkLineStep ==
  ASSUME IInv, NEW p \in Pumps, ChunkLine(p)
  PROVE  IInv'
<1> DEFINE c == carry[p]
<1>0. /\ Flows(p, made[p], took[p], c, sent[p], pc[p])
      /\ IsSeq(made[p]) /\ IsSeq(c) /\ AsMade(p, c)
  BY DEF IInv, MadeOK, FlowOK, Flows
<1>1. /\ c # <<>> /\ pc[p] \in {"size", "crlf", "trailer"}
      /\ pc[p] = "size" => Head(c).is = "size"
      /\ sent' = [sent EXCEPT ![p] = Append(sent[p], Head(c))]
      /\ carry' = [carry EXCEPT ![p] = Tail(c)]
      /\ left' = [left EXCEPT ![p] = IF pc[p] = "size" THEN Head(c).n ELSE 0]
      /\ UNCHANGED <<made, took>>
  BY DEF ChunkLine, Lines
<1>2. PICK y \in {"trailer", "chunk", "size", "verdict", "head"} : pc' = [pc EXCEPT ![p] = y]
  <2>1. AfterBody(p) \in {"verdict", "head"}
    BY DEF AfterBody
  <2> QED BY <1>1, <2>1 DEF ChunkLine
<1>3. LeftOK'
  <2>1. Head(c) = c[1] /\ 1 \in 1 .. Len(c)
    BY <1>0, <1>1, SeqFacts
  <2>2. pc[p] = "size" => Head(c).n \in Nat
    BY <1>0, <1>1, <2>1 DEF AsMade, ItemOK
  <2> QED BY <1>1, <2>2 DEF IInv, LeftOK
<1>4. y \in Modes /\ y # "raw"
  BY DEF Modes, Lines
<1>5. /\ Only(p) /\ sent'[p] = Append(sent[p], Head(c)) /\ carry'[p] = Tail(c) /\ pc'[p] = y
      /\ took'[p] = took[p]
  BY <1>1, <1>2, PutAt DEF IInv, FlowOK, Only
<1> HIDE DEF c
<1>6. Flows(p, made[p], took[p], Tail(c), Append(sent[p], Head(c)), y)
  BY <1>0, <1>1, <1>4, WritesOne
<1> QED BY <1>1, <1>3, <1>5, <1>6, PumpMoves

\* Whatever both pumps do.
LEMMA PumpStep ==
  ASSUME IInv, NEW p \in Pumps, Pump(p)
  PROVE  IInv'
<1>1. CASE TooLong(p) \/ LongLine(p) \/ Eof(p) \/ BadChunkLine(p)
  BY <1>1, EndStep DEF TooLong, LongLine, Eof, BadChunkLine, End
<1> QED BY <1>1, BufferStep, CopyBufferedStep, CopyExactStep, ChunkLineStep, RawCopyStep DEF Pump

----------------------------------------------------------------------------
(* Heads                                                                   *)

\* Every nonempty set of natural numbers has a least element.
LEMMA LeastOf ==
  ASSUME NEW S \in SUBSET Nat, S # {}
  PROVE  \E x \in S : \A y \in S : x <= y
<1> DEFINE R == OpToRel(<, Nat)
<1>1. IsWellFoundedOn(R, Nat)
  BY NatLessThanWellFounded
<1>2. \A x, y \in Nat : <<x, y>> \in R <=> x < y
  BY DEF OpToRel
<1> HIDE DEF R
<1>3. PICK x \in S : \A y \in S : ~ (<<y, x>> \in R)
  BY <1>1, WFMin
<1>4. ASSUME NEW y \in S PROVE x <= y
  <2>1. ~ (y < x)
    BY <1>2, <1>3
  <2> QED BY <2>1
<1> QED BY <1>3, <1>4

LEMMA BlockFacts ==
  ASSUME NEW s, IsSeq(s), BlockEnd(s) > 0
  PROVE  /\ BlockEnd(s) \in 1 .. Len(s) /\ BlockEnd(s) \in 0 .. Len(s)
         /\ s[BlockEnd(s)].is \in {"head", "answer"}
<1>0. Len(s) \in Nat
  BY SeqFacts
<1>1. Ends(s) # {}
  BY DEF BlockEnd
<1>2. Ends(s) \in SUBSET Nat /\ Ends(s) \subseteq 1 .. Len(s)
  BY <1>0 DEF Ends
<1>3. BlockEnd(s) \in Ends(s)
  BY <1>1, <1>2, LeastOf DEF BlockEnd
<1> QED BY <1>0, <1>3 DEF Ends

\* The head of a block and what follows it.
LEMMA BlockParts ==
  ASSUME NEW p, NEW s, IsSeq(s), AsMade(p, s), BlockEnd(s) > 0
  PROVE  LET b == SubSeq(s, 1, BlockEnd(s)) IN
         /\ IsSeq(b) /\ AsMade(p, b) /\ Len(b) = BlockEnd(s) /\ Plain(b) = b
         /\ b[BlockEnd(s)] = s[BlockEnd(s)]
<1> DEFINE e == BlockEnd(s)
           b == SubSeq(s, 1, e)
<1>1. e \in 1 .. Len(s) /\ e \in 0 .. Len(s) /\ Len(s) \in Nat
  BY BlockFacts, SeqFacts
<1>2. 1 \in Nat \ {0}
  OBVIOUS
<1> HIDE DEF e
<1>3. /\ IsSeq(b) /\ Len(b) = IF 1 <= e THEN e - 1 + 1 ELSE 0
      /\ \A i \in 1 .. e - 1 + 1 : b[i] = s[1 + i - 1]
  BY <1>1, <1>2, Part
<1>4. AsMade(p, b)
  BY <1>1, <1>2, AsMadeParts
<1>5. Plain(b) = b
  BY <1>3, <1>4, PlainAsMade
<1>6. Len(b) = e /\ e \in 1 .. e - 1 + 1 /\ 1 + e - 1 = e
  BY <1>1, <1>3
<1>7. b[e] = s[e]
  BY <1>3, <1>6
<1> QED BY <1>3, <1>4, <1>5, <1>6, <1>7 DEF e

LEMMA RequestBodyKinds ==
  ASSUME NEW h
  PROVE  /\ RequestBody(h).kind \in {"none", "chunked", "length", "bad"}
         /\ RequestBody(h).n \in Nat
<1> DEFINE A == h.method = "CONNECT"
           B == h.method # "CONNECT" /\ h.te = "chunked" /\ h.length = {}
           C == h.method # "CONNECT" /\ h.te = "none" /\ h.length \subseteq {0}
           D == h.method # "CONNECT" /\ h.te = "none" /\ h.length \in {{n} : n \in 1 .. 9}
<1>1. D => (CHOOSE n \in h.length : TRUE) \in Nat
  OBVIOUS
<1>2. ~ (A /\ B) /\ ~ (A /\ C) /\ ~ (A /\ D) /\ ~ (B /\ C) /\ ~ (B /\ D)
  OBVIOUS
<1>3. ~ (C /\ D)
  OBVIOUS
<1>4. RequestBody(h) = CASE A -> [kind |-> "none", n |-> 0]
                         [] B -> [kind |-> "chunked", n |-> 0]
                         [] C -> [kind |-> "none", n |-> 0]
                         [] D -> [kind |-> "length", n |-> CHOOSE n \in h.length : TRUE]
                         [] OTHER -> [kind |-> "bad", n |-> 0]
  BY DEF RequestBody
<1> HIDE DEF A, B, C, D
<1> QED BY <1>1, <1>2, <1>3, <1>4

LEMMA ResponseBodyKinds ==
  ASSUME NEW a, NEW headOnly, a.length \subseteq Nat
  PROVE  /\ ResponseBody(a, headOnly).kind \in {"head", "size", "raw", "body"}
         /\ ResponseBody(a, headOnly).n \in Nat
<1>1. a.length # {} => (CHOOSE n \in a.length : TRUE) \in Nat
  OBVIOUS
<1>2. CASE headOnly \/ ~ HasBody(a)
  BY <1>2 DEF ResponseBody
<1>3. CASE ~ (headOnly \/ ~ HasBody(a))
  <2>1. ResponseBody(a, headOnly) =
          CASE a.chunked -> [kind |-> "size", n |-> 0]
            [] ~ a.chunked /\ a.length = {} -> [kind |-> "raw", n |-> 0]
            [] ~ a.chunked /\ a.length = {0} -> [kind |-> "head", n |-> 0]
            [] ~ a.chunked /\ a.length \notin {{}, {0}} ->
                 [kind |-> "body", n |-> CHOOSE n \in a.length : TRUE]
    BY <1>3 DEF ResponseBody
  <2>2. CASE a.chunked
    BY <2>1, <2>2
  <2>3. CASE ~ a.chunked /\ a.length = {}
    BY <2>1, <2>3
  <2>4. CASE ~ a.chunked /\ a.length = {0}
    BY <2>1, <2>4
  <2>5. CASE ~ a.chunked /\ a.length \notin {{}, {0}}
    BY <1>1, <2>1, <2>5
  <2> QED BY <2>2, <2>3, <2>4, <2>5
<1> QED BY <1>2, <1>3

\* Everything held is written, and nothing is left to hold.
LEMMA WritesAll ==
  ASSUME NEW p, NEW m, NEW n, NEW c, NEW s, NEW x, Flows(p, m, n, c, s, x), IsSeq(m), NEW y \in Modes
  PROVE  Flows(p, m, n, <<>>, s \o c, y)
<1>0. IsSeq(c) /\ AsMade(p, c) /\ Len(c) \in Nat
  BY SeqFacts DEF Flows
<1>1. Len(c) \in 0 .. Len(c)
  BY <1>0
<1>2. SubSeq(c, Len(c) + 1, Len(c)) = <<>>
  BY <1>0, SubSeqEmpty
<1>3. SubSeq(c, 1, Len(c)) = c
  BY <1>0, SubSeqFull DEF IsSeq
<1>4. Plain(c) = SubSeq(c, 1, Len(c))
  BY <1>0, <1>3, PlainAsMade
<1>5. Flows(p, m, n, SubSeq(c, Len(c) + 1, Len(c)), s \o c, y)
  BY <1>0, <1>1, <1>2, <1>4, Writes
<1> QED BY <1>2, <1>5

LEMMA ForwardRequestStep ==
  ASSUME IInv, ForwardRequest
  PROVE  IInv'
<1> DEFINE c == carry["req"]
           e == BlockEnd(c)
           b == SubSeq(c, 1, e)
           h == BlockHead
<1>0. /\ "req" \in Pumps /\ Flows("req", made["req"], took["req"], c, sent["req"], pc["req"])
      /\ IsSeq(made["req"]) /\ IsSeq(c) /\ AsMade("req", c)
  BY DEF IInv, MadeOK, FlowOK, Flows, Pumps
<1>1. /\ e > 0 /\ RequestBody(h).kind # "bad"
      /\ sent' = [sent EXCEPT !["req"] = sent["req"] \o RewriteHead(b)]
      /\ carry' = [carry EXCEPT !["req"] = SubSeq(c, e + 1, Len(c))]
      /\ left' = [left EXCEPT !["req"] = RequestBody(h).n]
      /\ pc' = [pc EXCEPT !["req"] = BodyPc(h)]
      /\ UNCHANGED <<made, took>>
  BY DEF ForwardRequest, HasRequest, Refused, Block, Drop
<1> HIDE DEF h, c
<1>2. e \in 1 .. Len(c) /\ e \in 0 .. Len(c) /\ c[e].is \in {"head", "answer"}
  BY <1>0, <1>1, BlockFacts
<1>3. c[e].is = "head"
  BY <1>0, <1>2 DEF AsMade, ItemOK
<1>4. IsSeq(b) /\ AsMade("req", b) /\ Len(b) = e /\ b[e] = c[e]
  BY <1>0, <1>1, BlockParts
<1>5. IsSeq(RewriteHead(b)) /\ Plain(RewriteHead(b)) = SubSeq(c, 1, e)
  BY <1>1, <1>3, <1>4, RewriteIsPlain
<1>6. LeftOK'
  BY <1>1, RequestBodyKinds DEF IInv, LeftOK
<1>7. BodyPc(h) \in {"body", "size", "verdict", "head"}
  <2>1. RequestBody(h).kind \in {"none", "chunked", "length"}
    BY <1>1, RequestBodyKinds
  <2> QED BY <2>1 DEF BodyPc
<1>8. BodyPc(h) \in Modes /\ BodyPc(h) # "raw"
  BY <1>7 DEF Modes, Lines
<1>9. /\ Only("req") /\ took'["req"] = took["req"] /\ pc'["req"] = BodyPc(h)
      /\ sent'["req"] = sent["req"] \o RewriteHead(b) /\ carry'["req"] = SubSeq(c, e + 1, Len(c))
  BY <1>0, <1>1, PutAt DEF IInv, FlowOK, Only
<1> DEFINE r == RewriteHead(b)
<1> HIDE DEF r, e
<1>10. Flows("req", made["req"], took["req"], SubSeq(c, e + 1, Len(c)), sent["req"] \o r, BodyPc(h))
  <2>1. IsSeq(r) /\ Plain(r) = SubSeq(c, 1, e)
    BY <1>5 DEF r
  <2> QED BY <1>0, <1>2, <1>8, <2>1, Writes
<1>11. Flows("req", made["req"], took'["req"], carry'["req"], sent'["req"], pc'["req"])
  BY <1>9, <1>10 DEF r
<1> QED BY <1>0, <1>1, <1>6, <1>9, <1>11, PumpMoves

LEMMA VerdictStep ==
  ASSUME IInv, Verdict
  PROVE  IInv'
<1>0. /\ "req" \in Pumps /\ IsSeq(made["req"])
      /\ Flows("req", made["req"], took["req"], carry["req"], sent["req"], pc["req"])
      /\ DOMAIN sent = Pumps /\ DOMAIN carry = Pumps /\ DOMAIN pc = Pumps /\ DOMAIN took = Pumps
  BY DEF IInv, MadeOK, FlowOK, Pumps
<1>1. UNCHANGED <<made, took>> /\ LeftOK'
  BY DEF Verdict, IInv, LeftOK
<1>2. "raw" \in Modes /\ "head" \in Modes
  BY DEF Modes
<1>3. CASE verdict = "yes"
  <2>1. /\ sent' = [sent EXCEPT !["req"] = sent["req"] \o carry["req"]]
        /\ carry' = [carry EXCEPT !["req"] = <<>>]
        /\ pc' = [pc EXCEPT !["req"] = "raw"]
    BY <1>3 DEF Verdict, Flushed
  <2>2. /\ Only("req") /\ sent'["req"] = sent["req"] \o carry["req"] /\ carry'["req"] = <<>>
        /\ pc'["req"] = "raw"
    BY <1>0, <1>1, <2>1, PutAt DEF Only
  <2>3. Flows("req", made["req"], took["req"], <<>>, sent["req"] \o carry["req"], "raw")
    BY <1>0, <1>2, WritesAll
  <2> QED BY <1>0, <1>1, <2>2, <2>3, PumpMoves
<1>4. CASE verdict # "yes"
  <2>1. pc' = [pc EXCEPT !["req"] = "head"] /\ UNCHANGED <<sent, carry>>
    BY <1>4 DEF Verdict
  <2>2. Only("req") /\ pc'["req"] = "head"
    BY <1>0, <1>1, <2>1, PutAt DEF Only
  <2>3. Flows("req", made["req"], took["req"], carry["req"], sent["req"], "head")
    BY <1>0, <1>2 DEF Flows
  <2> QED BY <1>0, <1>1, <2>1, <2>2, <2>3, PumpMoves
<1> QED BY <1>3, <1>4

LEMMA ForwardInterimStep ==
  ASSUME IInv, ForwardInterim
  PROVE  IInv'
<1> DEFINE c == carry["rsp"]
           e == BlockEnd(c)
           b == SubSeq(c, 1, e)
<1>0. /\ "rsp" \in Pumps /\ Flows("rsp", made["rsp"], took["rsp"], c, sent["rsp"], pc["rsp"])
      /\ IsSeq(made["rsp"]) /\ IsSeq(c) /\ AsMade("rsp", c)
  BY DEF IInv, MadeOK, FlowOK, Flows, Pumps
<1>1. /\ e > 0 /\ pc["rsp"] = "head"
      /\ sent' = [sent EXCEPT !["rsp"] = sent["rsp"] \o b]
      /\ carry' = [carry EXCEPT !["rsp"] = SubSeq(c, e + 1, Len(c))]
      /\ UNCHANGED <<made, took, pc>> /\ LeftOK'
  BY DEF ForwardInterim, HasAnswer, Block, Drop, IInv, LeftOK
<1>2. /\ Only("rsp") /\ sent'["rsp"] = sent["rsp"] \o b
      /\ carry'["rsp"] = SubSeq(c, e + 1, Len(c))
  BY <1>0, <1>1, PutAt DEF IInv, FlowOK, Only
<1> HIDE DEF c
<1>3. IsSeq(b) /\ Plain(b) = SubSeq(c, 1, e) /\ e \in 0 .. Len(c)
  BY <1>0, <1>1, BlockFacts, BlockParts
<1>4. "head" \in Modes
  BY DEF Modes
<1> HIDE DEF b, e
<1>5. Flows("rsp", made["rsp"], took["rsp"], SubSeq(c, e + 1, Len(c)), sent["rsp"] \o b, "head")
  BY <1>0, <1>3, <1>4, Writes
<1> QED BY <1>0, <1>1, <1>2, <1>5, PumpMoves

LEMMA MatchAnswerStep ==
  ASSUME IInv, MatchAnswer
  PROVE  IInv'
<1> DEFINE c == carry["rsp"]
           e == BlockEnd(c)
           b == SubSeq(c, 1, e)
           d == SubSeq(c, e + 1, Len(c))
           a == TheAnswer
           m == Head(metas)
           frame == ResponseBody(a, m.headOnly)
           raw == Established(m, a) \/ frame.kind = "raw"
           unsolicited == a.status = 101 /\ ~ (m.connect \/ m.upgrade)
<1>0. /\ "rsp" \in Pumps /\ Flows("rsp", made["rsp"], took["rsp"], c, sent["rsp"], pc["rsp"])
      /\ IsSeq(made["rsp"]) /\ IsSeq(c) /\ AsMade("rsp", c)
  BY DEF IInv, MadeOK, FlowOK, Flows, Pumps
<1>1. e > 0 /\ UNCHANGED <<made, took>>
  BY DEF MatchAnswer, HasAnswer
<1>2. \/ pc' = [pc EXCEPT !["rsp"] = "done"] /\ UNCHANGED <<sent, carry, left>>
      \/ /\ sent' = [sent EXCEPT !["rsp"] = (sent["rsp"] \o b) \o (IF raw THEN d ELSE <<>>)]
         /\ carry' = [carry EXCEPT !["rsp"] = IF raw THEN <<>> ELSE d]
         /\ left' = [left EXCEPT !["rsp"] = frame.n]
         /\ pc' = [pc EXCEPT !["rsp"] = IF raw THEN "raw" ELSE frame.kind]
  BY DEF MatchAnswer, Block, Drop
<1>3. a = c[e]
  BY DEF TheAnswer
<1> HIDE DEF c, a, m, raw
<1>4. /\ e \in 1 .. Len(c) /\ e \in 0 .. Len(c) /\ c[e].is \in {"head", "answer"}
      /\ IsSeq(b) /\ Plain(b) = b
  BY <1>0, <1>1, BlockFacts, BlockParts
<1>5. a.length \subseteq Nat
  BY <1>0, <1>3, <1>4 DEF AsMade, ItemOK
<1>6. frame.kind \in {"head", "size", "raw", "body"} /\ frame.n \in Nat
  BY <1>5, ResponseBodyKinds
<1> HIDE DEF frame
<1>7. frame.kind \in Modes /\ "raw" \in Modes /\ (~ raw => frame.kind # "raw")
  BY <1>6 DEF Modes, Lines, raw
<1> DEFINE t == sent["rsp"]
<1>8. IsSeq(d) /\ b \o d = c /\ IsSeq(t)
  <2>1. e + 1 \in Nat \ {0} /\ Len(c) \in 0 .. Len(c)
    BY <1>0, <1>4, SeqFacts
  <2> QED BY <1>0, <1>4, <2>1, Part, Cut DEF Flows
<1> HIDE DEF b, d, t
<1>9. (t \o b) \o d = t \o c /\ (t \o b) \o <<>> = t \o b
  <2>0. IsSeq(t) /\ IsSeq(b) /\ IsSeq(d)
    BY <1>4, <1>8
  <2>1. (t \o b) \o d = t \o (b \o d)
    BY <2>0, CatAssociates
  <2>2. IsSeq(t \o b)
    BY <1>4, <1>8, Cat
  <2>3. (t \o b) \o <<>> = t \o b
    BY <2>2, Cat
  <2> QED BY <1>8, <2>1, <2>3
<1>10. CASE pc' = [pc EXCEPT !["rsp"] = "done"] /\ UNCHANGED <<sent, carry, left>>
  BY <1>0, <1>1, <1>10, EndStep
<1>11. CASE /\ sent' = [sent EXCEPT !["rsp"] = (t \o b) \o (IF raw THEN d ELSE <<>>)]
            /\ carry' = [carry EXCEPT !["rsp"] = IF raw THEN <<>> ELSE d]
            /\ left' = [left EXCEPT !["rsp"] = frame.n]
            /\ pc' = [pc EXCEPT !["rsp"] = IF raw THEN "raw" ELSE frame.kind]
  <2>1. LeftOK'
    BY <1>6, <1>11 DEF IInv, LeftOK
  <2>2. CASE raw
    <3>1. /\ Only("rsp") /\ sent'["rsp"] = t \o c /\ carry'["rsp"] = <<>>
          /\ pc'["rsp"] = "raw" /\ took'["rsp"] = took["rsp"]
      BY <1>0, <1>1, <1>9, <1>11, <2>2, PutAt DEF IInv, FlowOK, Only
    <3>2. Flows("rsp", made["rsp"], took["rsp"], <<>>, t \o c, "raw")
      BY <1>0, <1>7, WritesAll DEF t
    <3> QED BY <1>0, <1>1, <2>1, <3>1, <3>2, PumpMoves
  <2>3. CASE ~ raw
    <3>1. /\ Only("rsp") /\ sent'["rsp"] = t \o b /\ carry'["rsp"] = d
          /\ pc'["rsp"] = frame.kind /\ took'["rsp"] = took["rsp"]
      BY <1>0, <1>1, <1>9, <1>11, <2>3, PutAt DEF IInv, FlowOK, Only
    <3>2. Plain(b) = SubSeq(c, 1, e)
      BY <1>4 DEF b
    <3> HIDE DEF e
    <3>3. Flows("rsp", made["rsp"], took["rsp"], SubSeq(c, e + 1, Len(c)), t \o b, frame.kind)
      BY <1>0, <1>4, <1>7, <2>3, <3>2, Writes DEF t
    <3>4. Flows("rsp", made["rsp"], took["rsp"], d, t \o b, frame.kind)
      BY <3>3 DEF d
    <3> QED BY <1>0, <1>1, <2>1, <3>1, <3>4, PumpMoves
  <2> QED BY <2>2, <2>3
<1> QED BY <1>2, <1>10, <1>11 DEF t, b, d

----------------------------------------------------------------------------
(* The upstream and the client                                             *)

\* What the upstream says comes after what it has said.
LEMMA SaysStep ==
  ASSUME IInv, UNCHANGED <<took, carry, sent, pc, left>>, NEW items, Says(items),
         IsSeq(items), AsMade("rsp", items)
  PROVE  IInv'
<1>1. /\ made' = [made EXCEPT !["rsp"] = made["rsp"] \o items] /\ DOMAIN made = Pumps
      /\ "rsp" \in Pumps /\ IsSeq(made["rsp"]) /\ AsMade("rsp", made["rsp"])
  BY DEF Says, IInv, MadeOK, Pumps
<1>2. /\ made'["rsp"] = made["rsp"] \o items /\ DOMAIN made' = Pumps
      /\ \A q \in Pumps \ {"rsp"} : made'[q] = made[q]
  BY <1>1
<1>3. IsSeq(made'["rsp"]) /\ AsMade("rsp", made'["rsp"])
  BY <1>1, <1>2, Cat, AsMadeCat
<1>4. MadeOK'
  BY <1>2, <1>3 DEF IInv, MadeOK
<1>5. Flows("rsp", made'["rsp"], took["rsp"], carry["rsp"], sent["rsp"], pc["rsp"])
  BY <1>1, <1>2, Grows DEF IInv, FlowOK
<1>6. FlowOK'
  BY <1>2, <1>5 DEF IInv, FlowOK
<1> QED BY <1>4, <1>6 DEF IInv, LeftOK

LEMMA AnswerOK ==
  ASSUME NEW status, NEW length \in SUBSET Nat, NEW chunked, NEW to
  PROVE  ItemOK("rsp", Answer(status, length, chunked, to))
BY DEF ItemOK, Answer

LEMMA OtherItemsOK ==
  /\ ItemOK("rsp", Line) /\ ItemOK("rsp", Data) /\ ItemOK("rsp", Blank)
  /\ \A n \in Nat : ItemOK("rsp", Size(n))
BY DEF ItemOK, Line, Data, Blank, Size

LEMMA SaidOne ==
  ASSUME NEW x, ItemOK("rsp", x)
  PROVE  IsSeq(<<x>>) /\ AsMade("rsp", <<x>>)
<1> DEFINE s == <<x>>
<1>1. s \in Seq({x}) /\ Len(s) = 1 /\ s[1] = x
  OBVIOUS
<1> HIDE DEF s
<1>2. AsMade("rsp", s)
  BY <1>1 DEF AsMade
<1> QED BY <1>1, <1>2, SeqIsSeq DEF s

LEMMA SaidTwo ==
  ASSUME NEW x, NEW y, ItemOK("rsp", x), ItemOK("rsp", y)
  PROVE  IsSeq(<<x, y>>) /\ AsMade("rsp", <<x, y>>)
<1> DEFINE s == <<x, y>>
<1>1. s \in Seq({x, y}) /\ Len(s) = 2 /\ s[1] = x /\ s[2] = y
  OBVIOUS
<1> HIDE DEF s
<1>2. AsMade("rsp", s)
  BY <1>1 DEF AsMade
<1> QED BY <1>1, <1>2, SeqIsSeq DEF s

LEMMA SaidSix ==
  ASSUME NEW x, NEW y, NEW z, NEW u, NEW v, NEW w,
         ItemOK("rsp", x), ItemOK("rsp", y), ItemOK("rsp", z),
         ItemOK("rsp", u), ItemOK("rsp", v), ItemOK("rsp", w)
  PROVE  IsSeq(<<x, y, z, u, v, w>>) /\ AsMade("rsp", <<x, y, z, u, v, w>>)
<1> DEFINE s == <<x, y, z, u, v, w>>
<1>1. /\ s \in Seq({x, y, z, u, v, w}) /\ Len(s) = 6
      /\ s[1] = x /\ s[2] = y /\ s[3] = z /\ s[4] = u /\ s[5] = v /\ s[6] = w
  OBVIOUS
<1> HIDE DEF s
<1>2. AsMade("rsp", s)
  BY <1>1 DEF AsMade
<1> QED BY <1>1, <1>2, SeqIsSeq DEF s

LEMMA AnswersSaid ==
  ASSUME NEW h, NEW id, NEW items \in Answers(h, id)
  PROVE  IsSeq(items) /\ AsMade("rsp", items)
<1> DEFINE one == <<Answer(200, {1}, FALSE, id)>>
           no == <<Answer(400, {1}, FALSE, id), Data>>
           full == <<Answer(200, {1}, FALSE, id), Data>>
           none == <<Line, Answer(204, {}, FALSE, id)>>
           same == <<Answer(304, {1}, FALSE, id)>>
           chunks == <<Answer(200, {}, TRUE, id), Size(1), Data, Blank, Size(0), Blank>>
<1>1. items \in {one, no, full, none, same, chunks}
  <2> HIDE DEF one, no, full, none, same, chunks
  <2>1. Answers(h, id) = CASE h.method = "HEAD" -> {one}
                           [] h.method # "HEAD" /\ Candidate(h) -> {no}
                           [] OTHER -> {full, none, same, chunks}
    BY DEF Answers, one, no, full, none, same, chunks
  <2>2. CASE h.method = "HEAD"
    BY <2>1, <2>2
  <2>3. CASE h.method # "HEAD" /\ Candidate(h)
    BY <2>1, <2>3
  <2>4. CASE h.method # "HEAD" /\ ~ Candidate(h)
    BY <2>1, <2>4
  <2> QED BY <2>2, <2>3, <2>4
<1>0. {1} \in SUBSET Nat /\ {} \in SUBSET Nat
  OBVIOUS
<1>2. /\ ItemOK("rsp", Answer(200, {1}, FALSE, id)) /\ ItemOK("rsp", Answer(400, {1}, FALSE, id))
      /\ ItemOK("rsp", Answer(304, {1}, FALSE, id))
      /\ ItemOK("rsp", Answer(204, {}, FALSE, id)) /\ ItemOK("rsp", Answer(200, {}, TRUE, id))
  BY <1>0, AnswerOK, ZenonT(30)
<1>3. ItemOK("rsp", Size(1)) /\ ItemOK("rsp", Size(0))
  BY OtherItemsOK
<1>4. IsSeq(one) /\ AsMade("rsp", one) /\ IsSeq(same) /\ AsMade("rsp", same)
  BY <1>2, SaidOne
<1>5. IsSeq(no) /\ AsMade("rsp", no) /\ IsSeq(full) /\ AsMade("rsp", full)
  BY <1>2, OtherItemsOK, SaidTwo, ZenonT(30)
<1>6. IsSeq(none) /\ AsMade("rsp", none)
  BY <1>2, OtherItemsOK, SaidTwo
<1>7. IsSeq(chunks) /\ AsMade("rsp", chunks)
  BY <1>2, <1>3, OtherItemsOK, SaidSix
<1> HIDE DEF one, no, full, none, same, chunks
<1> QED BY <1>1, <1>4, <1>5, <1>6, <1>7

\* The states of the pumps stay as they are.
LEMMA QuietStep ==
  ASSUME IInv, UNCHANGED <<made, took, carry, sent, pc, left>>
  PROVE  IInv'
<1>1. MadeOK'
  BY DEF IInv, MadeOK
<1>2. FlowOK'
  BY DEF IInv, FlowOK
<1> QED BY <1>1, <1>2 DEF IInv, LeftOK

LEMMA ServerAnswersStep ==
  ASSUME IInv, ServerAnswers
  PROVE  IInv'
<1>1. UNCHANGED <<took, carry, sent, pc, left>>
  BY DEF ServerAnswers, pumpVars
<1>2. CASE \E items \in Answers(server.head, server.seen) : Says(items)
  BY <1>1, <1>2, AnswersSaid, SaysStep
<1>3. CASE Says(<<Answer(IF server.head.method = "CONNECT" THEN 200 ELSE 101, {}, FALSE,
                         server.seen)>>)
  <2> DEFINE x == Answer(IF server.head.method = "CONNECT" THEN 200 ELSE 101, {}, FALSE,
                         server.seen)
  <2>1. ItemOK("rsp", x)
    BY AnswerOK
  <2> HIDE DEF x
  <2>2. IsSeq(<<x>>) /\ AsMade("rsp", <<x>>)
    BY <2>1, SaidOne
  <2>3. Says(<<x>>)
    BY <1>3 DEF x
  <2> QED BY <1>1, <2>2, <2>3, SaysStep
<1> QED BY <1>2, <1>3 DEF ServerAnswers

LEMMA ServerSaysMoreStep ==
  ASSUME IInv, ServerSaysMore
  PROVE  IInv'
<1>1. UNCHANGED <<took, carry, sent, pc, left>>
  BY DEF ServerSaysMore, pumpVars
<1>2. PICK x \in {Answer(100, {}, FALSE, 0), Answer(0, {}, FALSE, 0), Data} : Says(<<x>>)
  BY DEF ServerSaysMore
<1>3. ItemOK("rsp", x)
  BY AnswerOK, OtherItemsOK
<1> QED BY <1>1, <1>2, <1>3, SaidOne, SaysStep

LEMMA ServerClosesStep ==
  ASSUME IInv, ServerCloses
  PROVE  IInv'
<1>1. UNCHANGED <<took, carry, sent, pc, left>>
  BY DEF ServerCloses, pumpVars
<1>2. CASE UNCHANGED made
  BY <1>1, <1>2, QuietStep
<1>3. CASE Says(<<Answer(408, {0}, FALSE, 0)>>)
  <2>0. {0} \in SUBSET Nat
    OBVIOUS
  <2>1. ItemOK("rsp", Answer(408, {0}, FALSE, 0))
    BY <2>0, AnswerOK
  <2> QED BY <1>1, <1>3, <2>1, SaidOne, SaysStep
<1>4. CASE Says(<<Answer(200, {}, FALSE, server.seen), Data>>)
  <2>1. ItemOK("rsp", Answer(200, {}, FALSE, server.seen)) /\ ItemOK("rsp", Data)
    BY AnswerOK, OtherItemsOK
  <2> QED BY <1>1, <1>4, <2>1, SaidTwo, SaysStep
<1> QED BY <1>2, <1>3, <1>4 DEF ServerCloses

----------------------------------------------------------------------------
(* The theorem                                                             *)

LEMMA InitIInv ==
  ASSUME Init
  PROVE  IInv
<1>0. PICK s \in Scripts : made = [req |-> s, rsp |-> <<>>]
  BY DEF Init
<1>1. /\ DOMAIN made = Pumps /\ made["req"] = s /\ made["rsp"] = <<>>
  BY <1>0 DEF Pumps
<1>2. IsSeq(s) /\ AsMade("req", s)
  BY ScriptsAssumption DEF IsSeq, AsMade, ItemOK
<1>3. IsSeq(<<>>) /\ Len(<<>>) = 0 /\ \A p : AsMade(p, <<>>)
  BY EmptyIsSeq DEF AsMade
<1>4. MadeOK
  BY <1>1, <1>2, <1>3 DEF MadeOK, Pumps
<1>5. ASSUME NEW p \in Pumps
      PROVE  Flows(p, made[p], took[p], carry[p], sent[p], pc[p])
  <2>1. took[p] = 0 /\ carry[p] = <<>> /\ sent[p] = <<>> /\ pc[p] = "head"
    BY DEF Init
  <2> DEFINE m == made[p]
  <2>2. IsSeq(m) /\ Len(m) \in Nat
    BY <1>4, SeqFacts DEF MadeOK
  <2>3. SubSeq(m, 0 + 1, Len(m)) = m
    BY <2>2, SubSeqFull DEF IsSeq
  <2>4. Plain(<<>>) = <<>>
    BY <1>3, PlainAsMade
  <2>5. (<<>> \o <<>>) \o m = m
    BY <1>3, <2>2, Cat
  <2>6. 0 \in 0 .. Len(m) /\ "head" \in Modes
    BY <2>2 DEF Modes
  <2> HIDE DEF m
  <2>7. Flows(p, m, 0, <<>>, <<>>, "head")
    BY <1>3, <2>3, <2>4, <2>5, <2>6 DEF Flows
  <2> QED BY <2>1, <2>7 DEF m
<1>6. FlowOK /\ LeftOK
  BY <1>5 DEF Init, FlowOK, LeftOK
<1> QED BY <1>4, <1>6 DEF IInv

LEMMA StepIInv ==
  ASSUME IInv, [Next]_vars
  PROVE  IInv'
<1>0. "req" \in Pumps /\ "rsp" \in Pumps
  BY DEF Pumps
<1>1. CASE UNCHANGED vars
  BY <1>1, QuietStep DEF vars, pumpVars
<1>2. CASE RequestPump
  <2>1. CASE RefuseRequest
    BY <1>0, <2>1, EndStep DEF RefuseRequest, End
  <2> QED BY <1>0, <1>2, <2>1, PumpStep, ForwardRequestStep, VerdictStep DEF RequestPump
<1>3. CASE ResponsePump
  <2>1. CASE Unparsable \/ AnswerToNothing
    BY <1>0, <2>1, EndStep DEF Unparsable, AnswerToNothing, End
  <2> QED BY <1>0, <1>3, <2>1, PumpStep, ForwardInterimStep, MatchAnswerStep DEF ResponsePump
<1>4. CASE \E p \in Pumps : ReadFails(p) \/ WriteFails(p)
  BY <1>4, EndStep DEF ReadFails, WriteFails, End
<1>5. CASE ServerReads \/ ClientCloses
  BY <1>5, QuietStep DEF ServerReads, ClientCloses, pumpVars
<1> QED BY <1>1, <1>2, <1>3, <1>4, <1>5, ServerAnswersStep, ServerSaysMoreStep,
           ServerClosesStep DEF Next

\* proxy_http1_rewriting (http_proxy.rs) loses, repeats and reorders nothing: in both
\* directions what a pump has written, what it holds and what it has not read are the
\* stream its peer sent, whatever the peers send, however reads cut it, whenever a pump
\* turns from framing to copying a tunnel or a body to its end, and wherever it fails.
THEOREM StreamIntactAlways == Spec => []StreamIntact
<1>1. Init => IInv
  BY InitIInv
<1>2. IInv /\ [Next]_vars => IInv'
  BY StepIInv
<1>3. IInv => StreamIntact
  BY DEF IInv, FlowOK, Flows, StreamIntact, Unread, Modes
<1> QED BY <1>1, <1>2, <1>3, PTL DEF Spec

============================================================================
