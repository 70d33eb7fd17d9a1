-------------------------- MODULE ConversationProofs --------------------------
(***************************************************************************)
(* Proofs about the scanner and the conversation around it, for every text *)
(* a model may generate, every cut of it into chunks and every history.    *)
(* Reading a text in one piece is defined by recursion on the text; what   *)
(* the scanner has delivered is compared with it whatever text may follow, *)
(* which is what makes the invariant inductive: a scanner does not know    *)
(* what the next chunk holds.                                              *)
(***************************************************************************)
EXTENDS Conversation, SequenceTheorems, WellFoundedInduction, TLAPS

\* The least-number principle, for a set.
LEMMA Least ==
  ASSUME NEW T, T \subseteq Nat, T # {}
  PROVE  \E n \in T : \A m \in T : n <= m
<1>1. IsWellFoundedOn(OpToRel(<, Nat), Nat)
  BY NatLessThanWellFounded
<1>2. PICK n \in T : \A m \in T : <<m, n>> \notin OpToRel(<, Nat)
  BY <1>1, WFMin
<1>3. \A m \in T : ~ (m < n)
  BY <1>2 DEF OpToRel
<1> QED
  BY <1>3

-----------------------------------------------------------------------------
\* Texts, their tails and where a tag occurs in them.
AllTexts == Seq(Characters)
Tags == {OpenThink, CloseThink, OpenTool, CloseTool}

LEMMA KeptText ==
  ASSUME NEW S, NEW s \in Seq(S), NEW n \in 0..Len(s)
  PROVE  /\ Kept(s, n) \in Seq(S) /\ Len(Kept(s, n)) = Len(s) - n
         /\ \A i \in 1..(Len(s) - n) : Kept(s, n)[i] = s[n + i]
<1>1. Len(s) \in Nat /\ \A i \in (n + 1)..Len(s) : s[i] \in S
  BY LenProperties, ElementOfSeq
<1>2. /\ Kept(s, n) \in Seq(S)
      /\ Len(Kept(s, n)) = IF n + 1 <= Len(s) THEN Len(s) - (n + 1) + 1 ELSE 0
      /\ \A i \in 1..(Len(s) - (n + 1) + 1) : Kept(s, n)[i] = s[n + 1 + i - 1]
  BY <1>1, SubSeqProperties DEF Kept
<1> QED
  BY <1>1, <1>2

LEMMA FrontText ==
  ASSUME NEW S, NEW s \in Seq(S), NEW n \in 0..Len(s)
  PROVE  /\ SubSeq(s, 1, n) \in Seq(S) /\ Len(SubSeq(s, 1, n)) = n
         /\ \A i \in 1..n : SubSeq(s, 1, n)[i] = s[i]
<1>1. Len(s) \in Nat /\ \A i \in 1..n : s[i] \in S
  BY LenProperties, ElementOfSeq
<1>2. /\ SubSeq(s, 1, n) \in Seq(S)
      /\ Len(SubSeq(s, 1, n)) = IF 1 <= n THEN n - 1 + 1 ELSE 0
      /\ \A i \in 1..(n - 1 + 1) : SubSeq(s, 1, n)[i] = s[1 + i - 1]
  BY <1>1, SubSeqProperties
<1> QED
  BY <1>1, <1>2

\* The front and the tail make the whole.
LEMMA FrontAndKept ==
  ASSUME NEW S, NEW s \in Seq(S), NEW n \in 0..Len(s)
  PROVE  SubSeq(s, 1, n) \o Kept(s, n) = s
<1> DEFINE a == SubSeq(s, 1, n)
           b == Kept(s, n)
<1>1. a \in Seq(S) /\ Len(a) = n /\ \A i \in 1..n : a[i] = s[i]
  BY FrontText
<1>2. b \in Seq(S) /\ Len(b) = Len(s) - n /\ \A i \in 1..(Len(s) - n) : b[i] = s[n + i]
  BY KeptText
<1>3. Len(s) \in Nat
  BY LenProperties
<1> HIDE DEF a, b
<1>4. /\ a \o b \in Seq(S) /\ Len(a \o b) = n + (Len(s) - n)
      /\ \A i \in 1..(n + (Len(s) - n)) : (a \o b)[i] = IF i <= n THEN a[i] ELSE b[i - n]
  BY <1>1, <1>2, ConcatProperties
<1>5. ASSUME NEW i \in 1..Len(s) PROVE (a \o b)[i] = s[i]
  <2>1. CASE i <= n
    BY <1>1, <1>3, <1>4, <2>1
  <2>2. CASE i > n
    <3>1. i - n \in 1..(Len(s) - n) /\ n + (i - n) = i
      BY <1>3, <2>2
    <3> QED
      BY <1>2, <1>3, <1>4, <2>2, <3>1
  <2>3. i <= n \/ i > n
    BY <1>3
  <2> QED
    BY <2>1, <2>2, <2>3
<1>6. Len(a \o b) = Len(s)
  BY <1>3, <1>4
<1>7. a \o b = s
  BY <1>4, <1>5, <1>6, SeqEqual
<1> QED
  BY <1>7 DEF a, b

\* The tail of a tail, and of a text that goes on.
LEMMA KeptKept ==
  ASSUME NEW S, NEW s \in Seq(S), NEW n \in 0..Len(s), NEW k \in 0..(Len(s) - n)
  PROVE  Kept(Kept(s, n), k) = Kept(s, n + k)
<1>1. Len(s) \in Nat /\ n + k \in 0..Len(s)
  BY LenProperties
<1> DEFINE a == Kept(s, n)
           b == Kept(a, k)
           d == Kept(s, n + k)
<1>2. a \in Seq(S) /\ Len(a) = Len(s) - n /\ \A i \in 1..(Len(s) - n) : a[i] = s[n + i]
  BY KeptText
<1>3. d \in Seq(S) /\ Len(d) = Len(s) - (n + k) /\ \A i \in 1..(Len(s) - (n + k)) : d[i] = s[n + k + i]
  BY <1>1, KeptText
<1> HIDE DEF a, d
<1>a. k \in 0..Len(a)
  BY <1>2
<1>4. b \in Seq(S) /\ Len(b) = Len(a) - k /\ \A i \in 1..(Len(a) - k) : b[i] = a[k + i]
  BY <1>2, <1>a, KeptText
<1> HIDE DEF b
<1>5. ASSUME NEW i \in 1..Len(b) PROVE b[i] = d[i]
  <2>1. /\ i \in 1..(Len(a) - k) /\ k + i \in 1..(Len(s) - n) /\ i \in 1..(Len(s) - (n + k))
        /\ n + (k + i) = n + k + i
    BY <1>1, <1>2, <1>4
  <2> QED
    BY <1>2, <1>3, <1>4, <2>1
<1>6. Len(b) = Len(d)
  BY <1>1, <1>2, <1>3, <1>4
<1>7. b = d
  BY <1>3, <1>4, <1>5, <1>6, SeqEqual
<1> QED
  BY <1>7 DEF a, b, d

LEMMA KeptConcat ==
  ASSUME NEW S, NEW s \in Seq(S), NEW t \in Seq(S), NEW n \in 0..Len(s)
  PROVE  Kept(s \o t, n) = Kept(s, n) \o t
<1>1. Len(s) \in Nat /\ Len(t) \in Nat
  BY LenProperties
<1> DEFINE w == s \o t
           a == Kept(s, n)
           b == a \o t
           d == Kept(w, n)
<1>2. /\ w \in Seq(S) /\ Len(w) = Len(s) + Len(t)
      /\ \A i \in 1..(Len(s) + Len(t)) : w[i] = IF i <= Len(s) THEN s[i] ELSE t[i - Len(s)]
  BY ConcatProperties
<1>3. a \in Seq(S) /\ Len(a) = Len(s) - n /\ \A i \in 1..(Len(s) - n) : a[i] = s[n + i]
  BY KeptText
<1> HIDE DEF w, a
<1>4. /\ b \in Seq(S) /\ Len(b) = Len(a) + Len(t)
      /\ \A i \in 1..(Len(a) + Len(t)) : b[i] = IF i <= Len(a) THEN a[i] ELSE t[i - Len(a)]
  BY <1>3, ConcatProperties
<1>5. n \in 0..Len(w)
  BY <1>1, <1>2
<1>6. d \in Seq(S) /\ Len(d) = Len(w) - n /\ \A i \in 1..(Len(w) - n) : d[i] = w[n + i]
  BY <1>2, <1>5, KeptText
<1> HIDE DEF b, d
<1>7. ASSUME NEW i \in 1..Len(d) PROVE d[i] = b[i]
  <2>1. i \in 1..(Len(w) - n) /\ n + i \in 1..(Len(s) + Len(t)) /\ i \in 1..(Len(a) + Len(t))
    BY <1>1, <1>2, <1>3, <1>6
  <2>2. d[i] = w[n + i]
    BY <1>6, <2>1
  <2>3. CASE i <= Len(a)
    <3>1. i \in 1..(Len(s) - n) /\ n + i <= Len(s)
      BY <1>1, <1>3, <2>1, <2>3
    <3> QED
      BY <1>2, <1>3, <1>4, <2>1, <2>2, <2>3, <3>1
  <2>4. CASE i > Len(a)
    <3>1. ~ (n + i <= Len(s)) /\ ~ (i <= Len(a)) /\ (n + i) - Len(s) = i - Len(a)
      BY <1>1, <1>3, <2>1, <2>4
    <3> QED
      BY <1>2, <1>4, <2>1, <2>2, <3>1
  <2> QED
    BY <1>1, <1>3, <2>1, <2>3, <2>4
<1>8. Len(d) = Len(b)
  BY <1>1, <1>2, <1>3, <1>4, <1>6
<1>9. d = b
  BY <1>4, <1>6, <1>7, <1>8, SeqEqual
<1> QED
  BY <1>9 DEF a, b, d, w

-----------------------------------------------------------------------------
\* A tag starts with "<" and has no other: no two tags overlap in a text.
LEMMA TagShape ==
  ASSUME NEW t \in Tags
  PROVE  /\ t \in AllTexts /\ Len(t) \in 2..4
         /\ t[1] = "<" /\ \A k \in 2..Len(t) : t[k] # "<"
<1>1. CASE t = OpenThink
  BY <1>1 DEF OpenThink, AllTexts, Characters
<1>2. CASE t = CloseThink
  BY <1>2 DEF CloseThink, AllTexts, Characters
<1>3. CASE t = OpenTool
  BY <1>3 DEF OpenTool, AllTexts, Characters
<1>4. CASE t = CloseTool
  BY <1>4 DEF CloseTool, AllTexts, Characters
<1> QED
  BY <1>1, <1>2, <1>3, <1>4 DEF Tags

LEMMA TagsOfModes ==
  ASSUME NEW m \in Modes
  PROVE  /\ TagsOf(m) \subseteq Tags
         /\ m = "ToolCall" <=> CloseTool \in TagsOf(m)
         /\ m = "ToolCall" => TagsOf(m) = {CloseTool}
         /\ \A t \in TagsOf(m) : ModeAfter(t) \in Modes
         /\ TagsOf(m) # {}
<1>1. CASE m = "Text"
  BY <1>1 DEF TagsOf, Tags, OpenThink, OpenTool, CloseTool, ModeAfter, Modes
<1>2. CASE m = "Thinking"
  BY <1>2 DEF TagsOf, Tags, CloseThink, CloseTool, ModeAfter, Modes
<1>3. CASE m = "ToolCall"
  BY <1>3 DEF TagsOf, Tags, CloseTool, ModeAfter, Modes
<1> QED
  BY <1>1, <1>2, <1>3 DEF Modes

\* A tag occurs at a place when the characters from there on are its own.
LEMMA OccursAt ==
  ASSUME NEW t \in Tags, NEW s \in AllTexts, NEW i \in Nat \ {0}
  PROVE  Occurs(t, s, i) <=> /\ i + Len(t) - 1 <= Len(s)
                             /\ \A k \in 1..Len(t) : s[i + k - 1] = t[k]
<1>1. t \in AllTexts /\ Len(t) \in 2..4 /\ Len(s) \in Nat
  BY TagShape, LenProperties DEF AllTexts
<1> DEFINE j == i + Len(t) - 1
           u == SubSeq(s, i, j)
<1>2. CASE j <= Len(s)
  <2>1. j \in Int /\ \A k \in i..j : s[k] \in Characters
    BY <1>1, <1>2, ElementOfSeq DEF AllTexts
  <2>2. /\ u \in Seq(Characters)
        /\ Len(u) = IF i <= j THEN j - i + 1 ELSE 0
        /\ \A k \in 1..(j - i + 1) : u[k] = s[i + k - 1]
    BY <2>1, SubSeqProperties
  <2>3. j - i + 1 = Len(t) /\ i <= j
    BY <1>1
  <2> HIDE DEF u
  <2>4. Len(u) = Len(t) /\ \A k \in 1..Len(t) : u[k] = s[i + k - 1]
    BY <2>2, <2>3
  <2>5. u = t <=> \A k \in 1..Len(t) : u[k] = t[k]
    BY <1>1, <2>2, <2>4, SeqEqual DEF AllTexts
  <2>6. Occurs(t, s, i) <=> u = t
    BY <1>2 DEF Occurs, u
  <2> QED
    BY <1>2, <2>4, <2>5, <2>6
<1>3. CASE ~ (j <= Len(s))
  BY <1>3 DEF Occurs
<1> QED
  BY <1>2, <1>3

\* No mode looks for two tags that can start at the same place.
LEMMA TagsDiffer ==
  ASSUME NEW m \in Modes, NEW t \in TagsOf(m), NEW u \in TagsOf(m),
         NEW s \in AllTexts, NEW i \in Nat \ {0}, Occurs(t, s, i), Occurs(u, s, i)
  PROVE  t = u
<1>1. CASE m = "Text"
  <2>1. ASSUME OpenThink \in {t, u}, OpenTool \in {t, u} PROVE FALSE
    <3>1. OpenThink \in Tags /\ OpenTool \in Tags
      BY DEF Tags
    <3>2. Occurs(OpenThink, s, i) /\ Occurs(OpenTool, s, i)
      BY <2>1
    <3>3. /\ \A k \in 1..Len(OpenThink) : s[i + k - 1] = OpenThink[k]
          /\ \A k \in 1..Len(OpenTool) : s[i + k - 1] = OpenTool[k]
      BY <3>1, <3>2, OccursAt
    <3>4. s[i + 3 - 1] = "h" /\ s[i + 3 - 1] = "o"
      BY <3>3 DEF OpenThink, OpenTool
    <3> QED
      BY <3>4
  <2> QED
    BY <1>1, <2>1 DEF TagsOf
<1>2. CASE m = "Thinking"
  BY <1>2 DEF TagsOf
<1>3. CASE m = "ToolCall"
  BY <1>3 DEF TagsOf
<1> QED
  BY <1>1, <1>2, <1>3 DEF Modes

\* Where a tag occurs in the rest of a text, and in a text that goes on.
LEMMA OccursKept ==
  ASSUME NEW t \in Tags, NEW s \in AllTexts, NEW n \in 0..Len(s), NEW i \in Nat \ {0}
  PROVE  Occurs(t, Kept(s, n), i) <=> Occurs(t, s, n + i)
<1>1. Len(s) \in Nat /\ n \in Nat /\ n + i \in Nat \ {0}
  BY LenProperties DEF AllTexts
<1>2. Len(t) \in 2..4
  BY TagShape
<1> DEFINE a == Kept(s, n)
<1>3. a \in AllTexts /\ Len(a) = Len(s) - n /\ \A k \in 1..(Len(s) - n) : a[k] = s[n + k]
  BY KeptText DEF AllTexts
<1> HIDE DEF a
<1>4. Occurs(t, a, i) <=> i + Len(t) - 1 <= Len(a) /\ \A k \in 1..Len(t) : a[i + k - 1] = t[k]
  BY <1>3, OccursAt
<1>5. Occurs(t, s, n + i) <=>
        n + i + Len(t) - 1 <= Len(s) /\ \A k \in 1..Len(t) : s[n + i + k - 1] = t[k]
  BY <1>1, OccursAt
<1>6. i + Len(t) - 1 <= Len(a) <=> n + i + Len(t) - 1 <= Len(s)
  BY <1>1, <1>2, <1>3
<1>7. ASSUME i + Len(t) - 1 <= Len(a), NEW k \in 1..Len(t)
      PROVE  a[i + k - 1] = s[n + i + k - 1]
  <2>1. i + k - 1 \in 1..(Len(s) - n) /\ n + (i + k - 1) = n + i + k - 1
    BY <1>1, <1>2, <1>3, <1>7
  <2> QED
    BY <1>3, <2>1
<1>8. Occurs(t, a, i) <=> Occurs(t, s, n + i)
  BY <1>4, <1>5, <1>6, <1>7
<1> QED
  BY <1>8 DEF a

LEMMA OccursConcat ==
  ASSUME NEW t \in Tags, NEW s \in AllTexts, NEW w \in AllTexts, NEW i \in Nat \ {0},
         i + Len(t) - 1 <= Len(s)
  PROVE  Occurs(t, s \o w, i) <=> Occurs(t, s, i)
<1>1. Len(s) \in Nat /\ Len(w) \in Nat /\ Len(t) \in 2..4
  BY TagShape, LenProperties DEF AllTexts
<1> DEFINE a == s \o w
<1>2. /\ a \in AllTexts /\ Len(a) = Len(s) + Len(w)
      /\ \A k \in 1..(Len(s) + Len(w)) : a[k] = IF k <= Len(s) THEN s[k] ELSE w[k - Len(s)]
  BY ConcatProperties DEF AllTexts
<1> HIDE DEF a
<1>3. Occurs(t, a, i) <=> i + Len(t) - 1 <= Len(a) /\ \A k \in 1..Len(t) : a[i + k - 1] = t[k]
  BY <1>2, OccursAt
<1>4. Occurs(t, s, i) <=> i + Len(t) - 1 <= Len(s) /\ \A k \in 1..Len(t) : s[i + k - 1] = t[k]
  BY OccursAt
<1>5. ASSUME NEW k \in 1..Len(t) PROVE a[i + k - 1] = s[i + k - 1]
  <2>1. i + k - 1 \in 1..(Len(s) + Len(w)) /\ i + k - 1 <= Len(s)
    BY <1>1
  <2> QED
    BY <1>2, <2>1
<1>6. i + Len(t) - 1 <= Len(a)
  BY <1>1, <1>2
<1>7. Occurs(t, a, i) <=> Occurs(t, s, i)
  BY <1>3, <1>4, <1>5, <1>6
<1> QED
  BY <1>7 DEF a

\* A tag that occurs before another one ends before it.
LEMMA NoOverlap ==
  ASSUME NEW t \in Tags, NEW u \in Tags, NEW s \in AllTexts,
         NEW i \in Nat \ {0}, NEW j \in Nat \ {0}, j < i,
         Occurs(t, s, i), Occurs(u, s, j)
  PROVE  j + Len(u) - 1 < i
<1>1. /\ Len(u) \in 2..4 /\ Len(t) \in 2..4 /\ t[1] = "<"
      /\ \A k \in 2..Len(u) : u[k] # "<"
  BY TagShape
<1>2. s[i] = "<"
  <2>1. 1 \in 1..Len(t) /\ i + 1 - 1 = i
    BY <1>1
  <2> QED
    BY <1>1, <2>1, OccursAt
<1>3. \A k \in 1..Len(u) : s[j + k - 1] = u[k]
  BY OccursAt
<1>4. SUFFICES ASSUME j + Len(u) - 1 >= i PROVE FALSE
  BY <1>1
<1>5. i - j + 1 \in 2..Len(u) /\ j + (i - j + 1) - 1 = i /\ i - j + 1 \in 1..Len(u)
  BY <1>1, <1>4
<1> QED
  BY <1>1, <1>2, <1>3, <1>5, SMTT(30)

\* Find is the first place.
LEMMA FindProperties ==
  ASSUME NEW t \in Tags, NEW s \in AllTexts, Has(t, s)
  PROVE  /\ Find(t, s) \in 1..Len(s) /\ Occurs(t, s, Find(t, s))
         /\ \A j \in 1..(Find(t, s) - 1) : ~ Occurs(t, s, j)
<1> DEFINE T == {i \in 1..Len(s) : Occurs(t, s, i)}
<1>1. T \subseteq Nat /\ T # {}
  BY LenProperties DEF AllTexts, Has
<1>2. PICK i \in T : \A j \in T : i <= j
  <2> HIDE DEF T
  <2> QED
    BY <1>1, Least
<1>3. \A j \in 1..(i - 1) : j \in 1..Len(s) /\ ~ (i <= j)
  BY LenProperties DEF AllTexts
<1>4. i \in 1..Len(s) /\ Occurs(t, s, i) /\ \A j \in 1..(i - 1) : ~ Occurs(t, s, j)
  BY <1>2, <1>3
<1> QED
  BY <1>4 DEF Find

LEMMA FindIs ==
  ASSUME NEW t \in Tags, NEW s \in AllTexts, NEW i \in 1..Len(s), Occurs(t, s, i),
         \A j \in 1..(i - 1) : ~ Occurs(t, s, j)
  PROVE  Has(t, s) /\ Find(t, s) = i
<1>1. Has(t, s)
  BY DEF Has
<1>2. /\ Find(t, s) \in 1..Len(s) /\ Occurs(t, s, Find(t, s))
      /\ \A j \in 1..(Find(t, s) - 1) : ~ Occurs(t, s, j)
  BY <1>1, FindProperties
<1>3. ~ (Find(t, s) < i) /\ ~ (i < Find(t, s))
  <2>1. Len(s) \in Nat
    BY LenProperties DEF AllTexts
  <2>2. ASSUME Find(t, s) < i PROVE FALSE
    <3>1. Find(t, s) \in 1..(i - 1)
      BY <1>2, <2>1, <2>2
    <3> QED
      BY <1>2, <3>1
  <2>3. ASSUME i < Find(t, s) PROVE FALSE
    <3>1. i \in 1..(Find(t, s) - 1)
      BY <1>2, <2>1, <2>3
    <3> QED
      BY <1>2, <3>1
  <2> QED
    BY <2>2, <2>3
<1>4. Find(t, s) = i
  BY <1>2, <1>3, LenProperties DEF AllTexts
<1> QED
  BY <1>1, <1>4

\* What stands before a tag and what comes after it.
LEMMA AroundTag ==
  ASSUME NEW t \in Tags, NEW s \in AllTexts, Has(t, s)
  PROVE  /\ Find(t, s) - 1 \in 0..Len(s) /\ Find(t, s) + Len(t) - 1 \in 1..Len(s)
         /\ After(t, s) = Kept(s, Find(t, s) + Len(t) - 1)
         /\ Before(t, s) \in AllTexts /\ After(t, s) \in AllTexts
         /\ Len(After(t, s)) < Len(s)
<1> DEFINE i == Find(t, s)
           n == i + Len(t) - 1
<1>1. i \in 1..Len(s) /\ Occurs(t, s, i)
  BY FindProperties
<1>2. Len(t) \in 2..4 /\ Len(s) \in Nat
  BY TagShape, LenProperties DEF AllTexts
<1>3. n <= Len(s)
  BY <1>1 DEF Occurs
<1> HIDE DEF i
<1>4. i - 1 \in 0..Len(s) /\ n \in 1..Len(s) /\ n \in 0..Len(s) /\ n + 1 = i + Len(t)
  BY <1>1, <1>2, <1>3, SMTT(30)
<1>5. After(t, s) = Kept(s, n)
  BY <1>4 DEF After, Kept, i
<1> HIDE DEF n
<1>6. Kept(s, n) \in AllTexts /\ Len(Kept(s, n)) = Len(s) - n
  BY <1>4, KeptText DEF AllTexts
<1>7. SubSeq(s, 1, i - 1) \in AllTexts
  BY <1>4, FrontText DEF AllTexts
<1>8. Before(t, s) \in AllTexts
  BY <1>7 DEF Before, i
<1>9. Len(s) - n < Len(s)
  BY <1>2, <1>4
<1> QED
  BY <1>4, <1>5, <1>6, <1>8, <1>9 DEF i, n

-----------------------------------------------------------------------------
\* Reading is a recursion on the length of the text: there is one function
\* that satisfies its definition.
Ending(s, m) == s = <<>> \/ (m = "ToolCall" /\ ~ Has(CloseTool, s))
Here(s, m) == {t \in TagsOf(m) : Occurs(t, s, 1)}
TagHere(s, m) == CHOOSE t \in Here(s, m) : TRUE

ReadAt(f, s) ==
  [m \in Modes |->
     IF Ending(s, m) THEN <<>>
     ELSE IF m = "ToolCall" THEN
       <<Call(Before(CloseTool, s))>> \o f[After(CloseTool, s)]["Text"]
     ELSE IF Here(s, m) = {} THEN <<<<m, s[1]>>>> \o f[Kept(s, 1)][m]
     ELSE Opened(TagHere(s, m)) \o f[Kept(s, Len(TagHere(s, m)))][ModeAfter(TagHere(s, m))]]

LEMMA ShorterRests ==
  ASSUME NEW s \in AllTexts, s # <<>>
  PROVE  /\ Kept(s, 1) \in AllTexts /\ Len(Kept(s, 1)) < Len(s)
         /\ \A t \in Tags : Occurs(t, s, 1) =>
              /\ Len(t) \in 0..Len(s)
              /\ Kept(s, Len(t)) \in AllTexts /\ Len(Kept(s, Len(t))) < Len(s)
<1>1. Len(s) \in Nat /\ 1 \in 0..Len(s)
  <2>1. Len(s) \in Nat /\ Len(s) # 0
    BY LenProperties, EmptySeq DEF AllTexts
  <2> QED
    BY <2>1
<1>2. Kept(s, 1) \in AllTexts /\ Len(Kept(s, 1)) = Len(s) - 1
  BY <1>1, KeptText DEF AllTexts
<1>3. ASSUME NEW t \in Tags, Occurs(t, s, 1)
      PROVE  /\ Len(t) \in 0..Len(s)
             /\ Kept(s, Len(t)) \in AllTexts /\ Len(Kept(s, Len(t))) < Len(s)
  <2>1. Len(t) \in 2..4 /\ 1 + Len(t) - 1 <= Len(s)
    BY <1>3, TagShape DEF Occurs
  <2>2. Len(t) \in 0..Len(s)
    BY <1>1, <2>1
  <2>3. Kept(s, Len(t)) \in AllTexts /\ Len(Kept(s, Len(t))) = Len(s) - Len(t)
    BY <2>2, KeptText DEF AllTexts
  <2>4. Len(t) \in Nat \ {0}
    BY <2>1
  <2>5. Len(s) - Len(t) < Len(s)
    BY <1>1, <2>4
  <2> QED
    BY <2>2, <2>3, <2>5
<1>4. Len(s) - 1 < Len(s)
  BY <1>1
<1> QED
  BY <1>2, <1>3, <1>4

LEMMA ReadDepends ==
  ASSUME NEW f, NEW g, NEW s \in AllTexts,
         \A r \in AllTexts : Len(r) < Len(s) => f[r] = g[r]
  PROVE  ReadAt(f, s) = ReadAt(g, s)
<1> DEFINE A(h, m) == <<Call(Before(CloseTool, s))>> \o h[After(CloseTool, s)]["Text"]
           B(h, m) == <<<<m, s[1]>>>> \o h[Kept(s, 1)][m]
           C(h, m) == Opened(TagHere(s, m)) \o h[Kept(s, Len(TagHere(s, m)))][ModeAfter(TagHere(s, m))]
           D(h, m) == IF Ending(s, m) THEN <<>>
                      ELSE IF m = "ToolCall" THEN A(h, m)
                      ELSE IF Here(s, m) = {} THEN B(h, m) ELSE C(h, m)
<1>1. ASSUME NEW m \in Modes, ~ Ending(s, m), m = "ToolCall" PROVE A(f, m) = A(g, m)
  <2>1. Has(CloseTool, s) /\ CloseTool \in Tags
    BY <1>1 DEF Ending, Tags
  <2>2. After(CloseTool, s) \in AllTexts /\ Len(After(CloseTool, s)) < Len(s)
    BY <2>1, AroundTag
  <2> QED
    BY <2>2
<1>2. ASSUME NEW m \in Modes, ~ Ending(s, m) PROVE B(f, m) = B(g, m)
  <2>1. Kept(s, 1) \in AllTexts /\ Len(Kept(s, 1)) < Len(s)
    BY <1>2, ShorterRests DEF Ending
  <2> QED
    BY <2>1
<1>3. ASSUME NEW m \in Modes, ~ Ending(s, m), Here(s, m) # {} PROVE C(f, m) = C(g, m)
  <2> DEFINE t == TagHere(s, m)
  <2>1. t \in TagsOf(m) /\ Occurs(t, s, 1)
    BY <1>3 DEF TagHere, Here
  <2>2. t \in Tags
    BY <2>1, TagsOfModes
  <2> HIDE DEF t
  <2>3. Kept(s, Len(t)) \in AllTexts /\ Len(Kept(s, Len(t))) < Len(s)
    BY <1>3, <2>1, <2>2, ShorterRests DEF Ending
  <2>4. f[Kept(s, Len(t))] = g[Kept(s, Len(t))]
    BY <2>3
  <2> QED
    BY <2>4 DEF t
<1> HIDE DEF A, B, C
<1>4. \A m \in Modes : D(f, m) = D(g, m)
  BY <1>1, <1>2, <1>3
<1>5. ReadAt(f, s) = [m \in Modes |-> D(f, m)] /\ ReadAt(g, s) = [m \in Modes |-> D(g, m)]
  BY DEF ReadAt, A, B, C
<1> HIDE DEF D
<1> QED
  BY <1>4, <1>5

\* A function that reads every text up to a length.
ReadsUpTo(f, n) == \A s \in AllTexts : Len(s) <= n => f[s] = ReadAt(f, s)

LEMMA ReadUnique ==
  ASSUME NEW f, NEW g, NEW n \in Nat, NEW k \in Nat, ReadsUpTo(f, n), ReadsUpTo(g, k),
         NEW s \in AllTexts, Len(s) <= n, Len(s) <= k
  PROVE  f[s] = g[s]
<1> DEFINE T == {l \in Nat : \E r \in AllTexts :
                   Len(r) = l /\ Len(r) <= n /\ Len(r) <= k /\ f[r] # g[r]}
<1>1. SUFFICES ASSUME T # {} PROVE FALSE
  <2>1. Len(s) \in Nat
    BY LenProperties DEF AllTexts
  <2> QED
    BY <1>1, <2>1
<1>2. PICK l \in T : \A j \in T : l <= j
  <2>1. T \subseteq Nat
    OBVIOUS
  <2> HIDE DEF T
  <2> QED
    BY <1>1, <2>1, Least
<1>3. PICK r \in AllTexts : Len(r) = l /\ Len(r) <= n /\ Len(r) <= k /\ f[r] # g[r]
  BY <1>2
<1>4. ASSUME NEW q \in AllTexts, Len(q) < Len(r) PROVE f[q] = g[q]
  <2>1. Len(q) \in Nat /\ Len(r) \in Nat
    BY LenProperties DEF AllTexts
  <2>2. Len(q) <= n /\ Len(q) <= k /\ ~ (l <= Len(q))
    BY <1>3, <1>4, <2>1
  <2>3. Len(q) \notin T
    <3> HIDE DEF T
    <3> QED
      BY <1>2, <2>2
  <2> QED
    BY <2>1, <2>2, <2>3
<1>5. f[r] = ReadAt(f, r) /\ g[r] = ReadAt(g, r)
  BY <1>3 DEF ReadsUpTo
<1>6. ReadAt(f, r) = ReadAt(g, r)
  BY <1>4, ReadDepends
<1> QED
  BY <1>3, <1>5, <1>6

LEMMA ReadExists ==
  ASSUME NEW n \in Nat
  PROVE  \E f : ReadsUpTo(f, n)
<1> DEFINE T == {l \in Nat : ~ \E f : ReadsUpTo(f, l)}
<1>1. SUFFICES ASSUME T # {} PROVE FALSE
  BY <1>1
<1>2. PICK l \in T : \A j \in T : l <= j
  <2>1. T \subseteq Nat
    OBVIOUS
  <2> HIDE DEF T
  <2> QED
    BY <1>1, <2>1, Least
<1>3. \E g : \A q \in AllTexts : Len(q) < l => g[q] = ReadAt(g, q)
  <2>1. CASE l = 0
    <3>1. \A q \in AllTexts : ~ (Len(q) < l)
      BY <2>1, LenProperties DEF AllTexts
    <3> QED
      BY <3>1
  <2>2. CASE l # 0
    <3>1. l - 1 \in Nat /\ ~ (l <= l - 1)
      BY <1>2, <2>2
    <3>2. l - 1 \notin T
      <4> HIDE DEF T
      <4> QED
        BY <1>2, <3>1
    <3>3. PICK g : ReadsUpTo(g, l - 1)
      BY <3>1, <3>2
    <3>4. \A q \in AllTexts : Len(q) < l => Len(q) <= l - 1
      BY <1>2, <3>1, LenProperties DEF AllTexts
    <3> QED
      BY <3>3, <3>4 DEF ReadsUpTo
  <2> QED
    BY <2>1, <2>2
<1>4. PICK g : \A q \in AllTexts : Len(q) < l => g[q] = ReadAt(g, q)
  BY <1>3
<1> DEFINE f == [s \in AllTexts |-> ReadAt(g, s)]
<1>5. \A s \in AllTexts : f[s] = ReadAt(g, s)
  OBVIOUS
<1> HIDE DEF f
<1>6. ASSUME NEW s \in AllTexts, Len(s) <= l PROVE f[s] = ReadAt(f, s)
  <2>1. ASSUME NEW q \in AllTexts, Len(q) < Len(s) PROVE g[q] = f[q]
    <3>1. Len(q) < l
      BY <1>2, <1>6, <2>1, LenProperties DEF AllTexts
    <3> QED
      BY <1>4, <1>5, <3>1
  <2>2. ReadAt(g, s) = ReadAt(f, s)
    BY <2>1, ReadDepends
  <2> QED
    BY <1>5, <2>2
<1>7. ReadsUpTo(f, l)
  BY <1>6 DEF ReadsUpTo
<1> QED
  BY <1>2, <1>7

LEMMA ReadingDefined == Reading = [s \in AllTexts |-> ReadAt(Reading, s)]
<1> DEFINE G(n) == CHOOSE f : ReadsUpTo(f, n)
           F == [s \in AllTexts |-> G(Len(s))[s]]
<1>1. \A n \in Nat : ReadsUpTo(G(n), n)
  BY ReadExists
<1>2. \A s \in AllTexts : F[s] = G(Len(s))[s]
  OBVIOUS
<1>3. \A s \in AllTexts : Len(s) \in Nat
  BY LenProperties DEF AllTexts
<1>4. F = [s \in AllTexts |-> F[s]]
  OBVIOUS
<1> HIDE DEF F, G
<1>5. ASSUME NEW s \in AllTexts PROVE F[s] = ReadAt(F, s)
  <2>1. ReadsUpTo(G(Len(s)), Len(s))
    BY <1>1, <1>3
  <2>2. G(Len(s))[s] = ReadAt(G(Len(s)), s)
    BY <1>3, <2>1 DEF ReadsUpTo
  <2>3. ASSUME NEW r \in AllTexts, Len(r) < Len(s) PROVE G(Len(s))[r] = F[r]
    <3>1. ReadsUpTo(G(Len(r)), Len(r)) /\ Len(r) <= Len(s) /\ Len(r) <= Len(r)
      BY <1>1, <1>3, <2>3
    <3>2. G(Len(s))[r] = G(Len(r))[r]
      BY <1>3, <2>1, <3>1, ReadUnique
    <3> QED
      BY <1>2, <3>2
  <2>4. ReadAt(G(Len(s)), s) = ReadAt(F, s)
    BY <2>3, ReadDepends
  <2> QED
    BY <1>2, <2>2, <2>4
<1>6. F = [s \in AllTexts |-> ReadAt(F, s)]
  BY <1>4, <1>5
<1>7. \E R : R = [s \in AllTexts |-> ReadAt(R, s)]
  BY <1>6
<1>8. Reading = CHOOSE R : R = [s \in AllTexts |-> ReadAt(R, s)]
  BY DEF Reading, ReadAt, AllTexts, Ending, Here, TagHere
<1> QED
  BY <1>7, <1>8

-----------------------------------------------------------------------------
\* How reading goes on: at the end, at a tool call, at a character, at a tag.
LEMMA ReadsEnd ==
  ASSUME NEW s \in AllTexts, NEW m \in Modes, Ending(s, m)
  PROVE  Events(s, m) = <<>>
<1>1. Reading[s] = ReadAt(Reading, s)
  BY ReadingDefined
<1> QED
  BY <1>1 DEF ReadAt, Events

LEMMA ReadsCall ==
  ASSUME NEW s \in AllTexts, Has(CloseTool, s)
  PROVE  Events(s, "ToolCall") =
           <<Call(Before(CloseTool, s))>> \o Events(After(CloseTool, s), "Text")
<1>1. Reading[s] = ReadAt(Reading, s)
  BY ReadingDefined
<1>2. s # <<>>
  <2>1. SUFFICES ASSUME s = <<>> PROVE FALSE
    OBVIOUS
  <2>2. Len(s) = 0
    BY <2>1
  <2> QED
    BY <2>2 DEF Has
<1>3. ~ Ending(s, "ToolCall") /\ "ToolCall" \in Modes
  BY <1>2 DEF Ending, Modes
<1> QED
  BY <1>1, <1>3 DEF ReadAt, Events

LEMMA ReadsCharacter ==
  ASSUME NEW s \in AllTexts, NEW m \in Modes, m # "ToolCall", s # <<>>,
         \A t \in TagsOf(m) : ~ Occurs(t, s, 1)
  PROVE  Events(s, m) = <<<<m, s[1]>>>> \o Events(Kept(s, 1), m)
<1>1. Reading[s] = ReadAt(Reading, s)
  BY ReadingDefined
<1>2. ~ Ending(s, m) /\ Here(s, m) = {}
  BY DEF Ending, Here
<1> QED
  BY <1>1, <1>2 DEF ReadAt, Events

LEMMA ReadsTag ==
  ASSUME NEW s \in AllTexts, NEW m \in Modes, m # "ToolCall",
         NEW t \in TagsOf(m), Occurs(t, s, 1)
  PROVE  Events(s, m) = Opened(t) \o Events(Kept(s, Len(t)), ModeAfter(t))
<1>1. Reading[s] = ReadAt(Reading, s)
  BY ReadingDefined
<1>2. t \in Tags
  BY TagsOfModes
<1>3. s # <<>>
  <2>1. SUFFICES ASSUME s = <<>> PROVE FALSE
    OBVIOUS
  <2>2. Len(s) = 0 /\ Len(t) \in 2..4
    BY <1>2, <2>1, TagShape
  <2> QED
    BY <2>2 DEF Occurs
<1>4. Here(s, m) = {t}
  <2>1. ASSUME NEW u \in TagsOf(m), Occurs(u, s, 1) PROVE u = t
    <3>1. 1 \in Nat \ {0}
      OBVIOUS
    <3> QED
      BY <2>1, <3>1, TagsDiffer
  <2> QED
    BY <2>1 DEF Here
<1>5. TagHere(s, m) = t
  BY <1>4 DEF TagHere
<1>6. ~ Ending(s, m) /\ Here(s, m) # {}
  BY <1>3, <1>4 DEF Ending
<1> QED
  BY <1>1, <1>5, <1>6 DEF ReadAt, Events

\* What reading delivers are characters in a mode, openings and calls.
AllEvents == (Modes \X Characters) \cup {Started} \cup {Call(b) : b \in AllTexts}

LEMMA EventTypes ==
  /\ \A t : Opened(t) \in Seq(AllEvents)
  /\ \A m \in Modes, c \in Characters : <<<<m, c>>>> \in Seq(AllEvents)
  /\ \A b \in AllTexts : <<Call(b)>> \in Seq(AllEvents)
  /\ <<>> \in Seq(AllEvents)
<1>1. Started \in AllEvents
  BY DEF AllEvents
<1>2. <<>> \in Seq(AllEvents)
  OBVIOUS
<1>3. \A e \in AllEvents : <<e>> \in Seq(AllEvents)
  OBVIOUS
<1>4. \A m \in Modes, c \in Characters : <<m, c>> \in AllEvents
  BY DEF AllEvents
<1>5. \A b \in AllTexts : Call(b) \in AllEvents
  BY DEF AllEvents
<1>6. \A t : Opened(t) = <<Started>> \/ Opened(t) = <<>>
  BY DEF Opened
<1>7. <<Started>> \in Seq(AllEvents)
  BY <1>1, <1>3
<1>8. \A t : Opened(t) \in Seq(AllEvents)
  BY <1>2, <1>6, <1>7
<1> HIDE DEF AllEvents
<1> QED
  BY <1>2, <1>3, <1>4, <1>5, <1>8

LEMMA EventsType ==
  ASSUME NEW s \in AllTexts, NEW m \in Modes
  PROVE  Events(s, m) \in Seq(AllEvents)
<1> DEFINE T == {l \in Nat : \E r \in AllTexts, n \in Modes :
                   Len(r) = l /\ Events(r, n) \notin Seq(AllEvents)}
<1>1. SUFFICES ASSUME T # {} PROVE FALSE
  BY <1>1, LenProperties DEF AllTexts
<1>2. PICK l \in T : \A j \in T : l <= j
  <2>1. T \subseteq Nat
    OBVIOUS
  <2> HIDE DEF T
  <2> QED
    BY <1>1, <2>1, Least
<1>3. PICK r \in AllTexts, n \in Modes : Len(r) = l /\ Events(r, n) \notin Seq(AllEvents)
  BY <1>2
<1>4. ASSUME NEW q \in AllTexts, NEW k \in Modes, Len(q) < Len(r)
      PROVE  Events(q, k) \in Seq(AllEvents)
  <2>1. Len(q) \in Nat /\ Len(r) \in Nat
    BY LenProperties DEF AllTexts
  <2>2. ~ (l <= Len(q))
    BY <1>3, <1>4, <2>1
  <2>3. Len(q) \notin T
    <3> HIDE DEF T
    <3> QED
      BY <1>2, <2>2
  <2> QED
    BY <2>1, <2>3
<1> HIDE DEF T
<1>5. ASSUME NEW a \in Seq(AllEvents), NEW b \in Seq(AllEvents) PROVE a \o b \in Seq(AllEvents)
  BY ConcatProperties
<1>6. "Text" \in Modes
  BY DEF Modes
<1>7. ~ Ending(r, n)
  BY <1>3, ReadsEnd, EventTypes
<1>8. r # <<>>
  BY <1>7 DEF Ending
<1>9. CASE n = "ToolCall"
  <2>1. Has(CloseTool, r) /\ CloseTool \in Tags
    BY <1>7, <1>9 DEF Ending, Tags
  <2>2. /\ Before(CloseTool, r) \in AllTexts /\ After(CloseTool, r) \in AllTexts
        /\ Len(After(CloseTool, r)) < Len(r)
    BY <2>1, AroundTag
  <2>3. <<Call(Before(CloseTool, r))>> \in Seq(AllEvents)
    BY <2>2, EventTypes
  <2>4. Events(After(CloseTool, r), "Text") \in Seq(AllEvents)
    BY <1>4, <1>6, <2>2
  <2>5. Events(r, n) = <<Call(Before(CloseTool, r))>> \o Events(After(CloseTool, r), "Text")
    BY <1>9, <2>1, ReadsCall
  <2> QED
    BY <1>3, <1>5, <2>3, <2>4, <2>5
<1>10. CASE n # "ToolCall" /\ \A t \in TagsOf(n) : ~ Occurs(t, r, 1)
  <2>1. Kept(r, 1) \in AllTexts /\ Len(Kept(r, 1)) < Len(r)
    BY <1>8, ShorterRests
  <2>2. r[1] \in Characters
    <3>1. 1 \in 1..Len(r)
      <4>1. Len(r) \in Nat /\ Len(r) # 0
        BY <1>8, LenProperties, EmptySeq DEF AllTexts
      <4> QED
        BY <4>1
    <3> QED
      BY <3>1, ElementOfSeq DEF AllTexts
  <2>3. <<<<n, r[1]>>>> \in Seq(AllEvents)
    BY <2>2, EventTypes
  <2>4. Events(Kept(r, 1), n) \in Seq(AllEvents)
    BY <1>4, <2>1
  <2>5. Events(r, n) = <<<<n, r[1]>>>> \o Events(Kept(r, 1), n)
    BY <1>8, <1>10, ReadsCharacter
  <2> QED
    BY <1>3, <1>5, <2>3, <2>4, <2>5
<1>11. CASE n # "ToolCall" /\ \E t \in TagsOf(n) : Occurs(t, r, 1)
  <2>1. PICK t \in TagsOf(n) : Occurs(t, r, 1)
    BY <1>11
  <2>2. t \in Tags /\ ModeAfter(t) \in Modes
    BY TagsOfModes
  <2>3. Kept(r, Len(t)) \in AllTexts /\ Len(Kept(r, Len(t))) < Len(r)
    BY <1>8, <2>1, <2>2, ShorterRests
  <2>4. Events(Kept(r, Len(t)), ModeAfter(t)) \in Seq(AllEvents)
    BY <1>4, <2>2, <2>3
  <2>5. Opened(t) \in Seq(AllEvents)
    BY EventTypes
  <2>6. Events(r, n) = Opened(t) \o Events(Kept(r, Len(t)), ModeAfter(t))
    BY <1>11, <2>1, ReadsTag
  <2> QED
    BY <1>3, <1>5, <2>4, <2>5, <2>6
<1> QED
  BY <1>9, <1>10, <1>11

LEMMA DeltaType ==
  ASSUME NEW m \in Modes, NEW s \in AllTexts
  PROVE  /\ Delta(m, s) \in Seq(AllEvents) /\ Len(Delta(m, s)) = Len(s)
         /\ \A k \in 1..Len(s) : Delta(m, s)[k] = <<m, s[k]>>
<1>1. \A k \in 1..Len(s) : s[k] \in Characters
  BY ElementOfSeq DEF AllTexts
<1>2. \A k \in 1..Len(s) : <<m, s[k]>> \in AllEvents
  BY <1>1 DEF AllEvents
<1>3. Len(s) \in Nat
  BY LenProperties DEF AllTexts
<1> DEFINE d == [k \in 1..Len(s) |-> <<m, s[k]>>]
           n == Len(s)
<1>4. d = [k \in 1..n |-> <<m, s[k]>>] /\ \A k \in 1..n : d[k] \in AllEvents
  BY <1>2
<1>5. d \in [1..n -> AllEvents]
  BY <1>4
<1> HIDE DEF AllEvents, d, n
<1>6. d \in Seq(AllEvents) /\ Len(d) = n
  <2>1. n \in Nat
    BY <1>3 DEF n
  <2>2. d \in Seq(AllEvents)
    BY <1>5, <2>1, IsASeq
  <2>3. DOMAIN d = 1..n /\ DOMAIN d = 1..Len(d) /\ Len(d) \in Nat
    BY <1>5, <2>2, LenProperties
  <2> QED
    BY <2>1, <2>2, <2>3
<1> QED
  BY <1>6 DEF Delta, d, n

LEMMA NothingRead ==
  ASSUME NEW s \in AllTexts, NEW m \in Modes
  PROVE  Kept(s, 0) = s /\ Delta(m, SubSeq(s, 1, 0)) = <<>>
<1>1. Len(s) \in Nat
  BY LenProperties DEF AllTexts
<1>2. Kept(s, 0) = s
  <2>1. 0 \in 0..Len(s)
    BY <1>1
  <2>2. /\ Kept(s, 0) \in Seq(Characters) /\ Len(Kept(s, 0)) = Len(s) - 0
        /\ \A i \in 1..(Len(s) - 0) : Kept(s, 0)[i] = s[0 + i]
    BY <2>1, KeptText DEF AllTexts
  <2>3. Len(Kept(s, 0)) = Len(s) /\ \A i \in 1..Len(s) : Kept(s, 0)[i] = s[i]
    BY <1>1, <2>2
  <2> QED
    BY <2>2, <2>3, SeqEqual DEF AllTexts
<1>3. Delta(m, SubSeq(s, 1, 0)) = <<>>
  <2>1. 0 \in 0..Len(s)
    BY <1>1
  <2>2. SubSeq(s, 1, 0) \in AllTexts /\ Len(SubSeq(s, 1, 0)) = 0
    BY <2>1, FrontText DEF AllTexts
  <2>3. /\ Delta(m, SubSeq(s, 1, 0)) \in Seq(AllEvents)
        /\ Len(Delta(m, SubSeq(s, 1, 0))) = 0
    BY <2>2, DeltaType
  <2> QED
    BY <2>3, EmptySeq
<1> QED
  BY <1>2, <1>3

LEMMA ReadsFree ==
  ASSUME NEW s \in AllTexts, NEW m \in Modes, m # "ToolCall", NEW n \in 0..Len(s),
         \A i \in 1..n : \A t \in TagsOf(m) : ~ Occurs(t, s, i)
  PROVE  Events(s, m) = Delta(m, SubSeq(s, 1, n)) \o Events(Kept(s, n), m)
<1> DEFINE P(k) == Events(s, m) = Delta(m, SubSeq(s, 1, k)) \o Events(Kept(s, k), m)
           T == {k \in 0..n : ~ P(k)}
<1>1. Len(s) \in Nat /\ n \in Nat
  BY LenProperties DEF AllTexts
<1>2. SUFFICES ASSUME T # {} PROVE FALSE
  <2>1. n \in 0..n
    BY <1>1
  <2> HIDE DEF P
  <2>2. P(n)
    BY <1>2, <2>1
  <2> QED
    BY <2>2 DEF P
<1> HIDE DEF P
<1>3. PICK k \in T : \A j \in T : k <= j
  <2>1. T \subseteq Nat
    BY <1>1
  <2> HIDE DEF T
  <2> QED
    BY <1>2, <2>1, Least
<1>4. k \in 0..n /\ k \in 0..Len(s) /\ ~ P(k)
  BY <1>1, <1>3
<1>5. k # 0
  <2>1. P(0)
    <3>1. Kept(s, 0) = s /\ Delta(m, SubSeq(s, 1, 0)) = <<>>
      BY NothingRead
    <3>3. Events(s, m) \in Seq(AllEvents)
      BY EventsType
    <3>4. <<>> \o Events(s, m) = Events(s, m)
      BY <3>3, ConcatEmptySeq
    <3> QED
      BY <3>1, <3>4 DEF P
  <2> QED
    BY <1>4, <2>1
<1> DEFINE j == k - 1
<1>6. j \in 0..n /\ j \in 0..Len(s) /\ ~ (k <= j) /\ j + 1 = k /\ j < Len(s) /\ j + 1 \in 0..Len(s)
      /\ j + 1 \in 1..n /\ j + 1 \in 1..Len(s) /\ 1 \in 0..(Len(s) - j)
  BY <1>1, <1>4, <1>5
<1>7. P(j)
  <2> HIDE DEF j
  <2>1. j \notin T
    <3> HIDE DEF T
    <3> QED
      BY <1>3, <1>6
  <2> QED
    BY <1>6, <2>1
<1> HIDE DEF T, j
<1> DEFINE r == Kept(s, j)
           a == SubSeq(s, 1, j)
           b == SubSeq(s, 1, j + 1)
<1>8. /\ r \in AllTexts /\ Len(r) = Len(s) - j
      /\ \A i \in 1..(Len(s) - j) : r[i] = s[j + i]
  BY <1>6, KeptText DEF AllTexts
<1>9. a \in AllTexts /\ Len(a) = j /\ \A i \in 1..j : a[i] = s[i]
  BY <1>6, FrontText DEF AllTexts
<1>10. b \in AllTexts /\ Len(b) = j + 1 /\ \A i \in 1..(j + 1) : b[i] = s[i]
  BY <1>6, FrontText DEF AllTexts
<1>11. Kept(r, 1) = Kept(s, j + 1)
  BY <1>6, KeptKept DEF AllTexts
<1>12. \A t \in TagsOf(m) : ~ Occurs(t, r, 1)
  <2>1. ASSUME NEW t \in TagsOf(m) PROVE ~ Occurs(t, r, 1)
    <3>1. t \in Tags /\ 1 \in Nat \ {0}
      BY TagsOfModes
    <3>2. Occurs(t, r, 1) <=> Occurs(t, s, j + 1)
      BY <1>6, <3>1, OccursKept
    <3> QED
      BY <1>6, <3>2
  <2> QED
    BY <2>1
<1> HIDE DEF r, a, b
<1>13. r # <<>> /\ r[1] = s[j + 1]
  BY <1>1, <1>6, <1>8
<1>14. Events(r, m) = <<<<m, s[j + 1]>>>> \o Events(Kept(r, 1), m)
  BY <1>8, <1>12, <1>13, ReadsCharacter
<1>15. Delta(m, b) = Delta(m, a) \o <<<<m, s[j + 1]>>>>
  <2> DEFINE c == <<m, s[j + 1]>>
             x == Delta(m, a)
             y == Delta(m, b)
  <2>1. s[j + 1] \in Characters
    BY <1>6, ElementOfSeq DEF AllTexts
  <2>2. x \in Seq(AllEvents) /\ Len(x) = j /\ \A i \in 1..j : x[i] = <<m, s[i]>>
    BY <1>9, DeltaType
  <2>3. y \in Seq(AllEvents) /\ Len(y) = j + 1 /\ \A i \in 1..(j + 1) : y[i] = <<m, s[i]>>
    BY <1>10, DeltaType
  <2>4. c \in AllEvents
    BY <2>1 DEF AllEvents
  <2>5. y[j + 1] = c
    BY <1>6, <2>3
  <2> HIDE DEF x, y, c
  <2>6. y = Append(x, c)
    <3>1. /\ Append(x, c) \in Seq(AllEvents) /\ Len(Append(x, c)) = Len(x) + 1
          /\ \A i \in 1..Len(x) : Append(x, c)[i] = x[i]
          /\ Append(x, c)[Len(x) + 1] = c
      BY <2>2, <2>4, AppendProperties
    <3>2. ASSUME NEW i \in 1..(j + 1) PROVE y[i] = Append(x, c)[i]
      <4>1. CASE i = j + 1
        BY <2>2, <2>5, <3>1, <4>1
      <4>2. CASE i # j + 1
        <5>1. i \in 1..j
          BY <1>6, <4>2
        <5>2. y[i] = <<m, s[i]>> /\ x[i] = <<m, s[i]>>
          BY <2>2, <2>3, <5>1
        <5>3. Append(x, c)[i] = x[i]
          BY <2>2, <3>1, <5>1
        <5> QED
          BY <5>2, <5>3
      <4> QED
        BY <4>1, <4>2
    <3> QED
      BY <2>2, <2>3, <3>1, <3>2, SeqEqual
  <2>7. Append(x, c) = x \o <<c>>
    BY <2>2, <2>4, AppendIsConcat
  <2> QED
    BY <2>6, <2>7 DEF x, y, c
<1>16. P(j + 1)
  <2> DEFINE x == Delta(m, a)
             c == <<<<m, s[j + 1]>>>>
             z == Events(Kept(s, j + 1), m)
  <2>1. x \in Seq(AllEvents)
    BY <1>9, DeltaType
  <2>2. c \in Seq(AllEvents)
    <3>1. s[j + 1] \in Characters
      BY <1>6, ElementOfSeq DEF AllTexts
    <3> QED
      BY <3>1, EventTypes
  <2>3. z \in Seq(AllEvents)
    <3>1. Kept(s, j + 1) \in AllTexts
      BY <1>6, KeptText DEF AllTexts
    <3> QED
      BY <3>1, EventsType
  <2>4. Events(s, m) = x \o Events(r, m)
    BY <1>7 DEF P, a, r
  <2>5. Events(r, m) = c \o z
    BY <1>11, <1>14
  <2>6. Delta(m, b) = x \o c
    BY <1>15
  <2> HIDE DEF x, c, z
  <2>7. x \o (c \o z) = (x \o c) \o z
    BY <2>1, <2>2, <2>3, ConcatAssociative, SMTT(30)
  <2>8. Events(s, m) = Delta(m, b) \o z
    BY <2>4, <2>5, <2>6, <2>7
  <2> QED
    BY <2>8 DEF P, b, z
<1> QED
  BY <1>4, <1>6, <1>16

LEMMA FrontConcat ==
  ASSUME NEW s \in AllTexts, NEW w \in AllTexts, NEW n \in 0..Len(s)
  PROVE  SubSeq(s \o w, 1, n) = SubSeq(s, 1, n)
<1> DEFINE v == s \o w
           a == SubSeq(v, 1, n)
           b == SubSeq(s, 1, n)
<1>1. /\ v \in AllTexts /\ Len(v) = Len(s) + Len(w)
      /\ \A k \in 1..(Len(s) + Len(w)) : v[k] = IF k <= Len(s) THEN s[k] ELSE w[k - Len(s)]
  BY ConcatProperties DEF AllTexts
<1>2. Len(s) \in Nat /\ Len(w) \in Nat
  BY LenProperties DEF AllTexts
<1> HIDE DEF v
<1>3. n \in 0..Len(v)
  BY <1>1, <1>2
<1>4. a \in AllTexts /\ Len(a) = n /\ \A i \in 1..n : a[i] = v[i]
  BY <1>1, <1>3, FrontText DEF AllTexts
<1>5. b \in AllTexts /\ Len(b) = n /\ \A i \in 1..n : b[i] = s[i]
  BY FrontText DEF AllTexts
<1> HIDE DEF a, b
<1>6. \A i \in 1..n : i \in 1..(Len(s) + Len(w)) /\ i <= Len(s)
  BY <1>2
<1>7. \A i \in 1..n : a[i] = b[i]
  BY <1>1, <1>4, <1>5, <1>6
<1>8. a = b
  BY <1>4, <1>5, <1>7, SeqEqual DEF AllTexts
<1> QED
  BY <1>8 DEF a, b, v

\* Reading as far as the first tag, and past it.
LEMMA ReadsToTag ==
  ASSUME NEW s \in AllTexts, NEW m \in Modes, m # "ToolCall", NEW t \in TagsOf(m),
         NEW i \in 1..Len(s), Occurs(t, s, i),
         \A j \in 1..(i - 1) : \A u \in TagsOf(m) : ~ Occurs(u, s, j)
  PROVE  Events(s, m) = (Delta(m, SubSeq(s, 1, i - 1)) \o Opened(t))
                          \o Events(Kept(s, i + Len(t) - 1), ModeAfter(t))
<1> DEFINE n == i - 1
           r == Kept(s, n)
           q == Kept(s, i + Len(t) - 1)
           x == Delta(m, SubSeq(s, 1, n))
           y == Opened(t)
           z == Events(q, ModeAfter(t))
<1>1. t \in Tags /\ ModeAfter(t) \in Modes
  BY TagsOfModes
<1>2. Len(t) \in 2..4 /\ Len(s) \in Nat
  BY <1>1, TagShape, LenProperties DEF AllTexts
<1>3. i + Len(t) - 1 <= Len(s)
  BY DEF Occurs
<1>4. /\ n \in 0..Len(s) /\ Len(t) \in 0..(Len(s) - n) /\ n + Len(t) = i + Len(t) - 1
      /\ i + Len(t) - 1 \in 0..Len(s) /\ n + 1 = i /\ 1 \in Nat \ {0}
  BY <1>2, <1>3
<1>5. Events(s, m) = x \o Events(r, m)
  BY <1>4, ReadsFree
<1>6. r \in AllTexts /\ q \in AllTexts /\ SubSeq(s, 1, n) \in AllTexts
  BY <1>4, KeptText, FrontText DEF AllTexts
<1>7. Kept(r, Len(t)) = q
  <2>1. Kept(r, Len(t)) = Kept(s, n + Len(t))
    BY <1>4, KeptKept DEF AllTexts
  <2> QED
    BY <1>4, <2>1
<1>8. Occurs(t, r, 1)
  <2>1. Occurs(t, r, 1) <=> Occurs(t, s, n + 1)
    BY <1>1, <1>4, OccursKept
  <2> QED
    BY <1>4, <2>1
<1>9. x \in Seq(AllEvents) /\ y \in Seq(AllEvents) /\ z \in Seq(AllEvents)
  BY <1>1, <1>6, DeltaType, EventTypes, EventsType
<1>10. Events(r, m) = y \o z
  <2> HIDE DEF r, q
  <2>1. Events(r, m) = Opened(t) \o Events(Kept(r, Len(t)), ModeAfter(t))
    BY <1>6, <1>8, ReadsTag
  <2> QED
    BY <1>7, <2>1
<1> HIDE DEF x, y, z
<1>11. (x \o y) \o z = x \o (y \o z)
  BY <1>9, ConcatAssociative
<1>12. Events(s, m) = (x \o y) \o z
  BY <1>5, <1>10, <1>11
<1> QED
  BY <1>12 DEF x, y, z

LEMMA EarliestTag ==
  ASSUME NEW m \in Modes, NEW s \in AllTexts, \E t \in TagsOf(m) : Has(t, s)
  PROVE  LET t == Earliest(TagsOf(m), s)
         IN  /\ t \in TagsOf(m) /\ Has(t, s)
             /\ \A u \in TagsOf(m) : Has(u, s) => Find(t, s) <= Find(u, s)
<1> DEFINE T == {Find(t, s) : t \in {u \in TagsOf(m) : Has(u, s)}}
<1>1. T \subseteq Nat /\ T # {}
  <2>1. ASSUME NEW u \in TagsOf(m), Has(u, s) PROVE Find(u, s) \in Nat
    <3>1. Find(u, s) \in 1..Len(s) /\ Len(s) \in Nat
      BY <2>1, TagsOfModes, FindProperties, LenProperties DEF AllTexts
    <3> QED
      BY <3>1
  <2> QED
    BY <2>1
<1>2. PICK i \in T : \A j \in T : i <= j
  <2> HIDE DEF T
  <2> QED
    BY <1>1, Least
<1>3. \E t \in TagsOf(m) :
        Has(t, s) /\ \A u \in TagsOf(m) : Has(u, s) => Find(t, s) <= Find(u, s)
  BY <1>2
<1> QED
  BY <1>3 DEF Earliest

-----------------------------------------------------------------------------
\* One turn of feed delivers what reading delivers, whatever comes after.
LEMMA PassReads ==
  ASSUME NEW b \in AllTexts, NEW m \in Modes, m # "ToolCall",
         \E t \in TagsOf(m) : Has(t, b), NEW w \in AllTexts
  PROVE  LET t == Earliest(TagsOf(m), b)
         IN  Events(b \o w, m) = (Delta(m, Before(t, b)) \o Opened(t))
                                   \o Events(After(t, b) \o w, ModeAfter(t))
<1> DEFINE t == Earliest(TagsOf(m), b)
           i == Find(t, b)
           s == b \o w
<1>1. /\ t \in TagsOf(m) /\ Has(t, b)
      /\ \A u \in TagsOf(m) : Has(u, b) => i <= Find(u, b)
  BY EarliestTag
<1> HIDE DEF t
<1>2. t \in Tags
  BY <1>1, TagsOfModes
<1>3. /\ i - 1 \in 0..Len(b) /\ i + Len(t) - 1 \in 1..Len(b)
      /\ After(t, b) = Kept(b, i + Len(t) - 1)
  BY <1>1, <1>2, AroundTag
<1>4. Before(t, b) = SubSeq(b, 1, i - 1)
  BY DEF Before
<1>5. i \in 1..Len(b) /\ Occurs(t, b, i)
  BY <1>1, <1>2, FindProperties
<1> HIDE DEF i
<1>6. s \in AllTexts /\ Len(s) = Len(b) + Len(w) /\ Len(b) \in Nat /\ Len(w) \in Nat
  BY ConcatProperties, LenProperties DEF AllTexts
<1>7. Len(t) \in 2..4
  BY <1>2, TagShape
<1>8. i + Len(t) - 1 <= Len(b) /\ i \in Nat \ {0} /\ i + Len(t) - 1 \in 0..Len(b)
  BY <1>3, <1>5, <1>6, <1>7
<1>9. Occurs(t, s, i)
  BY <1>2, <1>5, <1>8, OccursConcat
<1>10. ASSUME NEW j \in 1..(i - 1), NEW u \in TagsOf(m), Occurs(u, s, j) PROVE FALSE
  <2>1. u \in Tags /\ j \in Nat \ {0} /\ j < i
    BY <1>5, <1>6, TagsOfModes
  <2> HIDE DEF s
  <2>2. j + Len(u) - 1 < i
    BY <1>2, <1>6, <1>8, <1>9, <1>10, <2>1, NoOverlap
  <2>3. Len(u) \in 2..4
    BY <2>1, TagShape
  <2>4. j + Len(u) - 1 <= Len(b) /\ j \in 1..Len(b)
    BY <1>5, <1>6, <2>1, <2>2, <2>3
  <2>5. Occurs(u, b, j)
    <3>1. Occurs(u, s, j) <=> Occurs(u, b, j)
      BY <2>1, <2>4, OccursConcat DEF s
    <3> QED
      BY <1>10, <3>1
  <2>6. Has(u, b)
    BY <2>4, <2>5 DEF Has
  <2>7. /\ i <= Find(u, b) /\ Find(u, b) \in 1..Len(b)
        /\ \A k \in 1..(Find(u, b) - 1) : ~ Occurs(u, b, k)
    BY <1>1, <2>1, <2>6, FindProperties DEF i
  <2>8. j \in 1..(Find(u, b) - 1)
    BY <1>5, <1>6, <2>1, <2>7
  <2> QED
    BY <2>5, <2>7, <2>8
<1>11. i \in 1..Len(s)
  BY <1>5, <1>6
<1>12. SubSeq(s, 1, i - 1) = SubSeq(b, 1, i - 1)
  BY <1>3, FrontConcat
<1>13. Kept(s, i + Len(t) - 1) = Kept(b, i + Len(t) - 1) \o w
  BY <1>8, KeptConcat DEF AllTexts
<1> HIDE DEF s
<1>14. Events(s, m) = (Delta(m, SubSeq(s, 1, i - 1)) \o Opened(t))
                        \o Events(Kept(s, i + Len(t) - 1), ModeAfter(t))
  BY <1>1, <1>6, <1>9, <1>10, <1>11, ReadsToTag
<1>15. Events(s, m) = (Delta(m, Before(t, b)) \o Opened(t)) \o Events(After(t, b) \o w, ModeAfter(t))
  BY <1>3, <1>4, <1>12, <1>13, <1>14
<1> QED
  BY <1>15 DEF s, t

LEMMA CallReads ==
  ASSUME NEW b \in AllTexts, Has(CloseTool, b), NEW w \in AllTexts
  PROVE  Events(b \o w, "ToolCall") =
           <<Call(Before(CloseTool, b))>> \o Events(After(CloseTool, b) \o w, "Text")
<1> DEFINE i == Find(CloseTool, b)
           n == i + Len(CloseTool) - 1
           s == b \o w
<1>1. CloseTool \in Tags
  BY DEF Tags
<1>2. i - 1 \in 0..Len(b) /\ n \in 1..Len(b) /\ After(CloseTool, b) = Kept(b, n)
  BY <1>1, AroundTag
<1>3. /\ i \in 1..Len(b) /\ Occurs(CloseTool, b, i)
      /\ \A j \in 1..(i - 1) : ~ Occurs(CloseTool, b, j)
  BY <1>1, FindProperties
<1>4. Before(CloseTool, b) = SubSeq(b, 1, i - 1)
  BY DEF Before
<1> HIDE DEF i
<1>5. s \in AllTexts /\ Len(s) = Len(b) + Len(w) /\ Len(b) \in Nat /\ Len(w) \in Nat
  BY ConcatProperties, LenProperties DEF AllTexts
<1>6. Len(CloseTool) \in 2..4
  BY <1>1, TagShape
<1>7. n <= Len(b) /\ i \in Nat \ {0} /\ n \in 0..Len(b) /\ i \in 1..Len(s)
  BY <1>2, <1>3, <1>5
<1>8. Occurs(CloseTool, s, i)
  BY <1>1, <1>3, <1>7, OccursConcat
<1>9. ASSUME NEW j \in 1..(i - 1) PROVE ~ Occurs(CloseTool, s, j)
  <2>1. j + Len(CloseTool) - 1 <= Len(b) /\ j \in Nat \ {0}
    BY <1>3, <1>5, <1>6, <1>7
  <2> QED
    BY <1>1, <1>3, <2>1, OccursConcat
<1>10. SubSeq(s, 1, i - 1) = SubSeq(b, 1, i - 1)
  BY <1>2, FrontConcat
<1>11. Kept(s, n) = Kept(b, n) \o w
  BY <1>7, KeptConcat DEF AllTexts
<1> HIDE DEF s
<1>12. Has(CloseTool, s) /\ Find(CloseTool, s) = i
  BY <1>1, <1>5, <1>7, <1>8, <1>9, FindIs
<1>13. After(CloseTool, s) = Kept(s, n) /\ Before(CloseTool, s) = SubSeq(s, 1, i - 1)
  BY <1>1, <1>5, <1>12, AroundTag DEF Before
<1>14. Events(s, "ToolCall") =
         <<Call(Before(CloseTool, s))>> \o Events(After(CloseTool, s), "Text")
  BY <1>5, <1>12, ReadsCall
<1>15. Events(s, "ToolCall") =
         <<Call(Before(CloseTool, b))>> \o Events(After(CloseTool, b) \o w, "Text")
  BY <1>2, <1>4, <1>10, <1>11, <1>13, <1>14
<1> QED
  BY <1>15 DEF s

\* A tag that only what comes next completes has begun at the end.
LEMMA BegunTag ==
  ASSUME NEW b \in AllTexts, NEW w \in AllTexts, NEW u \in Tags, NEW j \in 1..Len(b),
         Occurs(u, b \o w, j), j + Len(u) - 1 > Len(b)
  PROVE  IsStrictPrefix(Kept(b, j - 1), u)
<1> DEFINE s == b \o w
           n == j - 1
           k == Kept(b, n)
           x == SubSeq(k, 1, Len(k))
           y == SubSeq(u, 1, Len(k))
<1>1. /\ s \in AllTexts /\ Len(s) = Len(b) + Len(w)
      /\ \A i \in 1..(Len(b) + Len(w)) : s[i] = IF i <= Len(b) THEN b[i] ELSE w[i - Len(b)]
  BY ConcatProperties DEF AllTexts
<1>2. Len(b) \in Nat /\ Len(w) \in Nat
  BY LenProperties DEF AllTexts
<1>3. u \in AllTexts /\ Len(u) \in 2..4
  BY TagShape
<1>4. n \in 0..Len(b) /\ j \in Nat \ {0}
  BY <1>2
<1>5. k \in AllTexts /\ Len(k) = Len(b) - n /\ \A i \in 1..(Len(b) - n) : k[i] = b[n + i]
  BY <1>4, KeptText DEF AllTexts
<1> HIDE DEF s
<1>6. \A i \in 1..Len(u) : s[j + i - 1] = u[i]
  BY <1>1, <1>4, OccursAt DEF s
<1> HIDE DEF k
<1>7. Len(k) \in 0..Len(k) /\ Len(k) \in 0..Len(u) /\ Len(k) < Len(u) /\ Len(k) \in Nat
  BY <1>2, <1>3, <1>4, <1>5
<1>8. x \in AllTexts /\ Len(x) = Len(k) /\ \A i \in 1..Len(k) : x[i] = k[i]
  BY <1>5, <1>7, FrontText DEF AllTexts
<1>9. y \in AllTexts /\ Len(y) = Len(k) /\ \A i \in 1..Len(k) : y[i] = u[i]
  BY <1>3, <1>7, FrontText DEF AllTexts
<1> HIDE DEF x, y
<1>10. ASSUME NEW i \in 1..Len(k) PROVE x[i] = y[i]
  <2>1. /\ i \in 1..(Len(b) - n) /\ i \in 1..Len(u) /\ j + i - 1 = n + i
        /\ n + i \in 1..(Len(b) + Len(w)) /\ n + i <= Len(b)
    BY <1>2, <1>3, <1>4, <1>5, <1>7
  <2>2. k[i] = b[n + i]
    BY <1>5, <2>1
  <2>3. u[i] = s[n + i]
    BY <1>6, <2>1
  <2>4. s[n + i] = b[n + i]
    BY <1>1, <2>1
  <2> QED
    BY <1>8, <1>9, <2>2, <2>3, <2>4
<1>11. x = y
  BY <1>8, <1>9, <1>10, SeqEqual DEF AllTexts
<1>12. k # u
  BY <1>7
<1>13. IsStrictPrefix(k, u)
  BY <1>7, <1>11, <1>12 DEF IsStrictPrefix, IsPrefix, x, y
<1> QED
  BY <1>13 DEF k

LEMMA SafeFlushIs ==
  ASSUME NEW b \in AllTexts, NEW tags
  PROVE  LET n == SafeFlushLen(b, tags)
         IN  /\ n \in 0..Len(b)
             /\ n = Len(b) \/ \E t \in tags : IsStrictPrefix(Kept(b, n), t)
             /\ \A k \in 0..(n - 1) : ~ \E t \in tags : IsStrictPrefix(Kept(b, k), t)
<1> DEFINE Q(n) == \E t \in tags : IsStrictPrefix(Kept(b, n), t)
           T == {n \in 0..Len(b) : n = Len(b) \/ Q(n)}
<1>1. Len(b) \in Nat
  BY LenProperties DEF AllTexts
<1> HIDE DEF Q
<1>2. T \subseteq Nat /\ Len(b) \in T
  BY <1>1
<1>3. PICK n \in T : \A k \in T : n <= k
  <2> HIDE DEF T
  <2> QED
    BY <1>2, Least
<1>4. ASSUME NEW k \in 0..(n - 1) PROVE ~ Q(k)
  <2>1. k \in 0..Len(b) /\ ~ (n <= k)
    BY <1>1, <1>3
  <2> QED
    BY <1>3, <2>1
<1>5. \E j \in 0..Len(b) : (j = Len(b) \/ Q(j)) /\ \A k \in 0..(j - 1) : ~ Q(k)
  BY <1>3, <1>4
<1>6. SafeFlushLen(b, tags) =
        CHOOSE j \in 0..Len(b) : (j = Len(b) \/ Q(j)) /\ \A k \in 0..(j - 1) : ~ Q(k)
  BY DEF SafeFlushLen, Q, Kept
<1> DEFINE f == SafeFlushLen(b, tags)
<1>7. f \in 0..Len(b) /\ (f = Len(b) \/ Q(f)) /\ \A k \in 0..(f - 1) : ~ Q(k)
  BY <1>5, <1>6
<1> QED
  BY <1>7 DEF Q

LEMMA FlushReads ==
  ASSUME NEW b \in AllTexts, NEW m \in Modes, m # "ToolCall",
         \A t \in TagsOf(m) : ~ Has(t, b), NEW w \in AllTexts
  PROVE  LET n == SafeFlushLen(b, TagsOf(m))
         IN  Events(b \o w, m) = Delta(m, SubSeq(b, 1, n)) \o Events(Kept(b, n) \o w, m)
<1> DEFINE n == SafeFlushLen(b, TagsOf(m))
           s == b \o w
<1>1. /\ n \in 0..Len(b)
      /\ \A k \in 0..(n - 1) : ~ \E t \in TagsOf(m) : IsStrictPrefix(Kept(b, k), t)
  BY SafeFlushIs
<1> HIDE DEF n
<1>2. s \in AllTexts /\ Len(s) = Len(b) + Len(w) /\ Len(b) \in Nat /\ Len(w) \in Nat
  BY ConcatProperties, LenProperties DEF AllTexts
<1>3. ASSUME NEW j \in 1..n, NEW u \in TagsOf(m), Occurs(u, s, j) PROVE FALSE
  <2>1. u \in Tags
    BY TagsOfModes
  <2>2. Len(u) \in 2..4 /\ j \in Nat \ {0} /\ j \in 1..Len(b) /\ j - 1 \in 0..(n - 1)
    BY <1>1, <1>2, <2>1, TagShape
  <2>3. CASE j + Len(u) - 1 <= Len(b)
    <3>1. Occurs(u, s, j) <=> Occurs(u, b, j)
      BY <2>1, <2>2, <2>3, OccursConcat
    <3>2. Has(u, b)
      BY <1>3, <2>2, <3>1 DEF Has
    <3> QED
      BY <3>2
  <2>4. CASE j + Len(u) - 1 > Len(b)
    <3>1. IsStrictPrefix(Kept(b, j - 1), u)
      BY <1>3, <2>1, <2>2, <2>4, BegunTag
    <3> QED
      BY <1>1, <2>2, <3>1
  <2>5. j + Len(u) - 1 <= Len(b) \/ j + Len(u) - 1 > Len(b)
    BY <1>2, <2>2
  <2> QED
    BY <2>3, <2>4, <2>5
<1>4. n \in 0..Len(s)
  BY <1>1, <1>2
<1>5. SubSeq(s, 1, n) = SubSeq(b, 1, n)
  BY <1>1, FrontConcat
<1>6. Kept(s, n) = Kept(b, n) \o w
  BY <1>1, KeptConcat DEF AllTexts
<1> HIDE DEF s
<1>7. Events(s, m) = Delta(m, SubSeq(s, 1, n)) \o Events(Kept(s, n), m)
  BY <1>2, <1>3, <1>4, ReadsFree
<1>8. Events(s, m) = Delta(m, SubSeq(b, 1, n)) \o Events(Kept(b, n) \o w, m)
  BY <1>5, <1>6, <1>7
<1> QED
  BY <1>8 DEF s, n

LEMMA NoTagKept ==
  ASSUME NEW b \in AllTexts, NEW t \in Tags, ~ Has(t, b), NEW n \in 0..Len(b)
  PROVE  ~ Has(t, Kept(b, n))
<1>1. SUFFICES ASSUME NEW i \in 1..Len(Kept(b, n)), Occurs(t, Kept(b, n), i) PROVE FALSE
  BY DEF Has
<1>2. Kept(b, n) \in AllTexts /\ Len(Kept(b, n)) = Len(b) - n /\ Len(b) \in Nat
  BY KeptText, LenProperties DEF AllTexts
<1>3. i \in Nat \ {0} /\ n + i \in 1..Len(b)
  BY <1>1, <1>2
<1>4. Occurs(t, b, n + i)
  BY <1>1, <1>3, OccursKept
<1> QED
  BY <1>3, <1>4 DEF Has

LEMMA NoTagInFront ==
  ASSUME NEW b \in AllTexts, NEW t \in Tags, ~ Has(t, b), NEW n \in 0..Len(b)
  PROVE  ~ Has(t, SubSeq(b, 1, n))
<1> DEFINE f == SubSeq(b, 1, n)
           k == Kept(b, n)
<1>1. f \in AllTexts /\ k \in AllTexts /\ Len(f) = n /\ f \o k = b /\ Len(b) \in Nat
  BY FrontText, KeptText, FrontAndKept, LenProperties DEF AllTexts
<1> HIDE DEF f, k
<1>2. SUFFICES ASSUME NEW i \in 1..Len(f), Occurs(t, f, i) PROVE FALSE
  BY DEF Has, f
<1>3. i \in Nat \ {0} /\ i \in 1..Len(b) /\ i + Len(t) - 1 <= Len(f)
  BY <1>1, <1>2 DEF Occurs
<1>4. Occurs(t, f \o k, i)
  BY <1>1, <1>2, <1>3, OccursConcat
<1> QED
  BY <1>1, <1>3, <1>4 DEF Has

\* The loop of feed: what it has delivered and what reading still would.
Scanning == [buffer : AllTexts, mode : Modes, events : Seq(AllEvents),
             status : {"loop", "break", "error"}]
Delivers(b, m, s) ==
  \A w \in AllTexts : Events(b \o w, m) = s.events \o Events(s.buffer \o w, s.mode)
\* Some call in the events does not parse.
Unparsed == {Call(b) : b \in {t \in AllTexts : ~ Parses(t)}}
Spoiled(w) == \E i \in 1..Len(w) : w[i] \in Unparsed
Spoils(b, m) == \A w \in AllTexts : Spoiled(Events(b \o w, m))
Settled(b, m) ==
  /\ \A t \in TagsOf(m) : ~ Has(t, b)
  /\ m = "ToolCall" \/ b = <<>> \/ \E t \in TagsOf(m) : IsStrictPrefix(b, t)

LEMMA SpoiledConcat ==
  ASSUME NEW x \in Seq(AllEvents), NEW y \in Seq(AllEvents)
  PROVE  Spoiled(x \o y) <=> Spoiled(x) \/ Spoiled(y)
<1>1. /\ Len(x) \in Nat /\ Len(y) \in Nat /\ Len(x \o y) = Len(x) + Len(y)
      /\ \A i \in 1..Len(x) : (x \o y)[i] = x[i]
      /\ \A i \in 1..Len(y) : (x \o y)[Len(x) + i] = y[i]
  BY LenProperties, ConcatProperties
<1>2. ASSUME NEW i \in 1..Len(x \o y), (x \o y)[i] \in Unparsed
      PROVE  Spoiled(x) \/ Spoiled(y)
  <2>1. CASE i <= Len(x)
    <3>1. i \in 1..Len(x)
      BY <1>1, <2>1
    <3> QED
      BY <1>1, <1>2, <3>1 DEF Spoiled
  <2>2. CASE i > Len(x)
    <3>1. i - Len(x) \in 1..Len(y) /\ Len(x) + (i - Len(x)) = i
      BY <1>1, <2>2
    <3> QED
      BY <1>1, <1>2, <3>1 DEF Spoiled
  <2> QED
    BY <1>1, <2>1, <2>2
<1>3. ASSUME NEW i \in 1..Len(x), x[i] \in Unparsed PROVE Spoiled(x \o y)
  <2>1. i \in 1..Len(x \o y)
    BY <1>1
  <2> QED
    BY <1>1, <1>3, <2>1 DEF Spoiled
<1>4. ASSUME NEW i \in 1..Len(y), y[i] \in Unparsed PROVE Spoiled(x \o y)
  <2>1. Len(x) + i \in 1..Len(x \o y)
    BY <1>1
  <2> QED
    BY <1>1, <1>4, <2>1 DEF Spoiled
<1> QED
  BY <1>2, <1>3, <1>4 DEF Spoiled

LEMMA DeliversMore ==
  ASSUME NEW b, NEW m, NEW s \in Scanning, NEW r \in Scanning, NEW e \in Seq(AllEvents),
         Delivers(b, m, s), r.events = s.events \o e,
         \A w \in AllTexts : Events(s.buffer \o w, s.mode) = e \o Events(r.buffer \o w, r.mode)
  PROVE  Delivers(b, m, r)
<1>1. SUFFICES ASSUME NEW w \in AllTexts
               PROVE  Events(b \o w, m) = r.events \o Events(r.buffer \o w, r.mode)
  BY DEF Delivers
<1> DEFINE x == s.events
           z == Events(r.buffer \o w, r.mode)
<1>2. x \in Seq(AllEvents)
  BY DEF Scanning
<1>3. r.buffer \in AllTexts /\ r.mode \in Modes
  BY DEF Scanning
<1>4. r.buffer \o w \in AllTexts
  BY <1>3, ConcatProperties DEF AllTexts
<1>5. z \in Seq(AllEvents)
  BY <1>3, <1>4, EventsType
<1>6. Events(b \o w, m) = x \o (e \o z)
  BY DEF Delivers
<1> HIDE DEF x, z
<1>7. (x \o e) \o z = x \o (e \o z)
  BY <1>2, <1>5, ConcatAssociative
<1> QED
  BY <1>6, <1>7 DEF x, z

\* What one turn makes of the loop's state.
Turned(s, r) ==
  /\ r \in Scanning
  /\ r.status = "loop" => Len(r.buffer) < Len(s.buffer)
  /\ r.status = "break" => Settled(r.buffer, r.mode)
  /\ \A b, m : Delivers(b, m, s) =>
       IF r.status = "error" THEN Spoils(b, m) ELSE Delivers(b, m, r)

LEMMA TurnsInto ==
  ASSUME NEW s \in Scanning, NEW r \in Scanning, NEW d \in Seq(AllEvents),
         r.events = s.events \o d,
         \A w \in AllTexts : Events(s.buffer \o w, s.mode) = d \o Events(r.buffer \o w, r.mode),
         r.status \in {"loop", "break"},
         r.status = "loop" => Len(r.buffer) < Len(s.buffer),
         r.status = "break" => Settled(r.buffer, r.mode)
  PROVE  Turned(s, r)
<1>1. ASSUME NEW b, NEW m, Delivers(b, m, s) PROVE Delivers(b, m, r)
  BY <1>1, DeliversMore
<1> QED
  BY <1>1 DEF Turned

\* The edits a turn makes of the state.
LEMMA EditFlush ==
  ASSUME NEW s \in Scanning, NEW b, NEW e
  PROVE  [s EXCEPT !.buffer = b, !.status = "break", !.events = e]
           = [buffer |-> b, mode |-> s.mode, events |-> e, status |-> "break"]
<1> DEFINE p == [s EXCEPT !.buffer = b]
           q == [p EXCEPT !.status = "break"]
           r == [q EXCEPT !.events = e]
<1>1. PICK b0, m0, e0, st0 : s = [buffer |-> b0, mode |-> m0, events |-> e0, status |-> st0]
  BY DEF Scanning
<1>2. s.mode = m0
  BY <1>1
<1>3. p = [buffer |-> b, mode |-> m0, events |-> e0, status |-> st0]
  BY <1>1
<1> HIDE DEF p
<1>4. q = [buffer |-> b, mode |-> m0, events |-> e0, status |-> "break"]
  BY <1>3
<1> HIDE DEF q
<1>5. r = [buffer |-> b, mode |-> m0, events |-> e, status |-> "break"]
  BY <1>4
<1> QED
  BY <1>2, <1>5 DEF p, q

LEMMA EditPass ==
  ASSUME NEW s \in Scanning, NEW b, NEW m, NEW e
  PROVE  [s EXCEPT !.buffer = b, !.mode = m, !.events = e]
           = [buffer |-> b, mode |-> m, events |-> e, status |-> s.status]
<1> DEFINE p == [s EXCEPT !.buffer = b]
           q == [p EXCEPT !.mode = m]
           r == [q EXCEPT !.events = e]
<1>1. PICK b0, m0, e0, st0 : s = [buffer |-> b0, mode |-> m0, events |-> e0, status |-> st0]
  BY DEF Scanning
<1>2. s.status = st0
  BY <1>1
<1>3. p = [buffer |-> b, mode |-> m0, events |-> e0, status |-> st0]
  BY <1>1
<1> HIDE DEF p
<1>4. q = [buffer |-> b, mode |-> m, events |-> e0, status |-> st0]
  BY <1>3
<1> HIDE DEF q
<1>5. r = [buffer |-> b, mode |-> m, events |-> e, status |-> st0]
  BY <1>4
<1> QED
  BY <1>2, <1>5 DEF p, q

LEMMA EditCall ==
  ASSUME NEW s \in Scanning, NEW b, NEW e
  PROVE  [s EXCEPT !.buffer = b, !.mode = "Text", !.events = e]
           = [buffer |-> b, mode |-> "Text", events |-> e, status |-> s.status]
<1>1. PICK m : m = "Text"
  OBVIOUS
<1>2. [s EXCEPT !.buffer = b, !.mode = m, !.events = e]
        = [buffer |-> b, mode |-> m, events |-> e, status |-> s.status]
  BY EditPass
<1> QED
  BY <1>1, <1>2

LEMMA EditFail ==
  ASSUME NEW s \in Scanning, NEW b
  PROVE  [s EXCEPT !.buffer = b, !.status = "error"]
           = [buffer |-> b, mode |-> s.mode, events |-> s.events, status |-> "error"]
<1> DEFINE p == [s EXCEPT !.buffer = b]
           q == [p EXCEPT !.status = "error"]
<1>1. PICK b0, m0, e0, st0 : s = [buffer |-> b0, mode |-> m0, events |-> e0, status |-> st0]
  BY DEF Scanning
<1>2. s.mode = m0 /\ s.events = e0
  BY <1>1
<1>3. p = [buffer |-> b, mode |-> m0, events |-> e0, status |-> st0]
  BY <1>1
<1> HIDE DEF p
<1>4. q = [buffer |-> b, mode |-> m0, events |-> e0, status |-> "error"]
  BY <1>3
<1> QED
  BY <1>2, <1>4 DEF p

LEMMA FlushTurns ==
  ASSUME NEW s \in Scanning, \A t \in TagsOf(s.mode) : ~ Has(t, s.buffer)
  PROVE  Turned(s, Flush(s))
<1> DEFINE b == s.buffer
           m == s.mode
           e == s.events
           n == IF m = "ToolCall" THEN 0 ELSE SafeFlushLen(b, TagsOf(m))
           k == Kept(b, n)
           d == Delta(m, SubSeq(b, 1, n))
           r == [buffer |-> k, mode |-> m, events |-> e \o d, status |-> "break"]
<1>1. b \in AllTexts /\ m \in Modes /\ e \in Seq(AllEvents)
  BY DEF Scanning
<1>2. Flush(s) = r
  <2> DEFINE x == e \o d
  <2>1. Flush(s) = [s EXCEPT !.buffer = k, !.status = "break", !.events = x]
    BY DEF Flush
  <2> HIDE DEF k, x
  <2>2. [s EXCEPT !.buffer = k, !.status = "break", !.events = x]
          = [buffer |-> k, mode |-> s.mode, events |-> x, status |-> "break"]
    BY EditFlush
  <2> QED
    BY <2>1, <2>2 DEF x
<1>4. \A t \in TagsOf(m) : ~ Has(t, b)
  OBVIOUS
<1> HIDE DEF b, m, e
<1>5. n \in 0..Len(b) /\ (m = "ToolCall" \/ n = Len(b) \/ \E t \in TagsOf(m) : IsStrictPrefix(k, t))
  <2>1. Len(b) \in Nat
    BY <1>1, LenProperties DEF AllTexts
  <2>2. CASE m = "ToolCall"
    BY <2>1, <2>2
  <2>3. CASE m # "ToolCall"
    BY <1>1, <2>3, SafeFlushIs
  <2> QED
    BY <2>2, <2>3
<1>6. ASSUME NEW w \in AllTexts PROVE Events(b \o w, m) = d \o Events(k \o w, m)
  <2>2. CASE m = "ToolCall"
    <3>1. n = 0
      BY <2>2
    <3> HIDE DEF n
    <3>2. k = b /\ d = <<>>
      BY <1>1, <3>1, NothingRead
    <3>3. b \o w \in AllTexts
      BY <1>1, ConcatProperties DEF AllTexts
    <3>4. Events(b \o w, m) \in Seq(AllEvents)
      BY <1>1, <3>3, EventsType
    <3>5. <<>> \o Events(b \o w, m) = Events(b \o w, m)
      BY <3>4, ConcatEmptySeq
    <3> QED
      BY <3>2, <3>5
  <2>3. CASE m # "ToolCall"
    BY <1>1, <1>4, <2>3, FlushReads
  <2> QED
    BY <2>2, <2>3
<1> HIDE DEF n
<1>7. k \in AllTexts /\ Len(k) = Len(b) - n /\ SubSeq(b, 1, n) \in AllTexts
  BY <1>1, <1>5, KeptText, FrontText DEF AllTexts
<1>8. d \in Seq(AllEvents)
  BY <1>1, <1>7, DeltaType
<1>9. Settled(k, m)
  <2>1. \A t \in TagsOf(m) : ~ Has(t, k)
    BY <1>1, <1>4, <1>5, TagsOfModes, NoTagKept
  <2>2. n = Len(b) => k = <<>>
    <3>1. Len(b) \in Nat
      BY <1>1, LenProperties DEF AllTexts
    <3>2. n = Len(b) => Len(k) = 0
      BY <1>7, <3>1
    <3> QED
      BY <1>7, <3>2, EmptySeq DEF AllTexts
  <2> QED
    BY <1>5, <2>1, <2>2 DEF Settled
<1>10. e \o d \in Seq(AllEvents)
  BY <1>1, <1>8, ConcatProperties
<1> HIDE DEF k, d
<1>11. r \in Scanning
  BY <1>1, <1>7, <1>10 DEF Scanning
<1>12. /\ r.status = "break" /\ r.buffer = k /\ r.mode = m /\ r.events = e \o d
  OBVIOUS
<1> HIDE DEF r
<1>13. \A w \in AllTexts : Events(s.buffer \o w, s.mode) = d \o Events(r.buffer \o w, r.mode)
  BY <1>6, <1>12 DEF b, m
<1>14. r.events = s.events \o d
  BY <1>12 DEF e
<1>15. Turned(s, r)
  BY <1>8, <1>9, <1>11, <1>12, <1>13, <1>14, TurnsInto
<1> QED
  BY <1>2, <1>15

LEMMA CloseCallIs ==
  ASSUME NEW s \in Scanning
  PROVE  LET block == Before(CloseTool, s.buffer)
             rest  == After(CloseTool, s.buffer)
         IN  CloseCall(s) =
               IF Parses(block)
               THEN [buffer |-> rest, mode |-> "Text",
                     events |-> Append(s.events, Call(block)), status |-> s.status]
               ELSE [buffer |-> rest, mode |-> s.mode, events |-> s.events, status |-> "error"]
<1> DEFINE k == After(CloseTool, s.buffer)
           x == Append(s.events, Call(Before(CloseTool, s.buffer)))
<1>1. CloseCall(s) =
        IF Parses(Before(CloseTool, s.buffer))
        THEN [s EXCEPT !.buffer = k, !.mode = "Text", !.events = x]
        ELSE [s EXCEPT !.buffer = k, !.status = "error"]
  BY DEF CloseCall
<1> HIDE DEF k, x
<1>2. [s EXCEPT !.buffer = k, !.status = "error"]
        = [buffer |-> k, mode |-> s.mode, events |-> s.events, status |-> "error"]
  BY EditFail
<1>3. [s EXCEPT !.buffer = k, !.mode = "Text", !.events = x]
        = [buffer |-> k, mode |-> "Text", events |-> x, status |-> s.status]
  BY EditCall
<1> QED
  BY <1>1, <1>2, <1>3 DEF k, x

LEMMA CallTurns ==
  ASSUME NEW s \in Scanning, s.status = "loop", s.mode = "ToolCall", Has(CloseTool, s.buffer)
  PROVE  Turned(s, CloseCall(s))
<1> DEFINE b == s.buffer
           e == s.events
           k == After(CloseTool, b)
           c == Call(Before(CloseTool, b))
           good == [buffer |-> k, mode |-> "Text", events |-> Append(e, c), status |-> "loop"]
           bad == [buffer |-> k, mode |-> "ToolCall", events |-> e, status |-> "error"]
<1>1. b \in AllTexts /\ e \in Seq(AllEvents)
  BY DEF Scanning
<1>2. CloseTool \in Tags /\ "Text" \in Modes /\ "ToolCall" \in Modes
  BY DEF Tags, Modes
<1>3. CloseCall(s) = IF Parses(Before(CloseTool, b)) THEN good ELSE bad
  BY CloseCallIs
<1>4. k \in AllTexts /\ Len(k) < Len(b) /\ Before(CloseTool, b) \in AllTexts
  BY <1>1, <1>2, AroundTag
<1>5. c \in AllEvents /\ <<c>> \in Seq(AllEvents)
  BY <1>4, EventTypes DEF AllEvents
<1>6. \A w \in AllTexts : Events(b \o w, "ToolCall") = <<c>> \o Events(k \o w, "Text")
  BY <1>1, CallReads
<1> HIDE DEF c
<1>7. Append(e, c) \in Seq(AllEvents) /\ Append(e, c) = e \o <<c>>
  BY <1>1, <1>5, AppendProperties, AppendIsConcat
<1> HIDE DEF k
<1>8. good \in Scanning /\ bad \in Scanning
  BY <1>1, <1>2, <1>4, <1>7 DEF Scanning
<1>9. /\ good.buffer = k /\ good.mode = "Text" /\ good.events = e \o <<c>> /\ good.status = "loop"
      /\ bad.status = "error"
  BY <1>7
<1> DEFINE d == <<c>>
<1>10. /\ d \in Seq(AllEvents) /\ good.events = s.events \o d
       /\ \A w \in AllTexts : Events(s.buffer \o w, s.mode) = d \o Events(good.buffer \o w, good.mode)
  <2> HIDE DEF good
  <2> QED
    BY <1>5, <1>6, <1>9
<1> HIDE DEF good, bad, d
<1>11. Turned(s, good)
  <2>1. good.status = "loop" => Len(good.buffer) < Len(s.buffer)
    BY <1>4, <1>9
  <2>2. good.status = "break" => Settled(good.buffer, good.mode)
    BY <1>9
  <2>3. good.status \in {"loop", "break"}
    BY <1>9
  <2> QED
    BY <1>8, <1>10, <2>1, <2>2, <2>3, TurnsInto
<1>12. ASSUME ~ Parses(Before(CloseTool, b)) PROVE Turned(s, bad)
  <2>1. c \in Unparsed
    BY <1>4, <1>12 DEF c, Unparsed
  <2>2. ASSUME NEW b0, NEW m0, Delivers(b0, m0, s) PROVE Spoils(b0, m0)
    <3>1. SUFFICES ASSUME NEW w \in AllTexts PROVE Spoiled(Events(b0 \o w, m0))
      BY DEF Spoils
    <3> DEFINE y == Events(k \o w, "Text")
    <3>2. k \o w \in AllTexts
      BY <1>4, ConcatProperties DEF AllTexts
    <3>3. y \in Seq(AllEvents)
      BY <1>2, <3>2, EventsType
    <3>4. Events(b0 \o w, m0) = e \o (<<c>> \o y)
      BY <1>6, <2>2 DEF Delivers
    <3> HIDE DEF y
    <3>5. Len(<<c>>) = 1 /\ <<c>>[1] = c
      OBVIOUS
    <3>6. Spoiled(<<c>>)
      BY <2>1, <3>5 DEF Spoiled
    <3> DEFINE g == <<c>>
    <3>7. g \in Seq(AllEvents) /\ Spoiled(g)
      BY <1>5, <3>6
    <3> HIDE DEF g
    <3>8. g \o y \in Seq(AllEvents) /\ Spoiled(g \o y)
      BY <3>3, <3>7, SpoiledConcat, ConcatProperties
    <3>9. Spoiled(e \o (g \o y))
      <4> DEFINE z == g \o y
      <4>1. z \in Seq(AllEvents) /\ Spoiled(z)
        BY <3>8
      <4> HIDE DEF z
      <4>2. Spoiled(e \o z)
        BY <1>1, <4>1, SpoiledConcat
      <4> QED
        BY <4>2 DEF z
    <3> QED
      BY <3>4, <3>9 DEF g
  <2> QED
    BY <1>8, <1>9, <2>2 DEF Turned
<1> QED
  BY <1>3, <1>11, <1>12

LEMMA TagTurns ==
  ASSUME NEW s \in Scanning, s.status = "loop", s.mode # "ToolCall",
         \E t \in TagsOf(s.mode) : Has(t, s.buffer)
  PROVE  Turned(s, PassTag(s, Earliest(TagsOf(s.mode), s.buffer)))
<1> DEFINE b == s.buffer
           m == s.mode
           e == s.events
           t == Earliest(TagsOf(m), b)
           k == After(t, b)
           x == Delta(m, Before(t, b))
           y == Opened(t)
           d == x \o y
           r == [buffer |-> k, mode |-> ModeAfter(t), events |-> e \o d, status |-> "loop"]
<1>1. b \in AllTexts /\ m \in Modes /\ e \in Seq(AllEvents)
  BY DEF Scanning
<1>2. t \in TagsOf(m) /\ Has(t, b)
  BY <1>1, EarliestTag
<1>3. \A w \in AllTexts : Events(b \o w, m) = d \o Events(k \o w, ModeAfter(t))
  <2> HIDE DEF b, m
  <2>1. m # "ToolCall" /\ \E u \in TagsOf(m) : Has(u, b)
    BY DEF b, m
  <2> QED
    BY <1>1, <2>1, PassReads
<1> HIDE DEF t
<1>4. t \in Tags /\ ModeAfter(t) \in Modes
  BY <1>1, <1>2, TagsOfModes
<1>5. k \in AllTexts /\ Len(k) < Len(b) /\ Before(t, b) \in AllTexts
  BY <1>1, <1>2, <1>4, AroundTag
<1>6. x \in Seq(AllEvents) /\ y \in Seq(AllEvents)
  BY <1>1, <1>5, DeltaType, EventTypes
<1> HIDE DEF x, y
<1>7. d \in Seq(AllEvents) /\ e \o d \in Seq(AllEvents) /\ (e \o x) \o y = e \o d
  <2>1. d \in Seq(AllEvents)
    BY <1>6, ConcatProperties
  <2>2. (e \o x) \o y = e \o d
    <3> HIDE DEF e
    <3> QED
      BY <1>1, <1>6, ConcatAssociative
  <2> HIDE DEF d
  <2>3. e \o d \in Seq(AllEvents)
    BY <1>1, <2>1, ConcatProperties
  <2> QED
    BY <2>1, <2>2, <2>3
<1>8. PassTag(s, t) = r
  <2> DEFINE z == (e \o x) \o y
  <2>1. PassTag(s, t) = [s EXCEPT !.buffer = k, !.mode = ModeAfter(t), !.events = z]
    BY DEF PassTag, x, y
  <2> HIDE DEF k, z
  <2>2. [s EXCEPT !.buffer = k, !.mode = ModeAfter(t), !.events = z]
          = [buffer |-> k, mode |-> ModeAfter(t), events |-> z, status |-> s.status]
    BY EditPass, ZenonT(30)
  <2>3. z = e \o d
    BY <1>7 DEF z
  <2> QED
    BY <2>1, <2>2, <2>3
<1> HIDE DEF k, d
<1>9. r \in Scanning
  BY <1>4, <1>5, <1>7 DEF Scanning
<1>10. /\ r.status = "loop" /\ r.buffer = k /\ r.mode = ModeAfter(t) /\ r.events = e \o d
  OBVIOUS
<1> HIDE DEF r
<1>11. \A w \in AllTexts : Events(s.buffer \o w, s.mode) = d \o Events(r.buffer \o w, r.mode)
  BY <1>3, <1>10
<1>12. Turned(s, r)
  <2>1. r.status = "loop" => Len(r.buffer) < Len(s.buffer)
    BY <1>5, <1>10
  <2>2. r.status = "break" => Settled(r.buffer, r.mode)
    BY <1>10
  <2>3. r.events = s.events \o d
    BY <1>10
  <2>4. r.status \in {"loop", "break"}
    BY <1>10
  <2> QED
    BY <1>7, <1>9, <1>11, <2>1, <2>2, <2>3, <2>4, TurnsInto
<1> QED
  BY <1>8, <1>12 DEF t

LEMMA TurnTurns ==
  ASSUME NEW s \in Scanning, s.status = "loop"
  PROVE  Turned(s, Turn(s))
<1>1. s.mode \in Modes /\ s.buffer \in AllTexts
  BY DEF Scanning
<1>2. CASE \A t \in TagsOf(s.mode) : ~ Has(t, s.buffer)
  <2>1. Turn(s) = Flush(s)
    BY <1>2 DEF Turn
  <2> QED
    BY <1>2, <2>1, FlushTurns
<1>3. CASE s.mode = "ToolCall" /\ \E t \in TagsOf(s.mode) : Has(t, s.buffer)
  <2>1. Turn(s) = CloseCall(s)
    BY <1>3 DEF Turn
  <2>2. Has(CloseTool, s.buffer)
    BY <1>3 DEF TagsOf
  <2> QED
    BY <1>3, <2>1, <2>2, CallTurns
<1>4. CASE s.mode # "ToolCall" /\ \E t \in TagsOf(s.mode) : Has(t, s.buffer)
  <2>1. Turn(s) = PassTag(s, Earliest(TagsOf(s.mode), s.buffer))
    BY <1>4 DEF Turn
  <2> QED
    BY <1>4, <2>1, TagTurns
<1> QED
  BY <1>2, <1>3, <1>4

-----------------------------------------------------------------------------
\* The turns of one call of feed.
Turns(f, n, first) ==
  f = [i \in 0..n |-> IF i = 0 THEN first ELSE Turn(f[i - 1])]

LEMMA TurnsExist ==
  ASSUME NEW first, NEW n \in Nat
  PROVE  \E f : Turns(f, n, first)
<1> DEFINE T == {k \in Nat : ~ \E f : Turns(f, k, first)}
<1>1. SUFFICES ASSUME T # {} PROVE FALSE
  BY <1>1
<1>2. PICK k \in T : \A j \in T : k <= j
  <2>1. T \subseteq Nat
    OBVIOUS
  <2> HIDE DEF T
  <2> QED
    BY <1>1, <2>1, Least
<1>3. k \in Nat /\ ~ \E f : Turns(f, k, first)
  BY <1>2
<1>4. CASE k = 0
  <2> DEFINE f == [i \in 0..0 |-> first]
  <2>1. f = [i \in 0..0 |-> IF i = 0 THEN first ELSE Turn(f[i - 1])]
    <3>1. \A i \in 0..0 : first = IF i = 0 THEN first ELSE Turn(f[i - 1])
      OBVIOUS
    <3> QED
      BY <3>1
  <2> HIDE DEF f
  <2>2. Turns(f, k, first)
    BY <1>4, <2>1 DEF Turns
  <2> QED
    BY <1>3, <2>2
<1>5. CASE k # 0
  <2>1. k - 1 \in Nat /\ ~ (k <= k - 1)
    BY <1>3, <1>5
  <2>2. k - 1 \notin T
    <3> HIDE DEF T
    <3> QED
      BY <1>2, <2>1
  <2>3. PICK g : Turns(g, k - 1, first)
    BY <2>1, <2>2
  <2> DEFINE last == Turn(g[k - 1])
             f == [i \in 0..k |-> IF i = k THEN last ELSE g[i]]
  <2>4. \A i \in 0..k : f[i] = IF i = k THEN last ELSE g[i]
    OBVIOUS
  <2>5. DOMAIN f = 0..k /\ f = [i \in 0..k |-> f[i]]
    OBVIOUS
  <2>6. ASSUME NEW i \in 0..k
        PROVE  f[i] = IF i = 0 THEN first ELSE Turn(f[i - 1])
    <3> HIDE DEF f, last
    <3>1. CASE i = 0
      <4>1. f[i] = g[i] /\ i \in 0..(k - 1)
        BY <1>3, <1>5, <2>1, <2>4, <3>1
      <4>2. g[i] = first
        BY <2>3, <3>1, <4>1 DEF Turns
      <4> QED
        BY <3>1, <4>1, <4>2
    <3>2. CASE i # 0
      <4>1. /\ i - 1 \in 0..k /\ i - 1 # k /\ i - 1 \in 0..(k - 1)
        BY <1>3, <3>2
      <4>2. f[i - 1] = g[i - 1]
        BY <2>4, <4>1
      <4>3. CASE i = k
        BY <2>4, <3>2, <4>2, <4>3 DEF last
      <4>4. CASE i # k
        <5>1. i \in 0..(k - 1) /\ f[i] = g[i]
          BY <1>3, <2>4, <4>4
        <5>2. g[i] = Turn(g[i - 1])
          BY <2>3, <3>2, <5>1 DEF Turns
        <5> QED
          BY <3>2, <4>2, <5>1, <5>2
      <4> QED
        BY <4>3, <4>4
    <3> QED
      BY <3>1, <3>2
  <2> HIDE DEF f
  <2>7. Turns(f, k, first)
    BY <2>5, <2>6 DEF Turns
  <2> QED
    BY <1>3, <2>7
<1> QED
  BY <1>4, <1>5

\* feed ends, holding back no more than it has to, and has delivered what
\* reading the buffer delivers; or reading meets a tool call that does not parse.
LEMMA FedReads ==
  ASSUME NEW b \in AllTexts, NEW m \in Modes
  PROVE  LET r == Fed(b, m)
         IN  /\ r \in Scanning /\ r.status \in {"break", "error"}
             /\ r.status = "break" => Settled(r.buffer, r.mode) /\ Delivers(b, m, r)
             /\ r.status = "error" => Spoils(b, m)
<1> DEFINE first == [buffer |-> b, mode |-> m, events |-> <<>>, status |-> "loop"]
           n == Len(b) + 1
           f == CHOOSE f : Turns(f, n, first)
<1>1. Len(b) \in Nat /\ n \in Nat
  BY LenProperties DEF AllTexts
<1>2. Fed(b, m) = f[n]
  BY DEF Fed, Turns
<1>3. first \in Scanning
  BY DEF Scanning
<1>4. Delivers(b, m, first)
  <2>1. ASSUME NEW w \in AllTexts PROVE Events(b \o w, m) = <<>> \o Events(b \o w, m)
    <3>1. b \o w \in AllTexts
      BY ConcatProperties DEF AllTexts
    <3>2. Events(b \o w, m) \in Seq(AllEvents)
      BY <3>1, EventsType
    <3> QED
      BY <3>2, ConcatEmptySeq
  <2> QED
    BY <2>1 DEF Delivers
<1>5. first.status = "loop" /\ first.buffer = b
  OBVIOUS
<1> HIDE DEF first, n
<1>6. Turns(f, n, first)
  BY <1>1, TurnsExist
<1> HIDE DEF f
<1>7. f[0] = first /\ \A i \in 1..n : f[i] = Turn(f[i - 1])
  <2>1. 0 \in 0..n /\ \A i \in 1..n : i \in 0..n /\ i # 0
    BY <1>1
  <2> QED
    BY <1>6, <2>1 DEF Turns
<1> DEFINE P(i) == /\ f[i] \in Scanning
                   /\ f[i].status = "loop" => Len(f[i].buffer) <= Len(b) - i
                   /\ f[i].status = "break" => Settled(f[i].buffer, f[i].mode)
                   /\ IF f[i].status = "error" THEN Spoils(b, m) ELSE Delivers(b, m, f[i])
           T == {i \in 0..n : ~ P(i)}
<1>8. P(0)
  BY <1>1, <1>3, <1>4, <1>5, <1>7
<1>9. ASSUME NEW i \in 1..n, P(i - 1) PROVE P(i)
  <2> DEFINE s == f[i - 1]
             r == f[i]
  <2>1. r = Turn(s)
    BY <1>7
  <2>2. s \in Scanning
    BY <1>9
  <2>3. s.status = "loop" => Len(s.buffer) <= Len(b) - (i - 1)
    BY <1>9
  <2>4. s.status = "break" => Settled(s.buffer, s.mode)
    BY <1>9
  <2>5. IF s.status = "error" THEN Spoils(b, m) ELSE Delivers(b, m, s)
    BY <1>9
  <2> HIDE DEF s, r
  <2>6. CASE s.status # "loop"
    <3>1. r = s
      BY <2>1, <2>6 DEF Turn
    <3> QED
      BY <2>2, <2>4, <2>5, <2>6, <3>1 DEF r
  <2>7. CASE s.status = "loop"
    <3>1. Turned(s, r)
      BY <2>1, <2>2, <2>7, TurnTurns
    <3>2. r \in Scanning /\ (r.status = "break" => Settled(r.buffer, r.mode))
      BY <3>1 DEF Turned
    <3>3. IF r.status = "error" THEN Spoils(b, m) ELSE Delivers(b, m, r)
      BY <2>5, <2>7, <3>1 DEF Turned
    <3>4. r.status = "loop" => Len(r.buffer) <= Len(b) - i
      <4>1. r.status = "loop" => Len(r.buffer) < Len(s.buffer)
        BY <3>1 DEF Turned
      <4>2. r.buffer \in AllTexts /\ s.buffer \in AllTexts
        BY <2>2, <3>2 DEF Scanning
      <4>3. Len(r.buffer) \in Nat /\ Len(s.buffer) \in Nat
        BY <4>2, LenProperties DEF AllTexts
      <4> QED
        BY <1>1, <2>3, <2>7, <4>1, <4>3
    <3> QED
      BY <3>2, <3>3, <3>4 DEF r
  <2> QED
    BY <2>6, <2>7
<1> HIDE DEF P
<1>10. P(n)
  <2>1. SUFFICES ASSUME T # {} PROVE FALSE
    BY <1>1
  <2>2. T \subseteq Nat
    BY <1>1
  <2>3. PICK i \in T : \A j \in T : i <= j
    <3> HIDE DEF T
    <3> QED
      BY <2>1, <2>2, Least
  <2>4. i \in 1..n
    BY <1>1, <1>8, <2>3
  <2>5. i - 1 \in 0..n /\ ~ (i <= i - 1)
    BY <1>1, <2>4
  <2>6. i - 1 \notin T
    <3> HIDE DEF T
    <3> QED
      BY <2>3, <2>5
  <2>7. P(i - 1)
    BY <2>5, <2>6
  <2> QED
    BY <1>9, <2>3, <2>4, <2>7
<1> DEFINE r == f[n]
<1>11. /\ r \in Scanning
       /\ r.status = "loop" => Len(r.buffer) <= Len(b) - n
       /\ r.status = "break" => Settled(r.buffer, r.mode)
       /\ IF r.status = "error" THEN Spoils(b, m) ELSE Delivers(b, m, r)
  BY <1>10 DEF P
<1> HIDE DEF r
<1>12. r.status # "loop"
  <2>1. r.buffer \in AllTexts
    BY <1>11 DEF Scanning
  <2>2. Len(r.buffer) \in Nat
    BY <2>1, LenProperties DEF AllTexts
  <2>3. Len(b) - n < 0
    BY <1>1 DEF n
  <2> QED
    BY <1>1, <1>11, <2>2, <2>3
<1>13. r.status \in {"loop", "break", "error"}
  BY <1>11 DEF Scanning
<1> QED
  BY <1>2, <1>11, <1>12, <1>13 DEF r

-----------------------------------------------------------------------------
(***************************************************************************)
(* The inductive invariant of the scanner: whatever may still be fed, the  *)
(* events so far and the reading of what is held back with it are the      *)
(* reading of all that was fed with it.                                    *)
(***************************************************************************)
ScannerTypes ==
  /\ text \in AllTexts /\ fed \in 0..Len(text) /\ primed \in BOOLEAN
  /\ mode \in Modes /\ buffer \in AllTexts /\ out \in Seq(AllEvents)
  /\ ended \in BOOLEAN /\ failed \in BOOLEAN

ReadsOn ==
  \A w \in AllTexts :
    Events(SubSeq(text, 1, fed) \o w, FirstMode) = out \o Events(buffer \o w, mode)

ScannerInv ==
  /\ ScannerTypes
  /\ ended => buffer = <<>> /\ fed = Len(text)
  /\ ~ failed /\ ~ ended => ReadsOn /\ Settled(buffer, mode)
  /\ ~ failed /\ ended => out = Events(text, FirstMode)
  /\ failed => Spoiled(Events(text, FirstMode))

\* A scanner that was just made.
Fresh ==
  /\ fed = 0 /\ buffer = <<>> /\ out = <<>> /\ mode = FirstMode
  /\ ended = FALSE /\ failed = FALSE

LEMMA FreshIsSound ==
  ASSUME Fresh, text \in AllTexts, primed \in BOOLEAN
  PROVE  ScannerInv
<1>1. /\ FirstMode \in Modes /\ <<>> \in AllTexts /\ Len(text) \in Nat
      /\ <<>> \in Seq(AllEvents) /\ Len(<<>>) = 0
  BY LenProperties, EmptySeq DEF FirstMode, Modes, AllTexts
<1>2. ScannerTypes
  <2>1. ended \in BOOLEAN /\ failed \in BOOLEAN
    BY DEF Fresh
  <2>2. fed \in 0..Len(text)
    BY <1>1 DEF Fresh
  <2>3. mode \in Modes /\ buffer \in AllTexts /\ out \in Seq(AllEvents)
    BY <1>1 DEF Fresh
  <2> QED
    BY <2>1, <2>2, <2>3 DEF ScannerTypes
<1>3. SubSeq(text, 1, 0) = <<>>
  BY SubSeqEmpty
<1>4. ReadsOn
  <2>1. ASSUME NEW w \in AllTexts
        PROVE  Events(<<>> \o w, FirstMode) = <<>> \o Events(<<>> \o w, FirstMode)
    <3>1. <<>> \o w = w
      BY ConcatEmptySeq DEF AllTexts
    <3>2. Events(w, FirstMode) \in Seq(AllEvents)
      BY <1>1, EventsType
    <3>3. <<>> \o Events(w, FirstMode) = Events(w, FirstMode)
      BY <3>2, ConcatEmptySeq
    <3> QED
      BY <3>1, <3>3
  <2> QED
    BY <1>3, <2>1 DEF ReadsOn, Fresh
<1>5. Settled(buffer, mode)
  <2>1. \A t : ~ Has(t, <<>>)
    BY <1>1 DEF Has
  <2> QED
    BY <2>1 DEF Settled, Fresh
<1> QED
  BY <1>2, <1>4, <1>5 DEF ScannerInv, Fresh

LEMMA NoTagsReads ==
  ASSUME NEW b \in AllTexts, NEW m \in Modes, m # "ToolCall", \A t \in TagsOf(m) : ~ Has(t, b)
  PROVE  Events(b, m) = Delta(m, b)
<1> DEFINE n == Len(b)
<1>1. n \in Nat /\ n \in 0..Len(b)
  BY LenProperties DEF AllTexts
<1>2. \A i \in 1..n : \A t \in TagsOf(m) : ~ Occurs(t, b, i)
  BY DEF Has
<1>3. Events(b, m) = Delta(m, SubSeq(b, 1, n)) \o Events(Kept(b, n), m)
  BY <1>1, <1>2, ReadsFree
<1>4. SubSeq(b, 1, n) = b
  <2>1. /\ SubSeq(b, 1, n) \in AllTexts /\ Len(SubSeq(b, 1, n)) = Len(b)
        /\ \A i \in 1..Len(b) : SubSeq(b, 1, n)[i] = b[i]
    BY <1>1, FrontText DEF AllTexts
  <2> QED
    BY <2>1, SeqEqual DEF AllTexts
<1>5. Kept(b, n) = <<>>
  <2>1. Kept(b, n) \in AllTexts /\ Len(Kept(b, n)) = Len(b) - n
    BY <1>1, KeptText DEF AllTexts
  <2>2. Len(Kept(b, n)) = 0
    BY <1>1, <2>1
  <2> QED
    BY <2>1, <2>2, EmptySeq DEF AllTexts
<1>6. Events(<<>>, m) = <<>>
  <2>1. <<>> \in AllTexts /\ Ending(<<>>, m)
    BY DEF Ending, AllTexts
  <2> QED
    BY <2>1, ReadsEnd
<1>7. Delta(m, b) \o <<>> = Delta(m, b)
  <2>1. Delta(m, b) \in Seq(AllEvents)
    BY DeltaType
  <2> QED
    BY <2>1, ConcatEmptySeq
<1> QED
  BY <1>3, <1>4, <1>5, <1>6, <1>7

\* At the end nothing of a settled buffer is lost.
LEMMA SettledReads ==
  ASSUME NEW b \in AllTexts, NEW m \in Modes, Settled(b, m)
  PROVE  Events(b, m) = LastEvents(m, b)
<1>1. CASE m = "ToolCall"
  <2>1. ~ Has(CloseTool, b)
    BY <1>1 DEF Settled, TagsOf
  <2>2. Ending(b, m)
    BY <1>1, <2>1 DEF Ending
  <2> QED
    BY <1>1, <2>2, ReadsEnd DEF LastEvents
<1>2. CASE m # "ToolCall"
  BY <1>2, NoTagsReads DEF Settled, LastEvents
<1> QED
  BY <1>1, <1>2

LEMMA FeedIsSound ==
  ASSUME ScannerInv, Feed
  PROVE  ScannerInv'
<1>1. PICK n \in (fed + 1)..Len(text) :
        LET r == Fed(buffer \o SubSeq(text, fed + 1, n), mode) IN
        /\ ~ended
        /\ fed' = n /\ buffer' = r.buffer /\ mode' = r.mode
        /\ out' = IF r.status = "error" THEN out ELSE out \o r.events
        /\ failed' = (failed \/ r.status = "error")
        /\ UNCHANGED <<text, primed, ended>>
  BY DEF Feed
<1> DEFINE c == SubSeq(text, fed + 1, n)
           b == buffer \o c
           r == Fed(b, mode)
           a == SubSeq(text, 1, fed)
<1>2. /\ ~ended /\ fed' = n /\ buffer' = r.buffer /\ mode' = r.mode
      /\ out' = (IF r.status = "error" THEN out ELSE out \o r.events)
      /\ failed' = (failed \/ r.status = "error")
      /\ text' = text /\ primed' = primed /\ ended' = ended
  BY <1>1
<1>3. /\ text \in AllTexts /\ fed \in 0..Len(text) /\ primed \in BOOLEAN
      /\ mode \in Modes /\ buffer \in AllTexts /\ out \in Seq(AllEvents)
      /\ ended \in BOOLEAN /\ failed \in BOOLEAN
  BY DEF ScannerInv, ScannerTypes
<1>4. Len(text) \in Nat
  BY <1>3, LenProperties DEF AllTexts
<1>5. /\ 1 \in 1..(Len(text) + 1) /\ fed \in (1 - 1)..Len(text) /\ n \in fed..Len(text)
      /\ n \in 0..Len(text)
  BY <1>3, <1>4
<1>6. a \o c = SubSeq(text, 1, n)
  BY <1>3, <1>5, ConcatAdjacentSubSeq DEF AllTexts
<1>7. a \in AllTexts
  BY <1>3, FrontText DEF AllTexts
<1>8. c \in AllTexts
  <2>1. \A i \in (fed + 1)..n : text[i] \in Characters
    BY <1>3, <1>4, ElementOfSeq DEF AllTexts
  <2> QED
    BY <1>3, <1>4, <2>1, SubSeqProperties DEF AllTexts
<1> HIDE DEF a, c
<1>9. b \in AllTexts
  BY <1>3, <1>8, ConcatProperties DEF AllTexts
<1> HIDE DEF b
<1>10. /\ r \in Scanning /\ r.status \in {"break", "error"}
       /\ r.status = "break" => Settled(r.buffer, r.mode) /\ Delivers(b, mode, r)
       /\ r.status = "error" => Spoils(b, mode)
  BY <1>3, <1>9, FedReads
<1> HIDE DEF r
<1>11. r.buffer \in AllTexts /\ r.mode \in Modes /\ r.events \in Seq(AllEvents)
  BY <1>10 DEF Scanning
<1>12. out \o r.events \in Seq(AllEvents)
  BY <1>3, <1>11, ConcatProperties
<1>13. ScannerTypes'
  <2>1. failed' \in BOOLEAN /\ out' \in Seq(AllEvents)
    BY <1>2, <1>3, <1>12
  <2> QED
    BY <1>2, <1>3, <1>5, <1>11, <2>1 DEF ScannerTypes
<1>14. ASSUME ~ failed' PROVE ReadsOn' /\ Settled(buffer', mode')
  <2>1. ~ failed /\ r.status # "error" /\ r.status = "break"
    BY <1>2, <1>3, <1>10, <1>14
  <2>2. Settled(r.buffer, r.mode) /\ Delivers(b, mode, r)
    BY <1>10, <2>1
  <2>3. ReadsOn
    BY <1>2, <2>1 DEF ScannerInv
  <2>4. out' = out \o r.events
    BY <1>2, <2>1
  <2>5. ASSUME NEW w \in AllTexts
        PROVE  Events(SubSeq(text, 1, n) \o w, FirstMode)
                 = (out \o r.events) \o Events(r.buffer \o w, r.mode)
    <3> DEFINE z == Events(r.buffer \o w, r.mode)
               e == r.events
    <3>1. c \o w \in AllTexts
      BY <1>8, ConcatProperties DEF AllTexts
    <3>2. Events(a \o (c \o w), FirstMode) = out \o Events(buffer \o (c \o w), mode)
      BY <2>3, <3>1 DEF ReadsOn, a
    <3>3. a \o (c \o w) = SubSeq(text, 1, n) \o w
      <4>1. (a \o c) \o w = a \o (c \o w)
        BY <1>7, <1>8, ConcatAssociative, SMTT(30) DEF AllTexts
      <4> QED
        BY <1>6, <4>1
    <3>4. buffer \o (c \o w) = b \o w
      <4>1. \A x, y, v \in AllTexts : (x \o y) \o v = x \o (y \o v)
        BY ConcatAssociative, SMTT(30) DEF AllTexts
      <4>2. buffer \in AllTexts
        BY <1>3
      <4>3. (buffer \o c) \o w = buffer \o (c \o w)
        BY <1>8, <4>1, <4>2
      <4> QED
        BY <4>3 DEF b
    <3>5. Events(b \o w, mode) = e \o z
      BY <2>2 DEF Delivers
    <3>6. z \in Seq(AllEvents) /\ e \in Seq(AllEvents)
      <4>1. r.buffer \o w \in AllTexts
        BY <1>11, ConcatProperties DEF AllTexts
      <4> QED
        BY <1>11, <4>1, EventsType
    <3> HIDE DEF z, e
    <3>7. (out \o e) \o z = out \o (e \o z)
      BY <1>3, <3>6, ConcatAssociative
    <3>8. Events(SubSeq(text, 1, n) \o w, FirstMode) = (out \o e) \o z
      BY <3>2, <3>3, <3>4, <3>5, <3>7
    <3> QED
      BY <3>8 DEF e, z
  <2>6. FirstMode' = FirstMode
    BY <1>2 DEF FirstMode
  <2>7. ReadsOn'
    <3>1. ASSUME NEW w \in AllTexts
          PROVE  Events(SubSeq(text', 1, fed') \o w, FirstMode')
                   = out' \o Events(buffer' \o w, mode')
      BY <1>2, <2>4, <2>5, <2>6
    <3> QED
      BY <3>1 DEF ReadsOn
  <2> QED
    BY <1>2, <2>2, <2>7
<1>15. ASSUME failed' PROVE Spoiled(Events(text, FirstMode))
  <2>1. CASE failed
    BY <2>1 DEF ScannerInv
  <2>2. CASE ~ failed
    <3> DEFINE w == SubSeq(text, n + 1, Len(text))
               z == Events(b \o w, mode)
    <3>1. r.status = "error" /\ Spoils(b, mode) /\ ReadsOn
      BY <1>2, <1>10, <1>15, <2>2 DEF ScannerInv
    <3>2. w \in AllTexts
      <4>1. w = Kept(text, n)
        BY DEF Kept
      <4> QED
        BY <1>3, <1>5, <4>1, KeptText DEF AllTexts
    <3>3. SubSeq(text, 1, n) \o w = text
      <4>1. SubSeq(text, 1, n) \o Kept(text, n) = text
        BY <1>3, <1>5, FrontAndKept DEF AllTexts
      <4> QED
        BY <4>1 DEF Kept
    <3> HIDE DEF w
    <3>4. c \o w \in AllTexts
      BY <1>8, <3>2, ConcatProperties DEF AllTexts
    <3>5. Events(a \o (c \o w), FirstMode) = out \o Events(buffer \o (c \o w), mode)
      BY <3>1, <3>4 DEF ReadsOn, a
    <3>6. \A x, y, v \in AllTexts : (x \o y) \o v = x \o (y \o v)
      BY ConcatAssociative, SMTT(30) DEF AllTexts
    <3>7. a \o (c \o w) = text
      <4>1. (a \o c) \o w = a \o (c \o w)
        BY <1>7, <1>8, <3>2, <3>6
      <4> QED
        BY <1>6, <3>3, <4>1
    <3>8. buffer \o (c \o w) = b \o w
      <4>1. buffer \in AllTexts
        BY <1>3
      <4>2. (buffer \o c) \o w = buffer \o (c \o w)
        BY <1>8, <3>2, <3>6, <4>1
      <4> QED
        BY <4>2 DEF b
    <3>9. Events(text, FirstMode) = out \o z
      BY <3>5, <3>7, <3>8
    <3>10. z \in Seq(AllEvents) /\ Spoiled(z)
      <4>1. b \o w \in AllTexts
        BY <1>9, <3>2, ConcatProperties DEF AllTexts
      <4> QED
        BY <1>3, <3>1, <3>2, <4>1, EventsType DEF Spoils
    <3> HIDE DEF z
    <3> QED
      BY <1>3, <3>9, <3>10, SpoiledConcat
  <2> QED
    BY <2>1, <2>2
<1>16. FirstMode' = FirstMode
  BY <1>2 DEF FirstMode
<1> QED
  BY <1>2, <1>13, <1>14, <1>15, <1>16 DEF ScannerInv

LEMMA FinishIsSound ==
  ASSUME ScannerInv, Finish
  PROVE  ScannerInv'
<1>1. /\ fed = Len(text) /\ ~ended
      /\ out' = out \o LastEvents(mode, buffer)
      /\ buffer' = <<>> /\ ended' = TRUE
      /\ text' = text /\ primed' = primed /\ fed' = fed /\ mode' = mode /\ failed' = failed
  BY DEF Finish
<1>2. /\ text \in AllTexts /\ fed \in 0..Len(text) /\ primed \in BOOLEAN
      /\ mode \in Modes /\ buffer \in AllTexts /\ out \in Seq(AllEvents)
      /\ ended \in BOOLEAN /\ failed \in BOOLEAN
  BY DEF ScannerInv, ScannerTypes
<1>3. LastEvents(mode, buffer) \in Seq(AllEvents)
  BY <1>2, DeltaType, EmptySeq DEF LastEvents
<1>4. out' \in Seq(AllEvents) /\ <<>> \in AllTexts
  BY <1>1, <1>2, <1>3, ConcatProperties DEF AllTexts
<1>5. ScannerTypes'
  BY <1>1, <1>2, <1>4 DEF ScannerTypes
<1>6. FirstMode' = FirstMode
  BY <1>1 DEF FirstMode
<1>7. ASSUME ~ failed PROVE out' = Events(text, FirstMode)
  <2>1. ReadsOn /\ Settled(buffer, mode)
    BY <1>1, <1>7 DEF ScannerInv
  <2>2. Events(buffer, mode) = LastEvents(mode, buffer)
    BY <1>2, <2>1, SettledReads
  <2>3. SubSeq(text, 1, fed) = text
    <3>1. /\ SubSeq(text, 1, fed) \in AllTexts /\ Len(SubSeq(text, 1, fed)) = fed
          /\ \A i \in 1..fed : SubSeq(text, 1, fed)[i] = text[i]
      BY <1>2, FrontText DEF AllTexts
    <3> QED
      BY <1>1, <1>2, <3>1, SeqEqual DEF AllTexts
  <2>4. <<>> \in AllTexts /\ text \o <<>> = text /\ buffer \o <<>> = buffer
    BY <1>2, ConcatEmptySeq DEF AllTexts
  <2>5. Events(SubSeq(text, 1, fed) \o <<>>, FirstMode) = out \o Events(buffer \o <<>>, mode)
    BY <2>1, <2>4 DEF ReadsOn
  <2> QED
    BY <1>1, <2>2, <2>3, <2>4, <2>5
<1> QED
  BY <1>1, <1>5, <1>6, <1>7 DEF ScannerInv

LEMMA ScannerInvHolds == ConversationSpec => []ScannerInv
<1>1. ConversationInit => ScannerInv
  <2>1. SUFFICES ASSUME ConversationInit PROVE ScannerInv
    OBVIOUS
  <2>2. Init
    BY <2>1 DEF ConversationInit
  <2>3. text \in AllTexts /\ primed \in BOOLEAN
    BY <2>2, TextsAssumption DEF Init, AllTexts
  <2>4. Fresh
    BY <2>2 DEF Init, Fresh, FirstMode
  <2> QED
    BY <2>3, <2>4, FreshIsSound
<1>2. ScannerInv /\ [ConversationNext]_<<vars, conversation>> => ScannerInv'
  <2>1. SUFFICES ASSUME ScannerInv, [ConversationNext]_<<vars, conversation>>
                 PROVE  ScannerInv'
    OBVIOUS
  <2>2. CASE UNCHANGED vars
    BY <2>1, <2>2 DEF ScannerInv, ScannerTypes, ReadsOn, FirstMode, vars
  <2>3. CASE Request
    BY <2>2, <2>3 DEF Request
  <2>4. CASE FeedAnswer
    BY <2>1, <2>4, FeedIsSound DEF FeedAnswer
  <2>5. CASE FinishAnswer
    BY <2>1, <2>5, FinishIsSound DEF FinishAnswer
  <2>6. CASE KeepAnswer
    BY <2>2, <2>6 DEF KeepAnswer
  <2>7. CASE HangUp
    <3>1. /\ fed' = 0 /\ buffer' = <<>> /\ mode' = FirstMode /\ out' = <<>>
          /\ ended' = FALSE /\ failed' = FALSE /\ text' = text /\ primed' = primed
      BY <2>7 DEF HangUp
    <3>2. Fresh'
      BY <3>1 DEF Fresh, FirstMode
    <3>3. text' \in AllTexts /\ primed' \in BOOLEAN
      BY <2>1, <3>1 DEF ScannerInv, ScannerTypes
    <3>4. Fresh' /\ (text \in AllTexts)' /\ (primed \in BOOLEAN)' => ScannerInv'
      BY FreshIsSound, PTL
    <3> QED
      BY <3>2, <3>3, <3>4
  <2>8. CASE ClientAdds
    BY <2>2, <2>8 DEF ClientAdds
  <2>9. CASE UNCHANGED <<vars, conversation>>
    BY <2>2, <2>9
  <2> QED
    BY <2>1, <2>3, <2>4, <2>5, <2>6, <2>7, <2>8, <2>9 DEF ConversationNext
<1> QED
  BY <1>1, <1>2, PTL DEF ConversationSpec

(***************************************************************************)
(* The scanner, under every way of cutting an answer into chunks: the      *)
(* events delivered and those finish would add are those of reading in one *)
(* piece all that was fed, as long as every tool call parsed.              *)
(***************************************************************************)
THEOREM ChunksNeverMatter == ConversationSpec => []ChunksDontMatter
<1>1. ScannerInv => ChunksDontMatter
  <2>1. SUFFICES ASSUME ScannerInv, ~ failed
                 PROVE  /\ out \o LastEvents(mode, buffer)
                             = Events(SubSeq(text, 1, fed), FirstMode)
                        /\ \/ mode = "ToolCall" \/ buffer = <<>>
                           \/ \E t \in TagsOf(mode) : IsStrictPrefix(buffer, t)
    BY DEF ChunksDontMatter
  <2>2. /\ text \in AllTexts /\ fed \in 0..Len(text) /\ mode \in Modes
        /\ buffer \in AllTexts /\ out \in Seq(AllEvents)
    BY <2>1 DEF ScannerInv, ScannerTypes
  <2>3. SubSeq(text, 1, fed) \in AllTexts
    BY <2>2, FrontText DEF AllTexts
  <2>4. CASE ~ ended
    <3>1. ReadsOn /\ Settled(buffer, mode)
      BY <2>1, <2>4 DEF ScannerInv
    <3>2. Events(buffer, mode) = LastEvents(mode, buffer)
      BY <2>2, <3>1, SettledReads
    <3>3. /\ <<>> \in AllTexts /\ buffer \o <<>> = buffer
          /\ SubSeq(text, 1, fed) \o <<>> = SubSeq(text, 1, fed)
      BY <2>2, <2>3, ConcatEmptySeq DEF AllTexts
    <3>4. Events(SubSeq(text, 1, fed) \o <<>>, FirstMode) = out \o Events(buffer \o <<>>, mode)
      BY <3>1, <3>3 DEF ReadsOn
    <3> QED
      BY <3>1, <3>2, <3>3, <3>4 DEF Settled
  <2>5. CASE ended
    <3>1. buffer = <<>> /\ fed = Len(text) /\ out = Events(text, FirstMode)
      BY <2>1, <2>5 DEF ScannerInv
    <3>2. SubSeq(text, 1, fed) = text
      <4>1. /\ Len(SubSeq(text, 1, fed)) = fed
            /\ \A i \in 1..fed : SubSeq(text, 1, fed)[i] = text[i]
        BY <2>2, FrontText DEF AllTexts
      <4> QED
        BY <2>2, <2>3, <3>1, <4>1, SeqEqual DEF AllTexts
    <3>3. LastEvents(mode, buffer) = <<>>
      <4>1. Delta(mode, <<>>) \in Seq(AllEvents) /\ Len(Delta(mode, <<>>)) = 0
        BY <2>2, <3>1, DeltaType, EmptySeq
      <4>2. Delta(mode, <<>>) = <<>>
        BY <4>1, EmptySeq
      <4> QED
        BY <3>1, <4>2 DEF LastEvents
    <3>4. out \o <<>> = out
      BY <2>2, ConcatEmptySeq
    <3> QED
      BY <3>1, <3>2, <3>3, <3>4
  <2> QED
    BY <2>4, <2>5
<1>2. ConversationSpec => []ScannerInv
  BY ScannerInvHolds
<1> QED
  BY <1>1, <1>2, PTL

-----------------------------------------------------------------------------
\* What FlattenSeq computes: f[i] is the first i sequences, put together.
Flattens(f, ss) ==
  f = [i \in 1..Len(ss) |-> IF i = 1 THEN ss[i] ELSE f[i - 1] \o ss[i]]

LEMMA FlattenUnique ==
  ASSUME NEW ss, Len(ss) \in Nat, NEW f, NEW g, Flattens(f, ss), Flattens(g, ss)
  PROVE  f = g
<1> DEFINE T == {i \in 1..Len(ss) : f[i] # g[i]}
<1>1. \A i \in 1..Len(ss) : /\ f[i] = IF i = 1 THEN ss[i] ELSE f[i - 1] \o ss[i]
                            /\ g[i] = IF i = 1 THEN ss[i] ELSE g[i - 1] \o ss[i]
  BY DEF Flattens
<1>2. T = {}
  <2> SUFFICES ASSUME T # {}
               PROVE  FALSE
    OBVIOUS
  <2>1. PICK i \in T : \A j \in T : i <= j
    <3>1. T \subseteq Nat
      OBVIOUS
    <3> HIDE DEF T
    <3> QED
      BY <3>1, Least
  <2>2. i \in 1..Len(ss) /\ f[i] # g[i]
    OBVIOUS
  <2>3. i # 1
    BY <2>2, <1>1
  <2>4. i - 1 \in 1..Len(ss) /\ i - 1 \notin T
    BY <2>1, <2>2, <2>3
  <2> QED
    BY <2>2, <2>3, <2>4, <1>1
<1>3. f = [i \in 1..Len(ss) |-> f[i]] /\ g = [i \in 1..Len(ss) |-> g[i]]
  BY DEF Flattens
<1> QED
  BY <1>2, <1>3

LEMMA FlattenIs ==
  ASSUME NEW ss, Len(ss) \in Nat \ {0}, NEW f, Flattens(f, ss)
  PROVE  FlattenSeq(ss) = f[Len(ss)]
<1> DEFINE g == CHOOSE h : Flattens(h, ss)
<1>1. Flattens(g, ss)
  OBVIOUS
<1>2. g = f
  BY <1>1, FlattenUnique
<1>3. FlattenSeq(ss) = g[Len(ss)]
  BY DEF FlattenSeq, Flattens
<1> QED
  BY <1>2, <1>3

\* Every sequence of sequences flattens.
LEMMA FlattenExists ==
  ASSUME NEW S, NEW ss \in Seq(Seq(S))
  PROVE  \E f \in [1..Len(ss) -> Seq(S)] : Flattens(f, ss)
<1> DEFINE n == Len(ss)
           Rule(f, m) == \A i \in 1..m : f[i] = IF i = 1 THEN ss[i] ELSE f[i - 1] \o ss[i]
           T == {m \in 0..n : ~ \E f \in [1..m -> Seq(S)] : Rule(f, m)}
<1>1. n \in Nat /\ \A i \in 1..n : ss[i] \in Seq(S)
  OBVIOUS
<1>2. 0 \notin T
  <2> DEFINE f == [i \in 1..0 |-> <<>>]
  <2>1. f \in [1..0 -> Seq(S)] /\ Rule(f, 0)
    OBVIOUS
  <2> QED
    BY <2>1
<1>3. ASSUME T # {} PROVE FALSE
  <2>1. PICK m \in T : \A k \in T : m <= k
    <3>1. T \subseteq Nat
      BY <1>1
    <3> HIDE DEF T
    <3> QED
      BY <1>3, <3>1, Least
  <2>2. m \in 1..n
    BY <1>1, <1>2
  <2>3. m - 1 \in 0..n /\ m - 1 \notin T
    <3> HIDE DEF T
    <3>1. m - 1 \in 0..n /\ ~ (m <= m - 1)
      BY <1>1, <2>2
    <3> QED
      BY <2>1, <3>1
  <2>4. PICK f \in [1..(m - 1) -> Seq(S)] : Rule(f, m - 1)
    BY <2>3
  <2> DEFINE last == IF m = 1 THEN ss[m] ELSE f[m - 1] \o ss[m]
             g == [i \in 1..m |-> IF i = m THEN last ELSE f[i]]
  <2>5. last \in Seq(S)
    <3>1. CASE m = 1
      BY <3>1, <2>2, <1>1
    <3>2. CASE m # 1
      <4>1. f[m - 1] \in Seq(S) /\ ss[m] \in Seq(S)
        BY <3>2, <2>2, <1>1
      <4>2. f[m - 1] \o ss[m] \in Seq(S)
        BY <4>1, ConcatProperties
      <4> QED
        BY <3>2, <4>2
    <3> QED
      BY <3>1, <3>2
  <2>6. g \in [1..m -> Seq(S)]
    <3> HIDE DEF last
    <3>1. \A i \in 1..m : i # m => i \in 1..(m - 1)
      BY <2>2
    <3> QED
      BY <2>5, <3>1
  <2>7. ASSUME NEW i \in 1..m
        PROVE  g[i] = IF i = 1 THEN ss[i] ELSE g[i - 1] \o ss[i]
    <3>1. CASE i = m
      <4>1. m # 1 => m - 1 \in 1..m /\ m - 1 # m
        BY <2>2
      <4> QED
        BY <3>1, <4>1
    <3>2. CASE i # m
      <4>1. i \in 1..(m - 1) /\ g[i] = f[i]
        BY <3>2, <2>2
      <4>2. i # 1 => i - 1 \in 1..m /\ i - 1 # m
        BY <4>1, <2>2
      <4>3. i # 1 => g[i - 1] = f[i - 1]
        BY <4>2
      <4> QED
        BY <2>4, <4>1, <4>3
    <3> QED
      BY <3>1, <3>2
  <2>8. Rule(g, m)
    BY <2>7
  <2> HIDE DEF g, Rule
  <2> QED
    BY <2>6, <2>8
<1>4. n \in 0..n /\ n \notin T
  <2> HIDE DEF T
  <2> QED
    BY <1>1, <1>3
<1>5. PICK f \in [1..n -> Seq(S)] : Rule(f, n)
  BY <1>4
<1>6. f = [i \in 1..n |-> f[i]]
  OBVIOUS
<1>7. f = [i \in 1..n |-> IF i = 1 THEN ss[i] ELSE f[i - 1] \o ss[i]]
  BY <1>5, <1>6
<1> QED
  BY <1>7 DEF Flattens

\* A sequence put after the others ends the result.
LEMMA FlattenAppend ==
  ASSUME NEW S, NEW ss \in Seq(Seq(S)), NEW s \in Seq(S)
  PROVE  FlattenSeq(ss) \in Seq(S) /\ FlattenSeq(Append(ss, s)) = FlattenSeq(ss) \o s
<1> DEFINE n == Len(ss)
           tt == Append(ss, s)
<1>1. PICK f \in [1..n -> Seq(S)] : Flattens(f, ss)
  BY FlattenExists
<1>2. /\ n \in Nat /\ Len(tt) = n + 1 /\ tt[n + 1] = s
      /\ \A i \in 1..n : tt[i] = ss[i]
  BY AppendProperties
<1>3. \A i \in 1..n : f[i] = IF i = 1 THEN ss[i] ELSE f[i - 1] \o ss[i]
  BY <1>1 DEF Flattens
<1> DEFINE last == IF n = 0 THEN s ELSE f[n] \o s
           g == [i \in 1..(n + 1) |-> IF i = n + 1 THEN last ELSE f[i]]
<1> HIDE DEF tt
<1>4. ASSUME NEW i \in 1..(n + 1)
      PROVE  g[i] = IF i = 1 THEN tt[i] ELSE g[i - 1] \o tt[i]
  <2>1. CASE i = n + 1
    <3>1. n # 0 => n \in 1..(n + 1) /\ n # n + 1 /\ i - 1 = n
      BY <2>1, <1>2
    <3>2. n = 0 => i = 1
      BY <2>1, <1>2
    <3>3. n # 0 => i # 1
      BY <2>1, <1>2
    <3> QED
      BY <2>1, <1>2, <3>1, <3>2, <3>3
  <2>2. CASE i # n + 1
    <3>1. i \in 1..n /\ g[i] = f[i] /\ tt[i] = ss[i]
      BY <2>2, <1>2
    <3>2. i # 1 => i - 1 \in 1..(n + 1) /\ i - 1 # n + 1
      BY <3>1, <1>2
    <3>3. i # 1 => g[i - 1] = f[i - 1]
      BY <3>2
    <3> QED
      BY <3>1, <3>3, <1>3
  <2> QED
    BY <2>1, <2>2
<1>4a. g = [i \in 1..(n + 1) |-> g[i]]
  OBVIOUS
<1> HIDE DEF g
<1>4b. g = [i \in 1..(n + 1) |-> IF i = 1 THEN tt[i] ELSE g[i - 1] \o tt[i]]
  <2>1. [i \in 1..(n + 1) |-> g[i]]
          = [i \in 1..(n + 1) |-> IF i = 1 THEN tt[i] ELSE g[i - 1] \o tt[i]]
    BY <1>4, Zenon
  <2> QED
    BY <1>4a, <2>1, Zenon
<1>5. Flattens(g, tt)
  <2>1. Len(tt) = n + 1
    BY <1>2
  <2> QED
    BY <1>4b, <2>1, Zenon DEF Flattens
<1> USE DEF g
<1>6. FlattenSeq(tt) = g[n + 1]
  BY <1>2, <1>5, FlattenIs, SMTT(30)
<1>7. g[n + 1] = last
  BY <1>2
<1>8. CASE n = 0
  <2>1. ss = <<>> /\ FlattenSeq(ss) = ss
    BY <1>8 DEF FlattenSeq
  <2> QED
    BY <1>6, <1>7, <1>8, <2>1, ConcatEmptySeq, EmptySeq DEF tt
<1>9. CASE n # 0
  <2>1. FlattenSeq(ss) = f[n]
    BY <1>1, <1>2, <1>9, FlattenIs
  <2>2. n \in 1..n
    BY <1>2, <1>9
  <2> QED
    BY <1>6, <1>7, <1>9, <2>1, <2>2 DEF tt
<1> QED
  BY <1>8, <1>9

\* The first sequences flatten to the beginning of what all of them flatten to.
LEMMA FlattenStep ==
  ASSUME NEW S, NEW ss \in Seq(Seq(S)), NEW n \in Nat, n < Len(ss)
  PROVE  /\ FlattenSeq(SubSeq(ss, 1, n)) \in Seq(S)
         /\ ss[n + 1] \in Seq(S)
         /\ FlattenSeq(SubSeq(ss, 1, n + 1)) = FlattenSeq(SubSeq(ss, 1, n)) \o ss[n + 1]
<1> DEFINE a == SubSeq(ss, 1, n)
           b == SubSeq(ss, 1, n + 1)
           T == Seq(S)
<1>1. Len(ss) \in Nat /\ n \in 0..Len(ss) /\ n + 1 \in 1..Len(ss) /\ n + 1 \in 0..Len(ss)
  BY LenProperties
<1>2. /\ a \in Seq(T) /\ Len(a) = n /\ \A i \in 1..n : a[i] = ss[i]
      /\ b \in Seq(T) /\ Len(b) = n + 1 /\ \A i \in 1..(n + 1) : b[i] = ss[i]
  <2> HIDE DEF T
  <2>1. ss \in Seq(T)
    BY DEF T
  <2> QED
    BY <1>1, <2>1, FrontText
<1>3. ss[n + 1] \in T
  BY <1>1, ElementOfSeq
<1> HIDE DEF a, b, T
<1>4. /\ Append(a, ss[n + 1]) \in Seq(T) /\ Len(Append(a, ss[n + 1])) = n + 1
      /\ \A i \in 1..(n + 1) : Append(a, ss[n + 1])[i] = IF i = n + 1 THEN ss[n + 1] ELSE a[i]
  BY <1>2, <1>3, AppendProperties
<1>5. \A i \in 1..(n + 1) : Append(a, ss[n + 1])[i] = b[i]
  <2>1. \A i \in 1..(n + 1) : i # n + 1 => i \in 1..n
    BY <1>1
  <2> QED
    BY <1>2, <1>4, <2>1
<1>6. b = Append(a, ss[n + 1])
  BY <1>2, <1>4, <1>5, SeqEqual
<1>7. FlattenSeq(a) \in Seq(S) /\ FlattenSeq(Append(a, ss[n + 1])) = FlattenSeq(a) \o ss[n + 1]
  BY <1>2, <1>3, FlattenAppend DEF T
<1> QED
  BY <1>3, <1>6, <1>7 DEF a, b, T

LEMMA FlattenFront ==
  ASSUME NEW S, NEW ss \in Seq(Seq(S)), NEW c \in 0..Len(ss)
  PROVE  \E r \in Seq(S) : FlattenSeq(ss) = FlattenSeq(SubSeq(ss, 1, c)) \o r
<1> DEFINE F(n) == FlattenSeq(SubSeq(ss, 1, n))
           T == {n \in c..Len(ss) : ~ \E r \in Seq(S) : F(n) = F(c) \o r}
<1>1. Len(ss) \in Nat
  BY LenProperties
<1>2. \A n \in 0..Len(ss) : F(n) \in Seq(S)
  <2>1. ASSUME NEW n \in 0..Len(ss) PROVE F(n) \in Seq(S)
    <3>1. SubSeq(ss, 1, n) \in Seq(Seq(S))
      <4> DEFINE U == Seq(S)
      <4> HIDE DEF U
      <4>1. ss \in Seq(U)
        BY DEF U
      <4>2. SubSeq(ss, 1, n) \in Seq(U)
        BY <4>1, FrontText
      <4> QED
        BY <4>2 DEF U
    <3>2. \A s \in Seq(S) : FlattenSeq(SubSeq(ss, 1, n)) \in Seq(S)
      BY <3>1, FlattenAppend
    <3>3. <<>> \in Seq(S)
      BY EmptySeq
    <3> QED
      BY <3>2, <3>3
  <2> QED
    BY <2>1
<1> HIDE DEF F
<1>3. c \notin T
  <2>1. <<>> \in Seq(S) /\ F(c) \o <<>> = F(c)
    BY <1>1, <1>2, EmptySeq, ConcatEmptySeq
  <2> QED
    BY <2>1
<1>4. ASSUME T # {} PROVE FALSE
  <2>1. PICK m \in T : \A k \in T : m <= k
    <3>1. T \subseteq Nat
      BY <1>1
    <3> HIDE DEF T
    <3> QED
      BY <1>4, <3>1, Least
  <2>2. m \in c..Len(ss) /\ m # c
    BY <1>3, <2>1
  <2>3. m - 1 \in c..Len(ss) /\ m - 1 \in Nat /\ m - 1 < Len(ss) /\ ~ (m <= m - 1)
    BY <1>1, <2>2
  <2>4. PICK r \in Seq(S) : F(m - 1) = F(c) \o r
    <3>1. m - 1 \notin T
      <4> HIDE DEF T
      <4> QED
        BY <2>1, <2>3
    <3> QED
      BY <2>3, <3>1
  <2>5. ss[m] \in Seq(S) /\ F(m) = F(m - 1) \o ss[m]
    <3>1. /\ ss[(m - 1) + 1] \in Seq(S)
          /\ FlattenSeq(SubSeq(ss, 1, (m - 1) + 1))
               = FlattenSeq(SubSeq(ss, 1, m - 1)) \o ss[(m - 1) + 1]
      BY <2>3, FlattenStep
    <3>2. (m - 1) + 1 = m
      BY <2>2
    <3> QED
      BY <3>1, <3>2 DEF F
  <2>6. F(m) = F(c) \o (r \o ss[m]) /\ r \o ss[m] \in Seq(S)
    <3>1. PICK u \in Seq(S), v \in Seq(S) : u = F(c) /\ v = ss[m]
      BY <1>1, <1>2, <2>5
    <3>2. (u \o r) \o v = u \o (r \o v) /\ r \o v \in Seq(S)
      BY ConcatAssociative, ConcatProperties, SMTT(30)
    <3> QED
      BY <2>4, <2>5, <3>1, <3>2
  <2>7. m \in T
    BY <2>1
  <2> QED
    BY <2>6, <2>7
<1>5. PICK r \in Seq(S) : F(Len(ss)) = F(c) \o r
  <2>1. Len(ss) \in c..Len(ss)
    BY <1>1
  <2> QED
    BY <1>4, <2>1
<1>6. SubSeq(ss, 1, Len(ss)) = ss
  BY SubSeqFull
<1> QED
  BY <1>5, <1>6 DEF F

-----------------------------------------------------------------------------
\* What the template makes of a message is made of the message's symbols, of
\* tags and of turn marks.
\* What str::trim leaves of a text: a piece of it, all of it when it is as long.
LEMMA TrimIs ==
  ASSUME NEW S, NEW s \in Seq(S)
  PROVE  /\ trim(s) \in Seq(S) /\ Len(trim(s)) <= Len(s)
         /\ Len(trim(s)) = Len(s) => trim(s) = s
         /\ \E n \in 0..Len(s) : \E m \in 0..(Len(s) - n) : trim(s) = SubSeq(Kept(s, n), 1, m)
<1>1. Len(s) \in Nat /\ DOMAIN s = 1..Len(s) /\ Solid(s) \subseteq 1..Len(s)
  BY LenProperties DEF Solid
<1> DEFINE Part(n, m) == trim(s) = SubSeq(Kept(s, n), 1, m)
<1>2. PICK n \in 0..Len(s) : \E m \in 0..(Len(s) - n) : Part(n, m)
  <2>1. CASE Solid(s) = {}
    <3>1. 0 \in 0..Len(s) /\ 0 \in 0..(Len(s) - 0)
      BY <1>1
    <3>2. SubSeq(Kept(s, 0), 1, 0) = <<>> /\ trim(s) = <<>>
      BY <2>1, SubSeqEmpty DEF trim
    <3> QED
      BY <3>1, <3>2
  <2>2. CASE Solid(s) # {}
    <3> DEFINE T == Solid(s)
               a == Min(T)
               b == Max(T)
               U == {Len(s) - i : i \in T}
    <3>1. PICK x \in T : \A y \in T : x <= y
      <4>1. T \subseteq Nat
        BY <1>1
      <4> HIDE DEF T
      <4> QED
        BY <2>2, <4>1, Least DEF T
    <3>2. PICK u \in U : \A v \in U : u <= v
      <4>1. U \subseteq Nat /\ U # {}
        BY <1>1, <2>2
      <4> HIDE DEF U
      <4> QED
        BY <4>1, Least
    <3>3. PICK z \in T : u = Len(s) - z
      BY <3>2
    <3>4. \A y \in T : z >= y
      <4>1. ASSUME NEW y \in T PROVE z >= y
        <5>1. Len(s) - y \in U /\ y \in 1..Len(s) /\ z \in 1..Len(s)
          BY <1>1
        <5>2. u <= Len(s) - y
          BY <3>2, <5>1
        <5> QED
          BY <1>1, <3>3, <5>1, <5>2
      <4> QED
        BY <4>1
    <3>5. a \in T /\ \A y \in T : a <= y
      <4> HIDE DEF T
      <4> QED
        BY <3>1 DEF Min
    <3>6. b \in T /\ \A y \in T : b >= y
      <4> HIDE DEF T
      <4> QED
        BY <3>3, <3>4 DEF Max
    <3>7. a \in 1..Len(s) /\ b \in 1..Len(s) /\ a <= b
      BY <1>1, <3>5, <3>6
    <3>8. trim(s) = SubSeq(s, a, b)
      BY <2>2 DEF trim
    <3> HIDE DEF a, b, T
    <3> DEFINE f == a - 1
               m == b - f
               k == Kept(s, f)
    <3>9. f \in 0..Len(s) /\ m \in 0..(Len(s) - f) /\ f + 1 = a /\ m = b - a + 1
      BY <1>1, <3>7
    <3>10. k \in Seq(S) /\ Len(k) = Len(s) - f /\ \A i \in 1..(Len(s) - f) : k[i] = s[f + i]
      BY <3>9, KeptText
    <3>11. \A i \in a..b : s[i] \in S
      BY <1>1, <3>7, ElementOfSeq
    <3> DEFINE w == SubSeq(s, a, b)
    <3>12. w \in Seq(S) /\ Len(w) = m /\ \A i \in 1..m : w[i] = s[a + i - 1]
      BY <3>7, <3>9, <3>11, SubSeqProperties
    <3> HIDE DEF f, m, k, w
    <3>13. SubSeq(k, 1, m) \in Seq(S) /\ Len(SubSeq(k, 1, m)) = m
           /\ \A i \in 1..m : SubSeq(k, 1, m)[i] = k[i]
      BY <3>9, <3>10, FrontText
    <3>14. \A i \in 1..m : k[i] = w[i]
      <4>1. ASSUME NEW i \in 1..m PROVE k[i] = w[i]
        <5>1. i \in 1..(Len(s) - f) /\ f + i = a + i - 1
          BY <1>1, <3>9
        <5> QED
          BY <3>10, <3>12, <5>1
      <4> QED
        BY <4>1
    <3>15. SubSeq(k, 1, m) = w
      BY <3>12, <3>13, <3>14, SeqEqual
    <3> QED
      BY <3>8, <3>9, <3>15 DEF w, k
  <2> QED
    BY <2>1, <2>2
<1>3. PICK m \in 0..(Len(s) - n) : trim(s) = SubSeq(Kept(s, n), 1, m)
  BY <1>2
<1> DEFINE k == Kept(s, n)
<1>7. k \in Seq(S) /\ Len(k) = Len(s) - n
  BY KeptText
<1> HIDE DEF k
<1>4. SubSeq(k, 1, m) \in Seq(S) /\ Len(SubSeq(k, 1, m)) = m
  BY <1>7, FrontText
<1>5. m <= Len(s) /\ (m = Len(s) => n = 0 /\ m = Len(k))
  <2>1. PICK l \in Nat : l = Len(s)
    BY <1>1
  <2>2. n \in 0..l /\ m \in 0..(l - n) /\ Len(k) = l - n
    BY <1>7, <2>1
  <2>3. m <= l /\ (m = l => n = 0 /\ l - n = l)
    BY <2>2
  <2> QED
    BY <2>1, <2>2, <2>3
<1>6. ASSUME m = Len(s) PROVE trim(s) = s
  <2>1. SubSeq(k, 1, Len(k)) = k
    BY <1>7, SubSeqFull
  <2>2. 0 + 1 = 1
    OBVIOUS
  <2>3. k = s
    <3>1. Kept(s, 0) = SubSeq(s, 1, Len(s))
      BY <2>2 DEF Kept
    <3>2. SubSeq(s, 1, Len(s)) = s
      BY SubSeqFull
    <3> QED
      BY <1>5, <1>6, <3>1, <3>2 DEF k
  <2> QED
    BY <1>3, <1>5, <1>6, <2>1, <2>3 DEF k
<1> QED
  BY <1>3, <1>4, <1>5, <1>6 DEF k

LEMMA TrimEmpty == trim(<<>>) = <<>>
<1>1. Solid(<<>>) = {}
  BY DEF Solid
<1> QED
  BY <1>1 DEF trim

LEMMA PartsType ==
  ASSUME NEW S, NEW s \in Seq(S), NEW t \in Tags, Has(t, s)
  PROVE  Before(t, s) \in Seq(S) /\ AfterLast(t, s) \in Seq(S)
<1> DEFINE n == Len(s)
           T == {i \in 1..n : Occurs(t, s, i)}
<1>1. n \in Nat /\ Len(t) \in 2..4 /\ T # {}
  BY TagShape, LenProperties DEF Has
<1>2. ASSUME NEW i \in Int, NEW j \in Int, 1 <= i, j <= n
      PROVE  SubSeq(s, i, j) \in Seq(S)
  <2>1. \A k \in i..j : s[k] \in S
    BY <1>1, <1>2, ElementOfSeq
  <2> QED
    BY <2>1, SubSeqProperties
<1>3. Before(t, s) \in Seq(S)
  <2>1. PICK i \in T : \A j \in T : i <= j
    <3>1. T \subseteq Nat
      BY <1>1
    <3> HIDE DEF T
    <3> QED
      BY <1>1, <3>1, Least
  <2>2. \A j \in 1..(i - 1) : ~ Occurs(t, s, j)
    BY <1>1, <2>1
  <2>3. Find(t, s) \in 1..n
    BY <2>1, <2>2 DEF Find
  <2>4. Find(t, s) - 1 \in Int /\ Find(t, s) - 1 <= n
    BY <1>1, <2>3
  <2> QED
    BY <1>2, <2>4 DEF Before
<1>4. AfterLast(t, s) \in Seq(S)
  <2> DEFINE U == {n - i : i \in T}
  <2>1. PICK u \in U : \A v \in U : u <= v
    <3>1. U \subseteq Nat /\ U # {}
      BY <1>1
    <3> HIDE DEF U
    <3> QED
      BY <3>1, Least
  <2>2. PICK i \in T : u = n - i
    BY <2>1
  <2>3. \A j \in (i + 1)..n : ~ Occurs(t, s, j)
    <3>1. ASSUME NEW j \in (i + 1)..n, Occurs(t, s, j) PROVE FALSE
      <4>1. j \in T /\ n - j \in U
        BY <1>1, <3>1
      <4>2. u <= n - j
        BY <2>1, <4>1
      <4> QED
        BY <1>1, <2>2, <4>2
    <3> QED
      BY <3>1
  <2> DEFINE P(k) == Occurs(t, s, k) /\ \A j \in (k + 1)..Len(s) : ~ Occurs(t, s, j)
             c == CHOOSE k \in 1..Len(s) : P(k)
  <2>4. i \in 1..Len(s) /\ P(i)
    BY <2>2, <2>3
  <2>5. c \in 1..n
    <3> HIDE DEF P
    <3> QED
      BY <2>4
  <2>6. AfterLast(t, s) = SubSeq(s, c + Len(t), n)
    BY DEF AfterLast
  <2>7. c + Len(t) \in Int /\ 1 <= c + Len(t)
    BY <1>1, <2>5
  <2> HIDE DEF c
  <2> QED
    BY <1>1, <1>2, <2>6, <2>7
<1> QED
  BY <1>3, <1>4

LEMMA SplitType ==
  ASSUME NEW S, NEW m, m.content \in Seq(S), m.reasoning \in Seq(S) \union {Absent}
  PROVE  Reasoning(m) \in Seq(S) /\ Content(m) \in Seq(S)
<1> DEFINE base == trim(m.content)
           b == Before(CloseThink, base)
           d == AfterLast(CloseThink, base)
<1>1. OpenThink \in Tags /\ CloseThink \in Tags
  BY DEF Tags
<1>2. <<>> \in Seq(S) /\ base \in Seq(S)
  BY EmptySeq, TrimIs
<1> HIDE DEF base
<1>3. Has(CloseThink, base) => b \in Seq(S) /\ d \in Seq(S)
  BY <1>1, <1>2, PartsType
<1>4. Has(CloseThink, base) /\ Has(OpenThink, b) => AfterLast(OpenThink, b) \in Seq(S)
  <2> HIDE DEF b
  <2> QED
    BY <1>1, <1>3, PartsType
<1>5. Content(m) \in Seq(S)
  <2>1. \A s \in Seq(S) : trim(s) \in Seq(S)
    BY TrimIs
  <2>2. Content(m) = IF m.reasoning = Absent /\ Has(CloseThink, base) THEN trim(d) ELSE base
    BY DEF Content, base
  <2> HIDE DEF d
  <2> QED
    BY <1>2, <1>3, <2>1, <2>2
<1>6. Reasoning(m) \in Seq(S)
  <2>1. Reasoning(m) = IF m.reasoning # Absent THEN m.reasoning
                       ELSE IF ~Has(CloseThink, base) THEN <<>>
                       ELSE IF Has(OpenThink, b) THEN AfterLast(OpenThink, b) ELSE b
    BY DEF Reasoning, base
  <2> HIDE DEF b
  <2> QED
    BY <1>2, <1>3, <1>4, <2>1
<1> QED
  BY <1>5, <1>6

LEMMA TupleIsSeq ==
  ASSUME NEW T, NEW n \in Nat, NEW f \in [1..n -> T]
  PROVE  f \in Seq(T) /\ Len(f) = n
OBVIOUS

LEMMA Regroup ==
  ASSUME NEW S, NEW p \in Seq(S), NEW q \in Seq(S), NEW r \in Seq(S)
  PROVE  (p \o q) \o r = p \o (q \o r) /\ p \o q \in Seq(S)
<1>1. (p \o q) \o r = p \o (q \o r)
  OBVIOUS
<1>2. p \o q \in Seq(S)
  BY ConcatProperties
<1> QED
  BY <1>1, <1>2

LEMMA TagsOver ==
  ASSUME NEW S, Characters \subseteq S
  PROVE  /\ OpenThink \in Seq(S) /\ CloseThink \in Seq(S)
         /\ OpenTool \in Seq(S) /\ CloseTool \in Seq(S) /\ <<"f">> \in Seq(S)
<1>1. AllTexts \subseteq Seq(S)
  BY SeqMonotonic DEF AllTexts
<1>2. <<"f">> \in AllTexts
  <2>1. "f" \in Characters
    BY DEF Characters
  <2> QED
    BY <2>1 DEF AllTexts
<1> QED
  BY <1>1, <1>2, TagShape DEF Tags

LEMMA ToolCallsType ==
  ASSUME NEW S, NEW m, m.calls \in Seq(Seq(S)), Characters \subseteq S
  PROVE  render_tool_calls(m) \in Seq(S)
<1> DEFINE n == Len(m.calls)
           f == [k \in 1..n |-> OpenTool \o (<<"f">> \o m.calls[k]) \o CloseTool]
           T == Seq(S)
<1>1. n \in Nat /\ DOMAIN m.calls = 1..n /\ \A k \in 1..n : m.calls[k] \in Seq(S)
  <2> HIDE DEF T
  <2>1. m.calls \in Seq(T)
    BY DEF T
  <2>2. n \in Nat /\ DOMAIN m.calls = 1..n /\ \A k \in 1..n : m.calls[k] \in T
    BY <2>1, LenProperties, ElementOfSeq
  <2> QED
    BY <2>2 DEF T
<1>2. OpenTool \in Seq(S) /\ CloseTool \in Seq(S) /\ <<"f">> \in Seq(S)
  BY TagsOver
<1>3. \A k \in 1..n : f[k] \in T
  <2>1. ASSUME NEW k \in 1..n PROVE f[k] \in Seq(S)
    <3>1. \A p, q \in Seq(S) : p \o q \in Seq(S)
      BY ConcatProperties
    <3>2. PICK d \in Seq(S) : d = <<"f">> \o m.calls[k]
      BY <1>1, <1>2, <3>1
    <3>3. OpenTool \o d \in Seq(S)
      BY <1>2, <3>1
    <3>4. (OpenTool \o d) \o CloseTool \in Seq(S)
      BY <1>2, <3>1, <3>3
    <3> QED
      BY <3>2, <3>4
  <2> QED
    BY <2>1
<1>4. f \in Seq(T)
  <2>1. f = [k \in 1..n |-> f[k]]
    OBVIOUS
  <2> HIDE DEF f, T
  <2>2. f \in [1..n -> T]
    BY <1>3, <2>1
  <2> QED
    BY <1>1, <2>2, TupleIsSeq
<1>5. FlattenSeq(f) \in Seq(S)
  <2>1. \A s \in Seq(S) : FlattenSeq(f) \in Seq(S)
    BY <1>4, FlattenAppend
  <2>2. <<>> \in Seq(S)
    BY EmptySeq
  <2> QED
    BY <2>1, <2>2
<1>6. render_tool_calls(m) = FlattenSeq(f)
  BY <1>1 DEF render_tool_calls
<1> QED
  BY <1>5, <1>6

\* Messages of symbols of a set, and which of them open and close a turn.
MessagesOver(S) ==
  [role : Roles, content : Seq(S), reasoning : Seq(S) \union {Absent}, calls : Seq(Seq(S))]
Joins(ms, i) == ms[i].role = "tool" /\ ms[i + 1].role = "tool"
Opens(ms, i) == ms[i].role # "system" /\ (ms[i].role = "tool" => OpensWrapper(ms, i))
Closes(ms, i) ==
  ms[i].role # "system" /\ (ms[i].role = "tool" => i = Len(ms) \/ ms[i + 1].role # "tool")
Opening(ms, i) ==
  IF ~ Opens(ms, i) THEN <<>>
  ELSE OpenTurn(IF ms[i].role = "assistant" THEN "assistant" ELSE "user")
Closing(ms, i) == IF Closes(ms, i) THEN CloseTurn ELSE <<>>

LEMMA RenderedShape ==
  ASSUME NEW S, Characters \subseteq S, "<tool_response>" \in S, "</tool_response>" \in S,
         NEW ms \in Seq(MessagesOver(S)), NEW i \in 1..Len(ms)
  PROVE  \E b \in Seq(S) : Rendered(ms, i) = Opening(ms, i) \o b \o Closing(ms, i)
<1> DEFINE m == ms[i]
<1>1. /\ m.role \in Roles /\ m.content \in Seq(S) /\ m.calls \in Seq(Seq(S))
      /\ m.reasoning \in Seq(S) \union {Absent}
  <2>1. m \in MessagesOver(S)
    BY ElementOfSeq
  <2> QED
    BY <2>1 DEF MessagesOver
<1>7. \A s \in Seq(S) : trim(s) \in Seq(S)
  BY TrimIs
<1>2. <<>> \in Seq(S) /\ OpenThink \in Seq(S) /\ CloseThink \in Seq(S)
  BY EmptySeq, TagsOver
<1>3. CASE m.role = "system"
  <2>1. Rendered(ms, i) = <<>> /\ Opening(ms, i) = <<>> /\ Closing(ms, i) = <<>>
    BY <1>3 DEF Rendered, Opening, Closing, Opens, Closes
  <2>2. <<>> \o <<>> \o <<>> = <<>>
    BY <1>2, ConcatEmptySeq
  <2> QED
    BY <1>2, <2>1, <2>2
<1>4. CASE m.role = "user"
  <2>1. Rendered(ms, i) = OpenTurn("user") \o trim(m.content) \o CloseTurn
    BY <1>4 DEF Rendered
  <2>2. Opening(ms, i) = OpenTurn("user") /\ Closing(ms, i) = CloseTurn
    BY <1>4 DEF Opening, Closing, Opens, Closes
  <2>3. trim(m.content) \in Seq(S)
    BY <1>1, <1>7
  <2> QED
    BY <2>1, <2>2, <2>3
<1>5. CASE m.role = "assistant"
  <2> DEFINE U == S \union {"<|im_start|>", "assistant"}
             o == OpenTurn("assistant")
             h == trim(KeptReasoning(ms, i))
             c == Content(m)
             d == render_tool_calls(m)
             b == OpenThink \o (h \o (CloseThink \o (c \o d)))
  <2>1. Rendered(ms, i) = o \o OpenThink \o h \o CloseThink \o c \o d \o CloseTurn
    BY <1>5 DEF Rendered, render_assistant_turn
  <2>2. Opening(ms, i) = o /\ Closing(ms, i) = CloseTurn
    BY <1>5 DEF Opening, Closing, Opens, Closes
  <2>3. h \in Seq(S) /\ c \in Seq(S) /\ d \in Seq(S)
    <3>1. Reasoning(m) \in Seq(S) /\ c \in Seq(S) /\ d \in Seq(S)
      BY <1>1, SplitType, ToolCallsType
    <3>2. KeptReasoning(ms, i) \in Seq(S)
      BY <1>2, <3>1 DEF KeptReasoning
    <3> QED
      BY <1>7, <3>1, <3>2
  <2>4. o \in Seq(U) /\ \A s \in Seq(S) : s \in Seq(U)
    <3>1. o \in Seq(U)
      BY DEF OpenTurn
    <3>2. S \subseteq U
      OBVIOUS
    <3> QED
      BY <3>1, <3>2, SeqMonotonic
  <2> HIDE DEF o, h, c, d, U
  <2>6. \A x, y \in Seq(S) : x \o y \in Seq(S)
    BY ConcatProperties
  <2>7. b \in Seq(S)
    <3>1. c \o d \in Seq(S)
      BY <2>3, <2>6
    <3>2. CloseThink \o (c \o d) \in Seq(S)
      BY <1>2, <2>6, <3>1
    <3>3. h \o (CloseThink \o (c \o d)) \in Seq(S)
      BY <2>3, <2>6, <3>2
    <3> QED
      BY <1>2, <2>6, <3>3
  <2>8. o \o OpenThink \o h \o CloseThink \o c \o d = o \o b
    <3>1. /\ OpenThink \in Seq(U) /\ CloseThink \in Seq(U) /\ h \in Seq(U) /\ c \in Seq(U)
          /\ d \in Seq(U) /\ o \in Seq(U)
      BY <1>2, <2>3, <2>4
    <3>2. PICK o1 \in Seq(U) : o1 = o \o OpenThink
      BY <3>1, Regroup
    <3>3. PICK o2 \in Seq(U) : o2 = o1 \o h
      BY <3>1, Regroup
    <3>4. PICK o3 \in Seq(U) : o3 = o2 \o CloseThink
      BY <3>1, Regroup
    <3>5. PICK b1 \in Seq(U) : b1 = c \o d
      BY <3>1, Regroup
    <3>6. PICK b2 \in Seq(U) : b2 = CloseThink \o b1
      BY <3>1, Regroup
    <3>7. PICK b3 \in Seq(U) : b3 = h \o b2
      BY <3>1, Regroup
    <3>8. o3 \o c \o d = o3 \o (c \o d)
      <4>1. c \in Seq(U) /\ d \in Seq(U)
        BY <3>1
      <4> QED
        BY <4>1, SMTT(30)
    <3>9. (o2 \o CloseThink) \o b1 = o2 \o (CloseThink \o b1)
      <4>1. CloseThink \in Seq(U)
        BY <3>1
      <4> QED
        BY <4>1, SMTT(30)
    <3>10. (o1 \o h) \o b2 = o1 \o (h \o b2)
      <4>1. h \in Seq(U)
        BY <3>1
      <4> QED
        BY <4>1, SMTT(60)
    <3>11. (o \o OpenThink) \o b3 = o \o (OpenThink \o b3)
      <4>1. o \in Seq(U) /\ OpenThink \in Seq(U)
        BY <3>1
      <4> QED
        BY <4>1, SMTT(30)
    <3> QED
      BY <3>2, <3>3, <3>4, <3>5, <3>6, <3>7, <3>8, <3>9, <3>10, <3>11
  <2> QED
    BY <2>1, <2>2, <2>7, <2>8
<1>6. CASE m.role = "tool"
  <2> DEFINE U == S \union {"<|im_start|>", "user"}
             o == Opening(ms, i)
             c == Closing(ms, i)
             f == <<"<tool_response>">>
             g == <<"</tool_response>">>
             said == trim(m.content)
             b == f \o said \o g
  <2>1. Rendered(ms, i) = o \o f \o said \o g \o c
    BY <1>6 DEF Rendered, render_tool_turn, Opening, Closing, Opens, Closes
  <2>2. f \in Seq(S) /\ g \in Seq(S) /\ f \o said \in Seq(S) /\ b \in Seq(S)
    <3>1. f \in Seq(S) /\ g \in Seq(S)
      OBVIOUS
    <3>2. \A x, y \in Seq(S) : x \o y \in Seq(S)
      BY ConcatProperties
    <3> QED
      BY <1>1, <1>7, <3>1, <3>2
  <2>3. o \in Seq(U) /\ \A s \in Seq(S) : s \in Seq(U)
    <3>1. o \in Seq(U)
      <4>1. <<>> \in Seq(U) /\ OpenTurn("user") \in Seq(U)
        BY EmptySeq DEF OpenTurn
      <4> QED
        BY <1>6, <4>1 DEF Opening
    <3>2. S \subseteq U
      OBVIOUS
    <3> QED
      BY <3>1, <3>2, SeqMonotonic
  <2>4. o \o f \o said \o g = o \o b
    <3> HIDE DEF o, U, f, g
    <3>1. /\ o \in Seq(U) /\ f \in Seq(U) /\ g \in Seq(U)
      BY <2>2, <2>3
    <3>2. PICK y \in Seq(U) : y = said
      BY <1>1, <1>7, <2>3
    <3>3. PICK z \in Seq(U) : z = f \o y
      BY <3>1, Regroup
    <3>4. (o \o f) \o y = o \o (f \o y)
      BY <3>1
    <3>5. (o \o z) \o g = o \o (z \o g)
      BY <3>1
    <3> QED
      BY <3>2, <3>3, <3>4, <3>5
  <2> HIDE DEF b, o, c
  <2>5. Rendered(ms, i) = o \o b \o c
    BY <2>1, <2>4
  <2> QED
    BY <2>2, <2>5 DEF o, c
<1> QED
  BY <1>1, <1>3, <1>4, <1>5, <1>6 DEF Roles

LEMMA RenderedType ==
  ASSUME NEW ms \in Seq(Messages), NEW i \in 1..Len(ms)
  PROVE  Rendered(ms, i) \in Seq(Words)
<1>1. PICK b \in Seq(Words) : Rendered(ms, i) = Opening(ms, i) \o b \o Closing(ms, i)
  <2>1. Characters \subseteq Words /\ "<tool_response>" \in Words /\ "</tool_response>" \in Words
    BY DEF Words
  <2>2. ms \in Seq(MessagesOver(Words))
    BY DEF Messages, MessagesOver
  <2> QED
    BY <2>1, <2>2, RenderedShape
<1>2. Opening(ms, i) \in Seq(Words) /\ Closing(ms, i) \in Seq(Words)
  <2>1. OpenTurn("assistant") \in Seq(Words) /\ OpenTurn("user") \in Seq(Words)
    BY DEF OpenTurn, Words, Roles
  <2>2. CloseTurn \in Seq(Words) /\ <<>> \in Seq(Words)
    BY EmptySeq DEF CloseTurn, Words
  <2> QED
    BY <2>1, <2>2 DEF Opening, Closing
<1>3. \A x, y \in Seq(Words) : x \o y \in Seq(Words)
  BY ConcatProperties
<1> QED
  BY <1>1, <1>2, <1>3

-----------------------------------------------------------------------------
\* The history of the first messages begins the history of all of them,
\* unless the messages of tools that are next to each other are cut apart.
Turnings(ms) == [i \in DOMAIN ms |-> Rendered(ms, i)]

LEMMA TurningsType ==
  ASSUME NEW ms \in Seq(Messages)
  PROVE  Turnings(ms) \in Seq(Seq(Words)) /\ Len(Turnings(ms)) = Len(ms)
<1> DEFINE T == Seq(Words)
           n == Len(ms)
<1>1. n \in Nat /\ DOMAIN ms = 1..n
  BY LenProperties
<1>2. \A i \in 1..n : Rendered(ms, i) \in T
  BY RenderedType
<1>3. Turnings(ms) = [i \in 1..n |-> Rendered(ms, i)]
  BY <1>1 DEF Turnings
<1> HIDE DEF T, n
<1>4. Turnings(ms) \in [1..n -> T]
  BY <1>2, <1>3
<1>5. Turnings(ms) \in Seq(T) /\ Len(Turnings(ms)) = n
  BY <1>1, <1>4, TupleIsSeq
<1> QED
  BY <1>5 DEF T, n

LEMMA HeaderType ==
  ASSUME NEW ms \in Seq(Messages), ms # <<>>
  PROVE  Header(ms) \in Seq(Words)
<1>1. ms[1] \in Messages
  <2>1. Len(ms) \in Nat \ {0}
    BY EmptySeq
  <2> QED
    BY <2>1, ElementOfSeq
<1>2. ms[1].content \in Seq(Words)
  BY <1>1 DEF Messages
<1> DEFINE o == OpenTurn("system")
           s == trim(ms[1].content)
           e == <<>>
           u == <<"tools">>
<1>3. o \in Seq(Words) /\ CloseTurn \in Seq(Words) /\ e \in Seq(Words) /\ u \in Seq(Words)
  BY EmptySeq DEF OpenTurn, CloseTurn, Words, Roles
<1>4. Header(ms) \in {o \o u \o s \o CloseTurn, o \o u \o e \o CloseTurn, o \o s \o CloseTurn, e}
  BY DEF Header
<1> HIDE DEF o, s, e, u
<1>5. s \in Seq(Words)
  BY <1>2, TrimIs DEF s
<1>6. \A x, y \in Seq(Words) : x \o y \in Seq(Words)
  BY ConcatProperties
<1>7. o \o u \in Seq(Words) /\ o \o s \in Seq(Words)
  BY <1>3, <1>5, <1>6
<1>8. (o \o u) \o s \in Seq(Words) /\ (o \o u) \o e \in Seq(Words)
  BY <1>3, <1>5, <1>6, <1>7
<1> QED
  BY <1>3, <1>4, <1>6, <1>7, <1>8

LEMMA HistoryType ==
  ASSUME NEW ms \in Seq(Messages), ms # <<>>
  PROVE  FlattenSeq(Turnings(ms)) \in Seq(Words) /\ History(ms) \in Seq(Words)
<1>1. FlattenSeq(Turnings(ms)) \in Seq(Words)
  <2>1. \A s \in Seq(Words) : FlattenSeq(Turnings(ms)) \in Seq(Words)
    BY TurningsType, FlattenAppend
  <2>2. <<>> \in Seq(Words)
    BY EmptySeq
  <2> QED
    BY <2>1, <2>2
<1>2. History(ms) = Header(ms) \o FlattenSeq(Turnings(ms))
  BY DEF History, Turnings
<1> QED
  BY <1>1, <1>2, HeaderType, ConcatProperties

LEMMA SameTurns ==
  ASSUME NEW ms \in Seq(Messages), NEW c \in 1..Len(ms),
         ~ (c < Len(ms) /\ Joins(ms, c)), NEW i \in 1..c
  PROVE  Rendered(SubSeq(ms, 1, c), i) = Rendered(ms, i)
<1> DEFINE fs == SubSeq(ms, 1, c)
<1>1. Len(fs) = c /\ \A j \in 1..c : fs[j] = ms[j]
  BY LenProperties, FrontText
<1>2. Len(ms) \in Nat /\ c \in Nat
  BY LenProperties
<1> HIDE DEF fs
<1>3. fs[i] = ms[i]
  BY <1>1
<1>4. CASE ms[i].role = "tool"
  <2>1. OpensWrapper(fs, i) <=> OpensWrapper(ms, i)
    <3>1. i > 1 => i - 1 \in 1..c
      BY <1>2
    <3> QED
      BY <1>1, <3>1 DEF OpensWrapper
  <2>2. (i = Len(fs) \/ fs[i + 1].role # "tool") <=> (i = Len(ms) \/ ms[i + 1].role # "tool")
    <3>1. CASE i = c
      BY <1>1, <1>2, <1>4, <3>1 DEF Joins
    <3>2. CASE i # c
      <4>1. i + 1 \in 1..c /\ i # Len(ms)
        BY <1>2, <3>2
      <4> QED
        BY <1>1, <3>2, <4>1
    <3> QED
      BY <3>1, <3>2
  <2>3. render_tool_turn(fs, i) = render_tool_turn(ms, i)
    BY <1>3, <2>1, <2>2 DEF render_tool_turn
  <2> QED
    BY <1>3, <1>4, <2>3 DEF Rendered, fs
<1>5. CASE ms[i].role # "tool"
  <2>1. render_assistant_turn(fs, i) = render_assistant_turn(ms, i)
    BY <1>3 DEF render_assistant_turn, KeptReasoning
  <2>2. ms[i].role \in Roles
    <3>1. ms[i] \in Messages
      BY <1>2, ElementOfSeq
    <3> QED
      BY <3>1 DEF Messages
  <2> QED
    BY <1>3, <1>5, <2>1, <2>2 DEF Rendered, Roles, fs
<1> QED
  BY <1>4, <1>5

LEMMA FrontTurnings ==
  ASSUME NEW ms \in Seq(Messages), NEW c \in 1..Len(ms), ~ (c < Len(ms) /\ Joins(ms, c))
  PROVE  /\ SubSeq(Turnings(ms), 1, c) = Turnings(SubSeq(ms, 1, c))
         /\ Header(SubSeq(ms, 1, c)) = Header(ms)
<1> DEFINE fs == SubSeq(ms, 1, c)
           T == Seq(Words)
<1>1. fs \in Seq(Messages) /\ Len(fs) = c /\ \A j \in 1..c : fs[j] = ms[j]
  BY LenProperties, FrontText
<1>2. Len(ms) \in Nat /\ DOMAIN ms = 1..Len(ms) /\ c \in Nat /\ c \in 0..Len(ms)
  BY LenProperties
<1>3. Turnings(ms) \in Seq(T) /\ Len(Turnings(ms)) = Len(ms)
  BY TurningsType
<1>4. Turnings(fs) \in Seq(T) /\ Len(Turnings(fs)) = c /\ DOMAIN fs = 1..c
  BY <1>1, TurningsType, LenProperties
<1>5. \A i \in 1..c : Rendered(fs, i) = Rendered(ms, i)
  BY SameTurns
<1> HIDE DEF fs, T
<1>6. SubSeq(Turnings(ms), 1, c) = Turnings(fs)
  <2>1. /\ SubSeq(Turnings(ms), 1, c) \in Seq(T) /\ Len(SubSeq(Turnings(ms), 1, c)) = c
        /\ \A i \in 1..c : SubSeq(Turnings(ms), 1, c)[i] = Turnings(ms)[i]
    BY <1>2, <1>3, FrontText
  <2>2. \A i \in 1..c : Turnings(ms)[i] = Turnings(fs)[i]
    <3>1. ASSUME NEW i \in 1..c PROVE Turnings(ms)[i] = Turnings(fs)[i]
      <4>1. i \in DOMAIN ms /\ i \in DOMAIN fs
        BY <1>2, <1>4
      <4>2. Turnings(ms)[i] = Rendered(ms, i) /\ Turnings(fs)[i] = Rendered(fs, i)
        BY <4>1 DEF Turnings
      <4> QED
        BY <1>5, <4>2
    <3> QED
      BY <3>1
  <2> QED
    BY <1>4, <2>1, <2>2, SeqEqual
<1>7. Header(fs) = Header(ms)
  <2>1. fs[1] = ms[1]
    BY <1>1, <1>2
  <2> QED
    BY <2>1 DEF Header
<1> QED
  BY <1>6, <1>7 DEF fs

LEMMA HistoryGrows ==
  ASSUME NEW ms \in Seq(Messages), NEW c \in 1..Len(ms), ~ (c < Len(ms) /\ Joins(ms, c))
  PROVE  \E r \in Seq(Words) : History(ms) = History(SubSeq(ms, 1, c)) \o r
<1> DEFINE fs == SubSeq(ms, 1, c)
           ss == Turnings(ms)
<1>1. c \in 0..Len(ms) /\ fs \in Seq(Messages) /\ Len(fs) = c
  BY LenProperties, FrontText
<1>2. fs # <<>> /\ ms # <<>>
  BY <1>1, EmptySeq
<1>3. SubSeq(ss, 1, c) = Turnings(fs) /\ Header(fs) = Header(ms)
  BY FrontTurnings
<1>4. ss \in Seq(Seq(Words)) /\ c \in 0..Len(ss)
  BY <1>1, TurningsType
<1>5. /\ History(ms) = Header(ms) \o FlattenSeq(ss)
      /\ History(fs) = Header(fs) \o FlattenSeq(Turnings(fs))
  BY DEF History, Turnings
<1> HIDE DEF fs, ss
<1>6. PICK r \in Seq(Words) : FlattenSeq(ss) = FlattenSeq(SubSeq(ss, 1, c)) \o r
  BY <1>4, FlattenFront
<1>7. PICK h \in Seq(Words), f \in Seq(Words) :
         h = Header(ms) /\ f = FlattenSeq(Turnings(fs))
  BY <1>1, <1>2, HeaderType, HistoryType
<1>8. (h \o f) \o r = h \o (f \o r)
  OBVIOUS
<1> QED
  BY <1>3, <1>5, <1>6, <1>7, <1>8 DEF fs

-----------------------------------------------------------------------------
\* What a client puts together from the events: the characters of a mode, or
\* the calls.
Kinds == {"Text", "Thinking", "Call"}
ValuesOf(kind) == IF kind = "Call" THEN AllTexts ELSE Characters
FoldRule(f, w, kind) ==
  f = [n \in 0..Len(w) |->
         IF n = 0 THEN <<>>
         ELSE IF w[n][1] = kind THEN Append(f[n - 1], w[n][2]) ELSE f[n - 1]]
Folding(w, kind) == CHOOSE f : FoldRule(f, w, kind)
FoldOf(w, kind) == Folding(w, kind)[Len(w)]

LEMMA EventValue ==
  ASSUME NEW kind \in Kinds, NEW e \in AllEvents, e[1] = kind
  PROVE  e[2] \in ValuesOf(kind)
<1>1. CASE e \in Modes \X Characters
  <2>1. e[1] \in Modes /\ e[2] \in Characters
    BY <1>1
  <2> QED
    BY <2>1 DEF Modes, Kinds, ValuesOf
<1>2. CASE e = Started
  BY <1>2 DEF Started, Kinds
<1>3. CASE e \in {Call(b) : b \in AllTexts}
  <2>1. PICK b \in AllTexts : e = <<"Call", b>>
    BY <1>3 DEF Call
  <2> QED
    BY <2>1 DEF ValuesOf
<1> QED
  BY <1>1, <1>2, <1>3 DEF AllEvents

LEMMA FoldExists ==
  ASSUME NEW w, Len(w) \in Nat, NEW kind
  PROVE  FoldRule(Folding(w, kind), w, kind)
<1> DEFINE Next1(f, n) == IF w[n][1] = kind THEN Append(f[n - 1], w[n][2]) ELSE f[n - 1]
           Upto(f, k) == f = [n \in 0..k |-> IF n = 0 THEN <<>> ELSE Next1(f, n)]
           T == {k \in Nat : ~ \E f : Upto(f, k)}
<1>1. ASSUME T # {} PROVE FALSE
  <2>1. PICK k \in T : \A j \in T : k <= j
    <3>1. T \subseteq Nat
      OBVIOUS
    <3> HIDE DEF T
    <3> QED
      BY <1>1, <3>1, Least
  <2>2. k \in Nat /\ ~ \E f : Upto(f, k)
    BY <2>1
  <2>3. CASE k = 0
    <3> DEFINE f == [n \in 0..0 |-> <<>>]
    <3>1. f = [n \in 0..0 |-> IF n = 0 THEN <<>> ELSE Next1(f, n)]
      <4>1. \A n \in 0..0 : <<>> = IF n = 0 THEN <<>> ELSE Next1(f, n)
        OBVIOUS
      <4> QED
        BY <4>1
    <3> HIDE DEF f, Next1
    <3>2. Upto(f, k)
      BY <2>3, <3>1
    <3> QED
      BY <2>2, <3>2
  <2>4. CASE k # 0
    <3>1. k - 1 \in Nat /\ ~ (k <= k - 1)
      BY <2>2, <2>4
    <3>2. k - 1 \notin T
      <4> HIDE DEF T
      <4> QED
        BY <2>1, <3>1
    <3>3. PICK g : Upto(g, k - 1)
      BY <3>1, <3>2
    <3> DEFINE last == Next1(g, k)
               f == [n \in 0..k |-> IF n = k THEN last ELSE g[n]]
    <3>4. \A n \in 0..k : f[n] = IF n = k THEN last ELSE g[n]
      OBVIOUS
    <3>5. f = [n \in 0..k |-> f[n]]
      OBVIOUS
    <3>6. ASSUME NEW n \in 0..k
          PROVE  f[n] = IF n = 0 THEN <<>> ELSE Next1(f, n)
      <4> HIDE DEF f
      <4>1. CASE n = 0
        <5>1. f[n] = g[n] /\ n \in 0..(k - 1)
          BY <2>2, <2>4, <3>1, <3>4, <4>1
        <5> HIDE DEF Next1
        <5>2. g[n] = <<>>
          BY <3>3, <4>1, <5>1
        <5> QED
          BY <4>1, <5>1, <5>2
      <4>2. CASE n # 0
        <5>1. n - 1 \in 0..k /\ n - 1 # k /\ n - 1 \in 0..(k - 1)
          BY <2>2, <4>2
        <5>2. f[n - 1] = g[n - 1]
          BY <3>4, <5>1
        <5>3. Next1(f, n) = Next1(g, n)
          BY <5>2
        <5> HIDE DEF Next1
        <5>4. CASE n = k
          BY <3>4, <4>2, <5>3, <5>4
        <5>5. CASE n # k
          <6>1. n \in 0..(k - 1) /\ f[n] = g[n]
            BY <2>2, <3>4, <5>5
          <6>2. g[n] = Next1(g, n)
            BY <3>3, <4>2, <6>1
          <6> QED
            BY <4>2, <5>3, <6>1, <6>2
        <5> QED
          BY <5>4, <5>5
      <4> QED
        BY <4>1, <4>2
    <3> HIDE DEF f, Next1
    <3>7. Upto(f, k)
      BY <3>5, <3>6
    <3> QED
      BY <2>2, <3>7
  <2> QED
    BY <2>3, <2>4
<1>2. PICK f : Upto(f, Len(w))
  <2> HIDE DEF Upto
  <2> QED
    BY <1>1
<1>3. FoldRule(f, w, kind)
  BY <1>2 DEF FoldRule
<1> HIDE DEF Upto
<1> QED
  BY <1>3 DEF Folding

LEMMA FoldSteps ==
  ASSUME NEW w, Len(w) \in Nat, NEW kind
  PROVE  /\ Folding(w, kind)[0] = <<>>
         /\ \A n \in 1..Len(w) :
              Folding(w, kind)[n] = IF w[n][1] = kind THEN Append(Folding(w, kind)[n - 1], w[n][2])
                                    ELSE Folding(w, kind)[n - 1]
<1> DEFINE f == Folding(w, kind)
<1>1. FoldRule(f, w, kind)
  BY FoldExists
<1> HIDE DEF f
<1>2. /\ f[0] = <<>>
      /\ \A n \in 1..Len(w) :
           f[n] = IF w[n][1] = kind THEN Append(f[n - 1], w[n][2]) ELSE f[n - 1]
  <2> DEFINE R(n) == IF n = 0 THEN <<>>
                     ELSE IF w[n][1] = kind THEN Append(f[n - 1], w[n][2]) ELSE f[n - 1]
  <2>1. f = [n \in 0..Len(w) |-> R(n)]
    BY <1>1 DEF FoldRule
  <2> HIDE DEF R
  <2>2. \A n \in 0..Len(w) : f[n] = R(n)
    BY <2>1
  <2>3. f[0] = R(0) /\ \A n \in 1..Len(w) : f[n] = R(n) /\ n # 0
    BY <2>2
  <2> USE DEF R
  <2> QED
    BY <2>3
<1> QED
  BY <1>2 DEF f

LEMMA FoldingType ==
  ASSUME NEW w \in Seq(AllEvents), NEW kind \in Kinds, NEW n \in 0..Len(w)
  PROVE  Folding(w, kind)[n] \in Seq(ValuesOf(kind))
<1> DEFINE f == Folding(w, kind)
           V == ValuesOf(kind)
           T == {k \in 0..Len(w) : f[k] \notin Seq(V)}
<1>1. Len(w) \in Nat /\ \A k \in 1..Len(w) : w[k] \in AllEvents
  BY LenProperties, ElementOfSeq
<1>2. /\ f[0] = <<>>
      /\ \A k \in 1..Len(w) :
           f[k] = IF w[k][1] = kind THEN Append(f[k - 1], w[k][2]) ELSE f[k - 1]
  BY <1>1, FoldSteps
<1>3. \A k \in 1..Len(w) : w[k][1] = kind => w[k][2] \in V
  BY <1>1, EventValue
<1> HIDE DEF f, V
<1>4. ASSUME T # {} PROVE FALSE
  <2>1. PICK k \in T : \A j \in T : k <= j
    <3>1. T \subseteq Nat
      BY <1>1
    <3> HIDE DEF T
    <3> QED
      BY <1>4, <3>1, Least
  <2>2. k \in 0..Len(w) /\ f[k] \notin Seq(V)
    BY <2>1
  <2>3. k # 0
    BY <1>2, <2>2, EmptySeq
  <2>4. k \in 1..Len(w) /\ k - 1 \in 0..Len(w) /\ ~ (k <= k - 1)
    BY <1>1, <2>2, <2>3
  <2>5. f[k - 1] \in Seq(V)
    <3>1. k - 1 \notin T
      <4> HIDE DEF T
      <4> QED
        BY <2>1, <2>4
    <3> QED
      BY <2>4, <3>1
  <2>6. f[k] \in Seq(V)
    <3>1. CASE w[k][1] = kind
      <4>1. Append(f[k - 1], w[k][2]) \in Seq(V)
        BY <1>3, <2>4, <2>5, <3>1, AppendProperties
      <4> QED
        BY <1>2, <2>4, <3>1, <4>1
    <3>2. CASE w[k][1] # kind
      BY <1>2, <2>4, <2>5, <3>2
    <3> QED
      BY <3>1, <3>2
  <2> QED
    BY <2>2, <2>6
<1> QED
  BY <1>4 DEF f, V

LEMMA FoldedIs ==
  ASSUME NEW kind
  PROVE  Folded(kind) = FoldOf(out, kind)
BY DEF Folded, FoldOf, Folding, FoldRule

-----------------------------------------------------------------------------
\* What a client keeps of an answer is a message again.
LEMMA AccumulatedType ==
  ASSUME out \in Seq(AllEvents)
  PROVE  /\ Accumulated.content \in AllTexts /\ Accumulated.thinking \in AllTexts
         /\ Accumulated.calls \in Seq(AllTexts)
<1>1. ASSUME NEW kind \in Kinds PROVE Folded(kind) \in Seq(ValuesOf(kind))
  <2>1. Len(out) \in 0..Len(out)
    BY LenProperties
  <2>2. Folding(out, kind)[Len(out)] \in Seq(ValuesOf(kind))
    BY <2>1, FoldingType
  <2> QED
    BY <2>2, FoldedIs DEF FoldOf
<1>2. /\ Folded("Text") \in Seq(ValuesOf("Text"))
      /\ Folded("Thinking") \in Seq(ValuesOf("Thinking"))
      /\ Folded("Call") \in Seq(ValuesOf("Call"))
  BY <1>1 DEF Kinds
<1>3. /\ ValuesOf("Text") = Characters /\ ValuesOf("Thinking") = Characters
      /\ ValuesOf("Call") = AllTexts
  BY DEF ValuesOf
<1>4. /\ Folded("Text") \in AllTexts /\ Folded("Thinking") \in AllTexts
      /\ Folded("Call") \in Seq(AllTexts)
  BY <1>2, <1>3 DEF AllTexts
<1> QED
  BY <1>4 DEF Accumulated

\* What parsing makes of a block: a text, no longer than the block, and shorter
\* when it holds a function tag.
LEMMA FirstFunction ==
  ASSUME NEW b \in AllTexts
  PROVE  LET n == SelectInSeq(b, LAMBDA c : c = "f")
         IN  n \in 0..Len(b) /\ (Parses(b) => n # 0)
<1> DEFINE I == {i \in 1..Len(b) : b[i] = "f"}
           n == SelectInSeq(b, LAMBDA c : c = "f")
<1>1. Len(b) \in Nat
  BY LenProperties DEF AllTexts
<1>2. n = IF I # {} THEN Min(I) ELSE 0
  BY DEF SelectInSeq
<1>3. I # {} => Min(I) \in I
  <2>1. SUFFICES ASSUME I # {} PROVE Min(I) \in I
    OBVIOUS
  <2>2. I \subseteq Nat
    BY <1>1
  <2> HIDE DEF I
  <2>3. PICK x \in I : \A y \in I : x <= y
    BY <2>1, <2>2, Least
  <2> QED
    BY <2>3 DEF Min
<1>4. Parses(b) => I # {}
  BY DEF Parses, Contains
<1> HIDE DEF n
<1>5. n \in 0..Len(b) /\ (Parses(b) => n # 0)
  <2>1. \A i \in I : i \in 0..Len(b) /\ i # 0
    BY <1>1
  <2> HIDE DEF I
  <2> QED
    BY <1>1, <1>2, <1>3, <1>4, <2>1
<1> QED
  BY <1>5 DEF n

LEMMA ParsedCall ==
  ASSUME NEW b \in AllTexts
  PROVE  /\ parse_one_tool_call_block(b) \in AllTexts
         /\ Parses(b) => Len(parse_one_tool_call_block(b)) < Len(b)
<1> DEFINE n == SelectInSeq(b, LAMBDA c : c = "f")
           k == Kept(b, n)
           call == trim(k)
           said == [i \in 1..Len(call) |-> IF call[i] = "j" THEN "J" ELSE call[i]]
<1>1. n \in 0..Len(b) /\ (Parses(b) => n # 0) /\ Len(b) \in Nat
  BY FirstFunction, LenProperties DEF AllTexts
<1>2. parse_one_tool_call_block(b) = said
  BY DEF parse_one_tool_call_block
<1> HIDE DEF n
<1>3. k \in Seq(Characters) /\ Len(k) = Len(b) - n
  BY <1>1, KeptText DEF AllTexts
<1> HIDE DEF k
<1>4. call \in Seq(Characters) /\ Len(call) <= Len(k)
  BY <1>3, TrimIs
<1> HIDE DEF call
<1>5. Len(call) \in Nat /\ \A i \in 1..Len(call) : call[i] \in Characters
  BY <1>4, LenProperties, ElementOfSeq
<1>6. said \in [1..Len(call) -> Characters]
  <2>1. "J" \in Characters
    BY DEF Characters
  <2> QED
    BY <1>5, <2>1
<1> HIDE DEF said
<1>7. said \in Seq(Characters) /\ Len(said) = Len(call)
  BY <1>5, <1>6, TupleIsSeq
<1>8. Parses(b) => Len(said) < Len(b)
  <2>1. PICK u \in Nat, v \in Nat : u = Len(b) /\ v = Len(call)
    BY <1>1, <1>5
  <2>2. v <= u - n
    BY <1>3, <1>4, <2>1
  <2>3. n \in 0..u
    BY <1>1, <2>1
  <2>4. n # 0 => v < u
    BY <2>2, <2>3
  <2> QED
    BY <1>1, <1>7, <2>1, <2>4
<1> QED
  BY <1>2, <1>7, <1>8 DEF AllTexts

LEMMA ToolCallsAre ==
  ASSUME out \in Seq(AllEvents)
  PROVE  /\ tool_calls \in Seq(AllTexts) /\ Len(tool_calls) = Len(Accumulated.calls)
         /\ \A k \in 1..Len(Accumulated.calls) :
              tool_calls[k] = parse_one_tool_call_block(Accumulated.calls[k])
<1> DEFINE cs == Accumulated.calls
           f == [k \in 1..Len(cs) |-> parse_one_tool_call_block(cs[k])]
           T == AllTexts
<1>1. cs \in Seq(T)
  BY AccumulatedType
<1>2. tool_calls = f
  BY DEF tool_calls
<1>3. \A c \in T : parse_one_tool_call_block(c) \in T
  BY ParsedCall
<1> HIDE DEF cs, T
<1>4. Len(cs) \in Nat /\ \A k \in 1..Len(cs) : cs[k] \in T
  BY <1>1, LenProperties, ElementOfSeq
<1>5. f \in [1..Len(cs) -> T] /\ \A k \in 1..Len(cs) : f[k] = parse_one_tool_call_block(cs[k])
  BY <1>3, <1>4
<1> HIDE DEF f
<1>6. f \in Seq(T) /\ Len(f) = Len(cs)
  BY <1>4, <1>5, TupleIsSeq
<1> QED
  BY <1>2, <1>5, <1>6 DEF cs, T

LEMMA ReplyType ==
  ASSUME ScannerTypes, NEW S, Characters \subseteq S,
         NEW form \in {"fields", "dropped", "raw"}
  PROVE  ReplyMessage(form) \in MessagesOver(S)
<1>1. AllTexts \subseteq Seq(S)
  BY SeqMonotonic DEF AllTexts
<1>2. Seq(AllTexts) \subseteq Seq(Seq(S))
  BY <1>1, SeqMonotonic
<1>3. text \in Seq(S) /\ OpenThink \in Seq(S) /\ <<>> \in Seq(S) /\ <<>> \in Seq(Seq(S))
  <2>1. text \in AllTexts /\ OpenThink \in AllTexts
    BY TagShape DEF ScannerTypes, Tags
  <2> QED
    BY <1>1, <2>1, EmptySeq
<1> DEFINE c == Accumulated.content
           r == reasoning_content
           d == tool_calls
           o == IF primed THEN OpenThink ELSE <<>>
<1>4. c \in Seq(S) /\ r \in Seq(S) \union {Absent} /\ d \in Seq(Seq(S))
  <2>1. c \in AllTexts /\ Accumulated.thinking \in AllTexts /\ d \in Seq(AllTexts)
    BY AccumulatedType, ToolCallsAre DEF ScannerTypes
  <2>2. r \in AllTexts \union {Absent}
    BY <2>1 DEF reasoning_content
  <2> HIDE DEF c, r, d
  <2> QED
    BY <1>1, <1>2, <2>1, <2>2
<1>5. o \o text \in Seq(S)
  <2>1. o \in Seq(S)
    BY <1>3
  <2> QED
    BY <1>3, <2>1, ConcatProperties
<1> HIDE DEF c, r, d, o
<1>6. \A u \in Seq(S), v \in Seq(S) \union {Absent}, w \in Seq(Seq(S)) :
        Assistant(u, v, w) \in MessagesOver(S)
  BY DEF Assistant, MessagesOver, Roles
<1>7. CASE form = "fields"
  <2>1. ReplyMessage(form) = Assistant(c, r, d)
    BY <1>7 DEF ReplyMessage, c, r, d
  <2> QED
    BY <1>4, <1>6, <2>1
<1>8. CASE form = "dropped"
  <2>1. ReplyMessage(form) = Assistant(c, Absent, d)
    BY <1>8 DEF ReplyMessage, c, d
  <2> QED
    BY <1>4, <1>6, <2>1
<1>9. CASE form = "raw"
  <2>1. ReplyMessage(form) = Assistant(o \o text, Absent, <<>>)
    BY <1>9 DEF ReplyMessage, o
  <2> QED
    BY <1>3, <1>5, <1>6, <2>1
<1> QED
  BY <1>7, <1>8, <1>9

(***************************************************************************)
(* The conversation: the first prompt was made of messages the client      *)
(* still has in front, the second of all that it has.                      *)
(***************************************************************************)
Begins(u, t) == Len(u) <= Len(t) /\ \A i \in 1..Len(u) : t[i] = u[i]

InFront(fs) == fs # <<>> /\ Valid(fs) /\ Begins(fs, messages)

ConversationInv ==
  /\ messages \in Seq(Messages)
  /\ \/ prompts = <<>> /\ reply = "none"
     \/ \E fs \in Seq(Messages) : InFront(fs) /\ prompts = <<render_with_boundary(fs)>>
     \/ \E fs, gs \in Seq(Messages) :
          /\ InFront(fs) /\ messages = gs /\ Valid(gs) /\ reply = "awaited"
          /\ prompts = <<render_with_boundary(fs), render_with_boundary(gs)>>

LEMMA SameSession ==
  ASSUME NEW ms, session' = session, primed' = primed
  PROVE  render_with_boundary(ms)' = render_with_boundary(ms)
<1>1. \A i : KeptReasoning(ms, i)' = KeptReasoning(ms, i)
  BY DEF KeptReasoning
<1>2. \A i : render_assistant_turn(ms, i)' = render_assistant_turn(ms, i)
  BY <1>1 DEF render_assistant_turn
<1>3. \A i : Rendered(ms, i)' = Rendered(ms, i)
  BY <1>2 DEF Rendered
<1>4. Header(ms)' = Header(ms)
  BY DEF Header
<1>5. [i \in DOMAIN ms |-> Rendered(ms, i)]' = [i \in DOMAIN ms |-> Rendered(ms, i)]
  BY <1>3
<1>6. History(ms)' = History(ms)
  BY <1>4, <1>5 DEF History
<1> QED
  BY <1>6 DEF render_with_boundary

LEMMA ConversationStays ==
  ASSUME ConversationInv, session' = session, primed' = primed,
         messages' = messages, prompts' = prompts, reply' = reply
  PROVE  ConversationInv'
<1>1. \A ms : render_with_boundary(ms)' = render_with_boundary(ms)
  BY SameSession
<1>2. \A fs : InFront(fs)' <=> InFront(fs)
  BY DEF InFront
<1>3. messages' \in Seq(Messages)
  BY DEF ConversationInv
<1>4. CASE prompts = <<>> /\ reply = "none"
  BY <1>3, <1>4 DEF ConversationInv
<1>5. CASE \E fs \in Seq(Messages) : InFront(fs) /\ prompts = <<render_with_boundary(fs)>>
  <2>1. PICK fs \in Seq(Messages) : InFront(fs) /\ prompts = <<render_with_boundary(fs)>>
    BY <1>5
  <2>2. InFront(fs)' /\ prompts' = <<render_with_boundary(fs)'>>
    BY <1>1, <1>2, <2>1
  <2> QED
    BY <1>3, <2>2 DEF ConversationInv
<1>6. CASE \E fs, gs \in Seq(Messages) :
             /\ InFront(fs) /\ messages = gs /\ Valid(gs) /\ reply = "awaited"
             /\ prompts = <<render_with_boundary(fs), render_with_boundary(gs)>>
  <2>1. PICK fs \in Seq(Messages), gs \in Seq(Messages) :
             /\ InFront(fs) /\ messages = gs /\ Valid(gs) /\ reply = "awaited"
             /\ prompts = <<render_with_boundary(fs), render_with_boundary(gs)>>
    BY <1>6
  <2>2. /\ InFront(fs)' /\ messages' = gs /\ reply' = "awaited"
        /\ prompts' = <<render_with_boundary(fs)', render_with_boundary(gs)'>>
    BY <1>1, <1>2, <2>1
  <2> QED
    BY <1>3, <2>2 DEF ConversationInv
<1> QED
  BY <1>4, <1>5, <1>6 DEF ConversationInv

LEMMA ConversationGoesOn ==
  ASSUME ConversationInv, session' = session, primed' = primed, prompts' = prompts,
         messages' \in Seq(Messages), Begins(messages, messages'),
         prompts # <<>>, Len(prompts) # 2
  PROVE  ConversationInv'
<1>1. \A ms : render_with_boundary(ms)' = render_with_boundary(ms)
  BY SameSession
<1>2. PICK fs \in Seq(Messages) : InFront(fs) /\ prompts = <<render_with_boundary(fs)>>
  BY DEF ConversationInv
<1>3. InFront(fs)'
  <2>1. Len(fs) \in Nat /\ Len(messages) \in Nat /\ Len(messages') \in Nat
    BY LenProperties DEF ConversationInv
  <2>2. \A i \in 1..Len(fs) : i \in 1..Len(messages)
    BY <1>2, <2>1 DEF InFront, Begins
  <2> QED
    BY <1>2, <2>1, <2>2 DEF InFront, Begins
<1>4. prompts' = <<render_with_boundary(fs)'>>
  BY <1>1, <1>2
<1> QED
  BY <1>3, <1>4 DEF ConversationInv

LEMMA AppendOne ==
  ASSUME NEW a, NEW b
  PROVE  Append(<<a>>, b) = <<a, b>>
<1> DEFINE S == {a, b}
<1>1. <<a>> \in Seq(S) /\ <<a, b>> \in Seq(S) /\ b \in S
  OBVIOUS
<1>2. /\ Append(<<a>>, b) \in Seq(S) /\ Len(Append(<<a>>, b)) = 2
      /\ Append(<<a>>, b)[1] = a /\ Append(<<a>>, b)[2] = b
  BY <1>1, AppendProperties
<1>3. Len(<<a, b>>) = 2 /\ <<a, b>>[1] = a /\ <<a, b>>[2] = b
  OBVIOUS
<1> DEFINE u == Append(<<a>>, b)
           v == <<a, b>>
<1>4. /\ u \in Seq(S) /\ v \in Seq(S) /\ Len(u) = 2 /\ Len(v) = 2
      /\ u[1] = v[1] /\ u[2] = v[2]
  BY <1>1, <1>2, <1>3
<1> HIDE DEF u, v, S
<1>5. \A i \in 1..Len(u) : u[i] = v[i]
  BY <1>4
<1>6. u = v
  BY <1>4, <1>5, SeqEqual
<1> QED
  BY <1>6 DEF u, v

LEMMA RequestIsSound ==
  ASSUME ConversationInv, Request
  PROVE  ConversationInv'
<1>1. /\ session' = session /\ primed' = primed /\ messages' = messages
      /\ reply' = "awaited" /\ prompts' = Append(prompts, render_with_boundary(messages))
      /\ Len(prompts) < 2 /\ Valid(messages)
  BY DEF Request, vars, MaxRequests
<1>2. \A ms : render_with_boundary(ms)' = render_with_boundary(ms)
  BY <1>1, SameSession
<1>3. \A fs : InFront(fs)' <=> InFront(fs)
  BY <1>1 DEF InFront
<1>4. PICK gs \in Seq(Messages) : gs = messages
  BY DEF ConversationInv
<1>5. prompts' = Append(prompts, render_with_boundary(gs)')
  BY <1>1, <1>2, <1>4
<1>6. CASE prompts = <<>> /\ reply = "none"
  <2>1. InFront(gs)
    <3>1. messages # <<>> /\ Len(messages) \in Nat
      <4>1. PICK i \in DOMAIN messages : messages[i].role = "user"
        BY <1>1 DEF Valid
      <4>2. messages \in Seq(Messages)
        BY DEF ConversationInv
      <4> QED
        BY <4>1, <4>2, LenProperties
    <3> QED
      BY <1>1, <1>4, <3>1 DEF InFront, Begins
  <2>2. InFront(gs)' /\ prompts' = <<render_with_boundary(gs)'>>
    BY <1>3, <1>5, <1>6, <2>1
  <2> QED
    BY <1>1, <1>4, <2>2 DEF ConversationInv
<1>7. CASE \E fs \in Seq(Messages) : InFront(fs) /\ prompts = <<render_with_boundary(fs)>>
  <2>1. PICK fs \in Seq(Messages) : InFront(fs) /\ prompts = <<render_with_boundary(fs)>>
    BY <1>7
  <2>2. prompts' = <<render_with_boundary(fs)', render_with_boundary(gs)'>>
    <3>1. \A a, b : Append(<<a>>, b) = <<a, b>>
      BY AppendOne
    <3>2. prompts' = <<render_with_boundary(fs), render_with_boundary(gs)'>>
      BY <1>5, <2>1, <3>1, Zenon
    <3> QED
      BY <1>2, <3>2
  <2>3. InFront(fs)' /\ messages' = gs
    BY <1>1, <1>3, <1>4, <2>1
  <2> QED
    BY <1>1, <1>4, <2>2, <2>3 DEF ConversationInv
<1>8. CASE \E fs, gs1 \in Seq(Messages) :
             prompts = <<render_with_boundary(fs), render_with_boundary(gs1)>>
  BY <1>1, <1>8
<1> QED
  BY <1>6, <1>7, <1>8 DEF ConversationInv

LEMMA ConversationInvHolds == ConversationSpec => []ConversationInv
<1>1. ConversationInit => ConversationInv
  <2>1. SUFFICES ASSUME ConversationInit PROVE ConversationInv
    OBVIOUS
  <2>2. PICK s \in Sessions : messages = s.messages
    BY <2>1 DEF ConversationInit
  <2>3. messages \in Seq(Messages)
    BY <2>2, SessionsAssumption
  <2> QED
    BY <2>1, <2>3 DEF ConversationInit, ConversationInv
<1>2. ScannerInv /\ ConversationInv /\ [ConversationNext]_<<vars, conversation>> => ConversationInv'
  <2>1. SUFFICES ASSUME ScannerInv, ConversationInv, [ConversationNext]_<<vars, conversation>>
                 PROVE  ConversationInv'
    OBVIOUS
  <2>2. ScannerTypes /\ messages \in Seq(Messages)
    BY <2>1 DEF ScannerInv, ConversationInv
  <2>3. CASE Request
    BY <2>1, <2>3, RequestIsSound
  <2>4. CASE FeedAnswer
    <3>1. primed' = primed
      BY <2>4 DEF FeedAnswer, Feed
    <3> QED
      BY <2>1, <2>4, <3>1, ConversationStays DEF FeedAnswer, conversation
  <2>5. CASE FinishAnswer
    <3>1. primed' = primed
      BY <2>5 DEF FinishAnswer, Finish
    <3> QED
      BY <2>1, <2>5, <3>1, ConversationStays DEF FinishAnswer, conversation
  <2>6. CASE KeepAnswer
    <3>1. /\ session' = session /\ primed' = primed /\ prompts' = prompts /\ Len(prompts) = 1
      BY <2>6 DEF KeepAnswer, Answer, vars
    <3>2. PICK form \in {"fields", "dropped", "raw"} :
             messages' = Append(messages, ReplyMessage(form))
      BY <2>6 DEF KeepAnswer
    <3>3. ReplyMessage(form) \in Messages
      <4>1. ReplyMessage(form) \in MessagesOver(Words)
        <5>1. Characters \subseteq Words
          BY DEF Words
        <5> QED
          BY <2>2, <5>1, ReplyType
      <4> QED
        BY <4>1 DEF MessagesOver, Messages
    <3>4. messages' \in Seq(Messages) /\ Begins(messages, messages')
      BY <2>2, <3>2, <3>3, AppendProperties DEF Begins
    <3>5. prompts # <<>> /\ Len(prompts) # 2
      BY <3>1
    <3> QED
      BY <2>1, <3>1, <3>4, <3>5, ConversationGoesOn
  <2>7. CASE HangUp
    <3>1. /\ session' = session /\ primed' = primed /\ prompts' = prompts /\ Len(prompts) = 1
          /\ messages' = messages
      BY <2>7 DEF HangUp, Answer
    <3>2. messages' \in Seq(Messages) /\ Begins(messages, messages')
      BY <2>2, <3>1, LenProperties DEF Begins
    <3>3. prompts # <<>> /\ Len(prompts) # 2
      BY <3>1
    <3> QED
      BY <2>1, <3>1, <3>2, <3>3, ConversationGoesOn
  <2>8. CASE ClientAdds
    <3>1. /\ session' = session /\ primed' = primed /\ prompts' = prompts
          /\ reply \notin {"none", "awaited"}
      BY <2>8 DEF ClientAdds, vars
    <3>2. PICK batch \in Added : messages' = messages \o batch
      BY <2>8 DEF ClientAdds
    <3>3. messages' \in Seq(Messages) /\ Begins(messages, messages')
      <4>1. batch \in Seq(Messages)
        BY AddedAssumption
      <4> QED
        BY <2>2, <3>2, <4>1, ConcatProperties, LenProperties DEF Begins
    <3>4. PICK fs \in Seq(Messages) : prompts = <<render_with_boundary(fs)>>
      BY <2>1, <3>1 DEF ConversationInv
    <3>5. prompts # <<>> /\ Len(prompts) # 2
      BY <3>4
    <3> QED
      BY <2>1, <3>1, <3>3, <3>5, ConversationGoesOn
  <2>9. CASE UNCHANGED <<vars, conversation>>
    BY <2>1, <2>9, ConversationStays DEF vars, conversation
  <2> QED
    BY <2>1, <2>3, <2>4, <2>5, <2>6, <2>7, <2>8, <2>9 DEF ConversationNext
<1>3. ConversationSpec => []ScannerInv
  BY ScannerInvHolds
<1> QED
  BY <1>1, <1>2, <1>3, PTL DEF ConversationSpec

\* Sequences put behind leave the beginning as it is.
LEMMA ConcatBegins ==
  ASSUME NEW S, NEW u \in Seq(S), NEW v \in Seq(S)
  PROVE  u \o v \in Seq(S) /\ Begins(u, u \o v)
BY ConcatProperties, LenProperties DEF Begins

LEMMA BeginsOn ==
  ASSUME NEW S, NEW u \in Seq(S), NEW v \in Seq(S), NEW w \in Seq(S), Begins(u, v), Begins(v, w)
  PROVE  Begins(u, w)
<1>1. Len(u) \in Nat /\ Len(v) \in Nat /\ Len(w) \in Nat
  BY LenProperties
<1>2. \A i \in 1..Len(u) : i \in 1..Len(v)
  BY <1>1 DEF Begins
<1> QED
  BY <1>1, <1>2 DEF Begins

LEMMA PromptBegins ==
  ASSUME NEW ms \in Seq(Messages), ms # <<>>
  PROVE  /\ History(ms) \in Seq(Words) /\ render_with_boundary(ms).text \in Seq(Words)
         /\ Begins(History(ms), render_with_boundary(ms).text)
         /\ render_with_boundary(ms).boundary = Len(History(ms)) - 1
         /\ render_with_boundary(ms).count = Len(ms)
<1> DEFINE h == History(ms)
           o == OpenTurn("assistant")
           e == IF primed THEN <<>> ELSE CloseThink
           p == render_with_boundary(ms)
<1>1. h \in Seq(Words)
  BY HistoryType
<1>2. o \in Seq(Words) /\ OpenThink \in Seq(Words) /\ CloseThink \in Seq(Words) /\ <<>> \in Seq(Words)
  <2>1. OpenThink \in AllTexts /\ CloseThink \in AllTexts
    BY TagShape DEF Tags
  <2>2. Characters \subseteq Words
    BY DEF Words
  <2>3. AllTexts \subseteq Seq(Words)
    BY <2>2, SeqMonotonic DEF AllTexts
  <2>4. o \in Seq(Words)
    BY DEF OpenTurn, Words, Roles
  <2> QED
    BY <2>1, <2>3, <2>4, EmptySeq
<1>3. e \in Seq(Words)
  BY <1>2
<1>4. p.text = h \o o \o OpenThink \o e /\ p.boundary = Len(h) - 1 /\ p.count = Len(ms)
  BY DEF render_with_boundary
<1> HIDE DEF h, o, e, p
<1>5. PICK a \in Seq(Words) : a = h \o o /\ Begins(h, a)
  BY <1>1, <1>2, ConcatBegins
<1>6. PICK b \in Seq(Words) : b = a \o OpenThink /\ Begins(a, b)
  BY <1>2, ConcatBegins
<1>7. PICK c \in Seq(Words) : c = b \o e /\ Begins(b, c)
  BY <1>3, ConcatBegins
<1>8. Begins(h, b)
  BY <1>1, <1>5, <1>6, BeginsOn
<1>9. Begins(h, c)
  BY <1>1, <1>7, <1>8, BeginsOn
<1>10. c = p.text
  BY <1>4, <1>5, <1>6, <1>7
<1> QED
  BY <1>1, <1>4, <1>9, <1>10 DEF h, p

LEMMA FrontIsPrefix ==
  ASSUME NEW S, NEW h \in Seq(S), NEW s \in Seq(S), NEW t \in Seq(S), NEW n \in Int,
         Begins(h, s), Begins(h, t), n <= Len(h)
  PROVE  IsPrefix(SubSeq(s, 1, n), t)
<1> DEFINE u == SubSeq(s, 1, n)
<1>1. Len(h) \in Nat /\ Len(s) \in Nat /\ Len(t) \in Nat /\ Len(h) <= Len(s) /\ Len(h) <= Len(t)
  BY LenProperties DEF Begins
<1>2. CASE n < 1
  <2>1. u = <<>>
    BY <1>2, SubSeqEmpty
  <2>2. SubSeq(t, 1, 0) = <<>> /\ SubSeq(u, 1, 0) = <<>>
    BY SubSeqEmpty
  <2>3. Len(u) = 0
    <3> HIDE DEF u
    <3> QED
      BY <2>1
  <2> HIDE DEF u
  <2> QED
    BY <1>1, <2>2, <2>3 DEF IsPrefix, u
<1>3. CASE n >= 1
  <2>1. n \in 0..Len(s) /\ n \in 0..Len(t) /\ \A i \in 1..n : i \in 1..Len(h)
    BY <1>1, <1>3
  <2>2. /\ u \in Seq(S) /\ Len(u) = n /\ \A i \in 1..n : u[i] = s[i]
        /\ SubSeq(t, 1, n) \in Seq(S) /\ Len(SubSeq(t, 1, n)) = n
        /\ \A i \in 1..n : SubSeq(t, 1, n)[i] = t[i]
    BY <2>1, FrontText
  <2>3. \A i \in 1..n : s[i] = t[i]
    BY <2>1 DEF Begins
  <2> HIDE DEF u
  <2>4. u = SubSeq(t, 1, n)
    BY <2>2, <2>3, SeqEqual
  <2>5. SubSeq(u, 1, Len(u)) = u
    BY <2>2, SubSeqFull
  <2> QED
    BY <1>1, <2>1, <2>2, <2>4, <2>5 DEF IsPrefix, u
<1> QED
  BY <1>2, <1>3

(***************************************************************************)
(* Snapshots across requests: the next prompt reproduces the last one up   *)
(* to its boundary, for every history, whatever was generated and however  *)
(* the client returns it, except where tools answered a call the client    *)
(* never saw the end of.                                                   *)
(***************************************************************************)
THEOREM BoundaryAlwaysRerenders == ConversationSpec => []BoundaryRerenders
<1>1. ConversationInv => BoundaryRerenders
  <2>1. SUFFICES ASSUME ConversationInv, NEW j \in DOMAIN prompts, NEW k \in DOMAIN prompts,
                        j < k, ~ Rejoined(prompts[j])
                 PROVE  IsPrefix(UpToBoundary(prompts[j]), prompts[k].text)
    BY DEF BoundaryRerenders
  <2>2. CASE \E p : prompts = <<p>>
    BY <2>1, <2>2
  <2>3. CASE \E fs, gs \in Seq(Messages) :
               /\ InFront(fs) /\ messages = gs /\ Valid(gs) /\ reply = "awaited"
               /\ prompts = <<render_with_boundary(fs), render_with_boundary(gs)>>
    <3>1. PICK fs \in Seq(Messages), gs \in Seq(Messages) :
               /\ InFront(fs) /\ messages = gs
               /\ prompts = <<render_with_boundary(fs), render_with_boundary(gs)>>
      BY <2>3
    <3> DEFINE p == render_with_boundary(fs)
               q == render_with_boundary(gs)
               c == Len(fs)
    <3>2. prompts[j] = p /\ prompts[k] = q
      <4> HIDE DEF p, q
      <4>1. prompts = <<p, q>>
        BY <3>1 DEF p, q
      <4>2. j = 1 /\ k = 2
        BY <2>1, <4>1
      <4> QED
        BY <4>1, <4>2
    <3>3. Len(fs) \in Nat \ {0} /\ Len(gs) \in Nat /\ Len(fs) <= Len(gs) /\ fs # <<>> /\ gs # <<>>
      BY <3>1, EmptySeq, LenProperties DEF InFront, Begins
    <3>4. c \in 1..Len(gs) /\ c \in 0..Len(gs)
      BY <3>3
    <3>5. SubSeq(gs, 1, c) = fs
      <4>1. /\ SubSeq(gs, 1, c) \in Seq(Messages) /\ Len(SubSeq(gs, 1, c)) = c
            /\ \A i \in 1..c : SubSeq(gs, 1, c)[i] = gs[i]
        BY <3>4, FrontText
      <4>2. \A i \in 1..c : gs[i] = fs[i]
        BY <3>1 DEF InFront, Begins
      <4> QED
        BY <4>1, <4>2, SeqEqual
    <3>6. /\ History(fs) \in Seq(Words) /\ p.text \in Seq(Words) /\ Begins(History(fs), p.text)
          /\ p.boundary = Len(History(fs)) - 1 /\ p.count = c
          /\ History(gs) \in Seq(Words) /\ q.text \in Seq(Words) /\ Begins(History(gs), q.text)
      BY <3>3, PromptBegins
    <3>7. ~ (c < Len(gs) /\ Joins(gs, c))
      BY <2>1, <3>1, <3>2, <3>3, <3>6 DEF Rejoined, Joins
    <3>8. PICK r \in Seq(Words) : History(gs) = History(fs) \o r
      BY <3>4, <3>5, <3>7, HistoryGrows
    <3>9. Begins(History(fs), q.text)
      <4>1. Begins(History(fs), History(gs))
        BY <3>6, <3>8, ConcatBegins
      <4> QED
        BY <3>6, <4>1, BeginsOn
    <3> HIDE DEF p, q, c
    <3>10. p.boundary \in Int /\ p.boundary <= Len(History(fs))
      BY <3>6, LenProperties
    <3>11. IsPrefix(SubSeq(p.text, 1, p.boundary), q.text)
      BY <3>6, <3>9, <3>10, FrontIsPrefix
    <3> QED
      BY <3>2, <3>11 DEF UpToBoundary
  <2>4. CASE prompts = <<>>
    BY <2>1, <2>4
  <2> QED
    BY <2>1, <2>2, <2>3, <2>4 DEF ConversationInv
<1>2. ConversationSpec => []ConversationInv
  BY ConversationInvHolds
<1> QED
  BY <1>1, <1>2, PTL

-----------------------------------------------------------------------------
(***************************************************************************)
(* Turns open and close in turn: reading a sequence from left to right, a  *)
(* turn opens only where none is open and closes only where one is.        *)
(***************************************************************************)
TurnStates == {"open", "closed"}
Step(x, before, after) ==
  /\ x = "<|im_start|>" => before = "closed" /\ after = "open"
  /\ x = "<|im_end|>" => before = "open" /\ after = "closed"
  /\ x \notin {"<|im_start|>", "<|im_end|>"} => after = before
WalksBy(d, s, o, c) ==
  /\ d \in [0..Len(s) -> TurnStates] /\ d[0] = o /\ d[Len(s)] = c
  /\ \A i \in 1..Len(s) : Step(s[i], d[i - 1], d[i])
Walks(s, o, c) == \E d : WalksBy(d, s, o, c)

LEMMA WalksOn ==
  ASSUME NEW S, NEW a \in Seq(S), NEW b \in Seq(S), NEW o, NEW m, NEW c,
         Walks(a, o, m), Walks(b, m, c)
  PROVE  Walks(a \o b, o, c)
<1> DEFINE j == Len(a)
           k == Len(b)
           s == a \o b
<1>1. j \in Nat /\ k \in Nat
  BY LenProperties
<1>2. Len(s) = j + k /\ \A i \in 1..(j + k) : s[i] = IF i <= j THEN a[i] ELSE b[i - j]
  BY ConcatProperties
<1>3. PICK f : WalksBy(f, a, o, m)
  BY DEF Walks
<1>4. PICK g : WalksBy(g, b, m, c)
  BY DEF Walks
<1> DEFINE d == [i \in 0..(j + k) |-> IF i <= j THEN f[i] ELSE g[i - j]]
<1>j. j = Len(a) /\ k = Len(b)
  OBVIOUS
<1> HIDE DEF j, k, s
<1>5. \A i \in 0..(j + k) : d[i] = IF i <= j THEN f[i] ELSE g[i - j]
  OBVIOUS
<1>6. /\ \A i \in 0..j : f[i] \in TurnStates
      /\ \A i \in 0..k : g[i] \in TurnStates
      /\ f[0] = o /\ f[j] = m /\ g[0] = m /\ g[k] = c
      /\ \A i \in 1..j : Step(a[i], f[i - 1], f[i])
      /\ \A i \in 1..k : Step(b[i], g[i - 1], g[i])
  BY <1>3, <1>4, <1>j DEF WalksBy
<1>7. d \in [0..(j + k) -> TurnStates]
  <2>1. \A i \in 0..(j + k) : i <= j \/ i - j \in 0..k
    BY <1>1
  <2> QED
    BY <1>1, <1>6, <2>1
<1> HIDE DEF d
<1>8. d[0] = o
  BY <1>1, <1>5, <1>6
<1>9. d[j + k] = c
  <2>1. CASE k = 0
    BY <1>1, <1>5, <1>6, <2>1
  <2>2. CASE k # 0
    <3>1. j + k \in 0..(j + k) /\ ~ (j + k <= j) /\ (j + k) - j = k
      BY <1>1, <2>2
    <3> QED
      BY <1>5, <1>6, <3>1
  <2> QED
    BY <2>1, <2>2
<1>10. ASSUME NEW i \in 1..(j + k) PROVE Step(s[i], d[i - 1], d[i])
  <2>1. CASE i <= j
    <3>1. i \in 1..j /\ i \in 0..(j + k) /\ i - 1 \in 0..(j + k) /\ i - 1 <= j
      BY <1>1, <2>1
    <3>2. s[i] = a[i] /\ d[i] = f[i] /\ d[i - 1] = f[i - 1]
      BY <1>2, <1>5, <2>1, <3>1
    <3> QED
      BY <1>6, <3>1, <3>2
  <2>2. CASE ~ (i <= j)
    <3>1. PICK n \in 1..k : n = i - j
      BY <1>1, <2>2
    <3>2. /\ i \in 0..(j + k) /\ i - 1 \in 0..(j + k) /\ (i - 1) - j = n - 1
      BY <1>1, <2>2, <3>1
    <3>3. s[i] = b[n] /\ d[i] = g[n]
      BY <1>2, <1>5, <2>2, <3>1, <3>2
    <3>4. d[i - 1] = g[n - 1]
      <4>1. CASE i - 1 <= j
        <5>1. i - 1 = j /\ n - 1 = 0
          BY <1>1, <2>2, <3>1, <4>1
        <5> QED
          BY <1>5, <1>6, <3>2, <5>1
      <4>2. CASE ~ (i - 1 <= j)
        BY <1>5, <3>2, <4>2
      <4> QED
        BY <4>1, <4>2
    <3> QED
      BY <1>6, <3>3, <3>4
  <2> QED
    BY <2>1, <2>2
<1>11. WalksBy(d, s, o, c)
  <2>1. Len(s) = j + k
    BY <1>2
  <2> QED
    BY <1>7, <1>8, <1>9, <1>10, <2>1 DEF WalksBy
<1> QED
  BY <1>11 DEF Walks, s

\* What holds no marks neither opens nor closes.
Plain == Words \ {"<|im_start|>", "<|im_end|>"}

LEMMA PlainWalks ==
  ASSUME NEW s \in Seq(Plain), NEW o \in TurnStates
  PROVE  Walks(s, o, o)
<1> DEFINE d == [i \in 0..Len(s) |-> o]
<1>1. Len(s) \in Nat /\ \A i \in 1..Len(s) : s[i] \in Plain
  BY LenProperties, ElementOfSeq
<1>2. d \in [0..Len(s) -> TurnStates] /\ \A i \in 0..Len(s) : d[i] = o
  OBVIOUS
<1> HIDE DEF d
<1>3. ASSUME NEW i \in 1..Len(s) PROVE Step(s[i], d[i - 1], d[i])
  <2>1. i \in 0..Len(s) /\ i - 1 \in 0..Len(s)
    BY <1>1
  <2>2. s[i] \notin {"<|im_start|>", "<|im_end|>"}
    BY <1>1 DEF Plain
  <2> QED
    BY <1>2, <2>1, <2>2 DEF Step
<1>4. WalksBy(d, s, o, o)
  BY <1>1, <1>2, <1>3 DEF WalksBy
<1> QED
  BY <1>4 DEF Walks

LEMMA MarksWalk ==
  /\ \A r \in Roles : Walks(OpenTurn(r), "closed", "open")
  /\ Walks(CloseTurn, "open", "closed")
<1>1. ASSUME NEW r \in Roles PROVE Walks(OpenTurn(r), "closed", "open")
  <2> DEFINE d == [i \in 0..2 |-> IF i = 0 THEN "closed" ELSE "open"]
             s == <<"<|im_start|>", r>>
  <2>1. /\ d \in [0..2 -> TurnStates] /\ d[0] = "closed" /\ d[1] = "open" /\ d[2] = "open"
    BY DEF TurnStates
  <2>2. Len(s) = 2 /\ s[1] = "<|im_start|>" /\ s[2] = r
    OBVIOUS
  <2>3. r \notin {"<|im_start|>", "<|im_end|>"}
    BY DEF Roles
  <2> HIDE DEF d, s
  <2>4. Step(s[1], d[0], d[1]) /\ Step(s[2], d[1], d[2])
    BY <2>1, <2>2, <2>3 DEF Step
  <2>5. \A i \in 1..2 : Step(s[i], d[i - 1], d[i])
    <3>1. ASSUME NEW i \in 1..2 PROVE Step(s[i], d[i - 1], d[i])
      <4>1. CASE i = 1
        BY <2>4, <4>1
      <4>2. CASE i = 2
        BY <2>4, <4>2
      <4> QED
        BY <4>1, <4>2
    <3> QED
      BY <3>1
  <2>6. WalksBy(d, s, "closed", "open")
    BY <2>1, <2>2, <2>5 DEF WalksBy
  <2> QED
    BY <2>6 DEF Walks, OpenTurn, s
<1>2. Walks(CloseTurn, "open", "closed")
  <2> DEFINE d == [i \in 0..2 |-> IF i = 0 THEN "open" ELSE "closed"]
             s == <<"<|im_end|>", "nl">>
  <2>1. /\ d \in [0..2 -> TurnStates] /\ d[0] = "open" /\ d[1] = "closed" /\ d[2] = "closed"
    BY DEF TurnStates
  <2>2. Len(s) = 2 /\ s[1] = "<|im_end|>" /\ s[2] = "nl"
    OBVIOUS
  <2> HIDE DEF d, s
  <2>3. Step(s[1], d[0], d[1]) /\ Step(s[2], d[1], d[2])
    BY <2>1, <2>2 DEF Step
  <2>4. \A i \in 1..2 : Step(s[i], d[i - 1], d[i])
    <3>1. ASSUME NEW i \in 1..2 PROVE Step(s[i], d[i - 1], d[i])
      <4>1. CASE i = 1
        BY <2>3, <4>1
      <4>2. CASE i = 2
        BY <2>3, <4>2
      <4> QED
        BY <4>1, <4>2
    <3> QED
      BY <3>1
  <2>5. WalksBy(d, s, "open", "closed")
    BY <2>1, <2>2, <2>4 DEF WalksBy
  <2> QED
    BY <2>5 DEF Walks, CloseTurn, s
<1> QED
  BY <1>1, <1>2

\* Where the walk stands is what the last mark says.
LEMMA WalkedMarks ==
  ASSUME NEW S, NEW s \in Seq(S), NEW c, Walks(s, "closed", c), NEW n \in Marks(s)
  PROVE  s[n] = "<|im_end|>" <=> OpenBefore(s, n)
<1> DEFINE M == Marks(s)
           LastOpens(k) == \E m \in M : /\ m <= k /\ s[m] = "<|im_start|>"
                                        /\ \A j \in M : j <= m \/ k < j
<1>1. PICK d : WalksBy(d, s, "closed", c)
  BY DEF Walks
<1>2. /\ Len(s) \in Nat /\ d[0] = "closed" /\ \A k \in 0..Len(s) : d[k] \in TurnStates
      /\ \A i \in 1..Len(s) : Step(s[i], d[i - 1], d[i])
  BY <1>1, LenProperties DEF WalksBy
<1>3. M = {i \in 1..Len(s) : s[i] \in {"<|im_start|>", "<|im_end|>"}}
  BY LenProperties DEF Marks
<1> HIDE DEF M
<1> DEFINE T == {k \in 0..Len(s) : ~ (d[k] = "open" <=> LastOpens(k))}
<1>4. ASSUME T # {} PROVE FALSE
  <2>1. PICK k \in T : \A j \in T : k <= j
    <3>1. T \subseteq Nat
      BY <1>2
    <3> HIDE DEF T
    <3> QED
      BY <1>4, <3>1, Least
  <2>2. k \in 0..Len(s) /\ ~ (d[k] = "open" <=> LastOpens(k))
    BY <2>1
  <2>3. k # 0
    BY <1>2, <1>3, <2>2
  <2>4. k \in 1..Len(s) /\ k - 1 \in 0..Len(s) /\ ~ (k <= k - 1) /\ k \in Nat
    BY <1>2, <2>2, <2>3
  <2>5. d[k - 1] = "open" <=> LastOpens(k - 1)
    <3>1. k - 1 \notin T
      <4> HIDE DEF T
      <4> QED
        BY <2>1, <2>4
    <3> HIDE DEF LastOpens
    <3> QED
      BY <2>4, <3>1
  <2>6. Step(s[k], d[k - 1], d[k]) /\ M \subseteq Nat
    BY <1>2, <1>3, <2>4
  <2>7. CASE s[k] = "<|im_start|>"
    <3>1. d[k] = "open" /\ k \in M
      BY <1>3, <2>4, <2>6, <2>7 DEF Step
    <3>2. \A j \in M : j <= k \/ k < j
      BY <2>4, <2>6
    <3> QED
      BY <2>2, <2>4, <2>7, <3>1, <3>2
  <2>8. CASE s[k] = "<|im_end|>"
    <3>1. d[k] = "closed" /\ k \in M
      BY <1>3, <2>4, <2>6, <2>8 DEF Step
    <3>2. ~ LastOpens(k)
      <4>1. SUFFICES ASSUME NEW m \in M, m <= k, s[m] = "<|im_start|>",
                            \A j \in M : j <= m \/ k < j
                     PROVE  FALSE
        OBVIOUS
      <4>2. k <= m
        BY <2>4, <3>1, <4>1
      <4> QED
        BY <2>4, <2>6, <2>8, <4>1, <4>2
    <3> QED
      BY <2>2, <3>1, <3>2
  <2>9. CASE s[k] \notin {"<|im_start|>", "<|im_end|>"}
    <3>1. d[k] = d[k - 1] /\ k \notin M
      BY <1>3, <2>6, <2>9 DEF Step
    <3>2. \A j \in M : /\ j <= k <=> j <= k - 1
                       /\ k < j <=> k - 1 < j
      BY <2>4, <2>6, <3>1
    <3>3. LastOpens(k) <=> LastOpens(k - 1)
      BY <3>2
    <3> QED
      BY <2>2, <2>5, <3>1, <3>3
  <2> QED
    BY <2>7, <2>8, <2>9
<1>5. n \in 1..Len(s) /\ s[n] \in {"<|im_start|>", "<|im_end|>"} /\ M \subseteq Nat
  BY <1>3 DEF M
<1>6. n - 1 \in 0..Len(s) /\ n \in Nat
  BY <1>2, <1>5
<1>7. d[n - 1] = "open" <=> LastOpens(n - 1)
  <2>1. n - 1 \notin T
    <3> HIDE DEF T
    <3> QED
      BY <1>4
  <2> HIDE DEF LastOpens
  <2> QED
    BY <1>6, <2>1
<1>8. s[n] = "<|im_end|>" <=> d[n - 1] = "open"
  <2>1. Step(s[n], d[n - 1], d[n])
    BY <1>2, <1>5
  <2> QED
    BY <1>5, <2>1 DEF Step
<1>9. LastOpens(n - 1) <=> OpenBefore(s, n)
  <2>1. \A j \in M : /\ j <= n - 1 <=> j < n
                     /\ n - 1 < j <=> n <= j
    BY <1>5, <1>6
  <2>2. OpenBefore(s, n) <=> \E m \in M : /\ m < n /\ s[m] = "<|im_start|>"
                                          /\ \A k \in M : k <= m \/ n <= k
    BY DEF OpenBefore, M
  <2> QED
    BY <2>1, <2>2
<1> QED
  BY <1>7, <1>8, <1>9

LEMMA WalkFront ==
  ASSUME NEW S, NEW s \in Seq(S), NEW u \in Seq(S), NEW o, NEW c, Walks(s, o, c), Begins(u, s)
  PROVE  \E e : Walks(u, o, e)
<1>1. PICK d : WalksBy(d, s, o, c)
  BY DEF Walks
<1>2. Len(s) \in Nat /\ Len(u) \in Nat /\ Len(u) <= Len(s) /\ \A i \in 1..Len(u) : s[i] = u[i]
  BY LenProperties DEF Begins
<1> DEFINE f == [i \in 0..Len(u) |-> d[i]]
<1>3. \A i \in 0..Len(u) : f[i] = d[i] /\ i \in 0..Len(s)
  BY <1>2
<1>4. f \in [0..Len(u) -> TurnStates]
  BY <1>1, <1>3 DEF WalksBy
<1> HIDE DEF f
<1>5. f[0] = o
  BY <1>1, <1>2, <1>3 DEF WalksBy
<1>6. ASSUME NEW i \in 1..Len(u) PROVE Step(u[i], f[i - 1], f[i])
  <2>1. i \in 1..Len(s) /\ i \in 0..Len(u) /\ i - 1 \in 0..Len(u)
    BY <1>2
  <2>2. Step(s[i], d[i - 1], d[i])
    BY <1>1, <2>1 DEF WalksBy
  <2> QED
    BY <1>2, <1>3, <2>1, <2>2
<1>7. WalksBy(f, u, o, f[Len(u)])
  BY <1>4, <1>5, <1>6 DEF WalksBy
<1> QED
  BY <1>7 DEF Walks

\* Whether a turn is open behind message k.
StateAt(ms, k) == IF k \in 1..(Len(ms) - 1) /\ Joins(ms, k) THEN "open" ELSE "closed"

LEMMA RenderedWalks ==
  ASSUME NEW ms \in Seq(MessagesOver(Plain)), Valid(ms), ms[1].role # "tool", NEW i \in 1..Len(ms)
  PROVE  Walks(Rendered(ms, i), StateAt(ms, i - 1), StateAt(ms, i))
<1> DEFINE o == Opening(ms, i)
           c == Closing(ms, i)
<1>1. /\ Characters \subseteq Plain /\ "<tool_response>" \in Plain /\ "</tool_response>" \in Plain
      /\ Plain \subseteq Words
  BY DEF Plain, Words, Characters
<1>2. PICK b \in Seq(Plain) : Rendered(ms, i) = o \o b \o c
  BY <1>1, RenderedShape
<1>3. Len(ms) \in Nat /\ i \in Nat
  BY LenProperties
<1>4. o \in Seq(Words) /\ b \in Seq(Words) /\ c \in Seq(Words)
  <2>1. OpenTurn("assistant") \in Seq(Words) /\ OpenTurn("user") \in Seq(Words)
    BY DEF OpenTurn, Words, Roles
  <2>2. CloseTurn \in Seq(Words) /\ <<>> \in Seq(Words)
    BY EmptySeq DEF CloseTurn, Words
  <2>3. b \in Seq(Words)
    BY <1>1, SeqMonotonic
  <2> QED
    BY <2>1, <2>2, <2>3 DEF Opening, Closing
<1>5. \A x \in TurnStates : Walks(<<>>, x, x) /\ Walks(b, x, x)
  <2>1. <<>> \in Seq(Plain)
    BY EmptySeq
  <2> QED
    BY <2>1, PlainWalks
<1>6. /\ Walks(OpenTurn("assistant"), "closed", "open")
      /\ Walks(OpenTurn("user"), "closed", "open") /\ Walks(CloseTurn, "open", "closed")
  BY MarksWalk DEF Roles
<1> DEFINE inside == IF ms[i].role = "system" THEN "closed" ELSE "open"
<1>7. Walks(o, StateAt(ms, i - 1), inside)
  <2>1. CASE ms[i].role = "system"
    <3>1. i = 1
      BY <2>1, LenProperties DEF Valid
    <3>2. StateAt(ms, i - 1) = "closed" /\ o = <<>>
      BY <2>1, <3>1 DEF StateAt, Opening, Opens
    <3> QED
      BY <1>5, <2>1, <3>2 DEF TurnStates
  <2>2. CASE ms[i].role = "tool"
    <3>1. i > 1 /\ i - 1 \in 1..(Len(ms) - 1) /\ (i - 1) + 1 = i
      BY <1>3, <2>2
    <3>2. CASE ms[i - 1].role = "tool"
      <4>1. StateAt(ms, i - 1) = "open"
        BY <2>2, <3>1, <3>2 DEF StateAt, Joins
      <4>2. o = <<>>
        BY <2>2, <3>2 DEF Opening, Opens, OpensWrapper
      <4> QED
        BY <1>5, <2>2, <4>1, <4>2 DEF TurnStates
    <3>3. CASE ms[i - 1].role # "tool"
      <4>1. StateAt(ms, i - 1) = "closed"
        BY <3>3 DEF StateAt, Joins
      <4>2. o = OpenTurn("user")
        BY <2>2, <3>1, <3>3 DEF Opening, Opens, OpensWrapper
      <4> QED
        BY <1>6, <2>2, <4>1, <4>2
    <3> QED
      BY <3>2, <3>3
  <2>3. CASE ms[i].role \notin {"system", "tool"}
    <3>1. (i - 1) + 1 = i
      BY <1>3
    <3>2. StateAt(ms, i - 1) = "closed"
      BY <2>3, <3>1 DEF StateAt, Joins
    <3>3. o = OpenTurn("assistant") \/ o = OpenTurn("user")
      BY <2>3 DEF Opening, Opens
    <3> QED
      BY <1>6, <2>3, <3>2, <3>3
  <2> QED
    BY <2>1, <2>2, <2>3
<1>8. Walks(c, inside, StateAt(ms, i))
  <2>1. CASE ms[i].role = "system"
    <3>1. StateAt(ms, i) = "closed" /\ c = <<>>
      BY <2>1 DEF StateAt, Joins, Closing, Closes
    <3> QED
      BY <1>5, <2>1, <3>1 DEF TurnStates
  <2>2. CASE ms[i].role = "tool"
    <3>1. CASE i = Len(ms) \/ ms[i + 1].role # "tool"
      <4>1. StateAt(ms, i) = "closed" /\ c = CloseTurn
        BY <1>3, <2>2, <3>1 DEF StateAt, Joins, Closing, Closes
      <4> QED
        BY <1>6, <2>2, <4>1
    <3>2. CASE ~ (i = Len(ms) \/ ms[i + 1].role # "tool")
      <4>1. StateAt(ms, i) = "open" /\ c = <<>>
        BY <1>3, <2>2, <3>2 DEF StateAt, Joins, Closing, Closes
      <4> QED
        BY <1>5, <2>2, <4>1 DEF TurnStates
    <3> QED
      BY <3>1, <3>2
  <2>3. CASE ms[i].role \notin {"system", "tool"}
    <3>1. StateAt(ms, i) = "closed" /\ c = CloseTurn
      BY <2>3 DEF StateAt, Joins, Closing, Closes
    <3> QED
      BY <1>6, <2>3, <3>1
  <2> QED
    BY <2>1, <2>2, <2>3
<1>9. inside \in TurnStates
  BY DEF TurnStates
<1> HIDE DEF o, c, inside
<1>10. Walks(b, inside, inside)
  BY <1>5, <1>9
<1>11. Walks(o \o b, StateAt(ms, i - 1), inside) /\ o \o b \in Seq(Words)
  BY <1>4, <1>7, <1>10, WalksOn, ConcatProperties
<1>12. Walks((o \o b) \o c, StateAt(ms, i - 1), StateAt(ms, i))
  BY <1>4, <1>8, <1>11, WalksOn
<1> QED
  BY <1>2, <1>12

LEMMA PlainMessages == MessagesOver(Plain) \subseteq Messages
<1>1. Plain \subseteq Words
  BY DEF Plain
<1>2. Seq(Plain) \subseteq Seq(Words)
  BY <1>1, SeqMonotonic
<1>3. Seq(Seq(Plain)) \subseteq Seq(Seq(Words))
  BY <1>2, SeqMonotonic
<1> QED
  BY <1>2, <1>3 DEF MessagesOver, Messages

LEMMA HeaderWalks ==
  ASSUME NEW ms \in Seq(MessagesOver(Plain)), ms # <<>>
  PROVE  Walks(Header(ms), "closed", "closed")
<1> DEFINE o == OpenTurn("system")
           s == trim(ms[1].content)
           e == <<>>
           u == <<"tools">>
<1>1. s \in Seq(Plain) /\ e \in Seq(Plain) /\ u \in Seq(Plain)
  <2>1. Len(ms) \in Nat \ {0}
    BY EmptySeq
  <2>2. ms[1] \in MessagesOver(Plain)
    BY <2>1, ElementOfSeq
  <2>3. ms[1].content \in Seq(Plain)
    BY <2>2 DEF MessagesOver
  <2>4. s \in Seq(Plain)
    BY <2>3, TrimIs
  <2>5. e \in Seq(Plain) /\ u \in Seq(Plain)
    BY EmptySeq DEF Plain, Words
  <2> QED
    BY <2>4, <2>5
<1>2. /\ o \in Seq(Words) /\ CloseTurn \in Seq(Words)
      /\ s \in Seq(Words) /\ e \in Seq(Words) /\ u \in Seq(Words)
  <2>1. o \in Seq(Words) /\ CloseTurn \in Seq(Words)
    BY DEF OpenTurn, CloseTurn, Words, Roles
  <2>2. Plain \subseteq Words
    BY DEF Plain
  <2>3. Seq(Plain) \subseteq Seq(Words)
    BY <2>2, SeqMonotonic
  <2> HIDE DEF o, s, e, u
  <2> QED
    BY <1>1, <2>1, <2>3
<1>3. /\ Walks(o, "closed", "open") /\ Walks(CloseTurn, "open", "closed")
      /\ Walks(s, "open", "open") /\ Walks(e, "open", "open") /\ Walks(u, "open", "open")
      /\ Walks(e, "closed", "closed")
  <2>1. Walks(o, "closed", "open") /\ Walks(CloseTurn, "open", "closed")
    BY MarksWalk DEF Roles
  <2>2. \A x \in Seq(Plain) : Walks(x, "open", "open") /\ Walks(x, "closed", "closed")
    BY PlainWalks DEF TurnStates
  <2> QED
    BY <1>1, <2>1, <2>2
<1>4. Header(ms) \in {o \o u \o s \o CloseTurn, o \o u \o e \o CloseTurn, o \o s \o CloseTurn, e}
  BY DEF Header
<1> HIDE DEF o, s, e, u
<1>5. \A a, b \in Seq(Words) :
        Walks(a, "closed", "open") /\ Walks(b, "open", "open")
          => a \o b \in Seq(Words) /\ Walks(a \o b, "closed", "open")
  BY WalksOn, ConcatProperties
<1>6. \A a, b \in Seq(Words) :
        Walks(a, "closed", "open") /\ Walks(b, "open", "closed")
          => Walks(a \o b, "closed", "closed")
  BY WalksOn
<1>7. /\ o \o u \in Seq(Words) /\ Walks(o \o u, "closed", "open")
      /\ o \o s \in Seq(Words) /\ Walks(o \o s, "closed", "open")
  BY <1>2, <1>3, <1>5
<1>8. /\ (o \o u) \o s \in Seq(Words) /\ Walks((o \o u) \o s, "closed", "open")
      /\ (o \o u) \o e \in Seq(Words) /\ Walks((o \o u) \o e, "closed", "open")
  BY <1>2, <1>3, <1>5, <1>7
<1>9. /\ Walks(((o \o u) \o s) \o CloseTurn, "closed", "closed")
      /\ Walks(((o \o u) \o e) \o CloseTurn, "closed", "closed")
      /\ Walks((o \o s) \o CloseTurn, "closed", "closed")
  BY <1>2, <1>3, <1>6, <1>7, <1>8
<1> QED
  BY <1>3, <1>4, <1>9

LEMMA TurningsWalk ==
  ASSUME NEW ms \in Seq(MessagesOver(Plain)), Valid(ms), ms[1].role # "tool",
         NEW n \in 0..Len(ms)
  PROVE  Walks(FlattenSeq(SubSeq(Turnings(ms), 1, n)), "closed", StateAt(ms, n))
<1> DEFINE R == Turnings(ms)
           F(k) == FlattenSeq(SubSeq(R, 1, k))
           T == {k \in 0..Len(ms) : ~ Walks(F(k), "closed", StateAt(ms, k))}
<1>1. ms \in Seq(Messages) /\ Len(ms) \in Nat /\ DOMAIN ms = 1..Len(ms)
  <2>1. MessagesOver(Plain) \subseteq Messages
    BY PlainMessages
  <2> QED
    BY <2>1, SeqMonotonic, LenProperties
<1>2. R \in Seq(Seq(Words)) /\ Len(R) = Len(ms) /\ \A k \in 1..Len(ms) : R[k] = Rendered(ms, k)
  BY <1>1, TurningsType DEF Turnings
<1> HIDE DEF R
<1>3. 0 \notin T
  <2>1. F(0) = <<>>
    <3>1. SubSeq(R, 1, 0) = <<>>
      BY SubSeqEmpty
    <3>2. FlattenSeq(<<>>) = <<>>
      BY DEF FlattenSeq
    <3> QED
      BY <3>1, <3>2, Zenon
  <2>2. StateAt(ms, 0) = "closed"
    BY DEF StateAt
  <2>3. Walks(<<>>, "closed", "closed")
    BY PlainWalks, EmptySeq DEF TurnStates
  <2> HIDE DEF F
  <2> QED
    BY <2>1, <2>2, <2>3
<1>4. ASSUME T # {} PROVE FALSE
  <2>1. PICK k \in T : \A j \in T : k <= j
    <3>1. T \subseteq Nat
      BY <1>1
    <3> HIDE DEF T
    <3> QED
      BY <1>4, <3>1, Least
  <2>2. k \in 1..Len(ms) /\ ~ Walks(F(k), "closed", StateAt(ms, k))
    <3> HIDE DEF F
    <3>1. k # 0
      BY <1>3, <2>1
    <3> QED
      BY <1>1, <2>1, <3>1
  <2>3. k - 1 \in 0..Len(ms) /\ k - 1 \in Nat /\ k - 1 < Len(R) /\ ~ (k <= k - 1) /\ (k - 1) + 1 = k
    BY <1>1, <1>2, <2>2
  <2>4. Walks(F(k - 1), "closed", StateAt(ms, k - 1))
    <3>1. k - 1 \notin T
      <4> HIDE DEF T
      <4> QED
        BY <2>1, <2>3
    <3> HIDE DEF F
    <3> QED
      BY <2>3, <3>1
  <2>5. /\ F(k - 1) \in Seq(Words) /\ R[k] \in Seq(Words) /\ F(k) = F(k - 1) \o R[k]
    <3>1. /\ FlattenSeq(SubSeq(R, 1, k - 1)) \in Seq(Words) /\ R[(k - 1) + 1] \in Seq(Words)
          /\ FlattenSeq(SubSeq(R, 1, (k - 1) + 1))
               = FlattenSeq(SubSeq(R, 1, k - 1)) \o R[(k - 1) + 1]
      BY <1>2, <2>3, FlattenStep
    <3> QED
      BY <2>3, <3>1
  <2>6. Walks(R[k], StateAt(ms, k - 1), StateAt(ms, k))
    BY <1>2, <2>2, RenderedWalks
  <2> HIDE DEF F
  <2>7. Walks(F(k - 1) \o R[k], "closed", StateAt(ms, k))
    BY <2>4, <2>5, <2>6, WalksOn
  <2> QED
    BY <2>2, <2>5, <2>7
<1>5. n \notin T
  <2> HIDE DEF T
  <2> QED
    BY <1>4
<1> HIDE DEF F
<1>6. Walks(F(n), "closed", StateAt(ms, n))
  BY <1>5
<1> QED
  BY <1>6 DEF F, R

LEMMA HistoryWalks ==
  ASSUME NEW ms \in Seq(MessagesOver(Plain)), ms # <<>>, Valid(ms), ms[1].role # "tool"
  PROVE  /\ Walks(History(ms), "closed", "closed")
         /\ \E x \in Seq(Words) : History(ms) = x \o CloseTurn
<1> DEFINE n == Len(ms)
           R == Turnings(ms)
           h == Header(ms)
           f == FlattenSeq(R)
<1>1. ms \in Seq(Messages) /\ n \in Nat \ {0}
  <2>1. MessagesOver(Plain) \subseteq Messages
    BY PlainMessages
  <2> QED
    BY <2>1, SeqMonotonic, EmptySeq
<1>2. R \in Seq(Seq(Words)) /\ Len(R) = n
  BY <1>1, TurningsType
<1>3. h \in Seq(Words) /\ f \in Seq(Words) /\ History(ms) = h \o f
  BY <1>1, HeaderType, HistoryType DEF History, Turnings
<1>4. Walks(f, "closed", "closed")
  <2>1. Walks(FlattenSeq(SubSeq(R, 1, n)), "closed", StateAt(ms, n))
    BY <1>1, TurningsWalk
  <2>2. SubSeq(R, 1, n) = R
    <3> DEFINE V == Seq(Words)
    <3> HIDE DEF V, R
    <3>1. R \in Seq(V) /\ Len(R) = n
      BY <1>2 DEF V
    <3> QED
      BY <3>1, SubSeqFull
  <2>3. StateAt(ms, n) = "closed"
    BY <1>1 DEF StateAt
  <2> QED
    BY <2>1, <2>2, <2>3
<1>5. Walks(History(ms), "closed", "closed")
  <2>1. Walks(h, "closed", "closed")
    BY HeaderWalks
  <2> HIDE DEF h, f
  <2> QED
    BY <1>3, <1>4, <2>1, WalksOn
<1>6. \E x \in Seq(Words) : History(ms) = x \o CloseTurn
  <2>1. /\ FlattenSeq(SubSeq(R, 1, n - 1)) \in Seq(Words)
        /\ FlattenSeq(SubSeq(R, 1, (n - 1) + 1)) = FlattenSeq(SubSeq(R, 1, n - 1)) \o R[(n - 1) + 1]
    <3>1. n - 1 \in Nat /\ n - 1 < Len(R)
      BY <1>1, <1>2
    <3> QED
      BY <1>2, <3>1, FlattenStep
  <2>2. SubSeq(R, 1, n) = R /\ (n - 1) + 1 = n
    <3> DEFINE V == Seq(Words)
    <3> HIDE DEF V, R
    <3>1. R \in Seq(V) /\ Len(R) = n
      BY <1>2 DEF V
    <3> QED
      BY <1>1, <3>1, SubSeqFull
  <2>3. R[n] = Rendered(ms, n)
    BY <1>1, LenProperties DEF Turnings
  <2>4. PICK b \in Seq(Plain) : Rendered(ms, n) = Opening(ms, n) \o b \o Closing(ms, n)
    <3>1. Characters \subseteq Plain /\ "<tool_response>" \in Plain /\ "</tool_response>" \in Plain
      BY DEF Plain, Words, Characters
    <3>2. n \in 1..Len(ms)
      BY <1>1
    <3> QED
      BY <3>1, <3>2, RenderedShape
  <2>5. Closing(ms, n) = CloseTurn
    <3>1. ms[n].role # "system"
      <4>1. ASSUME ms[n].role = "system" PROVE FALSE
        <5>1. n = 1 /\ DOMAIN ms = 1..n
          BY <1>1, <4>1, LenProperties DEF Valid
        <5>2. PICK i \in DOMAIN ms : ms[i].role = "user"
          BY DEF Valid
        <5> QED
          BY <4>1, <5>1, <5>2
      <4> QED
        BY <4>1
    <3> QED
      BY <3>1 DEF Closing, Closes
  <2>6. /\ Opening(ms, n) \in Seq(Words) /\ b \in Seq(Words) /\ CloseTurn \in Seq(Words)
    <3>1. OpenTurn("assistant") \in Seq(Words) /\ OpenTurn("user") \in Seq(Words)
      BY DEF OpenTurn, Words, Roles
    <3>2. CloseTurn \in Seq(Words) /\ <<>> \in Seq(Words)
      BY EmptySeq DEF CloseTurn, Words
    <3>3. b \in Seq(Words)
      <4>1. Plain \subseteq Words
        BY DEF Plain
      <4> QED
        BY <4>1, SeqMonotonic
    <3> QED
      BY <3>1, <3>2, <3>3 DEF Opening
  <2>7. PICK g \in Seq(Words), y \in Seq(Words), z \in Seq(Words) :
          /\ g = FlattenSeq(SubSeq(R, 1, n - 1)) /\ y = Opening(ms, n) \o b /\ z = CloseTurn
    BY <2>1, <2>6, ConcatProperties
  <2>8. f = g \o (y \o z)
    BY <2>1, <2>2, <2>3, <2>4, <2>5, <2>7
  <2>9. PICK a \in Seq(Words) : a = h /\ History(ms) = a \o (g \o (y \o z))
    BY <1>3, <2>8
  <2>10. PICK v \in Seq(Words) : v = y \o z
    BY ConcatProperties
  <2>11. PICK x1 \in Seq(Words), x2 \in Seq(Words) : x1 = a \o g /\ x2 = x1 \o y
    BY ConcatProperties
  <2>12. a \o (g \o v) = (a \o g) \o v
    BY SMTT(60)
  <2>13. x1 \o (y \o z) = (x1 \o y) \o z
    BY SMTT(60)
  <2>14. History(ms) = x2 \o z
    BY <2>9, <2>10, <2>11, <2>12, <2>13
  <2> QED
    BY <2>7, <2>14
<1> QED
  BY <1>5, <1>6

\* No message brings turn marks of its own.
NoMarksInMessages ==
  /\ \A s \in Sessions : s.messages \in Seq(MessagesOver(Plain))
  /\ Added \subseteq Seq(MessagesOver(Plain))

LEMMA MessagesStayPlain ==
  ASSUME NoMarksInMessages
  PROVE  ConversationSpec => [](messages \in Seq(MessagesOver(Plain)))
<1> DEFINE P == messages \in Seq(MessagesOver(Plain))
<1>1. NoMarksInMessages /\ ConversationInit => P
  BY DEF NoMarksInMessages, ConversationInit
<1>2. NoMarksInMessages /\ ScannerInv /\ P /\ [ConversationNext]_<<vars, conversation>> => P'
  <2>1. SUFFICES ASSUME NoMarksInMessages, ScannerInv, P,
                        [ConversationNext]_<<vars, conversation>>
                 PROVE  P'
    OBVIOUS
  <2>2. CASE UNCHANGED messages
    BY <2>1, <2>2
  <2>3. CASE KeepAnswer
    <3>1. PICK form \in {"fields", "dropped", "raw"} :
             messages' = Append(messages, ReplyMessage(form))
      BY <2>3 DEF KeepAnswer
    <3>2. ReplyMessage(form) \in MessagesOver(Plain)
      <4>1. Characters \subseteq Plain
        BY DEF Plain, Words, Characters
      <4>2. ScannerTypes
        BY <2>1 DEF ScannerInv
      <4> QED
        BY <4>1, <4>2, ReplyType
    <3> DEFINE M == MessagesOver(Plain)
    <3> HIDE DEF M
    <3>3. messages \in Seq(M) /\ ReplyMessage(form) \in M
      BY <2>1, <3>2 DEF M
    <3>4. Append(messages, ReplyMessage(form)) \in Seq(M)
      BY <3>3, AppendProperties
    <3> QED
      BY <3>1, <3>4 DEF M
  <2>4. CASE ClientAdds
    <3>1. PICK batch \in Added : messages' = messages \o batch
      BY <2>4 DEF ClientAdds
    <3> DEFINE M == MessagesOver(Plain)
    <3>2. messages \in Seq(M) /\ batch \in Seq(M)
      BY <2>1 DEF NoMarksInMessages
    <3> HIDE DEF M
    <3>3. messages \o batch \in Seq(M)
      BY <3>2, ConcatProperties
    <3> QED
      BY <3>1, <3>3 DEF M
  <2>5. CASE Request
    BY <2>2, <2>5 DEF Request
  <2>6. CASE FeedAnswer
    BY <2>2, <2>6 DEF FeedAnswer, conversation
  <2>7. CASE FinishAnswer
    BY <2>2, <2>7 DEF FinishAnswer, conversation
  <2>8. CASE HangUp
    BY <2>2, <2>8 DEF HangUp
  <2>9. CASE UNCHANGED <<vars, conversation>>
    BY <2>2, <2>9 DEF conversation
  <2> QED
    BY <2>1, <2>3, <2>4, <2>5, <2>6, <2>7, <2>8, <2>9 DEF ConversationNext
<1>3. ConversationSpec => []ScannerInv
  BY ScannerInvHolds
<1>4. ConversationInit => P
  BY <1>1
<1>5. ScannerInv /\ P /\ [ConversationNext]_<<vars, conversation>> => P'
  BY <1>2
<1> QED
  BY <1>3, <1>4, <1>5, PTL DEF ConversationSpec

LEMMA PromptBalanced ==
  ASSUME NEW ms \in Seq(MessagesOver(Plain)), ms # <<>>, Valid(ms), ms[1].role # "tool",
         NEW cut, cut = UpToBoundary(render_with_boundary(ms))
  PROVE  /\ cut[Len(cut)] = "<|im_end|>"
         /\ \A n \in Marks(cut) : cut[n] = "<|im_end|>" <=> OpenBefore(cut, n)
<1> DEFINE p == render_with_boundary(ms)
           h == History(ms)
<1>1. ms \in Seq(Messages)
  BY PlainMessages, SeqMonotonic
<1>2. /\ h \in Seq(Words) /\ p.text \in Seq(Words) /\ Begins(h, p.text)
      /\ p.boundary = Len(h) - 1
  BY <1>1, PromptBegins
<1>3. Walks(h, "closed", "closed") /\ \E x \in Seq(Words) : h = x \o CloseTurn
  BY HistoryWalks
<1> HIDE DEF p, h
<1>4. PICK x \in Seq(Words) : h = x \o CloseTurn
  BY <1>3
<1>5. Len(h) = Len(x) + 2 /\ Len(x) \in Nat /\ h[Len(x) + 1] = "<|im_end|>"
  <2>1. CloseTurn \in Seq(Words) /\ Len(CloseTurn) = 2 /\ CloseTurn[1] = "<|im_end|>"
    BY DEF CloseTurn, Words
  <2>2. /\ Len(x \o CloseTurn) = Len(x) + Len(CloseTurn)
        /\ \A i \in 1..(Len(x) + Len(CloseTurn)) :
             (x \o CloseTurn)[i] = IF i <= Len(x) THEN x[i] ELSE CloseTurn[i - Len(x)]
    BY <2>1, ConcatProperties
  <2>3. Len(x) \in Nat
    BY LenProperties
  <2>4. Len(x) + 1 \in 1..(Len(x) + Len(CloseTurn)) /\ (Len(x) + 1) - Len(x) = 1 /\ ~ (Len(x) + 1 <= Len(x))
    BY <2>1, <2>3
  <2> QED
    BY <1>4, <2>1, <2>2, <2>3, <2>4
<1> DEFINE n == Len(x) + 1
<1>6. n \in Nat \ {0} /\ n \in 0..Len(h) /\ n = Len(h) - 1 /\ n \in 0..Len(p.text)
  BY <1>2, <1>5, LenProperties DEF Begins
<1>7. cut = SubSeq(p.text, 1, n)
  BY <1>2, <1>6 DEF UpToBoundary, p
<1> HIDE DEF n
<1>8. cut \in Seq(Words) /\ Len(cut) = n /\ \A i \in 1..n : cut[i] = p.text[i]
  BY <1>2, <1>6, <1>7, FrontText
<1>9. \A i \in 1..n : cut[i] = h[i]
  <2>1. \A i \in 1..n : i \in 1..Len(h)
    BY <1>6
  <2> QED
    BY <1>2, <1>8, <2>1 DEF Begins
<1>10. cut[Len(cut)] = "<|im_end|>"
  <2>1. n \in 1..n /\ h[n] = "<|im_end|>"
    BY <1>5, <1>6 DEF n
  <2> QED
    BY <1>8, <1>9, <2>1
<1>11. Begins(cut, h)
  BY <1>6, <1>8, <1>9 DEF Begins
<1>12. PICK e : Walks(cut, "closed", e)
  BY <1>2, <1>3, <1>8, <1>11, WalkFront
<1>13. ASSUME NEW k \in Marks(cut) PROVE cut[k] = "<|im_end|>" <=> OpenBefore(cut, k)
  BY <1>8, <1>12, WalkedMarks
<1> QED
  BY <1>10, <1>13

(***************************************************************************)
(* Turns open and close in turn in every prompt, however the messages of   *)
(* tools run together, and the boundary is right behind a closing, as long *)
(* as the conversation does not begin with a tool's answer and no message  *)
(* holds a turn mark.                                                      *)
(***************************************************************************)
THEOREM TurnsAlwaysBalanced ==
  ASSUME NoMarksInMessages
  PROVE  ConversationSpec => []TurnsBalanced
<1>1. ConversationInv /\ messages \in Seq(MessagesOver(Plain)) => TurnsBalanced
  <2>1. SUFFICES ASSUME ConversationInv, messages \in Seq(MessagesOver(Plain)),
                        messages[1].role # "tool", NEW k \in DOMAIN prompts,
                        NEW cut, cut = UpToBoundary(prompts[k])
                 PROVE  /\ cut[Len(cut)] = "<|im_end|>"
                        /\ \A n \in Marks(cut) : cut[n] = "<|im_end|>" <=> OpenBefore(cut, n)
    BY DEF TurnsBalanced
  <2>2. \A fs \in Seq(Messages) :
          InFront(fs) => /\ fs \in Seq(MessagesOver(Plain)) /\ fs # <<>> /\ Valid(fs)
                         /\ fs[1].role # "tool"
    <3>1. SUFFICES ASSUME NEW fs \in Seq(Messages), InFront(fs)
                   PROVE  fs \in Seq(MessagesOver(Plain)) /\ fs[1].role # "tool"
      BY DEF InFront
    <3>2. /\ Len(fs) \in Nat \ {0} /\ Len(messages) \in Nat /\ Len(fs) <= Len(messages)
          /\ \A i \in 1..Len(fs) : messages[i] = fs[i]
      BY <2>1, <3>1, EmptySeq, LenProperties DEF InFront, Begins
    <3> DEFINE c == Len(fs)
    <3>3. c \in 0..Len(messages) /\ 1 \in 1..c
      BY <3>2
    <3>4. /\ SubSeq(messages, 1, c) \in Seq(MessagesOver(Plain)) /\ Len(SubSeq(messages, 1, c)) = c
          /\ \A i \in 1..c : SubSeq(messages, 1, c)[i] = messages[i]
      <4> DEFINE M == MessagesOver(Plain)
      <4> HIDE DEF M, c
      <4>1. messages \in Seq(M)
        BY <2>1 DEF M
      <4> QED
        BY <3>3, <4>1, FrontText DEF M
    <3>5. SubSeq(messages, 1, c) = fs
      <4>1. SubSeq(messages, 1, c) \in Seq(Messages)
        BY <3>4, PlainMessages, SeqMonotonic
      <4> QED
        BY <3>2, <3>4, <4>1, SeqEqual
    <3> QED
      BY <2>1, <3>2, <3>3, <3>4, <3>5
  <2>3. CASE prompts = <<>>
    BY <2>1, <2>3
  <2>4. CASE \E fs \in Seq(Messages) : InFront(fs) /\ prompts = <<render_with_boundary(fs)>>
    <3>1. PICK fs \in Seq(Messages) : InFront(fs) /\ prompts = <<render_with_boundary(fs)>>
      BY <2>4
    <3>2. cut = UpToBoundary(render_with_boundary(fs))
      BY <2>1, <3>1
    <3> QED
      BY <2>2, <3>1, <3>2, PromptBalanced
  <2>5. CASE \E fs, gs \in Seq(Messages) :
               /\ InFront(fs) /\ messages = gs /\ Valid(gs) /\ reply = "awaited"
               /\ prompts = <<render_with_boundary(fs), render_with_boundary(gs)>>
    <3>1. PICK fs \in Seq(Messages), gs \in Seq(Messages) :
               /\ InFront(fs) /\ messages = gs /\ Valid(gs)
               /\ prompts = <<render_with_boundary(fs), render_with_boundary(gs)>>
      BY <2>5
    <3>2. \/ cut = UpToBoundary(render_with_boundary(fs))
          \/ cut = UpToBoundary(render_with_boundary(gs))
      BY <2>1, <3>1
    <3>3. gs \in Seq(MessagesOver(Plain)) /\ gs # <<>> /\ gs[1].role # "tool"
      <4>1. gs # <<>>
        BY <3>1, EmptySeq DEF InFront, Begins
      <4> QED
        BY <2>1, <3>1, <4>1
    <3>4. CASE cut = UpToBoundary(render_with_boundary(fs))
      BY <2>2, <3>1, <3>4, PromptBalanced
    <3>5. CASE cut = UpToBoundary(render_with_boundary(gs))
      BY <3>1, <3>3, <3>5, PromptBalanced
    <3> QED
      BY <3>2, <3>4, <3>5
  <2> QED
    BY <2>1, <2>3, <2>4, <2>5 DEF ConversationInv
<1>2. ConversationSpec => []ConversationInv
  BY ConversationInvHolds
<1>3. ConversationSpec => [](messages \in Seq(MessagesOver(Plain)))
  BY MessagesStayPlain
<1> QED
  BY <1>1, <1>2, <1>3, PTL

-----------------------------------------------------------------------------
(***************************************************************************)
(* The stream against the parser of whole texts.  What holds of 0 and goes *)
(* from each number to the next; what holds of a text when it does of the  *)
(* shorter ones.                                                           *)
(***************************************************************************)
LEMMA Climbs ==
  ASSUME NEW T, NEW n \in Nat, 0 \in T, \A k \in 1..n : k - 1 \in T => k \in T
  PROVE  \A k \in 0..n : k \in T
<1> DEFINE U == {k \in 0..n : k \notin T}
<1>1. SUFFICES ASSUME U # {} PROVE FALSE
  OBVIOUS
<1>2. PICK k \in U : \A j \in U : k <= j
  <2>1. U \subseteq Nat
    OBVIOUS
  <2> HIDE DEF U
  <2> QED
    BY <1>1, <2>1, Least
<1>3. k \in 1..n /\ k \notin T
  BY <1>2
<1>4. k - 1 \in 0..n /\ ~ (k <= k - 1)
  BY <1>3
<1>5. k - 1 \notin U
  <2> HIDE DEF U
  <2> QED
    BY <1>2, <1>4
<1> QED
  BY <1>3, <1>4, <1>5

LEMMA ByLength ==
  ASSUME NEW T, NEW S, S \subseteq AllTexts,
         \A r \in S : (\A q \in S : Len(q) < Len(r) => q \in T) => r \in T
  PROVE  S \subseteq T
<1> DEFINE U == {l \in Nat : \E r \in S : Len(r) = l /\ r \notin T}
<1>1. \A r \in S : Len(r) \in Nat
  BY LenProperties DEF AllTexts
<1>2. SUFFICES ASSUME U # {} PROVE FALSE
  BY <1>1
<1>3. PICK l \in U : \A j \in U : l <= j
  <2>1. U \subseteq Nat
    OBVIOUS
  <2> HIDE DEF U
  <2> QED
    BY <1>2, <2>1, Least
<1>4. PICK r \in S : Len(r) = l /\ r \notin T
  BY <1>3
<1>5. ASSUME NEW q \in S, Len(q) < Len(r) PROVE q \in T
  <2>1. Len(q) \in Nat /\ ~ (l <= Len(q))
    BY <1>1, <1>4, <1>5
  <2>2. Len(q) \notin U
    <3> HIDE DEF U
    <3> QED
      BY <1>3, <2>1
  <2> QED
    BY <2>1, <2>2
<1> QED
  BY <1>4, <1>5

\* The accumulator takes one half of the events after the other.
LEMMA FoldConcat ==
  ASSUME NEW x \in Seq(AllEvents), NEW y \in Seq(AllEvents), NEW kind \in Kinds
  PROVE  FoldOf(x \o y, kind) = FoldOf(x, kind) \o FoldOf(y, kind)
<1> DEFINE w == x \o y
           f == Folding(w, kind)
           g == Folding(x, kind)
           h == Folding(y, kind)
           V == ValuesOf(kind)
           a == Len(x)
           b == Len(y)
<1>1. /\ a \in Nat /\ b \in Nat /\ Len(w) = a + b
      /\ \A i \in 1..a : w[i] = x[i]
      /\ \A i \in 1..b : w[a + i] = y[i]
      /\ w \in Seq(AllEvents) /\ Len(w) \in Nat
  BY LenProperties, ConcatProperties
<1> HIDE DEF w
<1>2. /\ f[0] = <<>>
      /\ \A n \in 1..Len(w) :
           f[n] = IF w[n][1] = kind THEN Append(f[n - 1], w[n][2]) ELSE f[n - 1]
  <2>1. Len(w) \in Nat
    BY <1>1
  <2> QED
    BY <2>1, FoldSteps
<1>3. /\ g[0] = <<>>
      /\ \A n \in 1..a : g[n] = IF x[n][1] = kind THEN Append(g[n - 1], x[n][2]) ELSE g[n - 1]
  BY <1>1, FoldSteps
<1>4. /\ h[0] = <<>>
      /\ \A n \in 1..b : h[n] = IF y[n][1] = kind THEN Append(h[n - 1], y[n][2]) ELSE h[n - 1]
  BY <1>1, FoldSteps
<1>5. g[a] \in Seq(V) /\ \A n \in 0..b : h[n] \in Seq(V)
  BY <1>1, FoldingType
<1>6. \A n \in 1..b : y[n][1] = kind => y[n][2] \in V
  BY EventValue, ElementOfSeq
<1> HIDE DEF w, f, g, h, a, b, V
<1>7. f[a] = g[a]
  <2> DEFINE T == {n \in 0..a : f[n] = g[n]}
  <2>1. 0 \in T
    BY <1>1, <1>2, <1>3
  <2>2. ASSUME NEW n \in 1..a, n - 1 \in T PROVE n \in T
    <3>1. n \in 1..Len(w) /\ w[n] = x[n] /\ f[n - 1] = g[n - 1] /\ n \in 0..a
      BY <1>1, <2>2
    <3> QED
      BY <1>2, <1>3, <3>1
  <2> HIDE DEF T
  <2>3. \A n \in 0..a : n \in T
    BY <1>1, <2>1, <2>2, Climbs
  <2> USE DEF T
  <2> QED
    BY <1>1, <2>3
<1>8. f[a + b] = g[a] \o h[b]
  <2> DEFINE c == g[a]
             T == {n \in 0..b : f[a + n] = c \o h[n]}
  <2>1. 0 \in T
    <3>1. c \o <<>> = c /\ a + 0 = a /\ 0 \in 0..b
      BY <1>1, <1>5, ConcatEmptySeq
    <3> QED
      BY <1>4, <1>7, <3>1
  <2>2. ASSUME NEW n \in 1..b, n - 1 \in T PROVE n \in T
    <3>1. /\ a + n \in 1..Len(w) /\ w[a + n] = y[n] /\ (a + n) - 1 = a + (n - 1)
          /\ n \in 0..b /\ n - 1 \in 0..b
      BY <1>1
    <3>2. f[a + (n - 1)] = c \o h[n - 1]
      BY <2>2
    <3>3. f[a + n] = IF y[n][1] = kind THEN Append(c \o h[n - 1], y[n][2]) ELSE c \o h[n - 1]
      BY <1>2, <3>1, <3>2
    <3>4. CASE y[n][1] = kind
      <4> DEFINE p == h[n - 1]
                 v == y[n][2]
      <4>1. p \in Seq(V) /\ v \in V /\ c \in Seq(V)
        BY <1>5, <1>6, <3>1, <3>4
      <4>2. h[n] = Append(p, v) /\ f[a + n] = Append(c \o p, v)
        BY <1>4, <3>3, <3>4
      <4> HIDE DEF p, v, c
      <4>3. Append(c \o p, v) = c \o Append(p, v)
        <5> DEFINE o == <<v>>
        <5>1. o \in Seq(V) /\ Append(p, v) = p \o o
          BY <4>1, AppendIsConcat
        <5>2. c \o p \in Seq(V) /\ Append(c \o p, v) = (c \o p) \o o
          BY <4>1, ConcatProperties, AppendIsConcat
        <5> HIDE DEF o
        <5>3. (c \o p) \o o = c \o (p \o o)
          BY <4>1, <5>1, ConcatAssociative, SMTT(30)
        <5> QED
          BY <5>1, <5>2, <5>3
      <4> QED
        BY <3>1, <4>2, <4>3 DEF c
    <3>5. CASE y[n][1] # kind
      BY <1>4, <3>1, <3>3, <3>5
    <3> QED
      BY <3>4, <3>5
  <2> HIDE DEF T
  <2>3. \A n \in 0..b : n \in T
    BY <1>1, <2>1, <2>2, Climbs
  <2>4. b \in T
    BY <1>1, <2>3
  <2> USE DEF T
  <2> QED
    BY <2>4
<1>9. FoldOf(w, kind) = f[a + b] /\ FoldOf(x, kind) = g[a] /\ FoldOf(y, kind) = h[b]
  BY <1>1 DEF FoldOf, f, g, h, a, b
<1> QED
  BY <1>8, <1>9 DEF w

LEMMA FoldType ==
  ASSUME NEW x \in Seq(AllEvents), NEW kind \in Kinds
  PROVE  FoldOf(x, kind) \in Seq(ValuesOf(kind))
<1>1. Len(x) \in 0..Len(x)
  BY LenProperties
<1> QED
  BY <1>1, FoldingType DEF FoldOf

LEMMA FoldDelta ==
  ASSUME NEW m \in {"Text", "Thinking"}, NEW s \in AllTexts, NEW kind \in Kinds
  PROVE  FoldOf(Delta(m, s), kind) = IF kind = m THEN s ELSE <<>>
<1> DEFINE w == Delta(m, s)
           f == Folding(w, kind)
           n == Len(s)
<1>1. /\ w \in Seq(AllEvents) /\ Len(w) = n /\ n \in Nat
      /\ \A k \in 1..n : w[k] = <<m, s[k]>>
  <2>1. m \in Modes
    BY DEF Modes
  <2> QED
    BY <2>1, DeltaType, LenProperties DEF AllTexts
<1>2. /\ f[0] = <<>>
      /\ \A k \in 1..n : f[k] = IF w[k][1] = kind THEN Append(f[k - 1], w[k][2]) ELSE f[k - 1]
  BY <1>1, FoldSteps
<1>3. \A k \in 1..n : f[k] = IF m = kind THEN Append(f[k - 1], s[k]) ELSE f[k - 1]
  BY <1>1, <1>2
<1>4. FoldOf(w, kind) = f[n]
  BY <1>1 DEF FoldOf
<1> HIDE DEF w, f
<1>5. CASE kind # m
  <2> DEFINE T == {k \in 0..n : f[k] = <<>>}
  <2>1. 0 \in T /\ \A k \in 1..n : k - 1 \in T => k \in T
    BY <1>1, <1>2, <1>3, <1>5
  <2> HIDE DEF T
  <2>2. \A k \in 0..n : k \in T
    BY <1>1, <2>1, Climbs
  <2> USE DEF T
  <2> QED
    BY <1>1, <1>4, <1>5, <2>2 DEF w
<1>6. CASE kind = m
  <2> DEFINE upTo(k) == SubSeq(s, 1, k)
             T == {k \in 0..n : f[k] = upTo(k)}
  <2>1. 0 \in T
    <3>1. upTo(0) = <<>>
      BY SubSeqEmpty
    <3> HIDE DEF upTo
    <3> QED
      BY <1>1, <1>2, <3>1
  <2>2. ASSUME NEW k \in 1..n, k - 1 \in T PROVE k \in T
    <3>1. f[k] = Append(upTo(k - 1), s[k]) /\ k \in 0..n /\ k - 1 \in 0..n
      <4> HIDE DEF upTo
      <4> QED
        BY <1>1, <1>3, <1>6, <2>2
    <3> DEFINE a == upTo(k - 1)
               b == upTo(k)
    <3>2. /\ a \in AllTexts /\ Len(a) = k - 1 /\ \A i \in 1..(k - 1) : a[i] = s[i]
          /\ b \in AllTexts /\ Len(b) = k /\ \A i \in 1..k : b[i] = s[i]
      BY <3>1, FrontText DEF AllTexts
    <3>3. s[k] \in Characters
      BY <1>1, ElementOfSeq DEF AllTexts
    <3> HIDE DEF a, b
    <3>4. Append(a, s[k]) = b
      <4> DEFINE c == Append(a, s[k])
      <4>1. /\ c \in AllTexts /\ Len(c) = k /\ c[k] = s[k]
            /\ \A i \in 1..(k - 1) : c[i] = a[i]
        BY <1>1, <3>2, <3>3, AppendProperties DEF AllTexts
      <4> HIDE DEF c
      <4>2. \A i \in 1..k : c[i] = b[i]
        BY <1>1, <3>2, <4>1
      <4>3. c = b
        BY <3>2, <4>1, <4>2, SeqEqual DEF AllTexts
      <4> QED
        BY <4>3 DEF c
    <3>5. f[k] = upTo(k)
      BY <3>1, <3>4 DEF a, b
    <3> HIDE DEF upTo
    <3> QED
      BY <3>1, <3>5
  <2> HIDE DEF T
  <2>3. \A k \in 0..n : k \in T
    BY <1>1, <2>1, <2>2, Climbs
  <2>4. n \in T
    BY <1>1, <2>3
  <2> USE DEF T
  <2>5. f[n] = upTo(n)
    <3> HIDE DEF upTo
    <3> QED
      BY <2>4
  <2>6. SubSeq(s, 1, n) = s
    <3>1. n \in 0..Len(s)
      BY <1>1
    <3>2. /\ SubSeq(s, 1, n) \in AllTexts /\ Len(SubSeq(s, 1, n)) = n
          /\ \A i \in 1..n : SubSeq(s, 1, n)[i] = s[i]
      BY <3>1, FrontText DEF AllTexts
    <3> QED
      BY <3>2, SeqEqual DEF AllTexts
  <2> QED
    BY <1>4, <1>6, <2>5, <2>6 DEF w
<1> QED
  BY <1>5, <1>6

LEMMA FoldOne ==
  ASSUME NEW e, NEW kind
  PROVE  FoldOf(<<e>>, kind) = IF e[1] = kind THEN <<e[2]>> ELSE <<>>
<1>1. Len(<<e>>) = 1 /\ <<e>>[1] = e /\ 1 \in Nat /\ 1 \in 1..1 /\ 1 - 1 = 0
  OBVIOUS
<1> DEFINE w == <<e>>
           f == Folding(w, kind)
<1>2. Len(w) = 1 /\ w[1] = e
  BY <1>1
<1> HIDE DEF w
<1>3. /\ f[0] = <<>>
      /\ f[1] = IF w[1][1] = kind THEN Append(f[1 - 1], w[1][2]) ELSE f[1 - 1]
  BY <1>1, <1>2, FoldSteps
<1>4. FoldOf(w, kind) = f[1]
  BY <1>2 DEF FoldOf
<1>5. Append(<<>>, e[2]) = <<e[2]>>
  OBVIOUS
<1> QED
  BY <1>1, <1>2, <1>3, <1>4, <1>5 DEF w

\* What the events tell of a call: that it was begun and not ended, or does
\* not parse.
Dangling(w) == w # <<>> /\ w[Len(w)] = Started

LEMMA DanglingConcat ==
  ASSUME NEW x \in Seq(AllEvents), NEW y \in Seq(AllEvents)
  PROVE  Dangling(x \o y) <=> IF y = <<>> THEN Dangling(x) ELSE Dangling(y)
<1>1. CASE y = <<>>
  BY <1>1, ConcatEmptySeq
<1>2. CASE y # <<>>
  <2>1. /\ Len(x) \in Nat /\ Len(y) \in Nat /\ Len(x \o y) = Len(x) + Len(y)
        /\ \A i \in 1..Len(y) : (x \o y)[Len(x) + i] = y[i]
        /\ x \o y \in Seq(AllEvents)
    BY LenProperties, ConcatProperties
  <2>2. Len(y) # 0
    BY <1>2, EmptySeq
  <2>3. Len(y) \in 1..Len(y) /\ Len(x \o y) # 0
    BY <2>1, <2>2
  <2>4. x \o y # <<>>
    BY <2>3, EmptySeq
  <2> QED
    BY <1>2, <2>1, <2>3, <2>4 DEF Dangling
<1> QED
  BY <1>1, <1>2

LEMMA DeltaIsSound ==
  ASSUME NEW m \in {"Text", "Thinking"}, NEW s \in AllTexts
  PROVE  ~ Spoiled(Delta(m, s)) /\ ~ Dangling(Delta(m, s))
<1> DEFINE w == Delta(m, s)
<1>1. /\ w \in Seq(AllEvents) /\ Len(w) = Len(s) /\ Len(s) \in Nat
      /\ \A k \in 1..Len(s) : w[k] = <<m, s[k]>>
  <2>1. m \in Modes
    BY DEF Modes
  <2> QED
    BY <2>1, DeltaType, LenProperties DEF AllTexts
<1> HIDE DEF w
<1>2. \A k \in 1..Len(s) : w[k] # Started /\ w[k] \notin Unparsed
  <2>1. SUFFICES ASSUME NEW k \in 1..Len(s) PROVE w[k] # Started /\ w[k] \notin Unparsed
    OBVIOUS
  <2>2. w[k][1] = m /\ Started[1] = "Started" /\ \A b : Call(b)[1] = "Call"
    BY <1>1 DEF Started, Call
  <2>3. m # "Started" /\ m # "Call"
    OBVIOUS
  <2>4. \A e \in Unparsed : e[1] = "Call"
    BY <2>2 DEF Unparsed
  <2> QED
    BY <2>2, <2>3, <2>4
<1>3. w # <<>> => Len(w) \in 1..Len(s)
  <2>1. w # <<>> => Len(w) # 0
    BY <1>1, EmptySeq
  <2> QED
    BY <1>1, <2>1
<1>4. ~ Spoiled(w)
  BY <1>1, <1>2 DEF Spoiled
<1>5. ~ Dangling(w)
  BY <1>1, <1>2, <1>3 DEF Dangling
<1> QED
  BY <1>4, <1>5 DEF w

LEMMA StartedIsSound ==
  /\ <<Started>> \in Seq(AllEvents) /\ <<Started>> # <<>>
  /\ ~ Spoiled(<<Started>>) /\ Dangling(<<Started>>)
<1>1. Len(<<Started>>) = 1 /\ <<Started>>[1] = Started
  OBVIOUS
<1>2. Started[1] = "Started" /\ \A b : Call(b)[1] = "Call"
  BY DEF Started, Call
<1>3. Started \notin Unparsed
  <2>1. \A e \in Unparsed : e[1] = "Call"
    BY <1>2 DEF Unparsed
  <2> QED
    BY <1>2, <2>1
<1>4. <<Started>> \in Seq(AllEvents)
  BY EventTypes DEF Opened
<1> QED
  BY <1>1, <1>3, <1>4 DEF Spoiled, Dangling

LEMMA CallIsSound ==
  ASSUME NEW b \in AllTexts
  PROVE  /\ <<Call(b)>> \in Seq(AllEvents) /\ <<Call(b)>> # <<>>
         /\ Spoiled(<<Call(b)>>) <=> ~ Parses(b)
         /\ ~ Dangling(<<Call(b)>>)
<1>1. Len(<<Call(b)>>) = 1 /\ <<Call(b)>>[1] = Call(b)
  OBVIOUS
<1>2. Started[1] = "Started" /\ \A t : Call(t)[1] = "Call" /\ Call(t)[2] = t
  BY DEF Started, Call
<1>3. Call(b) # Started
  BY <1>2
<1>4. Call(b) \in Unparsed <=> ~ Parses(b)
  <2>1. ASSUME Call(b) \in Unparsed PROVE ~ Parses(b)
    <3>1. PICK t \in AllTexts : ~ Parses(t) /\ Call(b) = Call(t)
      BY <2>1 DEF Unparsed
    <3>2. b = t
      BY <1>2, <3>1
    <3> QED
      BY <3>1, <3>2
  <2> QED
    BY <2>1 DEF Unparsed
<1>5. <<Call(b)>> \in Seq(AllEvents)
  BY EventTypes
<1> DEFINE w == <<Call(b)>>
<1>6. Len(w) = 1 /\ w[1] = Call(b) /\ w # <<>>
  BY <1>1
<1> HIDE DEF w
<1>7. Spoiled(w) <=> ~ Parses(b)
  BY <1>4, <1>6 DEF Spoiled
<1>8. ~ Dangling(w)
  BY <1>3, <1>6 DEF Dangling
<1> QED
  BY <1>5, <1>6, <1>7, <1>8 DEF w

-----------------------------------------------------------------------------
\* The parts of a text around its first call, and how an answer is read up to
\* it and through it.
Inner(r) == After(OpenTool, r)
Block(r) == Before(CloseTool, Inner(r))
Rest(r)  == After(CloseTool, Inner(r))

LEMMA AroundCall ==
  ASSUME NEW r \in AllTexts, Has(OpenTool, r)
  PROVE  /\ Inner(r) \in AllTexts /\ Before(OpenTool, r) \in AllTexts
         /\ Has(CloseTool, Inner(r)) =>
              /\ Block(r) \in AllTexts /\ Rest(r) \in AllTexts /\ Len(Rest(r)) < Len(r)
              /\ \E n \in 0..Len(r) : Rest(r) = Kept(r, n)
<1> DEFINE i == Inner(r)
           n == Find(OpenTool, r) + Len(OpenTool) - 1
           k == Find(CloseTool, i) + Len(CloseTool) - 1
<1>1. OpenTool \in Tags /\ CloseTool \in Tags
  BY DEF Tags
<1>2. /\ n \in 1..Len(r) /\ i = Kept(r, n) /\ i \in AllTexts
      /\ Before(OpenTool, r) \in AllTexts /\ Len(i) < Len(r)
  BY <1>1, AroundTag DEF Inner
<1>3. Len(r) \in Nat /\ Len(i) \in Nat
  BY <1>2, LenProperties DEF AllTexts
<1> HIDE DEF n, i
<1>4. ASSUME Has(CloseTool, i)
      PROVE  /\ Block(r) \in AllTexts /\ Rest(r) \in AllTexts /\ Len(Rest(r)) < Len(r)
             /\ \E j \in 0..Len(r) : Rest(r) = Kept(r, j)
  <2>1. /\ k \in 1..Len(i) /\ Rest(r) = Kept(i, k) /\ Rest(r) \in AllTexts
        /\ Block(r) \in AllTexts /\ Len(Rest(r)) < Len(i)
    BY <1>1, <1>2, <1>4, AroundTag DEF Rest, Block, i
  <2> HIDE DEF k
  <2>2. Len(i) = Len(r) - n /\ n \in 0..Len(r)
    <3>1. n \in 0..Len(r)
      BY <1>2, <1>3
    <3> QED
      BY <1>2, <3>1, KeptText DEF AllTexts
  <2>3. k \in 0..(Len(r) - n) /\ n + k \in 0..Len(r)
    BY <1>3, <2>1, <2>2
  <2>4. Kept(Kept(r, n), k) = Kept(r, n + k)
    BY <2>2, <2>3, KeptKept DEF AllTexts
  <2>5. Len(Rest(r)) \in Nat
    BY <2>1, LenProperties DEF AllTexts
  <2> QED
    BY <1>2, <1>3, <2>1, <2>3, <2>4, <2>5
<1> QED
  BY <1>2, <1>4 DEF i

\* Up to the first tag of the mode, when the mode looks for no other.
LEMMA ReadsToFirst ==
  ASSUME NEW r \in AllTexts, NEW m \in Modes, m # "ToolCall", NEW t \in TagsOf(m), Has(t, r),
         \A u \in TagsOf(m) : u # t => ~ Has(u, r)
  PROVE  Events(r, m) = (Delta(m, Before(t, r)) \o Opened(t)) \o Events(After(t, r), ModeAfter(t))
<1>1. t \in Tags
  BY TagsOfModes
<1> DEFINE i == Find(t, r)
<1>2. i \in 1..Len(r) /\ Occurs(t, r, i) /\ \A j \in 1..(i - 1) : ~ Occurs(t, r, j)
  BY <1>1, FindProperties
<1>3. After(t, r) = Kept(r, i + Len(t) - 1) /\ Before(t, r) = SubSeq(r, 1, i - 1)
  BY <1>1, AroundTag DEF Before
<1> HIDE DEF i
<1>4. \A j \in 1..(i - 1) : \A u \in TagsOf(m) : ~ Occurs(u, r, j)
  <2>1. SUFFICES ASSUME NEW j \in 1..(i - 1), NEW u \in TagsOf(m), Occurs(u, r, j) PROVE FALSE
    OBVIOUS
  <2>2. j \in 1..Len(r)
    BY <1>2, LenProperties DEF AllTexts
  <2>3. Has(u, r)
    BY <2>1, <2>2 DEF Has
  <2> QED
    BY <1>2, <2>1, <2>3
<1>5. Events(r, m) = (Delta(m, SubSeq(r, 1, i - 1)) \o Opened(t))
                      \o Events(Kept(r, i + Len(t) - 1), ModeAfter(t))
  BY <1>2, <1>4, ReadsToTag
<1> QED
  BY <1>3, <1>5

LEMMA TextReads ==
  ASSUME NEW r \in AllTexts, ~ Has(OpenThink, r)
  PROVE  /\ ~ Has(OpenTool, r) => Events(r, "Text") = Delta("Text", r)
         /\ Has(OpenTool, r) =>
              Events(r, "Text") = (Delta("Text", Before(OpenTool, r)) \o <<Started>>)
                                    \o Events(Inner(r), "ToolCall")
         /\ Has(OpenTool, r) /\ ~ Has(CloseTool, Inner(r)) => Events(Inner(r), "ToolCall") = <<>>
         /\ Has(OpenTool, r) /\ Has(CloseTool, Inner(r)) =>
              Events(Inner(r), "ToolCall") = <<Call(Block(r))>> \o Events(Rest(r), "Text")
<1>1. /\ "Text" \in Modes /\ "ToolCall" \in Modes /\ "Text" # "ToolCall"
      /\ TagsOf("Text") = {OpenThink, OpenTool}
      /\ OpenTool # OpenThink /\ ModeAfter(OpenTool) = "ToolCall" /\ Opened(OpenTool) = <<Started>>
  BY DEF Modes, TagsOf, ModeAfter, Opened, OpenThink, OpenTool
<1>2. ASSUME ~ Has(OpenTool, r) PROVE Events(r, "Text") = Delta("Text", r)
  BY <1>1, <1>2, NoTagsReads
<1>3. ASSUME Has(OpenTool, r)
      PROVE  Events(r, "Text") = (Delta("Text", Before(OpenTool, r)) \o <<Started>>)
                                    \o Events(Inner(r), "ToolCall")
  <2>1. OpenTool \in TagsOf("Text") /\ \A u \in TagsOf("Text") : u # OpenTool => ~ Has(u, r)
    BY <1>1
  <2>2. Events(r, "Text") = (Delta("Text", Before(OpenTool, r)) \o Opened(OpenTool))
                              \o Events(After(OpenTool, r), ModeAfter(OpenTool))
    BY <1>1, <1>3, <2>1, ReadsToFirst
  <2> QED
    BY <1>1, <2>2 DEF Inner
<1>4. ASSUME Has(OpenTool, r), ~ Has(CloseTool, Inner(r)) PROVE Events(Inner(r), "ToolCall") = <<>>
  <2>1. Inner(r) \in AllTexts /\ Ending(Inner(r), "ToolCall")
    BY <1>4, AroundCall DEF Ending
  <2> QED
    BY <1>1, <2>1, ReadsEnd
<1>5. ASSUME Has(OpenTool, r), Has(CloseTool, Inner(r))
      PROVE  Events(Inner(r), "ToolCall") = <<Call(Block(r))>> \o Events(Rest(r), "Text")
  <2>1. Inner(r) \in AllTexts
    BY <1>5, AroundCall
  <2> QED
    BY <1>5, <2>1, ReadsCall DEF Block, Rest
<1> QED
  BY <1>2, <1>3, <1>4, <1>5

-----------------------------------------------------------------------------
\* One call of extract_tool_calls' loop, on what it makes of the rest; and what
\* the events of a text add up to, which obeys the same rule.
CallsBy(r, more) ==
  IF ~ Has(OpenTool, r) THEN [Malformed EXCEPT !.content = r]
  ELSE IF ~ Has(CloseTool, Inner(r)) \/ ~ Parses(Block(r)) THEN Malformed
  ELSE IF more = Malformed THEN Malformed
  ELSE [more EXCEPT !.content = Before(OpenTool, r) \o @, !.calls = <<Block(r)>> \o @]

Sum(w) == [content |-> FoldOf(w, "Text"), thinking |-> FoldOf(w, "Thinking"),
           calls |-> FoldOf(w, "Call")]
Whole(r) ==
  LET w == Events(r, "Text")
  IN  IF Spoiled(w) \/ Dangling(w) THEN Malformed ELSE Sum(w)

LEMMA SumType ==
  ASSUME NEW w \in Seq(AllEvents)
  PROVE  /\ Sum(w) \in [content : AllTexts, thinking : AllTexts, calls : Seq(AllTexts)]
         /\ Sum(w) # Malformed
<1>1. /\ FoldOf(w, "Text") \in Seq(ValuesOf("Text"))
      /\ FoldOf(w, "Thinking") \in Seq(ValuesOf("Thinking"))
      /\ FoldOf(w, "Call") \in Seq(ValuesOf("Call"))
  BY FoldType DEF Kinds
<1>2. /\ ValuesOf("Text") = Characters /\ ValuesOf("Thinking") = Characters
      /\ ValuesOf("Call") = AllTexts
  BY DEF ValuesOf
<1>3. Sum(w) \in [content : AllTexts, thinking : AllTexts, calls : Seq(AllTexts)]
  BY <1>1, <1>2 DEF Sum, AllTexts
<1>4. <<"!">> \notin AllTexts
  <2>1. SUFFICES ASSUME <<"!">> \in AllTexts PROVE FALSE
    OBVIOUS
  <2>2. Len(<<"!">>) = 1 /\ <<"!">>[1] = "!"
    OBVIOUS
  <2>3. "!" \in Characters
    BY <2>1, <2>2, ElementOfSeq DEF AllTexts
  <2> QED
    BY <2>3 DEF Characters
<1>5. Malformed.content = <<"!">> /\ Sum(w).content \in AllTexts
  BY <1>3 DEF Malformed
<1> QED
  BY <1>3, <1>4, <1>5

LEMMA EditSum ==
  ASSUME NEW a, NEW b, NEW c, NEW x, NEW y,
         NEW more, more = [content |-> a, thinking |-> b, calls |-> c]
  PROVE  [more EXCEPT !.content = x \o @, !.calls = y \o @]
           = [content |-> x \o a, thinking |-> b, calls |-> y \o c]
<1>1. more.content = a /\ more.thinking = b /\ more.calls = c
  OBVIOUS
<1>2. PICK p, q : p = x \o a /\ q = y \o c
  OBVIOUS
<1>3. [more EXCEPT !.content = p, !.calls = q] = [content |-> p, thinking |-> b, calls |-> q]
  <2> DEFINE s == [more EXCEPT !.content = p]
  <2>1. s = [content |-> p, thinking |-> b, calls |-> c]
    OBVIOUS
  <2> HIDE DEF s
  <2>2. [s EXCEPT !.calls = q] = [content |-> p, thinking |-> b, calls |-> q]
    BY <2>1
  <2> QED
    BY <2>2 DEF s
<1>4. [more EXCEPT !.content = x \o @, !.calls = y \o @] = [more EXCEPT !.content = p, !.calls = q]
  BY <1>1, <1>2
<1> QED
  BY <1>2, <1>3, <1>4

LEMMA WholeIs ==
  ASSUME NEW r \in AllTexts, ~ Has(OpenThink, r)
  PROVE  Whole(r) = CallsBy(r, Whole(Rest(r)))
<1> DEFINE w == Events(r, "Text")
           d == Delta("Text", Before(OpenTool, r))
           o == <<Started>>
           i == Events(Inner(r), "ToolCall")
           c == <<Call(Block(r))>>
           e == Events(Rest(r), "Text")
<1>0. "Text" \in Modes /\ "ToolCall" \in Modes /\ "Text" \in {"Text", "Thinking"}
  BY DEF Modes
<1>1. CASE ~ Has(OpenTool, r)
  <2>1. w = Delta("Text", r) /\ ~ Spoiled(w) /\ ~ Dangling(w)
    BY <1>0, <1>1, TextReads, DeltaIsSound
  <2>2. /\ FoldOf(w, "Text") = r /\ FoldOf(w, "Thinking") = <<>> /\ FoldOf(w, "Call") = <<>>
    <3>1. \A kind \in Kinds : FoldOf(Delta("Text", r), kind) = IF kind = "Text" THEN r ELSE <<>>
      BY <1>0, FoldDelta
    <3> QED
      BY <2>1, <3>1 DEF Kinds
  <2>3. Whole(r) = [content |-> r, thinking |-> <<>>, calls |-> <<>>]
    BY <2>1, <2>2 DEF Whole, Sum
  <2>4. CallsBy(r, Whole(Rest(r))) = [Malformed EXCEPT !.content = r]
    BY <1>1 DEF CallsBy
  <2>5. [Malformed EXCEPT !.content = r] = [content |-> r, thinking |-> <<>>, calls |-> <<>>]
    BY DEF Malformed
  <2> QED
    BY <2>3, <2>4, <2>5
<1>2. CASE Has(OpenTool, r)
  <2>1. Before(OpenTool, r) \in AllTexts /\ Inner(r) \in AllTexts
    BY <1>2, AroundCall
  <2>2. d \in Seq(AllEvents) /\ ~ Spoiled(d) /\ ~ Dangling(d)
    BY <1>0, <2>1, DeltaType, DeltaIsSound
  <2>3. o \in Seq(AllEvents) /\ o # <<>> /\ ~ Spoiled(o) /\ Dangling(o)
    BY StartedIsSound
  <2>4. i \in Seq(AllEvents)
    BY <1>0, <2>1, EventsType
  <2>5. w = (d \o o) \o i
    BY <1>2, TextReads
  <2> DEFINE x == d \o o
  <2>6. /\ \A kind \in Kinds : FoldOf(d, kind) = IF kind = "Text" THEN Before(OpenTool, r) ELSE <<>>
        /\ \A kind \in Kinds : FoldOf(o, kind) = <<>>
    <3>1. \A kind \in Kinds : FoldOf(d, kind) = IF kind = "Text" THEN Before(OpenTool, r) ELSE <<>>
      BY <1>0, <2>1, FoldDelta
    <3>2. \A kind \in Kinds : Started[1] # kind
      BY DEF Started, Kinds
    <3>3. \A kind \in Kinds : FoldOf(o, kind) = <<>>
      BY <3>2, FoldOne
    <3> QED
      BY <3>1, <3>3
  <2> HIDE DEF d, o
  <2>7. x \in Seq(AllEvents) /\ ~ Spoiled(x) /\ Dangling(x)
    BY <2>2, <2>3, ConcatProperties, SpoiledConcat, DanglingConcat
  <2>8. \A kind \in Kinds : FoldOf(x, kind) = IF kind = "Text" THEN Before(OpenTool, r) ELSE <<>>
    <3>1. SUFFICES ASSUME NEW kind \in Kinds
                   PROVE  FoldOf(x, kind) = IF kind = "Text" THEN Before(OpenTool, r) ELSE <<>>
      OBVIOUS
    <3>2. FoldOf(x, kind) = FoldOf(d, kind) \o FoldOf(o, kind)
      BY <2>2, <2>3, FoldConcat
    <3>3. FoldOf(d, kind) \o <<>> = FoldOf(d, kind)
      BY <2>2, FoldType, ConcatEmptySeq
    <3> QED
      BY <2>6, <3>2, <3>3
  <2> HIDE DEF x
  <2>9. w = x \o i
    BY <2>5 DEF x
  <2>10. CASE ~ Has(CloseTool, Inner(r))
    <3>1. i = <<>>
      BY <1>2, <2>10, TextReads
    <3> HIDE DEF i, w
    <3>2. Dangling(w)
      BY <2>4, <2>7, <2>9, <3>1, DanglingConcat
    <3> QED
      BY <1>2, <2>10, <3>2 DEF Whole, CallsBy, w
  <2>11. CASE Has(CloseTool, Inner(r))
    <3>1. Block(r) \in AllTexts /\ Rest(r) \in AllTexts
      BY <1>2, <2>11, AroundCall
    <3>2. i = c \o e
      BY <1>2, <2>11, TextReads
    <3>3. e \in Seq(AllEvents)
      BY <1>0, <3>1, EventsType
    <3>4. /\ c \in Seq(AllEvents) /\ c # <<>> /\ ~ Dangling(c)
          /\ Spoiled(c) <=> ~ Parses(Block(r))
      BY <3>1, CallIsSound
    <3>5. \A kind \in Kinds : FoldOf(c, kind) = IF kind = "Call" THEN <<Block(r)>> ELSE <<>>
      <4>1. Call(Block(r))[1] = "Call" /\ Call(Block(r))[2] = Block(r)
        BY DEF Call
      <4> QED
        BY <4>1, FoldOne
    <3> HIDE DEF c, e, i, w
    <3>6. i # <<>>
      <4>1. Len(c) # 0 /\ Len(c) \in Nat /\ Len(e) \in Nat
        BY <3>3, <3>4, EmptySeq, LenProperties
      <4>2. Len(c \o e) = Len(c) + Len(e)
        BY <3>3, <3>4, ConcatProperties
      <4>3. Len(i) # 0
        BY <3>2, <4>1, <4>2
      <4> QED
        BY <2>4, <4>3, EmptySeq
    <3>7. /\ Spoiled(i) <=> ~ Parses(Block(r)) \/ Spoiled(e)
          /\ Dangling(i) <=> Dangling(e)
      <4>1. Dangling(e) => e # <<>>
        BY DEF Dangling
      <4> QED
        BY <3>2, <3>3, <3>4, <4>1, SpoiledConcat, DanglingConcat
    <3>8. /\ Spoiled(w) <=> ~ Parses(Block(r)) \/ Spoiled(e)
          /\ Dangling(w) <=> Dangling(e)
      BY <2>4, <2>7, <2>9, <3>6, <3>7, SpoiledConcat, DanglingConcat
    <3>9. Whole(r) = IF Spoiled(w) \/ Dangling(w) THEN Malformed ELSE Sum(w)
      BY DEF Whole, w
    <3>10. Whole(Rest(r)) = IF Spoiled(e) \/ Dangling(e) THEN Malformed ELSE Sum(e)
      BY DEF Whole, e
    <3>11. Sum(e) # Malformed
      BY <3>3, SumType
    <3>12. CASE Spoiled(w) \/ Dangling(w)
      <4>1. ~ Parses(Block(r)) \/ Whole(Rest(r)) = Malformed
        BY <3>8, <3>10, <3>12
      <4> QED
        BY <1>2, <2>11, <3>9, <3>12, <4>1 DEF CallsBy
    <3>13. CASE ~ (Spoiled(w) \/ Dangling(w))
      <4>1. Parses(Block(r)) /\ Whole(Rest(r)) = Sum(e)
        BY <3>8, <3>10, <3>13
      <4>2. CallsBy(r, Sum(e))
              = [Sum(e) EXCEPT !.content = Before(OpenTool, r) \o @, !.calls = <<Block(r)>> \o @]
        BY <1>2, <2>11, <3>11, <4>1 DEF CallsBy
      <4>3. CallsBy(r, Sum(e)) = [content |-> Before(OpenTool, r) \o FoldOf(e, "Text"),
                                  thinking |-> FoldOf(e, "Thinking"),
                                  calls |-> <<Block(r)>> \o FoldOf(e, "Call")]
        BY <4>2, EditSum DEF Sum
      <4>4. ASSUME NEW kind \in Kinds
            PROVE  FoldOf(w, kind) = FoldOf(x, kind) \o (FoldOf(c, kind) \o FoldOf(e, kind))
        <5>1. FoldOf(w, kind) = FoldOf(x, kind) \o FoldOf(i, kind)
          BY <2>4, <2>7, <2>9, FoldConcat
        <5>2. FoldOf(i, kind) = FoldOf(c, kind) \o FoldOf(e, kind)
          BY <3>2, <3>3, <3>4, FoldConcat
        <5> QED
          BY <5>1, <5>2
      <4>5. "Text" \in Kinds /\ "Thinking" \in Kinds /\ "Call" \in Kinds
        BY DEF Kinds
      <4>6. \A kind \in Kinds : <<>> \o FoldOf(e, kind) = FoldOf(e, kind)
        BY <3>3, FoldType, ConcatEmptySeq
      <4>7. FoldOf(w, "Text") = Before(OpenTool, r) \o FoldOf(e, "Text")
        BY <2>8, <3>5, <4>4, <4>5, <4>6
      <4>8. FoldOf(w, "Thinking") = FoldOf(e, "Thinking")
        BY <2>8, <3>5, <4>4, <4>5, <4>6
      <4>9. FoldOf(w, "Call") = <<Block(r)>> \o FoldOf(e, "Call")
        <5> DEFINE z == FoldOf(e, "Call")
                   u == <<Block(r)>>
        <5>1. FoldOf(w, "Call") = <<>> \o (u \o z)
          BY <2>8, <3>5, <4>4, <4>5
        <5>2. z \in Seq(AllTexts) /\ u \in Seq(AllTexts)
          <6>1. ValuesOf("Call") = AllTexts
            BY DEF ValuesOf
          <6>2. z \in Seq(AllTexts)
            BY <3>3, <4>5, <6>1, FoldType
          <6>3. u \in Seq(AllTexts)
            BY <3>1
          <6> QED
            BY <6>2, <6>3
        <5> HIDE DEF z, u
        <5>3. u \o z \in Seq(AllTexts)
          BY <5>2, ConcatProperties
        <5>4. <<>> \o (u \o z) = u \o z
          BY <5>3, ConcatEmptySeq
        <5> QED
          BY <5>1, <5>4 DEF z, u
      <4>10. Sum(w) = CallsBy(r, Sum(e))
        BY <4>3, <4>7, <4>8, <4>9 DEF Sum
      <4> QED
        BY <3>9, <3>13, <4>1, <4>10
    <3> QED
      BY <3>12, <3>13
  <2> QED
    BY <2>10, <2>11
<1> QED
  BY <1>1, <1>2

\* extract_tool_calls makes of a text what its events add up to.
Rests(s) == {SubSeq(s, i, Len(s)) : i \in 1..(Len(s) + 1)}
CallsRule(f, s) == f = [r \in Rests(s) |-> CallsBy(r, f[Rest(r)])]

LEMMA CallsChoose ==
  ASSUME NEW s
  PROVE  Calls(s) = (CHOOSE f : CallsRule(f, s))[s]
BY DEF Calls, CallsRule, CallsBy, Rests, Inner, Block, Rest

LEMMA CallsByDepends ==
  ASSUME NEW r, NEW a, NEW b, Has(OpenTool, r) /\ Has(CloseTool, Inner(r)) => a = b
  PROVE  CallsBy(r, a) = CallsBy(r, b)
BY DEF CallsBy

LEMMA NoThinking ==
  ASSUME NEW r \in AllTexts, ~ Has(OpenThink, r),
         Has(OpenTool, r) /\ Has(CloseTool, Inner(r)) => Whole(Rest(r)).thinking = <<>>
  PROVE  Whole(r).thinking = <<>>
<1> DEFINE more == Whole(Rest(r))
<1>1. Whole(r) = CallsBy(r, more)
  BY WholeIs
<1>2. Malformed.thinking = <<>>
  BY DEF Malformed
<1>3. CASE ~ Has(OpenTool, r)
  <2>1. Whole(r) = [Malformed EXCEPT !.content = r]
    BY <1>1, <1>3 DEF CallsBy
  <2> QED
    BY <2>1 DEF Malformed
<1>4. CASE Has(OpenTool, r) /\ (~ Has(CloseTool, Inner(r)) \/ ~ Parses(Block(r)) \/ more = Malformed)
  <2>1. Whole(r) = Malformed
    BY <1>1, <1>4 DEF CallsBy
  <2> QED
    BY <1>2, <2>1
<1>5. CASE /\ Has(OpenTool, r) /\ Has(CloseTool, Inner(r))
           /\ Parses(Block(r)) /\ more # Malformed
  <2>1. PICK a, b, c : more = [content |-> a, thinking |-> b, calls |-> c]
    BY <1>5 DEF Whole, Sum
  <2>2. b = <<>>
    BY <1>5, <2>1
  <2>3. Whole(r) = [more EXCEPT !.content = Before(OpenTool, r) \o @, !.calls = <<Block(r)>> \o @]
    BY <1>1, <1>5 DEF CallsBy
  <2> HIDE DEF more
  <2>4. PICK p, q : Whole(r) = [more EXCEPT !.content = p, !.calls = q]
    BY <2>3
  <2>5. Whole(r).thinking = b
    BY <2>1, <2>4
  <2> QED
    BY <2>2, <2>5
<1> QED
  BY <1>3, <1>4, <1>5

LEMMA CallsAre ==
  ASSUME NEW s \in AllTexts, ~ Has(OpenThink, s)
  PROVE  Calls(s) = Whole(s) /\ Whole(s).thinking = <<>>
<1> DEFINE R == Rests(s)
           f == CHOOSE f : CallsRule(f, s)
           g == [r \in R |-> Whole(r)]
<1>1. Len(s) \in Nat
  BY LenProperties DEF AllTexts
<1>2. \A r : r \in R <=> \E n \in 0..Len(s) : r = Kept(s, n)
  <2>1. ASSUME NEW r \in R PROVE \E n \in 0..Len(s) : r = Kept(s, n)
    <3>1. PICK i \in 1..(Len(s) + 1) : r = SubSeq(s, i, Len(s))
      BY DEF Rests
    <3>2. i - 1 \in 0..Len(s) /\ (i - 1) + 1 = i
      BY <1>1
    <3> QED
      BY <3>1, <3>2 DEF Kept
  <2>2. ASSUME NEW n \in 0..Len(s) PROVE Kept(s, n) \in R
    <3>1. n + 1 \in 1..(Len(s) + 1)
      BY <1>1
    <3> QED
      BY <3>1 DEF Rests, Kept
  <2> QED
    BY <2>1, <2>2
<1>3. ASSUME NEW r \in R PROVE r \in AllTexts /\ ~ Has(OpenThink, r)
  <2>1. PICK n \in 0..Len(s) : r = Kept(s, n)
    BY <1>2
  <2>2. OpenThink \in Tags
    BY DEF Tags
  <2>3. Kept(s, n) \in AllTexts
    BY KeptText DEF AllTexts
  <2> QED
    BY <2>1, <2>2, <2>3, NoTagKept
<1>4. ASSUME NEW r \in R, Has(OpenTool, r), Has(CloseTool, Inner(r))
      PROVE  Rest(r) \in R /\ Len(Rest(r)) < Len(r)
  <2>1. r \in AllTexts
    BY <1>3
  <2>2. Len(Rest(r)) < Len(r) /\ \E k \in 0..Len(r) : Rest(r) = Kept(r, k)
    BY <1>4, <2>1, AroundCall
  <2>3. PICK n \in 0..Len(s) : r = Kept(s, n)
    BY <1>2
  <2>4. Len(r) = Len(s) - n
    BY <2>3, KeptText DEF AllTexts
  <2>5. PICK k \in 0..(Len(s) - n) : Rest(r) = Kept(r, k)
    BY <2>2, <2>4
  <2>6. Rest(r) = Kept(s, n + k) /\ n + k \in 0..Len(s)
    <3>1. Kept(Kept(s, n), k) = Kept(s, n + k)
      BY KeptKept DEF AllTexts
    <3> QED
      BY <1>1, <2>3, <2>5, <3>1
  <2> QED
    BY <1>2, <2>2, <2>6
<1>5. s \in R
  <2>1. Kept(s, 0) = s
    BY NothingRead DEF Modes
  <2> QED
    BY <1>1, <1>2, <2>1
<1> HIDE DEF R
<1>6. CallsRule(g, s)
  <2>1. \A r \in R : g[r] = Whole(r)
    OBVIOUS
  <2>2. g = [r \in R |-> g[r]]
    OBVIOUS
  <2> HIDE DEF g
  <2>3. ASSUME NEW r \in R PROVE g[r] = CallsBy(r, g[Rest(r)])
    <3>1. Whole(r) = CallsBy(r, Whole(Rest(r)))
      BY <1>3, WholeIs
    <3>2. Has(OpenTool, r) /\ Has(CloseTool, Inner(r)) => g[Rest(r)] = Whole(Rest(r))
      BY <1>4, <2>1
    <3>3. CallsBy(r, g[Rest(r)]) = CallsBy(r, Whole(Rest(r)))
      BY <3>2, CallsByDepends
    <3> QED
      BY <2>1, <3>1, <3>3
  <2>4. g = [r \in R |-> CallsBy(r, g[Rest(r)])]
    BY <2>2, <2>3
  <2> QED
    BY <2>4 DEF CallsRule, R
<1> HIDE DEF g
<1>7. CallsRule(f, s)
  BY <1>6
<1>8. Calls(s) = f[s]
  BY CallsChoose
<1> HIDE DEF f
<1>9. \A r \in R : f[r] = CallsBy(r, f[Rest(r)])
  <2>1. f = [r \in R |-> CallsBy(r, f[Rest(r)])]
    BY <1>7 DEF CallsRule, R
  <2> QED
    BY <2>1
<1> DEFINE T == {r \in R : f[r] = Whole(r) /\ Whole(r).thinking = <<>>}
<1>10. ASSUME NEW r \in R, \A q \in R : Len(q) < Len(r) => q \in T
       PROVE  r \in T
  <2>1. r \in AllTexts /\ ~ Has(OpenThink, r)
    BY <1>3
  <2>2. Has(OpenTool, r) /\ Has(CloseTool, Inner(r)) =>
          f[Rest(r)] = Whole(Rest(r)) /\ Whole(Rest(r)).thinking = <<>>
    BY <1>4, <1>10
  <2>3. f[r] = Whole(r)
    <3>1. CallsBy(r, f[Rest(r)]) = CallsBy(r, Whole(Rest(r)))
      BY <2>2, CallsByDepends
    <3> QED
      BY <1>9, <2>1, <3>1, WholeIs
  <2>4. Whole(r).thinking = <<>>
    BY <2>1, <2>2, NoThinking
  <2> QED
    BY <2>3, <2>4
<1>11. R \subseteq AllTexts
  BY <1>3
<1> HIDE DEF T
<1>12. R \subseteq T
  BY <1>10, <1>11, ByLength
<1> QED
  BY <1>5, <1>8, <1>12 DEF T

-----------------------------------------------------------------------------
(***************************************************************************)
(* So do the events of an answer: what the accumulator makes of a text, in *)
(* the mode it begins in, is what the parser of whole texts makes of it.   *)
(***************************************************************************)
LEMMA ParsedIs ==
  ASSUME NEW s \in AllTexts, ~ Has(OpenThink, s),
         NEW m, m = (IF Has(CloseThink, s) THEN "Thinking" ELSE "Text"), Parsed(s) # Malformed
  PROVE  ~ Spoiled(Events(s, m)) /\ Sum(Events(s, m)) = Parsed(s)
<1>1. /\ "Text" \in Modes /\ "Thinking" \in Modes /\ CloseThink \in Tags /\ OpenThink \in Tags
      /\ TagsOf("Thinking") = {CloseThink} /\ ModeAfter(CloseThink) = "Text"
      /\ Opened(CloseThink) = <<>> /\ "Thinking" # "ToolCall" /\ "Thinking" \in {"Text", "Thinking"}
  BY DEF Modes, Tags, TagsOf, ModeAfter, Opened, CloseThink, OpenThink, OpenTool
<1>2. CASE ~ Has(CloseThink, s)
  <2>1. Parsed(s) = Whole(s)
    BY <1>2, CallsAre DEF Parsed
  <2> QED
    BY <1>2, <2>1 DEF Whole
<1>3. CASE Has(CloseThink, s)
  <2> DEFINE a == After(CloseThink, s)
             b == Before(CloseThink, s)
             d == Delta("Thinking", b)
             e == Events(a, "Text")
             w == Events(s, "Thinking")
  <2>1. a \in AllTexts /\ b \in AllTexts
    BY <1>1, <1>3, AroundTag
  <2>2. ~ Has(OpenThink, a)
    <3>1. PICK n \in 0..Len(s) : a = Kept(s, n)
      <4>1. /\ Find(CloseThink, s) + Len(CloseThink) - 1 \in 1..Len(s)
            /\ a = Kept(s, Find(CloseThink, s) + Len(CloseThink) - 1)
        BY <1>1, <1>3, AroundTag
      <4>2. Len(s) \in Nat
        BY LenProperties DEF AllTexts
      <4> QED
        BY <4>1, <4>2
    <3> QED
      BY <1>1, <3>1, NoTagKept
  <2>3. Calls(a) = Whole(a) /\ Whole(a).thinking = <<>>
    BY <2>1, <2>2, CallsAre
  <2>4. Whole(a) # Malformed /\ Parsed(s) = [Whole(a) EXCEPT !.thinking = b]
    BY <1>3, <2>3 DEF Parsed
  <2>5. d \in Seq(AllEvents) /\ e \in Seq(AllEvents)
    BY <1>1, <2>1, DeltaType, EventsType
  <2>6. w = d \o e
    <3>1. w = (d \o <<>>) \o e
      <4>1. /\ CloseThink \in TagsOf("Thinking")
            /\ \A u \in TagsOf("Thinking") : u # CloseThink => ~ Has(u, s)
        BY <1>1
      <4>2. w = (d \o Opened(CloseThink)) \o Events(a, ModeAfter(CloseThink))
        BY <1>1, <1>3, <4>1, ReadsToFirst
      <4> QED
        BY <1>1, <4>2
    <3>2. d \o <<>> = d
      BY <2>5, ConcatEmptySeq
    <3> QED
      BY <3>1, <3>2
  <2>7. ~ Spoiled(e) /\ Whole(a) = Sum(e)
    BY <2>4 DEF Whole
  <2>8. ~ Spoiled(d)
    BY <1>1, <2>1, DeltaIsSound
  <2>9. \A kind \in Kinds : FoldOf(d, kind) = IF kind = "Thinking" THEN b ELSE <<>>
    BY <1>1, <2>1, FoldDelta
  <2> HIDE DEF d, e, w
  <2>10. ~ Spoiled(w)
    BY <2>5, <2>6, <2>7, <2>8, SpoiledConcat
  <2>11. \A kind \in Kinds : FoldOf(w, kind) = FoldOf(d, kind) \o FoldOf(e, kind)
    BY <2>5, <2>6, FoldConcat
  <2>12. "Text" \in Kinds /\ "Thinking" \in Kinds /\ "Call" \in Kinds
    BY DEF Kinds
  <2>13. \A kind \in Kinds : <<>> \o FoldOf(e, kind) = FoldOf(e, kind)
    BY <2>5, FoldType, ConcatEmptySeq
  <2>14. FoldOf(w, "Text") = FoldOf(e, "Text") /\ FoldOf(w, "Call") = FoldOf(e, "Call")
    BY <2>9, <2>11, <2>12, <2>13
  <2>15. FoldOf(w, "Thinking") = b
    <3>1. FoldOf(e, "Thinking") = <<>>
      BY <2>3, <2>7 DEF Sum
    <3>2. b \o <<>> = b
      BY <2>1, ConcatEmptySeq DEF AllTexts
    <3> QED
      BY <2>9, <2>11, <2>12, <3>1, <3>2
  <2>16. Sum(w) = [Sum(e) EXCEPT !.thinking = b]
    <3>1. PICK p, q, t : p = FoldOf(e, "Text") /\ q = FoldOf(e, "Call") /\ t = FoldOf(e, "Thinking")
      OBVIOUS
    <3>2. Sum(e) = [content |-> p, thinking |-> t, calls |-> q]
      BY <3>1 DEF Sum
    <3>3. Sum(w) = [content |-> p, thinking |-> b, calls |-> q]
      BY <2>14, <2>15, <3>1 DEF Sum
    <3>4. [[content |-> p, thinking |-> t, calls |-> q] EXCEPT !.thinking = b]
            = [content |-> p, thinking |-> b, calls |-> q]
      OBVIOUS
    <3> QED
      BY <3>2, <3>3, <3>4
  <2> QED
    BY <1>3, <2>4, <2>7, <2>10, <2>16 DEF w
<1> QED
  BY <1>2, <1>3

LEMMA AgreesIfSound ==
  ASSUME ScannerInv, ended, ~ Has(OpenThink, text), primed <=> Has(CloseThink, text),
         Parsed(text) # Malformed
  PROVE  out = Events(text, FirstMode) /\ Accumulated = Parsed(text)
<1>1. text \in AllTexts /\ FirstMode = IF Has(CloseThink, text) THEN "Thinking" ELSE "Text"
  BY DEF ScannerInv, ScannerTypes, FirstMode
<1>2. ~ Spoiled(Events(text, FirstMode)) /\ Sum(Events(text, FirstMode)) = Parsed(text)
  BY <1>1, ParsedIs
<1>3. out = Events(text, FirstMode)
  BY <1>2 DEF ScannerInv
<1>4. Accumulated = Sum(out)
  BY FoldedIs DEF Accumulated, Sum
<1> QED
  BY <1>2, <1>3, <1>4

(***************************************************************************)
(* For every answer in the shape the prompt asks for that the parser of    *)
(* whole texts accepts, and every way of cutting it, the stream adds up to *)
(* what the parser returns, but for the white space the parser trims: no   *)
(* call fails, and nothing is told twice, left out or told as another      *)
(* kind.                                                                   *)
(***************************************************************************)
THEOREM StreamAgreesWithParser == ConversationSpec => []AgreesWithParser
<1>1. ScannerInv => AgreesWithParser
  <2>1. SUFFICES ASSUME ScannerInv, ended, ~ Has(OpenThink, text),
                        primed <=> Has(CloseThink, text), Parsed(text) # Malformed
                 PROVE  Trimmed(Accumulated) = parse_assistant_output(text)
    BY DEF AgreesWithParser
  <2>2. Accumulated = Parsed(text)
    BY <2>1, AgreesIfSound
  <2> QED
    BY <2>2 DEF parse_assistant_output
<1> QED
  BY <1>1, ScannerInvHolds, PTL

-----------------------------------------------------------------------------
(***************************************************************************)
(* Putting an answer together again.  The calls of an answer as the        *)
(* template writes them, and a text that is what is around its tags.       *)
(***************************************************************************)
Written(c) == OpenTool \o c \o CloseTool
Blocks(cs) == [k \in DOMAIN cs |-> Written(cs[k])]
CallsText(cs) == FlattenSeq(Blocks(cs))

LEMMA WrittenType ==
  ASSUME NEW c \in AllTexts
  PROVE  Written(c) \in AllTexts
<1>1. OpenTool \in AllTexts /\ CloseTool \in AllTexts
  BY TagShape DEF Tags
<1>2. OpenTool \o c \in AllTexts
  BY <1>1, ConcatProperties DEF AllTexts
<1>3. (OpenTool \o c) \o CloseTool \in AllTexts
  BY <1>1, <1>2, ConcatProperties DEF AllTexts
<1> QED
  BY <1>3 DEF Written

LEMMA BlocksType ==
  ASSUME NEW cs \in Seq(AllTexts)
  PROVE  /\ Blocks(cs) \in Seq(AllTexts) /\ Len(Blocks(cs)) = Len(cs)
         /\ \A k \in 1..Len(cs) : Blocks(cs)[k] = Written(cs[k])
<1> DEFINE n == Len(cs)
           f == [k \in 1..n |-> Written(cs[k])]
<1>1. n \in Nat /\ DOMAIN cs = 1..n /\ \A k \in 1..n : cs[k] \in AllTexts
  <2> DEFINE T == AllTexts
  <2> HIDE DEF T
  <2>1. cs \in Seq(T)
    BY DEF T
  <2>2. n \in Nat /\ DOMAIN cs = 1..n /\ \A k \in 1..n : cs[k] \in T
    BY <2>1, LenProperties, ElementOfSeq
  <2> QED
    BY <2>2 DEF T
<1>2. \A c \in AllTexts : Written(c) \in AllTexts
  BY WrittenType
<1>3. Blocks(cs) = f
  BY <1>1 DEF Blocks
<1>4. f \in [1..n -> AllTexts]
  BY <1>1, <1>2
<1> HIDE DEF f
<1>5. f \in Seq(AllTexts) /\ Len(f) = n
  <2> DEFINE T == AllTexts
  <2> HIDE DEF T
  <2>1. f \in [1..n -> T]
    BY <1>4 DEF T
  <2>2. f \in Seq(T) /\ Len(f) = n
    BY <1>1, <2>1, TupleIsSeq
  <2> QED
    BY <2>2 DEF T
<1> QED
  BY <1>1, <1>3, <1>5 DEF f

LEMMA PutInFront ==
  ASSUME NEW T, NEW x \in T, NEW s \in Seq(T)
  PROVE  /\ <<x>> \o s \in Seq(T) /\ Len(<<x>> \o s) = Len(s) + 1
         /\ (<<x>> \o s)[1] = x /\ \A i \in 1..Len(s) : (<<x>> \o s)[i + 1] = s[i]
<1> DEFINE o == <<x>>
           v == o \o s
<1>1. o \in Seq(T) /\ Len(o) = 1 /\ o[1] = x /\ Len(s) \in Nat
  BY LenProperties
<1> HIDE DEF o
<1>2. /\ v \in Seq(T) /\ Len(v) = Len(o) + Len(s)
      /\ \A i \in 1..(Len(o) + Len(s)) : v[i] = IF i <= Len(o) THEN o[i] ELSE s[i - Len(o)]
  BY <1>1, ConcatProperties
<1> HIDE DEF v
<1>3. ASSUME NEW i \in 1..Len(s) PROVE v[i + 1] = s[i]
  <2>1. i + 1 \in 1..(1 + Len(s)) /\ ~ (i + 1 <= 1) /\ (i + 1) - 1 = i
    BY <1>1
  <2> QED
    BY <1>1, <1>2, <2>1
<1>4. v[1] = x
  BY <1>1, <1>2
<1> QED
  BY <1>1, <1>2, <1>3, <1>4 DEF o, v

LEMMA FlattenHead ==
  ASSUME NEW S, NEW f \in Seq(S), NEW ss \in Seq(Seq(S))
  PROVE  FlattenSeq(<<f>> \o ss) = f \o FlattenSeq(ss)
<1> DEFINE n == Len(ss)
           o == <<f>>
           ww == o \o ss
           F(m) == FlattenSeq(SubSeq(ss, 1, m))
           W(m) == FlattenSeq(SubSeq(ww, 1, m))
           U == Seq(S)
           T == {m \in 0..n : W(m + 1) = f \o F(m)}
<1>0. \A p, q \in Seq(S) : (f \o p) \o q = f \o (p \o q)
  BY Regroup
<1>1. /\ n \in Nat /\ ww \in Seq(U) /\ Len(ww) = n + 1
      /\ ww[1] = f /\ \A i \in 1..n : ww[i + 1] = ss[i]
  <2> HIDE DEF U
  <2>1. f \in U /\ ss \in Seq(U)
    BY DEF U
  <2>2. n \in Nat
    BY <2>1, LenProperties
  <2> QED
    BY <2>1, <2>2, PutInFront
<1> HIDE DEF ww
<1>2. ASSUME NEW m \in 0..n
      PROVE  W(m + 1) = W(m) \o (IF m = 0 THEN f ELSE ss[m]) /\ W(m) \in U
  <2>1. m \in Nat /\ m < Len(ww)
    BY <1>1
  <2>2. W(m + 1) = W(m) \o ww[m + 1] /\ W(m) \in Seq(S)
    BY <1>1, <2>1, FlattenStep
  <2>3. ww[m + 1] = IF m = 0 THEN f ELSE ss[m]
    <3>1. CASE m = 0
      <4>1. m + 1 = 1
        BY <3>1
      <4> QED
        BY <1>1, <3>1, <4>1
    <3>2. CASE m # 0
      <4>1. m \in 1..n
        BY <1>1, <3>2
      <4> QED
        BY <1>1, <3>2, <4>1
    <3> QED
      BY <3>1, <3>2
  <2> HIDE DEF W, F
  <2> QED
    BY <2>2, <2>3
<1>3. ASSUME NEW m \in 0..n, m < n
      PROVE  F(m + 1) = F(m) \o ss[m + 1] /\ F(m) \in U /\ ss[m + 1] \in U
  <2>1. m \in Nat /\ m < Len(ss)
    BY <1>3
  <2> QED
    BY <2>1, FlattenStep
<1>4. F(0) = <<>> /\ W(0) = <<>>
  <2>1. SubSeq(ss, 1, 0) = <<>> /\ SubSeq(ww, 1, 0) = <<>>
    BY SubSeqEmpty
  <2>2. FlattenSeq(<<>>) = <<>>
    BY DEF FlattenSeq
  <2> QED
    BY <2>1, <2>2
<1> HIDE DEF F, W
<1>5. 0 \in T
  <2>1. W(0 + 1) = <<>> \o f /\ 0 \in 0..n
    <3>1. 0 \in 0..n
      BY <1>1
    <3>2. W(0 + 1) = W(0) \o f
      BY <1>2, <3>1
    <3> QED
      BY <1>4, <3>1, <3>2
  <2>2. <<>> \o f = f /\ f \o <<>> = f
    BY ConcatEmptySeq
  <2> QED
    BY <1>4, <2>1, <2>2
<1>6. ASSUME NEW k \in 1..n, k - 1 \in T PROVE k \in T
  <2>1. k \in 0..n /\ k - 1 \in 0..n /\ k - 1 < n /\ (k - 1) + 1 = k /\ k # 0
    BY <1>1
  <2>2. W(k) = f \o F(k - 1)
    BY <1>6, <2>1
  <2>3. W(k + 1) = W(k) \o ss[k]
    BY <1>2, <2>1
  <2>4. F(k) = F(k - 1) \o ss[k] /\ F(k - 1) \in U /\ ss[k] \in U
    BY <1>3, <2>1
  <2>5. PICK p \in Seq(S), q \in Seq(S) : p = F(k - 1) /\ q = ss[k]
    BY <2>4
  <2>6. (f \o p) \o q = f \o (p \o q)
    BY <1>0
  <2> QED
    BY <2>1, <2>2, <2>3, <2>4, <2>5, <2>6
<1> HIDE DEF T
<1>7. n \in T
  <2>1. \A k \in 0..n : k \in T
    BY <1>1, <1>5, <1>6, Climbs
  <2> QED
    BY <1>1, <2>1
<1>8. W(n + 1) = FlattenSeq(ww) /\ F(n) = FlattenSeq(ss)
  <2>1. SubSeq(ww, 1, n + 1) = ww /\ SubSeq(ss, 1, n) = ss
    BY <1>1, SubSeqFull
  <2> QED
    BY <2>1 DEF W, F
<1> QED
  BY <1>7, <1>8 DEF T, ww

LEMMA CallsTextIs ==
  /\ CallsText(<<>>) = <<>>
  /\ \A c \in AllTexts, cs \in Seq(AllTexts) :
       /\ CallsText(cs) \in AllTexts
       /\ CallsText(<<c>> \o cs) = Written(c) \o CallsText(cs)
<1>1. CallsText(<<>>) = <<>>
  <2>1. <<>> \in Seq(AllTexts) /\ Len(<<>>) = 0
    BY EmptySeq
  <2>2. Blocks(<<>>) \in Seq(AllTexts) /\ Len(Blocks(<<>>)) = 0
    BY <2>1, BlocksType
  <2>3. Blocks(<<>>) = <<>>
    BY <2>2, EmptySeq
  <2>4. FlattenSeq(<<>>) = <<>>
    BY DEF FlattenSeq
  <2> QED
    BY <2>3, <2>4 DEF CallsText
<1>2. ASSUME NEW c \in AllTexts, NEW cs \in Seq(AllTexts)
      PROVE  /\ CallsText(cs) \in AllTexts
             /\ CallsText(<<c>> \o cs) = Written(c) \o CallsText(cs)
  <2> DEFINE T == AllTexts
             ds == <<c>> \o cs
             a == Blocks(cs)
             b == Blocks(ds)
             o == <<Written(c)>>
             v == o \o a
  <2>1. Written(c) \in AllTexts
    BY WrittenType
  <2>2. ds \in Seq(T) /\ Len(ds) = Len(cs) + 1 /\ ds[1] = c /\ \A i \in 1..Len(cs) : ds[i + 1] = cs[i]
    <3> HIDE DEF T
    <3>1. c \in T /\ cs \in Seq(T)
      BY DEF T
    <3> QED
      BY <3>1, PutInFront
  <2>3. a \in Seq(T) /\ Len(a) = Len(cs) /\ \A k \in 1..Len(cs) : a[k] = Written(cs[k])
    BY BlocksType
  <2> HIDE DEF ds
  <2>4. b \in Seq(T) /\ Len(b) = Len(ds) /\ \A k \in 1..Len(ds) : b[k] = Written(ds[k])
    BY <2>2, BlocksType
  <2>5. Len(cs) \in Nat
    BY LenProperties
  <2> HIDE DEF a, b
  <2>6. v \in Seq(T) /\ Len(v) = Len(a) + 1 /\ v[1] = Written(c) /\ \A i \in 1..Len(a) : v[i + 1] = a[i]
    <3> DEFINE w == Written(c)
    <3>1. w \in T /\ a \in Seq(T)
      BY <2>1, <2>3 DEF T
    <3> HIDE DEF T, w
    <3>2. /\ <<w>> \o a \in Seq(T) /\ Len(<<w>> \o a) = Len(a) + 1
          /\ (<<w>> \o a)[1] = w /\ \A i \in 1..Len(a) : (<<w>> \o a)[i + 1] = a[i]
      BY <3>1, PutInFront
    <3> QED
      BY <3>2 DEF w
  <2> HIDE DEF v, T
  <2>7. \A i \in 1..Len(b) : b[i] = v[i]
    <3>1. ASSUME NEW i \in 1..Len(b) PROVE b[i] = v[i]
      <4>1. CASE i = 1
        BY <2>2, <2>4, <2>6, <3>1, <4>1
      <4>2. CASE i # 1
        <5>1. i - 1 \in 1..Len(cs) /\ (i - 1) + 1 = i
          BY <2>2, <2>4, <2>5, <4>2
        <5>2. b[i] = Written(ds[i]) /\ ds[i] = cs[i - 1]
          BY <2>2, <2>4, <5>1
        <5>3. v[i] = a[i - 1]
          <6>1. i - 1 \in 1..Len(a)
            BY <2>3, <5>1
          <6>2. v[(i - 1) + 1] = a[i - 1]
            BY <2>6, <6>1
          <6> QED
            BY <5>1, <6>2
        <5>4. a[i - 1] = Written(cs[i - 1])
          BY <2>3, <5>1
        <5> QED
          BY <5>2, <5>3, <5>4
      <4> QED
        BY <4>1, <4>2
    <3> QED
      BY <3>1
  <2>8. b = v
    <3>1. Len(b) = Len(v) /\ b \in Seq(T) /\ v \in Seq(T)
      BY <2>2, <2>3, <2>4, <2>6
    <3> QED
      BY <2>7, <3>1, SeqEqual
  <2>9. FlattenSeq(v) = Written(c) \o FlattenSeq(a)
    <3>1. a \in Seq(Seq(Characters)) /\ Written(c) \in Seq(Characters)
      BY <2>1, <2>3 DEF T, AllTexts
    <3> DEFINE w == Written(c)
    <3> HIDE DEF w
    <3>2. w \in Seq(Characters)
      BY <3>1 DEF w
    <3>3. FlattenSeq(<<w>> \o a) = w \o FlattenSeq(a)
      BY <3>1, <3>2, FlattenHead
    <3> QED
      BY <3>3 DEF v, w
  <2>10. FlattenSeq(a) \in AllTexts
    <3>1. a \in Seq(Seq(Characters)) /\ <<>> \in Seq(Characters)
      BY <2>3, EmptySeq DEF T, AllTexts
    <3> QED
      BY <3>1, FlattenAppend DEF AllTexts
  <2> QED
    BY <2>8, <2>9, <2>10 DEF CallsText, a, b, ds
<1> QED
  BY <1>1, <1>2

LEMMA SplitAt ==
  ASSUME NEW t \in Tags, NEW s \in AllTexts, Has(t, s)
  PROVE  s = Before(t, s) \o (t \o After(t, s))
<1> DEFINE n == Find(t, s) - 1
           k == Kept(s, n)
<1>1. Find(t, s) \in 1..Len(s) /\ Occurs(t, s, Find(t, s))
  BY FindProperties
<1>2. /\ n \in 0..Len(s) /\ n + Len(t) \in 1..Len(s) /\ n + 1 = Find(t, s)
      /\ Find(t, s) + Len(t) - 1 = n + Len(t)
      /\ After(t, s) = Kept(s, Find(t, s) + Len(t) - 1) /\ Before(t, s) = SubSeq(s, 1, n)
  <2>1. /\ n \in 0..Len(s) /\ Find(t, s) + Len(t) - 1 \in 1..Len(s)
        /\ After(t, s) = Kept(s, Find(t, s) + Len(t) - 1)
    BY AroundTag
  <2>2. Len(t) \in 2..4 /\ Len(s) \in Nat
    BY TagShape, LenProperties DEF AllTexts
  <2> QED
    BY <1>1, <2>1, <2>2 DEF Before
<1>3. Len(t) \in 2..4 /\ Len(s) \in Nat
  BY TagShape, LenProperties DEF AllTexts
<1> HIDE DEF n
<1>4. s = SubSeq(s, 1, n) \o k
  BY <1>2, FrontAndKept DEF AllTexts
<1>5. k \in AllTexts /\ Len(k) = Len(s) - n
  BY <1>2, KeptText DEF AllTexts
<1>6. Occurs(t, k, 1)
  <2>1. 1 \in Nat \ {0}
    OBVIOUS
  <2>2. Occurs(t, k, 1) <=> Occurs(t, s, n + 1)
    BY <1>2, <2>1, OccursKept
  <2> QED
    BY <1>1, <1>2, <2>2
<1>7. Len(t) \in 0..Len(k) /\ Len(t) \in 0..(Len(s) - n)
  BY <1>2, <1>3, <1>5
<1>8. SubSeq(k, 1, Len(t)) = t
  <2>1. 1 + Len(t) - 1 = Len(t)
    BY <1>3
  <2> QED
    BY <1>6, <2>1 DEF Occurs
<1>9. Kept(k, Len(t)) = Kept(s, n + Len(t))
  BY <1>2, <1>7, KeptKept DEF AllTexts
<1>10. SubSeq(k, 1, Len(t)) \o Kept(k, Len(t)) = k
  <2> HIDE DEF k
  <2> QED
    BY <1>5, <1>7, FrontAndKept DEF AllTexts
<1> QED
  BY <1>2, <1>4, <1>8, <1>9, <1>10

\* Around a call, and what the parser makes of a text with one.
LEMMA AroundBlock ==
  ASSUME NEW r \in AllTexts, Has(OpenTool, r), Has(CloseTool, Inner(r))
  PROVE  r = Before(OpenTool, r) \o (Written(Block(r)) \o Rest(r))
<1>0. \A p, q, u \in Seq(Characters) :
        (p \o q) \o u = p \o (q \o u) /\ p \o q \in Seq(Characters)
  BY Regroup
<1>1. OpenTool \in Tags /\ CloseTool \in Tags
  BY DEF Tags
<1>2. /\ Inner(r) \in AllTexts /\ Before(OpenTool, r) \in AllTexts
      /\ Block(r) \in AllTexts /\ Rest(r) \in AllTexts
  BY AroundCall
<1>3. r = Before(OpenTool, r) \o (OpenTool \o Inner(r))
  BY <1>1, SplitAt DEF Inner
<1>4. Inner(r) = Block(r) \o (CloseTool \o Rest(r))
  BY <1>1, <1>2, SplitAt DEF Block, Rest
<1>5. PICK o \in Seq(Characters), b \in Seq(Characters), c \in Seq(Characters), e \in Seq(Characters) :
         o = OpenTool /\ b = Block(r) /\ c = CloseTool /\ e = Rest(r)
  BY <1>1, <1>2, TagShape DEF AllTexts
<1>6. ((o \o b) \o c) \o e = (o \o b) \o (c \o e) /\ o \o b \in Seq(Characters) /\ c \o e \in Seq(Characters)
  <2>1. PICK ob \in Seq(Characters) : ob = o \o b
    BY <1>0
  <2>2. (ob \o c) \o e = ob \o (c \o e) /\ c \o e \in Seq(Characters)
    BY <1>0
  <2> QED
    BY <2>1, <2>2
<1>7. (o \o b) \o (c \o e) = o \o (b \o (c \o e))
  <2>1. PICK ce \in Seq(Characters) : ce = c \o e
    BY <1>6
  <2>2. (o \o b) \o ce = o \o (b \o ce)
    BY <1>0, SMTT(30)
  <2> QED
    BY <2>1, <2>2
<1>8. Written(Block(r)) = (o \o b) \o c
  BY <1>5 DEF Written
<1> QED
  BY <1>3, <1>4, <1>5, <1>6, <1>7, <1>8

LEMMA WholeOfCall ==
  ASSUME NEW r \in AllTexts, ~ Has(OpenThink, r), Has(OpenTool, r), Whole(r) # Malformed
  PROVE  /\ Has(CloseTool, Inner(r)) /\ Whole(Rest(r)) # Malformed
         /\ Rest(r) \in AllTexts /\ Len(Rest(r)) < Len(r) /\ ~ Has(OpenThink, Rest(r))
         /\ Whole(Rest(r)).content \in AllTexts /\ Whole(Rest(r)).calls \in Seq(AllTexts)
         /\ Whole(r).content = Before(OpenTool, r) \o Whole(Rest(r)).content
         /\ Whole(r).calls = <<Block(r)>> \o Whole(Rest(r)).calls
<1> DEFINE more == Whole(Rest(r))
<1>1. Whole(r) = CallsBy(r, more)
  BY WholeIs
<1>2. /\ Has(CloseTool, Inner(r)) /\ more # Malformed
      /\ Whole(r) = [more EXCEPT !.content = Before(OpenTool, r) \o @, !.calls = <<Block(r)>> \o @]
  BY <1>1 DEF CallsBy
<1>3. Rest(r) \in AllTexts /\ Len(Rest(r)) < Len(r) /\ \E n \in 0..Len(r) : Rest(r) = Kept(r, n)
  BY <1>2, AroundCall
<1>4. ~ Has(OpenThink, Rest(r))
  <2>1. OpenThink \in Tags
    BY DEF Tags
  <2> QED
    BY <1>3, <2>1, NoTagKept
<1>5. more \in [content : AllTexts, thinking : AllTexts, calls : Seq(AllTexts)]
  <2>1. Events(Rest(r), "Text") \in Seq(AllEvents)
    BY <1>3, EventsType DEF Modes
  <2>2. more = Sum(Events(Rest(r), "Text"))
    BY <1>2 DEF Whole
  <2> QED
    BY <2>1, <2>2, SumType
<1> HIDE DEF more
<1>6. PICK a \in AllTexts, b \in AllTexts, c \in Seq(AllTexts) :
         more = [content |-> a, thinking |-> b, calls |-> c]
  BY <1>5
<1>7. Whole(r) = [content |-> Before(OpenTool, r) \o a, thinking |-> b, calls |-> <<Block(r)>> \o c]
  BY <1>2, <1>6, EditSum
<1>8. /\ more.content = a /\ more.calls = c
      /\ Whole(r).content = Before(OpenTool, r) \o a /\ Whole(r).calls = <<Block(r)>> \o c
  BY <1>6, <1>7
<1> QED
  BY <1>2, <1>3, <1>4, <1>8 DEF more

LEMMA WholeOfPlain ==
  ASSUME NEW r \in AllTexts, ~ Has(OpenThink, r), ~ Has(OpenTool, r)
  PROVE  Whole(r).content = r /\ Whole(r).calls = <<>>
<1>1. Whole(r) = [Malformed EXCEPT !.content = r]
  BY WholeIs DEF CallsBy
<1> QED
  BY <1>1 DEF Malformed

\* A text whose content is what stands before its first call is that content
\* and its calls.
LEMMA Tight ==
  ASSUME NEW s \in AllTexts, ~ Has(OpenThink, s), Whole(s) # Malformed, Whole(s).content = <<>>
  PROVE  s = CallsText(Whole(s).calls)
<1> DEFINE S == {r \in AllTexts : ~ Has(OpenThink, r)}
           Good(r) == Whole(r) # Malformed /\ Whole(r).content = <<>> => r = CallsText(Whole(r).calls)
           T == {r \in S : Good(r)}
<1>1. ASSUME NEW r \in S, \A q \in S : Len(q) < Len(r) => q \in T PROVE Good(r)
  <2>1. SUFFICES ASSUME Whole(r) # Malformed, Whole(r).content = <<>>
                 PROVE  r = CallsText(Whole(r).calls)
    OBVIOUS
  <2>2. CASE ~ Has(OpenTool, r)
    <3>1. Whole(r).content = r /\ Whole(r).calls = <<>>
      BY <1>1, <2>2, WholeOfPlain
    <3> QED
      BY <2>1, <3>1, CallsTextIs
  <2>3. CASE Has(OpenTool, r)
    <3> DEFINE q == Rest(r)
               b == Before(OpenTool, r)
               a == Whole(q).content
               cs == Whole(q).calls
    <3>1. /\ Has(CloseTool, Inner(r)) /\ Whole(q) # Malformed
          /\ q \in AllTexts /\ Len(q) < Len(r) /\ ~ Has(OpenThink, q)
          /\ a \in AllTexts /\ cs \in Seq(AllTexts)
          /\ Whole(r).content = b \o a /\ Whole(r).calls = <<Block(r)>> \o cs
      BY <1>1, <2>1, <2>3, WholeOfCall
    <3>2. b \in AllTexts /\ Block(r) \in AllTexts
      BY <1>1, <2>3, <3>1, AroundCall
    <3>3. r = b \o (Written(Block(r)) \o q)
      BY <1>1, <2>3, <3>1, AroundBlock
    <3>4. q \in T
      BY <1>1, <3>1
    <3> HIDE DEF T
    <3>5. a = <<>> => q = CallsText(cs)
      BY <3>1, <3>4 DEF T
    <3> HIDE DEF q, a, b, cs
    <3>6. b = <<>> /\ a = <<>>
      <4>1. b \in Seq(Characters) /\ a \in Seq(Characters) /\ b \o a = <<>>
        BY <2>1, <3>1, <3>2 DEF AllTexts
      <4> QED
        BY <4>1, ConcatEqualIffEmpty
    <3>7. CallsText(<<Block(r)>> \o cs) = Written(Block(r)) \o q
      BY <3>1, <3>2, <3>5, <3>6, CallsTextIs
    <3>8. r = Written(Block(r)) \o q
      <4>1. Written(Block(r)) \in AllTexts
        BY <3>2, WrittenType
      <4> DEFINE w == Written(Block(r)) \o q
      <4>2. w \in Seq(Characters)
        BY <3>1, <4>1, ConcatProperties DEF AllTexts
      <4> HIDE DEF w
      <4>3. <<>> \o w = w
        BY <4>2, ConcatEmptySeq
      <4> QED
        BY <3>3, <3>6, <4>3 DEF w
    <3> QED
      BY <3>1, <3>7, <3>8
  <2> QED
    BY <2>2, <2>3
<1>2. \A r \in S : (\A q \in S : Len(q) < Len(r) => q \in T) => r \in T
  <2> HIDE DEF S, Good
  <2> QED
    BY <1>1
<1>3. S \subseteq AllTexts /\ s \in S
  OBVIOUS
<1>4. S \subseteq T
  <2> HIDE DEF S, T
  <2> QED
    BY <1>2, <1>3, ByLength
<1>5. Good(s)
  <2> HIDE DEF S, Good
  <2> QED
    BY <1>3, <1>4
<1> QED
  BY <1>5

LEMMA Rebuilt ==
  ASSUME NEW r \in AllTexts, ~ Has(OpenThink, r), Whole(r) # Malformed,
         Whole(r).content = IF Has(OpenTool, r) THEN Before(OpenTool, r) ELSE r
  PROVE  r = Whole(r).content \o CallsText(Whole(r).calls)
<1>1. CASE ~ Has(OpenTool, r)
  <2>1. Whole(r).content = r /\ Whole(r).calls = <<>>
    BY <1>1, WholeOfPlain
  <2>2. r \o <<>> = r
    BY ConcatEmptySeq DEF AllTexts
  <2> QED
    BY <2>1, <2>2, CallsTextIs
<1>2. CASE Has(OpenTool, r)
  <2> DEFINE q == Rest(r)
             b == Before(OpenTool, r)
             a == Whole(q).content
             cs == Whole(q).calls
  <2>1. /\ Has(CloseTool, Inner(r)) /\ Whole(q) # Malformed
        /\ q \in AllTexts /\ ~ Has(OpenThink, q)
        /\ a \in AllTexts /\ cs \in Seq(AllTexts)
        /\ Whole(r).content = b \o a /\ Whole(r).calls = <<Block(r)>> \o cs
    BY <1>2, WholeOfCall
  <2>2. b \in AllTexts /\ Block(r) \in AllTexts
    BY <1>2, <2>1, AroundCall
  <2>3. r = b \o (Written(Block(r)) \o q)
    BY <1>2, <2>1, AroundBlock
  <2>4. Whole(r).content = b
    BY <1>2
  <2>5. a = <<>> => q = CallsText(cs)
    BY <2>1, Tight
  <2> HIDE DEF q, a, b, cs
  <2>6. a = <<>>
    <3>1. b \in Seq(Characters) /\ a \in Seq(Characters) /\ b \o a = b
      BY <2>1, <2>2, <2>4 DEF AllTexts
    <3> QED
      BY <3>1, ConcatEqualIffEmpty
  <2>7. CallsText(<<Block(r)>> \o cs) = Written(Block(r)) \o q
    BY <2>1, <2>2, <2>5, <2>6, CallsTextIs
  <2> QED
    BY <2>1, <2>3, <2>4, <2>7
<1> QED
  BY <1>1, <1>2

(***************************************************************************)
(* An answer in the shape the prompt asks for, behind what the prompt      *)
(* already said of it, is its fields as the template writes them.          *)
(***************************************************************************)
Lead == IF primed THEN <<>> ELSE CloseThink
Fields(h, c, cs) == h \o (CloseThink \o (c \o CallsText(cs)))

LEMMA ShapedText ==
  ASSUME ScannerInv, ended, Shaped
  PROVE  /\ Lead \o text = Fields(Accumulated.thinking, Accumulated.content, Accumulated.calls)
         /\ Lead \in AllTexts /\ text \in AllTexts
         /\ Accumulated.content \in AllTexts /\ Accumulated.thinking \in AllTexts
         /\ Accumulated.calls \in Seq(AllTexts)
<1>1. text \in AllTexts /\ OpenThink \in Tags /\ CloseThink \in Tags
  BY DEF ScannerInv, ScannerTypes, Tags
<1>2. /\ ~ Has(OpenThink, text) /\ (primed <=> Has(CloseThink, text)) /\ Parsed(text) # Malformed
  BY DEF Shaped
<1>3. Accumulated = Parsed(text)
  BY <1>2, AgreesIfSound
<1>4. /\ Accumulated.content \in AllTexts /\ Accumulated.thinking \in AllTexts
      /\ Accumulated.calls \in Seq(AllTexts)
  BY AccumulatedType DEF ScannerInv, ScannerTypes
<1>5. Lead \in AllTexts /\ CloseThink \in AllTexts
  <2>1. CloseThink \in AllTexts /\ <<>> \in AllTexts
    BY <1>1, TagShape, EmptySeq DEF AllTexts
  <2> QED
    BY <2>1 DEF Lead
<1> DEFINE c == Accumulated.content
           cs == Accumulated.calls
           h == Accumulated.thinking
           d == c \o CallsText(cs)
           e == CloseThink \o d
<1>6. d \in AllTexts /\ e \in AllTexts
  <2>1. CallsText(cs) \in AllTexts
    BY <1>4, CallsTextIs
  <2>2. d \in AllTexts
    BY <1>4, <2>1, ConcatProperties DEF AllTexts
  <2> HIDE DEF d
  <2>3. CloseThink \o d \in AllTexts
    BY <1>5, <2>2, ConcatProperties DEF AllTexts
  <2> QED
    BY <2>2, <2>3
<1>7. Lead \o text = h \o e
  <2>1. CASE ~ primed
    <3>1. Accumulated = Whole(text) /\ h = <<>>
      BY <1>1, <1>2, <1>3, <2>1, CallsAre DEF Parsed
    <3>2. Whole(text).content = IF Has(OpenTool, text) THEN Before(OpenTool, text) ELSE text
      BY <1>3, <2>1, <3>1 DEF Shaped
    <3>3. text = d
      BY <1>1, <1>2, <1>3, <3>1, <3>2, Rebuilt
    <3>4. Lead = CloseThink
      BY <2>1 DEF Lead
    <3> HIDE DEF d, h
    <3>5. <<>> \o e = e
      <4> HIDE DEF e
      <4> QED
        BY <1>6, ConcatEmptySeq DEF AllTexts
    <3> QED
      BY <3>1, <3>3, <3>4, <3>5
  <2>2. CASE primed
    <3> DEFINE a == After(CloseThink, text)
               b == Before(CloseThink, text)
    <3>1. a \in AllTexts /\ b \in AllTexts
      BY <1>1, <1>2, <2>2, AroundTag
    <3>2. ~ Has(OpenThink, a)
      <4>1. PICK n \in 0..Len(text) : a = Kept(text, n)
        <5>1. /\ Find(CloseThink, text) + Len(CloseThink) - 1 \in 1..Len(text)
              /\ a = Kept(text, Find(CloseThink, text) + Len(CloseThink) - 1)
          BY <1>1, <1>2, <2>2, AroundTag
        <5>2. Len(text) \in Nat
          BY <1>1, LenProperties DEF AllTexts
        <5> QED
          BY <5>1, <5>2
      <4> QED
        BY <1>1, <1>2, <4>1, NoTagKept
    <3>3. Calls(a) = Whole(a)
      BY <3>1, <3>2, CallsAre
    <3>4. Whole(a) # Malformed /\ Parsed(text) = [Whole(a) EXCEPT !.thinking = b]
      BY <1>2, <2>2, <3>3 DEF Parsed
    <3>5. PICK u, v, w : Whole(a) = [content |-> u, thinking |-> v, calls |-> w]
      BY <3>4 DEF Whole, Sum
    <3> HIDE DEF a, b
    <3>6. c = Whole(a).content /\ cs = Whole(a).calls /\ h = b
      BY <1>3, <3>4, <3>5
    <3>7. c = IF Has(OpenTool, a) THEN Before(OpenTool, a) ELSE a
      BY <1>2, <1>3, <2>2 DEF Shaped, a
    <3>8. a = d
      BY <3>1, <3>2, <3>4, <3>6, <3>7, Rebuilt
    <3>9. text = b \o (CloseThink \o a)
      BY <1>1, <1>2, <2>2, SplitAt DEF a, b
    <3>10. <<>> \o text = text
      BY <1>1, ConcatEmptySeq DEF AllTexts
    <3>11. Lead = <<>>
      BY <2>2 DEF Lead
    <3> HIDE DEF c, cs, h, d
    <3> QED
      BY <3>6, <3>8, <3>9, <3>10, <3>11
  <2> QED
    BY <2>1, <2>2
<1> QED
  BY <1>1, <1>4, <1>5, <1>7 DEF Fields

\* The next message's turn comes behind the history of those before it.
LEMMA NextTurn ==
  ASSUME NEW ms \in Seq(Messages), NEW c \in 1..Len(ms), Len(ms) = c + 1, ~ Joins(ms, c)
  PROVE  History(ms) = History(SubSeq(ms, 1, c)) \o Rendered(ms, c + 1)
<1> DEFINE fs == SubSeq(ms, 1, c)
           tt == Turnings(ms)
<1>1. SubSeq(tt, 1, c) = Turnings(fs) /\ Header(fs) = Header(ms)
  BY FrontTurnings
<1>2. tt \in Seq(Seq(Words)) /\ Len(tt) = c + 1 /\ c \in Nat /\ c < Len(tt)
  BY TurningsType
<1>3. tt[c + 1] = Rendered(ms, c + 1)
  <2>1. c + 1 \in DOMAIN ms
    BY LenProperties
  <2> QED
    BY <2>1 DEF Turnings
<1>4. History(ms) = Header(ms) \o FlattenSeq(tt) /\ History(fs) = Header(fs) \o FlattenSeq(Turnings(fs))
  BY DEF History, Turnings
<1>5. ms # <<>>
  BY <1>2, EmptySeq
<1> HIDE DEF tt, fs
<1>6. /\ FlattenSeq(SubSeq(tt, 1, c)) \in Seq(Words) /\ tt[c + 1] \in Seq(Words)
      /\ FlattenSeq(SubSeq(tt, 1, c + 1)) = FlattenSeq(SubSeq(tt, 1, c)) \o tt[c + 1]
  BY <1>2, FlattenStep
<1>7. SubSeq(tt, 1, c + 1) = tt
  BY <1>2, SubSeqFull
<1>8. PICK h \in Seq(Words), f \in Seq(Words), e \in Seq(Words) :
         h = Header(ms) /\ f = FlattenSeq(SubSeq(tt, 1, c)) /\ e = tt[c + 1]
  BY <1>5, <1>6, HeaderType
<1>9. (h \o f) \o e = h \o (f \o e)
  BY Regroup
<1>10. FlattenSeq(tt) = f \o e
  BY <1>6, <1>7, <1>8
<1>11. History(ms) = h \o (f \o e)
  BY <1>4, <1>8, <1>10
<1>12. History(fs) = h \o f /\ Rendered(ms, c + 1) = e
  BY <1>1, <1>3, <1>4, <1>8
<1> QED
  BY <1>9, <1>11, <1>12 DEF fs

\* Putting one sequence behind another: all that is needed of it below.
Glue(p, q) == p \o q

LEMMA Glues ==
  ASSUME NEW S
  PROVE  \A p, q \in Seq(S) : /\ Glue(p, q) \in Seq(S)
                             /\ \A r \in Seq(S) : Glue(Glue(p, q), r) = Glue(p, Glue(q, r))
<1>1. \A p, q, r \in Seq(S) : (p \o q) \o r = p \o (q \o r) /\ p \o q \in Seq(S)
  BY Regroup
<1>2. \A p, q \in Seq(S) : p \o q \in Seq(S)
  BY ConcatProperties
<1> QED
  BY <1>1, <1>2 DEF Glue

\* What stands in a part of a text stands in the text.
LEMMA NoTagTrimmed ==
  ASSUME NEW b \in AllTexts, NEW t \in Tags, ~ Has(t, b)
  PROVE  ~ Has(t, trim(b))
<1>1. PICK n \in 0..Len(b) : \E m \in 0..(Len(b) - n) : trim(b) = SubSeq(Kept(b, n), 1, m)
  BY TrimIs DEF AllTexts
<1> DEFINE k == Kept(b, n)
<1>2. k \in AllTexts /\ Len(k) = Len(b) - n
  BY KeptText DEF AllTexts
<1>3. ~ Has(t, k)
  BY NoTagKept
<1>4. PICK m \in 0..Len(k) : trim(b) = SubSeq(k, 1, m)
  BY <1>1, <1>2
<1> HIDE DEF k
<1> QED
  BY <1>2, <1>3, <1>4, NoTagInFront

\* Two texts in parts, each part of one no longer than that of the other.
LEMMA PartsMatch ==
  ASSUME NEW S, NEW p \in Seq(S), NEW q \in Seq(S), NEW r \in Seq(S), NEW s \in Seq(S),
         Len(p) <= Len(r), Len(q) <= Len(s)
  PROVE  /\ Glue(p, q) \in Seq(S) /\ Glue(r, s) \in Seq(S) /\ Len(Glue(p, q)) <= Len(Glue(r, s))
         /\ Glue(p, q) = Glue(r, s) => p = r /\ q = s
<1> DEFINE u == Glue(p, q)
           v == Glue(r, s)
<1>1. Len(p) \in Nat /\ Len(q) \in Nat /\ Len(r) \in Nat /\ Len(s) \in Nat
  BY LenProperties
<1>2. /\ u \in Seq(S) /\ Len(u) = Len(p) + Len(q)
      /\ \A i \in 1..(Len(p) + Len(q)) : u[i] = IF i <= Len(p) THEN p[i] ELSE q[i - Len(p)]
  BY ConcatProperties DEF Glue
<1>3. /\ v \in Seq(S) /\ Len(v) = Len(r) + Len(s)
      /\ \A i \in 1..(Len(r) + Len(s)) : v[i] = IF i <= Len(r) THEN r[i] ELSE s[i - Len(r)]
  BY ConcatProperties DEF Glue
<1> HIDE DEF u, v
<1>4. ASSUME u = v PROVE p = r /\ q = s
  <2>1. Len(p) = Len(r) /\ Len(q) = Len(s)
    BY <1>1, <1>2, <1>3, <1>4
  <2>2. \A i \in 1..Len(p) : p[i] = r[i]
    <3>1. ASSUME NEW i \in 1..Len(p) PROVE p[i] = r[i]
      <4>1. i \in 1..(Len(p) + Len(q)) /\ i \in 1..(Len(r) + Len(s)) /\ i <= Len(p)
        BY <1>1, <2>1
      <4>2. u[i] = p[i] /\ v[i] = r[i]
        BY <1>2, <1>3, <2>1, <4>1
      <4> QED
        BY <1>4, <4>2
    <3> QED
      BY <3>1
  <2>3. \A i \in 1..Len(q) : q[i] = s[i]
    <3>1. ASSUME NEW i \in 1..Len(q) PROVE q[i] = s[i]
      <4> DEFINE j == Len(p) + i
      <4>1. /\ j \in 1..(Len(p) + Len(q)) /\ j \in 1..(Len(r) + Len(s))
            /\ ~ (j <= Len(p)) /\ j - Len(p) = i
        BY <1>1, <2>1
      <4> HIDE DEF j
      <4>2. u[j] = q[i] /\ v[j] = s[i]
        BY <1>2, <1>3, <2>1, <4>1
      <4> QED
        BY <1>4, <4>2
    <3> QED
      BY <3>1
  <2>4. p = r
    BY <2>1, <2>2, SeqEqual
  <2>5. q = s
    BY <2>1, <2>3, SeqEqual
  <2> QED
    BY <2>4, <2>5
<1>5. Len(u) <= Len(v)
  BY <1>1, <1>2, <1>3
<1> QED
  BY <1>2, <1>3, <1>4, <1>5 DEF u, v

LEMMA PartsGlue ==
  ASSUME NEW S
  PROVE  \A p, q, r, s \in Seq(S) : Len(p) <= Len(r) /\ Len(q) <= Len(s) =>
           /\ Glue(p, q) \in Seq(S) /\ Glue(r, s) \in Seq(S) /\ Len(Glue(p, q)) <= Len(Glue(r, s))
           /\ Glue(p, q) = Glue(r, s) => p = r /\ q = s
BY PartsMatch

LEMMA WrittenMatch ==
  ASSUME NEW c \in AllTexts, NEW d \in AllTexts, Len(d) <= Len(c)
  PROVE  Len(Written(d)) <= Len(Written(c)) /\ (Written(d) = Written(c) => d = c)
<1>1. PICK o \in Seq(Characters), e \in Seq(Characters) : o = OpenTool /\ e = CloseTool
  BY TagShape DEF Tags, AllTexts
<1>2. Len(o) <= Len(o) /\ Len(e) <= Len(e)
  BY LenProperties
<1>3. c \in Seq(Characters) /\ d \in Seq(Characters)
  BY DEF AllTexts
<1>4. \A p, q, r, s \in Seq(Characters) : Len(p) <= Len(r) /\ Len(q) <= Len(s) =>
        /\ Glue(p, q) \in Seq(Characters) /\ Glue(r, s) \in Seq(Characters)
        /\ Len(Glue(p, q)) <= Len(Glue(r, s)) /\ (Glue(p, q) = Glue(r, s) => p = r /\ q = s)
  BY PartsGlue
<1>5. Written(d) = Glue(Glue(o, d), e) /\ Written(c) = Glue(Glue(o, c), e)
  BY <1>1 DEF Written, Glue
<1>6. /\ Glue(o, d) \in Seq(Characters) /\ Glue(o, c) \in Seq(Characters)
      /\ Len(Glue(o, d)) <= Len(Glue(o, c)) /\ (Glue(o, d) = Glue(o, c) => d = c)
  BY <1>2, <1>3, <1>4
<1>7. /\ Len(Glue(Glue(o, d), e)) <= Len(Glue(Glue(o, c), e))
      /\ Glue(Glue(o, d), e) = Glue(Glue(o, c), e) => Glue(o, d) = Glue(o, c)
  BY <1>2, <1>4, <1>6
<1> QED
  BY <1>5, <1>6, <1>7

LEMMA CallsMatch ==
  ASSUME NEW cs \in Seq(AllTexts), NEW ds \in Seq(AllTexts), Len(ds) = Len(cs),
         \A k \in 1..Len(cs) : Len(ds[k]) <= Len(cs[k])
  PROVE  /\ CallsText(ds) \in AllTexts /\ CallsText(cs) \in AllTexts
         /\ Len(CallsText(ds)) <= Len(CallsText(cs))
         /\ CallsText(ds) = CallsText(cs) => ds = cs
<1> DEFINE n == Len(cs)
           a == Blocks(ds)
           b == Blocks(cs)
           A(m) == FlattenSeq(SubSeq(a, 1, m))
           B(m) == FlattenSeq(SubSeq(b, 1, m))
           Same(m) == \A k \in 1..m : ds[k] = cs[k]
           T == {m \in 0..n : /\ A(m) \in Seq(Characters) /\ B(m) \in Seq(Characters)
                              /\ Len(A(m)) <= Len(B(m)) /\ (A(m) = B(m) => Same(m))}
<1>1. /\ n \in Nat /\ a \in Seq(AllTexts) /\ b \in Seq(AllTexts) /\ Len(a) = n /\ Len(b) = n
      /\ \A k \in 1..n : a[k] = Written(ds[k]) /\ b[k] = Written(cs[k])
  BY BlocksType, LenProperties
<1>2. \A k \in 1..n : ds[k] \in AllTexts /\ cs[k] \in AllTexts
  <2> DEFINE U == AllTexts
  <2> HIDE DEF U
  <2>1. ds \in Seq(U) /\ cs \in Seq(U)
    BY DEF U
  <2>2. \A k \in 1..n : ds[k] \in U /\ cs[k] \in U
    BY <1>1, <2>1, ElementOfSeq
  <2> QED
    BY <2>2 DEF U
<1> HIDE DEF a, b
<1>3. ASSUME NEW m \in 0..n, m < n
      PROVE  /\ A(m) \in Seq(Characters) /\ B(m) \in Seq(Characters)
             /\ a[m + 1] \in Seq(Characters) /\ b[m + 1] \in Seq(Characters)
             /\ A(m + 1) = A(m) \o a[m + 1] /\ B(m + 1) = B(m) \o b[m + 1]
  <2>1. m \in Nat /\ m < Len(a) /\ m < Len(b)
    BY <1>1, <1>3
  <2>2. a \in Seq(Seq(Characters)) /\ b \in Seq(Seq(Characters))
    BY <1>1 DEF AllTexts
  <2> QED
    BY <2>1, <2>2, FlattenStep
<1>4. A(0) = <<>> /\ B(0) = <<>>
  <2>1. SubSeq(a, 1, 0) = <<>> /\ SubSeq(b, 1, 0) = <<>>
    BY SubSeqEmpty
  <2>2. FlattenSeq(<<>>) = <<>>
    BY DEF FlattenSeq
  <2> QED
    BY <2>1, <2>2
<1> HIDE DEF A, B
<1>5. 0 \in T
  <2>1. 0 \in 0..n /\ <<>> \in Seq(Characters) /\ Len(<<>>) <= Len(<<>>)
    BY <1>1, EmptySeq
  <2>2. Same(0)
    OBVIOUS
  <2> HIDE DEF Same
  <2> QED
    BY <1>4, <2>1, <2>2
<1>6. ASSUME NEW k \in 1..n, k - 1 \in T PROVE k \in T
  <2>1. k \in 0..n /\ k - 1 \in 0..n /\ k - 1 < n /\ (k - 1) + 1 = k
    BY <1>1
  <2> HIDE DEF Same
  <2>2. Len(A(k - 1)) <= Len(B(k - 1)) /\ (A(k - 1) = B(k - 1) => Same(k - 1))
    BY <1>6
  <2> HIDE DEF T
  <2>3. /\ A(k - 1) \in Seq(Characters) /\ B(k - 1) \in Seq(Characters)
        /\ a[k] \in Seq(Characters) /\ b[k] \in Seq(Characters)
        /\ A(k) = A(k - 1) \o a[k] /\ B(k) = B(k - 1) \o b[k]
    BY <1>3, <2>1
  <2>4. Len(a[k]) <= Len(b[k]) /\ (a[k] = b[k] => ds[k] = cs[k])
    BY <1>1, <1>2, WrittenMatch
  <2>5. PICK p \in Seq(Characters), q \in Seq(Characters), r \in Seq(Characters), s \in Seq(Characters) :
          p = A(k - 1) /\ q = a[k] /\ r = B(k - 1) /\ s = b[k]
    BY <2>3
  <2>6. /\ Glue(p, q) \in Seq(Characters) /\ Glue(r, s) \in Seq(Characters)
        /\ Len(Glue(p, q)) <= Len(Glue(r, s)) /\ (Glue(p, q) = Glue(r, s) => p = r /\ q = s)
    <3>1. Len(p) <= Len(r) /\ Len(q) <= Len(s)
      BY <2>2, <2>4, <2>5
    <3> QED
      BY <3>1, PartsGlue
  <2>9. A(k) = Glue(p, q) /\ B(k) = Glue(r, s)
    BY <2>3, <2>5 DEF Glue
  <2>7. /\ A(k) \in Seq(Characters) /\ B(k) \in Seq(Characters) /\ Len(A(k)) <= Len(B(k))
        /\ A(k) = B(k) => Same(k - 1) /\ ds[k] = cs[k]
    BY <2>2, <2>4, <2>5, <2>6, <2>9
  <2>8. Same(k - 1) /\ ds[k] = cs[k] => Same(k)
    <3>1. \A j \in 1..k : j = k \/ j \in 1..(k - 1)
      BY <2>1
    <3> QED
      BY <3>1 DEF Same
  <2> QED
    BY <2>1, <2>7, <2>8 DEF T
<1> HIDE DEF T, Same
<1>7. n \in T
  <2>1. \A k \in 0..n : k \in T
    BY <1>1, <1>5, <1>6, Climbs
  <2> QED
    BY <1>1, <2>1
<1>8. A(n) = CallsText(ds) /\ B(n) = CallsText(cs)
  <2>1. SubSeq(a, 1, n) = a /\ SubSeq(b, 1, n) = b
    BY <1>1, SubSeqFull
  <2> QED
    BY <2>1 DEF A, B, CallsText, a, b
<1>9. Same(n) => ds = cs
  <2> DEFINE U == AllTexts
  <2> HIDE DEF U
  <2>1. ds \in Seq(U) /\ cs \in Seq(U)
    BY DEF U
  <2> QED
    BY <2>1, SeqEqual DEF Same
<1>10. /\ A(n) \in Seq(Characters) /\ B(n) \in Seq(Characters)
       /\ Len(A(n)) <= Len(B(n)) /\ (A(n) = B(n) => Same(n))
  BY <1>7 DEF T
<1> QED
  BY <1>8, <1>9, <1>10 DEF AllTexts

(***************************************************************************)
(* The fields of an answer as the template writes them again: content and  *)
(* reasoning without the white space around them, a function tag and a     *)
(* parsed call for every call.                                             *)
(***************************************************************************)
Functions(cs) == [k \in DOMAIN cs |-> <<"f">> \o cs[k]]
Refields(h, c, cs) == trim(h) \o (CloseThink \o (trim(c) \o CallsText(Functions(cs))))

LEMMA FunctionsType ==
  ASSUME NEW cs \in Seq(AllTexts)
  PROVE  /\ Functions(cs) \in Seq(AllTexts) /\ Len(Functions(cs)) = Len(cs)
         /\ \A k \in 1..Len(cs) : /\ cs[k] \in AllTexts /\ Functions(cs)[k] = <<"f">> \o cs[k]
                                  /\ Len(Functions(cs)[k]) = Len(cs[k]) + 1
<1> DEFINE T == AllTexts
           n == Len(cs)
           f == [k \in 1..n |-> <<"f">> \o cs[k]]
<1>1. n \in Nat /\ DOMAIN cs = 1..n /\ \A k \in 1..n : cs[k] \in T
  <2> HIDE DEF T
  <2>1. cs \in Seq(T)
    BY DEF T
  <2> QED
    BY <2>1, LenProperties, ElementOfSeq
<1>2. \A k \in 1..n : f[k] = <<"f">> \o cs[k]
  OBVIOUS
<1>3. \A c \in T : <<"f">> \o c \in T /\ Len(<<"f">> \o c) = Len(c) + 1
  <2>1. "f" \in Characters
    BY DEF Characters
  <2> QED
    BY <2>1, PutInFront DEF AllTexts
<1>4. Functions(cs) = f
  BY <1>1 DEF Functions
<1> HIDE DEF T
<1>5. f \in [1..n -> T]
  BY <1>1, <1>3
<1> HIDE DEF f
<1>6. f \in Seq(T) /\ Len(f) = n
  BY <1>1, <1>5, TupleIsSeq
<1>7. \A k \in 1..n : cs[k] \in T /\ f[k] = <<"f">> \o cs[k] /\ Len(f[k]) = Len(cs[k]) + 1
  BY <1>1, <1>2, <1>3
<1> QED
  BY <1>4, <1>6, <1>7 DEF T

\* Every call is shorter parsed than as it was generated: its tag is gone.
Shorter(ds, cs) == Len(ds) = Len(cs) /\ \A k \in 1..Len(cs) : Len(ds[k]) < Len(cs[k])

\* Written again, an answer is never longer, and the same only when there was
\* nothing to lose.
LEMMA RefieldsMatch ==
  ASSUME NEW h \in AllTexts, NEW c \in AllTexts, NEW cs \in Seq(AllTexts), NEW ds \in Seq(AllTexts), Shorter(ds, cs)
  PROVE  /\ Refields(h, c, ds) \in AllTexts /\ Fields(h, c, cs) \in AllTexts
         /\ Len(Refields(h, c, ds)) <= Len(Fields(h, c, cs))
         /\ (Refields(h, c, ds) = Fields(h, c, cs)
             <=> trim(h) = h /\ trim(c) = c /\ Functions(ds) = cs)
<1> DEFINE r == Refields(h, c, ds)
           f == Fields(h, c, cs)
<1>1. /\ Functions(ds) \in Seq(AllTexts) /\ Len(Functions(ds)) = Len(cs)
      /\ \A k \in 1..Len(cs) : Len(Functions(ds)[k]) <= Len(cs[k])
  <2>1. /\ Functions(ds) \in Seq(AllTexts) /\ Len(Functions(ds)) = Len(ds)
        /\ \A k \in 1..Len(ds) : ds[k] \in AllTexts /\ Len(Functions(ds)[k]) = Len(ds[k]) + 1
    BY FunctionsType
  <2>2. \A k \in 1..Len(cs) : cs[k] \in AllTexts
    BY FunctionsType
  <2>3. \A k \in 1..Len(cs) : Len(ds[k]) \in Nat /\ Len(cs[k]) \in Nat
    BY <2>1, <2>2, LenProperties DEF AllTexts, Shorter
  <2>4. \A k \in 1..Len(cs) : Len(Functions(ds)[k]) <= Len(cs[k])
    BY <2>1, <2>3 DEF Shorter
  <2> QED
    BY <2>1, <2>4 DEF Shorter
<1> DEFINE fs == Functions(ds)
<1> HIDE DEF fs
<1>2. PICK u \in Seq(Characters), v \in Seq(Characters) :
        /\ u = CallsText(fs) /\ v = CallsText(cs) /\ Len(u) <= Len(v) /\ (u = v => fs = cs)
  <2>1. /\ CallsText(fs) \in AllTexts /\ CallsText(cs) \in AllTexts
        /\ Len(CallsText(fs)) <= Len(CallsText(cs)) /\ (CallsText(fs) = CallsText(cs) => fs = cs)
    BY <1>1, CallsMatch DEF fs
  <2> QED
    BY <2>1 DEF AllTexts
<1>3. PICK h1 \in Seq(Characters), h2 \in Seq(Characters), c1 \in Seq(Characters),
           c2 \in Seq(Characters), t \in Seq(Characters) :
        /\ h1 = trim(h) /\ h2 = h /\ c1 = trim(c) /\ c2 = c /\ t = CloseThink
        /\ Len(h1) <= Len(h2) /\ Len(c1) <= Len(c2) /\ Len(t) <= Len(t)
  <2>1. CloseThink \in Seq(Characters) /\ Len(CloseThink) <= Len(CloseThink)
    BY TagShape, LenProperties DEF Tags, AllTexts
  <2>2. /\ h \in Seq(Characters) /\ trim(h) \in Seq(Characters) /\ Len(trim(h)) <= Len(h)
        /\ c \in Seq(Characters) /\ trim(c) \in Seq(Characters) /\ Len(trim(c)) <= Len(c)
    BY TrimIs DEF AllTexts
  <2> QED
    BY <2>1, <2>2
<1>10. \A p, q, x, y \in Seq(Characters) : Len(p) <= Len(x) /\ Len(q) <= Len(y) =>
        /\ Glue(p, q) \in Seq(Characters) /\ Glue(x, y) \in Seq(Characters)
        /\ Len(Glue(p, q)) <= Len(Glue(x, y)) /\ (Glue(p, q) = Glue(x, y) => p = x /\ q = y)
  BY PartsGlue
<1> DEFINE d1 == Glue(c1, u)
           d2 == Glue(c2, v)
           e1 == Glue(t, d1)
           e2 == Glue(t, d2)
           g1 == Glue(h1, e1)
           g2 == Glue(h2, e2)
<1>4. /\ d1 \in Seq(Characters) /\ d2 \in Seq(Characters)
      /\ Len(d1) <= Len(d2) /\ (d1 = d2 => c1 = c2 /\ u = v)
  BY <1>2, <1>3, <1>10
<1>5. /\ e1 \in Seq(Characters) /\ e2 \in Seq(Characters)
      /\ Len(e1) <= Len(e2) /\ (e1 = e2 => d1 = d2)
  <2> HIDE DEF d1, d2
  <2> QED
    BY <1>3, <1>4, <1>10
<1>6. /\ g1 \in Seq(Characters) /\ g2 \in Seq(Characters)
      /\ Len(g1) <= Len(g2) /\ (g1 = g2 => h1 = h2 /\ e1 = e2)
  <2> HIDE DEF e1, e2
  <2> QED
    BY <1>3, <1>5, <1>10
<1>7. r = g1 /\ f = g2
  BY <1>2, <1>3 DEF Refields, Fields, fs, Glue
<1>11. trim(h) = h /\ trim(c) = c /\ fs = cs => r = f
  BY DEF Refields, Fields, fs
<1> HIDE DEF d1, d2, e1, e2, g1, g2, r, f
<1>8. r = f => trim(h) = h /\ trim(c) = c /\ fs = cs
  BY <1>2, <1>3, <1>4, <1>5, <1>6, <1>7
<1>9. /\ r \in AllTexts /\ f \in AllTexts /\ Len(r) <= Len(f)
      /\ (r = f <=> trim(h) = h /\ trim(c) = c /\ fs = cs)
  BY <1>6, <1>7, <1>8, <1>11 DEF AllTexts
<1> QED
  BY <1>9 DEF r, f, fs

\* What the template makes of the fields of an answer, the reasoning kept or
\* none.
AsTurn(x) == (OpenTurn("assistant") \o OpenThink \o x) \o CloseTurn

LEMMA FieldsRendered ==
  ASSUME NEW ms \in Seq(Messages), NEW i \in 1..Len(ms),
         NEW th \in AllTexts, NEW ct \in AllTexts, NEW cs \in Seq(AllTexts),
         NEW ra, ra = (IF th = <<>> THEN Absent ELSE th), ms[i] = Assistant(ct, ra, cs),
         session.keep \/ th = <<>>, ~ Has(CloseThink, ct)
  PROVE  /\ Rendered(ms, i) = AsTurn(Refields(th, ct, cs))
         /\ Refields(th, ct, cs) \in AllTexts
<1> DEFINE m == ms[i]
           o == OpenTurn("assistant")
           h == trim(th)
           c == trim(ct)
           d == CallsText(Functions(cs))
<1>1. /\ m.role = "assistant" /\ m.content = ct /\ m.calls = cs
      /\ m.reasoning = IF th = <<>> THEN Absent ELSE th
  BY DEF Assistant
<1>2. th # Absent /\ <<>> # Absent
  <2>1. SUFFICES ASSUME <<"absent">> \in AllTexts PROVE FALSE
    BY EmptySeq DEF Absent, AllTexts
  <2>2. Len(<<"absent">>) = 1 /\ <<"absent">>[1] = "absent"
    OBVIOUS
  <2>3. "absent" \in Characters
    BY <2>1, <2>2, ElementOfSeq DEF AllTexts
  <2> QED
    BY <2>3 DEF Characters
<1>3. Content(m) = c /\ trim(KeptReasoning(ms, i)) = h
  <2>1. ~ Has(CloseThink, trim(m.content))
    <3>1. CloseThink \in Tags
      BY DEF Tags
    <3> QED
      BY <1>1, <3>1, NoTagTrimmed
  <2>2. Content(m) = c
    BY <1>1, <2>1 DEF Content
  <2>3. Reasoning(m) = th
    BY <1>1, <1>2, <2>1 DEF Reasoning
  <2>4. KeptReasoning(ms, i) = th
    BY <2>3 DEF KeptReasoning
  <2> QED
    BY <2>2, <2>4
<1>4. render_tool_calls(m) = d
  <2>1. DOMAIN Functions(cs) = DOMAIN cs
    BY DEF Functions
  <2>2. \A k \in DOMAIN cs : Functions(cs)[k] = <<"f">> \o cs[k]
    BY DEF Functions
  <2>3. Blocks(Functions(cs)) = [k \in DOMAIN cs |-> OpenTool \o (<<"f">> \o cs[k]) \o CloseTool]
    BY <2>1, <2>2 DEF Blocks, Written
  <2> QED
    BY <1>1, <2>3 DEF CallsText, render_tool_calls
<1>5. Rendered(ms, i) = o \o OpenThink \o h \o CloseThink \o c \o d \o CloseTurn
  BY <1>1, <1>3, <1>4 DEF Rendered, render_assistant_turn
<1>6. \A x \in AllTexts : x \in Seq(Words)
  <2>1. Characters \subseteq Words
    BY DEF Words
  <2> QED
    BY <2>1, SeqMonotonic DEF AllTexts
<1>13. /\ OpenThink \in AllTexts /\ CloseThink \in AllTexts
       /\ h \in AllTexts /\ c \in AllTexts /\ d \in AllTexts
  <2>1. d \in AllTexts
    BY FunctionsType, CallsTextIs
  <2>2. h \in AllTexts /\ c \in AllTexts
    BY TrimIs DEF AllTexts
  <2> QED
    BY <2>1, <2>2, TagShape DEF Tags
<1>7. PICK p \in Seq(Words), q \in Seq(Words), r \in Seq(Words), s \in Seq(Words), t \in Seq(Words), u \in Seq(Words) :
         p = o /\ q = OpenThink /\ r = h /\ s = CloseThink /\ t = c /\ u = d
  <2>1. o \in Seq(Words)
    BY DEF OpenTurn, Words, Roles
  <2> HIDE DEF o, h, c, d
  <2> QED
    BY <1>6, <1>13, <2>1
<1>8. \A x, y \in Seq(Words) :
        Glue(x, y) \in Seq(Words) /\ \A z \in Seq(Words) : Glue(Glue(x, y), z) = Glue(x, Glue(y, z))
  BY Glues
<1>14. Refields(th, ct, cs) = Glue(h, Glue(CloseThink, Glue(c, d)))
  BY DEF Refields, Glue
<1> HIDE DEF o, h, c, d
<1>9. Refields(th, ct, cs) = Glue(r, Glue(s, Glue(t, u)))
  BY <1>7, <1>14
<1>10. Rendered(ms, i) = Glue(Glue(Glue(Glue(Glue(Glue(p, q), r), s), t), u), CloseTurn)
  BY <1>5, <1>7 DEF Glue
<1>11. Glue(Glue(Glue(Glue(Glue(p, q), r), s), t), u)
         = Glue(Glue(p, q), Glue(r, Glue(s, Glue(t, u))))
  <2>1. Glue(p, q) \in Seq(Words) /\ Glue(t, u) \in Seq(Words)
    BY <1>8
  <2>2. Glue(Glue(p, q), r) \in Seq(Words) /\ Glue(s, Glue(t, u)) \in Seq(Words)
    BY <1>8, <2>1
  <2>3. Glue(Glue(Glue(p, q), r), s) \in Seq(Words)
    BY <1>8, <2>2
  <2> QED
    BY <1>8, <2>1, <2>2, <2>3
<1>12. Rendered(ms, i) = Glue(Glue(Glue(p, q), Refields(th, ct, cs)), CloseTurn)
  BY <1>9, <1>10, <1>11
<1>15. Refields(th, ct, cs) \in AllTexts
  <2>1. \A x, y \in AllTexts : Glue(x, y) \in AllTexts
    BY Glues DEF AllTexts
  <2> QED
    BY <1>13, <1>14, <2>1
<1> QED
  BY <1>7, <1>12, <1>15 DEF Glue, AsTurn, o

\* Every call of an answer the scanner read without an error parses, and the
\* content of an answer of the shape asked for holds no close tag.
LEMMA FoldingParses ==
  ASSUME NEW w \in Seq(AllEvents), ~ Spoiled(w)
  PROVE  \A k \in 1..Len(FoldOf(w, "Call")) : Parses(FoldOf(w, "Call")[k])
<1> DEFINE f == Folding(w, "Call")
           V == {b \in AllTexts : Parses(b)}
           T == {k \in 0..Len(w) : f[k] \in Seq(V)}
<1>1. Len(w) \in Nat /\ \A k \in 1..Len(w) : w[k] \in AllEvents
  BY LenProperties, ElementOfSeq
<1>2. /\ f[0] = <<>>
      /\ \A k \in 1..Len(w) :
           f[k] = IF w[k][1] = "Call" THEN Append(f[k - 1], w[k][2]) ELSE f[k - 1]
  BY <1>1, FoldSteps
<1>3. ASSUME NEW k \in 1..Len(w), w[k][1] = "Call" PROVE w[k][2] \in V
  <2>1. w[k] \in AllEvents
    BY <1>1
  <2>2. w[k] \notin Modes \X Characters
    BY <1>3 DEF Modes
  <2>3. w[k] # Started
    BY <1>3 DEF Started
  <2>4. PICK b \in AllTexts : w[k] = Call(b)
    BY <2>1, <2>2, <2>3 DEF AllEvents
  <2>5. Parses(b)
    <3>1. Call(b) \notin Unparsed
      BY <2>4 DEF Spoiled
    <3> QED
      BY <3>1 DEF Unparsed
  <2>6. w[k][2] = b
    BY <2>4 DEF Call
  <2> QED
    BY <2>5, <2>6
<1> HIDE DEF f, V
<1>4. 0 \in T
  <2>1. f[0] \in Seq(V) /\ 0 \in 0..Len(w)
    BY <1>1, <1>2, EmptySeq
  <2> QED
    BY <2>1
<1>5. ASSUME NEW k \in 1..Len(w), k - 1 \in T PROVE k \in T
  <2>1. f[k - 1] \in Seq(V) /\ k \in 0..Len(w)
    BY <1>1, <1>5
  <2>2. CASE w[k][1] = "Call"
    <3>1. Append(f[k - 1], w[k][2]) \in Seq(V)
      BY <1>3, <2>1, <2>2, AppendProperties
    <3> QED
      BY <1>2, <2>1, <2>2, <3>1
  <2>3. CASE w[k][1] # "Call"
    BY <1>2, <2>1, <2>3
  <2> QED
    BY <2>2, <2>3
<1> HIDE DEF T
<1>6. Len(w) \in T
  <2>1. \A k \in 0..Len(w) : k \in T
    BY <1>1, <1>4, <1>5, Climbs
  <2> QED
    BY <1>1, <2>1
<1>7. f[Len(w)] \in Seq(V)
  BY <1>6 DEF T
<1>8. FoldOf(w, "Call") \in Seq(V)
  BY <1>7 DEF FoldOf, f
<1>9. \A k \in 1..Len(FoldOf(w, "Call")) : FoldOf(w, "Call")[k] \in V
  BY <1>8, ElementOfSeq
<1> QED
  BY <1>9 DEF V

LEMMA ShapedFields ==
  ASSUME ScannerInv, ended, Shaped
  PROVE  /\ ~ Has(CloseThink, Accumulated.content)
         /\ \A k \in 1..Len(Accumulated.calls) : Parses(Accumulated.calls[k])
<1>1. text \in AllTexts /\ OpenTool \in Tags /\ CloseThink \in Tags /\ out \in Seq(AllEvents)
  BY DEF ScannerInv, ScannerTypes, Tags
<1>2. /\ ~ Has(OpenThink, text) /\ (primed <=> Has(CloseThink, text)) /\ Parsed(text) # Malformed
  BY DEF Shaped
<1>3. Accumulated = Parsed(text) /\ out = Events(text, FirstMode)
  BY <1>2, AgreesIfSound
<1>4. ~ Spoiled(out)
  <2>1. FirstMode = IF Has(CloseThink, text) THEN "Thinking" ELSE "Text"
    BY <1>2 DEF FirstMode
  <2> QED
    BY <1>1, <1>2, <1>3, <2>1, ParsedIs
<1>5. Accumulated.calls = FoldOf(out, "Call")
  BY FoldedIs DEF Accumulated
<1>6. \A k \in 1..Len(Accumulated.calls) : Parses(Accumulated.calls[k])
  BY <1>1, <1>4, <1>5, FoldingParses
<1> DEFINE rest == IF primed /\ Has(CloseThink, text) THEN After(CloseThink, text) ELSE text
<1>7. rest \in AllTexts
  BY <1>1, AroundTag
<1>8. /\ ~ Has(CloseThink, rest)
      /\ Accumulated.content = IF Has(OpenTool, rest) THEN Before(OpenTool, rest) ELSE rest
  BY <1>3 DEF Shaped
<1> HIDE DEF rest
<1>9. ~ Has(CloseThink, Accumulated.content)
  <2>1. CASE ~ Has(OpenTool, rest)
    BY <1>8, <2>1
  <2>2. CASE Has(OpenTool, rest)
    <3>1. Find(OpenTool, rest) - 1 \in 0..Len(rest)
      BY <1>1, <1>7, <2>2, AroundTag
    <3>2. ~ Has(CloseThink, SubSeq(rest, 1, Find(OpenTool, rest) - 1))
      BY <1>1, <1>7, <1>8, <3>1, NoTagInFront
    <3> QED
      BY <1>8, <2>2, <3>2 DEF Before
  <2> QED
    BY <2>1, <2>2
<1> QED
  BY <1>6, <1>9

(***************************************************************************)
(* Whose answer is behind the first prompt: when the client does not start *)
(* a batch with an answer of its own, one that stands there was told to    *)
(* its end.                                                                *)
(***************************************************************************)
AnswersAreTold == \A batch \in Added : batch # <<>> => batch[1].role # "assistant"

Told(p) ==
  /\ Len(prompts) = 1 /\ reply = "awaited" => Len(messages) = p.count
  /\ Len(messages) > p.count /\ messages[p.count + 1].role = "assistant" => ended
ToldInv == prompts # <<>> => Told(prompts[1])

LEMMA PromptsAre ==
  ASSUME ConversationInv
  PROVE  /\ messages \in Seq(Messages) /\ Len(messages) \in Nat
         /\ \/ prompts = <<>>
            \/ \E p : prompts = <<p>> /\ p.count \in Nat
            \/ reply = "awaited" /\ \E p, q : prompts = <<p, q>> /\ p.count \in Nat
<1>1. messages \in Seq(Messages) /\ Len(messages) \in Nat
  BY LenProperties DEF ConversationInv
<1>2. ASSUME NEW fs \in Seq(Messages) PROVE render_with_boundary(fs).count \in Nat
  <2>1. render_with_boundary(fs).count = Len(fs)
    BY DEF render_with_boundary
  <2> QED
    BY <2>1, LenProperties
<1>3. CASE \E fs \in Seq(Messages) : prompts = <<render_with_boundary(fs)>>
  BY <1>1, <1>2, <1>3
<1>4. CASE /\ reply = "awaited"
           /\ \E fs, gs \in Seq(Messages) :
                prompts = <<render_with_boundary(fs), render_with_boundary(gs)>>
  BY <1>1, <1>2, <1>4
<1> QED
  BY <1>1, <1>3, <1>4 DEF ConversationInv

LEMMA ToldStays ==
  ASSUME AnswersAreTold, ConversationInv, ToldInv,
         [ConversationNext]_<<vars, conversation>>
  PROVE  ToldInv'
<1>1. messages \in Seq(Messages) /\ Len(messages) \in Nat
  BY PromptsAre
<1>2. \/ prompts = <<>> \/ \E p : prompts = <<p>> /\ p.count \in Nat
      \/ reply = "awaited" /\ \E p, q : prompts = <<p, q>> /\ p.count \in Nat
  BY PromptsAre
<1>3. CASE Request
  <2>1. /\ messages' = messages /\ ended' = ended /\ reply' = "awaited" /\ Len(prompts) < 2
        /\ prompts' = Append(prompts, render_with_boundary(messages))
    BY <1>3 DEF Request, MaxRequests, vars
  <2>2. CASE prompts = <<>>
    <3>1. prompts' = <<render_with_boundary(messages)>>
      BY <2>1, <2>2
    <3>2. render_with_boundary(messages).count = Len(messages)
      BY DEF render_with_boundary
    <3> DEFINE r == render_with_boundary(messages)
    <3> HIDE DEF r
    <3>3. prompts'[1].count = Len(messages)
      BY <3>1, <3>2 DEF r
    <3> QED
      BY <1>1, <2>1, <3>3 DEF ToldInv, Told
  <2>3. CASE \E p : prompts = <<p>> /\ p.count \in Nat
    <3>1. PICK p : prompts = <<p>>
      BY <2>3
    <3>2. PICK r : r = render_with_boundary(messages)
      OBVIOUS
    <3>3. prompts' = <<p, r>>
      <4>1. Append(<<p>>, r) = <<p, r>>
        BY AppendOne
      <4> QED
        BY <2>1, <3>1, <3>2, <4>1
    <3>4. prompts'[1] = prompts[1] /\ Len(prompts') = 2 /\ prompts # <<>>
      BY <3>1, <3>3
    <3> QED
      BY <2>1, <3>4 DEF ToldInv, Told
  <2>4. CASE \E p, q : prompts = <<p, q>>
    BY <2>1, <2>4
  <2> QED
    BY <1>2, <2>2, <2>3, <2>4
<1>4. CASE FeedAnswer
  BY <1>4 DEF FeedAnswer, Feed, conversation, ToldInv, Told
<1>5. CASE FinishAnswer
  <2>1. ended' /\ messages' = messages /\ prompts' = prompts /\ reply' = reply
    BY <1>5 DEF FinishAnswer, Finish, conversation
  <2> QED
    BY <2>1 DEF ToldInv, Told
<1>6. CASE KeepAnswer
  <2>1. ended' /\ prompts' = prompts /\ reply' # "awaited"
    BY <1>6 DEF KeepAnswer, vars
  <2> QED
    BY <2>1 DEF ToldInv, Told
<1>7. CASE HangUp
  <2>1. /\ messages' = messages /\ prompts' = prompts /\ reply' = "lost"
        /\ Len(prompts) = 1 /\ reply = "awaited"
    BY <1>7 DEF HangUp, Answer
  <2>2. Len(messages) = prompts[1].count
    BY <2>1 DEF ToldInv, Told
  <2> QED
    BY <1>1, <2>1, <2>2 DEF ToldInv, Told
<1>8. CASE ClientAdds
  <2>1. /\ prompts' = prompts /\ reply' = reply /\ ended' = ended
        /\ reply \notin {"none", "awaited"}
        /\ Len(messages) = prompts[1].count + (IF reply = "lost" THEN 0 ELSE 1)
    BY <1>8 DEF ClientAdds, vars
  <2>2. PICK batch \in Added : messages' = messages \o batch
    BY <1>8 DEF ClientAdds
  <2>3. batch \in Seq(Messages) /\ (batch # <<>> => batch[1].role # "assistant")
    BY AddedAssumption DEF AnswersAreTold
  <2> DEFINE n == prompts[1].count
  <2>4. SUFFICES ASSUME prompts # <<>>, Len(messages') > n, messages'[n + 1].role = "assistant"
                 PROVE  ended
    BY <2>1 DEF ToldInv, Told
  <2>5. n \in Nat
    BY <1>2, <2>1, <2>4
  <2>6. /\ Len(messages') = Len(messages) + Len(batch) /\ Len(batch) \in Nat
        /\ \A i \in 1..(Len(messages) + Len(batch)) :
             messages'[i] = IF i <= Len(messages) THEN messages[i] ELSE batch[i - Len(messages)]
    BY <1>1, <2>2, <2>3, ConcatProperties, LenProperties
  <2> HIDE DEF n
  <2>7. CASE reply = "lost"
    <3>1. Len(messages) = n
      BY <2>1, <2>5, <2>7 DEF n
    <3>2. n + 1 \in 1..(Len(messages) + Len(batch)) /\ ~ (n + 1 <= Len(messages)) /\ (n + 1) - n = 1
      BY <2>4, <2>5, <2>6, <3>1
    <3>3. messages'[n + 1] = batch[1]
      BY <2>6, <3>1, <3>2
    <3>4. batch # <<>>
      BY <2>4, <2>6, <3>1
    <3> QED
      BY <2>3, <2>4, <3>3, <3>4
  <2>8. CASE reply # "lost"
    <3>1. Len(messages) = n + 1
      BY <2>1, <2>8 DEF n
    <3>2. n + 1 \in 1..(Len(messages) + Len(batch)) /\ n + 1 <= Len(messages)
      BY <2>5, <2>6, <3>1
    <3>3. messages'[n + 1] = messages[n + 1]
      BY <2>6, <3>2
    <3>4. Len(messages) > n
      BY <2>5, <3>1
    <3> QED
      BY <2>4, <3>3, <3>4 DEF ToldInv, Told, n
  <2> QED
    BY <2>7, <2>8
<1>9. CASE UNCHANGED <<vars, conversation>>
  BY <1>9 DEF vars, conversation, ToldInv, Told
<1> QED
  BY <1>3, <1>4, <1>5, <1>6, <1>7, <1>8, <1>9 DEF ConversationNext

LEMMA ToldInvHolds ==
  ASSUME AnswersAreTold
  PROVE  ConversationSpec => []ToldInv
<1>1. ConversationInit => ToldInv
  BY DEF ConversationInit, ToldInv
<1>2. ConversationInv /\ ToldInv /\ [ConversationNext]_<<vars, conversation>> => ToldInv'
  BY ToldStays
<1>3. ConversationSpec => []ConversationInv
  BY ConversationInvHolds
<1> QED
  BY <1>1, <1>2, <1>3, PTL DEF ConversationSpec

\* What stands where in a text put together.
LEMMA GlueIs ==
  ASSUME NEW S
  PROVE  \A p, q \in Seq(S) :
           /\ Glue(p, q) \in Seq(S) /\ Len(Glue(p, q)) = Len(p) + Len(q)
           /\ \A i \in 1..(Len(p) + Len(q)) :
                Glue(p, q)[i] = IF i <= Len(p) THEN p[i] ELSE q[i - Len(p)]
BY ConcatProperties DEF Glue

\* A text and a sentinel behind the same front as another, longer text: the
\* sentinel is where it is only if the texts are the same.
LEMMA PrefixMeets ==
  ASSUME NEW p \in Seq(Words), NEW r \in AllTexts, NEW f \in AllTexts, Len(r) <= Len(f),
         NEW e \in Seq(Words), Len(e) = 1, e[1] = "<|im_end|>", NEW q \in Seq(Words),
         r \in Seq(Words), f \in Seq(Words), Begins(Glue(Glue(p, r), e), q)
  PROVE  IsPrefix(Glue(Glue(p, f), e), q) <=> r = f
<1>10. \A a, b \in Seq(Words) :
          /\ Glue(a, b) \in Seq(Words) /\ Len(Glue(a, b)) = Len(a) + Len(b)
          /\ \A i \in 1..(Len(a) + Len(b)) :
               Glue(a, b)[i] = IF i <= Len(a) THEN a[i] ELSE b[i - Len(a)]
  BY GlueIs
<1> DEFINE u == Glue(p, r)
           v == Glue(p, f)
           x == Glue(u, e)
           w == Glue(v, e)
<1>1. /\ Len(p) \in Nat /\ Len(r) \in Nat /\ Len(f) \in Nat /\ Len(q) \in Nat /\ Len(e) = 1
      /\ e[1] = "<|im_end|>"
  BY LenProperties
<1>2. /\ u \in Seq(Words) /\ Len(u) = Len(p) + Len(r)
      /\ \A i \in 1..(Len(p) + Len(r)) : u[i] = IF i <= Len(p) THEN p[i] ELSE r[i - Len(p)]
  BY <1>10
<1>3. /\ v \in Seq(Words) /\ Len(v) = Len(p) + Len(f)
      /\ \A i \in 1..(Len(p) + Len(f)) : v[i] = IF i <= Len(p) THEN p[i] ELSE f[i - Len(p)]
  BY <1>10
<1> HIDE DEF u, v
<1>4. /\ x \in Seq(Words) /\ Len(x) = Len(p) + Len(r) + 1
      /\ \A i \in 1..(Len(p) + Len(r)) : x[i] = u[i]
      /\ x[Len(p) + Len(r) + 1] = "<|im_end|>"
  <2>1. /\ x \in Seq(Words) /\ Len(x) = Len(u) + Len(e)
        /\ \A i \in 1..(Len(u) + Len(e)) : x[i] = IF i <= Len(u) THEN u[i] ELSE e[i - Len(u)]
    BY <1>2, <1>10
  <2> HIDE DEF x
  <2>2. \A i \in 1..Len(u) : x[i] = u[i]
    BY <1>1, <1>2, <2>1
  <2>3. Len(u) + 1 \in 1..(Len(u) + Len(e)) /\ ~ (Len(u) + 1 <= Len(u)) /\ (Len(u) + 1) - Len(u) = 1
    BY <1>1, <1>2
  <2>4. x[Len(u) + 1] = e[1]
    BY <2>1, <2>3
  <2> QED
    BY <1>1, <1>2, <2>1, <2>2, <2>4
<1>5. w \in Seq(Words) /\ Len(w) = Len(p) + Len(f) + 1 /\ \A i \in 1..(Len(p) + Len(f)) : w[i] = v[i]
  <2>1. /\ w \in Seq(Words) /\ Len(w) = Len(v) + Len(e)
        /\ \A i \in 1..(Len(v) + Len(e)) : w[i] = IF i <= Len(v) THEN v[i] ELSE e[i - Len(v)]
    BY <1>3, <1>10
  <2> HIDE DEF w
  <2>2. \A i \in 1..Len(v) : w[i] = v[i]
    BY <1>1, <1>3, <2>1
  <2> QED
    BY <1>1, <1>3, <2>1, <2>2
<1>9. Begins(x, q)
  BY DEF u, x
<1> HIDE DEF x, w
<1>6. Len(x) <= Len(q) /\ \A i \in 1..Len(x) : q[i] = x[i]
  BY <1>9 DEF Begins
<1>7. ASSUME r = f PROVE IsPrefix(w, q)
  <2>1. w = x
    BY <1>7 DEF w, x, u, v
  <2>2. Begins(w, q) /\ Begins(w, w)
    BY <1>4, <1>6, <2>1, LenProperties DEF Begins
  <2>3. IsPrefix(SubSeq(w, 1, Len(w)), q)
    <3>1. Len(w) \in Int /\ Len(w) <= Len(w)
      BY <1>1, <1>5
    <3> QED
      BY <1>5, <2>2, <3>1, FrontIsPrefix
  <2>4. SubSeq(w, 1, Len(w)) = w
    BY <1>5, SubSeqFull
  <2> QED
    BY <2>3, <2>4
<1>8. ASSUME IsPrefix(w, q) PROVE r = f
  <2>1. Len(w) <= Len(q) /\ SubSeq(w, 1, Len(w)) = SubSeq(q, 1, Len(w))
    BY <1>8 DEF IsPrefix
  <2>2. \A i \in 1..Len(w) : w[i] = q[i]
    <3>1. Len(w) \in 0..Len(w) /\ Len(w) \in 0..Len(q)
      BY <1>1, <1>5, <2>1
    <3>2. /\ \A i \in 1..Len(w) : SubSeq(w, 1, Len(w))[i] = w[i]
          /\ \A i \in 1..Len(w) : SubSeq(q, 1, Len(w))[i] = q[i]
      BY <1>5, <3>1, FrontText
    <3> QED
      BY <2>1, <3>2
  <2>3. \A i \in 1..Len(f) : f[i] \in Characters
    BY ElementOfSeq DEF AllTexts
  <2>4. ~ (Len(r) < Len(f))
    <3>1. SUFFICES ASSUME Len(r) < Len(f) PROVE FALSE
      OBVIOUS
    <3> DEFINE j == Len(p) + Len(r) + 1
    <3>2. /\ j \in 1..Len(w) /\ j \in 1..Len(x) /\ j \in 1..(Len(p) + Len(f)) /\ ~ (j <= Len(p))
          /\ j - Len(p) = Len(r) + 1 /\ Len(r) + 1 \in 1..Len(f)
      BY <1>1, <1>4, <1>5, <3>1
    <3>3. x[j] = "<|im_end|>"
      BY <1>4
    <3> HIDE DEF j
    <3>4. q[j] = "<|im_end|>"
      BY <1>6, <3>2, <3>3
    <3>5. w[j] = f[Len(r) + 1]
      BY <1>3, <1>5, <3>2
    <3>6. "<|im_end|>" \in Characters
      BY <2>2, <2>3, <3>2, <3>4, <3>5
    <3> QED
      BY <3>6 DEF Characters
  <2>5. Len(r) = Len(f)
    BY <1>1, <2>4
  <2>6. \A i \in 1..Len(r) : r[i] = f[i]
    <3>1. ASSUME NEW i \in 1..Len(r) PROVE r[i] = f[i]
      <4> DEFINE j == Len(p) + i
      <4>1. /\ j \in 1..Len(w) /\ j \in 1..Len(x) /\ j \in 1..(Len(p) + Len(f))
            /\ j \in 1..(Len(p) + Len(r)) /\ ~ (j <= Len(p)) /\ j - Len(p) = i
        BY <1>1, <1>4, <1>5, <2>5
      <4> HIDE DEF j
      <4>2. x[j] = r[i] /\ w[j] = f[i]
        BY <1>2, <1>3, <1>4, <1>5, <4>1
      <4> QED
        BY <1>6, <2>2, <4>1, <4>2
    <3> QED
      BY <3>1
  <2> QED
    BY <2>5, <2>6, SeqEqual DEF AllTexts
<1> QED
  BY <1>7, <1>8 DEF w, v

\* The calls of an answer are laid out as the template lays them out when each
\* is its function tag and what it parses to.
LEMMA LaidOut ==
  ASSUME out \in Seq(AllEvents)
  PROVE  AsTemplateWrites <=> /\ trim(Accumulated.thinking) = Accumulated.thinking
                              /\ trim(Accumulated.content) = Accumulated.content
                              /\ Functions(tool_calls) = Accumulated.calls
<1> DEFINE T == AllTexts
           cs == Accumulated.calls
           fs == Functions(tool_calls)
<1>1. cs \in Seq(T) /\ tool_calls \in Seq(T) /\ Len(tool_calls) = Len(cs)
  BY AccumulatedType, ToolCallsAre
<1>2. fs \in Seq(T) /\ Len(fs) = Len(cs) /\ \A k \in 1..Len(cs) : fs[k] = <<"f">> \o tool_calls[k]
  BY <1>1, FunctionsType
<1> HIDE DEF T, fs
<1>3. (\A k \in 1..Len(cs) : cs[k] = <<"f">> \o tool_calls[k]) <=> fs = cs
  <2>1. ASSUME \A k \in 1..Len(cs) : cs[k] = <<"f">> \o tool_calls[k] PROVE fs = cs
    <3>1. \A k \in 1..Len(fs) : fs[k] = cs[k]
      BY <1>2, <2>1
    <3> HIDE DEF cs
    <3> QED
      BY <1>1, <1>2, <3>1, SeqEqual
  <2>2. ASSUME fs = cs PROVE \A k \in 1..Len(cs) : cs[k] = <<"f">> \o tool_calls[k]
    BY <1>2, <2>2
  <2> QED
    BY <2>1, <2>2
<1> QED
  BY <1>3 DEF AsTemplateWrites, fs

LEMMA AnswerRerenders ==
  ASSUME ScannerInv, ended, Shaped, session.keep \/ Accumulated.thinking = <<>>,
         NEW fs \in Seq(Messages), NEW gs \in Seq(Messages), fs # <<>>, Begins(fs, gs),
         Len(gs) > Len(fs), gs[Len(fs) + 1] = ReplyMessage("fields")
  PROVE  IsPrefix(render_with_boundary(fs).text \o text \o <<"<|im_end|>">>,
                  render_with_boundary(gs).text) <=> AsTemplateWrites
<1> DEFINE n == Len(fs)
           hs == SubSeq(gs, 1, n + 1)
           h == History(fs)
           o == OpenTurn("assistant")
           th == Accumulated.thinking
           ct == Accumulated.content
           cs == Accumulated.calls
           ra == IF th = <<>> THEN Absent ELSE th
           ds == tool_calls
           x == Lead \o text
           z == Refields(th, ct, ds)
           e == <<"<|im_end|>">>
           l == <<"nl">>
           q == render_with_boundary(gs).text
<1>1. /\ n \in Nat \ {0} /\ Len(gs) \in Nat /\ n + 1 \in 1..Len(gs) /\ n + 1 \in 0..Len(gs)
      /\ \A i \in 1..n : gs[i] = fs[i]
  BY EmptySeq, LenProperties DEF Begins
<1>2. /\ hs \in Seq(Messages) /\ Len(hs) = n + 1 /\ \A i \in 1..(n + 1) : hs[i] = gs[i]
  BY <1>1, FrontText
<1>3. /\ x = Fields(th, ct, cs) /\ Lead \in AllTexts /\ text \in AllTexts
      /\ ct \in AllTexts /\ th \in AllTexts /\ cs \in Seq(AllTexts)
  BY ShapedText
<1>4. gs[n + 1] = Assistant(ct, ra, ds) /\ gs[n + 1].role = "assistant"
  BY DEF ReplyMessage, Assistant, reasoning_content
<1>23. /\ out \in Seq(AllEvents) /\ ds \in Seq(AllTexts) /\ Len(ds) = Len(cs)
       /\ \A k \in 1..Len(cs) : Len(ds[k]) < Len(cs[k])
  <2>1. out \in Seq(AllEvents)
    BY DEF ScannerInv, ScannerTypes
  <2>2. /\ ds \in Seq(AllTexts) /\ Len(ds) = Len(cs)
        /\ \A k \in 1..Len(cs) : ds[k] = parse_one_tool_call_block(cs[k])
    BY <2>1, ToolCallsAre
  <2>3. \A k \in 1..Len(cs) : Parses(cs[k]) /\ cs[k] \in AllTexts
    BY <1>3, ShapedFields, FunctionsType
  <2> QED
    BY <2>1, <2>2, <2>3, ParsedCall
<1>24. ~ Has(CloseThink, ct)
  BY ShapedFields
<1>25. AsTemplateWrites <=> trim(th) = th /\ trim(ct) = ct /\ Functions(ds) = cs
  BY <1>23, LaidOut
<1>26. session.keep \/ th = <<>>
  OBVIOUS
<1> HIDE DEF hs, th, ct, cs, ds
<1>27. z \in AllTexts /\ x \in AllTexts /\ Len(z) <= Len(x) /\ (z = x <=> AsTemplateWrites)
  <2> HIDE DEF x, z
  <2>1. z = Refields(th, ct, ds)
    BY DEF z
  <2>2. x = Fields(th, ct, cs) /\ th \in AllTexts /\ ct \in AllTexts /\ cs \in Seq(AllTexts)
    BY <1>3
  <2>3. ds \in Seq(AllTexts) /\ Shorter(ds, cs)
    BY <1>23 DEF Shorter
  <2>4. /\ Refields(th, ct, ds) \in AllTexts /\ Fields(th, ct, cs) \in AllTexts
        /\ Len(Refields(th, ct, ds)) <= Len(Fields(th, ct, cs))
        /\ (Refields(th, ct, ds) = Fields(th, ct, cs)
            <=> trim(th) = th /\ trim(ct) = ct /\ Functions(ds) = cs)
    <3>1. PICK a \in AllTexts, b \in AllTexts, c \in Seq(AllTexts), d \in Seq(AllTexts) :
            a = th /\ b = ct /\ c = cs /\ d = ds
      BY <2>2, <2>3
    <3>2. Shorter(d, c)
      BY <2>3, <3>1
    <3>3. /\ Refields(a, b, d) \in AllTexts /\ Fields(a, b, c) \in AllTexts
          /\ Len(Refields(a, b, d)) <= Len(Fields(a, b, c))
          /\ (Refields(a, b, d) = Fields(a, b, c)
              <=> trim(a) = a /\ trim(b) = b /\ Functions(d) = c)
      BY <3>2, RefieldsMatch
    <3> QED
      BY <3>1, <3>3
  <2> QED
    BY <1>25, <2>1, <2>2, <2>4
<1>5. SubSeq(hs, 1, n) = fs
  <2>1. n \in 0..Len(hs)
    BY <1>1, <1>2
  <2>2. /\ SubSeq(hs, 1, n) \in Seq(Messages) /\ Len(SubSeq(hs, 1, n)) = n
        /\ \A i \in 1..n : SubSeq(hs, 1, n)[i] = hs[i]
    BY <1>2, <2>1, FrontText
  <2>3. \A i \in 1..n : i \in 1..(n + 1)
    BY <1>1
  <2> QED
    BY <1>1, <1>2, <2>2, <2>3, SeqEqual
<1>6. hs[n + 1] = gs[n + 1]
  BY <1>1, <1>2
<1>7. Rendered(hs, n + 1) = (o \o OpenThink \o z) \o CloseTurn
  <2>1. PICK i \in 1..Len(hs) : i = n + 1
    BY <1>1, <1>2
  <2>2. hs[i] = Assistant(ct, ra, ds)
    BY <1>4, <1>6, <2>1
  <2>3. ra = IF th = <<>> THEN Absent ELSE th
    OBVIOUS
  <2> HIDE DEF ra
  <2>4. Rendered(hs, i) = AsTurn(Refields(th, ct, ds))
    BY <1>2, <1>3, <1>23, <1>24, <1>26, <2>2, <2>3, FieldsRendered
  <2> QED
    BY <2>1, <2>4 DEF AsTurn
<1>8. History(hs) = h \o Rendered(hs, n + 1)
  <2>1. n \in 1..Len(hs) /\ ~ Joins(hs, n)
    BY <1>1, <1>2, <1>4, <1>6 DEF Joins
  <2> QED
    BY <1>2, <1>5, <2>1, NextTurn
<1>9. PICK r \in Seq(Words) : History(gs) = History(hs) \o r
  <2>1. ~ (n + 1 < Len(gs) /\ Joins(gs, n + 1))
    BY <1>4 DEF Joins
  <2> QED
    BY <1>1, <2>1, HistoryGrows DEF hs
<1>10. hs # <<>> /\ gs # <<>>
  BY <1>1, <1>2, EmptySeq
<1>11. /\ h \in Seq(Words) /\ History(hs) \in Seq(Words) /\ History(gs) \in Seq(Words)
       /\ q \in Seq(Words) /\ Begins(History(gs), q)
  BY <1>2, <1>10, HistoryType, PromptBegins
<1>12. Begins(History(hs), q)
  <2>1. Begins(History(hs), History(gs))
    BY <1>9, <1>11, ConcatBegins
  <2> QED
    BY <1>11, <2>1, BeginsOn
<1>13. render_with_boundary(fs).text = h \o o \o OpenThink \o Lead
  BY DEF render_with_boundary, Lead
<1>14. CloseTurn = e \o l
  BY DEF CloseTurn
<1>15. \A u \in AllTexts : u \in Seq(Words)
  <2>1. Characters \subseteq Words
    BY DEF Words
  <2> QED
    BY <2>1, SeqMonotonic DEF AllTexts
<1>16. PICK u1 \in Seq(Words), u2 \in Seq(Words), u3 \in Seq(Words), u4 \in Seq(Words),
            u5 \in Seq(Words), u6 \in Seq(Words), u7 \in Seq(Words), u8 \in Seq(Words) :
         /\ u1 = h /\ u2 = o /\ u3 = OpenThink /\ u4 = Lead /\ u5 = text /\ u6 = e /\ u7 = l
         /\ u8 = z
  <2>1. o \in Seq(Words) /\ e \in Seq(Words) /\ l \in Seq(Words)
    BY DEF OpenTurn, Words, Roles
  <2>2. OpenThink \in AllTexts
    BY TagShape DEF Tags
  <2> HIDE DEF o, e, l, z, h
  <2> QED
    BY <1>3, <1>11, <1>15, <1>27, <2>1, <2>2
<1> DEFINE p == Glue(Glue(u1, u2), u3)
           w == Glue(Glue(Glue(p, u4), u5), u6)
<1>17. render_with_boundary(fs).text \o text \o e = w
  BY <1>13, <1>16 DEF Glue
<1>18. History(hs) = Glue(u1, Glue(Glue(Glue(u2, u3), u8), Glue(u6, u7)))
  BY <1>7, <1>8, <1>14, <1>16 DEF Glue
<1>28. x = Glue(u4, u5)
  BY <1>16 DEF Glue
<1>19. /\ p \in Seq(Words) /\ w = Glue(Glue(p, Glue(u4, u5)), u6)
       /\ Glue(Glue(p, u8), u6) \in Seq(Words)
       /\ History(hs) = Glue(Glue(Glue(p, u8), u6), u7)
  <2>1. \A y, v \in Seq(Words) :
          Glue(y, v) \in Seq(Words) /\ \A r1 \in Seq(Words) : Glue(Glue(y, v), r1) = Glue(y, Glue(v, r1))
    BY Glues
  <2>2. Glue(u1, u2) \in Seq(Words) /\ Glue(u2, u3) \in Seq(Words) /\ Glue(u6, u7) \in Seq(Words)
    BY <2>1
  <2>3. p \in Seq(Words) /\ Glue(Glue(u2, u3), u8) \in Seq(Words)
    BY <2>1, <2>2
  <2>4. p = Glue(u1, Glue(u2, u3))
    BY <2>1
  <2> HIDE DEF p
  <2>5. Glue(Glue(p, u4), u5) = Glue(p, Glue(u4, u5))
    BY <2>1, <2>3
  <2>6. Glue(p, u8) \in Seq(Words) /\ Glue(p, u8) = Glue(u1, Glue(Glue(u2, u3), u8))
    BY <2>1, <2>2, <2>3, <2>4
  <2>7. Glue(Glue(p, u8), u6) \in Seq(Words)
        /\ Glue(Glue(Glue(p, u8), u6), u7) = Glue(Glue(p, u8), Glue(u6, u7))
    <3>1. PICK y \in Seq(Words) : y = Glue(p, u8)
      BY <2>6
    <3>2. Glue(y, u6) \in Seq(Words) /\ Glue(Glue(y, u6), u7) = Glue(y, Glue(u6, u7))
      BY <2>1
    <3> QED
      BY <3>1, <3>2
  <2>8. Glue(Glue(u1, Glue(Glue(u2, u3), u8)), Glue(u6, u7))
          = Glue(u1, Glue(Glue(Glue(u2, u3), u8), Glue(u6, u7)))
    BY <2>1, <2>2, <2>3
  <2> QED
    BY <1>18, <2>3, <2>5, <2>6, <2>7, <2>8
<1> HIDE DEF w, p
<1>20. Begins(Glue(Glue(p, u8), u6), q)
  <2>1. Begins(Glue(Glue(p, u8), u6), History(hs))
    BY <1>19, ConcatBegins DEF Glue
  <2> QED
    BY <1>11, <1>12, <1>19, <2>1, BeginsOn
<1>21. IsPrefix(w, q) <=> u8 = Glue(u4, u5)
  <2> DEFINE y == Glue(u4, u5)
  <2>1. y \in AllTexts /\ u8 \in AllTexts /\ Len(u8) <= Len(y)
    BY <1>16, <1>27, <1>28
  <2>2. y \in Seq(Words)
    BY <1>15, <2>1
  <2> HIDE DEF y, q
  <2>3. Len(u6) = 1 /\ u6[1] = "<|im_end|>" /\ q \in Seq(Words)
    BY <1>11, <1>16
  <2>4. IsPrefix(Glue(Glue(p, y), u6), q) <=> u8 = y
    BY <1>19, <1>20, <2>1, <2>2, <2>3, PrefixMeets
  <2> QED
    BY <1>19, <2>4 DEF y
<1>22. u8 = Glue(u4, u5) <=> AsTemplateWrites
  BY <1>16, <1>27, <1>28
<1> QED
  BY <1>17, <1>21, <1>22

(***************************************************************************)
(* The point saved behind an answer: whatever the history, the texts and   *)
(* the cut, when an answer had the shape the prompt asks for, came back as *)
(* it was told, and its reasoning is kept or it had none, the next prompt  *)
(* reproduces the last one and that answer if and only if the answer was   *)
(* laid out as the template lays it out: the white space the template      *)
(* trims and the JSON it spells anew are all that can lose the point.  A   *)
(* client that sends an answer it was never told is not bound by this.     *)
(***************************************************************************)
THEOREM AnswersRerender ==
  ASSUME AnswersAreTold
  PROVE  ConversationSpec => []EndOfTurnRerenders
<1>1. ScannerInv /\ ConversationInv /\ ToldInv => EndOfTurnRerenders
  <2>1. SUFFICES ASSUME ScannerInv, ConversationInv, ToldInv,
                        Len(prompts) = 2, Shaped, Len(messages) > prompts[1].count,
                        messages[prompts[1].count + 1] = ReplyMessage("fields"),
                        session.keep \/ Accumulated.thinking = <<>>
                 PROVE  IsPrefix(prompts[1].text \o text \o <<"<|im_end|>">>, prompts[2].text)
                          <=> AsTemplateWrites
    BY DEF EndOfTurnRerenders
  <2>2. PICK fs \in Seq(Messages), gs \in Seq(Messages) :
           /\ InFront(fs) /\ messages = gs
           /\ prompts = <<render_with_boundary(fs), render_with_boundary(gs)>>
    <3>1. Len(prompts) = 2
      BY <2>1
    <3>2. CASE prompts = <<>>
      BY <3>1, <3>2
    <3>3. CASE \E f : prompts = <<render_with_boundary(f)>>
      BY <3>1, <3>3
    <3> QED
      BY <2>1, <3>2, <3>3 DEF ConversationInv
  <2>3. PICK p, q : p = render_with_boundary(fs) /\ q = render_with_boundary(gs)
    OBVIOUS
  <2>4. prompts[1] = p /\ prompts[2] = q /\ prompts # <<>>
    BY <2>2, <2>3
  <2>5. p.count = Len(fs)
    BY <2>3 DEF render_with_boundary
  <2>6. fs # <<>> /\ Begins(fs, gs)
    BY <2>2 DEF InFront
  <2>7. Len(gs) > Len(fs) /\ gs[Len(fs) + 1] = ReplyMessage("fields")
    BY <2>1, <2>2, <2>4, <2>5
  <2>8. ended
    <3>1. ReplyMessage("fields").role = "assistant"
      BY DEF ReplyMessage, Assistant
    <3> QED
      BY <2>1, <2>4, <3>1 DEF ToldInv, Told
  <2>9. IsPrefix(render_with_boundary(fs).text \o text \o <<"<|im_end|>">>,
                 render_with_boundary(gs).text) <=> AsTemplateWrites
    BY <2>1, <2>6, <2>7, <2>8, AnswerRerenders
  <2> QED
    BY <2>3, <2>4, <2>9
<1>2. ConversationSpec => []ScannerInv
  BY ScannerInvHolds
<1>3. ConversationSpec => []ConversationInv
  BY ConversationInvHolds
<1>4. ConversationSpec => []ToldInv
  BY ToldInvHolds
<1> QED
  BY <1>1, <1>2, <1>3, <1>4, PTL
=============================================================================
