------------------------- MODULE FirmwareJsonProofs -------------------------
(***************************************************************************)
(* The report of Report/FirmwareJson.c, for every firmware: what           *)
(* BuildFirmwareJson writes reads back as what the firmware says           *)
(* (FirmwareJson), and its bounded writer delivers the whole of it or      *)
(* nothing (JsonWriter).                                                   *)
(*                                                                         *)
(* A text yields facts: over it a reader goes from one place in the        *)
(* grammar to another and learns those facts, whatever it knew before.     *)
(* Texts that yield compose, so each function of the source is shown to    *)
(* write a text that yields what the function is there to say, and the     *)
(* inductive invariant says that of the sections written so far.           *)
(***************************************************************************)
EXTENDS FirmwareJson, JsonWriter, NumberInduction, SequenceTheorems

-----------------------------------------------------------------------------
(* Texts, stacks and paths.                                                *)

\* A text: a sequence, of whatever.
IsText(s) == \E T : s \in Seq(T)

\* The length and the places of a text.
LEMMA TextLength ==
    ASSUME NEW s, IsText(s)
    PROVE  /\ Len(s) \in Nat
           /\ DOMAIN s = 1 .. Len(s)
           /\ s \in Seq(Range(s))
<1>1. PICK T : s \in Seq(T)
  BY DEF IsText
<1>2. Len(s) \in Nat /\ DOMAIN s = 1 .. Len(s)
  BY <1>1, LenProperties
<1>3. s \in Seq(Range(s))
  BY <1>1, SeqOfRange
<1>4. QED  BY <1>2, <1>3

\* A single token is a text.
LEMMA OneToken ==
    ASSUME NEW token
    PROVE  IsText(<<token>>) /\ Len(<<token>>) = 1 /\ <<token>>[1] = token
<1>1. <<token>> \in Seq({token})  OBVIOUS
<1>2. QED  BY <1>1 DEF IsText

\* The empty text.
LEMMA NoToken == IsText(<<>>) /\ Len(<<>>) = 0
<1>1. <<>> \in Seq({})  OBVIOUS
<1>2. QED  BY <1>1 DEF IsText

\* Two texts joined: the length, and what is at each place.
LEMMA Joined ==
    ASSUME NEW s, NEW t, IsText(s), IsText(t)
    PROVE  /\ IsText(s \o t)
           /\ Len(s \o t) = Len(s) + Len(t)
           /\ \A n \in 1 .. Len(s) : (s \o t)[n] = s[n]
           /\ \A n \in 1 .. Len(t) : (s \o t)[Len(s) + n] = t[n]
<1>1. PICK S : s \in Seq(S)
  BY DEF IsText
<1>2. PICK T : t \in Seq(T)
  BY DEF IsText
<1> DEFINE U == S \cup T
<1>3. s \in Seq(U) /\ t \in Seq(U)
  <2>1. S \subseteq U /\ T \subseteq U  OBVIOUS
  <2> HIDE DEF U
  <2>2. QED  BY <1>1, <1>2, <2>1, SeqMonotonic
<1> HIDE DEF U
<1>4. /\ s \o t \in Seq(U)
      /\ Len(s \o t) = Len(s) + Len(t)
      /\ \A i \in 1 .. Len(s) + Len(t) : (s \o t)[i] = IF i <= Len(s) THEN s[i] ELSE t[i - Len(s)]
  BY <1>3, ConcatProperties
<1>5. Len(s) \in Nat /\ Len(t) \in Nat
  BY <1>3, LenProperties
<1>6. IsText(s \o t)
  BY <1>4 DEF IsText
<1>7. ASSUME NEW n \in 1 .. Len(s) PROVE (s \o t)[n] = s[n]
  <2>1. n \in 1 .. Len(s) + Len(t) /\ n <= Len(s)  BY <1>5
  <2>2. QED  BY <1>4, <2>1
<1>8. ASSUME NEW n \in 1 .. Len(t) PROVE (s \o t)[Len(s) + n] = t[n]
  <2>1. /\ Len(s) + n \in 1 .. Len(s) + Len(t) /\ ~(Len(s) + n <= Len(s))
        /\ (Len(s) + n) - Len(s) = n
    BY <1>5
  <2>2. QED  BY <1>4, <2>1
<1>9. QED  BY <1>4, <1>6, <1>7, <1>8

\* Texts with the same tokens at the same places are the same.
LEMMA SameText ==
    ASSUME NEW s, NEW t, IsText(s), IsText(t), Len(s) = Len(t),
           \A n \in 1 .. Len(s) : s[n] = t[n]
    PROVE  s = t
<1>1. s \in Seq(Range(s)) /\ t \in Seq(Range(t))
  BY TextLength
<1> DEFINE U == Range(s) \cup Range(t)
<1>2. Range(s) \subseteq U /\ Range(t) \subseteq U
  OBVIOUS
<1> HIDE DEF U
<1>3. s \in Seq(U) /\ t \in Seq(U)
  BY <1>1, <1>2, SeqMonotonic
<1>4. QED  BY <1>3, SeqEqual

\* q is the stack, or the path, p with k on top.
Under(p, k, q) == IsText(p) /\ IsText(q) /\ q = Append(p, k) /\ Front(q) = p /\ Top(q) = k /\ q # <<>>

\* Appending puts on top.
LEMMA UnderAppend ==
    ASSUME NEW p, NEW k, IsText(p)
    PROVE  Under(p, k, Append(p, k))
<1> DEFINE T == Range(p) \cup {k}
           q == Append(p, k)
<1>1. p \in Seq(T) /\ k \in T
  <2>1. p \in Seq(Range(p)) /\ Range(p) \subseteq T /\ k \in T  BY TextLength
  <2> HIDE DEF T
  <2>2. QED  BY <2>1, SeqMonotonic
<1> HIDE DEF T
<1>2. /\ q \in Seq(T) /\ q # <<>> /\ Len(q) = Len(p) + 1
      /\ \A i \in 1 .. Len(p) : q[i] = p[i]
      /\ q[Len(p) + 1] = k
  BY <1>1, AppendProperties
<1>3. Len(p) \in Nat
  BY <1>1, LenProperties
<1> HIDE DEF q
<1>4. Top(q) = k
  BY <1>2, <1>3 DEF Top
<1>5. Front(q) = p
  <2>1. Len(q) - 1 = Len(p)
    BY <1>2, <1>3
  <2>2. \A i \in 1 .. Len(p) : q[i] \in T
    BY <1>1, <1>2, ElementOfSeq
  <2>3. /\ SubSeq(q, 1, Len(p)) \in Seq(T)
        /\ Len(SubSeq(q, 1, Len(p))) = IF 1 <= Len(p) THEN Len(p) - 1 + 1 ELSE 0
        /\ \A i \in 1 .. Len(p) - 1 + 1 : SubSeq(q, 1, Len(p))[i] = q[1 + i - 1]
    BY <1>3, <2>2, SubSeqProperties
  <2>4. Len(SubSeq(q, 1, Len(p))) = Len(p)
    BY <1>3, <2>3
  <2>5. \A i \in 1 .. Len(p) : SubSeq(q, 1, Len(p))[i] = p[i]
    <3> TAKE i \in 1 .. Len(p)
    <3>1. i \in 1 .. Len(p) - 1 + 1 /\ 1 + i - 1 = i  BY <1>3
    <3>2. QED  BY <1>2, <2>3, <3>1
  <2>6. SubSeq(q, 1, Len(p)) = p
    BY <1>1, <2>3, <2>4, <2>5, SeqEqual
  <2>7. QED  BY <2>1, <2>6 DEF Front
<1>6. IsText(q)
  BY <1>2 DEF IsText
<1>7. q = Append(p, k)
  BY DEF q
<1>8. QED  BY <1>2, <1>4, <1>5, <1>6, <1>7 DEF Under

\* The stacks and paths of the report, element by element.
LEMMA Tuples ==
    ASSUME NEW a, NEW b, NEW c, NEW d
    PROVE  /\ Append(<<>>, a) = <<a>>
           /\ Append(<<a>>, b) = <<a, b>>
           /\ Append(<<a, b>>, c) = <<a, b, c>>
           /\ Append(<<a, b, c>>, d) = <<a, b, c, d>>
<1> DEFINE T == {a, b, c, d}
<1>1. a \in T /\ b \in T /\ c \in T /\ d \in T
  OBVIOUS
<1> HIDE DEF T
<1>2. Append(<<>>, a) = <<a>>
  OBVIOUS
<1>3. Append(<<a>>, b) = <<a, b>>
  <2>1. <<a>> \in Seq(T) /\ Len(<<a>>) = 1 /\ <<a, b>> \in Seq(T) /\ Len(<<a, b>>) = 2
    BY <1>1
  <2>2. /\ Append(<<a>>, b) \in Seq(T) /\ Len(Append(<<a>>, b)) = 2
        /\ Append(<<a>>, b)[1] = <<a>>[1] /\ Append(<<a>>, b)[2] = b
    BY <1>1, <2>1, AppendProperties
  <2>3. <<a>>[1] = a /\ <<a, b>>[1] = a /\ <<a, b>>[2] = b
    OBVIOUS
  <2>4. \A i \in 1 .. 2 : Append(<<a>>, b)[i] = <<a, b>>[i]
    BY <2>2, <2>3
  <2>5. QED  BY <2>1, <2>2, <2>4, SeqEqual
<1>4. Append(<<a, b>>, c) = <<a, b, c>>
  <2>1. <<a, b>> \in Seq(T) /\ Len(<<a, b>>) = 2 /\ <<a, b, c>> \in Seq(T) /\ Len(<<a, b, c>>) = 3
    BY <1>1
  <2>2. /\ Append(<<a, b>>, c) \in Seq(T) /\ Len(Append(<<a, b>>, c)) = 3
        /\ Append(<<a, b>>, c)[1] = <<a, b>>[1] /\ Append(<<a, b>>, c)[2] = <<a, b>>[2]
        /\ Append(<<a, b>>, c)[3] = c
    BY <1>1, <2>1, AppendProperties
  <2>3. \A i \in 1 .. 3 : Append(<<a, b>>, c)[i] = <<a, b, c>>[i]
    BY <2>2
  <2>4. QED  BY <2>1, <2>2, <2>3, SeqEqual
<1>5. Append(<<a, b, c>>, d) = <<a, b, c, d>>
  <2>1. <<a, b, c>> \in Seq(T) /\ Len(<<a, b, c>>) = 3 /\ <<a, b, c, d>> \in Seq(T) /\ Len(<<a, b, c, d>>) = 4
    BY <1>1
  <2>2. /\ Append(<<a, b, c>>, d) \in Seq(T) /\ Len(Append(<<a, b, c>>, d)) = 4
        /\ Append(<<a, b, c>>, d)[1] = <<a, b, c>>[1] /\ Append(<<a, b, c>>, d)[2] = <<a, b, c>>[2]
        /\ Append(<<a, b, c>>, d)[3] = <<a, b, c>>[3] /\ Append(<<a, b, c>>, d)[4] = d
    BY <1>1, <2>1, AppendProperties
  <2>3. \A i \in 1 .. 4 : Append(<<a, b, c>>, d)[i] = <<a, b, c, d>>[i]
    BY <2>2
  <2>4. QED  BY <2>1, <2>2, <2>3, SeqEqual
<1>6. QED  BY <1>2, <1>3, <1>4, <1>5

\* Each of them is the one before it with its last element on top.
LEMMA Unders ==
    ASSUME NEW a, NEW b, NEW c, NEW d
    PROVE  /\ Under(<<>>, a, <<a>>)
           /\ Under(<<a>>, b, <<a, b>>)
           /\ Under(<<a, b>>, c, <<a, b, c>>)
           /\ Under(<<a, b, c>>, d, <<a, b, c, d>>)
<1>1. IsText(<<>>) /\ Append(<<>>, a) = <<a>>
  BY NoToken
<1>2. IsText(<<a>>) /\ Append(<<a>>, b) = <<a, b>>
  BY OneToken, Tuples
<1>3. Under(<<>>, a, <<a>>)
  BY <1>1, UnderAppend
<1>4. Under(<<a>>, b, <<a, b>>)
  BY <1>2, UnderAppend
<1>5. IsText(<<a, b>>) /\ Append(<<a, b>>, c) = <<a, b, c>>
  BY <1>4, Tuples DEF Under
<1>6. Under(<<a, b>>, c, <<a, b, c>>)
  BY <1>5, UnderAppend
<1>7. IsText(<<a, b, c>>) /\ Append(<<a, b, c>>, d) = <<a, b, c, d>>
  BY <1>6, Tuples DEF Under
<1>8. Under(<<a, b, c>>, d, <<a, b, c, d>>)
  BY <1>7, UnderAppend
<1>9. QED  BY <1>3, <1>4, <1>6, <1>8

\* A text of two tokens.
LEMMA Pair ==
    ASSUME NEW a, NEW b
    PROVE  /\ <<a, b>>[1] = a /\ <<a, b>>[2] = b
           /\ IsText(<<a, b>>) /\ Len(<<a, b>>) = 2
           /\ <<a, b>> = <<a>> \o <<b>>
<1>1. <<a, b>>[1] = a /\ <<a, b>>[2] = b
  OBVIOUS
<1>2. /\ <<a>> \in Seq({a, b}) /\ b \in {a, b}
      /\ <<a, b>> \in Seq({a, b}) /\ Len(<<a, b>>) = 2
  OBVIOUS
<1>3. Append(<<a>>, b) = <<a>> \o <<b>>
  BY <1>2, AppendIsConcat
<1>4. Append(<<a>>, b) = <<a, b>>
  BY Tuples
<1>5. IsText(<<a, b>>)
  BY <1>2 DEF IsText
<1>6. QED  BY <1>1, <1>2, <1>3, <1>4, <1>5

-----------------------------------------------------------------------------
(* The reader, step by step.                                               *)

\* The reader r is, token by token of s, taken to q.
Reads(r, s, q) ==
    \E f : /\ f[0] = r
           /\ \A n \in 1 .. Len(s) : f[n] = Read(f[n - 1], s[n])
           /\ f[Len(s)] = q

\* The empty text leaves the reader as it is.
LEMMA ReadNothing == ASSUME NEW r PROVE Reads(r, <<>>, r)
<1> DEFINE f == [n \in {0} |-> r]
<1>1. f[0] = r  OBVIOUS
<1> HIDE DEF f
<1>2. \A n \in 1 .. 0 : f[n] = Read(f[n - 1], (<<>>)[n])  OBVIOUS
<1>3. QED  BY <1>1, <1>2, NoToken DEF Reads

\* One token is one step of the reader.
LEMMA ReadOne == ASSUME NEW r, NEW token PROVE Reads(r, <<token>>, Read(r, token))
<1> DEFINE f == [n \in 0 .. 1 |-> IF n = 0 THEN r ELSE Read(r, token)]
<1>1. f[0] = r /\ f[1] = Read(r, token)  OBVIOUS
<1> HIDE DEF f
<1>2. ASSUME NEW n \in 1 .. 1 PROVE f[n] = Read(f[n - 1], <<token>>[n])
  <2>1. n = 1 /\ n - 1 = 0  OBVIOUS
  <2>2. QED  BY <1>1, <2>1, OneToken
<1>3. QED  BY <1>1, <1>2, OneToken DEF Reads

\* Reading one text and then another is reading the two joined.
LEMMA ReadOn ==
    ASSUME NEW a, NEW s, NEW b, NEW t, NEW c, IsText(s), IsText(t),
           Reads(a, s, b), Reads(b, t, c)
    PROVE  Reads(a, s \o t, c)
<1>1. PICK f : f[0] = a /\ (\A n \in 1 .. Len(s) : f[n] = Read(f[n - 1], s[n])) /\ f[Len(s)] = b
  BY DEF Reads
<1>2. PICK g : g[0] = b /\ (\A n \in 1 .. Len(t) : g[n] = Read(g[n - 1], t[n])) /\ g[Len(t)] = c
  BY DEF Reads
<1>3. Len(s) \in Nat /\ Len(t) \in Nat /\ Len(s \o t) = Len(s) + Len(t)
  BY TextLength, Joined
<1> DEFINE h == [n \in 0 .. Len(s) + Len(t) |-> IF n <= Len(s) THEN f[n] ELSE g[n - Len(s)]]
<1>4. \A n \in 0 .. Len(s) : h[n] = f[n]
  BY <1>3
<1>5. ASSUME NEW n \in 0 .. Len(t) PROVE h[Len(s) + n] = g[n]
  <2>1. CASE n = 0
    <3>1. h[Len(s)] = f[Len(s)]  BY <1>3, <1>4
    <3>2. QED  BY <1>1, <1>2, <1>3, <2>1, <3>1
  <2>2. CASE n # 0
    <3>1. Len(s) + n \in 0 .. Len(s) + Len(t) /\ ~(Len(s) + n <= Len(s)) /\ (Len(s) + n) - Len(s) = n
      BY <1>3, <2>2
    <3>2. QED  BY <3>1
  <2>3. QED  BY <2>1, <2>2
<1> HIDE DEF h
<1>6. h[0] = a /\ h[Len(s) + Len(t)] = c
  <2>1. 0 \in 0 .. Len(s) /\ Len(t) \in 0 .. Len(t)  BY <1>3
  <2>2. QED  BY <1>1, <1>2, <1>4, <1>5, <2>1
<1>7. ASSUME NEW n \in 1 .. Len(s) + Len(t) PROVE h[n] = Read(h[n - 1], (s \o t)[n])
  <2>1. CASE n <= Len(s)
    <3>1. n \in 1 .. Len(s) /\ n \in 0 .. Len(s) /\ n - 1 \in 0 .. Len(s)  BY <1>3, <2>1
    <3>2. h[n] = f[n] /\ h[n - 1] = f[n - 1]  BY <1>4, <3>1
    <3>3. (s \o t)[n] = s[n]  BY <3>1, Joined
    <3>4. f[n] = Read(f[n - 1], s[n])  BY <1>1, <3>1
    <3>5. QED  BY <3>2, <3>3, <3>4
  <2>2. CASE ~(n <= Len(s))
    <3> DEFINE m == n - Len(s)
    <3>1. m \in 1 .. Len(t) /\ m \in 0 .. Len(t) /\ m - 1 \in 0 .. Len(t)
          /\ n = Len(s) + m /\ n - 1 = Len(s) + (m - 1)
      BY <1>3, <2>2
    <3> HIDE DEF m
    <3>2. h[Len(s) + m] = g[m] /\ h[Len(s) + (m - 1)] = g[m - 1]  BY <1>5, <3>1
    <3>3. (s \o t)[Len(s) + m] = t[m]  BY <3>1, Joined
    <3>4. g[m] = Read(g[m - 1], t[m])  BY <1>2, <3>1
    <3>5. QED  BY <3>1, <3>2, <3>3, <3>4
  <2>3. QED  BY <2>1, <2>2
<1>8. QED  BY <1>3, <1>6, <1>7 DEF Reads

\* What a reader comes to is determined by the text.
LEMMA ReadsAlike ==
    ASSUME NEW r, NEW s, IsText(s), NEW p, NEW q, Reads(r, s, p), Reads(r, s, q)
    PROVE  p = q
<1>1. PICK f : f[0] = r /\ (\A n \in 1 .. Len(s) : f[n] = Read(f[n - 1], s[n])) /\ f[Len(s)] = p
  BY DEF Reads
<1>2. PICK g : g[0] = r /\ (\A n \in 1 .. Len(s) : g[n] = Read(g[n - 1], s[n])) /\ g[Len(s)] = q
  BY DEF Reads
<1>3. Len(s) \in Nat  BY TextLength
<1> DEFINE Same == {n \in Nat : n <= Len(s) => f[n] = g[n]}
<1>4. 0 \in Same  BY <1>1, <1>2
<1>5. ASSUME NEW n \in Nat, n \in Same PROVE n + 1 \in Same
  <2>1. SUFFICES ASSUME n + 1 <= Len(s) PROVE f[n + 1] = g[n + 1]
    OBVIOUS
  <2>2. n + 1 \in 1 .. Len(s) /\ (n + 1) - 1 = n /\ f[n] = g[n]
    BY <1>3, <1>5, <2>1
  <2>3. f[n + 1] = Read(f[(n + 1) - 1], s[n + 1]) /\ g[n + 1] = Read(g[(n + 1) - 1], s[n + 1])
    BY <1>1, <1>2, <2>2
  <2>4. QED  BY <2>2, <2>3
<1>6. Nat \subseteq Same
  <2> HIDE DEF Same
  <2>1. QED  BY <1>4, <1>5, Induction
<1>7. f[Len(s)] = g[Len(s)]  BY <1>3, <1>6
<1>8. QED  BY <1>1, <1>2, <1>7

\* The reader with its five fields.
Reader(at, o, p, c, F) == [at |-> at, open |-> o, path |-> p, scalar |-> c, facts |-> F]

\* A reader has these fields and no other.
IsReader(q) == q = Reader(q.at, q.open, q.path, q.scalar, q.facts)

\* Where a reader is after a value.
Where(o) == IF o = <<>> THEN "end" ELSE "behind"

\* The one fact that the value at the path p is value.
Fact(p, value) == {<<p, value>>}

\* A reader that is r, once a number it may be reading has ended, is p in the
\* same sense after s.
Goes(r, s, p) ==
    /\ IsText(s)
    /\ \A a : IsReader(a) /\ EndNumber(a) = r =>
          \E b : IsReader(b) /\ Reads(a, s, b) /\ EndNumber(b) = p

\* Over the empty text a reader goes nowhere.
LEMMA GoesNowhere == ASSUME NEW r PROVE Goes(r, <<>>, r)
BY ReadNothing, NoToken DEF Goes

\* From r over s to p, and from there over t to q.
LEMMA GoesOn ==
    ASSUME NEW r, NEW s, NEW p, NEW t, NEW q, Goes(r, s, p), Goes(p, t, q)
    PROVE  Goes(r, s \o t, q)
<1>1. IsText(s) /\ IsText(t) /\ IsText(s \o t)
  BY Joined DEF Goes
<1>2. ASSUME NEW a, IsReader(a), EndNumber(a) = r
      PROVE  \E c : IsReader(c) /\ Reads(a, s \o t, c) /\ EndNumber(c) = q
  <2>1. PICK b : IsReader(b) /\ Reads(a, s, b) /\ EndNumber(b) = p
    BY <1>2 DEF Goes
  <2>2. PICK c : IsReader(c) /\ Reads(b, t, c) /\ EndNumber(c) = q
    BY <2>1 DEF Goes
  <2>3. Reads(a, s \o t, c)
    BY <1>1, <2>1, <2>2, ReadOn
  <2>4. QED  BY <2>2, <2>3
<1>3. QED  BY <1>1, <1>2 DEF Goes

\* The operators of the reader on a record of its five fields.
LEMMA Fields ==
    ASSUME NEW at, NEW o, NEW p, NEW c, NEW F
    PROVE  /\ Reader(at, o, p, c, F).at = at
           /\ Reader(at, o, p, c, F).open = o
           /\ Reader(at, o, p, c, F).path = p
           /\ Reader(at, o, p, c, F).scalar = c
           /\ Reader(at, o, p, c, F).facts = F
           /\ IsReader(Reader(at, o, p, c, F))
<1>1. /\ Reader(at, o, p, c, F).at = at
      /\ Reader(at, o, p, c, F).open = o
      /\ Reader(at, o, p, c, F).path = p
      /\ Reader(at, o, p, c, F).scalar = c
      /\ Reader(at, o, p, c, F).facts = F
  BY DEF Reader
<1>2. QED  BY <1>1 DEF IsReader

\* Behind a value, as a record of the fields.
LEMMA Behinds ==
    ASSUME NEW at, NEW o, NEW p, NEW c, NEW F
    PROVE  Behind(Reader(at, o, p, c, F))
              = Reader(Where(o), o, p, <<>>, F)
<1> DEFINE r == Reader(at, o, p, c, F)
<1>1. PICK x : x = Where(o)
  OBVIOUS
<1>2. r.open = o
  BY DEF Reader
<1>3. [r EXCEPT !.at = x] = Reader(x, o, p, c, F)
  BY DEF Reader
<1>4. [Reader(x, o, p, c, F) EXCEPT !.scalar = <<>>] = Reader(x, o, p, <<>>, F)
  BY DEF Reader
<1> HIDE DEF r
<1>5. [r EXCEPT !.at = x, !.scalar = <<>>] = [[r EXCEPT !.at = x] EXCEPT !.scalar = <<>>]
  OBVIOUS
<1>6. Behind(r) = [r EXCEPT !.at = x, !.scalar = <<>>]
  BY <1>1, <1>2, Zenon DEF Behind, Where
<1>7. Behind(r) = Reader(x, o, p, <<>>, F)
  BY <1>3, <1>4, <1>5, <1>6, Zenon
<1>8. QED  BY <1>1, <1>7 DEF r

\* A value taken, as a record of the fields.
LEMMA Takes ==
    ASSUME NEW at, NEW o, NEW p, NEW c, NEW F, NEW value
    PROVE  Take(Reader(at, o, p, c, F), value)
              = Reader(Where(o), o, p, <<>>, F \cup Fact(p, value))
<1>1. [Reader(at, o, p, c, F) EXCEPT !.facts = @ \cup {<<Reader(at, o, p, c, F).path, value>>}]
         = Reader(at, o, p, c, F \cup Fact(p, value))
  BY DEF Reader, Fact
<1>2. QED  BY <1>1, Behinds DEF Take

\* Unless it is behind a value, the reader is where it stands.
LEMMA Stands ==
    ASSUME NEW a, IsReader(a), NEW r, EndNumber(a) = r
    PROVE  /\ r.at \notin {"behind", "end"} => a = r
           /\ IsReader(r)
           /\ r.at # "number"
<1>1. CASE a.at # "number"
  BY <1>1 DEF EndNumber
<1>2. CASE a.at = "number"
  <2>1. PICK value : value = <<"number", Number(a.scalar)>>
    OBVIOUS
  <2>2. PICK at, o, p, c, F : a = Reader(at, o, p, c, F)
    BY Zenon DEF IsReader
  <2>3. r = Take(a, value)
    BY <1>2, <2>1, Zenon DEF EndNumber
  <2>4. Take(Reader(at, o, p, c, F), value)
           = Reader(Where(o), o, p, <<>>, F \cup Fact(p, value))
    BY Takes
  <2>5. IsReader(r) /\ r.at = Where(o)
    BY <2>2, <2>3, <2>4, Fields
  <2>6. QED  BY <2>5 DEF Where
<1>3. QED  BY <1>1, <1>2

\* One token.
LEMMA GoesToken ==
    ASSUME NEW r, NEW token, NEW p, r.at # "number",
           token[1] = "digit" => r.at \notin {"behind", "end"},
           Continue(r, token) = p, IsReader(p), p.at # "number"
    PROVE  Goes(r, <<token>>, p)
<1>1. IsText(<<token>>)
  BY OneToken
<1>2. ASSUME NEW a, IsReader(a), EndNumber(a) = r
      PROVE  \E b : IsReader(b) /\ Reads(a, <<token>>, b) /\ EndNumber(b) = p
  <2>1. token[1] = "digit" => a.at # "number"
    BY <1>2, Stands
  <2>2. Read(a, token) = Continue(EndNumber(a), token)
    BY <2>1 DEF Read
  <2>3. Read(a, token) = p
    BY <1>2, <2>2
  <2>4. EndNumber(p) = p
    BY DEF EndNumber
  <2>5. QED  BY <2>3, <2>4, ReadOne
<1>3. QED  BY <1>1, <1>2 DEF Goes

\* What the reader does with each token, as a record of the fields.  A key
\* puts its name on the path.
LEMMA KeyRead ==
    ASSUME NEW at, NEW o, NEW p, NEW c, NEW G, NEW token, token[1] = "key"
    PROVE  AtKey(Reader(at, o, p, c, G), token) = Reader("value", o, Append(p, token[2]), c, G)
<1> DEFINE r == Reader(at, o, p, c, G)
<1>1. PICK x, y : x = "value" /\ y = Append(p, token[2])
  OBVIOUS
<1>2. r.at = at /\ r.open = o /\ r.path = p /\ r.scalar = c /\ r.facts = G
  BY DEF Reader
<1>3. [r EXCEPT !.at = x] = Reader(x, o, p, c, G)
  BY ONLY TRUE DEF Reader
<1>4. [Reader(x, o, p, c, G) EXCEPT !.path = y] = Reader(x, o, y, c, G)
  BY ONLY TRUE DEF Reader
<1> HIDE DEF r
<1>5. [r EXCEPT !.at = x, !.path = y] = [[r EXCEPT !.at = x] EXCEPT !.path = y]
  OBVIOUS
<1>6. AtKey(r, token) = [r EXCEPT !.at = x, !.path = y]
  <2>1. AtKey(r, token) = [r EXCEPT !.at = "value", !.path = Append(r.path, token[2])]
    BY <1>2 DEF AtKey
  <2>2. QED  BY <1>1, <1>2, <2>1, Zenon
<1>7. AtKey(r, token) = Reader(x, o, y, c, G)
  BY <1>3, <1>4, <1>5, <1>6, Zenon
<1>8. QED  BY <1>1, <1>7 DEF r

\* A brace opens an object.
LEMMA OpenRead ==
    ASSUME NEW at, NEW o, NEW p, NEW c, NEW G, NEW token, token[1] = "object", NEW o1, Under(o, "object", o1)
    PROVE  AtValue(Reader(at, o, p, c, G), token) = Reader("firstKey", o1, p, c, G)
<1> DEFINE r == Reader(at, o, p, c, G)
<1>0. o1 = Append(o, "object")
  BY DEF Under
<1>1. PICK x, y : x = "firstKey" /\ y = Append(o, "object")
  OBVIOUS
<1>2. r.at = at /\ r.open = o /\ r.path = p /\ r.scalar = c /\ r.facts = G
  BY DEF Reader
<1>3. [r EXCEPT !.at = x] = Reader(x, o, p, c, G)
  BY ONLY TRUE DEF Reader
<1>4. [Reader(x, o, p, c, G) EXCEPT !.open = y] = Reader(x, y, p, c, G)
  BY ONLY TRUE DEF Reader
<1> HIDE DEF r
<1>5. [r EXCEPT !.at = x, !.open = y] = [[r EXCEPT !.at = x] EXCEPT !.open = y]
  OBVIOUS
<1>6. AtValue(r, token) = [r EXCEPT !.at = x, !.open = y]
  <2>1. AtValue(r, token) = [r EXCEPT !.at = "firstKey", !.open = Append(r.open, "object")]
    BY <1>2, <1>0 DEF AtValue, Enter
  <2>2. QED  BY <1>1, <1>2, <2>1, Zenon
<1>7. AtValue(r, token) = Reader(x, y, p, c, G)
  BY <1>3, <1>4, <1>5, <1>6, Zenon
<1>8. QED  BY <1>1, <1>0, <1>7 DEF r

\* A bracket opens an array, and expects its first item.
LEMMA OpenListRead ==
    ASSUME NEW at, NEW o, NEW p, NEW c, NEW G, NEW token, token[1] = "array",
           NEW o1, Under(o, "array", o1), NEW q, Under(p, 1, q)
    PROVE  AtValue(Reader(at, o, p, c, G), token) = Reader("firstItem", o1, q, c, G)
<1> DEFINE r == Reader(at, o, p, c, G)
<1>0. o1 = Append(o, "array") /\ q = Append(p, 1)
  BY DEF Under
<1>1. PICK x, y, z : x = "firstItem" /\ y = Append(o, "array") /\ z = Append(p, 1)
  OBVIOUS
<1>2. r.at = at /\ r.open = o /\ r.path = p /\ r.scalar = c /\ r.facts = G
  BY DEF Reader
<1>3. [r EXCEPT !.at = x] = Reader(x, o, p, c, G)
  BY ONLY TRUE DEF Reader
<1>4. [Reader(x, o, p, c, G) EXCEPT !.open = y] = Reader(x, y, p, c, G)
  BY ONLY TRUE DEF Reader
<1>5. [Reader(x, y, p, c, G) EXCEPT !.path = z] = Reader(x, y, z, c, G)
  BY ONLY TRUE DEF Reader
<1> HIDE DEF r
<1>6. [r EXCEPT !.at = x, !.open = y, !.path = z] = [[[r EXCEPT !.at = x] EXCEPT !.open = y] EXCEPT !.path = z]
  OBVIOUS
<1>7. AtValue(r, token) = [r EXCEPT !.at = x, !.open = y, !.path = z]
  <2>1. AtValue(r, token) = [r EXCEPT !.at = "firstItem", !.open = Append(r.open, "array"), !.path = Append(r.path, 1)]
    BY <1>2, <1>0 DEF AtValue, Enter
  <2>2. QED  BY <1>1, <1>2, <2>1, Zenon
<1>8. AtValue(r, token) = Reader(x, y, z, c, G)
  BY <1>3, <1>4, <1>5, <1>6, <1>7, Zenon
<1>9. QED  BY <1>1, <1>0, <1>8 DEF r

\* A digit begins a number.
LEMMA DigitRead ==
    ASSUME NEW at, NEW o, NEW p, NEW c, NEW G, NEW token, token[1] = "digit"
    PROVE  AtValue(Reader(at, o, p, c, G), token) = Reader("number", o, p, <<token>>, G)
<1> DEFINE r == Reader(at, o, p, c, G)
<1>1. PICK x, y : x = "number" /\ y = <<token>>
  OBVIOUS
<1>2. r.at = at /\ r.open = o /\ r.path = p /\ r.scalar = c /\ r.facts = G
  BY DEF Reader
<1>3. [r EXCEPT !.at = x] = Reader(x, o, p, c, G)
  BY ONLY TRUE DEF Reader
<1>4. [Reader(x, o, p, c, G) EXCEPT !.scalar = y] = Reader(x, o, p, y, G)
  BY ONLY TRUE DEF Reader
<1> HIDE DEF r
<1>5. [r EXCEPT !.at = x, !.scalar = y] = [[r EXCEPT !.at = x] EXCEPT !.scalar = y]
  OBVIOUS
<1>6. AtValue(r, token) = [r EXCEPT !.at = x, !.scalar = y]
  <2>1. AtValue(r, token) = [r EXCEPT !.at = "number", !.scalar = <<token>>]
    BY <1>2 DEF AtValue
  <2>2. QED  BY <1>1, <1>2, <2>1, Zenon
<1>7. AtValue(r, token) = Reader(x, o, p, y, G)
  BY <1>3, <1>4, <1>5, <1>6, Zenon
<1>8. QED  BY <1>1, <1>7 DEF r

\* A quote begins a string.
LEMMA QuoteRead ==
    ASSUME NEW at, NEW o, NEW p, NEW c, NEW G, NEW token, token[1] = "quote"
    PROVE  AtValue(Reader(at, o, p, c, G), token) = Reader("string", o, p, <<>>, G)
<1> DEFINE r == Reader(at, o, p, c, G)
<1>1. PICK x, y : x = "string" /\ y = <<>>
  OBVIOUS
<1>2. r.at = at /\ r.open = o /\ r.path = p /\ r.scalar = c /\ r.facts = G
  BY DEF Reader
<1>3. [r EXCEPT !.at = x] = Reader(x, o, p, c, G)
  BY ONLY TRUE DEF Reader
<1>4. [Reader(x, o, p, c, G) EXCEPT !.scalar = y] = Reader(x, o, p, y, G)
  BY ONLY TRUE DEF Reader
<1> HIDE DEF r
<1>5. [r EXCEPT !.at = x, !.scalar = y] = [[r EXCEPT !.at = x] EXCEPT !.scalar = y]
  OBVIOUS
<1>6. AtValue(r, token) = [r EXCEPT !.at = x, !.scalar = y]
  <2>1. AtValue(r, token) = [r EXCEPT !.at = "string", !.scalar = <<>>]
    BY <1>2 DEF AtValue
  <2>2. QED  BY <1>1, <1>2, <2>1, Zenon
<1>7. AtValue(r, token) = Reader(x, o, p, y, G)
  BY <1>3, <1>4, <1>5, <1>6, Zenon
<1>8. QED  BY <1>1, <1>7 DEF r

\* A comma in an object takes the last key off the path.
LEMMA CommaRead ==
    ASSUME NEW at, NEW o, NEW p, NEW c, NEW G, NEW token, token[1] = "comma",
           NEW o0, Under(o0, "object", o), NEW q, NEW k, Under(q, k, p)
    PROVE  BehindValue(Reader(at, o, p, c, G), token) = Reader("key", o, q, c, G)
<1> DEFINE r == Reader(at, o, p, c, G)
<1>0. q = Front(p) /\ "object" = Top(o)
  BY DEF Under
<1>1. PICK x, y : x = "key" /\ y = Front(p)
  OBVIOUS
<1>2. r.at = at /\ r.open = o /\ r.path = p /\ r.scalar = c /\ r.facts = G
  BY DEF Reader
<1>3. [r EXCEPT !.at = x] = Reader(x, o, p, c, G)
  BY ONLY TRUE DEF Reader
<1>4. [Reader(x, o, p, c, G) EXCEPT !.path = y] = Reader(x, o, y, c, G)
  BY ONLY TRUE DEF Reader
<1> HIDE DEF r
<1>5. [r EXCEPT !.at = x, !.path = y] = [[r EXCEPT !.at = x] EXCEPT !.path = y]
  OBVIOUS
<1>6. BehindValue(r, token) = [r EXCEPT !.at = x, !.path = y]
  <2>1. BehindValue(r, token) = [r EXCEPT !.at = "key", !.path = Front(r.path)]
    BY <1>2, <1>0 DEF BehindValue
  <2>2. QED  BY <1>1, <1>2, <2>1, Zenon
<1>7. BehindValue(r, token) = Reader(x, o, y, c, G)
  BY <1>3, <1>4, <1>5, <1>6, Zenon
<1>8. QED  BY <1>1, <1>0, <1>7 DEF r

\* A comma in an array counts its items.
LEMMA ListCommaRead ==
    ASSUME NEW at, NEW o, NEW p, NEW c, NEW G, NEW token, token[1] = "comma",
           NEW o0, Under(o0, "array", o), NEW q, NEW k, Under(q, k, p), NEW q1, Under(q, k + 1, q1)
    PROVE  BehindValue(Reader(at, o, p, c, G), token) = Reader("value", o, q1, c, G)
<1> DEFINE r == Reader(at, o, p, c, G)
<1>0. "array" = Top(o) /\ q1 = Append(Front(p), Top(p) + 1)
  BY DEF Under
<1>1. PICK x, y : x = "value" /\ y = Append(Front(p), Top(p) + 1)
  OBVIOUS
<1>2. r.at = at /\ r.open = o /\ r.path = p /\ r.scalar = c /\ r.facts = G
  BY DEF Reader
<1>3. [r EXCEPT !.at = x] = Reader(x, o, p, c, G)
  BY ONLY TRUE DEF Reader
<1>4. [Reader(x, o, p, c, G) EXCEPT !.path = y] = Reader(x, o, y, c, G)
  BY ONLY TRUE DEF Reader
<1> HIDE DEF r
<1>5. [r EXCEPT !.at = x, !.path = y] = [[r EXCEPT !.at = x] EXCEPT !.path = y]
  OBVIOUS
<1>6. BehindValue(r, token) = [r EXCEPT !.at = x, !.path = y]
  <2>1. BehindValue(r, token) = [r EXCEPT !.at = "value", !.path = Append(Front(r.path), Top(r.path) + 1)]
    BY <1>2, <1>0 DEF BehindValue
  <2>2. QED  BY <1>1, <1>2, <2>1, Zenon
<1>7. BehindValue(r, token) = Reader(x, o, y, c, G)
  BY <1>3, <1>4, <1>5, <1>6, Zenon
<1>8. QED  BY <1>1, <1>0, <1>7 DEF r

\* A character in a string is kept.
LEMMA CharRead ==
    ASSUME NEW at, NEW o, NEW p, NEW c, NEW G, NEW token, token[1] \in {"char", "hex", "digit"}
    PROVE  InString(Reader(at, o, p, c, G), token) = Reader(at, o, p, Append(c, token), G)
<1> DEFINE r == Reader(at, o, p, c, G)
<1>1. PICK x : x = Append(c, token)
  OBVIOUS
<1>2. r.at = at /\ r.open = o /\ r.path = p /\ r.scalar = c /\ r.facts = G
  BY DEF Reader
<1>3. [r EXCEPT !.scalar = x] = Reader(at, o, p, x, G)
  BY ONLY TRUE DEF Reader
<1> HIDE DEF r
<1>4. InString(r, token) = [r EXCEPT !.scalar = x]
  <2>1. InString(r, token) = [r EXCEPT !.scalar = Append(r.scalar, token)]
    BY <1>2 DEF InString
  <2>2. QED  BY <1>1, <1>2, <2>1, Zenon
<1>5. InString(r, token) = Reader(at, o, p, x, G)
  BY <1>3, <1>4, Zenon
<1>6. QED  BY <1>1, <1>5 DEF r

\* A backslash in a string announces an escape.
LEMMA BackslashRead ==
    ASSUME NEW at, NEW o, NEW p, NEW c, NEW G, NEW token, token[1] = "backslash"
    PROVE  InString(Reader(at, o, p, c, G), token) = Reader("escape", o, p, c, G)
<1> DEFINE r == Reader(at, o, p, c, G)
<1>1. PICK x : x = "escape"
  OBVIOUS
<1>2. r.at = at /\ r.open = o /\ r.path = p /\ r.scalar = c /\ r.facts = G
  BY DEF Reader
<1>3. [r EXCEPT !.at = x] = Reader(x, o, p, c, G)
  BY ONLY TRUE DEF Reader
<1> HIDE DEF r
<1>4. InString(r, token) = [r EXCEPT !.at = x]
  <2>1. InString(r, token) = [r EXCEPT !.at = "escape"]
    BY <1>2 DEF InString
  <2>2. QED  BY <1>1, <1>2, <2>1, Zenon
<1>5. InString(r, token) = Reader(x, o, p, c, G)
  BY <1>3, <1>4, Zenon
<1>6. QED  BY <1>1, <1>5 DEF r

\* An escaped character is kept.
LEMMA EscapeRead ==
    ASSUME NEW at, NEW o, NEW p, NEW c, NEW G, NEW token, token[1] \in {"quote", "backslash"}
    PROVE  InEscape(Reader(at, o, p, c, G), token) = Reader("string", o, p, Append(c, token), G)
<1> DEFINE r == Reader(at, o, p, c, G)
<1>1. PICK x, y : x = "string" /\ y = Append(c, token)
  OBVIOUS
<1>2. r.at = at /\ r.open = o /\ r.path = p /\ r.scalar = c /\ r.facts = G
  BY DEF Reader
<1>3. [r EXCEPT !.at = x] = Reader(x, o, p, c, G)
  BY ONLY TRUE DEF Reader
<1>4. [Reader(x, o, p, c, G) EXCEPT !.scalar = y] = Reader(x, o, p, y, G)
  BY ONLY TRUE DEF Reader
<1> HIDE DEF r
<1>5. [r EXCEPT !.at = x, !.scalar = y] = [[r EXCEPT !.at = x] EXCEPT !.scalar = y]
  OBVIOUS
<1>6. InEscape(r, token) = [r EXCEPT !.at = x, !.scalar = y]
  <2>1. InEscape(r, token) = [r EXCEPT !.at = "string", !.scalar = Append(r.scalar, token)]
    BY <1>2 DEF InEscape
  <2>2. QED  BY <1>1, <1>2, <2>1, Zenon
<1>7. InEscape(r, token) = Reader(x, o, p, y, G)
  BY <1>3, <1>4, <1>5, <1>6, Zenon
<1>8. QED  BY <1>1, <1>7 DEF r

\* Leaving an object or an array, as a record of the fields.
LEMMA Leaves ==
    ASSUME NEW at, NEW o, NEW p, NEW c, NEW G
    PROVE  Leave(Reader(at, o, p, c, G))
              = Reader(Where(Front(o)), Front(o), IF at = "firstKey" THEN p ELSE Front(p), <<>>, G)
<1> DEFINE r == Reader(at, o, p, c, G)
<1>1. PICK x, y : x = Front(o) /\ y = IF at = "firstKey" THEN p ELSE Front(p)
  OBVIOUS
<1>2. r.at = at /\ r.open = o /\ r.path = p
  BY DEF Reader
<1>3. [r EXCEPT !.open = x] = Reader(at, x, p, c, G)
  BY DEF Reader
<1>4. [Reader(at, x, p, c, G) EXCEPT !.path = y] = Reader(at, x, y, c, G)
  BY DEF Reader
<1> HIDE DEF r
<1>5. [r EXCEPT !.open = x, !.path = y] = [[r EXCEPT !.open = x] EXCEPT !.path = y]
  OBVIOUS
<1>6. Leave(r) = Behind([r EXCEPT !.open = x, !.path = y])
  <2>1. Leave(r) = Behind([r EXCEPT !.open = Front(r.open),
                                    !.path = IF r.at = "firstKey" THEN r.path ELSE Front(r.path)])
    BY Zenon DEF Leave
  <2>2. Front(r.open) = x /\ (IF r.at = "firstKey" THEN r.path ELSE Front(r.path)) = y
    BY <1>1, <1>2
  <2>3. QED  BY <2>1, <2>2, Zenon
<1>7. Leave(r) = Behind(Reader(at, x, y, c, G))
  BY <1>3, <1>4, <1>5, <1>6, Zenon
<1>8. Leave(r) = Reader(Where(x), x, y, <<>>, G)
  BY <1>7, Behinds
<1>9. QED  BY <1>1, <1>8 DEF r

-----------------------------------------------------------------------------
(* What a text yields.                                                     *)

\* The reader x with the facts F.
Holding(x, F) == Reader(x.at, x.open, x.path, x.scalar, F)

\* Over the text s a reader goes from x to y and learns the facts F, whatever it
\* knew before.
Yields(x, s, y, F) == \A G : Goes(Holding(x, G), s, Holding(y, G \cup F))

\* A reader between two tokens that are no part of a string or a number.
Place(at, o, p) == Reader(at, o, p, <<>>, {})

\* The fields of a reader with other facts.
LEMMA Holdings ==
    ASSUME NEW at, NEW o, NEW p, NEW c, NEW F, NEW G
    PROVE  Holding(Reader(at, o, p, c, F), G) = Reader(at, o, p, c, G)
BY Fields DEF Holding

\* The empty text yields nothing.
LEMMA YieldsNothing == ASSUME NEW x PROVE Yields(x, <<>>, x, {})
<1>1. ASSUME NEW G PROVE Goes(Holding(x, G), <<>>, Holding(x, G \cup {}))
  <2>1. G \cup {} = G  OBVIOUS
  <2>2. QED  BY <2>1, GoesNowhere
<1>2. QED  BY <1>1 DEF Yields

\* What two texts joined yield is what each yields.
LEMMA YieldsOn ==
    ASSUME NEW x, NEW s, NEW y, NEW F, NEW t, NEW z, NEW H,
           Yields(x, s, y, F), Yields(y, t, z, H)
    PROVE  Yields(x, s \o t, z, F \cup H)
<1>1. ASSUME NEW G PROVE Goes(Holding(x, G), s \o t, Holding(z, G \cup (F \cup H)))
  <2>1. Goes(Holding(x, G), s, Holding(y, G \cup F))
    BY DEF Yields
  <2>2. Goes(Holding(y, G \cup F), t, Holding(z, (G \cup F) \cup H))
    BY DEF Yields
  <2>3. (G \cup F) \cup H = G \cup (F \cup H)
    OBVIOUS
  <2>4. QED  BY <2>1, <2>2, <2>3, GoesOn
<1>2. QED  BY <1>1 DEF Yields

\* What a single token yields.
LEMMA YieldsToken ==
    ASSUME NEW at, NEW o, NEW p, NEW c, NEW token,
           NEW at1, NEW o1, NEW p1, NEW c1, NEW F,
           at # "number", at1 # "number", token[1] = "digit" => at \notin {"behind", "end"},
           \A G : Continue(Reader(at, o, p, c, G), token) = Reader(at1, o1, p1, c1, G \cup F)
    PROVE  Yields(Reader(at, o, p, c, {}), <<token>>, Reader(at1, o1, p1, c1, {}), F)
<1>1. ASSUME NEW G
      PROVE  Goes(Holding(Reader(at, o, p, c, {}), G), <<token>>, Holding(Reader(at1, o1, p1, c1, {}), G \cup F))
  <2>1. Continue(Reader(at, o, p, c, G), token) = Reader(at1, o1, p1, c1, G \cup F)
    OBVIOUS
  <2>2. /\ Reader(at, o, p, c, G).at = at
        /\ Reader(at1, o1, p1, c1, G \cup F).at = at1
        /\ IsReader(Reader(at1, o1, p1, c1, G \cup F))
    BY Fields
  <2>3. Goes(Reader(at, o, p, c, G), <<token>>, Reader(at1, o1, p1, c1, G \cup F))
    BY <2>1, <2>2, GoesToken
  <2>4. QED  BY <2>3, Holdings
<1>2. QED  BY <1>1 DEF Yields

\* Where the reader is decides which of its operators takes the token.
LEMMA Continues ==
    ASSUME NEW r, NEW token
    PROVE  /\ r.at \in {"value", "firstItem"} => Continue(r, token) = AtValue(r, token)
           /\ r.at \in {"key", "firstKey"} => Continue(r, token) = AtKey(r, token)
           /\ r.at = "behind" => Continue(r, token) = BehindValue(r, token)
           /\ r.at = "string" => Continue(r, token) = InString(r, token)
           /\ r.at = "escape" => Continue(r, token) = InEscape(r, token)
BY DEF Continue

\* The structure.
LEMMA ReadsKey ==
    ASSUME NEW at, at \in {"key", "firstKey"}, NEW o, NEW p, NEW k, NEW q, Under(p, k, q)
    PROVE  Yields(Place(at, o, p), Key(k), Place("value", o, q), {})
<1> DEFINE token == <<"key", k>>
<1>1. token[1] = "key" /\ token[2] = k
  OBVIOUS
<1> HIDE DEF token
<1>2. ASSUME NEW G
      PROVE  Continue(Reader(at, o, p, <<>>, G), token) = Reader("value", o, q, <<>>, G \cup {})
  <2>1. G \cup {} = G /\ Append(p, k) = q
    BY DEF Under
  <2>2. Reader(at, o, p, <<>>, G).at = at
    BY ONLY Fields
  <2>3. Continue(Reader(at, o, p, <<>>, G), token) = AtKey(Reader(at, o, p, <<>>, G), token)
    BY <2>2, Continues
  <2>4. AtKey(Reader(at, o, p, <<>>, G), token) = Reader("value", o, Append(p, token[2]), <<>>, G)
    BY ONLY <1>1, KeyRead
  <2>5. QED  BY <1>1, <2>1, <2>3, <2>4
<1>3. at # "number" /\ token[1] # "digit"
  BY <1>1
<1>4. Yields(Reader(at, o, p, <<>>, {}), <<token>>, Reader("value", o, q, <<>>, {}), {})
  BY <1>2, <1>3, YieldsToken
<1>5. QED  BY <1>4 DEF Place, Key, token

\* A brace opens an object.
LEMMA ReadsOpen ==
    ASSUME NEW at, at \in {"value", "firstItem"}, NEW o, NEW p, NEW o1, Under(o, "object", o1)
    PROVE  Yields(Place(at, o, p), Open, Place("firstKey", o1, p), {})
<1>1. PICK token : token = <<"object">> /\ token[1] = "object"
  BY OneToken
<1>2. ASSUME NEW G
      PROVE  Continue(Reader(at, o, p, <<>>, G), token) = Reader("firstKey", o1, p, <<>>, G \cup {})
  <2> DEFINE r == Reader(at, o, p, <<>>, G)
  <2>1. G \cup {} = G /\ Append(o, "object") = o1
    BY DEF Under
  <2>2. r.at = at
    BY ONLY Fields
  <2>3. Continue(r, token) = AtValue(r, token)
    <3> HIDE DEF r
    <3>1. QED  BY <2>2, Continues
  <2>4. AtValue(r, token) = Reader("firstKey", o1, p, <<>>, G)
    BY <1>1, OpenRead
  <2> HIDE DEF r
  <2>5. QED  BY <2>1, <2>3, <2>4 DEF r
<1>3. Yields(Reader(at, o, p, <<>>, {}), <<token>>, Reader("firstKey", o1, p, <<>>, {}), {})
  BY <1>1, <1>2, YieldsToken
<1>4. QED  BY <1>1, <1>3 DEF Place, Open

\* A bracket opens an array.
LEMMA ReadsOpenList ==
    ASSUME NEW at, at \in {"value", "firstItem"}, NEW o, NEW p, NEW o1, Under(o, "array", o1), NEW q, Under(p, 1, q)
    PROVE  Yields(Place(at, o, p), OpenList, Place("firstItem", o1, q), {})
<1>1. PICK token : token = <<"array">> /\ token[1] = "array"
  BY OneToken
<1>2. ASSUME NEW G
      PROVE  Continue(Reader(at, o, p, <<>>, G), token) = Reader("firstItem", o1, q, <<>>, G \cup {})
  <2> DEFINE r == Reader(at, o, p, <<>>, G)
  <2>1. G \cup {} = G /\ Append(o, "array") = o1 /\ Append(p, 1) = q
    BY DEF Under
  <2>2. r.at = at
    BY ONLY Fields
  <2>3. Continue(r, token) = AtValue(r, token)
    <3> HIDE DEF r
    <3>1. QED  BY <2>2, Continues
  <2>4. AtValue(r, token) = Reader("firstItem", o1, q, <<>>, G)
    BY <1>1, OpenListRead
  <2> HIDE DEF r
  <2>5. QED  BY <2>1, <2>3, <2>4 DEF r
<1>3. Yields(Reader(at, o, p, <<>>, {}), <<token>>, Reader("firstItem", o1, q, <<>>, {}), {})
  BY <1>1, <1>2, YieldsToken
<1>4. QED  BY <1>1, <1>3 DEF Place, OpenList

\* A comma between the members of an object.
LEMMA ReadsComma ==
    ASSUME NEW o, NEW o1, Under(o, "object", o1), NEW p, NEW k, NEW p1, Under(p, k, p1)
    PROVE  Yields(Place("behind", o1, p1), Comma, Place("key", o1, p), {})
<1>1. PICK token : token = <<"comma">> /\ token[1] = "comma"
  BY OneToken
<1>2. ASSUME NEW G
      PROVE  Continue(Reader("behind", o1, p1, <<>>, G), token) = Reader("key", o1, p, <<>>, G \cup {})
  <2> DEFINE r == Reader("behind", o1, p1, <<>>, G)
  <2>1. G \cup {} = G /\ Top(o1) = "object" /\ Front(p1) = p
    BY DEF Under
  <2>2. r.at = "behind"
    BY ONLY Fields
  <2>3. Continue(r, token) = BehindValue(r, token)
    <3> HIDE DEF r
    <3>1. QED  BY <2>2, Continues
  <2>4. BehindValue(r, token) = Reader("key", o1, p, <<>>, G)
    BY <1>1, CommaRead
  <2> HIDE DEF r
  <2>5. QED  BY <2>1, <2>3, <2>4 DEF r
<1>3. Yields(Reader("behind", o1, p1, <<>>, {}), <<token>>, Reader("key", o1, p, <<>>, {}), {})
  BY <1>1, <1>2, YieldsToken
<1>4. QED  BY <1>1, <1>3 DEF Place, Comma

\* A comma between the items of an array.
LEMMA ReadsListComma ==
    ASSUME NEW o, NEW o1, Under(o, "array", o1), NEW p, NEW k \in Nat, NEW p1,
           Under(p, k, p1), NEW q, Under(p, k + 1, q)
    PROVE  Yields(Place("behind", o1, p1), Comma, Place("value", o1, q), {})
<1>1. PICK token : token = <<"comma">> /\ token[1] = "comma"
  BY OneToken
<1>2. ASSUME NEW G
      PROVE  Continue(Reader("behind", o1, p1, <<>>, G), token) = Reader("value", o1, q, <<>>, G \cup {})
  <2> DEFINE r == Reader("behind", o1, p1, <<>>, G)
  <2>1. G \cup {} = G /\ Top(o1) = "array" /\ Front(p1) = p /\ Top(p1) = k /\ Append(p, k + 1) = q
    BY DEF Under
  <2>2. r.at = "behind"
    BY ONLY Fields
  <2>3. Continue(r, token) = BehindValue(r, token)
    <3> HIDE DEF r
    <3>1. QED  BY <2>2, Continues
  <2>4. BehindValue(r, token) = Reader("value", o1, q, <<>>, G)
    BY <1>1, ListCommaRead
  <2> HIDE DEF r
  <2>5. QED  BY <2>1, <2>3, <2>4 DEF r
<1>3. Yields(Reader("behind", o1, p1, <<>>, {}), <<token>>, Reader("value", o1, q, <<>>, {}), {})
  BY <1>1, <1>2, YieldsToken
<1>4. QED  BY <1>1, <1>3 DEF Place, Comma

\* The reader takes the brace that closes an object with a member in it.
LEMMA ContinuesClose ==
    ASSUME NEW o, NEW o1, Under(o, "object", o1), NEW p, NEW k, NEW p1, Under(p, k, p1),
           NEW G, NEW token, token[1] = "endObject"
    PROVE  Continue(Reader("behind", o1, p1, <<>>, G), token) = Reader(Where(o), o, p, <<>>, G)
<1> DEFINE r == Reader("behind", o1, p1, <<>>, G)
<1>1. Top(o1) = "object" /\ Front(p1) = p /\ Front(o1) = o
  BY DEF Under
<1>2. r.at = "behind" /\ r.open = o1
  BY ONLY Fields
<1>3. Leave(r) = Reader(Where(Front(o1)), Front(o1), IF "behind" = "firstKey" THEN p1 ELSE Front(p1), <<>>, G)
  BY ONLY Leaves
<1> HIDE DEF r
<1>4. Continue(r, token) = BehindValue(r, token)
  BY <1>2, Continues
<1>5. BehindValue(r, token) = Leave(r)
  BY <1>1, <1>2 DEF BehindValue
<1>6. QED  BY <1>1, <1>3, <1>4, <1>5 DEF r

\* A closing brace leaves the object for what it is in.
LEMMA ReadsClose ==
    ASSUME NEW o, NEW o1, Under(o, "object", o1), NEW p, NEW k, NEW p1, Under(p, k, p1)
    PROVE  Yields(Place("behind", o1, p1), Close, Place(Where(o), o, p), {})
<1>1. PICK token : token = <<"endObject">> /\ token[1] = "endObject"
  BY OneToken
<1>2. ASSUME NEW G
      PROVE  Continue(Reader("behind", o1, p1, <<>>, G), token) = Reader(Where(o), o, p, <<>>, G \cup {})
  <2>1. G \cup {} = G
    OBVIOUS
  <2>2. QED  BY <1>1, <2>1, ContinuesClose
<1>3. Yields(Reader("behind", o1, p1, <<>>, {}), <<token>>, Reader(Where(o), o, p, <<>>, {}), {})
  <2>1. Where(o) # "number" /\ "behind" # "number" /\ token[1] # "digit"
    BY <1>1 DEF Where
  <2>2. QED  BY <1>2, <2>1, YieldsToken
<1>4. QED  BY <1>1, <1>3 DEF Place, Close

\* A closing bracket leaves the array, also an empty one.
LEMMA ReadsCloseList ==
    ASSUME NEW o, NEW o1, Under(o, "array", o1), NEW p, NEW k, NEW p1, Under(p, k, p1),
           NEW at, at \in {"behind", "firstItem"}
    PROVE  Yields(Place(at, o1, p1), CloseList, Place(Where(o), o, p), {})
<1>1. PICK token : token = <<"endArray">> /\ token[1] = "endArray"
  BY OneToken
<1>2. ASSUME NEW G
      PROVE  Continue(Reader(at, o1, p1, <<>>, G), token) = Reader(Where(o), o, p, <<>>, G \cup {})
  <2> DEFINE r == Reader(at, o1, p1, <<>>, G)
  <2>1. G \cup {} = G /\ Top(o1) = "array" /\ Front(p1) = p /\ Front(o1) = o
    BY DEF Under
  <2>2. r.at = at
    BY ONLY Fields
  <2>3. Continue(r, token) = Leave(r)
    <3>1. r.open = o1
      BY ONLY Fields
    <3> HIDE DEF r
    <3>2. CASE at = "behind"
      <4>1. BehindValue(r, token) = Leave(r)
        BY <1>1, <2>1, <3>1 DEF BehindValue
      <4>2. QED  BY <2>2, <3>2, <4>1, Continues
    <3>3. CASE at = "firstItem"
      <4>1. AtValue(r, token) = Leave(r)
        BY <1>1, <2>2, <3>3 DEF AtValue
      <4>2. QED  BY <2>2, <3>3, <4>1, Continues
    <3>4. QED  BY <3>2, <3>3
  <2>5. Leave(r) = Reader(Where(o), o, p, <<>>, G)
    <3>1. Leave(r) = Reader(Where(Front(o1)), Front(o1), IF at = "firstKey" THEN p1 ELSE Front(p1), <<>>, G)
      BY ONLY Leaves
    <3> HIDE DEF r
    <3>2. QED  BY <2>1, <3>1
  <2> HIDE DEF r
  <2>6. QED  BY <2>1, <2>3, <2>5 DEF r
<1>3. Yields(Reader(at, o1, p1, <<>>, {}), <<token>>, Reader(Where(o), o, p, <<>>, {}), {})
  <2>1. Where(o) # "number" /\ at # "number" /\ token[1] # "digit"
    BY <1>1 DEF Where
  <2>2. QED  BY <1>2, <2>1, YieldsToken
<1>4. QED  BY <1>1, <1>3 DEF Place, CloseList
\* Behind a value, in a container.
LEMMA Contained == ASSUME NEW o, o # <<>> PROVE Where(o) = "behind"
BY DEF Where

\* Inside of a text, with c read of it.
InText(o, p, c) == Reader("string", o, p, c, {})

\* A truth is a fact at the path.
LEMMA ReadsBoolean ==
    ASSUME NEW at, at \in {"value", "firstItem"}, NEW o, NEW p, o # <<>>, NEW b
    PROVE  Yields(Place(at, o, p), Boolean(b), Place("behind", o, p), Fact(p, <<"literal", b>>))
<1>0. <<"literal", b>>[1] = "literal"
  BY Pair
<1>1. PICK token : token = <<"literal", b>> /\ token[1] = "literal"
  BY <1>0
<1>2. ASSUME NEW G
      PROVE  Continue(Reader(at, o, p, <<>>, G), token) = Reader("behind", o, p, <<>>, G \cup Fact(p, <<"literal", b>>))
  <2> DEFINE r == Reader(at, o, p, <<>>, G)
  <2>2. r.at = at
    BY ONLY Fields
  <2>3. Continue(r, token) = AtValue(r, token)
    <3> HIDE DEF r
    <3>1. QED  BY <2>2, Continues
  <2>4. AtValue(r, token) = Reader("behind", o, p, <<>>, G \cup Fact(p, <<"literal", b>>))
    <3>1. AtValue(r, token) = Take(r, token)
      <4> HIDE DEF r
      <4>1. QED  BY <1>1 DEF AtValue
    <3>2. Take(r, token) = Reader(Where(o), o, p, <<>>, G \cup Fact(p, token))
      BY Takes
    <3>3. QED  BY <1>1, <3>1, <3>2, Contained
  <2> HIDE DEF r
  <2>5. QED  BY <2>3, <2>4 DEF r
<1>3. Yields(Reader(at, o, p, <<>>, {}), <<token>>, Reader("behind", o, p, <<>>, {}), Fact(p, <<"literal", b>>))
  BY <1>1, <1>2, YieldsToken
<1>4. QED  BY <1>1, <1>3 DEF Place, Boolean

\* A quote begins a string.
LEMMA ReadsQuote ==
    ASSUME NEW at, at \in {"value", "firstItem"}, NEW o, NEW p
    PROVE  Yields(Place(at, o, p), Quote, InText(o, p, <<>>), {})
<1>1. PICK token : token = <<"quote">> /\ token[1] = "quote"
  BY OneToken
<1>2. ASSUME NEW G
      PROVE  Continue(Reader(at, o, p, <<>>, G), token) = Reader("string", o, p, <<>>, G \cup {})
  <2> DEFINE r == Reader(at, o, p, <<>>, G)
  <2>2. r.at = at
    BY ONLY Fields
  <2>3. Continue(r, token) = AtValue(r, token)
    <3> HIDE DEF r
    <3>1. QED  BY <2>2, Continues
  <2>4. AtValue(r, token) = Reader("string", o, p, <<>>, G \cup {})
    <3>1. AtValue(r, token) = Reader("string", o, p, <<>>, G)
      BY <1>1, QuoteRead
    <3>2. G \cup {} = G
      OBVIOUS
    <3> HIDE DEF r
    <3>3. QED  BY <3>1, <3>2
  <2> HIDE DEF r
  <2>5. QED  BY <2>3, <2>4 DEF r
<1>3. Yields(Reader(at, o, p, <<>>, {}), <<token>>, Reader("string", o, p, <<>>, {}), {})
  BY <1>1, <1>2, YieldsToken
<1>4. QED  BY <1>1, <1>3 DEF Place, InText, Quote

\* A character in a string.
LEMMA ReadsChar ==
    ASSUME NEW o, NEW p, NEW c, NEW token, token[1] \in {"char", "hex", "digit"}
    PROVE  Yields(InText(o, p, c), <<token>>, InText(o, p, Append(c, token)), {})
<1>1. PICK q : q = Append(c, token)
  OBVIOUS
<1>2. ASSUME NEW G
      PROVE  Continue(Reader("string", o, p, c, G), token) = Reader("string", o, p, q, G \cup {})
  <2> DEFINE r == Reader("string", o, p, c, G)
  <2>2. r.at = "string"
    BY ONLY Fields
  <2>3. Continue(r, token) = InString(r, token)
    <3> HIDE DEF r
    <3>1. QED  BY <2>2, Continues
  <2>4. InString(r, token) = Reader("string", o, p, q, G \cup {})
    <3>1. InString(r, token) = Reader("string", o, p, Append(c, token), G)
      BY CharRead
    <3>2. G \cup {} = G
      OBVIOUS
    <3> HIDE DEF r
    <3>3. QED  BY <1>1, <3>1, <3>2
  <2> HIDE DEF r
  <2>5. QED  BY <2>3, <2>4 DEF r
<1>3. Yields(Reader("string", o, p, c, {}), <<token>>, Reader("string", o, p, q, {}), {})
  BY <1>1, <1>2, YieldsToken
<1>4. QED  BY <1>1, <1>3 DEF InText

\* A backslash in a string.
LEMMA ReadsBackslash ==
    ASSUME NEW o, NEW p, NEW c
    PROVE  Yields(InText(o, p, c), <<<<"backslash">>>>, Reader("escape", o, p, c, {}), {})
<1>1. PICK token : token = <<"backslash">> /\ token[1] = "backslash"
  BY OneToken
<1>2. ASSUME NEW G
      PROVE  Continue(Reader("string", o, p, c, G), token) = Reader("escape", o, p, c, G \cup {})
  <2> DEFINE r == Reader("string", o, p, c, G)
  <2>2. r.at = "string"
    BY ONLY Fields
  <2>3. Continue(r, token) = InString(r, token)
    <3> HIDE DEF r
    <3>1. QED  BY <2>2, Continues
  <2>4. InString(r, token) = Reader("escape", o, p, c, G \cup {})
    <3>1. InString(r, token) = Reader("escape", o, p, c, G)
      BY <1>1, BackslashRead
    <3>2. G \cup {} = G
      OBVIOUS
    <3> HIDE DEF r
    <3>3. QED  BY <3>1, <3>2
  <2> HIDE DEF r
  <2>5. QED  BY <2>3, <2>4 DEF r
<1>3. Yields(Reader("string", o, p, c, {}), <<token>>, Reader("escape", o, p, c, {}), {})
  BY <1>1, <1>2, YieldsToken
<1>4. QED  BY <1>1, <1>3 DEF InText

\* The character behind a backslash.
LEMMA ReadsEscaped ==
    ASSUME NEW o, NEW p, NEW c, NEW token, token[1] \in {"quote", "backslash"}
    PROVE  Yields(Reader("escape", o, p, c, {}), <<token>>, InText(o, p, Append(c, token)), {})
<1>1. PICK q : q = Append(c, token)
  OBVIOUS
<1>2. ASSUME NEW G
      PROVE  Continue(Reader("escape", o, p, c, G), token) = Reader("string", o, p, q, G \cup {})
  <2> DEFINE r == Reader("escape", o, p, c, G)
  <2>2. r.at = "escape"
    BY ONLY Fields
  <2>3. Continue(r, token) = InEscape(r, token)
    <3> HIDE DEF r
    <3>1. QED  BY <2>2, Continues
  <2>4. InEscape(r, token) = Reader("string", o, p, q, G \cup {})
    <3>1. InEscape(r, token) = Reader("string", o, p, Append(c, token), G)
      BY EscapeRead
    <3>2. G \cup {} = G
      OBVIOUS
    <3> HIDE DEF r
    <3>3. QED  BY <1>1, <3>1, <3>2
  <2> HIDE DEF r
  <2>5. QED  BY <2>3, <2>4 DEF r
<1>3. Yields(Reader("escape", o, p, c, {}), <<token>>, Reader("string", o, p, q, {}), {})
  BY <1>1, <1>2, YieldsToken
<1>4. QED  BY <1>1, <1>3 DEF InText

\* The closing quote makes the string a fact at the path.
LEMMA ReadsEndQuote ==
    ASSUME NEW o, o # <<>>, NEW p, NEW c
    PROVE  Yields(InText(o, p, c), Quote, Place("behind", o, p), Fact(p, <<"string", c>>))
<1>1. PICK token : token = <<"quote">> /\ token[1] = "quote"
  BY OneToken
<1>2. ASSUME NEW G
      PROVE  Continue(Reader("string", o, p, c, G), token) = Reader("behind", o, p, <<>>, G \cup Fact(p, <<"string", c>>))
  <2> DEFINE r == Reader("string", o, p, c, G)
  <2>2. r.at = "string"
    BY ONLY Fields
  <2>3. Continue(r, token) = InString(r, token)
    <3> HIDE DEF r
    <3>1. QED  BY <2>2, Continues
  <2>4. InString(r, token) = Reader("behind", o, p, <<>>, G \cup Fact(p, <<"string", c>>))
    <3>1. PICK value : value = <<"string", c>>
      OBVIOUS
    <3>2. InString(r, token) = Take(r, value)
      <4>1. r.scalar = c
        BY ONLY Fields
      <4> HIDE DEF r
      <4>2. InString(r, token) = Take(r, <<"string", r.scalar>>)
        BY <1>1 DEF InString
      <4>3. QED  BY <3>1, <4>1, <4>2
    <3>3. Take(r, value) = Reader(Where(o), o, p, <<>>, G \cup Fact(p, value))
      BY Takes
    <3>4. QED  BY <3>1, <3>2, <3>3, Contained
  <2> HIDE DEF r
  <2>5. QED  BY <2>3, <2>4 DEF r
<1>3. Yields(Reader("string", o, p, c, {}), <<token>>, Reader("behind", o, p, <<>>, {}), Fact(p, <<"string", c>>))
  BY <1>1, <1>2, YieldsToken
<1>4. QED  BY <1>1, <1>3 DEF Place, InText, Quote

-----------------------------------------------------------------------------
(* Texts of many pieces.                                                   *)

\* A prefix of a text, and its length.
LEMMA Prefix ==
    ASSUME NEW s, IsText(s), NEW i \in 0 .. Len(s)
    PROVE  IsText(SubSeq(s, 1, i)) /\ Len(SubSeq(s, 1, i)) = i
<1>1. PICK S : s \in Seq(S)
  BY DEF IsText
<1>2. Len(s) \in Nat
  BY <1>1, LenProperties
<1>3. \A j \in 1 .. i : s[j] \in S
  <2>1. \A j \in 1 .. i : j \in 1 .. Len(s)  BY <1>2
  <2>2. QED  BY <1>1, <2>1, ElementOfSeq
<1>4. i \in Int /\ (IF 1 <= i THEN i - 1 + 1 ELSE 0) = i
  BY <1>2
<1>5. SubSeq(s, 1, i) \in Seq(S) /\ Len(SubSeq(s, 1, i)) = IF 1 <= i THEN i - 1 + 1 ELSE 0
  BY <1>3, <1>4, SubSeqProperties
<1>6. QED  BY <1>4, <1>5 DEF IsText

\* The shortest prefix and the longest.
LEMMA PrefixEnds ==
    ASSUME NEW s, IsText(s)
    PROVE  SubSeq(s, 1, 0) = <<>> /\ SubSeq(s, 1, Len(s)) = s
<1>1. PICK S : s \in Seq(S)
  BY DEF IsText
<1>2. SubSeq(s, 1, 0) = <<>>
  BY SubSeqEmpty
<1>3. SubSeq(s, 1, Len(s)) = s
  BY <1>1, SubSeqFull
<1>4. QED  BY <1>2, <1>3

\* A prefix and the token behind it.
LEMMA NextPrefix ==
    ASSUME NEW s, IsText(s), NEW i \in 1 .. Len(s)
    PROVE  /\ SubSeq(s, 1, i) = SubSeq(s, 1, i - 1) \o <<s[i]>>
           /\ SubSeq(s, 1, i) = Append(SubSeq(s, 1, i - 1), s[i])
<1>1. PICK S : s \in Seq(S)
  BY DEF IsText
<1>2. Len(s) \in Nat
  BY <1>1, LenProperties
<1>3. 1 \in 1 .. Len(s) /\ i \in 1 .. Len(s) /\ i - 1 \in 0 .. Len(s)
  BY <1>2
<1>4. SubSeq(s, 1, i) = SubSeq(s, 1, i - 1) \o <<s[i]>>
  BY <1>1, <1>3, SubSeqRecursiveSecond
<1>5. \A j \in 1 .. i - 1 : s[j] \in S
  <2>1. \A j \in 1 .. i - 1 : j \in 1 .. Len(s)  BY <1>2
  <2>2. QED  BY <1>1, <2>1, ElementOfSeq
<1>6. SubSeq(s, 1, i - 1) \in Seq(S)
  BY <1>3, <1>5, SubSeqProperties
<1>7. s[i] \in S
  BY <1>1, ElementOfSeq
<1>8. Append(SubSeq(s, 1, i - 1), s[i]) = SubSeq(s, 1, i - 1) \o <<s[i]>>
  BY <1>6, <1>7, AppendIsConcat
<1>9. QED  BY <1>4, <1>8

\* The facts of the pieces 1 to n.
AllOf(F, n) == UNION {F[i] : i \in 1 .. n}

\* A text joined from n pieces, h[i] being the first i of them, yields what the
\* pieces yield.
LEMMA Pieces ==
    ASSUME NEW n \in Nat, NEW piece, NEW h, NEW f, NEW F,
           h[0] = <<>>, \A i \in 1 .. n : h[i] = h[i - 1] \o piece[i],
           \A i \in 1 .. n : Yields(f[i - 1], piece[i], f[i], F[i])
    PROVE  Yields(f[0], h[n], f[n], AllOf(F, n))
<1> DEFINE U(i) == UNION {F[j] : j \in 1 .. i}
           S == {i \in Nat : i <= n => Yields(f[0], h[i], f[i], U(i))}
<1>1. 0 \in S
  <2>1. U(0) = {}
    OBVIOUS
  <2> HIDE DEF U
  <2>2. QED  BY <2>1, YieldsNothing
<1>2. ASSUME NEW i \in Nat, i \in S PROVE i + 1 \in S
  <2>1. SUFFICES ASSUME i + 1 <= n PROVE Yields(f[0], h[i + 1], f[i + 1], U(i + 1))
    OBVIOUS
  <2>2. i + 1 \in 1 .. n /\ (i + 1) - 1 = i /\ Yields(f[0], h[i], f[i], U(i))
    BY <1>2, <2>1
  <2>3. U(i + 1) = U(i) \cup F[i + 1]
    <3>1. 1 .. i + 1 = (1 .. i) \cup {i + 1}
      OBVIOUS
    <3>2. QED  BY <3>1, Zenon
  <2> HIDE DEF U
  <2>4. h[i + 1] = h[i] \o piece[i + 1] /\ Yields(f[i], piece[i + 1], f[i + 1], F[i + 1])
    BY <2>2
  <2>5. QED  BY <2>2, <2>3, <2>4, YieldsOn
<1>3. n \in S
  <2> HIDE DEF S
  <2>1. QED  BY <1>1, <1>2, Induction
<1>4. Yields(f[0], h[n], f[n], U(n))
  <2> HIDE DEF U
  <2>1. QED  BY <1>3
<1>5. QED  BY <1>4 DEF AllOf

\* Characters that are not escaped.
LEMMA ReadsChars ==
    ASSUME NEW o, NEW p, NEW s, IsText(s),
           \A i \in 1 .. Len(s) : s[i][1] \in {"char", "hex", "digit"}
    PROVE  Yields(InText(o, p, <<>>), s, InText(o, p, s), {})
<1> DEFINE n == Len(s)
           piece == [i \in 1 .. n |-> <<s[i]>>]
           h == [i \in 0 .. n |-> SubSeq(s, 1, i)]
           f == [i \in 0 .. n |-> InText(o, p, SubSeq(s, 1, i))]
           F == [i \in 1 .. n |-> {}]
<1>1. n \in Nat
  BY TextLength
<1>2. /\ h[0] = <<>> /\ h[n] = s
      /\ f[0] = InText(o, p, <<>>) /\ f[n] = InText(o, p, s)
  <2>1. 0 \in 0 .. n /\ n \in 0 .. n  BY <1>1
  <2>2. h[0] = SubSeq(s, 1, 0) /\ h[n] = SubSeq(s, 1, n)
        /\ f[0] = InText(o, p, SubSeq(s, 1, 0)) /\ f[n] = InText(o, p, SubSeq(s, 1, n))
    BY <2>1
  <2>3. SubSeq(s, 1, 0) = <<>> /\ SubSeq(s, 1, n) = s
    BY PrefixEnds
  <2> HIDE DEF h, f, n
  <2>4. QED  BY <2>2, <2>3
<1>3. ASSUME NEW i \in 1 .. n
      PROVE  /\ h[i] = h[i - 1] \o piece[i]
             /\ Yields(f[i - 1], piece[i], f[i], F[i])
  <2>1. i \in 0 .. n /\ i - 1 \in 0 .. n
    BY <1>1
  <2>2. /\ h[i] = SubSeq(s, 1, i) /\ h[i - 1] = SubSeq(s, 1, i - 1) /\ piece[i] = <<s[i]>>
        /\ f[i] = InText(o, p, SubSeq(s, 1, i)) /\ f[i - 1] = InText(o, p, SubSeq(s, 1, i - 1))
        /\ F[i] = {}
    BY <2>1
  <2>3. /\ SubSeq(s, 1, i) = SubSeq(s, 1, i - 1) \o <<s[i]>>
        /\ SubSeq(s, 1, i) = Append(SubSeq(s, 1, i - 1), s[i])
    BY NextPrefix
  <2>4. s[i][1] \in {"char", "hex", "digit"}
    OBVIOUS
  <2> HIDE DEF h, f, F, piece, n
  <2>5. Yields(InText(o, p, SubSeq(s, 1, i - 1)), <<s[i]>>,
               InText(o, p, Append(SubSeq(s, 1, i - 1), s[i])), {})
    BY <2>4, ReadsChar
  <2>6. QED  BY <2>2, <2>3, <2>5
<1>4. AllOf(F, n) = {}
  BY DEF AllOf
<1>5. Yields(f[0], h[n], f[n], AllOf(F, n))
  <2> HIDE DEF h, f, F, piece, n
  <2>1. /\ \A i \in 1 .. n : h[i] = h[i - 1] \o piece[i]
        /\ \A i \in 1 .. n : Yields(f[i - 1], piece[i], f[i], F[i])
    BY <1>3
  <2>2. QED  BY <1>1, <1>2, <2>1, Pieces
<1> HIDE DEF h, f, F, piece, n
<1>6. QED  BY <1>2, <1>4, <1>5

-----------------------------------------------------------------------------
(* Values.                                                                 *)

\* A text, a number or a truth as the value of a key or an item.
Says(v, value) ==
    \A at, o, p : at \in {"value", "firstItem"} /\ o # <<>> =>
        Yields(Place(at, o, p), v, Place("behind", o, p), Fact(p, value))

\* A truth is a value.
LEMMA SaysBoolean == ASSUME NEW b PROVE Says(Boolean(b), <<"literal", b>>)
BY ReadsBoolean DEF Says

\* What is read between two quotes is a value.
LEMMA SaysText ==
    ASSUME NEW s, NEW c, \A o, p : Yields(InText(o, p, <<>>), s, InText(o, p, c), {})
    PROVE  Says(Quote \o s \o Quote, <<"string", c>>)
<1>1. ASSUME NEW at, NEW o, NEW p, at \in {"value", "firstItem"}, o # <<>>
      PROVE  Yields(Place(at, o, p), Quote \o s \o Quote, Place("behind", o, p), Fact(p, <<"string", c>>))
  <2>1. Yields(Place(at, o, p), Quote, InText(o, p, <<>>), {})
    BY <1>1, ReadsQuote
  <2>2. Yields(InText(o, p, <<>>), s, InText(o, p, c), {})
    OBVIOUS
  <2>3. Yields(InText(o, p, c), Quote, Place("behind", o, p), Fact(p, <<"string", c>>))
    BY <1>1, ReadsEndQuote
  <2>4. Yields(Place(at, o, p), Quote \o s, InText(o, p, c), {} \cup {})
    BY <2>1, <2>2, YieldsOn
  <2>5. Yields(Place(at, o, p), Quote \o s \o Quote, Place("behind", o, p), ({} \cup {}) \cup Fact(p, <<"string", c>>))
    BY <2>3, <2>4, YieldsOn
  <2>6. ({} \cup {}) \cup Fact(p, <<"string", c>>) = Fact(p, <<"string", c>>)
    OBVIOUS
  <2>7. QED  BY <2>5, <2>6
<1>2. QED  BY <1>1 DEF Says

\* Characters without escapes, between quotes, are a value.
LEMMA SaysChars ==
    ASSUME NEW s, IsText(s), \A i \in 1 .. Len(s) : s[i][1] \in {"char", "hex", "digit"}
    PROVE  Says(Quote \o s \o Quote, <<"string", s>>)
BY ReadsChars, SaysText

\* JsonAppendHex between quotes is a value.
LEMMA SaysHex == ASSUME NEW v PROVE Says(JsonAppendQuotedHex(v), <<"string", <<<<"hex", v>>>>>>)
<1>1. PICK token : token = <<"hex", v>>
  OBVIOUS
<1>2. token[1] = "hex"
  BY <1>1, Pair
<1>3. IsText(<<token>>) /\ \A i \in 1 .. Len(<<token>>) : <<token>>[i][1] \in {"char", "hex", "digit"}
  BY <1>2, OneToken
<1>4. Says(Quote \o <<token>> \o Quote, <<"string", <<token>>>>)
  BY <1>3, SaysChars
<1>5. QED  BY <1>1, <1>4 DEF JsonAppendQuotedHex

\* FlattenSeq joins one text after the other.
LEMMA Flattened ==
    ASSUME NEW n \in Nat, NEW seqs, IsText(seqs), Len(seqs) = n, \A i \in 1 .. n : IsText(seqs[i])
    PROVE  \E h : h[0] = <<>> /\ h[n] = FlattenSeq(seqs) /\ \A i \in 1 .. n : h[i] = h[i - 1] \o seqs[i]
<1> DEFINE T == UNION {Range(seqs[i]) : i \in 1 .. n}
           X == Seq(T)
           g == [z \in X \X Nat |-> IF z[2] < n THEN z[1] \o seqs[z[2] + 1] ELSE z[1]]
           Def(h) == [i \in 1 .. Len(seqs) |-> IF i = 1 THEN seqs[i] ELSE h[i - 1] \o seqs[i]]
<1>1. ASSUME NEW i \in 1 .. n PROVE seqs[i] \in X
  <2>1. seqs[i] \in Seq(Range(seqs[i]))
    BY TextLength
  <2>2. Range(seqs[i]) \subseteq T
    OBVIOUS
  <2> HIDE DEF T
  <2>3. QED  BY <2>1, <2>2, SeqMonotonic
<1>2. <<>> \in X
  OBVIOUS
<1>3. g \in [X \X Nat -> X]
  <2>1. ASSUME NEW x \in X, NEW i \in Nat PROVE (IF i < n THEN x \o seqs[i + 1] ELSE x) \in X
    <3>1. CASE i < n
      <4>1. i + 1 \in 1 .. n  BY <3>1
      <4>2. seqs[i + 1] \in X  BY <1>1, <4>1
      <4> HIDE DEF T
      <4>3. x \o seqs[i + 1] \in X  BY <4>2, ConcatProperties
      <4>4. QED  BY <3>1, <4>3
    <3>2. QED  BY <3>1
  <2> HIDE DEF X
  <2>2. QED  BY <2>1
<1>4. PICK h \in [Nat -> X] : Unfolds(h, <<>>, g)
  <2> HIDE DEF g, X
  <2>1. QED  BY <1>2, <1>3, Recursion
<1>5. h[0] = <<>>
  BY <1>4 DEF Unfolds
<1>6. ASSUME NEW i \in 1 .. n PROVE h[i] = h[i - 1] \o seqs[i]
  <2> DEFINE m == i - 1
  <2>1. m \in Nat /\ m + 1 = i /\ m < n
    OBVIOUS
  <2> HIDE DEF m
  <2>2. h[m] \in X
    <3> HIDE DEF X
    <3>1. QED  BY <2>1
  <2>3. h[m + 1] = g[<<h[m], m>>]
    <3> HIDE DEF g, X
    <3>1. QED  BY <1>4, <2>1 DEF Unfolds
  <2>4. g[<<h[m], m>>] = h[m] \o seqs[m + 1]
    <3> HIDE DEF X
    <3>1. QED  BY <2>1, <2>2
  <2> HIDE DEF g
  <2>5. h[i] = h[m] \o seqs[i]
    BY <2>1, <2>3, <2>4
  <2>6. QED  BY <2>5 DEF m
<1>7. CASE n = 0
  <2>1. seqs = <<>>
    <3>1. seqs \in Seq(Range(seqs))  BY TextLength
    <3>2. QED  BY <1>7, <3>1, EmptySeq
  <2>2. FlattenSeq(seqs) = seqs
    BY <1>7 DEF FlattenSeq
  <2>3. QED  BY <1>5, <1>6, <1>7, <2>1, <2>2
<1>8. CASE n # 0
  <2> DEFINE k == [i \in 1 .. Len(seqs) |-> h[i]]
  <2>1. k = Def(k)
    <3>1. h[1] = seqs[1]
      <4>1. 1 \in 1 .. n /\ 1 - 1 = 0  BY <1>8
      <4>2. h[1] = <<>> \o seqs[1]  BY <1>5, <1>6, <4>1
      <4>3. seqs[1] \in X  BY <1>1, <4>1
      <4> HIDE DEF T
      <4>4. <<>> \o seqs[1] = seqs[1]  BY <4>3, ConcatEmptySeq
      <4>5. QED  BY <4>2, <4>4
    <3>2. ASSUME NEW i \in 1 .. Len(seqs) PROVE h[i] = IF i = 1 THEN seqs[i] ELSE k[i - 1] \o seqs[i]
      <4>1. CASE i = 1  BY <3>1, <4>1
      <4>2. CASE i # 1
        <5>1. i - 1 \in 1 .. Len(seqs)  BY <4>2
        <5>2. k[i - 1] = h[i - 1]  BY <5>1
        <5>3. i \in 1 .. n  OBVIOUS
        <5> HIDE DEF k
        <5>4. QED  BY <1>6, <4>2, <5>2, <5>3
      <4>3. QED  BY <4>1, <4>2
    <3>3. QED  BY <3>2
  <2>2. PICK q : q = CHOOSE e : e = Def(e)
    OBVIOUS
  <2>3. q = Def(q)
    <3> HIDE DEF Def, k
    <3>1. QED  BY <2>1, <2>2
  <2>4. FlattenSeq(seqs) = q[n]
    BY <1>8, <2>2 DEF FlattenSeq
  <2>5. q[n] = h[n]
    <3> DEFINE S == {i \in Nat : i + 1 <= n => q[i + 1] = h[i + 1]}
    <3>1. 0 \in S
      <4>1. 1 \in 1 .. Len(seqs)  BY <1>8
      <4>2. q[1] = seqs[1]
        <5>1. Def(q)[1] = seqs[1]  BY <4>1
        <5> HIDE DEF Def
        <5>2. QED  BY <2>3, <5>1
      <4>3. h[1] = seqs[1]
        <5>1. k[1] = h[1] /\ Def(k)[1] = seqs[1]  BY <4>1
        <5> HIDE DEF Def, k
        <5>2. QED  BY <2>1, <5>1
      <4>4. QED  BY <4>2, <4>3
    <3>2. ASSUME NEW i \in Nat, i \in S PROVE i + 1 \in S
      <4>1. SUFFICES ASSUME (i + 1) + 1 <= n PROVE q[(i + 1) + 1] = h[(i + 1) + 1]
        OBVIOUS
      <4> DEFINE m == (i + 1) + 1
      <4>2. m \in 1 .. Len(seqs) /\ m \in 1 .. n /\ m # 1 /\ m - 1 = i + 1 /\ q[i + 1] = h[i + 1]
        BY <3>2, <4>1
      <4> HIDE DEF m, S
      <4>3. q[m] = q[m - 1] \o seqs[m]
        <5>1. Def(q)[m] = q[m - 1] \o seqs[m]  BY <4>2
        <5> HIDE DEF Def
        <5>2. QED  BY <2>3, <5>1
      <4>4. h[m] = h[m - 1] \o seqs[m]
        BY <1>6, <4>2
      <4>5. q[m] = h[m]
        BY <4>2, <4>3, <4>4
      <4>6. QED  BY <4>5 DEF m
    <3>3. n - 1 \in S
      <4>1. n - 1 \in Nat  BY <1>8
      <4> HIDE DEF S
      <4>2. QED  BY <3>1, <3>2, <4>1, Induction
    <3>4. (n - 1) + 1 = n  BY <1>8
    <3>5. QED  BY <1>8, <3>3, <3>4
  <2>6. QED  BY <1>5, <1>6, <2>4, <2>5
<1>9. QED  BY <1>7, <1>8

-----------------------------------------------------------------------------
(* Numbers.                                                                *)

\* The digits of a number are those of its tens, and its last one.
LEMMA DigitsStep ==
    \A v \in Nat : Digits[v] = IF v < 10 THEN <<v>> ELSE Append(Digits[v \div 10], v % 10)
<1> DEFINE T == Seq(Nat)
           X == [Nat -> T]
           Next1(F) == [v \in Nat |-> IF v < 10 THEN <<v>> ELSE Append(F[v \div 10], v % 10)]
           g == [z \in X \X Nat |-> Next1(z[1])]
           b == [v \in Nat |-> <<v>>]
<1>1. ASSUME NEW v \in Nat PROVE v \div 10 \in Nat /\ v % 10 \in Nat /\ (v >= 10 => v \div 10 < v)
  BY Z3
<1>2. ASSUME NEW F \in X PROVE Next1(F) \in X
  <2>1. ASSUME NEW v \in Nat PROVE (IF v < 10 THEN <<v>> ELSE Append(F[v \div 10], v % 10)) \in T
    <3>1. v \div 10 \in Nat /\ v % 10 \in Nat
      BY <1>1
    <3>2. F[v \div 10] \in T
      BY <3>1
    <3>3. Append(F[v \div 10], v % 10) \in T /\ <<v>> \in T
      BY <3>1, <3>2
    <3>4. QED  BY <3>3
  <2> HIDE DEF T
  <2>2. QED  BY <2>1
<1>3. b \in X
  <2>1. \A v \in Nat : <<v>> \in T
    OBVIOUS
  <2> HIDE DEF T
  <2>2. QED  BY <2>1
<1>4. g \in [X \X Nat -> X]
  <2> HIDE DEF X, Next1
  <2>1. QED  BY <1>2
<1>5. PICK f \in [Nat -> X] : Unfolds(f, b, g)
  <2> HIDE DEF g, X, b
  <2>1. QED  BY <1>3, <1>4, Recursion
<1>6. ASSUME NEW n \in Nat PROVE f[n + 1] = Next1(f[n])
  <2>1. f[n] \in X
    <3> HIDE DEF X
    <3>1. QED  OBVIOUS
  <2>2. f[n + 1] = g[<<f[n], n>>]
    <3> HIDE DEF g, X, b
    <3>1. QED  BY <1>5 DEF Unfolds
  <2>3. g[<<f[n], n>>] = Next1(f[n])
    <3> HIDE DEF X, Next1
    <3>1. QED  BY <2>1
  <2>4. QED  BY <2>2, <2>3
<1>7. ASSUME NEW n \in Nat, NEW v \in Nat
      PROVE  f[n + 1][v] = IF v < 10 THEN <<v>> ELSE Append(f[n][v \div 10], v % 10)
  BY <1>6
\* From number v + 1 on, nothing changes at v.
<1>8. \A n \in Nat : \A v \in Nat : v < n => f[n + 1][v] = f[n][v]
  <2> DEFINE S == {n \in Nat : \A v \in Nat : v < n => f[n + 1][v] = f[n][v]}
  <2>1. 0 \in S
    OBVIOUS
  <2>2. ASSUME NEW n \in Nat, n \in S PROVE n + 1 \in S
    <3>1. SUFFICES ASSUME NEW v \in Nat, v < n + 1 PROVE f[(n + 1) + 1][v] = f[n + 1][v]
      OBVIOUS
    <3>2. CASE v < 10
      <4>1. n + 1 \in Nat
        OBVIOUS
      <4>2. f[(n + 1) + 1][v] = <<v>> /\ f[n + 1][v] = <<v>>
        BY <1>7, <3>2, <4>1
      <4>3. QED  BY <4>2
    <3>3. CASE v >= 10
      <4>1. v \div 10 \in Nat /\ v \div 10 < n
        <5>1. v \div 10 \in Nat /\ v \div 10 < v  BY <1>1, <3>3
        <5> DEFINE w == v \div 10
        <5> HIDE DEF w
        <5>2. w \in Nat /\ w < v  BY <5>1 DEF w
        <5>3. w \in Nat /\ w < n  BY <3>1, <5>2
        <5>4. QED  BY <5>3 DEF w
      <4>2. f[n + 1][v \div 10] = f[n][v \div 10]
        BY <2>2, <4>1
      <4>3. f[(n + 1) + 1][v] = Append(f[n + 1][v \div 10], v % 10)
        <5>1. n + 1 \in Nat /\ ~(v < 10)  BY <3>3
        <5>2. QED  BY <1>7, <5>1
      <4>4. f[n + 1][v] = Append(f[n][v \div 10], v % 10)
        <5>1. ~(v < 10)  BY <3>3
        <5>2. QED  BY <1>7, <5>1
      <4>5. QED  BY <4>2, <4>3, <4>4
    <3>4. QED  BY <3>2, <3>3
  <2> HIDE DEF S
  <2>3. Nat \subseteq S  BY <2>1, <2>2, Induction
  <2>4. QED  BY <2>3 DEF S
<1>9. ASSUME NEW v \in Nat PROVE \A n \in Nat : f[(v + 1) + n][v] = f[v + 1][v]
  <2> DEFINE S == {n \in Nat : f[(v + 1) + n][v] = f[v + 1][v]}
  <2>1. 0 \in S
    OBVIOUS
  <2>2. ASSUME NEW n \in Nat, n \in S PROVE n + 1 \in S
    <3>1. (v + 1) + n \in Nat /\ v < (v + 1) + n /\ (v + 1) + (n + 1) = ((v + 1) + n) + 1
      OBVIOUS
    <3>2. f[((v + 1) + n) + 1][v] = f[(v + 1) + n][v]
      BY <1>8, <3>1
    <3>3. QED  BY <2>2, <3>1, <3>2
  <2> HIDE DEF S
  <2>3. Nat \subseteq S  BY <2>1, <2>2, Induction
  <2>4. QED  BY <2>3 DEF S
<1> DEFINE k == [v \in Nat |-> f[v + 1][v]]
<1>10. k = Next1(k)
  <2>1. ASSUME NEW v \in Nat
        PROVE  f[v + 1][v] = IF v < 10 THEN <<v>> ELSE Append(k[v \div 10], v % 10)
    <3>1. CASE v < 10
      BY <1>7, <3>1
    <3>2. CASE v >= 10
      <4> DEFINE w == v \div 10
      <4>1. w \in Nat /\ w < v
        BY <1>1, <3>2
      <4>2. f[v + 1][v] = Append(f[v][w], v % 10)
        <5>1. ~(v < 10)  BY <3>2
        <5>2. QED  BY <1>7, <5>1
      <4> HIDE DEF w
      <4>3. f[v][w] = k[w]
        <5>1. (v - w) - 1 \in Nat /\ (w + 1) + ((v - w) - 1) = v
          BY <4>1
        <5>2. f[(w + 1) + ((v - w) - 1)][w] = f[w + 1][w]
          BY <1>9, <4>1, <5>1
        <5>3. QED  BY <4>1, <5>1, <5>2
      <4>4. ~(v < 10)  BY <3>2
      <4> HIDE DEF k
      <4>5. QED  BY <4>2, <4>3, <4>4 DEF w
    <3>3. QED  BY <3>1, <3>2
  <2>2. QED  BY <2>1
<1>11. Digits = CHOOSE e : e = Next1(e)
  BY DEF Digits
<1>12. Digits = Next1(Digits)
  <2> HIDE DEF k, Next1
  <2>1. QED  BY <1>10, <1>11
<1>13. QED
  <2> TAKE v \in Nat
  <2>1. Next1(Digits)[v] = IF v < 10 THEN <<v>> ELSE Append(Digits[v \div 10], v % 10)
    OBVIOUS
  <2> HIDE DEF Next1
  <2>2. QED  BY <1>12, <2>1

\* Counts(w, d): w is what the digits d come to, one by one.
Counts(w, d) == w[0] = 0 /\ \A i \in 1 .. Len(d) : w[i] = 10 * w[i - 1] + d[i]

\* The digits of a number come to that number, and only 0 begins with a 0.
LEMMA DigitsCount ==
    ASSUME NEW v \in Nat
    PROVE  /\ Digits[v] \in Seq(Nat) /\ Len(Digits[v]) >= 1
           /\ Digits[v][1] = 0 => Len(Digits[v]) = 1
           /\ \E w \in [Nat -> Nat] : Counts(w, Digits[v]) /\ w[Len(Digits[v])] = v
<1> DEFINE Has(d, u) == \E w \in [Nat -> Nat] : Counts(w, d) /\ w[Len(d)] = u
           Good(d, u) == /\ d \in Seq(Nat) /\ Len(d) >= 1
                         /\ u > 0 => d[1] > 0
                         /\ u = 0 => Len(d) = 1
                         /\ Has(d, u)
           S == {u \in Nat : Good(Digits[u], u)}
<1>1. ASSUME NEW u \in Nat, u < 10 PROVE Good(Digits[u], u)
  <2>1. Digits[u] = <<u>>
    BY <1>1, DigitsStep
  <2>2. <<u>> \in Seq(Nat) /\ Len(<<u>>) = 1 /\ <<u>>[1] = u
    OBVIOUS
  <2> DEFINE w == [i \in Nat |-> IF i = 1 THEN u ELSE 0]
  <2>3. w \in [Nat -> Nat] /\ w[0] = 0 /\ w[1] = u
    OBVIOUS
  <2> HIDE DEF w
  <2>4. Counts(w, <<u>>)
    <3>1. ASSUME NEW i \in 1 .. Len(<<u>>) PROVE w[i] = 10 * w[i - 1] + <<u>>[i]
      <4>1. i = 1 /\ i - 1 = 0  BY <2>2
      <4>2. u = 10 * 0 + u  OBVIOUS
      <4>3. QED  BY <2>2, <2>3, <4>1, <4>2
    <3>2. QED  BY <2>3, <3>1 DEF Counts
  <2>5. Has(<<u>>, u)
    BY <2>2, <2>3, <2>4
  <2> HIDE DEF Has
  <2>6. Good(<<u>>, u)
    BY <2>2, <2>5
  <2>7. QED  BY <2>1, <2>6
<1>2. ASSUME NEW u \in Nat, u >= 10, \A m \in 0 .. u - 1 : m \in S
      PROVE  Good(Digits[u], u)
  <2> DEFINE t == u \div 10
             e == u % 10
             d == Digits[t]
  <2>1. t \in Nat /\ t < u /\ t > 0 /\ e \in Nat /\ u = 10 * t + e
    BY <1>2, Z3
  <2>2. Digits[u] = Append(d, e)
    <3>1. ~(u < 10)  BY <1>2
    <3>2. QED  BY <3>1, DigitsStep
  <2> HIDE DEF t, e
  <2>3. Good(Digits[t], t)
    <3>1. t \in 0 .. u - 1  BY <2>1
    <3> HIDE DEF Good
    <3>2. QED  BY <1>2, <3>1
  <2>4. d \in Seq(Nat) /\ Len(d) >= 1 /\ d[1] > 0 /\ Has(d, t)
    <3> HIDE DEF Has
    <3>1. QED  BY <2>1, <2>3
  <2> HIDE DEF d
  <2>5. Len(d) \in Nat
    BY <2>4, LenProperties
  <2>6. PICK w \in [Nat -> Nat] : Counts(w, d) /\ w[Len(d)] = t
    BY <2>4
  <2>7. /\ Append(d, e) \in Seq(Nat) /\ Len(Append(d, e)) = Len(d) + 1
        /\ \A i \in 1 .. Len(d) : Append(d, e)[i] = d[i]
        /\ Append(d, e)[Len(d) + 1] = e
    BY <2>1, <2>4, AppendProperties
  <2> DEFINE x == [i \in Nat |-> IF i = Len(d) + 1 THEN u ELSE w[i]]
  <2>8. x \in [Nat -> Nat]
    <3>1. \A i \in Nat : (IF i = Len(d) + 1 THEN u ELSE w[i]) \in Nat
      OBVIOUS
    <3>2. QED  BY <3>1
  <2>9. x[Len(d) + 1] = u /\ \A i \in 0 .. Len(d) : x[i] = w[i]
    <3>1. Len(d) + 1 \in Nat /\ \A i \in 0 .. Len(d) : i \in Nat /\ i # Len(d) + 1  BY <2>5
    <3>2. QED  BY <3>1
  <2> HIDE DEF x
  <2>10. Counts(x, Append(d, e))
    <3>1. x[0] = 0
      <4>1. 0 \in 0 .. Len(d)  BY <2>5
      <4>2. QED  BY <2>6, <2>9, <4>1 DEF Counts
    <3>2. ASSUME NEW i \in 1 .. Len(d) + 1 PROVE x[i] = 10 * x[i - 1] + Append(d, e)[i]
      <4>1. CASE i = Len(d) + 1
        <5>1. i - 1 = Len(d) /\ Len(d) \in 0 .. Len(d)  BY <2>5, <4>1
        <5>2. x[i - 1] = t  BY <2>6, <2>9, <5>1
        <5>3. x[i] = u /\ Append(d, e)[i] = e  BY <2>7, <2>9, <4>1
        <5>4. QED  BY <2>1, <5>2, <5>3
      <4>2. CASE i # Len(d) + 1
        <5> DEFINE n == Len(d)
        <5>0. n \in Nat /\ i \in 1 .. n + 1 /\ i # n + 1  BY <2>5, <3>2, <4>2
        <5> HIDE DEF n
        <5>1a. i \in 1 .. n /\ i \in 0 .. n /\ i - 1 \in 0 .. n  BY ONLY <5>0
        <5>1. i \in 1 .. Len(d) /\ i \in 0 .. Len(d) /\ i - 1 \in 0 .. Len(d)  BY <5>1a DEF n
        <5>2. w[i] = 10 * w[i - 1] + d[i]  BY <2>6, <5>1 DEF Counts
        <5>3. x[i] = w[i] /\ x[i - 1] = w[i - 1] /\ Append(d, e)[i] = d[i]  BY <2>7, <2>9, <5>1
        <5>4. QED  BY <5>2, <5>3
      <4>3. QED  BY <4>1, <4>2
    <3>3. QED  BY <2>7, <3>1, <3>2 DEF Counts
  <2>11. Append(d, e)[1] > 0
    <3>1. 1 \in 1 .. Len(d)  BY <2>4, <2>5
    <3>2. Append(d, e)[1] = d[1]  BY <2>7, <3>1
    <3>3. QED  BY <2>4, <3>2
  <2>12. Has(Append(d, e), u)
    <3>1. x[Len(Append(d, e))] = u  BY <2>7, <2>9
    <3>2. QED  BY <2>8, <2>10, <3>1
  <2>13. Len(Append(d, e)) >= 1
    BY <2>5, <2>7
  <2>14. ~(u = 0)
    BY <1>2
  <2> HIDE DEF Has
  <2>15. Good(Append(d, e), u)
    BY <2>7, <2>11, <2>12, <2>13, <2>14
  <2>16. QED  BY <2>2, <2>15
<1>3. Nat \subseteq S
  <2> HIDE DEF Good
  <2>1. ASSUME NEW n \in Nat, \A m \in 0 .. n - 1 : m \in S PROVE n \in S
    <3>1. n < 10 \/ n >= 10  OBVIOUS
    <3>2. Good(Digits[n], n)  BY <1>1, <1>2, <2>1, <3>1
    <3>3. QED  BY <3>2
  <2> HIDE DEF S
  <2>2. QED  BY <2>1, StrongInduction
<1>4. Good(Digits[v], v)
  <2> HIDE DEF Good
  <2>1. QED  BY <1>3
<1>5. Has(Digits[v], v) /\ Digits[v] \in Seq(Nat) /\ Len(Digits[v]) >= 1
  <2> HIDE DEF Has
  <2>1. QED  BY <1>4
<1>6. Digits[v][1] = 0 => Len(Digits[v]) = 1
  <2> HIDE DEF Has
  <2>1. v > 0 => Digits[v][1] > 0  BY <1>4
  <2>2. v = 0 => Len(Digits[v]) = 1  BY <1>4
  <2>3. v = 0 \/ v > 0  OBVIOUS
  <2>4. Digits[v][1] > 0 => Digits[v][1] # 0  OBVIOUS
  <2>5. QED  BY <2>1, <2>2, <2>3, <2>4
<1>7. QED  BY <1>5, <1>6

\* What a number read digit by digit comes to.
LEMMA NumberIs ==
    ASSUME NEW t, IsText(t), NEW w,
           w[0] = 0, \A i \in 1 .. Len(t) : w[i] = 10 * w[i - 1] + t[i][2]
    PROVE  Number(t) = w[Len(t)]
<1> DEFINE Def(h) == [n \in 0 .. Len(t) |-> IF n = 0 THEN 0 ELSE 10 * h[n - 1] + t[n][2]]
           k == [n \in 0 .. Len(t) |-> w[n]]
<1>1. Len(t) \in Nat
  BY TextLength
<1>2. k = Def(k)
  <2>1. ASSUME NEW n \in 0 .. Len(t) PROVE w[n] = IF n = 0 THEN 0 ELSE 10 * k[n - 1] + t[n][2]
    <3>1. CASE n = 0  BY <3>1
    <3>2. CASE n # 0
      <4>1. n \in 1 .. Len(t) /\ n - 1 \in 0 .. Len(t)  BY <1>1, <3>2
      <4>2. k[n - 1] = w[n - 1]  BY <4>1
      <4> HIDE DEF k
      <4>3. QED  BY <3>2, <4>1, <4>2
    <3>3. QED  BY <3>1, <3>2
  <2>2. QED  BY <2>1
<1>3. PICK q : q = CHOOSE e : e = Def(e)
  OBVIOUS
<1>4. q = Def(q)
  <2> HIDE DEF Def, k
  <2>1. QED  BY <1>2, <1>3
<1>5. Number(t) = q[Len(t)]
  BY <1>3 DEF Number
<1> DEFINE S == {i \in Nat : i <= Len(t) => q[i] = w[i]}
<1>6. 0 \in S
  <2>1. 0 \in 0 .. Len(t)  BY <1>1
  <2>2. Def(q)[0] = 0  BY <2>1
  <2> HIDE DEF Def
  <2>3. q[0] = 0  BY <1>4, <2>2
  <2>4. QED  BY <2>3
<1>7. ASSUME NEW i \in Nat, i \in S PROVE i + 1 \in S
  <2>1. SUFFICES ASSUME i + 1 <= Len(t) PROVE q[i + 1] = w[i + 1]
    OBVIOUS
  <2>2. i + 1 \in 0 .. Len(t) /\ i + 1 \in 1 .. Len(t) /\ (i + 1) - 1 = i /\ i + 1 # 0 /\ q[i] = w[i]
    BY <1>1, <1>7, <2>1
  <2> DEFINE m == i + 1
  <2> HIDE DEF m, S
  <2>3. m \in 0 .. Len(t) /\ m \in 1 .. Len(t) /\ m - 1 = i /\ m # 0
    BY <2>2 DEF m
  <2>4. Def(q)[m] = 10 * q[i] + t[m][2]
    BY <2>3
  <2> HIDE DEF Def
  <2>5. q[m] = 10 * q[i] + t[m][2]
    BY <1>4, <2>4
  <2>6. w[m] = 10 * w[i] + t[m][2]
    BY <2>3
  <2>7. q[m] = w[m]
    BY <2>2, <2>5, <2>6
  <2>8. QED  BY <2>7 DEF m
<1>8. q[Len(t)] = w[Len(t)]
  <2> HIDE DEF S
  <2>1. Len(t) \in S  BY <1>1, <1>6, <1>7, Induction
  <2>2. QED  BY <1>1, <2>1 DEF S
<1>9. QED  BY <1>5, <1>8

\* The tokens of a number are its digits, and come to the number.
LEMMA Uint64 ==
    ASSUME NEW v \in Nat
    PROVE  LET t == JsonAppendUint64(v)
           IN  /\ IsText(t) /\ Len(t) >= 1
               /\ \A i \in 1 .. Len(t) : t[i][1] = "digit"
               /\ t[1] = <<"digit", 0>> => Len(t) = 1
               /\ Number(t) = v
<1> DEFINE d == Digits[v]
           t == JsonAppendUint64(v)
<1>1. /\ d \in Seq(Nat) /\ Len(d) >= 1
      /\ d[1] = 0 => Len(d) = 1
      /\ \E w \in [Nat -> Nat] : Counts(w, d) /\ w[Len(d)] = v
  BY DigitsCount
<1>2. t = [i \in DOMAIN d |-> <<"digit", d[i]>>]
  BY DEF JsonAppendUint64
<1> HIDE DEF d, t
<1>3. Len(d) \in Nat /\ DOMAIN d = 1 .. Len(d)
  BY <1>1, LenProperties
<1> DEFINE T == {<<"digit", n>> : n \in Nat}
<1>4. ASSUME NEW i \in 1 .. Len(d)
      PROVE  t[i] = <<"digit", d[i]>> /\ t[i] \in T
  <2>1. t[i] = <<"digit", d[i]>>
    BY <1>2, <1>3
  <2>2. d[i] \in Nat
    BY <1>1, ElementOfSeq
  <2>3. QED  BY <2>1, <2>2
<1>5. t \in Seq(T) /\ Len(t) = Len(d)
  <2>1. t \in [1 .. Len(d) -> T]
    <3> HIDE DEF T
    <3>1. DOMAIN t = 1 .. Len(d) /\ t = [i \in 1 .. Len(d) |-> <<"digit", d[i]>>]
      BY <1>2, <1>3
    <3>2. \A i \in 1 .. Len(d) : <<"digit", d[i]>> \in T
      BY <1>4
    <3>3. QED  BY <3>1, <3>2
  <2> HIDE DEF T
  <2>2. t \in Seq(T)
    BY <1>3, <2>1, SeqDef
  <2>3. Len(t) = Len(d)
    <3>1. Len(t) \in Nat /\ DOMAIN t = 1 .. Len(t)  BY <2>2, LenProperties
    <3>2. 1 .. Len(t) = 1 .. Len(d)  BY <2>1, <3>1
    <3> DEFINE m == Len(t)
               n == Len(d)
    <3> HIDE DEF m, n
    <3>3. m \in Nat /\ n \in Nat /\ n >= 1 /\ 1 .. m = 1 .. n  BY <1>1, <1>3, <3>1, <3>2 DEF m, n
    <3>4. n \in 1 .. m  BY ONLY <3>3
    <3>5. m \in 1 .. n  BY ONLY <3>3, <3>4
    <3>6. m = n  BY ONLY <3>3, <3>4, <3>5
    <3>7. QED  BY <3>6 DEF m, n
  <2>4. QED  BY <2>2, <2>3
<1>6. IsText(t) /\ Len(t) >= 1
  BY <1>1, <1>5 DEF IsText
<1>7. ASSUME NEW i \in 1 .. Len(t) PROVE t[i][1] = "digit" /\ t[i][2] = d[i]
  BY <1>4, <1>5, Pair
<1>8. t[1] = <<"digit", 0>> => Len(t) = 1
  <2>1. ASSUME t[1] = <<"digit", 0>> PROVE Len(t) = 1
    <3>1. 1 \in 1 .. Len(t)  BY <1>3, <1>5, <1>6
    <3>2. t[1][2] = 0  BY <2>1, Pair
    <3>3. d[1] = 0  BY <1>7, <3>1, <3>2
    <3>4. QED  BY <1>1, <1>5, <3>3
  <2>2. QED  BY <2>1
<1>9. Number(t) = v
  <2>1. PICK w \in [Nat -> Nat] : Counts(w, d) /\ w[Len(d)] = v
    BY <1>1
  <2>2. w[0] = 0 /\ \A i \in 1 .. Len(t) : w[i] = 10 * w[i - 1] + t[i][2]
    BY <1>5, <1>7, <2>1 DEF Counts
  <2>3. Number(t) = w[Len(t)]
    BY <1>6, <2>2, NumberIs
  <2>4. QED  BY <1>5, <2>1, <2>3
<1>10. QED  BY <1>6, <1>7, <1>8, <1>9 DEF t

\* A digit goes on with a number that has no leading zero.
LEMMA NumberRead ==
    ASSUME NEW o, NEW p, NEW c, NEW G, NEW token, token[1] = "digit", c # <<<<"digit", 0>>>>
    PROVE  Read(Reader("number", o, p, c, G), token) = Reader("number", o, p, Append(c, token), G)
<1> DEFINE r == Reader("number", o, p, c, G)
<1>1. PICK x : x = Append(c, token)
  OBVIOUS
<1>2. r.at = "number" /\ r.scalar = c
  BY DEF Reader
<1>3. [r EXCEPT !.scalar = x] = Reader("number", o, p, x, G)
  BY ONLY TRUE DEF Reader
<1> HIDE DEF r
<1>4. Read(r, token) = [r EXCEPT !.scalar = x]
  BY <1>1, <1>2 DEF Read
<1>5. QED  BY <1>1, <1>3, <1>4 DEF r

\* JsonAppendUint64 is a value: the number.
LEMMA SaysNumber ==
    ASSUME NEW v \in Nat
    PROVE  Says(JsonAppendUint64(v), <<"number", v>>)
<1> DEFINE t == JsonAppendUint64(v)
<1>1. /\ IsText(t) /\ Len(t) >= 1
      /\ \A i \in 1 .. Len(t) : t[i][1] = "digit"
      /\ t[1] = <<"digit", 0>> => Len(t) = 1
      /\ Number(t) = v
  BY Uint64
<1> HIDE DEF t
<1>2. Len(t) \in Nat
  BY <1>1, TextLength
<1>3. SubSeq(t, 1, 1) = <<t[1]>>
  <2>1. 1 \in 1 .. Len(t) /\ 1 - 1 = 0  BY <1>1, <1>2
  <2>2. SubSeq(t, 1, 1) = Append(SubSeq(t, 1, 1 - 1), t[1])  BY <1>1, <2>1, NextPrefix
  <2>3. SubSeq(t, 1, 0) = <<>>  BY <1>1, PrefixEnds
  <2>4. Append(<<>>, t[1]) = <<t[1]>>  BY Tuples
  <2>5. QED  BY <2>1, <2>2, <2>3, <2>4
<1>4. ASSUME NEW at, NEW o, NEW p, at \in {"value", "firstItem"}, o # <<>>, NEW G
      PROVE  Goes(Reader(at, o, p, <<>>, G), t, Reader("behind", o, p, <<>>, G \cup Fact(p, <<"number", v>>)))
  <2> DEFINE r == Reader(at, o, p, <<>>, G)
             R(k) == Reader("number", o, p, SubSeq(t, 1, k), G)
             f == [k \in 0 .. Len(t) |-> IF k = 0 THEN r ELSE R(k)]
             z == Reader("behind", o, p, <<>>, G \cup Fact(p, <<"number", v>>))
  <2>1. r.at = at /\ at \notin {"number", "behind", "end"}
    <3>1. r.at = at  BY ONLY Fields
    <3>2. QED  BY <1>4, <3>1
  <2>2. f[0] = r /\ \A k \in 1 .. Len(t) : f[k] = R(k)
    BY <1>2
  <2>3. ASSUME NEW k \in 1 .. Len(t) PROVE f[k] = Read(f[k - 1], t[k])
    <3>1. t[k][1] = "digit"
      BY <1>1
    <3>2. CASE k = 1
      <4>1. EndNumber(r) = r
        BY <2>1 DEF EndNumber
      <4>2. Read(r, t[1]) = Continue(r, t[1])
        <5> HIDE DEF r
        <5>1. QED  BY <2>1, <4>1 DEF Read
      <4>3. Continue(r, t[1]) = AtValue(r, t[1])
        <5> HIDE DEF r
        <5>1. QED  BY <1>4, <2>1, Continues
      <4>4. AtValue(r, t[1]) = Reader("number", o, p, <<t[1]>>, G)
        BY <3>1, <3>2, DigitRead
      <4>5. R(1) = Reader("number", o, p, <<t[1]>>, G)
        BY <1>3
      <4>6. f[1] = R(1) /\ k - 1 = 0
        BY <2>2, <3>2
      <4> HIDE DEF f, R, r
      <4>7. QED  BY <2>2, <3>2, <4>2, <4>3, <4>4, <4>5, <4>6
    <3>3. CASE k # 1
      <4>1. k - 1 \in 1 .. Len(t) /\ k - 1 >= 1
        BY <1>2, <3>3
      <4> DEFINE c == SubSeq(t, 1, k - 1)
      <4>2. SubSeq(t, 1, k) = Append(c, t[k])
        BY <1>1, NextPrefix
      <4>3. c # <<<<"digit", 0>>>>
        <5>1. SUFFICES ASSUME c = <<<<"digit", 0>>>> PROVE FALSE
          OBVIOUS
        <5>2. Len(c) = k - 1
          <6>1. k - 1 \in 0 .. Len(t)  BY <4>1
          <6>2. QED  BY <1>1, <6>1, Prefix
        <5>3. k - 1 = 1
          <6> HIDE DEF c
          <6>1. QED  BY <5>1, <5>2, OneToken
        <5>4. <<t[1]>> = <<<<"digit", 0>>>>
          BY <1>3, <5>1, <5>3
        <5>5. <<t[1]>>[1] = <<<<"digit", 0>>>>[1]
          BY <5>4
        <5>6. t[1] = <<"digit", 0>>
          BY <5>5, OneToken
        <5>7. Len(t) = 1
          BY <1>1, <5>6
        <5>8. QED  BY <3>3, <5>7
      <4>4. Read(R(k - 1), t[k]) = Reader("number", o, p, Append(c, t[k]), G)
        <5>1. R(k - 1) = Reader("number", o, p, c, G)
          OBVIOUS
        <5> HIDE DEF R, c, f, r
        <5>2. Read(Reader("number", o, p, c, G), t[k]) = Reader("number", o, p, Append(c, t[k]), G)
          BY <3>1, <4>3, NumberRead
        <5>3. QED  BY <5>1, <5>2
      <4>5. R(k) = Reader("number", o, p, Append(c, t[k]), G)
        BY <4>2
      <4>6. f[k] = R(k) /\ f[k - 1] = R(k - 1)
        BY <2>2, <4>1
      <4> HIDE DEF f, R, r, c
      <4>7. QED  BY <4>4, <4>5, <4>6
    <3>4. QED  BY <3>2, <3>3
  <2>4. EndNumber(R(Len(t))) = z
    <3>1. SubSeq(t, 1, Len(t)) = t
      BY <1>1, PrefixEnds
    <3>2. R(Len(t)).at = "number" /\ R(Len(t)).scalar = t
      <4>1. R(Len(t)).at = "number" /\ R(Len(t)).scalar = SubSeq(t, 1, Len(t))
        <5>1. PICK c : c = SubSeq(t, 1, Len(t))
          OBVIOUS
        <5>2. R(Len(t)) = Reader("number", o, p, c, G)
          BY <5>1
        <5>3. Reader("number", o, p, c, G).at = "number" /\ Reader("number", o, p, c, G).scalar = c
          BY ONLY Fields
        <5> HIDE DEF R
        <5>4. QED  BY <5>1, <5>2, <5>3
      <4> HIDE DEF R
      <4>2. QED  BY <3>1, <4>1
    <3>3. PICK value : value = <<"number", Number(R(Len(t)).scalar)>>
      OBVIOUS
    <3>4. EndNumber(R(Len(t))) = Take(R(Len(t)), value)
      <4> HIDE DEF R
      <4>1. QED  BY <3>2, <3>3 DEF EndNumber
    <3>5. Take(R(Len(t)), value) = Reader(Where(o), o, p, <<>>, G \cup Fact(p, value))
      BY Takes
    <3>6. value = <<"number", v>>
      BY <1>1, <3>2, <3>3
    <3>7. Where(o) = "behind"
      BY <1>4, Contained
    <3> HIDE DEF R
    <3>8. QED  BY <3>4, <3>5, <3>6, <3>7
  <2>5. Reads(r, t, R(Len(t))) /\ IsReader(R(Len(t)))
    <3>1. f[Len(t)] = R(Len(t))
      <4>1. Len(t) \in 1 .. Len(t)  BY <1>1, <1>2
      <4> HIDE DEF f, R
      <4>2. QED  BY <2>2, <4>1
    <3>2. IsReader(R(Len(t)))
      BY ONLY Fields DEF R
    <3> HIDE DEF f, R, r
    <3>3. QED  BY <2>2, <2>3, <3>1, <3>2 DEF Reads
  <2>6. ASSUME NEW a, IsReader(a), EndNumber(a) = r
        PROVE  \E b : IsReader(b) /\ Reads(a, t, b) /\ EndNumber(b) = z
    <3>1. r.at \notin {"behind", "end"}
      BY <2>1
    <3> HIDE DEF r, R, z, f
    <3>2. a = r
      BY <2>6, <3>1, Stands
    <3>3. QED  BY <2>4, <2>5, <3>2
  <2>7. Goes(r, t, z)
    <3> HIDE DEF r, R, z, f
    <3>1. QED  BY <1>1, <2>6 DEF Goes
  <2>8. QED  BY <2>7
<1>5. ASSUME NEW at, NEW o, NEW p, at \in {"value", "firstItem"}, o # <<>>
      PROVE  Yields(Place(at, o, p), t, Place("behind", o, p), Fact(p, <<"number", v>>))
  <2>1. ASSUME NEW G
        PROVE  Goes(Holding(Place(at, o, p), G), t, Holding(Place("behind", o, p), G \cup Fact(p, <<"number", v>>)))
    <3>1. Goes(Reader(at, o, p, <<>>, G), t, Reader("behind", o, p, <<>>, G \cup Fact(p, <<"number", v>>)))
      BY <1>4, <1>5
    <3>2. QED  BY <3>1, Holdings DEF Place
  <2>2. QED  BY <2>1 DEF Yields
<1>6. QED  BY <1>5 DEF Says, t

-----------------------------------------------------------------------------
(* Strings.                                                                *)

\* A function on 1 .. n is a text.
LEMMA Sequence ==
    ASSUME NEW n \in Nat, NEW T, NEW m \in [1 .. n -> T]
    PROVE  m \in Seq(T) /\ IsText(m) /\ Len(m) = n
<1>1. m \in Seq(T)
  BY SeqDef
<1>2. Len(m) \in Nat /\ 1 .. Len(m) = 1 .. n
  BY <1>1, LenProperties
<1> DEFINE k == Len(m)
<1> HIDE DEF k
<1>3. n \in Nat /\ k \in Nat /\ 1 .. k = 1 .. n
  BY <1>2 DEF k
<1>4. k = n
  <2>1. CASE n >= 1
    <3>1. n \in 1 .. k  BY ONLY <1>3, <2>1
    <3>2. k \in 1 .. n  BY ONLY <1>3, <3>1
    <3>3. QED  BY ONLY <1>3, <3>1, <3>2
  <2>2. CASE n = 0
    <3>1. k \in 1 .. k \/ k = 0  BY ONLY <1>3
    <3>2. k \in 1 .. n \/ k = 0  BY ONLY <1>3, <3>1
    <3>3. QED  BY ONLY <1>3, <2>2, <3>2
  <2>3. n >= 1 \/ n = 0
    BY ONLY <1>3
  <2>4. QED  BY <2>1, <2>2, <2>3
<1>5. QED  BY <1>1, <1>4 DEF IsText, k

\* What is left of a character in the report.
Shown(c) == CASE c = "other" -> <<"char", "questionMark">>
              [] c \in {"quote", "backslash"} -> <<c>>
              [] OTHER -> <<"char", c>>

\* What is left of a text, character by character.
LEMMA Legibles ==
    ASSUME NEW s, IsText(s)
    PROVE  /\ IsText(Legible(s)) /\ Len(Legible(s)) = Len(s)
           /\ \A i \in 1 .. Len(s) : Legible(s)[i] = Shown(s[i])
<1>1. Len(s) \in Nat /\ DOMAIN s = 1 .. Len(s)
  BY TextLength
<1>2. Legible(s) = [i \in DOMAIN s |-> Shown(s[i])]
  BY DEF Legible, Shown
<1> DEFINE T == {Shown(s[i]) : i \in 1 .. Len(s)}
<1>3. Legible(s) \in [1 .. Len(s) -> T]
  BY <1>1, <1>2
<1>4. \A i \in 1 .. Len(s) : Legible(s)[i] = Shown(s[i])
  BY <1>1, <1>2
<1> HIDE DEF T
<1>5. QED  BY <1>1, <1>3, <1>4, Sequence

\* A character escaped is read as itself.
LEMMA ReadsCharacter ==
    ASSUME NEW x, NEW o, NEW p, NEW c
    PROVE  /\ Yields(InText(o, p, c), Escaped(x), InText(o, p, Append(c, Shown(x))), {})
           /\ IsText(Escaped(x))
<1>1. ASSUME NEW token, token[1] \in {"quote", "backslash"}
      PROVE  /\ Yields(InText(o, p, c), <<<<"backslash">>, token>>, InText(o, p, Append(c, token)), {})
             /\ IsText(<<<<"backslash">>, token>>)
  <2>1. Yields(InText(o, p, c), <<<<"backslash">>>>, Reader("escape", o, p, c, {}), {})
    BY ReadsBackslash
  <2>2. Yields(Reader("escape", o, p, c, {}), <<token>>, InText(o, p, Append(c, token)), {})
    BY <1>1, ReadsEscaped
  <2>3. Yields(InText(o, p, c), <<<<"backslash">>>> \o <<token>>, InText(o, p, Append(c, token)), {} \cup {})
    BY <2>1, <2>2, YieldsOn
  <2>4. <<<<"backslash">>, token>> = <<<<"backslash">>>> \o <<token>> /\ IsText(<<<<"backslash">>, token>>)
    BY Pair
  <2>5. {} \cup {} = {}
    OBVIOUS
  <2>6. QED  BY <2>3, <2>4, <2>5
<1>2. ASSUME NEW token, token[1] = "char"
      PROVE  Yields(InText(o, p, c), <<token>>, InText(o, p, Append(c, token)), {}) /\ IsText(<<token>>)
  BY <1>2, ReadsChar, OneToken
<1>3. CASE x = "quote"
  <2>1. PICK token : token = <<"quote">> /\ token[1] = "quote"
    BY OneToken
  <2>2. Escaped(x) = <<<<"backslash">>, token>> /\ Shown(x) = token
    BY <1>3, <2>1 DEF Escaped, Shown
  <2>3. QED  BY <1>1, <2>1, <2>2
<1>4. CASE x = "backslash"
  <2>1. PICK token : token = <<"backslash">> /\ token[1] = "backslash"
    BY OneToken
  <2>2. Escaped(x) = <<<<"backslash">>, token>> /\ Shown(x) = token
    BY <1>4, <2>1 DEF Escaped, Shown
  <2>3. QED  BY <1>1, <2>1, <2>2
<1>5. CASE x = "other"
  <2>0. <<"char", "questionMark">>[1] = "char"
    BY Pair
  <2>1. PICK token : token = <<"char", "questionMark">> /\ token[1] = "char"
    BY <2>0
  <2>2. Escaped(x) = <<token>> /\ Shown(x) = token
    BY <1>5, <2>1 DEF Escaped, Shown
  <2>3. QED  BY <1>2, <2>1, <2>2
<1>6. CASE x \notin {"quote", "backslash", "other"}
  <2>0. <<"char", x>>[1] = "char"
    BY Pair
  <2>1. PICK token : token = <<"char", x>> /\ token[1] = "char"
    BY <2>0
  <2>2. Escaped(x) = <<token>> /\ Shown(x) = token
    BY <1>6, <2>1 DEF Escaped, Shown
  <2>3. QED  BY <1>2, <2>1, <2>2
<1>7. QED  BY <1>3, <1>4, <1>5, <1>6

\* A text escaped is read as what is left of it.
LEMMA ReadsEscapedText ==
    ASSUME NEW o, NEW p, NEW s, IsText(s)
    PROVE  Yields(InText(o, p, <<>>), FlattenSeq([i \in DOMAIN s |-> Escaped(s[i])]), InText(o, p, Legible(s)), {})
<1> DEFINE n == Len(s)
           l == Legible(s)
           piece == [i \in DOMAIN s |-> Escaped(s[i])]
           f == [i \in 0 .. n |-> InText(o, p, SubSeq(l, 1, i))]
           F == [i \in 1 .. n |-> {}]
<1>1. n \in Nat /\ DOMAIN s = 1 .. n
  BY TextLength
<1>2. /\ IsText(l) /\ Len(l) = n
      /\ \A i \in 1 .. n : l[i] = Shown(s[i])
  BY Legibles
<1>3. \A i \in 1 .. n : piece[i] = Escaped(s[i]) /\ IsText(piece[i])
  BY <1>1, ReadsCharacter
<1>4. IsText(piece) /\ Len(piece) = n
  <2> DEFINE T == {Escaped(s[i]) : i \in 1 .. n}
  <2>1. piece \in [1 .. n -> T]
    BY <1>1
  <2> HIDE DEF T, piece
  <2>2. QED  BY <1>1, <2>1, Sequence
<1> HIDE DEF piece, l
<1>5. PICK h : h[0] = <<>> /\ h[n] = FlattenSeq(piece) /\ \A i \in 1 .. n : h[i] = h[i - 1] \o piece[i]
  BY <1>1, <1>3, <1>4, Flattened
<1>6. f[0] = InText(o, p, <<>>) /\ f[n] = InText(o, p, l)
  <2>1. 0 \in 0 .. n /\ n \in 0 .. n  BY <1>1
  <2>2. f[0] = InText(o, p, SubSeq(l, 1, 0)) /\ f[n] = InText(o, p, SubSeq(l, 1, n))
    BY <2>1
  <2>3. SubSeq(l, 1, 0) = <<>> /\ SubSeq(l, 1, n) = l
    <3> HIDE DEF n
    <3>1. QED  BY <1>2, PrefixEnds
  <2> HIDE DEF f, n
  <2>4. QED  BY <2>2, <2>3
<1>7. ASSUME NEW i \in 1 .. n
      PROVE  Yields(f[i - 1], piece[i], f[i], F[i])
  <2>1. i \in 0 .. n /\ i - 1 \in 0 .. n
    BY <1>1
  <2>2. /\ f[i] = InText(o, p, SubSeq(l, 1, i)) /\ f[i - 1] = InText(o, p, SubSeq(l, 1, i - 1))
        /\ F[i] = {}
    BY <2>1
  <2>3. SubSeq(l, 1, i) = Append(SubSeq(l, 1, i - 1), l[i])
    <3>1. i \in 1 .. Len(l)  BY <1>2
    <3>2. QED  BY <1>2, <3>1, NextPrefix
  <2>4. piece[i] = Escaped(s[i]) /\ l[i] = Shown(s[i])
    BY <1>2, <1>3
  <2> HIDE DEF f, F, n
  <2>5. Yields(InText(o, p, SubSeq(l, 1, i - 1)), Escaped(s[i]),
               InText(o, p, Append(SubSeq(l, 1, i - 1), Shown(s[i]))), {})
    BY ReadsCharacter
  <2>6. QED  BY <2>2, <2>3, <2>4, <2>5
<1>8. AllOf(F, n) = {}
  BY DEF AllOf
<1>9. Yields(f[0], h[n], f[n], AllOf(F, n))
  <2> HIDE DEF f, F, n
  <2>1. QED  BY <1>1, <1>5, <1>7, Pieces
<1> HIDE DEF f, F, n
<1>10. QED  BY <1>5, <1>6, <1>8, <1>9 DEF l, piece

\* JsonAppendEscapedChar16 is a value: what is left of the text.
LEMMA SaysEscaped ==
    ASSUME NEW s, IsText(s), s # NULL
    PROVE  Says(JsonAppendEscapedChar16(s), <<"string", Legible(s)>>)
<1>1. PICK t : t = FlattenSeq([i \in DOMAIN s |-> Escaped(s[i])])
  OBVIOUS
<1>2. \A o, p : Yields(InText(o, p, <<>>), t, InText(o, p, Legible(s)), {})
  BY <1>1, ReadsEscapedText
<1>3. Says(Quote \o t \o Quote, <<"string", Legible(s)>>)
  BY <1>2, SaysText
<1>4. JsonAppendEscapedChar16(s) = Quote \o t \o Quote
  BY <1>1 DEF JsonAppendEscapedChar16
<1>5. QED  BY <1>3, <1>4

\* Joining texts is associative.
LEMMA Associates ==
    ASSUME NEW s, NEW t, NEW u, IsText(s), IsText(t), IsText(u)
    PROVE  (s \o t) \o u = s \o (t \o u)
<1> DEFINE T == Range(s) \cup Range(t) \cup Range(u)
<1>1. s \in Seq(Range(s)) /\ t \in Seq(Range(t)) /\ u \in Seq(Range(u))
  BY TextLength
<1>2. Range(s) \subseteq T /\ Range(t) \subseteq T /\ Range(u) \subseteq T
  OBVIOUS
<1> HIDE DEF T
<1>3. s \in Seq(T) /\ t \in Seq(T) /\ u \in Seq(T)
  BY <1>1, <1>2, SeqMonotonic
<1>4. QED  BY <1>3, ConcatAssociative

\* The empty text joined before or behind.
LEMMA Nothing ==
    ASSUME NEW s, IsText(s)
    PROVE  <<>> \o s = s /\ s \o <<>> = s
<1>1. s \in Seq(Range(s))
  BY TextLength
<1>2. QED  BY <1>1, ConcatEmptySeq

\* The uefiRevision.
LEMMA SaysRevision ==
    ASSUME NEW s, NEW t, NEW m \in Nat, NEW n \in Nat, NEW c,
           c = JsonAppendUint64(m) \o <<<<"char", "dot">>>> \o JsonAppendUint64(n)
    PROVE  Says(Quote \o c \o Quote, <<"string", c>>)
<1> DEFINE a == JsonAppendUint64(m)
           b == JsonAppendUint64(n)
           E(x) == x[1] \in {"char", "hex", "digit"}
           All(x) == IsText(x) /\ \A i \in 1 .. Len(x) : E(x[i])
<1>1. All(a) /\ All(b)
  <2>1. IsText(a) /\ IsText(b) /\ (\A i \in 1 .. Len(a) : a[i][1] = "digit") /\ (\A i \in 1 .. Len(b) : b[i][1] = "digit")
    BY Uint64
  <2> HIDE DEF a, b
  <2>2. QED  BY <2>1
<1>2. PICK token : token = <<"char", "dot">>
  OBVIOUS
<1>3. All(<<token>>)
  BY <1>2, OneToken, Pair
<1>4. ASSUME NEW x, NEW y, All(x), All(y) PROVE All(x \o y)
  <2>1. /\ IsText(x \o y) /\ Len(x \o y) = Len(x) + Len(y)
        /\ \A i \in 1 .. Len(x) : (x \o y)[i] = x[i]
        /\ \A i \in 1 .. Len(y) : (x \o y)[Len(x) + i] = y[i]
    BY <1>4, Joined
  <2>2. Len(x) \in Nat /\ Len(y) \in Nat
    BY <1>4, TextLength
  <2>3. ASSUME NEW i \in 1 .. Len(x \o y) PROVE E((x \o y)[i])
    <3> HIDE DEF E
    <3>1. CASE i <= Len(x)
      <4>1. i \in 1 .. Len(x)  BY <2>1, <2>2, <3>1
      <4>2. QED  BY <1>4, <2>1, <4>1
    <3>2. CASE ~(i <= Len(x))
      <4>1. i - Len(x) \in 1 .. Len(y) /\ Len(x) + (i - Len(x)) = i  BY <2>1, <2>2, <3>2
      <4>2. (x \o y)[Len(x) + (i - Len(x))] = y[i - Len(x)]  BY <2>1, <4>1
      <4>3. E(y[i - Len(x)])  BY <1>4, <4>1
      <4>4. QED  BY <4>1, <4>2, <4>3
    <3>3. QED  BY <3>1, <3>2
  <2>4. QED  BY <2>1, <2>3
<1>5. c = a \o <<token>> \o b
  BY <1>2
<1>6. All(c)
  <2> HIDE DEF All, a, b
  <2>1. QED  BY <1>1, <1>3, <1>4, <1>5
<1>7. QED  BY <1>6, SaysChars

\* Something has a least one.
LEMMA Least ==
    ASSUME NEW S \in SUBSET Nat, S # {}
    PROVE  Min(S) \in S
BY LeastElement DEF Min

\* Up to a character, it is a text of the same characters.
LEMMA Cut ==
    ASSUME NEW T, NEW s \in Seq(T), NEW c
    PROVE  /\ Upto(s, c) \in Seq(T)
           /\ c \notin Range(s) => Upto(s, c) = s
<1>1. CASE c \notin Range(s)
  BY <1>1 DEF Upto
<1>2. CASE c \in Range(s)
  <2> DEFINE I == {i \in 1 .. Len(s) : s[i] = c}
             m == Min(I)
  <2>1. Len(s) \in Nat /\ DOMAIN s = 1 .. Len(s)
    BY LenProperties
  <2>2. I # {} /\ I \in SUBSET Nat
    BY <1>2, <2>1 DEF Range
  <2>3. SelectInSeq(s, LAMBDA x : x = c) = m
    BY <2>2 DEF SelectInSeq
  <2>4. m \in I
    <3> HIDE DEF I
    <3>1. QED  BY <2>2, Least
  <2>5. m \in 1 .. Len(s)
    BY <2>4
  <2> HIDE DEF m
  <2>6. m - 1 \in Int /\ \A i \in 1 .. m - 1 : i \in 1 .. Len(s)
    BY <2>1, <2>5
  <2>7. \A i \in 1 .. m - 1 : s[i] \in T
    BY <2>6, ElementOfSeq
  <2>8. SubSeq(s, 1, m - 1) \in Seq(T)
    BY <2>6, <2>7, SubSeqProperties
  <2>9. Upto(s, c) = SubSeq(s, 1, m - 1)
    BY <1>2, <2>3 DEF Upto
  <2>10. QED  BY <1>2, <2>8, <2>9
<1>3. QED  BY <1>1, <1>2

-----------------------------------------------------------------------------
(* Members, objects and arrays.                                            *)

\* A text that yields F, with one more piece.  A key:
LEMMA AddsKey ==
    ASSUME NEW x, NEW s, NEW at, NEW o, NEW p, NEW F, NEW k, NEW q,
           Yields(x, s, Place(at, o, p), F), at \in {"key", "firstKey"}, Under(p, k, q)
    PROVE  Yields(x, s \o Key(k), Place("value", o, q), F)
<1>1. Yields(Place(at, o, p), Key(k), Place("value", o, q), {})
  BY ReadsKey
<1>2. Yields(x, s \o Key(k), Place("value", o, q), F \cup {})
  BY <1>1, YieldsOn
<1>3. F \cup {} = F
  OBVIOUS
<1>4. QED  BY <1>2, <1>3

\* a value:
LEMMA AddsValue ==
    ASSUME NEW x, NEW s, NEW at, NEW o, NEW p, NEW F, NEW v, NEW value,
           Yields(x, s, Place(at, o, p), F), at \in {"value", "firstItem"}, o # <<>>, Says(v, value)
    PROVE  Yields(x, s \o v, Place("behind", o, p), F \cup Fact(p, value))
<1>1. Yields(Place(at, o, p), v, Place("behind", o, p), Fact(p, value))
  BY DEF Says
<1>2. QED  BY <1>1, YieldsOn

\* a comma:
LEMMA AddsComma ==
    ASSUME NEW x, NEW s, NEW o, NEW p, NEW F, NEW k, NEW q, NEW o0,
           Yields(x, s, Place("behind", o, q), F), Under(o0, "object", o), Under(p, k, q)
    PROVE  Yields(x, s \o Comma, Place("key", o, p), F)
<1>1. Yields(Place("behind", o, q), Comma, Place("key", o, p), {})
  BY ReadsComma
<1>2. Yields(x, s \o Comma, Place("key", o, p), F \cup {})
  BY <1>1, YieldsOn
<1>3. F \cup {} = F
  OBVIOUS
<1>4. QED  BY <1>2, <1>3

\* a brace that opens an object:
LEMMA AddsOpen ==
    ASSUME NEW x, NEW s, NEW at, NEW o, NEW p, NEW F, NEW o1,
           Yields(x, s, Place(at, o, p), F), at \in {"value", "firstItem"}, Under(o, "object", o1)
    PROVE  Yields(x, s \o Open, Place("firstKey", o1, p), F)
<1>1. Yields(Place(at, o, p), Open, Place("firstKey", o1, p), {})
  BY ReadsOpen
<1>2. Yields(x, s \o Open, Place("firstKey", o1, p), F \cup {})
  BY <1>1, YieldsOn
<1>3. F \cup {} = F
  OBVIOUS
<1>4. QED  BY <1>2, <1>3

\* a brace that closes one.
LEMMA AddsClose ==
    ASSUME NEW x, NEW s, NEW o, NEW p, NEW F, NEW k, NEW q, NEW o1,
           Yields(x, s, Place("behind", o1, q), F), Under(o, "object", o1), Under(p, k, q)
    PROVE  Yields(x, s \o Close, Place(Where(o), o, p), F)
<1>1. Yields(Place("behind", o1, q), Close, Place(Where(o), o, p), {})
  BY ReadsClose
<1>2. Yields(x, s \o Close, Place(Where(o), o, p), F \cup {})
  BY <1>1, YieldsOn
<1>3. F \cup {} = F
  OBVIOUS
<1>4. QED  BY <1>2, <1>3

\* A member of an object, the first or one after a comma.
LEMMA AddsMember ==
    ASSUME NEW x, NEW s, NEW at, NEW o, NEW p, NEW F, NEW k, NEW q, NEW v, NEW value, NEW o0,
           Yields(x, s, Place(at, o, p), F), at \in {"key", "firstKey"},
           Under(o0, "object", o), Under(p, k, q), Says(v, value)
    PROVE  Yields(x, s \o Key(k) \o v, Place("behind", o, q), F \cup Fact(q, value))
<1>1. Yields(x, s \o Key(k), Place("value", o, q), F)
  BY AddsKey
<1>2. o # <<>>
  BY DEF Under
<1>3. QED  BY <1>1, <1>2, AddsValue

\* A member behind a comma.
LEMMA AddsNext ==
    ASSUME NEW x, NEW s, NEW o, NEW p, NEW F, NEW j, NEW r, NEW k, NEW q, NEW v, NEW value, NEW o0,
           Yields(x, s, Place("behind", o, r), F), Under(p, j, r),
           Under(o0, "object", o), Under(p, k, q), Says(v, value)
    PROVE  Yields(x, s \o Comma \o Key(k) \o v, Place("behind", o, q), F \cup Fact(q, value))
<1>1. Yields(x, s \o Comma, Place("key", o, p), F)
  BY AddsComma
<1>2. QED  BY <1>1, AddsMember

\* A key and the brace of its object.
LEMMA AddsObject ==
    ASSUME NEW x, NEW s, NEW at, NEW o, NEW p, NEW F, NEW k, NEW q, NEW o1,
           Yields(x, s, Place(at, o, p), F), at \in {"key", "firstKey"},
           Under(o, "object", o1), Under(p, k, q)
    PROVE  Yields(x, s \o Key(k) \o Open, Place("firstKey", o1, q), F)
<1>1. Yields(x, s \o Key(k), Place("value", o, q), F)
  BY AddsKey
<1>2. QED  BY <1>1, AddsOpen

\* The items of an array.
LEMMA ReadsItems ==
    ASSUME NEW o0, NEW o, Under(o0, "array", o), NEW p, IsText(p),
           NEW n \in Nat, NEW items, IsText(items), Len(items) = n, NEW F,
           \A i \in 1 .. n :
              /\ IsText(items[i])
              /\ \A at \in {"value", "firstItem"} :
                    Yields(Place(at, o, Append(p, i)), items[i], Place("behind", o, Append(p, i)), F[i])
    PROVE  \E at \in {"behind", "firstItem"}, i \in Nat :
              Yields(Place("firstItem", o, Append(p, 1)), Separated(items), Place(at, o, Append(p, i)), AllOf(F, n))
<1> DEFINE piece == [i \in DOMAIN items |-> (IF i = 1 THEN <<>> ELSE Comma) \o items[i]]
           f == [i \in 0 .. n |-> IF i = 0 THEN Place("firstItem", o, Append(p, 1)) ELSE Place("behind", o, Append(p, i))]
<1>1. DOMAIN items = 1 .. n
  BY TextLength
<1>2. IsText(Comma)
  BY OneToken DEF Comma
<1>3. ASSUME NEW i \in 1 .. n
      PROVE  /\ IsText(piece[i])
             /\ i = 1 => piece[i] = items[i]
             /\ i # 1 => piece[i] = Comma \o items[i]
  <2>1. piece[i] = (IF i = 1 THEN <<>> ELSE Comma) \o items[i]
    BY <1>1
  <2>2. IsText(items[i])
    OBVIOUS
  <2>3. <<>> \o items[i] = items[i] /\ IsText(Comma \o items[i])
    BY <1>2, <2>2, Nothing, Joined
  <2> HIDE DEF piece
  <2>4. QED  BY <2>1, <2>2, <2>3
<1>4. IsText(piece) /\ Len(piece) = n
  <2> DEFINE T == {piece[i] : i \in 1 .. n}
  <2>1. piece \in [1 .. n -> T]
    BY <1>1
  <2> HIDE DEF T, piece
  <2>2. QED  BY <2>1, Sequence
<1>5. Separated(items) = FlattenSeq(piece)
  BY DEF Separated
<1> HIDE DEF piece
<1>6. PICK h : h[0] = <<>> /\ h[n] = FlattenSeq(piece) /\ \A i \in 1 .. n : h[i] = h[i - 1] \o piece[i]
  BY <1>3, <1>4, Flattened
<1>7. /\ f[0] = Place("firstItem", o, Append(p, 1))
      /\ \A i \in 1 .. n : f[i] = Place("behind", o, Append(p, i))
  OBVIOUS
<1> HIDE DEF f
<1>8. ASSUME NEW i \in 1 .. n
      PROVE  Yields(f[i - 1], piece[i], f[i], F[i])
  <2>1. \A at \in {"value", "firstItem"} :
           Yields(Place(at, o, Append(p, i)), items[i], Place("behind", o, Append(p, i)), F[i])
    OBVIOUS
  <2>2. f[i] = Place("behind", o, Append(p, i))
    BY <1>7
  <2>3. CASE i = 1
    <3>1. i - 1 = 0  BY <2>3
    <3>2. f[i - 1] = Place("firstItem", o, Append(p, i))
      BY <1>7, <2>3, <3>1
    <3>3. Yields(Place("firstItem", o, Append(p, i)), items[i], Place("behind", o, Append(p, i)), F[i])
      BY <2>1
    <3>4. piece[i] = items[i]
      BY <1>3, <2>3
    <3>5. QED  BY <2>2, <3>2, <3>3, <3>4
  <2>4. CASE i # 1
    <3> DEFINE m == i - 1
    <3>1. m \in 1 .. n /\ m \in Nat /\ m + 1 = i
      BY <2>4
    <3>2. f[m] = Place("behind", o, Append(p, m))
      BY <1>7, <3>1
    <3>3. Under(p, m, Append(p, m)) /\ Under(p, m + 1, Append(p, i))
      BY <3>1, UnderAppend
    <3> HIDE DEF m
    <3>4. Yields(Place("behind", o, Append(p, m)), Comma, Place("value", o, Append(p, i)), {})
      BY <3>1, <3>3, ReadsListComma
    <3>5. Yields(Place("value", o, Append(p, i)), items[i], Place("behind", o, Append(p, i)), F[i])
      BY <2>1
    <3>6. Yields(Place("behind", o, Append(p, m)), Comma \o items[i], Place("behind", o, Append(p, i)), {} \cup F[i])
      BY <3>4, <3>5, YieldsOn
    <3>7. {} \cup F[i] = F[i]
      OBVIOUS
    <3>8. piece[i] = Comma \o items[i]
      BY <1>3, <2>4
    <3>9. Yields(f[m], piece[i], f[i], F[i])
      BY <2>2, <3>2, <3>6, <3>7, <3>8
    <3>10. QED  BY <3>9 DEF m
  <2>5. QED  BY <2>3, <2>4
<1>9. Yields(f[0], h[n], f[n], AllOf(F, n))
  BY <1>6, <1>8, Pieces
<1>10. \E at \in {"behind", "firstItem"}, i \in Nat : f[n] = Place(at, o, Append(p, i))
  <2>1. CASE n = 0
    <3>1. 1 \in Nat /\ "firstItem" \in {"behind", "firstItem"} OBVIOUS
    <3>2. QED  BY <1>7, <2>1, <3>1
  <2>2. CASE n # 0
    <3>1. n \in 1 .. n  BY <2>2
    <3>2. QED  BY <1>7, <3>1
  <2>3. QED  BY <2>1, <2>2
<1>11. PICK at \in {"behind", "firstItem"}, i \in Nat : f[n] = Place(at, o, Append(p, i))
  BY <1>10
<1>12. Yields(Place("firstItem", o, Append(p, 1)), Separated(items), Place(at, o, Append(p, i)), AllOf(F, n))
  BY <1>5, <1>6, <1>7, <1>9, <1>11
<1>13. QED  BY <1>12

\* A whole array.
LEMMA AddsList ==
    ASSUME NEW x, NEW s, NEW at, NEW o, NEW p, NEW G, NEW o1,
           Yields(x, s, Place(at, o, p), G), at \in {"value", "firstItem"},
           Under(o, "array", o1), IsText(p), o # <<>>,
           NEW n \in Nat, NEW items, IsText(items), Len(items) = n, NEW F,
           \A i \in 1 .. n :
              /\ IsText(items[i])
              /\ \A e \in {"value", "firstItem"} :
                    Yields(Place(e, o1, Append(p, i)), items[i], Place("behind", o1, Append(p, i)), F[i])
    PROVE  Yields(x, s \o OpenList \o Separated(items) \o CloseList, Place("behind", o, p), G \cup AllOf(F, n))
<1>1. PICK e \in {"behind", "firstItem"}, i \in Nat :
         Yields(Place("firstItem", o1, Append(p, 1)), Separated(items), Place(e, o1, Append(p, i)), AllOf(F, n))
  BY ReadsItems
<1>2. Under(p, 1, Append(p, 1)) /\ Under(p, i, Append(p, i))
  BY UnderAppend
<1>3. Yields(Place(at, o, p), OpenList, Place("firstItem", o1, Append(p, 1)), {})
  BY <1>2, ReadsOpenList
<1>4. Yields(Place(e, o1, Append(p, i)), CloseList, Place(Where(o), o, p), {})
  BY <1>2, ReadsCloseList
<1>5. Yields(x, s \o OpenList, Place("firstItem", o1, Append(p, 1)), G \cup {})
  BY <1>3, YieldsOn
<1>6. Yields(x, s \o OpenList \o Separated(items), Place(e, o1, Append(p, i)), (G \cup {}) \cup AllOf(F, n))
  BY <1>1, <1>5, YieldsOn
<1>7. Yields(x, s \o OpenList \o Separated(items) \o CloseList, Place(Where(o), o, p), ((G \cup {}) \cup AllOf(F, n)) \cup {})
  BY <1>4, <1>6, YieldsOn
<1>8. ((G \cup {}) \cup AllOf(F, n)) \cup {} = G \cup AllOf(F, n)
  OBVIOUS
<1>9. Where(o) = "behind"
  BY Contained
<1>10. QED  BY <1>7, <1>8, <1>9

-----------------------------------------------------------------------------
(* The sections of the report.                                             *)

\* The stacks of open objects and arrays.
O1 == <<"object">>
O2 == <<"object", "object">>
O3 == <<"object", "object", "object">>
A3 == <<"object", "object", "array">>
A4 == <<"object", "object", "array", "object">>

\* Which of them is which, with one more on top.
LEMMA Stacks ==
    /\ Under(<<>>, "object", O1) /\ Under(O1, "object", O2) /\ Under(O2, "object", O3)
    /\ Under(O2, "array", A3) /\ Under(A3, "object", A4)
    /\ O1 # <<>> /\ O2 # <<>> /\ O3 # <<>> /\ A3 # <<>> /\ A4 # <<>>
    /\ Where(<<>>) = "end" /\ Where(O1) = "behind" /\ Where(O2) = "behind"
    /\ Where(O3) = "behind" /\ Where(A3) = "behind"
<1>1. /\ Under(<<>>, "object", O1) /\ Under(O1, "object", O2) /\ Under(O2, "object", O3)
      /\ Under(O2, "array", A3) /\ Under(A3, "object", A4)
  BY Unders DEF O1, O2, O3, A3, A4
<1>2. O1 # <<>> /\ O2 # <<>> /\ O3 # <<>> /\ A3 # <<>> /\ A4 # <<>>
  BY <1>1 DEF Under
<1>3. QED  BY <1>1, <1>2, Contained DEF Where

\* What is said of a text: its characters, up to a NUL.
TextOf(s) == Legible(IF s = NULL THEN <<>> ELSE Upto(s, "NUL"))

\* The vendor is a value, also one that is not there.
LEMMA SaysVendor ==
    ASSUME NEW s, s \in {NULL} \cup Seq(Characters \ {"NUL"})
    PROVE  Says(JsonAppendEscapedChar16(s), <<"string", TextOf(s)>>)
<1>1. CASE s = NULL
  <2>1. Says(Quote \o <<>> \o Quote, <<"string", <<>>>>)
    <3>1. \A o, p : Yields(InText(o, p, <<>>), <<>>, InText(o, p, <<>>), {})
      BY YieldsNothing
    <3>2. QED  BY <3>1, SaysText
  <2>2. TextOf(s) = <<>>
    <3>1. IsText(<<>>) /\ Len(<<>>) = 0  BY NoToken
    <3>2. IsText(Legible(<<>>)) /\ Len(Legible(<<>>)) = 0
      BY <3>1, Legibles
    <3>3. Legible(<<>>) = <<>>
      <4>1. Legible(<<>>) \in Seq(Range(Legible(<<>>)))  BY <3>2, TextLength
      <4>2. QED  BY <3>2, <4>1, EmptySeq
    <3>4. QED  BY <1>1, <3>3 DEF TextOf
  <2>3. JsonAppendEscapedChar16(s) = Quote \o <<>> \o Quote
    BY <1>1 DEF JsonAppendEscapedChar16
  <2>4. QED  BY <2>1, <2>2, <2>3
<1>2. CASE s # NULL
  <2>1. s \in Seq(Characters \ {"NUL"})
    BY <1>2
  <2>2. "NUL" \notin Range(s)
    <3>1. Range(s) \subseteq Characters \ {"NUL"}
      <4>1. DOMAIN s = 1 .. Len(s) /\ \A i \in 1 .. Len(s) : s[i] \in Characters \ {"NUL"}
        BY <2>1, LenProperties, ElementOfSeq
      <4>2. QED  BY <4>1 DEF Range
    <3>2. QED  BY <3>1
  <2>3. Upto(s, "NUL") = s
    BY <2>1, <2>2, Cut
  <2>4. TextOf(s) = Legible(s)
    BY <1>2, <2>3 DEF TextOf
  <2>5. IsText(s)
    BY <2>1 DEF IsText
  <2>6. QED  BY <1>2, <2>4, <2>5, SaysEscaped
<1>3. QED  BY <1>1, <1>2

\* JsonAppendEscapedAsciiFixed is a value: the field up to a NUL.
LEMMA SaysFixed ==
    ASSUME NEW field \in Seq(Characters)
    PROVE  Says(JsonAppendEscapedAsciiFixed(field), <<"string", TextOf(field)>>)
<1>1. field # NULL
  BY NullAssumption
<1>2. Upto(field, "NUL") \in Seq(Characters)
  BY Cut
<1>3. Upto(field, "NUL") # NULL /\ IsText(Upto(field, "NUL"))
  BY <1>2, NullAssumption DEF IsText
<1>4. TextOf(field) = Legible(Upto(field, "NUL"))
  BY <1>1 DEF TextOf
<1>5. QED  BY <1>3, <1>4, SaysEscaped DEF JsonAppendEscapedAsciiFixed

\* A proper signature.
LEMMA SaysSignature ==
    ASSUME NEW signature \in Seq(Characters), Range(signature) \subseteq {"p"}
    PROVE  Says(JsonAppendAcpiSignature(signature), <<"string", TextOf(signature)>>)
<1>1. signature # NULL
  BY NullAssumption
<1>2. "NUL" \notin Range(signature)
  OBVIOUS
<1>3. Upto(signature, "NUL") = signature
  BY <1>2, Cut
<1>4. TextOf(signature) = Legible(signature)
  BY <1>1, <1>3 DEF TextOf
<1>5. IsText(signature)
  BY DEF IsText
<1>6. DOMAIN signature = 1 .. Len(signature) /\ Len(signature) \in Nat
  BY <1>5, TextLength
<1>7. \A i \in 1 .. Len(signature) : signature[i] = "p"
  BY <1>6 DEF Range
<1> DEFINE raw == [i \in DOMAIN signature |-> Raw(signature[i])]
           n == Len(signature)
<1>8. PICK token : token = <<"char", "p">>
  OBVIOUS
<1>9. \A i \in 1 .. n : raw[i] = token
  <2>1. Raw("p") = token
    BY <1>8 DEF Raw
  <2>2. QED  BY <1>6, <1>7, <2>1
<1>10. Shown("p") = token
  BY <1>8 DEF Shown
<1>11. IsText(raw) /\ Len(raw) = n
  <2>1. raw \in [1 .. n -> {token}]
    <3>1. DOMAIN raw = 1 .. n  BY <1>6
    <3>2. raw = [i \in 1 .. n |-> raw[i]]  BY <3>1
    <3> HIDE DEF raw
    <3>3. QED  BY <1>9, <3>2
  <2> HIDE DEF raw
  <2>2. QED  BY <1>6, <2>1, Sequence
<1>12. raw = Legible(signature)
  <2>1. /\ IsText(Legible(signature)) /\ Len(Legible(signature)) = n
        /\ \A i \in 1 .. n : Legible(signature)[i] = Shown(signature[i])
    BY <1>5, Legibles
  <2>2. \A i \in 1 .. n : Legible(signature)[i] = token
    BY <1>7, <1>10, <2>1
  <2> HIDE DEF raw
  <2>3. QED  BY <1>9, <1>11, <2>1, <2>2, SameText
<1>13. Says(Quote \o raw \o Quote, <<"string", raw>>)
  <2>1. token[1] = "char"
    BY <1>8, Pair
  <2>2. \A i \in 1 .. Len(raw) : raw[i][1] \in {"char", "hex", "digit"}
    <3> HIDE DEF raw
    <3>1. QED  BY <1>9, <1>11, <2>1
  <2> HIDE DEF raw
  <2>3. QED  BY <1>11, <2>2, SaysChars
<1>14. JsonAppendAcpiSignature(signature) = Quote \o raw \o Quote
  BY <1>2, <1>3 DEF JsonAppendAcpiSignature
<1> HIDE DEF raw
<1>15. QED  BY <1>4, <1>12, <1>13, <1>14

\* Five texts.
AllTexts(d, q, m, t, n) == IsText(d) /\ IsText(q) /\ IsText(m) /\ IsText(t) /\ IsText(n)

\* A piece between quotes, put into brackets.
Bracketed(d, q, m, t, n) ==
    d \o q \o m \o t \o n \o q = d \o (q \o (m \o t \o n) \o q)

\* The brackets make no difference.
LEMMA Enclosed ==
    ASSUME NEW d, NEW q, NEW m, NEW t, NEW n,
           AllTexts(d, q, m, t, n)
    PROVE  Bracketed(d, q, m, t, n)
<1> DEFINE mt == m \o t
           r == mt \o n
           dq == d \o q
           rq == r \o q
<1>1. IsText(mt) /\ IsText(dq)
  BY Joined DEF AllTexts
<1>2. IsText(r)
  BY <1>1, Joined DEF AllTexts
<1>3. IsText(rq)
  BY <1>2, Joined DEF AllTexts
<1>4. IsText(n)
  BY DEF AllTexts
<1>5. IsText(q)
  BY DEF AllTexts
<1>6. (dq \o m) \o t = dq \o mt
  <2>1. IsText(dq) /\ IsText(m) /\ IsText(t)  BY <1>1 DEF AllTexts
  <2> HIDE DEF dq
  <2>2. QED  BY ONLY <2>1, Associates
<1>7. (dq \o mt) \o n = dq \o r
  <2> HIDE DEF dq, mt
  <2>1. QED  BY ONLY <1>1, <1>4, Associates
<1>8. (dq \o r) \o q = dq \o rq
  <2>1. IsText(dq)  BY <1>1
  <2> HIDE DEF dq, r
  <2>2. QED  BY ONLY <1>2, <1>5, <2>1, Associates
<1>9. (d \o q) \o rq = d \o (q \o rq)
  <2>1. IsText(d)  BY DEF AllTexts
  <2> HIDE DEF rq
  <2>2. QED  BY ONLY <1>3, <1>5, <2>1, Associates
<1>10. (q \o r) \o q = q \o rq
  <2> HIDE DEF r
  <2>1. QED  BY ONLY <1>2, <1>5, Associates
<1> HIDE DEF r, rq
<1>11. d \o q \o m \o t \o n \o q = d \o (q \o r \o q)
  BY <1>6, <1>7, <1>8, <1>9, <1>10
<1>12. QED  BY <1>11 DEF r, Bracketed

\* The facts of the report.
Numeral(p, v) == Fact(p, <<"number", v>>)
Hexed(p, v) == Fact(p, <<"string", <<<<"hex", v>>>>>>)
Truth(p, b) == Fact(p, <<"literal", b>>)
Text(p, s) == Fact(p, <<"string", TextOf(s)>>)
Revision(m, n) == JsonAppendUint64(m) \o <<<<"char", "dot">>>> \o JsonAppendUint64(n)

\* What FirmwareSection says.
FirmwareFacts ==
    Numeral(<<"schemaVersion">>, 1) \cup Text(<<"firmware", "vendor">>, firmware.vendor)
    \cup Fact(<<"firmware", "uefiRevision">>, <<"string", Revision(firmware.major, firmware.minor)>>)

\* FirmwareSection is read as what it says, and leaves the report's object open.
LEMMA ReadsFirmware ==
    ASSUME firmware \in Firmwares
    PROVE  Yields(Place("value", <<>>, <<>>), FirmwareSection, Place("behind", O1, <<"firmware">>), FirmwareFacts)
<1> DEFINE x == Place("value", <<>>, <<>>)
           a == Open \o Key("schemaVersion") \o JsonAppendUint64(1)
           b == a \o Comma \o Key("firmware") \o Open
           c == b \o Key("vendor") \o JsonAppendEscapedChar16(firmware.vendor)
           d == c \o Comma \o Key("uefiRevision")
           m == JsonAppendUint64(firmware.major)
           n == JsonAppendUint64(firmware.minor)
           r == Revision(firmware.major, firmware.minor)
           e == d \o Quote \o m \o <<<<"char", "dot">>>> \o n \o Quote
<1>1. /\ firmware.vendor \in {NULL} \cup Seq(Characters \ {"NUL"})
      /\ firmware.major \in Nat /\ firmware.minor \in Nat
  BY FirmwaresAssumption
<1>2. /\ Under(<<>>, "schemaVersion", <<"schemaVersion">>)
      /\ Under(<<>>, "firmware", <<"firmware">>)
      /\ Under(<<"firmware">>, "vendor", <<"firmware", "vendor">>)
      /\ Under(<<"firmware">>, "uefiRevision", <<"firmware", "uefiRevision">>)
  BY Unders
<1>3. /\ Says(JsonAppendUint64(1), <<"number", 1>>)
      /\ Says(JsonAppendEscapedChar16(firmware.vendor), <<"string", TextOf(firmware.vendor)>>)
      /\ Says(Quote \o r \o Quote, <<"string", r>>)
  <2>1. 1 \in Nat OBVIOUS
  <2>2. QED  BY <1>1, <2>1, SaysNumber, SaysVendor, SaysRevision DEF Revision
<1> HIDE DEF x, a, b, c, d, e, m, n, r
<1>4. Yields(x, a, Place("behind", O1, <<"schemaVersion">>), {} \cup Numeral(<<"schemaVersion">>, 1))
  <2>1. Yields(x, Open, Place("firstKey", O1, <<>>), {})
    BY Stacks, ReadsOpen DEF x
  <2>2. QED  BY <1>2, <1>3, <2>1, Stacks, AddsMember DEF a, Numeral
<1> DEFINE F == {} \cup Numeral(<<"schemaVersion">>, 1)
           G == F \cup Text(<<"firmware", "vendor">>, firmware.vendor)
           H == G \cup Fact(<<"firmware", "uefiRevision">>, <<"string", r>>)
<1> HIDE DEF F, G, H
<1>5. Yields(x, b, Place("firstKey", O2, <<"firmware">>), F)
  <2>1. Yields(x, a \o Comma, Place("key", O1, <<>>), F)
    BY <1>2, <1>4, Stacks, AddsComma DEF F
  <2>2. QED  BY <1>2, <2>1, Stacks, AddsObject DEF b
<1>6. Yields(x, c, Place("behind", O2, <<"firmware", "vendor">>), G)
  BY <1>2, <1>3, <1>5, Stacks, AddsMember DEF c, G, Text
<1>7. Yields(x, e, Place("behind", O2, <<"firmware", "uefiRevision">>), H)
  <2>1. Yields(x, c \o Comma, Place("key", O2, <<"firmware">>), G)
    BY <1>2, <1>6, Stacks, AddsComma
  <2>2. Yields(x, d, Place("value", O2, <<"firmware", "uefiRevision">>), G)
    BY <1>2, <2>1, AddsKey DEF d
  <2>3. Yields(x, d \o (Quote \o r \o Quote), Place("behind", O2, <<"firmware", "uefiRevision">>), H)
    BY <1>3, <2>2, Stacks, AddsValue DEF H
  <2>4. e = d \o (Quote \o r \o Quote)
    <3> DEFINE dot == <<<<"char", "dot">>>>
    <3>1. IsText(m) /\ IsText(n) /\ IsText(dot) /\ IsText(Quote)
      <4>1. IsText(m) /\ IsText(n)
        BY <1>1, Uint64 DEF m, n
      <4>2. QED  BY <4>1, OneToken DEF Quote
    <3>2. IsText(d)
      <4>1. \E F1, y1, x1 : Yields(x1, d, y1, F1)
        BY <2>2
      <4>2. QED  BY <4>1 DEF Yields, Goes
    <3> HIDE DEF dot
    <3>3. d \o Quote \o m \o dot \o n \o Quote = d \o (Quote \o (m \o dot \o n) \o Quote)
      <4>1. AllTexts(d, Quote, m, dot, n)
        BY <3>1, <3>2 DEF AllTexts
      <4>2. Bracketed(d, Quote, m, dot, n)
        BY <4>1, Enclosed
      <4>3. QED  BY <4>2 DEF Bracketed
    <3>4. r = m \o dot \o n /\ e = d \o Quote \o m \o dot \o n \o Quote
      BY DEF e, dot, r, Revision, m, n
    <3>5. QED  BY <3>3, <3>4
  <2>5. QED  BY <2>3, <2>4
<1>8. Yields(x, e \o Close, Place("behind", O1, <<"firmware">>), H)
  BY <1>2, <1>7, Stacks, AddsClose
<1>9. e \o Close = FirmwareSection
  BY DEF FirmwareSection, a, b, c, d, e, m, n
<1>10. H = FirmwareFacts
  BY DEF H, G, F, FirmwareFacts, r
<1>11. QED  BY <1>8, <1>9, <1>10 DEF x

\* A value is a text.
LEMMA SaidIsText ==
    ASSUME NEW v, NEW value, Says(v, value)
    PROVE  IsText(v)
<1>1. Yields(Place("value", O1, <<>>), v, Place("behind", O1, <<>>), Fact(<<>>, value))
  BY Stacks DEF Says
<1>2. QED  BY <1>1 DEF Yields, Goes

\* The address in the RSDP's row.
Address == IF firmware.rsdp = NULL THEN 0 ELSE firmware.rsdp.address

\* What is said of an RSDP that is there.
RsdpFacts ==
    IF firmware.rsdp = NULL THEN {}
    ELSE Numeral(<<"acpi", "revision">>, firmware.rsdp.revision)
         \cup Hexed(<<"acpi", "rsdt">>, firmware.rsdp.rsdt)
         \cup Hexed(<<"acpi", "xsdt">>, firmware.rsdp.xsdt)

\* What JsonAppendAcpiTables says.
TableFacts ==
    AllOf([i \in 1 .. Len(firmware.tables) |-> Text(<<"acpi", "tables", i>>, firmware.tables[i])],
          Len(firmware.tables))

\* JsonAppendAcpiTables is read as what it says, when the signatures are proper.
LEMMA ReadsTables ==
    ASSUME firmware \in Firmwares, ProperSignatures
    PROVE  Yields(Place("key", O2, <<"acpi">>), JsonAppendAcpiTables,
                  Place("behind", O2, <<"acpi", "tables">>), TableFacts)
<1> DEFINE n == Len(firmware.tables)
           items == [i \in DOMAIN firmware.tables |-> JsonAppendAcpiSignature(firmware.tables[i])]
           F == [i \in 1 .. n |-> Text(<<"acpi", "tables", i>>, firmware.tables[i])]
           p == <<"acpi", "tables">>
<1>1. firmware.tables \in Seq(Seq(Characters))
  BY FirmwaresAssumption
<1>2. n \in Nat /\ DOMAIN firmware.tables = 1 .. n
  BY <1>1, LenProperties
<1>3. ASSUME NEW i \in 1 .. n
      PROVE  /\ items[i] = JsonAppendAcpiSignature(firmware.tables[i])
             /\ F[i] = Text(<<"acpi", "tables", i>>, firmware.tables[i])
             /\ Append(p, i) = <<"acpi", "tables", i>>
             /\ Says(JsonAppendAcpiSignature(firmware.tables[i]), <<"string", TextOf(firmware.tables[i])>>)
  <2>1. firmware.tables[i] \in Seq(Characters)
    BY <1>1, ElementOfSeq
  <2>2. Range(firmware.tables[i]) \subseteq {"p"}
    <3>1. firmware.tables[i] \in Range(firmware.tables)  BY <1>2 DEF Range
    <3>2. QED  BY <3>1 DEF ProperSignatures
  <2>3. Says(JsonAppendAcpiSignature(firmware.tables[i]), <<"string", TextOf(firmware.tables[i])>>)
    BY <2>1, <2>2, SaysSignature
  <2>4. items[i] = JsonAppendAcpiSignature(firmware.tables[i])
        /\ F[i] = Text(<<"acpi", "tables", i>>, firmware.tables[i])
    BY <1>2
  <2>5. Append(p, i) = <<"acpi", "tables", i>>
    BY Tuples
  <2> HIDE DEF items, F, p, n
  <2>6. QED  BY <2>3, <2>4, <2>5
<1>4. IsText(items) /\ Len(items) = n
  <2> DEFINE T == {items[i] : i \in 1 .. n}
  <2>1. items \in [1 .. n -> T]
    BY <1>2
  <2> HIDE DEF T, items
  <2>2. QED  BY <1>2, <2>1, Sequence
<1>5. Under(<<"acpi">>, "tables", p) /\ IsText(p)
  BY Unders, Pair
<1> HIDE DEF items, F, p, n
<1>6. Yields(Place("key", O2, <<"acpi">>), Key("tables"), Place("value", O2, p), {})
  BY <1>5, ReadsKey
<1>7. ASSUME NEW i \in 1 .. n
      PROVE  /\ IsText(items[i])
             /\ \A e \in {"value", "firstItem"} :
                   Yields(Place(e, A3, Append(p, i)), items[i], Place("behind", A3, Append(p, i)), F[i])
  BY <1>3, Stacks, SaidIsText DEF Says, Text
<1>8. Yields(Place("key", O2, <<"acpi">>), Key("tables") \o OpenList \o Separated(items) \o CloseList,
             Place("behind", O2, p), {} \cup AllOf(F, n))
  BY <1>2, <1>4, <1>5, <1>6, <1>7, Stacks, AddsList
<1>9. {} \cup AllOf(F, n) = TableFacts
  BY DEF TableFacts, F, n
<1>10. QED  BY <1>8, <1>9 DEF JsonAppendAcpiTables, items, p

\* RsdpSection is read as what it says, and leaves the acpi object open.
LEMMA ReadsRsdp ==
    ASSUME firmware \in Firmwares, ProperSignatures
    PROVE  Yields(Place("behind", O1, <<"firmware">>), RsdpSection, Place("behind", O2, <<"acpi", "tables">>),
                  Hexed(<<"acpi", "rsdp">>, Address) \cup RsdpFacts \cup TableFacts)
<1> DEFINE x == Place("behind", O1, <<"firmware">>)
           y == Place("key", O2, <<"acpi">>)
           f == firmware.rsdp
           a == Comma \o Key("acpi") \o Open
           b == a \o Key("rsdp") \o JsonAppendQuotedHex(Address)
           c == Key("revision") \o JsonAppendUint64(f.revision)
           d == c \o Comma \o Key("rsdt") \o JsonAppendQuotedHex(f.rsdt)
           e == d \o Comma \o Key("xsdt") \o JsonAppendQuotedHex(f.xsdt)
           g == IF f = NULL THEN <<>> ELSE e \o Comma
<1>1. f # NULL => f.revision \in Nat
  <2>1. f \in {NULL} \cup [address : Nat, revision : Nat, rsdt : Nat, xsdt : Nat]
    BY FirmwaresAssumption
  <2>2. QED  BY <2>1
<1>2. /\ Under(<<>>, "acpi", <<"acpi">>) /\ Under(<<>>, "firmware", <<"firmware">>)
      /\ Under(<<"acpi">>, "rsdp", <<"acpi", "rsdp">>)
      /\ Under(<<"acpi">>, "revision", <<"acpi", "revision">>)
      /\ Under(<<"acpi">>, "rsdt", <<"acpi", "rsdt">>)
      /\ Under(<<"acpi">>, "xsdt", <<"acpi", "xsdt">>)
  BY Unders
<1>3. RsdpSection = b \o Comma \o g \o JsonAppendAcpiTables
  BY DEF RsdpSection, Address
<1> HIDE DEF x, y, a, b, c, d, e, f
<1>4. Yields(x, a, Place("firstKey", O2, <<"acpi">>), {})
  <2>1. Yields(x, Comma, Place("key", O1, <<>>), {})
    BY <1>2, Stacks, ReadsComma DEF x
  <2>2. QED  BY <1>2, <2>1, Stacks, AddsObject DEF a
<1>5. Yields(x, b \o Comma, y, {} \cup Hexed(<<"acpi", "rsdp">>, Address))
  <2>1. Yields(x, b, Place("behind", O2, <<"acpi", "rsdp">>), {} \cup Hexed(<<"acpi", "rsdp">>, Address))
    BY <1>2, <1>4, SaysHex, Stacks, AddsMember DEF b, Hexed
  <2>2. QED  BY <1>2, <2>1, Stacks, AddsComma DEF y
<1>6. Yields(y, g, y, RsdpFacts)
  <2>1. CASE f = NULL
    <3>1. RsdpFacts = {}  BY <2>1 DEF RsdpFacts, f
    <3>2. QED  BY <2>1, <3>1, YieldsNothing
  <2>2. CASE f # NULL
    <3> DEFINE C == {} \cup Numeral(<<"acpi", "revision">>, f.revision)
               D == C \cup Hexed(<<"acpi", "rsdt">>, f.rsdt)
               E == D \cup Hexed(<<"acpi", "xsdt">>, f.xsdt)
    <3>1. E = RsdpFacts
      BY <2>2 DEF RsdpFacts, f
    <3>2. Yields(y, c, Place("behind", O2, <<"acpi", "revision">>), C)
      <4>1. Yields(y, Key("revision"), Place("value", O2, <<"acpi", "revision">>), {})
        BY <1>2, ReadsKey DEF y
      <4>2. Says(JsonAppendUint64(f.revision), <<"number", f.revision>>)
        BY <1>1, <2>2, SaysNumber
      <4>3. QED  BY <4>1, <4>2, Stacks, AddsValue DEF c, Numeral
    <3> HIDE DEF C, D, E
    <3>3. Yields(y, d, Place("behind", O2, <<"acpi", "rsdt">>), D)
      BY <1>2, <3>2, SaysHex, Stacks, AddsNext DEF d, D, Hexed
    <3>4. Yields(y, e, Place("behind", O2, <<"acpi", "xsdt">>), E)
      BY <1>2, <3>3, SaysHex, Stacks, AddsNext DEF e, E, Hexed
    <3>5. Yields(y, e \o Comma, y, E)
      BY <1>2, <3>4, Stacks, AddsComma DEF y
    <3>6. QED  BY <2>2, <3>1, <3>5
  <2>3. QED  BY <2>1, <2>2
<1> HIDE DEF g
<1>7. Yields(x, b \o Comma \o g, y, ({} \cup Hexed(<<"acpi", "rsdp">>, Address)) \cup RsdpFacts)
  BY <1>5, <1>6, YieldsOn
<1>8. Yields(x, b \o Comma \o g \o JsonAppendAcpiTables, Place("behind", O2, <<"acpi", "tables">>),
             (({} \cup Hexed(<<"acpi", "rsdp">>, Address)) \cup RsdpFacts) \cup TableFacts)
  BY <1>7, ReadsTables, YieldsOn DEF y
<1>9. (({} \cup Hexed(<<"acpi", "rsdp">>, Address)) \cup RsdpFacts) \cup TableFacts
         = Hexed(<<"acpi", "rsdp">>, Address) \cup RsdpFacts \cup TableFacts
  OBVIOUS
<1>10. QED  BY <1>3, <1>8, <1>9 DEF x

\* What JsonAppendMadtSummary says.
MadtFacts ==
    Truth(<<"acpi", "madt", "present">>, firmware.madt # NULL)
    \cup (IF firmware.madt = NULL THEN {}
          ELSE Numeral(<<"acpi", "madt", "length">>, firmware.madt.length)
               \cup Hexed(<<"acpi", "madt", "localApicAddress">>, firmware.madt.localApicAddress)
               \cup Hexed(<<"acpi", "madt", "flags">>, firmware.madt.flags))

\* What JsonAppendMcfgSummary says.
McfgFacts ==
    Truth(<<"acpi", "mcfg", "present">>, firmware.mcfg # NULL)
    \cup Numeral(<<"acpi", "mcfg", "entryCount">>, Len(Windows))

\* JsonAppendMadtSummary is read as what it says.
LEMMA ReadsMadt ==
    ASSUME firmware \in Firmwares
    PROVE  Yields(Place("key", O2, <<"acpi">>), JsonAppendMadtSummary, Place("behind", O2, <<"acpi", "madt">>), MadtFacts)
<1> DEFINE x == Place("key", O2, <<"acpi">>)
           f == firmware.madt
           P == <<"acpi", "madt">>
           a == Key("madt") \o Open
           b == a \o Key("present") \o Boolean(f # NULL)
           c == Comma \o Key("length") \o JsonAppendUint64(f.length)
           d == c \o Comma \o Key("localApicAddress") \o JsonAppendQuotedHex(f.localApicAddress)
           e == d \o Comma \o Key("flags") \o JsonAppendQuotedHex(f.flags)
           g == IF f = NULL THEN <<>> ELSE e
           B == {} \cup Truth(<<"acpi", "madt", "present">>, f # NULL)
           y == Place("behind", O3, <<"acpi", "madt", "present">>)
<1>1. f # NULL => f.length \in Nat
  <2>1. f \in {NULL} \cup [length : Nat, localApicAddress : Nat, flags : Nat]
    BY FirmwaresAssumption
  <2>2. QED  BY <2>1
<1>2. /\ Under(<<"acpi">>, "madt", P)
      /\ Under(P, "present", <<"acpi", "madt", "present">>)
      /\ Under(P, "length", <<"acpi", "madt", "length">>)
      /\ Under(P, "localApicAddress", <<"acpi", "madt", "localApicAddress">>)
      /\ Under(P, "flags", <<"acpi", "madt", "flags">>)
  BY Unders
<1>3. JsonAppendMadtSummary = b \o g \o Close
  BY DEF JsonAppendMadtSummary
<1> HIDE DEF x, y, a, b, c, d, e, f, B, P
<1>4. Yields(x, a, Place("firstKey", O3, P), {})
  <2>1. Yields(x, Key("madt"), Place("value", O2, P), {})
    BY <1>2, ReadsKey DEF x
  <2>2. QED  BY <2>1, Stacks, AddsOpen DEF a
<1>5. Yields(x, b, y, B)
  BY <1>2, <1>4, SaysBoolean, Stacks, AddsMember DEF b, B, Truth, y
<1>6. CASE f = NULL
  <2>1. Yields(x, b \o g, y, B \cup {})
    BY <1>5, <1>6, YieldsNothing, YieldsOn
  <2>2. Yields(x, b \o g \o Close, Place("behind", O2, P), B \cup {})
    BY <1>2, <2>1, Stacks, AddsClose DEF y
  <2>3. B \cup {} = MadtFacts
    BY <1>6 DEF B, MadtFacts, f
  <2>4. QED  BY <1>3, <2>2, <2>3 DEF x, P
<1>7. CASE f # NULL
  <2> DEFINE C == {} \cup Numeral(<<"acpi", "madt", "length">>, f.length)
             D == C \cup Hexed(<<"acpi", "madt", "localApicAddress">>, f.localApicAddress)
             E == D \cup Hexed(<<"acpi", "madt", "flags">>, f.flags)
  <2>1. B \cup E = MadtFacts
    BY <1>7 DEF MadtFacts, f, B
  <2>2. Yields(y, c, Place("behind", O3, <<"acpi", "madt", "length">>), C)
    <3>1. Yields(y, Comma, Place("key", O3, P), {})
      BY <1>2, Stacks, ReadsComma DEF y
    <3>2. Says(JsonAppendUint64(f.length), <<"number", f.length>>)
      BY <1>1, <1>7, SaysNumber
    <3>3. QED  BY <1>2, <3>1, <3>2, Stacks, AddsMember DEF c, Numeral
  <2> HIDE DEF C, D, E
  <2>3. Yields(y, d, Place("behind", O3, <<"acpi", "madt", "localApicAddress">>), D)
    BY <1>2, <2>2, SaysHex, Stacks, AddsNext DEF d, D, Hexed
  <2>4. Yields(y, e, Place("behind", O3, <<"acpi", "madt", "flags">>), E)
    BY <1>2, <2>3, SaysHex, Stacks, AddsNext DEF e, E, Hexed
  <2>5. Yields(x, b \o g, Place("behind", O3, <<"acpi", "madt", "flags">>), B \cup E)
    BY <1>5, <1>7, <2>4, YieldsOn
  <2>6. Yields(x, b \o g \o Close, Place("behind", O2, P), B \cup E)
    BY <1>2, <2>5, Stacks, AddsClose
  <2>7. QED  BY <1>3, <2>1, <2>6 DEF x, P
<1>8. QED  BY <1>6, <1>7

\* The windows are windows of the MCFG.
LEMMA WindowsType ==
    ASSUME firmware \in Firmwares
    PROVE  Windows \in Seq(Window) /\ Len(Windows) \in Nat
<1>1. Windows \in Seq(Window)
  <2>1. CASE firmware.mcfg = NULL \/ firmware.mcfg.length < McfgSize
    BY <2>1 DEF Windows
  <2>2. CASE ~(firmware.mcfg = NULL \/ firmware.mcfg.length < McfgSize)
    <3> DEFINE f == firmware.mcfg
               l == f.length
               w == f.windows
               n == Len(w)
               m == (l - McfgSize) \div WindowSize
    <3>1. f \in [length : Nat, windows : Seq(Window)] /\ l < McfgSize + WindowSize * (n + 1)
      BY <2>2, FirmwaresAssumption
    <3>2. l \in Nat /\ w \in Seq(Window) /\ ~(l < McfgSize)
      BY <2>2, <3>1
    <3>3. n \in Nat
      BY <3>2, LenProperties
    <3> HIDE DEF n, l
    <3>4. m \in Nat /\ m <= n
      <4>1. l - 44 \in Nat /\ l - 44 < 16 * (n + 1)
        BY <3>1, <3>2, <3>3 DEF McfgSize, WindowSize
      <4> DEFINE k == l - 44
      <4> HIDE DEF k
      <4>2. k \in Nat /\ n \in Nat /\ k < 16 * (n + 1)
        BY <3>3, <4>1 DEF k
      <4>3. k \div 16 \in Nat /\ k \div 16 <= n
        BY ONLY <4>2, Z3
      <4>4. QED  BY <4>3 DEF k, McfgSize, WindowSize
    <3> HIDE DEF m
    <3>5. \A i \in 1 .. m : i \in 1 .. n
      BY <3>3, <3>4
    <3>6. \A i \in 1 .. m : w[i] \in Window
      BY <3>2, <3>5, ElementOfSeq DEF n
    <3>7. m \in Int
      BY <3>4
    <3>8. SubSeq(w, 1, m) \in Seq(Window)
      BY <3>6, <3>7, SubSeqProperties
    <3>9. QED  BY <2>2, <3>8 DEF Windows, m, l
  <2>3. QED  BY <2>1, <2>2
<1>2. QED  BY <1>1, LenProperties

\* JsonAppendMcfgSummary is read as what it says.
LEMMA ReadsMcfg ==
    ASSUME firmware \in Firmwares
    PROVE  Yields(Place("key", O2, <<"acpi">>), JsonAppendMcfgSummary, Place("behind", O2, <<"acpi", "mcfg">>), McfgFacts)
<1> DEFINE x == Place("key", O2, <<"acpi">>)
           here == firmware.mcfg # NULL
           n == Len(Windows)
           P == <<"acpi", "mcfg">>
           a == Key("mcfg") \o Open
           b == a \o Key("present") \o Boolean(here)
           c == b \o Comma \o Key("entryCount") \o JsonAppendUint64(n)
           B == {} \cup Truth(<<"acpi", "mcfg", "present">>, here)
           C == B \cup Numeral(<<"acpi", "mcfg", "entryCount">>, n)
<1>1. Says(JsonAppendUint64(n), <<"number", n>>)
  BY WindowsType, SaysNumber
<1>2. /\ Under(<<"acpi">>, "mcfg", P)
      /\ Under(P, "present", <<"acpi", "mcfg", "present">>)
      /\ Under(P, "entryCount", <<"acpi", "mcfg", "entryCount">>)
  BY Unders
<1>3. JsonAppendMcfgSummary = c \o Close
  BY DEF JsonAppendMcfgSummary
<1>4. C = McfgFacts
  BY DEF McfgFacts
<1> HIDE DEF x, a, b, c, n, B, C, P, here
<1>5. Yields(x, a, Place("firstKey", O3, P), {})
  <2>1. Yields(x, Key("mcfg"), Place("value", O2, P), {})
    BY <1>2, ReadsKey DEF x
  <2>2. QED  BY <2>1, Stacks, AddsOpen DEF a
<1>6. Yields(x, b, Place("behind", O3, <<"acpi", "mcfg", "present">>), B)
  BY <1>2, <1>5, SaysBoolean, Stacks, AddsMember DEF b, B, Truth
<1>7. Yields(x, c, Place("behind", O3, <<"acpi", "mcfg", "entryCount">>), C)
  BY <1>1, <1>2, <1>6, Stacks, AddsNext DEF c, C, Numeral
<1>8. Yields(x, c \o Close, Place("behind", O2, P), C)
  BY <1>2, <1>7, Stacks, AddsClose
<1>9. QED  BY <1>3, <1>4, <1>8 DEF x, P

\* AcpiSection is read as what it says, and closes the acpi object.
LEMMA ReadsAcpi ==
    ASSUME firmware \in Firmwares
    PROVE  Yields(Place("behind", O2, <<"acpi", "tables">>), AcpiSection, Place("behind", O1, <<"acpi">>),
                  MadtFacts \cup McfgFacts)
<1> DEFINE x == Place("behind", O2, <<"acpi", "tables">>)
<1> HIDE DEF x
<1>1. /\ Under(<<>>, "acpi", <<"acpi">>) /\ Under(<<"acpi">>, "tables", <<"acpi", "tables">>)
      /\ Under(<<"acpi">>, "madt", <<"acpi", "madt">>) /\ Under(<<"acpi">>, "mcfg", <<"acpi", "mcfg">>)
  BY Unders
<1>2. Yields(x, Comma, Place("key", O2, <<"acpi">>), {})
  BY <1>1, Stacks, ReadsComma DEF x
<1>3. Yields(x, Comma \o JsonAppendMadtSummary, Place("behind", O2, <<"acpi", "madt">>), {} \cup MadtFacts)
  BY <1>2, ReadsMadt, YieldsOn
<1>4. Yields(x, Comma \o JsonAppendMadtSummary \o Comma, Place("key", O2, <<"acpi">>), {} \cup MadtFacts)
  BY <1>1, <1>3, Stacks, AddsComma
<1>5. Yields(x, Comma \o JsonAppendMadtSummary \o Comma \o JsonAppendMcfgSummary,
             Place("behind", O2, <<"acpi", "mcfg">>), ({} \cup MadtFacts) \cup McfgFacts)
  BY <1>4, ReadsMcfg, YieldsOn
<1>6. Yields(x, Comma \o JsonAppendMadtSummary \o Comma \o JsonAppendMcfgSummary \o Close,
             Place("behind", O1, <<"acpi">>), ({} \cup MadtFacts) \cup McfgFacts)
  BY <1>1, <1>5, Stacks, AddsClose
<1>7. ({} \cup MadtFacts) \cup McfgFacts = MadtFacts \cup McfgFacts
  OBVIOUS
<1>8. QED  BY <1>6, <1>7 DEF AcpiSection, x

\* What JsonAppendUefiBootLabTable says.
LabTableFacts ==
    Truth(<<"uefiBootLab", "present">>, LabValid)
    \cup (IF ~LabValid THEN {}
          ELSE Numeral(<<"uefiBootLab", "version">>, firmware.lab.version)
               \cup Text(<<"uefiBootLab", "platformId">>, firmware.lab.platformId)
               \cup Text(<<"uefiBootLab", "buildMarker">>, firmware.lab.buildMarker))

\* LabSection is read as what it says.
LEMMA ReadsLab ==
    ASSUME firmware \in Firmwares
    PROVE  Yields(Place("behind", O1, <<"acpi">>), LabSection, Place("behind", O1, <<"uefiBootLab">>), LabTableFacts)
<1> DEFINE x == Place("key", O1, <<>>)
           z == Place("behind", O1, <<"acpi">>)
           f == firmware.lab
           P == <<"uefiBootLab">>
           a == Key("uefiBootLab") \o Open
           b == a \o Key("present") \o Boolean(LabValid)
           c == Comma \o Key("version") \o JsonAppendUint64(f.version)
           d == c \o Comma \o Key("platformId") \o JsonAppendEscapedAsciiFixed(f.platformId)
           e == d \o Comma \o Key("buildMarker") \o JsonAppendEscapedAsciiFixed(f.buildMarker)
           g == IF ~LabValid THEN <<>> ELSE e
           B == {} \cup Truth(<<"uefiBootLab", "present">>, LabValid)
           y == Place("behind", O2, <<"uefiBootLab", "present">>)
<1>1. LabValid => /\ f.version \in Nat
                  /\ f.platformId \in Seq(Characters) /\ f.buildMarker \in Seq(Characters)
  <2>1. f \in {NULL} \cup [magic : BOOLEAN, whole : BOOLEAN, version : Nat,
                           platformId : Seq(Characters), buildMarker : Seq(Characters)]
    BY FirmwaresAssumption
  <2>2. QED  BY <2>1 DEF LabValid
<1>2. /\ Under(<<>>, "uefiBootLab", P) /\ Under(<<>>, "acpi", <<"acpi">>)
      /\ Under(P, "present", <<"uefiBootLab", "present">>)
      /\ Under(P, "version", <<"uefiBootLab", "version">>)
      /\ Under(P, "platformId", <<"uefiBootLab", "platformId">>)
      /\ Under(P, "buildMarker", <<"uefiBootLab", "buildMarker">>)
  BY Unders
<1>3. JsonAppendUefiBootLabTable = b \o g \o Close
  BY DEF JsonAppendUefiBootLabTable
<1> HIDE DEF x, y, z, a, b, c, d, e, f, B, P
<1>4. Yields(x, a, Place("firstKey", O2, P), {})
  <2>1. Yields(x, Key("uefiBootLab"), Place("value", O1, P), {})
    BY <1>2, ReadsKey DEF x
  <2>2. QED  BY <2>1, Stacks, AddsOpen DEF a
<1>5. Yields(x, b, y, B)
  BY <1>2, <1>4, SaysBoolean, Stacks, AddsMember DEF b, B, Truth, y
<1>6. Yields(x, b \o g \o Close, Place("behind", O1, P), LabTableFacts)
  <2>1. CASE ~LabValid
    <3>1. Yields(x, b \o g, y, B \cup {})
      BY <1>5, <2>1, YieldsNothing, YieldsOn
    <3>2. Yields(x, b \o g \o Close, Place("behind", O1, P), B \cup {})
      BY <1>2, <3>1, Stacks, AddsClose DEF y
    <3>3. B \cup {} = LabTableFacts
      BY <2>1 DEF B, LabTableFacts
    <3>4. QED  BY <3>2, <3>3
  <2>2. CASE LabValid
    <3> DEFINE C == {} \cup Numeral(<<"uefiBootLab", "version">>, f.version)
               D == C \cup Text(<<"uefiBootLab", "platformId">>, f.platformId)
               E == D \cup Text(<<"uefiBootLab", "buildMarker">>, f.buildMarker)
    <3>1. B \cup E = LabTableFacts
      BY <2>2 DEF LabTableFacts, f, B
    <3>2. /\ Says(JsonAppendUint64(f.version), <<"number", f.version>>)
          /\ Says(JsonAppendEscapedAsciiFixed(f.platformId), <<"string", TextOf(f.platformId)>>)
          /\ Says(JsonAppendEscapedAsciiFixed(f.buildMarker), <<"string", TextOf(f.buildMarker)>>)
      BY <1>1, <2>2, SaysNumber, SaysFixed
    <3>3. Yields(y, c, Place("behind", O2, <<"uefiBootLab", "version">>), C)
      <4>1. Yields(y, Comma, Place("key", O2, P), {})
        BY <1>2, Stacks, ReadsComma DEF y
      <4>2. QED  BY <1>2, <3>2, <4>1, Stacks, AddsMember DEF c, Numeral
    <3> HIDE DEF C, D, E
    <3>4. Yields(y, d, Place("behind", O2, <<"uefiBootLab", "platformId">>), D)
      BY <1>2, <3>2, <3>3, Stacks, AddsNext DEF d, D, Text
    <3>5. Yields(y, e, Place("behind", O2, <<"uefiBootLab", "buildMarker">>), E)
      BY <1>2, <3>2, <3>4, Stacks, AddsNext DEF e, E, Text
    <3>6. Yields(x, b \o g, Place("behind", O2, <<"uefiBootLab", "buildMarker">>), B \cup E)
      BY <1>5, <2>2, <3>5, YieldsOn
    <3>7. Yields(x, b \o g \o Close, Place("behind", O1, P), B \cup E)
      BY <1>2, <3>6, Stacks, AddsClose
    <3>8. QED  BY <3>1, <3>7
  <2>3. QED  BY <2>1, <2>2
<1> HIDE DEF g
<1>7. Yields(z, Comma, x, {})
  BY <1>2, Stacks, ReadsComma DEF x, z
<1>8. Yields(z, LabSection, Place("behind", O1, P), {} \cup LabTableFacts)
  BY <1>3, <1>6, <1>7, YieldsOn DEF LabSection
<1>9. {} \cup LabTableFacts = LabTableFacts
  OBVIOUS
<1>10. QED  BY <1>8, <1>9 DEF z, P

\* What JsonAppendPciSummary says of the i-th window w.
WindowFact(i, w) ==
    Hexed(<<"pci", "ecamWindows", i, "base">>, w.base)
    \cup Numeral(<<"pci", "ecamWindows", i, "segment">>, w.segment)
    \cup Numeral(<<"pci", "ecamWindows", i, "startBus">>, w.startBus)
    \cup Numeral(<<"pci", "ecamWindows", i, "endBus">>, w.endBus)

\* What it says of all of them.
WindowFacts == AllOf([i \in 1 .. Len(Windows) |-> WindowFact(i, Windows[i])], Len(Windows))

\* What it writes for a window.
WindowText(w) ==
    Open \o Key("base") \o JsonAppendQuotedHex(w.base)
    \o Comma \o Key("segment") \o JsonAppendUint64(w.segment)
    \o Comma \o Key("startBus") \o JsonAppendUint64(w.startBus)
    \o Comma \o Key("endBus") \o JsonAppendUint64(w.endBus) \o Close

\* A window is read as what is said of it.
LEMMA ReadsWindow ==
    ASSUME NEW w \in Window, NEW i, NEW at, at \in {"value", "firstItem"}
    PROVE  /\ Yields(Place(at, A3, <<"pci", "ecamWindows", i>>), WindowText(w),
                     Place("behind", A3, <<"pci", "ecamWindows", i>>), WindowFact(i, w))
           /\ IsText(WindowText(w))
<1> DEFINE P == <<"pci", "ecamWindows", i>>
           x == Place(at, A3, P)
           b == Open \o Key("base") \o JsonAppendQuotedHex(w.base)
           c == b \o Comma \o Key("segment") \o JsonAppendUint64(w.segment)
           d == c \o Comma \o Key("startBus") \o JsonAppendUint64(w.startBus)
           e == d \o Comma \o Key("endBus") \o JsonAppendUint64(w.endBus)
           B == {} \cup Hexed(<<"pci", "ecamWindows", i, "base">>, w.base)
           C == B \cup Numeral(<<"pci", "ecamWindows", i, "segment">>, w.segment)
           D == C \cup Numeral(<<"pci", "ecamWindows", i, "startBus">>, w.startBus)
           E == D \cup Numeral(<<"pci", "ecamWindows", i, "endBus">>, w.endBus)
<1>1. /\ Says(JsonAppendQuotedHex(w.base), <<"string", <<<<"hex", w.base>>>>>>)
      /\ Says(JsonAppendUint64(w.segment), <<"number", w.segment>>)
      /\ Says(JsonAppendUint64(w.startBus), <<"number", w.startBus>>)
      /\ Says(JsonAppendUint64(w.endBus), <<"number", w.endBus>>)
  <2>1. w.segment \in Nat /\ w.startBus \in Nat /\ w.endBus \in Nat
    BY DEF Window
  <2>2. QED  BY <2>1, SaysNumber, SaysHex
<1>2. /\ Under(<<"pci", "ecamWindows">>, i, P)
      /\ Under(P, "base", <<"pci", "ecamWindows", i, "base">>)
      /\ Under(P, "segment", <<"pci", "ecamWindows", i, "segment">>)
      /\ Under(P, "startBus", <<"pci", "ecamWindows", i, "startBus">>)
      /\ Under(P, "endBus", <<"pci", "ecamWindows", i, "endBus">>)
  BY Unders
<1>3. WindowText(w) = e \o Close
  BY DEF WindowText
<1>4. E = WindowFact(i, w)
  BY DEF WindowFact
<1> HIDE DEF P, x, b, c, d, e, B, C, D, E
<1>5. Yields(x, b, Place("behind", A4, <<"pci", "ecamWindows", i, "base">>), B)
  <2>1. Yields(x, Open, Place("firstKey", A4, P), {})
    BY Stacks, ReadsOpen DEF x
  <2>2. QED  BY <1>1, <1>2, <2>1, Stacks, AddsMember DEF b, B, Hexed
<1>6. Yields(x, c, Place("behind", A4, <<"pci", "ecamWindows", i, "segment">>), C)
  BY <1>1, <1>2, <1>5, Stacks, AddsNext DEF c, C, Numeral
<1>7. Yields(x, d, Place("behind", A4, <<"pci", "ecamWindows", i, "startBus">>), D)
  BY <1>1, <1>2, <1>6, Stacks, AddsNext DEF d, D, Numeral
<1>8. Yields(x, e, Place("behind", A4, <<"pci", "ecamWindows", i, "endBus">>), E)
  BY <1>1, <1>2, <1>7, Stacks, AddsNext DEF e, E, Numeral
<1>9. Yields(x, e \o Close, Place("behind", A3, P), E)
  BY <1>2, <1>8, Stacks, AddsClose
<1>10. IsText(e \o Close)
  BY <1>9 DEF Yields, Goes
<1>11. QED  BY <1>3, <1>4, <1>9, <1>10 DEF x, P

\* PciSection is read as what it says.
LEMMA ReadsPci ==
    ASSUME firmware \in Firmwares
    PROVE  Yields(Place("behind", O1, <<"uefiBootLab">>), PciSection, Place("behind", O1, <<"pci">>), WindowFacts)
<1> DEFINE n == Len(Windows)
           items == [i \in DOMAIN Windows |-> WindowText(Windows[i])]
           F == [i \in 1 .. n |-> WindowFact(i, Windows[i])]
           p == <<"pci", "ecamWindows">>
           x == Place("key", O1, <<>>)
           z == Place("behind", O1, <<"uefiBootLab">>)
           a == Key("pci") \o Open \o Key("ecamWindows")
           b == a \o OpenList \o Separated(items) \o CloseList
<1>1. Windows \in Seq(Window) /\ n \in Nat /\ DOMAIN Windows = 1 .. n
  BY WindowsType, LenProperties
<1>2. ASSUME NEW i \in 1 .. n
      PROVE  /\ IsText(items[i])
             /\ \A e \in {"value", "firstItem"} :
                   Yields(Place(e, A3, Append(p, i)), items[i], Place("behind", A3, Append(p, i)), F[i])
  <2>1. Windows[i] \in Window
    BY <1>1, ElementOfSeq
  <2>2. items[i] = WindowText(Windows[i]) /\ F[i] = WindowFact(i, Windows[i])
    BY <1>1
  <2>3. Append(p, i) = <<"pci", "ecamWindows", i>>
    BY Tuples
  <2>4. "value" \in {"value", "firstItem"}
    OBVIOUS
  <2> HIDE DEF items, F, p
  <2>5. QED  BY <2>1, <2>2, <2>3, <2>4, ReadsWindow
<1>3. IsText(items) /\ Len(items) = n
  <2> DEFINE T == {items[i] : i \in 1 .. n}
  <2>1. items \in [1 .. n -> T]
    BY <1>1
  <2> HIDE DEF T, items
  <2>2. QED  BY <1>1, <2>1, Sequence
<1>4. /\ Under(<<>>, "uefiBootLab", <<"uefiBootLab">>) /\ Under(<<>>, "pci", <<"pci">>)
      /\ Under(<<"pci">>, "ecamWindows", p) /\ IsText(p)
  BY Unders, Pair
<1>5. JsonAppendPciSummary = b \o Close
  BY DEF JsonAppendPciSummary, WindowText
<1> HIDE DEF items, F, p, n, x, z, a, b
<1>6. Yields(x, a, Place("value", O2, p), {})
  <2>1. Yields(x, Key("pci"), Place("value", O1, <<"pci">>), {})
    BY <1>4, ReadsKey DEF x
  <2>2. Yields(x, Key("pci") \o Open, Place("firstKey", O2, <<"pci">>), {})
    BY <2>1, Stacks, AddsOpen
  <2>3. QED  BY <1>4, <2>2, AddsKey DEF a
<1>7. Yields(x, b, Place("behind", O2, p), {} \cup AllOf(F, n))
  BY <1>1, <1>2, <1>3, <1>4, <1>6, Stacks, AddsList DEF b
<1>8. Yields(x, b \o Close, Place("behind", O1, <<"pci">>), {} \cup AllOf(F, n))
  BY <1>4, <1>7, Stacks, AddsClose
<1>9. Yields(z, Comma, x, {})
  BY <1>4, Stacks, ReadsComma DEF x, z
<1>10. Yields(z, PciSection, Place("behind", O1, <<"pci">>), {} \cup ({} \cup AllOf(F, n)))
  BY <1>5, <1>8, <1>9, YieldsOn DEF PciSection
<1>11. {} \cup ({} \cup AllOf(F, n)) = WindowFacts
  BY DEF WindowFacts, F, n
<1>12. QED  BY <1>10, <1>11 DEF z

\* What SmbiosSection says.
SmbiosFacts ==
    Hexed(<<"smbios", "entryPoint32">>, firmware.smbios32)
    \cup Hexed(<<"smbios", "entryPoint64">>, firmware.smbios64)

\* SmbiosSection is read as what it says.
LEMMA ReadsSmbios ==
    Yields(Place("behind", O1, <<"pci">>), SmbiosSection, Place("behind", O1, <<"smbios">>), SmbiosFacts)
<1> DEFINE z == Place("behind", O1, <<"pci">>)
           P == <<"smbios">>
           a == Comma \o Key("smbios") \o Open
           b == a \o Key("entryPoint32") \o JsonAppendQuotedHex(firmware.smbios32)
           c == b \o Comma \o Key("entryPoint64") \o JsonAppendQuotedHex(firmware.smbios64)
           B == {} \cup Hexed(<<"smbios", "entryPoint32">>, firmware.smbios32)
           C == B \cup Hexed(<<"smbios", "entryPoint64">>, firmware.smbios64)
<1>1. /\ Under(<<>>, "pci", <<"pci">>) /\ Under(<<>>, "smbios", P)
      /\ Under(P, "entryPoint32", <<"smbios", "entryPoint32">>)
      /\ Under(P, "entryPoint64", <<"smbios", "entryPoint64">>)
  BY Unders
<1>2. SmbiosSection = c \o Close
  BY DEF SmbiosSection
<1>3. C = SmbiosFacts
  BY DEF SmbiosFacts
<1> HIDE DEF z, P, a, b, c, B, C
<1>4. Yields(z, a, Place("firstKey", O2, P), {})
  <2>1. Yields(z, Comma, Place("key", O1, <<>>), {})
    BY <1>1, Stacks, ReadsComma DEF z
  <2>2. QED  BY <1>1, <2>1, Stacks, AddsObject DEF a
<1>5. Yields(z, b, Place("behind", O2, <<"smbios", "entryPoint32">>), B)
  BY <1>1, <1>4, SaysHex, Stacks, AddsMember DEF b, B, Hexed
<1>6. Yields(z, c, Place("behind", O2, <<"smbios", "entryPoint64">>), C)
  BY <1>1, <1>5, SaysHex, Stacks, AddsNext DEF c, C, Hexed
<1>7. Yields(z, c \o Close, Place("behind", O1, P), C)
  BY <1>1, <1>6, Stacks, AddsClose
<1>8. QED  BY <1>2, <1>3, <1>7 DEF z, P

\* What JsonAppendMemorySummary says.
MemoryFacts ==
    AllOf([i \in 1 .. Len(MemoryKeys) |-> Numeral(<<"memoryMap", MemoryKeys[i]>>, firmware.memory[i])],
          Len(MemoryKeys))

\* There are eight numbers in the memory summary.
LEMMA MemoryKeysType == IsText(MemoryKeys) /\ Len(MemoryKeys) = 8 /\ DOMAIN MemoryKeys = 1 .. 8
<1>1. ASSUME NEW a, NEW b, NEW c, NEW d, NEW e, NEW f, NEW g, NEW h
      PROVE  <<a, b, c, d, e, f, g, h>> \in Seq({a, b, c, d, e, f, g, h}) /\ Len(<<a, b, c, d, e, f, g, h>>) = 8
  OBVIOUS
<1>2. (\E T : MemoryKeys \in Seq(T)) /\ Len(MemoryKeys) = 8
  BY <1>1, Zenon DEF MemoryKeys
<1>3. QED  BY <1>2, LenProperties DEF IsText

\* JsonAppendMemorySummary is read as what it says.
LEMMA ReadsMemory ==
    ASSUME firmware \in Firmwares
    PROVE  Yields(Place("firstKey", O2, <<"memoryMap">>), JsonAppendMemorySummary,
                  Place("behind", O2, <<"memoryMap", MemoryKeys[8]>>), MemoryFacts)
<1> DEFINE p == <<"memoryMap">>
           q(i) == <<"memoryMap", MemoryKeys[i]>>
           item(i) == Key(MemoryKeys[i]) \o JsonAppendUint64(firmware.memory[i])
           items == [i \in DOMAIN MemoryKeys |-> item(i)]
           n == Len(MemoryKeys)
           F == [i \in 1 .. n |-> Numeral(<<"memoryMap", MemoryKeys[i]>>, firmware.memory[i])]
           piece == [i \in DOMAIN items |-> (IF i = 1 THEN <<>> ELSE Comma) \o items[i]]
           f == [i \in 0 .. n |-> IF i = 0 THEN Place("firstKey", O2, p) ELSE Place("behind", O2, q(i))]
<1>1. n \in Nat /\ n = 8 /\ DOMAIN MemoryKeys = 1 .. n
  BY MemoryKeysType
<1>2. ASSUME NEW i \in 1 .. n
      PROVE  /\ items[i] = item(i)
             /\ piece[i] = (IF i = 1 THEN <<>> ELSE Comma) \o items[i]
             /\ F[i] = Numeral(q(i), firmware.memory[i])
             /\ f[i] = Place("behind", O2, q(i))
  <2>1. items[i] = item(i)
    BY <1>1
  <2>2. DOMAIN items = 1 .. n
    BY <1>1
  <2>3. piece[i] = (IF i = 1 THEN <<>> ELSE Comma) \o items[i]
    <3> HIDE DEF items
    <3>1. QED  BY <2>2
  <2>4. F[i] = Numeral(q(i), firmware.memory[i])
    OBVIOUS
  <2>5. f[i] = Place("behind", O2, q(i))
    <3>1. i \in 0 .. n /\ i # 0  BY <1>1
    <3> HIDE DEF q, p, n
    <3>2. QED  BY <3>1
  <2> HIDE DEF items, item, piece, F, f
  <2>6. QED  BY <2>1, <2>3, <2>4, <2>5
<1>3. /\ f[0] = Place("firstKey", O2, p) /\ f[n] = Place("behind", O2, q(8))
      /\ \A i \in 1 .. n : f[i - 1] = IF i = 1 THEN Place("firstKey", O2, p) ELSE Place("behind", O2, q(i - 1))
  <2>1. f[0] = Place("firstKey", O2, p) /\ f[n] = Place("behind", O2, q(8))
    <3>1. 0 \in 0 .. n /\ 8 \in 0 .. n  BY <1>1
    <3>2. f[0] = Place("firstKey", O2, p) /\ f[8] = Place("behind", O2, q(8))
      BY <3>1
    <3> HIDE DEF f, n
    <3>3. QED  BY <1>1, <3>2
  <2>2. ASSUME NEW i \in 1 .. n
        PROVE  f[i - 1] = IF i = 1 THEN Place("firstKey", O2, p) ELSE Place("behind", O2, q(i - 1))
    <3> HIDE DEF n
    <3>1. i - 1 \in 0 .. n /\ (i - 1 = 0 <=> i = 1)
      BY <1>1
    <3> DEFINE m == i - 1
    <3>2. f[m] = IF m = 0 THEN Place("firstKey", O2, p) ELSE Place("behind", O2, q(m))
      BY <3>1
    <3> HIDE DEF f, q, p
    <3>3. QED  BY <3>1, <3>2
  <2>3. QED  BY <2>1, <2>2
<1>4. \A i \in 1 .. n : firmware.memory[i] \in Nat
  BY <1>1, FirmwaresAssumption
<1>5. \A i : Under(p, MemoryKeys[i], q(i)) /\ Under(<<>>, "memoryMap", p)
  BY Unders
<1> HIDE DEF q, p, f
<1>6. ASSUME NEW i \in 1 .. n, NEW at, at \in {"key", "firstKey"}
      PROVE  /\ Yields(Place(at, O2, p), item(i), Place("behind", O2, q(i)), F[i])
             /\ IsText(item(i))
  <2>1. Yields(Place(at, O2, p), Key(MemoryKeys[i]), Place("value", O2, q(i)), {})
    BY <1>5, <1>6, ReadsKey
  <2>2. Says(JsonAppendUint64(firmware.memory[i]), <<"number", firmware.memory[i]>>)
    BY <1>4, SaysNumber
  <2>3. Yields(Place(at, O2, p), item(i), Place("behind", O2, q(i)), {} \cup Numeral(q(i), firmware.memory[i]))
    BY <2>1, <2>2, Stacks, AddsValue DEF Numeral
  <2>4. {} \cup Numeral(q(i), firmware.memory[i]) = F[i]
    BY <1>2
  <2>5. Yields(Place(at, O2, p), item(i), Place("behind", O2, q(i)), F[i])
    <3> HIDE DEF F, item
    <3>1. QED  BY <2>3, <2>4
  <2> HIDE DEF F, item
  <2>6. QED  BY <2>5 DEF Yields, Goes
<1> HIDE DEF item
<1>7. DOMAIN items = 1 .. n
  BY <1>1
<1>8. IsText(piece) /\ Len(piece) = n
  <2> DEFINE T == {piece[i] : i \in 1 .. n}
  <2>1. piece \in [1 .. n -> T]
    BY <1>7
  <2> HIDE DEF T, piece
  <2>2. QED  BY <1>1, <2>1, Sequence
<1>9. JsonAppendMemorySummary = FlattenSeq(piece)
  BY DEF JsonAppendMemorySummary, Separated, item
<1>10. MemoryFacts = AllOf(F, n)
  BY DEF MemoryFacts
<1> HIDE DEF items, piece, F
<1>11. ASSUME NEW i \in 1 .. n
       PROVE  IsText(piece[i]) /\ Yields(f[i - 1], piece[i], f[i], F[i])
  <2>1. IsText(item(i))
    <3>1. "key" \in {"key", "firstKey"}  OBVIOUS
    <3>2. QED  BY <1>6, <3>1
  <2>2. CASE i = 1
    <3>1. piece[i] = item(i)
      <4>1. <<>> \o item(i) = item(i)  BY <2>1, Nothing
      <4>2. QED  BY <1>2, <2>2, <4>1
    <3>2. f[i - 1] = Place("firstKey", O2, p) /\ f[i] = Place("behind", O2, q(i))
      BY <1>2, <1>3, <2>2
    <3>3. Yields(Place("firstKey", O2, p), item(i), Place("behind", O2, q(i)), F[i])
      BY <1>6
    <3>4. QED  BY <2>1, <3>1, <3>2, <3>3
  <2>3. CASE i # 1
    <3>1. piece[i] = Comma \o item(i)
      BY <1>2, <2>3
    <3>2. f[i - 1] = Place("behind", O2, q(i - 1)) /\ f[i] = Place("behind", O2, q(i))
      BY <1>2, <1>3, <2>3
    <3>3. Yields(Place("behind", O2, q(i - 1)), Comma, Place("key", O2, p), {})
      BY <1>5, Stacks, ReadsComma
    <3>4. Yields(Place("key", O2, p), item(i), Place("behind", O2, q(i)), F[i])
      BY <1>6
    <3>5. Yields(Place("behind", O2, q(i - 1)), Comma \o item(i), Place("behind", O2, q(i)), {} \cup F[i])
      BY <3>3, <3>4, YieldsOn
    <3>6. {} \cup F[i] = F[i]
      OBVIOUS
    <3>7. IsText(Comma \o item(i))
      BY <3>5 DEF Yields, Goes
    <3>8. QED  BY <3>1, <3>2, <3>5, <3>6, <3>7
  <2>4. QED  BY <2>2, <2>3
<1>12. PICK h : h[0] = <<>> /\ h[n] = FlattenSeq(piece) /\ \A i \in 1 .. n : h[i] = h[i - 1] \o piece[i]
  BY <1>1, <1>8, <1>11, Flattened
<1>13. Yields(f[0], h[n], f[n], AllOf(F, n))
  BY <1>1, <1>11, <1>12, Pieces
<1>14. QED  BY <1>3, <1>9, <1>10, <1>12, <1>13 DEF p, q

\* The last section, but for the end of the report's object.
MemoryBody == Comma \o Key("memoryMap") \o Open \o JsonAppendMemorySummary \o Close

\* The last section but for the report's closing brace, read as what it says.
LEMMA ReadsMemoryMap ==
    ASSUME firmware \in Firmwares
    PROVE  /\ Yields(Place("behind", O1, <<"smbios">>), MemoryBody, Place("behind", O1, <<"memoryMap">>), MemoryFacts)
           /\ MemorySection = MemoryBody \o Close
<1> DEFINE z == Place("behind", O1, <<"smbios">>)
           p == <<"memoryMap">>
           q == <<"memoryMap", MemoryKeys[8]>>
           a == Comma \o Key("memoryMap") \o Open
           b == a \o JsonAppendMemorySummary
<1>1. Under(<<>>, "smbios", <<"smbios">>) /\ Under(<<>>, "memoryMap", p) /\ Under(p, MemoryKeys[8], q)
  BY Unders
<1>2. MemoryBody = b \o Close /\ MemorySection = MemoryBody \o Close
  BY DEF MemorySection, MemoryBody
<1>3. Yields(Place("firstKey", O2, p), JsonAppendMemorySummary, Place("behind", O2, q), MemoryFacts)
  BY ReadsMemory
<1> HIDE DEF z, p, q, a, b
<1>4. Yields(z, a, Place("firstKey", O2, p), {})
  <2>1. Yields(z, Comma, Place("key", O1, <<>>), {})
    BY <1>1, Stacks, ReadsComma DEF z
  <2>2. QED  BY <1>1, <2>1, Stacks, AddsObject DEF a
<1>5. Yields(z, b, Place("behind", O2, q), {} \cup MemoryFacts)
  BY <1>3, <1>4, YieldsOn DEF b
<1>6. Yields(z, b \o Close, Place("behind", O1, p), {} \cup MemoryFacts)
  BY <1>1, <1>5, Stacks, AddsClose
<1>8. {} \cup MemoryFacts = MemoryFacts
  OBVIOUS
<1>9. QED  BY <1>2, <1>6, <1>8 DEF z, p

-----------------------------------------------------------------------------
(* What the sections say is what there is to say.                          *)

\* The facts said are those of FirmwareJson, one by one.
LEMMA OneFact ==
    ASSUME NEW p, NEW v
    PROVE  /\ Numeral(p, v) = {NumberFact(p, v)}
           /\ Hexed(p, v) = {HexFact(p, v)}
           /\ Truth(p, v) = {TruthFact(p, v)}
           /\ Text(p, v) = {TextFact(p, v)}
BY DEF Numeral, Hexed, Truth, Text, Fact, NumberFact, HexFact, TruthFact, TextFact, TextOf

\* A fact of the pieces is a fact of one of them.
LEMMA AnyOf == ASSUME NEW F, NEW n, NEW e PROVE e \in AllOf(F, n) <=> \E i \in 1 .. n : e \in F[i]
BY DEF AllOf

\* What is said of the tables is what there is to say of them;
LEMMA TablesSaid ==
    ASSUME firmware \in Firmwares
    PROVE  TableFacts = {TextFact(<<"acpi", "tables", i>>, firmware.tables[i]) : i \in DOMAIN firmware.tables}
<1> DEFINE n == Len(firmware.tables)
           F == [i \in 1 .. n |-> Text(<<"acpi", "tables", i>>, firmware.tables[i])]
           E(i) == TextFact(<<"acpi", "tables", i>>, firmware.tables[i])
<1>1. DOMAIN firmware.tables = 1 .. n
  <2>1. firmware.tables \in Seq(Seq(Characters))
    BY FirmwaresAssumption
  <2>2. QED  BY <2>1, LenProperties
<1>2. \A i \in 1 .. n : F[i] = {E(i)}
  BY OneFact
<1>3. TableFacts = AllOf(F, n)
  BY DEF TableFacts
<1> HIDE DEF F, n, E
<1>4. AllOf(F, n) = {E(i) : i \in 1 .. n}
  <2>1. ASSUME NEW e PROVE e \in AllOf(F, n) <=> e \in {E(i) : i \in 1 .. n}
    BY <1>2, AnyOf
  <2>2. QED  BY <2>1
<1>5. QED  BY <1>1, <1>3, <1>4 DEF E

\* so it is of the windows;
LEMMA WindowsSaid ==
    ASSUME firmware \in Firmwares
    PROVE  WindowFacts = PciFacts
<1> DEFINE n == Len(Windows)
           F == [i \in 1 .. n |-> WindowFact(i, Windows[i])]
           E(i) == { HexFact(<<"pci", "ecamWindows", i, "base">>, Windows[i].base),
                     NumberFact(<<"pci", "ecamWindows", i, "segment">>, Windows[i].segment),
                     NumberFact(<<"pci", "ecamWindows", i, "startBus">>, Windows[i].startBus),
                     NumberFact(<<"pci", "ecamWindows", i, "endBus">>, Windows[i].endBus) }
<1>1. DOMAIN Windows = 1 .. n
  BY WindowsType, LenProperties
<1>2. ASSUME NEW i \in 1 .. n PROVE F[i] = E(i)
  <2>1. F[i] = WindowFact(i, Windows[i])
    OBVIOUS
  <2>2. WindowFact(i, Windows[i])
          = {HexFact(<<"pci", "ecamWindows", i, "base">>, Windows[i].base)}
            \cup {NumberFact(<<"pci", "ecamWindows", i, "segment">>, Windows[i].segment)}
            \cup {NumberFact(<<"pci", "ecamWindows", i, "startBus">>, Windows[i].startBus)}
            \cup {NumberFact(<<"pci", "ecamWindows", i, "endBus">>, Windows[i].endBus)}
    BY OneFact DEF WindowFact
  <2> HIDE DEF F
  <2>3. QED  BY <2>1, <2>2
<1>3. WindowFacts = AllOf(F, n)
  BY DEF WindowFacts
<1>4. PciFacts = UNION {E(i) : i \in DOMAIN Windows}
  BY DEF PciFacts
<1> HIDE DEF F, n, E
<1>5. AllOf(F, n) = UNION {E(i) : i \in 1 .. n}
  <2>1. ASSUME NEW e PROVE e \in AllOf(F, n) <=> e \in UNION {E(i) : i \in 1 .. n}
    BY <1>2, AnyOf
  <2>2. QED  BY <2>1
<1>6. QED  BY <1>1, <1>3, <1>4, <1>5

\* of the memory;
LEMMA MemorySaid ==
    MemoryFacts = {NumberFact(<<"memoryMap", MemoryKeys[i]>>, firmware.memory[i]) : i \in DOMAIN MemoryKeys}
<1> DEFINE n == Len(MemoryKeys)
           F == [i \in 1 .. n |-> Numeral(<<"memoryMap", MemoryKeys[i]>>, firmware.memory[i])]
           E(i) == NumberFact(<<"memoryMap", MemoryKeys[i]>>, firmware.memory[i])
<1>1. DOMAIN MemoryKeys = 1 .. n
  BY MemoryKeysType
<1>2. \A i \in 1 .. n : F[i] = {E(i)}
  BY OneFact
<1>3. MemoryFacts = AllOf(F, n)
  BY DEF MemoryFacts
<1> HIDE DEF F, n, E
<1>4. AllOf(F, n) = {E(i) : i \in 1 .. n}
  <2>1. ASSUME NEW e PROVE e \in AllOf(F, n) <=> e \in {E(i) : i \in 1 .. n}
    BY <1>2, AnyOf
  <2>2. QED  BY <2>1
<1>5. QED  BY <1>1, <1>3, <1>4 DEF E

\* of all of ACPI;
LEMMA AcpiSaid ==
    ASSUME firmware \in Firmwares
    PROVE  Hexed(<<"acpi", "rsdp">>, Address) \cup RsdpFacts \cup TableFacts \cup MadtFacts \cup McfgFacts = AcpiFacts
<1> DEFINE T == {TextFact(<<"acpi", "tables", i>>, firmware.tables[i]) : i \in DOMAIN firmware.tables}
           R == IF firmware.rsdp = NULL THEN {}
                ELSE { NumberFact(<<"acpi", "revision">>, firmware.rsdp.revision),
                       HexFact(<<"acpi", "rsdt">>, firmware.rsdp.rsdt),
                       HexFact(<<"acpi", "xsdt">>, firmware.rsdp.xsdt) }
           M == IF firmware.madt = NULL THEN {}
                ELSE { NumberFact(<<"acpi", "madt", "length">>, firmware.madt.length),
                       HexFact(<<"acpi", "madt", "localApicAddress">>, firmware.madt.localApicAddress),
                       HexFact(<<"acpi", "madt", "flags">>, firmware.madt.flags) }
           h == HexFact(<<"acpi", "rsdp">>, Address)
           t == TruthFact(<<"acpi", "madt", "present">>, firmware.madt # NULL)
           u == TruthFact(<<"acpi", "mcfg", "present">>, firmware.mcfg # NULL)
           v == NumberFact(<<"acpi", "mcfg", "entryCount">>, Len(Windows))
<1>1. AcpiFacts = {h, t, u, v} \cup T \cup R \cup M
  BY DEF AcpiFacts, Address
<1>2. TableFacts = T
  BY TablesSaid
<1>3. RsdpFacts = R
  <2>1. RsdpFacts = IF firmware.rsdp = NULL THEN {}
                    ELSE {NumberFact(<<"acpi", "revision">>, firmware.rsdp.revision)}
                         \cup {HexFact(<<"acpi", "rsdt">>, firmware.rsdp.rsdt)}
                         \cup {HexFact(<<"acpi", "xsdt">>, firmware.rsdp.xsdt)}
    BY OneFact DEF RsdpFacts
  <2>2. QED  BY <2>1
<1>4. MadtFacts = {t} \cup M
  <2>1. MadtFacts = {t} \cup IF firmware.madt = NULL THEN {}
                    ELSE {NumberFact(<<"acpi", "madt", "length">>, firmware.madt.length)}
                         \cup {HexFact(<<"acpi", "madt", "localApicAddress">>, firmware.madt.localApicAddress)}
                         \cup {HexFact(<<"acpi", "madt", "flags">>, firmware.madt.flags)}
    BY OneFact DEF MadtFacts
  <2>2. QED  BY <2>1
<1>5. McfgFacts = {u} \cup {v} /\ Hexed(<<"acpi", "rsdp">>, Address) = {h}
  BY OneFact DEF McfgFacts
<1> HIDE DEF T, R, M, h, t, u, v
<1>6. QED  BY <1>1, <1>2, <1>3, <1>4, <1>5

\* and of the table of the lab.
LEMMA LabSaid == LabTableFacts = LabFacts
<1>1. LabTableFacts
        = {TruthFact(<<"uefiBootLab", "present">>, LabValid)}
          \cup (IF ~LabValid THEN {}
                ELSE {NumberFact(<<"uefiBootLab", "version">>, firmware.lab.version)}
                     \cup {TextFact(<<"uefiBootLab", "platformId">>, firmware.lab.platformId)}
                     \cup {TextFact(<<"uefiBootLab", "buildMarker">>, firmware.lab.buildMarker)})
  BY OneFact DEF LabTableFacts
<1>2. QED  BY <1>1 DEF LabFacts

\* What the seven sections say is what there is to say.
LEMMA FactsSaid ==
    ASSUME firmware \in Firmwares
    PROVE  Facts = FirmwareFacts \cup Hexed(<<"acpi", "rsdp">>, Address) \cup RsdpFacts \cup TableFacts
                   \cup MadtFacts \cup McfgFacts \cup LabTableFacts \cup WindowFacts \cup SmbiosFacts \cup MemoryFacts
<1> DEFINE A == NumberFact(<<"schemaVersion">>, 1)
           B == TextFact(<<"firmware", "vendor">>, firmware.vendor)
           C == <<<<"firmware", "uefiRevision">>, <<"string", Revision(firmware.major, firmware.minor)>>>>
           D == HexFact(<<"smbios", "entryPoint32">>, firmware.smbios32)
           E == HexFact(<<"smbios", "entryPoint64">>, firmware.smbios64)
           M == {NumberFact(<<"memoryMap", MemoryKeys[i]>>, firmware.memory[i]) : i \in DOMAIN MemoryKeys}
<1>1. Facts = {A, B, C, D, E} \cup M \cup AcpiFacts \cup LabFacts \cup PciFacts
  BY DEF Facts, Revision
<1>2. FirmwareFacts = {A} \cup {B} \cup {C}
  BY OneFact DEF FirmwareFacts, Fact
<1>3. SmbiosFacts = {D} \cup {E}
  BY OneFact DEF SmbiosFacts
<1>4. MemoryFacts = M
  BY MemorySaid
<1> HIDE DEF A, B, C, D, E, M
<1>5. QED  BY <1>1, <1>2, <1>3, <1>4, AcpiSaid, LabSaid, WindowsSaid

\* What has been said by the end of each section.
SaidByRsdp == FirmwareFacts \cup (Hexed(<<"acpi", "rsdp">>, Address) \cup RsdpFacts \cup TableFacts)
SaidByAcpi == SaidByRsdp \cup (MadtFacts \cup McfgFacts)
SaidByLab == SaidByAcpi \cup LabTableFacts
SaidByPci == SaidByLab \cup WindowFacts
SaidBySmbios == SaidByPci \cup SmbiosFacts

\* What the firmware says does not change while the report is written.
LEMMA SameFacts ==
    ASSUME firmware' = firmware
    PROVE  /\ FirmwareFacts' = FirmwareFacts
           /\ SaidByRsdp' = SaidByRsdp
           /\ SaidByAcpi' = SaidByAcpi
           /\ SaidByLab' = SaidByLab
           /\ SaidByPci' = SaidByPci
           /\ SaidBySmbios' = SaidBySmbios
           /\ Facts' = Facts
           /\ ProperSignatures' = ProperSignatures
<1>1. FirmwareFacts' = FirmwareFacts
  BY DEF FirmwareFacts
<1>2. TableFacts' = TableFacts
  BY DEF TableFacts
<1>3. Address' = Address /\ RsdpFacts' = RsdpFacts
  BY DEF Address, RsdpFacts
<1>4. Windows' = Windows /\ LabValid' = LabValid
  BY DEF Windows, LabValid
<1>5. MadtFacts' = MadtFacts /\ McfgFacts' = McfgFacts
  BY <1>4 DEF MadtFacts, McfgFacts
<1>6. LabTableFacts' = LabTableFacts
  BY <1>4 DEF LabTableFacts
<1>7. WindowFacts' = WindowFacts
  BY <1>4 DEF WindowFacts
<1>8. SmbiosFacts' = SmbiosFacts /\ MemoryFacts' = MemoryFacts
  BY DEF SmbiosFacts, MemoryFacts
<1>9. ProperSignatures' = ProperSignatures
  BY DEF ProperSignatures
<1>10. AcpiFacts' = AcpiFacts /\ LabFacts' = LabFacts /\ PciFacts' = PciFacts
  BY <1>4 DEF AcpiFacts, LabFacts, PciFacts
<1>11. Facts' = Facts
  BY <1>10 DEF Facts
<1>12. QED  BY <1>1, <1>2, <1>3, <1>5, <1>6, <1>7, <1>8, <1>9, <1>11
            DEF SaidByRsdp, SaidByAcpi, SaidByLab, SaidByPci, SaidBySmbios

-----------------------------------------------------------------------------
(* The report while it is written and read.                                *)

\* What was there before a text was appended.
LEMMA OldPrefix ==
    ASSUME NEW s, NEW t, IsText(s), IsText(t)
    PROVE  SubSeq(s \o t, 1, Len(s)) = s
<1>1. /\ IsText(s \o t) /\ Len(s \o t) = Len(s) + Len(t)
      /\ \A n \in 1 .. Len(s) : (s \o t)[n] = s[n]
  BY Joined
<1>2. Len(s) \in Nat /\ Len(t) \in Nat
  BY TextLength
<1> DEFINE u == s \o t
           n == Len(s)
<1>3. n \in Nat /\ n \in 0 .. Len(u)
  BY <1>1, <1>2
<1>4. IsText(SubSeq(u, 1, n)) /\ Len(SubSeq(u, 1, n)) = n
  <2> HIDE DEF u, n
  <2>1. QED  BY <1>1, <1>3, Prefix DEF u
<1>5. \A i \in 1 .. n : SubSeq(u, 1, n)[i] = s[i]
  <2>1. PICK S : u \in Seq(S)
    BY <1>1 DEF IsText
  <2>2. \A i \in 1 .. n : i \in 1 .. Len(u)
    BY <1>1, <1>2
  <2> HIDE DEF u
  <2>3. \A i \in 1 .. n : u[i] \in S
    BY <2>1, <2>2, ElementOfSeq
  <2> HIDE DEF n
  <2>4. \A i \in 1 .. n - 1 + 1 : SubSeq(u, 1, n)[i] = u[1 + i - 1]
    BY <1>3, <2>3, SubSeqProperties
  <2>5. \A i \in 1 .. n : SubSeq(u, 1, n)[i] = u[i]
    <3> TAKE i \in 1 .. n
    <3>1. i \in 1 .. n - 1 + 1 /\ 1 + i - 1 = i  BY <1>3
    <3>2. SubSeq(u, 1, n)[i] = u[1 + i - 1]  BY <2>4, <3>1
    <3>3. QED  BY <3>1, <3>2
  <2>6. QED  BY <1>1, <2>5 DEF u, n
<1> HIDE DEF u
<1>6. SubSeq(u, 1, n) = s
  BY <1>4, <1>5, SameText
<1>7. QED  BY <1>6 DEF u, n

\* The reader before the report.
Start == Place("value", <<>>, <<>>)

\* It is Reader0, which reads no number.
LEMMA Starts ==
    /\ Holding(Start, {}) = Reader0
    /\ IsReader(Reader0) /\ EndNumber(Reader0) = Reader0
<1>1. Reader0 = Reader("value", <<>>, <<>>, <<>>, {})
  BY DEF Reader0, Reader
<1>2. IsReader(Reader0) /\ Reader0.at = "value"
  BY <1>1, Fields
<1>3. EndNumber(Reader0) = Reader0
  BY <1>2 DEF EndNumber
<1>4. QED  BY <1>1, <1>2, <1>3, Holdings DEF Start, Place

\* What has been written is read as what it is meant to say.
Written ==
    /\ section = "firmware" => Yields(Start, text, Start, {})
    /\ section = "rsdp" => Yields(Start, text, Place("behind", O1, <<"firmware">>), FirmwareFacts)
    /\ section = "acpi" => Yields(Start, text, Place("behind", O2, <<"acpi", "tables">>), SaidByRsdp)
    /\ section = "lab" => Yields(Start, text, Place("behind", O1, <<"acpi">>), SaidByAcpi)
    /\ section = "pci" => Yields(Start, text, Place("behind", O1, <<"uefiBootLab">>), SaidByLab)
    /\ section = "smbios" => Yields(Start, text, Place("behind", O1, <<"pci">>), SaidByPci)
    /\ section = "memory" => Yields(Start, text, Place("behind", O1, <<"smbios">>), SaidBySmbios)
    /\ section = "over" => Reads(Reader0, text, Reader("end", <<>>, <<>>, <<>>, Facts))

\* The sections, by which comes next.
Sections == {"firmware", "rsdp", "acpi", "lab", "pci", "smbios", "memory", "over"}

\* The reader has read what it has taken.
Followed ==
    /\ IsText(text)
    /\ taken \in 0 .. Len(text)
    /\ Reads(Reader0, SubSeq(text, 1, taken), reader)

\* The inductive invariant of the report and its reader.
ReaderInv ==
    /\ firmware \in Firmwares
    /\ section \in Sections
    /\ ProperSignatures => Written /\ Followed

\* It holds at the start.
LEMMA ReaderInit == JInit => ReaderInv
<1>1. SUFFICES ASSUME JInit PROVE ReaderInv
  OBVIOUS
<1>2. /\ firmware \in Firmwares /\ text = <<>> /\ section = "firmware" /\ reader = Reader0 /\ taken = 0
  BY <1>1 DEF JInit
<1>3. Written
  BY <1>2, YieldsNothing DEF Written
<1>4. Followed
  <2>1. IsText(<<>>) /\ Len(<<>>) = 0
    BY NoToken
  <2>2. SubSeq(<<>>, 1, 0) = <<>>
    BY <2>1, PrefixEnds
  <2>3. Reads(Reader0, <<>>, Reader0)
    BY ReadNothing
  <2>4. IsText(text)
    BY <1>2, <2>1
  <2>5. taken \in 0 .. Len(text)
    <3>1. 0 \in 0 .. Len(<<>>)
      BY <2>1
    <3>2. QED  BY <1>2, <3>1
  <2>6. Reads(Reader0, SubSeq(text, 1, taken), reader)
    BY <1>2, <2>2, <2>3
  <2>7. QED  BY <2>4, <2>5, <2>6 DEF Followed
<1>5. QED  BY <1>2, <1>3, <1>4 DEF ReaderInv, Sections

\* A section appended leaves behind what the reader has read.
LEMMA StillFollowed ==
    ASSUME NEW from, NEW what, NEW to, IsText(what), Followed, AppendSection(from, what, to)
    PROVE  Followed'
<1>1. IsText(text) /\ taken = Len(text) /\ text' = text \o what /\ reader' = reader /\ taken' = taken
  BY DEF Followed, AppendSection, CaughtUp
<1>2. IsText(text \o what) /\ Len(text \o what) = Len(text) + Len(what) /\ Len(text) \in Nat /\ Len(what) \in Nat
  BY <1>1, Joined, TextLength
<1>3. taken \in 0 .. Len(text \o what)
  BY <1>1, <1>2
<1>4. SubSeq(text \o what, 1, taken) = text
  BY <1>1, OldPrefix
<1>5. SubSeq(text, 1, taken) = text
  BY <1>1, PrefixEnds
<1>6. Reads(Reader0, SubSeq(text \o what, 1, taken), reader)
  BY <1>4, <1>5 DEF Followed
<1>7. QED  BY <1>1, <1>2, <1>3, <1>6 DEF Followed

\* The reader takes a token of what is there.
LEMMA ReaderReadToken ==
    ASSUME Followed, ReadToken
    PROVE  Followed'
<1>1. /\ IsText(text) /\ taken \in 0 .. Len(text) /\ taken # Len(text)
      /\ Reads(Reader0, SubSeq(text, 1, taken), reader)
      /\ reader' = Read(reader, text[taken + 1]) /\ taken' = taken + 1 /\ text' = text
  BY DEF Followed, ReadToken, CaughtUp
<1>2. Len(text) \in Nat
  BY <1>1, TextLength
<1>3. taken + 1 \in 1 .. Len(text) /\ (taken + 1) - 1 = taken /\ taken + 1 \in 0 .. Len(text)
  BY <1>1, <1>2
<1>4. SubSeq(text, 1, taken + 1) = SubSeq(text, 1, (taken + 1) - 1) \o <<text[taken + 1]>>
  BY <1>1, <1>3, NextPrefix
<1>5. Reads(reader, <<text[taken + 1]>>, Read(reader, text[taken + 1]))
  BY ReadOne
<1>6. IsText(SubSeq(text, 1, taken)) /\ IsText(<<text[taken + 1]>>)
  BY <1>1, Prefix, OneToken
<1>7. Reads(Reader0, SubSeq(text, 1, taken) \o <<text[taken + 1]>>, Read(reader, text[taken + 1]))
  BY <1>1, <1>5, <1>6, ReadOn
<1>8. Reads(Reader0, SubSeq(text, 1, taken + 1), Read(reader, text[taken + 1]))
  BY <1>3, <1>4, <1>7
<1>9. QED  BY <1>1, <1>3, <1>8 DEF Followed

\* What yields something is a text.
LEMMA YieldedText == ASSUME NEW x, NEW s, NEW y, NEW F, Yields(x, s, y, F) PROVE IsText(s)
BY DEF Yields, Goes

\* The brace that ends the report leaves the reader at the end.
LEMMA TheEnd ==
    ASSUME NEW s, NEW F, Yields(Start, s, Place("behind", O1, <<"memoryMap">>), F)
    PROVE  Reads(Reader0, s \o Close, Reader("end", <<>>, <<>>, <<>>, F))
<1>1. Goes(Reader0, s, Reader("behind", O1, <<"memoryMap">>, <<>>, F))
  <2>1. Goes(Holding(Start, {}), s, Holding(Place("behind", O1, <<"memoryMap">>), {} \cup F))
    BY DEF Yields
  <2>2. {} \cup F = F
    OBVIOUS
  <2>3. Holding(Place("behind", O1, <<"memoryMap">>), F) = Reader("behind", O1, <<"memoryMap">>, <<>>, F)
    BY Holdings DEF Place
  <2>4. QED  BY <2>1, <2>2, <2>3, Starts
<1>2. PICK b : Reads(Reader0, s, b) /\ EndNumber(b) = Reader("behind", O1, <<"memoryMap">>, <<>>, F)
  BY <1>1, Starts DEF Goes
<1>3. PICK token : token = <<"endObject">> /\ token[1] = "endObject"
  BY OneToken
<1>4. Read(b, token) = Continue(EndNumber(b), token)
  BY <1>3 DEF Read
<1>5. Under(<<>>, "memoryMap", <<"memoryMap">>)
  BY Unders
<1>6. Continue(Reader("behind", O1, <<"memoryMap">>, <<>>, F), token) = Reader("end", <<>>, <<>>, <<>>, F)
  BY <1>3, <1>5, Stacks, ContinuesClose
<1>7. Reads(b, <<token>>, Read(b, token))
  BY ReadOne
<1>8. IsText(s) /\ IsText(<<token>>)
  BY OneToken, YieldedText
<1>9. Reads(Reader0, s \o <<token>>, Read(b, token))
  BY <1>2, <1>7, <1>8, ReadOn
<1>10. QED  BY <1>2, <1>3, <1>4, <1>6, <1>9 DEF Close

\* Each section of BuildFirmwareJson is read as what it says.
LEMMA ReaderAppend ==
    ASSUME ReaderInv, ProperSignatures, BuildFirmwareJson
    PROVE  Written' /\ Followed'
<1>1. firmware \in Firmwares /\ Written /\ Followed
  BY DEF ReaderInv
<1>2. firmware' = firmware
  BY DEF BuildFirmwareJson, AppendSection
<1>3. CASE AppendSection("firmware", FirmwareSection, "rsdp")
  <2>1. section' = "rsdp" /\ text' = text \o FirmwareSection /\ Yields(Start, text, Start, {})
    BY <1>1, <1>3 DEF AppendSection, Written
  <2>2. Yields(Start, FirmwareSection, Place("behind", O1, <<"firmware">>), FirmwareFacts)
    BY <1>1, ReadsFirmware DEF Start
  <2>3. Yields(Start, text \o FirmwareSection, Place("behind", O1, <<"firmware">>), {} \cup FirmwareFacts)
    BY <2>1, <2>2, YieldsOn
  <2>4. {} \cup FirmwareFacts = FirmwareFacts
    OBVIOUS
  <2>5. Written'
    BY <1>2, <2>1, <2>3, <2>4, SameFacts DEF Written
  <2>6. QED  BY <1>1, <1>3, <2>2, <2>5, StillFollowed, YieldedText
<1>4. CASE AppendSection("rsdp", RsdpSection, "acpi")
  <2>1. section' = "acpi" /\ text' = text \o RsdpSection
        /\ Yields(Start, text, Place("behind", O1, <<"firmware">>), FirmwareFacts)
    BY <1>1, <1>4 DEF AppendSection, Written
  <2>2. Yields(Place("behind", O1, <<"firmware">>), RsdpSection, Place("behind", O2, <<"acpi", "tables">>),
               Hexed(<<"acpi", "rsdp">>, Address) \cup RsdpFacts \cup TableFacts)
    BY <1>1, ReadsRsdp
  <2>3. Yields(Start, text \o RsdpSection, Place("behind", O2, <<"acpi", "tables">>), SaidByRsdp)
    BY <2>1, <2>2, YieldsOn DEF SaidByRsdp
  <2>4. Written'
    BY <1>2, <2>1, <2>3, SameFacts DEF Written
  <2>5. QED  BY <1>1, <1>4, <2>2, <2>4, StillFollowed, YieldedText
<1>5. CASE AppendSection("acpi", AcpiSection, "lab")
  <2>1. section' = "lab" /\ text' = text \o AcpiSection
        /\ Yields(Start, text, Place("behind", O2, <<"acpi", "tables">>), SaidByRsdp)
    BY <1>1, <1>5 DEF AppendSection, Written
  <2>2. Yields(Place("behind", O2, <<"acpi", "tables">>), AcpiSection, Place("behind", O1, <<"acpi">>),
               MadtFacts \cup McfgFacts)
    BY <1>1, ReadsAcpi
  <2>3. Yields(Start, text \o AcpiSection, Place("behind", O1, <<"acpi">>), SaidByAcpi)
    BY <2>1, <2>2, YieldsOn DEF SaidByAcpi
  <2>4. Written'
    BY <1>2, <2>1, <2>3, SameFacts DEF Written
  <2>5. QED  BY <1>1, <1>5, <2>2, <2>4, StillFollowed, YieldedText
<1>6. CASE AppendSection("lab", LabSection, "pci")
  <2>1. section' = "pci" /\ text' = text \o LabSection
        /\ Yields(Start, text, Place("behind", O1, <<"acpi">>), SaidByAcpi)
    BY <1>1, <1>6 DEF AppendSection, Written
  <2>2. Yields(Place("behind", O1, <<"acpi">>), LabSection, Place("behind", O1, <<"uefiBootLab">>), LabTableFacts)
    BY <1>1, ReadsLab
  <2>3. Yields(Start, text \o LabSection, Place("behind", O1, <<"uefiBootLab">>), SaidByLab)
    BY <2>1, <2>2, YieldsOn DEF SaidByLab
  <2>4. Written'
    BY <1>2, <2>1, <2>3, SameFacts DEF Written
  <2>5. QED  BY <1>1, <1>6, <2>2, <2>4, StillFollowed, YieldedText
<1>7. CASE AppendSection("pci", PciSection, "smbios")
  <2>1. section' = "smbios" /\ text' = text \o PciSection
        /\ Yields(Start, text, Place("behind", O1, <<"uefiBootLab">>), SaidByLab)
    BY <1>1, <1>7 DEF AppendSection, Written
  <2>2. Yields(Place("behind", O1, <<"uefiBootLab">>), PciSection, Place("behind", O1, <<"pci">>), WindowFacts)
    BY <1>1, ReadsPci
  <2>3. Yields(Start, text \o PciSection, Place("behind", O1, <<"pci">>), SaidByPci)
    BY <2>1, <2>2, YieldsOn DEF SaidByPci
  <2>4. Written'
    BY <1>2, <2>1, <2>3, SameFacts DEF Written
  <2>5. QED  BY <1>1, <1>7, <2>2, <2>4, StillFollowed, YieldedText
<1>8. CASE AppendSection("smbios", SmbiosSection, "memory")
  <2>1. section' = "memory" /\ text' = text \o SmbiosSection
        /\ Yields(Start, text, Place("behind", O1, <<"pci">>), SaidByPci)
    BY <1>1, <1>8 DEF AppendSection, Written
  <2>2. Yields(Place("behind", O1, <<"pci">>), SmbiosSection, Place("behind", O1, <<"smbios">>), SmbiosFacts)
    BY ReadsSmbios
  <2>3. Yields(Start, text \o SmbiosSection, Place("behind", O1, <<"smbios">>), SaidBySmbios)
    BY <2>1, <2>2, YieldsOn DEF SaidBySmbios
  <2>4. Written'
    BY <1>2, <2>1, <2>3, SameFacts DEF Written
  <2>5. QED  BY <1>1, <1>8, <2>2, <2>4, StillFollowed, YieldedText
<1>9. CASE AppendSection("memory", MemorySection, "over")
  <2>1. section' = "over" /\ text' = text \o MemorySection
        /\ Yields(Start, text, Place("behind", O1, <<"smbios">>), SaidBySmbios)
    BY <1>1, <1>9 DEF AppendSection, Written
  <2>2. /\ Yields(Place("behind", O1, <<"smbios">>), MemoryBody, Place("behind", O1, <<"memoryMap">>), MemoryFacts)
        /\ MemorySection = MemoryBody \o Close
    BY <1>1, ReadsMemoryMap
  <2>3. Yields(Start, text \o MemoryBody, Place("behind", O1, <<"memoryMap">>), SaidBySmbios \cup MemoryFacts)
    BY <2>1, <2>2, YieldsOn
  <2>4. SaidBySmbios \cup MemoryFacts = Facts
    <3>1. Facts = FirmwareFacts \cup Hexed(<<"acpi", "rsdp">>, Address) \cup RsdpFacts \cup TableFacts
                  \cup MadtFacts \cup McfgFacts \cup LabTableFacts \cup WindowFacts \cup SmbiosFacts \cup MemoryFacts
      BY <1>1, FactsSaid
    <3>2. QED  BY <3>1 DEF SaidBySmbios, SaidByPci, SaidByLab, SaidByAcpi, SaidByRsdp
  <2>5. Reads(Reader0, (text \o MemoryBody) \o Close, Reader("end", <<>>, <<>>, <<>>, Facts))
    BY <2>3, <2>4, TheEnd
  <2>6. IsText(text) /\ IsText(MemoryBody) /\ IsText(Close) /\ IsText(MemorySection)
    <3>1. IsText(text) /\ IsText(MemoryBody)
      BY <2>1, <2>2, YieldedText
    <3>2. IsText(Close)
      BY OneToken DEF Close
    <3>3. QED  BY <2>2, <3>1, <3>2, Joined
  <2>7. (text \o MemoryBody) \o Close = text \o MemorySection
    <3>1. IsText(text) /\ IsText(MemoryBody) /\ IsText(Close)
      BY <2>6
    <3>2. (text \o MemoryBody) \o Close = text \o (MemoryBody \o Close)
      BY ONLY <3>1, Associates
    <3>3. QED  BY <2>2, <3>2
  <2>8. Written'
    BY <1>2, <2>1, <2>5, <2>7, SameFacts DEF Written
  <2>9. QED  BY <1>1, <1>9, <2>6, <2>8, StillFollowed
<1>10. QED  BY <1>3, <1>4, <1>5, <1>6, <1>7, <1>8, <1>9 DEF BuildFirmwareJson

\* Every step preserves it.
LEMMA ReaderNext == ReaderInv /\ [JNext]_jvars => ReaderInv'
<1>1. SUFFICES ASSUME ReaderInv, [JNext]_jvars PROVE ReaderInv'
  OBVIOUS
<1>2. CASE BuildFirmwareJson
  <2>1. firmware' = firmware /\ section' \in Sections
    BY <1>2 DEF BuildFirmwareJson, AppendSection, Sections
  <2>2. ProperSignatures' = ProperSignatures
    BY <2>1, SameFacts
  <2>3. QED  BY <1>1, <1>2, <2>1, <2>2, ReaderAppend DEF ReaderInv
<1>3. CASE ReadToken
  <2>1. firmware' = firmware /\ section' = section /\ text' = text
    BY <1>3 DEF ReadToken
  <2>2. ProperSignatures' = ProperSignatures
    BY <2>1, SameFacts
  <2>3. Written => Written'
    BY <2>1, SameFacts DEF Written
  <2>4. QED  BY <1>1, <1>3, <2>1, <2>2, <2>3, ReaderReadToken DEF ReaderInv
<1>4. CASE UNCHANGED jvars
  <2>1. firmware' = firmware /\ section' = section /\ text' = text /\ reader' = reader /\ taken' = taken
    BY <1>4 DEF jvars
  <2>2. ProperSignatures' = ProperSignatures
    BY <2>1, SameFacts
  <2>3. Written => Written'
    BY <2>1, SameFacts DEF Written
  <2>4. Followed => Followed'
    BY <2>1 DEF Followed
  <2>5. QED  BY <1>1, <2>1, <2>2, <2>3, <2>4 DEF ReaderInv
<1>5. QED  BY <1>1, <1>2, <1>3, <1>4 DEF JNext

\* It says that the whole report reads back.
LEMMA ReaderReads == ReaderInv => ReadsBack
<1>1. SUFFICES ASSUME ReaderInv, section = "over", CaughtUp, ProperSignatures
               PROVE  reader.at = "end" /\ reader.facts = Facts
  BY DEF ReadsBack
<1>2. IsText(text) /\ taken = Len(text) /\ Reads(Reader0, SubSeq(text, 1, taken), reader)
      /\ Reads(Reader0, text, Reader("end", <<>>, <<>>, <<>>, Facts))
  BY <1>1 DEF ReaderInv, Written, Followed, CaughtUp
<1>3. SubSeq(text, 1, taken) = text
  BY <1>2, PrefixEnds
<1>4. reader = Reader("end", <<>>, <<>>, <<>>, Facts)
  BY <1>2, <1>3, ReadsAlike
<1>5. QED  BY <1>4, Fields

\* The report of BuildFirmwareJson is one a strict reader takes, and it says every
\* fact the firmware has to tell, at its path, and no other: for firmware with
\* proper ACPI signatures, whatever else is missing from it and whatever
\* characters its texts hold.
THEOREM ReportReadsBack == JSpec => []ReadsBack
<1>1. JInit => ReaderInv
  BY ReaderInit
<1>2. ReaderInv /\ [JNext]_jvars => ReaderInv'
  BY ReaderNext
<1>3. ReaderInv => ReadsBack
  BY ReaderReads
<1>4. QED  BY <1>1, <1>2, <1>3, PTL DEF JSpec

-----------------------------------------------------------------------------
(* The writer: the type invariant, the inductive invariant that ties       *)
(* buffer, length and Truncated to the document, and the refinement of     *)
(* WholeReport.                                                            *)

USE CapacityAssumption, TextsAssumption

\* A piece of the document is a sequence of characters, and so is the
\* document with one more piece.
LEMMA AppendedDocument ==
    ASSUME NEW piece \in Texts, document \in Seq(Char)
    PROVE  /\ piece \in Seq(Char)
           /\ Len(piece) \in Nat
           /\ document \o piece \in Seq(Char)
           /\ Len(document \o piece) = Len(document) + Len(piece)
           /\ \A i \in 1 .. Len(document) : (document \o piece)[i] = document[i]
           /\ \A i \in Len(document) + 1 .. Len(document) + Len(piece) :
                 (document \o piece)[i] = piece[i - Len(document)]
<1>1. piece \in Seq(Char)  OBVIOUS
<1>2. QED  BY <1>1

\* With the terminator in place, the number of bytes copied is at most the
\* piece's and at most the room that is left.
LEMMA CopyLengthBounds ==
    ASSUME NEW piece \in Texts, length \in Nat, length < Capacity
    PROVE  /\ CopyLength(piece) \in 0 .. Len(piece)
           /\ length + CopyLength(piece) < Capacity
           /\ length + Len(piece) + 1 <= Capacity => CopyLength(piece) = Len(piece)
           /\ length + Len(piece) + 1 > Capacity =>
                 length + CopyLength(piece) = Capacity - 1
<1>1. Len(piece) \in Nat  OBVIOUS
<1>2. QED  BY <1>1 DEF CopyLength

\* What the copy leaves in the buffer.
LEMMA CopiedBuffer ==
    ASSUME NEW piece \in Texts, NEW n \in 0 .. Len(piece),
           buffer \in [Offset -> Char \cup {NUL}],
           length \in Nat, length + n < Capacity
    PROVE  /\ Copied(piece, n) \in [Offset -> Char \cup {NUL}]
           /\ \A i \in 0 .. length - 1 : Copied(piece, n)[i] = buffer[i]
           /\ \A i \in length .. length + n - 1 :
                 Copied(piece, n)[i] = piece[i - length + 1]
           /\ Copied(piece, n)[length + n] = NUL
<1>1. piece \in Seq(Char) /\ Len(piece) \in Nat  OBVIOUS
<1>2. n \in Nat  BY <1>1
<1>3. \A i \in length .. length + n - 1 : piece[i - length + 1] \in Char
  BY <1>1, <1>2
<1>4. \A i \in Offset : (CASE i \in length .. length + n - 1 -> piece[i - length + 1]
                           [] i = length + n -> NUL
                           [] OTHER -> buffer[i]) \in Char \cup {NUL}
  BY <1>1, <1>2, <1>3 DEF Offset
<1>5. Copied(piece, n) \in [Offset -> Char \cup {NUL}]
  BY <1>4 DEF Copied
<1>6. \A i \in 0 .. length - 1 : Copied(piece, n)[i] = buffer[i]
  BY <1>1, <1>2 DEF Copied, Offset
<1>7. \A i \in length .. length + n - 1 : Copied(piece, n)[i] = piece[i - length + 1]
  BY <1>1, <1>2 DEF Copied, Offset
<1>8. Copied(piece, n)[length + n] = NUL
  BY <1>1, <1>2 DEF Copied, Offset
<1>9. QED  BY <1>5, <1>6, <1>7, <1>8

-----------------------------------------------------------------------------
(***************************************************************************)
(* The inductive invariant.  TypeOK alone is not inductive: the copy stays *)
(* inside the buffer only because room for the terminator was kept.  And   *)
(* HoldsPrefix needs "a truncated buffer is full": without it a clipped    *)
(* piece could be followed by one that fits, and a hole would be closed.   *)
(***************************************************************************)
IInv == /\ TypeOK
        /\ Terminated
        /\ HoldsPrefix
        /\ TruncatedIsExact
        /\ truncated => length = Capacity - 1
        /\ PoolBalanced
        /\ pc \in {"allocate", "build"} => delivered = {} /\ status = "running"
        /\ pc = "allocate" => document = <<>>
        /\ pc = "write" => delivered = {document} /\ status = "running"
        /\ pc = "done" => delivered \subseteq {document}

LEMMA InitEstablishes == Init => IInv
<1> SUFFICES ASSUME Init PROVE IInv
  OBVIOUS
<1> USE DEF Init
<1>1. NUL \in Char \cup {NUL}  OBVIOUS
<1>2. buffer \in [Offset -> Char \cup {NUL}]
  BY <1>1
<1>3. <<>> \in Seq(Char) /\ Len(<<>>) = 0 /\ 0 \in 0 .. Capacity  OBVIOUS
<1>4. TypeOK  BY <1>2, <1>3 DEF TypeOK
<1>5. Terminated  BY DEF Terminated, Offset
<1>6. HoldsPrefix  BY <1>3 DEF HoldsPrefix
<1>7. TruncatedIsExact  BY <1>3 DEF TruncatedIsExact
<1>8. QED  BY <1>4, <1>5, <1>6, <1>7 DEF IInv, PoolBalanced

\* One append: the cases "all of the piece fits" and "it is clipped".
LEMMA AppendPreserves ==
    ASSUME NEW piece \in Texts, IInv, JsonAppend(piece)
    PROVE  IInv'
<1> DEFINE n == CopyLength(piece)
<1>1. /\ length \in Nat /\ length < Capacity
      /\ buffer \in [Offset -> Char \cup {NUL}]
      /\ document \in Seq(Char) /\ Len(document) \in Nat
      /\ piece \in Seq(Char) /\ Len(piece) \in Nat
      /\ truncated \in BOOLEAN
  BY DEF IInv, TypeOK, Terminated
<1>2. n \in 0 .. Len(piece) /\ length + n < Capacity
  BY <1>1, CopyLengthBounds
<1>3. /\ buffer' = Copied(piece, n)
      /\ length' = length + n
      /\ truncated' = (truncated \/ length + Len(piece) + 1 > Capacity)
      /\ document' = document \o piece
      /\ pc = "build" /\ UNCHANGED <<pool, pc, status, delivered>>
  BY <1>1 DEF JsonAppend, Clipped
<1>4. /\ document' \in Seq(Char)
      /\ Len(document') = Len(document) + Len(piece)
      /\ \A i \in 1 .. Len(document) : document'[i] = document[i]
      /\ \A i \in Len(document) + 1 .. Len(document) + Len(piece) :
            document'[i] = piece[i - Len(document)]
  BY <1>1, <1>3, AppendedDocument
<1>5. /\ buffer' \in [Offset -> Char \cup {NUL}]
      /\ \A i \in 0 .. length - 1 : buffer'[i] = buffer[i]
      /\ \A i \in length .. length + n - 1 : buffer'[i] = piece[i - length + 1]
      /\ buffer'[length + n] = NUL
  BY <1>1, <1>2, <1>3, CopiedBuffer
<1> HIDE DEF n
<1>6. TypeOK'
  BY <1>1, <1>2, <1>3, <1>4, <1>5 DEF IInv, TypeOK
<1>7. Terminated'
  BY <1>1, <1>2, <1>3, <1>5 DEF Terminated
<1>8. /\ truncated <=> Len(document) > Capacity - 1
      /\ truncated \/ length = Len(document)
      /\ length <= Len(document)
  BY DEF IInv, TruncatedIsExact, HoldsPrefix
<1>9. /\ length + Len(piece) + 1 <= Capacity => n = Len(piece)
      /\ length + Len(piece) + 1 > Capacity => length + n = Capacity - 1
  BY <1>1, CopyLengthBounds DEF n
<1>10. truncated => length = Capacity - 1
  BY DEF IInv
<1>11. ~truncated => length = Len(document)
  BY <1>8
<1>12. HoldsPrefix'
  <2>1. length' <= Len(document')
    BY <1>1, <1>2, <1>3, <1>4, <1>8
  <2>2. ASSUME NEW i \in 0 .. length' - 1 PROVE buffer'[i] = document'[i + 1]
    <3>1. CASE i \in 0 .. length - 1
      <4>1. buffer[i] = document[i + 1]
        BY <3>1 DEF IInv, HoldsPrefix
      <4>2. i + 1 \in 1 .. Len(document)
        BY <1>1, <1>8, <3>1
      <4>3. QED  BY <1>4, <1>5, <3>1, <4>1, <4>2
    <3>2. CASE i \in length .. length + n - 1
      <4>1. n > 0  BY <1>1, <1>2, <3>2
      <4>2. length = Len(document)
        BY <1>1, <1>2, <1>10, <1>11, <4>1
      <4>3. buffer'[i] = piece[i - length + 1]
        BY <1>5, <3>2
      <4>4. i + 1 \in Len(document) + 1 .. Len(document) + Len(piece)
        BY <1>1, <1>2, <3>2, <4>2
      <4>5. document'[i + 1] = piece[i + 1 - Len(document)]
        BY <1>4, <4>4
      <4>6. i + 1 - Len(document) = i - length + 1
        BY <1>1, <3>2, <4>2
      <4>7. QED  BY <4>3, <4>5, <4>6
    <3>3. i \in 0 .. length - 1 \/ i \in length .. length + n - 1
      <4>1. length' = length + n  BY <1>3
      <4>2. QED  BY <1>1, <1>2, <2>2, <4>1
    <3>4. QED  BY <3>1, <3>2, <3>3
  <2>3. QED  BY <2>1, <2>2 DEF HoldsPrefix
<1>13. TruncatedIsExact'
  <2>1. CASE length + Len(piece) + 1 > Capacity
    <3>1. truncated' /\ length + n = Capacity - 1  BY <1>3, <1>9, <2>1
    <3>2. Len(document') > Capacity - 1
      BY <1>1, <1>4, <1>8, <2>1
    <3>3. QED  BY <3>1, <3>2 DEF TruncatedIsExact
  <2>2. CASE length + Len(piece) + 1 <= Capacity
    <3>1. truncated' = truncated /\ n = Len(piece)  BY <1>1, <1>3, <1>9, <2>2
    <3>2. CASE truncated
      <4>1. Len(piece) = 0 /\ Len(document) > Capacity - 1
        BY <1>1, <1>8, <1>10, <2>2, <3>2
      <4>2. QED  BY <1>1, <1>4, <3>1, <3>2, <4>1 DEF TruncatedIsExact
    <3>3. CASE ~truncated
      <4>1. length' = Len(document')
        BY <1>1, <1>3, <1>4, <1>11, <3>1, <3>3
      <4>2. Len(document') <= Capacity - 1
        BY <1>1, <1>4, <1>11, <2>2, <3>3
      <4>3. Len(document') \in Nat  BY <1>1, <1>4
      <4>4. QED  BY <3>1, <3>3, <4>1, <4>2, <4>3 DEF TruncatedIsExact
    <3>4. QED  BY <3>2, <3>3
  <2>3. QED  BY <1>1, <2>1, <2>2
<1>14. (truncated => length = Capacity - 1)'
  BY <1>1, <1>2, <1>3, <1>9, <1>10
<1>15. QED
  BY <1>3, <1>6, <1>7, <1>12, <1>13, <1>14 DEF IInv, PoolBalanced

\* The document handed to the volume is rebuilt from the buffer: with nothing
\* truncated it is the document itself.
LEMMA FinishPreserves ==
    ASSUME IInv, Finish
    PROVE  IInv'
<1> USE DEF IInv
<1>1. CASE truncated
  BY <1>1 DEF Finish, writer, TypeOK, Terminated, HoldsPrefix, TruncatedIsExact,
              PoolBalanced
<1>2. CASE ~truncated
  <2> DEFINE handed == [i \in 1 .. length |-> buffer[i - 1]]
  <2>1. /\ document \in Seq(Char) /\ length = Len(document)
        /\ \A i \in 0 .. length - 1 : buffer[i] = document[i + 1]
    BY <1>2 DEF TypeOK, TruncatedIsExact, HoldsPrefix
  <2>2. \A i \in 1 .. length : buffer[i - 1] = document[i]
    BY <2>1
  <2>3. document = [i \in 1 .. length |-> document[i]]
    BY <2>1
  <2>4. handed = document
    BY <2>2, <2>3
  <2>5. delivered' = {document} /\ pc' = "write" /\ pc = "build" /\ UNCHANGED <<writer, document, pool, status>>
    BY <1>2, <2>4 DEF Finish
  <2>6. QED
    BY <2>5 DEF writer, TypeOK, Terminated, HoldsPrefix, TruncatedIsExact, PoolBalanced
<1>3. QED  BY <1>1, <1>2

LEMMA StepPreserves == IInv /\ [Next]_vars => IInv'
<1> SUFFICES ASSUME IInv, [Next]_vars PROVE IInv'
  OBVIOUS
<1> USE DEF IInv, TypeOK, Terminated, HoldsPrefix, TruncatedIsExact, PoolBalanced
<1>1. CASE Allocate
  BY <1>1 DEF Allocate, writer
<1>2. ASSUME NEW piece \in Texts, JsonAppend(piece) PROVE IInv'
  BY <1>2, AppendPreserves
<1>3. CASE Finish
  BY <1>3, FinishPreserves
<1>4. CASE Return
  BY <1>4 DEF Return, writer
<1>5. CASE Done \/ UNCHANGED vars
  BY <1>5 DEF Done, vars
<1>6. QED  BY <1>1, <1>2, <1>3, <1>4, <1>5 DEF Next

LEMMA Inductive == Spec => []IInv
BY InitEstablishes, StepPreserves, PTL DEF Spec

-----------------------------------------------------------------------------
\* TypeOK holds in every reachable state, whatever the capacity of the writer
\* and whatever pieces BuildFirmwareJson appends.
THEOREM TypeCorrect == Spec => []TypeOK
<1>1. IInv => TypeOK  BY DEF IInv
<1>2. QED  BY <1>1, Inductive, PTL

\* JsonAppend stays inside its buffer and keeps it terminated.
THEOREM AlwaysTerminated == Spec => []Terminated
<1>1. IInv => Terminated  BY DEF IInv
<1>2. QED  BY <1>1, Inductive, PTL

\* The buffer is at all times a prefix of what was appended.
THEOREM AlwaysPrefix == Spec => []HoldsPrefix
<1>1. IInv => HoldsPrefix  BY DEF IInv
<1>2. QED  BY <1>1, Inductive, PTL

\* Truncated is raised if and only if the document does not fit.
THEOREM TruncationExact == Spec => []TruncatedIsExact
<1>1. IInv => TruncatedIsExact  BY DEF IInv
<1>2. QED  BY <1>1, Inductive, PTL

\* WriteFirmwareViewJson never hands over part of a document.
THEOREM WholeOrNothing == Spec => []OnlyWholeDelivered
<1>1. IInv => OnlyWholeDelivered  BY DEF IInv, TypeOK, OnlyWholeDelivered
<1>2. QED  BY <1>1, Inductive, PTL

\* WriteFirmwareViewJson owns its buffer exactly while it needs it.
THEOREM NoPoolLeak == Spec => []PoolBalanced
<1>1. IInv => PoolBalanced  BY DEF IInv
<1>2. QED  BY <1>1, Inductive, PTL

-----------------------------------------------------------------------------
\* The writer implements WholeReport: it starts where the promise starts and
\* each of its steps is a step of the promise or changes nothing of it.
THEOREM Implements == Spec => KeepsPromise
<1>1. Init => Promise!WInit
  BY DEF Init, Promise!WInit
<1>2. IInv /\ [Next]_vars => [Promise!WNext]_(Promise!wvars)
  <2> SUFFICES ASSUME IInv, [Next]_vars PROVE [Promise!WNext]_(Promise!wvars)
    OBVIOUS
  <2> USE DEF Promise!WNext, Promise!wvars
  <2>1. CASE Allocate
    BY <2>1 DEF Allocate, IInv, Promise!NoMemory
  <2>2. ASSUME NEW piece \in Texts, JsonAppend(piece) PROVE Promise!WNext
    BY <2>2 DEF JsonAppend, IInv, Promise!Compose
  <2>3. CASE Finish
    <3>1. IInv' /\ pc = "build" /\ document' = document
      BY <2>3, FinishPreserves DEF Finish
    <3>2. CASE truncated
      BY <2>3, <3>2 DEF Finish, IInv, TruncatedIsExact, TypeOK, Promise!Refuse
    <3>3. CASE ~truncated
      <4>1. pc' = "write" /\ status' = status
        BY <2>3, <3>3 DEF Finish
      <4>2. delivered' = {document} /\ delivered = {} /\ status = "running"
        BY <3>1, <4>1 DEF IInv
      <4>3. Len(document) <= Capacity - 1
        <5>1. Len(document) \in Nat  BY DEF IInv, TypeOK
        <5>2. QED  BY <5>1, <3>3 DEF IInv, TruncatedIsExact
      <4>4. QED  BY <3>1, <4>1, <4>2, <4>3 DEF Promise!Deliver
    <3>4. QED  BY <3>2, <3>3
  <2>4. CASE Return
    BY <2>4 DEF Return, IInv, Promise!Answer
  <2>5. CASE Done \/ UNCHANGED vars
    BY <2>5 DEF Done, vars
  <2>6. QED  BY <2>1, <2>2, <2>3, <2>4, <2>5 DEF Next
<1>3. QED  BY <1>1, <1>2, Inductive, PTL DEF Spec, KeepsPromise, Promise!WSpec
=============================================================================
