--------------------------- MODULE OvmfPatchProofs ---------------------------
(***************************************************************************)
(* The patch of the OVMF build files for FDFs of any length, any number of *)
(* runs and of stops: what the build sees, what the backups hold, and that *)
(* a patched tree is left alone.                                           *)
(***************************************************************************)
EXTENDS OvmfPatch, NumberInduction, SequenceTheorems

-----------------------------------------------------------------------------
(* The awk program.                                                        *)

AllLines == Lines \cup {"producer"}
Progress == [out : Seq(AllLines), inDxefv : BOOLEAN, inserted : BOOLEAN]

\* Line n is in the volume DXEFV, or would be if there were one.
InDxefv(lines, n) == \E d \in 1 .. n : /\ lines[d] = "dxefv"
                                       /\ \A k \in d + 1 .. n : lines[k] # "fv"

\* The first n lines with the producer before line p.
Inserted(lines, n, p, out) ==
    /\ Len(out) = n + 1
    /\ \A i \in 1 .. p - 1 : out[i] = lines[i]
    /\ out[p] = "producer"
    /\ \A i \in p + 1 .. n + 1 : out[i] = lines[i - 1]

\* What awk has done after n lines: copied them, with the producer put into DXEFV
\* if it has met a place for it.
Copied(lines, n, s) ==
    /\ s.inDxefv <=> InDxefv(lines, n)
    /\ ~s.inserted => /\ Len(s.out) = n
                      /\ \A i \in 1 .. n : s.out[i] = lines[i]
    /\ s.inserted => \E p \in 1 .. n : Inserted(lines, n, p, s.out) /\ InDxefv(lines, p - 1)

LEMMA LineIsProgress ==
    ASSUME NEW s \in Progress, NEW l \in Lines
    PROVE  Line(s, l) \in Progress
<1>1. s.out \in Seq(AllLines) /\ l \in AllLines /\ "producer" \in AllLines
  BY DEF Progress, AllLines
<1>2. Append(s.out, l) \in Seq(AllLines) /\ s.out \o <<"producer", l>> \in Seq(AllLines)
  BY <1>1
<1>3. QED  BY <1>2 DEF Line, Progress

\* The loop over the lines, one line at a time.
LEMMA AwkSteps ==
    ASSUME NEW lines \in Seq(Lines)
    PROVE  /\ Awked(lines) \in [0 .. Len(lines) -> Progress]
           /\ Awked(lines)[0] = [out |-> <<>>, inDxefv |-> FALSE, inserted |-> FALSE]
           /\ \A n \in 0 .. Len(lines) - 1 :
                 Awked(lines)[n + 1] = Line(Awked(lines)[n], lines[n + 1])
<1> DEFINE b == [out |-> <<>>, inDxefv |-> FALSE, inserted |-> FALSE]
           g == [q \in Progress \X Nat |->
                    IF q[2] < Len(lines) THEN Line(q[1], lines[q[2] + 1]) ELSE q[1]]
           D == 0 .. Len(lines)
           Def(h) == [n \in D |-> IF n = 0 THEN b ELSE Line(h[n - 1], lines[n])]
<1>1. b \in Progress
  BY DEF Progress
<1>2. g \in [Progress \X Nat -> Progress]
  <2>1. ASSUME NEW s \in Progress, NEW n \in Nat, n < Len(lines)
        PROVE  Line(s, lines[n + 1]) \in Progress
    <3>1. lines[n + 1] \in Lines
      BY <2>1
    <3>2. QED  BY <3>1, LineIsProgress
  <2>2. QED  BY <2>1
<1>3. PICK f \in [Nat -> Progress] : Unfolds(f, b, g)
  <2> HIDE DEF b, g
  <2>1. QED  BY <1>1, <1>2, Recursion
<1>4. f[0] = b /\ \A n \in Nat : f[n + 1] = g[<<f[n], n>>]
  <2> HIDE DEF b, g
  <2>1. QED  BY <1>3 DEF Unfolds
<1> DEFINE k == [n \in D |-> f[n]]
<1>5. k = Def(k)
  <2>1. ASSUME NEW n \in D, n # 0
        PROVE  f[n] = Line(f[n - 1], lines[n])
    <3>1. n - 1 \in Nat /\ n - 1 < Len(lines) /\ (n - 1) + 1 = n /\ f[n - 1] \in Progress
      BY <2>1
    <3>2. f[n] = g[<<f[n - 1], n - 1>>]
      <4> DEFINE m == n - 1
      <4>1. m \in Nat /\ m + 1 = n
        BY <3>1
      <4> HIDE DEF m, g
      <4>2. f[m + 1] = g[<<f[m], m>>]
        BY <1>4, <4>1
      <4>3. QED  BY <4>1, <4>2 DEF m
    <3>3. QED  BY <3>1, <3>2
  <2>2. \A n \in D : n # 0 => n - 1 \in D /\ k[n - 1] = f[n - 1]
    OBVIOUS
  <2> HIDE DEF b
  <2>3. QED  BY <1>4, <2>1, <2>2
<1>6. Awked(lines) = CHOOSE h : h = Def(h)
  BY DEF Awked
<1>7. Awked(lines) = Def(Awked(lines))
  <2> HIDE DEF Def, k
  <2>1. QED  BY <1>5, <1>6
<1>8. ASSUME NEW h, h = Def(h)
      PROVE  h \in [D -> Progress] /\ h[0] = b /\ \A n \in 0 .. Len(lines) - 1 : h[n + 1] = Line(h[n], lines[n + 1])
  <2>1. h[0] = b
    <3>1. 0 \in D  OBVIOUS
    <3> HIDE DEF b, D
    <3>2. QED  BY <1>8, <3>1
  <2>2. ASSUME NEW n \in 0 .. Len(lines) - 1
        PROVE  h[n + 1] = Line(h[n], lines[n + 1])
    <3>1. n + 1 \in D /\ n + 1 # 0 /\ (n + 1) - 1 = n
      OBVIOUS
    <3> HIDE DEF b, D
    <3>2. QED  BY <1>8, <3>1
  <2>3. \A n \in D : h[n] \in Progress
    <3> DEFINE S == {n \in Nat : n <= Len(lines) => h[n] \in Progress}
    <3>1. 0 \in S
      BY <1>1, <2>1
    <3>2. ASSUME NEW n \in Nat, n \in S PROVE n + 1 \in S
      <4>1. SUFFICES ASSUME n + 1 <= Len(lines) PROVE h[n + 1] \in Progress
        OBVIOUS
      <4>2. n \in 0 .. Len(lines) - 1 /\ h[n] \in Progress /\ lines[n + 1] \in Lines
        BY <3>2, <4>1
      <4>3. QED  BY <2>2, <4>2, LineIsProgress
    <3>3. Nat \subseteq S
      <4> HIDE DEF S
      <4>1. QED  BY <3>1, <3>2, Induction
    <3>4. QED  BY <3>3
  <2>4. h = [n \in D |-> h[n]]
    <3> HIDE DEF D, b
    <3>1. QED  BY <1>8
  <2> HIDE DEF D
  <2>5. QED  BY <2>1, <2>2, <2>3, <2>4
<1>9. QED
  <2> HIDE DEF Def
  <2>1. QED  BY <1>7, <1>8

LEMMA InDxefvStep ==
    ASSUME NEW lines, NEW n \in Nat
    PROVE  InDxefv(lines, n + 1) <=>
              lines[n + 1] = "dxefv" \/ (InDxefv(lines, n) /\ lines[n + 1] # "fv")
<1>1. ASSUME InDxefv(lines, n + 1), lines[n + 1] # "dxefv"
      PROVE  InDxefv(lines, n) /\ lines[n + 1] # "fv"
  <2>1. PICK d \in 1 .. n + 1 : lines[d] = "dxefv" /\ \A k \in d + 1 .. n + 1 : lines[k] # "fv"
    BY <1>1 DEF InDxefv
  <2>2. d \in 1 .. n /\ n + 1 \in d + 1 .. n + 1
    BY <1>1, <2>1
  <2>3. QED  BY <2>1, <2>2 DEF InDxefv
<1>2. ASSUME lines[n + 1] = "dxefv" PROVE InDxefv(lines, n + 1)
  BY <1>2 DEF InDxefv
<1>3. ASSUME InDxefv(lines, n), lines[n + 1] # "fv" PROVE InDxefv(lines, n + 1)
  <2>1. PICK d \in 1 .. n : lines[d] = "dxefv" /\ \A k \in d + 1 .. n : lines[k] # "fv"
    BY <1>3 DEF InDxefv
  <2>2. d \in 1 .. n + 1 /\ \A k \in d + 1 .. n + 1 : lines[k] # "fv"
    BY <1>3, <2>1
  <2>3. QED  BY <2>1, <2>2 DEF InDxefv
<1>4. QED  BY <1>1, <1>2, <1>3

\* One more line is copied, or the producer and the line.
LEMMA OneMoreLine ==
    ASSUME NEW lines \in Seq(Lines), NEW n \in 0 .. Len(lines) - 1,
           NEW s \in Progress, Copied(lines, n, s)
    PROVE  Copied(lines, n + 1, Line(s, lines[n + 1]))
<1> DEFINE l == lines[n + 1]
           t == Line(s, l)
           insert == s.inDxefv /\ ~s.inserted /\ l \in {"inf", "fv"}
<1>1. l \in Lines /\ l \in AllLines /\ n \in Nat /\ s.out \in Seq(AllLines)
      /\ s.inDxefv \in BOOLEAN /\ s.inserted \in BOOLEAN
  BY DEF AllLines, Progress
<1>2. /\ t.out = IF insert THEN s.out \o <<"producer", l>> ELSE Append(s.out, l)
      /\ t.inDxefv <=> l = "dxefv" \/ (s.inDxefv /\ l # "fv")
      /\ t.inserted <=> s.inserted \/ insert
  BY DEF Line
<1> SUFFICES Copied(lines, n + 1, t)
  OBVIOUS
<1> HIDE DEF t
<1>3. t.inDxefv <=> InDxefv(lines, n + 1)
  BY <1>1, <1>2, InDxefvStep DEF Copied
<1>4. CASE insert
  <2>1. Len(s.out) = n /\ \A i \in 1 .. n : s.out[i] = lines[i]
    BY <1>4 DEF Copied
  <2>2. InDxefv(lines, n)
    BY <1>4 DEF Copied
  <2>3. t.out = s.out \o <<"producer", l>> /\ t.inserted
    BY <1>2, <1>4
  <2>4. /\ Len(t.out) = n + 2
        /\ \A i \in 1 .. n : t.out[i] = lines[i]
        /\ t.out[n + 1] = "producer" /\ t.out[n + 2] = l
    <3> DEFINE u == <<"producer", l>>
    <3>1. u \in Seq(AllLines) /\ Len(u) = 2 /\ u[1] = "producer" /\ u[2] = l
      BY <1>1 DEF AllLines
    <3> HIDE DEF u
    <3>2. /\ Len(s.out \o u) = n + 2
          /\ \A i \in 1 .. n + 2 : (s.out \o u)[i] = IF i <= n THEN s.out[i] ELSE u[i - n]
      <4>1. Len(s.out) + Len(u) = n + 2
        BY <2>1, <3>1
      <4>2. s.out \in Seq(AllLines) /\ u \in Seq(AllLines)
        BY <1>1, <3>1
      <4>3. /\ Len(s.out \o u) = Len(s.out) + Len(u)
            /\ \A i \in 1 .. Len(s.out) + Len(u) :
                  (s.out \o u)[i] = IF i <= Len(s.out) THEN s.out[i] ELSE u[i - Len(s.out)]
        BY <4>2, ConcatProperties
      <4>4. Len(s.out) = n
        BY <2>1
      <4>5. QED  BY <4>1, <4>3, <4>4
    <3>3. (n + 1) - n = 1 /\ (n + 2) - n = 2
      BY <1>1
    <3>4. t.out = s.out \o u
      BY <2>3 DEF u
    <3>5. /\ n + 1 \in 1 .. n + 2 /\ n + 2 \in 1 .. n + 2 /\ ~(n + 1 <= n) /\ ~(n + 2 <= n)
          /\ \A i \in 1 .. n : i \in 1 .. n + 2 /\ i <= n
      BY <1>1
    <3>6. QED  BY <2>1, <3>1, <3>2, <3>3, <3>4, <3>5
  <2>5. Inserted(lines, n + 1, n + 1, t.out)
    <3>1. \A i \in (n + 1) + 1 .. (n + 1) + 1 : t.out[i] = lines[i - 1]
      BY <1>1, <2>4
    <3>2. /\ Len(t.out) = (n + 1) + 1
          /\ \A i \in 1 .. (n + 1) - 1 : t.out[i] = lines[i]
          /\ t.out[n + 1] = "producer"
      BY <1>1, <2>4
    <3>3. QED  BY <3>1, <3>2 DEF Inserted
  <2>6. n + 1 \in 1 .. n + 1 /\ (n + 1) - 1 = n
    OBVIOUS
  <2>7. QED  BY <1>3, <2>2, <2>3, <2>5, <2>6 DEF Copied
<1>5. CASE ~insert /\ ~s.inserted
  <2>1. Len(s.out) = n /\ \A i \in 1 .. n : s.out[i] = lines[i]
    BY <1>5 DEF Copied
  <2>2. t.out = Append(s.out, l) /\ ~t.inserted
    BY <1>2, <1>5
  <2>3. Len(t.out) = n + 1 /\ \A i \in 1 .. n + 1 : t.out[i] = lines[i]
    <3>1. /\ Len(t.out) = n + 1 /\ t.out[n + 1] = l
          /\ \A i \in 1 .. n : t.out[i] = s.out[i]
      <4>1. s.out \in Seq(AllLines) /\ l \in AllLines
        BY <1>1 DEF AllLines
      <4>2. QED  BY <2>1, <2>2, <4>1, AppendProperties
    <3>2. \A i \in 1 .. n + 1 : i \in 1 .. n \/ i = n + 1
      BY <1>1
    <3>3. QED  BY <1>1, <2>1, <3>1, <3>2
  <2>4. QED  BY <1>3, <2>2, <2>3 DEF Copied
<1>6. CASE ~insert /\ s.inserted
  <2>1. PICK p \in 1 .. n : Inserted(lines, n, p, s.out) /\ InDxefv(lines, p - 1)
    BY <1>6 DEF Copied
  <2>2. t.out = Append(s.out, l) /\ t.inserted
    BY <1>2, <1>6
  <2>3. Inserted(lines, n + 1, p, t.out)
    <3>1. Len(t.out) = n + 2 /\ t.out[n + 2] = l /\ \A i \in 1 .. n + 1 : t.out[i] = s.out[i]
      <4>1. s.out \in Seq(AllLines) /\ l \in AllLines
        BY <1>1 DEF AllLines
      <4>2. Len(s.out) = n + 1 /\ (n + 1) + 1 = n + 2
        BY <1>1, <2>1 DEF Inserted
      <4>3. QED  BY <2>2, <4>1, <4>2, AppendProperties
    <3>2. ASSUME NEW i \in p + 1 .. (n + 1) + 1 PROVE t.out[i] = lines[i - 1]
      <4>1. CASE i = n + 2
        BY <1>1, <3>1, <4>1
      <4>2. CASE i # n + 2
        <5>1. i \in p + 1 .. n + 1 /\ i \in 1 .. n + 1  BY <1>1, <4>2
        <5>2. QED  BY <2>1, <3>1, <5>1 DEF Inserted
      <4>3. QED  BY <4>1, <4>2
    <3>3. p \in 1 .. n + 1 /\ \A i \in 1 .. p - 1 : i \in 1 .. n + 1
      BY <1>1
    <3>4. /\ \A i \in 1 .. p - 1 : s.out[i] = lines[i]
          /\ s.out[p] = "producer" /\ p \in 1 .. n + 1
      BY <1>1, <2>1 DEF Inserted
    <3>5. /\ \A i \in 1 .. p - 1 : t.out[i] = lines[i]
          /\ t.out[p] = "producer"
      BY <3>1, <3>3, <3>4
    <3>6. Len(t.out) = (n + 1) + 1
      BY <1>1, <3>1
    <3>7. QED  BY <3>2, <3>5, <3>6 DEF Inserted
  <2>4. p \in 1 .. n + 1
    BY <1>1
  <2>5. QED  BY <1>3, <2>1, <2>2, <2>3, <2>4 DEF Copied
<1>7. QED  BY <1>4, <1>5, <1>6

\* What awk leaves behind.
LEMMA AwkCopies ==
    ASSUME NEW lines \in Seq(Lines)
    PROVE  Awk(lines) \in Progress /\ Copied(lines, Len(lines), Awk(lines))
<1> DEFINE S == {n \in Nat : n <= Len(lines) => Copied(lines, n, Awked(lines)[n])}
<1>1. 0 \in S
  <2>1. ~InDxefv(lines, 0)
    BY DEF InDxefv
  <2>2. QED  BY <2>1, AwkSteps DEF Copied
<1>2. ASSUME NEW n \in Nat, n \in S PROVE n + 1 \in S
  <2>1. SUFFICES ASSUME n + 1 <= Len(lines) PROVE Copied(lines, n + 1, Awked(lines)[n + 1])
    OBVIOUS
  <2>2. n \in 0 .. Len(lines) - 1 /\ n \in 0 .. Len(lines) /\ Copied(lines, n, Awked(lines)[n])
    BY <1>2, <2>1
  <2>3. Awked(lines)[n] \in Progress /\ Awked(lines)[n + 1] = Line(Awked(lines)[n], lines[n + 1])
    BY <2>2, AwkSteps
  <2>4. QED  BY <2>2, <2>3, OneMoreLine
<1>3. Nat \subseteq S
  <2> HIDE DEF S
  <2>1. QED  BY <1>1, <1>2, Induction
<1>4. Len(lines) \in Nat /\ Len(lines) \in 0 .. Len(lines)
  OBVIOUS
<1>5. QED  BY <1>3, <1>4, AwkSteps DEF Awk

\* An FDF into which the line was put holds it once, in DXEFV, and without it is
\* the file as it was.
LEMMA AwkInserts ==
    ASSUME NEW lines \in Seq(Lines), Awk(lines).inserted
    PROVE  LET out == Awk(lines).out
           IN  /\ out # lines
               /\ Contains(out, "producer") /\ Once(out, "producer")
               /\ \E i, j \in DOMAIN out :
                    /\ i < j /\ out[i] = "dxefv" /\ out[j] = "producer"
                    /\ \A k \in i + 1 .. j - 1 : out[k] # "fv"
                    /\ RemoveAt(out, j) = lines
<1> DEFINE out == Awk(lines).out
           n == Len(lines)
<1>1. n \in Nat /\ out \in Seq(AllLines) /\ lines \in Seq(AllLines) /\ \A i \in 1 .. n : lines[i] \in Lines
  BY AwkCopies DEF Progress, AllLines
<1>2. PICK p \in 1 .. n : Inserted(lines, n, p, out) /\ InDxefv(lines, p - 1)
  BY AwkCopies DEF Copied
<1>3. PICK d \in 1 .. p - 1 : lines[d] = "dxefv" /\ \A k \in d + 1 .. p - 1 : lines[k] # "fv"
  BY <1>2 DEF InDxefv
<1> HIDE DEF out
<1>4. DOMAIN out = 1 .. n + 1 /\ Len(out) = n + 1 /\ p \in DOMAIN out
  BY <1>1, <1>2 DEF Inserted
<1>5. ASSUME NEW i \in DOMAIN out PROVE out[i] = "producer" <=> i = p
  <2>1. CASE i < p
    <3>1. i \in 1 .. p - 1 /\ i \in 1 .. n  BY <1>1, <1>4, <2>1
    <3>2. out[i] \in Lines  BY <1>1, <1>2, <3>1 DEF Inserted
    <3>3. QED  BY <2>1, <3>2 DEF Lines
  <2>2. CASE i > p
    <3>1. i \in p + 1 .. n + 1 /\ i - 1 \in 1 .. n  BY <1>1, <1>4, <2>2
    <3>2. out[i] \in Lines  BY <1>1, <1>2, <3>1 DEF Inserted
    <3>3. QED  BY <2>2, <3>2 DEF Lines
  <2>3. CASE i = p
    BY <1>2, <2>3 DEF Inserted
  <2>4. QED  BY <1>1, <1>4, <2>1, <2>2, <2>3
<1>6. Once(out, "producer")
  BY <1>4, <1>5 DEF Once
<1>7. Contains(out, "producer") /\ out # lines
  BY <1>4, <1>5 DEF Contains
<1>8. RemoveAt(out, p) = lines
  <2>1. /\ SubSeq(out, 1, p - 1) \in Seq(AllLines) /\ Len(SubSeq(out, 1, p - 1)) = p - 1
        /\ \A i \in 1 .. p - 1 : SubSeq(out, 1, p - 1)[i] = out[i]
    BY <1>1, <1>4
  <2>2. /\ SubSeq(out, p + 1, n + 1) \in Seq(AllLines) /\ Len(SubSeq(out, p + 1, n + 1)) = n + 1 - p
        /\ \A i \in 1 .. n + 1 - p : SubSeq(out, p + 1, n + 1)[i] = out[p + i]
    <3>1. p + 1 \in Int /\ n + 1 \in Int /\ \A i \in p + 1 .. n + 1 : out[i] \in AllLines
      BY <1>1, <1>4
    <3>2. /\ SubSeq(out, p + 1, n + 1) \in Seq(AllLines)
          /\ Len(SubSeq(out, p + 1, n + 1)) = IF p + 1 <= n + 1 THEN (n + 1) - (p + 1) + 1 ELSE 0
          /\ \A i \in 1 .. (n + 1) - (p + 1) + 1 : SubSeq(out, p + 1, n + 1)[i] = out[(p + 1) + i - 1]
      BY <3>1, SubSeqProperties
    <3>3. \A i \in 1 .. n + 1 - p : (p + 1) + i - 1 = p + i
      BY <1>1
    <3>4. (n + 1) - (p + 1) + 1 = n + 1 - p /\ p <= n
      BY <1>1
    <3>5. QED  BY <1>1, <3>2, <3>3, <3>4
  <2> DEFINE a == SubSeq(out, 1, p - 1)
             c == SubSeq(out, p + 1, n + 1)
  <2> HIDE DEF a, c
  <2>3. a \o c \in Seq(AllLines) /\ Len(a \o c) = n
    BY <1>1, <2>1, <2>2 DEF a, c
  <2>4. ASSUME NEW i \in 1 .. n PROVE (a \o c)[i] = lines[i]
    <3>1. CASE i < p
      <4>1. i \in 1 .. p - 1  BY <3>1
      <4>2. (a \o c)[i] = a[i]  BY <2>1, <2>2, <4>1 DEF a, c
      <4>3. QED  BY <1>2, <2>1, <4>1, <4>2 DEF a, Inserted
    <3>2. CASE i >= p
      <4>1. i - (p - 1) \in 1 .. n + 1 - p /\ p + (i - (p - 1)) = i + 1 /\ i + 1 \in p + 1 .. n + 1
        BY <1>1, <3>2
      <4>2. (a \o c)[i] = c[i - (p - 1)]
        <5>1. /\ a \in Seq(AllLines) /\ c \in Seq(AllLines)
              /\ Len(a) = p - 1 /\ Len(c) = n + 1 - p
          BY <2>1, <2>2 DEF a, c
        <5>2. i \in 1 .. Len(a) + Len(c) /\ ~(i <= Len(a))
          BY <1>1, <3>2, <5>1
        <5>3. QED  BY <5>1, <5>2, ConcatProperties
      <4>3. c[i - (p - 1)] = out[i + 1]  BY <2>2, <4>1 DEF c
      <4>4. out[i + 1] = lines[i]  BY <1>1, <1>2, <4>1 DEF Inserted
      <4>5. QED  BY <4>2, <4>3, <4>4
    <3>3. i < p \/ i >= p  BY <1>1
    <3>4. QED  BY <3>1, <3>2, <3>3
  <2>5. a \o c = lines
    BY <1>1, <2>3, <2>4, SeqEqual
  <2>6. QED  BY <1>4, <2>5 DEF RemoveAt, a, c
<1>9. d \in DOMAIN out /\ d < p /\ out[d] = "dxefv" /\ out[p] = "producer"
  BY <1>1, <1>2, <1>3, <1>4 DEF Inserted
<1>10. ASSUME NEW k \in d + 1 .. p - 1 PROVE out[k] # "fv"
  <2>1. k \in 1 .. p - 1  OBVIOUS
  <2>2. QED  BY <1>2, <1>3, <2>1 DEF Inserted
<1>11. QED  BY <1>4, <1>6, <1>7, <1>8, <1>9, <1>10 DEF out

-----------------------------------------------------------------------------
(***************************************************************************)
(* The inductive invariant.                                                *)
(***************************************************************************)
Patched == Awk(original)

WritesProducer == {"producer 1", "producer 2", "producer 3", "producer 4"}
WritesWarning == {"warning 1", "warning 2", "warning 3", "warning 4"}
ProducerPcs == {"backup for producer"} \cup WritesProducer
WarningPcs == {"backup for warning"} \cup WritesWarning

\* The lines of the DSC: those of upstream, then what the script appends.
DscLines == {"upstream", "blank", "producer note", "[Components]", "producer",
             "warning note", "[BuildOptions]", "flags"}

AtMostOnce(lines, l) == \A i, j \in DOMAIN lines : lines[i] = l /\ lines[j] = l => i = j

OTypeOK ==
    /\ original \in Seq(Lines)
    /\ dsc \in Seq(DscLines)
    /\ pc \in {"idle", "grep producer", "grep warning", "grep fdf", "backup fdf", "awk", "mv", "build"}
              \cup ProducerPcs \cup WarningPcs
    /\ stopped \in BOOLEAN /\ built \in BOOLEAN

\* The DSC begins as upstream left it; the producer is in it at most once, below
\* a [Components] of its own, and so are the note and the flags, the flags with
\* the note; each is missing where the script is about to write it.
DscInv ==
    /\ Len(dsc) >= 2 /\ dsc[1] = "upstream" /\ dsc[2] = "upstream"
    /\ AtMostOnce(dsc, "producer") /\ AtMostOnce(dsc, "warning note") /\ AtMostOnce(dsc, "flags")
    /\ \A i \in 2 .. Len(dsc) : dsc[i] = "producer" => dsc[i - 1] = "[Components]"
    /\ pc \in ProducerPcs => ~Contains(dsc, "producer")
    /\ pc = "producer 4" => dsc[Len(dsc)] = "[Components]"
    /\ pc \in WarningPcs \cup {"grep warning", "grep fdf", "backup fdf", "awk", "mv", "build"} =>
          Contains(dsc, "producer")
    /\ pc \in {"backup for warning", "warning 1", "warning 2"} => ~Contains(dsc, "warning note")
    /\ pc \in {"warning 3", "warning 4", "grep fdf", "backup fdf", "awk", "mv", "build"} =>
          Contains(dsc, "warning note")
    /\ Contains(dsc, "flags") => Contains(dsc, "warning note")
    /\ pc \in {"warning 3", "warning 4"} => ~Contains(dsc, "flags")
    /\ Contains(dsc, "warning note") /\ ~Contains(dsc, "flags") =>
          pc \in {"warning 3", "warning 4"} \/ stopped

\* The FDF is the original one or the patched one, and the original one on the
\* way to awk; what awk has written to the end is the patched one.
FdfInv ==
    /\ fdf = original \/ (Patched.inserted /\ fdf = Patched.out)
    /\ pc \in {"backup fdf", "awk", "mv"} => fdf = original
    /\ pc = "mv" => Patched.inserted /\ tmp = Patched.out
    /\ pc = "build" => Patched.inserted /\ fdf = Patched.out

\* A backup there is holds the original, but for a copy that was stopped; it is
\* there before the first write.
BackupInv ==
    /\ dscBak \in {NoFile, Dsc} \cup IF stopped THEN {<<>>} ELSE {}
    /\ fdfBak \in {NoFile, original} \cup IF stopped THEN {<<>>} ELSE {}
    /\ dscBak = NoFile => dsc = Dsc /\ pc \notin WritesProducer \cup WritesWarning

BuiltInv ==
    built => /\ Contains(dsc, "producer") /\ Contains(dsc, "warning note")
             /\ Patched.inserted /\ fdf = Patched.out
             /\ pc \in {"idle", "grep producer", "grep warning", "grep fdf", "build"}

OInv == OTypeOK /\ DscInv /\ FdfInv /\ BackupInv /\ BuiltInv

LEMMA OStart == OInit => OInv
<1> SUFFICES ASSUME OInit PROVE OInv
  OBVIOUS
<1>1. original \in Seq(Lines) /\ dsc = Dsc /\ fdf = original /\ pc = "idle"
      /\ dscBak = NoFile /\ fdfBak = NoFile /\ stopped = FALSE /\ built = FALSE
  BY FdfsAssumption DEF OInit
<1>2. dsc \in Seq(DscLines) /\ Len(dsc) = 2 /\ Len(dsc) >= 2 /\ dsc[1] = "upstream" /\ dsc[2] = "upstream"
  BY <1>1 DEF Dsc, DscLines
<1>4. \A l : l # "upstream" => ~Contains(dsc, l) /\ AtMostOnce(dsc, l)
  BY <1>2 DEF Contains, AtMostOnce
<1>5. OTypeOK
  BY <1>1, <1>2 DEF OTypeOK
<1>6. DscInv
  <2>1. \A i \in 2 .. Len(dsc) : dsc[i] # "producer"
    BY <1>2
  <2>2. "idle" \notin ProducerPcs \cup WarningPcs
    BY DEF ProducerPcs, WarningPcs, WritesProducer, WritesWarning
  <2>3. \A l \in {"producer", "warning note", "flags"} : ~Contains(dsc, l) /\ AtMostOnce(dsc, l)
    BY <1>4
  <2>4. /\ ~Contains(dsc, "producer") /\ ~Contains(dsc, "warning note") /\ ~Contains(dsc, "flags")
        /\ AtMostOnce(dsc, "producer") /\ AtMostOnce(dsc, "warning note") /\ AtMostOnce(dsc, "flags")
    BY <2>3
  <2>5. pc \notin WarningPcs /\ pc = "idle"
    BY <1>1, <2>2
  <2>6. QED  BY <1>2, <2>1, <2>4, <2>5 DEF DscInv
<1>7. FdfInv /\ BackupInv /\ BuiltInv
  BY <1>1 DEF FdfInv, BackupInv, BuiltInv, WritesProducer, WritesWarning
<1>8. QED  BY <1>5, <1>6, <1>7 DEF OInv

-----------------------------------------------------------------------------
\* One more line of the DSC.
LEMMA LineAppended ==
    ASSUME NEW s \in Seq(DscLines), NEW l \in DscLines
    PROVE  LET t == Append(s, l)
           IN  /\ t \in Seq(DscLines) /\ Len(t) = Len(s) + 1
               /\ \A i \in 1 .. Len(s) : t[i] = s[i]
               /\ t[Len(t)] = l
               /\ \A x : Contains(t, x) <=> Contains(s, x) \/ x = l
               /\ \A x : AtMostOnce(s, x) /\ (x = l => ~Contains(s, x)) => AtMostOnce(t, x)
<1> DEFINE t == Append(s, l)
<1>1. /\ t \in Seq(DscLines) /\ Len(t) = Len(s) + 1 /\ Len(s) \in Nat
      /\ \A i \in 1 .. Len(s) : t[i] = s[i]
      /\ t[Len(t)] = l
      /\ DOMAIN t = 1 .. Len(t) /\ DOMAIN s = 1 .. Len(s)
  OBVIOUS
<1> HIDE DEF t
<1>2. ASSUME NEW x PROVE Contains(t, x) <=> Contains(s, x) \/ x = l
  <2>1. ASSUME NEW i \in 1 .. Len(t), t[i] = x PROVE Contains(s, x) \/ x = l
    <3>1. i \in 1 .. Len(s) \/ i = Len(t)  BY <1>1
    <3>2. QED  BY <1>1, <2>1, <3>1 DEF Contains
  <2>2. ASSUME Contains(s, x) PROVE Contains(t, x)
    <3>1. PICK i \in 1 .. Len(s) : s[i] = x  BY <2>2 DEF Contains
    <3>2. i \in 1 .. Len(t) /\ t[i] = x  BY <1>1, <3>1
    <3>3. QED  BY <3>2 DEF Contains
  <2>3. Len(t) \in 1 .. Len(t)
    BY <1>1
  <2>4. QED  BY <1>1, <2>1, <2>2, <2>3 DEF Contains
<1>3. ASSUME NEW x, AtMostOnce(s, x), x = l => ~Contains(s, x),
             NEW i \in DOMAIN t, NEW j \in DOMAIN t, t[i] = x, t[j] = x
      PROVE  i = j
  <2>1. CASE i \in 1 .. Len(s) /\ j \in 1 .. Len(s)
    BY <1>1, <1>3, <2>1 DEF AtMostOnce
  <2>2. CASE i = Len(t) /\ j = Len(t)
    BY <2>2
  <2>3. CASE i \in 1 .. Len(s) /\ j = Len(t)
    BY <1>1, <1>3, <2>3 DEF Contains
  <2>4. CASE j \in 1 .. Len(s) /\ i = Len(t)
    BY <1>1, <1>3, <2>4 DEF Contains
  <2>5. (i \in 1 .. Len(s) \/ i = Len(t)) /\ (j \in 1 .. Len(s) \/ j = Len(t))
    BY <1>1
  <2>6. QED  BY <2>1, <2>2, <2>3, <2>4, <2>5
<1>4. \A x : AtMostOnce(s, x) /\ (x = l => ~Contains(s, x)) => AtMostOnce(t, x)
  BY <1>3 DEF AtMostOnce
<1>5. QED  BY <1>1, <1>2, <1>4 DEF t

\* A write of the line l, from the one place of the script to the other.
Writes(from, l, to) == pc = from /\ dsc' = Append(dsc, l) /\ pc' = to

\* The eight echoes.
LEMMA EchoIs ==
    ASSUME AppendDsc
    PROVE  /\ \/ Writes("producer 1", "blank", "producer 2")
              \/ Writes("producer 2", "producer note", "producer 3")
              \/ Writes("producer 3", "[Components]", "producer 4")
              \/ Writes("producer 4", "producer", "grep warning")
              \/ Writes("warning 1", "blank", "warning 2")
              \/ Writes("warning 2", "warning note", "warning 3")
              \/ Writes("warning 3", "[BuildOptions]", "warning 4")
              \/ Writes("warning 4", "flags", "grep fdf")
           /\ UNCHANGED <<original, fdf, dscBak, fdfBak, tmp, runs, stopped, built>>
<1>1. PICK i \in 1 .. 4 : \/ Echo(ProducerBlock, ProducerSteps, i, "grep warning")
                          \/ Echo(WarningBlock, WarningSteps, i, "grep fdf")
  BY DEF AppendDsc
<1>2. /\ i = 1 \/ i = 2 \/ i = 3 \/ i = 4
      /\ 1 + 1 = 2 /\ 2 + 1 = 3 /\ 3 + 1 = 4
  OBVIOUS
<1>3. /\ 1 < Len(ProducerBlock) /\ 2 < Len(ProducerBlock) /\ 3 < Len(ProducerBlock) /\ ~(4 < Len(ProducerBlock))
      /\ ProducerBlock[1] = "blank" /\ ProducerBlock[2] = "producer note"
      /\ ProducerBlock[3] = "[Components]" /\ ProducerBlock[4] = "producer"
  BY DEF ProducerBlock
<1>4. /\ 1 < Len(WarningBlock) /\ 2 < Len(WarningBlock) /\ 3 < Len(WarningBlock) /\ ~(4 < Len(WarningBlock))
      /\ WarningBlock[1] = "blank" /\ WarningBlock[2] = "warning note"
      /\ WarningBlock[3] = "[BuildOptions]" /\ WarningBlock[4] = "flags"
  BY DEF WarningBlock
<1>5. /\ ProducerSteps[1] = "producer 1" /\ ProducerSteps[2] = "producer 2"
      /\ ProducerSteps[3] = "producer 3" /\ ProducerSteps[4] = "producer 4"
  BY DEF ProducerSteps
<1>6. /\ WarningSteps[1] = "warning 1" /\ WarningSteps[2] = "warning 2"
      /\ WarningSteps[3] = "warning 3" /\ WarningSteps[4] = "warning 4"
  BY DEF WarningSteps
<1>7. CASE Echo(ProducerBlock, ProducerSteps, i, "grep warning")
  <2>0. /\ pc = ProducerSteps[i] /\ dsc' = Append(dsc, ProducerBlock[i])
        /\ pc' = IF i < Len(ProducerBlock) THEN ProducerSteps[i + 1] ELSE "grep warning"
        /\ UNCHANGED <<original, fdf, dscBak, fdfBak, tmp, runs, stopped, built>>
    BY <1>7 DEF Echo
  <2>1. CASE i = 1
    BY <1>2, <1>3, <1>5, <2>0, <2>1 DEF Writes
  <2>2. CASE i = 2
    BY <1>2, <1>3, <1>5, <2>0, <2>2 DEF Writes
  <2>3. CASE i = 3
    BY <1>2, <1>3, <1>5, <2>0, <2>3 DEF Writes
  <2>4. CASE i = 4
    BY <1>2, <1>3, <1>5, <2>0, <2>4 DEF Writes
  <2>5. QED  BY <1>2, <2>1, <2>2, <2>3, <2>4
<1>8. CASE Echo(WarningBlock, WarningSteps, i, "grep fdf")
  <2>0. /\ pc = WarningSteps[i] /\ dsc' = Append(dsc, WarningBlock[i])
        /\ pc' = IF i < Len(WarningBlock) THEN WarningSteps[i + 1] ELSE "grep fdf"
        /\ UNCHANGED <<original, fdf, dscBak, fdfBak, tmp, runs, stopped, built>>
    BY <1>8 DEF Echo
  <2>1. CASE i = 1
    BY <1>2, <1>4, <1>6, <2>0, <2>1 DEF Writes
  <2>2. CASE i = 2
    BY <1>2, <1>4, <1>6, <2>0, <2>2 DEF Writes
  <2>3. CASE i = 3
    BY <1>2, <1>4, <1>6, <2>0, <2>3 DEF Writes
  <2>4. CASE i = 4
    BY <1>2, <1>4, <1>6, <2>0, <2>4 DEF Writes
  <2>5. QED  BY <1>2, <2>1, <2>2, <2>3, <2>4
<1>9. QED  BY <1>1, <1>7, <1>8

\* Each of them keeps the invariant.
LEMMA EchoKeeps ==
    ASSUME OInv, AppendDsc
    PROVE  OInv'
<1> DEFINE E(from, l, to) ==
              \/ from = "producer 1" /\ l = "blank" /\ to = "producer 2"
              \/ from = "producer 2" /\ l = "producer note" /\ to = "producer 3"
              \/ from = "producer 3" /\ l = "[Components]" /\ to = "producer 4"
              \/ from = "producer 4" /\ l = "producer" /\ to = "grep warning"
              \/ from = "warning 1" /\ l = "blank" /\ to = "warning 2"
              \/ from = "warning 2" /\ l = "warning note" /\ to = "warning 3"
              \/ from = "warning 3" /\ l = "[BuildOptions]" /\ to = "warning 4"
              \/ from = "warning 4" /\ l = "flags" /\ to = "grep fdf"
<1>1. PICK l : dsc' = Append(dsc, l) /\ E(pc, l, pc')
  BY EchoIs DEF Writes
<1>2. UNCHANGED <<original, fdf, dscBak, fdfBak, tmp, runs, stopped, built>>
  BY EchoIs
<1>3. dsc \in Seq(DscLines) /\ l \in DscLines
  BY <1>1 DEF OInv, OTypeOK, DscLines
<1>4. /\ dsc' \in Seq(DscLines) /\ Len(dsc') = Len(dsc) + 1
      /\ \A i \in 1 .. Len(dsc) : dsc'[i] = dsc[i]
      /\ dsc'[Len(dsc')] = l
      /\ \A x : Contains(dsc', x) <=> Contains(dsc, x) \/ x = l
      /\ \A x : AtMostOnce(dsc, x) /\ (x = l => ~Contains(dsc, x)) => AtMostOnce(dsc', x)
  <2> DEFINE t == Append(dsc, l)
  <2>1. /\ t \in Seq(DscLines) /\ Len(t) = Len(dsc) + 1
        /\ \A i \in 1 .. Len(dsc) : t[i] = dsc[i]
        /\ t[Len(t)] = l
        /\ \A x : Contains(t, x) <=> Contains(dsc, x) \/ x = l
        /\ \A x : AtMostOnce(dsc, x) /\ (x = l => ~Contains(dsc, x)) => AtMostOnce(t, x)
    BY <1>3, LineAppended
  <2>2. dsc' = t
    BY <1>1
  <2> HIDE DEF t
  <2>3. QED  BY <2>1, <2>2
<1>5. OTypeOK'
  BY <1>1, <1>2, <1>4 DEF OInv, OTypeOK, ProducerPcs, WarningPcs, WritesProducer, WritesWarning
<1>6. DscInv'
  <2>1. Len(dsc) \in Nat /\ Len(dsc) >= 2 /\ dsc[1] = "upstream" /\ dsc[2] = "upstream"
    <3>1. Len(dsc) \in Nat  BY <1>3
    <3>2. QED  BY <3>1 DEF OInv, DscInv
  <2>2. Len(dsc') >= 2 /\ dsc'[1] = "upstream" /\ dsc'[2] = "upstream"
    BY <1>4, <2>1
  <2>3. /\ l = "producer" => ~Contains(dsc, "producer") /\ dsc[Len(dsc)] = "[Components]"
        /\ l = "warning note" => ~Contains(dsc, "warning note")
        /\ l = "flags" => ~Contains(dsc, "flags")
    BY <1>1 DEF OInv, DscInv, ProducerPcs, WarningPcs, WritesProducer, WritesWarning
  <2>4. AtMostOnce(dsc', "producer") /\ AtMostOnce(dsc', "warning note") /\ AtMostOnce(dsc', "flags")
    BY <1>4, <2>3 DEF OInv, DscInv
  <2>5. ASSUME NEW i \in 2 .. Len(dsc'), dsc'[i] = "producer" PROVE dsc'[i - 1] = "[Components]"
    <3>1. CASE i = Len(dsc')
      <4>1. i - 1 = Len(dsc) /\ Len(dsc) \in 1 .. Len(dsc)  BY <1>4, <2>1, <3>1
      <4>2. QED  BY <1>4, <2>3, <2>5, <3>1, <4>1
    <3>2. CASE i # Len(dsc')
      <4>1. i \in 2 .. Len(dsc) /\ i \in 1 .. Len(dsc) /\ i - 1 \in 1 .. Len(dsc)  BY <1>4, <2>1, <3>2
      <4>2. QED  BY <1>4, <2>5, <4>1 DEF OInv, DscInv
    <3>3. QED  BY <3>1, <3>2
  <2> DEFINE P == Contains(dsc, "producer")
             N == Contains(dsc, "warning note")
             F == Contains(dsc, "flags")
             P1 == Contains(dsc', "producer")
             N1 == Contains(dsc', "warning note")
             F1 == Contains(dsc', "flags")
  <2>6. (P1 <=> P \/ l = "producer") /\ (N1 <=> N \/ l = "warning note") /\ (F1 <=> F \/ l = "flags")
    BY <1>4
  <2>7. /\ pc \in ProducerPcs => ~P
        /\ pc \in WarningPcs => P
        /\ pc \in {"warning 1", "warning 2"} => ~N
        /\ pc \in {"warning 3", "warning 4"} => N /\ ~F
        /\ F => N
        /\ N /\ ~F => pc \in {"warning 3", "warning 4"} \/ stopped
    BY DEF OInv, DscInv
  <2> HIDE DEF P, N, F, P1, N1, F1
  <2>8. /\ pc' \in ProducerPcs => ~P1
        /\ pc' = "producer 4" => dsc'[Len(dsc')] = "[Components]"
        /\ pc' \in WarningPcs \cup {"grep warning", "grep fdf", "backup fdf", "awk", "mv", "build"} => P1
        /\ pc' \in {"backup for warning", "warning 1", "warning 2"} => ~N1
        /\ pc' \in {"warning 3", "warning 4", "grep fdf", "backup fdf", "awk", "mv", "build"} => N1
        /\ F1 => N1
        /\ pc' \in {"warning 3", "warning 4"} => ~F1
        /\ N1 /\ ~F1 => pc' \in {"warning 3", "warning 4"} \/ stopped'
    BY <1>1, <1>2, <1>4, <2>6, <2>7 DEF ProducerPcs, WarningPcs, WritesProducer, WritesWarning
  <2>9. QED  BY <2>2, <2>4, <2>5, <2>8 DEF DscInv, P1, N1, F1
<1>7. FdfInv' /\ BuiltInv'
  BY <1>1, <1>2, <1>4 DEF OInv, FdfInv, BuiltInv, Patched
<1>8. BackupInv'
  BY <1>1, <1>2 DEF OInv, BackupInv, WritesProducer, WritesWarning
<1>9. QED  BY <1>5, <1>6, <1>7, <1>8 DEF OInv

\* The files of the platform stay: what is left to show of the DSC is where the
\* script is.
LEMMA FilesStay ==
    ASSUME OInv, UNCHANGED <<original, dsc, fdf>>, stopped => stopped', stopped' \in BOOLEAN,
           built' \in BOOLEAN,
           pc' \in {"idle", "grep producer", "grep warning", "grep fdf", "backup fdf", "awk", "mv",
                    "build"} \cup ProducerPcs \cup WarningPcs,
           pc' \in ProducerPcs => ~Contains(dsc, "producer") /\ pc' # "producer 4",
           pc' \in WarningPcs \cup {"grep warning", "grep fdf", "backup fdf", "awk", "mv", "build"} =>
              Contains(dsc, "producer"),
           pc' \in WarningPcs =>
              ~Contains(dsc, "warning note") /\ pc' \in {"backup for warning", "warning 1", "warning 2"},
           pc' \in {"grep fdf", "backup fdf", "awk", "mv", "build"} => Contains(dsc, "warning note"),
           pc \in {"warning 3", "warning 4"} => stopped'
    PROVE  OTypeOK' /\ DscInv'
<1>1. OTypeOK'
  BY DEF OInv, OTypeOK
<1> DEFINE P == Contains(dsc, "producer")
           N == Contains(dsc, "warning note")
           F == Contains(dsc, "flags")
<1>2. /\ P <=> Contains(dsc', "producer")
      /\ N <=> Contains(dsc', "warning note")
      /\ F <=> Contains(dsc', "flags")
  OBVIOUS
<1>3. (F => N) /\ (N /\ ~F => pc \in {"warning 3", "warning 4"} \/ stopped)
  BY DEF OInv, DscInv
<1>4. /\ Len(dsc') >= 2 /\ dsc'[1] = "upstream" /\ dsc'[2] = "upstream"
      /\ AtMostOnce(dsc', "producer") /\ AtMostOnce(dsc', "warning note") /\ AtMostOnce(dsc', "flags")
      /\ \A i \in 2 .. Len(dsc') : dsc'[i] = "producer" => dsc'[i - 1] = "[Components]"
  BY DEF OInv, DscInv
<1> HIDE DEF P, N, F
<1>5. /\ pc' \in ProducerPcs => ~Contains(dsc', "producer")
      /\ pc' = "producer 4" => dsc'[Len(dsc')] = "[Components]"
      /\ pc' \in WarningPcs \cup {"grep warning", "grep fdf", "backup fdf", "awk", "mv", "build"} =>
            Contains(dsc', "producer")
      /\ pc' \in {"backup for warning", "warning 1", "warning 2"} => ~Contains(dsc', "warning note")
      /\ pc' \in {"warning 3", "warning 4", "grep fdf", "backup fdf", "awk", "mv", "build"} =>
            Contains(dsc', "warning note")
      /\ pc' \in {"warning 3", "warning 4"} => ~Contains(dsc', "flags")
  BY <1>2 DEF P, N, F, ProducerPcs, WarningPcs, WritesProducer, WritesWarning
<1>6. /\ Contains(dsc', "flags") => Contains(dsc', "warning note")
      /\ Contains(dsc', "warning note") /\ ~Contains(dsc', "flags") =>
            pc' \in {"warning 3", "warning 4"} \/ stopped'
  BY <1>2, <1>3
<1>7. QED  BY <1>1, <1>4, <1>5, <1>6 DEF DscInv

LEMMA StartKeeps ==
    ASSUME OInv, Start
    PROVE  OInv'
<1>1. /\ UNCHANGED <<original, dsc, fdf, dscBak, fdfBak, tmp, stopped, built>>
      /\ pc = "idle" /\ pc' = "grep producer"
  BY DEF Start
<1>2. stopped' \in BOOLEAN /\ built' \in BOOLEAN /\ (stopped => stopped')
  BY <1>1 DEF OInv, OTypeOK
<1>3. OTypeOK' /\ DscInv'
  BY <1>1, <1>2, FilesStay DEF ProducerPcs, WarningPcs, WritesProducer, WritesWarning
<1>4. FdfInv' /\ BackupInv' /\ BuiltInv'
  BY <1>1 DEF OInv, FdfInv, BackupInv, BuiltInv, Patched, WritesProducer, WritesWarning
<1>5. QED  BY <1>3, <1>4 DEF OInv

LEMMA GrepDscKeeps ==
    ASSUME OInv, GrepDsc
    PROVE  OInv'
<1>1. /\ UNCHANGED <<original, dsc, fdf, dscBak, fdfBak, tmp, stopped, built>>
      /\ \/ pc = "grep producer" /\ Contains(dsc, "producer") /\ pc' = "grep warning"
         \/ pc = "grep producer" /\ ~Contains(dsc, "producer") /\ pc' = "backup for producer"
         \/ pc = "grep warning" /\ Contains(dsc, "warning note") /\ pc' = "grep fdf"
         \/ pc = "grep warning" /\ ~Contains(dsc, "warning note") /\ pc' = "backup for warning"
  BY DEF GrepDsc
<1>2. stopped' \in BOOLEAN /\ built' \in BOOLEAN /\ (stopped => stopped')
  BY <1>1 DEF OInv, OTypeOK
<1>3. pc = "grep warning" => Contains(dsc, "producer")
  BY DEF OInv, DscInv
<1>4. OTypeOK' /\ DscInv'
  BY <1>1, <1>2, <1>3, FilesStay DEF ProducerPcs, WarningPcs, WritesProducer, WritesWarning
<1>5. FdfInv' /\ BackupInv'
  BY <1>1 DEF OInv, FdfInv, BackupInv, Patched, WritesProducer, WritesWarning
<1>6. BuiltInv'
  BY <1>1 DEF OInv, BuiltInv, Patched
<1>7. QED  BY <1>4, <1>5, <1>6 DEF OInv

\* The file that has no backup yet is still the original one.
LEMMA BackupDscKeeps ==
    ASSUME OInv, BackupDsc
    PROVE  OInv'
<1>1. /\ UNCHANGED <<original, dsc, fdf, fdfBak, tmp, stopped, built>>
      /\ dscBak' = IF dscBak = NoFile THEN dsc ELSE dscBak
      /\ \/ pc = "backup for producer" /\ pc' = "producer 1"
         \/ pc = "backup for warning" /\ pc' = "warning 1"
  BY DEF BackupDsc
<1>2. stopped' \in BOOLEAN /\ built' \in BOOLEAN /\ (stopped => stopped')
  BY <1>1 DEF OInv, OTypeOK
<1>3. /\ pc = "backup for producer" => ~Contains(dsc, "producer")
      /\ pc = "backup for warning" => Contains(dsc, "producer") /\ ~Contains(dsc, "warning note")
  BY DEF OInv, DscInv, ProducerPcs, WarningPcs
<1>4. OTypeOK' /\ DscInv'
  BY <1>1, <1>2, <1>3, FilesStay DEF ProducerPcs, WarningPcs, WritesProducer, WritesWarning
<1>5. FdfInv' /\ BuiltInv'
  BY <1>1 DEF OInv, FdfInv, BuiltInv, Patched
<1>6. BackupInv'
  <2>1. NoFile # Dsc
    BY DEF NoFile, Dsc
  <2>2. dscBak = NoFile => dsc = Dsc
    BY DEF OInv, BackupInv
  <2>3. dscBak' # NoFile
    BY <1>1, <2>1, <2>2
  <2>4. QED  BY <1>1, <2>2, <2>3 DEF OInv, BackupInv
<1>7. QED  BY <1>4, <1>5, <1>6 DEF OInv

\* The patched FDF names the producer, the original one does not.
LEMMA GrepTellsThem ==
    ASSUME OInv
    PROVE  /\ Contains(fdf, "producer") <=> fdf # original
           /\ Patched.inserted => Patched.out # original
<1>1. original \in Seq(Lines)
  BY DEF OInv, OTypeOK
<1>2. ~Contains(original, "producer")
  <2>1. \A i \in 1 .. Len(original) : original[i] \in Lines
    BY <1>1
  <2>2. QED  BY <2>1 DEF Contains, Lines
<1>3. Patched.inserted => Contains(Patched.out, "producer") /\ Patched.out # original
  BY <1>1, AwkInserts DEF Patched
<1>4. fdf = original \/ (Patched.inserted /\ fdf = Patched.out)
  BY DEF OInv, FdfInv
<1>5. QED  BY <1>2, <1>3, <1>4

LEMMA GrepFdfKeeps ==
    ASSUME OInv, GrepFdf
    PROVE  OInv'
<1>1. /\ UNCHANGED <<original, dsc, fdf, dscBak, fdfBak, tmp, stopped>>
      /\ pc = "grep fdf"
      /\ \/ Contains(fdf, "producer") /\ pc' = "build" /\ built'
         \/ ~Contains(fdf, "producer") /\ pc' = "backup fdf" /\ built' = built
      /\ built' \in BOOLEAN
  BY DEF GrepFdf, OInv, OTypeOK
<1>2. stopped' \in BOOLEAN /\ (stopped => stopped')
  BY <1>1 DEF OInv, OTypeOK
<1>3. Contains(dsc, "producer") /\ Contains(dsc, "warning note")
  BY <1>1 DEF OInv, DscInv
<1>4. OTypeOK' /\ DscInv'
  BY <1>1, <1>2, <1>3, FilesStay DEF ProducerPcs, WarningPcs, WritesProducer, WritesWarning
<1>5. /\ pc' = "build" => Patched.inserted /\ fdf = Patched.out
      /\ pc' = "backup fdf" => fdf = original
  BY <1>1, GrepTellsThem DEF OInv, FdfInv
<1>6. FdfInv'
  BY <1>1, <1>5 DEF OInv, FdfInv, Patched
<1>7. BackupInv'
  BY <1>1 DEF OInv, BackupInv, WritesProducer, WritesWarning
<1>8. BuiltInv'
  <2>1. built => Patched.out = fdf /\ Patched.inserted
    BY DEF OInv, BuiltInv
  <2>2. pc' = "backup fdf" => ~built'
    BY <1>1, <1>5, <2>1, GrepTellsThem
  <2>3. QED  BY <1>1, <1>3, <1>5, <2>2 DEF BuiltInv, Patched
<1>9. QED  BY <1>4, <1>6, <1>7, <1>8 DEF OInv

LEMMA BackupFdfKeeps ==
    ASSUME OInv, BackupFdf
    PROVE  OInv'
<1>1. /\ UNCHANGED <<original, dsc, fdf, dscBak, tmp, stopped, built>>
      /\ fdfBak' = IF fdfBak = NoFile THEN fdf ELSE fdfBak
      /\ pc = "backup fdf" /\ pc' = "awk"
  BY DEF BackupFdf
<1>2. stopped' \in BOOLEAN /\ built' \in BOOLEAN /\ (stopped => stopped')
  BY <1>1 DEF OInv, OTypeOK
<1>3. Contains(dsc, "producer") /\ Contains(dsc, "warning note") /\ fdf = original
  BY <1>1 DEF OInv, DscInv, FdfInv
<1>4. OTypeOK' /\ DscInv'
  BY <1>1, <1>2, <1>3, FilesStay DEF ProducerPcs, WarningPcs, WritesProducer, WritesWarning
<1>5. FdfInv' /\ BuiltInv'
  BY <1>1 DEF OInv, FdfInv, BuiltInv, Patched
<1>6. BackupInv'
  BY <1>1, <1>3 DEF OInv, BackupInv, WritesProducer, WritesWarning
<1>7. QED  BY <1>4, <1>5, <1>6 DEF OInv

LEMMA RunAwkKeeps ==
    ASSUME OInv, RunAwk
    PROVE  OInv'
<1>1. /\ UNCHANGED <<original, dsc, fdf, dscBak, fdfBak, stopped, built>>
      /\ pc = "awk"
      /\ \/ Awk(fdf).inserted /\ tmp' = Awk(fdf).out /\ pc' = "mv"
         \/ ~Awk(fdf).inserted /\ pc' = "idle"
  BY DEF RunAwk
<1>2. stopped' \in BOOLEAN /\ built' \in BOOLEAN /\ (stopped => stopped')
  BY <1>1 DEF OInv, OTypeOK
<1>3. Contains(dsc, "producer") /\ Contains(dsc, "warning note") /\ fdf = original
  BY <1>1 DEF OInv, DscInv, FdfInv
<1>4. OTypeOK' /\ DscInv'
  BY <1>1, <1>2, <1>3, FilesStay DEF ProducerPcs, WarningPcs, WritesProducer, WritesWarning
<1>5. FdfInv' /\ BuiltInv'
  BY <1>1, <1>3 DEF OInv, FdfInv, BuiltInv, Patched
<1>6. BackupInv'
  BY <1>1 DEF OInv, BackupInv, WritesProducer, WritesWarning
<1>7. QED  BY <1>4, <1>5, <1>6 DEF OInv

\* The one step that writes the FDF.
LEMMA MoveFdfKeeps ==
    ASSUME OInv, MoveFdf
    PROVE  OInv'
<1>1. /\ UNCHANGED <<original, dsc, dscBak, fdfBak, stopped>>
      /\ pc = "mv" /\ pc' = "build" /\ fdf' = tmp /\ built' = TRUE
  BY DEF MoveFdf
<1>2. /\ Contains(dsc, "producer") /\ Contains(dsc, "warning note")
      /\ Patched.inserted /\ tmp = Patched.out
  BY <1>1 DEF OInv, DscInv, FdfInv
<1>3. OTypeOK'
  BY <1>1 DEF OInv, OTypeOK
<1>4. DscInv'
  BY <1>1 DEF OInv, DscInv, ProducerPcs, WarningPcs, WritesProducer, WritesWarning
<1>5. FdfInv' /\ BuiltInv'
  BY <1>1, <1>2 DEF FdfInv, BuiltInv, Patched
<1>6. BackupInv'
  BY <1>1 DEF OInv, BackupInv, WritesProducer, WritesWarning
<1>7. QED  BY <1>3, <1>4, <1>5, <1>6 DEF OInv

LEMMA BuildKeeps ==
    ASSUME OInv, Build
    PROVE  OInv'
<1>1. /\ UNCHANGED <<original, dsc, fdf, dscBak, fdfBak, tmp, stopped, built>>
      /\ pc = "build" /\ pc' = "idle"
  BY DEF Build
<1>2. stopped' \in BOOLEAN /\ built' \in BOOLEAN /\ (stopped => stopped')
  BY <1>1 DEF OInv, OTypeOK
<1>3. OTypeOK' /\ DscInv'
  BY <1>1, <1>2, FilesStay DEF ProducerPcs, WarningPcs, WritesProducer, WritesWarning
<1>4. FdfInv' /\ BackupInv' /\ BuiltInv'
  BY <1>1 DEF OInv, FdfInv, BackupInv, BuiltInv, Patched, WritesProducer, WritesWarning
<1>5. QED  BY <1>3, <1>4 DEF OInv

\* A stop loses where the script was and may leave an empty backup.
LEMMA StopKeeps ==
    ASSUME OInv, StopRun
    PROVE  OInv'
<1>1. /\ UNCHANGED <<original, dsc, fdf, built>>
      /\ pc' = "idle" /\ stopped' = TRUE
      /\ dscBak' = dscBak \/ dscBak' = <<>>
      /\ fdfBak' = fdfBak \/ fdfBak' = <<>>
  BY DEF StopRun
<1>2. stopped' \in BOOLEAN /\ built' \in BOOLEAN /\ (stopped => stopped')
  BY <1>1 DEF OInv, OTypeOK
<1>3. OTypeOK' /\ DscInv'
  BY <1>1, <1>2, FilesStay DEF ProducerPcs, WarningPcs, WritesProducer, WritesWarning
<1>4. FdfInv' /\ BuiltInv'
  BY <1>1 DEF OInv, FdfInv, BuiltInv, Patched
<1>5. BackupInv'
  <2>1. <<>> # NoFile
    BY DEF NoFile
  <2>2. QED  BY <1>1, <2>1 DEF OInv, BackupInv, WritesProducer, WritesWarning
<1>6. QED  BY <1>3, <1>4, <1>5 DEF OInv

\* The invariant is inductive.
LEMMA PatchInductive == OInv /\ [ONext]_ovars => OInv'
<1> SUFFICES ASSUME OInv, [ONext]_ovars PROVE OInv'
  OBVIOUS
<1>1. CASE UNCHANGED ovars
  <2>1. UNCHANGED <<original, dsc, fdf, dscBak, fdfBak, tmp, pc, stopped, built>>
    BY <1>1 DEF ovars
  <2>2. OTypeOK' /\ DscInv'
    BY <2>1 DEF OInv, OTypeOK, DscInv
  <2>3. FdfInv' /\ BackupInv' /\ BuiltInv'
    BY <2>1 DEF OInv, FdfInv, BackupInv, BuiltInv, Patched
  <2>4. QED  BY <2>2, <2>3 DEF OInv
<1>2. CASE ONext
  BY <1>2, StartKeeps, GrepDscKeeps, BackupDscKeeps, EchoKeeps, GrepFdfKeeps, BackupFdfKeeps,
     RunAwkKeeps, MoveFdfKeeps, BuildKeeps, StopKeeps DEF ONext
<1>3. QED  BY <1>1, <1>2

LEMMA PatchInvariant == OSpec => []OInv
BY OStart, PatchInductive, PTL DEF OSpec

-----------------------------------------------------------------------------
\* What the build sees, whatever was stopped before it.
THEOREM BuildSeesProducer == OSpec => []BuildsWithProducer
<1>1. OInv => BuildsWithProducer
  <2> SUFFICES ASSUME OInv, pc = "build" PROVE BuildsWithProducer
    BY DEF BuildsWithProducer
  <2>1. dsc \in Seq(DscLines) /\ original \in Seq(Lines) /\ Len(dsc) \in Nat /\ DOMAIN dsc = 1 .. Len(dsc)
    BY DEF OInv, OTypeOK
  <2>2. /\ Contains(dsc, "producer") /\ Contains(dsc, "warning note")
        /\ Contains(dsc, "flags") \/ stopped
        /\ AtMostOnce(dsc, "producer") /\ AtMostOnce(dsc, "warning note") /\ AtMostOnce(dsc, "flags")
        /\ Len(dsc) >= 2 /\ dsc[1] = "upstream" /\ dsc[2] = "upstream"
        /\ \A i \in 2 .. Len(dsc) : dsc[i] = "producer" => dsc[i - 1] = "[Components]"
    BY DEF OInv, DscInv
  <2>3. ASSUME NEW l, Contains(dsc, l), AtMostOnce(dsc, l) PROVE Once(dsc, l)
    BY <2>1, <2>3 DEF Contains, AtMostOnce, Once
  <2>4. \E i \in 1 .. Len(dsc) - 1 : dsc[i] = "[Components]" /\ dsc[i + 1] = "producer"
    <3>1. PICK p \in 1 .. Len(dsc) : dsc[p] = "producer"
      BY <2>2 DEF Contains
    <3>2. p # 1
      BY <2>2, <3>1
    <3>3. p - 1 \in 1 .. Len(dsc) - 1 /\ (p - 1) + 1 = p /\ p \in 2 .. Len(dsc)
      BY <2>1, <3>1, <3>2
    <3>4. QED  BY <2>2, <3>1, <3>3
  <2>5. SubSeq(dsc, 1, Len(Dsc)) = Dsc
    <3>1. Dsc \in Seq(DscLines) /\ Len(Dsc) = 2 /\ Dsc[1] = "upstream" /\ Dsc[2] = "upstream"
      BY DEF Dsc, DscLines
    <3>2. \A i \in 1 .. 2 : dsc[i] \in DscLines
      <4>1. Len(dsc) \in Nat /\ Len(dsc) >= 2
        BY <2>1, <2>2
      <4>2. \A i \in 1 .. 2 : i \in 1 .. Len(dsc)
        BY <4>1
      <4>3. QED  BY <2>1, <4>2
    <3>3. /\ SubSeq(dsc, 1, 2) \in Seq(DscLines) /\ Len(SubSeq(dsc, 1, 2)) = 2
          /\ \A i \in 1 .. 2 : SubSeq(dsc, 1, 2)[i] = dsc[1 + i - 1]
      BY <3>2, SubSeqProperties
    <3>4. \A i \in 1 .. 2 : SubSeq(dsc, 1, 2)[i] = Dsc[i]
      <4>1. \A i \in 1 .. 2 : (i = 1 \/ i = 2) /\ 1 + i - 1 = i
        OBVIOUS
      <4>2. QED  BY <2>2, <3>1, <3>3, <4>1
    <3>5. SubSeq(dsc, 1, 2) = Dsc
      BY <3>1, <3>3, <3>4, SeqEqual
    <3>6. QED  BY <3>1, <3>5
  <2>6. Patched.inserted /\ fdf = Patched.out
    BY DEF OInv, FdfInv
  <2>7. /\ Once(fdf, "producer")
        /\ \E i, j \in DOMAIN fdf :
             /\ i < j /\ fdf[i] = "dxefv" /\ fdf[j] = "producer"
             /\ \A k \in i + 1 .. j - 1 : fdf[k] # "fv"
             /\ RemoveAt(fdf, j) = original
    BY <2>1, <2>6, AwkInserts DEF Patched
  <2>8. Once(dsc, "producer") /\ Once(dsc, "warning note")
        /\ (Once(dsc, "flags") \/ (stopped /\ ~Contains(dsc, "flags")))
    BY <2>2, <2>3
  <2>9. QED  BY <2>4, <2>5, <2>7, <2>8 DEF BuildsWithProducer
<1>2. QED  BY <1>1, PatchInvariant, PTL

\* The backups and the FDF, at any time.
THEOREM NothingDoesGetLost == OSpec => []NothingIsLost
<1>1. OInv => NothingIsLost
  <2> SUFFICES ASSUME OInv PROVE NothingIsLost
    OBVIOUS
  <2>1. fdf \in {original, Awk(original).out}
    BY DEF OInv, FdfInv, Patched
  <2>2. fdf # original => pc \notin {"awk", "mv"}
    BY DEF OInv, FdfInv
  <2>3. QED  BY <2>1, <2>2 DEF OInv, BackupInv, NothingIsLost
<1>2. QED  BY <1>1, PatchInvariant, PTL

\* A tree that came to the build once is left as it is by every later run.
THEOREM PatchedIsLeftAlone == OSpec => PatchIsIdempotent
<1>1. OInv /\ [ONext]_ovars => [built => UNCHANGED <<dsc, fdf>>]_ovars
  <2> SUFFICES ASSUME OInv, ONext, built PROVE UNCHANGED <<dsc, fdf>>
    OBVIOUS
  <2>1. pc \in {"idle", "grep producer", "grep warning", "grep fdf", "build"}
    BY DEF OInv, BuiltInv
  <2>2. ~AppendDsc
    BY <2>1, EchoIs DEF Writes
  <2>3. ~MoveFdf
    BY <2>1 DEF MoveFdf
  <2>4. QED
    BY <2>2, <2>3 DEF ONext, Start, GrepDsc, BackupDsc, GrepFdf, BackupFdf, RunAwk, Build, StopRun
<1>2. QED  BY <1>1, PatchInvariant, PTL DEF OSpec, PatchIsIdempotent
=============================================================================
