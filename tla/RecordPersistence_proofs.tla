----------------------- MODULE RecordPersistence_proofs -----------------------
(* What the journal of an agent promises for any number of records, crashes  *)
(* and failures, when no write is cut short inside a line and no rewrite is  *)
(* cut short: the file, the batch and the queue together are the state, and  *)
(* what a flush vouched for stays.  Both hypotheses are needed: MCRecordsTorn *)
(* and MCRecordsRewriteCut show what happens without them.                    *)
EXTENDS RecordPersistence, SequenceTheorems, TLAPS

NothingCutInside == {"fragment", "rewriteCut"} \cap Hazards = {}

WholeLines == [n : Nat, form : {"now", "old"}]

\* The metadata record comes first, and only there.
Log(s) == s \in Seq(WholeLines) /\ \A i \in 1 .. Len(s) : s[i].n = 0 <=> i = 1

\* All that is on its way to the file, behind what is in it.
Stream == (file \o drain.rest) \o pending

-----------------------------------------------------------------------------
(* Sequences.                                                              *)

LEMMA PrefixPointwise ==
    ASSUME NEW s \in Seq(Nat), NEW t \in Seq(Nat)
    PROVE  IsPrefix(s, t) <=> Len(s) <= Len(t) /\ \A i \in 1 .. Len(s) : s[i] = t[i]
BY DEF IsPrefix

LEMMA PrefixRefl == ASSUME NEW s \in Seq(Nat) PROVE IsPrefix(s, s)
BY PrefixPointwise

LEMMA PrefixEmpty == ASSUME NEW t \in Seq(Nat) PROVE IsPrefix(<<>>, t)
BY DEF IsPrefix

LEMMA PrefixAppend ==
    ASSUME NEW s \in Seq(Nat), NEW n \in Nat
    PROVE  Append(s, n) \in Seq(Nat) /\ IsPrefix(s, Append(s, n))
<1>1. /\ Append(s, n) \in Seq(Nat) /\ Len(s) <= Len(Append(s, n))
      /\ \A i \in 1 .. Len(s) : s[i] = Append(s, n)[i]
  OBVIOUS
<1>2. QED
  BY <1>1, PrefixPointwise

LEMMA PrefixTrans ==
    ASSUME NEW s \in Seq(Nat), NEW t \in Seq(Nat), NEW u \in Seq(Nat),
           IsPrefix(s, t), IsPrefix(t, u)
    PROVE  IsPrefix(s, u)
BY PrefixPointwise

LEMMA ConcatFacts ==
    ASSUME NEW f \in Seq(WholeLines), NEW r \in Seq(WholeLines)
    PROVE  /\ f \o r \in Seq(WholeLines) /\ Len(f \o r) = Len(f) + Len(r)
           /\ \A i \in 1 .. Len(f) : (f \o r)[i] = f[i]
OBVIOUS

LEMMA Associative ==
    ASSUME NEW f \in Seq(WholeLines), NEW r \in Seq(WholeLines), NEW p \in Seq(WholeLines)
    PROVE  (f \o r) \o p = f \o (r \o p)
OBVIOUS

\* A line that moves from one to the next stays where it is.
LEMMA MoveLine ==
    ASSUME NEW f \in Seq(WholeLines), NEW r \in Seq(WholeLines), r # <<>>
    PROVE  /\ Append(f, Head(r)) \in Seq(WholeLines) /\ Tail(r) \in Seq(WholeLines)
           /\ Append(f, Head(r)) \o Tail(r) = f \o r
OBVIOUS

\* The queue becomes the batch.
LEMMA TakeQueue ==
    ASSUME NEW f \in Seq(WholeLines), NEW p \in Seq(WholeLines)
    PROVE  /\ (f \o p) \o <<>> = (f \o <<>>) \o p
           /\ (f \o <<>>) \o <<>> = f
OBVIOUS

\* Lines of which the drain takes the first at once come last all the same.
LEMMA AppendTaken ==
    ASSUME NEW f \in Seq(WholeLines), NEW p \in Seq(WholeLines),
           NEW l \in Seq(WholeLines), l # <<>>
    PROVE  (f \o Append(p, Head(l))) \o Tail(l) = ((f \o <<>>) \o p) \o l
<1>1. /\ Append(p, Head(l)) \in Seq(WholeLines) /\ Tail(l) \in Seq(WholeLines)
      /\ Append(p, Head(l)) \o Tail(l) = p \o l
  BY MoveLine
<1>2. f \o <<>> = f
  OBVIOUS
<1>3. (f \o Append(p, Head(l))) \o Tail(l) = f \o (Append(p, Head(l)) \o Tail(l))
  BY <1>1, Associative, Zenon
<1>4. (f \o p) \o l = f \o (p \o l)
  BY Associative, Zenon
<1>5. QED
  BY <1>1, <1>2, <1>3, <1>4, Zenon

-----------------------------------------------------------------------------
(* The numbers of a log.                                                   *)

LEMMA NumbersOfLog ==
    ASSUME NEW s, Log(s)
    PROVE  /\ Numbers(s) \in Seq(Nat)
           /\ Len(Numbers(s)) = IF s = <<>> THEN 0 ELSE Len(s) - 1
           /\ \A i \in Nat : 1 <= i /\ i < Len(s)
                => Numbers(s)[i] = s[i + 1].n /\ Numbers(s)[i] # 0
<1> DEFINE skip == IF s # <<>> /\ s[1].n = 0 THEN 1 ELSE 0
           N == [i \in 1 .. Len(s) - skip |-> s[i + skip].n]
<1>1. s \in Seq(WholeLines) /\ \A i \in 1 .. Len(s) : s[i].n \in Nat
  <2>1. s \in Seq(WholeLines)
    BY DEF Log
  <2>2. \A i \in 1 .. Len(s) : s[i] \in WholeLines
    BY <2>1
  <2>3. QED
    BY <2>1, <2>2 DEF WholeLines
<1>2. s # <<>> => skip = 1 /\ Len(s) - skip \in Nat
  BY <1>1 DEF Log
<1>3. s = <<>> => skip = 0 /\ Len(s) = 0
  OBVIOUS
<1>4. \A i \in 1 .. Len(s) - skip : N[i] = s[i + 1].n /\ N[i] \in Nat /\ N[i] # 0
  BY <1>1, <1>2, <1>3 DEF Log
<1>5. N \in Seq(Nat) /\ Len(N) = Len(s) - skip
  BY <1>1, <1>2, <1>3, <1>4
<1>6. Numbers(s) = N
  BY DEF Numbers
<1> HIDE DEF skip, N
<1>7. QED
  BY <1>2, <1>3, <1>4, <1>5, <1>6

LEMMA EmptyLog == Log(<<>>) /\ Numbers(<<>>) = <<>>
BY DEF Log, Numbers

LEMMA NumbersGrow ==
    ASSUME NEW s, NEW t, Log(s), Log(t), s # <<>>, Len(t) = Len(s) + 1,
           \A i \in 1 .. Len(s) : t[i] = s[i]
    PROVE  Numbers(t) = Append(Numbers(s), t[Len(t)].n)
<1> DEFINE a == Numbers(t)
           b == Numbers(s)
           n == t[Len(t)].n
<1>1. Len(s) \in Nat \ {0} /\ t # <<>>
  BY DEF Log
<1>2. /\ b \in Seq(Nat) /\ Len(b) = Len(s) - 1
      /\ \A i \in Nat : 1 <= i /\ i < Len(s) => b[i] = s[i + 1].n
  BY <1>1, NumbersOfLog
<1>3. /\ a \in Seq(Nat) /\ Len(a) = Len(s)
      /\ \A i \in Nat : 1 <= i /\ i < Len(s) + 1 => a[i] = t[i + 1].n
  BY <1>1, NumbersOfLog
<1> HIDE DEF a, b
<1>4. ASSUME NEW i \in 1 .. Len(b) PROVE a[i] = b[i]
  <2>1. /\ i \in Nat /\ 1 <= i /\ i < Len(s) /\ i < Len(s) + 1
        /\ i + 1 \in 1 .. Len(s)
    BY <1>1, <1>2
  <2>2. a[i] = t[i + 1].n /\ b[i] = s[i + 1].n
    BY <1>2, <1>3, <2>1, Zenon
  <2>3. QED
    BY <2>1, <2>2
<1>5. Len(a) = Len(b) + 1 /\ a[Len(a)] = n
  BY <1>1, <1>2, <1>3
<1> HIDE DEF n
<1>6. a = Append(b, n)
  <2>1. n \in Nat
    BY <1>1, <1>3, <1>5
  <2>2. Append(b, n) \in Seq(Nat) /\ Len(Append(b, n)) = Len(a)
    BY <1>2, <1>5, <2>1
  <2>3. \A i \in 1 .. Len(a) : a[i] = Append(b, n)[i]
    BY <1>2, <1>3, <1>4, <1>5, <2>1
  <2>4. QED
    BY <1>3, <2>2, <2>3, SeqEqual
<1>7. QED
  BY <1>6 DEF a, b, n

LEMMA LogAppend ==
    ASSUME NEW s, NEW n \in Nat \ {0}, Log(s), s # <<>>
    PROVE  /\ Log(s \o <<Line(n, "now")>>)
           /\ Numbers(s \o <<Line(n, "now")>>) = Append(Numbers(s), n)
           /\ s \o <<Line(n, "now")>> # <<>>
<1> DEFINE t == s \o <<Line(n, "now")>>
<1>1. s \in Seq(WholeLines) /\ Len(s) \in Nat \ {0} /\ Line(n, "now") \in WholeLines
  BY DEF Log, WholeLines, Line
<1>2. /\ t \in Seq(WholeLines) /\ Len(t) = Len(s) + 1
      /\ \A i \in 1 .. Len(s) : t[i] = s[i]
      /\ t[Len(t)] = Line(n, "now")
  BY <1>1
<1>3. Log(t) /\ t[Len(t)].n = n /\ t # <<>>
  BY <1>1, <1>2 DEF Log, Line
<1> HIDE DEF t
<1>4. Numbers(t) = Append(Numbers(s), n)
  BY <1>2, <1>3, NumbersGrow
<1>5. QED
  BY <1>3, <1>4 DEF t

LEMMA NumbersOfTwo ==
    ASSUME NEW t, Log(t), Len(t) = 2
    PROVE  Numbers(t) = <<t[2].n>>
<1>1. t # <<>>
  OBVIOUS
<1>2. /\ Numbers(t) \in Seq(Nat) /\ Len(Numbers(t)) = 2 - 1
      /\ \A i \in Nat : 1 <= i /\ i < 2 => Numbers(t)[i] = t[i + 1].n
  BY <1>1, NumbersOfLog, Zenon
<1>3. Numbers(t)[1] = t[1 + 1].n /\ 1 + 1 = 2
  BY <1>2
<1>4. QED
  BY <1>2, <1>3

LEMMA LogFirst ==
    ASSUME NEW n \in Nat \ {0}
    PROVE  /\ Log(<<Metadata, Line(n, "now")>>)
           /\ Numbers(<<Metadata, Line(n, "now")>>) = <<n>>
<1> DEFINE t == <<Metadata, Line(n, "now")>>
<1>1. Log(t)
  BY DEF Log, WholeLines, Line, Metadata
<1>2. Len(t) = 2 /\ t[2].n = n
  BY DEF Line
<1> HIDE DEF t
<1>3. Numbers(t) = <<n>>
  BY <1>1, <1>2, NumbersOfTwo
<1>4. QED
  BY <1>1, <1>3 DEF t

\* What is written of a log is a log, and its numbers come first.
LEMMA LogPrefix ==
    ASSUME NEW f \in Seq(WholeLines), NEW t, Log(t), Len(f) <= Len(t),
           \A i \in 1 .. Len(f) : f[i] = t[i]
    PROVE  Log(f) /\ IsPrefix(Numbers(f), Numbers(t))
<1>1. Len(f) \in Nat /\ Len(t) \in Nat
  BY DEF Log
<1>2. Log(f)
  BY <1>1 DEF Log
<1>3. CASE f = <<>>
  <2>1. Numbers(f) = <<>> /\ Numbers(t) \in Seq(Nat)
    BY <1>3, EmptyLog, NumbersOfLog
  <2>2. IsPrefix(<<>>, Numbers(t))
    BY <2>1, PrefixEmpty
  <2>3. QED
    BY <1>2, <2>1, <2>2, Zenon
<1>4. CASE f # <<>>
  <2> DEFINE a == Numbers(f)
             b == Numbers(t)
  <2>1. /\ a \in Seq(Nat) /\ Len(a) = Len(f) - 1
        /\ \A i \in Nat : 1 <= i /\ i < Len(f) => a[i] = f[i + 1].n
    BY <1>2, <1>4, NumbersOfLog, Zenon
  <2>2. t # <<>>
    BY <1>1, <1>4
  <2>3. /\ b \in Seq(Nat) /\ Len(b) = Len(t) - 1
        /\ \A i \in Nat : 1 <= i /\ i < Len(t) => b[i] = t[i + 1].n
    BY <2>2, NumbersOfLog, Zenon
  <2> HIDE DEF a, b
  <2>4. ASSUME NEW i \in 1 .. Len(a) PROVE a[i] = b[i]
    <3>1. /\ i \in Nat /\ 1 <= i /\ i < Len(f) /\ i < Len(t)
          /\ i + 1 \in 1 .. Len(f)
      BY <1>1, <2>1
    <3>2. a[i] = f[i + 1].n /\ b[i] = t[i + 1].n
      BY <2>1, <2>3, <3>1, Zenon
    <3>3. QED
      BY <3>1, <3>2
  <2>5. Len(a) <= Len(b)
    BY <1>1, <2>1, <2>3
  <2>6. IsPrefix(a, b)
    BY <2>1, <2>3, <2>4, <2>5, PrefixPointwise
  <2>7. QED
    BY <1>2, <2>6 DEF a, b
<1>5. QED
  BY <1>3, <1>4

\* So is every part of a stream that is one.
LEMMA LogParts ==
    ASSUME NEW f \in Seq(WholeLines), NEW r \in Seq(WholeLines), NEW p \in Seq(WholeLines),
           Log((f \o r) \o p)
    PROVE  /\ Log(f) /\ IsPrefix(Numbers(f), Numbers((f \o r) \o p))
           /\ Log(f \o r)
<1> DEFINE q == f \o r
           t == q \o p
<1>1. /\ q \in Seq(WholeLines) /\ Len(q) = Len(f) + Len(r)
      /\ \A i \in 1 .. Len(f) : q[i] = f[i]
  OBVIOUS
<1>2. Len(f) \in Nat /\ Len(r) \in Nat /\ Len(p) \in Nat
  OBVIOUS
<1> HIDE DEF q
<1>3. /\ t \in Seq(WholeLines) /\ Len(t) = Len(q) + Len(p)
      /\ \A i \in 1 .. Len(q) : t[i] = q[i]
  BY <1>1, ConcatFacts, Zenon
<1>4. Log(t)
  BY DEF q
<1> HIDE DEF t
<1>5. Log(q)
  BY <1>1, <1>2, <1>3, <1>4, LogPrefix
<1>6. \A i \in 1 .. Len(f) : t[i] = f[i]
  BY <1>1, <1>2, <1>3
<1>7. Log(f) /\ IsPrefix(Numbers(f), Numbers(t))
  BY <1>1, <1>2, <1>3, <1>4, <1>6, LogPrefix
<1>8. QED
  BY <1>5, <1>7 DEF t, q

LEMMA NumbersOfBody ==
    ASSUME NEW r \in Seq(WholeLines), r # <<>> => r[1].n # 0
    PROVE  /\ Numbers(r) \in Seq(Nat) /\ Len(Numbers(r)) = Len(r)
           /\ \A i \in 1 .. Len(r) : Numbers(r)[i] = r[i].n
<1> DEFINE N == [i \in 1 .. Len(r) |-> r[i].n]
<1>1. ASSUME NEW i \in 1 .. Len(r) PROVE r[i].n \in Nat
  <2>1. r[i] \in WholeLines
    OBVIOUS
  <2>2. QED
    BY <2>1 DEF WholeLines
<1>2. N \in Seq(Nat) /\ Len(N) = Len(r)
  BY <1>1
<1>3. Numbers(r) = N
  <2>1. /\ Numbers(r) = [i \in 1 .. Len(r) - 0 |-> r[i + 0].n]
        /\ Len(r) - 0 = Len(r)
    BY DEF Numbers
  <2>2. \A i \in 1 .. Len(r) : r[i + 0].n = r[i].n
    OBVIOUS
  <2>3. QED
    BY <2>1, <2>2
<1>4. QED
  BY <1>2, <1>3

\* The numbers of a log are those of its parts.
LEMMA NumbersSplit ==
    ASSUME NEW f \in Seq(WholeLines), NEW r \in Seq(WholeLines), Log(f \o r)
    PROVE  Numbers(f \o r) = Numbers(f) \o Numbers(r)
<1> DEFINE t == f \o r
<1>1. /\ Len(f) \in Nat /\ Len(r) \in Nat /\ Len(t) = Len(f) + Len(r)
      /\ \A i \in 1 .. Len(f) : t[i] = f[i]
      /\ \A i \in 1 .. Len(r) : t[Len(f) + i] = r[i]
  OBVIOUS
<1>2. CASE f = <<>>
  <2>1. t = r /\ Numbers(f) = <<>>
    BY <1>2, EmptyLog
  <2>2. Log(r) /\ Numbers(r) \in Seq(Nat)
    BY <2>1, NumbersOfLog
  <2>3. <<>> \o Numbers(r) = Numbers(r)
    BY <2>2
  <2>4. QED
    BY <2>1, <2>3
<1>3. CASE f # <<>>
  <2> DEFINE a == Numbers(f)
             b == Numbers(r)
             c == Numbers(t)
  <2>1. r # <<>> => r[1].n # 0
    <3> HAVE r # <<>>
    <3>1. 1 \in 1 .. Len(r) /\ Len(f) + 1 \in 1 .. Len(t) /\ Len(f) + 1 # 1
      BY <1>1, <1>3
    <3>2. t[Len(f) + 1] = r[1]
      BY <1>1, <3>1
    <3>3. QED
      BY <3>1, <3>2 DEF Log
  <2>2. b \in Seq(Nat) /\ Len(b) = Len(r) /\ \A i \in 1 .. Len(r) : b[i] = r[i].n
    BY <2>1, NumbersOfBody
  <2>3. Log(f) /\ t # <<>> /\ Len(f) > 0
    BY <1>1, <1>3 DEF Log
  <2>4. /\ a \in Seq(Nat) /\ Len(a) = Len(f) - 1
        /\ \A i \in Nat : 1 <= i /\ i < Len(f) => a[i] = f[i + 1].n
    BY <1>3, <2>3, NumbersOfLog, Zenon
  <2>5. /\ c \in Seq(Nat) /\ Len(c) = Len(t) - 1
        /\ \A i \in Nat : 1 <= i /\ i < Len(t) => c[i] = t[i + 1].n
    BY <2>3, NumbersOfLog, Zenon
  <2> HIDE DEF a, b, c, t
  <2>6. /\ a \o b \in Seq(Nat) /\ Len(a \o b) = Len(a) + Len(b)
        /\ \A i \in 1 .. Len(a) + Len(b) :
             (a \o b)[i] = IF i <= Len(a) THEN a[i] ELSE b[i - Len(a)]
    <3>1. a \in Seq(Nat) /\ b \in Seq(Nat)
      BY <2>2, <2>4
    <3>2. QED
      BY <3>1, ConcatProperties, Zenon
  <2>7. ASSUME NEW i \in 1 .. Len(c) PROVE c[i] = (a \o b)[i]
    <3>1. /\ i \in Nat /\ 1 <= i /\ i < Len(t) /\ i \in 1 .. Len(a) + Len(b)
      BY <1>1, <2>2, <2>4, <2>5
    <3>2. c[i] = t[i + 1].n
      BY <2>5, <3>1, Zenon
    <3>3. CASE i <= Len(a)
      <4>1. i + 1 \in 1 .. Len(f) /\ i < Len(f)
        BY <1>1, <2>4, <3>1, <3>3
      <4>2. a[i] = f[i + 1].n
        BY <2>4, <3>1, <4>1, Zenon
      <4>3. t[i + 1] = f[i + 1]
        BY <1>1, <4>1
      <4>4. QED
        BY <2>6, <3>1, <3>2, <3>3, <4>2, <4>3
    <3>4. CASE ~(i <= Len(a))
      <4> DEFINE j == i - Len(a)
      <4>1. j \in 1 .. Len(r) /\ Len(f) + j = i + 1
        BY <1>1, <2>2, <2>4, <3>1, <3>4
      <4> HIDE DEF j
      <4>2. t[i + 1] = r[j] /\ b[j] = r[j].n
        BY <1>1, <2>2, <4>1
      <4>3. (a \o b)[i] = b[j]
        BY <2>6, <3>1, <3>4 DEF j
      <4>4. QED
        BY <3>2, <4>2, <4>3
    <3>5. QED
      BY <3>3, <3>4
  <2>8. Len(c) = Len(a \o b)
    BY <1>1, <2>2, <2>4, <2>5, <2>6
  <2>9. c = a \o b
    BY <2>5, <2>6, <2>7, <2>8, SeqEqual
  <2>10. QED
    BY <2>9 DEF a, b, c, t
<1>4. QED
  BY <1>2, <1>3

\* A rewrite keeps the numbers.
LEMMA RenewedLog ==
    ASSUME NEW N \in Seq(Nat), \A i \in 1 .. Len(N) : N[i] # 0
    PROVE  /\ Log(<<Metadata>> \o [i \in DOMAIN N |-> Line(N[i], "now")])
           /\ Numbers(<<Metadata>> \o [i \in DOMAIN N |-> Line(N[i], "now")]) = N
           /\ <<Metadata>> \o [i \in DOMAIN N |-> Line(N[i], "now")] # <<>>
<1> DEFINE b == [i \in DOMAIN N |-> Line(N[i], "now")]
           t == <<Metadata>> \o b
<1>1. /\ Len(N) \in Nat /\ DOMAIN N = 1 .. Len(N)
      /\ \A i \in 1 .. Len(N) : b[i] \in WholeLines /\ b[i].n = N[i]
  BY DEF WholeLines, Line
<1>2. b \in Seq(WholeLines) /\ Len(b) = Len(N)
  BY <1>1
<1>3. <<Metadata>> \in Seq(WholeLines) /\ Metadata.n = 0
  BY DEF Metadata, Line, WholeLines
<1> HIDE DEF b
<1>4. /\ t \in Seq(WholeLines) /\ Len(t) = 1 + Len(N) /\ t[1].n = 0
      /\ \A i \in 2 .. Len(t) : t[i] = b[i - 1]
  BY <1>1, <1>2, <1>3
<1> HIDE DEF t
<1>5. ASSUME NEW i \in 1 .. Len(t) PROVE t[i].n = 0 <=> i = 1
  <2>1. CASE i = 1
    BY <1>4, <2>1
  <2>2. CASE i # 1
    <3>1. i \in 2 .. Len(t) /\ i - 1 \in 1 .. Len(N)
      BY <1>1, <1>4, <2>2
    <3>2. t[i] = b[i - 1] /\ b[i - 1].n = N[i - 1]
      BY <1>1, <1>4, <3>1
    <3>3. QED
      BY <2>2, <3>1, <3>2
  <2>3. QED
    BY <2>1, <2>2
<1>6. Log(t) /\ t # <<>>
  BY <1>1, <1>4, <1>5 DEF Log
<1>7. /\ Numbers(t) \in Seq(Nat) /\ Len(Numbers(t)) = Len(t) - 1
      /\ \A i \in Nat : 1 <= i /\ i < Len(t) => Numbers(t)[i] = t[i + 1].n
  BY <1>6, NumbersOfLog, Zenon
<1>8. ASSUME NEW i \in 1 .. Len(N) PROVE Numbers(t)[i] = N[i]
  <2>1. /\ i \in Nat /\ 1 <= i /\ i < Len(t) /\ i + 1 \in 2 .. Len(t) /\ (i + 1) - 1 = i
    BY <1>1, <1>4
  <2>2. Numbers(t)[i] = t[i + 1].n
    BY <1>7, <2>1, Zenon
  <2>3. t[i + 1] = b[i]
    BY <1>4, <2>1
  <2>4. QED
    BY <1>1, <2>2, <2>3
<1>9. Len(Numbers(t)) = Len(N)
  BY <1>1, <1>4, <1>7
<1>10. Numbers(t) = N
  BY <1>7, <1>8, <1>9, SeqEqual
<1>11. QED
  BY <1>6, <1>10 DEF t, b

-----------------------------------------------------------------------------
(* The invariant.                                                          *)

\* rewrite is called with an idle drain only, so shouldClear is taken at once.
Shapes ==
  /\ file \in Seq(WholeLines) /\ pending \in Seq(WholeLines)
  /\ drain \in [pc : Places, clear : BOOLEAN, rest : Seq(WholeLines)]
  /\ clear = FALSE /\ failed \in BOOLEAN /\ sealed \in BOOLEAN
  /\ phase \in {"new", "resuming", "restoring", "ready"}
  /\ mem \in Seq(Nat) /\ flushed \in Seq(Nat) /\ next \in Nat \ {0}
  /\ flusher \in [Flushers -> {"idle", "waiting", "returned", "threw"}]

\* When each part may hold something.
Phases ==
  /\ drain.pc \in {"idle", "settling"} => drain.rest = <<>> /\ ~drain.clear
  /\ drain.clear => phase = "restoring"
  /\ phase = "resuming" => drain.pc = "idle" /\ pending = <<>> /\ mem = <<>> /\ ~sealed
  /\ phase = "restoring" => /\ pending = <<>>
                            /\ drain.pc \in {"open", "write"} => drain.clear
  /\ phase = "ready" => sealed
  /\ failed => drain.pc \in {"idle", "settling"} /\ phase \in {"new", "ready"}
  /\ \A f \in Flushers : flusher[f] = "waiting" => phase \in {"new", "ready"}

\* A rewrite has been decided on and has not emptied the file yet.
Opening == drain.clear /\ drain.pc = "open"

\* The stream is a log of the state, until a write fails; then the file is a
\* log of its beginning.
Journalled ==
  /\ Log(file)
  /\ Opening => /\ Log(drain.rest) /\ drain.rest # <<>>
                /\ Numbers(drain.rest) = mem /\ Numbers(file) = mem
  /\ failed => IsPrefix(Numbers(file), mem)
  /\ ~Opening /\ ~failed /\ phase # "resuming" =>
       /\ Log(Stream) /\ Numbers(Stream) = mem
       /\ Stream = <<>> <=> phase = "new" /\ ~sealed

\* While a rewrite is under way, what was flushed is in the state it writes.
Vouched == IsPrefix(flushed, IF drain.clear THEN mem ELSE Numbers(file))

RecordInv == Shapes /\ Phases /\ Journalled /\ Vouched

-----------------------------------------------------------------------------

LEMMA FileIsWhole ==
    ASSUME Shapes
    PROVE  /\ Lines = file /\ Readable /\ Recorded = Numbers(file)
           /\ \A l : Written(l) = Append(file, l)
<1>1. ASSUME NEW i \in 1 .. Len(file) PROVE file[i].form \in {"now", "old"}
  <2>1. file[i] \in WholeLines
    BY DEF Shapes
  <2>2. QED
    BY <2>1 DEF WholeLines
<1>2. file # <<>> => Last(file).form \in {"now", "old"}
  BY <1>1 DEF Last, Shapes
<1>3. Lines = file
  BY <1>2 DEF Lines
<1>4. Readable
  <2>1. DOMAIN file = 1 .. Len(file)
    BY DEF Shapes
  <2>2. QED
    BY <1>1, <1>3, <2>1 DEF Readable
<1>5. \A l : Written(l) = Append(file, l)
  BY <1>2 DEF Written, EndsInFragment, Fragments
<1>6. QED
  BY <1>3, <1>4, <1>5 DEF Recorded

LEMMA InitRecordInv == Init => RecordInv
<1> SUFFICES ASSUME Init PROVE RecordInv
  OBVIOUS
<1>1. \/ file = <<>> /\ phase = "new" /\ next = 1 /\ flushed = <<>>
      \/ file = OldFile /\ phase = "resuming" /\ next = 2 /\ flushed = <<1>>
  BY DEF Init
<1>2. Log(OldFile) /\ Numbers(OldFile) = <<1>>
  <2>1. Log(OldFile) /\ Len(OldFile) = 2 /\ OldFile[2].n = 1
    BY DEF OldFile, Log, WholeLines, Line
  <2>2. QED
    BY <2>1, NumbersOfTwo
<1>3. /\ pending = <<>> /\ clear = FALSE /\ drain = NoBatch
      /\ failed = FALSE /\ sealed = FALSE /\ mem = <<>>
      /\ flusher = [f \in Flushers |-> "idle"]
  BY DEF Init
<1>4. file \in Seq(WholeLines) /\ Log(file)
  BY <1>1, <1>2, EmptyLog DEF Log
<1>5. Shapes
  <2>1. <<>> \in Seq(WholeLines) /\ <<>> \in Seq(Nat) /\ <<1>> \in Seq(Nat)
    OBVIOUS
  <2>2. /\ pending \in Seq(WholeLines) /\ mem \in Seq(Nat) /\ flushed \in Seq(Nat)
        /\ next \in Nat \ {0} /\ phase \in {"new", "resuming", "restoring", "ready"}
    <3>1. pending \in Seq(WholeLines) /\ mem \in Seq(Nat) /\ flushed \in Seq(Nat)
      BY <1>1, <1>3, <2>1, Zenon
    <3>2. next \in Nat \ {0} /\ phase \in {"new", "resuming", "restoring", "ready"}
      BY <1>1
    <3>3. QED
      BY <3>1, <3>2
  <2>3. drain \in [pc : Places, clear : BOOLEAN, rest : Seq(WholeLines)]
    BY <1>3, <2>1 DEF NoBatch, Places
  <2>4. QED
    BY <1>3, <1>4, <2>2, <2>3 DEF Shapes
<1>6. Phases
  BY <1>1, <1>3 DEF Phases, NoBatch
<1>7. Journalled
  <2>1. phase = "new" => Stream = <<>>
    BY <1>1, <1>3 DEF Stream, NoBatch
  <2>2. QED
    BY <1>1, <1>3, <1>4, <2>1, EmptyLog DEF Journalled, Opening, NoBatch
<1>8. Vouched
  <2>1. flushed = Numbers(file) /\ flushed \in Seq(Nat)
    BY <1>1, <1>2, <1>5, EmptyLog, Zenon DEF Shapes
  <2>2. ~drain.clear
    BY <1>3 DEF NoBatch
  <2>3. QED
    BY <2>1, <2>2, PrefixRefl DEF Vouched
<1>9. QED
  BY <1>5, <1>6, <1>7, <1>8 DEF RecordInv

-----------------------------------------------------------------------------
(* What the theorems say follows from the invariant.                       *)

LEMMA InvImpliesJournal == RecordInv => JournalFollowsState
<1> SUFFICES ASSUME RecordInv, phase \in {"new", "ready"}
             PROVE  IF failed THEN IsPrefix(Recorded, mem)
                    ELSE mem = Recorded \o Numbers(drain.rest) \o Numbers(pending)
  BY DEF JournalFollowsState
<1>1. Recorded = Numbers(file) /\ Shapes
  BY FileIsWhole DEF RecordInv
<1>2. CASE failed
  BY <1>1, <1>2 DEF RecordInv, Journalled
<1>3. CASE ~failed
  <2>1. Log(Stream) /\ Numbers(Stream) = mem
    BY <1>3 DEF RecordInv, Phases, Journalled, Opening
  <2>3. /\ file \in Seq(WholeLines) /\ drain.rest \in Seq(WholeLines)
        /\ pending \in Seq(WholeLines) /\ file \o drain.rest \in Seq(WholeLines)
    BY <1>1 DEF Shapes
  <2>2. Log(file \o drain.rest)
    BY <2>1, <2>3, LogParts DEF Stream
  <2>4. Numbers(file \o drain.rest) = Numbers(file) \o Numbers(drain.rest)
    BY <2>2, <2>3, NumbersSplit
  <2>5. Numbers(Stream) = Numbers(file \o drain.rest) \o Numbers(pending)
    BY <2>1, <2>3, NumbersSplit DEF Stream
  <2>6. QED
    BY <1>1, <1>3, <2>1, <2>4, <2>5
<1>4. QED
  BY <1>2, <1>3

LEMMA InvImpliesFlushed == RecordInv => FlushedSurvives
<1> SUFFICES ASSUME RecordInv, ~Rewriting PROVE IsPrefix(flushed, Recorded)
  BY DEF FlushedSurvives
<1>1. Recorded = Numbers(file)
  BY FileIsWhole DEF RecordInv
<1>2. CASE drain.clear
  <2>1. drain.pc = "open"
    BY <1>2 DEF RecordInv, Shapes, Phases, Rewriting, Places
  <2>2. QED
    BY <1>1, <1>2, <2>1 DEF RecordInv, Journalled, Opening, Vouched
<1>3. CASE ~drain.clear
  BY <1>1, <1>3 DEF RecordInv, Vouched
<1>4. QED
  BY <1>2, <1>3

-----------------------------------------------------------------------------
(* The steps.                                                              *)

\* What is scheduled joins the stream.
LEMMA ScheduleEachStep ==
    ASSUME Shapes, Phases, NEW ls \in Seq(WholeLines), ls # <<>>, ScheduleEach(ls), file' = file
    PROVE  /\ Stream' = Stream \o ls
           /\ pending' \in Seq(WholeLines) /\ clear' = FALSE
           /\ drain' \in [pc : Places, clear : BOOLEAN, rest : Seq(WholeLines)]
           /\ drain'.clear = drain.clear
           /\ drain'.pc \in {"open", "write", "settling"}
           /\ drain'.pc = "settling" => drain'.rest = <<>>
<1>1. /\ file \in Seq(WholeLines) /\ pending \in Seq(WholeLines)
      /\ drain.rest \in Seq(WholeLines) /\ drain.pc \in Places /\ clear = FALSE
  BY DEF Shapes
<1>2. Head(ls) \in WholeLines /\ Tail(ls) \in Seq(WholeLines)
  OBVIOUS
<1>3. CASE drain.pc = "idle"
  <2>1. /\ drain' = [pc |-> "open", clear |-> clear, rest |-> Append(pending, Head(ls))]
        /\ pending' = Tail(ls) /\ clear' = FALSE
    BY <1>3 DEF ScheduleEach
  <2>2. drain.rest = <<>> /\ ~drain.clear /\ drain.clear \in BOOLEAN
    BY <1>3 DEF Phases, Shapes
  <2>3. Append(pending, Head(ls)) \in Seq(WholeLines)
    BY <1>1, <1>2
  <2>4. Stream' = (file \o Append(pending, Head(ls))) \o Tail(ls)
    BY <2>1 DEF Stream
  <2>5. Stream = (file \o <<>>) \o pending
    BY <2>2 DEF Stream
  <2>6. Stream' = Stream \o ls
    BY <1>1, <2>4, <2>5, AppendTaken, ZenonT(40)
  <2>7. drain'.clear = drain.clear /\ drain'.pc = "open"
    BY <1>1, <2>1, <2>2
  <2>8. QED
    BY <1>1, <1>2, <2>1, <2>3, <2>6, <2>7 DEF Places
<1>4. CASE drain.pc # "idle"
  <2>1. pending' = pending \o ls /\ drain' = drain /\ clear' = clear
    BY <1>4 DEF ScheduleEach
  <2>2. Stream' = (file \o drain.rest) \o (pending \o ls)
    BY <2>1 DEF Stream
  <2>3. Stream' = Stream \o ls
    <3> DEFINE q == file \o drain.rest
    <3>1. q \in Seq(WholeLines) /\ pending \in Seq(WholeLines)
      BY <1>1, ConcatFacts, Zenon
    <3> HIDE DEF q
    <3>2. (q \o pending) \o ls = q \o (pending \o ls)
      BY <3>1, Associative, Zenon
    <3>3. QED
      BY <2>2, <3>2, Zenon DEF Stream, q
  <2>4. pending' \in Seq(WholeLines)
    BY <1>1, <2>1
  <2>5. QED
    BY <1>1, <1>4, <2>1, <2>3, <2>4 DEF Shapes, Phases, Places
<1>5. QED
  BY <1>3, <1>4

LEMMA DispatchStep ==
    ASSUME RecordInv, Dispatch
    PROVE  RecordInv'
<1>1. /\ Shapes /\ Phases /\ Journalled /\ Vouched
      /\ phase \in {"new", "ready"} /\ next \in Nat \ {0} /\ mem \in Seq(Nat)
      /\ next' = next + 1 /\ mem' = Append(mem, next)
      /\ UNCHANGED <<file, failed, phase, flusher, flushed>>
      /\ ~drain.clear
  BY DEF RecordInv, Dispatch, Shapes, Phases
<1>2. mem' \in Seq(Nat) /\ IsPrefix(mem, mem') /\ next' \in Nat \ {0}
  BY <1>1, PrefixAppend
<1>3. CASE failed
  <2>1. UNCHANGED <<pending, clear, drain, sealed>>
    BY <1>3, <1>1 DEF Dispatch, Refuses, Shapes
  <2>2. Shapes' /\ Vouched'
    BY <1>1, <1>2, <2>1 DEF Shapes, Vouched
  <2>3. Phases'
    BY <1>1, <2>1 DEF Phases
  <2>4. IsPrefix(Numbers(file), mem')
    <3>1. Numbers(file) \in Seq(Nat) /\ IsPrefix(Numbers(file), mem)
      BY <1>1, <1>3, NumbersOfLog DEF Journalled
    <3>2. QED
      BY <1>1, <1>2, <3>1, PrefixTrans
  <2>5. Journalled'
    BY <1>1, <1>3, <2>1, <2>4 DEF Journalled, Opening
  <2>6. QED
    BY <2>2, <2>3, <2>5 DEF RecordInv
<1>4. CASE ~failed
  <2> DEFINE ls == IF sealed THEN <<Line(next, "now")>> ELSE <<Metadata, Line(next, "now")>>
  <2>1. sealed' = TRUE /\ ScheduleEach(ls)
    BY <1>4 DEF Dispatch, Refuses
  <2>2. ls \in Seq(WholeLines) /\ ls # <<>>
    <3>1. Line(next, "now") \in WholeLines /\ Metadata \in WholeLines
      BY <1>1 DEF Line, Metadata, WholeLines
    <3>2. QED
      BY <3>1
  <2> HIDE DEF ls
  <2>3. /\ Stream' = Stream \o ls
        /\ pending' \in Seq(WholeLines) /\ clear' = FALSE
        /\ drain' \in [pc : Places, clear : BOOLEAN, rest : Seq(WholeLines)]
        /\ drain'.clear = drain.clear
        /\ drain'.pc \in {"open", "write", "settling"}
        /\ drain'.pc = "settling" => drain'.rest = <<>>
    BY <1>1, <2>1, <2>2, ScheduleEachStep
  <2>4. Log(Stream) /\ Numbers(Stream) = mem /\ (Stream = <<>> <=> phase = "new" /\ ~sealed)
    BY <1>1, <1>4 DEF Journalled, Opening
  <2>5. Log(Stream') /\ Numbers(Stream') = mem' /\ Stream' # <<>>
    <3>1. CASE sealed
      <4>1. Stream # <<>> /\ Stream' = Stream \o <<Line(next, "now")>>
        BY <2>3, <2>4, <3>1 DEF ls
      <4>2. QED
        BY <1>1, <2>4, <4>1, LogAppend
    <3>2. CASE ~sealed
      <4>1. Stream = <<>>
        BY <1>1, <2>4, <3>2 DEF Phases
      <4>2. Stream' = <<Metadata, Line(next, "now")>>
        BY <2>2, <2>3, <3>2, <4>1, ConcatEmptySeq DEF ls
      <4>3. mem' = <<next>>
        <5>1. mem = <<>>
          BY <2>4, <4>1, EmptyLog, Zenon
        <5>2. QED
          BY <1>1, <5>1
      <4>4. QED
        BY <1>1, <4>2, <4>3, LogFirst
    <3>3. QED
      BY <3>1, <3>2
  <2>6. Shapes'
    BY <1>1, <1>2, <2>1, <2>3 DEF Shapes
  <2>7. Phases'
    BY <1>1, <1>4, <2>1, <2>3 DEF Phases
  <2>8. Journalled'
    BY <1>1, <1>4, <2>1, <2>3, <2>5 DEF Journalled, Opening
  <2>9. Vouched'
    BY <1>1, <2>3 DEF Vouched
  <2>10. QED
    BY <2>6, <2>7, <2>8, <2>9 DEF RecordInv
<1>5. QED
  BY <1>3, <1>4

LEMMA OpenStep ==
    ASSUME RecordInv, Open
    PROVE  RecordInv'
<1>1. /\ Shapes /\ Phases /\ Journalled /\ Vouched
      /\ drain.pc = "open" /\ drain' = [drain EXCEPT !.pc = "write"]
      /\ UNCHANGED <<pending, clear, failed, phase, sealed, mem, flusher, next, flushed>>
      /\ ~failed /\ phase # "resuming"
  BY DEF RecordInv, Open, service, Phases
<1>2. /\ drain'.pc = "write" /\ drain'.clear = drain.clear /\ drain'.rest = drain.rest
      /\ drain' \in [pc : Places, clear : BOOLEAN, rest : Seq(WholeLines)]
  BY <1>1 DEF Shapes, Places
<1>3. Phases'
  BY <1>1, <1>2 DEF Phases
<1>4. CASE drain.clear
  <2>1. /\ file' = <<>> /\ phase = "restoring" /\ pending = <<>>
        /\ Log(drain.rest) /\ drain.rest # <<>> /\ Numbers(drain.rest) = mem
        /\ drain.rest \in Seq(WholeLines)
    BY <1>1, <1>4 DEF Open, Phases, Journalled, Opening, Shapes
  <2>2. Stream' = (<<>> \o drain.rest) \o <<>>
    BY <1>1, <1>2, <2>1 DEF Stream
  <2>3. Stream' = drain.rest
    BY <2>1, <2>2
  <2>4. Shapes'
    BY <1>1, <1>2, <2>1 DEF Shapes
  <2>5. Journalled'
    BY <1>1, <1>2, <2>1, <2>3, EmptyLog DEF Journalled, Opening
  <2>6. Vouched'
    BY <1>1, <1>2, <1>4 DEF Vouched
  <2>7. QED
    BY <1>3, <2>4, <2>5, <2>6 DEF RecordInv
<1>5. CASE ~drain.clear
  <2>1. file' = file /\ Stream' = Stream
    BY <1>1, <1>2, <1>5 DEF Open, Stream
  <2>2. Shapes'
    BY <1>1, <1>2, <2>1 DEF Shapes
  <2>3. Journalled'
    BY <1>1, <1>2, <1>5, <2>1 DEF Journalled, Opening
  <2>4. Vouched'
    BY <1>1, <1>2, <1>5, <2>1 DEF Vouched
  <2>5. QED
    BY <1>3, <2>2, <2>3, <2>4 DEF RecordInv
<1>6. QED
  BY <1>4, <1>5

LEMMA WriteLineStep ==
    ASSUME RecordInv, WriteLine
    PROVE  RecordInv'
<1>1. /\ Shapes /\ Phases /\ Journalled /\ Vouched
      /\ drain.pc = "write" /\ drain.rest # <<>>
      /\ file' = Append(file, Head(drain.rest))
      /\ drain' = [drain EXCEPT !.rest = Tail(@)]
      /\ UNCHANGED <<pending, clear, failed, phase, sealed, mem, flusher, next, flushed>>
      /\ ~failed /\ phase # "resuming"
  BY FileIsWhole DEF RecordInv, WriteLine, service, Phases
<1>2. /\ file \in Seq(WholeLines) /\ drain.rest \in Seq(WholeLines)
      /\ pending \in Seq(WholeLines)
  BY <1>1 DEF Shapes
<1>3. /\ file' \in Seq(WholeLines) /\ Tail(drain.rest) \in Seq(WholeLines)
      /\ file' \o Tail(drain.rest) = file \o drain.rest
  BY <1>1, <1>2, MoveLine
<1>4. /\ drain'.pc = "write" /\ drain'.clear = drain.clear /\ drain'.rest = Tail(drain.rest)
      /\ drain' \in [pc : Places, clear : BOOLEAN, rest : Seq(WholeLines)]
  BY <1>1, <1>3 DEF Shapes
<1>5. Stream' = Stream
  BY <1>1, <1>3, <1>4 DEF Stream
<1>6. /\ Log(Stream) /\ Numbers(Stream) = mem
      /\ Stream = <<>> <=> phase = "new" /\ ~sealed
  BY <1>1 DEF Journalled, Opening
<1>7. Log(file')
  BY <1>2, <1>3, <1>6, LogParts DEF Stream
<1>8. Shapes'
  BY <1>1, <1>3, <1>4 DEF Shapes
<1>9. Phases'
  BY <1>1, <1>4 DEF Phases
<1>10. Journalled'
  BY <1>1, <1>4, <1>5, <1>6, <1>7 DEF Journalled, Opening
<1>11. Vouched'
  <2>1. CASE drain.clear
    BY <1>1, <1>4, <2>1 DEF Vouched
  <2>2. CASE ~drain.clear
    <3>1. /\ Head(drain.rest) \in WholeLines
      BY <1>1, <1>2
    <3>2. /\ Len(file) <= Len(file') /\ \A i \in 1 .. Len(file) : file[i] = file'[i]
      BY <1>1, <1>2, <3>1
    <3>3. IsPrefix(Numbers(file), Numbers(file'))
      BY <1>2, <1>7, <3>2, LogPrefix
    <3>4. /\ Numbers(file) \in Seq(Nat) /\ Numbers(file') \in Seq(Nat) /\ flushed \in Seq(Nat)
          /\ IsPrefix(flushed, Numbers(file))
      BY <1>1, <1>7, <2>2, NumbersOfLog DEF Journalled, Vouched, Shapes
    <3>5. IsPrefix(flushed, Numbers(file'))
      BY <3>3, <3>4, PrefixTrans
    <3>6. QED
      BY <1>1, <1>4, <2>2, <3>5 DEF Vouched
  <2>3. QED
    BY <2>1, <2>2
<1>12. QED
  BY <1>8, <1>9, <1>10, <1>11 DEF RecordInv

\* The drain goes on with the queue, or has nothing left to do.
LEMMA DrainTurnStep ==
    ASSUME RecordInv, drain.rest = <<>>, phase # "resuming", ~Opening,
           UNCHANGED <<file, failed, phase, sealed, mem, flusher, next, flushed>>,
           clear' = FALSE,
           \/ /\ ~failed /\ pending # <<>>
              /\ drain' = [pc |-> "open", clear |-> FALSE, rest |-> pending]
              /\ pending' = <<>>
           \/ /\ failed \/ pending = <<>>
              /\ \E pc \in {"idle", "settling"} : drain' = [NoBatch EXCEPT !.pc = pc]
              /\ pending' = pending
    PROVE  RecordInv'
<1>1. Shapes /\ Phases /\ Journalled /\ Vouched
  BY DEF RecordInv
<1>2. file \in Seq(WholeLines) /\ pending \in Seq(WholeLines) /\ <<>> \in Seq(WholeLines)
  BY <1>1 DEF Shapes
<1>3. /\ drain' \in [pc : Places, clear : BOOLEAN, rest : Seq(WholeLines)]
      /\ pending' \in Seq(WholeLines) /\ drain'.clear = FALSE
      /\ drain'.pc \in {"idle", "settling"} => drain'.rest = <<>>
      /\ drain'.pc = "open" => ~failed /\ pending # <<>>
      /\ drain'.pc # "write"
  <2>1. CASE ~failed /\ pending # <<>>
    <3>1. drain' = [pc |-> "open", clear |-> FALSE, rest |-> pending] /\ pending' = <<>>
      BY <2>1
    <3>2. QED
      BY <1>2, <2>1, <3>1 DEF Places
  <2>2. CASE failed \/ pending = <<>>
    <3>1. PICK pc \in {"idle", "settling"} : drain' = [NoBatch EXCEPT !.pc = pc]
      BY <2>2
    <3>2. /\ drain'.pc \in {"idle", "settling"} /\ drain'.clear = FALSE /\ drain'.rest = <<>>
          /\ drain' = [pc |-> drain'.pc, clear |-> FALSE, rest |-> <<>>]
      BY <3>1 DEF NoBatch
    <3>3. drain' \in [pc : Places, clear : BOOLEAN, rest : Seq(WholeLines)]
      BY <1>2, <3>2 DEF Places
    <3>4. pending' = pending
      BY <2>2
    <3>5. QED
      BY <1>2, <3>2, <3>3, <3>4
  <2>3. QED
    BY <2>1, <2>2
<1>4. Stream' = Stream
  <2>1. Stream = (file \o <<>>) \o pending
    BY DEF Stream
  <2>2. CASE drain'.rest = <<>> /\ pending' = pending
    BY <2>1, <2>2 DEF Stream
  <2>3. CASE drain'.rest = pending /\ pending' = <<>>
    <3>1. Stream' = (file \o pending) \o <<>>
      BY <2>3 DEF Stream
    <3>2. QED
      BY <1>2, <2>1, <3>1, TakeQueue
  <2>4. QED
    BY <2>2, <2>3 DEF NoBatch
<1>5. Shapes'
  BY <1>1, <1>3 DEF Shapes
<1>6. Phases'
  BY <1>1, <1>3 DEF Phases
<1>7. Journalled'
  BY <1>1, <1>3, <1>4 DEF Journalled, Opening
<1>8. Vouched'
  <2>1. CASE drain.clear
    <3>1. pending = <<>> /\ Numbers(Stream) = mem /\ IsPrefix(flushed, mem)
      BY <1>1, <2>1 DEF Phases, Journalled, Vouched
    <3>2. Stream = file
      BY <1>2, <3>1, TakeQueue DEF Stream
    <3>3. QED
      BY <1>3, <3>1, <3>2 DEF Vouched
  <2>2. CASE ~drain.clear
    BY <1>1, <1>3, <2>2 DEF Vouched
  <2>3. QED
    BY <2>1, <2>2
<1>9. QED
  BY <1>5, <1>6, <1>7, <1>8 DEF RecordInv

LEMMA BatchEndsStep ==
    ASSUME RecordInv, BatchEnds
    PROVE  RecordInv'
<1>1. /\ clear = FALSE /\ ~failed /\ phase # "resuming" /\ ~Opening
      /\ drain.pc = "write" /\ drain.rest = <<>>
      /\ UNCHANGED <<file, failed, phase, sealed, mem, flusher, next, flushed>>
  BY DEF RecordInv, Shapes, Phases, Opening, BatchEnds, service
<1>2. CASE pending # <<>>
  <2>1. /\ drain' = [pc |-> "open", clear |-> FALSE, rest |-> pending]
        /\ pending' = <<>> /\ clear' = FALSE
    BY <1>1, <1>2 DEF BatchEnds
  <2>2. QED
    BY <1>1, <1>2, <2>1, DrainTurnStep
<1>3. CASE pending = <<>>
  <2>1. /\ drain' = [NoBatch EXCEPT !.pc = "settling"]
        /\ pending' = pending /\ clear' = FALSE
    BY <1>1, <1>3 DEF BatchEnds
  <2>2. QED
    BY <1>1, <1>3, <2>1, DrainTurnStep
<1>4. QED
  BY <1>2, <1>3

LEMMA SettlesStep ==
    ASSUME RecordInv, Settles
    PROVE  RecordInv'
<1>1. /\ clear = FALSE /\ phase # "resuming" /\ ~Opening
      /\ drain.pc = "settling" /\ drain.rest = <<>>
      /\ UNCHANGED <<file, failed, phase, sealed, mem, flusher, next, flushed>>
  BY DEF RecordInv, Shapes, Phases, Opening, Settles, service
<1>2. CASE ~failed /\ pending # <<>>
  <2>1. /\ drain' = [pc |-> "open", clear |-> FALSE, rest |-> pending]
        /\ pending' = <<>> /\ clear' = FALSE
    BY <1>1, <1>2 DEF Settles
  <2>2. QED
    BY <1>1, <1>2, <2>1, DrainTurnStep
<1>3. CASE failed \/ pending = <<>>
  <2>1. drain' = NoBatch /\ pending' = pending /\ clear' = FALSE
    BY <1>1, <1>3 DEF Settles
  <2>2. drain' = [NoBatch EXCEPT !.pc = "idle"]
    BY <2>1 DEF NoBatch
  <2>3. QED
    BY <1>1, <1>3, <2>1, <2>2, DrainTurnStep
<1>4. QED
  BY <1>2, <1>3

LEMMA FailsStep ==
    ASSUME NothingCutInside, RecordInv, Fails
    PROVE  RecordInv'
<1>1. /\ Shapes /\ Phases /\ Journalled /\ Vouched
      /\ drain.pc \in {"open", "write"} /\ ~drain.clear
      /\ failed' = TRUE /\ drain' = [NoBatch EXCEPT !.pc = "settling"]
      /\ UNCHANGED <<file, pending, clear, phase, sealed, mem, flusher, next, flushed>>
  BY DEF RecordInv, Fails, CutShort, NothingCutInside
<1>2. /\ ~failed /\ phase \in {"new", "ready"}
      /\ drain'.pc = "settling" /\ drain'.rest = <<>> /\ drain'.clear = FALSE
  BY <1>1 DEF Shapes, Phases, NoBatch
<1>3. drain' \in [pc : Places, clear : BOOLEAN, rest : Seq(WholeLines)]
  <2>1. drain' = [pc |-> "settling", clear |-> FALSE, rest |-> <<>>]
    BY <1>1 DEF NoBatch
  <2>2. <<>> \in Seq(WholeLines)
    OBVIOUS
  <2>3. QED
    BY <2>1, <2>2 DEF Places
<1>4. Log(Stream) /\ Numbers(Stream) = mem
  BY <1>1, <1>2 DEF Journalled, Opening
<1>5. IsPrefix(Numbers(file), mem)
  BY <1>1, <1>4, LogParts DEF Shapes, Stream
<1>6. Shapes'
  BY <1>1, <1>3 DEF Shapes
<1>7. Phases'
  BY <1>1, <1>2 DEF Phases
<1>8. Journalled'
  BY <1>1, <1>2, <1>5 DEF Journalled, Opening
<1>9. Vouched'
  BY <1>1, <1>2 DEF Vouched
<1>10. QED
  BY <1>6, <1>7, <1>8, <1>9 DEF RecordInv

LEMMA CrashStep ==
    ASSUME NothingCutInside, RecordInv, Crash
    PROVE  RecordInv'
<1>1. /\ Shapes /\ Phases /\ Journalled /\ Vouched /\ ~drain.clear
      /\ pending' = <<>> /\ clear' = FALSE /\ drain' = NoBatch
      /\ failed' = FALSE /\ sealed' = FALSE /\ mem' = <<>> /\ phase' = "resuming"
      /\ flusher' = [f \in Flushers |-> "idle"]
      /\ UNCHANGED <<file, next, flushed>>
  BY DEF RecordInv, Crash, CutShort, NothingCutInside
<1>2. /\ drain'.pc = "idle" /\ drain'.rest = <<>> /\ drain'.clear = FALSE
      /\ drain' \in [pc : Places, clear : BOOLEAN, rest : Seq(WholeLines)]
  BY <1>1 DEF NoBatch, Places
<1>3. <<>> \in Seq(WholeLines) /\ <<>> \in Seq(Nat)
  OBVIOUS
<1>4. Shapes'
  BY <1>1, <1>2, <1>3 DEF Shapes
<1>5. Phases'
  BY <1>1, <1>2 DEF Phases
<1>6. Journalled'
  BY <1>1, <1>2 DEF Journalled, Opening
<1>7. Vouched'
  BY <1>1, <1>2 DEF Vouched
<1>8. QED
  BY <1>4, <1>5, <1>6, <1>7 DEF RecordInv

LEMMA FlushStep ==
    ASSUME RecordInv, NEW f \in Flushers, Flush(f)
    PROVE  RecordInv'
<1>1. /\ Shapes /\ Phases /\ Journalled /\ Vouched /\ phase \in {"new", "ready"}
      /\ flusher' = [flusher EXCEPT ![f] = IF failed THEN "threw" ELSE "waiting"]
      /\ UNCHANGED <<file, pending, clear, drain, failed, phase, sealed, mem, next, flushed>>
  BY DEF RecordInv, Flush, journal, service, Shapes
<1>2. Shapes' /\ Phases'
  BY <1>1 DEF Shapes, Phases
<1>3. Stream' = Stream
  BY <1>1 DEF Stream
<1>4. Journalled' /\ Vouched'
  BY <1>1, <1>3 DEF Journalled, Opening, Vouched
<1>5. QED
  BY <1>2, <1>4 DEF RecordInv

LEMMA FlushEndsStep ==
    ASSUME RecordInv, NEW f \in Flushers, FlushEnds(f)
    PROVE  RecordInv'
<1>1. /\ Shapes /\ Phases /\ Journalled /\ Vouched /\ phase \in {"new", "ready"}
      /\ \E v \in {"threw", "returned"} : flusher' = [flusher EXCEPT ![f] = v]
      /\ UNCHANGED <<file, pending, clear, drain, failed, phase, sealed, mem, next>>
      /\ flushed' = flushed \/ (~failed /\ Drained /\ flushed' = mem)
  BY DEF RecordInv, FlushEnds, journal, service, Shapes, Phases
<1>2. Stream' = Stream
  BY <1>1 DEF Stream
<1>3. Shapes' /\ Phases'
  BY <1>1 DEF Shapes, Phases
<1>4. Journalled'
  BY <1>1, <1>2 DEF Journalled, Opening
<1>5. Vouched'
  <2>1. CASE flushed' = flushed
    BY <1>1, <2>1 DEF Vouched
  <2>2. CASE ~failed /\ Drained /\ flushed' = mem
    <3>1. /\ drain.rest = <<>> /\ pending = <<>> /\ ~drain.clear
          /\ file \in Seq(WholeLines) /\ mem \in Seq(Nat)
      BY <1>1, <2>2 DEF Drained, Phases, Shapes
    <3>2. Stream = file
      BY <3>1, TakeQueue DEF Stream
    <3>3. Numbers(file) = mem
      BY <1>1, <2>2, <3>1, <3>2 DEF Journalled, Opening
    <3>4. QED
      BY <1>1, <2>2, <3>1, <3>3, PrefixRefl DEF Vouched
  <2>3. QED
    BY <1>1, <2>1, <2>2
<1>6. QED
  BY <1>3, <1>4, <1>5 DEF RecordInv

LEMMA RestoreReadsStep ==
    ASSUME RecordInv, RestoreReads
    PROVE  RecordInv'
<1>1. /\ Shapes /\ Phases /\ Journalled /\ Vouched /\ phase = "resuming"
      /\ drain.pc = "idle" /\ drain.rest = <<>> /\ ~drain.clear /\ pending = <<>>
      /\ ~failed /\ ~sealed
      /\ UNCHANGED <<file, failed, flusher, next, flushed>>
  BY DEF RecordInv, RestoreReads, Phases
<1>2. Recorded = Numbers(file) /\ Readable /\ Lines = file
  BY <1>1, FileIsWhole
<1>3. mem' = Numbers(file) /\ Log(file)
  BY <1>1, <1>2 DEF RestoreReads, Journalled
<1>4. mem' \in Seq(Nat) /\ \A i \in 1 .. Len(mem') : mem'[i] # 0
  <2>1. /\ mem' \in Seq(Nat) /\ Len(file) \in Nat
        /\ Len(mem') = IF file = <<>> THEN 0 ELSE Len(file) - 1
        /\ \A i \in Nat : 1 <= i /\ i < Len(file) => mem'[i] # 0
    BY <1>3, NumbersOfLog DEF Log
  <2>2. ASSUME NEW i \in 1 .. Len(mem') PROVE mem'[i] # 0
    BY <2>1
  <2>3. QED
    BY <2>1, <2>2
<1>5. IsPrefix(flushed, mem')
  BY <1>1, <1>3 DEF Vouched
<1>6. CASE Stale
  <2>1. /\ phase' = "restoring" /\ sealed' = sealed /\ pending' = <<>> /\ clear' = FALSE
        /\ drain' = [pc |-> "open", clear |-> TRUE, rest |-> Renewed]
    BY <1>1, <1>2, <1>6 DEF RestoreReads, Schedule
  <2>2. Log(Renewed) /\ Numbers(Renewed) = mem' /\ Renewed # <<>>
    BY <1>2, <1>3, <1>4, RenewedLog DEF Renewed
  <2>3. /\ drain'.pc = "open" /\ drain'.clear = TRUE /\ drain'.rest = Renewed
        /\ drain' \in [pc : Places, clear : BOOLEAN, rest : Seq(WholeLines)]
    BY <2>1, <2>2 DEF Places, Log
  <2>4. <<>> \in Seq(WholeLines)
    OBVIOUS
  <2>5. Shapes'
    BY <1>1, <1>4, <2>1, <2>3, <2>4 DEF Shapes
  <2>6. Phases'
    BY <1>1, <2>1, <2>3 DEF Phases
  <2>7. Journalled'
    BY <1>1, <1>3, <2>1, <2>2, <2>3 DEF Journalled, Opening
  <2>8. Vouched'
    BY <1>1, <1>5, <2>3 DEF Vouched
  <2>9. QED
    BY <2>5, <2>6, <2>7, <2>8 DEF RecordInv
<1>7. CASE ~Stale
  <2>1. phase' = "ready" /\ sealed' = TRUE /\ UNCHANGED <<pending, clear, drain>>
    BY <1>2, <1>7 DEF RestoreReads
  <2>2. file # <<>> /\ file \in Seq(WholeLines)
    BY <1>1, <1>2, <1>7 DEF Stale, Shapes
  <2>3. Stream' = file
    BY <1>1, <2>1, <2>2, TakeQueue DEF Stream
  <2>4. Shapes' /\ Phases'
    BY <1>1, <1>4, <2>1 DEF Shapes, Phases
  <2>5. Journalled'
    BY <1>1, <1>3, <2>1, <2>2, <2>3 DEF Journalled, Opening
  <2>6. Vouched'
    BY <1>1, <2>1 DEF Vouched
  <2>7. QED
    BY <2>4, <2>5, <2>6 DEF RecordInv
<1>8. QED
  BY <1>6, <1>7

LEMMA RestoreEndsStep ==
    ASSUME RecordInv, RestoreEnds
    PROVE  RecordInv'
<1>1. /\ Shapes /\ Phases /\ Journalled /\ Vouched /\ phase = "restoring"
      /\ ~failed /\ Drained /\ phase' = "ready" /\ sealed' = TRUE
      /\ UNCHANGED <<file, pending, clear, drain, failed, mem, flusher, next, flushed>>
  BY DEF RecordInv, RestoreEnds, journal, Phases
<1>2. drain.pc = "idle" /\ ~drain.clear
  BY <1>1 DEF Drained, Phases
<1>3. Stream' = Stream
  BY <1>1 DEF Stream
<1>4. Shapes' /\ Phases'
  BY <1>1, <1>2 DEF Shapes, Phases
<1>5. Journalled' /\ Vouched'
  BY <1>1, <1>2, <1>3 DEF Journalled, Opening, Vouched
<1>6. QED
  BY <1>4, <1>5 DEF RecordInv

LEMMA RecordInvHolds == NothingCutInside => (Spec => []RecordInv)
<1> SUFFICES ASSUME NothingCutInside PROVE Spec => []RecordInv
  OBVIOUS
<1>1. RecordInv /\ [Next]_vars => RecordInv'
  <2> SUFFICES ASSUME RecordInv, [Next]_vars PROVE RecordInv'
    OBVIOUS
  <2>1. CASE Dispatch
    BY <2>1, DispatchStep
  <2>2. CASE Drain
    BY <2>2, OpenStep, WriteLineStep, BatchEndsStep, SettlesStep DEF Drain
  <2>3. CASE Fails
    BY <2>3, FailsStep
  <2>4. CASE Crash
    BY <2>4, CrashStep
  <2>5. CASE Restore
    BY <2>5, RestoreReadsStep, RestoreEndsStep DEF Restore
  <2>6. ASSUME NEW f \in Flushers, Flush(f) \/ FlushEnds(f) PROVE RecordInv'
    BY <2>6, FlushStep, FlushEndsStep
  <2>7. CASE UNCHANGED vars
    BY <2>7 DEF vars, journal, service, RecordInv, Shapes, Phases, Journalled, Opening, Stream,
                Vouched
  <2>8. QED
    BY <2>1, <2>2, <2>3, <2>4, <2>5, <2>6, <2>7 DEF Next
<1>2. QED
  BY <1>1, InitRecordInv, PTL DEF Spec

-----------------------------------------------------------------------------
(* For any number of records, crashes and failures, the state and the        *)
(* journal never part, whatever is appended while a batch is written         *)
(* (persistence.ts, ensureFlush; wireService.ts, execute and restore).       *)
THEOREM JournalFollowsStateCorrect == NothingCutInside => (Spec => []JournalFollowsState)
BY RecordInvHolds, InvImpliesJournal, PTL

(* What a flush that returned has vouched for stays at the head of the file, *)
(* through failures, crashes and the rewrite by a newer version              *)
(* (persistence.ts, flush and drainBatch).                                   *)
THEOREM FlushedSurvivesCorrect == NothingCutInside => (Spec => []FlushedSurvives)
BY RecordInvHolds, InvImpliesFlushed, PTL
=============================================================================
