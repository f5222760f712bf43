------------------------- MODULE MediaStream_proofs -------------------------
(***************************************************************************)
(* What holds of a stream of the media server for every finite set of pad  *)
(* buffers and every set of user buffers.  First the dewarp driver, whose  *)
(* steps are steps of the stream: that it hands over whole pictures, that  *)
(* nothing is written to a picture afterwards, and that it is quiet when   *)
(* it has stopped.  Then the stream: that it keeps to what the driver and  *)
(* the output chain of the ISP ask of it, that a pad buffer has one holder *)
(* and none is lost, and that the pictures stay in order.                  *)
(***************************************************************************)
EXTENDS MediaStream, FiniteSetTheorems, SequenceTheorems, TLAPS

-----------------------------------------------------------------------------
(* The FIFOs and the list of the pad as sequences of different buffers.     *)

LEMMA DistinctEmpty ==
  ToSet(<<>>) = {} /\ IsInjective(<<>>)
BY DEF ToSet, IsInjective

LEMMA EmptyIfNone ==
  ASSUME NEW S, NEW q \in Seq(S), ToSet(q) = {}
  PROVE  q = <<>>
<1>1. q # <<>> => q[1] \in ToSet(q)
  BY DEF ToSet
<1> QED
  BY <1>1

LEMMA DistinctAppend ==
  ASSUME NEW S, NEW q \in Seq(S), NEW b \in S
  PROVE  /\ Append(q, b) \in Seq(S)
         /\ ToSet(Append(q, b)) = ToSet(q) \cup {b}
         /\ IsInjective(q) /\ b \notin ToSet(q) => IsInjective(Append(q, b))
<1>1. /\ Len(q) \in Nat /\ DOMAIN q = 1 .. Len(q)
      /\ Append(q, b) \in Seq(S) /\ DOMAIN Append(q, b) = 1 .. Len(q) + 1
      /\ Append(q, b)[Len(q) + 1] = b
      /\ \A i \in 1 .. Len(q) : Append(q, b)[i] = q[i]
  BY AppendProperties
<1>2. ToSet(Append(q, b)) = ToSet(q) \cup {b}
  <2>1. ASSUME NEW x \in ToSet(Append(q, b)) PROVE x \in ToSet(q) \cup {b}
    BY <1>1 DEF ToSet
  <2>2. ASSUME NEW x \in ToSet(q) PROVE x \in ToSet(Append(q, b))
    <3>1. PICK i \in 1 .. Len(q) : x = q[i]
      BY <1>1 DEF ToSet
    <3>2. i \in 1 .. Len(q) + 1 /\ x = Append(q, b)[i]
      BY <1>1, <3>1
    <3> QED
      BY <1>1, <3>2 DEF ToSet
  <2>3. b \in ToSet(Append(q, b))
    BY <1>1 DEF ToSet
  <2> QED
    BY <2>1, <2>2, <2>3
<1>3. ASSUME IsInjective(q), b \notin ToSet(q) PROVE IsInjective(Append(q, b))
  BY <1>1, <1>3 DEF IsInjective, ToSet
<1> QED
  BY <1>1, <1>2, <1>3

LEMMA DistinctTail ==
  ASSUME NEW S, NEW q \in Seq(S), q # <<>>
  PROVE  /\ Head(q) \in S /\ Tail(q) \in Seq(S)
         /\ Head(q) \in ToSet(q)
         /\ ToSet(q) = {Head(q)} \cup ToSet(Tail(q))
         /\ IsInjective(q) => IsInjective(Tail(q)) /\ Head(q) \notin ToSet(Tail(q))
<1>1. /\ Len(q) \in Nat /\ Len(q) >= 1 /\ Head(q) = q[1]
      /\ DOMAIN Tail(q) = 1 .. Len(q) - 1 /\ DOMAIN q = 1 .. Len(q)
      /\ Head(q) \in S /\ Tail(q) \in Seq(S)
      /\ \A i \in 1 .. Len(q) - 1 : Tail(q)[i] = q[i + 1]
  BY HeadTailProperties
<1>2. ToSet(q) = {Head(q)} \cup ToSet(Tail(q))
  <2>1. ASSUME NEW x \in ToSet(Tail(q)) PROVE x \in ToSet(q)
    <3>1. PICK i \in 1 .. Len(q) - 1 : x = q[i + 1]
      BY <1>1 DEF ToSet
    <3> QED
      BY <1>1, <3>1 DEF ToSet
  <2>2. ASSUME NEW x \in ToSet(q) PROVE x = Head(q) \/ x \in ToSet(Tail(q))
    <3>1. PICK i \in 1 .. Len(q) : x = q[i]
      BY <1>1 DEF ToSet
    <3>2. i # 1 => i - 1 \in 1 .. Len(q) - 1 /\ x = Tail(q)[i - 1]
      BY <1>1, <3>1
    <3> QED
      BY <1>1, <3>1, <3>2 DEF ToSet
  <2>3. Head(q) \in ToSet(q)
    BY <1>1 DEF ToSet
  <2> QED
    BY <2>1, <2>2, <2>3
<1>3. ASSUME IsInjective(q)
      PROVE  IsInjective(Tail(q)) /\ Head(q) \notin ToSet(Tail(q))
  BY <1>1, <1>3 DEF IsInjective, ToSet
<1> QED
  BY <1>1, <1>2, <1>3

(***************************************************************************)
(* What is left of a sequence when one position is taken out of it.        *)
(***************************************************************************)
LEMMA RemoveAtProperties ==
  ASSUME NEW S, NEW q \in Seq(S), NEW i \in 1 .. Len(q)
  PROVE  /\ RemoveAt(q, i) \in Seq(S) /\ Len(RemoveAt(q, i)) = Len(q) - 1
         /\ \A j \in 1 .. Len(q) - 1 :
              RemoveAt(q, i)[j] = IF j < i THEN q[j] ELSE q[j + 1]
<1> DEFINE a == SubSeq(q, 1, i - 1)
           z == SubSeq(q, i + 1, Len(q))
<1>0. Len(q) \in Nat /\ \A j \in 1 .. Len(q) : q[j] \in S
  OBVIOUS
<1>1. /\ a \in Seq(S) /\ Len(a) = i - 1
      /\ \A j \in 1 .. i - 1 : a[j] = q[j]
  <2>1. /\ a \in Seq(S) /\ Len(a) = (IF 1 <= i - 1 THEN (i - 1) - 1 + 1 ELSE 0)
        /\ \A j \in 1 .. (i - 1) - 1 + 1 : a[j] = q[1 + j - 1]
    BY <1>0, SubSeqProperties
  <2> HIDE DEF a
  <2> QED
    BY <1>0, <2>1
<1>2. /\ z \in Seq(S) /\ Len(z) = Len(q) - i
      /\ \A j \in 1 .. Len(q) - i : z[j] = q[i + j]
  <2>1. /\ z \in Seq(S) /\ Len(z) = (IF i + 1 <= Len(q) THEN Len(q) - (i + 1) + 1 ELSE 0)
        /\ \A j \in 1 .. Len(q) - (i + 1) + 1 : z[j] = q[(i + 1) + j - 1]
    BY <1>0, SubSeqProperties
  <2> HIDE DEF z
  <2> QED
    BY <1>0, <2>1
<1>3. RemoveAt(q, i) = a \o z
  BY DEF RemoveAt
<1> HIDE DEF a, z
<1>4. /\ a \o z \in Seq(S) /\ Len(a \o z) = Len(a) + Len(z)
      /\ \A j \in 1 .. Len(a) + Len(z) :
           (a \o z)[j] = IF j <= Len(a) THEN a[j] ELSE z[j - Len(a)]
  BY <1>1, <1>2, ConcatProperties
<1>5. ASSUME NEW j \in 1 .. Len(q) - 1
      PROVE  (a \o z)[j] = IF j < i THEN q[j] ELSE q[j + 1]
  <2>1. CASE j < i
    BY <1>0, <1>1, <1>2, <1>4, <2>1
  <2>2. CASE ~(j < i)
    <3>1. (a \o z)[j] = z[j - (i - 1)] /\ j - (i - 1) \in 1 .. Len(q) - i
      BY <1>0, <1>1, <1>2, <1>4, <2>2
    <3>2. z[j - (i - 1)] = q[i + (j - (i - 1))] /\ i + (j - (i - 1)) = j + 1
      BY <1>0, <1>2, <3>1
    <3> QED
      BY <2>2, <3>1, <3>2
  <2> QED
    BY <2>1, <2>2
<1> QED
  BY <1>0, <1>1, <1>2, <1>3, <1>4, <1>5

(***************************************************************************)
(* A buffer of the pad that is moved to the end of the list is still in it *)
(* once, with all the others.                                              *)
(***************************************************************************)
LEMMA MoveToEndProperties ==
  ASSUME pad \in Seq(Sources), IsInjective(pad), NEW b \in ToSet(pad)
  PROVE  /\ MoveToEnd(b) \in Seq(Sources) /\ IsInjective(MoveToEnd(b))
         /\ ToSet(MoveToEnd(b)) = ToSet(pad)
<1>0. Len(pad) \in Nat /\ DOMAIN pad = 1 .. Len(pad) /\ b \in Sources
  BY DEF ToSet
<1>1. PICK i \in 1 .. Len(pad) : pad[i] = b
  BY <1>0 DEF ToSet
<1> DEFINE p == RemoveAt(pad, i)
<1>2. MoveToEnd(b) = Append(p, b)
  <2> DEFINE I == {j \in 1 .. Len(pad) : pad[j] = b}
  <2>1. I = {i}
    BY <1>0, <1>1 DEF IsInjective
  <2>2. Min(I) = i
    BY <1>1, <2>1 DEF Min
  <2>3. SelectInSeq(pad, LAMBDA v : v = b) = i
    BY <2>1, <2>2 DEF SelectInSeq
  <2> QED
    BY <1>1, <2>3 DEF MoveToEnd, RemoveFirst
<1>3. /\ p \in Seq(Sources) /\ Len(p) = Len(pad) - 1
      /\ \A j \in 1 .. Len(pad) - 1 : p[j] = IF j < i THEN pad[j] ELSE pad[j + 1]
  BY RemoveAtProperties
<1> HIDE DEF p
<1>4. DOMAIN p = 1 .. Len(pad) - 1
  BY <1>3
<1>5. IsInjective(p) /\ b \notin ToSet(p)
  <2> DEFINE from(j) == IF j < i THEN j ELSE j + 1
  <2>1. \A j \in 1 .. Len(pad) - 1 : from(j) \in 1 .. Len(pad) /\ p[j] = pad[from(j)]
    BY <1>0, <1>3
  <2>2. \A j, k \in 1 .. Len(pad) - 1 : /\ from(j) = from(k) => j = k
                                        /\ from(j) # i
    BY <1>0
  <2> HIDE DEF from
  <2>3. \A j \in 1 .. Len(pad) - 1 : p[j] # b
    BY <1>0, <1>1, <2>1, <2>2 DEF IsInjective
  <2>4. \A j, k \in 1 .. Len(pad) - 1 : p[j] = p[k] => j = k
    BY <1>0, <2>1, <2>2 DEF IsInjective
  <2> QED
    BY <1>4, <2>3, <2>4 DEF IsInjective, ToSet
<1>6. ToSet(p) \cup {b} = ToSet(pad)
  <2>1. ASSUME NEW x \in ToSet(p) PROVE x \in ToSet(pad)
    <3>1. PICK j \in 1 .. Len(pad) - 1 : x = p[j]
      BY <1>4 DEF ToSet
    <3>2. x = pad[j] \/ x = pad[j + 1]
      BY <1>3, <3>1
    <3> QED
      BY <1>0, <3>1, <3>2 DEF ToSet
  <2>2. ASSUME NEW x \in ToSet(pad), x # b PROVE x \in ToSet(p)
    <3>1. PICK j \in 1 .. Len(pad) : x = pad[j]
      BY <1>0 DEF ToSet
    <3>2. CASE j < i
      <4>1. j \in 1 .. Len(pad) - 1 /\ p[j] = x
        BY <1>0, <1>3, <3>1, <3>2
      <4> QED
        BY <1>4, <4>1 DEF ToSet
    <3>3. CASE j > i
      <4>1. j - 1 \in 1 .. Len(pad) - 1 /\ p[j - 1] = x
        BY <1>0, <1>3, <3>1, <3>3
      <4> QED
        BY <1>4, <4>1 DEF ToSet
    <3> QED
      BY <1>1, <2>2, <3>1, <3>2, <3>3
  <2> QED
    BY <2>1, <2>2
<1>7. /\ Append(p, b) \in Seq(Sources) /\ ToSet(Append(p, b)) = ToSet(p) \cup {b}
      /\ IsInjective(Append(p, b))
  BY <1>0, <1>3, <1>5, DistinctAppend
<1> QED
  BY <1>2, <1>6, <1>7

(***************************************************************************)
(* The list in which a pad is given its buffers has each of them once.     *)
(***************************************************************************)
LEMMA PadFilled ==
  /\ SetToSeq(Sources) \in Seq(Sources) /\ IsInjective(SetToSeq(Sources))
  /\ ToSet(SetToSeq(Sources)) = Sources
<1> DEFINE n == Cardinality(Sources)
           s == SetToSeq(Sources)
<1>1. n \in Nat /\ ExistsBijection(1 .. n, Sources)
  BY MediaAssumption, FS_CardinalityType
<1>2. \E f \in [1 .. n -> Sources] : IsInjective(f)
  BY <1>1 DEF ExistsBijection, Bijection, Injection
<1>3. s \in [1 .. n -> Sources] /\ IsInjective(s)
  BY <1>2 DEF SetToSeq
<1>4. s \in Seq(Sources)
  BY <1>1, <1>3, SeqDef
<1>5. Cardinality(1 .. n) = n
  <2>1. 1 \in Int /\ n \in Int
    BY <1>1
  <2>2. Cardinality(1 .. n) = IF 1 > n THEN 0 ELSE n - 1 + 1
    BY <2>1, FS_Interval
  <2> QED
    BY <1>1, <2>2
<1>6. s \in Injection(1 .. n, Sources)
  BY <1>3 DEF Injection
<1>7. s \in Surjection(1 .. n, Sources)
  BY <1>5, <1>6, MediaAssumption, FS_Injection
<1>8. ToSet(s) = Sources
  BY <1>3, <1>7 DEF Surjection, ToSet
<1> QED
  BY <1>3, <1>4, <1>8

LEMMA HeadFirst ==
  ASSUME NEW S, NEW q \in Seq(S), q # <<>>
  PROVE  q = <<Head(q)>> \o Tail(q)
<1>1. /\ Len(q) \in Nat /\ Len(q) >= 1 /\ Head(q) = q[1] /\ Head(q) \in S
      /\ Tail(q) \in Seq(S) /\ Len(Tail(q)) = Len(q) - 1
      /\ \A i \in 1 .. Len(q) - 1 : Tail(q)[i] = q[i + 1]
  BY HeadTailProperties
<1> DEFINE h == <<Head(q)>>
<1>2. h \in Seq(S) /\ Len(h) = 1 /\ h[1] = q[1]
  BY <1>1
<1> HIDE DEF h
<1>3. /\ h \o Tail(q) \in Seq(S) /\ Len(h \o Tail(q)) = Len(q)
      /\ \A i \in 1 .. Len(q) :
           (h \o Tail(q))[i] = IF i <= 1 THEN h[i] ELSE Tail(q)[i - 1]
  <2>1. /\ h \o Tail(q) \in Seq(S) /\ Len(h \o Tail(q)) = Len(h) + Len(Tail(q))
        /\ \A i \in 1 .. Len(h) + Len(Tail(q)) :
             (h \o Tail(q))[i] = IF i <= Len(h) THEN h[i] ELSE Tail(q)[i - Len(h)]
    BY <1>1, <1>2, ConcatProperties
  <2>2. Len(h) + Len(Tail(q)) = Len(q)
    BY <1>1, <1>2
  <2> QED
    BY <1>2, <2>1, <2>2
<1>4. \A i \in 1 .. Len(q) : (h \o Tail(q))[i] = q[i]
  <2> SUFFICES ASSUME NEW i \in 1 .. Len(q) PROVE (h \o Tail(q))[i] = q[i]
    OBVIOUS
  <2>1. CASE i = 1
    BY <1>2, <1>3, <2>1
  <2>2. CASE i # 1
    <3>1. i - 1 \in 1 .. Len(q) - 1 /\ ~(i <= 1) /\ i - 1 + 1 = i
      BY <1>1, <2>2
    <3> QED
      BY <1>1, <1>3, <3>1
  <2> QED
    BY <2>1, <2>2
<1>5. h \o Tail(q) = q
  BY <1>3, <1>4, SeqEqual
<1> QED
  BY <1>5 DEF h

LEMMA TailOfFirst ==
  ASSUME NEW S, NEW q \in Seq(S), NEW x \in S
  PROVE  <<x>> \o q # <<>> /\ Tail(<<x>> \o q) = q
<1> DEFINE h == <<x>>
           z == h \o q
<1>1. h \in Seq(S) /\ Len(h) = 1 /\ Len(q) \in Nat
  OBVIOUS
<1> HIDE DEF h
<1>2. /\ z \in Seq(S) /\ Len(z) = 1 + Len(q)
      /\ \A i \in 1 .. 1 + Len(q) : z[i] = IF i <= 1 THEN h[i] ELSE q[i - 1]
  BY <1>1, ConcatProperties
<1> HIDE DEF z
<1>3. z # <<>>
  BY <1>1, <1>2
<1>4. /\ Tail(z) \in Seq(S) /\ Len(Tail(z)) = Len(q)
      /\ \A i \in 1 .. Len(q) : Tail(z)[i] = z[i + 1]
  <2>1. /\ Tail(z) \in Seq(S) /\ Len(Tail(z)) = Len(z) - 1
        /\ \A i \in 1 .. Len(Tail(z)) : Tail(z)[i] = z[i + 1]
    BY <1>2, <1>3, HeadTailProperties
  <2> QED
    BY <1>1, <1>2, <2>1
<1>5. \A i \in 1 .. Len(q) : Tail(z)[i] = q[i]
  <2> SUFFICES ASSUME NEW i \in 1 .. Len(q) PROVE Tail(z)[i] = q[i]
    OBVIOUS
  <2>1. i + 1 \in 1 .. 1 + Len(q) /\ ~(i + 1 <= 1) /\ (i + 1) - 1 = i
    BY <1>1
  <2> QED
    BY <1>2, <1>4, <2>1
<1>6. Tail(z) = q
  BY <1>4, <1>5, SeqEqual
<1> QED
  BY <1>3, <1>6 DEF h, z

LEMMA ConcatSet ==
  ASSUME NEW S, NEW s \in Seq(S), NEW t \in Seq(S)
  PROVE  ToSet(s \o t) \subseteq ToSet(s) \cup ToSet(t)
<1>1. /\ Len(s) \in Nat /\ Len(t) \in Nat
      /\ DOMAIN s = 1 .. Len(s) /\ DOMAIN t = 1 .. Len(t)
      /\ DOMAIN (s \o t) = 1 .. Len(s) + Len(t)
      /\ \A i \in 1 .. Len(s) + Len(t) :
           (s \o t)[i] = IF i <= Len(s) THEN s[i] ELSE t[i - Len(s)]
  BY ConcatProperties
<1>2. ASSUME NEW i \in 1 .. Len(s) + Len(t)
      PROVE  (s \o t)[i] \in ToSet(s) \cup ToSet(t)
  <2>1. CASE i <= Len(s)
    BY <1>1, <2>1 DEF ToSet
  <2>2. CASE ~(i <= Len(s))
    <3>1. i - Len(s) \in 1 .. Len(t)
      BY <1>1, <2>2
    <3> QED
      BY <1>1, <2>2, <3>1 DEF ToSet
  <2> QED
    BY <2>1, <2>2
<1> QED
  BY <1>1, <1>2 DEF ToSet

LEMMA CutTo ==
  ASSUME NEW S, NEW s \in Seq(S), NEW t \in Seq(S)
  PROVE  Len(s) \in 0 .. Len(s \o t) /\ SubSeq(s \o t, 1, Len(s)) = s
<1>1. Len(s) \in Nat /\ Len(t) \in Nat /\ Len(s \o t) = Len(s) + Len(t)
  BY ConcatProperties
<1>2. CASE Len(s) = 0
  <2>1. SubSeq(s \o t, 1, 0) = <<>>
    BY SubSeqEmpty
  <2>2. s = <<>>
    BY <1>2
  <2> QED
    BY <1>1, <2>1, <2>2
<1>3. CASE Len(s) # 0
  <2>1. 1 \in 1 .. Len(s) /\ Len(s) \in 1 .. Len(s)
    BY <1>1, <1>3
  <2>2. SubSeq(s \o t, 1, Len(s)) = SubSeq(s, 1, Len(s))
    BY <2>1, SubSeqOfConcat1
  <2>3. SubSeq(s, 1, Len(s)) = s
    BY SubSeqFull
  <2> QED
    BY <1>1, <2>2, <2>3
<1> QED
  BY <1>2, <1>3

LEMMA DropOne ==
  ASSUME NEW S, NEW s \in Seq(S), NEW t \in Seq(S), NEW x \in S
  PROVE  /\ Len(s) + 1 \in DOMAIN ((s \o <<x>>) \o t)
         /\ RemoveAt((s \o <<x>>) \o t, Len(s) + 1) = s \o t
<1> DEFINE m == <<x>>
           u == s \o m
           w == u \o t
           r == RemoveAt(w, Len(s) + 1)
<1>1. m \in Seq(S) /\ Len(m) = 1 /\ Len(s) \in Nat /\ Len(t) \in Nat
  OBVIOUS
<1> HIDE DEF m
<1>2. /\ u \in Seq(S) /\ Len(u) = Len(s) + 1
      /\ \A i \in 1 .. Len(s) + 1 : i <= Len(s) => u[i] = s[i]
  <2>1. /\ u \in Seq(S) /\ Len(u) = Len(s) + Len(m)
        /\ \A i \in 1 .. Len(s) + Len(m) :
             u[i] = IF i <= Len(s) THEN s[i] ELSE m[i - Len(s)]
    BY <1>1, ConcatProperties
  <2> HIDE DEF u
  <2> QED
    BY <1>1, <2>1
<1> HIDE DEF u
<1>3. /\ w \in Seq(S) /\ Len(w) = Len(s) + 1 + Len(t)
      /\ \A i \in 1 .. Len(s) + 1 + Len(t) :
           w[i] = IF i <= Len(s) + 1 THEN u[i] ELSE t[i - (Len(s) + 1)]
  <2>1. /\ w \in Seq(S) /\ Len(w) = Len(u) + Len(t)
        /\ \A i \in 1 .. Len(u) + Len(t) :
             w[i] = IF i <= Len(u) THEN u[i] ELSE t[i - Len(u)]
    BY <1>1, <1>2, ConcatProperties
  <2> HIDE DEF w
  <2> QED
    BY <1>2, <2>1
<1>4. /\ s \o t \in Seq(S) /\ Len(s \o t) = Len(s) + Len(t)
      /\ \A i \in 1 .. Len(s) + Len(t) :
           (s \o t)[i] = IF i <= Len(s) THEN s[i] ELSE t[i - Len(s)]
  BY ConcatProperties
<1> HIDE DEF w
<1>5. Len(s) + 1 \in 1 .. Len(w) /\ DOMAIN w = 1 .. Len(w)
  BY <1>1, <1>3
<1>6. /\ r \in Seq(S) /\ Len(r) = Len(w) - 1
      /\ \A i \in 1 .. Len(w) - 1 : r[i] = IF i < Len(s) + 1 THEN w[i] ELSE w[i + 1]
  BY <1>3, <1>5, RemoveAtProperties
<1> HIDE DEF r
<1>7. ASSUME NEW i \in 1 .. Len(s) + Len(t)
      PROVE  r[i] = (s \o t)[i]
  <2>1. i \in Nat /\ i \in 1 .. Len(w) - 1
    BY <1>1, <1>3
  <2>2. CASE i <= Len(s)
    <3>1. r[i] = w[i]
      BY <1>1, <1>6, <2>1, <2>2
    <3>2. w[i] = u[i]
      BY <1>1, <1>3, <2>2
    <3>3. u[i] = s[i]
      <4>1. i \in 1 .. Len(s) + 1
        BY <1>1, <2>2
      <4> QED
        BY <1>2, <2>2, <4>1
    <3> QED
      BY <1>4, <2>2, <3>1, <3>2, <3>3
  <2>3. CASE ~(i <= Len(s))
    <3>1. r[i] = w[i + 1]
      BY <1>1, <1>6, <2>1, <2>3
    <3>2. w[i + 1] = t[(i + 1) - (Len(s) + 1)]
      BY <1>1, <1>3, <2>3
    <3>3. (i + 1) - (Len(s) + 1) = i - Len(s)
      BY <1>1
    <3> QED
      BY <1>4, <2>3, <3>1, <3>2, <3>3
  <2> QED
    BY <2>2, <2>3
<1>8. Len(r) = Len(s \o t)
  BY <1>1, <1>3, <1>4, <1>6
<1>9. r = s \o t
  BY <1>1, <1>3, <1>4, <1>6, <1>7, <1>8, SeqEqual
<1> QED
  BY <1>5, <1>9 DEF m, u, w, r

-----------------------------------------------------------------------------
(* The driver.                                                              *)

Stopping == {"RUN", "STOPPING"}

(***************************************************************************)
(* Which threads there are in which mode.                                  *)
(***************************************************************************)
ThreadsMatchMode ==
  /\ mode \in {Stopped, Run, Stopping}
  /\ mode = Run => control = "idle" /\ request.at # "none"
  /\ mode = Stopping => control # "idle"
  /\ stream = "none" <=> mode = Stopped
  /\ mode = Stopped /\ control = "idle" => request.at = "none" /\ ~hw.busy
  /\ control = "joinStream" => request.at = "none"

(***************************************************************************)
(* A frame is in one place on its way from the hardware to the request     *)
(* thread: being processed, shown as done, seen by the stream thread, or   *)
(* posted; and it is there for a request that waits.  An interrupt that    *)
(* comes when the stream thread has gone is left in the hardware.          *)
(***************************************************************************)
FrameInOnePlace ==
  ~slow =>
    /\ request.at # "wait" => ~hw.busy /\ permits = 0 /\ stream # "post"
    /\ request.at # "wait" /\ hw.irq => stream = "none"
    /\ hw.busy => ~hw.irq /\ permits = 0 /\ stream # "post"
    /\ hw.irq => permits = 0
    /\ stream = "post" => hw.irq
    /\ permits <= 1

(***************************************************************************)
(* The picture of a frame that has left the hardware is complete.          *)
(***************************************************************************)
PictureDone ==
  ~slow =>
    /\ hw.busy => hw.dst = request.dst
    /\ request.at = "wait" /\ (hw.irq \/ permits > 0) => request.dst \in done
    /\ mode = Run /\ request.at \in {"ready", "available", "callback"}
         => request.dst \in done

(***************************************************************************)
(* However slow the hardware, at most one frame is on its way besides the  *)
(* one the request thread waits for.                                       *)
(***************************************************************************)
OnTheWay == IF stream = "post" \/ hw.busy \/ hw.irq THEN 1 ELSE 0

PermitsBounded ==
  permits + OnTheWay <= (IF request.at = "wait" THEN 2 ELSE 1)

(***************************************************************************)
(* The request thread never takes a buffer from an empty FIFO, and has two *)
(* buffers from then on.                                                   *)
(***************************************************************************)
BuffersHeld ==
  /\ request.at = "frame" => HasFrame
  /\ request.at \in {"wait", "ready", "available", "callback"}
       => request.src \in Sources /\ request.dst \in Targets
  /\ request.at = "available" => ready[request.port] # <<>>
  /\ hw.busy => hw.dst \in Targets

DriverInv ==
  /\ DriverTypeOK
  /\ ThreadsMatchMode
  /\ FrameInOnePlace
  /\ PictureDone
  /\ PermitsBounded
  /\ BuffersHeld
-----------------------------------------------------------------------------
(* Each step of the threads, of the hardware and of a caller that keeps to *)
(* Caller preserves the invariant.                                         *)

LEMMA JoinRequestStep ==
  ASSUME DriverInv, JoinRequest
  PROVE  DriverInv'
<1> USE DEF DriverInv, DriverTypeOK, JoinRequest, RequestAt, NoFrame, fifos, device
<1>1. DriverTypeOK'
  BY DewarpAssumption DEF Modes, Run, Stopped
<1>2. ThreadsMatchMode'
  BY DEF ThreadsMatchMode, Run, Stopped, Stopping
<1>3. FrameInOnePlace'
  BY DEF FrameInOnePlace, ThreadsMatchMode, Run, Stopped, Stopping
<1>4. PictureDone'
  BY DEF PictureDone, FrameInOnePlace, ThreadsMatchMode, Run, Stopped, Stopping
<1>5. PermitsBounded'
  BY DEF PermitsBounded, OnTheWay
<1>6. BuffersHeld'
  BY DEF BuffersHeld, HasFrame
<1> QED
  BY <1>1, <1>2, <1>3, <1>4, <1>5, <1>6

LEMMA JoinStreamStep ==
  ASSUME DriverInv, JoinStream
  PROVE  DriverInv'
<1> USE DEF DriverInv, DriverTypeOK, JoinStream, RequestAt, NoFrame, fifos, device
<1>1. DriverTypeOK'
  BY DewarpAssumption DEF Modes, Run, Stopped
<1>2. ThreadsMatchMode'
  BY DEF ThreadsMatchMode, Run, Stopped, Stopping
<1>3. FrameInOnePlace'
  BY DEF FrameInOnePlace, ThreadsMatchMode, Run, Stopped, Stopping
<1>4. PictureDone'
  BY DEF PictureDone, FrameInOnePlace, ThreadsMatchMode, Run, Stopped, Stopping
<1>5. PermitsBounded'
  BY DEF PermitsBounded, OnTheWay
<1>6. BuffersHeld'
  BY DEF BuffersHeld, HasFrame
<1> QED
  BY <1>1, <1>2, <1>3, <1>4, <1>5, <1>6

LEMMA RequestLoopStep ==
  ASSUME DriverInv, RequestLoop
  PROVE  DriverInv'
<1> USE DEF DriverInv, DriverTypeOK, RequestLoop, RequestAt, NoFrame, fifos, device
<1>1. DriverTypeOK'
  BY DewarpAssumption DEF Modes, Run, Stopped
<1>2. ThreadsMatchMode'
  BY DEF ThreadsMatchMode, Run, Stopped, Stopping
<1>3. FrameInOnePlace'
  BY DEF FrameInOnePlace, ThreadsMatchMode, Run, Stopped, Stopping
<1>4. PictureDone'
  BY DEF PictureDone, FrameInOnePlace, ThreadsMatchMode, Run, Stopped, Stopping
<1>5. PermitsBounded'
  BY DEF PermitsBounded, OnTheWay
<1>6. BuffersHeld'
  BY DEF BuffersHeld, HasFrame
<1> QED
  BY <1>1, <1>2, <1>3, <1>4, <1>5, <1>6

LEMMA RequestFrameStep ==
  ASSUME DriverInv, RequestFrame
  PROVE  DriverInv'
<1> USE DEF DriverInv, DriverTypeOK, RequestFrame, RequestAt, NoFrame, fifos, device
<1>a. /\ NextPort \in Ports /\ input[NextPort] # <<>> /\ output # <<>>
      /\ input[NextPort] \in Seq(Sources) /\ output \in Seq(Targets)
  BY DewarpAssumption DEF BuffersHeld, HasFrame, NextPort
<1>b. /\ Head(input[NextPort]) \in Sources /\ Tail(input[NextPort]) \in Seq(Sources)
      /\ Head(output) \in Targets /\ Tail(output) \in Seq(Targets)
  BY <1>a
<1> HIDE DEF RequestFrame, NextPort
<1>c. /\ request.at = "frame"
      /\ request' = [at |-> "wait", src |-> Head(input[NextPort]),
                     dst |-> Head(output), port |-> NextPort]
      /\ hw' = [busy |-> TRUE, dst |-> Head(output), irq |-> FALSE]
      /\ input' = [input EXCEPT ![NextPort] = Tail(@)] /\ output' = Tail(output)
      /\ done' = done \ {Head(output)}
      /\ UNCHANGED <<mode, ready, stream, control, permits, slow>>
  BY DEF RequestFrame
<1>1. DriverTypeOK'
  BY <1>a, <1>b, <1>c
<1>2. ThreadsMatchMode'
  BY <1>c DEF ThreadsMatchMode, Run, Stopped, Stopping
<1>3. FrameInOnePlace'
  BY <1>c DEF FrameInOnePlace
<1>4. PictureDone'
  BY <1>c DEF PictureDone, FrameInOnePlace
<1>5. PermitsBounded'
  BY <1>c DEF PermitsBounded, OnTheWay
<1>6. BuffersHeld'
  BY <1>b, <1>c DEF BuffersHeld
<1> QED
  BY <1>1, <1>2, <1>3, <1>4, <1>5, <1>6

LEMMA FrameDoneStep ==
  ASSUME DriverInv, FrameDone
  PROVE  DriverInv'
<1> USE DEF DriverInv, DriverTypeOK, FrameDone, RequestAt, NoFrame, fifos, device
<1>a. permits' \in 0 .. 2
  OBVIOUS
<1>1. DriverTypeOK'
  BY <1>a
<1>2. ThreadsMatchMode'
  BY DEF ThreadsMatchMode, Run, Stopped, Stopping
<1>3. FrameInOnePlace'
  BY DEF FrameInOnePlace, ThreadsMatchMode, Run, Stopped, Stopping
<1>4. PictureDone'
  BY DEF PictureDone, FrameInOnePlace, ThreadsMatchMode, Run, Stopped, Stopping
<1>5. PermitsBounded'
  BY DEF PermitsBounded, OnTheWay
<1>6. BuffersHeld'
  BY DEF BuffersHeld, HasFrame
<1> QED
  BY <1>1, <1>2, <1>3, <1>4, <1>5, <1>6

LEMMA FrameReadyStep ==
  ASSUME DriverInv, FrameReady
  PROVE  DriverInv'
<1> USE DEF DriverInv, DriverTypeOK, FrameReady, RequestAt, NoFrame, fifos, device
<1>a. /\ request.dst \in Targets /\ request.port \in Ports
      /\ ready[request.port] \in Seq(Targets)
  BY DEF BuffersHeld
<1>b. /\ Append(ready[request.port], request.dst) \in Seq(Targets)
      /\ Len(Append(ready[request.port], request.dst)) > 0
  BY <1>a
<1>c. ready' \in [Ports -> Seq(Targets)]
  BY <1>a, <1>b
<1>1. DriverTypeOK'
  BY <1>c
<1>2. ThreadsMatchMode'
  BY DEF ThreadsMatchMode, Run, Stopped, Stopping
<1>3. FrameInOnePlace'
  BY DEF FrameInOnePlace, ThreadsMatchMode, Run, Stopped, Stopping
<1>4. PictureDone'
  BY DEF PictureDone, FrameInOnePlace, ThreadsMatchMode, Run, Stopped, Stopping
<1>5. PermitsBounded'
  BY DEF PermitsBounded, OnTheWay
<1>6. BuffersHeld'
  BY <1>a, <1>b DEF BuffersHeld
<1> QED
  BY <1>1, <1>2, <1>3, <1>4, <1>5, <1>6

LEMMA FrameAvailableStep ==
  ASSUME DriverInv, FrameAvailable
  PROVE  DriverInv'
<1> USE DEF DriverInv, DriverTypeOK, FrameAvailable, RequestAt, NoFrame, fifos, device
<1>a. /\ request.port \in Ports
      /\ Tail(ready[request.port]) \in Seq(Targets)
  BY DEF BuffersHeld
<1>1. DriverTypeOK'
  BY <1>a
<1>2. ThreadsMatchMode'
  BY DEF ThreadsMatchMode, Run, Stopped, Stopping
<1>3. FrameInOnePlace'
  BY DEF FrameInOnePlace, ThreadsMatchMode, Run, Stopped, Stopping
<1>4. PictureDone'
  BY DEF PictureDone, FrameInOnePlace, ThreadsMatchMode, Run, Stopped, Stopping
<1>5. PermitsBounded'
  BY DEF PermitsBounded, OnTheWay
<1>6. BuffersHeld'
  BY DEF BuffersHeld, HasFrame
<1> QED
  BY <1>1, <1>2, <1>3, <1>4, <1>5, <1>6

LEMMA CallbackReturnsStep ==
  ASSUME DriverInv, CallbackReturns
  PROVE  DriverInv'
<1> USE DEF DriverInv, DriverTypeOK, CallbackReturns, RequestAt, NoFrame, fifos, device
<1>1. DriverTypeOK'
  BY DewarpAssumption DEF Modes, Run, Stopped
<1>2. ThreadsMatchMode'
  BY DEF ThreadsMatchMode, Run, Stopped, Stopping
<1>3. FrameInOnePlace'
  BY DEF FrameInOnePlace, ThreadsMatchMode, Run, Stopped, Stopping
<1>4. PictureDone'
  BY DEF PictureDone, FrameInOnePlace, ThreadsMatchMode, Run, Stopped, Stopping
<1>5. PermitsBounded'
  BY DEF PermitsBounded, OnTheWay
<1>6. BuffersHeld'
  BY DEF BuffersHeld, HasFrame
<1> QED
  BY <1>1, <1>2, <1>3, <1>4, <1>5, <1>6

LEMMA FrameTimeOutStep ==
  ASSUME DriverInv, FrameTimeOut
  PROVE  DriverInv'
<1> USE DEF DriverInv, DriverTypeOK, FrameTimeOut, RequestAt, NoFrame, fifos, device
<1>1. DriverTypeOK'
  BY DewarpAssumption DEF Modes, Run, Stopped
<1>2. ThreadsMatchMode'
  BY DEF ThreadsMatchMode, Run, Stopped, Stopping
<1>3. FrameInOnePlace'
  BY DEF FrameInOnePlace, ThreadsMatchMode, Run, Stopped, Stopping
<1>4. PictureDone'
  BY DEF PictureDone, FrameInOnePlace, ThreadsMatchMode, Run, Stopped, Stopping
<1>5. PermitsBounded'
  BY DEF PermitsBounded, OnTheWay
<1>6. BuffersHeld'
  BY DEF BuffersHeld, HasFrame
<1> QED
  BY <1>1, <1>2, <1>3, <1>4, <1>5, <1>6

LEMMA StreamPollStep ==
  ASSUME DriverInv, StreamPoll
  PROVE  DriverInv'
<1> USE DEF DriverInv, DriverTypeOK, StreamPoll, RequestAt, NoFrame, fifos, device
<1>1. DriverTypeOK'
  BY DewarpAssumption DEF Modes, Run, Stopped
<1>2. ThreadsMatchMode'
  BY DEF ThreadsMatchMode, Run, Stopped, Stopping
<1>3. FrameInOnePlace'
  BY DEF FrameInOnePlace, ThreadsMatchMode, Run, Stopped, Stopping
<1>4. PictureDone'
  BY DEF PictureDone, FrameInOnePlace, ThreadsMatchMode, Run, Stopped, Stopping
<1>5. PermitsBounded'
  BY DEF PermitsBounded, OnTheWay
<1>6. BuffersHeld'
  BY DEF BuffersHeld, HasFrame
<1> QED
  BY <1>1, <1>2, <1>3, <1>4, <1>5, <1>6

LEMMA StreamPostStep ==
  ASSUME DriverInv, StreamPost
  PROVE  DriverInv'
<1> USE DEF DriverInv, DriverTypeOK, StreamPost, RequestAt, NoFrame, fifos, device
<1>1. DriverTypeOK'
  BY DEF PermitsBounded, OnTheWay
<1>2. ThreadsMatchMode'
  BY DEF ThreadsMatchMode, Run, Stopped, Stopping
<1>3. FrameInOnePlace'
  BY DEF FrameInOnePlace, ThreadsMatchMode, Run, Stopped, Stopping
<1>4. PictureDone'
  BY DEF PictureDone, FrameInOnePlace, ThreadsMatchMode, Run, Stopped, Stopping
<1>5. PermitsBounded'
  BY DEF PermitsBounded, OnTheWay
<1>6. BuffersHeld'
  BY DEF BuffersHeld, HasFrame
<1> QED
  BY <1>1, <1>2, <1>3, <1>4, <1>5, <1>6

LEMMA StreamEndStep ==
  ASSUME DriverInv, StreamEnd
  PROVE  DriverInv'
<1> USE DEF DriverInv, DriverTypeOK, StreamEnd, RequestAt, NoFrame, fifos, device
<1>1. DriverTypeOK'
  BY DewarpAssumption DEF Modes, Run, Stopped
<1>2. ThreadsMatchMode'
  BY DEF ThreadsMatchMode, Run, Stopped, Stopping
<1>3. FrameInOnePlace'
  BY DEF FrameInOnePlace, ThreadsMatchMode, Run, Stopped, Stopping
<1>4. PictureDone'
  BY DEF PictureDone, FrameInOnePlace, ThreadsMatchMode, Run, Stopped, Stopping
<1>5. PermitsBounded'
  BY DEF PermitsBounded, OnTheWay
<1>6. BuffersHeld'
  BY DEF BuffersHeld, HasFrame
<1> QED
  BY <1>1, <1>2, <1>3, <1>4, <1>5, <1>6

LEMMA HwDoneStep ==
  ASSUME DriverInv, HwDone
  PROVE  DriverInv'
<1> USE DEF DriverInv, DriverTypeOK, HwDone, RequestAt, NoFrame, fifos, device
<1>1. DriverTypeOK'
  BY DEF BuffersHeld
<1>2. ThreadsMatchMode'
  BY DEF ThreadsMatchMode, Run, Stopped, Stopping
<1>3. FrameInOnePlace'
  BY DEF FrameInOnePlace, ThreadsMatchMode, Run, Stopped, Stopping
<1>4. PictureDone'
  BY DEF PictureDone, FrameInOnePlace, ThreadsMatchMode, Run, Stopped, Stopping
<1>5. PermitsBounded'
  BY DEF PermitsBounded, OnTheWay
<1>6. BuffersHeld'
  BY DEF BuffersHeld, HasFrame
<1> QED
  BY <1>1, <1>2, <1>3, <1>4, <1>5, <1>6

LEMMA StartThreadsStep ==
  ASSUME DriverInv, control = "idle", mode = Stopped, StartThreads
  PROVE  DriverInv'
<1> USE DEF DriverInv, DriverTypeOK, StartThreads, RequestAt, NoFrame, fifos, device
<1>a. /\ "RUN" \in Run /\ "RUN" \notin Stopped
      /\ "STOPPING" \in Stopping /\ "STOPPING" \notin Run
  BY DEF Run, Stopped, Stopping
<1>1. DriverTypeOK'
  BY DewarpAssumption DEF Modes, Run, Stopped
<1>2. ThreadsMatchMode'
  BY <1>a DEF ThreadsMatchMode
<1>3. FrameInOnePlace'
  BY DEF FrameInOnePlace, ThreadsMatchMode, Run, Stopped, Stopping
<1>4. PictureDone'
  BY DEF PictureDone, FrameInOnePlace, ThreadsMatchMode, Run, Stopped, Stopping
<1>5. PermitsBounded'
  BY DEF PermitsBounded, OnTheWay, ThreadsMatchMode
<1>6. BuffersHeld'
  BY DEF BuffersHeld, HasFrame
<1> QED
  BY <1>1, <1>2, <1>3, <1>4, <1>5, <1>6

LEMMA ClearStep ==
  ASSUME DriverInv, control = "idle", mode = Stopped, Clear
  PROVE  DriverInv'
<1> USE DEF DriverInv, DriverTypeOK, Clear, RequestAt, NoFrame, fifos, device
<1>1. DriverTypeOK'
  BY DewarpAssumption DEF Modes, Run, Stopped
<1>2. ThreadsMatchMode'
  BY DEF ThreadsMatchMode, Run, Stopped, Stopping
<1>3. FrameInOnePlace'
  BY DEF FrameInOnePlace, ThreadsMatchMode, Run, Stopped, Stopping
<1>4. PictureDone'
  BY DEF PictureDone, FrameInOnePlace, ThreadsMatchMode, Run, Stopped, Stopping
<1>5. PermitsBounded'
  BY DEF PermitsBounded, OnTheWay
<1>6. BuffersHeld'
  BY DEF BuffersHeld, ThreadsMatchMode
<1> QED
  BY <1>1, <1>2, <1>3, <1>4, <1>5, <1>6

LEMMA StopThreadsStep ==
  ASSUME DriverInv, control = "idle", mode = Run, StopThreads
  PROVE  DriverInv'
<1> USE DEF DriverInv, DriverTypeOK, StopThreads, RequestAt, NoFrame, fifos, device
<1>1. DriverTypeOK'
  BY DewarpAssumption DEF Modes, Run, Stopped
<1>2. ThreadsMatchMode'
  BY DEF ThreadsMatchMode, Run, Stopped, Stopping
<1>3. FrameInOnePlace'
  BY DEF FrameInOnePlace, ThreadsMatchMode, Run, Stopped, Stopping
<1>4. PictureDone'
  BY DEF PictureDone, FrameInOnePlace, ThreadsMatchMode, Run, Stopped, Stopping
<1>5. PermitsBounded'
  BY DEF PermitsBounded, OnTheWay
<1>6. BuffersHeld'
  BY DEF BuffersHeld, HasFrame
<1> QED
  BY <1>1, <1>2, <1>3, <1>4, <1>5, <1>6

LEMMA PushStep ==
  ASSUME NEW p \in Ports, NEW s \in Sources, DriverInv, Push(p, s)
  PROVE  DriverInv'
<1> USE DEF DriverInv, DriverTypeOK, Push, RequestAt, NoFrame, fifos, device
<1>1. DriverTypeOK'
  BY DewarpAssumption DEF Modes, Run, Stopped
<1>2. ThreadsMatchMode'
  BY DEF ThreadsMatchMode, Run, Stopped, Stopping
<1>3. FrameInOnePlace'
  BY DEF FrameInOnePlace, ThreadsMatchMode, Run, Stopped, Stopping
<1>4. PictureDone'
  BY DEF PictureDone, FrameInOnePlace, ThreadsMatchMode, Run, Stopped, Stopping
<1>5. PermitsBounded'
  BY DEF PermitsBounded, OnTheWay
<1>6. BuffersHeld'
  BY DEF BuffersHeld, HasFrame
<1> QED
  BY <1>1, <1>2, <1>3, <1>4, <1>5, <1>6

LEMMA PushTargetStep ==
  ASSUME NEW t \in Targets, DriverInv, PushTarget(t)
  PROVE  DriverInv'
<1> USE DEF DriverInv, DriverTypeOK, PushTarget, RequestAt, NoFrame, fifos, device
<1>1. DriverTypeOK'
  BY DewarpAssumption DEF Modes, Run, Stopped
<1>2. ThreadsMatchMode'
  BY DEF ThreadsMatchMode, Run, Stopped, Stopping
<1>3. FrameInOnePlace'
  BY DEF FrameInOnePlace, ThreadsMatchMode, Run, Stopped, Stopping
<1>4. PictureDone'
  BY DEF PictureDone, FrameInOnePlace, ThreadsMatchMode, Run, Stopped, Stopping
<1>5. PermitsBounded'
  BY DEF PermitsBounded, OnTheWay
<1>6. BuffersHeld'
  BY DEF BuffersHeld, HasFrame
<1> QED
  BY <1>1, <1>2, <1>3, <1>4, <1>5, <1>6

-----------------------------------------------------------------------------
LEMMA DriverInitHolds == DriverInit => DriverInv
<1> SUFFICES ASSUME DriverInit PROVE DriverInv
  OBVIOUS
<1> USE DEF DriverInit, RequestAt, NoFrame
<1>1. DriverTypeOK
  <2>1. mode \in Modes
    BY DEF Modes, Stopped
  <2>2. /\ input \in [Ports -> Seq(Sources)] /\ ready \in [Ports -> Seq(Targets)]
        /\ output \in Seq(Targets)
    OBVIOUS
  <2>3. 0 \in Ports
    BY DewarpAssumption
  <2>4. /\ stream \in {"none", "poll", "post"} /\ done \subseteq Targets
        /\ control \in {"idle", "joinRequest", "joinStream"}
        /\ permits \in 0 .. 2
    OBVIOUS
  <2>7. slow \in BOOLEAN
    OBVIOUS
  <2>5. hw \in [busy : BOOLEAN, dst : Targets \cup {NoBuffer}, irq : BOOLEAN]
    OBVIOUS
  <2> HIDE DEF DriverInit
  <2>6. request = RequestAt("none")
    BY DEF DriverInit
  <2> QED
    BY <2>1, <2>2, <2>3, <2>4, <2>5, <2>6, <2>7 DEF DriverTypeOK
<1>2. ThreadsMatchMode /\ FrameInOnePlace /\ PictureDone
  BY DEF ThreadsMatchMode, FrameInOnePlace, PictureDone, Run, Stopped, Stopping
<1>3. PermitsBounded /\ BuffersHeld
  BY DEF PermitsBounded, OnTheWay, BuffersHeld
<1> QED
  BY <1>1, <1>2, <1>3 DEF DriverInv

LEMMA DriverStutters ==
  ASSUME DriverInv, UNCHANGED driverVars
  PROVE  DriverInv'
<1> USE DEF DriverInv, driverVars, fifos, device
<1>1. DriverTypeOK'
  BY DEF DriverTypeOK
<1>2. ThreadsMatchMode' /\ FrameInOnePlace' /\ PictureDone'
  BY DEF ThreadsMatchMode, FrameInOnePlace, PictureDone
<1>3. PermitsBounded' /\ BuffersHeld'
  BY DEF PermitsBounded, OnTheWay, BuffersHeld, HasFrame
<1> QED
  BY <1>1, <1>2, <1>3

LEMMA CallerStep ==
  ASSUME DriverInv, Caller
  PROVE  DriverInv'
<1>1. CASE control = "idle" /\ mode = Stopped /\ StartThreads
  BY <1>1, StartThreadsStep
<1>2. CASE control = "idle" /\ mode = Stopped /\ Clear
  BY <1>2, ClearStep
<1>3. CASE control = "idle" /\ Stop
  <2>1. CASE mode = Run
    BY <1>3, <2>1, StopThreadsStep DEF Stop
  <2>2. CASE mode # Run
    BY <1>3, <2>2, DriverStutters DEF Stop
  <2> QED
    BY <2>1, <2>2
<1>4. CASE \E p \in Ports, s \in Sources : ~InUse(s) /\ Push(p, s)
  BY <1>4, PushStep
<1>5. CASE \E t \in Targets : ~InUse(t) /\ PushTarget(t)
  BY <1>5, PushTargetStep
<1> QED
  BY <1>1, <1>2, <1>3, <1>4, <1>5 DEF Caller

LEMMA DriverStepHolds == DriverInv /\ [DriverNext]_driverVars => DriverInv'
<1> SUFFICES ASSUME DriverInv, [DriverNext]_driverVars PROVE DriverInv'
  OBVIOUS
<1>1. CASE Joins
  BY <1>1, JoinRequestStep, JoinStreamStep DEF Joins
<1>2. CASE Request
  BY <1>2, RequestLoopStep, RequestFrameStep, FrameDoneStep, FrameReadyStep,
     FrameAvailableStep, CallbackReturnsStep DEF Request
<1>3. CASE FrameTimeOut
  BY <1>3, FrameTimeOutStep
<1>4. CASE Stream
  BY <1>4, StreamPollStep, StreamPostStep, StreamEndStep DEF Stream
<1>5. CASE HwDone
  BY <1>5, HwDoneStep
<1>6. CASE Caller
  BY <1>6, CallerStep
<1>7. CASE UNCHANGED driverVars
  BY <1>7, DriverStutters
<1> QED
  BY <1>1, <1>2, <1>3, <1>4, <1>5, <1>6, <1>7 DEF DriverNext

(***************************************************************************)
(* The inductive invariant holds in every state.                           *)
(***************************************************************************)
THEOREM DriverInvariance == DriverSpec => []DriverInv
<1> QED
  BY DriverInitHolds, DriverStepHolds, PTL DEF DriverSpec

(***************************************************************************)
(* The state is what its comments say; in particular frameDoneSignal never *)
(* holds more than two permits, however often a frame comes too late.      *)
(***************************************************************************)
THEOREM DriverTypeCorrect == DriverSpec => []DriverTypeOK
<1>1. DriverInv => DriverTypeOK
  BY DEF DriverInv
<1> QED
  BY <1>1, DriverInvariance, PTL

(***************************************************************************)
(* A running driver hands over complete pictures only, as long as no frame *)
(* has taken more than the 1000 ms: also after any number of stops, each   *)
(* of which may find the request thread waiting.                           *)
(***************************************************************************)
THEOREM PicturesWhole == DriverSpec => []WholePictures
<1>1. DriverInv => WholePictures
  BY DEF DriverInv, PictureDone, WholePictures
<1> QED
  BY <1>1, DriverInvariance, PTL

(***************************************************************************)
(* The hardware does not write to a target that was handed over, with the  *)
(* same reservation.                                                       *)
(***************************************************************************)
THEOREM NothingWrittenLate == DriverSpec => []NoWriteAfterHandover
<1>1. DriverInv => NoWriteAfterHandover
  BY DEF DriverInv, FrameInOnePlace, PictureDone, NoWriteAfterHandover
<1> QED
  BY <1>1, DriverInvariance, PTL

(***************************************************************************)
(* A driver that has stopped has no thread left, and its hardware is quiet.*)
(***************************************************************************)
THEOREM Stops == DriverSpec => []StopIsFinal
<1>1. DriverInv => StopIsFinal
  BY DEF DriverInv, ThreadsMatchMode, StopIsFinal
<1> QED
  BY <1>1, DriverInvariance, PTL

-----------------------------------------------------------------------------
(***************************************************************************)
(* The stream.  Where the handling of START and STOP has got to decides    *)
(* which threads there are and what the chain and the driver may hold.     *)
(***************************************************************************)
PhasesMatch ==
  /\ event = "idle" => sensorRunning = dewarpRunning
  /\ event \in {"startSensor", "joinSensor", "stopDewarp"}
       => dewarpRunning /\ ~sensorRunning
  /\ event = "joinDewarp" => ~dewarpRunning /\ ~sensorRunning /\ mode # Run
  /\ dewarpRunning => mode = Run
  /\ event # "joinDewarp" => control = "idle"
  /\ event = "idle" /\ ~dewarpRunning => mode = Stopped
  /\ chain <=> sensorRunning \/ event = "joinSensor"
  /\ loop.at # "none" => chain
  /\ ~chain => isp = {} /\ full = <<>>

(***************************************************************************)
(* What the threads have in their hands, by where they are.  Only port 0   *)
(* is connected.                                                           *)
(***************************************************************************)
HandsMatch ==
  /\ give.at # "none" <=> request.at = "callback"
  /\ give.buf # NoBuffer <=> give.at = "qbuf"
  /\ loop.buf # NoBuffer <=> loop.at \in {"run", "search"}
  /\ request.at \in {"none", "loop", "frame"}
       => request.src = NoBuffer /\ request.dst = NoBuffer
  /\ \A p \in Ports \ {0} : input[p] = <<>>

(***************************************************************************)
(* The pad has all its buffers while the dewarp runs, and while the sensor *)
(* runs none of them is free but the one the callback has just released.   *)
(***************************************************************************)
PadMatches ==
  /\ ToSet(pad) = IF event = "idle" /\ ~dewarpRunning THEN {} ELSE Sources
  /\ event = "startSensor"
       => free = Sources /\ input[0] = <<>> /\ request.src = NoBuffer
  /\ event = "idle" /\ ~dewarpRunning => input[0] = <<>>
  /\ sensorRunning /\ free # {} => give.at = "changed" /\ free = {request.src}

Reads(b) == Reading /\ b = request.src

(***************************************************************************)
(* No buffer is in two places, nor twice in a FIFO.                        *)
(***************************************************************************)
HeldOnce ==
  /\ IsInjective(full) /\ IsInjective(input[0])
  /\ \A b \in Sources :
       /\ b \in free => b \notin isp \cup ToSet(full) \cup ToSet(input[0])
                        /\ b \notin {loop.buf, give.buf} /\ ~Reads(b)
       /\ b \in isp => b \notin ToSet(full) \cup ToSet(input[0])
                       /\ b \notin {loop.buf, give.buf} /\ ~Reads(b)
       /\ b \in ToSet(full) => b \notin ToSet(input[0])
                               /\ b \notin {loop.buf, give.buf} /\ ~Reads(b)
       /\ b = loop.buf => b \notin ToSet(input[0]) /\ b # give.buf /\ ~Reads(b)
       /\ b \in ToSet(input[0]) => b # give.buf /\ ~Reads(b)
       /\ Reads(b) => b # give.buf

Somewhere(b) ==
  \/ b \in free \cup isp \cup ToSet(full) \cup ToSet(input[0])
  \/ b \in {loop.buf, give.buf}
  \/ Reads(b)

NoneLost == sensorRunning /\ ~missed => \A b \in Sources : Somewhere(b)

(***************************************************************************)
(* A buffer that has been taken from the attached chain has a new entry.   *)
(***************************************************************************)
EntriesCurrent ==
  chain => \A b \in Sources :
    b \in ToSet(input[0]) \/ b \in {loop.buf, request.src, give.buf}
      => known[b] = "current"

(***************************************************************************)
(* The user buffers the driver has are among those the kernel has queued.  *)
(***************************************************************************)
TargetsQueued ==
  /\ IsInjective(output) /\ ToSet(output) \subseteq queued
  /\ request.dst # NoBuffer => request.dst \in queued \ ToSet(output)

StreamInv ==
  /\ DriverInv
  /\ MediaTypeOK
  /\ PhasesMatch
  /\ HandsMatch
  /\ PadMatches
  /\ HeldOnce
  /\ NoneLost
  /\ EntriesCurrent
  /\ TargetsQueued

LEMMA StreamTypes ==
  ASSUME StreamInv
  PROVE  /\ 0 \in Ports /\ input \in [Ports -> Seq(Sources)] /\ input[0] \in Seq(Sources)
         /\ full \in Seq(Sources) /\ output \in Seq(Targets)
         /\ pad \in Seq(Sources) /\ IsInjective(pad)
         /\ loop.buf \in Sources \cup {NoBuffer}
         /\ give.buf \in Sources \cup {NoBuffer}
         /\ request.src \in Sources \cup {NoBuffer}
         /\ request.dst \in Targets \cup {NoBuffer}
         /\ NoBuffer \notin Sources /\ NoBuffer \notin Targets
         /\ Sources \cap Targets = {}
         /\ isp \subseteq Sources /\ free \subseteq Sources
         /\ ToSet(full) \subseteq Sources /\ ToSet(input[0]) \subseteq Sources
         /\ ToSet(output) \subseteq Targets
<1>1. 0 \in Ports
  BY DewarpAssumption
<1>2. \A S : \A q \in Seq(S) : ToSet(q) \subseteq S
  BY DEF ToSet
<1> QED
  BY <1>1, <1>2, DewarpAssumption, MediaAssumption
  DEF StreamInv, MediaTypeOK, DriverTypeOK

(***************************************************************************)
(* The driver's threads leave the buffers where they are until the request *)
(* thread takes the next two.                                              *)
(***************************************************************************)
LEMMA ThreadsKeep ==
  ASSUME StreamInv,
         RequestLoop \/ FrameDone \/ FrameReady \/ FrameTimeOut \/ Stream \/ Joins \/ HwDone
  PROVE  /\ UNCHANGED <<input, output>>
         /\ request'.src = request.src /\ request'.dst = request.dst
         /\ request'.at = "callback" <=> request.at = "callback"
         /\ request'.at \in {"none", "loop", "frame"}
              <=> request.at \in {"none", "loop", "frame"}
         /\ mode' = mode \/ (mode # Run /\ mode' = Stopped)
         /\ control = "idle" => control' = "idle"
<1>1. request.at \in {"none", "loop", "frame"}
        => request.src = NoBuffer /\ request.dst = NoBuffer
  BY DEF StreamInv, HandsMatch
<1>2. request \in [at : {"none", "loop", "frame", "wait", "ready", "available",
                         "callback"},
                   src : Sources \cup {NoBuffer}, dst : Targets \cup {NoBuffer},
                   port : Ports]
  BY DEF StreamInv, MediaTypeOK, DriverTypeOK
<1>3. CASE RequestLoop
  BY <1>1, <1>3 DEF RequestLoop, RequestAt, fifos
<1>4. CASE FrameDone \/ FrameReady \/ FrameTimeOut
  BY <1>2, <1>4 DEF FrameDone, FrameReady, FrameTimeOut, fifos
<1>5. CASE Stream \/ Joins \/ HwDone
  BY <1>5 DEF Stream, StreamPoll, StreamPost, StreamEnd, Joins, JoinRequest, JoinStream,
              HwDone, fifos
<1> QED
  BY <1>3, <1>4, <1>5

LEMMA ThreadsStep ==
  ASSUME StreamInv, DriverInv', UNCHANGED mediaVars,
         RequestLoop \/ FrameDone \/ FrameReady \/ FrameTimeOut \/ Stream \/ Joins \/ HwDone
  PROVE  StreamInv'
<1>a. /\ UNCHANGED <<input, output>>
      /\ request'.src = request.src /\ request'.dst = request.dst
      /\ request'.at = "callback" <=> request.at = "callback"
      /\ request'.at \in {"none", "loop", "frame"}
           <=> request.at \in {"none", "loop", "frame"}
      /\ mode' = mode \/ (mode # Run /\ mode' = Stopped)
      /\ control = "idle" => control' = "idle"
  BY ThreadsKeep
<1>b. UNCHANGED <<event, sensorRunning, dewarpRunning, loop, give, pad, free, known,
                  chain, isp, full, queued, missed>>
  BY DEF mediaVars, moduleVars, padVars, ispVars
<1> USE <1>a, <1>b DEF StreamInv
<1>1. MediaTypeOK'
  BY DEF MediaTypeOK, DriverInv
<1>2. PhasesMatch'
  BY DEF PhasesMatch, Run, Stopped
<1>3. HandsMatch' /\ PadMatches'
  BY DEF HandsMatch, PadMatches
<1>4. HeldOnce' /\ NoneLost'
  BY DEF HeldOnce, Reads, Reading, NoneLost, Somewhere
<1>5. EntriesCurrent' /\ TargetsQueued'
  BY DEF EntriesCurrent, TargetsQueued
<1> QED
  BY <1>1, <1>2, <1>3, <1>4, <1>5

(***************************************************************************)
(* The request thread takes the first source of port 0 and the first       *)
(* target.                                                                 *)
(***************************************************************************)
LEMMA FrameTakes ==
  ASSUME StreamInv, RequestFrame
  PROVE  /\ input[0] # <<>> /\ output # <<>> /\ request.at = "frame"
         /\ ~Reading /\ event # "startSensor" /\ give.at = "none"
         /\ input' = [input EXCEPT ![0] = Tail(@)] /\ output' = Tail(output)
         /\ request' = [at |-> "wait", src |-> Head(input[0]), dst |-> Head(output),
                        port |-> 0]
         /\ UNCHANGED <<mode, control>>
         /\ Head(input[0]) \in Sources /\ Head(output) \in Targets
<1>1. request.at = "frame" /\ request.src = NoBuffer
  BY DEF RequestFrame, StreamInv, HandsMatch
<1>2. HasFrame
  BY <1>1 DEF StreamInv, DriverInv, BuffersHeld
<1>3. input[0] # <<>> /\ output # <<>>
  BY <1>2 DEF HasFrame, StreamInv, HandsMatch
<1>4. NextPort = 0
  BY <1>3 DEF NextPort
<1>5. Head(input[0]) \in Sources /\ Head(output) \in Targets
  BY <1>3, StreamTypes, DistinctTail
<1> QED
  BY <1>1, <1>3, <1>4, <1>5 DEF RequestFrame, Reading, StreamInv, PadMatches, HandsMatch

LEMMA RequestFrameKeeps ==
  ASSUME StreamInv, DriverInv', UNCHANGED mediaVars, RequestFrame
  PROVE  StreamInv'
<1>a. /\ input[0] # <<>> /\ output # <<>> /\ request.at = "frame"
      /\ ~Reading /\ event # "startSensor" /\ give.at = "none"
      /\ input' = [input EXCEPT ![0] = Tail(@)] /\ output' = Tail(output)
      /\ request'.at = "wait" /\ request'.src = Head(input[0])
      /\ request'.dst = Head(output)
      /\ UNCHANGED <<mode, control>>
  BY FrameTakes
<1>b. UNCHANGED <<event, sensorRunning, dewarpRunning, loop, give, pad, free, known,
                  chain, isp, full, queued, missed>>
  BY DEF mediaVars, moduleVars, padVars, ispVars
<1>c. /\ Head(input[0]) \in Sources /\ ToSet(input[0]) = {Head(input[0])} \cup ToSet(input'[0])
      /\ IsInjective(input'[0]) /\ Head(input[0]) \notin ToSet(input'[0])
  BY <1>a, StreamTypes, DistinctTail DEF StreamInv, HeldOnce
<1>d. /\ Head(output) \in Targets /\ ToSet(output) = {Head(output)} \cup ToSet(output')
      /\ IsInjective(output') /\ Head(output) \notin ToSet(output')
  BY <1>a, StreamTypes, DistinctTail DEF StreamInv, TargetsQueued
<1>e. \A p \in Ports \ {0} : input'[p] = input[p]
  BY <1>a, StreamTypes
<1>f. Reading' /\ request'.src = Head(input[0])
  BY <1>a, <1>c, StreamTypes DEF Reading
<1> USE <1>a, <1>b DEF StreamInv
<1>1. MediaTypeOK'
  BY DEF MediaTypeOK, DriverInv
<1>2. PhasesMatch'
  BY DEF PhasesMatch
<1>3. HandsMatch' /\ PadMatches'
  BY <1>c, <1>e, StreamTypes DEF HandsMatch, PadMatches
<1>4. HeldOnce'
  BY <1>c, <1>f, StreamTypes DEF HeldOnce, Reads
<1>5. NoneLost'
  BY <1>c, <1>f DEF NoneLost, Somewhere, Reads
<1>6. EntriesCurrent'
  BY <1>c DEF EntriesCurrent
<1>7. TargetsQueued'
  BY <1>d DEF TargetsQueued
<1> QED
  BY <1>1, <1>2, <1>3, <1>4, <1>5, <1>6, <1>7

-----------------------------------------------------------------------------
(* START and STOP. *)

LEMMA StartDewarpStep ==
  ASSUME StreamInv, DriverInv', StartDewarp
  PROVE  StreamInv'
<1>a. /\ event = "idle" /\ ~dewarpRunning /\ ~sensorRunning /\ ~chain
      /\ loop.at = "none" /\ isp = {} /\ full = <<>> /\ input[0] = <<>>
      /\ mode = Stopped /\ control = "idle" /\ request.at = "none" /\ give.at = "none"
  BY DEF StartDewarp, StreamInv, PhasesMatch, PadMatches, DriverInv, ThreadsMatchMode,
         HandsMatch
<1>b. /\ mode' = Run /\ request' = RequestAt("loop") /\ UNCHANGED <<input, output, control>>
      /\ pad' = SetToSeq(Sources) /\ free' = Sources /\ dewarpRunning' = TRUE
      /\ event' = "startSensor"
      /\ UNCHANGED <<sensorRunning, loop, give, known, chain, isp, full, queued, missed>>
  BY DEF StartDewarp, StartThreads, fifos, ispVars
<1>c. request'.at = "loop" /\ request'.src = NoBuffer /\ request'.dst = NoBuffer
  BY <1>b DEF RequestAt
<1>d. loop.buf = NoBuffer /\ give.buf = NoBuffer /\ ToSet(full) = {} /\ ToSet(input[0]) = {}
  BY <1>a, DistinctEmpty DEF StreamInv, HandsMatch
<1> USE <1>a, <1>b, <1>c, <1>d DEF StreamInv
<1>1. MediaTypeOK'
  BY PadFilled DEF MediaTypeOK, DriverInv
<1>2. PhasesMatch'
  BY DEF PhasesMatch
<1>3. HandsMatch' /\ PadMatches'
  BY PadFilled DEF HandsMatch, PadMatches
<1>4. HeldOnce' /\ NoneLost'
  BY StreamTypes DEF HeldOnce, Reads, Reading, NoneLost
<1>5. EntriesCurrent' /\ TargetsQueued'
  BY DEF EntriesCurrent, TargetsQueued
<1> QED
  BY <1>1, <1>2, <1>3, <1>4, <1>5

LEMMA StartSensorStep ==
  ASSUME StreamInv, DriverInv', StartSensor
  PROVE  StreamInv'
<1>a. /\ event = "startSensor" /\ dewarpRunning /\ ~sensorRunning /\ ~chain
      /\ loop.at = "none" /\ isp = {} /\ full = <<>> /\ input[0] = <<>>
      /\ free = Sources /\ request.src = NoBuffer /\ control = "idle" /\ mode = Run
  BY DEF StartSensor, StreamInv, PhasesMatch, PadMatches
<1>b. /\ isp' = Sources /\ free' = {} /\ chain' = TRUE /\ sensorRunning' = TRUE
      /\ loop' = LoopWaiting /\ event' = "idle"
      /\ known' = [b \in Sources |-> IF known[b] = "none" THEN "none" ELSE "stale"]
      /\ UNCHANGED <<mode, control, input, output, request, dewarpRunning, give, pad, full,
                     queued, missed>>
  BY <1>a DEF StartSensor, driverVars, fifos
<1>c. loop' = [at |-> "wait", buf |-> NoBuffer, torn |-> FALSE]
  BY <1>b DEF LoopWaiting, NoLoop
<1>d. /\ ToSet(full) = {} /\ ToSet(input[0]) = {} /\ ~Reading /\ ~Reading'
  BY <1>a, <1>b, DistinctEmpty DEF Reading
<1>e. give.buf = NoBuffer
  BY <1>d, <1>a DEF StreamInv, HeldOnce, MediaTypeOK
<1>f. DriverTypeOK' /\ known' \in [Sources -> {"none", "stale", "current"}]
  BY <1>b DEF DriverInv
<1> USE <1>a, <1>c, <1>b, <1>d DEF StreamInv
<1>1. MediaTypeOK'
  BY <1>f, StreamTypes DEF MediaTypeOK
<1>2. PhasesMatch'
  BY DEF PhasesMatch
<1>3. HandsMatch' /\ PadMatches'
  BY DEF HandsMatch, PadMatches
<1>4. HeldOnce' /\ NoneLost'
  BY <1>e, StreamTypes, DistinctEmpty DEF HeldOnce, Reads, NoneLost, Somewhere
<1>5. EntriesCurrent' /\ TargetsQueued'
  BY <1>e, StreamTypes DEF EntriesCurrent, TargetsQueued
<1> QED
  BY <1>1, <1>2, <1>3, <1>4, <1>5

LEMMA StopSensorStep ==
  ASSUME StreamInv, DriverInv', StopSensor
  PROVE  StreamInv'
<1>b. /\ event = "idle" /\ sensorRunning /\ sensorRunning' = FALSE /\ event' = "joinSensor"
      /\ UNCHANGED <<mode, control, input, output, request, dewarpRunning, loop, give, pad,
                     free, known, chain, isp, full, queued, missed>>
  BY DEF StopSensor, driverVars, fifos, padVars, ispVars
<1> USE <1>b DEF StreamInv
<1>1. MediaTypeOK'
  BY DEF MediaTypeOK, DriverInv
<1>2. PhasesMatch'
  BY DEF PhasesMatch
<1>3. HandsMatch' /\ PadMatches'
  BY DEF HandsMatch, PadMatches, PhasesMatch
<1>4. HeldOnce' /\ NoneLost'
  BY DEF HeldOnce, Reads, Reading, NoneLost
<1>5. EntriesCurrent' /\ TargetsQueued'
  BY DEF EntriesCurrent, TargetsQueued
<1> QED
  BY <1>1, <1>2, <1>3, <1>4, <1>5

LEMMA SensorJoinedStep ==
  ASSUME StreamInv, DriverInv', SensorJoined
  PROVE  StreamInv'
<1>b. /\ event = "joinSensor" /\ loop.at = "none"
      /\ chain' = FALSE /\ isp' = {} /\ full' = <<>> /\ event' = "stopDewarp"
      /\ UNCHANGED <<mode, control, input, output, request, sensorRunning, dewarpRunning,
                     loop, give, pad, free, known, queued, missed>>
  BY DEF SensorJoined, driverVars, fifos, padVars
<1>c. ~sensorRunning /\ ToSet(full') = {} /\ IsInjective(full') /\ full' \in Seq(Sources)
  BY <1>b, DistinctEmpty DEF StreamInv, PhasesMatch
<1> USE <1>b, <1>c DEF StreamInv
<1>1. MediaTypeOK'
  BY DEF MediaTypeOK, DriverInv
<1>2. PhasesMatch'
  BY DEF PhasesMatch
<1>3. HandsMatch' /\ PadMatches'
  BY DEF HandsMatch, PadMatches
<1>4. HeldOnce' /\ NoneLost'
  BY DEF HeldOnce, Reads, Reading, NoneLost
<1>5. EntriesCurrent' /\ TargetsQueued'
  BY DEF EntriesCurrent, TargetsQueued
<1> QED
  BY <1>1, <1>2, <1>3, <1>4, <1>5

LEMMA StopDewarpStep ==
  ASSUME StreamInv, DriverInv', StopDewarp
  PROVE  StreamInv'
<1>a. event = "stopDewarp" /\ ~sensorRunning /\ ~chain /\ control = "idle" /\ dewarpRunning
      /\ mode = Run
  BY DEF StopDewarp, StreamInv, PhasesMatch
<1>b. /\ dewarpRunning' = FALSE /\ event' = "joinDewarp" /\ mode' = mode \cup {"STOPPING"}
      /\ UNCHANGED <<input, output, request, sensorRunning, loop, give, pad, free, known,
                     chain, isp, full, queued, missed>>
  BY <1>a DEF StopDewarp, Stop, StopThreads, fifos, padVars, ispVars
<1>c. mode' # Run
  BY <1>b DEF Run
<1> USE <1>a, <1>b, <1>c DEF StreamInv
<1>1. MediaTypeOK'
  BY DEF MediaTypeOK, DriverInv
<1>2. PhasesMatch'
  BY DEF PhasesMatch
<1>3. HandsMatch' /\ PadMatches'
  BY DEF HandsMatch, PadMatches
<1>4. HeldOnce' /\ NoneLost'
  BY DEF HeldOnce, Reads, Reading, NoneLost
<1>5. EntriesCurrent' /\ TargetsQueued'
  BY DEF EntriesCurrent, TargetsQueued
<1> QED
  BY <1>1, <1>2, <1>3, <1>4, <1>5

LEMMA DewarpStoppedStep ==
  ASSUME StreamInv, DriverInv', DewarpStopped
  PROVE  StreamInv'
<1>a. /\ event = "joinDewarp" /\ control = "idle" /\ ~dewarpRunning /\ ~sensorRunning
      /\ mode = Stopped /\ request.at = "none" /\ give.at = "none" /\ ~chain
  BY DEF DewarpStopped, StreamInv, PhasesMatch, DriverInv, ThreadsMatchMode, HandsMatch
<1>b. /\ input' = [p \in Ports |-> <<>>] /\ output' = <<>> /\ pad' = <<>> /\ free' = {}
      /\ queued' = {} /\ event' = "idle"
      /\ UNCHANGED <<mode, control, request, sensorRunning, dewarpRunning, loop, give,
                     known, chain, isp, full, missed>>
  BY DEF DewarpStopped, Clear, ispVars
<1>c. /\ request.src = NoBuffer /\ request.dst = NoBuffer
      /\ 0 \in Ports /\ input'[0] = <<>> /\ \A p \in Ports : input'[p] = <<>>
      /\ ToSet(input'[0]) = {} /\ IsInjective(input'[0])
  BY <1>a, <1>b, StreamTypes, DistinctEmpty DEF StreamInv, HandsMatch
<1>d. /\ ToSet(output') = {} /\ IsInjective(output') /\ ToSet(pad') = {}
      /\ IsInjective(pad') /\ pad' \in Seq(Sources)
  BY <1>b, DistinctEmpty
<1> USE <1>a, <1>b, <1>c, <1>d DEF StreamInv
<1>1. MediaTypeOK'
  BY DEF MediaTypeOK, DriverInv
<1>2. PhasesMatch'
  BY DEF PhasesMatch
<1>3. HandsMatch' /\ PadMatches'
  BY DEF HandsMatch, PadMatches
<1>4. HeldOnce' /\ NoneLost'
  BY DEF HeldOnce, Reads, Reading, NoneLost
<1>5. EntriesCurrent' /\ TargetsQueued'
  BY DEF EntriesCurrent, TargetsQueued
<1> QED
  BY <1>1, <1>2, <1>3, <1>4, <1>5

-----------------------------------------------------------------------------
(* The loop thread of the sensor. *)

LEMMA LoopWaitsStep ==
  ASSUME StreamInv, DriverInv', LoopEnd \/ LoopTests \/ LoopTimeOut
  PROVE  StreamInv'
<1>b. /\ loop.at \in {"wait", "event"}
      /\ \E l \in {"none", "wait", "event"} :
           loop' = [at |-> l, buf |-> NoBuffer, torn |-> FALSE]
      /\ UNCHANGED <<mode, control, input, output, request, event, sensorRunning,
                     dewarpRunning, give, pad, free, known, chain, isp, full, queued, missed>>
  BY DEF LoopEnd, LoopTests, LoopTimeOut, LoopWaiting, NoLoop, driverVars, fifos,
         moduleVars, padVars, ispVars
<1>c. /\ loop.buf = NoBuffer /\ loop'.buf = NoBuffer
      /\ loop'.at \in {"none", "wait", "event"}
      /\ loop' \in [at : {"none", "wait", "event", "run", "search"},
                    buf : Sources \cup {NoBuffer}, torn : BOOLEAN]
  BY <1>b DEF StreamInv, HandsMatch
<1> HIDE <1>b
<1>d. /\ loop.at \in {"wait", "event"}
      /\ UNCHANGED <<mode, control, input, output, request, event, sensorRunning,
                     dewarpRunning, give, pad, free, known, chain, isp, full, queued, missed>>
  BY <1>b
<1> USE <1>c, <1>d DEF StreamInv
<1>1. MediaTypeOK'
  BY DEF MediaTypeOK, DriverInv
<1>2. PhasesMatch'
  BY DEF PhasesMatch
<1>3. HandsMatch' /\ PadMatches'
  BY DEF HandsMatch, PadMatches
<1>4. HeldOnce'
  BY DEF HeldOnce, Reads, Reading
<1>5. NoneLost'
  <2>1. ASSUME NEW b \in Sources PROVE Somewhere(b)' <=> Somewhere(b)
    BY DEF Somewhere, Reads, Reading
  <2> QED
    BY <2>1 DEF NoneLost
<1>6. EntriesCurrent' /\ TargetsQueued'
  BY DEF EntriesCurrent, TargetsQueued
<1> QED
  BY <1>1, <1>2, <1>3, <1>4, <1>5, <1>6

LEMMA LoopTakesStep ==
  ASSUME StreamInv, DriverInv', LoopTakes
  PROVE  StreamInv'
<1>b. /\ loop.at = "event" /\ full # <<>>
      /\ full' = Tail(full) /\ known' = [known EXCEPT ![Head(full)] = "current"]
      /\ loop' = [LoopWaiting EXCEPT !.at = "run", !.buf = Head(full)]
      /\ UNCHANGED <<mode, control, input, output, request, event, sensorRunning,
                     dewarpRunning, give, pad, free, chain, isp, queued, missed>>
  BY DEF LoopTakes, driverVars, fifos, moduleVars, padVars
<1>c. loop' = [at |-> "run", buf |-> Head(full), torn |-> FALSE] /\ loop.buf = NoBuffer
  BY <1>b DEF LoopWaiting, NoLoop, StreamInv, HandsMatch
<1>d. /\ Head(full) \in Sources /\ Tail(full) \in Seq(Sources)
      /\ ToSet(full) = {Head(full)} \cup ToSet(full')
      /\ IsInjective(full') /\ Head(full) \notin ToSet(full')
  BY <1>b, StreamTypes, DistinctTail DEF StreamInv, HeldOnce
<1>e. known' \in [Sources -> {"none", "stale", "current"}]
  BY <1>b, <1>d DEF StreamInv, MediaTypeOK
<1>f. \A b \in Sources : known'[b] = IF b = Head(full) THEN "current" ELSE known[b]
  BY <1>b, <1>d DEF StreamInv, MediaTypeOK
<1>g. /\ loop.at = "event" /\ full # <<>> /\ full' = Tail(full)
      /\ UNCHANGED <<mode, control, input, output, request, event, sensorRunning,
                     dewarpRunning, give, pad, free, chain, isp, queued, missed>>
  BY <1>b
<1> USE <1>c, <1>d, <1>g DEF StreamInv
<1>1. MediaTypeOK'
  BY <1>e DEF MediaTypeOK, DriverInv
<1>2. PhasesMatch'
  BY DEF PhasesMatch
<1>3. HandsMatch' /\ PadMatches'
  BY StreamTypes DEF HandsMatch, PadMatches
<1>4. HeldOnce'
  BY StreamTypes DEF HeldOnce, Reads, Reading
<1>5. NoneLost'
  <2>1. Reading' = Reading
    BY DEF Reading
  <2>2. ASSUME NEW b \in Sources, Somewhere(b) PROVE Somewhere(b)'
    <3>1. Reads(b)' <=> Reads(b)
      BY <2>1 DEF Reads
    <3>2. b \in ToSet(full) => b \in ToSet(full') \/ b = loop'.buf
      OBVIOUS
    <3>3. b # loop.buf
      BY StreamTypes
    <3>4. /\ UNCHANGED <<free, isp, input, give>>
          /\ \/ b \in free \cup isp \cup ToSet(full) \cup ToSet(input[0])
             \/ b = give.buf \/ Reads(b)
      BY <2>2, <3>3 DEF Somewhere
    <3> HIDE <1>c, <1>d, <1>g
    <3> QED
      BY <3>1, <3>2, <3>4 DEF Somewhere
  <2> QED
    BY <2>2 DEF NoneLost
<1>6. EntriesCurrent' /\ TargetsQueued'
  BY <1>f DEF EntriesCurrent, TargetsQueued
<1> QED
  BY <1>1, <1>2, <1>3, <1>4, <1>5, <1>6

LEMMA LoopRunStep ==
  ASSUME StreamInv, DriverInv', LoopRun
  PROVE  StreamInv'
<1>b. /\ loop.at = "run" /\ loop' = (IF dewarpRunning THEN Searching(loop) ELSE LoopWaiting)
      /\ UNCHANGED <<mode, control, input, output, request, event, sensorRunning,
                     dewarpRunning, give, pad, free, known, chain, isp, full, queued,
                     missed>>
  BY DEF LoopRun, driverVars, fifos, moduleVars, padVars, ispVars
<1>c. dewarpRunning
  BY <1>b DEF StreamInv, PhasesMatch, MediaTypeOK
<1>d. /\ loop \in [at : {"none", "wait", "event", "run", "search"},
                   buf : Sources \cup {NoBuffer}, torn : BOOLEAN]
      /\ loop'.at = "search" /\ loop'.buf = loop.buf
      /\ loop' \in [at : {"none", "wait", "event", "run", "search"},
                    buf : Sources \cup {NoBuffer}, torn : BOOLEAN]
  BY <1>b, <1>c DEF Searching, StreamInv, MediaTypeOK
<1> HIDE <1>b
<1>e. /\ loop.at = "run"
      /\ UNCHANGED <<mode, control, input, output, request, event, sensorRunning,
                     dewarpRunning, give, pad, free, known, chain, isp, full, queued,
                     missed>>
  BY <1>b
<1> USE <1>d, <1>e DEF StreamInv
<1>1. MediaTypeOK'
  BY DEF MediaTypeOK, DriverInv
<1>2. PhasesMatch'
  BY DEF PhasesMatch
<1>3. HandsMatch' /\ PadMatches'
  BY DEF HandsMatch, PadMatches
<1>4. HeldOnce' /\ NoneLost'
  BY DEF HeldOnce, Reads, Reading, NoneLost, Somewhere
<1>5. EntriesCurrent' /\ TargetsQueued'
  BY DEF EntriesCurrent, TargetsQueued
<1> QED
  BY <1>1, <1>2, <1>3, <1>4, <1>5

(***************************************************************************)
(* While there is a picture in the loop thread or in the callback, all the *)
(* buffers are on the list of the pad.                                     *)
(***************************************************************************)
LEMMA LoopHolds ==
  ASSUME StreamInv, loop.at = "search"
  PROVE  /\ loop.buf \in Sources /\ ToSet(pad) = Sources /\ chain
         /\ event # "startSensor" /\ ~(event = "idle" /\ ~dewarpRunning)
         /\ loop.buf \notin free \cup isp \cup ToSet(full) \cup ToSet(input[0])
         /\ loop.buf # give.buf /\ ~Reads(loop.buf)
BY StreamTypes DEF StreamInv, HandsMatch, PadMatches, PhasesMatch, HeldOnce

LEMMA GiveHolds ==
  ASSUME StreamInv, give.at # "none"
  PROVE  /\ request.at = "callback" /\ request.src \in Sources /\ request.dst \in Targets
         /\ ToSet(pad) = Sources
         /\ event # "startSensor" /\ ~(event = "idle" /\ ~dewarpRunning)
<1>1. request.at = "callback"
  BY DEF StreamInv, HandsMatch
<1>2. request.src \in Sources /\ request.dst \in Targets
  BY <1>1 DEF StreamInv, DriverInv, BuffersHeld
<1>3. event # "startSensor" /\ ~(event = "idle" /\ ~dewarpRunning)
  BY <1>1, <1>2, StreamTypes
  DEF StreamInv, PhasesMatch, PadMatches, DriverInv, ThreadsMatchMode
<1> QED
  BY <1>1, <1>2, <1>3 DEF StreamInv, PadMatches

LEMMA LoopPushesStep ==
  ASSUME StreamInv, DriverInv', LoopPushes
  PROVE  StreamInv'
<1>a. loop.at = "search"
  BY DEF LoopPushes
<1>b. /\ pad' = MoveToEnd(loop.buf)
      /\ input' = [input EXCEPT ![0] = Append(@, loop.buf)]
      /\ give' = Torn(give) /\ loop' = LoopWaiting
      /\ UNCHANGED <<mode, control, output, request, event, sensorRunning, dewarpRunning,
                     free, known, chain, isp, full, queued, missed>>
  BY DEF LoopPushes, Push, moduleVars, ispVars
<1>c. loop' = [at |-> "wait", buf |-> NoBuffer, torn |-> FALSE]
  BY <1>b DEF LoopWaiting, NoLoop
<1>d. /\ loop.buf \in Sources /\ ToSet(pad) = Sources /\ chain
      /\ event # "startSensor" /\ ~(event = "idle" /\ ~dewarpRunning)
      /\ loop.buf \notin free \cup isp \cup ToSet(full) \cup ToSet(input[0])
      /\ loop.buf # give.buf /\ ~Reads(loop.buf)
  BY <1>a, LoopHolds
<1>e. /\ pad' \in Seq(Sources) /\ IsInjective(pad') /\ ToSet(pad') = ToSet(pad)
  BY <1>b, <1>d, StreamTypes, MoveToEndProperties
<1>f. /\ input'[0] = Append(input[0], loop.buf)
      /\ \A p \in Ports \ {0} : input'[p] = input[p]
  BY <1>b, StreamTypes
<1>g. ToSet(input'[0]) = ToSet(input[0]) \cup {loop.buf} /\ IsInjective(input'[0])
  BY <1>d, <1>f, StreamTypes, DistinctAppend DEF StreamInv, HeldOnce
<1>h. /\ give'.at = give.at /\ give'.buf = give.buf
      /\ give' \in [at : {"none", "search", "changed", "qbuf", "done"},
                    buf : Sources \cup {NoBuffer}, torn : BOOLEAN]
  BY <1>b DEF Torn, StreamInv, MediaTypeOK
<1>i. Reading' = Reading /\ \A b \in Sources : Reads(b)' = Reads(b)
  BY <1>b, <1>h DEF Reading, Reads
<1>j. UNCHANGED <<mode, control, output, request, event, sensorRunning, dewarpRunning,
                  free, known, chain, isp, full, queued, missed>>
  BY <1>b
<1> USE <1>a, <1>c, <1>d, <1>e, <1>f, <1>g, <1>h, <1>j DEF StreamInv
<1>1. MediaTypeOK'
  BY DEF MediaTypeOK, DriverInv
<1>2. PhasesMatch'
  BY DEF PhasesMatch
<1>3. HandsMatch' /\ PadMatches'
  BY DEF HandsMatch, PadMatches
<1>4. HeldOnce'
  BY <1>i, StreamTypes DEF HeldOnce
<1>5. NoneLost'
  BY <1>i DEF NoneLost, Somewhere
<1>6. EntriesCurrent' /\ TargetsQueued'
  BY StreamTypes DEF EntriesCurrent, TargetsQueued
<1> QED
  BY <1>1, <1>2, <1>3, <1>4, <1>5, <1>6

LEMMA LoopMissesStep ==
  ASSUME StreamInv, DriverInv', LoopMisses
  PROVE  StreamInv'
<1>b. /\ loop.at = "search" /\ loop' = LoopWaiting /\ missed' = TRUE
      /\ UNCHANGED <<mode, control, input, output, request, event, sensorRunning,
                     dewarpRunning, give, pad, free, known, chain, isp, full, queued>>
  BY DEF LoopMisses, driverVars, fifos, moduleVars, padVars, ispVars
<1>c. loop' = [at |-> "wait", buf |-> NoBuffer, torn |-> FALSE]
  BY <1>b DEF LoopWaiting, NoLoop
<1> USE <1>b, <1>c DEF StreamInv
<1>1. MediaTypeOK'
  BY DEF MediaTypeOK, DriverInv
<1>2. PhasesMatch'
  BY DEF PhasesMatch
<1>3. HandsMatch' /\ PadMatches'
  BY DEF HandsMatch, PadMatches
<1>4. HeldOnce' /\ NoneLost'
  BY StreamTypes DEF HeldOnce, Reads, Reading, NoneLost
<1>5. EntriesCurrent' /\ TargetsQueued'
  BY StreamTypes DEF EntriesCurrent, TargetsQueued
<1> QED
  BY <1>1, <1>2, <1>3, <1>4, <1>5

-----------------------------------------------------------------------------
(* The callback. *)

LEMMA GiveStartStep ==
  ASSUME StreamInv, DriverInv', GiveStart
  PROVE  StreamInv'
<1>b. /\ request.at = "available" /\ request' = [request EXCEPT !.at = "callback"]
      /\ give' = Searching(NoGive)
      /\ UNCHANGED <<mode, control, input, output, event, sensorRunning, dewarpRunning,
                     loop, pad, free, known, chain, isp, full, queued, missed>>
  BY DEF GiveStart, FrameAvailable, moduleVars, padVars, ispVars
<1>c. /\ give' = [at |-> "search", buf |-> NoBuffer, torn |-> FALSE]
      /\ give.at = "none" /\ give.buf = NoBuffer
  BY <1>b DEF Searching, NoGive, StreamInv, HandsMatch
<1>d. /\ request'.at = "callback" /\ request'.src = request.src
      /\ request'.dst = request.dst
  BY <1>b DEF StreamInv, MediaTypeOK, DriverTypeOK
<1>e. UNCHANGED <<mode, control, input, output, event, sensorRunning, dewarpRunning,
                  loop, pad, free, known, chain, isp, full, queued, missed>>
  BY <1>b
<1> USE <1>c, <1>d, <1>e DEF StreamInv
<1>1. MediaTypeOK'
  BY DEF MediaTypeOK, DriverInv
<1>2. PhasesMatch'
  BY DEF PhasesMatch
<1>3. HandsMatch' /\ PadMatches'
  BY DEF HandsMatch, PadMatches
<1>4. HeldOnce' /\ NoneLost'
  BY <1>b DEF HeldOnce, Reads, Reading, NoneLost, Somewhere
<1>5. EntriesCurrent' /\ TargetsQueued'
  BY DEF EntriesCurrent, TargetsQueued
<1> QED
  BY <1>1, <1>2, <1>3, <1>4, <1>5

LEMMA GiveReleasesStep ==
  ASSUME StreamInv, DriverInv', GiveReleases
  PROVE  StreamInv'
<1>b. /\ give.at = "search" /\ pad' = MoveToEnd(request.src)
      /\ free' = free \cup {request.src}
      /\ loop' = Torn(loop) /\ give' = [NoGive EXCEPT !.at = "changed"]
      /\ UNCHANGED <<mode, control, input, output, request, event, sensorRunning,
                     dewarpRunning, known, chain, isp, full, queued, missed>>
  BY DEF GiveReleases, driverVars, fifos, moduleVars, ispVars
<1>c. /\ give' = [at |-> "changed", buf |-> NoBuffer, torn |-> FALSE]
      /\ give.buf = NoBuffer
  BY <1>b DEF NoGive, StreamInv, HandsMatch
<1>d. /\ request.at = "callback" /\ request.src \in Sources /\ request.dst \in Targets
      /\ ToSet(pad) = Sources
      /\ event # "startSensor" /\ ~(event = "idle" /\ ~dewarpRunning)
  BY <1>b, GiveHolds
<1>e. /\ pad' \in Seq(Sources) /\ IsInjective(pad') /\ ToSet(pad') = ToSet(pad)
  BY <1>b, <1>d, StreamTypes, MoveToEndProperties
<1>f. /\ loop'.at = loop.at /\ loop'.buf = loop.buf
      /\ loop' \in [at : {"none", "wait", "event", "run", "search"},
                    buf : Sources \cup {NoBuffer}, torn : BOOLEAN]
  BY <1>b DEF Torn, StreamInv, MediaTypeOK
<1>g. Reads(request.src) /\ ~Reading' /\ \A b \in Sources : Reads(b) => b = request.src
  BY <1>b, <1>c, <1>d, StreamTypes DEF Reading, Reads
<1>h. /\ give.at = "search" /\ free' = free \cup {request.src}
      /\ UNCHANGED <<mode, control, input, output, request, event, sensorRunning,
                     dewarpRunning, known, chain, isp, full, queued, missed>>
  BY <1>b
<1> USE <1>c, <1>d, <1>e, <1>f, <1>h DEF StreamInv
<1>1. MediaTypeOK'
  BY DEF MediaTypeOK, DriverInv
<1>2. PhasesMatch'
  BY DEF PhasesMatch
<1>3. HandsMatch' /\ PadMatches'
  BY DEF HandsMatch, PadMatches
<1>4. HeldOnce'
  BY <1>g, StreamTypes DEF HeldOnce, Reads
<1>5. NoneLost'
  BY <1>g DEF NoneLost, Somewhere
<1>6. EntriesCurrent' /\ TargetsQueued'
  BY DEF EntriesCurrent, TargetsQueued
<1> QED
  BY <1>1, <1>2, <1>3, <1>4, <1>5, <1>6

LEMMA GiveMissesStep ==
  ASSUME StreamInv, DriverInv', GiveMisses
  PROVE  StreamInv'
<1>b. /\ give.at = "search" /\ give' = [NoGive EXCEPT !.at = "done"] /\ missed' = TRUE
      /\ UNCHANGED <<mode, control, input, output, request, event, sensorRunning,
                     dewarpRunning, loop, pad, free, known, chain, isp, full, queued>>
  BY DEF GiveMisses, driverVars, fifos, moduleVars, padVars, ispVars
<1>c. give' = [at |-> "done", buf |-> NoBuffer, torn |-> FALSE] /\ give.buf = NoBuffer
  BY <1>b DEF NoGive, StreamInv, HandsMatch
<1>d. request.at = "callback"
  BY <1>b, GiveHolds
<1>e. /\ give.at = "search" /\ missed' = TRUE
      /\ UNCHANGED <<mode, control, input, output, request, event, sensorRunning,
                     dewarpRunning, loop, pad, free, known, chain, isp, full, queued>>
  BY <1>b
<1> USE <1>e, <1>c, <1>d DEF StreamInv
<1>1. MediaTypeOK'
  BY DEF MediaTypeOK, DriverInv
<1>2. PhasesMatch'
  BY DEF PhasesMatch
<1>3. HandsMatch' /\ PadMatches'
  BY DEF HandsMatch, PadMatches
<1>4. HeldOnce' /\ NoneLost'
  BY DEF HeldOnce, Reads, Reading, NoneLost
<1>5. EntriesCurrent' /\ TargetsQueued'
  BY DEF EntriesCurrent, TargetsQueued
<1> QED
  BY <1>1, <1>2, <1>3, <1>4, <1>5

(***************************************************************************)
(* When only one buffer of the pad is free, that is the one dequeueBuffer  *)
(* finds.                                                                  *)
(***************************************************************************)
LEMMA OneFree ==
  ASSUME pad \in Seq(Sources), IsInjective(pad), NEW b \in ToSet(pad), free = {b}
  PROVE  FirstFree = b
<1> DEFINE First(i) == pad[i] \in free /\ \A j \in 1 .. i - 1 : pad[j] \notin free
<1>1. Len(pad) \in Nat /\ DOMAIN pad = 1 .. Len(pad)
  OBVIOUS
<1>2. PICK n \in DOMAIN pad : pad[n] = b
  BY DEF ToSet
<1>3. \A j \in 1 .. n - 1 : pad[j] # b
  BY <1>1, <1>2 DEF IsInjective
<1>4. First(n)
  BY <1>2, <1>3
<1>5. (CHOOSE i \in DOMAIN pad : First(i)) \in DOMAIN pad
      /\ First(CHOOSE i \in DOMAIN pad : First(i))
  <2> HIDE DEF First
  <2> QED
    BY <1>4
<1>6. pad[CHOOSE i \in DOMAIN pad : First(i)] = b
  BY <1>5
<1> QED
  BY <1>6 DEF FirstFree

(***************************************************************************)
(* While the sensor runs the callback takes the buffer it has released; it *)
(* has an entry of this stream.                                            *)
(***************************************************************************)
LEMMA ChangedTakes ==
  ASSUME StreamInv, GiveChanged
  PROVE  /\ sensorRunning /\ free # {} =>
              /\ free = {request.src} /\ FirstFree = request.src /\ free' = {}
              /\ give'.at = "qbuf" /\ give'.buf = request.src
              /\ known[request.src] = "current"
         /\ ~(sensorRunning /\ free # {}) =>
              give'.at = "done" /\ give'.buf = NoBuffer /\ free' = free
         /\ give' \in [at : {"none", "search", "changed", "qbuf", "done"},
                       buf : Sources \cup {NoBuffer}, torn : BOOLEAN]
<1>1. /\ give.at = "changed" /\ give.buf = NoBuffer
      /\ give \in [at : {"none", "search", "changed", "qbuf", "done"},
                   buf : Sources \cup {NoBuffer}, torn : BOOLEAN]
  BY DEF GiveChanged, StreamInv, HandsMatch, MediaTypeOK
<1>2. request.src \in Sources /\ ToSet(pad) = Sources
  BY <1>1, GiveHolds
<1>3. CASE sensorRunning /\ free # {}
  <2>1. free = {request.src} /\ chain
    BY <1>3 DEF StreamInv, PadMatches, PhasesMatch
  <2>2. FirstFree = request.src
    BY <1>2, <2>1, StreamTypes, OneFree
  <2>3. known[request.src] = "current"
    BY <1>2, <2>1 DEF StreamInv, EntriesCurrent
  <2>4. give' = [give EXCEPT !.at = "qbuf", !.buf = request.src] /\ free' = {}
    BY <1>3, <2>1, <2>2, <2>3 DEF GiveChanged
  <2> QED
    BY <1>1, <1>2, <1>3, <2>1, <2>2, <2>3, <2>4
<1>4. CASE ~(sensorRunning /\ free # {})
  BY <1>1, <1>4 DEF GiveChanged
<1> QED
  BY <1>3, <1>4

LEMMA GiveChangedStep ==
  ASSUME StreamInv, DriverInv', GiveChanged
  PROVE  StreamInv'
<1>b. /\ give.at = "changed"
      /\ UNCHANGED <<mode, control, input, output, request, event, sensorRunning,
                     dewarpRunning, loop, pad, known, chain, isp, full, queued, missed>>
  BY DEF GiveChanged, driverVars, fifos, moduleVars, ispVars
<1>c. /\ request.at = "callback" /\ request.src \in Sources
      /\ event # "startSensor" /\ ~(event = "idle" /\ ~dewarpRunning)
  BY <1>b, GiveHolds
<1>d. /\ sensorRunning /\ free # {} =>
           /\ free = {request.src} /\ free' = {}
           /\ give'.at = "qbuf" /\ give'.buf = request.src
           /\ known[request.src] = "current"
      /\ ~(sensorRunning /\ free # {}) =>
           give'.at = "done" /\ give'.buf = NoBuffer /\ free' = free
      /\ give' \in [at : {"none", "search", "changed", "qbuf", "done"},
                    buf : Sources \cup {NoBuffer}, torn : BOOLEAN]
  BY ChangedTakes
<1>e. give.buf = NoBuffer /\ ~Reading /\ ~Reading'
  BY <1>b, <1>c, <1>d DEF Reading, StreamInv, HandsMatch
<1> USE <1>b, <1>c, <1>d, <1>e DEF StreamInv
<1>1. MediaTypeOK'
  BY DEF MediaTypeOK, DriverInv
<1>2. PhasesMatch'
  BY DEF PhasesMatch
<1>3. HandsMatch' /\ PadMatches'
  BY StreamTypes DEF HandsMatch, PadMatches
<1>4. HeldOnce' /\ NoneLost'
  BY StreamTypes DEF HeldOnce, Reads, NoneLost, Somewhere
<1>5. EntriesCurrent' /\ TargetsQueued'
  BY StreamTypes DEF EntriesCurrent, TargetsQueued
<1> QED
  BY <1>1, <1>2, <1>3, <1>4, <1>5

LEMMA GiveQbufStep ==
  ASSUME StreamInv, DriverInv', GiveQbuf
  PROVE  StreamInv'
<1>b. /\ give.at = "qbuf" /\ isp' = (IF chain THEN isp \cup {give.buf} ELSE isp)
      /\ give' = [NoGive EXCEPT !.at = "done"]
      /\ UNCHANGED <<mode, control, input, output, request, event, sensorRunning,
                     dewarpRunning, loop, pad, free, known, chain, full, queued, missed>>
  BY DEF GiveQbuf, driverVars, fifos, moduleVars, padVars
<1>c. /\ give' = [at |-> "done", buf |-> NoBuffer, torn |-> FALSE]
      /\ give.buf \in Sources
  BY <1>b, StreamTypes DEF NoGive, StreamInv, HandsMatch
<1>d. request.at = "callback" /\ ~Reading /\ ~Reading'
  BY <1>b, <1>c, GiveHolds DEF Reading
<1>e. /\ give.at = "qbuf" /\ isp' = (IF chain THEN isp \cup {give.buf} ELSE isp)
      /\ UNCHANGED <<mode, control, input, output, request, event, sensorRunning,
                     dewarpRunning, loop, pad, free, known, chain, full, queued, missed>>
  BY <1>b
<1> USE <1>e, <1>c, <1>d DEF StreamInv
<1>1. MediaTypeOK'
  BY DEF MediaTypeOK, DriverInv
<1>2. PhasesMatch'
  BY DEF PhasesMatch
<1>3. HandsMatch' /\ PadMatches'
  BY DEF HandsMatch, PadMatches
<1>4. HeldOnce' /\ NoneLost'
  BY StreamTypes DEF HeldOnce, Reads, NoneLost, Somewhere, PhasesMatch
<1>5. EntriesCurrent' /\ TargetsQueued'
  BY StreamTypes DEF EntriesCurrent, TargetsQueued
<1> QED
  BY <1>1, <1>2, <1>3, <1>4, <1>5

LEMMA GiveDoneStep ==
  ASSUME StreamInv, DriverInv', GiveDone
  PROVE  StreamInv'
<1>b. /\ give.at = "done" /\ give' = NoGive /\ queued' = queued \ {request.dst}
      /\ request' = RequestAt("loop")
      /\ UNCHANGED <<mode, control, input, output, event, sensorRunning, dewarpRunning,
                     loop, pad, free, known, chain, isp, full, missed>>
  BY DEF GiveDone, CallbackReturns, fifos, moduleVars, padVars, ispVars
<1>c. /\ give' = [at |-> "none", buf |-> NoBuffer, torn |-> FALSE] /\ give.buf = NoBuffer
      /\ request'.at = "loop" /\ request'.src = NoBuffer /\ request'.dst = NoBuffer
  BY <1>b DEF NoGive, RequestAt, StreamInv, HandsMatch
<1>d. /\ request.at = "callback" /\ request.src \in Sources /\ request.dst \in Targets
      /\ event # "startSensor" /\ ~(event = "idle" /\ ~dewarpRunning)
      /\ ~Reading /\ ~Reading'
  BY <1>b, <1>c, GiveHolds DEF Reading
<1> USE <1>b, <1>c, <1>d DEF StreamInv
<1>1. MediaTypeOK'
  BY DEF MediaTypeOK, DriverInv
<1>2. PhasesMatch'
  BY DEF PhasesMatch
<1>3. HandsMatch' /\ PadMatches'
  BY DEF HandsMatch, PadMatches
<1>4. HeldOnce' /\ NoneLost'
  BY DEF HeldOnce, Reads, NoneLost, Somewhere
<1>5. EntriesCurrent' /\ TargetsQueued'
  BY StreamTypes DEF EntriesCurrent, TargetsQueued
<1> QED
  BY <1>1, <1>2, <1>3, <1>4, <1>5

-----------------------------------------------------------------------------
(* The user and the ISP. *)

LEMMA QueueBufferStep ==
  ASSUME StreamInv, DriverInv', QueueBuffer
  PROVE  StreamInv'
<1>a. PICK t \in Targets \ queued :
        /\ queued' = queued \cup {t} /\ output' = Append(output, t)
        /\ UNCHANGED <<mode, control, input, request, event, sensorRunning,
                       dewarpRunning, loop, give, pad, free, known, chain, isp, full,
                       missed>>
  BY DEF QueueBuffer, PushTarget, moduleVars, padVars, ispVars
<1>b. /\ t \in Targets /\ t \notin ToSet(output)
      /\ ToSet(output') = ToSet(output) \cup {t} /\ IsInjective(output')
  BY <1>a, StreamTypes, DistinctAppend DEF StreamInv, TargetsQueued
<1> USE <1>a, <1>b DEF StreamInv
<1>1. MediaTypeOK'
  BY DEF MediaTypeOK, DriverInv
<1>2. PhasesMatch'
  BY DEF PhasesMatch
<1>3. HandsMatch' /\ PadMatches'
  BY DEF HandsMatch, PadMatches
<1>4. HeldOnce' /\ NoneLost'
  BY DEF HeldOnce, Reads, Reading, NoneLost, Somewhere
<1>5. EntriesCurrent' /\ TargetsQueued'
  BY DEF EntriesCurrent, TargetsQueued
<1> QED
  BY <1>1, <1>2, <1>3, <1>4, <1>5

LEMMA IspFillsStep ==
  ASSUME StreamInv, DriverInv', IspFills
  PROVE  StreamInv'
<1>a. PICK b \in isp :
        /\ chain /\ isp' = isp \ {b} /\ full' = Append(full, b)
        /\ UNCHANGED <<mode, control, input, output, request, event, sensorRunning,
                       dewarpRunning, loop, give, pad, free, known, chain, queued, missed>>
  BY DEF IspFills, driverVars, fifos, moduleVars, padVars
<1>b. /\ b \in Sources /\ b \notin ToSet(full) /\ full' \in Seq(Sources)
      /\ ToSet(full') = ToSet(full) \cup {b} /\ IsInjective(full')
  BY <1>a, StreamTypes, DistinctAppend DEF StreamInv, HeldOnce
<1>c. full' # <<>>
  BY <1>b, DistinctEmpty
<1> USE <1>a, <1>b DEF StreamInv
<1>1. MediaTypeOK'
  BY DEF MediaTypeOK, DriverInv
<1>2. PhasesMatch'
  BY DEF PhasesMatch
<1>3. HandsMatch' /\ PadMatches'
  BY DEF HandsMatch, PadMatches
<1>4. HeldOnce' /\ NoneLost'
  BY DEF HeldOnce, Reads, Reading, NoneLost, Somewhere
<1>5. EntriesCurrent' /\ TargetsQueued'
  BY DEF EntriesCurrent, TargetsQueued
<1> QED
  BY <1>1, <1>2, <1>3, <1>4, <1>5

LEMMA StreamStutters ==
  ASSUME StreamInv, UNCHANGED vars
  PROVE  StreamInv'
<1>a. DriverInv'
  BY DriverStutters DEF StreamInv, vars
<1>b. UNCHANGED <<mode, control, input, output, request, event, sensorRunning,
                  dewarpRunning, loop, give, pad, free, known, chain, isp, full, queued,
                  missed>>
  BY DEF vars, mediaVars, driverVars, fifos, moduleVars, padVars, ispVars
<1> USE <1>a, <1>b DEF StreamInv
<1>1. MediaTypeOK'
  BY DEF MediaTypeOK, DriverInv
<1>2. PhasesMatch'
  BY DEF PhasesMatch
<1>3. HandsMatch' /\ PadMatches'
  BY DEF HandsMatch, PadMatches
<1>4. HeldOnce' /\ NoneLost'
  BY DEF HeldOnce, Reads, Reading, NoneLost, Somewhere
<1>5. EntriesCurrent' /\ TargetsQueued'
  BY DEF EntriesCurrent, TargetsQueued
<1> QED
  BY <1>1, <1>2, <1>3, <1>4, <1>5

-----------------------------------------------------------------------------
(***************************************************************************)
(* Seen through the driver's state a step of the stream is a step of the   *)
(* driver or of a caller that keeps to what the driver asks for.           *)
(***************************************************************************)
LEMMA DriverSees ==
  StreamInv /\ [MediaNext]_vars => [DriverNext]_driverVars
<1> SUFFICES ASSUME StreamInv, [MediaNext]_vars PROVE [DriverNext]_driverVars
  OBVIOUS
<1>1. CASE StartDewarp
  <2>1. mode = Stopped /\ control = "idle"
    BY <1>1 DEF StartDewarp, StreamInv, PhasesMatch
  <2> QED
    BY <1>1, <2>1 DEF StartDewarp, DriverNext, Caller
<1>2. CASE StartSensor \/ StopSensor \/ SensorJoined
  BY <1>2 DEF StartSensor, StopSensor, SensorJoined
<1>3. CASE StopDewarp
  <2>1. control = "idle"
    BY <1>3 DEF StopDewarp, StreamInv, PhasesMatch
  <2> QED
    BY <1>3, <2>1 DEF StopDewarp, DriverNext, Caller
<1>4. CASE DewarpStopped
  <2>1. mode = Stopped /\ control = "idle"
    BY <1>4 DEF DewarpStopped, StreamInv, PhasesMatch, DriverInv, ThreadsMatchMode
  <2> QED
    BY <1>4, <2>1 DEF DewarpStopped, DriverNext, Caller
<1>5. CASE LoopEnd \/ LoopTests \/ LoopTakes \/ LoopTimeOut \/ LoopRun \/ LoopMisses
  BY <1>5 DEF LoopEnd, LoopTests, LoopTakes, LoopTimeOut, LoopRun, LoopMisses
<1>6. CASE LoopPushes
  <2>1. loop.at = "search" /\ Push(0, loop.buf)
    BY <1>6 DEF LoopPushes
  <2>2. loop.buf \in Sources /\ loop.buf \notin ToSet(input[0]) /\ ~Reads(loop.buf)
    BY <2>1, LoopHolds
  <2>3. loop.buf # request.dst /\ loop.buf \notin ToSet(output)
    BY <2>2, StreamTypes
  <2>4. loop.buf # request.src \/ request.at = "callback"
    BY <2>2, StreamTypes DEF Reads, Reading
  <2>5. \A p \in Ports : loop.buf \notin ToSet(input[p])
    BY <2>2, DistinctEmpty DEF StreamInv, HandsMatch
  <2>6. ~InUse(loop.buf)
    BY <2>3, <2>4, <2>5 DEF InUse
  <2> QED
    BY <2>1, <2>2, <2>6, StreamTypes DEF DriverNext, Caller
<1>7. CASE GiveStart \/ GiveDone
  BY <1>7 DEF GiveStart, GiveDone, DriverNext, Request
<1>8. CASE GiveReleases \/ GiveMisses \/ GiveChanged \/ GiveQbuf
  BY <1>8 DEF GiveReleases, GiveMisses, GiveChanged, GiveQbuf
<1>9. CASE DriverThreads
  BY <1>9 DEF DriverThreads, DriverNext, Request
<1>10. CASE QueueBuffer
  <2>1. PICK t \in Targets \ queued : PushTarget(t)
    BY <1>10 DEF QueueBuffer
  <2>2. t # request.src /\ \A p \in Ports : t \notin ToSet(input[p])
    <3>1. \A p \in Ports : ToSet(input[p]) \subseteq Sources
      BY StreamTypes, DistinctEmpty DEF StreamInv, HandsMatch
    <3> QED
      BY <3>1, StreamTypes
  <2>3. t # request.dst /\ t \notin ToSet(output)
    BY <2>1, StreamTypes DEF StreamInv, TargetsQueued
  <2> QED
    BY <2>1, <2>2, <2>3 DEF DriverNext, Caller, InUse
<1>11. CASE IspFills
  BY <1>11 DEF IspFills
<1>12. CASE UNCHANGED vars
  BY <1>12 DEF vars
<1> QED
  BY <1>1, <1>2, <1>3, <1>4, <1>5, <1>6, <1>7, <1>8, <1>9, <1>10, <1>11, <1>12
  DEF MediaNext, Events, SensorLoop, Give

LEMMA StreamInitHolds == MediaInit => StreamInv
<1> SUFFICES ASSUME MediaInit PROVE StreamInv
  OBVIOUS
<1>1. DriverInv
  BY DriverInitHolds DEF MediaInit
<1>2. /\ 0 \in Ports /\ \A p \in Ports : input[p] = <<>>
      /\ output = <<>> /\ mode = Stopped /\ control = "idle"
      /\ request.at = "none" /\ request.src = NoBuffer /\ request.dst = NoBuffer
  BY DewarpAssumption DEF MediaInit, DriverInit, RequestAt
<1>3. /\ event = "idle" /\ sensorRunning = FALSE /\ dewarpRunning = FALSE
      /\ loop = [at |-> "none", buf |-> NoBuffer, torn |-> FALSE]
      /\ give = [at |-> "none", buf |-> NoBuffer, torn |-> FALSE]
      /\ pad = <<>> /\ free = {} /\ known = [b \in Sources |-> "none"]
      /\ chain = FALSE /\ isp = {} /\ full = <<>> /\ queued = {} /\ missed = FALSE
  BY DEF MediaInit, NoLoop, NoGive
<1> HIDE DEF MediaInit
<1> USE <1>1, <1>2, <1>3, DistinctEmpty
<1>4. MediaTypeOK
  <2>1. /\ event \in {"idle", "startSensor", "joinSensor", "stopDewarp", "joinDewarp"}
        /\ sensorRunning \in BOOLEAN /\ dewarpRunning \in BOOLEAN
        /\ chain \in BOOLEAN /\ missed \in BOOLEAN
    BY <1>3
  <2>4. /\ pad \in Seq(Sources) /\ full \in Seq(Sources) /\ IsInjective(pad)
        /\ free \subseteq ToSet(pad) /\ isp \subseteq Sources /\ queued \subseteq Targets
    <3>1. <<>> \in Seq(Sources)
      OBVIOUS
    <3> QED
      BY <1>3, <3>1, DistinctEmpty
  <2>2. /\ loop \in [at : {"none", "wait", "event", "run", "search"},
                     buf : Sources \cup {NoBuffer}, torn : BOOLEAN]
        /\ give \in [at : {"none", "search", "changed", "qbuf", "done"},
                     buf : Sources \cup {NoBuffer}, torn : BOOLEAN]
    <3> HIDE <1>1, <1>2, DistinctEmpty
    <3> QED
      BY <1>3
  <2>3. known \in [Sources -> {"none", "stale", "current"}]
    OBVIOUS
  <2> HIDE <1>2, <1>3
  <2> QED
    BY <2>1, <2>2, <2>3, <2>4 DEF MediaTypeOK, DriverInv
<1>5. PhasesMatch /\ HandsMatch /\ PadMatches
  BY DEF PhasesMatch, HandsMatch, PadMatches
<1>6. HeldOnce /\ NoneLost
  BY DewarpAssumption DEF HeldOnce, Reads, Reading, NoneLost
<1>7. EntriesCurrent /\ TargetsQueued
  BY DEF EntriesCurrent, TargetsQueued
<1> QED
  BY <1>4, <1>5, <1>6, <1>7 DEF StreamInv

LEMMA StreamStepHolds == StreamInv /\ [MediaNext]_vars => StreamInv'
<1> SUFFICES ASSUME StreamInv, [MediaNext]_vars PROVE StreamInv'
  OBVIOUS
<1>0. DriverInv'
  BY DriverSees, DriverStepHolds DEF StreamInv
<1>1. CASE StartDewarp
  BY <1>0, <1>1, StartDewarpStep
<1>2. CASE StopSensor
  BY <1>0, <1>2, StopSensorStep
<1>3. CASE Events
  BY <1>0, <1>3, StartSensorStep, SensorJoinedStep, StopDewarpStep, DewarpStoppedStep
  DEF Events
<1>4. CASE SensorLoop
  BY <1>0, <1>4, LoopWaitsStep, LoopTakesStep, LoopRunStep, LoopPushesStep, LoopMissesStep
  DEF SensorLoop
<1>5. CASE Give
  BY <1>0, <1>5, GiveStartStep, GiveReleasesStep, GiveMissesStep, GiveChangedStep,
     GiveQbufStep, GiveDoneStep DEF Give
<1>6. CASE DriverThreads
  BY <1>0, <1>6, ThreadsStep, RequestFrameKeeps DEF DriverThreads
<1>7. CASE QueueBuffer
  BY <1>0, <1>7, QueueBufferStep
<1>8. CASE IspFills
  BY <1>0, <1>8, IspFillsStep
<1>9. CASE UNCHANGED vars
  BY <1>9, StreamStutters
<1> QED
  BY <1>1, <1>2, <1>3, <1>4, <1>5, <1>6, <1>7, <1>8, <1>9 DEF MediaNext

(***************************************************************************)
(* The inductive invariant of the stream holds in every state.             *)
(***************************************************************************)
THEOREM StreamInvariance == MediaSpec => []StreamInv
<1> QED
  BY StreamInitHolds, StreamStepHolds, PTL DEF MediaSpec

(***************************************************************************)
(* The state of the stream is what its comments say; in particular the     *)
(* list of the pad never has a buffer twice, though two threads reorder it.*)
(***************************************************************************)
THEOREM StreamTypeCorrect == MediaSpec => []MediaTypeOK
<1>1. StreamInv => MediaTypeOK
  BY DEF StreamInv
<1> QED
  BY <1>1, StreamInvariance, PTL

(***************************************************************************)
(* The media server keeps to what the driver asks of its caller, so that   *)
(* what is proved of the driver holds in every stream.                     *)
(***************************************************************************)
THEOREM DriverUsedRight == MediaSpec => UsesDriver
<1>1. MediaInit => DriverInit
  BY DEF MediaInit
<1> QED
  BY <1>1, DriverSees, StreamInvariance, PTL DEF MediaSpec, UsesDriver, DriverSpec

(***************************************************************************)
(* What a running stream shows to the user are complete pictures.          *)
(***************************************************************************)
THEOREM StreamShowsWholePictures == MediaSpec => []WholePictures
BY DriverUsedRight, PicturesWhole, PTL DEF UsesDriver

LEMMA AtMostOne ==
  ASSUME NEW H, \A h, k \in H : h = k
  PROVE  Cardinality(H) <= 1
<1>1. CASE H = {}
  <2>1. Cardinality(H) = 0
    BY <1>1, FS_EmptySet
  <2> QED
    BY <2>1
<1>2. CASE H # {}
  <2>1. PICK h \in H : H = {h}
    BY <1>2
  <2>2. Cardinality(H) = 1
    BY <2>1, FS_Singleton
  <2> QED
    BY <2>2
<1> QED
  BY <1>1, <1>2

(***************************************************************************)
(* A pad buffer never has two holders, in whatever state a stop finds the  *)
(* threads.                                                                *)
(***************************************************************************)
THEOREM BuffersHeldOnce == MediaSpec => []OneHolder
<1>1. ASSUME StreamInv, NEW b \in Sources PROVE Cardinality(Holders(b)) <= 1
  <2>1. \A h, k \in Holders(b) : h = k
    BY <1>1 DEF Holders, StreamInv, HeldOnce, Reads
  <2> QED
    BY <2>1, AtMostOne
<1>2. StreamInv => OneHolder
  BY <1>1 DEF OneHolder
<1> QED
  BY <1>2, StreamInvariance, PTL

(***************************************************************************)
(* While the stream runs no pad buffer is lost or left on the pad, except  *)
(* by a search that missed it.                                             *)
(***************************************************************************)
THEOREM NoBufferLost == MediaSpec => []BuffersCirculate
<1>1. ASSUME StreamInv, event = "idle", sensorRunning, ~missed, NEW b \in Sources
      PROVE  Holders(b) # {} /\ (b \in free => give.at = "changed")
  <2>1. Somewhere(b)
    BY <1>1 DEF StreamInv, NoneLost
  <2>2. \E h \in {"pad", "isp", "full", "loop", "input", "request", "give"} :
          h \in Holders(b)
    BY <2>1 DEF Somewhere, Reads, Holders
  <2>3. b \in free => give.at = "changed"
    BY <1>1 DEF StreamInv, PadMatches
  <2> QED
    BY <2>2, <2>3
<1>2. StreamInv => BuffersCirculate
  BY <1>1 DEF BuffersCirculate
<1> QED
  BY <1>2, StreamInvariance, PTL

(***************************************************************************)
(* The ISP is never given an entry that an earlier stream has left behind. *)
(***************************************************************************)
THEOREM EntriesOfThisStream == MediaSpec => []NoStaleEntry
<1>1. StreamInv => NoStaleEntry
  BY StreamTypes DEF StreamInv, EntriesCurrent, HandsMatch, NoStaleEntry
<1> QED
  BY <1>1, StreamInvariance, PTL

-----------------------------------------------------------------------------
(***************************************************************************)
(* The stream and the output chain of the ISP.                             *)
(***************************************************************************)
LEMMA ChainSees ==
  StreamInv /\ [MediaNext]_vars => [Chain!ChainNext]_(Chain!chainVars)
<1> SUFFICES ASSUME StreamInv, [MediaNext]_vars
             PROVE  [Chain!ChainNext]_(Chain!chainVars)
  OBVIOUS
<1>1. CASE StartSensor
  <2>1. /\ ~chain /\ full = <<>> /\ free \subseteq Sources
        /\ chain' = TRUE /\ isp' = free /\ full' = full
    BY <1>1, StreamTypes DEF StartSensor, StreamInv, PhasesMatch
  <2> QED
    BY <2>1 DEF Chain!ChainNext, Chain!Attach
<1>2. CASE SensorJoined
  <2>1. chain /\ chain' = FALSE /\ isp' = {} /\ full' = <<>>
    BY <1>2 DEF SensorJoined, StreamInv, PhasesMatch
  <2> QED
    BY <2>1 DEF Chain!ChainNext, Chain!Detach
<1>3. CASE LoopTakes
  BY <1>3 DEF LoopTakes, Chain!ChainNext, Chain!Take
<1>4. CASE GiveQbuf
  <2>1. CASE chain
    <3>1. give.at = "qbuf" /\ isp' = isp \cup {give.buf} /\ UNCHANGED <<chain, full>>
      BY <1>4, <2>1 DEF GiveQbuf
    <3>2. give.buf \in Sources /\ give.buf \notin isp /\ give.buf \notin ToSet(full)
      BY <3>1, StreamTypes DEF StreamInv, HandsMatch, HeldOnce
    <3>3. give.buf \in Sources \ (isp \cup ToSet(full))
      BY <3>2
    <3>4. Chain!Give
      BY <2>1, <3>1, <3>3 DEF Chain!Give, Chain!ToSet, ToSet
    <3> QED
      BY <3>4 DEF Chain!ChainNext
  <2>2. CASE ~chain
    BY <1>4, <2>2 DEF GiveQbuf, Chain!chainVars
  <2> QED
    BY <2>1, <2>2
<1>5. CASE IspFills
  BY <1>5 DEF IspFills, Chain!ChainNext, Chain!Fill
<1>6. CASE StartDewarp \/ StopSensor \/ StopDewarp \/ DewarpStopped \/ QueueBuffer
  BY <1>6 DEF StartDewarp, StopSensor, StopDewarp, DewarpStopped, QueueBuffer, ispVars,
              Chain!chainVars
<1>7. CASE LoopEnd \/ LoopTests \/ LoopTimeOut \/ LoopRun \/ LoopPushes \/ LoopMisses
  BY <1>7 DEF LoopEnd, LoopTests, LoopTimeOut, LoopRun, LoopPushes, LoopMisses, ispVars,
              Chain!chainVars
<1>8. CASE GiveStart \/ GiveReleases \/ GiveMisses \/ GiveChanged \/ GiveDone
  BY <1>8 DEF GiveStart, GiveReleases, GiveMisses, GiveChanged, GiveDone, ispVars,
              Chain!chainVars
<1>9. CASE DriverThreads \/ UNCHANGED vars
  BY <1>9 DEF DriverThreads, vars, mediaVars, ispVars, Chain!chainVars
<1> QED
  BY <1>1, <1>2, <1>3, <1>4, <1>5, <1>6, <1>7, <1>8, <1>9
  DEF MediaNext, Events, SensorLoop, Give

(***************************************************************************)
(* A buffer goes back to the chain only when it was taken from it, and     *)
(* only while the chain is attached.                                       *)
(***************************************************************************)
THEOREM ChainUsedRight == MediaSpec => UsesChain
<1>1. MediaInit => Chain!ChainInit
  BY DEF MediaInit, Chain!ChainInit
<1> QED
  BY <1>1, ChainSees, StreamInvariance, PTL DEF MediaSpec, UsesChain, Chain!ChainSpec

-----------------------------------------------------------------------------
(* The pictures under way as one sequence. *)

ReadNow == IF Reading THEN <<request.src>> ELSE <<>>
TakenNow == IF loop.buf # NoBuffer THEN <<loop.buf>> ELSE <<>>

Pictures == ReadNow \o input[0] \o TakenNow \o full

LEMMA PicturesTyped ==
  ASSUME StreamInv
  PROVE  /\ ReadNow \in Seq(Sources) /\ TakenNow \in Seq(Sources)
         /\ input[0] \in Seq(Sources) /\ full \in Seq(Sources)
         /\ ReadNow \o input[0] \in Seq(Sources)
         /\ ReadNow \o input[0] \o TakenNow \in Seq(Sources)
<1>1. \A b \in Sources : <<b>> \in Seq(Sources)
  OBVIOUS
<1>2. <<>> \in Seq(Sources)
  OBVIOUS
<1>3. /\ ReadNow \in Seq(Sources) /\ TakenNow \in Seq(Sources)
      /\ input[0] \in Seq(Sources) /\ full \in Seq(Sources)
  BY <1>1, <1>2, StreamTypes DEF ReadNow, TakenNow, Reading
<1>4. ReadNow \o input[0] \in Seq(Sources)
  BY <1>3, ConcatProperties
<1> QED
  BY <1>3, <1>4, ConcatProperties

(***************************************************************************)
(* The loop thread takes the first picture, and pushes it behind those the *)
(* driver has: the pictures under way stay the same.                       *)
(***************************************************************************)
LEMMA TakesInOrder ==
  ASSUME StreamInv, LoopTakes
  PROVE  Pictures' = Pictures
<1>1. /\ loop.at = "event" /\ full # <<>> /\ full' = Tail(full)
      /\ loop' = [LoopWaiting EXCEPT !.at = "run", !.buf = Head(full)]
      /\ UNCHANGED <<input, request, give>>
  BY DEF LoopTakes, driverVars, fifos
<1>2. loop'.buf = Head(full) /\ loop.buf = NoBuffer
  BY <1>1 DEF LoopWaiting, NoLoop, StreamInv, HandsMatch
<1>3. Head(full) \in Sources /\ full = <<Head(full)>> \o Tail(full)
  BY <1>1, StreamTypes, DistinctTail, HeadFirst
<1>4. ReadNow' = ReadNow /\ TakenNow = <<>> /\ TakenNow' = <<Head(full)>>
  BY <1>1, <1>2, <1>3, StreamTypes DEF ReadNow, TakenNow, Reading
<1> DEFINE x == ReadNow \o input[0]
           h == <<Head(full)>>
           t == Tail(full)
<1>5. x \in Seq(Sources) /\ h \in Seq(Sources) /\ t \in Seq(Sources)
  BY <1>1, <1>3, StreamTypes, DistinctTail, PicturesTyped
<1>6. Pictures = x \o <<>> \o full /\ Pictures' = x \o h \o t /\ full = h \o t
  BY <1>1, <1>3, <1>4 DEF Pictures
<1> HIDE DEF x, h, t
<1>7. x \o <<>> = x
  BY <1>5, ConcatEmptySeq
<1>8. x \o h \o t = x \o (h \o t)
  BY <1>5, ConcatAssociative
<1> QED
  BY <1>6, <1>7, <1>8

LEMMA PushesInOrder ==
  ASSUME StreamInv, LoopPushes
  PROVE  Pictures' = Pictures
<1>1. /\ loop.at = "search" /\ input'[0] = Append(input[0], loop.buf)
      /\ give' = Torn(give) /\ loop' = LoopWaiting /\ UNCHANGED <<request, full>>
  BY StreamTypes DEF LoopPushes, Push, ispVars
<1>2. /\ loop.buf \in Sources /\ loop'.buf = NoBuffer /\ give'.at = give.at
  BY <1>1, LoopHolds DEF LoopWaiting, NoLoop, Torn, StreamInv, MediaTypeOK
<1>3. ReadNow' = ReadNow /\ TakenNow = <<loop.buf>> /\ TakenNow' = <<>>
  BY <1>1, <1>2, StreamTypes DEF ReadNow, TakenNow, Reading
<1> DEFINE r == ReadNow
           q == input[0]
           h == <<loop.buf>>
<1>4. /\ r \in Seq(Sources) /\ q \in Seq(Sources) /\ h \in Seq(Sources)
      /\ Append(q, loop.buf) = q \o h
  BY <1>2, PicturesTyped, AppendIsConcat
<1>5. Pictures = r \o q \o h \o full /\ Pictures' = r \o (q \o h) \o <<>> \o full
  BY <1>1, <1>3, <1>4 DEF Pictures
<1> HIDE DEF r, q, h
<1>6. r \o (q \o h) \in Seq(Sources) /\ r \o q \o h = r \o (q \o h)
  BY <1>4, ConcatProperties, ConcatAssociative
<1>7. r \o (q \o h) \o <<>> = r \o (q \o h)
  BY <1>6, ConcatEmptySeq
<1> QED
  BY <1>5, <1>6, <1>7

(***************************************************************************)
(* The request thread takes the first picture the driver has.              *)
(***************************************************************************)
LEMMA ReadsInOrder ==
  ASSUME StreamInv, RequestFrame, UNCHANGED mediaVars
  PROVE  Pictures' = Pictures
<1>1. /\ input[0] # <<>> /\ ~Reading /\ give.at = "none"
      /\ input' = [input EXCEPT ![0] = Tail(@)]
      /\ request'.at = "wait" /\ request'.src = Head(input[0])
      /\ Head(input[0]) \in Sources
  BY FrameTakes
<1>2. UNCHANGED <<loop, full, give>>
  BY DEF mediaVars, ispVars
<1>3. input'[0] = Tail(input[0])
  BY <1>1, StreamTypes
<1>4. ReadNow = <<>> /\ ReadNow' = <<Head(input[0])>> /\ TakenNow' = TakenNow
  BY <1>1, <1>2, StreamTypes DEF ReadNow, TakenNow, Reading
<1>5. <<>> \o input[0] = input[0] /\ input[0] = <<Head(input[0])>> \o Tail(input[0])
  BY <1>1, StreamTypes, ConcatEmptySeq, HeadFirst
<1> QED
  BY <1>2, <1>3, <1>4, <1>5 DEF Pictures

(***************************************************************************)
(* A search that misses the picture drops it; the others keep their order. *)
(***************************************************************************)
LEMMA MissesDrop ==
  ASSUME StreamInv, LoopMisses
  PROVE  \E i \in DOMAIN Pictures : Pictures' = RemoveAt(Pictures, i)
<1>1. loop.at = "search" /\ loop' = LoopWaiting /\ UNCHANGED <<input, request, give, full>>
  BY DEF LoopMisses, driverVars, fifos, ispVars
<1>2. loop.buf \in Sources /\ loop'.buf = NoBuffer
  BY <1>1, LoopHolds DEF LoopWaiting, NoLoop
<1>3. ReadNow' = ReadNow /\ TakenNow = <<loop.buf>> /\ TakenNow' = <<>>
  BY <1>1, <1>2, StreamTypes DEF ReadNow, TakenNow, Reading
<1> DEFINE x == ReadNow \o input[0]
<1>4. x \in Seq(Sources) /\ full \in Seq(Sources)
  BY PicturesTyped
<1>5. Pictures = x \o <<loop.buf>> \o full /\ Pictures' = x \o <<>> \o full
  BY <1>1, <1>3 DEF Pictures
<1> HIDE DEF x
<1>6. x \o <<>> = x
  BY <1>4, ConcatEmptySeq
<1>7. /\ Len(x) + 1 \in DOMAIN (x \o <<loop.buf>> \o full)
      /\ RemoveAt(x \o <<loop.buf>> \o full, Len(x) + 1) = x \o full
  BY <1>2, <1>4, DropOne
<1> QED
  BY <1>5, <1>6, <1>7

(***************************************************************************)
(* The callback, when it has read the picture, hands on the first of them. *)
(***************************************************************************)
LEMMA GivesFirst ==
  ASSUME StreamInv, GiveReleases \/ GiveMisses
  PROVE  Pictures # <<>> /\ Pictures' = Tail(Pictures)
<1>1. /\ give.at = "search" /\ give'.at \in {"changed", "done"}
      /\ loop'.buf = loop.buf /\ UNCHANGED <<input, request, full>>
  BY DEF GiveReleases, GiveMisses, NoGive, Torn, driverVars, fifos, ispVars, StreamInv,
         MediaTypeOK
<1>2. request.at = "callback" /\ request.src \in Sources
  BY <1>1, GiveHolds
<1>3. ReadNow = <<request.src>> /\ ReadNow' = <<>> /\ TakenNow' = TakenNow
  BY <1>1, <1>2, StreamTypes DEF ReadNow, TakenNow, Reading
<1> DEFINE h == <<request.src>>
           q == input[0]
           l == TakenNow
           z == q \o l
<1>4. /\ h \in Seq(Sources) /\ q \in Seq(Sources) /\ l \in Seq(Sources)
      /\ full \in Seq(Sources)
  BY <1>2, PicturesTyped
<1>5. Pictures = h \o q \o l \o full /\ Pictures' = <<>> \o q \o l \o full
  BY <1>1, <1>3 DEF Pictures
<1>6. <<>> \o q = q
  BY <1>4, ConcatEmptySeq
<1> HIDE DEF h, q, l
<1>7. h \o q \o l = h \o z
  BY <1>4, ConcatAssociative
<1>8. z \in Seq(Sources)
  BY <1>4, ConcatProperties
<1>9. Pictures' = z \o full
  BY <1>5, <1>6
<1> HIDE DEF z
<1>10. h \o z \o full = h \o (z \o full) /\ z \o full \in Seq(Sources)
  BY <1>4, <1>8, ConcatAssociative, ConcatProperties
<1>11. <<request.src>> \o (z \o full) # <<>>
       /\ Tail(<<request.src>> \o (z \o full)) = z \o full
  BY <1>2, <1>10, TailOfFirst
<1> QED
  BY <1>5, <1>7, <1>9, <1>10, <1>11 DEF h

(***************************************************************************)
(* A new picture is the last one.                                          *)
(***************************************************************************)
LEMMA FillsLast ==
  ASSUME StreamInv, IspFills
  PROVE  \E b \in Sources : b \notin ToSet(Pictures) /\ Pictures' = Append(Pictures, b)
<1>1. PICK b \in isp :
        full' = Append(full, b) /\ UNCHANGED <<input, request, give, loop>>
  BY DEF IspFills, driverVars, fifos
<1>2. ReadNow' = ReadNow /\ TakenNow' = TakenNow /\ b \in Sources
  BY <1>1, StreamTypes DEF ReadNow, TakenNow, Reading
<1> DEFINE x == ReadNow \o input[0]
           y == x \o TakenNow
<1>3. /\ ReadNow \in Seq(Sources) /\ TakenNow \in Seq(Sources) /\ input[0] \in Seq(Sources)
      /\ full \in Seq(Sources) /\ x \in Seq(Sources) /\ y \in Seq(Sources)
  BY PicturesTyped
<1>4. b \notin ToSet(Pictures)
  <2>1. /\ b \notin ToSet(full) /\ b \notin ToSet(input[0]) /\ b # loop.buf /\ ~Reads(b)
    BY <1>1, <1>2 DEF StreamInv, HeldOnce
  <2>2. b \notin ToSet(ReadNow) /\ b \notin ToSet(TakenNow)
    BY <2>1 DEF ReadNow, TakenNow, Reads, ToSet
  <2>3. ToSet(x) \subseteq ToSet(ReadNow) \cup ToSet(input[0])
    BY <1>3, ConcatSet
  <2> HIDE DEF x
  <2>4. ToSet(y) \subseteq ToSet(x) \cup ToSet(TakenNow)
    BY <1>3, ConcatSet
  <2> HIDE DEF y
  <2>5. ToSet(y \o full) \subseteq ToSet(y) \cup ToSet(full)
    BY <1>3, ConcatSet
  <2> QED
    BY <2>1, <2>2, <2>3, <2>4, <2>5 DEF Pictures, x, y
<1>5. Pictures = y \o full /\ Pictures' = y \o Append(full, b)
  BY <1>1, <1>2 DEF Pictures
<1> HIDE DEF y
<1>6. Pictures' = Append(Pictures, b)
  <2>1. <<b>> \in Seq(Sources) /\ Append(full, b) = full \o <<b>>
    BY <1>2, <1>3, AppendIsConcat
  <2>2. y \o full \in Seq(Sources) /\ y \o (full \o <<b>>) = (y \o full) \o <<b>>
    BY <1>3, <2>1, ConcatAssociative, ConcatProperties
  <2>3. Append(y \o full, b) = (y \o full) \o <<b>>
    BY <1>2, <2>2, AppendIsConcat
  <2> QED
    BY <1>5, <2>1, <2>2, <2>3
<1> QED
  BY <1>2, <1>4, <1>6

(***************************************************************************)
(* A stop cuts off the last pictures, or all that are left.                *)
(***************************************************************************)
LEMMA StopCuts ==
  ASSUME StreamInv, SensorJoined \/ DewarpStopped
  PROVE  \E n \in 0 .. Len(Pictures) : Pictures' = SubSeq(Pictures, 1, n)
<1>1. CASE SensorJoined
  <2>1. loop.at = "none" /\ full' = <<>> /\ UNCHANGED <<input, request, give, loop>>
    BY <1>1 DEF SensorJoined, driverVars, fifos
  <2>2. ReadNow' = ReadNow /\ TakenNow' = TakenNow
    BY <2>1 DEF ReadNow, TakenNow, Reading
  <2> DEFINE y == ReadNow \o input[0] \o TakenNow
  <2>3. y \in Seq(Sources) /\ full \in Seq(Sources)
    BY PicturesTyped
  <2>4. Pictures = y \o full /\ Pictures' = y \o <<>>
    BY <2>1, <2>2 DEF Pictures
  <2> HIDE DEF y
  <2>5. y \o <<>> = y
    BY <2>3, ConcatEmptySeq
  <2>6. Len(y) \in 0 .. Len(y \o full) /\ SubSeq(y \o full, 1, Len(y)) = y
    BY <2>3, CutTo
  <2> QED
    BY <2>4, <2>5, <2>6
<1>2. CASE DewarpStopped
  <2>1. /\ control = "idle" /\ mode = Stopped /\ request.at = "none" /\ give.at = "none"
        /\ loop.at = "none" /\ full = <<>> /\ input'[0] = <<>>
        /\ UNCHANGED <<request, give, loop, full>>
    BY <1>2, StreamTypes DEF DewarpStopped, Clear, ispVars, StreamInv, PhasesMatch,
       DriverInv, ThreadsMatchMode, HandsMatch
  <2>2. ReadNow' = <<>> /\ TakenNow' = <<>>
    BY <2>1 DEF ReadNow, TakenNow, Reading, StreamInv, HandsMatch
  <2>3. <<>> \o <<>> = <<>>
    BY EmptySeq, ConcatEmptySeq
  <2>4. Pictures' = <<>>
    BY <2>1, <2>2, <2>3 DEF Pictures
  <2>5. Pictures \in Seq(Sources)
    BY PicturesTyped, ConcatProperties DEF Pictures
  <2>6. 0 \in 0 .. Len(Pictures) /\ SubSeq(Pictures, 1, 0) = <<>>
    BY <2>5, SubSeqEmpty
  <2> QED
    BY <2>4, <2>6
<1> QED
  BY <1>1, <1>2

LEMMA FlowSees ==
  StreamInv /\ [MediaNext]_vars => [Flow!FlowNext]_(Pictures)
<1> SUFFICES ASSUME StreamInv, [MediaNext]_vars PROVE [Flow!FlowNext]_(Pictures)
  OBVIOUS
<1> USE DEF Flow!FlowNext
<1>1. CASE LoopTakes \/ LoopPushes
  BY <1>1, TakesInOrder, PushesInOrder
<1>2. CASE LoopMisses
  <2>1. Flow!Drop
    BY <1>2, MissesDrop DEF Flow!Drop, Flow!RemoveAt, RemoveAt, Pictures, ReadNow, TakenNow
  <2> QED
    BY <2>1
<1>3. CASE GiveReleases \/ GiveMisses
  <2>1. Flow!Deliver
    BY <1>3, GivesFirst DEF Flow!Deliver, Pictures, ReadNow, TakenNow
  <2> QED
    BY <2>1
<1>4. CASE IspFills
  <2>1. \E b \in Sources : Flow!Capture(b)
    BY <1>4, FillsLast
    DEF Flow!Capture, Flow!ToSet, ToSet, Pictures, ReadNow, TakenNow
  <2> QED
    BY <2>1
<1>5. CASE SensorJoined \/ DewarpStopped
  <2>1. Flow!Cut
    BY <1>5, StopCuts DEF Flow!Cut, Pictures, ReadNow, TakenNow
  <2> QED
    BY <2>1
<1>6. CASE StartDewarp
  <2>1. /\ request.at = "none" /\ give.at = "none"
        /\ request' = RequestAt("loop") /\ UNCHANGED <<input, give, loop, full>>
    BY <1>6 DEF StartDewarp, StartThreads, fifos, ispVars, StreamInv, PhasesMatch,
       DriverInv, ThreadsMatchMode, HandsMatch
  <2>2. ~Reading /\ ~Reading'
    BY <2>1 DEF RequestAt, Reading, StreamInv, HandsMatch
  <2> QED
    BY <2>1, <2>2 DEF Pictures, ReadNow, TakenNow
<1>7. CASE StartSensor
  <2>1. /\ loop.at = "none" /\ loop' = LoopWaiting /\ UNCHANGED <<input, request, give, full>>
    BY <1>7 DEF StartSensor, driverVars, fifos, StreamInv, PhasesMatch
  <2>2. loop.buf = NoBuffer /\ loop'.buf = NoBuffer
    BY <2>1 DEF LoopWaiting, NoLoop, StreamInv, HandsMatch
  <2> QED
    BY <2>1, <2>2 DEF Pictures, ReadNow, TakenNow, Reading
<1>8. CASE StopSensor
  BY <1>8 DEF StopSensor, driverVars, fifos, ispVars, Pictures, ReadNow, TakenNow, Reading
<1>9. CASE StopDewarp
  <2>1. UNCHANGED <<input, request, give, loop, full>>
    BY <1>9 DEF StopDewarp, Stop, StopThreads, driverVars, fifos, ispVars
  <2> QED
    BY <2>1 DEF Pictures, ReadNow, TakenNow, Reading
<1>10. CASE LoopEnd \/ LoopTests \/ LoopTimeOut \/ LoopRun
  <2>1. UNCHANGED <<input, request, give, full>>
    BY <1>10 DEF LoopEnd, LoopTests, LoopTimeOut, LoopRun, driverVars, fifos, ispVars
  <2>2. CASE LoopEnd \/ LoopTests \/ LoopTimeOut
    <3>1. loop.buf = NoBuffer /\ loop'.buf = NoBuffer
      <4>1. /\ loop.at \in {"wait", "event"}
            /\ \E l \in {"none", "wait", "event"} :
                 loop' = [at |-> l, buf |-> NoBuffer, torn |-> FALSE]
        BY <2>2 DEF LoopEnd, LoopTests, LoopTimeOut, LoopWaiting, NoLoop
      <4> QED
        BY <4>1 DEF StreamInv, HandsMatch
    <3> QED
      BY <2>1, <3>1 DEF Pictures, ReadNow, TakenNow, Reading
  <2>3. CASE LoopRun
    <3>1. loop.at = "run" /\ dewarpRunning
      BY <2>3 DEF LoopRun, StreamInv, PhasesMatch, MediaTypeOK
    <3>2. loop'.buf = loop.buf
      BY <2>3, <3>1 DEF LoopRun, Searching, StreamInv, MediaTypeOK
    <3> QED
      BY <2>1, <3>2 DEF Pictures, ReadNow, TakenNow, Reading
  <2> QED
    BY <1>10, <2>2, <2>3
<1>11. CASE GiveStart
  <2>1. /\ request.at = "available" /\ give'.at = "search"
        /\ request'.at = "callback" /\ request'.src = request.src
        /\ UNCHANGED <<input, loop, full>>
    BY <1>11 DEF GiveStart, FrameAvailable, Searching, NoGive, ispVars, StreamInv,
       MediaTypeOK, DriverTypeOK
  <2> QED
    BY <2>1 DEF Pictures, ReadNow, TakenNow, Reading
<1>12. CASE GiveChanged \/ GiveQbuf \/ GiveDone
  <2>1. /\ give.at \in {"changed", "qbuf", "done"}
        /\ give'.at # "search" /\ UNCHANGED <<input, loop, full>>
        /\ request' = request \/ request' = RequestAt("loop")
    BY <1>12, ChangedTakes DEF GiveChanged, GiveQbuf, GiveDone, CallbackReturns, NoGive,
       driverVars, fifos, ispVars
  <2>2. request.at = "callback"
    BY <2>1, GiveHolds
  <2>3. ~Reading /\ ~Reading'
    BY <2>1, <2>2 DEF Reading, RequestAt
  <2> QED
    BY <2>1, <2>3 DEF Pictures, ReadNow, TakenNow
<1>13. CASE DriverThreads
  <2>1. CASE RequestFrame
    BY <1>13, <2>1, ReadsInOrder DEF DriverThreads
  <2>2. CASE ~RequestFrame
    <3>1. /\ UNCHANGED <<input, give, loop, full>> /\ request'.src = request.src
          /\ request'.at = "callback" <=> request.at = "callback"
      BY <1>13, <2>2, ThreadsKeep DEF DriverThreads, mediaVars, ispVars
    <3> QED
      BY <3>1 DEF Pictures, ReadNow, TakenNow, Reading
  <2> QED
    BY <2>1, <2>2
<1>14. CASE QueueBuffer
  BY <1>14 DEF QueueBuffer, PushTarget, ispVars, Pictures, ReadNow, TakenNow, Reading
<1>15. CASE UNCHANGED vars
  BY <1>15 DEF vars, mediaVars, ispVars, driverVars, fifos, Pictures, ReadNow, TakenNow,
     Reading
<1> QED
  BY <1>1, <1>2, <1>3, <1>4, <1>5, <1>6, <1>7, <1>8, <1>9, <1>10, <1>11, <1>12, <1>13,
     <1>14, <1>15 DEF MediaNext, Events, SensorLoop, Give

(***************************************************************************)
(* The dewarp reads the pictures in the order in which the ISP took them:  *)
(* a picture is dropped or cut off by a stop, but none is read twice or    *)
(* overtakes another.                                                      *)
(***************************************************************************)
THEOREM PicturesKeepOrder == MediaSpec => PicturesInOrder
<1>1. MediaInit => Pictures = <<>>
  <2> SUFFICES ASSUME MediaInit PROVE Pictures = <<>>
    OBVIOUS
  <2>1. request.src = NoBuffer /\ loop.buf = NoBuffer /\ input[0] = <<>> /\ full = <<>>
    BY DewarpAssumption DEF MediaInit, DriverInit, RequestAt, NoLoop
  <2>2. <<>> \o <<>> = <<>>
    BY EmptySeq, ConcatEmptySeq
  <2> QED
    BY <2>1, <2>2 DEF Pictures, ReadNow, TakenNow, Reading
<1>2. Pictures = <<>> => Flow!FlowInit
  BY DEF Flow!FlowInit, Pictures, ReadNow, TakenNow
<1>3. [Flow!FlowNext]_(Pictures) => [Flow!FlowNext]_((IF Reading THEN <<request.src>> ELSE <<>>)
            \o input[0]
            \o (IF loop.buf # NoBuffer THEN <<loop.buf>> ELSE <<>>)
            \o full)
  BY DEF Pictures, ReadNow, TakenNow
<1> QED
  BY <1>1, <1>2, <1>3, FlowSees, StreamInvariance, PTL
  DEF MediaSpec, PicturesInOrder, Flow!FlowSpec
=============================================================================
