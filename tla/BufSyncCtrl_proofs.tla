------------------------- MODULE BufSyncCtrl_proofs -------------------------
(***************************************************************************)
(* What holds of the buffer synchronisation control for every set of       *)
(* buffers and every depth of its queue: each buffer is locked while       *)
(* somebody means to give it back, none is left locked while the control   *)
(* exists, and each accepted command is completed once.                    *)
(***************************************************************************)
EXTENDS BufSyncCtrl, FiniteSetTheorems, SequenceTheorems, TLAPS

-----------------------------------------------------------------------------
(* How often a value is in a sequence.                                      *)

Positions(q, k) == {i \in DOMAIN q : q[i] = k}
Times(q, k) == Cardinality(Positions(q, k))

LEMMA TimesNat ==
  ASSUME NEW S, NEW q \in Seq(S), NEW k
  PROVE  IsFiniteSet(Positions(q, k)) /\ Times(q, k) \in Nat
<1>1. IsFiniteSet(1 .. Len(q)) /\ DOMAIN q = 1 .. Len(q)
  BY FS_Interval
<1>2. Positions(q, k) \subseteq 1 .. Len(q)
  BY <1>1 DEF Positions
<1>3. IsFiniteSet(Positions(q, k))
  BY <1>1, <1>2, FS_Subset
<1> QED
  BY <1>3, FS_CardinalityType DEF Times

LEMMA TimesEmpty ==
  ASSUME NEW k
  PROVE  Times(<<>>, k) = 0
<1>1. Positions(<<>>, k) = {}
  BY DEF Positions
<1> QED
  BY <1>1, FS_EmptySet DEF Times

LEMMA TimesAppend ==
  ASSUME NEW S, NEW q \in Seq(S), NEW x \in S, NEW k
  PROVE  Times(Append(q, x), k) = Times(q, k) + (IF x = k THEN 1 ELSE 0)
<1>1. /\ Len(q) \in Nat /\ DOMAIN q = 1 .. Len(q)
      /\ DOMAIN Append(q, x) = 1 .. Len(q) + 1 /\ Append(q, x)[Len(q) + 1] = x
      /\ \A i \in 1 .. Len(q) : Append(q, x)[i] = q[i]
  BY AppendProperties
<1>2. Positions(Append(q, x), k) =
        IF x = k THEN Positions(q, k) \cup {Len(q) + 1} ELSE Positions(q, k)
  BY <1>1 DEF Positions
<1>3. Len(q) + 1 \notin Positions(q, k)
  BY <1>1 DEF Positions
<1>4. IsFiniteSet(Positions(q, k)) /\ Times(q, k) \in Nat
  BY TimesNat
<1>5. Cardinality(Positions(q, k) \cup {Len(q) + 1}) = Cardinality(Positions(q, k)) + 1
  BY <1>3, <1>4, FS_AddElement
<1>6. CASE x = k
  BY <1>2, <1>5, <1>6 DEF Times
<1>7. CASE x # k
  BY <1>2, <1>4, <1>7 DEF Times
<1> QED
  BY <1>6, <1>7

LEMMA TimesTail ==
  ASSUME NEW S, NEW q \in Seq(S), q # <<>>, NEW k
  PROVE  /\ Head(q) \in S /\ Tail(q) \in Seq(S) /\ Len(Tail(q)) = Len(q) - 1
         /\ Times(q, k) = Times(Tail(q), k) + (IF Head(q) = k THEN 1 ELSE 0)
<1>1. /\ Len(q) \in Nat /\ Len(q) >= 1 /\ Head(q) = q[1] /\ Head(q) \in S
      /\ Tail(q) \in Seq(S) /\ Len(Tail(q)) = Len(q) - 1
      /\ DOMAIN q = 1 .. Len(q) /\ DOMAIN Tail(q) = 1 .. Len(q) - 1
      /\ \A i \in 1 .. Len(q) - 1 : Tail(q)[i] = q[i + 1]
  BY HeadTailProperties
<1> DEFINE P == Positions(Tail(q), k)
           Q == Positions(q, k) \ {1}
           f == [i \in P |-> i + 1]
<1>2. P \subseteq 1 .. Len(q) - 1 /\ Q \subseteq 2 .. Len(q)
  BY <1>1 DEF Positions
<1>3. \A i \in 1 .. Len(q) - 1 : i \in P <=> i + 1 \in Q
  BY <1>1 DEF Positions
<1>4. IsFiniteSet(P) /\ IsFiniteSet(Positions(q, k)) /\ Times(Tail(q), k) \in Nat
  BY <1>1, TimesNat
<1> HIDE DEF P, Q
<1>5. f \in Bijection(P, Q)
  <2>1. \A i \in P : f[i] \in Q
    BY <1>2, <1>3
  <2>2. \A i, j \in P : f[i] = f[j] => i = j
    BY <1>2
  <2>3. ASSUME NEW j \in Q PROVE \E i \in P : f[i] = j
    <3>1. j - 1 \in 1 .. Len(q) - 1 /\ j - 1 + 1 = j
      BY <1>1, <1>2
    <3>2. j - 1 \in P
      BY <1>3, <3>1
    <3> QED
      BY <3>1, <3>2
  <2> QED
    BY <2>1, <2>2, <2>3 DEF Bijection, Injection, Surjection, IsInjective
<1>6. Cardinality(Q) = Cardinality(P)
  BY <1>4, <1>5, FS_Bijection DEF ExistsBijection
<1>7. Cardinality(Q) = IF 1 \in Positions(q, k) THEN Cardinality(Positions(q, k)) - 1
                       ELSE Cardinality(Positions(q, k))
  BY <1>4, FS_RemoveElement DEF Q
<1>8. 1 \in Positions(q, k) <=> Head(q) = k
  BY <1>1 DEF Positions
<1>9. Cardinality(Positions(q, k)) \in Nat
  BY <1>4, FS_CardinalityType
<1> QED
  BY <1>1, <1>4, <1>6, <1>7, <1>8, <1>9 DEF Times, P
-----------------------------------------------------------------------------
(* What is in a queue of buffers.                                           *)

Within(q, b) == \E n \in DOMAIN q : q[n] = b
Distinct(q) == \A m, n \in DOMAIN q : q[m] = q[n] => m = n

LEMMA AppendWithin ==
  ASSUME NEW S, NEW q \in Seq(S), NEW x \in S, Distinct(q), ~Within(q, x)
  PROVE  /\ Append(q, x) \in Seq(S) /\ Distinct(Append(q, x))
         /\ \A b : Within(Append(q, x), b) <=> Within(q, b) \/ b = x
<1>1. /\ Len(q) \in Nat /\ DOMAIN q = 1 .. Len(q)
      /\ Append(q, x) \in Seq(S)
      /\ DOMAIN Append(q, x) = 1 .. Len(q) + 1 /\ Append(q, x)[Len(q) + 1] = x
      /\ \A i \in 1 .. Len(q) : Append(q, x)[i] = q[i]
  BY AppendProperties
<1>2. \A i \in DOMAIN Append(q, x) : i \in DOMAIN q \/ i = Len(q) + 1
  BY <1>1
<1>3. \A i \in DOMAIN q : i \in DOMAIN Append(q, x) /\ i # Len(q) + 1
  BY <1>1
<1>4. Distinct(Append(q, x))
  BY <1>1, <1>2 DEF Distinct, Within
<1>5. \A b : Within(Append(q, x), b) <=> Within(q, b) \/ b = x
  <2> TAKE b
  <2>1. Within(Append(q, x), b) => Within(q, b) \/ b = x
    BY <1>1, <1>2 DEF Within
  <2>2. Within(q, b) => Within(Append(q, x), b)
    BY <1>1, <1>3 DEF Within
  <2>3. Within(Append(q, x), x)
    BY <1>1 DEF Within
  <2> QED
    BY <2>1, <2>2, <2>3
<1> QED
  BY <1>1, <1>4, <1>5

LEMMA TailWithin ==
  ASSUME NEW S, NEW q \in Seq(S), q # <<>>, Distinct(q)
  PROVE  /\ Tail(q) \in Seq(S) /\ Distinct(Tail(q)) /\ Head(q) \in S /\ Within(q, Head(q))
         /\ \A b : Within(Tail(q), b) <=> Within(q, b) /\ b # Head(q)
<1>1. /\ Len(q) \in Nat /\ Len(q) >= 1 /\ Head(q) = q[1] /\ Head(q) \in S
      /\ Tail(q) \in Seq(S)
      /\ DOMAIN q = 1 .. Len(q) /\ DOMAIN Tail(q) = 1 .. Len(q) - 1
      /\ \A i \in 1 .. Len(q) - 1 : Tail(q)[i] = q[i + 1]
  BY HeadTailProperties
<1>2. \A i \in DOMAIN Tail(q) : i + 1 \in DOMAIN q /\ i + 1 # 1 /\ i \in Int
  BY <1>1
<1>3. \A j \in DOMAIN q : j # 1 => j - 1 \in DOMAIN Tail(q) /\ Tail(q)[j - 1] = q[j]
  <2> TAKE j \in DOMAIN q
  <2>1. j # 1 => j - 1 \in 1 .. Len(q) - 1 /\ j - 1 + 1 = j
    BY <1>1
  <2> QED
    BY <1>1, <2>1
<1>4. Distinct(Tail(q))
  BY <1>1, <1>2 DEF Distinct
<1>5. Within(q, Head(q)) /\ 1 \in DOMAIN q
  BY <1>1 DEF Within
<1>6. \A b : Within(Tail(q), b) <=> Within(q, b) /\ b # Head(q)
  <2> TAKE b
  <2>1. Within(Tail(q), b) => Within(q, b) /\ b # Head(q)
    BY <1>1, <1>2, <1>5 DEF Within, Distinct
  <2>2. Within(q, b) /\ b # Head(q) => Within(Tail(q), b)
    BY <1>1, <1>3 DEF Within
  <2> QED
    BY <2>1, <2>2
<1> QED
  BY <1>1, <1>4, <1>5, <1>6

LEMMA EmptyWithin == Distinct(<<>>) /\ \A b : ~Within(<<>>, b)
BY DEF Distinct, Within

-----------------------------------------------------------------------------
(***************************************************************************)
(* Where a buffer can be that somebody means to give back, and that it is  *)
(* in one of these places only, once, and locked there.                    *)
(***************************************************************************)
AtSide(i, b) == alive /\ held[i] = b
InPair(i, b) == handler.at \in {"call", "return"} /\ handler.pair[i] = b
Owned(i, b) == Within(bufq[i], b) \/ AtSide(i, b) \/ InPair(i, b)

OnePlaceAt(i) ==
  /\ Distinct(bufq[i])
  /\ \A b \in Buffers :
       /\ locks[i][b] \in {0, 1}
       /\ Owned(i, b) => locks[i][b] = 1
       /\ Within(bufq[i], b) => ~AtSide(i, b) /\ ~InPair(i, b)
       /\ AtSide(i, b) => ~InPair(i, b)

OnePlace == \A i \in Sides : OnePlaceAt(i)

(***************************************************************************)
(* What a step does not make of a buffer while the control exists: one     *)
(* that is locked and that nobody means to give back.                      *)
(***************************************************************************)
Loose(i, b) == ~Owned(i, b) /\ locks[i][b] # 0
KeptAt(i) == alive' => \A b \in Buffers : Loose(i, b)' => Loose(i, b)
Kept == \A i \in Sides : KeptAt(i)

(***************************************************************************)
(* The client ends the threads one after the other and frees the context   *)
(* last.                                                                   *)
(***************************************************************************)
Gone == client.cmd = "SHUTDOWN" \/ client.at \in {"join", "free"}

PhasesMatch ==
  /\ client.at # "idle" \/ handler.at # "none" \/ (\E i \in Sides : worker[i] # "none")
       => alive
  /\ ~alive => queue = <<>>
  /\ client.at = "send" <=> client.cmd # "INVALID"
  /\ client.side = 1 => client.at \in {"end", "await", "cancel"} /\ worker[0] = "none"
  /\ client.at = "cancel" => worker[client.side] = "none"
  /\ Gone => \A i \in Sides : worker[i] = "none"
  /\ client.at = "free" => handler.at = "none"

(***************************************************************************)
(* The commands that are pending are those in the queue and the one the    *)
(* handler has.                                                            *)
(***************************************************************************)
Request(k) == [id |-> k, ctx |-> 0]
Notice(i) == [id |-> "PROCESS_BUFFER", ctx |-> i]

CommandsMatch ==
  /\ handler.at \in {"none", "read"} => handler.cmd = NoCommand
  /\ handler.at \in {"call", "return"} => handler.cmd.id = "PROCESS_BUFFER"
  /\ handler.at = "complete" => handler.cmd.id \in Commands
  /\ \A k \in Commands :
       pending[k] = Times(queue, Request(k)) + (IF handler.cmd.id = k THEN 1 ELSE 0)

IInv == TypeOK /\ PhasesMatch /\ CommandsMatch /\ OnePlace

-----------------------------------------------------------------------------
LEMMA Entries ==
  /\ Sides = {0, 1} /\ Commands = {"START", "STOP"}
  /\ \A k \in Commands \cup {"SHUTDOWN"} : Request(k) \in Queueable
  /\ \A i \in Sides : Notice(i) \in Queueable
  /\ \A e \in Queueable :
       /\ e # NoCommand /\ e.ctx \in Sides
       /\ e.id \in {"START", "STOP", "SHUTDOWN", "PROCESS_BUFFER"}
       /\ \A k \in Commands : e = Request(k) <=> e.id = k
       /\ e.id = "PROCESS_BUFFER" => e = Notice(e.ctx)
  /\ NoCommand.id \notin {"START", "STOP", "SHUTDOWN", "PROCESS_BUFFER"}
  /\ \A k, j \in Commands \cup {"SHUTDOWN"} : Request(k) = Request(j) <=> k = j
  /\ \A i \in Sides, k \in Commands : Notice(i) # Request(k)
BY DEF Sides, Commands, Queueable, NoCommand, Request, Notice

LEMMA Idleness ==
  /\ \A l : HandlerAt(l).at = l /\ HandlerAt(l).cmd = NoCommand
  /\ \A l : ClientAt(l).at = l /\ ClientAt(l).cmd = "INVALID" /\ ClientAt(l).side = 0
  /\ \A l \in {"none", "read"} :
       HandlerAt(l) \in [at : {"none", "read", "execute", "call", "return", "complete"},
                         cmd : Queueable \cup {NoCommand},
                         pair : [Sides -> Buffers \cup {NoBuffer}]]
  /\ \A l \in {"idle", "send", "end", "await", "cancel", "join", "free"} :
       ClientAt(l) \in [at : {"idle", "send", "end", "await", "cancel", "join", "free"},
                        cmd : Commands \cup {"SHUTDOWN", "INVALID"}, side : Sides]
BY DEF HandlerAt, ClientAt, Sides

LEMMA UnlockedDoes ==
  ASSUME NEW l \in [Sides -> [Buffers -> Nat]], NEW s \in Sides,
         NEW b \in Buffers \cup {NoBuffer}, b # NoBuffer => l[s][b] = 1
  PROVE  /\ Unlocked(l, s, b) \in [Sides -> [Buffers -> Nat]]
         /\ \A i \in Sides \ {s} : Unlocked(l, s, b)[i] = l[i]
         /\ \A c \in Buffers : Unlocked(l, s, b)[s][c] = IF c = b THEN 0 ELSE l[s][c]
<1>1. CASE b = NoBuffer
  BY <1>1, BufSyncAssumption DEF Unlocked
<1>2. CASE b # NoBuffer
  <2>1. b \in Buffers /\ l[s][b] = 1
    BY <1>2
  <2>2. Unlocked(l, s, b) = [l EXCEPT ![s] = [l[s] EXCEPT ![b] = 0]]
    BY <1>2, <2>1 DEF Unlocked
  <2>3. l[s] \in [Buffers -> Nat]
    OBVIOUS
  <2> DEFINE f == [l[s] EXCEPT ![b] = 0]
  <2>4. f \in [Buffers -> Nat] /\ \A c \in Buffers : f[c] = IF c = b THEN 0 ELSE l[s][c]
    BY <2>1, <2>3
  <2> HIDE DEF f
  <2>5. Unlocked(l, s, b) = [l EXCEPT ![s] = f]
    BY <2>2 DEF f
  <2> QED
    BY <2>4, <2>5
<1> QED
  BY <1>1, <1>2

(***************************************************************************)
(* A step that moves no buffer, and one that moves buffers of one side.    *)
(***************************************************************************)
LEMMA PlacesKept ==
  ASSUME OnePlace, UNCHANGED <<alive, held, bufq, locks>>,
         \A i \in Sides, b \in Buffers : InPair(i, b)' <=> InPair(i, b)
  PROVE  OnePlace' /\ Kept
<1>1. \A i \in Sides, b \in Buffers : AtSide(i, b)' <=> AtSide(i, b)
  BY DEF AtSide
<1>2. \A i \in Sides, b \in Buffers : Owned(i, b)' <=> Owned(i, b)
  BY <1>1 DEF Owned
<1>3. OnePlace'
  BY <1>1, <1>2 DEF OnePlace, OnePlaceAt
<1>4. Kept
  BY <1>2 DEF Kept, KeptAt, Loose
<1> QED
  BY <1>3, <1>4

LEMMA OtherSideKept ==
  ASSUME OnePlace, NEW s \in Sides, UNCHANGED alive,
         \A i \in Sides \ {s} :
           bufq'[i] = bufq[i] /\ held'[i] = held[i] /\ locks'[i] = locks[i],
         \A i \in Sides \ {s}, b \in Buffers : InPair(i, b)' <=> InPair(i, b),
         OnePlaceAt(s)', KeptAt(s)
  PROVE  OnePlace' /\ Kept
<1>1. ASSUME NEW i \in Sides \ {s} PROVE OnePlaceAt(i)' /\ KeptAt(i)
  <2>1. \A b \in Buffers : (AtSide(i, b)' <=> AtSide(i, b)) /\ (Owned(i, b)' <=> Owned(i, b))
    BY DEF AtSide, Owned
  <2>2. OnePlaceAt(i)
    BY DEF OnePlace
  <2>3. OnePlaceAt(i)'
    BY <2>1, <2>2 DEF OnePlaceAt
  <2> QED
    BY <2>1, <2>3 DEF KeptAt, Loose
<1>2. OnePlace'
  BY <1>1 DEF OnePlace
<1> QED
  BY <1>1, <1>2 DEF Kept

-----------------------------------------------------------------------------
(* The producers and the queue threads. *)

LEMMA ProduceStep ==
  ASSUME IInv, NEW s \in Sides, Produce(s)
  PROVE  IInv' /\ Kept
<1>1. PICK b \in Buffers :
        /\ locks[s][b] = 0
        /\ locks' = [locks EXCEPT ![s][b] = 1]
        /\ bufq' = [bufq EXCEPT ![s] = Append(@, b)]
  BY DEF Produce
<1>2. UNCHANGED <<alive, state, queue, callback, held, bExit, worker, handler,
                  client, pending, started>>
  BY DEF Produce
<1>3. /\ bufq \in [Sides -> Seq(Buffers)] /\ bufq[s] \in Seq(Buffers)
      /\ locks \in [Sides -> [Buffers -> Nat]] /\ locks[s] \in [Buffers -> Nat]
  BY DEF IInv, TypeOK
<1>4. ~Owned(s, b) /\ Distinct(bufq[s])
  BY <1>1 DEF IInv, OnePlace, OnePlaceAt
<1>5. /\ Append(bufq[s], b) \in Seq(Buffers) /\ Distinct(Append(bufq[s], b))
      /\ \A c : Within(Append(bufq[s], b), c) <=> Within(bufq[s], c) \/ c = b
  BY <1>3, <1>4, AppendWithin DEF Owned
<1>6. /\ bufq' \in [Sides -> Seq(Buffers)] /\ bufq'[s] = Append(bufq[s], b)
      /\ \A i \in Sides \ {s} : bufq'[i] = bufq[i]
  BY <1>1, <1>3, <1>5
<1>7. /\ locks' \in [Sides -> [Buffers -> Nat]]
      /\ \A c \in Buffers : locks'[s][c] = IF c = b THEN 1 ELSE locks[s][c]
      /\ \A i \in Sides \ {s} : locks'[i] = locks[i]
  <2> DEFINE f == [locks[s] EXCEPT ![b] = 1]
  <2>1. f \in [Buffers -> Nat] /\ \A c \in Buffers : f[c] = IF c = b THEN 1 ELSE locks[s][c]
    BY <1>3
  <2>2. locks' = [locks EXCEPT ![s] = f]
    BY <1>1
  <2> HIDE DEF f
  <2> QED
    BY <1>3, <2>1, <2>2
<1>8. TypeOK' /\ PhasesMatch' /\ CommandsMatch'
  BY <1>2, <1>6, <1>7 DEF IInv, TypeOK, PhasesMatch, CommandsMatch, Gone
<1>9. \A i \in Sides, c \in Buffers : (InPair(i, c)' <=> InPair(i, c))
                                      /\ (AtSide(i, c)' <=> AtSide(i, c))
  BY <1>2 DEF InPair, AtSide
<1>10. \A c \in Buffers : Owned(s, c)' <=> Owned(s, c) \/ c = b
  BY <1>5, <1>6, <1>9 DEF Owned
<1>11. OnePlaceAt(s)' /\ KeptAt(s)
  <2>1. OnePlaceAt(s)
    BY DEF IInv, OnePlace
  <2>2. OnePlaceAt(s)'
    BY <1>4, <1>5, <1>6, <1>7, <1>9, <1>10, <2>1 DEF OnePlaceAt, Owned
  <2> QED
    BY <1>7, <1>10, <2>2 DEF KeptAt, Loose
<1>12. OnePlace' /\ Kept
  BY <1>2, <1>6, <1>7, <1>9, <1>11, OtherSideKept DEF IInv
<1> QED
  BY <1>8, <1>12 DEF IInv

LEMMA TakeStep ==
  ASSUME IInv, NEW s \in Sides, TakeBuffer(s)
  PROVE  IInv' /\ Kept
<1> DEFINE h == Head(bufq[s])
<1>1. /\ worker[s] = "read" /\ bufq[s] # <<>>
      /\ held' = [held EXCEPT ![s] = h]
      /\ locks' = Unlocked(locks, s, held[s])
      /\ bufq' = [bufq EXCEPT ![s] = Tail(@)]
      /\ worker' = [worker EXCEPT ![s] = "send"]
      /\ UNCHANGED <<alive, state, queue, callback, bExit, handler, client,
                     pending, started>>
  BY DEF TakeBuffer
<1>2. /\ bufq \in [Sides -> Seq(Buffers)] /\ bufq[s] \in Seq(Buffers)
      /\ locks \in [Sides -> [Buffers -> Nat]]
      /\ held \in [Sides -> Buffers \cup {NoBuffer}]
      /\ worker \in [Sides -> {"none", "read", "send"}]
  BY DEF IInv, TypeOK
<1>3. alive /\ ~Gone
  BY <1>1 DEF IInv, PhasesMatch
<1>4. OnePlaceAt(s)
  BY DEF IInv, OnePlace
<1>5. held[s] # NoBuffer => locks[s][held[s]] = 1
  BY <1>2, <1>3, <1>4 DEF OnePlaceAt, Owned, AtSide
<1>6. /\ locks' \in [Sides -> [Buffers -> Nat]]
      /\ \A i \in Sides \ {s} : locks'[i] = locks[i]
      /\ \A c \in Buffers : locks'[s][c] = IF c = held[s] THEN 0 ELSE locks[s][c]
  <2> DEFINE o == held[s]
  <2>1. o \in Buffers \cup {NoBuffer} /\ (o # NoBuffer => locks[s][o] = 1)
        /\ locks' = Unlocked(locks, s, o)
    BY <1>1, <1>2, <1>5
  <2> HIDE DEF o
  <2>2. /\ Unlocked(locks, s, o) \in [Sides -> [Buffers -> Nat]]
        /\ \A i \in Sides \ {s} : Unlocked(locks, s, o)[i] = locks[i]
        /\ \A c \in Buffers : Unlocked(locks, s, o)[s][c] = IF c = o THEN 0 ELSE locks[s][c]
    BY <1>2, <2>1, UnlockedDoes
  <2> QED
    BY <2>1, <2>2 DEF o
<1>7. /\ Tail(bufq[s]) \in Seq(Buffers) /\ Distinct(Tail(bufq[s])) /\ h \in Buffers
      /\ Within(bufq[s], h)
      /\ \A b : Within(Tail(bufq[s]), b) <=> Within(bufq[s], b) /\ b # h
  BY <1>1, <1>2, <1>4, TailWithin DEF OnePlaceAt
<1> HIDE DEF h
<1>8. /\ bufq' \in [Sides -> Seq(Buffers)] /\ bufq'[s] = Tail(bufq[s])
      /\ \A i \in Sides \ {s} : bufq'[i] = bufq[i]
      /\ held' \in [Sides -> Buffers \cup {NoBuffer}] /\ held'[s] = h
      /\ \A i \in Sides \ {s} : held'[i] = held[i]
      /\ worker' \in [Sides -> {"none", "read", "send"}] /\ worker'[s] = "send"
      /\ \A i \in Sides \ {s} : worker'[i] = worker[i]
  BY <1>1, <1>2, <1>7
<1> HIDE <1>1
<1>9. UNCHANGED <<alive, state, queue, callback, bExit, handler, client, pending, started>>
      /\ worker[s] = "read"
  BY <1>1
<1>10. TypeOK' /\ CommandsMatch'
  BY <1>6, <1>8, <1>9 DEF IInv, TypeOK, CommandsMatch
<1>11. PhasesMatch'
  BY <1>3, <1>8, <1>9, Entries DEF IInv, PhasesMatch, Gone, TypeOK
<1>12. \A i \in Sides, c \in Buffers : InPair(i, c)' <=> InPair(i, c)
  BY <1>9 DEF InPair
<1>13. \A c \in Buffers : /\ AtSide(s, c) <=> held[s] = c
                          /\ AtSide(s, c)' <=> c = h
                          /\ Within(bufq'[s], c) <=> Within(bufq[s], c) /\ c # h
  BY <1>3, <1>7, <1>8, <1>9 DEF AtSide
<1>14. OnePlaceAt(s)' /\ KeptAt(s)
  <2>1. h # held[s] /\ locks[s][h] = 1 /\ ~InPair(s, h)
    BY <1>4, <1>7, <1>13 DEF OnePlaceAt, Owned
  <2>2. OnePlaceAt(s)'
    BY <1>4, <1>6, <1>7, <1>8, <1>12, <1>13, <2>1 DEF OnePlaceAt, Owned
  <2>3. KeptAt(s)
    BY <1>6, <1>12, <1>13 DEF KeptAt, Loose, Owned
  <2> QED
    BY <2>2, <2>3
<1>15. OnePlace' /\ Kept
  BY <1>6, <1>8, <1>9, <1>12, <1>14, OtherSideKept DEF IInv
<1> QED
  BY <1>10, <1>11, <1>15 DEF IInv

LEMMA TellStep ==
  ASSUME IInv, NEW s \in Sides, Tell(s)
  PROVE  IInv' /\ Kept
<1>1. /\ worker[s] = "send" /\ worker' = [worker EXCEPT ![s] = "read"]
      /\ UNCHANGED <<alive, state, callback, bExit, handler, client, pending, started,
                     held, bufq, locks>>
      /\ \/ UNCHANGED queue
         \/ Len(queue) < MaxCommands /\ queue' = Append(queue, Notice(s))
  BY DEF Tell, Queued, Notice, buffers
<1>2. queue \in Seq(Queueable) /\ Len(queue) \in Nat /\ Notice(s) \in Queueable
      /\ Len(queue) <= MaxCommands
  BY Entries DEF IInv, TypeOK
<1>3. /\ queue' \in Seq(Queueable) /\ Len(queue') <= MaxCommands
      /\ \A k \in Commands : Times(queue', Request(k)) = Times(queue, Request(k))
  <2>1. CASE UNCHANGED queue
    BY <1>2, <2>1
  <2>2. CASE Len(queue) < MaxCommands /\ queue' = Append(queue, Notice(s))
    <3>1. queue' \in Seq(Queueable) /\ Len(queue') = Len(queue) + 1
      BY <1>2, <2>2
    <3>2. ASSUME NEW k \in Commands PROVE Times(queue', Request(k)) = Times(queue, Request(k))
      <4>1. Notice(s) # Request(k)
        BY Entries
      <4>2. Times(queue, Request(k)) \in Nat
        BY <1>2, TimesNat
      <4>3. Times(queue', Request(k))
              = Times(queue, Request(k)) + (IF Notice(s) = Request(k) THEN 1 ELSE 0)
        BY <1>2, <2>2, TimesAppend
      <4> QED
        BY <4>1, <4>2, <4>3
    <3> QED
      BY <1>2, <2>2, <3>1, <3>2, BufSyncAssumption
  <2> QED
    BY <1>1, <2>1, <2>2
<1>4. /\ worker' \in [Sides -> {"none", "read", "send"}] /\ worker'[s] = "read"
      /\ \A i \in Sides \ {s} : worker'[i] = worker[i]
  BY <1>1 DEF IInv, TypeOK
<1>5. TypeOK' /\ CommandsMatch'
  BY <1>1, <1>3, <1>4 DEF IInv, TypeOK, CommandsMatch
<1>6. PhasesMatch'
  BY <1>1, <1>4, Entries DEF IInv, PhasesMatch, Gone, TypeOK
<1>7. OnePlace' /\ Kept
  BY <1>1, PlacesKept DEF IInv, InPair
<1> QED
  BY <1>5, <1>6, <1>7 DEF IInv

LEMMA TimeOutStep ==
  ASSUME IInv, NEW s \in Sides, TimeOut(s)
  PROVE  IInv' /\ Kept
<1>1. /\ worker[s] = "read" /\ worker' = [worker EXCEPT ![s] = "none"]
      /\ UNCHANGED <<alive, state, queue, callback, bExit, handler, client, pending, started,
                     held, bufq, locks>>
  BY DEF TimeOut, buffers
<1>2. /\ worker' \in [Sides -> {"none", "read", "send"}] /\ worker'[s] = "none"
      /\ \A i \in Sides \ {s} : worker'[i] = worker[i]
  BY <1>1 DEF IInv, TypeOK
<1>3. TypeOK' /\ CommandsMatch'
  BY <1>1, <1>2 DEF IInv, TypeOK, CommandsMatch
<1>4. PhasesMatch'
  BY <1>1, <1>2, Entries DEF IInv, PhasesMatch, Gone, TypeOK
<1>5. OnePlace' /\ Kept
  BY <1>1, PlacesKept DEF IInv, InPair
<1> QED
  BY <1>3, <1>4, <1>5 DEF IInv

-----------------------------------------------------------------------------
(* The client. *)

LEMMA InitStep ==
  ASSUME IInv, BufSyncCtrlInit
  PROVE  IInv' /\ Kept
<1>1. /\ ~alive /\ client.at = "idle" /\ alive' = TRUE /\ state' = "Initialize"
      /\ queue' = <<>> /\ callback' = FALSE /\ started' = FALSE
      /\ held' = [i \in Sides |-> NoBuffer] /\ bExit' = [i \in Sides |-> FALSE]
      /\ worker' = [i \in Sides |-> "read"] /\ handler' = HandlerAt("read")
      /\ UNCHANGED <<client, bufq, locks, pending>>
  BY DEF BufSyncCtrlInit
<1>2. handler.at = "none" /\ handler.cmd = NoCommand /\ client.side # 1 /\ ~Gone
  BY <1>1 DEF IInv, PhasesMatch, CommandsMatch, Gone
<1>3. handler'.at = "read" /\ handler'.cmd = NoCommand
  BY <1>1, Idleness
<1>4. TypeOK'
  <2>1. queue' \in Seq(Queueable) /\ Len(queue') <= MaxCommands
    BY <1>1, BufSyncAssumption
  <2> QED
    BY <1>1, <2>1, Idleness DEF IInv, TypeOK, States
<1>5. PhasesMatch'
  BY <1>1, <1>2, Entries DEF IInv, PhasesMatch, Gone
<1>6. CommandsMatch'
  <2>1. \A k \in Commands : pending'[k] = 0 + (IF handler'.cmd.id = k THEN 1 ELSE 0)
    <3>1. queue = <<>>
      BY <1>1 DEF IInv, PhasesMatch
    <3> QED
      BY <1>1, <1>2, <1>3, <3>1, TimesEmpty DEF IInv, CommandsMatch
  <2> QED
    BY <1>1, <1>3, <2>1, TimesEmpty DEF CommandsMatch
<1>7. \A i \in Sides, b \in Buffers : /\ ~AtSide(i, b) /\ ~AtSide(i, b)'
                                      /\ ~InPair(i, b) /\ ~InPair(i, b)'
  BY <1>1, <1>2, <1>3, BufSyncAssumption DEF AtSide, InPair
<1>8. OnePlace' /\ Kept
  BY <1>1, <1>7 DEF IInv, OnePlace, OnePlaceAt, Owned, Kept, KeptAt, Loose
<1> QED
  BY <1>4, <1>5, <1>6, <1>8 DEF IInv

LEMMA EnterStep ==
  ASSUME IInv, NEW states, NEW l, NEW k, Enter(states, l, k),
         \/ l = "send" /\ k \in Commands
         \/ l = "end" /\ k = "INVALID"
  PROVE  IInv' /\ Kept
<1>1. /\ alive /\ client.at = "idle" /\ client' = [at |-> l, cmd |-> k, side |-> 0]
      /\ UNCHANGED <<alive, state, queue, callback, bExit, worker, handler,
                     held, bufq, locks, pending, started>>
  BY DEF Enter, Ready, buffers
<1>2. TypeOK' /\ CommandsMatch'
  BY <1>1, Entries DEF IInv, TypeOK, CommandsMatch
<1>3. PhasesMatch'
  BY <1>1, Entries DEF IInv, PhasesMatch, Gone
<1>4. OnePlace' /\ Kept
  BY <1>1, PlacesKept DEF IInv, InPair
<1> QED
  BY <1>2, <1>3, <1>4 DEF IInv

LEMMA CallbackSetStep ==
  ASSUME IInv, NEW b \in BOOLEAN, SetCallback(b)
  PROVE  IInv' /\ Kept
<1>1. /\ callback' = b
      /\ UNCHANGED <<alive, state, queue, client, bExit, worker, handler,
                     held, bufq, locks, pending, started>>
  BY DEF SetCallback, buffers
<1>2. TypeOK' /\ CommandsMatch' /\ PhasesMatch'
  BY <1>1 DEF IInv, TypeOK, CommandsMatch, PhasesMatch, Gone
<1>3. OnePlace' /\ Kept
  BY <1>1, PlacesKept DEF IInv, InPair
<1> QED
  BY <1>2, <1>3 DEF IInv

LEMMA SendStep ==
  ASSUME IInv, SendCommand
  PROVE  IInv' /\ Kept
<1> DEFINE k == client.cmd
<1>1. /\ client.at = "send" /\ Len(queue) < MaxCommands
      /\ queue' = Append(queue, Request(k))
      /\ client' = IF k = "SHUTDOWN" THEN ClientAt("join") ELSE ClientAt("idle")
      /\ pending' = [j \in Commands |-> pending[j] + IF j = k THEN 1 ELSE 0]
      /\ UNCHANGED <<alive, state, callback, bExit, worker, handler, held, bufq, locks,
                     started>>
  BY DEF SendCommand, Queued, Request, buffers
<1>2. /\ k \in Commands \cup {"SHUTDOWN"} /\ alive /\ client.side # 1
      /\ queue \in Seq(Queueable) /\ pending \in [Commands -> Nat] /\ Request(k) \in Queueable
  BY <1>1, Entries DEF IInv, TypeOK, PhasesMatch
<1> HIDE DEF k
<1>3. queue' \in Seq(Queueable) /\ Len(queue') <= MaxCommands
  BY <1>1, <1>2, BufSyncAssumption
<1>4. ASSUME NEW j \in Commands
      PROVE  /\ Times(queue', Request(j)) = Times(queue, Request(j)) + (IF j = k THEN 1 ELSE 0)
             /\ pending'[j] = pending[j] + (IF j = k THEN 1 ELSE 0)
             /\ pending'[j] \in Nat /\ Times(queue, Request(j)) \in Nat
  <2>1. Request(k) = Request(j) <=> j = k
    BY <1>2, Entries
  <2>2. Times(queue', Request(j))
          = Times(queue, Request(j)) + (IF Request(k) = Request(j) THEN 1 ELSE 0)
    BY <1>1, <1>2, TimesAppend
  <2>3. Times(queue, Request(j)) \in Nat
    BY <1>2, TimesNat
  <2> QED
    BY <1>1, <1>2, <2>1, <2>2, <2>3
<1>5. pending' \in [Commands -> Nat]
  BY <1>1, <1>4
<1>6. client' \in [at : {"idle", "send", "end", "await", "cancel", "join", "free"},
                   cmd : Commands \cup {"SHUTDOWN", "INVALID"}, side : Sides]
  BY <1>1, Idleness
<1>7. TypeOK'
  BY <1>1, <1>3, <1>5, <1>6 DEF IInv, TypeOK
<1>8. CommandsMatch'
  <2>1. \A j \in Commands : pending'[j] = Times(queue', Request(j))
                                            + (IF handler'.cmd.id = j THEN 1 ELSE 0)
    BY <1>1, <1>4 DEF IInv, CommandsMatch
  <2> QED
    BY <1>1, <2>1 DEF IInv, CommandsMatch
<1>9. PhasesMatch'
  <2>1. /\ client'.at = (IF k = "SHUTDOWN" THEN "join" ELSE "idle")
        /\ client'.cmd = "INVALID" /\ client'.side = 0
    BY <1>1, Idleness
  <2>2. k = "SHUTDOWN" => Gone
    BY DEF k, Gone
  <2> QED
    BY <1>1, <1>2, <2>1, <2>2 DEF IInv, PhasesMatch, Gone
<1>10. OnePlace' /\ Kept
  BY <1>1, PlacesKept DEF IInv, InPair
<1> QED
  BY <1>7, <1>8, <1>9, <1>10 DEF IInv

LEMMA EndStep ==
  ASSUME IInv, EndQueueThread \/ AwaitQueueThread
  PROVE  IInv' /\ Kept
<1>1. /\ client.at \in {"end", "await"}
      /\ client'.at = (IF client.at = "end" THEN "await" ELSE "cancel")
      /\ client'.cmd = client.cmd /\ client'.side = client.side
      /\ client' \in [at : {"idle", "send", "end", "await", "cancel", "join", "free"},
                      cmd : Commands \cup {"SHUTDOWN", "INVALID"}, side : Sides]
      /\ bExit' \in [Sides -> BOOLEAN]
      /\ client.at = "await" => worker[client.side] = "none"
      /\ UNCHANGED <<alive, state, queue, callback, worker, handler,
                     held, bufq, locks, pending, started>>
  BY DEF EndQueueThread, AwaitQueueThread, buffers, IInv, TypeOK
<1>2. TypeOK' /\ CommandsMatch'
  BY <1>1 DEF IInv, TypeOK, CommandsMatch
<1>3. PhasesMatch'
  BY <1>1 DEF IInv, PhasesMatch, Gone
<1>4. OnePlace' /\ Kept
  BY <1>1, PlacesKept DEF IInv, InPair
<1> QED
  BY <1>2, <1>3, <1>4 DEF IInv

LEMMA CancelStep ==
  ASSUME IInv, CancelBuffers
  PROVE  IInv' /\ Kept
<1>0. PICK s \in Sides : s = client.side
  BY DEF IInv, TypeOK
<1> DEFINE h == Head(bufq[s])
<1>1. /\ client.at = "cancel" /\ alive /\ client.cmd = "INVALID" /\ ~Gone
      /\ UNCHANGED <<alive, state, queue, callback, held, bExit, worker, handler,
                     pending, started>>
  BY DEF CancelBuffers, IInv, PhasesMatch, Gone
<1>2. /\ s \in Sides /\ bufq \in [Sides -> Seq(Buffers)] /\ bufq[s] \in Seq(Buffers)
      /\ locks \in [Sides -> [Buffers -> Nat]]
      /\ OnePlaceAt(s) /\ worker[s] = "none"
  BY <1>0, <1>1 DEF IInv, TypeOK, OnePlace, PhasesMatch
<1>3. CASE bufq[s] # <<>>
  <2>1. /\ locks' = Unlocked(locks, s, h) /\ bufq' = [bufq EXCEPT ![s] = Tail(@)]
        /\ UNCHANGED client
    BY <1>0, <1>3 DEF CancelBuffers
  <2>2. /\ Tail(bufq[s]) \in Seq(Buffers) /\ Distinct(Tail(bufq[s])) /\ h \in Buffers
        /\ Within(bufq[s], h)
        /\ \A b : Within(Tail(bufq[s]), b) <=> Within(bufq[s], b) /\ b # h
    BY <1>2, <1>3, TailWithin DEF OnePlaceAt
  <2> HIDE DEF h
  <2>3. locks[s][h] = 1
    BY <1>2, <2>2 DEF OnePlaceAt, Owned
  <2>4. /\ locks' \in [Sides -> [Buffers -> Nat]]
        /\ \A i \in Sides \ {s} : locks'[i] = locks[i]
        /\ \A c \in Buffers : locks'[s][c] = IF c = h THEN 0 ELSE locks[s][c]
    <3>1. h \in Buffers \cup {NoBuffer} /\ (h # NoBuffer => locks[s][h] = 1)
      BY <2>2, <2>3
    <3>2. /\ Unlocked(locks, s, h) \in [Sides -> [Buffers -> Nat]]
          /\ \A i \in Sides \ {s} : Unlocked(locks, s, h)[i] = locks[i]
          /\ \A c \in Buffers : Unlocked(locks, s, h)[s][c] = IF c = h THEN 0 ELSE locks[s][c]
      BY <1>2, <3>1, UnlockedDoes
    <3> QED
      BY <2>1, <3>2
  <2>5. /\ bufq' \in [Sides -> Seq(Buffers)] /\ bufq'[s] = Tail(bufq[s])
        /\ \A i \in Sides \ {s} : bufq'[i] = bufq[i]
    BY <1>2, <2>1, <2>2
  <2>6. TypeOK' /\ CommandsMatch' /\ PhasesMatch'
    BY <1>1, <2>1, <2>4, <2>5 DEF IInv, TypeOK, CommandsMatch, PhasesMatch, Gone
  <2>7. \A i \in Sides, c \in Buffers : (InPair(i, c)' <=> InPair(i, c))
                                        /\ (AtSide(i, c)' <=> AtSide(i, c))
    BY <1>1 DEF InPair, AtSide
  <2>8. OnePlaceAt(s)'
    BY <1>2, <2>2, <2>4, <2>5, <2>7 DEF OnePlaceAt, Owned
  <2>9. KeptAt(s)
    BY <2>2, <2>4, <2>5, <2>7 DEF KeptAt, Loose, Owned
  <2>10. OnePlace' /\ Kept
    BY <1>1, <1>2, <2>4, <2>5, <2>7, <2>8, <2>9, OtherSideKept DEF IInv
  <2> QED
    BY <2>6, <2>10 DEF IInv
<1>4. CASE bufq[s] = <<>>
  <2>1. /\ client' = IF s = 0 THEN [client EXCEPT !.at = "end", !.side = 1]
                     ELSE [at |-> "send", cmd |-> "SHUTDOWN", side |-> 0]
        /\ UNCHANGED <<bufq, locks>>
    BY <1>0, <1>4 DEF CancelBuffers
  <2>2. TypeOK' /\ CommandsMatch'
    BY <1>1, <1>2, <2>1, Entries DEF IInv, TypeOK, CommandsMatch
  <2>3. PhasesMatch'
    <3>1. CASE s = 0
      <4>1. client'.at = "end" /\ client'.side = 1 /\ client'.cmd = "INVALID"
        BY <1>1, <2>1, <3>1 DEF IInv, TypeOK
      <4> QED
        BY <1>1, <1>2, <2>1, <3>1, <4>1 DEF IInv, PhasesMatch, Gone
    <3>2. CASE s = 1
      <4>1. client'.at = "send" /\ client'.side = 0 /\ client'.cmd = "SHUTDOWN"
        BY <2>1, <3>2
      <4>2. \A i \in Sides : worker[i] = "none"
        BY <1>0, <1>1, <1>2, <3>2, Entries DEF IInv, PhasesMatch
      <4> QED
        BY <1>1, <4>1, <4>2 DEF IInv, PhasesMatch, Gone
    <3> QED
      BY <1>2, <3>1, <3>2, Entries
  <2>4. OnePlace' /\ Kept
    BY <1>1, <2>1, PlacesKept DEF IInv, InPair
  <2> QED
    BY <2>2, <2>3, <2>4 DEF IInv
<1> QED
  BY <1>3, <1>4

LEMMA JoinStep ==
  ASSUME IInv, Join
  PROVE  IInv' /\ Kept
<1>1. /\ client.at = "join" /\ handler.at = "none" /\ client' = ClientAt("free")
      /\ UNCHANGED <<alive, state, queue, callback, bExit, worker, handler,
                     held, bufq, locks, pending, started>>
  BY DEF Join, buffers
<1>2. client'.at = "free" /\ client'.side = 0 /\ client'.cmd = "INVALID"
  BY <1>1, Idleness
<1>3. TypeOK' /\ CommandsMatch'
  BY <1>1, Idleness DEF IInv, TypeOK, CommandsMatch
<1>4. PhasesMatch'
  BY <1>1, <1>2 DEF IInv, PhasesMatch, Gone
<1>5. OnePlace' /\ Kept
  BY <1>1, PlacesKept DEF IInv, InPair
<1> QED
  BY <1>3, <1>4, <1>5 DEF IInv

(***************************************************************************)
(* Nothing is left to cancel but requests that are still counted.          *)
(***************************************************************************)
LEMMA ReadDoes ==
  ASSUME IInv, queue # <<>>, handler.cmd = NoCommand
  PROVE  /\ Head(queue) \in Queueable /\ Tail(queue) \in Seq(Queueable)
         /\ Len(Tail(queue)) <= MaxCommands
         /\ \A k \in Commands :
              /\ Times(Tail(queue), Request(k)) \in Nat
              /\ pending[k] = Times(Tail(queue), Request(k))
                                + (IF Head(queue).id = k THEN 1 ELSE 0)
<1>1. queue \in Seq(Queueable) /\ Len(queue) \in Nat /\ Len(queue) <= MaxCommands
  BY DEF IInv, TypeOK
<1>2. /\ Head(queue) \in Queueable /\ Tail(queue) \in Seq(Queueable)
      /\ Len(Tail(queue)) = Len(queue) - 1
  BY <1>1, HeadTailProperties
<1>3. ASSUME NEW k \in Commands
      PROVE  /\ Times(Tail(queue), Request(k)) \in Nat
             /\ pending[k] = Times(Tail(queue), Request(k))
                               + (IF Head(queue).id = k THEN 1 ELSE 0)
  <2>1. Times(queue, Request(k)) = Times(Tail(queue), Request(k))
                                     + (IF Head(queue) = Request(k) THEN 1 ELSE 0)
    BY <1>1, TimesTail
  <2>2. Times(Tail(queue), Request(k)) \in Nat
    BY <1>2, TimesNat
  <2>3. Head(queue) = Request(k) <=> Head(queue).id = k
    BY <1>2, Entries
  <2>4. pending[k] = Times(queue, Request(k))
    <3>1. handler.cmd.id # k
      BY Entries
    <3>2. Times(queue, Request(k)) \in Nat
      BY <1>1, TimesNat
    <3> QED
      BY <3>1, <3>2 DEF IInv, CommandsMatch
  <2> QED
    BY <2>1, <2>2, <2>3, <2>4
<1> QED
  BY <1>1, <1>2, <1>3, BufSyncAssumption

LEMMA FreeStep ==
  ASSUME IInv, Free
  PROVE  IInv' /\ Kept
<1>1. /\ client.at = "free" /\ handler.at = "none" /\ handler.cmd = NoCommand /\ alive
      /\ UNCHANGED <<state, callback, bExit, worker, handler, held, bufq, locks, started>>
      /\ \A i \in Sides : worker[i] = "none"
  BY DEF Free, buffers, IInv, PhasesMatch, CommandsMatch, Gone
<1>2. CASE queue = <<>>
  <2>1. /\ alive' = FALSE /\ client' = ClientAt("idle") /\ UNCHANGED <<queue, pending>>
    BY <1>2 DEF Free
  <2>2. client'.at = "idle" /\ client'.side = 0 /\ client'.cmd = "INVALID"
    BY <2>1, Idleness
  <2>3. TypeOK' /\ CommandsMatch'
    BY <1>1, <2>1, Idleness DEF IInv, TypeOK, CommandsMatch
  <2>4. PhasesMatch'
    BY <1>1, <1>2, <2>1, <2>2 DEF IInv, PhasesMatch, Gone
  <2>5. OnePlace' /\ Kept
    BY <1>1, <2>1 DEF IInv, OnePlace, OnePlaceAt, Owned, AtSide, InPair, Kept, KeptAt
  <2> QED
    BY <2>3, <2>4, <2>5 DEF IInv
<1>3. CASE queue # <<>>
  <2>1. /\ queue' = Tail(queue) /\ UNCHANGED <<alive, client>>
        /\ pending' = [k \in Commands |-> pending[k] - IF k = Head(queue).id THEN 1 ELSE 0]
    BY <1>3 DEF Free
  <2>2. /\ queue' \in Seq(Queueable) /\ Len(queue') <= MaxCommands
        /\ \A k \in Commands : Times(queue', Request(k)) \in Nat
                               /\ pending'[k] = Times(queue', Request(k))
    <3>1. /\ queue' \in Seq(Queueable) /\ Len(queue') <= MaxCommands
          /\ \A k \in Commands :
               /\ Times(queue', Request(k)) \in Nat
               /\ pending[k] = Times(queue', Request(k)) + (IF Head(queue).id = k THEN 1 ELSE 0)
      BY <1>1, <1>3, <2>1, ReadDoes
    <3> QED
      BY <2>1, <3>1
  <2>3. pending' \in [Commands -> Nat]
    BY <2>1, <2>2
  <2>4. TypeOK'
    BY <1>1, <2>1, <2>2, <2>3 DEF IInv, TypeOK
  <2>5. CommandsMatch'
    <3>1. \A k \in Commands : handler'.cmd.id # k
      BY <1>1, Entries
    <3> QED
      BY <1>1, <2>2, <3>1 DEF CommandsMatch
  <2>6. PhasesMatch'
    BY <1>1, <2>1 DEF IInv, PhasesMatch, Gone
  <2>7. OnePlace' /\ Kept
    BY <1>1, <2>1, PlacesKept DEF IInv, InPair
  <2> QED
    BY <2>4, <2>5, <2>6, <2>7 DEF IInv
<1> QED
  BY <1>2, <1>3

-----------------------------------------------------------------------------
(* The handler. *)

HandlerType == [at : {"none", "read", "execute", "call", "return", "complete"},
                cmd : Queueable \cup {NoCommand},
                pair : [Sides -> Buffers \cup {NoBuffer}]]

LEMMA ReadStep ==
  ASSUME IInv, HandlerRead
  PROVE  IInv' /\ Kept
<1>1. /\ handler.at = "read" /\ handler.cmd = NoCommand /\ queue # <<>> /\ alive
      /\ queue' = Tail(queue)
      /\ handler' = [HandlerAt("execute") EXCEPT !.cmd = Head(queue)]
      /\ UNCHANGED <<alive, state, callback, bExit, worker, client, held, bufq, locks,
                     pending, started>>
  BY DEF HandlerRead, buffers, IInv, PhasesMatch, CommandsMatch
<1>2. /\ Head(queue) \in Queueable /\ Tail(queue) \in Seq(Queueable)
      /\ Len(Tail(queue)) <= MaxCommands
      /\ \A k \in Commands :
           /\ Times(Tail(queue), Request(k)) \in Nat
           /\ pending[k] = Times(Tail(queue), Request(k))
                             + (IF Head(queue).id = k THEN 1 ELSE 0)
  BY <1>1, ReadDoes
<1>3. handler'.at = "execute" /\ handler'.cmd = Head(queue) /\ handler' \in HandlerType
  <2>1. handler' = [at |-> "execute", cmd |-> Head(queue), pair |-> [i \in Sides |-> NoBuffer]]
    BY <1>1 DEF HandlerAt
  <2> QED
    BY <1>2, <2>1 DEF HandlerType
<1>4. TypeOK'
  BY <1>1, <1>2, <1>3 DEF IInv, TypeOK, HandlerType
<1>5. CommandsMatch'
  BY <1>1, <1>2, <1>3 DEF CommandsMatch
<1>6. PhasesMatch'
  BY <1>1, <1>3 DEF IInv, PhasesMatch, Gone
<1>7. OnePlace' /\ Kept
  BY <1>1, <1>3, PlacesKept DEF IInv, InPair
<1> QED
  BY <1>4, <1>5, <1>6, <1>7 DEF IInv

(***************************************************************************)
(* A command that is carried out or refused, and will be completed.        *)
(***************************************************************************)
LEMMA HandleStep ==
  ASSUME IInv, HandleStart \/ HandleStop \/ HandleWrongState
  PROVE  IInv' /\ Kept
<1>1. /\ handler.at = "execute" /\ handler.cmd.id \in {"START", "STOP"} /\ alive
      /\ handler' = [handler EXCEPT !.at = "complete"]
      /\ state' \in States /\ started' \in BOOLEAN
      /\ UNCHANGED <<alive, queue, callback, bExit, worker, client, held, bufq, locks,
                     pending>>
  BY DEF HandleStart, HandleStop, HandleWrongState, Executes, buffers, IInv, PhasesMatch,
         TypeOK, States
<1>2. handler'.at = "complete" /\ handler'.cmd = handler.cmd /\ handler' \in HandlerType
  BY <1>1 DEF IInv, TypeOK, HandlerType
<1>3. TypeOK'
  BY <1>1, <1>2 DEF IInv, TypeOK, HandlerType
<1>4. CommandsMatch'
  BY <1>1, <1>2, Entries DEF IInv, CommandsMatch
<1>5. PhasesMatch'
  BY <1>1, <1>2 DEF IInv, PhasesMatch, Gone
<1>6. OnePlace' /\ Kept
  BY <1>1, <1>2, PlacesKept DEF IInv, InPair
<1> QED
  BY <1>3, <1>4, <1>5, <1>6 DEF IInv

LEMMA ShutDownStep ==
  ASSUME IInv, HandleShutDown
  PROVE  IInv' /\ Kept
<1>1. /\ handler.at = "execute" /\ handler.cmd.id = "SHUTDOWN" /\ alive
      /\ handler' = HandlerAt("none") /\ state' = "Invalid"
      /\ UNCHANGED <<alive, queue, callback, bExit, worker, client, held, bufq, locks,
                     pending, started>>
  BY DEF HandleShutDown, Executes, buffers, IInv, PhasesMatch
<1>2. handler'.at = "none" /\ handler'.cmd = NoCommand /\ handler' \in HandlerType
  BY <1>1, Idleness DEF HandlerType
<1>3. TypeOK'
  BY <1>1, <1>2 DEF IInv, TypeOK, HandlerType, States
<1>4. CommandsMatch'
  <2>1. \A k \in Commands : handler.cmd.id # k /\ handler'.cmd.id # k
    BY <1>1, <1>2, Entries
  <2> QED
    BY <1>1, <1>2, <2>1 DEF IInv, CommandsMatch
<1>5. PhasesMatch'
  BY <1>1, <1>2 DEF IInv, PhasesMatch, Gone
<1>6. OnePlace' /\ Kept
  BY <1>1, <1>2, PlacesKept DEF IInv, InPair
<1> QED
  BY <1>3, <1>4, <1>5, <1>6 DEF IInv

LEMMA CompleteStep ==
  ASSUME IInv, HandlerComplete
  PROVE  IInv' /\ Kept
<1>1. /\ handler.at = "complete" /\ handler.cmd.id \in Commands /\ alive
      /\ handler' = HandlerAt("read")
      /\ pending' = [k \in Commands |-> pending[k] - IF k = handler.cmd.id THEN 1 ELSE 0]
      /\ UNCHANGED <<alive, state, queue, callback, bExit, worker, client, held, bufq, locks,
                     started>>
  BY DEF HandlerComplete, buffers, IInv, PhasesMatch, CommandsMatch
<1>2. handler'.at = "read" /\ handler'.cmd = NoCommand /\ handler' \in HandlerType
  BY <1>1, Idleness DEF HandlerType
<1>3. \A k \in Commands : /\ Times(queue, Request(k)) \in Nat
                          /\ pending'[k] = Times(queue, Request(k))
                          /\ handler'.cmd.id # k
  <2>1. \A k \in Commands : Times(queue, Request(k)) \in Nat
    BY TimesNat DEF IInv, TypeOK
  <2> QED
    BY <1>1, <1>2, <2>1, Entries DEF IInv, CommandsMatch
<1>4. pending' \in [Commands -> Nat]
  BY <1>1, <1>3
<1>5. TypeOK'
  BY <1>1, <1>2, <1>4 DEF IInv, TypeOK, HandlerType
<1>6. CommandsMatch'
  BY <1>1, <1>2, <1>3 DEF CommandsMatch
<1>7. PhasesMatch'
  BY <1>1, <1>2 DEF IInv, PhasesMatch, Gone
<1>8. OnePlace' /\ Kept
  BY <1>1, <1>2, PlacesKept DEF IInv, InPair
<1> QED
  BY <1>5, <1>6, <1>7, <1>8 DEF IInv

(***************************************************************************)
(* What the handler does with a notice, and what becomes of the commands.  *)
(***************************************************************************)
LEMMA NoticeDone ==
  ASSUME IInv, handler.cmd.id = "PROCESS_BUFFER", handler.at # "none",
         \/ handler' = HandlerAt("read")
         \/ handler' \in HandlerType /\ handler'.at \in {"call", "return"}
            /\ handler'.cmd = handler.cmd,
         UNCHANGED <<alive, state, queue, callback, bExit, worker, client, bufq, pending,
                     started>>,
         held' \in [Sides -> Buffers \cup {NoBuffer}],
         locks' \in [Sides -> [Buffers -> Nat]], OnePlace'
  PROVE  IInv'
<1>1. /\ handler' \in HandlerType /\ alive
      /\ \/ handler'.at = "read" /\ handler'.cmd = NoCommand
         \/ handler'.at \in {"call", "return"} /\ handler'.cmd.id = "PROCESS_BUFFER"
  BY Idleness DEF HandlerType, IInv, PhasesMatch
<1>2. TypeOK'
  BY <1>1 DEF IInv, TypeOK, HandlerType
<1>3. CommandsMatch'
  <2>1. \A k \in Commands : handler.cmd.id # k /\ handler'.cmd.id # k
    BY <1>1, Entries
  <2> QED
    BY <1>1, <2>1 DEF IInv, CommandsMatch
<1>4. PhasesMatch'
  BY <1>1 DEF IInv, PhasesMatch, Gone
<1> QED
  BY <1>2, <1>3, <1>4 DEF IInv

LEMMA DropStep ==
  ASSUME IInv, DropStopped
  PROVE  IInv' /\ Kept
<1>0. handler.cmd.id = "PROCESS_BUFFER" /\ handler.at = "execute" /\ alive
  BY DEF DropStopped, Executes, IInv, PhasesMatch
<1>1. PICK s \in Sides : s = handler.cmd.ctx
  BY <1>0, Entries DEF IInv, TypeOK
<1> DEFINE o == held[s]
<1>2. /\ locks' = Unlocked(locks, s, o)
      /\ held' = [held EXCEPT ![s] = NoBuffer]
      /\ handler' = HandlerAt("read")
      /\ UNCHANGED <<alive, state, queue, callback, bExit, worker, client, bufq,
                     pending, started>>
  BY <1>1 DEF DropStopped
<1>3. /\ locks \in [Sides -> [Buffers -> Nat]]
      /\ held \in [Sides -> Buffers \cup {NoBuffer}] /\ OnePlaceAt(s)
  BY DEF IInv, TypeOK, OnePlace
<1>4. \A c \in Buffers : AtSide(s, c) <=> c = o
  BY <1>0 DEF AtSide
<1>5. o \in Buffers \cup {NoBuffer} /\ (o # NoBuffer => locks[s][o] = 1)
  BY <1>3, <1>4 DEF OnePlaceAt, Owned
<1>6. /\ held' \in [Sides -> Buffers \cup {NoBuffer}] /\ held'[s] = NoBuffer
      /\ \A i \in Sides \ {s} : held'[i] = held[i]
  BY <1>2, <1>3
<1> HIDE DEF o
<1>7. /\ locks' \in [Sides -> [Buffers -> Nat]]
      /\ \A i \in Sides \ {s} : locks'[i] = locks[i]
      /\ \A c \in Buffers : locks'[s][c] = IF c = o THEN 0 ELSE locks[s][c]
  BY <1>2, <1>3, <1>5, UnlockedDoes
<1>8. \A i \in Sides, c \in Buffers : ~InPair(i, c) /\ ~InPair(i, c)'
  BY <1>0, <1>2, Idleness DEF InPair
<1>9. \A c \in Buffers : ~AtSide(s, c)'
  BY <1>6, BufSyncAssumption DEF AtSide
<1>10. bufq'[s] = bufq[s]
  BY <1>2
<1>11. OnePlaceAt(s)'
  BY <1>3, <1>4, <1>7, <1>8, <1>9, <1>10 DEF OnePlaceAt, Owned
<1>12. KeptAt(s)
  BY <1>4, <1>7, <1>8, <1>9, <1>10 DEF KeptAt, Loose, Owned
<1>13. OnePlace' /\ Kept
  BY <1>2, <1>6, <1>7, <1>8, <1>11, <1>12, OtherSideKept DEF IInv
<1>14. IInv'
  BY <1>0, <1>2, <1>6, <1>7, <1>13, NoticeDone
<1> QED
  BY <1>13, <1>14

LEMMA PairStep ==
  ASSUME IInv, Pair
  PROVE  IInv' /\ Kept
<1>1. /\ handler.cmd.id = "PROCESS_BUFFER" /\ handler.at = "execute" /\ alive
      /\ UNCHANGED <<alive, state, queue, callback, bExit, worker, client, bufq, locks,
                     pending, started>>
  BY DEF Pair, Executes, IInv, PhasesMatch
<1>2. /\ held \in [Sides -> Buffers \cup {NoBuffer}] /\ handler \in HandlerType
      /\ locks \in [Sides -> [Buffers -> Nat]]
      /\ \A i \in Sides : OnePlaceAt(i)
  BY DEF IInv, TypeOK, OnePlace, HandlerType
<1>3. CASE handler' = [handler EXCEPT !.at = "call", !.pair = held]
           /\ held' = [i \in Sides |-> NoBuffer]
  <2>1. /\ handler' \in HandlerType /\ handler'.at = "call" /\ handler'.cmd = handler.cmd
        /\ handler'.pair = held
    BY <1>2, <1>3 DEF HandlerType
  <2>2. held' \in [Sides -> Buffers \cup {NoBuffer}]
        /\ \A i \in Sides : held'[i] = NoBuffer
    BY <1>3
  <2>3. ASSUME NEW i \in Sides, NEW c \in Buffers
        PROVE  ~InPair(i, c) /\ (InPair(i, c)' <=> AtSide(i, c)) /\ ~AtSide(i, c)'
    BY <1>1, <2>1, <2>2, BufSyncAssumption DEF InPair, AtSide
  <2>4. ASSUME NEW i \in Sides PROVE OnePlaceAt(i)'
    BY <1>1, <1>2, <2>3 DEF OnePlaceAt, Owned
  <2>5. OnePlace' /\ Kept
    BY <1>1, <2>3, <2>4 DEF OnePlace, Kept, KeptAt, Loose, Owned
  <2>6. IInv'
    BY <1>1, <1>2, <2>1, <2>2, <2>5, NoticeDone
  <2> QED
    BY <2>5, <2>6
<1>4. CASE handler' = HandlerAt("read") /\ UNCHANGED held
  <2>1. OnePlace' /\ Kept
    BY <1>1, <1>4, Idleness, PlacesKept DEF IInv, InPair
  <2>2. IInv'
    BY <1>1, <1>2, <1>4, <2>1, NoticeDone
  <2> QED
    BY <2>1, <2>2
<1> QED
  BY <1>3, <1>4 DEF Pair

LEMMA CallStep ==
  ASSUME IInv, CallBack
  PROVE  IInv' /\ Kept
<1>1. /\ handler.at = "call" /\ handler.cmd.id = "PROCESS_BUFFER"
      /\ handler' = [handler EXCEPT !.at = "return"]
      /\ UNCHANGED <<alive, state, queue, callback, bExit, worker, client, held, bufq, locks,
                     pending, started>>
  BY DEF CallBack, buffers, IInv, CommandsMatch
<1>2. /\ handler' \in HandlerType /\ handler'.at = "return" /\ handler'.cmd = handler.cmd
      /\ handler'.pair = handler.pair
      /\ held \in [Sides -> Buffers \cup {NoBuffer}]
      /\ locks \in [Sides -> [Buffers -> Nat]]
  BY <1>1 DEF IInv, TypeOK, HandlerType
<1>3. OnePlace' /\ Kept
  BY <1>1, <1>2, PlacesKept DEF IInv, InPair
<1>4. IInv'
  BY <1>1, <1>2, <1>3, NoticeDone
<1> QED
  BY <1>3, <1>4

LEMMA ReturnStep ==
  ASSUME IInv, ReturnPair
  PROVE  IInv' /\ Kept
<1> DEFINE o(i) == handler.pair[i]
           l == Unlocked(locks, 1, o(1))
<1>1. /\ handler.at = "return" /\ handler.cmd.id = "PROCESS_BUFFER" /\ alive
      /\ locks' = Unlocked(l, 0, o(0))
      /\ handler' = HandlerAt("read")
      /\ UNCHANGED <<alive, state, queue, callback, bExit, worker, client, held, bufq,
                     pending, started>>
  BY DEF ReturnPair, IInv, CommandsMatch, PhasesMatch
<1>2. /\ locks \in [Sides -> [Buffers -> Nat]]
      /\ held \in [Sides -> Buffers \cup {NoBuffer}]
      /\ \A i \in Sides : OnePlaceAt(i) /\ o(i) \in Buffers \cup {NoBuffer}
  BY DEF IInv, TypeOK, OnePlace
<1>3. \A i \in Sides, c \in Buffers : /\ InPair(i, c) <=> c = o(i)
                                      /\ AtSide(i, c)' <=> AtSide(i, c)
                                      /\ ~InPair(i, c)'
  BY <1>1, Idleness DEF InPair, AtSide
<1>4. \A i \in Sides : o(i) # NoBuffer => locks[i][o(i)] = 1
  BY <1>2, <1>3 DEF OnePlaceAt, Owned
<1> HIDE DEF o
<1>5. /\ l \in [Sides -> [Buffers -> Nat]] /\ l[0] = locks[0]
      /\ \A c \in Buffers : l[1][c] = IF c = o(1) THEN 0 ELSE locks[1][c]
  <2>1. 1 \in Sides /\ 0 \in Sides \ {1}
    BY Entries
  <2>2. o(1) \in Buffers \cup {NoBuffer} /\ (o(1) # NoBuffer => locks[1][o(1)] = 1)
    BY <1>2, <1>4, <2>1
  <2>3. /\ Unlocked(locks, 1, o(1)) \in [Sides -> [Buffers -> Nat]]
        /\ \A i \in Sides \ {1} : Unlocked(locks, 1, o(1))[i] = locks[i]
        /\ \A c \in Buffers :
             Unlocked(locks, 1, o(1))[1][c] = IF c = o(1) THEN 0 ELSE locks[1][c]
    BY <1>2, <2>1, <2>2, UnlockedDoes
  <2> QED
    BY <2>1, <2>3
<1> HIDE DEF l
<1>6. /\ locks' \in [Sides -> [Buffers -> Nat]]
      /\ \A i \in Sides, c \in Buffers : locks'[i][c] = IF c = o(i) THEN 0 ELSE locks[i][c]
  <2>1. 0 \in Sides /\ 1 \in Sides \ {0} /\ \A i \in Sides : i = 0 \/ i = 1
    BY Entries
  <2>2. /\ locks' \in [Sides -> [Buffers -> Nat]] /\ locks'[1] = l[1]
        /\ \A c \in Buffers : locks'[0][c] = IF c = o(0) THEN 0 ELSE l[0][c]
    <3>1. o(0) \in Buffers \cup {NoBuffer} /\ (o(0) # NoBuffer => l[0][o(0)] = 1)
      BY <1>2, <1>4, <1>5, <2>1
    <3>2. /\ Unlocked(l, 0, o(0)) \in [Sides -> [Buffers -> Nat]]
          /\ \A i \in Sides \ {0} : Unlocked(l, 0, o(0))[i] = l[i]
          /\ \A c \in Buffers :
               Unlocked(l, 0, o(0))[0][c] = IF c = o(0) THEN 0 ELSE l[0][c]
      BY <1>5, <2>1, <3>1, UnlockedDoes
    <3> QED
      BY <1>1, <2>1, <3>2
  <2> QED
    BY <1>5, <2>1, <2>2
<1>7. \A i \in Sides : bufq'[i] = bufq[i]
  BY <1>1
<1>8. ASSUME NEW i \in Sides PROVE OnePlaceAt(i)' /\ KeptAt(i)
  <2>1. OnePlaceAt(i)
    BY <1>2
  <2>2. OnePlaceAt(i)'
    BY <1>3, <1>6, <1>7, <2>1 DEF OnePlaceAt, Owned
  <2>3. KeptAt(i)
    BY <1>3, <1>6, <1>7 DEF KeptAt, Loose, Owned
  <2> QED
    BY <2>2, <2>3
<1>9. OnePlace' /\ Kept
  BY <1>8 DEF OnePlace, Kept
<1>10. IInv'
  BY <1>1, <1>2, <1>6, <1>9, NoticeDone
<1> QED
  BY <1>9, <1>10

LEMMA Stutters ==
  ASSUME IInv, UNCHANGED vars
  PROVE  IInv' /\ Kept
<1>1. OnePlace' /\ Kept
  BY PlacesKept DEF IInv, vars, InPair
<1> QED
  BY <1>1 DEF vars, IInv, TypeOK, PhasesMatch, CommandsMatch, Gone

-----------------------------------------------------------------------------
LEMMA InitHolds == Init => IInv
<1> SUFFICES ASSUME Init PROVE IInv
  OBVIOUS
<1>1. /\ alive = FALSE /\ state = "Invalid" /\ queue = <<>> /\ callback = FALSE
      /\ held = [i \in Sides |-> NoBuffer] /\ bExit = [i \in Sides |-> FALSE]
      /\ worker = [i \in Sides |-> "none"]
      /\ handler = HandlerAt("none") /\ client = ClientAt("idle")
      /\ bufq = [i \in Sides |-> <<>>]
      /\ locks = [i \in Sides |-> [b \in Buffers |-> 0]]
      /\ pending = [k \in Commands |-> 0] /\ started = FALSE
  BY DEF Init
<1>2. /\ handler.at = "none" /\ handler.cmd = NoCommand
      /\ client.at = "idle" /\ client.cmd = "INVALID" /\ client.side = 0
  BY <1>1, Idleness
<1>3. TypeOK
  <2>1. queue \in Seq(Queueable) /\ Len(queue) <= MaxCommands
    BY <1>1, BufSyncAssumption
  <2>2. /\ held \in [Sides -> Buffers \cup {NoBuffer}] /\ bExit \in [Sides -> BOOLEAN]
        /\ worker \in [Sides -> {"none", "read", "send"}]
        /\ pending \in [Commands -> Nat]
    BY <1>1
  <2>3. bufq \in [Sides -> Seq(Buffers)]
    <3>1. <<>> \in Seq(Buffers)
      OBVIOUS
    <3> QED
      BY <1>1, <3>1
  <2>4. locks \in [Sides -> [Buffers -> Nat]]
    <3>1. [b \in Buffers |-> 0] \in [Buffers -> Nat]
      OBVIOUS
    <3> QED
      BY <1>1, <3>1
  <2> QED
    BY <1>1, <2>1, <2>2, <2>3, <2>4, Idleness DEF TypeOK, States
<1>4. PhasesMatch
  BY <1>1, <1>2 DEF PhasesMatch, Gone
<1>5. CommandsMatch
  <2>1. \A k \in Commands : handler.cmd.id # k /\ Times(queue, Request(k)) = 0
    BY <1>1, <1>2, Entries, TimesEmpty
  <2> QED
    BY <1>1, <1>2, <2>1 DEF CommandsMatch
<1>6. OnePlace
  <2>1. \A i \in Sides, b \in Buffers : ~AtSide(i, b) /\ ~InPair(i, b)
    BY <1>1, <1>2 DEF AtSide, InPair
  <2> QED
    BY <1>1, <2>1, EmptyWithin DEF OnePlace, OnePlaceAt, Owned
<1> QED
  BY <1>3, <1>4, <1>5, <1>6 DEF IInv

LEMMA StepHolds ==
  ASSUME IInv, [Next]_vars
  PROVE  IInv' /\ Kept
<1>1. ASSUME NEW i \in Sides, Produce(i) \/ Worker(i) PROVE IInv' /\ Kept
  BY <1>1, ProduceStep, TakeStep, TellStep, TimeOutStep DEF Worker
<1>2. CASE BufSyncCtrlStart \/ BufSyncCtrlStop \/ BufSyncCtrlShutDown
  BY <1>2, EnterStep, Entries DEF BufSyncCtrlStart, BufSyncCtrlStop, BufSyncCtrlShutDown
<1>3. CASE BufSyncCtrlRegisterBufferCb \/ BufSyncCtrlDeRegisterBufferCb
  BY <1>3, CallbackSetStep DEF BufSyncCtrlRegisterBufferCb, BufSyncCtrlDeRegisterBufferCb
<1>4. CASE BufSyncCtrlInit \/ Client
  BY <1>4, InitStep, SendStep, EndStep, CancelStep, JoinStep, FreeStep DEF Client
<1>5. CASE Handler
  BY <1>5, ReadStep, HandleStep, ShutDownStep, CompleteStep, DropStep, PairStep, CallStep,
     ReturnStep DEF Handler
<1>6. CASE UNCHANGED vars
  BY <1>6, Stutters
<1> QED
  BY <1>1, <1>2, <1>3, <1>4, <1>5, <1>6 DEF Next

(***************************************************************************)
(* The inductive invariant holds in every state.                           *)
(***************************************************************************)
THEOREM Invariance == Spec => []IInv
<1>1. IInv /\ [Next]_vars => IInv'
  BY StepHolds
<1> QED
  BY <1>1, InitHolds, PTL DEF Spec

(***************************************************************************)
(* The state is what its comments say.                                     *)
(***************************************************************************)
THEOREM TypeCorrect == Spec => []TypeOK
<1>1. IInv => TypeOK
  BY DEF IInv
<1> QED
  BY <1>1, Invariance, PTL

(***************************************************************************)
(* The number of places that mean to give a buffer back is one or none.    *)
(***************************************************************************)
LEMMA OwnersCount ==
  ASSUME IInv, NEW i \in Sides, NEW b \in Buffers
  PROVE  Owners(i, b) = IF Owned(i, b) THEN 1 ELSE 0
<1> DEFINE P == {n \in DOMAIN bufq[i] : bufq[i][n] = b}
<1>1. Queues(i, b) = IF Within(bufq[i], b) THEN 1 ELSE 0
  <2>1. CASE Within(bufq[i], b)
    <3>1. PICK n \in DOMAIN bufq[i] : bufq[i][n] = b
      BY <2>1 DEF Within
    <3>2. P = {n}
      BY <3>1 DEF IInv, OnePlace, OnePlaceAt, Distinct
    <3>3. Cardinality({n}) = 1
      BY FS_Singleton
    <3> QED
      BY <2>1, <3>2, <3>3 DEF Queues
  <2>2. CASE ~Within(bufq[i], b)
    <3>1. P = {}
      BY <2>2 DEF Within
    <3>2. Cardinality({}) = 0
      BY FS_EmptySet
    <3> QED
      BY <2>2, <3>1, <3>2 DEF Queues
  <2> QED
    BY <2>1, <2>2
<1>2. OnePlaceAt(i)
  BY DEF IInv, OnePlace
<1>3. Owners(i, b) = Queues(i, b) + (IF AtSide(i, b) THEN 1 ELSE 0)
                                   + (IF InPair(i, b) THEN 1 ELSE 0)
  BY DEF Owners, AtSide, InPair
<1> QED
  BY <1>1, <1>2, <1>3 DEF OnePlaceAt, Owned

(***************************************************************************)
(* The pair the callback sees, what a side holds and what is in a queue is *)
(* locked: no producer may fill it again.                                  *)
(***************************************************************************)
THEOREM OwnedAreLocked == Spec => []LockedWhileOwned
<1>1. ASSUME IInv, NEW i \in Sides, NEW b \in Buffers
      PROVE  Owners(i, b) <= locks[i][b]
  <2>1. OnePlaceAt(i)
    BY <1>1 DEF IInv, OnePlace
  <2> QED
    BY <1>1, <2>1, OwnersCount DEF OnePlaceAt
<1>2. IInv => LockedWhileOwned
  BY <1>1 DEF LockedWhileOwned
<1> QED
  BY <1>2, Invariance, PTL

LEMMA OrphanIsLoose ==
  IInv => \A i \in Sides, b \in Buffers : Orphan(i, b) <=> Loose(i, b)
<1> SUFFICES ASSUME IInv, NEW i \in Sides, NEW b \in Buffers
             PROVE  Orphan(i, b) <=> Loose(i, b)
  OBVIOUS
<1>1. Owners(i, b) = IF Owned(i, b) THEN 1 ELSE 0
  BY OwnersCount
<1>2. locks[i][b] \in {0, 1}
  BY DEF IInv, OnePlace, OnePlaceAt
<1> QED
  BY <1>1, <1>2 DEF Orphan, Loose

(***************************************************************************)
(* While the control exists no step, of queue threads, handler or client,  *)
(* leaves a buffer locked that nobody means to give back.                  *)
(***************************************************************************)
THEOREM NoneOrphaned == Spec => NoBufferOrphaned
<1>0. IInv' => (\A i \in Sides, b \in Buffers : Orphan(i, b) <=> Loose(i, b))'
  BY OrphanIsLoose, PTL
<1>1. ASSUME IInv, IInv', Kept, alive', NEW i \in Sides, NEW b \in Buffers, Orphan(i, b)'
      PROVE  Orphan(i, b)
  <2>1. Orphan(i, b) <=> Loose(i, b)
    BY <1>1, OrphanIsLoose
  <2> QED
    BY <1>0, <1>1, <2>1 DEF Kept, KeptAt
<1>2. ASSUME IInv, IInv', [Next]_vars
      PROVE  [alive' => \A i \in Sides, b \in Buffers : Orphan(i, b)' => Orphan(i, b)]_vars
  BY <1>1, <1>2, StepHolds
<1>3. IInv /\ IInv' /\ [Next]_vars
        => [alive' => \A i \in Sides, b \in Buffers : Orphan(i, b)' => Orphan(i, b)]_vars
  BY <1>2
<1> QED
  BY <1>3, Invariance, PTL DEF Spec, NoBufferOrphaned

-----------------------------------------------------------------------------
(* One more or one less of a command, written in two ways.                  *)

LEMMA OneChanged ==
  ASSUME NEW f \in [Commands -> Nat], NEW k \in Commands
  PROVE  /\ [j \in Commands |-> f[j] + IF j = k THEN 1 ELSE 0] = [f EXCEPT ![k] = @ + 1]
         /\ [j \in Commands |-> f[j] - IF j = k THEN 1 ELSE 0] = [f EXCEPT ![k] = @ - 1]
<1>1. ASSUME NEW j \in Commands
      PROVE  /\ f[j] + (IF j = k THEN 1 ELSE 0) = [f EXCEPT ![k] = @ + 1][j]
             /\ f[j] - (IF j = k THEN 1 ELSE 0) = [f EXCEPT ![k] = @ - 1][j]
  <2>1. CASE j = k
    BY <2>1
  <2>2. CASE j # k
    BY <2>2
  <2> QED
    BY <2>1, <2>2
<1>2. \A g : DOMAIN [f EXCEPT ![k] = g] = Commands
  OBVIOUS
<1> QED
  BY <1>1, <1>2

LEMMA StepServes ==
  IInv /\ [Next]_vars => [Service!ServiceNext]_(Service!serviceVars)
<1> SUFFICES ASSUME IInv, [Next]_vars
             PROVE  [Service!ServiceNext]_(Service!serviceVars)
  OBVIOUS
<1> USE DEF Service!ServiceNext, Service!serviceVars
<1>0. pending \in [Commands -> Nat]
  BY DEF IInv, TypeOK
<1>1. ASSUME NEW k \in Commands, alive, UNCHANGED alive,
             pending' = [j \in Commands |-> pending[j] + IF j = k THEN 1 ELSE 0]
      PROVE  Service!ServiceNext
  <2>1. pending' = [pending EXCEPT ![k] = @ + 1]
    BY <1>0, <1>1, OneChanged
  <2>2. Service!Accept(k)
    BY <1>1, <2>1 DEF Service!Accept
  <2> QED
    BY <2>2
<1>2. ASSUME NEW k \in Commands, pending[k] > 0, UNCHANGED alive,
             pending' = [j \in Commands |-> pending[j] - IF j = k THEN 1 ELSE 0]
      PROVE  Service!ServiceNext
  <2>1. pending' = [pending EXCEPT ![k] = @ - 1]
    BY <1>0, <1>2, OneChanged
  <2>2. Service!Answer(k)
    BY <1>2, <2>1 DEF Service!Answer
  <2> QED
    BY <2>2
<1>3. ASSUME NEW k, k \notin Commands, UNCHANGED alive,
             \/ pending' = [j \in Commands |-> pending[j] + IF j = k THEN 1 ELSE 0]
             \/ pending' = [j \in Commands |-> pending[j] - IF j = k THEN 1 ELSE 0]
      PROVE  UNCHANGED Service!serviceVars
  <2>1. \A j \in Commands : pending'[j] = pending[j]
    BY <1>0, <1>3
  <2>2. pending' = pending
    BY <1>0, <1>3, <2>1
  <2> QED
    BY <1>3, <2>2
<1>4. CASE SendCommand
  <2>1. /\ alive /\ UNCHANGED alive
        /\ pending' = [j \in Commands |-> pending[j] + IF j = client.cmd THEN 1 ELSE 0]
    BY <1>4 DEF SendCommand, IInv, PhasesMatch
  <2> QED
    BY <1>1, <1>3, <2>1
<1>5. CASE HandlerComplete
  <2>1. /\ UNCHANGED alive /\ handler.cmd.id \in Commands
        /\ pending' = [j \in Commands |-> pending[j] - IF j = handler.cmd.id THEN 1 ELSE 0]
    BY <1>5 DEF HandlerComplete, IInv, CommandsMatch
  <2>2. \A k \in Commands : Times(queue, Request(k)) \in Nat
    BY TimesNat DEF IInv, TypeOK
  <2>3. pending[handler.cmd.id] > 0
    BY <2>1, <2>2 DEF IInv, CommandsMatch
  <2> QED
    BY <1>2, <2>1, <2>3
<1>6. CASE Free
  <2>1. handler.cmd = NoCommand /\ alive
    BY <1>6 DEF Free, IInv, PhasesMatch, CommandsMatch
  <2>2. CASE queue = <<>>
    <3>1. alive' = FALSE /\ UNCHANGED pending
      BY <1>6, <2>2 DEF Free
    <3>2. \A k \in Commands : pending[k] = 0
      BY <2>1, <2>2, TimesEmpty, Entries DEF IInv, CommandsMatch
    <3>3. pending = [k \in Commands |-> 0]
      BY <1>0, <3>2
    <3> QED
      BY <2>1, <3>1, <3>3 DEF Service!Close, Service!Idle
  <2>3. CASE queue # <<>>
    <3>1. /\ UNCHANGED alive
          /\ pending' = [k \in Commands |-> pending[k] - IF k = Head(queue).id THEN 1 ELSE 0]
      BY <1>6, <2>3 DEF Free
    <3>2. \A k \in Commands : /\ Times(Tail(queue), Request(k)) \in Nat
                              /\ pending[k] = Times(Tail(queue), Request(k))
                                                + (IF Head(queue).id = k THEN 1 ELSE 0)
      BY <2>1, <2>3, ReadDoes
    <3>3. Head(queue).id \in Commands => pending[Head(queue).id] > 0
      BY <3>2
    <3> QED
      BY <1>2, <1>3, <3>1, <3>3
  <2> QED
    BY <2>2, <2>3
<1>7. CASE BufSyncCtrlInit
  BY <1>7 DEF BufSyncCtrlInit, Service!Open
<1>8. CASE BufSyncCtrlStart \/ BufSyncCtrlStop \/ BufSyncCtrlShutDown
             \/ BufSyncCtrlRegisterBufferCb \/ BufSyncCtrlDeRegisterBufferCb
  BY <1>8 DEF BufSyncCtrlStart, BufSyncCtrlStop, BufSyncCtrlShutDown, Enter,
     BufSyncCtrlRegisterBufferCb, BufSyncCtrlDeRegisterBufferCb, SetCallback
<1>9. CASE EndQueueThread \/ AwaitQueueThread \/ CancelBuffers \/ Join
  BY <1>9 DEF EndQueueThread, AwaitQueueThread, CancelBuffers, Join
<1>10. ASSUME NEW i \in Sides, Produce(i) \/ Worker(i)
       PROVE  UNCHANGED Service!serviceVars
  BY <1>10 DEF Produce, Worker, TakeBuffer, Tell, TimeOut
<1>11. CASE HandlerRead \/ HandleStart \/ HandleStop \/ HandleShutDown \/ HandleWrongState
  BY <1>11 DEF HandlerRead, HandleStart, HandleStop, HandleShutDown, HandleWrongState
<1>12. CASE DropStopped \/ Pair \/ CallBack \/ ReturnPair
  BY <1>12 DEF DropStopped, Pair, CallBack, ReturnPair
<1>13. CASE UNCHANGED vars
  BY <1>13 DEF vars
<1> QED
  BY <1>4, <1>5, <1>6, <1>7, <1>8, <1>9, <1>10, <1>11, <1>12, <1>13
  DEF Next, Client, Handler

(***************************************************************************)
(* The control is a command service, step by step: an accepted START or    *)
(* STOP is answered once, and the context goes when all are answered.      *)
(***************************************************************************)
THEOREM Serves ==
  Spec => Service!ServiceInit /\ [][Service!ServiceNext]_(Service!serviceVars)
<1>1. Init => Service!ServiceInit
  BY DEF Init, Service!ServiceInit, Service!Idle
<1> QED
  BY <1>1, StepServes, Invariance, PTL DEF Spec

-----------------------------------------------------------------------------
(***************************************************************************)
(* What producers that begin late and end early spare the control: nothing *)
(* is in the queues before the first START is done, nor after the client   *)
(* has emptied them.                                                       *)
(***************************************************************************)
Quiet ==
  /\ client.side = 1 \/ Gone \/ ~alive => bufq[0] = <<>>
  /\ Gone \/ ~alive => bufq[1] = <<>>
  /\ alive /\ ~started =>
       /\ handler.cmd.id # "PROCESS_BUFFER"
       /\ \A i \in Sides : /\ bufq[i] = <<>> /\ worker[i] # "send"
                           /\ Times(queue, Notice(i)) = 0
  /\ alive /\ state = "Initialize" => ~started

LEMMA QuietHandler ==
  ASSUME IInv, Quiet, UNCHANGED <<alive, client, bufq, worker>>,
         \/ UNCHANGED <<state, started>>
         \/ state' # "Initialize" /\ (started => started'),
         \/ UNCHANGED queue /\ handler'.cmd \in {handler.cmd, NoCommand}
         \/ queue # <<>> /\ queue' = Tail(queue) /\ handler'.cmd = Head(queue)
  PROVE  Quiet'
<1>1. ASSUME alive, ~started
      PROVE  /\ handler'.cmd.id # "PROCESS_BUFFER"
             /\ \A i \in Sides : Times(queue', Notice(i)) = 0
  <2>1. /\ handler.cmd.id # "PROCESS_BUFFER" /\ \A i \in Sides : Times(queue, Notice(i)) = 0
        /\ queue \in Seq(Queueable)
    BY <1>1 DEF Quiet, IInv, TypeOK
  <2>2. CASE UNCHANGED queue /\ handler'.cmd \in {handler.cmd, NoCommand}
    BY <2>1, <2>2, Entries
  <2>3. CASE queue # <<>> /\ queue' = Tail(queue) /\ handler'.cmd = Head(queue)
    <3>1. Head(queue) \in Queueable /\ Tail(queue) \in Seq(Queueable)
      BY <2>1, <2>3, HeadTailProperties
    <3>2. ASSUME NEW i \in Sides
          PROVE  Times(queue', Notice(i)) = 0 /\ Head(queue) # Notice(i)
      <4>1. 0 = Times(Tail(queue), Notice(i)) + (IF Head(queue) = Notice(i) THEN 1 ELSE 0)
        BY <2>1, <2>3, TimesTail
      <4>2. Times(Tail(queue), Notice(i)) \in Nat
        BY <3>1, TimesNat
      <4> QED
        BY <2>3, <4>1, <4>2
    <3>3. Head(queue).id # "PROCESS_BUFFER"
      BY <3>1, <3>2, Entries
    <3> QED
      BY <2>3, <3>2, <3>3
  <2> QED
    BY <2>2, <2>3
<1>2. Gone' <=> Gone
  BY DEF Gone
<1> QED
  BY <1>1, <1>2 DEF Quiet

LEMMA QuietClient ==
  ASSUME IInv, Quiet, UNCHANGED <<alive, state, worker, handler, started>>,
         Times(queue', Notice(0)) = Times(queue, Notice(0)),
         Times(queue', Notice(1)) = Times(queue, Notice(1)),
         \A i \in Sides : bufq[i] = <<>> => bufq'[i] = <<>>,
         client'.side = 1 => client.side = 1 \/ bufq[0] = <<>>,
         Gone' => Gone \/ \A i \in Sides : bufq[i] = <<>>
  PROVE  Quiet'
BY Entries DEF Quiet

LEMMA QuietStep ==
  ASSUME ~Early, ~Endless, IInv, Quiet, [Next]_vars
  PROVE  Quiet'
<1>0. 0 \in Sides /\ 1 \in Sides /\ \A i \in Sides : i = 0 \/ i = 1
  BY Entries
<1>1. ASSUME NEW s \in Sides, Produce(s) PROVE Quiet'
  <2>1. /\ alive /\ started /\ ~Gone /\ client.side # 1
        /\ \A i \in Sides \ {s} : bufq'[i] = bufq[i]
        /\ UNCHANGED <<alive, state, queue, handler, client, worker, started>>
    BY <1>1 DEF Produce, ShuttingDown, Gone, IInv, PhasesMatch, TypeOK
  <2> QED
    BY <2>1 DEF Quiet, Gone
<1>2. ASSUME NEW s \in Sides, TakeBuffer(s) PROVE Quiet'
  <2>1. /\ alive /\ bufq[s] # <<>>
        /\ \A i \in Sides \ {s} : bufq'[i] = bufq[i]
        /\ UNCHANGED <<alive, state, queue, handler, client, started>>
    BY <1>2 DEF TakeBuffer, IInv, PhasesMatch, TypeOK
  <2>2. started /\ (s = 0 => client.side # 1 /\ ~Gone) /\ (s = 1 => ~Gone)
    BY <2>1 DEF Quiet
  <2> QED
    BY <1>0, <2>1, <2>2 DEF Quiet, Gone
<1>3. ASSUME NEW s \in Sides, Tell(s) PROVE Quiet'
  <2>1. /\ alive /\ worker[s] = "send"
        /\ UNCHANGED <<alive, state, handler, client, started, bufq>>
    BY <1>3 DEF Tell, buffers, IInv, PhasesMatch
  <2>2. started
    BY <2>1 DEF Quiet
  <2> QED
    BY <2>1, <2>2 DEF Quiet, Gone
<1>4. ASSUME NEW s \in Sides, TimeOut(s) PROVE Quiet'
  <2>1. /\ \A i \in Sides : worker'[i] = "send" => worker[i] = "send"
        /\ UNCHANGED <<alive, state, queue, handler, client, started, bufq>>
    BY <1>4 DEF TimeOut, buffers, IInv, TypeOK
  <2> QED
    BY <2>1 DEF Quiet, Gone
<1>5. CASE BufSyncCtrlInit
  <2>1. /\ ~alive /\ client.at = "idle" /\ queue' = <<>> /\ started' = FALSE
        /\ worker' = [i \in Sides |-> "read"] /\ handler' = HandlerAt("read")
        /\ UNCHANGED <<client, bufq>>
    BY <1>5 DEF BufSyncCtrlInit
  <2>2. \A i \in Sides : bufq[i] = <<>>
    BY <1>0, <2>1 DEF Quiet
  <2>3. handler'.cmd.id # "PROCESS_BUFFER"
    BY <2>1, Idleness, Entries
  <2> QED
    BY <1>0, <2>1, <2>2, <2>3, TimesEmpty DEF Quiet
<1>6. CASE BufSyncCtrlStart \/ BufSyncCtrlStop \/ BufSyncCtrlShutDown
  <2>1. /\ client'.side = 0 /\ client'.at \in {"send", "end"} /\ client'.cmd # "SHUTDOWN"
        /\ UNCHANGED <<alive, state, queue, worker, handler, started, bufq>>
    BY <1>6 DEF BufSyncCtrlStart, BufSyncCtrlStop, BufSyncCtrlShutDown, Enter, buffers
  <2> QED
    BY <2>1, QuietClient DEF Gone
<1>7. CASE BufSyncCtrlRegisterBufferCb \/ BufSyncCtrlDeRegisterBufferCb
  BY <1>7, QuietClient
  DEF BufSyncCtrlRegisterBufferCb, BufSyncCtrlDeRegisterBufferCb, SetCallback, buffers, Gone
<1>8. CASE SendCommand
  <2>1. /\ queue' = Append(queue, Request(client.cmd)) /\ client.cmd \in Commands \cup {"SHUTDOWN"}
        /\ client' = IF client.cmd = "SHUTDOWN" THEN ClientAt("join") ELSE ClientAt("idle")
        /\ UNCHANGED <<alive, state, worker, handler, started, bufq>>
    BY <1>8, Entries DEF SendCommand, Queued, Request, buffers, IInv, PhasesMatch, TypeOK
  <2>2. queue \in Seq(Queueable) /\ Request(client.cmd) \in Queueable
    BY <2>1, Entries DEF IInv, TypeOK
  <2>3. ASSUME NEW i \in Sides
        PROVE  Times(queue', Notice(i)) = Times(queue, Notice(i))
    <3>1. Request(client.cmd) # Notice(i)
      BY <2>1, Entries DEF Request, Notice
    <3>2. Times(queue, Notice(i)) \in Nat
      BY <2>2, TimesNat
    <3>3. Times(queue', Notice(i)) = Times(queue, Notice(i))
                                       + (IF Request(client.cmd) = Notice(i) THEN 1 ELSE 0)
      BY <2>1, <2>2, TimesAppend
    <3> QED
      BY <3>1, <3>2, <3>3
  <2>4. client'.side = 0 /\ (Gone' => Gone)
    BY <2>1, Idleness DEF Gone
  <2> QED
    BY <1>0, <2>1, <2>3, <2>4, QuietClient
<1>9. CASE EndQueueThread \/ AwaitQueueThread \/ Join
  <2>1. /\ client'.side = 1 => client.side = 1
        /\ Gone' => Gone
        /\ UNCHANGED <<alive, state, queue, worker, handler, started, bufq>>
    BY <1>9, Idleness DEF EndQueueThread, AwaitQueueThread, Join, buffers, Gone, IInv, TypeOK
  <2> QED
    BY <2>1, QuietClient
<1>10. CASE CancelBuffers
  <2>1. PICK s \in Sides : s = client.side
    BY DEF IInv, TypeOK
  <2>2. /\ bufq \in [Sides -> Seq(Buffers)] /\ client.at = "cancel" /\ alive /\ ~Gone
        /\ UNCHANGED <<alive, state, queue, worker, handler, started>>
    BY <1>10 DEF CancelBuffers, IInv, TypeOK, PhasesMatch, Gone
  <2>3. CASE bufq[s] # <<>>
    <3>1. UNCHANGED client /\ \A i \in Sides \ {s} : bufq'[i] = bufq[i]
      BY <1>10, <2>1, <2>2, <2>3 DEF CancelBuffers
    <3>2. Gone' <=> Gone
      BY <3>1 DEF Gone
    <3>3. \A i \in Sides : bufq[i] = <<>> => bufq'[i] = <<>>
      BY <2>3, <3>1
    <3> QED
      BY <2>2, <3>1, <3>2, <3>3, QuietClient
  <2>4. CASE bufq[s] = <<>>
    <3>1. /\ client' = IF s = 0 THEN [client EXCEPT !.at = "end", !.side = 1]
                       ELSE [at |-> "send", cmd |-> "SHUTDOWN", side |-> 0]
          /\ UNCHANGED bufq
      BY <1>10, <2>1, <2>4 DEF CancelBuffers
    <3>2. client'.side = 1 => bufq[0] = <<>>
      BY <2>4, <3>1
    <3>3. Gone' => \A i \in Sides : bufq[i] = <<>>
      <4>1. CASE s = 0
        BY <2>2, <3>1, <4>1 DEF Gone, IInv, TypeOK
      <4>2. CASE s = 1
        BY <1>0, <2>1, <2>4, <4>2 DEF Quiet
      <4> QED
        BY <1>0, <4>1, <4>2
    <3> QED
      BY <2>2, <3>1, <3>2, <3>3, QuietClient
  <2> QED
    BY <2>3, <2>4
<1>11. CASE Free
  <2>1. bufq[0] = <<>> /\ bufq[1] = <<>> /\ handler.cmd = NoCommand
        /\ (\A i \in Sides : worker[i] = "none")
        /\ UNCHANGED <<bufq, state, started, worker, handler>>
    BY <1>11 DEF Free, Quiet, Gone, buffers, IInv, PhasesMatch, CommandsMatch
  <2>2. CASE alive'
    <3>1. queue # <<>> /\ queue' = Tail(queue) /\ UNCHANGED <<alive, client>>
      BY <1>11, <2>2 DEF Free
    <3>2. alive /\ ~started => \A i \in Sides : Times(queue', Notice(i)) = 0
      <4> SUFFICES ASSUME alive, ~started, NEW i \in Sides PROVE Times(queue', Notice(i)) = 0
        OBVIOUS
      <4>1. queue \in Seq(Queueable) /\ Times(queue, Notice(i)) = 0
        BY DEF IInv, TypeOK, Quiet
      <4>2. Tail(queue) \in Seq(Queueable)
        BY <3>1, <4>1, HeadTailProperties
      <4>3. 0 = Times(Tail(queue), Notice(i)) + (IF Head(queue) = Notice(i) THEN 1 ELSE 0)
        BY <3>1, <4>1, TimesTail
      <4>4. Times(Tail(queue), Notice(i)) \in Nat
        BY <4>2, TimesNat
      <4> QED
        BY <3>1, <4>3, <4>4
    <3> QED
      BY <2>1, <3>1, <3>2 DEF Quiet
  <2>3. CASE ~alive'
    BY <2>1, <2>3 DEF Quiet
  <2> QED
    BY <2>2, <2>3
<1>12. CASE Handler
  <2> USE QuietHandler
  <2>1. CASE HandlerRead
    <3>1. /\ queue # <<>> /\ queue' = Tail(queue) /\ handler'.cmd = Head(queue)
          /\ UNCHANGED <<alive, client, bufq, worker, state, started>>
      BY <2>1 DEF HandlerRead, HandlerAt, buffers
    <3> QED
      BY <3>1
  <2>2. CASE HandleStart
    <3>1. /\ state' = "Running" /\ started' = TRUE /\ handler'.cmd = handler.cmd
          /\ UNCHANGED <<alive, client, bufq, worker, queue>>
      BY <2>2 DEF HandleStart, buffers, IInv, TypeOK
    <3> QED
      BY <3>1
  <2>3. CASE HandleStop \/ HandleWrongState \/ CallBack
    <3>1. /\ handler'.cmd = handler.cmd
          /\ UNCHANGED <<alive, client, bufq, worker, queue, started>>
          /\ state' \in {state, "Stopped"}
      BY <2>3 DEF HandleStop, HandleWrongState, CallBack, buffers, IInv, TypeOK
    <3> QED
      BY <3>1
  <2>4. CASE HandleShutDown
    <3>1. /\ handler'.cmd = NoCommand /\ state' = "Invalid"
          /\ UNCHANGED <<alive, client, bufq, worker, queue, started>>
      BY <2>4, Idleness DEF HandleShutDown, buffers
    <3> QED
      BY <3>1
  <2>5. CASE DropStopped \/ ReturnPair \/ HandlerComplete
    <3>1. /\ handler'.cmd = NoCommand
          /\ UNCHANGED <<alive, state, client, bufq, worker, queue, started>>
      BY <2>5, Idleness DEF DropStopped, ReturnPair, HandlerComplete, buffers
    <3> QED
      BY <3>1
  <2>6. CASE Pair
    <3>1. /\ handler'.cmd \in {handler.cmd, NoCommand}
          /\ UNCHANGED <<alive, state, client, bufq, worker, queue, started>>
    <4>1. handler' = [handler EXCEPT !.at = "call", !.pair = held]
             => handler'.cmd = handler.cmd
      BY DEF IInv, TypeOK
    <4>2. handler' = HandlerAt("read") => handler'.cmd = NoCommand
      BY Idleness
    <4>3. \/ handler' = [handler EXCEPT !.at = "call", !.pair = held]
          \/ handler' = HandlerAt("read")
      BY <2>6 DEF Pair
    <4> QED
      BY <2>6, <4>1, <4>2, <4>3 DEF Pair
    <3> QED
      BY <3>1
  <2> QED
    BY <1>12, <2>1, <2>2, <2>3, <2>4, <2>5, <2>6 DEF Handler
<1>13. CASE UNCHANGED vars
  BY <1>13 DEF vars, Quiet, Gone
<1> QED
  BY <1>1, <1>2, <1>3, <1>4, <1>5, <1>6, <1>7, <1>8, <1>9, <1>10, <1>11, <1>12, <1>13
  DEF Next, Client, Worker

LEMMA NotBeforeStart ==
  ASSUME IInv, Quiet
  PROVE  ~EarlyNext
BY DEF EarlyNext, DropInitialize, Executes, IInv, PhasesMatch, Quiet

(***************************************************************************)
(* With such producers the handler never meets a buffer before the first   *)
(* START is done (DropInitialize), so that Spec is the whole program for   *)
(* them and all that is proved of it holds.                                *)
(***************************************************************************)
THEOREM NoBufferTooEarly ==
  ASSUME ~Early, ~Endless
  PROVE  EarlySpec => Spec
<1>1. Init => IInv /\ Quiet
  <2> SUFFICES ASSUME Init PROVE Quiet
    BY InitHolds
  <2>1. bufq[0] = <<>> /\ bufq[1] = <<>> /\ ~alive
    BY Entries DEF Init
  <2> QED
    BY <2>1 DEF Quiet
<1>2. IInv /\ Quiet /\ [Next \/ EarlyNext]_vars => [Next]_vars
  BY NotBeforeStart
<1>3. IInv /\ Quiet /\ [Next]_vars => IInv' /\ Quiet'
  BY StepHolds, QuietStep
<1> QED
  BY <1>1, <1>2, <1>3, PTL DEF EarlySpec, Spec

=============================================================================
