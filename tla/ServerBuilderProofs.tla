------------------------ MODULE ServerBuilderProofs ------------------------
(***************************************************************************)
(* Proofs of the safety properties of ServerBuilder, for every WSDL with   *)
(* finitely many services, bindings and port types, every choice of        *)
(* handlers, bypasses and default, and every order in which the hash maps  *)
(* are visited.                                                            *)
(*                                                                         *)
(* The operators of DispatchTable concatenate and filter sequences by      *)
(* recursive functions.  What these compute is shown by induction: a set   *)
(* of numbers that has 0 and the successor of each of its numbers below n  *)
(* has n (UpTo).                                                           *)
(***************************************************************************)
EXTENDS ServerBuilder, FiniteSetTheorems, SequenceTheorems, WellFoundedInduction, TLAPS

-----------------------------------------------------------------------------
(* Sequences.                                                              *)

(* A set of numbers has a least one.                                       *)
LEMMA Least ==
    ASSUME NEW T \in SUBSET Nat, T # {}
    PROVE  \E x \in T : \A y \in T : x <= y
  <1>1. PICK x \in T : \A y \in T : ~(<<y, x>> \in OpToRel(<, Nat))
    BY WFMin, NatLessThanWellFounded
  <1>2. ASSUME NEW y \in T, y < x PROVE FALSE
    BY <1>1, <1>2 DEF OpToRel
  <1> QED BY <1>2

(* A set that has 0, and with a number the next up to n, has them all.     *)
LEMMA UpTo ==
    ASSUME NEW n \in Nat, NEW T, 0 \in T, \A k \in 0 .. n - 1 : k \in T => k + 1 \in T
    PROVE  \A k \in 0 .. n : k \in T
  <1> DEFINE M == {k \in 0 .. n : k \notin T}
  <1>1. SUFFICES ASSUME M # {} PROVE FALSE
    OBVIOUS
  <1>2. M \in SUBSET Nat
    OBVIOUS
  <1>3. PICK x \in M : \A y \in M : x <= y
    <2> HIDE DEF M
    <2> QED BY <1>1, <1>2, Least
  <1>4. x # 0 /\ x - 1 \in 0 .. n - 1 /\ x - 1 \notin M
    BY <1>3
  <1> QED BY <1>3, <1>4

(* FlattenSeq is defined by recursion on the number of sequences.          *)
FlatUpTo(seqs, f, k) ==
    f = [i \in 1 .. k |-> IF i = 1 THEN seqs[i] ELSE f[i - 1] \o seqs[i]]

(* A function with these equations exists ...                              *)
LEMMA FlatExists ==
    ASSUME NEW seqs, NEW n \in Nat
    PROVE  \E f : FlatUpTo(seqs, f, n)
  <1> DEFINE T == {k \in 0 .. n : \E f : FlatUpTo(seqs, f, k)}
  <1>1. 0 \in T
    <2>1. FlatUpTo(seqs, <<>>, 0)
      BY DEF FlatUpTo
    <2> QED BY <2>1
  <1>2. ASSUME NEW k \in 0 .. n - 1, k \in T PROVE k + 1 \in T
    <2>1. PICK f : FlatUpTo(seqs, f, k)
      BY <1>2
    <2> DEFINE last == IF k + 1 = 1 THEN seqs[k + 1] ELSE f[k] \o seqs[k + 1]
               g == [i \in 1 .. k + 1 |-> IF i = k + 1 THEN last ELSE f[i]]
    <2>2. \A i \in 1 .. k : g[i] = f[i]
      OBVIOUS
    <2>3. \A i \in 1 .. k : f[i] = IF i = 1 THEN seqs[i] ELSE f[i - 1] \o seqs[i]
      BY <2>1 DEF FlatUpTo
    <2>4. ASSUME NEW i \in 1 .. k + 1
          PROVE  g[i] = IF i = 1 THEN seqs[i] ELSE g[i - 1] \o seqs[i]
      <3>1. CASE i = k + 1
        <4>1. i # 1 => i - 1 \in 1 .. k /\ i - 1 = k
          BY <3>1
        <4>2. i # 1 => g[i - 1] = f[k]
          BY <2>2, <4>1
        <4> HIDE DEF g
        <4>3. g[i] = last
          BY <3>1 DEF g
        <4> QED BY <3>1, <4>2, <4>3
      <3>2. CASE i # k + 1
        <4>1. i \in 1 .. k /\ (i # 1 => i - 1 \in 1 .. k)
          BY <3>2
        <4> HIDE DEF g
        <4> QED BY <2>2, <2>3, <4>1
      <3> QED BY <3>1, <3>2
    <2>5. FlatUpTo(seqs, g, k + 1)
      <3>1. DOMAIN g = 1 .. k + 1 /\ g = [i \in 1 .. k + 1 |-> g[i]]
        OBVIOUS
      <3> HIDE DEF g
      <3> QED BY <2>4, <3>1 DEF FlatUpTo
    <2> QED BY <2>5
  <1> HIDE DEF T
  <1>3. n \in T
    BY <1>1, <1>2, UpTo
  <1> QED BY <1>3 DEF T

(* ... so FlattenSeq, which chooses one, satisfies them.                   *)
LEMMA FlatIs ==
    ASSUME NEW seqs, Len(seqs) \in Nat, Len(seqs) # 0
    PROVE  \E f : /\ FlattenSeq(seqs) = f[Len(seqs)]
                  /\ \A i \in 1 .. Len(seqs) :
                        f[i] = IF i = 1 THEN seqs[i] ELSE f[i - 1] \o seqs[i]
  <1> DEFINE f == CHOOSE f : FlatUpTo(seqs, f, Len(seqs))
  <1>1. FlattenSeq(seqs) = f[Len(seqs)]
    BY DEF FlattenSeq, FlatUpTo
  <1>2. FlatUpTo(seqs, f, Len(seqs))
    BY FlatExists
  <1> HIDE DEF f
  <1>3. \A i \in 1 .. Len(seqs) : f[i] = IF i = 1 THEN seqs[i] ELSE f[i - 1] \o seqs[i]
    BY <1>2 DEF FlatUpTo
  <1> QED BY <1>1, <1>3

(* What is in two sequences, one after the other.                          *)
LEMMA Joined ==
    ASSUME NEW S, NEW s \in Seq(S), NEW t \in Seq(S)
    PROVE  s \o t \in Seq(S) /\ ToSet(s \o t) = ToSet(s) \cup ToSet(t)
  <1>1. /\ s \o t \in Seq(S) /\ Len(s) \in Nat /\ Len(t) \in Nat
        /\ DOMAIN s = 1 .. Len(s) /\ DOMAIN t = 1 .. Len(t)
        /\ DOMAIN (s \o t) = 1 .. Len(s) + Len(t)
        /\ \A i \in 1 .. Len(s) + Len(t) :
              (s \o t)[i] = IF i <= Len(s) THEN s[i] ELSE t[i - Len(s)]
    OBVIOUS
  <1>2. PICK u : u = s \o t
    OBVIOUS
  <1>3. ASSUME NEW i \in DOMAIN s PROVE s[i] \in ToSet(u)
    <2>1. i \in DOMAIN u /\ u[i] = s[i]
      BY <1>1, <1>2
    <2> QED BY <2>1 DEF ToSet
  <1>4. ASSUME NEW i \in DOMAIN t PROVE t[i] \in ToSet(u)
    <2>1. Len(s) + i \in DOMAIN u /\ u[Len(s) + i] = t[i]
      BY <1>1, <1>2
    <2> QED BY <2>1 DEF ToSet
  <1>5. ASSUME NEW i \in DOMAIN u PROVE u[i] \in ToSet(s) \cup ToSet(t)
    <2>1. CASE i <= Len(s)
      <3>1. i \in DOMAIN s /\ u[i] = s[i]
        BY <1>1, <1>2, <2>1
      <3> QED BY <3>1 DEF ToSet
    <2>2. CASE i > Len(s)
      <3>1. i - Len(s) \in DOMAIN t /\ u[i] = t[i - Len(s)]
        BY <1>1, <1>2, <2>2
      <3> QED BY <3>1 DEF ToSet
    <2> QED BY <1>1, <1>2, <2>1, <2>2
  <1>6. ToSet(u) = ToSet(s) \cup ToSet(t)
    BY <1>3, <1>4, <1>5 DEF ToSet
  <1> QED BY <1>1, <1>2, <1>6

(* What is in a sequence of sequences laid end to end.                     *)
LEMMA Flattened ==
    ASSUME NEW S, NEW seqs \in Seq(Seq(S))
    PROVE  /\ FlattenSeq(seqs) \in Seq(S)
           /\ \A x : x \in ToSet(FlattenSeq(seqs)) <=> \E i \in DOMAIN seqs : x \in ToSet(seqs[i])
  <1>0. PICK n \in Nat : n = Len(seqs)
    OBVIOUS
  <1>d. DOMAIN seqs = 1 .. n /\ \A i \in 1 .. n : seqs[i] \in Seq(S)
    BY <1>0
  <1>1. CASE n = 0
    <2>0. seqs = <<>>
      <3>1. Len(seqs) = 0
        BY <1>0, <1>1
      <3> QED BY <3>1
    <2>1. seqs = <<>> /\ DOMAIN seqs = {} /\ seqs \in Seq(S)
      BY <1>d, <1>1, <2>0
    <2>2. FlattenSeq(seqs) = seqs
      BY <1>0, <1>1 DEF FlattenSeq
    <2>3. ToSet(FlattenSeq(seqs)) = {}
      BY <2>1, <2>2 DEF ToSet
    <2> QED BY <2>1, <2>2, <2>3
  <1>2. CASE n # 0
    <2>1. PICK f : /\ FlattenSeq(seqs) = f[n]
                   /\ \A i \in 1 .. n : f[i] = IF i = 1 THEN seqs[i] ELSE f[i - 1] \o seqs[i]
      BY <1>0, <1>2, FlatIs
    <2> DEFINE Right(k) == /\ f[k] \in Seq(S)
                           /\ \A x : x \in ToSet(f[k]) <=> \E i \in 1 .. k : x \in ToSet(seqs[i])
               T == {k \in 0 .. n : k > 0 => Right(k)}
    <2>2. 0 \in T
      OBVIOUS
    <2>3. ASSUME NEW k \in 0 .. n - 1, k \in T PROVE k + 1 \in T
      <3>0. PICK m \in 1 .. n : m = k + 1 /\ m - 1 = k
        OBVIOUS
      <3>1. CASE k = 0
        <4>1. m = 1 /\ 1 .. m = {m}
          BY <3>0, <3>1
        <4>2. f[m] = seqs[m] /\ seqs[m] \in Seq(S)
          <5> HIDE DEF T, Right
          <5> QED BY <1>d, <2>1, <4>1
        <4>3. Right(m)
          BY <4>1, <4>2
        <4> QED BY <3>0, <4>3
      <3>2. CASE k # 0
        <4>0. k \in 1 .. n /\ m # 1
          BY <3>0, <3>2
        <4>1. f[m] = f[k] \o seqs[m]
          <5> HIDE DEF T, Right
          <5> QED BY <2>1, <3>0, <4>0
        <4>2. Right(k)
          BY <2>3, <4>0
        <4>3. f[m] \in Seq(S) /\ ToSet(f[m]) = ToSet(f[k]) \cup ToSet(seqs[m])
          BY <1>d, <4>1, <4>2, Joined
        <4>4. 1 .. m = 1 .. k \cup {m}
          BY <3>0, <4>0
        <4>5. Right(m)
          BY <4>2, <4>3, <4>4
        <4> QED BY <3>0, <4>5
      <3> QED BY <3>1, <3>2
    <2> HIDE DEF T
    <2>4. \A k \in 0 .. n : k \in T
      BY <2>2, <2>3, UpTo
    <2>5. n \in T
      BY <2>4
    <2>6. Right(n)
      BY <1>2, <2>5 DEF T
    <2> HIDE DEF Right
    <2>7. f[n] \in Seq(S) /\ \A x : x \in ToSet(f[n]) <=> \E i \in 1 .. n : x \in ToSet(seqs[i])
      BY <2>6 DEF Right
    <2> QED BY <1>d, <2>1, <2>7
  <1> QED BY <1>1, <1>2

(* What is in a sequence to which an element has been added.               *)
LEMMA Appended ==
    ASSUME NEW S, NEW s \in Seq(S), NEW e \in S
    PROVE  /\ Append(s, e) \in Seq(S)
           /\ \A x : x \in ToSet(Append(s, e)) <=> x \in ToSet(s) \/ x = e
  <1>0. PICK u : u = Append(s, e)
    OBVIOUS
  <1>n. PICK n \in Nat : n = Len(s)
    OBVIOUS
  <1>1. u = Append(s, e) /\ n = Len(s)
    BY <1>0, <1>n
  <1>2. /\ u \in Seq(S) /\ DOMAIN s = 1 .. n /\ DOMAIN u = 1 .. n + 1
        /\ u[n + 1] = e /\ \A i \in 1 .. n : u[i] = s[i]
    BY <1>1
  <1>3. \A i : i \in DOMAIN u <=> i \in DOMAIN s \/ i = n + 1
    BY <1>2
  <1>4. \A i \in DOMAIN s : u[i] = s[i]
    BY <1>2
  <1>5. \A x : x \in ToSet(u) <=> x \in ToSet(s) \/ x = e
    BY <1>2, <1>3, <1>4 DEF ToSet
  <1> QED BY <1>1, <1>2, <1>5

-----------------------------------------------------------------------------
(* FirstOfEachName is defined by recursion on the length.                  *)
KeptUpTo(seq, f, n) ==
    f = [i \in 0 .. n |->
            IF i = 0 THEN <<>>
            ELSE IF \E j \in 1 .. i - 1 : seq[j].name = seq[i].name THEN f[i - 1]
            ELSE Append(f[i - 1], seq[i])]

(* A function with these equations exists.                                 *)
LEMMA KeptExists ==
    ASSUME NEW seq, NEW n \in Nat
    PROVE  \E f : KeptUpTo(seq, f, n)
  <1> DEFINE New(i, before) ==
                IF \E j \in 1 .. i - 1 : seq[j].name = seq[i].name THEN before
                ELSE Append(before, seq[i])
             Step(f, m) == f = [i \in 0 .. m |-> IF i = 0 THEN <<>> ELSE New(i, f[i - 1])]
             T == {k \in 0 .. n : \E f : Step(f, k)}
  <1>1. 0 \in T
    <2>1. PICK g : g = [i \in 0 .. 0 |-> <<>>]
      OBVIOUS
    <2>2. Step(g, 0)
      BY <2>1
    <2>3. \E f : Step(f, 0)
      <3> HIDE DEF Step
      <3> QED BY <2>2
    <2>4. 0 \in 0 .. n
      OBVIOUS
    <2> QED BY <2>3, <2>4
  <1>2. ASSUME NEW k \in 0 .. n - 1, k \in T PROVE k + 1 \in T
    <2>1. PICK f : Step(f, k)
      BY <1>2
    <2> HIDE DEF New
    <2> DEFINE g == [i \in 0 .. k + 1 |-> IF i = k + 1 THEN New(k + 1, f[k]) ELSE f[i]]
    <2>2. \A i \in 0 .. k : g[i] = f[i]
      OBVIOUS
    <2>3. \A i \in 0 .. k : f[i] = IF i = 0 THEN <<>> ELSE New(i, f[i - 1])
      BY <2>1
    <2>4. ASSUME NEW i \in 0 .. k + 1
          PROVE  g[i] = IF i = 0 THEN <<>> ELSE New(i, g[i - 1])
      <3>1. CASE i = k + 1
        <4>1. k \in 0 .. k /\ i # 0 /\ i - 1 = k
          BY <3>1
        <4>2. g[i] = New(k + 1, f[k])
          BY <3>1
        <4> HIDE DEF g
        <4>3. g[i - 1] = f[k]
          BY <2>2, <4>1
        <4> QED BY <3>1, <4>1, <4>2, <4>3
      <3>2. CASE i # k + 1
        <4>1. i \in 0 .. k /\ (i # 0 => i - 1 \in 0 .. k)
          BY <3>2
        <4> HIDE DEF g
        <4> QED BY <2>2, <2>3, <4>1
      <3> QED BY <3>1, <3>2
    <2>5. Step(g, k + 1)
      <3>1. DOMAIN g = 0 .. k + 1 /\ g = [i \in 0 .. k + 1 |-> g[i]]
        OBVIOUS
      <3> HIDE DEF g
      <3> QED BY <2>4, <3>1
    <2>6. k + 1 \in 0 .. n /\ \E h : Step(h, k + 1)
      <3> HIDE DEF g, Step
      <3> QED BY <2>5
    <2> QED BY <2>6
  <1> HIDE DEF T
  <1>3. n \in T
    BY <1>1, <1>2, UpTo
  <1> QED BY <1>3 DEF T, KeptUpTo

(* FirstOfEachName takes operations of the sequence only, and for every    *)
(* one of them an operation of that name.                                  *)
LEMMA FirstOfEach ==
    ASSUME NEW S, NEW seq \in Seq(S)
    PROVE  LET kept == Table!FirstOfEachName(seq)
           IN  /\ kept \in Seq(S)
               /\ ToSet(kept) \subseteq ToSet(seq)
               /\ \A o \in ToSet(seq) : \E p \in ToSet(kept) : p.name = o.name
  <1>0. PICK n \in Nat : n = Len(seq)
    OBVIOUS
  <1> DEFINE f == CHOOSE f : KeptUpTo(seq, f, n)
  <1>1. Table!FirstOfEachName(seq) = f[n]
    BY <1>0 DEF Table!FirstOfEachName, KeptUpTo
  <1>2. KeptUpTo(seq, f, n)
    BY KeptExists
  <1> HIDE DEF f
  <1>3. \A i \in 0 .. n :
          f[i] = IF i = 0 THEN <<>>
                 ELSE IF \E j \in 1 .. i - 1 : seq[j].name = seq[i].name THEN f[i - 1]
                 ELSE Append(f[i - 1], seq[i])
    BY <1>2 DEF KeptUpTo
  <1> DEFINE Right(k) ==
                /\ f[k] \in Seq(S)
                /\ \A p \in ToSet(f[k]) : \E i \in 1 .. k : p = seq[i]
                /\ \A i \in 1 .. k : \E p \in ToSet(f[k]) : p.name = seq[i].name
             T == {k \in 0 .. n : Right(k)}
  <1>4. 0 \in T
    <2>0. 0 \in 0 .. n
      OBVIOUS
    <2>1. f[0] = <<>>
      <3> HIDE DEF T, Right
      <3> QED BY <1>3, <2>0
    <2>2. ToSet(f[0]) = {} /\ f[0] \in Seq(S)
      BY <2>1 DEF ToSet
    <2> QED BY <2>0, <2>2
  <1>5. ASSUME NEW k \in 0 .. n - 1, k \in T PROVE k + 1 \in T
    <2>1. PICK m \in 1 .. n : m = k + 1 /\ m - 1 = k /\ m # 0
      OBVIOUS
    <2>2. /\ f[m] = IF \E j \in 1 .. m - 1 : seq[j].name = seq[m].name THEN f[m - 1]
                    ELSE Append(f[m - 1], seq[m])
          /\ seq[m] \in S
      BY <1>0, <1>3, <2>1
    <2>3. Right(k)
      BY <1>5
    <2>4. \A i : i \in 1 .. m <=> i \in 1 .. k \/ i = m
      BY <2>1
    <2>5. CASE \E j \in 1 .. k : seq[j].name = seq[m].name
      <3>1. f[m] = f[k]
        BY <2>1, <2>2, <2>5
      <3>2. Right(m)
        BY <2>3, <2>4, <2>5, <3>1
      <3> QED BY <2>1, <3>2
    <2>6. CASE ~\E j \in 1 .. k : seq[j].name = seq[m].name
      <3>1. f[m] = Append(f[k], seq[m])
        BY <2>1, <2>2, <2>6
      <3>0. f[k] \in Seq(S) /\ seq[m] \in S
        BY <2>2, <2>3
      <3>2. f[m] \in Seq(S) /\ (\A p : p \in ToSet(f[m]) <=> p \in ToSet(f[k]) \/ p = seq[m])
        <4> HIDE DEF Right
        <4> QED BY <3>0, <3>1, Appended
      <3>3. Right(m)
        BY <2>3, <2>4, <3>2
      <3> QED BY <2>1, <3>3
    <2> QED BY <2>5, <2>6
  <1>6. Right(n)
    <2> HIDE DEF T
    <2>1. \A k \in 0 .. n : k \in T
      BY <1>4, <1>5, UpTo
    <2>2. n \in T
      BY <2>1
    <2> QED BY <2>2 DEF T
  <1> HIDE DEF Right
  <1>7. /\ \A p \in ToSet(seq) : \E i \in 1 .. n : p = seq[i]
        /\ \A i \in 1 .. n : seq[i] \in ToSet(seq)
    <2>1. DOMAIN seq = 1 .. n
      BY <1>0
    <2>2. \A i \in 1 .. n : seq[i] \in ToSet(seq)
      BY <2>1 DEF ToSet
    <2>3. \A p \in ToSet(seq) : \E i \in 1 .. n : p = seq[i]
      BY <2>1 DEF ToSet
    <2> QED BY <2>2, <2>3
  <1>8. /\ f[n] \in Seq(S)
        /\ \A p \in ToSet(f[n]) : \E i \in 1 .. n : p = seq[i]
        /\ \A i \in 1 .. n : \E p \in ToSet(f[n]) : p.name = seq[i].name
    BY <1>6 DEF Right
  <1>9. ToSet(f[n]) \subseteq ToSet(seq)
    BY <1>7, <1>8
  <1>10. ASSUME NEW o \in ToSet(seq) PROVE \E p \in ToSet(f[n]) : p.name = o.name
    <2>1. PICK i \in 1 .. n : o = seq[i]
      BY <1>7
    <2> QED BY <1>8, <2>1
  <1> QED BY <1>1, <1>8, <1>9, <1>10

-----------------------------------------------------------------------------
(* Orders.                                                                 *)

(* A function on 1..n is a sequence.                                       *)
LEMMA IsSequence ==
    ASSUME NEW S, NEW n \in Nat, NEW f \in [1 .. n -> S]
    PROVE  f \in Seq(S) /\ Len(f) = n /\ DOMAIN f = 1 .. n
  BY SeqDef

(* A sequence is a sequence of its elements.                               *)
LEMMA OfElements ==
    ASSUME NEW S, NEW s \in Seq(S), NEW T, ToSet(s) \subseteq T
    PROVE  s \in Seq(T)
  <1>1. PICK n \in Nat : n = Len(s)
    OBVIOUS
  <1>2. DOMAIN s = 1 .. n /\ s = [i \in 1 .. n |-> s[i]]
    BY <1>1
  <1>3. \A i \in 1 .. n : s[i] \in T
    BY <1>2 DEF ToSet
  <1>4. s \in [1 .. n -> T]
    BY <1>2, <1>3
  <1> QED BY <1>4, IsSequence

(* A sequence is empty when nothing is in it.                              *)
LEMMA EmptySequence ==
    ASSUME NEW S, NEW s \in Seq(S)
    PROVE  s = <<>> <=> ToSet(s) = {}
  <1>1. PICK n \in Nat : n = Len(s)
    OBVIOUS
  <1>2. DOMAIN s = 1 .. n /\ (n = 0 <=> s = <<>>)
    BY <1>1
  <1>3. CASE n = 0
    <2>1. DOMAIN s = {}
      BY <1>2, <1>3
    <2>2. ToSet(s) = {}
      BY <2>1 DEF ToSet
    <2> QED BY <1>2, <1>3, <2>2
  <1>4. CASE n # 0
    <2>1. 1 \in DOMAIN s
      BY <1>2, <1>4
    <2>2. s[1] \in ToSet(s)
      BY <2>1 DEF ToSet
    <2> QED BY <1>2, <1>4, <2>2
  <1> QED BY <1>3, <1>4

(* What is in a sequence is its head or in its tail.                       *)
LEMMA HeadAndTail ==
    ASSUME NEW S, NEW s \in Seq(S), s # <<>>
    PROVE  /\ Head(s) \in ToSet(s) /\ Tail(s) \in Seq(S)
           /\ \A x : x \in ToSet(s) <=> x = Head(s) \/ x \in ToSet(Tail(s))
  <1>1. PICK n \in Nat : n = Len(s)
    OBVIOUS
  <1>2. PICK t : t = Tail(s)
    OBVIOUS
  <1>3. /\ DOMAIN s = 1 .. n /\ n > 0 /\ Head(s) = s[1]
        /\ t \in Seq(S) /\ DOMAIN t = 1 .. n - 1 /\ \A i \in 1 .. n - 1 : t[i] = s[i + 1]
    BY <1>1, <1>2
  <1>4. 1 \in DOMAIN s /\ Head(s) \in ToSet(s)
    BY <1>3 DEF ToSet
  <1>5. ASSUME NEW i \in DOMAIN t PROVE t[i] \in ToSet(s)
    <2>1. i + 1 \in DOMAIN s /\ t[i] = s[i + 1]
      BY <1>3
    <2> QED BY <2>1 DEF ToSet
  <1>6. ASSUME NEW i \in DOMAIN s, i # 1 PROVE s[i] \in ToSet(t)
    <2>1. i \in 1 .. n
      BY <1>3
    <2>2. i - 1 \in 1 .. n - 1 /\ i - 1 + 1 = i
      BY <1>6, <2>1
    <2>3. i - 1 \in DOMAIN t /\ t[i - 1] = s[i]
      BY <1>3, <2>2
    <2> QED BY <2>3 DEF ToSet
  <1>7. \A x : x \in ToSet(s) <=> x = Head(s) \/ x \in ToSet(t)
    BY <1>3, <1>4, <1>5, <1>6 DEF ToSet
  <1> QED BY <1>2, <1>3, <1>4, <1>7

(* An iteration order of a finite map has all its keys.                    *)
LEMMA OrderIs ==
    ASSUME NEW S, IsFiniteSet(S), NEW f \in SetToSeqs(S)
    PROVE  f \in Seq(S) /\ ToSet(f) = S
  <1>1. PICK n \in Nat : n = Cardinality(S)
    BY FS_CardinalityType
  <1>2. /\ f \in [1 .. n -> S]
        /\ \A i, j \in 1 .. n : i # j => f[i] # f[j]
    BY <1>1 DEF SetToSeqs
  <1>3. ToSet(f) \subseteq S
    BY <1>2 DEF ToSet
  <1>4. ASSUME NEW x \in S, x \notin ToSet(f) PROVE FALSE
    <2>1. \A i \in 1 .. n : f[i] \in S \ {x}
      BY <1>2, <1>4 DEF ToSet
    <2>2. f \in [1 .. n -> S \ {x}]
      BY <1>2, <2>1
    <2>3. IsFiniteSet(S \ {x}) /\ Cardinality(S \ {x}) = n - 1
      BY <1>1, FS_RemoveElement
    <2>4. IsFiniteSet(1 .. n) /\ Cardinality(1 .. n) = n
      BY FS_Interval
    <2>5. Cardinality(S \ {x}) < Cardinality(1 .. n)
      BY <2>3, <2>4
    <2>6. \E i, j \in 1 .. n : i # j /\ f[i] = f[j]
      BY <2>2, <2>3, <2>4, <2>5, FS_PigeonHole
    <2> QED BY <1>2, <2>6
  <1>5. f \in Seq(S)
    BY <1>2, IsSequence
  <1> QED BY <1>3, <1>4, <1>5

-----------------------------------------------------------------------------
(* The operations of a WSDL.                                               *)

(* What the iteration orders are, and the configuration.                   *)
Given ==
    /\ config \in Configs
    /\ order.services \in Seq(Services) /\ ToSet(order.services) = Services
    /\ order.bindings \in Seq(DOMAIN Wsdl.bindings) /\ ToSet(order.bindings) = DOMAIN Wsdl.bindings
    /\ order.portTypes \in Seq(DOMAIN Wsdl.portTypes)
    /\ ToSet(order.portTypes) = DOMAIN Wsdl.portTypes

Bindables == UNION {ToSet(Table!BindingOps(Wsdl, b)) : b \in DOMAIN Wsdl.bindings}

ServiceSet(s) == ToSet(Table!ServiceOps(Wsdl, s))

(* What ConfigsAssumption says of the configuration at hand.               *)
LEMMA ConfigFacts ==
    ASSUME config \in Configs
    PROVE  /\ IsFiniteSet(Services) /\ IsFiniteSet(DOMAIN Wsdl.bindings)
           /\ IsFiniteSet(DOMAIN Wsdl.portTypes)
           /\ \A s \in Services : Wsdl.services[s] \in Seq(ToSet(Wsdl.services[s]))
           /\ \A b \in DOMAIN Wsdl.bindings : Wsdl.bindings[b].ops \in Seq(ToSet(Wsdl.bindings[b].ops))
           /\ \A p \in DOMAIN Wsdl.portTypes : Wsdl.portTypes[p] \in Seq(ToSet(Wsdl.portTypes[p]))
           /\ Absent \notin Services
           /\ \A b \in DOMAIN Wsdl.bindings : \A op \in ToSet(Wsdl.bindings[b].ops) : op.action # Absent
           /\ config.hasDefault \in BOOLEAN
  BY ConfigsAssumption DEF Wsdl, Services

(* DispatchTable concatenates as this module does.                         *)
LEMMA SameFlatten == ASSUME NEW seqs PROVE Table!FlattenSeq(seqs) = FlattenSeq(seqs)
  BY DEF FlattenSeq, Table!FlattenSeq

(* The operations of a binding, in the order of its list.                  *)
LEMMA BoundOps ==
    ASSUME config \in Configs, NEW b \in DOMAIN Wsdl.bindings
    PROVE  /\ Table!BindingOps(Wsdl, b) \in Seq(Bindables)
           /\ \A o \in ToSet(Table!BindingOps(Wsdl, b)) : o.action # Absent
  <1> DEFINE listed == Wsdl.bindings[b].ops
             bound  == Table!BindingOps(Wsdl, b)
  <1>1. listed \in Seq(ToSet(listed))
    BY ConfigFacts
  <1>2. PICK n \in Nat : DOMAIN listed = 1 .. n
    BY <1>1
  <1>3. /\ DOMAIN bound = DOMAIN listed
        /\ \A i \in DOMAIN listed : bound[i].action = listed[i].action
        /\ bound = [i \in DOMAIN bound |-> bound[i]]
    BY DEF Table!BindingOps
  <1> HIDE DEF bound
  <1>4. bound \in Seq(ToSet(bound))
    <2>1. bound \in [1 .. n -> ToSet(bound)]
      BY <1>2, <1>3 DEF ToSet
    <2> QED BY <2>1, IsSequence
  <1>5. ToSet(bound) \subseteq Bindables
    BY DEF Bindables, bound
  <1>6. bound \in Seq(Bindables)
    BY <1>4, <1>5, OfElements
  <1>7. ASSUME NEW i \in DOMAIN bound PROVE bound[i].action # Absent
    <2>1. listed[i] \in ToSet(listed)
      BY <1>3 DEF ToSet
    <2>2. listed[i].action # Absent
      <3> HIDE DEF listed
      <3> QED BY <2>1, ConfigFacts DEF listed
    <2> QED BY <1>3, <2>2
  <1>8. \A o \in ToSet(bound) : o.action # Absent
    BY <1>7 DEF ToSet
  <1> QED BY <1>6, <1>8 DEF bound

(* The operations of a service: those its ports' bindings list.            *)
LEMMA ServiceOpsAre ==
    ASSUME config \in Configs, NEW s \in Services
    PROVE  Table!ServiceOps(Wsdl, s) \in Seq(Bindables) /\ ServiceSet(s) \subseteq Bindables
  <1> DEFINE ports == Wsdl.services[s]
             lists == [i \in DOMAIN ports |-> Table!PortOps(Wsdl, ports[i])]
  <1>1. PICK n \in Nat : DOMAIN ports = 1 .. n
    BY ConfigFacts
  <1>2. ASSUME NEW port PROVE Table!PortOps(Wsdl, port) \in Seq(Bindables)
    <2>1. CASE port.binding \in DOMAIN Wsdl.bindings
      BY <2>1, BoundOps DEF Table!PortOps
    <2>2. CASE port.binding \notin DOMAIN Wsdl.bindings
      BY <2>2 DEF Table!PortOps
    <2> QED BY <2>1, <2>2
  <1>3. lists \in [1 .. n -> Seq(Bindables)]
    BY <1>1, <1>2
  <1>4. lists \in Seq(Seq(Bindables))
    <2> HIDE DEF lists
    <2> QED BY <1>3, IsSequence
  <1>5. Table!ServiceOps(Wsdl, s) = FlattenSeq(lists)
    BY SameFlatten DEF Table!ServiceOps
  <1>6. FlattenSeq(lists) \in Seq(Bindables)
    <2> HIDE DEF lists
    <2> QED BY <1>4, Flattened
  <1> HIDE DEF lists
  <1>7. ASSUME NEW q \in Seq(Bindables) PROVE ToSet(q) \subseteq Bindables
    BY <1>7 DEF ToSet
  <1> QED BY <1>5, <1>6, <1>7 DEF ServiceSet

(* The operations of one service, and those of all of them, each name      *)
(* once.                                                                   *)
LEMMA OpsOfServiceAre ==
    ASSUME config \in Configs, NEW s \in Services
    PROVE  LET kept == Table!OpsOfService(Wsdl, s)
           IN  /\ kept \in Seq(Bindables) /\ ToSet(kept) \subseteq ServiceSet(s)
               /\ \A o \in ServiceSet(s) : \E p \in ToSet(kept) : p.name = o.name
  BY ServiceOpsAre, FirstOfEach DEF Table!OpsOfService, ServiceSet

(* In single-service mode they are those of all services or, when no       *)
(* service leads to any, of all bindings: the Occurrences of the           *)
(* properties, whatever the orders.                                        *)
LEMMA OpsOfAllAre ==
    ASSUME Given, ~MultiService
    PROVE  LET kept == Table!OpsOfAll(Wsdl, order.services, order.bindings)
           IN  /\ kept \in Seq(Bindables) /\ ToSet(kept) \subseteq Occurrences
               /\ \A o \in Occurrences : \E p \in ToSet(kept) : p.name = o.name
  <1> DEFINE ofServices == [i \in DOMAIN order.services |-> Table!ServiceOps(Wsdl, order.services[i])]
             ofBindings == [i \in DOMAIN order.bindings |-> Table!BindingOps(Wsdl, order.bindings[i])]
             bound == UNION {ServiceSet(s) : s \in Services}
  <1>0. /\ config \in Configs
        /\ order.services \in Seq(Services) /\ ToSet(order.services) = Services
        /\ order.bindings \in Seq(DOMAIN Wsdl.bindings)
        /\ ToSet(order.bindings) = DOMAIN Wsdl.bindings
    BY DEF Given
  <1>1. ofServices \in Seq(Seq(Bindables))
    <2>1. PICK n \in Nat : DOMAIN order.services = 1 .. n
      BY <1>0
    <2>2. \A i \in 1 .. n : Table!ServiceOps(Wsdl, order.services[i]) \in Seq(Bindables)
      BY <1>0, <2>1, ServiceOpsAre DEF ToSet
    <2>3. ofServices \in [1 .. n -> Seq(Bindables)]
      BY <2>1, <2>2
    <2> HIDE DEF ofServices
    <2> QED BY <2>3, IsSequence
  <1>2. ofBindings \in Seq(Seq(Bindables))
    <2>1. PICK n \in Nat : DOMAIN order.bindings = 1 .. n
      BY <1>0
    <2>2. \A i \in 1 .. n : Table!BindingOps(Wsdl, order.bindings[i]) \in Seq(Bindables)
      BY <1>0, <2>1, BoundOps DEF ToSet
    <2>3. ofBindings \in [1 .. n -> Seq(Bindables)]
      BY <2>1, <2>2
    <2> HIDE DEF ofBindings
    <2> QED BY <2>3, IsSequence
  <1>3. /\ FlattenSeq(ofServices) \in Seq(Bindables)
        /\ \A x : x \in ToSet(FlattenSeq(ofServices)) <=> x \in bound
    <2>1. /\ FlattenSeq(ofServices) \in Seq(Bindables)
          /\ \A x : x \in ToSet(FlattenSeq(ofServices))
                      <=> \E i \in DOMAIN ofServices : x \in ToSet(ofServices[i])
      <3> HIDE DEF ofServices
      <3> QED BY <1>1, Flattened
    <2>2. \A x : (\E i \in DOMAIN ofServices : x \in ToSet(ofServices[i]))
                    <=> \E i \in DOMAIN order.services : x \in ServiceSet(order.services[i])
      BY DEF ServiceSet
    <2>3. \A x : (\E i \in DOMAIN order.services : x \in ServiceSet(order.services[i]))
                    <=> \E s \in Services : x \in ServiceSet(s)
      BY <1>0 DEF ToSet
    <2> HIDE DEF ofServices
    <2> QED BY <2>1, <2>2, <2>3
  <1>4. /\ FlattenSeq(ofBindings) \in Seq(Bindables)
        /\ \A x : x \in ToSet(FlattenSeq(ofBindings)) <=> x \in Bindables
    <2>1. /\ FlattenSeq(ofBindings) \in Seq(Bindables)
          /\ \A x : x \in ToSet(FlattenSeq(ofBindings))
                      <=> \E i \in DOMAIN ofBindings : x \in ToSet(ofBindings[i])
      <3> HIDE DEF ofBindings
      <3> QED BY <1>2, Flattened
    <2>2. \A x : (\E i \in DOMAIN ofBindings : x \in ToSet(ofBindings[i]))
                    <=> \E i \in DOMAIN order.bindings :
                            x \in ToSet(Table!BindingOps(Wsdl, order.bindings[i]))
      OBVIOUS
    <2>3. \A x : (\E i \in DOMAIN order.bindings : x \in ToSet(Table!BindingOps(Wsdl, order.bindings[i])))
                    <=> \E b \in DOMAIN Wsdl.bindings : x \in ToSet(Table!BindingOps(Wsdl, b))
      BY <1>0 DEF ToSet
    <2> HIDE DEF ofBindings
    <2> QED BY <2>1, <2>2, <2>3 DEF Bindables
  <1>5. Occurrences = IF bound # {} THEN bound ELSE Bindables
    BY DEF Occurrences, Bindables, ServiceSet
  <1>6. FlattenSeq(ofServices) # <<>> <=> bound # {}
    <2> HIDE DEF ofServices, bound
    <2>1. FlattenSeq(ofServices) = <<>> <=> ToSet(FlattenSeq(ofServices)) = {}
      BY <1>3, EmptySequence
    <2> QED BY <1>3, <2>1
  <1>7. PICK all : all = IF bound # {} THEN FlattenSeq(ofServices) ELSE FlattenSeq(ofBindings)
    OBVIOUS
  <1>8. Table!OpsOfAll(Wsdl, order.services, order.bindings) = Table!FirstOfEachName(all)
    BY <1>6, <1>7, SameFlatten DEF Table!OpsOfAll
  <1> HIDE DEF ofServices, ofBindings, bound
  <1>9. all \in Seq(Bindables) /\ \A x : x \in ToSet(all) <=> x \in Occurrences
    BY <1>3, <1>4, <1>5, <1>7
  <1> QED BY <1>8, <1>9, FirstOfEach

(* What is bound is listed by some binding, and has an action.             *)
LEMMA OccurrencesAre ==
    ASSUME config \in Configs
    PROVE  /\ Occurrences \subseteq Bindables
           /\ MultiService => \A s \in Services : ServiceSet(s) \subseteq Occurrences
           /\ MultiService => \A o \in Occurrences : \E s \in Services : o \in ServiceSet(s)
           /\ \A o \in Bindables : o.action # Absent
  <1>1. \A s \in Services : ServiceSet(s) \subseteq Bindables
    BY ServiceOpsAre
  <1>2. Occurrences = LET bound == UNION {ServiceSet(s) : s \in Services}
                      IN  IF bound # {} \/ MultiService THEN bound ELSE Bindables
    BY DEF Occurrences, Bindables, ServiceSet
  <1>3. \A o \in Bindables : o.action # Absent
    BY BoundOps DEF Bindables
  <1> QED BY <1>1, <1>2, <1>3

(* The first declaration of a name, in the order of the port types, is     *)
(* the only one when names mean one thing.                                 *)
LEMMA FirstDeclaration ==
    ASSUME Given, Consistent, NEW o \in Occurrences
    PROVE  Input(o) = DeclaredInput(o)
  <1> DEFINE listed == [i \in DOMAIN order.portTypes |-> Wsdl.portTypes[order.portTypes[i]]]
  <1>0. /\ config \in Configs
        /\ order.portTypes \in Seq(DOMAIN Wsdl.portTypes)
        /\ ToSet(order.portTypes) = DOMAIN Wsdl.portTypes
    BY DEF Given
  <1>1. listed \in Seq(Seq(Declarations))
    <2>1. PICK n \in Nat : DOMAIN order.portTypes = 1 .. n
      BY <1>0
    <2>2. ASSUME NEW p \in DOMAIN Wsdl.portTypes PROVE Wsdl.portTypes[p] \in Seq(Declarations)
      <3>1. Wsdl.portTypes[p] \in Seq(ToSet(Wsdl.portTypes[p]))
        BY <1>0, ConfigFacts
      <3>2. ToSet(Wsdl.portTypes[p]) \subseteq Declarations
        BY DEF Declarations
      <3> QED BY <3>1, <3>2, OfElements
    <2>3. \A i \in 1 .. n : order.portTypes[i] \in DOMAIN Wsdl.portTypes
      BY <1>0, <2>1 DEF ToSet
    <2>4. listed \in [1 .. n -> Seq(Declarations)]
      BY <2>1, <2>2, <2>3
    <2> HIDE DEF listed
    <2> QED BY <2>4, IsSequence
  <1>2. PICK all : all = FlattenSeq(listed)
    OBVIOUS
  <1>3. all \in Seq(Declarations) /\ \A x : x \in ToSet(all) <=> x \in Declarations
    <2>1. /\ all \in Seq(Declarations)
          /\ \A x : x \in ToSet(all) <=> \E i \in DOMAIN listed : x \in ToSet(listed[i])
      <3> HIDE DEF listed
      <3> QED BY <1>1, <1>2, Flattened
    <2>2. \A x : (\E i \in DOMAIN listed : x \in ToSet(listed[i]))
                    <=> \E i \in DOMAIN order.portTypes : x \in ToSet(Wsdl.portTypes[order.portTypes[i]])
      OBVIOUS
    <2>3. \A x : (\E i \in DOMAIN order.portTypes : x \in ToSet(Wsdl.portTypes[order.portTypes[i]]))
                    <=> \E p \in DOMAIN Wsdl.portTypes : x \in ToSet(Wsdl.portTypes[p])
      BY <1>0 DEF ToSet
    <2> HIDE DEF listed
    <2> QED BY <2>1, <2>2, <2>3 DEF Declarations
  <1>4. PICK n \in Nat : n = Len(all)
    BY <1>3
  <1>5. DOMAIN all = 1 .. n
    BY <1>3, <1>4
  <1> DEFINE I == {i \in 1 .. n : all[i].name = o.name}
             first == CHOOSE i \in I : \A j \in I : i <= j
  <1>6. I # {}
    <2>1. PICK d \in Declarations : d.name = o.name
      BY DEF Consistent
    <2>2. PICK i \in 1 .. n : all[i] = d
      BY <1>3, <1>5 DEF ToSet
    <2> QED BY <2>1, <2>2
  <1>7. first \in I
    <2>1. I \in SUBSET Nat
      OBVIOUS
    <2>2. \E i \in I : \A j \in I : i <= j
      <3> HIDE DEF I
      <3> QED BY <1>6, <2>1, Least
    <2> HIDE DEF I
    <2> QED BY <2>2
  <1>8. Table!ResolveInputElement(Wsdl, order.portTypes, o.name) = all[first].element
    <2>1. first # 0
      <3>1. \A i \in I : i # 0
        OBVIOUS
      <3> HIDE DEF first, I
      <3> QED BY <1>7, <3>1
    <2>2. Table!Min(I) = first
      BY DEF Table!Min
    <2>3. all = Table!FlattenSeq(listed)
      BY <1>2, SameFlatten
    <2>4. Table!ResolveInputElement(Wsdl, order.portTypes, o.name)
            = LET J == {i \in 1 .. Len(all) : all[i].name = o.name}
                  i == IF J # {} THEN Table!Min(J) ELSE 0
              IN  IF i = 0 THEN Absent ELSE all[i].element
      BY <2>3 DEF Table!ResolveInputElement, Table!SelectInSeq
    <2>5. Table!ResolveInputElement(Wsdl, order.portTypes, o.name)
            = LET i == IF I # {} THEN Table!Min(I) ELSE 0
              IN  IF i = 0 THEN Absent ELSE all[i].element
      BY <1>4, <2>4
    <2> HIDE DEF I, first
    <2> QED BY <1>6, <2>1, <2>2, <2>5
  <1>9. all[first] \in Declarations /\ all[first].name = o.name
    <2>1. first \in 1 .. n /\ all[first].name = o.name
      BY <1>7
    <2> QED BY <1>3, <1>5, <2>1 DEF ToSet
  <1>10. all[first] = CHOOSE d \in Declarations : d.name = o.name
    <2>1. \A d, e \in Declarations : d.name = e.name => d = e
      BY DEF Consistent
    <2> HIDE DEF first
    <2> QED BY <1>9, <2>1
  <1> QED BY <1>8, <1>10 DEF Input, Table!InputType, DeclaredInput

-----------------------------------------------------------------------------
(* The invariant.                                                          *)

NamesOf(set) == {o.name : o \in set}

(* An operation the builder takes.                                         *)
Good(o) ==
    /\ o.name \in config.handlers \/ config.hasDefault
    /\ ~Table!Unresolvable(Wsdl, o, Input(o))

(* The operations of the table being built.                                *)
Scope(s) == IF s = Absent THEN Occurrences ELSE ServiceSet(s)

(* A table whose entries are those of operations of the set, under their   *)
(* own element and action, and which has the operations of the names done. *)
TableFor(t, set, done) ==
    /\ \A k \in DOMAIN t.byElement :
          k # Absent /\ \E o \in set : t.byElement[k] = Entry(o) /\ Input(o) = k
    /\ \A k \in DOMAIN t.byAction :
          k # NoAction /\ \E o \in set : t.byAction[k] = Entry(o) /\ o.action = k
    /\ \A n \in done : \E o \in set :
          /\ o.name = n /\ Good(o)
          /\ Input(o) # Absent => Input(o) \in DOMAIN t.byElement
          /\ o.action # NoAction => o.action \in DOMAIN t.byAction

Typing ==
    /\ Given
    /\ phase \in Phases /\ error \in Errors
    /\ (error # "none") = (phase = "failed")
    /\ remaining \in Seq(Services)
    /\ service \in Services \cup {Absent}
    /\ ops \in Seq(Bindables)
    /\ DOMAIN names = DOMAIN tables
    /\ DOMAIN routes \subseteq DOMAIN tables \cup {config.mountPath}

(* Several services are built one by one, at most one in one go.           *)
Modes ==
    /\ phase = "services" => MultiService
    /\ phase = "operations" => (MultiService <=> service # Absent)
    /\ MultiService /\ phase \notin {"start", "failed"} => config.handlers \subseteq BoundNames
    /\ MultiService /\ phase \in {"built", "serving"} => remaining = <<>>
    /\ ~MultiService => tables = <<>>
    /\ ~MultiService /\ phase \in {"built", "serving"} => config.handlers \subseteq NamesOf(Occurrences)

(* The table under construction has what was consumed, the rest is due.    *)
UnderWay ==
    /\ phase = "operations" =>
          /\ ToSet(ops) \subseteq Scope(service)
          /\ NamesOf(Scope(service)) = consumed \cup NamesOf(ToSet(ops))
          /\ TableFor(table, Scope(service), consumed)
    /\ phase \in {"built", "serving"} /\ ~MultiService =>
          TableFor(table, Occurrences, NamesOf(Occurrences))

(* The services still to be finished.                                      *)
Todo == ToSet(remaining) \cup (IF phase = "operations" THEN {service} ELSE {})

(* A finished table has all the operations of the service it is named      *)
(* after, and every finished service has had its table.                    *)
Finished ==
    /\ \A path \in DOMAIN tables :
          /\ names[path] \in Services /\ ServicePath(names[path]) = path
          /\ TableFor(tables[path], ServiceSet(names[path]), NamesOf(ServiceSet(names[path])))
    /\ MultiService /\ phase \notin {"start", "failed"} =>
          \A s \in Services \ Todo :
              /\ ServicePath(s) \in DOMAIN tables
              /\ \A n \in NamesOf(ServiceSet(s)) : \E o \in ServiceSet(s) : o.name = n /\ Good(o)

(* A build fails because of an operation or of a handler.                  *)
Refused ==
    phase = "failed" =>
        \/ ~(config.handlers \subseteq NamesOf(Occurrences))
        \/ \E o \in Occurrences : ~Good(o)

Routed ==
    phase = "serving" =>
        routes = IF MultiService THEN tables ELSE Table!Put(<<>>, config.mountPath, table)

IInv == Typing /\ Modes /\ UnderWay /\ Finished /\ Refused /\ Routed

(* Neither the configuration nor the orders ever change, nor what is       *)
(* derived from them.                                                      *)
LEMMA Frame ==
    ASSUME config' = config, order' = order
    PROVE  /\ Wsdl' = Wsdl /\ Services' = Services /\ MultiService' = MultiService
           /\ Given' = Given /\ Bindables' = Bindables /\ Occurrences' = Occurrences
           /\ BoundNames' = BoundNames
           /\ \A s : ServicePath(s)' = ServicePath(s) /\ ServiceSet(s)' = ServiceSet(s)
                      /\ Scope(s)' = Scope(s)
           /\ \A o : Input(o)' = Input(o) /\ Entry(o)' = Entry(o) /\ Good(o)' = Good(o)
  <1>1. /\ Wsdl' = Wsdl /\ Services' = Services /\ MultiService' = MultiService
        /\ Bindables' = Bindables /\ Occurrences' = Occurrences
        /\ BoundNames' = BoundNames
    BY DEF Wsdl, Services, MultiService, Bindables, Occurrences, BoundNames
  <1>2. Given' = Given
    BY <1>1 DEF Given
  <1>3. \A s : ServicePath(s)' = ServicePath(s) /\ ServiceSet(s)' = ServiceSet(s)
    BY <1>1 DEF ServicePath, ServiceSet
  <1>4. \A s : Scope(s)' = Scope(s)
    BY <1>1, <1>3 DEF Scope
  <1>5. \A o : Input(o)' = Input(o)
    BY <1>1 DEF Input
  <1>6. \A o : Entry(o)' = Entry(o) /\ Good(o)' = Good(o)
    BY <1>1, <1>5 DEF Entry, Good, HandlerFor
  <1> QED BY <1>1, <1>2, <1>3, <1>4, <1>5, <1>6

(* What a table is for does not change either.                             *)
LEMMA FrameTable ==
    ASSUME config' = config, order' = order, NEW t, NEW set, NEW done
    PROVE  TableFor(t, set, done)' = TableFor(t, set, done)
  BY Frame DEF TableFor

(* Finished tables stay what they are.                                     *)
LEMMA TablesStay ==
    ASSUME IInv, config' = config, order' = order, tables' = tables, names' = names
    PROVE  \A path \in DOMAIN tables' :
             /\ names'[path] \in Services' /\ (ServicePath(names[path]) = path)'
             /\ TableFor(tables[path], ServiceSet(names[path]), NamesOf(ServiceSet(names[path])))'
  BY Frame, FrameTable DEF IInv, Finished

(* A build that fails.                                                     *)
LEMMA FailKeeps ==
    ASSUME IInv, NEW e \in Errors \ {"none"}, Fail(e),
           \/ ~(config.handlers \subseteq NamesOf(Occurrences))
           \/ \E o \in Occurrences : ~Good(o)
    PROVE  IInv'
  <1>1. config' = config /\ order' = order /\ phase' = "failed" /\ error' = e
    BY DEF Fail
  <1>2. Typing'
    BY <1>1, Frame DEF IInv, Typing, Fail, Phases, Errors
  <1>3. Modes'
    BY <1>1, Frame DEF IInv, Modes, Fail
  <1>4. UnderWay'
    BY <1>1 DEF UnderWay
  <1>5. Finished'
    BY <1>1, TablesStay DEF Finished, Fail
  <1>6. Refused'
    BY <1>1, Frame DEF Refused
  <1>7. Routed'
    BY <1>1 DEF Routed
  <1> QED BY <1>2, <1>3, <1>4, <1>5, <1>6, <1>7 DEF IInv

(* Before the first operation.                                             *)
LEMMA EmptyTableFor == ASSUME NEW set PROVE TableFor(Table!EmptyTable, set, {})
  <1>1. DOMAIN Table!EmptyTable.byElement = {} /\ DOMAIN Table!EmptyTable.byAction = {}
    BY DEF Table!EmptyTable
  <1> QED BY <1>1 DEF TableFor

(* Entering a good operation of the set leaves the table one for the set,  *)
(* with the operation done: an entry it replaces is under the same key.    *)
LEMMA Entered ==
    ASSUME NEW t, NEW set, NEW done, TableFor(t, set, done), NEW op \in set, Good(op)
    PROVE  TableFor(Table!Enter(t, op, Entry(op)), set, done \cup {op.name})
  <1> DEFINE u == Table!Enter(t, op, Entry(op))
  <1>1. u = [byElement |-> IF Input(op) = Absent THEN t.byElement
                           ELSE Table!Put(t.byElement, Input(op), Entry(op)),
             byAction |-> IF op.action = NoAction THEN t.byAction
                          ELSE Table!Put(t.byAction, op.action, Entry(op))]
    BY DEF Table!Enter, Entry
  <1> HIDE DEF u
  <1>2. /\ DOMAIN u.byElement = DOMAIN t.byElement \cup (IF Input(op) = Absent THEN {} ELSE {Input(op)})
        /\ \A k \in DOMAIN u.byElement :
              u.byElement[k] = IF Input(op) # Absent /\ k = Input(op) THEN Entry(op) ELSE t.byElement[k]
    BY <1>1 DEF Table!Put
  <1>3. /\ DOMAIN u.byAction = DOMAIN t.byAction \cup (IF op.action = NoAction THEN {} ELSE {op.action})
        /\ \A k \in DOMAIN u.byAction :
              u.byAction[k] = IF op.action # NoAction /\ k = op.action THEN Entry(op) ELSE t.byAction[k]
    BY <1>1 DEF Table!Put
  <1>4. \A k \in DOMAIN u.byElement :
            k # Absent /\ \E o \in set : u.byElement[k] = Entry(o) /\ Input(o) = k
    BY <1>2 DEF TableFor
  <1>5. \A k \in DOMAIN u.byAction :
            k # NoAction /\ \E o \in set : u.byAction[k] = Entry(o) /\ o.action = k
    BY <1>3 DEF TableFor
  <1>6. \A n \in done \cup {op.name} : \E o \in set :
            /\ o.name = n /\ Good(o)
            /\ Input(o) # Absent => Input(o) \in DOMAIN u.byElement
            /\ o.action # NoAction => o.action \in DOMAIN u.byAction
    BY <1>2, <1>3 DEF TableFor
  <1>7. TableFor(u, set, done \cup {op.name})
    BY <1>4, <1>5, <1>6 DEF TableFor
  <1> QED BY <1>7 DEF u

(* The names in a sequence, and the names some service binds.              *)
LEMMA OpNamesAre == ASSUME NEW seq PROVE OpNames(seq) = NamesOf(ToSet(seq))
  BY DEF OpNames, NamesOf, ToSet

(* ... as the check of the handlers before the first table sees them.      *)
LEMMA BoundNamesAre ==
    ASSUME config \in Configs, MultiService
    PROVE  BoundNames = NamesOf(Occurrences)
  <1>1. \A n : n \in BoundNames <=> \E s \in Services : n \in NamesOf(ServiceSet(s))
    BY OpNamesAre DEF BoundNames, ServiceSet
  <1>2. \A n : n \in NamesOf(Occurrences) <=> \E o \in Occurrences : n = o.name
    BY DEF NamesOf
  <1>3. \A n, s : n \in NamesOf(ServiceSet(s)) <=> \E o \in ServiceSet(s) : n = o.name
    BY DEF NamesOf
  <1>4. \A n : n \in BoundNames <=> n \in NamesOf(Occurrences)
    BY <1>1, <1>2, <1>3, OccurrencesAre
  <1> QED BY <1>4

(* A table is given its own handlers only, and misses none of them.        *)
LEMMA HandledIs ==
    ASSUME NEW op \in Scope(service)
    PROVE  Handled(op) <=> op.name \in config.handlers \/ config.hasDefault
  <1>1. CASE service = Absent
    BY <1>1 DEF Handled, TableHandlers
  <1>2. CASE service # Absent
    <2>1. op.name \in OpNames(Table!ServiceOps(Wsdl, service))
      BY <1>2, OpNamesAre DEF Scope, ServiceSet, NamesOf
    <2> QED BY <1>2, <2>1 DEF Handled, TableHandlers
  <1> QED BY <1>1, <1>2

(* What a table is being built for is bound.                               *)
LEMMA ScopeBound ==
    ASSUME IInv, phase = "operations"
    PROVE  Scope(service) \subseteq Occurrences
  BY OccurrencesAre DEF IInv, Typing, Given, Modes, Scope

-----------------------------------------------------------------------------
(* The steps.                                                              *)

(* The invariant holds before build() does anything.                       *)
LEMMA Initially == Init => IInv
  <1> SUFFICES ASSUME Init PROVE IInv
    OBVIOUS
  <1>1. Given
    <2>1. /\ config \in Configs
          /\ order.services \in SetToSeqs(Services)
          /\ order.bindings \in SetToSeqs(DOMAIN Wsdl.bindings)
          /\ order.portTypes \in SetToSeqs(DOMAIN Wsdl.portTypes)
      BY DEF Init, Services, Wsdl
    <2> QED BY <2>1, ConfigFacts, OrderIs DEF Given
  <1>2. Typing
    BY <1>1 DEF Init, Typing, Phases, Errors
  <1>3. Modes
    BY DEF Init, Modes
  <1>4. UnderWay /\ Refused /\ Routed
    BY DEF Init, UnderWay, Refused, Routed
  <1>5. Finished
    BY DEF Init, Finished
  <1> QED BY <1>2, <1>3, <1>4, <1>5 DEF IInv

(* A handler that no service has an operation for.                         *)
LEMMA RefuseUnboundHandlerKeeps == ASSUME IInv, RefuseUnboundHandler PROVE IInv'
  <1>1. ~(config.handlers \subseteq NamesOf(Occurrences)) /\ Fail("UnknownOperation")
    BY BoundNamesAre DEF RefuseUnboundHandler, IInv, Typing, Given
  <1>2. "UnknownOperation" \in Errors \ {"none"}
    BY DEF Errors
  <1> QED BY <1>1, <1>2, FailKeeps

(* An operation without a handler, and without a default one.              *)
LEMMA RefuseUnregisteredKeeps == ASSUME IInv, RefuseUnregistered PROVE IInv'
  <1>1. Head(ops) \in Scope(service) /\ Head(ops) \in Occurrences
    <2>1. Head(ops) \in ToSet(ops)
      BY HeadAndTail DEF IInv, Typing, RefuseUnregistered
    <2> QED BY <2>1, ScopeBound DEF IInv, UnderWay, RefuseUnregistered
  <1>2. ~Good(Head(ops)) /\ Fail("UnregisteredOperation")
    BY <1>1, HandledIs DEF RefuseUnregistered, Good
  <1>3. "UnregisteredOperation" \in Errors \ {"none"}
    BY DEF Errors
  <1> QED BY <1>1, <1>2, <1>3, FailKeeps

(* An operation whose input type is not in the registry.                   *)
LEMMA RefuseUnresolvableKeeps == ASSUME IInv, RefuseUnresolvable PROVE IInv'
  <1>1. Head(ops) \in Scope(service) /\ Head(ops) \in Occurrences
    <2>1. Head(ops) \in ToSet(ops)
      BY HeadAndTail DEF IInv, Typing, RefuseUnresolvable
    <2> QED BY <2>1, ScopeBound DEF IInv, UnderWay, RefuseUnresolvable
  <1>2. ~Good(Head(ops)) /\ Fail("WsdlParse")
    BY DEF RefuseUnresolvable, Good
  <1>3. "WsdlParse" \in Errors \ {"none"}
    BY DEF Errors
  <1> QED BY <1>1, <1>2, <1>3, FailKeeps

(* When every operation is entered, only a handler of no operation at all  *)
(* can be left over: a service's own are all consumed.                     *)
LEMMA RefuseUnconsumedKeeps == ASSUME IInv, RefuseUnconsumed PROVE IInv'
  <1>1. consumed = NamesOf(Scope(service))
    <2>1. NamesOf(ToSet(ops)) = {}
      BY DEF RefuseUnconsumed, NamesOf, ToSet
    <2> QED BY <2>1 DEF IInv, UnderWay, RefuseUnconsumed
  <1>2. service = Absent
    BY <1>1, OpNamesAre DEF RefuseUnconsumed, TableHandlers, Scope, ServiceSet
  <1>3. ~(config.handlers \subseteq NamesOf(Occurrences)) /\ Fail("UnknownOperation")
    BY <1>1, <1>2 DEF RefuseUnconsumed, TableHandlers, Scope
  <1>4. "UnknownOperation" \in Errors \ {"none"}
    BY DEF Errors
  <1> QED BY <1>3, <1>4, FailKeeps

(* In single-service mode the only table is for everything that is bound.  *)
LEMMA StartSingleKeeps == ASSUME IInv, StartSingle PROVE IInv'
  <1>0. /\ config' = config /\ order' = order /\ phase' = "operations" /\ service' = Absent
        /\ consumed' = {} /\ table' = Table!EmptyTable /\ ~MultiService
        /\ ops' = Table!OpsOfAll(Wsdl, order.services, order.bindings)
        /\ UNCHANGED <<error, remaining, tables, names, routes>> /\ phase = "start"
    BY DEF StartSingle, BeginTable
  <1>1. /\ ops' \in Seq(Bindables) /\ ToSet(ops') \subseteq Occurrences
        /\ \A o \in Occurrences : \E p \in ToSet(ops') : p.name = o.name
    BY <1>0, OpsOfAllAre DEF IInv, Typing
  <1>2. Typing'
    BY <1>0, <1>1, Frame DEF IInv, Typing, Phases
  <1>3. Modes'
    BY <1>0, Frame DEF IInv, Modes
  <1>4. UnderWay'
    <2>1. Scope(service)' = Occurrences
      BY <1>0, Frame DEF Scope
    <2>2. NamesOf(Occurrences) = NamesOf(ToSet(ops'))
      BY <1>1 DEF NamesOf
    <2>3. TableFor(table, Scope(service), consumed)'
      BY <1>0, <2>1, EmptyTableFor, FrameTable
    <2> QED BY <1>0, <1>1, <2>1, <2>2, <2>3 DEF UnderWay
  <1>5. Finished'
    BY <1>0, Frame, TablesStay DEF Finished
  <1> QED BY <1>0, <1>2, <1>3, <1>4, <1>5 DEF IInv, Refused, Routed

(* In multi-service mode every service is due.                             *)
LEMMA StartMultiKeeps == ASSUME IInv, StartMulti PROVE IInv'
  <1>0. /\ config' = config /\ order' = order /\ phase' = "services" /\ MultiService
        /\ remaining' = order.services /\ config.handlers \subseteq BoundNames
        /\ UNCHANGED <<error, service, ops, consumed, table, tables, names, routes>>
        /\ phase = "start"
    BY DEF StartMulti
  <1>1. remaining' \in Seq(Services) /\ ToSet(remaining') = Services
    BY <1>0 DEF IInv, Typing, Given
  <1>2. Typing'
    BY <1>0, <1>1, Frame DEF IInv, Typing, Phases
  <1>3. Modes'
    BY <1>0, Frame DEF IInv, Modes
  <1>4. Finished'
    BY <1>0, <1>1, Frame, TablesStay DEF Finished, Todo
  <1> QED BY <1>0, <1>2, <1>3, <1>4 DEF IInv, UnderWay, Refused, Routed

(* The next service is taken from those due, with an empty table.          *)
LEMMA BeginServiceKeeps == ASSUME IInv, BeginService PROVE IInv'
  <1> DEFINE s == Head(remaining)
  <1>0. /\ config' = config /\ order' = order /\ phase' = "operations" /\ service' = s
        /\ consumed' = {} /\ table' = Table!EmptyTable
        /\ ops' = Table!OpsOfService(Wsdl, s) /\ remaining' = Tail(remaining)
        /\ UNCHANGED <<error, tables, names, routes>> /\ phase = "services" /\ remaining # <<>>
    BY DEF BeginService, BeginTable
  <1>1. /\ s \in ToSet(remaining) /\ remaining' \in Seq(Services)
        /\ ToSet(remaining) = {s} \cup ToSet(remaining')
    BY <1>0, HeadAndTail DEF IInv, Typing
  <1>2. s \in Services /\ s # Absent /\ MultiService
    BY <1>0, <1>1, ConfigFacts DEF IInv, Typing, Given, Modes, ToSet
  <1> HIDE DEF s
  <1>3. /\ ops' \in Seq(Bindables) /\ ToSet(ops') \subseteq ServiceSet(s)
        /\ \A o \in ServiceSet(s) : \E p \in ToSet(ops') : p.name = o.name
    BY <1>0, <1>2, OpsOfServiceAre DEF IInv, Typing, Given
  <1>4. Typing'
    BY <1>0, <1>1, <1>2, <1>3, Frame DEF IInv, Typing, Phases
  <1>5. Modes'
    BY <1>0, <1>2, Frame DEF IInv, Modes
  <1>6. UnderWay'
    <2>1. Scope(service)' = ServiceSet(s)
      BY <1>0, <1>2, Frame DEF Scope
    <2>2. NamesOf(ServiceSet(s)) = NamesOf(ToSet(ops'))
      BY <1>3 DEF NamesOf
    <2>3. TableFor(table, Scope(service), consumed)'
      BY <1>0, <2>1, EmptyTableFor, FrameTable
    <2> QED BY <1>0, <1>3, <2>1, <2>2, <2>3 DEF UnderWay
  <1>7. Finished'
    <2>1. Todo' = Todo
      BY <1>0, <1>1 DEF Todo
    <2> QED BY <1>0, <2>1, Frame, TablesStay DEF IInv, Finished
  <1> QED BY <1>0, <1>4, <1>5, <1>6, <1>7 DEF IInv, Refused, Routed

(* The next operation moves from those due to those consumed.              *)
LEMMA AddOperationKeeps == ASSUME IInv, AddOperation PROVE IInv'
  <1> DEFINE op == Head(ops)
  <1>0. /\ config' = config /\ order' = order /\ phase' = phase /\ ops # <<>>
        /\ table' = Table!Enter(table, op, Entry(op)) /\ consumed' = consumed \cup {op.name}
        /\ ops' = Tail(ops) /\ Handled(op) /\ ~Table!Unresolvable(Wsdl, op, Input(op))
        /\ UNCHANGED <<error, remaining, service, tables, names, routes>> /\ phase = "operations"
    BY DEF AddOperation
  <1>1. /\ op \in ToSet(ops) /\ ops' \in Seq(Bindables)
        /\ \A x : x \in ToSet(ops) <=> x = op \/ x \in ToSet(ops')
    BY <1>0, HeadAndTail DEF IInv, Typing
  <1> HIDE DEF op
  <1>2. op \in Scope(service)
    BY <1>0, <1>1 DEF IInv, UnderWay
  <1>3. Good(op)
    BY <1>0, <1>2, HandledIs DEF Good
  <1>4. Typing'
    BY <1>0, <1>1, Frame DEF IInv, Typing
  <1>5. Modes'
    BY <1>0, Frame DEF IInv, Modes
  <1>6. UnderWay'
    <2>1. Scope(service)' = Scope(service)
      BY <1>0, Frame
    <2>2. NamesOf(ToSet(ops)) = {op.name} \cup NamesOf(ToSet(ops'))
      BY <1>1 DEF NamesOf
    <2>3. TableFor(table', Scope(service), consumed')
      BY <1>0, <1>2, <1>3, Entered DEF IInv, UnderWay
    <2>4. TableFor(table, Scope(service), consumed)'
      BY <1>0, <2>1, <2>3, FrameTable
    <2> QED BY <1>0, <1>1, <2>1, <2>2, <2>4 DEF IInv, UnderWay
  <1>7. Finished'
    <2>1. Todo' = Todo
      BY <1>0 DEF Todo
    <2> QED BY <1>0, <2>1, Frame, TablesStay DEF IInv, Finished
  <1> QED BY <1>0, <1>4, <1>5, <1>6, <1>7 DEF IInv, Refused, Routed

(* At the end of the operations of a table every one of them is in it.     *)
LEMMA AllConsumed ==
    ASSUME IInv, phase = "operations", ops = <<>>
    PROVE  consumed = NamesOf(Scope(service)) /\ TableFor(table, Scope(service), NamesOf(Scope(service)))
  <1>1. NamesOf(ToSet(ops)) = {}
    BY DEF NamesOf, ToSet
  <1> QED BY <1>1 DEF IInv, UnderWay

(* The only table is complete, and no handler was left over.               *)
LEMMA FinishSingleKeeps == ASSUME IInv, FinishSingle PROVE IInv'
  <1>0. /\ config' = config /\ order' = order /\ phase = "operations" /\ phase' = "built"
        /\ ops = <<>> /\ service = Absent /\ TableHandlers \subseteq consumed
        /\ UNCHANGED <<error, remaining, service, ops, consumed, table, tables, names, routes>>
    BY DEF FinishSingle
  <1>1. ~MultiService /\ Scope(service) = Occurrences /\ TableHandlers = config.handlers
    BY <1>0 DEF IInv, Modes, Scope, TableHandlers
  <1>2. Typing'
    BY <1>0, Frame DEF IInv, Typing, Phases
  <1>3. Modes'
    BY <1>0, <1>1, Frame, AllConsumed DEF IInv, Modes
  <1>4. UnderWay'
    <2>1. TableFor(table, Occurrences, NamesOf(Occurrences))
      BY <1>0, <1>1, AllConsumed
    <2>2. TableFor(table, Occurrences, NamesOf(Occurrences))'
      BY <1>0, <2>1, Frame, FrameTable
    <2> QED BY <1>0, <2>2 DEF UnderWay
  <1>5. Finished'
    BY <1>0, <1>1, Frame, TablesStay DEF Finished
  <1> QED BY <1>0, <1>2, <1>3, <1>4, <1>5 DEF IInv, Refused, Routed

(* The finished table goes under the path of its service, in place of that *)
(* of an earlier service on the same path.                                 *)
LEMMA FinishServiceKeeps == ASSUME IInv, FinishService PROVE IInv'
  <1> DEFINE path == ServicePath(service)
  <1>0. /\ config' = config /\ order' = order /\ phase = "operations" /\ phase' = "services"
        /\ ops = <<>> /\ service # Absent
        /\ tables' = Table!Put(tables, path, table) /\ names' = Table!Put(names, path, service)
        /\ UNCHANGED <<error, remaining, service, ops, consumed, table, routes>>
    BY DEF FinishService
  <1>1. MultiService /\ service \in Services /\ Scope(service) = ServiceSet(service)
    BY <1>0 DEF IInv, Modes, Typing, Scope
  <1>2. TableFor(table, ServiceSet(service), NamesOf(ServiceSet(service)))
    BY <1>0, <1>1, AllConsumed
  <1>3. /\ DOMAIN tables' = DOMAIN tables \cup {path} /\ DOMAIN names' = DOMAIN names \cup {path}
        /\ \A p \in DOMAIN tables' : /\ tables'[p] = IF p = path THEN table ELSE tables[p]
        /\ \A p \in DOMAIN names' : names'[p] = IF p = path THEN service ELSE names[p]
    BY <1>0 DEF Table!Put
  <1> HIDE DEF path
  <1>4. Typing'
    BY <1>0, <1>3, Frame DEF IInv, Typing, Phases
  <1>5. Modes'
    BY <1>0, <1>1, Frame DEF IInv, Modes
  <1>6. Finished'
    <2>1. ASSUME NEW p \in DOMAIN tables'
          PROVE  /\ names'[p] \in Services /\ ServicePath(names'[p]) = p
                 /\ TableFor(tables'[p], ServiceSet(names'[p]), NamesOf(ServiceSet(names'[p])))
      <3>1. CASE p = path
        BY <1>1, <1>2, <1>3, <3>1 DEF path, IInv, Typing
      <3>2. CASE p # path
        BY <1>3, <3>2 DEF IInv, Finished, Typing
      <3> QED BY <3>1, <3>2
    <2>2. ASSUME NEW p \in DOMAIN tables'
          PROVE  /\ (names[p] \in Services)' /\ (ServicePath(names[p]) = p)'
                 /\ TableFor(tables[p], ServiceSet(names[p]), NamesOf(ServiceSet(names[p])))'
      BY <1>0, <2>1, Frame, FrameTable
    <2>3. \A s \in Services \ Todo' : s \in Services \ Todo \/ s = service
      BY <1>0 DEF Todo
    <2>4. \A n \in NamesOf(ServiceSet(service)) : \E o \in ServiceSet(service) : o.name = n /\ Good(o)
      BY <1>2 DEF TableFor
    <2>5. \A s \in Services \ Todo' :
              /\ ServicePath(s) \in DOMAIN tables'
              /\ \A n \in NamesOf(ServiceSet(s)) : \E o \in ServiceSet(s) : o.name = n /\ Good(o)
      BY <1>0, <1>1, <1>3, <2>3, <2>4 DEF IInv, Finished, path
    <2> QED BY <1>0, <2>2, <2>5, Frame DEF Finished
  <1> QED BY <1>0, <1>1, <1>4, <1>5, <1>6, Frame DEF IInv, UnderWay, Refused, Routed

(* No service is due any more.                                             *)
LEMMA FinishMultiKeeps == ASSUME IInv, FinishMulti PROVE IInv'
  <1>0. /\ config' = config /\ order' = order /\ phase = "services" /\ phase' = "built"
        /\ remaining = <<>>
        /\ UNCHANGED <<error, remaining, service, ops, consumed, table, tables, names, routes>>
    BY DEF FinishMulti
  <1>1. MultiService
    BY <1>0 DEF IInv, Modes
  <1>2. Typing'
    BY <1>0, Frame DEF IInv, Typing, Phases
  <1>3. Modes'
    BY <1>0, <1>1, Frame DEF IInv, Modes
  <1>4. UnderWay'
    BY <1>0, <1>1, Frame DEF UnderWay
  <1>5. Finished'
    <2>1. Todo' = Todo
      BY <1>0 DEF Todo
    <2> QED BY <1>0, <1>1, <2>1, Frame, TablesStay DEF IInv, Finished
  <1> QED BY <1>0, <1>2, <1>3, <1>4, <1>5 DEF IInv, Refused, Routed

(* Several services have each had a table by then, so there is one.        *)
LEMMA SomeTable ==
    ASSUME IInv, MultiService, phase \in {"built", "serving"}
    PROVE  DOMAIN tables # {} /\ tables # <<>>
  <1>1. Services # {}
    <2>1. Cardinality({}) = 0
      BY FS_EmptySet
    <2> QED BY <2>1 DEF MultiService
  <1>2. Todo = {}
    BY DEF IInv, Modes, Todo, ToSet
  <1>3. DOMAIN tables # {}
    BY <1>1, <1>2 DEF IInv, Finished
  <1>4. DOMAIN <<>> = {}
    OBVIOUS
  <1> QED BY <1>3, <1>4

(* The routes are the tables of the services, or the only table.           *)
LEMMA IntoRouterKeeps == ASSUME IInv, IntoRouter PROVE IInv'
  <1>0. /\ config' = config /\ order' = order /\ phase = "built" /\ phase' = "serving"
        /\ routes' = IF tables # <<>> THEN tables ELSE Table!Put(<<>>, config.mountPath, table)
        /\ UNCHANGED <<error, remaining, service, ops, consumed, table, tables, names>>
    BY DEF IntoRouter
  <1>1. DOMAIN routes' \subseteq DOMAIN tables \cup {config.mountPath}
    <2>1. DOMAIN Table!Put(<<>>, config.mountPath, table) = {config.mountPath}
      BY DEF Table!Put
    <2> QED BY <1>0, <2>1
  <1>2. Typing'
    BY <1>0, <1>1, Frame DEF IInv, Typing, Phases
  <1>3. Modes'
    BY <1>0, Frame DEF IInv, Modes
  <1>4. UnderWay'
    BY <1>0, Frame, FrameTable DEF IInv, UnderWay
  <1>5. Finished'
    <2>1. Todo' = Todo
      BY <1>0 DEF Todo
    <2> QED BY <1>0, <2>1, Frame, TablesStay DEF IInv, Finished
  <1>6. Routed'
    <2>1. routes' = IF MultiService THEN tables ELSE Table!Put(<<>>, config.mountPath, table)
      BY <1>0, SomeTable DEF IInv, Modes
    <2> QED BY <1>0, <2>1, Frame DEF Routed
  <1> QED BY <1>0, <1>2, <1>3, <1>4, <1>5, <1>6 DEF IInv, Refused

(* Steps that change nothing.                                              *)
LEMMA StutterKeeps == ASSUME IInv, UNCHANGED vars PROVE IInv'
  <1>0. /\ config' = config /\ order' = order
        /\ UNCHANGED <<phase, error, remaining, service, ops, consumed, table, tables, names, routes>>
    BY DEF vars
  <1>1. Todo' = Todo
    BY <1>0 DEF Todo
  <1>2. Typing' /\ Modes' /\ Refused' /\ Routed'
    BY <1>0, Frame DEF IInv, Typing, Modes, Refused, Routed
  <1>3. UnderWay'
    BY <1>0, Frame, FrameTable DEF IInv, UnderWay
  <1>4. Finished'
    BY <1>0, <1>1, Frame, TablesStay DEF IInv, Finished
  <1> QED BY <1>2, <1>3, <1>4 DEF IInv

(* The invariant holds in every state of the builder.                      *)
THEOREM Invariant == Spec => []IInv
  <1>1. IInv /\ [Next]_vars => IInv'
    <2> SUFFICES ASSUME IInv, [Next]_vars PROVE IInv'
      OBVIOUS
    <2> QED
      BY StartSingleKeeps, StartMultiKeeps, RefuseUnboundHandlerKeeps, BeginServiceKeeps,
         FinishServiceKeeps, FinishSingleKeeps, FinishMultiKeeps, RefuseUnregisteredKeeps,
         RefuseUnresolvableKeeps, RefuseUnconsumedKeeps, AddOperationKeeps, IntoRouterKeeps,
         StutterKeeps DEF Next
  <1> QED BY <1>1, Initially, PTL DEF Spec

-----------------------------------------------------------------------------
(* What the invariant says of the server.                                  *)

(* The builder's variables have their types: an error is returned exactly  *)
(* when the build has failed, and only known paths are mounted.            *)
THEOREM TypeCorrect == Spec => []TypeOK
  <1>1. IInv => TypeOK
    BY DEF IInv, Typing, TypeOK, ToSet
  <1> QED BY <1>1, Invariant, PTL

(* build() decides as the declarations say: when names mean one thing, an  *)
(* operation is good exactly when it has a handler and its type is known.  *)
LEMMA GoodIs ==
    ASSUME Given, Consistent, NEW o \in Occurrences
    PROVE  /\ Table!ValidationType(Wsdl, o, Input(o)) = DeclaredType(o)
           /\ Good(o) <=> /\ o.name \in config.handlers \/ config.hasDefault
                          /\ \/ o.style = "rpc"
                             \/ DeclaredType(o) = Absent
                             \/ DeclaredType(o) \in DOMAIN Wsdl.registry
  <1>1. Table!ValidationType(Wsdl, o, Input(o)) = DeclaredType(o)
    BY FirstDeclaration DEF Table!ValidationType, DeclaredType
  <1> QED BY <1>1 DEF Good, Table!Unresolvable

(* When the build has succeeded every operation was good.                  *)
LEMMA AllGood ==
    ASSUME IInv, Consistent, phase \in {"built", "serving"}
    PROVE  config.handlers \subseteq NamesOf(Occurrences) /\ \A o \in Occurrences : Good(o)
  <1>1. Given /\ config \in Configs
    BY DEF IInv, Typing, Given
  <1>2. CASE MultiService
    <2>1. Todo = {}
      BY <1>2 DEF IInv, Modes, Todo, ToSet
    <2>2. ASSUME NEW o \in Occurrences PROVE Good(o)
      <3>1. PICK s \in Services : o \in ServiceSet(s)
        BY <1>1, <1>2, OccurrencesAre
      <3>2. PICK p \in ServiceSet(s) : p.name = o.name /\ Good(p)
        BY <1>2, <2>1, <3>1 DEF IInv, Finished, NamesOf
      <3>3. p \in Occurrences
        BY <1>1, <1>2, OccurrencesAre
      <3> QED BY <3>2, <3>3 DEF Consistent
    <2>3. config.handlers \subseteq BoundNames
      BY <1>2 DEF IInv, Modes
    <2> QED BY <1>1, <1>2, <2>2, <2>3, BoundNamesAre
  <1>3. CASE ~MultiService
    <2>1. TableFor(table, Occurrences, NamesOf(Occurrences))
      BY <1>3 DEF IInv, UnderWay
    <2>2. ASSUME NEW o \in Occurrences PROVE Good(o)
      <3>1. PICK p \in Occurrences : p.name = o.name /\ Good(p)
        BY <2>1 DEF TableFor, NamesOf
      <3> QED BY <3>1 DEF Consistent
    <2> QED BY <1>3, <2>2 DEF IInv, Modes
  <1> QED BY <1>2, <1>3

(* build() fails exactly when an operation has no handler, a handler has   *)
(* no operation, or an input type is missing from the registry, whichever  *)
(* order the hash maps are visited in (server.rs:204-341).                 *)
THEOREM Decided == Spec => []BuildDecision
  <1>1. IInv => BuildDecision
    <2> SUFFICES ASSUME IInv, phase \in {"built", "serving", "failed"}, Consistent
                 PROVE  (phase # "failed") =
                            /\ config.handlers \subseteq NamesOf(Occurrences)
                            /\ \A o \in Occurrences :
                                  /\ o.name \in config.handlers \/ config.hasDefault
                                  /\ \/ o.style = "rpc"
                                     \/ DeclaredType(o) = Absent
                                     \/ DeclaredType(o) \in DOMAIN Wsdl.registry
      BY DEF BuildDecision, NamesOf
    <2>1. CASE phase = "failed"
      BY <2>1, GoodIs DEF IInv, Typing, Refused
    <2>2. CASE phase \in {"built", "serving"}
      BY <2>2, GoodIs, AllGood DEF IInv, Typing
    <2> QED BY <2>1, <2>2
  <1> QED BY <1>1, Invariant, PTL

(* Each route of a multi-service server has the entries of the service     *)
(* it is named after and of no other (server.rs:239-295).                  *)
THEOREM Isolated == Spec => []RoutesIsolated
  <1>1. IInv => RoutesIsolated
    <2> SUFFICES ASSUME IInv, phase = "serving", MultiService, NEW path \in DOMAIN routes
                 PROVE  /\ ServicePath(names[path]) = path
                        /\ \A e \in Range(routes[path].byElement) \cup Range(routes[path].byAction) :
                              \E o \in OwnOps(path) : e = Entry(o)
      BY DEF RoutesIsolated
    <2>1. routes = tables
      BY DEF IInv, Routed
    <2>2. /\ ServicePath(names[path]) = path
          /\ TableFor(routes[path], ServiceSet(names[path]), NamesOf(ServiceSet(names[path])))
      BY <2>1 DEF IInv, Finished
    <2>3. OwnOps(path) = ServiceSet(names[path])
      BY DEF OwnOps, ServiceSet
    <2>4. ASSUME NEW e \in Range(routes[path].byElement) \cup Range(routes[path].byAction)
          PROVE  \E o \in OwnOps(path) : e = Entry(o)
      BY <2>2, <2>3 DEF TableFor, Range
    <2> QED BY <2>2, <2>4
  <1> QED BY <1>1, Invariant, PTL

(* None is not an entry of a table.                                        *)
AbsentIsNoEntry ==
    \A h, a, i, v : Absent # [handler |-> h, authRequired |-> a, input |-> i, validation |-> v]

(* A table of the operations of a set serves each of them, when no two of  *)
(* them share an element or an action.                                     *)
LEMMA TableServes ==
    ASSUME Given, Consistent, AbsentIsNoEntry, NEW set \in SUBSET Occurrences, NEW o \in set, NEW t,
           TableFor(t, set, NamesOf(set)),
           \A p, r \in set : p.name # r.name =>
                /\ DeclaredInput(p) # DeclaredInput(r) \/ DeclaredInput(p) = Absent
                /\ p.action # r.action \/ p.action = NoAction
    PROVE  /\ DeclaredInput(o) # Absent => \A a : Serves(Table!Route(t, DeclaredInput(o), a), o)
           /\ o.action # NoAction =>
                 \A q : q # Absent /\ (\A p \in set : q # DeclaredInput(p))
                          => Serves(Table!Route(t, q, o.action), o)
  <1>1. \A p \in set : Input(p) = DeclaredInput(p)
    BY FirstDeclaration
  <1>2. Serves(Entry(o), o)
    <2>1. Entry(o) # Absent
      BY DEF AbsentIsNoEntry, Entry
    <2>2. /\ Entry(o).handler = HandlerFor(o.name)
          /\ Entry(o).authRequired = (o.name \notin config.bypass)
          /\ Entry(o).validation = DeclaredType(o)
      BY GoodIs DEF Entry
    <2> QED BY <2>1, <2>2 DEF Serves
  <1>3. \A p \in set : p.name = o.name => p = o
    BY DEF Consistent
  <1>4. /\ Input(o) # Absent => Input(o) \in DOMAIN t.byElement
        /\ o.action # NoAction => o.action \in DOMAIN t.byAction
    <2>1. PICK p \in set : /\ p.name = o.name
                           /\ Input(p) # Absent => Input(p) \in DOMAIN t.byElement
                           /\ p.action # NoAction => p.action \in DOMAIN t.byAction
      BY DEF TableFor, NamesOf
    <2> QED BY <1>3, <2>1
  <1>5. ASSUME DeclaredInput(o) # Absent, NEW a PROVE Serves(Table!Route(t, DeclaredInput(o), a), o)
    <2>1. DeclaredInput(o) \in DOMAIN t.byElement
      BY <1>1, <1>4, <1>5
    <2>2. PICK p \in set : t.byElement[DeclaredInput(o)] = Entry(p) /\ Input(p) = DeclaredInput(o)
      BY <2>1 DEF TableFor
    <2>3. p = o
      BY <1>1, <1>3, <1>5, <2>2
    <2>4. Table!Route(t, DeclaredInput(o), a) = Entry(o)
      BY <2>1, <2>2, <2>3 DEF Table!Route
    <2> QED BY <1>2, <2>4
  <1>6. ASSUME o.action # NoAction, NEW q, q # Absent, \A p \in set : q # DeclaredInput(p)
        PROVE  Serves(Table!Route(t, q, o.action), o)
    <2>1. q \notin DOMAIN t.byElement
      BY <1>1, <1>6 DEF TableFor
    <2>2. o.action \in DOMAIN t.byAction /\ o.action # Absent
      BY <1>4, <1>6, OccurrencesAre DEF Given
    <2>3. PICK p \in set : t.byAction[o.action] = Entry(p) /\ p.action = o.action
      BY <2>2 DEF TableFor
    <2>4. p = o
      BY <1>3, <1>6, <2>3
    <2>5. Table!Route(t, q, o.action) = Entry(o)
      BY <2>1, <2>2, <2>3, <2>4 DEF Table!Route
    <2> QED BY <1>2, <2>5
  <1> QED BY <1>5, <1>6

(* Every operation of a mounted service is reached, by its element and by  *)
(* its SOAPAction, with its own handler, authentication and type           *)
(* (dispatch.rs:336-358 on the tables of server.rs:305-341).               *)
THEOREM Served == ASSUME AbsentIsNoEntry PROVE Spec => []OperationsServed
  <1>1. IInv => OperationsServed
    <2> SUFFICES ASSUME IInv, phase = "serving", Consistent, Unambiguous,
                        NEW path \in DOMAIN routes, NEW o \in OwnOps(path)
                 PROVE  /\ DeclaredInput(o) # Absent =>
                             \A p \in Occurrences :
                                 Serves(Table!Route(routes[path], DeclaredInput(o), p.action), o)
                        /\ o.action # NoAction =>
                             \A q \in Foreign(path) : Serves(Table!Route(routes[path], q, o.action), o)
      BY DEF OperationsServed
    <2>1. Given /\ config \in Configs
      BY DEF IInv, Typing, Given
    <2>2. /\ TableFor(routes[path], OwnOps(path), NamesOf(OwnOps(path)))
          /\ OwnOps(path) \subseteq Occurrences /\ OwnOps(path) \in Groups
      <3>1. CASE MultiService
        <4>1. routes = tables /\ OwnOps(path) = ServiceSet(names[path]) /\ names[path] \in Services
          BY <3>1 DEF IInv, Routed, OwnOps, ServiceSet, Finished
        <4>2. TableFor(routes[path], OwnOps(path), NamesOf(OwnOps(path)))
          BY <4>1 DEF IInv, Finished
        <4> QED BY <2>1, <3>1, <4>1, <4>2, OccurrencesAre DEF Groups, ServiceSet
      <3>2. CASE ~MultiService
        <4>1. routes = Table!Put(<<>>, config.mountPath, table) /\ OwnOps(path) = Occurrences
          BY <3>2 DEF IInv, Routed, OwnOps
        <4>2. routes[path] = table
          <5>1. DOMAIN routes = {config.mountPath} /\ routes[config.mountPath] = table
            BY <4>1 DEF Table!Put
          <5> QED BY <5>1
        <4> QED BY <3>2, <4>1, <4>2 DEF IInv, UnderWay, Groups
      <3> QED BY <3>1, <3>2
    <2>3. \A p, r \in OwnOps(path) : p.name # r.name =>
              /\ DeclaredInput(p) # DeclaredInput(r) \/ DeclaredInput(p) = Absent
              /\ p.action # r.action \/ p.action = NoAction
      BY <2>2 DEF Unambiguous
    <2>4. /\ DeclaredInput(o) # Absent =>
                \A a : Serves(Table!Route(routes[path], DeclaredInput(o), a), o)
          /\ o.action # NoAction =>
                \A q : q # Absent /\ (\A p \in OwnOps(path) : q # DeclaredInput(p))
                         => Serves(Table!Route(routes[path], q, o.action), o)
      BY <2>1, <2>2, <2>3, TableServes
    <2>5. \A q \in Foreign(path) : q # Absent /\ \A p \in OwnOps(path) : q # DeclaredInput(p)
      BY DEF Foreign
    <2> QED BY <2>4, <2>5
  <1> QED BY <1>1, Invariant, PTL
============================================================================
