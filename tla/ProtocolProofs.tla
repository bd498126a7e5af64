--------------------------- MODULE ProtocolProofs ---------------------------
(***************************************************************************)
(* What is proved of the protocol and its host, for every base, every      *)
(* longest payload that two bytes can state, every set of configurations   *)
(* and whatever pieces the clients send.                                   *)
(*                                                                         *)
(* The promise is stated by recursive functions: the requests of a stream, *)
(* the configuration after them and the answers to them.  Their equations  *)
(* are derived, not assumed: RecursionExists shows that a function whose   *)
(* value asks only for values at smaller arguments exists, and an          *)
(* induction over sizes (SizeInduction) reaches every argument.            *)
(*                                                                         *)
(* The decoder.  DecoderAgrees speaks of the moments between two bytes and *)
(* is not inductive.  DecoderInv says more, at every step: whatever comes, *)
(* the format makes the same of the whole stream as of the unread bytes,   *)
(* behind the requests handled.  It needs that a verdict on some bytes is  *)
(* not changed by those behind them (VerdictStays), that the decoder is    *)
(* not asked before the bytes it counts have come (OneLess), and that what *)
(* it waits for always fits the buffer (DecodeType).                       *)
(*                                                                         *)
(* The answers.  AnswersInv adds to what a client has got what the handler *)
(* still owes for the request in hand.                                     *)
(***************************************************************************)
EXTENDS VescHost, SequenceTheorems, WellFoundedInduction, TLAPS

-----------------------------------------------------------------------------
(* Recursive functions.                                                    *)

\* The least-number principle, of a set.
LEMMA LeastNumber ==
    ASSUME NEW T, T \subseteq Nat, T # {}
    PROVE  \E n \in T : \A m \in T : n <= m
<1> DEFINE Less == OpToRel(<, Nat)
<1>1. IsWellFoundedOn(Less, Nat)
  BY NatLessThanWellFounded
<1>2. \A m, n \in Nat : <<m, n>> \in Less <=> m < n
  BY DEF OpToRel
<1> HIDE DEF Less
<1>3. PICK n \in T : \A m \in T : <<m, n>> \notin Less
  BY <1>1, WFMin
<1>4. ASSUME NEW m \in T
      PROVE  n <= m
  <2>1. m \in Nat /\ n \in Nat /\ ~(m < n)
    BY <1>2, <1>3
  <2>2. QED
    BY <2>1
<1>5. QED
  BY <1>4

\* Induction, of a set.
LEMMA SetInduction ==
    ASSUME NEW T, \A n \in Nat : (\A m \in 0 .. n - 1 : m \in T) => n \in T
    PROVE  Nat \subseteq T
<1>1. SUFFICES ASSUME Nat \ T # {}
               PROVE  FALSE
  OBVIOUS
<1>2. PICK n \in Nat \ T : \A m \in Nat \ T : n <= m
  BY LeastNumber, <1>1
<1>3. \A m \in 0 .. n - 1 : m \in T
  BY <1>2
<1>4. QED
  BY <1>2, <1>3

\* Induction on the size of the elements of a set.
LEMMA SizeInduction ==
    ASSUME NEW S, NEW size \in [S -> Nat], NEW T,
           \A s \in S : (\A t \in S : size[t] < size[s] => t \in T) => s \in T
    PROVE  S \subseteq T
<1> DEFINE U == {n \in Nat : \A s \in S : size[s] = n => s \in T}
<1>1. ASSUME NEW n \in Nat, \A m \in 0 .. n - 1 : m \in U
      PROVE  n \in U
  <2>1. ASSUME NEW s \in S, size[s] = n
        PROVE  s \in T
    <3>1. ASSUME NEW t \in S, size[t] < size[s]
          PROVE  t \in T
      <4>1. size[t] \in 0 .. n - 1
        BY <2>1, <3>1
      <4>2. size[t] \in U
        BY <1>1, <4>1
      <4>3. QED
        BY <4>2
    <3>2. QED
      BY <3>1
  <2>2. QED
    BY <2>1
<1>2. Nat \subseteq U
  <2> HIDE DEF U
  <2>1. QED
    BY <1>1, SetInduction
<1>3. QED
  BY <1>2

\* A recursive function: each value is made of the function's values at smaller
\* arguments, by G.
Recursive(f, S, G) == \A s \in S : f[s] = G[<<s, f>>]

\* G asks only for values at smaller arguments.
Founded(S, V, size, G) ==
    \A s \in S : \A f, g \in [S -> V] :
        (\A t \in S : size[t] < size[s] => f[t] = g[t]) => G[<<s, f>>] = G[<<s, g>>]

LEMMA RecursionExists ==
    ASSUME NEW S, NEW V, V # {}, NEW size \in [S -> Nat],
           NEW G \in [S \X [S -> V] -> V], Founded(S, V, size, G)
    PROVE  \E f \in [S -> V] : Recursive(f, S, G)
<1>0. \A s \in S : \A f, g \in [S -> V] :
          (\A t \in S : size[t] < size[s] => f[t] = g[t]) => G[<<s, f>>] = G[<<s, g>>]
  BY DEF Founded
<1> DEFINE Good(f, n) == \A s \in S : size[s] < n => f[s] = G[<<s, f>>]
           Q == {n \in Nat : \E f \in [S -> V] : Good(f, n)}
<1>1. ASSUME NEW n \in Nat, NEW f \in [S -> V], Good(f, n)
      PROVE  \E g \in [S -> V] : Good(g, n + 1)
  <2> DEFINE g == [s \in S |-> IF size[s] < n THEN f[s] ELSE G[<<s, f>>]]
  <2>1. g \in [S -> V]
    OBVIOUS
  <2>2. ASSUME NEW s \in S, size[s] < n + 1
        PROVE  g[s] = G[<<s, g>>]
    <3>1. \A t \in S : size[t] < size[s] => f[t] = g[t]
      BY <2>2
    <3>2. G[<<s, f>>] = G[<<s, g>>]
      <4> HIDE DEF g
      <4>1. QED
        BY <1>0, <2>1, <3>1
    <3>3. g[s] = G[<<s, f>>]
      BY <1>1, <2>2
    <3>4. QED
      BY <3>2, <3>3
  <2>3. QED
    BY <2>1, <2>2
<1>2. \A n \in Nat : n \in Q
  <2>1. ASSUME NEW n \in Nat, \A m \in 0 .. n - 1 : m \in Q
        PROVE  n \in Q
    <3>1. CASE n = 0
      <4>1. PICK v \in V : TRUE
        OBVIOUS
      <4>2. [s \in S |-> v] \in [S -> V]
        OBVIOUS
      <4>3. Good([s \in S |-> v], 0)
        OBVIOUS
      <4>4. QED
        BY <3>1, <4>2, <4>3
    <3>2. CASE n > 0
      <4>1. n - 1 \in Nat /\ n - 1 \in Q /\ (n - 1) + 1 = n
        <5> HIDE DEF Q
        <5>1. n - 1 \in 0 .. n - 1 /\ n - 1 \in Nat /\ (n - 1) + 1 = n
          BY <3>2
        <5>2. QED
          BY <2>1, <5>1
      <4>2. PICK f \in [S -> V] : Good(f, n - 1)
        BY <4>1
      <4>3. \E g \in [S -> V] : Good(g, (n - 1) + 1)
        <5> HIDE DEF Good
        <5>1. QED
          BY <1>1, <4>1, <4>2
      <4>4. \E g \in [S -> V] : Good(g, n)
        BY <4>1, <4>3
      <4> HIDE DEF Good
      <4>5. QED
        BY <4>4
    <3> HIDE DEF Q
    <3>3. QED
      BY <3>1, <3>2
  <2>2. Nat \subseteq Q
    <3> HIDE DEF Q
    <3>1. QED
      BY <2>1, SetInduction
  <2>3. QED
    BY <2>2
<1>3. ASSUME NEW n \in Nat, NEW f \in [S -> V], NEW g \in [S -> V], Good(f, n), Good(g, n)
      PROVE  \A s \in S : size[s] < n => f[s] = g[s]
  <2> DEFINE D == {k \in Nat : \E t \in S : size[t] = k /\ k < n /\ f[t] # g[t]}
  <2>1. SUFFICES ASSUME NEW u \in S, size[u] < n, f[u] # g[u]
                 PROVE  FALSE
    OBVIOUS
  <2>2. D \subseteq Nat /\ size[u] \in D
    BY <2>1
  <2>3. PICK m \in D : \A k \in D : m <= k
    <3> HIDE DEF D
    <3>1. QED
      BY <2>1, <2>2, LeastNumber
  <2>4. PICK s \in S : size[s] = m /\ size[s] < n /\ f[s] # g[s]
    OBVIOUS
  <2>5. ASSUME NEW t \in S, size[t] < size[s]
        PROVE  f[t] = g[t]
    <3>1. SUFFICES ASSUME f[t] # g[t]
                   PROVE  FALSE
      OBVIOUS
    <3>2. size[t] < n
      BY <2>4, <2>5
    <3>3. size[t] \in D
      BY <3>1, <3>2
    <3>4. size[s] <= size[t]
      <4> HIDE DEF D
      <4>1. QED
        BY <2>3, <2>4, <3>3
    <3>5. QED
      BY <2>5, <3>4
  <2>6. G[<<s, f>>] = G[<<s, g>>]
    BY <1>0, <2>5
  <2>7. f[s] = G[<<s, f>>] /\ g[s] = G[<<s, g>>]
    BY <1>3, <2>4
  <2>8. QED
    BY <2>4, <2>6, <2>7
<1> DEFINE Approx(n) == CHOOSE f \in [S -> V] : Good(f, n)
           F == [s \in S |-> Approx(size[s] + 1)[s]]
<1>4. \A n \in Nat : Approx(n) \in [S -> V] /\ Good(Approx(n), n)
  <2> HIDE DEF Good
  <2>1. QED
    BY <1>2
<1>5. F \in [S -> V]
  <2>1. \A s \in S : size[s] + 1 \in Nat
    OBVIOUS
  <2> HIDE DEF Approx, Good
  <2>2. QED
    BY <1>4, <2>1
<1>6. ASSUME NEW s \in S
      PROVE  F[s] = G[<<s, F>>]
  <2> DEFINE n == size[s] + 1
  <2>1. n \in Nat
    OBVIOUS
  <2>2. ASSUME NEW t \in S, size[t] < size[s]
        PROVE  F[t] = Approx(n)[t]
    <3> DEFINE k == size[t] + 1
    <3>1. k \in Nat /\ k <= n /\ size[t] < k
      BY <2>2
    <3>2. Good(Approx(k), k) /\ Good(Approx(n), n)
      <4> HIDE DEF Good, Approx, k, n
      <4>1. QED
        BY <1>4, <2>1, <3>1
    <3>3. Good(Approx(n), k)
      <4>1. ASSUME NEW u \in S, size[u] < k
            PROVE  Approx(n)[u] = G[<<u, Approx(n)>>]
        <5>1. size[u] < n
          BY <3>1, <4>1
        <5> HIDE DEF Approx
        <5>2. QED
          BY <3>2, <5>1
      <4> HIDE DEF Approx
      <4>2. QED
        BY <4>1
    <3>4. Approx(k)[t] = Approx(n)[t]
      <4> HIDE DEF Good, Approx, k, n
      <4>1. QED
        BY <1>3, <1>4, <2>1, <3>1, <3>2, <3>3
    <3>5. F[t] = Approx(k)[t]
      <4> HIDE DEF Approx
      <4>1. QED
        OBVIOUS
    <3>6. QED
      BY <3>4, <3>5
  <2>3. G[<<s, F>>] = G[<<s, Approx(n)>>]
    <3> HIDE DEF F, Approx, n
    <3>1. QED
      BY <1>0, <1>4, <1>5, <2>1, <2>2
  <2>4. Approx(n)[s] = G[<<s, Approx(n)>>]
    <3>1. Good(Approx(n), n)
      <4> HIDE DEF Good, Approx, n
      <4>1. QED
        BY <1>4, <2>1
    <3>a. size[s] < n
      OBVIOUS
    <3> HIDE DEF Approx, n
    <3>2. QED
      BY <3>1, <3>a
  <2>5. F[s] = Approx(n)[s]
    <3> HIDE DEF Approx
    <3>1. QED
      OBVIOUS
  <2>6. QED
    BY <2>3, <2>4, <2>5
<1> HIDE DEF F
<1>7. QED
  BY <1>5, <1>6 DEF Recursive

-----------------------------------------------------------------------------
(* Sequences.                                                              *)

\* A sequence and all of it but the last element.
LEMMA FrontIsShorter ==
    ASSUME NEW S, NEW s \in Seq(S), s # <<>>
    PROVE  /\ Front(s) \in Seq(S) /\ Len(Front(s)) < Len(s) /\ Len(Front(s)) = Len(s) - 1
           /\ Last(s) \in S /\ s = Append(Front(s), Last(s))
<1>1. Len(s) \in Nat /\ Len(s) > 0
  BY EmptySeq
<1>2. Front(s) \in Seq(S) /\ Len(Front(s)) = Len(s) - 1
  <2>1. \A i \in 1 .. Len(s) - 1 : s[i] \in S
    BY <1>1, ElementOfSeq
  <2>2. QED
    <3> DEFINE n == Len(s) - 1
    <3>1. n \in Nat
      BY <1>1
    <3> HIDE DEF n
    <3>2. /\ SubSeq(s, 1, n) \in Seq(S)
          /\ Len(SubSeq(s, 1, n)) = IF 1 <= n THEN n - 1 + 1 ELSE 0
      <4>1. \A i \in 1 .. n : s[i] \in S
        BY <2>1 DEF n
      <4>2. QED
        BY <3>1, <4>1, SubSeqProperties
    <3>3. (IF 1 <= n THEN n - 1 + 1 ELSE 0) = n
      BY <3>1
    <3>4. SubSeq(s, 1, n) \in Seq(S) /\ Len(SubSeq(s, 1, n)) = n
      BY <3>2, <3>3
    <3>5. QED
      BY <3>4 DEF Front, n
<1>3. Last(s) \in S
  BY <1>1 DEF Last
<1>4. s = Append(Front(s), Last(s))
  BY <1>1 DEF Front, Last
<1>5. QED
  BY <1>1, <1>2, <1>3, <1>4

\* The same of a sequence that an element has just been added to.
LEMMA FrontOfAppend ==
    ASSUME NEW S, NEW s \in Seq(S), NEW e \in S
    PROVE  /\ Append(s, e) \in Seq(S) /\ Append(s, e) # <<>>
           /\ Front(Append(s, e)) = s /\ Last(Append(s, e)) = e
<1>1. /\ Append(s, e) \in Seq(S) /\ Append(s, e) # <<>>
      /\ Len(Append(s, e)) = Len(s) + 1 /\ Append(s, e)[Len(s) + 1] = e /\ Len(s) \in Nat
  BY AppendProperties
<1>2. Last(Append(s, e)) = e
  BY <1>1 DEF Last
<1>3. Front(Append(s, e)) = s
  BY <1>1 DEF Front
<1>4. QED
  BY <1>1, <1>2, <1>3

\* What is left of a sequence behind its first n elements, with more behind it.
LEMMA RestOfConcat ==
    ASSUME NEW s \in Seq(Bytes), NEW x \in Seq(Bytes), NEW n \in 0 .. Len(s)
    PROVE  SubSeq(s \o x, n + 1, Len(s \o x)) = SubSeq(s, n + 1, Len(s)) \o x
<1>1. Len(s) \in Nat /\ Len(x) \in Nat /\ s \o x \in Seq(Bytes) /\ Len(s \o x) = Len(s) + Len(x)
  BY ConcatProperties
<1>2. /\ \A i \in 1 .. Len(s) : (s \o x)[i] = s[i]
      /\ \A i \in Len(s) + 1 .. Len(s) + Len(x) : (s \o x)[i] = x[i - Len(s)]
  BY ConcatProperties
<1> DEFINE t == s \o x
           u == SubSeq(t, n + 1, Len(t))
           v == SubSeq(s, n + 1, Len(s))
<1>3. /\ u \in Seq(Bytes) /\ Len(u) = Len(s) + Len(x) - n
      /\ \A i \in 1 .. Len(t) - n : u[i] = t[n + i]
  <2>1. \A i \in n + 1 .. Len(t) : t[i] \in Bytes
    BY <1>1
  <2>2. n + 1 \in Int /\ Len(t) \in Int
    BY <1>1
  <2> HIDE DEF t
  <2>3. /\ u \in Seq(Bytes)
        /\ Len(u) = IF n + 1 <= Len(t) THEN Len(t) - (n + 1) + 1 ELSE 0
        /\ \A i \in 1 .. Len(t) - (n + 1) + 1 : u[i] = t[n + 1 + i - 1]
    BY <2>1, <2>2, SubSeqProperties
  <2>4. Len(t) = Len(s) + Len(x)
    BY <1>1 DEF t
  <2> HIDE DEF u
  <2>5. QED
    BY <1>1, <2>3, <2>4
<1>4. v \in Seq(Bytes) /\ Len(v) = Len(s) - n /\ \A i \in 1 .. Len(s) - n : v[i] = s[n + i]
  <2>1. \A i \in n + 1 .. Len(s) : s[i] \in Bytes
    BY <1>1
  <2>2. /\ v \in Seq(Bytes)
        /\ Len(v) = IF n + 1 <= Len(s) THEN Len(s) - (n + 1) + 1 ELSE 0
        /\ \A i \in 1 .. Len(s) - (n + 1) + 1 : v[i] = s[n + 1 + i - 1]
    BY <1>1, <2>1, SubSeqProperties
  <2> HIDE DEF v
  <2>3. QED
    BY <1>1, <2>2
<1>5. /\ v \o x \in Seq(Bytes) /\ Len(v \o x) = Len(v) + Len(x)
      /\ \A i \in 1 .. Len(v) : (v \o x)[i] = v[i]
      /\ \A i \in Len(v) + 1 .. Len(v) + Len(x) : (v \o x)[i] = x[i - Len(v)]
  <2>1. v \in Seq(Bytes) /\ Len(v) \in Nat
    BY <1>4
  <2> HIDE DEF v
  <2>2. /\ v \o x \in Seq(Bytes) /\ Len(v \o x) = Len(v) + Len(x)
        /\ \A i \in 1 .. Len(v) + Len(x) : (v \o x)[i] = IF i <= Len(v) THEN v[i] ELSE x[i - Len(v)]
    BY <2>1, ConcatProperties
  <2>3. QED
    BY <1>1, <2>1, <2>2
<1> DEFINE w == v \o x
<1>6. ASSUME NEW i \in 1 .. Len(s) + Len(x) - n
      PROVE  u[i] = w[i]
  <2>1. u[i] = t[n + i]
    <3> HIDE DEF u
    <3>1. QED
      BY <1>1, <1>3
  <2>2. CASE i <= Len(s) - n
    <3>1. t[n + i] = s[n + i] /\ v[i] = s[n + i]
      <4> HIDE DEF v
      <4>1. QED
        BY <1>1, <1>2, <1>4, <2>2
    <3>2. w[i] = v[i]
      <4> HIDE DEF v
      <4>1. QED
        BY <1>1, <1>4, <1>5, <2>2
    <3> HIDE DEF u, v, w, t
    <3>3. QED
      BY <2>1, <3>1, <3>2
  <2>3. CASE i > Len(s) - n
    <3>1. t[n + i] = x[n + i - Len(s)]
      BY <1>1, <1>2, <2>3
    <3>2. w[i] = x[i - (Len(s) - n)]
      <4> HIDE DEF v
      <4>1. QED
        BY <1>1, <1>4, <1>5, <2>3
    <3>3. i - (Len(s) - n) = n + i - Len(s)
      BY <1>1
    <3> HIDE DEF u, v, w, t
    <3>4. QED
      BY <2>1, <3>1, <3>2, <3>3
  <2>4. QED
    BY <1>1, <2>2, <2>3
<1>7. w \in Seq(Bytes) /\ Len(w) = Len(s) + Len(x) - n
  <2> HIDE DEF v
  <2>1. QED
    BY <1>1, <1>4, <1>5
<1>8. u = w
  <2> HIDE DEF u, w
  <2>1. QED
    BY <1>3, <1>6, <1>7, SeqEqual
<1>9. QED
  BY <1>8

-----------------------------------------------------------------------------
(* What the decoder says.                                                  *)

Size(s) == StatedLength(s) + s[1] + 3

Headed(s) == s # <<>> /\ s[1] \in Starts /\ Len(s) >= s[1]

\* The elements of a stream are numbers.
LEMMA BytesOf ==
    ASSUME NEW s \in Seq(Bytes)
    PROVE  /\ Len(s) \in Nat
           /\ s = <<>> <=> Len(s) = 0
           /\ \A i \in 1 .. Len(s) : s[i] \in Bytes /\ s[i] \in Int
           /\ s # <<>> => s[1] \in Int
<1>1. Len(s) \in Nat /\ (s = <<>> <=> Len(s) = 0)
  BY EmptySeq
<1>2. \A i \in 1 .. Len(s) : s[i] \in Bytes
  BY ElementOfSeq
<1>3. Bytes \subseteq Int
  BY DEF Bytes
<1>4. s # <<>> => 1 \in 1 .. Len(s)
  BY <1>1
<1>5. QED
  BY <1>1, <1>2, <1>3, <1>4

\* What a header states is a number; only a length that fits is admissible.
LEMMA HeaderType ==
    ASSUME NEW s \in Seq(Bytes), Headed(s)
    PROVE  /\ StatedLength(s) \in Int
           /\ Admissible(s[1], StatedLength(s)) => StatedLength(s) \in 1 .. MaxPayload
<1>1. s[1] \in Starts /\ Len(s) >= s[1] /\ Len(s) \in Nat
  BY DEF Headed
<1>2. \A i \in 1 .. s[1] : s[i] \in Int
  BY <1>1, BytesOf DEF Starts
<1>3. Base \in Nat /\ Base > 4 /\ MaxPayload \in Nat
  BY PacketAssumption
<1>4. StatedLength(s) \in Int
  <2>1. CASE s[1] = 2
    BY <1>2, <2>1 DEF StatedLength
  <2>2. CASE s[1] = 3
    <3>1. s[2] \in Int /\ s[3] \in Int
      BY <1>2, <2>2
    <3>2. QED
      BY <1>3, <3>1, <2>2 DEF StatedLength
  <2>3. CASE s[1] = 4
    <3>1. s[2] \in Int /\ s[3] \in Int /\ s[4] \in Int
      BY <1>2, <2>3
    <3>2. QED
      BY <1>3, <3>1, <2>3 DEF StatedLength
  <2>4. QED
    BY <1>1, <2>1, <2>2, <2>3 DEF Starts
<1>5. Base * Base > 4
  BY <1>3
<1>6. Least(s[1]) >= 1 /\ Least(s[1]) \in Int
  BY <1>1, <1>3, <1>5 DEF Least, Starts
<1>7. QED
  BY <1>3, <1>4, <1>6 DEF Admissible

\* TryDecode, case by case.
LEMMA DecodeCases ==
    ASSUME NEW s \in Seq(Bytes)
    PROVE  /\ s = <<>> => TryDecode(s) = Wait(1)
           /\ s # <<>> /\ s[1] \notin Starts => TryDecode(s) = Wrong
           /\ s # <<>> /\ s[1] \in Starts /\ Len(s) < s[1] => TryDecode(s) = Wait(s[1] - Len(s))
           /\ Headed(s) /\ ~Admissible(s[1], StatedLength(s)) => TryDecode(s) = Wrong
           /\ Headed(s) /\ Admissible(s[1], StatedLength(s)) =>
                 /\ Len(s) < Size(s) => TryDecode(s) = Wait(Size(s) - Len(s))
                 /\ Len(s) >= Size(s) /\ Sound(s) => TryDecode(s) = Whole(Size(s))
                 /\ Len(s) >= Size(s) /\ ~Sound(s) => TryDecode(s) = Wrong
<1>1. Len(s) \in Nat /\ (s # <<>> => s[1] \in Int)
  BY BytesOf
<1>2. CASE s = <<>>
  BY <1>2 DEF TryDecode, Headed
<1>3. CASE s # <<>> /\ s[1] \notin Starts
  BY <1>3 DEF TryDecode, Headed
<1>4. CASE s # <<>> /\ s[1] \in Starts /\ Len(s) < s[1]
  BY <1>1, <1>4 DEF TryDecode, Headed, Starts
<1>5. CASE s # <<>> /\ s[1] \in Starts /\ ~(Len(s) < s[1])
  <2>1. TryDecode(s) = IF ~Admissible(s[1], StatedLength(s)) THEN Wrong
                       ELSE IF Len(s) < Size(s) THEN Wait(Size(s) - Len(s))
                       ELSE IF Sound(s) THEN Whole(Size(s)) ELSE Wrong
    BY <1>5 DEF TryDecode, Size
  <2>2. Len(s) >= Size(s) => ~(Len(s) < Size(s))
    <3>1. Headed(s) /\ s[1] \in Int
      BY <1>1, <1>5 DEF Headed, Starts
    <3>2. Size(s) \in Int
      BY <3>1, HeaderType DEF Size
    <3>3. QED
      BY <1>1, <3>2
  <2>3. QED
    BY <1>5, <2>1, <2>2, Zenon
<1>6. QED
  BY <1>2, <1>3, <1>4, <1>5, Zenon

\* What the decoder says is one of three things; a frame is among the bytes it
\* has, and what it waits for fits the buffer.
LEMMA DecodeType ==
    ASSUME NEW s \in Seq(Bytes)
    PROVE  /\ TryDecode(s).says \in {"wait", "wrong", "frame"}
           /\ TryDecode(s).says = "wait" =>
                 /\ TryDecode(s).bytes \in Nat \ {0}
                 /\ Len(s) + TryDecode(s).bytes <= MaxPayload + 7
                 /\ s = <<>> => TryDecode(s).bytes = 1
           /\ TryDecode(s).says = "wrong" => s # <<>>
           /\ TryDecode(s).says = "frame" =>
                 /\ s # <<>> /\ TryDecode(s).size \in 1 .. Len(s)
                 /\ Payload(s) \in Seq(Bytes) /\ Payload(s) # <<>>
<1>1. Len(s) \in Nat /\ (s # <<>> => s[1] \in Int) /\ MaxPayload \in Nat
  BY PacketAssumption, BytesOf
<1>2. CASE s = <<>>
  <2>1. TryDecode(s) = [says |-> "wait", bytes |-> 1]
    BY <1>2, DecodeCases DEF Wait
  <2>2. Len(s) = 0
    BY <1>2
  <2>3. QED
    BY <1>1, <1>2, <2>1, <2>2
<1>3. CASE s # <<>> /\ s[1] \notin Starts
  BY <1>3, DecodeCases DEF Wrong
<1>4. CASE s # <<>> /\ s[1] \in Starts /\ Len(s) < s[1]
  BY <1>1, <1>4, DecodeCases DEF Wait, Starts
<1>5. CASE Headed(s)
  <2>1. StatedLength(s) \in Int /\ s[1] \in 2 .. 4 /\ s # <<>>
    BY <1>5, HeaderType DEF Headed, Starts
  <2>2. CASE ~Admissible(s[1], StatedLength(s))
    BY <1>5, <2>1, <2>2, DecodeCases DEF Wrong
  <2>3. CASE Admissible(s[1], StatedLength(s))
    <3>1. StatedLength(s) \in 1 .. MaxPayload /\ Size(s) = StatedLength(s) + s[1] + 3
      BY <1>5, <2>3, HeaderType DEF Size
    <3>2. CASE Len(s) < Size(s)
      BY <1>1, <1>5, <2>1, <2>3, <3>1, <3>2, DecodeCases DEF Wait
    <3>3. CASE Len(s) >= Size(s) /\ ~Sound(s)
      BY <1>5, <2>1, <2>3, <3>3, DecodeCases DEF Wrong
    <3>4. CASE Len(s) >= Size(s) /\ Sound(s)
      <4>1. TryDecode(s) = [says |-> "frame", size |-> Size(s)]
        BY <1>5, <2>3, <3>4, DecodeCases DEF Whole
      <4>2. Size(s) \in 1 .. Len(s)
        BY <1>1, <2>1, <3>1, <3>4
      <4>3. /\ s[1] + 1 \in 1 .. Len(s) + 1 /\ s[1] + StatedLength(s) \in 0 .. Len(s)
            /\ s[1] + 1 <= s[1] + StatedLength(s)
        BY <1>1, <2>1, <3>1, <3>4
      <4>4. Payload(s) \in Seq(Bytes) /\ Len(Payload(s)) = StatedLength(s)
        BY <4>3, <2>1, <3>1, SubSeqProperties DEF Payload
      <4>5. Payload(s) # <<>>
        BY <3>1, <4>4
      <4>6. QED
        BY <2>1, <4>1, <4>2, <4>4, <4>5
    <3>5. QED
      BY <1>1, <2>1, <3>1, <3>2, <3>3, <3>4
  <2>4. QED
    BY <2>2, <2>3
<1>6. s # <<>> /\ s[1] \in Starts /\ ~(Len(s) < s[1]) => Headed(s)
  BY <1>1 DEF Headed, Starts
<1>7. QED
  BY <1>2, <1>3, <1>4, <1>5, <1>6, Zenon

\* More bytes do not change what the decoder sees of the ones it had.
LEMMA HeadStays ==
    ASSUME NEW s \in Seq(Bytes), NEW x \in Seq(Bytes), s # <<>>
    PROVE  /\ s \o x \in Seq(Bytes) /\ s \o x # <<>> /\ (s \o x)[1] = s[1]
           /\ Len(s \o x) = Len(s) + Len(x)
           /\ Headed(s) => /\ Headed(s \o x) /\ StatedLength(s \o x) = StatedLength(s)
                           /\ Size(s \o x) = Size(s)
<1>1. Len(s) \in Nat /\ Len(x) \in Nat /\ 1 \in 1 .. Len(s) /\ s[1] \in Int
  BY BytesOf
<1>2. s \o x \in Seq(Bytes) /\ Len(s \o x) = Len(s) + Len(x)
  BY ConcatProperties
<1>3. \A i \in 1 .. Len(s) : (s \o x)[i] = s[i]
  BY ConcatProperties
<1>4. s \o x # <<>>
  BY <1>1, <1>2, BytesOf
<1>5. (s \o x)[1] = s[1]
  BY <1>1, <1>3
<1> DEFINE t == s \o x
<1>6. ASSUME Headed(s)
      PROVE  StatedLength(t) = StatedLength(s)
  <2>1. s[1] \in Starts /\ Len(s) >= s[1] /\ t[1] = s[1]
    BY <1>5, <1>6 DEF Headed
  <2>2. \A i \in 1 .. s[1] : t[i] = s[i]
    BY <1>1, <1>3, <2>1
  <2> HIDE DEF t
  <2>3. CASE s[1] = 2
    <3>1. t[2] = s[2]
      BY <2>2, <2>3
    <3>2. QED
      BY <2>1, <2>3, <3>1 DEF StatedLength
  <2>4. CASE s[1] = 3
    <3>1. t[2] = s[2] /\ t[3] = s[3]
      BY <2>2, <2>4
    <3>2. QED
      BY <2>1, <2>4, <3>1 DEF StatedLength
  <2>5. CASE s[1] = 4
    <3>1. t[2] = s[2] /\ t[3] = s[3] /\ t[4] = s[4]
      BY <2>2, <2>5
    <3>2. QED
      BY <2>1, <2>5, <3>1 DEF StatedLength
  <2>6. QED
    BY <2>1, <2>3, <2>4, <2>5 DEF Starts
<1>7. Headed(s) => Headed(s \o x)
  BY <1>1, <1>2, <1>4, <1>5 DEF Headed
<1>8. QED
  BY <1>2, <1>4, <1>5, <1>6, <1>7 DEF Size

\* A frame or an error stays what it is when more comes behind it.
LEMMA VerdictStays ==
    ASSUME NEW s \in Seq(Bytes), NEW x \in Seq(Bytes), TryDecode(s).says # "wait"
    PROVE  /\ TryDecode(s \o x) = TryDecode(s)
           /\ TryDecode(s).says = "frame" => Payload(s \o x) = Payload(s)
<1>1. s # <<>> /\ Len(s) \in Nat /\ s[1] \in Int
  <2>1. s # <<>>
    BY DecodeCases DEF Wait
  <2>2. QED
    BY <2>1, BytesOf
<1>2. /\ s \o x \in Seq(Bytes) /\ s \o x # <<>> /\ (s \o x)[1] = s[1]
      /\ Len(s \o x) = Len(s) + Len(x) /\ Len(x) \in Nat
  BY <1>1, HeadStays, BytesOf
<1>3. CASE s[1] \notin Starts
  <2>1. TryDecode(s) = Wrong /\ TryDecode(s \o x) = Wrong
    BY <1>1, <1>2, <1>3, DecodeCases
  <2>2. QED
    BY <2>1 DEF Wrong
<1>4. CASE s[1] \in Starts
  <2>1. Headed(s)
    <3>1. ~(Len(s) < s[1])
      BY <1>1, <1>4, DecodeCases DEF Wait
    <3>2. QED
      BY <1>1, <1>4, <3>1 DEF Headed
  <2>2. Headed(s \o x) /\ StatedLength(s \o x) = StatedLength(s) /\ Size(s \o x) = Size(s)
    BY <1>1, <2>1, HeadStays
  <2>3. CASE ~Admissible(s[1], StatedLength(s))
    <3>1. TryDecode(s) = Wrong /\ TryDecode(s \o x) = Wrong
      BY <1>2, <2>1, <2>2, <2>3, DecodeCases
    <3>2. QED
      BY <3>1 DEF Wrong
  <2>4. CASE Admissible(s[1], StatedLength(s))
    <3>1. StatedLength(s) \in Nat \ {0} /\ s[1] \in 2 .. 4 /\ Size(s) = StatedLength(s) + s[1] + 3
      BY <1>4, <2>1, <2>4, HeaderType, PacketAssumption DEF Size, Starts
    <3>2. Len(s) >= Size(s) /\ Len(s \o x) >= Size(s)
      <4>1. ~(Len(s) < Size(s))
        BY <2>1, <2>4, DecodeCases DEF Wait
      <4>2. QED
        BY <1>1, <1>2, <3>1, <4>1
    <3>3. \A i, j \in 1 .. Len(s) : SubSeq(s \o x, i, j) = SubSeq(s, i, j)
      BY SubSeqOfConcat1
    <3>4. \A i \in 1 .. Len(s) : (s \o x)[i] = s[i]
      BY ConcatProperties
    <3>5. Payload(s \o x) = Payload(s)
      <4>1. s[1] + 1 \in 1 .. Len(s) /\ s[1] + StatedLength(s) \in 1 .. Len(s)
        BY <1>1, <3>1, <3>2
      <4>2. QED
        BY <1>2, <2>2, <3>3, <4>1 DEF Payload
    <3>6. Sound(s \o x) <=> Sound(s)
      <4> DEFINE last == s[1] + StatedLength(s) + 3
      <4>1. last \in 1 .. Len(s) /\ last - 2 \in 1 .. Len(s) /\ last - 1 \in 1 .. Len(s)
        BY <1>1, <3>1, <3>2
      <4>2. (s \o x)[last] = s[last]
        BY <3>4, <4>1
      <4>3. SubSeq(s \o x, last - 2, last - 1) = SubSeq(s, last - 2, last - 1)
        BY <3>3, <4>1
      <4>4. QED
        BY <1>2, <2>2, <3>5, <4>2, <4>3 DEF Sound
    <3>7. TryDecode(s \o x) = TryDecode(s)
      BY <1>2, <2>1, <2>2, <2>4, <3>2, <3>6, DecodeCases
    <3>8. QED
      BY <3>5, <3>7
  <2>5. QED
    BY <2>3, <2>4
<1>5. QED
  BY <1>3, <1>4

\* The decoder knows just how many bytes it misses: the next one leaves one less.
LEMMA OneLess ==
    ASSUME NEW s \in Seq(Bytes), NEW d \in Bytes,
           TryDecode(s).says = "wait", TryDecode(s).bytes > 1
    PROVE  TryDecode(s \o <<d>>) = Wait(TryDecode(s).bytes - 1)
<1> DEFINE t == s \o <<d>>
<1>1. s # <<>>
  BY DecodeType
<1>2. <<d>> \in Seq(Bytes) /\ Len(<<d>>) = 1
  OBVIOUS
<1>3. t \in Seq(Bytes) /\ t # <<>> /\ t[1] = s[1] /\ Len(t) = Len(s) + 1
  BY <1>1, <1>2, HeadStays
<1>4. Len(s) \in Nat /\ s[1] \in Int /\ s[1] \in Starts
  BY <1>1, BytesOf, DecodeCases DEF Wrong
<1>5. CASE Len(s) < s[1]
  <2>1. TryDecode(s).bytes = s[1] - Len(s)
    BY <1>1, <1>4, <1>5, DecodeCases DEF Wait
  <2>2. Len(t) < s[1] /\ s[1] - Len(t) = TryDecode(s).bytes - 1
    BY <1>3, <1>4, <2>1
  <2>3. TryDecode(t) = Wait(t[1] - Len(t))
    BY <1>3, <1>4, <2>2, DecodeCases
  <2>4. QED
    BY <1>3, <2>2, <2>3
<1>6. CASE ~(Len(s) < s[1])
  <2>1. Headed(s)
    BY <1>1, <1>4, <1>6 DEF Headed
  <2>2. Headed(t) /\ StatedLength(t) = StatedLength(s) /\ Size(t) = Size(s)
    BY <1>1, <1>2, <2>1, HeadStays
  <2>3. Admissible(s[1], StatedLength(s))
    BY <2>1, DecodeCases DEF Wrong
  <2>4. Size(s) \in Int
    BY <1>4, <2>1, HeaderType DEF Size
  <2>5. Len(s) < Size(s)
    BY <1>4, <2>1, <2>3, <2>4, DecodeCases DEF Wrong, Whole
  <2>6. TryDecode(s).bytes = Size(s) - Len(s)
    BY <2>1, <2>3, <2>5, DecodeCases DEF Wait
  <2>7. Len(t) < Size(t) /\ Size(t) - Len(t) = TryDecode(s).bytes - 1
    BY <1>3, <1>4, <2>2, <2>4, <2>6
  <2>8. TryDecode(t) = Wait(Size(t) - Len(t))
    BY <1>3, <2>2, <2>3, <2>7, DecodeCases
  <2>9. QED
    BY <2>7, <2>8
<1>7. QED
  BY <1>5, <1>6

-----------------------------------------------------------------------------
(* The requests of a stream.                                               *)

\* One step of the decoding of a stream, by a function f of the rest of it.
Decodes(f, s) ==
    LET r == TryDecode(s)
    IN  IF r.says = "wait" THEN <<>>
        ELSE IF r.says = "wrong" THEN f[Tail(s)]
        ELSE <<Payload(s)>> \o f[SubSeq(s, r.size + 1, Len(s))]

\* What is decoded next is shorter.
LEMMA RestIsShorter ==
    ASSUME NEW s \in Seq(Bytes)
    PROVE  /\ TryDecode(s).says = "wrong" => Tail(s) \in Seq(Bytes) /\ Len(Tail(s)) < Len(s)
           /\ TryDecode(s).says = "frame" =>
                 LET rest == SubSeq(s, TryDecode(s).size + 1, Len(s))
                 IN  rest \in Seq(Bytes) /\ Len(rest) < Len(s)
<1>1. Len(s) \in Nat
  OBVIOUS
<1>2. ASSUME TryDecode(s).says = "wrong"
      PROVE  Tail(s) \in Seq(Bytes) /\ Len(Tail(s)) < Len(s)
  BY <1>1, <1>2, DecodeType, HeadTailProperties
<1>3. ASSUME TryDecode(s).says = "frame"
      PROVE  LET rest == SubSeq(s, TryDecode(s).size + 1, Len(s))
             IN  rest \in Seq(Bytes) /\ Len(rest) < Len(s)
  <2> DEFINE n == TryDecode(s).size
  <2>1. n \in 1 .. Len(s)
    BY <1>3, DecodeType
  <2>2. n + 1 \in 1 .. Len(s) + 1 /\ Len(s) \in 0 .. Len(s)
    BY <1>1, <2>1
  <2> HIDE DEF n
  <2>3. SubSeq(s, n + 1, Len(s)) \in Seq(Bytes)
    BY <2>2, SubSeqProperties
  <2>4. Len(SubSeq(s, n + 1, Len(s))) = IF n + 1 <= Len(s) THEN Len(s) - (n + 1) + 1 ELSE 0
    BY <2>2, SubSeqProperties
  <2>5. Len(SubSeq(s, n + 1, Len(s))) < Len(s)
    BY <1>1, <2>1, <2>4
  <2>6. QED
    BY <2>3, <2>5 DEF n
<1>4. QED
  BY <1>2, <1>3

\* The equation of Requests: such a function exists, so Requests is one.
LEMMA RequestsUnfolds ==
    \A s \in Seq(Bytes) : Requests[s] = Decodes(Requests, s)
<1> DEFINE S == Seq(Bytes)
           V == Seq(Seq(Bytes))
           size == [s \in S |-> Len(s)]
           G == [x \in S \X [S -> V] |-> Decodes(x[2], x[1])]
<1>1. ASSUME NEW s \in S, NEW f \in [S -> V]
      PROVE  Decodes(f, s) \in V
  <2>1. CASE TryDecode(s).says = "wait"
    BY <2>1 DEF Decodes
  <2>2. CASE TryDecode(s).says = "wrong"
    BY <2>2, RestIsShorter DEF Decodes
  <2>3. CASE TryDecode(s).says = "frame"
    <3> DEFINE rest == SubSeq(s, TryDecode(s).size + 1, Len(s))
    <3>1. rest \in S /\ Payload(s) \in Seq(Bytes)
      BY <2>3, RestIsShorter, DecodeType
    <3>2. Decodes(f, s) = <<Payload(s)>> \o f[rest]
      BY <2>3 DEF Decodes
    <3> HIDE DEF rest
    <3>3. <<Payload(s)>> \in V /\ f[rest] \in V
      BY <3>1
    <3>4. QED
      BY <3>2, <3>3, ConcatProperties
  <2>4. QED
    BY <2>1, <2>2, <2>3, DecodeType
<1>2. ASSUME NEW s \in S, NEW f, NEW g, \A t \in S : Len(t) < Len(s) => f[t] = g[t]
      PROVE  Decodes(f, s) = Decodes(g, s)
  <2>1. CASE TryDecode(s).says = "wait"
    BY <2>1 DEF Decodes
  <2>2. CASE TryDecode(s).says = "wrong"
    BY <1>2, <2>2, RestIsShorter DEF Decodes
  <2>3. CASE TryDecode(s).says = "frame"
    BY <1>2, <2>3, RestIsShorter DEF Decodes
  <2>4. QED
    BY <2>1, <2>2, <2>3, DecodeType
<1>3. size \in [S -> Nat] /\ V # {} /\ G \in [S \X [S -> V] -> V]
  <2>1. size \in [S -> Nat]
    OBVIOUS
  <2>2. <<>> \in V
    OBVIOUS
  <2>3. \A x \in S \X [S -> V] : Decodes(x[2], x[1]) \in V
    <3> HIDE DEF S, V
    <3>1. QED
      BY <1>1
  <2>4. G \in [S \X [S -> V] -> V]
    <3> HIDE DEF S, V
    <3>1. QED
      BY <2>3
  <2>5. QED
    BY <2>1, <2>2, <2>4
<1>4. Founded(S, V, size, G)
  <2>1. ASSUME NEW s \in S, NEW f \in [S -> V], NEW g \in [S -> V],
               \A t \in S : size[t] < size[s] => f[t] = g[t]
        PROVE  G[<<s, f>>] = G[<<s, g>>]
    BY <1>2, <2>1
  <2>2. QED
    BY <2>1 DEF Founded
<1>5. PICK f \in [S -> V] : \A s \in S : f[s] = Decodes(f, s)
  <2>1. PICK f \in [S -> V] : Recursive(f, S, G)
    <3> HIDE DEF S, V, size, G
    <3>1. QED
      BY <1>3, <1>4, RecursionExists
  <2>2. \A s \in S : G[<<s, f>>] = Decodes(f, s)
    OBVIOUS
  <2> HIDE DEF S, V, G
  <2>3. QED
    BY <2>1, <2>2 DEF Recursive
<1>6. f = [s \in S |-> Decodes(f, s)]
  BY <1>5
<1>7. Requests = [s \in Seq(Bytes) |-> Decodes(Requests, s)]
  BY <1>6, Zenon DEF Requests, Decodes
<1>8. QED
  BY <1>7, Zenon

\* What the format finds are payloads.
LEMMA RequestsType ==
    \A s \in Seq(Bytes) : Requests[s] \in Seq(Seq(Bytes))
<1> DEFINE size == [s \in Seq(Bytes) |-> Len(s)]
           T == {s \in Seq(Bytes) : Requests[s] \in Seq(Seq(Bytes))}
<1>1. ASSUME NEW s \in Seq(Bytes), \A t \in Seq(Bytes) : size[t] < size[s] => t \in T
      PROVE  s \in T
  <2>1. \A t \in Seq(Bytes) : Len(t) < Len(s) => Requests[t] \in Seq(Seq(Bytes))
    BY <1>1
  <2>2. Requests[s] = Decodes(Requests, s)
    BY RequestsUnfolds
  <2> SUFFICES Requests[s] \in Seq(Seq(Bytes))
    OBVIOUS
  <2>3. CASE TryDecode(s).says = "wait"
    BY <2>2, <2>3 DEF Decodes
  <2>4. CASE TryDecode(s).says = "wrong"
    BY <2>1, <2>2, <2>4, RestIsShorter DEF Decodes
  <2>5. CASE TryDecode(s).says = "frame"
    <3> DEFINE rest == SubSeq(s, TryDecode(s).size + 1, Len(s))
    <3>1. rest \in Seq(Bytes) /\ Len(rest) < Len(s) /\ Payload(s) \in Seq(Bytes)
      BY <2>5, RestIsShorter, DecodeType
    <3>2. Requests[s] = <<Payload(s)>> \o Requests[rest]
      BY <2>2, <2>5 DEF Decodes
    <3> HIDE DEF rest
    <3>3. <<Payload(s)>> \in Seq(Seq(Bytes)) /\ Requests[rest] \in Seq(Seq(Bytes))
      BY <2>1, <3>1
    <3>4. QED
      BY <3>2, <3>3, ConcatProperties
  <2>6. QED
    BY <2>3, <2>4, <2>5, DecodeType
<1>2. size \in [Seq(Bytes) -> Nat]
  OBVIOUS
<1>3. Seq(Bytes) \subseteq T
  <2> HIDE DEF T, size
  <2>1. QED
    BY <1>1, <1>2, SizeInduction
<1>4. QED
  BY <1>3

-----------------------------------------------------------------------------
(* What is encoded is decoded.                                             *)

\* The checksum, by a function for all bytes but the last.
CrcBody(f, p) ==
    IF p = <<>> THEN <<0, 1>>
    ELSE LET c == f[Front(p)]
         IN  <<(2 * c[1] + Last(p) + 1) % Base, (c[2] + Last(p)) % Base>>

\* The checksum of any payload is two bytes.
LEMMA CrcType == \A p \in Seq(Bytes) : Crc[p] \in Bytes \X Bytes
<1> DEFINE S == Seq(Bytes)
           V == Bytes \X Bytes
           size == [p \in S |-> Len(p)]
           G == [x \in S \X [S -> V] |-> CrcBody(x[2], x[1])]
<1>1. ASSUME NEW p \in S, p # <<>>
      PROVE  Front(p) \in S /\ Len(Front(p)) < Len(p) /\ Last(p) \in Bytes
  BY <1>1, FrontIsShorter
<1>2. ASSUME NEW p \in S, NEW f, p # <<>> => f[Front(p)] \in V
      PROVE  CrcBody(f, p) \in V
  <2>1. CASE p = <<>>
    BY <2>1, PacketAssumption DEF CrcBody, Bytes
  <2>2. CASE p # <<>>
    <3> DEFINE c == f[Front(p)]
    <3>1. c[1] \in Bytes /\ c[2] \in Bytes /\ Last(p) \in Bytes
      BY <1>1, <1>2, <2>2
    <3>2. CrcBody(f, p) = <<(2 * c[1] + Last(p) + 1) % Base, (c[2] + Last(p)) % Base>>
      BY <2>2 DEF CrcBody
    <3> HIDE DEF c
    <3>3. 2 * c[1] + Last(p) + 1 \in Int /\ c[2] + Last(p) \in Int /\ Base \in Nat /\ Base > 0
      BY <3>1, PacketAssumption DEF Bytes
    <3>4. \A k \in Int : k % Base \in Bytes
      BY <3>3 DEF Bytes
    <3>5. QED
      BY <3>2, <3>3, <3>4
  <2>3. QED
    BY <2>1, <2>2
<1>3. size \in [S -> Nat] /\ G \in [S \X [S -> V] -> V]
  <2>1. \A p \in S : Len(p) \in Nat
    OBVIOUS
  <2>2. \A x \in S \X [S -> V] : CrcBody(x[2], x[1]) \in V
    <3> HIDE DEF S, V
    <3>1. QED
      BY <1>1, <1>2
  <2> HIDE DEF S, V
  <2>3. QED
    BY <2>1, <2>2
<1>4. Founded(S, V, size, G)
  <2>1. ASSUME NEW p \in S, NEW f \in [S -> V], NEW g \in [S -> V],
               \A t \in S : size[t] < size[p] => f[t] = g[t]
        PROVE  G[<<p, f>>] = G[<<p, g>>]
    <3>1. p # <<>> => f[Front(p)] = g[Front(p)]
      BY <1>1, <2>1
    <3>2. CrcBody(f, p) = CrcBody(g, p)
      BY <3>1 DEF CrcBody
    <3>3. G[<<p, f>>] = CrcBody(f, p) /\ G[<<p, g>>] = CrcBody(g, p)
      <4> HIDE DEF S, V
      <4>1. QED
        OBVIOUS
    <3>4. QED
      BY <3>2, <3>3
  <2> HIDE DEF S, V, G, size
  <2>2. QED
    BY <2>1 DEF Founded
<1>5. PICK f \in [S -> V] : \A p \in S : f[p] = CrcBody(f, p)
  <2>1. <<0, 1>> \in V
    BY PacketAssumption DEF Bytes
  <2>2. PICK f \in [S -> V] : Recursive(f, S, G)
    <3> HIDE DEF S, V, size, G
    <3>1. QED
      BY <1>3, <1>4, <2>1, RecursionExists
  <2>3. \A p \in S : G[<<p, f>>] = CrcBody(f, p)
    <3> HIDE DEF S, V
    <3>1. QED
      OBVIOUS
  <2> HIDE DEF S, V, G
  <2>4. QED
    BY <2>2, <2>3 DEF Recursive
<1>6. f = [p \in S |-> CrcBody(f, p)]
  BY <1>5
<1>7. Crc = [p \in Seq(Bytes) |-> CrcBody(Crc, p)]
  BY <1>6, Zenon DEF Crc, CrcBody
<1>8. ASSUME NEW p \in S, \A t \in S : size[t] < size[p] => t \in {q \in S : Crc[q] \in V}
      PROVE  p \in {q \in S : Crc[q] \in V}
  <2>1. p # <<>> => Crc[Front(p)] \in V
    BY <1>1, <1>8
  <2>2. Crc[p] = CrcBody(Crc, p)
    BY <1>7, Zenon
  <2> HIDE DEF V
  <2>3. Crc[p] \in V
    BY <1>2, <2>1, <2>2
  <2>4. QED
    BY <2>3
<1>9. S \subseteq {q \in S : Crc[q] \in V}
  <2> DEFINE T == {q \in S : Crc[q] \in V}
  <2>1. \A p \in S : (\A t \in S : size[t] < size[p] => t \in T) => p \in T
    BY <1>8
  <2> HIDE DEF T, S, size, V
  <2>2. S \subseteq T
    BY <1>3, <2>1, SizeInduction
  <2>3. QED
    BY <2>2 DEF T
<1>10. QED
  BY <1>9

\* The header of a frame states the length of its payload, in a form that is
\* admissible for it.
LEMMA HeaderStates ==
    ASSUME NEW n \in 1 .. MaxPayload
    PROVE  LET h == Header(Form(n), n)
           IN  /\ Form(n) \in {2, 3} /\ h \in Seq(Bytes) /\ Len(h) = Form(n)
               /\ Admissible(Form(n), n)
               /\ \A s : (\A i \in 1 .. Form(n) : s[i] = h[i]) =>
                             s[1] = Form(n) /\ StatedLength(s) = n
<1>1. n \in Nat /\ n > 0 /\ n < Base * Base /\ Base \in Nat /\ Base > 4
  BY PacketAssumption
<1>2. CASE n < Base
  <2> DEFINE h == <<2, n>>
  <2>1. Form(n) = 2
    BY <1>1, <1>2 DEF Form
  <2>2. Header(2, n) = h
    BY DEF Header
  <2>3. h \in Seq(Bytes) /\ Len(h) = 2
    BY <1>1, <1>2 DEF Bytes
  <2>4. Admissible(2, n)
    BY <1>1 DEF Admissible, Least
  <2>5. h[1] = 2 /\ h[2] = n
    OBVIOUS
  <2> HIDE DEF h
  <2>6. ASSUME NEW s, \A i \in 1 .. 2 : s[i] = h[i]
        PROVE  s[1] = 2 /\ StatedLength(s) = n
    <3>1. s[1] = 2 /\ s[2] = n
      BY <2>5, <2>6
    <3>2. QED
      BY <3>1 DEF StatedLength
  <2>7. QED
    BY <2>1, <2>2, <2>3, <2>4, <2>6
<1>3. CASE ~(n < Base)
  <2> DEFINE a == n \div Base
             b == n % Base
             h == <<3, a, b>>
  <2>1. a \in Int /\ b \in 0 .. Base - 1 /\ n = Base * a + b
    BY <1>1
  <2>2. Form(n) = 3
    BY <1>1, <1>3 DEF Form
  <2>3. Header(3, n) = h
    BY DEF Header
  <2> HIDE DEF a, b
  <2>4. a >= 0 /\ a < Base
    BY <1>1, <2>1
  <2>5. h \in Seq(Bytes) /\ Len(h) = 3
    <3>1. 3 \in Bytes /\ a \in Bytes /\ b \in Bytes
      BY <1>1, <2>1, <2>4 DEF Bytes
    <3>2. QED
      BY <3>1
  <2>6. a * Base + b = n
    BY <1>1, <2>1
  <2>7. Admissible(3, n)
    BY <1>1, <1>3 DEF Admissible, Least
  <2>8. h[1] = 3 /\ h[2] = a /\ h[3] = b
    OBVIOUS
  <2> HIDE DEF h
  <2>9. ASSUME NEW s, \A i \in 1 .. 3 : s[i] = h[i]
        PROVE  s[1] = 3 /\ StatedLength(s) = n
    <3>1. s[1] = 3 /\ s[2] = a /\ s[3] = b
      BY <2>8, <2>9
    <3>2. QED
      BY <2>6, <3>1 DEF StatedLength
  <2>10. QED
    BY <2>2, <2>3, <2>5, <2>7, <2>9
<1>4. QED
  BY <1>2, <1>3

\* Four sequences one behind another, by their places.
LEMMA FourPieces ==
    ASSUME NEW S, NEW h \in Seq(S), NEW p \in Seq(S), NEW c \in Seq(S), NEW d \in Seq(S),
           NEW e, e = h \o p \o c \o d
    PROVE  /\ e \in Seq(S) /\ Len(e) = Len(h) + Len(p) + Len(c) + Len(d)
           /\ \A i \in 1 .. Len(h) : e[i] = h[i]
           /\ \A i \in 1 .. Len(p) : e[Len(h) + i] = p[i]
           /\ \A i \in 1 .. Len(c) : e[Len(h) + Len(p) + i] = c[i]
           /\ \A i \in 1 .. Len(d) : e[Len(h) + Len(p) + Len(c) + i] = d[i]
<1>1. Len(h) \in Nat /\ Len(p) \in Nat /\ Len(c) \in Nat /\ Len(d) \in Nat
  OBVIOUS
<1>2. ASSUME NEW s \in Seq(S), NEW t \in Seq(S)
      PROVE  /\ s \o t \in Seq(S) /\ Len(s \o t) = Len(s) + Len(t)
             /\ \A i \in 1 .. Len(s) : (s \o t)[i] = s[i]
             /\ \A i \in 1 .. Len(t) : (s \o t)[Len(s) + i] = t[i]
  <2>1. Len(s) \in Nat /\ Len(t) \in Nat
    OBVIOUS
  <2>2. /\ s \o t \in Seq(S) /\ Len(s \o t) = Len(s) + Len(t)
        /\ \A i \in 1 .. Len(s) + Len(t) : (s \o t)[i] = IF i <= Len(s) THEN s[i] ELSE t[i - Len(s)]
    BY ConcatProperties
  <2>3. QED
    BY <2>1, <2>2
<1> DEFINE u == h \o p
           v == u \o c
<1>0. e = v \o d
  OBVIOUS
<1>3. /\ u \in Seq(S) /\ Len(u) = Len(h) + Len(p)
      /\ \A i \in 1 .. Len(h) : u[i] = h[i]
      /\ \A i \in 1 .. Len(p) : u[Len(h) + i] = p[i]
  BY <1>2
<1> HIDE DEF u
<1>4. /\ v \in Seq(S) /\ Len(v) = Len(u) + Len(c)
      /\ \A i \in 1 .. Len(u) : v[i] = u[i]
      /\ \A i \in 1 .. Len(c) : v[Len(u) + i] = c[i]
  BY <1>2, <1>3
<1> HIDE DEF v
<1>5. /\ e \in Seq(S) /\ Len(e) = Len(v) + Len(d)
      /\ \A i \in 1 .. Len(v) : e[i] = v[i]
      /\ \A i \in 1 .. Len(d) : e[Len(v) + i] = d[i]
  <2> DEFINE f == v \o d
  <2>1. /\ f \in Seq(S) /\ Len(f) = Len(v) + Len(d)
        /\ \A i \in 1 .. Len(v) : f[i] = v[i]
        /\ \A i \in 1 .. Len(d) : f[Len(v) + i] = d[i]
    BY <1>2, <1>4
  <2>2. e = f
    BY <1>0
  <2> HIDE DEF f
  <2>3. QED
    BY <2>1, <2>2
<1>6. /\ \A i \in 1 .. Len(h) : e[i] = h[i]
      /\ \A i \in 1 .. Len(p) : e[Len(h) + i] = p[i]
      /\ \A i \in 1 .. Len(c) : e[Len(h) + Len(p) + i] = c[i]
  <2>1. ASSUME NEW i \in 1 .. Len(h)
        PROVE  e[i] = h[i]
    BY <1>1, <1>3, <1>4, <1>5
  <2>2. ASSUME NEW i \in 1 .. Len(p)
        PROVE  e[Len(h) + i] = p[i]
    <3>1. Len(h) + i \in 1 .. Len(u) /\ Len(h) + i \in 1 .. Len(v)
      BY <1>1, <1>3, <1>4
    <3>2. u[Len(h) + i] = p[i]
      BY <1>3
    <3>3. e[Len(h) + i] = v[Len(h) + i] /\ v[Len(h) + i] = u[Len(h) + i]
      BY <1>4, <1>5, <3>1
    <3>4. QED
      BY <3>2, <3>3
  <2>3. ASSUME NEW i \in 1 .. Len(c)
        PROVE  e[Len(h) + Len(p) + i] = c[i]
    BY <1>1, <1>3, <1>4, <1>5
  <2>4. QED
    BY <2>1, <2>2, <2>3
<1>7. \A i \in 1 .. Len(d) : e[Len(h) + Len(p) + Len(c) + i] = d[i]
  BY <1>1, <1>3, <1>4, <1>5
<1>8. e \in Seq(S) /\ Len(e) = Len(h) + Len(p) + Len(c) + Len(d)
  BY <1>1, <1>3, <1>4, <1>5
<1>9. QED
  BY <1>6, <1>7, <1>8

\* What vesc_packet_encode makes of a payload is one frame, with that payload.
LEMMA EncodedDecodes ==
    ASSUME NEW p \in Seq(Bytes), Len(p) \in 1 .. MaxPayload
    PROVE  /\ Encoded(p) \in Seq(Bytes)
           /\ TryDecode(Encoded(p)) = Whole(Len(Encoded(p)))
           /\ Payload(Encoded(p)) = p
<1> DEFINE n == Len(p)
           h == Header(Form(n), n)
           c == Crc[p]
           e == Encoded(p)
<1>1. /\ Form(n) \in {2, 3} /\ h \in Seq(Bytes) /\ Len(h) = Form(n) /\ Admissible(Form(n), n)
      /\ \A s : (\A i \in 1 .. Form(n) : s[i] = h[i]) => s[1] = Form(n) /\ StatedLength(s) = n
  BY HeaderStates
<1>2. c \in Seq(Bytes) /\ Len(c) = 2 /\ c = <<c[1], c[2]>> /\ c[1] \in Bytes /\ c[2] \in Bytes
  <2>1. c \in Bytes \X Bytes
    BY CrcType
  <2> HIDE DEF c
  <2>2. c[1] \in Bytes /\ c[2] \in Bytes /\ c = <<c[1], c[2]>>
    BY <2>1
  <2>3. <<c[1], c[2]>> \in Seq(Bytes) /\ Len(<<c[1], c[2]>>) = 2
    BY <2>2
  <2>4. QED
    BY <2>2, <2>3, Zenon
<1>3. <<Stop>> \in Seq(Bytes) /\ Len(<<Stop>>) = 1 /\ <<Stop>>[1] = Stop
  BY PacketAssumption DEF Stop, Bytes
<1> DEFINE d == <<Stop>>
<1>4. /\ e \in Seq(Bytes) /\ Len(e) = Len(h) + Len(p) + Len(c) + Len(d)
      /\ \A i \in 1 .. Len(h) : e[i] = h[i]
      /\ \A i \in 1 .. Len(p) : e[Len(h) + i] = p[i]
      /\ \A i \in 1 .. Len(c) : e[Len(h) + Len(p) + i] = c[i]
      /\ \A i \in 1 .. Len(d) : e[Len(h) + Len(p) + Len(c) + i] = d[i]
  <2>1. e = h \o p \o c \o d
    BY DEF Encoded
  <2>2. h \in Seq(Bytes) /\ c \in Seq(Bytes) /\ d \in Seq(Bytes)
    BY <1>1, <1>2, <1>3
  <2> HIDE DEF h, c, e, d
  <2>3. QED
    BY <2>1, <2>2, FourPieces
<1>a. Len(d) = 1 /\ d[1] = Stop
  BY <1>3
<1> HIDE DEF h, c, e, d
<1>5. /\ n \in Nat /\ n > 0 /\ e[1] = Form(n) /\ StatedLength(e) = n /\ Len(e) = Form(n) + n + 3
  <2>1. \A i \in 1 .. Form(n) : e[i] = h[i]
    BY <1>1, <1>4
  <2>2. e[1] = Form(n) /\ StatedLength(e) = n
    BY <1>1, <2>1
  <2>3. n \in Nat /\ n > 0 /\ Form(n) \in Nat
    BY <1>1
  <2>4. Len(e) = Form(n) + n + 3
    BY <1>1, <1>2, <1>4, <1>a, <2>3
  <2>5. QED
    BY <2>2, <2>3, <2>4
<1>6. Headed(e) /\ Admissible(e[1], StatedLength(e)) /\ Size(e) = Len(e)
  <2>1. e # <<>>
    BY <1>1, <1>4, <1>5, BytesOf
  <2>2. QED
    BY <1>1, <1>5, <2>1 DEF Headed, Size, Starts
<1>7. Payload(e) = p
  <2> DEFINE a == Form(n) + 1
             z == Form(n) + n
             q == SubSeq(e, a, z)
  <2>1. a \in 1 .. Len(e) /\ z \in 1 .. Len(e) /\ a <= z
    BY <1>1, <1>5
  <2>2. \A i \in a .. z : e[i] \in Bytes
    <3>1. a .. z \subseteq 1 .. Len(e)
      BY <1>1, <1>5
    <3>2. QED
      BY <1>4, <3>1, BytesOf
  <2> HIDE DEF a, z
  <2>3. /\ q \in Seq(Bytes) /\ Len(q) = (IF a <= z THEN z - a + 1 ELSE 0)
        /\ \A i \in 1 .. z - a + 1 : q[i] = e[a + i - 1]
    BY <1>4, <2>1, <2>2, SubSeqProperties
  <2> HIDE DEF q
  <2>4. Len(q) = n /\ \A i \in 1 .. n : q[i] = e[Form(n) + i]
    <3>1. z - a + 1 = n /\ a <= z /\ \A i \in 1 .. n : a + i - 1 = Form(n) + i
      BY <1>1, <1>5 DEF a, z
    <3>2. QED
      BY <2>3, <3>1
  <2>5. \A i \in 1 .. n : q[i] = p[i]
    BY <1>1, <1>4, <2>4
  <2>6. q = p
    BY <2>3, <2>4, <2>5, SeqEqual
  <2>7. QED
    BY <1>5, <2>6 DEF Payload, q, a, z
<1>8. Sound(e)
  <2> DEFINE last == Form(n) + n + 3
             q == SubSeq(e, last - 2, last - 1)
  <2>1. last - 2 \in 1 .. Len(e) /\ last - 1 \in 1 .. Len(e) /\ last - 1 = last - 2 + 1 /\ last \in Int
    BY <1>1, <1>5
  <2>2. e[last] = Stop
    <3>1. 1 \in 1 .. Len(d) /\ Len(h) + Len(p) + Len(c) + 1 = last
      BY <1>1, <1>2, <1>5, <1>a
    <3>2. e[Len(h) + Len(p) + Len(c) + 1] = d[1]
      BY <1>4, <3>1
    <3>3. QED
      BY <1>a, <3>1, <3>2
  <2>3. e[last - 2] = c[1] /\ e[last - 1] = c[2]
    <3>1. 1 \in 1 .. Len(c) /\ 2 \in 1 .. Len(c) /\ Len(h) + Len(p) + 1 = last - 2
          /\ Len(h) + Len(p) + 2 = last - 1
      BY <1>1, <1>2, <1>5
    <3>2. e[Len(h) + Len(p) + 1] = c[1] /\ e[Len(h) + Len(p) + 2] = c[2]
      BY <1>4, <3>1
    <3>3. QED
      BY <3>1, <3>2
  <2> DEFINE k == last - 2
             l == last - 1
  <2>4. q = <<c[1], c[2]>>
    <3>1. /\ k \in 1 .. Len(e) /\ l \in 1 .. Len(e) /\ l = k + 1
          /\ e[k] = c[1] /\ e[l] = c[2]
      BY <2>1, <2>3
    <3>2. /\ k .. l \subseteq 1 .. Len(e) /\ Len(e) \in Nat
      BY <1>4, <3>1
    <3> HIDE DEF k, l, last
    <3>3. \A i \in k .. l : e[i] \in Bytes
      BY <1>4, <3>2, BytesOf
    <3> DEFINE r == SubSeq(e, k, l)
    <3>4. /\ r \in Seq(Bytes) /\ Len(r) = (IF k <= l THEN l - k + 1 ELSE 0)
          /\ \A i \in 1 .. l - k + 1 : r[i] = e[k + i - 1]
      BY <1>4, <3>1, <3>3, SubSeqProperties
    <3> HIDE DEF r
    <3>5. Len(r) = 2 /\ r[1] = c[1] /\ r[2] = c[2]
      <4>1. k <= l /\ l - k + 1 = 2 /\ k + 1 - 1 = k /\ k + 2 - 1 = l
        BY <3>1
      <4>2. QED
        BY <3>1, <3>4, <4>1
    <3>6. r = <<c[1], c[2]>>
      <4>1. c[1] \in Bytes /\ c[2] \in Bytes
        BY <1>2
      <4> DEFINE t == <<c[1], c[2]>>
      <4>2. t \in Seq(Bytes) /\ Len(t) = 2 /\ t[1] = c[1] /\ t[2] = c[2]
        BY <4>1
      <4> HIDE DEF t
      <4>3. \A i \in 1 .. Len(r) : r[i] = t[i]
        BY <3>5, <4>2
      <4>4. QED
        BY <3>4, <3>5, <4>2, <4>3, SeqEqual DEF t
    <3>7. QED
      BY <3>6 DEF r, k, l
  <2>5. QED
    BY <1>2, <1>5, <1>7, <2>2, <2>4 DEF Sound, last, c
<1>9. TryDecode(e) = Whole(Len(e))
  <2>1. Len(e) >= Size(e)
    BY <1>4, <1>6
  <2>2. QED
    BY <1>4, <1>6, <1>8, <2>1, DecodeCases
<1>10. QED
  BY <1>4, <1>7, <1>9 DEF e

\* The decoder reads back what vesc_packet_encode makes: a frame is one request,
\* its payload, and what follows it is decoded as if it came alone.
THEOREM FramesAreRead ==
    \A p \in Seq(Bytes), x \in Seq(Bytes) :
        Len(p) \in 1 .. MaxPayload => Requests[Encoded(p) \o x] = <<p>> \o Requests[x]
<1>1. ASSUME NEW p \in Seq(Bytes), NEW x \in Seq(Bytes), Len(p) \in 1 .. MaxPayload
      PROVE  Requests[Encoded(p) \o x] = <<p>> \o Requests[x]
  <2> DEFINE e == Encoded(p)
             n == Len(e)
  <2>1. e \in Seq(Bytes) /\ TryDecode(e) = Whole(n) /\ Payload(e) = p
    BY <1>1, EncodedDecodes
  <2>2. n \in Nat /\ n \in 0 .. Len(e)
    BY <2>1, BytesOf
  <2> HIDE DEF e, n
  <2>3. TryDecode(e).says = "frame" /\ TryDecode(e).size = n
    BY <2>1 DEF Whole
  <2>4. e \o x \in Seq(Bytes) /\ TryDecode(e \o x) = TryDecode(e) /\ Payload(e \o x) = p
    BY <2>1, <2>3, VerdictStays, ConcatProperties
  <2>5. Requests[e \o x] = <<p>> \o Requests[SubSeq(e \o x, n + 1, Len(e \o x))]
    BY <2>3, <2>4, RequestsUnfolds DEF Decodes
  <2>6. SubSeq(e \o x, n + 1, Len(e \o x)) = SubSeq(e, n + 1, Len(e)) \o x
    BY <2>1, <2>2, RestOfConcat
  <2>7. SubSeq(e, n + 1, Len(e)) \o x = x
    <3>1. SubSeq(e, n + 1, Len(e)) = <<>>
      BY <2>1, <2>2 DEF n
    <3>2. QED
      BY <3>1, ConcatEmptySeq
  <2>8. QED
    BY <2>5, <2>6, <2>7 DEF e
<1>2. QED
  BY <1>1

-----------------------------------------------------------------------------
(* The decoder, byte by byte.                                              *)

\* The decoder misses as many bytes as it counts, or has not asked yet.
Waiting ==
    /\ TryDecode(Unread).says = "wait"
    /\ \/ left = TryDecode(Unread).bytes
       \/ left = 0 /\ Unread = <<>>

DecoderInv ==
    /\ sent \in Seq(Bytes) /\ chunk \in Seq(Bytes) /\ rx \in Seq(Bytes) /\ fed \in Seq(Bytes)
    /\ handled \in Seq(Seq(Bytes))
    /\ rd \in 0 .. Len(rx) /\ left \in Nat
    /\ Len(rx) <= BufferLen /\ Len(Unread) <= MaxPayload + 7
    /\ \A x \in Seq(Bytes) : Requests[fed \o x] = handled \o Requests[Unread \o x]
    /\ net \notin {"decode", "work"} => Waiting

\* The bytes between the two pointers.
LEMMA UnreadType ==
    ASSUME DecoderInv
    PROVE  Unread \in Seq(Bytes) /\ Len(Unread) = Len(rx) - rd
<1>1. rx \in Seq(Bytes) /\ Len(rx) \in Nat /\ rd \in 0 .. Len(rx)
  BY DEF DecoderInv
<1>2. rd + 1 \in 1 .. Len(rx) + 1 /\ Len(rx) \in 0 .. Len(rx)
  BY <1>1
<1>3. SubSeq(rx, rd + 1, Len(rx)) \in Seq(Bytes)
  BY <1>1, <1>2, SubSeqProperties
<1>4. Len(SubSeq(rx, rd + 1, Len(rx))) = IF rd + 1 <= Len(rx) THEN Len(rx) - (rd + 1) + 1 ELSE 0
  BY <1>1, <1>2, SubSeqProperties
<1>5. QED
  BY <1>1, <1>3, <1>4 DEF Unread

\* Of nothing the decoder waits for a byte.
LEMMA NothingRead ==
    /\ SubSeq(<<>>, 1, 0) = <<>>
    /\ <<>> \in Seq(Bytes) /\ TryDecode(<<>>) = Wait(1)
    /\ Requests[<<>>] = <<>>
    /\ \A x \in Seq(Bytes) : <<>> \o x = x
<1>1. <<>> \in Seq(Bytes) /\ TryDecode(<<>>) = Wait(1)
  BY DEF TryDecode
<1>2. \A s \in Seq(Bytes) : TryDecode(s).says = "wait" => Requests[s] = <<>>
  BY RequestsUnfolds DEF Decodes
<1>3. TryDecode(<<>>).says = "wait"
  BY <1>1 DEF Wait
<1>4. Requests[<<>>] = <<>>
  BY <1>1, <1>2, <1>3, Zenon
<1>5. QED
  BY <1>1, <1>4, ConcatEmptySeq

LEMMA NothingHandled ==
    \A x \in Seq(Bytes) : Requests[<<>> \o x] = <<>> \o Requests[<<>> \o x]
<1>1. ASSUME NEW x \in Seq(Bytes)
      PROVE  Requests[<<>> \o x] = <<>> \o Requests[<<>> \o x]
  <2>1. <<>> \o x = x
    BY NothingRead
  <2>2. Requests[x] \in Seq(Seq(Bytes))
    BY RequestsType
  <2>3. <<>> \o Requests[x] = Requests[x]
    BY <2>2, ConcatEmptySeq
  <2>4. QED
    BY <2>1, <2>3
<1>2. QED
  BY <1>1

\* A decoder that has just been reset.
LEMMA ResetDecoder ==
    ASSUME rx' = <<>>, rd' = 0, left' = 0, fed' = <<>>, handled' = <<>>,
           sent' \in Seq(Bytes), chunk' \in Seq(Bytes)
    PROVE  DecoderInv'
<1>1. Unread' = <<>> /\ Len(rx') = 0
  BY NothingRead DEF Unread
<1>2. Waiting'
  BY <1>1, NothingRead DEF Waiting, Wait
<1>3. \A x \in Seq(Bytes) : Requests[fed' \o x] = handled' \o Requests[Unread' \o x]
  BY <1>1, NothingHandled
<1>4. MaxPayload \in Nat
  BY PacketAssumption
<1>5. QED
  BY <1>1, <1>2, <1>3, <1>4 DEF DecoderInv, BufferLen

\* A byte stored behind the buffer is behind the unread ones.
LEMMA UnreadGrows ==
    ASSUME NEW d \in Bytes, rx \in Seq(Bytes), rd \in 0 .. Len(rx)
    PROVE  SubSeq(Append(rx, d), rd + 1, Len(Append(rx, d))) = Unread \o <<d>>
<1> DEFINE t == Append(rx, d)
           n == Len(rx) + 1
<1>1. Len(rx) \in Nat
  OBVIOUS
<1>2. t \in Seq(Bytes) /\ Len(t) = n /\ t[n] = d /\ \A i \in 1 .. Len(rx) : t[i] = rx[i]
  BY AppendProperties
<1>3. rd + 1 \in 1 .. Len(t) /\ n \in rd + 1 .. Len(t) /\ n - 1 = Len(rx)
  BY <1>1, <1>2
<1> HIDE DEF t
<1>4. SubSeq(t, rd + 1, n) = SubSeq(t, rd + 1, n - 1) \o <<t[n]>>
  <2> HIDE DEF n
  <2>1. QED
    BY <1>2, <1>3, SubSeqRecursiveSecond
<1>5. SubSeq(t, rd + 1, Len(rx)) = SubSeq(rx, rd + 1, Len(rx))
  BY <1>1, <1>2, <1>3
<1>6. SubSeq(t, rd + 1, Len(t)) = Unread \o <<d>>
  BY <1>2, <1>3, <1>4, <1>5 DEF Unread
<1>7. QED
  BY <1>6 DEF t

\* The same of a byte skipped.
LEMMA TailOfConcat ==
    ASSUME NEW s \in Seq(Bytes), NEW x \in Seq(Bytes), s # <<>>
    PROVE  s \o x \in Seq(Bytes) /\ s \o x # <<>> /\ Tail(s \o x) = Tail(s) \o x
<1>1. Len(s) \in Nat /\ 1 \in 0 .. Len(s) /\ s \o x \in Seq(Bytes) /\ s \o x # <<>>
  BY BytesOf, HeadStays
<1>2. Tail(s) = SubSeq(s, 1 + 1, Len(s)) /\ Tail(s \o x) = SubSeq(s \o x, 1 + 1, Len(s \o x))
  BY <1>1, TailIsSubSeq
<1>3. QED
  BY <1>1, <1>2, RestOfConcat

\* The step of everything that leaves the decoder alone.
LEMMA ElsewhereKeepsDecoder ==
    ASSUME DecoderInv, UNCHANGED <<rx, rd, left, fed, handled>>,
           sent' \in Seq(Bytes), chunk' \in Seq(Bytes),
           net' \notin {"decode", "work"} => net \notin {"decode", "work"}
    PROVE  DecoderInv'
<1>1. Unread' = Unread
  BY DEF Unread
<1>2. Waiting => Waiting'
  BY <1>1 DEF Waiting
<1>3. QED
  BY <1>1, <1>2 DEF DecoderInv

\* A byte is stored: it moves from the stream to come to the unread bytes, and fits.
LEMMA FeedKeepsDecoder ==
    ASSUME DecoderInv, Feed
    PROVE  DecoderInv'
<1> DEFINE d == Head(chunk)
<1>1. /\ rx \in Seq(Bytes) /\ Len(rx) \in Nat /\ rd \in 0 .. Len(rx) /\ left \in Nat
      /\ fed \in Seq(Bytes) /\ chunk \in Seq(Bytes) /\ chunk # <<>>
      /\ handled \in Seq(Seq(Bytes)) /\ sent \in Seq(Bytes)
      /\ Len(rx) <= BufferLen /\ Waiting
  BY DEF DecoderInv, Feed
<1>2. d \in Bytes /\ Tail(chunk) \in Seq(Bytes) /\ <<d>> \in Seq(Bytes)
  BY <1>1, HeadTailProperties
<1>3. Unread \in Seq(Bytes) /\ Len(Unread) = Len(rx) - rd
  BY UnreadType
<1>4. MaxPayload \in Nat /\ BufferLen = MaxPayload + 8
  BY PacketAssumption DEF BufferLen
<1>5. Len(Unread) + 1 <= MaxPayload + 7
  BY <1>1, <1>3, <1>4, DecodeType DEF Waiting
<1>6. ~Overfull
  BY <1>1, <1>3, <1>4, <1>5 DEF Overfull
<1>7. Unread' = Unread \o <<d>> /\ rx' \in Seq(Bytes) /\ rd' \in 0 .. Len(rx') /\ Len(rx') <= BufferLen
  <2>1. CASE Len(rx) >= BufferLen
    <3>1. rx' = Append(Unread, d) /\ rd' = 0
      BY <1>6, <2>1 DEF Feed, Room, Unread
    <3>2. rx' \in Seq(Bytes) /\ Len(rx') = Len(Unread) + 1 /\ rx' = Unread \o <<d>>
      BY <1>2, <1>3, <3>1, AppendProperties, AppendIsConcat
    <3>3. Unread' = SubSeq(rx', 1, Len(rx'))
      BY <3>1 DEF Unread
    <3>4. Unread' = rx'
      BY <3>2, <3>3, SubSeqFull
    <3>5. Len(rx') \in Nat /\ Len(rx') <= BufferLen
      BY <1>3, <1>4, <1>5, <3>2
    <3>6. QED
      BY <3>1, <3>2, <3>4, <3>5
  <2>2. CASE ~(Len(rx) >= BufferLen)
    <3>1. rx' = Append(rx, d) /\ rd' = rd
      BY <1>6, <2>2 DEF Feed, Room
    <3>2. rx' \in Seq(Bytes) /\ Len(rx') = Len(rx) + 1
      BY <1>1, <1>2, <3>1, AppendProperties
    <3>3. Unread' = SubSeq(rx', rd + 1, Len(rx'))
      BY <3>1 DEF Unread
    <3>4. Unread' = Unread \o <<d>>
      BY <1>1, <1>2, <3>1, <3>3, UnreadGrows
    <3>5. Len(rx') <= BufferLen /\ rd' \in 0 .. Len(rx')
      BY <1>1, <1>4, <2>2, <3>1, <3>2
    <3>6. QED
      BY <3>2, <3>4, <3>5
  <2>3. QED
    BY <2>1, <2>2
<1>8. Len(Unread') <= MaxPayload + 7
  BY <1>2, <1>3, <1>4, <1>5, <1>7, ConcatProperties
<1>9. fed' = fed \o <<d>> /\ fed' \in Seq(Bytes)
  BY <1>1, <1>2, AppendIsConcat, AppendProperties DEF Feed
<1>10. ASSUME NEW x \in Seq(Bytes)
       PROVE  Requests[fed' \o x] = handled' \o Requests[Unread' \o x]
  <2>1. fed' \o x = fed \o (<<d>> \o x) /\ Unread' \o x = Unread \o (<<d>> \o x)
    <3>1. (fed \o <<d>>) \o x = fed \o (<<d>> \o x)
      BY <1>1, <1>2, ConcatAssociative
    <3>2. (Unread \o <<d>>) \o x = Unread \o (<<d>> \o x)
      BY <1>2, <1>3, ConcatAssociative
    <3>3. QED
      BY <1>7, <1>9, <3>1, <3>2
  <2>2. <<d>> \o x \in Seq(Bytes)
    BY <1>2, ConcatProperties
  <2>3. handled' = handled
    BY DEF Feed
  <2>4. QED
    BY <2>1, <2>2, <2>3 DEF DecoderInv
<1>11. left' \in Nat /\ (net' \notin {"decode", "work"} => Waiting')
  <2>1. CASE left > 1
    <3>1. left' = left - 1 /\ left = TryDecode(Unread).bytes /\ TryDecode(Unread).says = "wait"
      BY <1>1, <1>6, <2>1 DEF Feed, Waiting
    <3>2. TryDecode(Unread') = Wait(left - 1)
      BY <1>2, <1>3, <1>7, <2>1, <3>1, OneLess
    <3>3. TryDecode(Unread') = [says |-> "wait", bytes |-> left']
      BY <3>1, <3>2 DEF Wait
    <3>4. Waiting'
      BY <3>3 DEF Waiting
    <3>5. QED
      BY <1>1, <2>1, <3>1, <3>4
  <2>2. CASE ~(left > 1)
    BY <1>1, <1>6, <2>2 DEF Feed
  <2>3. QED
    BY <2>1, <2>2
<1>12. chunk' \in Seq(Bytes) /\ sent' = sent /\ handled' = handled
  BY <1>2 DEF Feed, peerVars
<1>13. QED
  BY <1>1, <1>7, <1>8, <1>9, <1>10, <1>11, <1>12 DEF DecoderInv

\* A frame is taken off: its payload moves from the unread bytes to the requests.
LEMMA FrameKeepsDecoder ==
    ASSUME DecoderInv, DecodeFrame
    PROVE  DecoderInv' /\ Payload(Unread) \in Seq(Bytes)
<1> DEFINE n == TryDecode(Unread).size
           rest == SubSeq(Unread, n + 1, Len(Unread))
<1>1. /\ rx \in Seq(Bytes) /\ Len(rx) \in Nat /\ rd \in 0 .. Len(rx)
      /\ fed \in Seq(Bytes) /\ handled \in Seq(Seq(Bytes))
      /\ Len(rx) <= BufferLen /\ Len(Unread) <= MaxPayload + 7
  BY DEF DecoderInv
<1>2. Unread \in Seq(Bytes) /\ Len(Unread) = Len(rx) - rd /\ Len(Unread) \in Nat
  BY <1>1, UnreadType
<1>3. TryDecode(Unread).says = "frame"
  BY DEF DecodeFrame
<1>4. n \in 1 .. Len(Unread) /\ Payload(Unread) \in Seq(Bytes)
  BY <1>2, <1>3, DecodeType
<1>5. rx' = rx /\ rd' = rd + n /\ left' = 0 /\ net' = "work" /\ fed' = fed /\ sent' = sent
      /\ chunk' = chunk /\ handled' = Append(handled, Payload(Unread))
  BY DEF DecodeFrame, Goes, peerVars
<1>6. rd' \in 0 .. Len(rx')
  BY <1>1, <1>2, <1>4, <1>5
<1>7. Unread' = rest
  <2>1. Unread' = SubSeq(rx, rd + n + 1, Len(rx))
    BY <1>5 DEF Unread
  <2> HIDE DEF n
  <2>2. SubSeq(SubSeq(rx, rd + 1, Len(rx)), n + 1, Len(rx) - rd) = SubSeq(rx, rd + n + 1, Len(rx))
    BY <1>1, <1>2, <1>4
  <2>3. QED
    BY <1>2, <2>1, <2>2 DEF Unread
<1>8. rest \in Seq(Bytes) /\ Len(rest) < Len(Unread)
  BY <1>2, <1>3, RestIsShorter
<1>9. ASSUME NEW x \in Seq(Bytes)
      PROVE  Requests[fed' \o x] = handled' \o Requests[Unread' \o x]
  <2> DEFINE s == Unread \o x
  <2>1. s \in Seq(Bytes) /\ Len(s) = Len(Unread) + Len(x) /\ Len(x) \in Nat
    <3>1. Len(x) \in Nat
      OBVIOUS
    <3>2. QED
      BY <1>2, <3>1, ConcatProperties
  <2>2. TryDecode(s) = TryDecode(Unread) /\ Payload(s) = Payload(Unread)
    BY <1>2, <1>3, VerdictStays
  <2>3. Requests[s] = <<Payload(Unread)>> \o Requests[SubSeq(s, n + 1, Len(s))]
    BY <1>3, <2>1, <2>2, RequestsUnfolds DEF Decodes
  <2>4. SubSeq(s, n + 1, Len(s)) = rest \o x
    <3>1. n \in 0 .. Len(Unread)
      BY <1>2, <1>4
    <3> HIDE DEF n
    <3>2. QED
      BY <1>2, <3>1, RestOfConcat
  <2>5. Requests[fed \o x] = handled \o Requests[s]
    BY DEF DecoderInv
  <2>6. rest \o x \in Seq(Bytes) /\ Requests[rest \o x] \in Seq(Seq(Bytes))
    BY <1>8, ConcatProperties, RequestsType
  <2>7. <<Payload(Unread)>> \in Seq(Seq(Bytes))
    BY <1>4
  <2>8. handled' = handled \o <<Payload(Unread)>>
    BY <1>1, <1>4, <1>5, AppendIsConcat
  <2> DEFINE p == <<Payload(Unread)>>
             q == Requests[rest \o x]
  <2>9. handled \o (p \o q) = (handled \o p) \o q
    <3>1. p \in Seq(Seq(Bytes)) /\ q \in Seq(Seq(Bytes)) /\ handled \in Seq(Seq(Bytes))
      BY <1>1, <2>6, <2>7
    <3> HIDE DEF p, q
    <3>2. QED
      BY <3>1, ConcatAssociative
  <2> HIDE DEF s, rest, n
  <2>10. QED
    BY <1>5, <1>7, <2>3, <2>4, <2>5, <2>8, <2>9
<1>10. handled' \in Seq(Seq(Bytes))
  BY <1>1, <1>4, <1>5, AppendProperties
<1>11. Len(Unread') <= MaxPayload + 7
  BY <1>1, <1>2, <1>7, <1>8, PacketAssumption
<1>12. QED
  BY <1>1, <1>4, <1>5, <1>6, <1>9, <1>10, <1>11 DEF DecoderInv

\* A byte is skipped where no frame begins.
LEMMA WrongKeepsDecoder ==
    ASSUME DecoderInv, DecodeWrong
    PROVE  DecoderInv'
<1>1. /\ rx \in Seq(Bytes) /\ Len(rx) \in Nat /\ rd \in 0 .. Len(rx)
      /\ fed \in Seq(Bytes) /\ handled \in Seq(Seq(Bytes))
      /\ Len(rx) <= BufferLen /\ Len(Unread) <= MaxPayload + 7
  BY DEF DecoderInv
<1>2. Unread \in Seq(Bytes) /\ Len(Unread) = Len(rx) - rd /\ Len(Unread) \in Nat
  BY <1>1, UnreadType
<1>3. TryDecode(Unread).says = "wrong"
  BY DEF DecodeWrong
<1>4. Unread # <<>> /\ Len(Unread) > 0
  <2>1. Unread # <<>>
    BY <1>2, <1>3, DecodeType
  <2>2. QED
    BY <1>2, <2>1, BytesOf
<1>5. rx' = rx /\ rd' = rd + 1 /\ left' = 0 /\ net' = "decode" /\ fed' = fed /\ sent' = sent
      /\ chunk' = chunk /\ handled' = handled
  BY DEF DecodeWrong, peerVars, sessionVars
<1>6. rd' \in 0 .. Len(rx')
  BY <1>1, <1>2, <1>4, <1>5
<1>7. Unread' = Tail(Unread)
  <2>1. Unread' = SubSeq(rx, rd + 2, Len(rx))
    BY <1>1, <1>5 DEF Unread
  <2>2. Tail(Unread) = SubSeq(Unread, 2, Len(Unread))
    BY <1>2, <1>4, TailIsSubSeq
  <2>3. SubSeq(SubSeq(rx, rd + 1, Len(rx)), 2, Len(rx) - rd) = SubSeq(rx, rd + 2, Len(rx))
    BY <1>1, <1>2, <1>4
  <2>4. QED
    BY <1>2, <2>1, <2>2, <2>3 DEF Unread
<1>8. Tail(Unread) \in Seq(Bytes) /\ Len(Tail(Unread)) < Len(Unread) /\ Len(Tail(Unread)) \in Nat
  BY <1>2, <1>3, RestIsShorter
<1>9. ASSUME NEW x \in Seq(Bytes)
      PROVE  Requests[fed' \o x] = handled' \o Requests[Unread' \o x]
  <2> DEFINE s == Unread \o x
  <2>1. s \in Seq(Bytes) /\ s # <<>> /\ Tail(s) = Tail(Unread) \o x
    BY <1>2, <1>4, TailOfConcat
  <2>2. TryDecode(s) = TryDecode(Unread)
    BY <1>2, <1>3, VerdictStays
  <2>3. Requests[s] = Requests[Tail(s)]
    BY <1>3, <2>1, <2>2, RequestsUnfolds DEF Decodes
  <2>4. Requests[fed \o x] = handled \o Requests[s]
    BY DEF DecoderInv
  <2> HIDE DEF s
  <2>5. QED
    BY <1>5, <1>7, <2>1, <2>3, <2>4
<1>10. Len(Unread') <= MaxPayload + 7
  BY <1>1, <1>2, <1>7, <1>8, PacketAssumption
<1>11. QED
  BY <1>1, <1>5, <1>6, <1>9, <1>10 DEF DecoderInv

\* Nothing can be said yet, and the decoder counts what it misses.
LEMMA WaitsKeepsDecoder ==
    ASSUME DecoderInv, DecodeWaits
    PROVE  DecoderInv'
<1>1. /\ rx \in Seq(Bytes) /\ Len(rx) \in Nat /\ rd \in 0 .. Len(rx)
      /\ fed \in Seq(Bytes) /\ handled \in Seq(Seq(Bytes))
      /\ Len(rx) <= BufferLen /\ Len(Unread) <= MaxPayload + 7
  BY DEF DecoderInv
<1>2. Unread \in Seq(Bytes)
  BY UnreadType
<1>3. /\ TryDecode(Unread).says = "wait" /\ left' = TryDecode(Unread).bytes
      /\ fed' = fed /\ sent' = sent /\ chunk' = chunk /\ handled' = handled
  BY DEF DecodeWaits, peerVars, sessionVars
<1>4. Unread' = Unread /\ rx' \in Seq(Bytes) /\ rd' \in 0 .. Len(rx') /\ Len(rx') <= BufferLen
  <2>1. CASE Unread = <<>>
    <3>1. rx' = <<>> /\ rd' = 0
      BY <2>1 DEF DecodeWaits
    <3>2. Unread' = SubSeq(<<>>, 1, 0)
      BY <3>1 DEF Unread
    <3>3. Len(rx') = 0 /\ BufferLen \in Nat
      BY <3>1, PacketAssumption DEF BufferLen
    <3>4. QED
      BY <2>1, <3>1, <3>2, <3>3, NothingRead
  <2>2. CASE Unread # <<>>
    <3>1. rx' = rx /\ rd' = rd
      BY <2>2 DEF DecodeWaits
    <3>2. QED
      BY <1>1, <3>1 DEF Unread
  <2>3. QED
    BY <2>1, <2>2
<1>5. Waiting'
  <2>1. TryDecode(Unread').says = "wait" /\ left' = TryDecode(Unread').bytes
    BY <1>3, <1>4
  <2>2. QED
    BY <2>1 DEF Waiting
<1>6. left' \in Nat
  BY <1>2, <1>3, DecodeType
<1>7. ASSUME NEW x \in Seq(Bytes)
      PROVE  Requests[fed' \o x] = handled' \o Requests[Unread' \o x]
  BY <1>3, <1>4 DEF DecoderInv
<1>8. Len(Unread') <= MaxPayload + 7
  BY <1>1, <1>4
<1>9. sent' \in Seq(Bytes) /\ chunk' \in Seq(Bytes) /\ fed' \in Seq(Bytes) /\ handled' \in Seq(Seq(Bytes))
  BY <1>1, <1>3 DEF DecoderInv
<1>10. QED
  BY <1>4, <1>5, <1>6, <1>7, <1>8, <1>9 DEF DecoderInv

-----------------------------------------------------------------------------

\* Every step of the host.
LEMMA NextKeepsDecoder ==
    ASSUME DecoderInv, [HostNext]_hostVars
    PROVE  DecoderInv'
<1> USE DEF decoderVars, peerVars, workVars, sessionVars
<1>1. <<>> \in Seq(Bytes) /\ sent \in Seq(Bytes) /\ chunk \in Seq(Bytes)
  BY DEF DecoderInv
<1>2. ASSUME Top \/ Loop \/ RecvEnds \/ Stopped \/ Fed
      PROVE  DecoderInv'
  BY <1>1, <1>2, ElsewhereKeepsDecoder DEF Top, Loop, RecvEnds, Stopped, Fed, Goes
<1>3. ASSUME Over
      PROVE  DecoderInv'
  BY <1>1, <1>3, ElsewhereKeepsDecoder DEF Over, Goes
<1>4. ASSUME Accept
      PROVE  DecoderInv'
  <2>1. /\ rx' = <<>> /\ rd' = 0 /\ left' = 0 /\ fed' = <<>> /\ handled' = <<>>
        /\ sent' = sent /\ chunk' = chunk
    BY <1>4 DEF Accept
  <2>2. QED
    BY <1>1, <2>1, ResetDecoder
<1>5. ASSUME RecvData
      PROVE  DecoderInv'
  BY <1>1, <1>5, ElsewhereKeepsDecoder DEF RecvData, Goes
<1>6. ASSUME WorkDone
      PROVE  DecoderInv'
  BY <1>1, <1>6, ElsewhereKeepsDecoder DEF WorkDone, Goes
<1>7. ASSUME SetConf \/ ReadConf \/ AppLock \/ AppUnlock
      PROVE  DecoderInv'
  BY <1>1, <1>7, ElsewhereKeepsDecoder DEF SetConf, ReadConf, AppLock, AppUnlock, Does
<1>8. ASSUME AppSend \/ Reply \/ PushMcconf
      PROVE  DecoderInv'
  BY <1>1, <1>8, ElsewhereKeepsDecoder DEF AppSend, Reply, PushMcconf, Sends, Does
<1>9. ASSUME SimStep \/ Sigint
      PROVE  DecoderInv'
  BY <1>1, <1>9, ElsewhereKeepsDecoder DEF SimStep, SimLocks, SimTicks, SimSteps, Sigint
<1>10. ASSUME Connect \/ Close
       PROVE  DecoderInv'
  BY <1>1, <1>10, ElsewhereKeepsDecoder DEF Connect, Close, ClientElsewhere
<1>11. ASSUME SendPiece
       PROVE  DecoderInv'
  <2>1. PICK p \in Pieces : sent' = sent \o p
    BY <1>11 DEF SendPiece
  <2>2. p \in Seq(Bytes)
    BY HostAssumption
  <2>3. sent' \in Seq(Bytes)
    BY <1>1, <2>1, <2>2, ConcatProperties
  <2>4. QED
    BY <1>1, <1>11, <2>3, ElsewhereKeepsDecoder DEF SendPiece, ClientElsewhere
<1>12. ASSUME UNCHANGED hostVars
       PROVE  DecoderInv'
  BY <1>1, <1>12, ElsewhereKeepsDecoder DEF hostVars
<1>13. QED
  BY <1>2, <1>3, <1>4, <1>5, <1>6, <1>7, <1>8, <1>9, <1>10, <1>11, <1>12,
     FeedKeepsDecoder, FrameKeepsDecoder, WrongKeepsDecoder, WaitsKeepsDecoder
     DEF HostNext, NetStep

\* What the decoder handles between two bytes is what the format finds.
LEMMA DecoderInvAgrees ==
    ASSUME DecoderInv
    PROVE  /\ Requests[fed] = handled \o Requests[Unread]
           /\ net \notin {"decode", "work"} => Requests[fed] = handled
<1>1. fed \o <<>> = fed /\ Unread \o <<>> = Unread /\ Unread \in Seq(Bytes)
  BY UnreadType, ConcatEmptySeq DEF DecoderInv
<1>2. Requests[fed] = handled \o Requests[Unread]
  <2>1. <<>> \in Seq(Bytes)
    OBVIOUS
  <2>2. Requests[fed \o <<>>] = handled \o Requests[Unread \o <<>>]
    BY <2>1, Zenon DEF DecoderInv
  <2>3. QED
    BY <1>1, <2>2, Zenon
<1>3. ASSUME net \notin {"decode", "work"}
      PROVE  Requests[fed] = handled
  <2>1. TryDecode(Unread).says = "wait"
    BY <1>3 DEF DecoderInv, Waiting
  <2>2. Requests[Unread] = <<>>
    BY <1>1, <2>1, RequestsUnfolds DEF Decodes
  <2>3. handled \o <<>> = handled
    BY ConcatEmptySeq DEF DecoderInv
  <2>4. QED
    BY <1>2, <2>2, <2>3
<1>4. QED
  BY <1>2, <1>3

LEMMA InitHoldsDecoder == HostInit => DecoderInv
<1>1. ASSUME HostInit
      PROVE  DecoderInv
  <2>1. /\ rx = <<>> /\ rd = 0 /\ left = 0 /\ fed = <<>> /\ handled = <<>>
        /\ sent = <<>> /\ chunk = <<>>
    BY <1>1 DEF HostInit
  <2>2. Unread = <<>> /\ Len(rx) = 0
    BY <2>1, NothingRead DEF Unread
  <2>3. Waiting
    BY <2>1, <2>2, NothingRead DEF Waiting, Wait
  <2>4. \A x \in Seq(Bytes) : Requests[fed \o x] = handled \o Requests[Unread \o x]
    BY <2>1, <2>2, NothingHandled
  <2>5. QED
    BY <2>1, <2>2, <2>3, <2>4, PacketAssumption DEF DecoderInv, BufferLen
<1>2. QED
  BY <1>1

\* The invariant of the decoder, at every step of vesc_packet_process_byte.
THEOREM DecoderInvHolds == HostSpec => []DecoderInv
<1>1. HostInit => DecoderInv
  BY InitHoldsDecoder
<1>2. DecoderInv /\ [HostNext]_hostVars => DecoderInv'
  BY NextKeepsDecoder
<1>3. QED
  BY <1>1, <1>2, PTL DEF HostSpec

\* Between two bytes the requests handled are those the format finds in the whole
\* of what came: none is lost, handled twice or made of another client's bytes.
THEOREM DecoderAgreesHolds == HostSpec => []DecoderAgrees
<1>1. DecoderInv => DecoderAgrees
  BY DecoderInvAgrees DEF DecoderAgrees
<1>2. QED
  BY <1>1, DecoderInvHolds, PTL

\* The reset for want of room, which the code says must not happen, does not, and
\* the write pointer stays inside the buffer.
NeverFull == ~Overfull /\ Len(rx) <= BufferLen

\* The branch of vesc_packet_process_byte that throws the unread bytes away is never
\* taken, and no byte is written behind the end of rx_buffer.
THEOREM NeverFullHolds == HostSpec => []NeverFull
<1>1. DecoderInv => NeverFull
  <2>1. ASSUME DecoderInv
        PROVE  NeverFull
    <3>1. Len(Unread) = Len(rx) - rd /\ Len(Unread) <= MaxPayload + 7 /\ Len(rx) <= BufferLen
          /\ rx \in Seq(Bytes) /\ rd \in 0 .. Len(rx)
      BY <2>1, UnreadType DEF DecoderInv
    <3>2. QED
      BY <3>1, PacketAssumption DEF NeverFull, Overfull, BufferLen
  <2>2. QED
    BY <2>1
<1>2. QED
  BY <1>1, DecoderInvHolds, PTL

-----------------------------------------------------------------------------
(* The answers to a stream of requests.                                    *)

Streams == Seq(Seq(Bytes))

Answer == Confs \cup {"fw", "mcconf", "app"}

LEMMA ConfAfterType ==
    ASSUME NEW p, NEW c \in Confs
    PROVE  ConfAfter(p, c) \in Confs
BY DEF ConfAfter

\* The configuration after the requests, by a function for all but the last.
ConfBody(f, ps) == [c \in Confs |-> IF ps = <<>> THEN c ELSE ConfAfter(Last(ps), f[Front(ps)][c])]

\* The equation of ConfAfterAll.
LEMMA ConfUnfolds ==
    /\ ConfAfterAll \in [Streams -> [Confs -> Confs]]
    /\ \A ps \in Streams : ConfAfterAll[ps] = ConfBody(ConfAfterAll, ps)
<1> DEFINE V == [Confs -> Confs]
           size == [ps \in Streams |-> Len(ps)]
           G == [x \in Streams \X [Streams -> V] |-> ConfBody(x[2], x[1])]
<1>1. ASSUME NEW ps \in Streams, ps # <<>>
      PROVE  Front(ps) \in Streams /\ Len(Front(ps)) < Len(ps)
  BY <1>1, FrontIsShorter DEF Streams
<1>2. ASSUME NEW ps \in Streams, NEW f, ps # <<>> => f[Front(ps)] \in V
      PROVE  ConfBody(f, ps) \in V
  <2>1. ASSUME NEW c \in Confs, ps # <<>>
        PROVE  ConfAfter(Last(ps), f[Front(ps)][c]) \in Confs
    <3>1. f[Front(ps)][c] \in Confs
      BY <1>2, <2>1
    <3>2. QED
      BY <3>1, ConfAfterType
  <2>2. QED
    BY <2>1 DEF ConfBody
<1>3. size \in [Streams -> Nat] /\ G \in [Streams \X [Streams -> V] -> V]
  <2>1. \A ps \in Streams : Len(ps) \in Nat
    BY DEF Streams
  <2>2. \A x \in Streams \X [Streams -> V] : ConfBody(x[2], x[1]) \in V
    <3> HIDE DEF V
    <3>1. QED
      BY <1>1, <1>2
  <2> HIDE DEF V
  <2>3. QED
    BY <2>1, <2>2
<1>4. Founded(Streams, V, size, G)
  <2>1. ASSUME NEW ps \in Streams, NEW f \in [Streams -> V], NEW g \in [Streams -> V],
               \A t \in Streams : size[t] < size[ps] => f[t] = g[t]
        PROVE  G[<<ps, f>>] = G[<<ps, g>>]
    <3>1. ps # <<>> => f[Front(ps)] = g[Front(ps)]
      BY <1>1, <2>1
    <3>2. ConfBody(f, ps) = ConfBody(g, ps)
      BY <3>1 DEF ConfBody
    <3>3. G[<<ps, f>>] = ConfBody(f, ps) /\ G[<<ps, g>>] = ConfBody(g, ps)
      <4> HIDE DEF V
      <4>1. QED
        OBVIOUS
    <3>4. QED
      BY <3>2, <3>3
  <2> HIDE DEF V, G, size
  <2>2. QED
    BY <2>1 DEF Founded
<1>5. PICK f \in [Streams -> V] : \A ps \in Streams : f[ps] = ConfBody(f, ps)
  <2>1. [c \in Confs |-> c] \in V
    OBVIOUS
  <2>2. PICK f \in [Streams -> V] : Recursive(f, Streams, G)
    <3> HIDE DEF V, size, G
    <3>1. QED
      BY <1>3, <1>4, <2>1, RecursionExists
  <2>3. \A ps \in Streams : G[<<ps, f>>] = ConfBody(f, ps)
    <3> HIDE DEF V
    <3>1. QED
      OBVIOUS
  <2> HIDE DEF V, G
  <2>4. QED
    BY <2>2, <2>3 DEF Recursive
<1>6. f = [ps \in Streams |-> ConfBody(f, ps)]
  BY <1>5
<1>7. ConfAfterAll = [ps \in Streams |-> ConfBody(ConfAfterAll, ps)]
  BY <1>6, Zenon DEF ConfAfterAll, Streams, ConfBody
<1>8. \A ps \in Streams : ConfAfterAll[ps] = ConfBody(ConfAfterAll, ps)
  BY <1>7, Zenon
<1>9. \A ps \in Streams : ConfAfterAll[ps] \in V
  <2> DEFINE T == {ps \in Streams : ConfAfterAll[ps] \in V}
  <2>1. ASSUME NEW ps \in Streams, \A t \in Streams : size[t] < size[ps] => t \in T
        PROVE  ps \in T
    <3>1. ps # <<>> => ConfAfterAll[Front(ps)] \in V
      BY <1>1, <2>1
    <3> HIDE DEF V
    <3>2. ConfAfterAll[ps] \in V
      BY <1>2, <1>8, <3>1
    <3>3. QED
      BY <3>2
  <2>2. Streams \subseteq T
    <3> HIDE DEF T, size, V
    <3>1. QED
      BY <1>3, <2>1, SizeInduction
  <2>3. QED
    BY <2>2
<1>10. ConfAfterAll \in [Streams -> V]
  <2> HIDE DEF V
  <2>1. QED
    BY <1>7, <1>9
<1>11. QED
  BY <1>8, <1>10

LEMMA AnswersType ==
    ASSUME NEW p, NEW c \in Confs
    PROVE  Answers(p, c) \in Seq(Answer)
<1>1. <<"fw", "mcconf">> \in Seq(Answer) /\ <<c>> \in Seq(Answer) /\ <<"app">> \in Seq(Answer)
      /\ <<>> \in Seq(Answer)
  BY DEF Answer
<1>2. QED
  BY <1>1 DEF Answers

\* The answers to the requests, by a function for all but the last.
AnswersBody(f, ps) ==
    [c \in Confs |->
        IF ps = <<>> THEN <<>>
        ELSE f[Front(ps)][c] \o Answers(Last(ps), ConfAfterAll[ps][c])]

\* The equation of AnswersToAll.
LEMMA AnswersUnfold ==
    /\ \A ps \in Streams : AnswersToAll[ps] \in [Confs -> Seq(Answer)]
    /\ \A ps \in Streams : AnswersToAll[ps] = AnswersBody(AnswersToAll, ps)
<1> DEFINE V == [Confs -> Seq(Answer)]
           size == [ps \in Streams |-> Len(ps)]
           G == [x \in Streams \X [Streams -> V] |-> AnswersBody(x[2], x[1])]
<1>1. ASSUME NEW ps \in Streams, ps # <<>>
      PROVE  Front(ps) \in Streams /\ Len(Front(ps)) < Len(ps)
  BY <1>1, FrontIsShorter DEF Streams
<1>2. ASSUME NEW ps \in Streams, NEW f, ps # <<>> => f[Front(ps)] \in V
      PROVE  AnswersBody(f, ps) \in V
  <2>1. ASSUME NEW c \in Confs, ps # <<>>
        PROVE  f[Front(ps)][c] \o Answers(Last(ps), ConfAfterAll[ps][c]) \in Seq(Answer)
    <3>1. f[Front(ps)][c] \in Seq(Answer)
      BY <1>2, <2>1
    <3>2. ConfAfterAll[ps][c] \in Confs
      BY ConfUnfolds
    <3>3. Answers(Last(ps), ConfAfterAll[ps][c]) \in Seq(Answer)
      BY <3>2, AnswersType
    <3>4. QED
      BY <3>1, <3>3, ConcatProperties
  <2>2. <<>> \in Seq(Answer)
    OBVIOUS
  <2>3. QED
    BY <2>1, <2>2 DEF AnswersBody
<1>3. size \in [Streams -> Nat] /\ G \in [Streams \X [Streams -> V] -> V]
  <2>1. \A ps \in Streams : Len(ps) \in Nat
    BY DEF Streams
  <2>2. \A x \in Streams \X [Streams -> V] : AnswersBody(x[2], x[1]) \in V
    <3> HIDE DEF V
    <3>1. QED
      BY <1>1, <1>2
  <2> HIDE DEF V
  <2>3. QED
    BY <2>1, <2>2
<1>4. Founded(Streams, V, size, G)
  <2>1. ASSUME NEW ps \in Streams, NEW f \in [Streams -> V], NEW g \in [Streams -> V],
               \A t \in Streams : size[t] < size[ps] => f[t] = g[t]
        PROVE  G[<<ps, f>>] = G[<<ps, g>>]
    <3>1. ps # <<>> => f[Front(ps)] = g[Front(ps)]
      BY <1>1, <2>1
    <3>2. AnswersBody(f, ps) = AnswersBody(g, ps)
      BY <3>1 DEF AnswersBody
    <3>3. G[<<ps, f>>] = AnswersBody(f, ps) /\ G[<<ps, g>>] = AnswersBody(g, ps)
      <4> HIDE DEF V
      <4>1. QED
        OBVIOUS
    <3>4. QED
      BY <3>2, <3>3
  <2> HIDE DEF V, G, size
  <2>2. QED
    BY <2>1 DEF Founded
<1>5. PICK f \in [Streams -> V] : \A ps \in Streams : f[ps] = AnswersBody(f, ps)
  <2>1. [c \in Confs |-> <<>>] \in V
    OBVIOUS
  <2>2. PICK f \in [Streams -> V] : Recursive(f, Streams, G)
    <3> HIDE DEF V, size, G
    <3>1. QED
      BY <1>3, <1>4, <2>1, RecursionExists
  <2>3. \A ps \in Streams : G[<<ps, f>>] = AnswersBody(f, ps)
    <3> HIDE DEF V
    <3>1. QED
      OBVIOUS
  <2> HIDE DEF V, G
  <2>4. QED
    BY <2>2, <2>3 DEF Recursive
<1>6. f = [ps \in Streams |-> AnswersBody(f, ps)]
  BY <1>5
<1>7. AnswersToAll = [ps \in Streams |-> AnswersBody(AnswersToAll, ps)]
  BY <1>6, Zenon DEF AnswersToAll, Streams, AnswersBody
<1>8. \A ps \in Streams : AnswersToAll[ps] = AnswersBody(AnswersToAll, ps)
  BY <1>7, Zenon
<1>9. \A ps \in Streams : AnswersToAll[ps] \in V
  <2> DEFINE T == {ps \in Streams : AnswersToAll[ps] \in V}
  <2>1. ASSUME NEW ps \in Streams, \A t \in Streams : size[t] < size[ps] => t \in T
        PROVE  ps \in T
    <3>1. ps # <<>> => AnswersToAll[Front(ps)] \in V
      BY <1>1, <2>1
    <3> HIDE DEF V
    <3>2. AnswersToAll[ps] \in V
      BY <1>2, <1>8, <3>1
    <3>3. QED
      BY <3>2
  <2>2. Streams \subseteq T
    <3> HIDE DEF T, size, V
    <3>1. QED
      BY <1>3, <2>1, SizeInduction
  <2>3. QED
    BY <2>2
<1>10. QED
  BY <1>8, <1>9

\* One request more.
LEMMA OneMore ==
    ASSUME NEW ps \in Streams, NEW p \in Seq(Bytes), NEW c \in Confs
    PROVE  /\ Append(ps, p) \in Streams
           /\ ConfAfterAll[ps][c] \in Confs /\ AnswersToAll[ps][c] \in Seq(Answer)
           /\ ConfAfterAll[Append(ps, p)][c] = ConfAfter(p, ConfAfterAll[ps][c])
           /\ AnswersToAll[Append(ps, p)][c] =
                 AnswersToAll[ps][c] \o Answers(p, ConfAfterAll[Append(ps, p)][c])
<1> DEFINE qs == Append(ps, p)
<1>1. qs \in Streams /\ qs # <<>> /\ Front(qs) = ps /\ Last(qs) = p
  BY FrontOfAppend DEF Streams
<1> HIDE DEF qs
<1>2. ConfAfterAll[ps][c] \in Confs /\ AnswersToAll[ps][c] \in Seq(Answer)
  <2>1. ConfAfterAll[ps] \in [Confs -> Confs] /\ AnswersToAll[ps] \in [Confs -> Seq(Answer)]
    BY ConfUnfolds, AnswersUnfold
  <2>2. QED
    BY <2>1
<1>3. ConfAfterAll[qs][c] = ConfAfter(p, ConfAfterAll[ps][c])
  BY <1>1, ConfUnfolds DEF ConfBody
<1>4. AnswersToAll[qs][c] = AnswersToAll[ps][c] \o Answers(p, ConfAfterAll[qs][c])
  BY <1>1, AnswersUnfold DEF AnswersBody
<1>5. QED
  BY <1>1, <1>2, <1>3, <1>4 DEF qs

\* No request, no answer.
LEMMA NoneYet ==
    ASSUME NEW c \in Confs
    PROVE  <<>> \in Streams /\ ConfAfterAll[<<>>][c] = c /\ AnswersToAll[<<>>][c] = <<>>
<1>1. <<>> \in Streams
  BY DEF Streams
<1>2. \A ps \in Streams : ps = <<>> => ConfAfterAll[ps][c] = c /\ AnswersToAll[ps][c] = <<>>
  BY ConfUnfolds, AnswersUnfold DEF ConfBody, AnswersBody
<1>3. QED
  BY <1>1, <1>2, Zenon

\* Answers only ever come after answers.
LEMMA AnswersGrow ==
    ASSUME NEW ps \in Streams, NEW c \in Confs
    PROVE  \A qs \in Streams : \E rest \in Seq(Answer) :
               AnswersToAll[ps \o qs][c] = AnswersToAll[ps][c] \o rest
<1> DEFINE size == [qs \in Streams |-> Len(qs)]
           T == {qs \in Streams : \E rest \in Seq(Answer) :
                    AnswersToAll[ps \o qs][c] = AnswersToAll[ps][c] \o rest}
<1>1. ASSUME NEW qs \in Streams, \A t \in Streams : size[t] < size[qs] => t \in T
      PROVE  qs \in T
  <2>1. CASE qs = <<>>
    <3>1. ps \o qs = ps
      BY <2>1, ConcatEmptySeq DEF Streams
    <3>2. <<>> \in Seq(Answer) /\ AnswersToAll[ps][c] \o <<>> = AnswersToAll[ps][c]
      <4>1. AnswersToAll[ps] \in [Confs -> Seq(Answer)]
        BY AnswersUnfold
      <4>2. AnswersToAll[ps][c] \in Seq(Answer)
        BY <4>1
      <4>3. QED
        BY <4>2, ConcatEmptySeq
    <3>3. QED
      BY <3>1, <3>2
  <2>2. CASE qs # <<>>
    <3> DEFINE fs == Front(qs)
               p == Last(qs)
    <3>1. fs \in Streams /\ Len(fs) < Len(qs) /\ p \in Seq(Bytes) /\ qs = Append(fs, p)
      BY <2>2, FrontIsShorter DEF Streams
    <3>2. fs \in T
      BY <1>1, <3>1
    <3> HIDE DEF fs, p
    <3>3. PICK rest \in Seq(Answer) : AnswersToAll[ps \o fs][c] = AnswersToAll[ps][c] \o rest
      BY <3>2
    <3>4. ps \o fs \in Streams /\ ps \o qs = Append(ps \o fs, p)
      <4>1. ps \o fs \in Streams
        BY <3>1, ConcatProperties DEF Streams
      <4>2. qs = fs \o <<p>> /\ <<p>> \in Streams
        BY <3>1, AppendIsConcat DEF Streams
      <4>3. Append(ps \o fs, p) = (ps \o fs) \o <<p>>
        BY <3>1, <4>1, AppendIsConcat DEF Streams
      <4>4. (ps \o fs) \o <<p>> = ps \o (fs \o <<p>>)
        BY <3>1, <4>2, ConcatAssociative DEF Streams
      <4>5. QED
        BY <4>1, <4>2, <4>3, <4>4
    <3> DEFINE more == Answers(p, ConfAfterAll[Append(ps \o fs, p)][c])
    <3>5. AnswersToAll[ps \o qs][c] = AnswersToAll[ps \o fs][c] \o more
      <4>1. AnswersToAll[Append(ps \o fs, p)][c] = AnswersToAll[ps \o fs][c] \o more
        BY <3>1, <3>4, OneMore
      <4> HIDE DEF more
      <4>2. QED
        BY <3>4, <4>1
    <3>6. more \in Seq(Answer) /\ AnswersToAll[ps][c] \in Seq(Answer)
      <4>1. Append(ps \o fs, p) \in Streams
        BY <3>1, <3>4, OneMore
      <4>2. ConfAfterAll[Append(ps \o fs, p)] \in [Confs -> Confs]
        BY <4>1, ConfUnfolds
      <4>3. AnswersToAll[ps] \in [Confs -> Seq(Answer)]
        BY AnswersUnfold
      <4>4. QED
        BY <4>2, <4>3, AnswersType
    <3> HIDE DEF more
    <3> DEFINE a == AnswersToAll[ps][c]
    <3>7. (a \o rest) \o more = a \o (rest \o more)
      <4>1. a \in Seq(Answer) /\ rest \in Seq(Answer) /\ more \in Seq(Answer)
        BY <3>3, <3>6
      <4> HIDE DEF a
      <4>2. QED
        BY <4>1, ConcatAssociative
    <3>8. rest \o more \in Seq(Answer)
      BY <3>6, ConcatProperties
    <3>9. QED
      BY <3>3, <3>5, <3>7, <3>8
  <2>3. QED
    BY <2>1, <2>2
<1>2. size \in [Streams -> Nat]
  BY DEF Streams
<1>3. Streams \subseteq T
  <2> HIDE DEF T, size
  <2>1. QED
    BY <1>1, <1>2, SizeInduction
<1>4. QED
  BY <1>3

-----------------------------------------------------------------------------
(* The handler.                                                            *)

\* The handler's steps still to come, in each of the requests.
Plans ==
    {<<>>, <<"send_fw", "send_mcconf">>, <<"send_mcconf">>,
     <<"set", "read", "send_conf">>, <<"read", "send_conf">>, <<"send_conf">>,
     <<"lock", "send_app", "unlock">>, <<"send_app", "unlock">>, <<"unlock">>}

\* The configuration when a request is done of which the steps t are left, and what
\* these will still have answered.
DoneConf(t, x, c) == IF t = <<"set", "read", "send_conf">> /\ x \in Confs THEN x ELSE c

StillToAnswer(t, x, c) ==
    CASE t = <<"send_fw", "send_mcconf">>     -> <<"fw", "mcconf">>
      [] t = <<"send_mcconf">>                -> <<"mcconf">>
      [] t = <<"set", "read", "send_conf">>   -> <<DoneConf(t, x, c)>>
      [] t = <<"read", "send_conf">>          -> <<c>>
      [] t = <<"send_conf">>                  -> <<x>>
      [] t = <<"lock", "send_app", "unlock">> -> <<"app">>
      [] t = <<"send_app", "unlock">>         -> <<"app">>
      [] OTHER                                -> <<>>

ConfDue == DoneConf(todo, scratch, conf)
Owed    == StillToAnswer(todo, scratch, conf)

Due      == AnswersToAll[handled][before]
Sofar(g) == \E rest \in Seq(Answer) : g \o rest = Due

AnswersInv ==
    /\ conf \in Confs /\ before \in Confs /\ got \in Seq(Answer)
    /\ handled \in Streams
    /\ todo \in Plans /\ (todo = <<"send_conf">> => scratch \in Confs)
    /\ net # "work" => todo = <<>>
    /\ net \in {"top", "accept", "ended", "stopped"} => ~fd
    /\ ConfDue = ConfAfterAll[handled][before]
    /\ fd /\ client = "open" => got \o Owed = Due
    /\ Sofar(got)

\* What is left to do and to answer, read from the step that comes next.
LEMMA NextStep ==
    ASSUME NEW t \in Plans, t # <<>>, NEW x, NEW c
    PROVE  /\ Head(t) = "send_fw" =>
                Tail(t) = <<"send_mcconf">> /\ StillToAnswer(t, x, c) = <<"fw", "mcconf">>
           /\ Head(t) = "send_mcconf" =>
                Tail(t) = <<>> /\ StillToAnswer(t, x, c) = <<"mcconf">>
           /\ Head(t) = "set" =>
                /\ Tail(t) = <<"read", "send_conf">>
                /\ DoneConf(t, x, c) = (IF x \in Confs THEN x ELSE c)
                /\ StillToAnswer(t, x, c) = <<DoneConf(t, x, c)>>
           /\ Head(t) = "read" =>
                Tail(t) = <<"send_conf">> /\ StillToAnswer(t, x, c) = <<c>>
           /\ Head(t) = "send_conf" =>
                t = <<"send_conf">> /\ Tail(t) = <<>> /\ StillToAnswer(t, x, c) = <<x>>
           /\ Head(t) = "lock" =>
                Tail(t) = <<"send_app", "unlock">> /\ StillToAnswer(t, x, c) = <<"app">>
           /\ Head(t) = "send_app" =>
                Tail(t) = <<"unlock">> /\ StillToAnswer(t, x, c) = <<"app">>
           /\ Head(t) = "unlock" => Tail(t) = <<>> /\ StillToAnswer(t, x, c) = <<>>
           /\ Head(t) # "set" => DoneConf(t, x, c) = c
<1> USE DEF StillToAnswer
<1>1. CASE t = <<"send_fw", "send_mcconf">>
  BY <1>1 DEF DoneConf
<1>2. CASE t = <<"send_mcconf">>
  BY <1>2 DEF DoneConf
<1>3. CASE t = <<"set", "read", "send_conf">>
  BY <1>3 DEF DoneConf
<1>4. CASE t = <<"read", "send_conf">>
  BY <1>4 DEF DoneConf
<1>5. CASE t = <<"send_conf">>
  BY <1>5 DEF DoneConf
<1>6. CASE t = <<"lock", "send_app", "unlock">>
  BY <1>6 DEF DoneConf
<1>7. CASE t = <<"send_app", "unlock">>
  BY <1>7 DEF DoneConf
<1>8. CASE t = <<"unlock">>
  BY <1>8 DEF DoneConf
<1>9. QED
  BY <1>1, <1>2, <1>3, <1>4, <1>5, <1>6, <1>7, <1>8 DEF Plans

\* The same of the plans that are left by a step, written out.
LEMMA LastSteps ==
    ASSUME NEW x, NEW c
    PROVE  /\ StillToAnswer(<<"send_mcconf">>, x, c) = <<"mcconf">>
           /\ StillToAnswer(<<"send_app", "unlock">>, x, c) = <<"app">>
           /\ StillToAnswer(<<"unlock">>, x, c) = <<>>
           /\ DoneConf(<<"send_mcconf">>, x, c) = c
           /\ DoneConf(<<"send_app", "unlock">>, x, c) = c
           /\ DoneConf(<<"unlock">>, x, c) = c
<1>1. /\ Head(<<"send_mcconf">>) = "send_mcconf" /\ Head(<<"send_app", "unlock">>) = "send_app"
      /\ Head(<<"unlock">>) = "unlock"
      /\ <<"send_mcconf">> \in Plans /\ <<"send_app", "unlock">> \in Plans /\ <<"unlock">> \in Plans
      /\ <<"send_mcconf">> # <<>> /\ <<"send_app", "unlock">> # <<>> /\ <<"unlock">> # <<>>
  BY DEF Plans
<1>2. QED
  BY <1>1, NextStep

\* One answer, and those after it.
LEMMA OneAnswer ==
    ASSUME NEW S, NEW a \in S
    PROVE  /\ \A b \in S : <<a, b>> = <<a>> \o <<b>>
           /\ <<a>> = <<a>> \o <<>>
           /\ \A g \in Seq(S), o \in Seq(S) : g \o (<<a>> \o o) = Append(g, a) \o o
<1>1. <<a>> \in Seq(S)
  OBVIOUS
<1>2. \A b \in S : <<a, b>> = <<a>> \o <<b>>
  <2>1. ASSUME NEW b \in S
        PROVE  <<a, b>> = <<a>> \o <<b>>
    <3>1. Append(<<a>>, b) = <<a>> \o <<b>>
      BY <1>1, AppendIsConcat
    <3>2. Append(<<a>>, b) = <<a, b>>
      <4> DEFINE t == Append(<<a>>, b)
                 u == <<a, b>>
      <4>1. t \in Seq(S) /\ Len(t) = 2 /\ t[2] = b /\ t[1] = a
        BY <1>1, AppendProperties
      <4>2. u \in Seq(S) /\ Len(u) = 2 /\ u[1] = a /\ u[2] = b
        OBVIOUS
      <4> HIDE DEF t, u
      <4>3. \A i \in 1 .. Len(t) : t[i] = u[i]
        BY <4>1, <4>2
      <4>4. t = u
        BY <4>1, <4>2, <4>3, SeqEqual
      <4>5. QED
        BY <4>4 DEF t, u
    <3>3. QED
      BY <3>1, <3>2
  <2>2. QED
    BY <2>1
<1>3. <<a>> = <<a>> \o <<>>
  BY <1>1, ConcatEmptySeq
<1>4. ASSUME NEW g \in Seq(S), NEW o \in Seq(S)
      PROVE  g \o (<<a>> \o o) = Append(g, a) \o o
  BY <1>1, AppendIsConcat, ConcatAssociative
<1>5. QED
  BY <1>2, <1>3, <1>4

Idle == {"top", "accept", "ended", "stopped"}

\* The step of everything that neither works nor answers.
LEMMA ElsewhereKeepsAnswers ==
    ASSUME AnswersInv, UNCHANGED <<todo, scratch, conf, got, handled, before>>,
           net' # "work" => todo = <<>>,
           net' \in Idle => ~fd',
           fd' /\ client' = "open" => fd /\ client = "open"
    PROVE  AnswersInv'
<1>1. Owed' = Owed /\ ConfDue' = ConfDue /\ Due' = Due
  BY DEF Owed, ConfDue, Due
<1>2. Sofar(got)'
  BY <1>1 DEF AnswersInv, Sofar
<1>3. fd' /\ client' = "open" => got' \o Owed' = Due'
  BY <1>1 DEF AnswersInv
<1> HIDE DEF Owed, ConfDue, Due, Sofar
<1>4. QED
  BY <1>1, <1>2, <1>3 DEF AnswersInv, Idle

\* A session begins with nothing answered and nothing owed.
LEMMA AcceptKeepsAnswers ==
    ASSUME AnswersInv, Accept
    PROVE  AnswersInv'
<1>1. /\ conf \in Confs /\ todo = <<>>
      /\ got' = <<>> /\ handled' = <<>> /\ before' = conf /\ net' = "loop"
      /\ todo' = <<>> /\ scratch' = scratch /\ conf' = conf
  BY DEF AnswersInv, Accept, Goes, workVars
<1>2. ConfDue' = conf /\ Owed' = <<>>
  BY <1>1 DEF ConfDue, Owed, DoneConf, StillToAnswer
<1>3. <<>> \in Streams /\ ConfAfterAll[<<>>][conf] = conf /\ AnswersToAll[<<>>][conf] = <<>>
  BY <1>1, NoneYet
<1>4. Due' = <<>>
  BY <1>1, <1>3 DEF Due
<1>5. <<>> \in Seq(Answer) /\ <<>> \o <<>> = <<>>
  BY ConcatEmptySeq
<1>6. Sofar(got)'
  BY <1>1, <1>4, <1>5 DEF Sofar
<1>7. got' \in Seq(Answer) /\ todo' \in Plans
  BY <1>1, <1>5 DEF Plans
<1>8. todo' # <<"send_conf">>
  BY <1>1
<1>9. got' \o Owed' = Due'
  BY <1>1, <1>2, <1>4, <1>5
<1>10. ConfDue' = ConfAfterAll[handled'][before']
  BY <1>1, <1>2, <1>3
<1>11. QED
  BY <1>1, <1>3, <1>6, <1>7, <1>8, <1>9, <1>10 DEF AnswersInv

\* What a request has the thread do is what was promised for it.
LEMMA PlanKeepsPromise ==
    ASSUME NEW p \in Seq(Bytes), NEW c \in Confs, NEW x, x = IF Len(p) > 1 THEN p[2] ELSE 0
    PROVE  /\ DoneConf(Plan(p), x, c) = ConfAfter(p, c)
           /\ StillToAnswer(Plan(p), x, c) = Answers(p, DoneConf(Plan(p), x, c))
           /\ Plan(p) \in Plans /\ Plan(p) # <<"send_conf">>
<1> USE DEF FW_VERSION, SET_CUSTOM_CONFIG, CUSTOM_APP_DATA, GET_CUSTOM_CONFIG
<1>1. CASE p[1] = FW_VERSION
  <2>1. /\ Plan(p) = <<"send_fw", "send_mcconf">> /\ ConfAfter(p, c) = c
        /\ \A d : Answers(p, d) = <<"fw", "mcconf">>
    BY <1>1 DEF Plan, ConfAfter, Answers
  <2>2. QED
    BY <2>1 DEF DoneConf, StillToAnswer, Plans
<1>2. CASE p[1] = SET_CUSTOM_CONFIG /\ Len(p) > 1
  <2>1. /\ Plan(p) = <<"set", "read", "send_conf">>
        /\ ConfAfter(p, c) = IF x \in Confs THEN x ELSE c
        /\ \A d : Answers(p, d) = <<d>>
    BY <1>2 DEF Plan, ConfAfter, Answers
  <2>2. DoneConf(Plan(p), x, c) = ConfAfter(p, c)
    BY <2>1 DEF DoneConf
  <2>3. QED
    BY <2>1, <2>2 DEF StillToAnswer, Plans
<1>3. CASE p[1] = CUSTOM_APP_DATA
  <2>1. /\ Plan(p) = <<"lock", "send_app", "unlock">> /\ ConfAfter(p, c) = c
        /\ \A d : Answers(p, d) = <<"app">>
    BY <1>3 DEF Plan, ConfAfter, Answers
  <2>2. QED
    BY <2>1 DEF DoneConf, StillToAnswer, Plans
<1>4. CASE p[1] = GET_CUSTOM_CONFIG /\ Len(p) > 1 /\ p[2] = 0
  <2>1. /\ Plan(p) = <<"read", "send_conf">> /\ ConfAfter(p, c) = c
        /\ \A d : Answers(p, d) = <<d>>
    BY <1>4 DEF Plan, ConfAfter, Answers
  <2>2. QED
    BY <2>1 DEF DoneConf, StillToAnswer, Plans
<1>5. CASE /\ p[1] # FW_VERSION /\ ~(p[1] = SET_CUSTOM_CONFIG /\ Len(p) > 1)
           /\ p[1] # CUSTOM_APP_DATA
           /\ ~(p[1] = GET_CUSTOM_CONFIG /\ Len(p) > 1 /\ p[2] = 0)
  <2>1. Plan(p) = <<>> /\ ConfAfter(p, c) = c /\ \A d : Answers(p, d) = <<>>
    <3> HIDE DEF FW_VERSION, SET_CUSTOM_CONFIG, CUSTOM_APP_DATA, GET_CUSTOM_CONFIG
    <3>1. QED
      BY <1>5 DEF Plan, ConfAfter, Answers
  <2>2. QED
    BY <2>1 DEF DoneConf, StillToAnswer, Plans
<1>6. QED
  BY <1>1, <1>2, <1>3, <1>4, <1>5

\* A request taken up is owed its answers.
LEMMA FrameKeepsAnswers ==
    ASSUME AnswersInv, DecodeFrame, Payload(Unread) \in Seq(Bytes)
    PROVE  AnswersInv'
<1> DEFINE p == Payload(Unread)
<1>1. /\ todo' = Plan(p) /\ scratch' = (IF Len(p) > 1 THEN p[2] ELSE 0)
      /\ handled' = Append(handled, p) /\ net = "decode" /\ net' = "work"
      /\ UNCHANGED <<fd, client, conf, got, before>>
  BY DEF DecodeFrame, Goes, peerVars
<1> HIDE DEF p
<1>2. /\ conf \in Confs /\ before \in Confs /\ handled \in Streams /\ p \in Seq(Bytes)
      /\ todo = <<>> /\ ConfDue = ConfAfterAll[handled][before] /\ got \in Seq(Answer)
      /\ Due \in Seq(Answer)
  <2>1. conf \in Confs /\ before \in Confs /\ handled \in Streams /\ p \in Seq(Bytes)
        /\ ConfDue = ConfAfterAll[handled][before] /\ got \in Seq(Answer)
    BY DEF AnswersInv, p
  <2>2. todo = <<>>
    BY <1>1 DEF AnswersInv
  <2>3. Due \in Seq(Answer)
    BY <2>1, OneMore DEF Due
  <2>4. QED
    BY <2>1, <2>2, <2>3
<1>3. ConfDue = conf /\ Owed = <<>>
  BY <1>2 DEF ConfDue, Owed, DoneConf, StillToAnswer
<1>4. /\ ConfDue' = ConfAfter(p, conf) /\ Owed' = Answers(p, ConfDue')
      /\ todo' \in Plans /\ todo' # <<"send_conf">>
  BY <1>1, <1>2, PlanKeepsPromise DEF ConfDue, Owed
<1>5. /\ handled' \in Streams
      /\ ConfAfterAll[handled'][before] = ConfAfter(p, conf)
      /\ Due' = Due \o Answers(p, ConfAfter(p, conf))
  <2>1. handled' \in Streams
    BY <1>1, <1>2, OneMore
  <2>2. ConfAfterAll[handled'][before] = ConfAfter(p, conf)
    <3>1. ConfAfterAll[Append(handled, p)][before] = ConfAfter(p, ConfAfterAll[handled][before])
      BY <1>2, OneMore
    <3>2. ConfAfterAll[handled][before] = conf
      BY <1>2, <1>3
    <3>3. QED
      BY <1>1, <3>1, <3>2
  <2>3. AnswersToAll[handled'][before] = Due \o Answers(p, ConfAfterAll[handled'][before])
    BY <1>1, <1>2, OneMore DEF Due
  <2>4. QED
    BY <1>1, <2>1, <2>2, <2>3 DEF Due
<1>6. Due' = Due \o Owed' /\ ConfDue' = ConfAfterAll[handled'][before']
  BY <1>1, <1>4, <1>5
<1>7. Owed' \in Seq(Answer)
  <2>1. ConfAfter(p, conf) \in Confs
    BY <1>2, ConfAfterType
  <2>2. QED
    BY <1>4, <2>1, AnswersType
<1>8. fd' /\ client' = "open" => got' \o Owed' = Due'
  <2>1. fd /\ client = "open" => got = Due
    <3>1. fd /\ client = "open" => got \o <<>> = Due
      BY <1>3 DEF AnswersInv
    <3>2. got \o <<>> = got
      BY <1>2, ConcatEmptySeq
    <3>3. QED
      BY <3>1, <3>2
  <2>2. QED
    BY <1>1, <1>6, <2>1
<1>9. Sofar(got)'
  <2>1. PICK rest \in Seq(Answer) : got \o rest = Due
    BY DEF AnswersInv, Sofar
  <2>2. got \o (rest \o Owed') = (got \o rest) \o Owed' /\ rest \o Owed' \in Seq(Answer)
    <3> DEFINE o == Owed'
    <3>1. o \in Seq(Answer)
      BY <1>7
    <3> HIDE DEF o
    <3>2. got \o (rest \o o) = (got \o rest) \o o /\ rest \o o \in Seq(Answer)
      BY <1>2, <3>1, ConcatAssociative, ConcatProperties
    <3>3. QED
      BY <3>2 DEF o
  <2>3. QED
    BY <1>1, <1>6, <2>1, <2>2 DEF Sofar
<1>10. QED
  BY <1>1, <1>2, <1>4, <1>5, <1>6, <1>8, <1>9 DEF AnswersInv

\* A step of the handler that answers nothing.
LEMMA SilentKeepsAnswers ==
    ASSUME AnswersInv, net = "work", UNCHANGED <<fd, client, got, handled, before>>,
           net' = "work", conf' \in Confs, todo' \in Plans,
           todo' = <<"send_conf">> => scratch' \in Confs,
           ConfDue' = ConfDue, Owed' = Owed
    PROVE  AnswersInv'
<1>1. Due' = Due
  BY DEF Due
<1>2. Sofar(got)'
  BY <1>1 DEF AnswersInv, Sofar
<1>3. fd' /\ client' = "open" => got' \o Owed' = Due'
  BY <1>1 DEF AnswersInv
<1> HIDE DEF Owed, ConfDue, Due, Sofar
<1>4. QED
  BY <1>1, <1>2, <1>3 DEF AnswersInv

LEMMA SetConfKeepsAnswers ==
    ASSUME AnswersInv, SetConf
    PROVE  AnswersInv'
<1>1. /\ todo \in Plans /\ todo # <<>> /\ Head(todo) = "set" /\ todo' = Tail(todo)
      /\ net = "work" /\ net' = "work" /\ conf \in Confs /\ scratch' = scratch
      /\ conf' = (IF scratch \in Confs THEN scratch ELSE conf)
      /\ UNCHANGED <<fd, client, got, handled, before>>
  BY DEF AnswersInv, SetConf, Does, peerVars, sessionVars
<1>2. /\ todo' = <<"read", "send_conf">> /\ ConfDue = conf' /\ Owed = <<conf'>>
  BY <1>1, NextStep DEF ConfDue, Owed
<1>3. /\ todo' \in Plans /\ todo' # <<>> /\ Head(todo') = "read" /\ todo' # <<"send_conf">>
  BY <1>2 DEF Plans
<1>4. Owed' = <<conf'>> /\ ConfDue' = conf'
  BY <1>3, NextStep DEF ConfDue, Owed
<1>5. QED
  BY <1>1, <1>2, <1>3, <1>4, SilentKeepsAnswers

LEMMA ReadConfKeepsAnswers ==
    ASSUME AnswersInv, ReadConf
    PROVE  AnswersInv'
<1>1. /\ todo \in Plans /\ todo # <<>> /\ Head(todo) = "read" /\ todo' = Tail(todo)
      /\ net = "work" /\ net' = "work" /\ conf \in Confs /\ scratch' = conf /\ conf' = conf
      /\ UNCHANGED <<fd, client, got, handled, before>>
  BY DEF AnswersInv, ReadConf, Does, peerVars, sessionVars
<1>2. /\ todo' = <<"send_conf">> /\ ConfDue = conf /\ Owed = <<conf>>
  BY <1>1, NextStep DEF ConfDue, Owed
<1>3. /\ todo' \in Plans /\ todo' # <<>> /\ Head(todo') = "send_conf"
  BY <1>2 DEF Plans
<1>4. Owed' = <<conf>> /\ ConfDue' = conf
  BY <1>1, <1>3, NextStep DEF ConfDue, Owed
<1>5. QED
  BY <1>1, <1>2, <1>3, <1>4, SilentKeepsAnswers

LEMMA AppLockKeepsAnswers ==
    ASSUME AnswersInv, AppLock
    PROVE  AnswersInv'
<1>1. /\ todo \in Plans /\ todo # <<>> /\ Head(todo) = "lock" /\ todo' = Tail(todo)
      /\ net = "work" /\ net' = "work" /\ conf \in Confs /\ conf' = conf
      /\ scratch' = scratch
      /\ UNCHANGED <<fd, client, got, handled, before>>
  BY DEF AnswersInv, AppLock, Does, peerVars, sessionVars
<1>2. /\ todo' = <<"send_app", "unlock">> /\ ConfDue = conf /\ Owed = <<"app">>
  BY <1>1, NextStep DEF ConfDue, Owed
<1>3. /\ todo' \in Plans /\ todo' # <<>> /\ Head(todo') = "send_app" /\ todo' # <<"send_conf">>
  BY <1>2 DEF Plans
<1>4. Owed' = <<"app">> /\ ConfDue' = conf
  <2>1. /\ Owed' = StillToAnswer(<<"send_app", "unlock">>, scratch, conf)
        /\ ConfDue' = DoneConf(<<"send_app", "unlock">>, scratch, conf)
    BY <1>1, <1>2 DEF ConfDue, Owed
  <2>2. QED
    BY <2>1, LastSteps
<1>5. QED
  BY <1>1, <1>2, <1>3, <1>4, SilentKeepsAnswers

LEMMA AppUnlockKeepsAnswers ==
    ASSUME AnswersInv, AppUnlock
    PROVE  AnswersInv'
<1>1. /\ todo \in Plans /\ todo # <<>> /\ Head(todo) = "unlock" /\ todo' = Tail(todo)
      /\ net = "work" /\ net' = "work" /\ conf \in Confs /\ conf' = conf
      /\ scratch' = scratch
      /\ UNCHANGED <<fd, client, got, handled, before>>
  BY DEF AnswersInv, AppUnlock, Does, peerVars, sessionVars
<1>2. todo' = <<>> /\ ConfDue = conf /\ Owed = <<>>
  BY <1>1, NextStep DEF ConfDue, Owed
<1>3. todo' \in Plans /\ todo' # <<"send_conf">>
  BY <1>2 DEF Plans
<1>4. Owed' = <<>> /\ ConfDue' = conf
  BY <1>1, <1>2 DEF ConfDue, Owed, DoneConf, StillToAnswer
<1>5. QED
  BY <1>1, <1>2, <1>3, <1>4, SilentKeepsAnswers

\* A step that answers: what was owed is the answer and what is still owed.
LEMMA SendsKeepsAnswers ==
    ASSUME AnswersInv, NEW step, NEW answer \in Answer, Sends(step, answer),
           todo' \in Plans, todo' # <<"send_conf">>, Owed' \in Seq(Answer),
           Owed = <<answer>> \o Owed', ConfDue' = ConfDue
    PROVE  AnswersInv'
<1>1. /\ got \in Seq(Answer) /\ conf \in Confs /\ net = "work" /\ net' = "work"
      /\ UNCHANGED <<client, conf, handled, before>>
  BY DEF AnswersInv, Sends, Does, peerVars
<1>2. Due' = Due
  BY <1>1 DEF Due
<1>3. Append(got, answer) \in Seq(Answer)
  BY <1>1, AppendProperties
<1>4. got \o Owed = Append(got, answer) \o Owed'
  <2> DEFINE o == Owed'
  <2>1. o \in Seq(Answer) /\ Owed = <<answer>> \o o
    OBVIOUS
  <2> HIDE DEF o
  <2>2. got \o (<<answer>> \o o) = Append(got, answer) \o o
    BY <1>1, <2>1, OneAnswer
  <2>3. QED
    BY <2>1, <2>2 DEF o
<1>5. /\ got' \in Seq(Answer) /\ Sofar(got)'
      /\ fd' /\ client' = "open" => got' \o Owed' = Due'
  <2>1. CASE fd /\ client = "open" /\ got' = Append(got, answer) /\ UNCHANGED fd
    <3>1. got \o Owed = Due
      BY <2>1 DEF AnswersInv
    <3>2. got' \o Owed' = Due'
      BY <1>2, <1>4, <2>1, <3>1
    <3>3. QED
      BY <1>3, <2>1, <3>2 DEF Sofar
  <2>2. CASE got' = got /\ ~(fd' /\ client' = "open")
    <3>1. Sofar(got)'
      BY <1>2, <2>2 DEF AnswersInv, Sofar
    <3>2. QED
      BY <1>1, <2>2, <3>1
  <2>3. QED
    BY <1>1, <2>1, <2>2 DEF Sends, TcpSend
<1> HIDE DEF Owed, ConfDue, Due, Sofar
<1>6. QED
  BY <1>1, <1>2, <1>5 DEF AnswersInv

LEMMA AnsweringKeepsAnswers ==
    ASSUME AnswersInv, AppSend \/ Reply \/ PushMcconf
    PROVE  AnswersInv'
<1>1. todo \in Plans /\ conf \in Confs /\ (todo = <<"send_conf">> => scratch \in Confs)
  BY DEF AnswersInv
<1>2. /\ "fw" \in Answer /\ "mcconf" \in Answer /\ "app" \in Answer
  BY DEF Answer
<1>3. /\ <<>> \in Seq(Answer) /\ <<"mcconf">> \in Seq(Answer)
      /\ <<>> \in Plans /\ <<"mcconf">> # <<>>
      /\ <<"send_mcconf">> \in Plans /\ <<"unlock">> \in Plans
  BY <1>2 DEF Plans
<1>4. CASE Sends("send_fw", "fw")
  <2>1. /\ todo # <<>> /\ Head(todo) = "send_fw" /\ todo' = Tail(todo)
        /\ scratch' = scratch /\ conf' = conf
    BY <1>4 DEF Sends, Does
  <2>2. todo' = <<"send_mcconf">> /\ Owed = <<"fw", "mcconf">> /\ ConfDue = conf
    BY <1>1, <2>1, NextStep DEF ConfDue, Owed
  <2>3. Owed' = <<"mcconf">> /\ ConfDue' = conf
    <3>1. /\ Owed' = StillToAnswer(<<"send_mcconf">>, scratch, conf)
          /\ ConfDue' = DoneConf(<<"send_mcconf">>, scratch, conf)
      BY <2>1, <2>2 DEF ConfDue, Owed
    <3>2. QED
      BY <3>1, LastSteps
  <2>4. Owed = <<"fw">> \o Owed'
    BY <1>2, <2>2, <2>3, OneAnswer
  <2>5. todo' # <<"send_conf">>
    BY <2>2
  <2>6. QED
    BY <1>2, <1>3, <1>4, <2>2, <2>3, <2>4, <2>5, SendsKeepsAnswers
<1>5. CASE Sends("send_conf", scratch)
  <2>1. /\ todo # <<>> /\ Head(todo) = "send_conf" /\ todo' = Tail(todo)
        /\ scratch' = scratch /\ conf' = conf
    BY <1>5 DEF Sends, Does
  <2>2. /\ todo = <<"send_conf">> /\ todo' = <<>> /\ Owed = <<scratch>> /\ ConfDue = conf
    BY <1>1, <2>1, NextStep DEF ConfDue, Owed
  <2>3. Owed' = <<>> /\ ConfDue' = conf
    BY <2>1, <2>2 DEF ConfDue, Owed, DoneConf, StillToAnswer
  <2>4. scratch \in Answer
    BY <1>1, <2>2 DEF Answer
  <2>5. Owed = <<scratch>> \o Owed'
    BY <2>2, <2>3, <2>4, OneAnswer
  <2>6. todo' # <<"send_conf">>
    BY <2>2
  <2>7. QED
    BY <1>3, <1>5, <2>2, <2>3, <2>4, <2>5, <2>6, SendsKeepsAnswers
<1>6. CASE PushMcconf
  <2>1. /\ todo # <<>> /\ Head(todo) = "send_mcconf" /\ todo' = Tail(todo)
        /\ scratch' = scratch /\ conf' = conf
    BY <1>6 DEF PushMcconf, Sends, Does
  <2>2. todo' = <<>> /\ Owed = <<"mcconf">> /\ ConfDue = conf
    BY <1>1, <2>1, NextStep DEF ConfDue, Owed
  <2>3. Owed' = <<>> /\ ConfDue' = conf
    BY <2>1, <2>2 DEF ConfDue, Owed, DoneConf, StillToAnswer
  <2>4. Owed = <<"mcconf">> \o Owed'
    BY <1>2, <2>2, <2>3, OneAnswer
  <2>5. todo' # <<"send_conf">>
    BY <2>2
  <2>6. QED
    BY <1>2, <1>3, <1>6, <2>2, <2>3, <2>4, <2>5, SendsKeepsAnswers DEF PushMcconf
<1>7. CASE AppSend
  <2>1. /\ todo # <<>> /\ Head(todo) = "send_app" /\ todo' = Tail(todo)
        /\ scratch' = scratch /\ conf' = conf
    BY <1>7 DEF AppSend, Sends, Does
  <2>2. todo' = <<"unlock">> /\ Owed = <<"app">> /\ ConfDue = conf
    BY <1>1, <2>1, NextStep DEF ConfDue, Owed
  <2>3. Owed' = <<>> /\ ConfDue' = conf
    BY <2>1, <2>2, LastSteps, Zenon DEF ConfDue, Owed
  <2>4. Owed = <<"app">> \o Owed'
    BY <1>2, <2>2, <2>3, OneAnswer
  <2>5. todo' # <<"send_conf">>
    BY <2>2
  <2>6. QED
    BY <1>2, <1>3, <1>7, <2>2, <2>3, <2>4, <2>5, SendsKeepsAnswers DEF AppSend
<1>8. QED
  BY <1>4, <1>5, <1>6, <1>7 DEF Reply

-----------------------------------------------------------------------------

LEMMA NextKeepsAnswers ==
    ASSUME AnswersInv, DecoderInv, [HostNext]_hostVars
    PROVE  AnswersInv'
<1> USE DEF decoderVars, peerVars, workVars, sessionVars
<1>1. ASSUME Top \/ Loop \/ RecvData \/ RecvEnds \/ Over \/ Stopped
      PROVE  AnswersInv'
  <2>1. UNCHANGED <<todo, scratch, conf, got, handled, before>>
    BY <1>1 DEF Top, Loop, RecvData, RecvEnds, Over, Stopped
  <2>2. net # "work"
    BY <1>1 DEF Top, Loop, RecvData, RecvEnds, Over, Stopped, Goes
  <2>3. fd' /\ client' = "open" => fd /\ client = "open"
    BY <1>1 DEF Top, Loop, RecvData, RecvEnds, Over, Stopped
  <2>4. net' \in Idle => ~fd'
    BY <1>1 DEF AnswersInv, Idle, Top, Loop, RecvData, RecvEnds, Over, Stopped, Goes
  <2>5. todo = <<>>
    BY <2>2 DEF AnswersInv
  <2>6. QED
    BY <2>1, <2>3, <2>4, <2>5, ElsewhereKeepsAnswers
<1>2. ASSUME Feed \/ Fed \/ DecodeWrong \/ DecodeWaits
      PROVE  AnswersInv'
  <2>1. /\ UNCHANGED <<todo, scratch, conf, got, handled, before, fd, client>>
        /\ net # "work" /\ net' \notin Idle
    BY <1>2 DEF Feed, Fed, DecodeWrong, DecodeWaits, Goes, Idle
  <2>2. todo = <<>>
    BY <2>1 DEF AnswersInv
  <2>3. QED
    BY <2>1, <2>2, ElsewhereKeepsAnswers
<1>3. ASSUME WorkDone
      PROVE  AnswersInv'
  BY <1>3, ElsewhereKeepsAnswers DEF WorkDone, Goes, Idle
<1>4. ASSUME DecodeFrame
      PROVE  AnswersInv'
  BY <1>4, FrameKeepsDecoder, FrameKeepsAnswers
<1>5. ASSUME SimStep \/ Sigint \/ Close \/ SendPiece
      PROVE  AnswersInv'
  <2>1. /\ UNCHANGED <<todo, scratch, conf, got, handled, before, net>>
        /\ fd' \in {fd, FALSE} /\ client' \in {client, "closed"}
    BY <1>5 DEF SimStep, SimLocks, SimTicks, SimSteps, Sigint, Close, SendPiece, ClientElsewhere
  <2>2. (net # "work" => todo = <<>>) /\ (net \in Idle => ~fd)
    BY DEF AnswersInv, Idle
  <2>3. fd' /\ client' = "open" => fd /\ client = "open"
    BY <2>1
  <2>4. net' \in Idle => ~fd'
    BY <2>1, <2>2
  <2>5. QED
    BY <2>1, <2>2, <2>3, <2>4, ElsewhereKeepsAnswers
<1>6. ASSUME Connect
      PROVE  AnswersInv'
  <2>1. UNCHANGED <<todo, scratch, conf, got, handled, before, net, fd>> /\ net \in Idle
    BY <1>6 DEF Connect, ClientElsewhere, Idle
  <2>2. todo = <<>> /\ ~fd
    BY <2>1 DEF AnswersInv, Idle
  <2>3. QED
    BY <2>1, <2>2, ElsewhereKeepsAnswers
<1>7. ASSUME UNCHANGED hostVars
      PROVE  AnswersInv'
  BY <1>7, ElsewhereKeepsAnswers DEF hostVars, AnswersInv, Idle
<1>8. QED
  BY <1>1, <1>2, <1>3, <1>4, <1>5, <1>6, <1>7, AcceptKeepsAnswers, SetConfKeepsAnswers,
     ReadConfKeepsAnswers, AppLockKeepsAnswers, AppUnlockKeepsAnswers, AnsweringKeepsAnswers
     DEF HostNext, NetStep

LEMMA InitHoldsAnswers == HostInit => AnswersInv
<1>1. ASSUME HostInit
      PROVE  AnswersInv
  <2>1. /\ conf = Loaded /\ before = Loaded /\ scratch = Loaded /\ Loaded \in Confs
        /\ net = "top" /\ ~fd /\ todo = <<>> /\ got = <<>> /\ handled = <<>>
    BY <1>1, HostAssumption DEF HostInit
  <2>2. /\ <<>> \in Streams /\ ConfAfterAll[<<>>][Loaded] = Loaded
        /\ AnswersToAll[<<>>][Loaded] = <<>>
    BY <2>1, NoneYet
  <2>3. Due = <<>> /\ ConfDue = Loaded
    BY <2>1, <2>2 DEF Due, ConfDue, DoneConf
  <2>4. <<>> \in Seq(Answer) /\ <<>> \o <<>> = <<>>
    BY ConcatEmptySeq
  <2>5. Sofar(got)
    BY <2>1, <2>3, <2>4 DEF Sofar
  <2>6. todo \in Plans /\ todo # <<"send_conf">>
    BY <2>1 DEF Plans
  <2>7. ConfDue = ConfAfterAll[handled][before]
    BY <2>1, <2>2, <2>3
  <2>8. handled \in Streams /\ got \in Seq(Answer)
    BY <2>1, <2>2, <2>4
  <2>9. QED
    BY <2>1, <2>5, <2>6, <2>7, <2>8 DEF AnswersInv
<1>2. QED
  BY <1>1

\* The invariant of the handler: what a client has and what it is still owed.
THEOREM AnswersInvHolds == HostSpec => []AnswersInv
<1>1. HostInit => AnswersInv
  BY InitHoldsAnswers
<1>2. AnswersInv /\ DecoderInv /\ [HostNext]_hostVars => AnswersInv'
  BY NextKeepsAnswers
<1>3. QED
  BY <1>1, <1>2, DecoderInvHolds, PTL DEF HostSpec

\* What more is added to is a prefix.
LEMMA ConcatPrefix ==
    ASSUME NEW S, NEW s \in Seq(S), NEW t \in Seq(S)
    PROVE  IsPrefix(s, s \o t)
<1> DEFINE u == s \o t
<1>1. /\ Len(s) \in Nat /\ Len(t) \in Nat /\ u \in Seq(S) /\ Len(u) = Len(s) + Len(t)
      /\ \A i \in 1 .. Len(s) : u[i] = s[i]
  BY ConcatProperties
<1> HIDE DEF u
<1>2. SubSeq(s, 1, Len(s)) = SubSeq(u, 1, Len(s))
  BY <1>1
<1>3. Len(s) <= Len(u)
  BY <1>1
<1>4. IsPrefix(s, u)
  BY <1>2, <1>3 DEF IsPrefix
<1>5. QED
  BY <1>4 DEF u

\* The two invariants together give the promise.
LEMMA InvariantsMatch ==
    ASSUME DecoderInv, AnswersInv
    PROVE  AnswersMatch
<1> DEFINE asked == Requests[fed]
<1>1. /\ before \in Confs /\ handled \in Streams /\ got \in Seq(Answer)
      /\ ConfDue = ConfAfterAll[handled][before]
  BY DEF AnswersInv
<1>2. asked = handled \o Requests[Unread] /\ Requests[Unread] \in Streams
  BY UnreadType, DecoderInvAgrees, RequestsType DEF Streams
<1>3. net = "recv" => asked = handled
  BY DecoderInvAgrees
<1> HIDE DEF asked
<1>4. PICK rest \in Seq(Answer) : AnswersToAll[asked][before] = Due \o rest
  BY <1>1, <1>2, AnswersGrow DEF Due
<1>5. PICK more \in Seq(Answer) : got \o more = Due
  BY DEF AnswersInv, Sofar
<1>6. AnswersToAll[asked][before] = got \o (more \o rest) /\ more \o rest \in Seq(Answer)
  <2>1. (got \o more) \o rest = got \o (more \o rest) /\ more \o rest \in Seq(Answer)
    BY <1>1, ConcatAssociative, ConcatProperties
  <2>2. QED
    BY <1>4, <1>5, <2>1
<1>7. IsPrefix(got, AnswersToAll[asked][before])
  BY <1>1, <1>6, ConcatPrefix
<1>8. ASSUME net = "recv"
      PROVE  /\ conf = ConfAfterAll[asked][before]
             /\ fd /\ client = "open" => got = AnswersToAll[asked][before]
  <2>1. todo = <<>>
    BY <1>8 DEF AnswersInv
  <2>2. ConfDue = conf /\ Owed = <<>>
    BY <2>1 DEF ConfDue, DoneConf, Owed, StillToAnswer
  <2>3. got \o <<>> = got
    BY <1>1, ConcatEmptySeq
  <2>4. fd /\ client = "open" => got = Due
    BY <2>2, <2>3 DEF AnswersInv
  <2>5. QED
    BY <1>1, <1>3, <1>8, <2>2, <2>4 DEF Due
<1>9. QED
  BY <1>7, <1>8 DEF AnswersMatch, asked

\* A client gets the answers to its own requests, in their order and each with the
\* configuration then in force, and when the thread is back at recv none is missing.
THEOREM AnswersMatchHolds == HostSpec => []AnswersMatch
<1>1. DecoderInv /\ AnswersInv => AnswersMatch
  BY InvariantsMatch
<1>2. QED
  BY <1>1, DecoderInvHolds, AnswersInvHolds, PTL
=============================================================================
