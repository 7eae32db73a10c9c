------------------------ MODULE ChunkedWorker_proofs ------------------------
(***************************************************************************)
(* The chunked worker loses no request, claims every step before it runs,  *)
(* admits best first, serves by the contract, and panics only when batches *)
(* are mixed.                                                              *)
(***************************************************************************)
EXTENDS ChunkedWorker, KvCacheStore_proofs, SequenceTheorems

-----------------------------------------------------------------------------
(* Queues without repetition. *)

Solvable(n, X, x0, step) ==
    \E g \in [0 .. n -> X] : g[0] = x0 /\ \A i \in 1 .. n : g[i] = step[i][g[i - 1]]

\* A recursion over 1 .. n whose every step stays in X has a solution.
LEMMA Iterates ==
    ASSUME NEW n \in Nat, NEW X, NEW x0 \in X, NEW step \in [1 .. n -> [X -> X]]
    PROVE  Solvable(n, X, x0, step)
<1> DEFINE Solves(k, g) == /\ g \in [0 .. k -> X] /\ g[0] = x0
                           /\ \A i \in 1 .. k : g[i] = step[i][g[i - 1]]
           G == { k \in Nat : k <= n => \E g : Solves(k, g) }
<1>1. 0 \in G
  <2> DEFINE g0 == [i \in 0 .. 0 |-> x0]
  <2>1. Solves(0, g0)
    OBVIOUS
  <2> HIDE DEF g0, Solves
  <2>. QED  BY <2>1
<1>2. ASSUME NEW k \in Nat, k \in G PROVE k + 1 \in G
  <2>1. CASE k + 1 <= n
    <3>1. PICK g : Solves(k, g)
      BY <1>2, <2>1
    <3> DEFINE h == [i \in 0 .. k + 1 |-> IF i = k + 1 THEN step[k + 1][g[k]] ELSE g[i]]
    <3>2. step[k + 1] \in [X -> X] /\ g[k] \in X
      BY <3>1, <2>1
    <3>3. h \in [0 .. k + 1 -> X] /\ h[0] = x0
      BY <3>1, <3>2
    <3>4. ASSUME NEW i \in 1 .. k + 1 PROVE h[i] = step[i][h[i - 1]]
      <4>1. h[i - 1] = g[i - 1]
        OBVIOUS
      <4>2. CASE i = k + 1
        BY <4>1, <4>2
      <4>3. CASE i # k + 1
        <5>1. i \in 1 .. k /\ h[i] = g[i]
          BY <4>3
        <5>. QED  BY <5>1, <4>1, <3>1
      <4>. QED  BY <4>2, <4>3
    <3>5. Solves(k + 1, h)
      <4> HIDE DEF h
      <4>. QED  BY <3>3, <3>4
    <3> HIDE DEF h, Solves
    <3>. QED  BY <3>5
  <2>. QED  BY <2>1
<1>3. n \in G
  <2> HIDE DEF G
  <2>. QED  BY <1>1, <1>2, NatSetInduction
<1>. QED  BY <1>3 DEF Solvable

\* The elements of a queue.
LEMMA MembersOf ==
    ASSUME NEW X, NEW s \in Seq(X)
    PROVE  Members(s) \subseteq X /\ IsFiniteSet(Members(s)) /\ (Members(s) = {} <=> s = << >>)
<1>1. IsFiniteSet(1 .. Len(s))
  BY FS_Interval
<1>2. IsFiniteSet({ s[i] : i \in 1 .. Len(s) })
  BY <1>1, FiniteImage
<1>3. Members(s) = {} <=> s = << >>
  <2>1. Len(s) = 0 <=> s = << >>
    OBVIOUS
  <2>2. CASE Len(s) = 0
    BY <2>1, <2>2 DEF Members
  <2>3. CASE Len(s) # 0
    <3>1. 1 \in 1 .. Len(s)
      BY <2>3
    <3>. QED  BY <3>1, <2>1, <2>3 DEF Members
  <2>. QED  BY <2>2, <2>3
<1>. QED  BY <1>2, <1>3 DEF Members

\* A member has one place.
LEMMA PositionOf ==
    ASSUME NEW s, NEW r \in Members(s)
    PROVE  /\ PositionIn(s, r) \in 1 .. Len(s) /\ s[PositionIn(s, r)] = r
           /\ Distinct(s) => \A i \in 1 .. Len(s) : s[i] = r => i = PositionIn(s, r)
<1>1. \E i \in 1 .. Len(s) : s[i] = r
  BY DEF Members
<1>2. PositionIn(s, r) \in 1 .. Len(s) /\ s[PositionIn(s, r)] = r
  BY <1>1 DEF PositionIn
<1>. QED  BY <1>2 DEF Distinct

LEMMA AppendedIs ==
    ASSUME NEW X, NEW s \in Seq(X), Distinct(s), NEW r \in X
    PROVE  /\ Append(s, r) \in Seq(X)
           /\ Members(Append(s, r)) = Members(s) \cup {r}
           /\ r \notin Members(s) => Distinct(Append(s, r))
<1> DEFINE t == Append(s, r)
<1>1. t \in Seq(X) /\ Len(t) = Len(s) + 1 /\ Len(s) \in Nat
  OBVIOUS
<1>2. \A i \in 1 .. Len(t) : t[i] = IF i = Len(s) + 1 THEN r ELSE s[i]
  OBVIOUS
<1>3. Members(t) = Members(s) \cup {r}
  <2> HIDE DEF t
  <2>. QED  BY <1>1, <1>2 DEF Members
<1>4. r \notin Members(s) => Distinct(t)
  <2> HIDE DEF t
  <2>. QED  BY <1>1, <1>2 DEF Members, Distinct
<1>. QED  BY <1>1, <1>3, <1>4

LEMMA JoinedIs ==
    ASSUME NEW X, NEW s \in Seq(X), NEW t \in Seq(X), Distinct(s), Distinct(t),
           Members(s) \cap Members(t) = {}
    PROVE  /\ s \o t \in Seq(X)
           /\ Members(s \o t) = Members(s) \cup Members(t)
           /\ Distinct(s \o t)
<1> DEFINE u == s \o t
<1>1. u \in Seq(X) /\ Len(u) = Len(s) + Len(t) /\ Len(s) \in Nat /\ Len(t) \in Nat
  OBVIOUS
<1>2. \A i \in 1 .. Len(u) : u[i] = IF i <= Len(s) THEN s[i] ELSE t[i - Len(s)]
  OBVIOUS
<1>3. Members(u) = Members(s) \cup Members(t)
  <2>1. ASSUME NEW x \in Members(t) PROVE x \in Members(u)
    <3>1. PICK i \in 1 .. Len(t) : t[i] = x
      BY DEF Members
    <3> DEFINE k == Len(s) + i
    <3>2. k \in 1 .. Len(u) /\ ~(k <= Len(s)) /\ k - Len(s) = i
      BY <1>1
    <3>3. u[k] = x
      <4> HIDE DEF u, k
      <4>. QED  BY <3>1, <3>2, <1>2
    <3> HIDE DEF k
    <3>. QED  BY <3>2, <3>3 DEF Members
  <2>2. ASSUME NEW x \in Members(s) PROVE x \in Members(u)
    <3>1. PICK i \in 1 .. Len(s) : s[i] = x
      BY DEF Members
    <3>2. i \in 1 .. Len(u) /\ u[i] = x
      <4> HIDE DEF u
      <4>. QED  BY <3>1, <1>1, <1>2
    <3>. QED  BY <3>2 DEF Members
  <2>3. ASSUME NEW x \in Members(u) PROVE x \in Members(s) \cup Members(t)
    <3>1. PICK i \in 1 .. Len(u) : u[i] = x
      BY DEF Members
    <3> HIDE DEF u
    <3>2. CASE i <= Len(s)
      BY <3>1, <3>2, <1>1, <1>2 DEF Members
    <3>3. CASE i > Len(s)
      <4>1. i - Len(s) \in 1 .. Len(t) /\ t[i - Len(s)] = x
        BY <3>1, <3>3, <1>1, <1>2
      <4>. QED  BY <4>1 DEF Members
    <3>. QED  BY <3>2, <3>3, <1>1
  <2>. QED  BY <2>1, <2>2, <2>3
<1>4. Distinct(u)
  <2>1. ASSUME NEW i \in 1 .. Len(u), NEW j \in 1 .. Len(u), u[i] = u[j] PROVE i = j
    <3> HIDE DEF u
    <3>1. CASE i <= Len(s) /\ j <= Len(s)
      BY <3>1, <2>1, <1>1, <1>2 DEF Distinct
    <3>2. CASE i > Len(s) /\ j > Len(s)
      <4>1. i - Len(s) \in 1 .. Len(t) /\ j - Len(s) \in 1 .. Len(t)
        BY <3>2, <1>1
      <4>2. t[i - Len(s)] = t[j - Len(s)]
        BY <3>2, <2>1, <1>1, <1>2
      <4>3. i - Len(s) = j - Len(s)
        BY <4>1, <4>2 DEF Distinct
      <4>. QED  BY <4>3, <1>1
    <3>3. CASE i <= Len(s) /\ j > Len(s)
      <4>1. i \in 1 .. Len(s) /\ j - Len(s) \in 1 .. Len(t) /\ s[i] = t[j - Len(s)]
        BY <3>3, <2>1, <1>1, <1>2
      <4>2. s[i] \in Members(s) /\ s[i] \in Members(t)
        BY <4>1 DEF Members
      <4>. QED  BY <4>2
    <3>4. CASE i > Len(s) /\ j <= Len(s)
      <4>1. j \in 1 .. Len(s) /\ i - Len(s) \in 1 .. Len(t) /\ s[j] = t[i - Len(s)]
        BY <3>4, <2>1, <1>1, <1>2
      <4>2. s[j] \in Members(s) /\ s[j] \in Members(t)
        BY <4>1 DEF Members
      <4>. QED  BY <4>2
    <3>. QED  BY <3>1, <3>2, <3>3, <3>4, <1>1
  <2>. QED  BY <2>1 DEF Distinct
<1>. QED  BY <1>1, <1>3, <1>4

LEMMA WithoutIs ==
    ASSUME NEW X, NEW s \in Seq(X), Distinct(s), NEW r \in Members(s)
    PROVE  /\ Without(s, r) \in Seq(X)
           /\ Members(Without(s, r)) = Members(s) \ {r}
           /\ Distinct(Without(s, r))
           /\ Len(Without(s, r)) = Len(s) - 1
<1> DEFINE p == PositionIn(s, r)
           t == Without(s, r)
<1>1. p \in 1 .. Len(s) /\ s[p] = r /\ \A i \in 1 .. Len(s) : s[i] = r => i = p
  BY PositionOf
<1>2. Len(s) \in Nat /\ Len(s) - 1 \in Nat
  BY <1>1
<1> HIDE DEF p
<1>3. t = [i \in 1 .. Len(s) - 1 |-> IF i < p THEN s[i] ELSE s[i + 1]]
  BY DEF Without, p
<1>4. \A i \in 1 .. Len(s) - 1 : (IF i < p THEN s[i] ELSE s[i + 1]) \in X
  BY <1>1, <1>2
<1>5. t \in [1 .. Len(s) - 1 -> X]
  BY <1>3, <1>4
<1>6. t \in Seq(X) /\ Len(t) = Len(s) - 1
  BY <1>5, <1>2, IsASeq
<1> HIDE DEF t
<1>7. \A i \in 1 .. Len(t) : t[i] = s[IF i < p THEN i ELSE i + 1]
  BY <1>3, <1>6
<1>8. ASSUME NEW x \in Members(s) \ {r} PROVE x \in Members(t)
  <2>1. PICK i \in 1 .. Len(s) : s[i] = x
    BY DEF Members
  <2>2. i # p
    BY <2>1, <1>1
  <2>3. CASE i < p
    <3>1. i \in 1 .. Len(t) /\ t[i] = x
      BY <2>3, <2>1, <1>1, <1>6, <1>7, <1>2
    <3>. QED  BY <3>1 DEF Members
  <2>4. CASE i > p
    <3>1. i - 1 \in 1 .. Len(t) /\ ~(i - 1 < p) /\ (i - 1) + 1 = i
      BY <2>4, <1>1, <1>6, <1>2
    <3>2. t[i - 1] = x
      BY <3>1, <1>7, <2>1
    <3>. QED  BY <3>1, <3>2 DEF Members
  <2>. QED  BY <2>2, <2>3, <2>4, <1>1, <1>2
<1>9. ASSUME NEW x \in Members(t) PROVE x \in Members(s) \ {r}
  <2>1. PICK i \in 1 .. Len(t) : t[i] = x
    BY DEF Members
  <2>2. (IF i < p THEN i ELSE i + 1) \in 1 .. Len(s) /\ (IF i < p THEN i ELSE i + 1) # p
    BY <1>1, <1>2, <1>6
  <2>3. s[IF i < p THEN i ELSE i + 1] = x
    BY <2>1, <1>7
  <2>. QED  BY <2>2, <2>3, <1>1 DEF Members
<1>10. ASSUME NEW i \in 1 .. Len(t), NEW j \in 1 .. Len(t), t[i] = t[j] PROVE i = j
  <2> DEFINE a == IF i < p THEN i ELSE i + 1
             b == IF j < p THEN j ELSE j + 1
  <2>1. a \in 1 .. Len(s) /\ b \in 1 .. Len(s)
    BY <1>1, <1>2, <1>6
  <2>2. s[a] = s[b]
    BY <1>10, <1>7
  <2>3. a = b
    <3> HIDE DEF a, b
    <3>. QED  BY <2>1, <2>2 DEF Distinct
  <2>. QED  BY <2>3, <1>1, <1>2
<1>. QED  BY <1>6, <1>8, <1>9, <1>10 DEF t, Distinct

KeptDef(s, S, g) ==
    g = [i \in 0 .. Len(s) |->
            IF i = 0 THEN << >>
            ELSE IF s[i] \in S THEN Append(g[i - 1], s[i]) ELSE g[i - 1]]

KeptSolution(s, S) == CHOOSE g : KeptDef(s, S, g)

\* Kept is the solution of its recursion, taken at the end of the queue.
LEMMA KeptIter == \A s, S : Kept(s, S) = KeptSolution(s, S)[Len(s)]
BY DEF Kept, KeptSolution, KeptDef

LEMMA KeptSteps ==
    ASSUME NEW X, NEW s \in Seq(X), NEW S
    PROVE  \E g : /\ Kept(s, S) = g[Len(s)] /\ g[0] = << >>
                  /\ \A i \in 1 .. Len(s) : g[i] =
                        IF s[i] \in S THEN Append(g[i - 1], s[i]) ELSE g[i - 1]
<1> DEFINE step == [i \in 1 .. Len(s) |-> [t \in Seq(X) |->
                        IF s[i] \in S THEN Append(t, s[i]) ELSE t]]
<1>1. Len(s) \in Nat /\ << >> \in Seq(X) /\ \A i \in 1 .. Len(s) : s[i] \in X
  OBVIOUS
<1>2. step \in [1 .. Len(s) -> [Seq(X) -> Seq(X)]]
  <2>1. \A i \in 1 .. Len(s) : \A t \in Seq(X) :
            (IF s[i] \in S THEN Append(t, s[i]) ELSE t) \in Seq(X)
    BY <1>1
  <2>. QED  BY <2>1
<1>3. PICK g \in [0 .. Len(s) -> Seq(X)] :
          g[0] = << >> /\ \A i \in 1 .. Len(s) : g[i] = step[i][g[i - 1]]
  <2>1. Solvable(Len(s), Seq(X), << >>, step)
    <3> HIDE DEF step
    <3>. QED  BY <1>1, <1>2, Iterates
  <2> HIDE DEF step
  <2>. QED  BY <2>1 DEF Solvable
<1>4. ASSUME NEW i \in 0 .. Len(s)
      PROVE  g[i] = IF i = 0 THEN << >>
                    ELSE IF s[i] \in S THEN Append(g[i - 1], s[i]) ELSE g[i - 1]
  <2>1. CASE i = 0
    BY <2>1, <1>3
  <2>2. CASE i # 0
    <3>1. i \in 1 .. Len(s) /\ g[i - 1] \in Seq(X)
      BY <1>1, <2>2
    <3>. QED  BY <3>1, <2>2, <1>3
  <2>. QED  BY <2>1, <2>2
<1>5. KeptDef(s, S, g)
  <2> DEFINE h == [i \in 0 .. Len(s) |-> IF i = 0 THEN << >>
                ELSE IF s[i] \in S THEN Append(g[i - 1], s[i]) ELSE g[i - 1]]
  <2>1. \A i \in 0 .. Len(s) : h[i] = g[i]
    BY <1>4
  <2>2. g = [i \in 0 .. Len(s) |-> g[i]] /\ h = [i \in 0 .. Len(s) |-> h[i]]
    OBVIOUS
  <2>3. g = h
    <3> HIDE DEF h
    <3>. QED  BY <2>1, <2>2
  <2>. QED  BY <2>3, Zenon DEF KeptDef, h
<1>6. KeptDef(s, S, KeptSolution(s, S))
  BY <1>5 DEF KeptSolution
<1> DEFINE h == KeptSolution(s, S)
<1>7. /\ h[0] = << >>
      /\ \A i \in 1 .. Len(s) : h[i] =
            IF s[i] \in S THEN Append(h[i - 1], s[i]) ELSE h[i - 1]
  <2> HIDE DEF h
  <2>1. h = [i \in 0 .. Len(s) |-> IF i = 0 THEN << >>
                ELSE IF s[i] \in S THEN Append(h[i - 1], s[i]) ELSE h[i - 1]]
    BY <1>6 DEF KeptDef, h
  <2>2. 0 \in 0 .. Len(s)
    BY <1>1
  <2>3. h[0] = << >>
    BY <2>1, <2>2, Zenon
  <2>4. ASSUME NEW i \in 1 .. Len(s)
        PROVE  h[i] = IF s[i] \in S THEN Append(h[i - 1], s[i]) ELSE h[i - 1]
    <3>1. i \in 0 .. Len(s) /\ i # 0
      OBVIOUS
    <3>. QED  BY <3>1, <2>1, Zenon
  <2>. QED  BY <2>3, <2>4
<1>8. Kept(s, S) = h[Len(s)]
  BY KeptIter
<1> HIDE DEF h
<1>. QED  BY <1>7, <1>8

\* What is kept: the members in S, each once, in a queue that is no longer.
LEMMA KeptIs ==
    ASSUME NEW X, NEW s \in Seq(X), Distinct(s), NEW S
    PROVE  /\ Kept(s, S) \in Seq(X)
           /\ Members(Kept(s, S)) = Members(s) \cap S
           /\ Distinct(Kept(s, S))
           /\ Len(Kept(s, S)) <= Len(s)
<1>1. PICK g : /\ Kept(s, S) = g[Len(s)] /\ g[0] = << >>
               /\ \A i \in 1 .. Len(s) : g[i] =
                     IF s[i] \in S THEN Append(g[i - 1], s[i]) ELSE g[i - 1]
  BY KeptSteps
<1>2. Len(s) \in Nat /\ \A i \in 1 .. Len(s) : s[i] \in X
  OBVIOUS
<1> DEFINE Upto(k) == { s[i] : i \in 1 .. k }
           Good(k) == /\ g[k] \in Seq(X) /\ Members(g[k]) = Upto(k) \cap S
                      /\ Distinct(g[k]) /\ Len(g[k]) <= k
           G == { k \in Nat : k <= Len(s) => Good(k) }
<1>3. 0 \in G
  <2>1. Upto(0) = {}
    OBVIOUS
  <2>2. Members(<< >>) = {} /\ Distinct(<< >>)
    BY DEF Members, Distinct
  <2>3. Good(0)
    <3> HIDE DEF Upto
    <3>. QED  BY <2>1, <2>2, <1>1
  <2> HIDE DEF Good
  <2>. QED  BY <2>3
<1>4. ASSUME NEW k \in Nat, k \in G PROVE k + 1 \in G
  <2> SUFFICES ASSUME k + 1 <= Len(s) PROVE Good(k + 1)
    OBVIOUS
  <2>1. Good(k) /\ k + 1 \in 1 .. Len(s) /\ (k + 1) - 1 = k
    BY <1>4, <1>2
  <2> DEFINE x == s[k + 1]
  <2>2. g[k + 1] = IF x \in S THEN Append(g[k], x) ELSE g[k]
    BY <2>1, <1>1
  <2>3. Upto(k + 1) = Upto(k) \cup {x}
    <3>1. 1 .. k + 1 = (1 .. k) \cup {k + 1}
      OBVIOUS
    <3>. QED  BY <3>1
  <2>4. x \notin Upto(k)
    <3>1. \A i \in 1 .. k : i \in 1 .. Len(s) /\ i # k + 1
      BY <2>1
    <3>. QED  BY <3>1, <2>1 DEF Distinct
  <2>5. x \in X
    BY <2>1, <1>2
  <2> HIDE DEF Upto, x
  <2>6. CASE x \in S
    <3>1. /\ g[k] \in Seq(X) /\ Distinct(g[k]) /\ Len(g[k]) <= k /\ x \notin Members(g[k])
          /\ Members(g[k]) = Upto(k) \cap S
      BY <2>1, <2>4
    <3>2. g[k + 1] = Append(g[k], x)
      BY <2>2, <2>6
    <3>3. /\ Append(g[k], x) \in Seq(X) /\ Distinct(Append(g[k], x))
          /\ Members(Append(g[k], x)) = Members(g[k]) \cup {x}
      BY <3>1, <2>5, AppendedIs
    <3>4. Len(Append(g[k], x)) = Len(g[k]) + 1 /\ Len(g[k]) \in Nat
      BY <3>1, <2>5
    <3>5. Members(g[k + 1]) = Upto(k + 1) \cap S
      BY <3>1, <3>2, <3>3, <2>3, <2>6
    <3>. QED  BY <3>1, <3>2, <3>3, <3>4, <3>5
  <2>7. CASE x \notin S
    <3>1. g[k + 1] = g[k]
      BY <2>2, <2>7
    <3>2. Upto(k + 1) \cap S = Upto(k) \cap S
      BY <2>3, <2>7
    <3>3. Len(g[k]) <= k + 1
      BY <2>1
    <3>. QED  BY <3>1, <3>2, <3>3, <2>1
  <2>. QED  BY <2>6, <2>7
<1>5. Good(Len(s))
  <2>1. Len(s) \in G
    <3> HIDE DEF G
    <3>. QED  BY <1>2, <1>3, <1>4, NatSetInduction
  <2> HIDE DEF Good
  <2>. QED  BY <2>1, <1>2
<1>6. Upto(Len(s)) = Members(s)
  BY DEF Members
<1> HIDE DEF Upto
<1>. QED  BY <1>1, <1>5, <1>6

-----------------------------------------------------------------------------
(* Chunks and the tokens they carry. *)

Chunks == [req : Requests, tokens : Nat \ {0}]

OneEach(b) == \A i, j \in 1 .. Len(b) : b[i].req = b[j].req => i = j
ReqsOf(b)  == { b[i].req : i \in 1 .. Len(b) }

LEMMA TokensType ==
    ASSUME NEW b \in Seq(Chunks)
    PROVE  /\ IsFiniteSet(1 .. Len(b)) /\ Len(b) \in Nat
           /\ \A i \in 1 .. Len(b) : b[i].req \in Requests /\ b[i].tokens \in Nat \ {0}
           /\ \A S \in SUBSET (1 .. Len(b)) : IsFiniteSet(S) /\ TokensIn(b, S) \in Nat
           /\ TokensOf(b) \in Nat
<1>1. IsFiniteSet(1 .. Len(b)) /\ Len(b) \in Nat
  BY FS_Interval
<1>2. ASSUME NEW i \in 1 .. Len(b) PROVE b[i].req \in Requests /\ b[i].tokens \in Nat \ {0}
  <2>1. b[i] \in Chunks
    OBVIOUS
  <2>. QED  BY <2>1 DEF Chunks
<1>3. ASSUME NEW S \in SUBSET (1 .. Len(b)) PROVE IsFiniteSet(S) /\ TokensIn(b, S) \in Nat
  <2> DEFINE f == [i \in 1 .. Len(b) |-> b[i].tokens]
  <2>1. IsFiniteSet(S) /\ \A i \in S : f[i] \in Nat
    BY <1>1, <1>2, FS_Subset
  <2> HIDE DEF f
  <2>2. SumOver(f, S) \in Nat
    BY <2>1, SumType
  <2>. QED  BY <2>1, <2>2 DEF TokensIn, f
<1>4. TokensOf(b) \in Nat
  BY <1>3 DEF TokensOf
<1>. QED  BY <1>1, <1>2, <1>3, <1>4

LEMMA TokensEmpty ==
    /\ << >> \in Seq(Chunks) /\ TokensOf(<< >>) = 0
    /\ OneEach(<< >>) /\ ReqsOf(<< >>) = {}
    /\ \A r : ChunkOf(<< >>, r) = 0
<1>1. \A S \in SUBSET (1 .. Len(<< >>)) : S = {}
  OBVIOUS
<1>2. \A f : SumOver(f, {}) = 0
  BY FS_EmptySet, SumZero
<1>3. \A S \in SUBSET (1 .. Len(<< >>)) : TokensIn(<< >>, S) = 0
  BY <1>1, <1>2 DEF TokensIn
<1>4. TokensOf(<< >>) = 0 /\ \A r : ChunkOf(<< >>, r) = 0
  BY <1>3 DEF TokensOf, ChunkOf
<1>. QED  BY <1>4 DEF OneEach, ReqsOf

LEMMA TokensAppend ==
    ASSUME NEW b \in Seq(Chunks), NEW c \in Chunks
    PROVE  /\ Append(b, c) \in Seq(Chunks)
           /\ TokensOf(Append(b, c)) = TokensOf(b) + c.tokens
           /\ ReqsOf(Append(b, c)) = ReqsOf(b) \cup {c.req}
           /\ OneEach(b) /\ c.req \notin ReqsOf(b) => OneEach(Append(b, c))
<1> DEFINE d == Append(b, c)
           n == Len(b)
           f == [i \in 1 .. n |-> b[i].tokens]
           g == [i \in 1 .. n + 1 |-> d[i].tokens]
<1>1. d \in Seq(Chunks) /\ Len(d) = n + 1 /\ n \in Nat
  OBVIOUS
<1>2. \A i \in 1 .. n + 1 : d[i] = IF i = n + 1 THEN c ELSE b[i]
  OBVIOUS
<1>3. /\ IsFiniteSet(1 .. n + 1) /\ \A i \in 1 .. n + 1 : d[i].tokens \in Nat
  <2>1. \A i \in 1 .. Len(d) : d[i].tokens \in Nat \ {0}
    <3> HIDE DEF d
    <3>. QED  BY <1>1, TokensType
  <2> DEFINE m == n + 1
  <2>2. m \in Int
    BY <1>1
  <2>3. IsFiniteSet(1 .. m)
    <3> HIDE DEF m
    <3>. QED  BY <2>2, FS_Interval
  <2> HIDE DEF d, n
  <2>. QED  BY <2>1, <2>3, <1>1
<1>4. SumOver(g, 1 .. n + 1) = g[n + 1] + SumOver(g, (1 .. n + 1) \ {n + 1})
  <2>1. n + 1 \in 1 .. n + 1 /\ \A i \in 1 .. n + 1 : g[i] \in Int
    <3> HIDE DEF d, n
    <3>. QED  BY <1>1, <1>3
  <2> HIDE DEF g, n
  <2>. QED  BY <2>1, <1>3, SumRemove
<1>5. (1 .. n + 1) \ {n + 1} = 1 .. n
  BY <1>1
<1>6. SumOver(g, 1 .. n) = SumOver(f, 1 .. n)
  <2>1. \A i \in 1 .. n : g[i] = f[i]
    <3>1. \A i \in 1 .. n : i \in 1 .. n + 1 /\ i # n + 1
      BY <1>1
    <3> HIDE DEF d, n
    <3>. QED  BY <3>1, <1>2
  <2>2. IsFiniteSet(1 .. n)
    BY <1>1, FS_Interval
  <2> HIDE DEF f, g, n
  <2>. QED  BY <2>1, <2>2, SumAgree
<1>7. g[n + 1] = c.tokens
  <2>1. n + 1 \in 1 .. n + 1
    BY <1>1
  <2> HIDE DEF d, n
  <2>. QED  BY <2>1, <1>2
<1>8. TokensOf(b) = SumOver(f, 1 .. n) /\ TokensOf(d) = SumOver(g, 1 .. n + 1)
  <2>1. TokensOf(b) = SumOver(f, 1 .. n)
    BY DEF TokensOf, TokensIn
  <2>2. TokensOf(d) = SumOver([i \in 1 .. Len(d) |-> d[i].tokens], 1 .. Len(d))
    BY DEF TokensOf, TokensIn
  <2> HIDE DEF d, f
  <2>. QED  BY <2>1, <2>2, <1>1
<1>9. TokensOf(d) = TokensOf(b) + c.tokens
  <2>1. TokensOf(b) \in Nat /\ c.tokens \in Nat
    BY TokensType DEF Chunks
  <2> HIDE DEF f, g, d, n
  <2>2. TokensOf(d) = c.tokens + TokensOf(b)
    BY <1>4, <1>5, <1>6, <1>7, <1>8, Zenon
  <2>. QED  BY <2>1, <2>2
<1>10. ReqsOf(d) = ReqsOf(b) \cup {c.req}
  <2> HIDE DEF d
  <2>1. \A i \in 1 .. n : i \in 1 .. Len(d) /\ d[i].req = b[i].req
    BY <1>1, <1>2
  <2>2. n + 1 \in 1 .. Len(d) /\ d[n + 1].req = c.req
    BY <1>1, <1>2
  <2>3. \A i \in 1 .. Len(d) : i \in 1 .. n \/ i = n + 1
    BY <1>1
  <2>. QED  BY <2>1, <2>2, <2>3 DEF ReqsOf
<1>11. ASSUME OneEach(b), c.req \notin ReqsOf(b) PROVE OneEach(d)
  <2>1. \A i \in 1 .. n : b[i].req # c.req
    BY <1>11 DEF ReqsOf
  <2> HIDE DEF d
  <2>2. \A i \in 1 .. Len(d) : (i \in 1 .. n /\ d[i].req = b[i].req) \/ (i = n + 1 /\ d[i].req = c.req)
    BY <1>1, <1>2
  <2>. QED  BY <2>1, <2>2, <1>11 DEF OneEach
<1>. QED  BY <1>1, <1>9, <1>10, <1>11

\* A request has one chunk in a batch, or none.
LEMMA ChunkOfIs ==
    ASSUME NEW b \in Seq(Chunks), OneEach(b), NEW r
    PROVE  /\ ChunkOf(b, r) \in Nat
           /\ r \notin ReqsOf(b) => ChunkOf(b, r) = 0
           /\ \A i \in 1 .. Len(b) : b[i].req = r => ChunkOf(b, r) = b[i].tokens
<1> DEFINE f == [i \in 1 .. Len(b) |-> b[i].tokens]
           S == { i \in 1 .. Len(b) : b[i].req = r }
<1>1. IsFiniteSet(S) /\ TokensIn(b, S) \in Nat /\ ChunkOf(b, r) = TokensIn(b, S)
  BY TokensType DEF ChunkOf
<1>2. ASSUME r \notin ReqsOf(b) PROVE ChunkOf(b, r) = 0
  <2>1. S = {}
    BY <1>2 DEF ReqsOf
  <2>2. SumOver(f, {}) = 0
    BY FS_EmptySet, SumZero
  <2>. QED  BY <2>1, <2>2, <1>1 DEF TokensIn
<1>3. ASSUME NEW i \in 1 .. Len(b), b[i].req = r PROVE ChunkOf(b, r) = b[i].tokens
  <2>1. S = {i}
    BY <1>3 DEF OneEach
  <2>2. f[i] \in Nat
    BY TokensType
  <2>3. SumOver(f, {i}) = f[i] + SumOver(f, {i} \ {i})
    <3>1. \A y \in {i} : f[y] \in Int
      BY <2>2
    <3>2. IsFiniteSet({i})
      BY FS_Singleton
    <3> HIDE DEF f
    <3>. QED  BY <3>1, <3>2, SumRemove
  <2>4. SumOver(f, {i} \ {i}) = 0
    BY FS_EmptySet, SumZero
  <2>5. TokensIn(b, S) = SumOver(f, {i})
    BY <2>1 DEF TokensIn
  <2>6. f[i] = b[i].tokens
    OBVIOUS
  <2> HIDE DEF f, S
  <2>. QED  BY <2>2, <2>3, <2>4, <2>5, <2>6, <1>1
<1>. QED  BY <1>1, <1>2, <1>3

\* Every chunk carries a token.
LEMMA ReqsBounded ==
    ASSUME NEW b \in Seq(Chunks), OneEach(b)
    PROVE  /\ ReqsOf(b) \subseteq Requests
           /\ Cardinality(ReqsOf(b)) \in Nat /\ Cardinality(ReqsOf(b)) <= TokensOf(b)
<1> DEFINE n == Len(b)
           f == [i \in 1 .. n |-> b[i].tokens]
           ones == [i \in 1 .. n |-> 1]
           reqs == [i \in 1 .. n |-> b[i].req]
<1>1. n \in Nat /\ IsFiniteSet(1 .. n) /\ \A i \in 1 .. n : b[i].req \in Requests /\ b[i].tokens \in Nat \ {0}
  BY TokensType
<1>2. Cardinality(1 .. n) = n
  BY <1>1, FS_Interval
<1>3. SumOver(ones, 1 .. n) = n
  <2>1. \A i \in 1 .. n : ones[i] = 1
    OBVIOUS
  <2> HIDE DEF ones, n
  <2>. QED  BY <2>1, <1>1, <1>2, SumOnes
<1>4. SumOver(ones, 1 .. n) <= SumOver(f, 1 .. n)
  <2>1. \A i \in 1 .. n : ones[i] \in Int /\ f[i] \in Int /\ ones[i] <= f[i]
    BY <1>1
  <2> HIDE DEF ones, f, n
  <2>. QED  BY <2>1, <1>1, SumMono
<1>5. SumOver(f, 1 .. n) = TokensOf(b)
  BY DEF TokensOf, TokensIn
<1>6. ReqsOf(b) = { reqs[i] : i \in 1 .. n }
  BY DEF ReqsOf
<1>7. Cardinality(ReqsOf(b)) <= Cardinality(1 .. n) /\ IsFiniteSet(ReqsOf(b))
  <2>1. reqs \in [1 .. n -> ReqsOf(b)] /\ \A y \in ReqsOf(b) : \E i \in 1 .. n : reqs[i] = y
    BY DEF ReqsOf
  <2>2. reqs \in Surjection(1 .. n, ReqsOf(b))
    <3> HIDE DEF reqs, n
    <3>. QED  BY <2>1 DEF Surjection
  <2> HIDE DEF reqs, n
  <2>. QED  BY <2>2, <1>1, FS_Surjection
<1>8. Cardinality(ReqsOf(b)) \in Nat
  BY <1>7, FS_CardinalityType
<1>9. ReqsOf(b) \subseteq Requests
  BY <1>1 DEF ReqsOf
<1>10. TokensOf(b) \in Nat
  BY TokensType
<1> HIDE DEF f, ones, n
<1>11. n <= TokensOf(b)
  BY <1>3, <1>4, <1>5
<1>12. Cardinality(ReqsOf(b)) <= n
  BY <1>2, <1>7
<1>. QED  BY <1>1, <1>8, <1>9, <1>10, <1>11, <1>12

-----------------------------------------------------------------------------
(* The chunk schedule. *)

LEMMA ConfigType ==
    ASSUME config \in Configs
    PROVE  /\ LongestPrefix \in BOOLEAN /\ Mix \in BOOLEAN /\ Bounded \in BOOLEAN
           /\ Fcfs \in BOOLEAN /\ OneBlockEarly \in BOOLEAN
           /\ MaxFuture \in Nat \ {0} /\ RatioOf \in Nat \ {0} /\ RetractSteps \in Nat \ {0}
           /\ Width \in Nat \ {0} /\ BatchTokens \in Nat \ {0}
           /\ InitialRatio \in 0 .. RatioOf /\ MinimumRatio \in 0 .. RatioOf
           /\ RatioDecay \in Nat /\ Quantum \in Nat
<1>1. /\ {config.longestPrefix, config.mix, config.bounded, config.fcfs,
            config.oneBlockEarly} \subseteq BOOLEAN
      /\ {config.maxFuture, config.ratioOf, config.retractSteps, config.width,
            config.batchTokens} \subseteq Nat \ {0}
      /\ config.initialRatio \in 0 .. config.ratioOf
      /\ config.minimumRatio \in 0 .. config.initialRatio
      /\ config.ratioDecay \in Nat /\ config.quantum \in Nat
  BY ChunkedAssumption
<1>2. config.minimumRatio \in 0 .. config.ratioOf
  BY <1>1
<1>3. /\ LongestPrefix \in BOOLEAN /\ Mix \in BOOLEAN /\ Bounded \in BOOLEAN
      /\ Fcfs \in BOOLEAN /\ OneBlockEarly \in BOOLEAN
  BY <1>1, Zenon DEF LongestPrefix, Mix, Bounded, Fcfs, OneBlockEarly
<1>. QED
  BY <1>1, <1>2, <1>3 DEF MaxFuture, RatioOf, RetractSteps, Width, BatchTokens,
       InitialRatio, MinimumRatio, RatioDecay, Quantum

\* What a boundary is: the last multiple of the interval.
LEMMA BoundaryIs ==
    ASSUME NEW n \in Nat, Quantum \in Nat \ {0}
    PROVE  /\ LastBoundary(n) \in Nat /\ LastBoundary(n) <= n
           /\ n < LastBoundary(n) + Quantum
<1> DEFINE k == Quantum
           q == n \div k
<1>1. q \in Nat /\ q * k \in Nat /\ q * k <= n /\ n < q * k + k
  BY DEF k
<1>. QED  BY <1>1 DEF LastBoundary

LEMMA MinIs ==
    ASSUME NEW S \in SUBSET Nat, S # {}
    PROVE  Min(S) \in S /\ \A n \in S : Min(S) <= n
<1>1. \E m \in S : \A n \in S : m <= n
  BY LeastElement
<1>. QED  BY <1>1 DEF Min

\* A chunk is no longer than what is left of the prompt or of the budget; at
\* the full budget of an iteration it is never empty.
LEMMA ChunkIs ==
    ASSUME config \in Configs, NEW r, NEW rest \in Nat, NEW budget \in Nat,
           ContextNow(r) \in Nat, rest <= ContextNow(r)
    PROVE  /\ ChunkTokens(r, rest, budget) \in Nat
           /\ ChunkTokens(r, rest, budget) <= rest
           /\ ChunkTokens(r, rest, budget) <= budget
           /\ Quantum = 0 => ChunkTokens(r, rest, budget) = Smaller(rest, budget)
           /\ rest > 0 /\ budget = BatchTokens => ChunkTokens(r, rest, budget) > 0
<1> DEFINE tokens == Smaller(rest, budget)
           end    == ContextNow(r)
           start  == end - rest
           reach  == IF /\ start + tokens < end
                        /\ \/ LastBoundary(start + tokens) > start
                           \/ Quantum <= BatchTokens
                     THEN LastBoundary(start + tokens) ELSE start + tokens
           last   == SaturatingSub(LastBoundary(end),
                                   IF OneBlockEarly THEN Quantum ELSE 0)
           stops  == {last} \cup IF start % Quantum = 0 THEN {}
                                 ELSE {LastBoundary(start) + Quantum}
           ends   == {reach} \cup { s \in stops : start < s /\ s < reach }
<1>1. Quantum \in Nat /\ BatchTokens \in Nat \ {0}
  BY ConfigType
<1>2. tokens \in Nat /\ tokens <= rest /\ tokens <= budget /\ (tokens = rest \/ tokens = budget)
  BY DEF Smaller
<1>3. ChunkTokens(r, rest, budget) = IF Quantum = 0 \/ tokens = 0 THEN tokens
                                     ELSE SaturatingSub(Min(ends), start)
  BY Zenon DEF ChunkTokens
<1>4. start \in Nat /\ end \in Nat /\ start + tokens <= end /\ start + tokens \in Nat
  BY <1>2
<1>5. CASE Quantum = 0 \/ tokens = 0
  <2> HIDE DEF tokens, ends, start
  <2>1. rest > 0 /\ budget = BatchTokens => tokens > 0
    BY <1>1, <1>2
  <2>2. Quantum = 0 => ChunkTokens(r, rest, budget) = Smaller(rest, budget)
    BY <1>3 DEF tokens
  <2>3. ChunkTokens(r, rest, budget) = tokens
    BY <1>3, <1>5
  <2>. QED  BY <2>1, <2>2, <2>3, <1>2
<1>6. CASE Quantum # 0 /\ tokens # 0
  <2>1. /\ LastBoundary(start + tokens) \in Nat /\ LastBoundary(start + tokens) <= start + tokens
        /\ start + tokens < LastBoundary(start + tokens) + Quantum
        /\ LastBoundary(end) \in Nat /\ LastBoundary(start) \in Nat
    <3> DEFINE m == start + tokens
    <3>1. m \in Nat /\ start \in Nat /\ end \in Nat /\ Quantum \in Nat \ {0}
      BY <1>4, <1>6, <1>1
    <3> HIDE DEF m, start, tokens, end
    <3>2. LastBoundary(m) \in Nat /\ LastBoundary(m) <= m /\ m < LastBoundary(m) + Quantum
      BY <3>1, BoundaryIs
    <3>3. LastBoundary(end) \in Nat /\ LastBoundary(start) \in Nat
      BY <3>1, BoundaryIs
    <3>. QED  BY <3>2, <3>3 DEF m
  <2> HIDE DEF start, tokens, end
  <2>2. reach \in Nat /\ reach <= start + tokens
    BY <2>1, <1>4
  <2>3. stops \in SUBSET Nat
    BY <2>1, <1>1 DEF SaturatingSub
  <2> HIDE DEF reach, stops
  <2>4. ends \in SUBSET Nat /\ reach \in ends
    BY <2>2, <2>3
  <2>5. Min(ends) \in ends /\ Min(ends) <= reach
    <3> HIDE DEF ends
    <3>. QED  BY <2>4, MinIs
  <2>6. Min(ends) \in Nat /\ (Min(ends) = reach \/ Min(ends) > start)
    BY <2>5, <2>4
  <2>7. ChunkTokens(r, rest, budget) = SaturatingSub(Min(ends), start)
    BY <1>3, <1>6
  <2>8. rest > 0 /\ budget = BatchTokens => reach > start
    BY <2>1, <1>1, <1>2, <1>4, <1>6 DEF reach, start
  <2> HIDE DEF ends
  <2>9. /\ ChunkTokens(r, rest, budget) \in Nat
        /\ ChunkTokens(r, rest, budget) <= tokens
        /\ reach > start => ChunkTokens(r, rest, budget) > 0
    BY <2>2, <2>5, <2>6, <2>7, <1>2, <1>4 DEF SaturatingSub
  <2>. QED  BY <2>8, <2>9, <1>2, <1>6
<1>7. Quantum = 0 \/ tokens = 0 \/ (Quantum # 0 /\ tokens # 0)
  OBVIOUS
<1>. QED  BY <1>5, <1>6, <1>7

StartedDef(g) ==
    g = [i \in 0 .. Len(started) |->
            IF i = 0 THEN << >> ELSE WithChunk(g[i - 1], started[i])]

StartedSolution == CHOOSE g : StartedDef(g)

LEMMA StartedIter == StartedChunks = StartedSolution[Len(started)]
BY DEF StartedChunks, StartedSolution, StartedDef

\* What the schedule reads.
Startable ==
    /\ config \in Configs
    /\ started \in Seq(Requests) /\ Distinct(started)
    /\ IterationBudget \in Nat
    /\ \A r \in Requests : left[r] \in Nat /\ ContextNow(r) \in Nat /\ left[r] <= ContextNow(r)

Within == { b \in Seq(Chunks) : TokensOf(b) <= IterationBudget }

\* A batch keeps to the budget when the chunk of a started prompt joins it.
LEMMA WithChunkIs ==
    ASSUME Startable, NEW b \in Within, NEW r \in Requests
    PROVE  LET tokens == ChunkTokens(r, left[r], BudgetLeft(b))
               c      == [req |-> r, tokens |-> tokens]
           IN  /\ WithChunk(b, r) \in Within
               /\ tokens \in Nat /\ tokens <= left[r]
               /\ tokens = 0 => WithChunk(b, r) = b
               /\ tokens # 0 => c \in Chunks /\ WithChunk(b, r) = Append(b, c)
               /\ Quantum = 0 /\ tokens # left[r] =>
                     TokensOf(WithChunk(b, r)) = IterationBudget
               /\ left[r] > 0 /\ BudgetLeft(b) = BatchTokens => tokens # 0
<1> DEFINE tokens == ChunkTokens(r, left[r], BudgetLeft(b))
           c == [req |-> r, tokens |-> tokens]
<1>1. b \in Seq(Chunks) /\ TokensOf(b) \in Nat /\ TokensOf(b) <= IterationBudget /\ IterationBudget \in Nat
  BY TokensType DEF Within, Startable
<1>2. BudgetLeft(b) \in Nat /\ BudgetLeft(b) = IterationBudget - TokensOf(b)
  BY <1>1 DEF BudgetLeft
<1>3. left[r] \in Nat /\ ContextNow(r) \in Nat /\ left[r] <= ContextNow(r) /\ config \in Configs
  BY DEF Startable
<1>4. /\ tokens \in Nat /\ tokens <= left[r] /\ tokens <= BudgetLeft(b)
      /\ Quantum = 0 => tokens = Smaller(left[r], BudgetLeft(b))
      /\ left[r] > 0 /\ BudgetLeft(b) = BatchTokens => tokens > 0
  BY <1>2, <1>3, ChunkIs
<1>5. WithChunk(b, r) = IF tokens = 0 THEN b ELSE Append(b, c)
  BY Zenon DEF WithChunk
<1> HIDE DEF tokens
<1>6. CASE tokens = 0
  <2>1. WithChunk(b, r) = b
    BY <1>5, <1>6
  <2>2. ASSUME Quantum = 0, tokens # left[r] PROVE TokensOf(WithChunk(b, r)) = IterationBudget
    BY <2>1, <2>2, <1>1, <1>2, <1>3, <1>4, <1>6 DEF Smaller
  <2>. QED  BY <2>1, <2>2, <1>4, <1>6 DEF tokens
<1>7. CASE tokens # 0
  <2>1. c \in Chunks /\ c.tokens = tokens
    BY <1>4, <1>7 DEF Chunks
  <2>2. WithChunk(b, r) = Append(b, c)
    BY <1>5, <1>7
  <2> HIDE DEF c
  <2>3. Append(b, c) \in Seq(Chunks) /\ TokensOf(Append(b, c)) = TokensOf(b) + tokens
    BY <2>1, <1>1, TokensAppend
  <2>4. Append(b, c) \in Within
    BY <2>3, <1>1, <1>2, <1>4 DEF Within
  <2>5. ASSUME Quantum = 0, tokens # left[r] PROVE TokensOf(WithChunk(b, r)) = IterationBudget
    BY <2>2, <2>3, <2>5, <1>1, <1>2, <1>3, <1>4 DEF Smaller
  <2>. QED  BY <2>1, <2>2, <2>4, <2>5, <1>4, <1>7 DEF tokens, c
<1>. QED  BY <1>6, <1>7

LEMMA StartedSteps ==
    ASSUME Startable
    PROVE  \E g \in [0 .. Len(started) -> Within] :
              /\ StartedChunks = g[Len(started)] /\ g[0] = << >>
              /\ \A i \in 1 .. Len(started) : g[i] = WithChunk(g[i - 1], started[i])
<1> DEFINE step == [i \in 1 .. Len(started) |-> [b \in Within |-> WithChunk(b, started[i])]]
<1>1. /\ Len(started) \in Nat /\ << >> \in Within
      /\ \A i \in 1 .. Len(started) : started[i] \in Requests
  <2>1. started \in Seq(Requests) /\ IterationBudget \in Nat
    BY DEF Startable
  <2>2. << >> \in Within
    BY <2>1, TokensEmpty DEF Within
  <2>. QED  BY <2>1, <2>2
<1>2. step \in [1 .. Len(started) -> [Within -> Within]]
  <2>1. \A i \in 1 .. Len(started) : \A b \in Within : WithChunk(b, started[i]) \in Within
    BY <1>1, WithChunkIs
  <2>. QED  BY <2>1
<1>3. PICK g \in [0 .. Len(started) -> Within] :
          g[0] = << >> /\ \A i \in 1 .. Len(started) : g[i] = step[i][g[i - 1]]
  <2>1. Solvable(Len(started), Within, << >>, step)
    <3> HIDE DEF step
    <3>. QED  BY <1>1, <1>2, Iterates
  <2> HIDE DEF step
  <2>. QED  BY <2>1 DEF Solvable
<1>4. ASSUME NEW i \in 1 .. Len(started) PROVE g[i] = WithChunk(g[i - 1], started[i])
  <2>1. g[i - 1] \in Within
    BY <1>1
  <2>. QED  BY <2>1, <1>3
<1>5. StartedDef(g)
  <2> DEFINE h == [i \in 0 .. Len(started) |->
                      IF i = 0 THEN << >> ELSE WithChunk(g[i - 1], started[i])]
  <2>1. ASSUME NEW i \in 0 .. Len(started) PROVE h[i] = g[i]
    <3>1. i = 0 \/ i \in 1 .. Len(started)
      BY <1>1
    <3>. QED  BY <3>1, <1>3, <1>4
  <2>2. g = [i \in 0 .. Len(started) |-> g[i]] /\ h = [i \in 0 .. Len(started) |-> h[i]]
    OBVIOUS
  <2>3. g = h
    <3> HIDE DEF h
    <3>. QED  BY <2>1, <2>2
  <2>. QED  BY <2>3, Zenon DEF StartedDef, h
<1> DEFINE h == StartedSolution
<1>6. StartedDef(h)
  BY <1>5 DEF StartedSolution
<1> HIDE DEF h
<1>7. h = [i \in 0 .. Len(started) |->
              IF i = 0 THEN << >> ELSE WithChunk(h[i - 1], started[i])]
  BY <1>6 DEF StartedDef
<1>8. h[0] = << >> /\ \A i \in 1 .. Len(started) : h[i] = WithChunk(h[i - 1], started[i])
  <2>1. 0 \in 0 .. Len(started)
    BY <1>1
  <2>2. h[0] = << >>
    BY <1>7, <2>1, Zenon
  <2>3. ASSUME NEW i \in 1 .. Len(started) PROVE h[i] = WithChunk(h[i - 1], started[i])
    <3>1. i \in 0 .. Len(started) /\ i # 0
      OBVIOUS
    <3>. QED  BY <3>1, <1>7, Zenon
  <2>. QED  BY <2>2, <2>3
<1>9. h \in [0 .. Len(started) -> Within]
  <2> DEFINE G == { k \in Nat : k <= Len(started) => h[k] \in Within }
  <2>1. 0 \in G
    BY <1>8, <1>1
  <2>2. ASSUME NEW k \in Nat, k \in G PROVE k + 1 \in G
    <3>1. CASE k + 1 <= Len(started)
      <4>1. k + 1 \in 1 .. Len(started) /\ (k + 1) - 1 = k /\ h[k] \in Within
        BY <3>1, <2>2, <1>1
      <4>2. h[k + 1] = WithChunk(h[k], started[k + 1]) /\ started[k + 1] \in Requests
        BY <4>1, <1>8, <1>1
      <4>3. \A b \in Within, r \in Requests : WithChunk(b, r) \in Within
        BY WithChunkIs
      <4>4. WithChunk(h[k], started[k + 1]) \in Within
        BY <4>1, <4>2, <4>3
      <4>. QED  BY <4>2, <4>4
    <3>. QED  BY <3>1
  <2> HIDE DEF G
  <2>3. \A k \in Nat : k \in G
    BY <2>1, <2>2, NatSetInduction
  <2>4. \A k \in 0 .. Len(started) : h[k] \in Within
    BY <2>3, <1>1 DEF G
  <2>5. h = [i \in 0 .. Len(started) |-> h[i]]
    <3>1. \A i \in 0 .. Len(started) : h[i] =
              IF i = 0 THEN << >> ELSE WithChunk(h[i - 1], started[i])
      BY <1>7
    <3>. QED  BY <3>1, <1>7, Zenon
  <2>. QED  BY <2>4, <2>5
<1>10. StartedChunks = h[Len(started)]
  BY StartedIter DEF h
<1>. QED  BY <1>8, <1>9, <1>10

\* The chunks of a schedule: one for a started prompt, no longer than what is
\* left of it, and together within the budget.
ChunksFit(b, S) ==
    /\ b \in Seq(Chunks) /\ OneEach(b) /\ ReqsOf(b) \subseteq S
    /\ \A i \in 1 .. Len(b) : b[i].tokens <= left[b[i].req]

LEMMA ChunksFitAppend ==
    ASSUME NEW b, NEW S, ChunksFit(b, S), NEW c \in Chunks, c.req \notin S,
           c.tokens <= left[c.req]
    PROVE  ChunksFit(Append(b, c), S \cup {c.req})
<1> DEFINE d == Append(b, c)
<1>1. /\ b \in Seq(Chunks) /\ OneEach(b) /\ ReqsOf(b) \subseteq S
      /\ \A i \in 1 .. Len(b) : b[i].tokens <= left[b[i].req]
  BY DEF ChunksFit
<1>2. d \in Seq(Chunks) /\ OneEach(d) /\ ReqsOf(d) = ReqsOf(b) \cup {c.req}
  BY <1>1, TokensAppend
<1>3. ASSUME NEW i \in 1 .. Len(d) PROVE d[i].tokens <= left[d[i].req]
  <2>1. \/ i \in 1 .. Len(b) /\ d[i] = b[i]
        \/ d[i] = c
    BY <1>1
  <2>. QED  BY <2>1, <1>1
<1> HIDE DEF d
<1>4. ReqsOf(d) \subseteq S \cup {c.req}
  BY <1>1, <1>2
<1>. QED  BY <1>2, <1>3, <1>4 DEF ChunksFit, d

LEMMA StartedIs ==
    ASSUME Startable
    PROVE  /\ StartedChunks \in Within /\ ChunksFit(StartedChunks, Members(started))
           /\ Quantum = 0 /\ Len(started) = 1 =>
                 \/ TokensOf(StartedChunks) = IterationBudget
                 \/ ChunkOf(StartedChunks, started[1]) = left[started[1]]
           /\ IterationBudget = BatchTokens /\ started # << >> /\ left[started[1]] > 0 =>
                 StartedChunks # << >>
<1>1. PICK g \in [0 .. Len(started) -> Within] :
          /\ StartedChunks = g[Len(started)] /\ g[0] = << >>
          /\ \A i \in 1 .. Len(started) : g[i] = WithChunk(g[i - 1], started[i])
  BY StartedSteps
<1>2. /\ Len(started) \in Nat /\ Distinct(started)
      /\ \A i \in 1 .. Len(started) : started[i] \in Requests
  BY DEF Startable
<1> DEFINE Upto(k) == { started[i] : i \in 1 .. k }
           Good(k) == ChunksFit(g[k], Upto(k)) /\ (k > 0 /\ g[1] # << >> => g[k] # << >>)
           G == { k \in Nat : k <= Len(started) => Good(k) }
<1>3. 0 \in G
  <2>1. ChunksFit(<< >>, Upto(0))
    <3> HIDE DEF Upto
    <3>. QED  BY TokensEmpty DEF ChunksFit
  <2>2. Good(0)
    <3> HIDE DEF Upto
    <3>. QED  BY <2>1, <1>1
  <2> HIDE DEF Good
  <2>. QED  BY <2>2
<1>4. ASSUME NEW k \in Nat, k \in G PROVE k + 1 \in G
  <2> SUFFICES ASSUME k + 1 <= Len(started) PROVE Good(k + 1)
    OBVIOUS
  <2>1. Good(k) /\ k + 1 \in 1 .. Len(started) /\ (k + 1) - 1 = k /\ k \in 0 .. Len(started)
    BY <1>4, <1>2
  <2> DEFINE x == started[k + 1]
             tokens == ChunkTokens(x, left[x], BudgetLeft(g[k]))
             c == [req |-> x, tokens |-> tokens]
  <2>2. g[k + 1] = WithChunk(g[k], x) /\ g[k] \in Within /\ x \in Requests
    BY <2>1, <1>1, <1>2
  <2>3. Upto(k + 1) = Upto(k) \cup {x}
    <3>1. 1 .. k + 1 = (1 .. k) \cup {k + 1}
      OBVIOUS
    <3>. QED  BY <3>1
  <2>4. x \notin Upto(k)
    <3>1. \A i \in 1 .. k : i \in 1 .. Len(started) /\ i # k + 1
      BY <2>1
    <3>. QED  BY <3>1, <2>1, <1>2 DEF Distinct
  <2>5. /\ tokens \in Nat /\ tokens <= left[x]
        /\ tokens = 0 => WithChunk(g[k], x) = g[k]
        /\ tokens # 0 => c \in Chunks /\ WithChunk(g[k], x) = Append(g[k], c)
    <3> HIDE DEF x
    <3>. QED  BY <2>2, WithChunkIs
  <2>6. ChunksFit(g[k], Upto(k))
    BY <2>1
  <2> HIDE DEF Upto, x, tokens
  <2>7. CASE tokens = 0
    <3>1. g[k + 1] = g[k]
      BY <2>2, <2>5, <2>7
    <3>2. ChunksFit(g[k], Upto(k) \cup {x})
      BY <2>6 DEF ChunksFit
    <3>3. ChunksFit(g[k + 1], Upto(k + 1))
      BY <3>1, <3>2, <2>3
    <3>4. g[1] # << >> => g[k + 1] # << >>
      <4>1. CASE k = 0
        BY <4>1
      <4>2. CASE k # 0
        BY <4>2, <3>1, <2>1
      <4>. QED  BY <4>1, <4>2
    <3>. QED  BY <3>3, <3>4
  <2>8. CASE tokens # 0
    <3>1. g[k + 1] = Append(g[k], c) /\ c \in Chunks /\ c.req = x /\ c.tokens = tokens
      BY <2>2, <2>5, <2>8
    <3> HIDE DEF c
    <3>2. ChunksFit(Append(g[k], c), Upto(k) \cup {x})
      <4>1. c \in Chunks /\ c.req \notin Upto(k) /\ c.tokens <= left[c.req]
        BY <3>1, <2>4, <2>5
      <4>2. ChunksFit(Append(g[k], c), Upto(k) \cup {c.req})
        BY <4>1, <2>6, ChunksFitAppend
      <4>. QED  BY <4>2, <3>1
    <3>3. Append(g[k], c) # << >>
      <4>1. g[k] \in Seq(Chunks)
        BY <2>6 DEF ChunksFit
      <4>. QED  BY <4>1, <3>1
    <3>. QED  BY <3>1, <3>2, <3>3, <2>3
  <2>. QED  BY <2>7, <2>8
<1>5. Good(Len(started))
  <2>1. Len(started) \in G
    <3> HIDE DEF G
    <3>. QED  BY <1>2, <1>3, <1>4, NatSetInduction
  <2> HIDE DEF Good
  <2>. QED  BY <2>1, <1>2
<1>6. Upto(Len(started)) = Members(started)
  BY DEF Members
<1>7. StartedChunks \in Within /\ ChunksFit(StartedChunks, Members(started))
  <2>1. g[Len(started)] \in Within
    BY <1>2
  <2>2. ChunksFit(g[Len(started)], Upto(Len(started)))
    BY <1>5
  <2> HIDE DEF Upto
  <2>. QED  BY <2>1, <2>2, <1>1, <1>6
<1>8. ASSUME started # << >>
      PROVE  /\ started[1] \in Requests /\ << >> \in Within
             /\ g[1] = WithChunk(<< >>, started[1])
             /\ BudgetLeft(<< >>) = IterationBudget /\ IterationBudget \in Nat
             /\ Len(started) > 0
  <2>1. Len(started) # 0
    BY <1>8 DEF Startable
  <2>2. 1 \in 1 .. Len(started) /\ 0 \in 0 .. Len(started) /\ 1 - 1 = 0 /\ Len(started) > 0
    BY <2>1, <1>2
  <2>3. g[1] = WithChunk(g[0], started[1])
    BY <2>2, <1>1
  <2>4. BudgetLeft(<< >>) = IterationBudget /\ IterationBudget \in Nat /\ << >> \in Within
    BY TokensEmpty DEF BudgetLeft, Startable, Within
  <2>. QED  BY <2>2, <2>3, <2>4, <1>1, <1>2
<1>9. ASSUME Quantum = 0, Len(started) = 1
      PROVE  \/ TokensOf(StartedChunks) = IterationBudget
             \/ ChunkOf(StartedChunks, started[1]) = left[started[1]]
  <2> DEFINE x == started[1]
             tokens == ChunkTokens(x, left[x], BudgetLeft(<< >>))
             c == [req |-> x, tokens |-> tokens]
  <2>1. started # << >>
    BY <1>9
  <2>2. x \in Requests /\ << >> \in Within /\ StartedChunks = WithChunk(<< >>, x)
    BY <2>1, <1>8, <1>1, <1>9
  <2>3. /\ tokens \in Nat
        /\ tokens # left[x] => TokensOf(WithChunk(<< >>, x)) = IterationBudget
        /\ tokens = 0 => WithChunk(<< >>, x) = << >>
        /\ tokens # 0 => c \in Chunks /\ WithChunk(<< >>, x) = Append(<< >>, c)
    <3> HIDE DEF x
    <3>. QED  BY <2>2, <1>9, WithChunkIs
  <2> HIDE DEF x, tokens
  <2>4. CASE tokens # left[x]
    BY <2>2, <2>3, <2>4
  <2>5. CASE tokens = left[x] /\ tokens = 0
    BY <2>2, <2>3, <2>5, TokensEmpty DEF x
  <2>6. CASE tokens = left[x] /\ tokens # 0
    <3> DEFINE d == Append(<< >>, c)
    <3>1. d \in Seq(Chunks) /\ OneEach(d)
      <4> HIDE DEF c
      <4>1. c.req \notin ReqsOf(<< >>)
        BY TokensEmpty
      <4>. QED  BY <4>1, <2>3, <2>6, TokensEmpty, TokensAppend
    <3>2. 1 \in 1 .. Len(d) /\ d[1] = c /\ c.req = x /\ c.tokens = tokens
      OBVIOUS
    <3> HIDE DEF d, c
    <3>3. ChunkOf(d, x) = tokens
      BY <3>1, <3>2, ChunkOfIs
    <3>. QED  BY <3>3, <2>2, <2>3, <2>6 DEF x, d
  <2>. QED  BY <2>4, <2>5, <2>6
<1>10. ASSUME IterationBudget = BatchTokens, started # << >>, left[started[1]] > 0
       PROVE  StartedChunks # << >>
  <2> DEFINE x == started[1]
             tokens == ChunkTokens(x, left[x], BudgetLeft(<< >>))
             c == [req |-> x, tokens |-> tokens]
  <2>1. /\ x \in Requests /\ << >> \in Within /\ g[1] = WithChunk(<< >>, x)
        /\ BudgetLeft(<< >>) = BatchTokens /\ Len(started) > 0
    BY <1>8, <1>10
  <2>2. left[x] > 0
    BY <1>10
  <2>3. tokens # 0 /\ (tokens # 0 => c \in Chunks /\ WithChunk(<< >>, x) = Append(<< >>, c))
    <3> HIDE DEF x
    <3>. QED  BY <2>1, <2>2, WithChunkIs
  <2>4. g[1] # << >>
    <3> HIDE DEF tokens, c, x
    <3>. QED  BY <2>1, <2>3
  <2>5. g[1] # << >> => g[Len(started)] # << >>
    <3>1. Good(Len(started)) /\ Len(started) > 0
      BY <1>5, <2>1
    <3> HIDE DEF Upto
    <3>. QED  BY <3>1
  <2>. QED  BY <2>4, <2>5, <1>1
<1>. QED  BY <1>7, <1>9, <1>10

-----------------------------------------------------------------------------
(* The invariant. *)

\* What a request has been given, by where it is.
Outputs ==
    /\ \A r \in Requests : left[r] <= ContextNow(r) /\ emitted[r] <= Target[r]
    /\ \A r \in Members(queue) \cup Prefilling : emitted[r] < Target[r]
    /\ \A r \in Requests \ arrived : emitted[r] = 0
    /\ \A r \in done : emitted[r] = Target[r]
    /\ phase # "finishing" => \A r \in Members(running) : emitted[r] < Target[r]

\* A chunk for a request, no longer than what is left of it, and shorter when
\* the request stays started.
Batched ==
    /\ ChunksFit(batch, Prefilling)
    /\ \A r \in Members(started) : ChunkOf(batch, r) < left[r]
    /\ phase \notin {"forming", "closing", "computing"} => batch = << >>

\* The totals of the store.
Books ==
    /\ \A r \in Requests :
          /\ kv.held[r] = 0
          /\ r \notin Prefilling => kv.promised[r] = 0
    /\ kv.heldUnits[0] = 0
    /\ kv.reserved[0] = SumOver(kv.promised, Requests)
    /\ kv.resident[0] = SumOver(kv.context, kv.decodes[0])

\* The inductive invariant of the request states.
IInv == TypeOK /\ RetractionLosesNothing /\ Outputs /\ Batched /\ Books

NextStep == NextStepUnits(kv, 0, Width)

\* A bounded future: what an iteration may claim is free before it runs.
Claimed ==
    \/ Mix /\ phase \in {"scheduling", "forming", "closing", "computing"}
    \/ ~Mix /\ phase = "computing" /\ batch = << >>

BoundedRoom == Bounded =>
    /\ ProtectedUnits(kv, 0) <= Capacity
    /\ Claimed => ProtectedUnits(kv, 0) + NextStep <= Capacity

\* Full footprints: the projected peak and the promises fit.
FullRoom == ~Bounded /\ Width = 1 =>
    /\ \A r \in Prefilling : kv.promised[r] = ContextNow(r) + OutputLeft(r)
    /\ kv.peak[0] >= ReachedPeak(kv, kv.decodes[0])
    /\ kv.peak[0] + kv.reserved[0] <= Capacity
    /\ phase # "preparing"

\* The requests that decode, now or once they are prefilled.
Windows == Live \cup { q \in Prefilling : OutputLeft(q) > 1 }

\* The rows of a mixed iteration and the prompts that are half done.
Budgeted ==
    /\ TokensOf(batch) <= IterationBudget
    /\ Mix => Cardinality(Live) * Width <= BatchTokens
    /\ Mix /\ Width > 1 => Cardinality(Windows) <= BatchTokens \div Width
    /\ Quantum = 0 => /\ Len(started) <= 1
                      /\ phase = "forming" /\ started # << >> => BudgetLeft(batch) = 0

-----------------------------------------------------------------------------
(* What the operations leave of a store with one partition. *)

LEMMA OnePartition == Partitions = {0} /\ 0 \in Partitions /\ NoPartition # 0
BY ChunkedAssumption, StoreAssumption DEF Partitions

\* Everything but the retained prefixes.
SameBooks(st, new) ==
    /\ new.promised = st.promised /\ new.placement = st.placement
    /\ new.reserved = st.reserved /\ new.held = st.held
    /\ new.heldUnits = st.heldUnits /\ new.decodes = st.decodes
    /\ new.context = st.context /\ new.remaining = st.remaining
    /\ new.resident = st.resident /\ new.peak = st.peak

\* The numbers of a store.
LEMMA StoreNumbers ==
    ASSUME NEW st \in Store
    PROVE  /\ st.reserved[0] \in Int /\ st.heldUnits[0] \in Int /\ st.resident[0] \in Int
           /\ st.peak[0] \in Int /\ Capacity \in Nat
           /\ st.decodes[0] \in SUBSET Requests /\ IsFiniteSet(st.decodes[0])
           /\ LiveDecodes(st, 0) \in SUBSET Requests /\ IsFiniteSet(LiveDecodes(st, 0))
           /\ LiveDecodes(st, 0) \subseteq st.decodes[0]
           /\ \A r \in Requests : /\ st.promised[r] \in Nat /\ st.held[r] \in Nat
                                  /\ st.context[r] \in Nat /\ st.remaining[r] \in Nat
           /\ ProtectedUnits(st, 0) \in Int
<1>1. /\ st.reserved[0] \in Int /\ st.heldUnits[0] \in Int /\ st.resident[0] \in Int
      /\ st.peak[0] \in Int /\ Capacity \in Nat
      /\ st.decodes[0] \in SUBSET Requests
  BY OnePartition, StoreAssumption DEF Store, Totals
<1>2. \A r \in Requests : /\ st.promised[r] \in Nat /\ st.held[r] \in Nat
                          /\ st.context[r] \in Nat /\ st.remaining[r] \in Nat
  BY DEF Store
<1>3. LiveDecodes(st, 0) \subseteq st.decodes[0]
  BY DEF LiveDecodes
<1>4. IsFiniteSet(st.decodes[0]) /\ IsFiniteSet(LiveDecodes(st, 0))
  BY <1>1, <1>3, FiniteUniverse
<1>5. ProtectedUnits(st, 0) \in Int
  BY <1>1 DEF ProtectedUnits
<1>. QED  BY <1>1, <1>2, <1>3, <1>4, <1>5

\* The next step of the decodes.
LEMMA NextStepType ==
    ASSUME NEW st \in Store, NEW width \in Nat
    PROVE  /\ NextStepUnits(st, 0, width) \in Nat
           /\ LiveDecodes(st, 0) = {} => NextStepUnits(st, 0, width) = 0
<1> DEFINE f == [r \in Requests |-> Smaller(st.remaining[r], width)]
           L == LiveDecodes(st, 0)
<1>1. /\ L \in SUBSET Requests /\ IsFiniteSet(L)
      /\ \A r \in Requests : st.remaining[r] \in Nat
  BY StoreNumbers
<1>2. \A r \in L : f[r] \in Nat
  BY <1>1 DEF Smaller
<1>3. SumOver(f, L) \in Nat
  <2> HIDE DEF f, L
  <2>. QED  BY <1>1, <1>2, SumType
<1>4. L = {} => SumOver(f, L) = 0
  <2> HIDE DEF f, L
  <2>. QED  BY <1>1, SumZero
<1>. QED  BY <1>3, <1>4 DEF NextStepUnits

\* Other prefixes leave the rest of a store alone.
LEMMA CacheOnly ==
    ASSUME NEW st \in Store, NEW entries \in [Sessions -> Nat]
    PROVE  /\ [st EXCEPT !.cache[0] = entries] \in Store
           /\ SameBooks(st, [st EXCEPT !.cache[0] = entries])
           /\ [st EXCEPT !.cache[0] = entries].cache[0] = entries
BY OnePartition DEF Store, SameBooks

\* prepare_next_decode touches the prefixes only, and leaves those that fit
\* beside the next step.
Trims(st, width, new) ==
    /\ new \in Store /\ SameBooks(st, new)
    /\ CacheUnits(new, 0) \in Nat
    /\ ProtectedUnits(st, 0) + NextStepUnits(st, 0, width) <= Capacity =>
          ProtectedUnits(st, 0) + NextStepUnits(st, 0, width) + CacheUnits(new, 0) <= Capacity

LEMMA TrimmedIs ==
    ASSUME NEW st \in Store, NEW width \in Nat, NEW new \in TrimmedForStep(st, 0, width)
    PROVE  Trims(st, width, new)
<1> DEFINE need == ProtectedUnits(st, 0) + NextStepUnits(st, 0, width)
           limit == SaturatingSub(Capacity, need)
<1>1. need \in Int /\ Capacity \in Nat
  BY StoreNumbers, NextStepType
<1>2. PICK entries \in Shrunk(st.cache[0], limit) : new = [st EXCEPT !.cache[0] = entries]
  BY DEF TrimmedForStep
<1> HIDE DEF need
<1>3. limit \in Nat /\ (need <= Capacity => limit = Capacity - need)
  BY <1>1 DEF SaturatingSub
<1> HIDE DEF limit
<1>4. st.cache[0] \in [Sessions -> Nat]
  BY OnePartition DEF Store
<1>5. entries \in [Sessions -> Nat] /\ SumOver(entries, Sessions) \in Nat
      /\ SumOver(entries, Sessions) <= limit
  BY <1>3, <1>4, ShrunkType, ShrunkBounded
<1>6. new \in Store /\ SameBooks(st, new) /\ new.cache[0] = entries
  BY <1>2, <1>5, CacheOnly
<1>7. CacheUnits(new, 0) = SumOver(entries, Sessions)
  BY <1>6 DEF CacheUnits
<1>8. need <= Capacity => need + CacheUnits(new, 0) <= Capacity
  BY <1>1, <1>3, <1>5, <1>7
<1>. QED  BY <1>5, <1>6, <1>7, <1>8 DEF Trims, need

\* What is missing for the next step.
LEMMA ShortfallIs ==
    ASSUME NEW st \in Store, NEW width \in Nat, CacheUnits(st, 0) \in Nat
    PROVE  /\ Shortfall(st, 0, width) \in Nat
           /\ Shortfall(st, 0, width) = 0 /\ ProtectedUnits(st, 0) <= Capacity =>
                 ProtectedUnits(st, 0) + NextStepUnits(st, 0, width) <= Capacity
           /\ ProtectedUnits(st, 0) + NextStepUnits(st, 0, width) + CacheUnits(st, 0) <= Capacity =>
                 Shortfall(st, 0, width) = 0
<1>1. /\ ProtectedUnits(st, 0) \in Int /\ Capacity \in Nat
      /\ NextStepUnits(st, 0, width) \in Nat
  BY StoreNumbers, NextStepType
<1>. QED  BY <1>1 DEF Shortfall, SaturatingSub

\* A reservation: one more promise, and fewer prefixes.
Reserves(st, r, units, new) ==
    /\ ReservedFor(st, r, 0, units, new)
    /\ new.reserved[0] = st.reserved[0] + units
    /\ new.held = st.held /\ new.heldUnits = st.heldUnits
    /\ new.resident = st.resident /\ new.peak = st.peak

LEMMA PrefillReserves ==
    ASSUME NEW st \in Store, NEW r \in Requests, NEW units \in Nat,
           NEW new \in ReservedPrefill(st, r, 0, units)
    PROVE  Reserves(st, r, units, new)
<1>1. ReservedFor(st, r, 0, units, new)
  BY OnePartition, ReservedForIt
<1>2. /\ new.reserved[0] = st.reserved[0] + units
      /\ new.held = st.held /\ new.heldUnits = st.heldUnits
      /\ new.resident = st.resident /\ new.peak = st.peak
  BY OnePartition, ReservedPrefillTotals
<1>. QED  BY <1>1, <1>2 DEF Reserves

\* A bounded reservation is a promise with other prefixes.
LEMMA BoundedReserves ==
    ASSUME NEW st \in Store, NEW r \in Requests, NEW units \in Nat,
           NEW new \in ReservedBounded(st, r, 0, units)
    PROVE  Reserves(st, r, units, new)
<1> DEFINE taken == IF HasSession(r)
                    THEN [st EXCEPT !.cache[0][SessionOf[r]] = 0] ELSE st
           promised == Promise(taken, r, 0, units)
           limit == SaturatingSub(Capacity, ProtectedUnits(promised, 0))
<1>1. taken \in Store /\ SameBooks(st, taken)
  <2>1. CASE HasSession(r)
    <3> DEFINE cut == [st.cache[0] EXCEPT ![SessionOf[r]] = 0]
    <3>1. cut \in [Sessions -> Nat]
      BY OnePartition DEF Store
    <3>2. taken = [st EXCEPT !.cache[0] = cut]
      BY <2>1
    <3> HIDE DEF cut, taken
    <3>. QED  BY <3>1, <3>2, CacheOnly
  <2>2. CASE ~HasSession(r)
    BY <2>2 DEF SameBooks
  <2>. QED  BY <2>1, <2>2
<1>2. PICK entries \in Shrunk(taken.cache[0], limit) :
         new = [promised EXCEPT !.cache[0] = entries]
  BY DEF ReservedBounded
<1> HIDE DEF taken
<1>3. /\ promised \in Store
      /\ promised.promised = [taken.promised EXCEPT ![r] = units]
      /\ promised.placement = [taken.placement EXCEPT ![r] = 0]
      /\ promised.reserved = [taken.reserved EXCEPT ![0] = taken.reserved[0] + units]
      /\ promised.held = taken.held /\ promised.heldUnits = taken.heldUnits
      /\ promised.decodes = taken.decodes
      /\ promised.context = taken.context /\ promised.remaining = taken.remaining
      /\ promised.resident = taken.resident /\ promised.peak = taken.peak
  <2>1. promised \in Store
    BY <1>1, OnePartition, PromiseType
  <2>. QED  BY <1>1, <2>1 DEF Promise, Store
<1> HIDE DEF promised, limit
<1>4. entries \in [Sessions -> Nat]
  <2>1. taken.cache[0] \in [Sessions -> Nat]
    BY <1>1, OnePartition DEF Store
  <2>. QED  BY <2>1, <1>2, ShrunkType
<1>5. new \in Store /\ SameBooks(promised, new)
  BY <1>2, <1>3, <1>4, CacheOnly
<1>6. ReservedFor(st, r, 0, units, new)
  BY <1>1, <1>3, <1>5 DEF ReservedFor, SameBooks
<1>7. new.reserved[0] = st.reserved[0] + units
  <2>1. new.reserved = [st.reserved EXCEPT ![0] = st.reserved[0] + units]
    BY <1>1, <1>3, <1>5 DEF SameBooks
  <2>. QED  BY <2>1, OnePartition DEF Store, Totals
<1>8. /\ new.held = st.held /\ new.heldUnits = st.heldUnits
      /\ new.resident = st.resident /\ new.peak = st.peak
  BY <1>1, <1>3, <1>5 DEF SameBooks
<1>. QED  BY <1>6, <1>7, <1>8 DEF Reserves

\* The reservation of an admission, under either policy.
LEMMA ReservationsAre ==
    ASSUME kv \in Store, NEW r \in Requests, FootprintOf(r) \in Nat, NEW new \in Reservations(r)
    PROVE  Reserves(kv, r, FootprintOf(r), new)
BY PrefillReserves, BoundedReserves DEF Reservations

\* A decode leaves with its KV.
Releases(st, r, new) ==
    /\ ReleasedFrom(st, r, 0, new)
    /\ new.reserved = st.reserved /\ new.held = st.held
    /\ new.heldUnits = st.heldUnits
    /\ new.resident[0] = st.resident[0] - st.context[r]
    /\ new.peak[0] = ProjectedPeak(st, st.decodes[0] \ {r})

Leaving(st, r) == st.held[r] = 0 /\ st.promised[r] = 0 /\ r \in st.decodes[0]

LEMMA ReleasedReleases ==
    ASSUME NEW st \in Store, NEW r \in Requests, Leaving(st, r)
    PROVE  Releases(st, r, Released(st, r, 0))
<1> DEFINE new == Released(st, r, 0)
<1>1. /\ new \in Store
      /\ new.placement = [st.placement EXCEPT ![r] = NoPartition]
      /\ new.promised = [st.promised EXCEPT ![r] = 0]
      /\ new.decodes = [st.decodes EXCEPT ![0] = st.decodes[0] \ {r}]
      /\ \A q \in Requests \ {r} : /\ new.context[q] = st.context[q]
                                   /\ new.remaining[q] = st.remaining[q]
  BY OnePartition, ReleasedType
<1>2. /\ new.reserved = st.reserved /\ new.held = st.held
      /\ new.heldUnits = st.heldUnits
      /\ new.resident[0] = st.resident[0] - st.context[r]
      /\ new.peak[0] = ProjectedPeak(st, st.decodes[0] \ {r})
  BY OnePartition, ReleasedTotals DEF Leaving
<1> HIDE DEF new
<1>. QED  BY <1>1, <1>2 DEF Releases, ReleasedFrom, new

\* The prefix that stays behind changes none of this.
LEMMA RetainingReleases ==
    ASSUME NEW st \in Store, NEW r \in Requests, Leaving(st, r),
           NEW new \in ReleasedRetainingPrefix(st, r, 0)
    PROVE  Releases(st, r, new)
<1> DEFINE bare == Released(st, r, 0)
<1>1. Releases(st, r, bare) /\ bare \in Store
  BY ReleasedReleases DEF Releases, ReleasedFrom
<1>2. new \in Store /\ new = [bare EXCEPT !.cache = new.cache]
  BY OnePartition, ReleasedRetainingPrefixType
<1> HIDE DEF bare
<1>3. SameBooks(bare, new)
  BY <1>1, <1>2, ZenonT(30) DEF SameBooks, Store
<1>4. ReleasedFrom(st, r, 0, new)
  BY <1>1, <1>2, <1>3 DEF Releases, ReleasedFrom, SameBooks
<1>. QED  BY <1>1, <1>3, <1>4 DEF Releases, SameBooks

\* The steps the decodes may take: no more than each has left.
Stepping(st, steps) ==
    /\ DOMAIN steps \subseteq LiveDecodes(st, 0)
    /\ \A r \in DOMAIN steps : steps[r] \in Nat /\ steps[r] <= st.remaining[r]

\* advance.
Advances(st, steps, new) ==
    /\ new \in Store
    /\ new.promised = st.promised /\ new.placement = st.placement
    /\ new.reserved = st.reserved /\ new.held = st.held
    /\ new.heldUnits = st.heldUnits /\ new.decodes = st.decodes
    /\ \A r \in Requests :
          /\ new.context[r] = IF r \in DOMAIN steps THEN st.context[r] + steps[r]
                                                    ELSE st.context[r]
          /\ new.remaining[r] = IF r \in DOMAIN steps THEN st.remaining[r] - steps[r]
                                                      ELSE st.remaining[r]
    /\ new.resident[0] = st.resident[0] + SumOver(steps, DOMAIN steps)
    /\ new.peak = st.peak

LEMMA AdvancedIs ==
    ASSUME NEW st \in Store, NEW steps, Stepping(st, steps)
    PROVE  Advances(st, steps, AdvancedBy(st, steps))
<1> DEFINE live == DOMAIN steps
           context == [r \in Requests |->
              IF r \in live THEN st.context[r] + steps[r] ELSE st.context[r]]
           remaining == [r \in Requests |->
              IF r \in live THEN st.remaining[r] - steps[r] ELSE st.remaining[r]]
           resident == [p \in Partitions |->
              st.resident[p] + SumOver(steps, live \cap st.decodes[p])]
           new == AdvancedBy(st, steps)
<1>1. new = [st EXCEPT !.context = context, !.remaining = remaining, !.resident = resident]
  BY DEF AdvancedBy
<1>2. /\ live \subseteq Requests /\ live \cap st.decodes[0] = live
      /\ \A r \in live : steps[r] \in Nat /\ steps[r] <= st.remaining[r]
  BY StoreNumbers DEF Stepping
<1>3. context \in [Requests -> Nat] /\ remaining \in [Requests -> Nat]
  BY <1>2, StoreNumbers
<1>4. SumOver(steps, live) \in Nat
  <2>1. IsFiniteSet(live)
    BY <1>2, FiniteUniverse
  <2> HIDE DEF live
  <2>. QED  BY <2>1, <1>2, SumType
<1>5. resident \in Totals /\ resident[0] = st.resident[0] + SumOver(steps, live)
  BY <1>2, <1>4, OnePartition, StoreNumbers DEF Totals
<1>6. \A r \in Requests :
          /\ context[r] = IF r \in live THEN st.context[r] + steps[r] ELSE st.context[r]
          /\ remaining[r] = IF r \in live THEN st.remaining[r] - steps[r] ELSE st.remaining[r]
  OBVIOUS
<1> HIDE DEF new, context, remaining, resident, live
<1>7. new \in Store
  BY <1>1, <1>3, <1>5 DEF Store
<1>8. /\ new.promised = st.promised /\ new.placement = st.placement
      /\ new.reserved = st.reserved /\ new.held = st.held
      /\ new.heldUnits = st.heldUnits /\ new.decodes = st.decodes
      /\ new.context = context /\ new.remaining = remaining
      /\ new.resident = resident /\ new.peak = st.peak
  BY <1>1 DEF Store
<1>. QED  BY <1>5, <1>6, <1>7, <1>8 DEF Advances, new, live

\* The end of an iteration: decodes advance, finished prefills begin theirs.
Iteration(st, steps, S, tokens, left_, new) ==
    /\ new \in Store
    /\ new.promised = [r \in Requests |-> IF r \in S THEN 0 ELSE st.promised[r]]
    /\ new.placement = st.placement
    /\ new.decodes[0] = st.decodes[0] \cup S
    /\ \A r \in Requests \ S :
          /\ new.context[r] = IF r \in DOMAIN steps THEN st.context[r] + steps[r]
                                                    ELSE st.context[r]
          /\ new.remaining[r] = IF r \in DOMAIN steps THEN st.remaining[r] - steps[r]
                                                      ELSE st.remaining[r]
    /\ \A r \in S : new.context[r] = tokens[r] /\ new.remaining[r] = left_[r]
    /\ new.held = st.held /\ new.heldUnits = st.heldUnits
    /\ new.reserved[0] = st.reserved[0] - SumOver(st.promised, S)
    /\ new.resident[0] = (st.resident[0] + SumOver(steps, DOMAIN steps)) + SumOver(tokens, S)
    /\ S = {} => new.peak[0] = st.peak[0]
    /\ S # {} => new.peak[0] = ProjectedPeak(new, st.decodes[0] \cup S)

\* What a commit takes.
Committing(st, S, tokens, left_) ==
    /\ S \subseteq PlacedOn(st, 0)
    /\ tokens \in [Requests -> Nat] /\ \A r \in S : left_[r] \in Nat

LEMMA IterationIs ==
    ASSUME NEW st \in Store, NEW steps, Stepping(st, steps),
           NEW S, NEW tokens, NEW left_, Committing(st, S, tokens, left_)
    PROVE  Iteration(st, steps, S, tokens, left_,
                     Committed(AdvancedBy(st, steps), S, tokens, left_))
<1> DEFINE mid == AdvancedBy(st, steps)
           new == Committed(mid, S, tokens, left_)
<1>1. Advances(st, steps, mid)
  BY AdvancedIs
<1> HIDE DEF mid
<1>2. mid \in Store /\ S \in SUBSET Requests /\ tokens \in [Requests -> Nat]
      /\ \A r \in S : left_[r] \in Nat
  BY <1>1 DEF Advances, Committing, PlacedOn
<1>3. S \cap PlacedOn(mid, 0) = S
  BY <1>1 DEF Advances, Committing, PlacedOn
<1>4. new \in Store
  BY <1>2, CommittedType
<1>5. /\ new.promised = [r \in Requests |-> IF r \in S THEN 0 ELSE mid.promised[r]]
      /\ new.placement = mid.placement
      /\ new.decodes = [p \in Partitions |-> mid.decodes[p] \cup (S \cap PlacedOn(mid, p))]
      /\ new.context = [r \in Requests |-> IF r \in S THEN tokens[r] ELSE mid.context[r]]
      /\ new.remaining = [r \in Requests |-> IF r \in S THEN left_[r] ELSE mid.remaining[r]]
  BY <1>2, CommittedFields
<1>6. /\ new.reserved[0] = mid.reserved[0] - SumOver(mid.promised, S)
      /\ new.resident[0] = mid.resident[0] + SumOver(tokens, S)
      /\ S = {} => new.peak[0] = mid.peak[0]
      /\ S # {} => new.peak[0] = ProjectedPeak(new, new.decodes[0])
      /\ new.held = mid.held /\ new.heldUnits = mid.heldUnits
  <2>1. LET joined == new
            on(q) == S \cap PlacedOn(mid, q)
        IN  /\ \A q \in Partitions :
                  /\ joined.reserved[q] = mid.reserved[q] - SumOver(mid.promised, on(q))
                  /\ joined.resident[q] = mid.resident[q] + SumOver(tokens, on(q))
                  /\ on(q) = {} => joined.peak[q] = mid.peak[q]
                  /\ on(q) # {} => joined.peak[q] = ProjectedPeak(joined, joined.decodes[q])
            /\ joined.held = mid.held /\ joined.heldOn = mid.heldOn
            /\ joined.heldUnits = mid.heldUnits
            /\ joined.cache = mid.cache
    BY ONLY <1>2, CommittedTotals, SMTT(60)
  <2> HIDE DEF new
  <2>. QED  BY <2>1, <1>3, OnePartition
<1> HIDE DEF new
<1>7. new.decodes[0] = st.decodes[0] \cup S
  BY <1>1, <1>3, <1>5, OnePartition DEF Advances
<1>8. new.promised = [r \in Requests |-> IF r \in S THEN 0 ELSE st.promised[r]]
      /\ new.placement = st.placement /\ new.held = st.held /\ new.heldUnits = st.heldUnits
  BY <1>1, <1>5, <1>6 DEF Advances
<1>9. \A r \in Requests \ S :
         /\ new.context[r] = mid.context[r] /\ new.remaining[r] = mid.remaining[r]
  BY <1>5
<1>10. \A r \in S : new.context[r] = tokens[r] /\ new.remaining[r] = left_[r]
  BY <1>2, <1>5
<1>11. /\ new.reserved[0] = st.reserved[0] - SumOver(st.promised, S)
       /\ new.resident[0] = (st.resident[0] + SumOver(steps, DOMAIN steps)) + SumOver(tokens, S)
       /\ S = {} => new.peak[0] = st.peak[0]
       /\ S # {} => new.peak[0] = ProjectedPeak(new, st.decodes[0] \cup S)
  BY <1>1, <1>6, <1>7 DEF Advances
<1>12. \A r \in Requests \ S :
          /\ new.context[r] = IF r \in DOMAIN steps THEN st.context[r] + steps[r]
                                                    ELSE st.context[r]
          /\ new.remaining[r] = IF r \in DOMAIN steps THEN st.remaining[r] - steps[r]
                                                      ELSE st.remaining[r]
  BY <1>1, <1>9 DEF Advances
<1>. QED  BY <1>4, <1>7, <1>8, <1>10, <1>11, <1>12, Zenon DEF Iteration, new, mid

-----------------------------------------------------------------------------
(* What an admission reads. *)

\* A pending request computes some of its context, and finds the rest resident.
LEMMA PrefillIs ==
    ASSUME NEW st \in Store, NEW r \in Requests, emitted[r] \in Nat
    PROVE  /\ ContextNow(r) \in Nat /\ OutputLeft(r) \in Int
           /\ PrefillTokens(st, r) \in Nat /\ PrefillTokens(st, r) <= ContextNow(r)
           /\ PrefixMatch(st, r) \in Nat
<1>1. /\ Fresh[r] \in Nat /\ Declared[r] \in Nat /\ Target[r] \in Nat
      /\ ContextOf(r) = Fresh[r] + Declared[r]
  BY WorkloadType DEF ContextOf
<1>2. ContextNow(r) = Fresh[r] + Declared[r] + emitted[r] /\ OutputLeft(r) \in Int
  BY <1>1 DEF ContextNow, OutputLeft
<1>3. PrefixHit(st, 0, r) \in Nat /\ PrefixHit(st, 0, r) <= Declared[r]
  BY <1>1, OnePartition, PeekType DEF PrefixHit
<1>4. PrefillTokens(st, r) \in Nat /\ PrefillTokens(st, r) <= ContextNow(r)
  BY <1>1, <1>2, <1>3 DEF PrefillTokens, PrefillTokensToCompute
<1>. QED  BY <1>1, <1>2, <1>4 DEF PrefixMatch

\* A request is charged at least its context.
LEMMA FootprintIs ==
    ASSUME config \in Configs, NEW r \in Requests, emitted[r] \in Nat, emitted[r] <= Target[r]
    PROVE  /\ FootprintOf(r) \in Nat
           /\ emitted[r] < Target[r] => FootprintOf(r) > 0
           /\ ContextNow(r) <= FootprintOf(r)
           /\ ~Bounded => FootprintOf(r) = ContextNow(r) + OutputLeft(r)
<1>1. /\ Target[r] \in Nat /\ Target[r] > 0 /\ ContextOf(r) \in Nat
  BY WorkloadType
<1>2. /\ ContextNow(r) \in Nat /\ OutputLeft(r) \in Nat
      /\ emitted[r] < Target[r] => OutputLeft(r) > 0
  BY <1>1 DEF ContextNow, OutputLeft
<1>3. MaxFuture \in Nat
  BY ConfigType
<1>. QED  BY <1>2, <1>3 DEF FootprintOf, BoundedFootprint, Footprint, Smaller

\* The head of a queue is one of its requests: the front, or the earliest of
\* those with the longest match.
LEMMA HeadIsMember ==
    ASSUME queue \in Seq(Requests), Distinct(queue), queue # << >>, matched \in [Requests -> Nat]
    PROVE  /\ NextPending \in Members(queue)
           /\ LongestPrefix => \A q \in Members(queue) \ {NextPending} :
                 \/ matched[q] < matched[NextPending]
                 \/ /\ matched[q] = matched[NextPending]
                    /\ PositionIn(queue, NextPending) < PositionIn(queue, q)
<1>1. /\ Members(queue) \subseteq Requests /\ IsFiniteSet(Members(queue))
      /\ Members(queue) # {}
  BY MembersOf
<1>2. CASE ~LongestPrefix
  <2>1. Head(queue) \in Members(queue)
    <3>1. Head(queue) = queue[1] /\ 1 \in 1 .. Len(queue)
      OBVIOUS
    <3>. QED  BY <3>1 DEF Members
  <2>. QED  BY <1>2, <2>1 DEF NextPending
<1>3. CASE LongestPrefix
  <2> DEFINE Best(r) == \A q \in Members(queue) \ {r} :
                 \/ matched[q] < matched[r]
                 \/ /\ matched[q] = matched[r]
                    /\ PositionIn(queue, r) < PositionIn(queue, q)
             most == { matched[r] : r \in Members(queue) }
  <2>1. PICK m \in Members(queue) : \A q \in Members(queue) : matched[m] >= matched[q]
    <3>1. IsFiniteSet(most)
      BY <1>1, FiniteImage
    <3>2. most # {} /\ \A x \in most : x \in Int
      BY <1>1
    <3> HIDE DEF most
    <3>3. PICK x \in most : \A y \in most : x >= y
      BY <3>1, <3>2, MaxExists
    <3>. QED  BY <3>3 DEF most
  <2> DEFINE top == { PositionIn(queue, r) : r \in { q \in Members(queue) : matched[q] = matched[m] } }
  <2>2. top \in SUBSET Nat /\ top # {}
    <3>1. \A r \in Members(queue) : PositionIn(queue, r) \in 1 .. Len(queue)
      BY PositionOf
    <3>. QED  BY <3>1
  <2>3. PICK i \in top : \A j \in top : i <= j
    <3> HIDE DEF top
    <3>. QED  BY <2>2, LeastElement
  <2>4. PICK r \in Members(queue) : matched[r] = matched[m] /\ i = PositionIn(queue, r)
    BY <2>3
  <2>5. Best(r)
    <3>1. SUFFICES ASSUME NEW q \in Members(queue), q # r
                   PROVE  \/ matched[q] < matched[r]
                          \/ /\ matched[q] = matched[r]
                             /\ PositionIn(queue, r) < PositionIn(queue, q)
      OBVIOUS
    <3>2. matched[q] \in Nat /\ matched[r] \in Nat /\ matched[q] <= matched[r]
      BY <1>1, <2>1, <2>4
    <3>3. CASE matched[q] = matched[r]
      <4>1. i <= PositionIn(queue, q)
        BY <2>3, <2>4, <3>3
      <4>2. /\ PositionIn(queue, q) \in Nat /\ PositionIn(queue, r) \in Nat
            /\ PositionIn(queue, q) # PositionIn(queue, r)
        <5>1. queue[PositionIn(queue, q)] = q /\ queue[PositionIn(queue, r)] = r
          BY PositionOf
        <5>2. PositionIn(queue, q) \in 1 .. Len(queue) /\ PositionIn(queue, r) \in 1 .. Len(queue)
          BY PositionOf
        <5>. QED  BY <5>1, <5>2, <3>1
      <4>. QED  BY <3>3, <4>1, <4>2, <2>4
    <3>. QED  BY <3>2, <3>3
  <2> HIDE DEF Best
  <2>6. NextPending = CHOOSE x \in Members(queue) : Best(x)
    BY <1>3 DEF NextPending, Best
  <2>7. NextPending \in Members(queue) /\ Best(NextPending)
    BY <2>5, <2>6
  <2>. QED  BY <2>7 DEF Best
<1>. QED  BY <1>2, <1>3

-----------------------------------------------------------------------------
(* Every request is somewhere, with its tokens. *)

\* What TypeOK says of the queues, one by one.
LEMMA QueuesType ==
    ASSUME TypeOK
    PROVE  /\ queue \in Seq(Requests) /\ started \in Seq(Requests)
           /\ running \in Seq(Requests) /\ entered \in Seq(Requests)
           /\ Distinct(queue) /\ Distinct(started) /\ Distinct(running) /\ Distinct(entered)
           /\ Members(queue) \subseteq Requests /\ Members(started) \subseteq Requests
           /\ Members(running) \subseteq Requests /\ Members(entered) \subseteq Requests
<1>1. /\ queue \in Seq(Requests) /\ started \in Seq(Requests)
      /\ running \in Seq(Requests) /\ entered \in Seq(Requests)
      /\ Distinct(queue) /\ Distinct(started) /\ Distinct(running) /\ Distinct(entered)
  BY DEF TypeOK
<1>. QED  BY <1>1, MembersOf

\* A new worker.
LEMMA InitInv == Init => IInv
<1>. SUFFICES ASSUME Init PROVE IInv
  OBVIOUS
<1>1. << >> \in Seq(Requests) /\ Distinct(<< >>) /\ Members(<< >>) = {}
  <2>1. << >> \in Seq(Requests) /\ Len(<< >>) = 0
    OBVIOUS
  <2>. QED  BY <2>1 DEF Distinct, Members
<1>2. kv \in Store /\ kv = EmptyStore
  BY EmptyStoreType DEF Init
<1>3. TypeOK
  <2>1. ratio.part \in 0 .. ratio.of /\ ratio.of \in Nat \ {0}
    <3>1. config \in Configs /\ ratio = Configured(InitialRatio)
      BY DEF Init
    <3>. QED  BY <3>1, ConfigType DEF Configured
  <2>2. batch \in Seq([req : Requests, tokens : Nat \ {0}])
    BY DEF Init
  <2>. QED  BY <1>1, <1>2, <2>1, <2>2 DEF Init, TypeOK
<1>4. Prefilling = {}
  BY DEF Init, Prefilling
<1>5. /\ \A r \in Requests : /\ kv.held[r] = 0 /\ kv.promised[r] = 0
                             /\ kv.placement[r] = NoPartition
      /\ kv.heldUnits[0] = 0 /\ kv.reserved[0] = 0 /\ kv.resident[0] = 0
      /\ kv.decodes[0] = {}
  BY <1>2, OnePartition DEF EmptyStore
<1>6. RetractionLosesNothing
  BY <1>1, <1>4, <1>5 DEF Init, RetractionLosesNothing
<1>7. Outputs
  BY <1>1, <1>4, WorkloadType DEF Init, Outputs, ContextNow
<1>8. Batched
  <2>1. \A S : ChunksFit(<< >>, S)
    BY TokensEmpty DEF ChunksFit
  <2>. QED  BY <1>1, <2>1 DEF Init, Batched
<1>9. Books
  <2>1. SumOver(kv.promised, Requests) = 0 /\ SumOver(kv.context, {}) = 0
    BY <1>5, FiniteUniverse, SumZero
  <2>. QED  BY <1>5, <2>1 DEF Books
<1>. QED  BY <1>3, <1>6, <1>7, <1>8, <1>9 DEF IInv

\* A step that moves no request keeps the places and the books.
Unmoved ==
    /\ UNCHANGED << arrived, queue, started, batch, left, running, entered, emitted, done >>
    /\ kv' \in Store /\ SameBooks(kv, kv')
    /\ phase # "finishing"
    /\ phase' \in {"forming", "closing", "computing"} \/ batch = << >>

LEMMA UnmovedKeeps ==
    ASSUME IInv, Unmoved
    PROVE  RetractionLosesNothing' /\ Outputs' /\ Batched' /\ Books'
<1>1. Prefilling' = Prefilling
  BY DEF Unmoved, Prefilling
<1>2. \A r : ContextNow(r)' = ContextNow(r) /\ OutputLeft(r)' = OutputLeft(r)
  BY DEF Unmoved, ContextNow, OutputLeft
<1>3. RetractionLosesNothing'
  BY <1>1, <1>2 DEF IInv, RetractionLosesNothing, Unmoved, SameBooks
<1>4. Outputs'
  BY <1>1, <1>2 DEF IInv, Outputs, Unmoved
<1>5. Batched'
  BY <1>1 DEF IInv, Batched, Unmoved, ChunksFit
<1>6. Books'
  BY <1>1 DEF IInv, Books, Unmoved, SameBooks
<1>. QED  BY <1>3, <1>4, <1>5, <1>6

\* form_batch begins.
LEMMA BeginBatchInv ==
    ASSUME IInv, BeginBatch
    PROVE  IInv'
<1>1. TypeOK'
  BY DEF IInv, TypeOK, BeginBatch, StartForming
<1>2. Unmoved
  BY DEF IInv, TypeOK, Batched, BeginBatch, Unmoved, SameBooks
<1>. QED  BY <1>1, <1>2, UnmovedKeeps DEF IInv

\* The assertion of prepare_decode.
LEMMA AbortInv ==
    ASSUME IInv, Abort
    PROVE  IInv'
<1>1. TypeOK'
  BY DEF IInv, TypeOK, Abort
<1>2. Unmoved
  BY DEF IInv, TypeOK, Batched, Abort, Unmoved, SameBooks
<1>. QED  BY <1>1, <1>2, UnmovedKeeps DEF IInv

\* refresh_head.
LEMMA RefreshHeadInv ==
    ASSUME IInv, RefreshHead
    PROVE  IInv'
<1>1. /\ queue # << >> /\ phase = "forming"
      /\ matched' = [matched EXCEPT ![NextPending] = PrefixMatch(kv, NextPending)]
      /\ UNCHANGED << config, arrived, kv, queue, started, batch, left, running, entered,
                      ratio, retracted, phase, emitted, done >>
  BY DEF RefreshHead, MayRefresh
<1>2. NextPending \in Requests
  BY <1>1, QueuesType, HeadIsMember DEF IInv, TypeOK
<1>3. PrefixMatch(kv, NextPending) \in Nat
  BY <1>2, PrefillIs DEF IInv, TypeOK
<1>4. TypeOK'
  BY <1>1, <1>2, <1>3 DEF IInv, TypeOK
<1>5. Unmoved
  BY <1>1 DEF IInv, TypeOK, Unmoved, SameBooks
<1>. QED  BY <1>4, <1>5, UnmovedKeeps DEF IInv

\* The batch is complete.
LEMMA CloseBatchInv ==
    ASSUME IInv, CloseBatch
    PROVE  IInv'
<1>1. /\ phase \in {"closing", "forming"}
      /\ phase' \in {"idle", "preparing", "computing"}
      /\ phase' # "computing" => batch = << >>
      /\ ratio' \in {ratio, Configured(InitialRatio)}
      /\ UNCHANGED << config, arrived, kv, queue, matched, started, batch, left, running,
                      entered, retracted, emitted, done >>
  BY DEF CloseBatch
<1>2. Configured(InitialRatio).part \in 0 .. Configured(InitialRatio).of
      /\ Configured(InitialRatio).of \in Nat \ {0}
  BY ConfigType DEF IInv, TypeOK, Configured
<1>3. TypeOK'
  BY <1>1, <1>2 DEF IInv, TypeOK
<1>4. Unmoved
  BY <1>1 DEF IInv, TypeOK, Unmoved, SameBooks
<1>. QED  BY <1>3, <1>4, UnmovedKeeps DEF IInv

\* A ratio is a fraction of at most one.
IsRatio(q) == q.part \in 0 .. q.of /\ q.of \in Nat \ {0}

LEMMA Products ==
    /\ \A a, b \in Nat : a * b \in Nat
    /\ \A a, b \in Nat \ {0} : a * b \in Nat \ {0}
    /\ \A a, b, c \in Nat : a <= b => a * c <= b * c
    /\ \A a \in Int : \A b \in Nat : a <= 0 => a * b <= 0
<1>1. /\ \A a, b \in Nat : a * b \in Nat
      /\ \A a \in Int : \A b \in Nat : a <= 0 => a * b <= 0
  OBVIOUS
<1>2. \A a, b \in Nat \ {0} : a * b \in Nat \ {0}
  OBVIOUS
<1>3. \A a, b, c \in Nat : a <= b => a * c <= b * c
  OBVIOUS
<1>. QED  BY <1>1, <1>2, <1>3

\* decay_new_token_ratio leaves a ratio.
LEMMA DecayedIs ==
    ASSUME config \in Configs, NEW q, IsRatio(q)
    PROVE  IsRatio(Decayed(q))
<1> DEFINE scale == IF q.of % RatioOf = 0 THEN 1 ELSE RatioOf
           of == q.of * scale
           less == RatioDecay * (of \div RatioOf)
           whole == q.part * scale
           part == whole - less
<1>1. /\ q.part \in Nat /\ q.of \in Nat \ {0} /\ q.part <= q.of
      /\ RatioOf \in Nat \ {0} /\ RatioDecay \in Nat
      /\ MinimumRatio \in 0 .. RatioOf
  BY ConfigType DEF IsRatio
<1>2. scale \in Nat \ {0}
  BY <1>1
<1> HIDE DEF scale
<1>3. of \in Nat \ {0} /\ whole \in Nat /\ whole <= of
  BY <1>1, <1>2, Products
<1> HIDE DEF of, whole
<1>4. less \in Nat
  <2>1. of \div RatioOf \in Nat
    BY <1>1, <1>3
  <2>. QED  BY <1>1, <2>1, Products
<1> HIDE DEF less
<1>5. part \in Int /\ part <= of
  BY <1>3, <1>4
<1>6. part <= 0 => part * RatioOf <= MinimumRatio * of
  <2>1. part <= 0 => part * RatioOf <= 0
    <3> HIDE DEF part
    <3>. QED  BY <1>1, <1>5, Products
  <2>2. MinimumRatio * of \in Nat
    BY <1>1, <1>3, Products
  <2>3. part * RatioOf \in Int
    BY <1>1, <1>5
  <2>. QED  BY <2>1, <2>2, <2>3
<1>7. Decayed(q) = IF part * RatioOf <= MinimumRatio * of
                   THEN Configured(MinimumRatio) ELSE [part |-> part, of |-> of]
  BY DEF Decayed, scale, of, less, whole
<1>8. IsRatio(Configured(MinimumRatio))
  BY <1>1 DEF IsRatio, Configured
<1>9. CASE part * RatioOf <= MinimumRatio * of
  BY <1>7, <1>8, <1>9
<1>10. CASE ~(part * RatioOf <= MinimumRatio * of)
  <2>1. ~(part <= 0)
    BY <1>6, <1>10
  <2>2. Decayed(q) = [part |-> part, of |-> of]
    BY <1>7, <1>10
  <2> HIDE DEF part
  <2>3. part \in 0 .. of
    BY <1>3, <1>5, <2>1
  <2>. QED  BY <1>3, <2>2, <2>3 DEF IsRatio
<1>. QED  BY <1>9, <1>10

\* update_ratio_after_retraction does.
LEMMA RetractedRatioIs ==
    ASSUME config \in Configs, kv \in Store, emitted \in [Requests -> Nat]
    PROVE  IsRatio(RatioAfterRetraction)
<1> DEFINE part == SumOver(emitted, Live) + RetractSteps * Cardinality(Live)
           of == SumOver(Target, Live) + 1
<1>1. Live \in SUBSET Requests /\ IsFiniteSet(Live) /\ Cardinality(Live) \in Nat
  BY StoreNumbers, FiniteUniverse DEF Live
<1>2. SumOver(emitted, Live) \in Nat
  <2>1. \A r \in Live : emitted[r] \in Nat
    BY <1>1
  <2>. QED  BY <1>1, <2>1, SumType
<1>3. SumOver(Target, Live) \in Nat
  <2>1. \A r \in Live : Target[r] \in Nat
    BY <1>1, WorkloadType
  <2>. QED  BY <1>1, <2>1, SumType
<1>4. RatioOf \in Nat \ {0} /\ RetractSteps \in Nat \ {0}
  BY ConfigType
<1>5. RetractSteps * Cardinality(Live) \in Nat
  BY <1>1, <1>4, Products
<1>6. part \in Nat /\ of \in Nat \ {0}
  BY <1>2, <1>3, <1>5
<1>7. RatioAfterRetraction = IF part >= of THEN Configured(RatioOf)
                                           ELSE [part |-> part, of |-> of]
  BY DEF RatioAfterRetraction
<1> HIDE DEF part, of
<1>. QED  BY <1>4, <1>6, <1>7 DEF IsRatio, Configured

\* prepare_decode ends.
LEMMA PreparedInv ==
    ASSUME IInv, Prepared
    PROVE  IInv'
<1>1. /\ phase = "preparing" /\ kv' \in TrimmedForStep(kv, 0, Width)
      /\ ratio' \in {RatioAfterRetraction, Decayed(ratio)}
      /\ retracted' = (retracted /\ Mix)
      /\ phase' \in {"scheduling", "computing"}
      /\ UNCHANGED << config, arrived, queue, matched, started, batch, left, running, entered,
                      emitted, done >>
  BY DEF Prepared, AfterPreparing
<1>2. kv' \in Store /\ SameBooks(kv, kv')
  BY <1>1, ConfigType, TrimmedIs DEF IInv, TypeOK, Trims
<1>3. IsRatio(ratio')
  <2>1. IsRatio(ratio)
    BY DEF IInv, TypeOK, IsRatio
  <2>. QED  BY <1>1, <2>1, DecayedIs, RetractedRatioIs DEF IInv, TypeOK
<1>4. TypeOK'
  <2>1. retracted' \in BOOLEAN
    BY <1>1
  <2>. QED  BY <1>1, <1>2, <1>3, <2>1 DEF IInv, TypeOK, IsRatio
<1>5. Unmoved
  BY <1>1, <1>2 DEF IInv, Batched, Unmoved
<1>. QED  BY <1>4, <1>5, UnmovedKeeps DEF IInv

\* accept_message: the request was nowhere before.
LEMMA EnqueueInv ==
    ASSUME IInv, NEW r \in Requests, Enqueue(r)
    PROVE  IInv'
<1>1. /\ r \notin arrived /\ phase \in {"idle", "computing"}
      /\ arrived' = arrived \cup {r} /\ queue' = Append(queue, r)
      /\ matched' = [matched EXCEPT ![r] = PrefixMatch(kv, r)]
      /\ UNCHANGED << config, kv, started, batch, left, running, entered, ratio,
                      retracted, phase, emitted, done >>
  BY DEF Enqueue
<1>2. Prefilling' = Prefilling
  BY <1>1 DEF Prefilling
<1>3. \A q : ContextNow(q)' = ContextNow(q) /\ OutputLeft(q)' = OutputLeft(q)
  BY <1>1 DEF ContextNow, OutputLeft
<1>4. r \notin Members(queue) /\ r \notin Prefilling /\ r \notin Members(running) /\ r \notin done
  BY <1>1 DEF IInv, RetractionLosesNothing
<1>5. /\ queue' \in Seq(Requests) /\ Distinct(queue')
      /\ Members(queue') = Members(queue) \cup {r}
  BY <1>1, <1>4, QueuesType, AppendedIs DEF IInv
<1>6. TypeOK'
  <2>1. PrefixMatch(kv, r) \in Nat
    BY PrefillIs DEF IInv, TypeOK
  <2>2. matched' \in [Requests -> Nat]
    BY <1>1, <2>1 DEF IInv, TypeOK
  <2>. QED  BY <1>1, <1>5, <2>2 DEF IInv, TypeOK
<1>7. RetractionLosesNothing'
  BY <1>1, <1>2, <1>3, <1>4, <1>5 DEF IInv, RetractionLosesNothing
<1>8. Outputs'
  <2>1. emitted[r] < Target[r]
    BY <1>1, WorkloadType DEF IInv, Outputs
  <2>. QED  BY <1>1, <1>2, <1>3, <1>5, <2>1 DEF IInv, Outputs
<1>9. Batched'
  BY <1>1, <1>2 DEF IInv, Batched, ChunksFit
<1>10. Books'
  BY <1>1, <1>2 DEF IInv, Books
<1>. QED  BY <1>6, <1>7, <1>8, <1>9, <1>10 DEF IInv

\* The budget of an iteration, and what the schedule reads.
LEMMA BudgetType ==
    ASSUME IInv
    PROVE  /\ IterationBudget \in Nat /\ IterationBudget <= BatchTokens
           /\ TokensOf(batch) \in Nat /\ BudgetLeft(batch) \in Int
           /\ Startable
<1>1. Cardinality(Live) \in Nat /\ BatchTokens \in Nat /\ Width \in Nat
  <2>1. Live \in SUBSET Requests
    BY StoreNumbers DEF IInv, TypeOK, Live
  <2>. QED  BY <2>1, FiniteUniverse, ConfigType DEF IInv, TypeOK
<1>2. Cardinality(Live) * Width \in Nat
  BY <1>1, Products
<1>3. IterationBudget \in Nat /\ IterationBudget <= BatchTokens
  BY <1>1, <1>2 DEF IterationBudget, SaturatingSub
<1>4. TokensOf(batch) \in Nat
  BY TokensType DEF IInv, TypeOK, Chunks
<1>5. Startable
  <2>1. \A r \in Requests : ContextNow(r) \in Nat /\ left[r] \in Nat /\ left[r] <= ContextNow(r)
    BY PrefillIs DEF IInv, TypeOK, Outputs
  <2>. QED  BY <1>3, <2>1, QueuesType DEF IInv, TypeOK, Startable
<1>. QED  BY <1>3, <1>4, <1>5 DEF BudgetLeft

\* The started prompts come first.
LEMMA ScheduleStartedInv ==
    ASSUME IInv, ScheduleStarted
    PROVE  IInv'
<1> DEFINE S == { r \in Requests : ChunkOf(batch', r) < left[r] }
<1>1. /\ phase = "scheduling" /\ batch' = StartedChunks
      /\ started' = Kept(started, S)
      /\ phase' \in {"closing", "forming"} /\ retracted' = FALSE
      /\ UNCHANGED << config, arrived, kv, queue, matched, left, running, entered, ratio, emitted,
                      done >>
  BY DEF ScheduleStarted
<1> HIDE DEF S
<1>2. Prefilling' = Prefilling
  BY <1>1 DEF Prefilling
<1>3. \A q : ContextNow(q)' = ContextNow(q) /\ OutputLeft(q)' = OutputLeft(q)
  BY <1>1 DEF ContextNow, OutputLeft
<1>4. Startable
  BY BudgetType
<1>5. batch' \in Seq(Chunks) /\ ChunksFit(batch', Members(started))
  BY <1>1, <1>4, StartedIs DEF Within
<1>6. /\ started' \in Seq(Requests) /\ Distinct(started')
      /\ Members(started') = Members(started) \cap S
  BY <1>1, QueuesType, KeptIs DEF IInv
<1>7. TypeOK'
  BY <1>1, <1>5, <1>6 DEF IInv, TypeOK, Chunks
<1>8. RetractionLosesNothing' /\ Outputs' /\ Books'
  BY <1>1, <1>2, <1>3 DEF IInv, RetractionLosesNothing, Outputs, Books
<1>9. Batched'
  <2>1. Members(started) \subseteq Prefilling
    <3>1. \A r \in Members(started) : r \in Requests /\ ChunkOf(batch, r) < left[r]
      BY QueuesType DEF IInv, Batched
    <3>2. \A r \in Requests : ChunkOf(batch, r) \in Nat /\ left[r] \in Nat
      BY ChunkOfIs DEF IInv, TypeOK, Batched, ChunksFit
    <3>. QED  BY <3>1, <3>2 DEF Prefilling
  <2>2. ChunksFit(batch', Prefilling)
    BY <1>5, <2>1 DEF ChunksFit
  <2>3. ChunksFit(batch, Prefilling)'
    BY <1>1, <1>2, <2>2 DEF ChunksFit
  <2>4. \A r \in Members(started') : ChunkOf(batch', r) < left'[r]
    BY <1>1, <1>6 DEF S
  <2>. QED  BY <1>1, <2>3, <2>4 DEF Batched
<1>. QED  BY <1>7, <1>8, <1>9 DEF IInv

\* A request that is being prefilled holds a promise and no decode.
LEMMA AdmitHeadInv ==
    ASSUME IInv, NEW r \in Requests, AdmitHead(r)
    PROVE  IInv'
<1> DEFINE need == PrefillTokens(kv, r)
           tokens == FirstChunk(r)
           units == FootprintOf(r)
           chunk == [req |-> r, tokens |-> tokens]
<1>1. /\ phase = "forming" /\ queue # << >> /\ r = NextPending
      /\ BudgetLeft(batch) > 0 /\ tokens > 0
      /\ queue' = Without(queue, r) /\ kv' \in Reservations(r)
      /\ left' = [left EXCEPT ![r] = need]
      /\ batch' = Append(batch, chunk)
      /\ started' = IF tokens < need THEN Append(started, r) ELSE started
      /\ entered' = Append(entered, r)
      /\ UNCHANGED << config, arrived, matched, running, ratio, retracted, phase, emitted, done >>
  BY DEF AdmitHead, Admissible
<1>2. r \in Members(queue)
  BY <1>1, QueuesType, HeadIsMember DEF IInv, TypeOK
<1>3. /\ r \notin Prefilling /\ r \notin Members(running) /\ r \notin done
      /\ emitted[r] < Target[r] /\ left[r] = 0
      /\ r \notin Members(entered) /\ kv.promised[r] = 0
  <2>1. r \notin Prefilling /\ r \notin Members(running) /\ r \notin done
    BY <1>2 DEF IInv, RetractionLosesNothing
  <2>. QED  BY <1>2, <2>1 DEF IInv, TypeOK, RetractionLosesNothing, Outputs, Prefilling, Books
<1>4. need \in Nat /\ need <= ContextNow(r) /\ ContextNow(r) \in Nat
  BY PrefillIs DEF IInv, TypeOK
<1>5. tokens \in Nat \ {0} /\ tokens <= need
  <2>1. BudgetLeft(batch) \in Nat
    BY <1>1, BudgetType
  <2>2. tokens \in Nat /\ tokens <= need
    BY <1>4, <2>1, ChunkIs DEF IInv, TypeOK, FirstChunk
  <2>. QED  BY <1>1, <2>2
<1>6. units \in Nat /\ units > 0 /\ ContextNow(r) <= units
  BY <1>3, FootprintIs DEF IInv, TypeOK, Outputs
<1>7. Reserves(kv, r, units, kv')
  <2>1. kv \in Store /\ FootprintOf(r) \in Nat
    BY <1>6 DEF IInv, TypeOK
  <2>. QED  BY <1>1, <2>1, ReservationsAre
<1>8. chunk \in Chunks
  BY <1>5 DEF Chunks
<1> HIDE DEF need, tokens, units
<1>9. \A q : ContextNow(q)' = ContextNow(q) /\ OutputLeft(q)' = OutputLeft(q)
  BY <1>1 DEF ContextNow, OutputLeft
<1>10. Prefilling' = Prefilling \cup {r}
  <2>1. left' \in [Requests -> Nat] /\ left'[r] > 0 /\ \A q \in Requests \ {r} : left'[q] = left[q]
    <3>1. left \in [Requests -> Nat]
      BY DEF IInv, TypeOK
    <3>2. need > 0
      BY <1>4, <1>5
    <3>. QED  BY <1>1, <1>4, <3>1, <3>2
  <2>. QED  BY <2>1 DEF Prefilling
<1>11. /\ queue' \in Seq(Requests) /\ Distinct(queue')
       /\ Members(queue') = Members(queue) \ {r}
  BY <1>1, <1>2, QueuesType, WithoutIs DEF IInv
<1>12. /\ entered' \in Seq(Requests) /\ Distinct(entered')
       /\ Members(entered') = Members(entered) \cup {r}
  BY <1>1, <1>3, QueuesType, AppendedIs DEF IInv
<1>13. batch \in Seq(Chunks) /\ OneEach(batch) /\ ReqsOf(batch) \subseteq Prefilling
  BY DEF IInv, Batched, ChunksFit
<1>14. r \notin Members(started)
  <2>1. \A q \in Members(started) : ChunkOf(batch, q) < left[q]
    BY DEF IInv, Batched
  <2>2. ChunkOf(batch, r) \in Nat
    BY <1>13, ChunkOfIs
  <2>. QED  BY <1>3, <2>1, <2>2
<1>15. /\ started' \in Seq(Requests) /\ Distinct(started')
       /\ Members(started') = IF tokens < need THEN Members(started) \cup {r} ELSE Members(started)
  BY <1>1, <1>14, QueuesType, AppendedIs, ZenonT(40) DEF IInv
<1>16. /\ kv' \in Store
       /\ kv'.promised = [kv.promised EXCEPT ![r] = units]
       /\ kv'.placement = [kv.placement EXCEPT ![r] = 0]
       /\ kv'.decodes = kv.decodes
       /\ kv'.context = kv.context /\ kv'.remaining = kv.remaining
       /\ kv'.reserved[0] = kv.reserved[0] + units
       /\ kv'.held = kv.held /\ kv'.heldUnits = kv.heldUnits
       /\ kv'.resident = kv.resident /\ kv'.peak = kv.peak
  BY <1>7 DEF Reserves, ReservedFor
<1>17. kv'.promised[r] = units /\ \A q \in Requests \ {r} : kv'.promised[q] = kv.promised[q]
  BY <1>16 DEF IInv, TypeOK, Store
<1>18. TypeOK'
  <2>1. batch' \in Seq(Chunks)
    <3> HIDE DEF chunk
    <3>. QED  BY <1>1, <1>8, <1>13, TokensAppend
  <2>2. left' \in [Requests -> Nat]
    BY <1>1, <1>4 DEF IInv, TypeOK
  <2>. QED  BY <1>1, <1>11, <1>12, <1>15, <1>16, <2>1, <2>2 DEF IInv, TypeOK, Chunks
<1>19. RetractionLosesNothing'
  <2>1. { q \in Requests : kv'.placement[q] # NoPartition }
          = { q \in Requests : kv.placement[q] # NoPartition } \cup {r}
    BY <1>16, OnePartition DEF IInv, TypeOK, Store
  <2>2. \A q \in Prefilling' : kv'.promised[q] >= ContextNow(q)
    BY <1>6, <1>10, <1>17 DEF IInv, RetractionLosesNothing, Prefilling
  <2>. QED  BY <1>1, <1>2, <1>3, <1>9, <1>10, <1>11, <1>12, <1>16, <2>1, <2>2
            DEF IInv, RetractionLosesNothing
<1>20. Outputs'
  <2>1. \A q \in Requests : left'[q] <= ContextNow(q)
    BY <1>1, <1>4 DEF IInv, TypeOK, Outputs
  <2>. QED  BY <1>1, <1>3, <1>9, <1>10, <1>11, <2>1 DEF IInv, Outputs
<1>21. Batched'
  <2>1. ChunksFit(batch, Prefilling)
    BY DEF IInv, Batched
  <2>2. /\ batch' \in Seq(Chunks) /\ OneEach(batch') /\ ReqsOf(batch') = ReqsOf(batch) \cup {r}
        /\ TokensOf(batch') = TokensOf(batch) + tokens
    <3>1. chunk.req = r /\ chunk.tokens = tokens
      OBVIOUS
    <3> HIDE DEF chunk
    <3>. QED  BY <1>1, <1>3, <1>8, <1>13, <3>1, TokensAppend
  <2>3. \A i \in 1 .. Len(batch') : batch'[i].tokens <= left'[batch'[i].req]
    <3>1. SUFFICES ASSUME NEW i \in 1 .. Len(batch')
                   PROVE  batch'[i].tokens <= left'[batch'[i].req]
      OBVIOUS
    <3>2. \/ i \in 1 .. Len(batch) /\ batch'[i] = batch[i]
          \/ batch'[i] = chunk
      BY <1>1, <1>13
    <3>3. ASSUME i \in 1 .. Len(batch), batch'[i] = batch[i]
          PROVE  batch'[i].tokens <= left'[batch'[i].req]
      <4>1. batch[i].req \in Prefilling /\ batch[i].tokens <= left[batch[i].req]
        BY <2>1, <3>3 DEF ChunksFit, ReqsOf
      <4>2. left'[batch[i].req] = left[batch[i].req]
        BY <1>1, <1>3, <4>1 DEF Prefilling, IInv, TypeOK
      <4>. QED  BY <3>3, <4>1, <4>2
    <3>4. ASSUME batch'[i] = chunk PROVE batch'[i].tokens <= left'[batch'[i].req]
      <4>1. left'[r] = need
        BY <1>1 DEF IInv, TypeOK
      <4>. QED  BY <1>5, <3>4, <4>1
    <3>. QED  BY <3>2, <3>3, <3>4
  <2>4. ChunksFit(batch, Prefilling)'
    BY <1>10, <1>13, <2>2, <2>3 DEF ChunksFit
  <2>5. ASSUME NEW q \in Members(started') PROVE ChunkOf(batch', q) < left'[q]
    <3>1. CASE q = r
      <4>1. tokens < need
        BY <1>14, <1>15, <3>1
      <4>2. PICK i \in 1 .. Len(batch') : batch'[i].req = r
        BY <2>2 DEF ReqsOf
      <4>3. ChunkOf(batch', r) = batch'[i].tokens
        BY <2>2, <4>2, ChunkOfIs
      <4>4. batch'[i] = chunk
        <5>1. \/ i \in 1 .. Len(batch) /\ batch'[i] = batch[i]
              \/ batch'[i] = chunk
          BY <1>1, <1>13
        <5>2. i \in 1 .. Len(batch) => batch[i].req # r
          BY <1>3, <1>13 DEF ReqsOf
        <5>. QED  BY <4>2, <5>1, <5>2
      <4>5. left'[r] = need
        BY <1>1 DEF IInv, TypeOK
      <4>. QED  BY <3>1, <4>1, <4>3, <4>4, <4>5
    <3>2. CASE q # r
      <4>1. q \in Members(started)
        BY <1>15, <3>2
      <4>2. ChunkOf(batch, q) < left[q] /\ q \in Requests
        BY <4>1, QueuesType DEF IInv, Batched
      <4>3. left'[q] = left[q]
        BY <1>1, <3>2, <4>2 DEF IInv, TypeOK
      <4>4. ChunkOf(batch', q) = ChunkOf(batch, q)
        <5>1. CASE q \notin ReqsOf(batch)
          <6>1. q \notin ReqsOf(batch')
            BY <2>2, <3>2, <5>1
          <6>. QED  BY <1>13, <2>2, <5>1, <6>1, ChunkOfIs
        <5>2. CASE q \in ReqsOf(batch)
          <6>1. PICK i \in 1 .. Len(batch) : batch[i].req = q
            BY <5>2 DEF ReqsOf
          <6>2. i \in 1 .. Len(batch') /\ batch'[i] = batch[i]
            BY <1>1, <1>13
          <6>3. ChunkOf(batch, q) = batch[i].tokens
            BY <1>13, <6>1, ChunkOfIs
          <6>4. ChunkOf(batch', q) = batch'[i].tokens
            BY <2>2, <6>1, <6>2, ChunkOfIs
          <6>. QED  BY <6>2, <6>3, <6>4
        <5>. QED  BY <5>1, <5>2
      <4>. QED  BY <4>2, <4>3, <4>4
    <3>. QED  BY <3>1, <3>2
  <2>. QED  BY <1>1, <2>4, <2>5 DEF Batched
<1>22. Books'
  <2>1. SumOver(kv'.promised, Requests) = SumOver(kv.promised, Requests) + units
    <3>1. /\ IsFiniteSet(Requests) /\ IsFiniteSet(Requests \ {r})
          /\ \A q \in Requests : kv.promised[q] \in Int /\ kv'.promised[q] \in Int
      <4>1. kv.promised \in [Requests -> Nat] /\ kv'.promised \in [Requests -> Nat]
        BY <1>16 DEF IInv, TypeOK, Store
      <4>2. IsFiniteSet(Requests) /\ Requests \ {r} \in SUBSET Requests
        BY FiniteUniverse
      <4>. QED  BY <4>1, <4>2, FiniteUniverse
    <3>2. SumOver(kv.promised, Requests) = kv.promised[r] + SumOver(kv.promised, Requests \ {r})
      BY <3>1, SumRemove
    <3>3. SumOver(kv'.promised, Requests) = kv'.promised[r] + SumOver(kv'.promised, Requests \ {r})
      BY <3>1, SumRemove
    <3>4. SumOver(kv'.promised, Requests \ {r}) = SumOver(kv.promised, Requests \ {r})
      BY <3>1, <1>17, SumAgree
    <3>5. SumOver(kv.promised, Requests \ {r}) \in Int
      BY <3>1, SumType
    <3>. QED  BY <1>3, <1>6, <1>17, <3>2, <3>3, <3>4, <3>5
  <2>2. \A q \in Requests : q \notin Prefilling' => kv'.promised[q] = 0
    BY <1>10, <1>17 DEF IInv, Books
  <2>. QED  BY <1>16, <2>1, <2>2 DEF IInv, Books
<1>. QED  BY <1>18, <1>19, <1>20, <1>21, <1>22 DEF IInv

\* Other prefixes do not matter to a release.
LEMMA ReleasesSame ==
    ASSUME NEW a, NEW b, NEW r, NEW new, SameBooks(a, b), Releases(b, r, new)
    PROVE  Releases(a, r, new)
<1>1. ProjectedPeak(a, a.decodes[0] \ {r}) = ProjectedPeak(b, b.decodes[0] \ {r})
  BY PeakCongruence DEF SameBooks
<1>. QED  BY <1>1 DEF Releases, ReleasedFrom, SameBooks

\* A decode leaves: the queues and the store agree on who stays.
Departs(r) ==
    /\ r \in Members(running)
    /\ Releases(kv, r, kv')
    /\ running' = Without(running, r) /\ entered' = Without(entered, r)
    /\ UNCHANGED << left, emitted >>

Departed(r) ==
    /\ running' \in Seq(Requests) /\ Distinct(running')
    /\ entered' \in Seq(Requests) /\ Distinct(entered')
    /\ Members(running') = Members(running) \ {r}
    /\ kv' \in Store /\ Prefilling' = Prefilling
    /\ Members(running') = kv'.decodes[0]
    /\ Members(entered') = Prefilling \cup Members(running')
    /\ Members(entered') = { q \in Requests : kv'.placement[q] # NoPartition }
    /\ \A q \in Members(running') :
          /\ emitted[q] >= 1
          /\ kv'.context[q] = ContextNow(q) - 1
          /\ kv'.remaining[q] = OutputLeft(q)
    /\ kv'.promised = kv.promised
    /\ Books'

LEMMA DepartedIs ==
    ASSUME IInv, NEW r \in Requests, Departs(r)
    PROVE  Departed(r)
<1>1. /\ r \in Members(running) /\ r \in kv.decodes[0] /\ r \in Members(entered)
      /\ r \notin Prefilling /\ kv.promised[r] = 0
      /\ kv \in Store
  BY DEF IInv, TypeOK, RetractionLosesNothing, Departs, Books
<1>2. /\ running' \in Seq(Requests) /\ Distinct(running')
      /\ Members(running') = Members(running) \ {r}
  BY <1>1, QueuesType, WithoutIs DEF IInv, Departs
<1>3. /\ entered' \in Seq(Requests) /\ Distinct(entered')
      /\ Members(entered') = Members(entered) \ {r}
  BY <1>1, QueuesType, WithoutIs DEF IInv, Departs
<1>4. Prefilling' = Prefilling
  BY DEF Departs, Prefilling
<1>5. /\ kv' \in Store
      /\ kv'.placement = [kv.placement EXCEPT ![r] = NoPartition]
      /\ kv'.promised = [kv.promised EXCEPT ![r] = 0]
      /\ kv'.decodes = [kv.decodes EXCEPT ![0] = kv.decodes[0] \ {r}]
      /\ \A q \in Requests \ {r} : /\ kv'.context[q] = kv.context[q]
                                   /\ kv'.remaining[q] = kv.remaining[q]
      /\ kv'.reserved = kv.reserved /\ kv'.held = kv.held
      /\ kv'.heldUnits = kv.heldUnits
      /\ kv'.resident[0] = kv.resident[0] - kv.context[r]
  BY DEF Departs, Releases, ReleasedFrom
<1>6. kv'.decodes[0] = kv.decodes[0] \ {r}
  BY <1>1, <1>5, OnePartition DEF Store
<1>7. kv'.promised = kv.promised
  BY <1>1, <1>5 DEF Store
<1>8. Members(running') = kv'.decodes[0]
  BY <1>2, <1>6 DEF IInv, RetractionLosesNothing
<1>9. Members(entered') = Prefilling \cup Members(running')
  BY <1>1, <1>2, <1>3 DEF IInv, RetractionLosesNothing
<1>10. Members(entered') = { q \in Requests : kv'.placement[q] # NoPartition }
  <2>1. \A q \in Requests : kv'.placement[q] # NoPartition <=>
           kv.placement[q] # NoPartition /\ q # r
    BY <1>1, <1>5 DEF Store
  <2>. QED  BY <1>3, <2>1 DEF IInv, RetractionLosesNothing
<1>11. \A q \in Members(running') :
          /\ emitted[q] >= 1
          /\ kv'.context[q] = ContextNow(q) - 1
          /\ kv'.remaining[q] = OutputLeft(q)
  <2>1. Members(running) \subseteq Requests
    BY QueuesType DEF IInv
  <2>. QED  BY <1>2, <1>5, <2>1 DEF IInv, RetractionLosesNothing
<1>12. Books'
  <2>1. /\ kv.decodes[0] \in SUBSET Requests /\ IsFiniteSet(kv.decodes[0])
        /\ IsFiniteSet(kv.decodes[0] \ {r})
        /\ \A q \in kv.decodes[0] : kv.context[q] \in Int
    <3>1. kv.decodes[0] \in SUBSET Requests /\ kv.decodes[0] \ {r} \in SUBSET Requests
      BY <1>1, StoreNumbers
    <3>2. kv.context \in [Requests -> Nat]
      BY <1>1 DEF Store
    <3>. QED  BY <3>1, <3>2, FiniteUniverse
  <2>2. SumOver(kv.context, kv.decodes[0])
          = kv.context[r] + SumOver(kv.context, kv.decodes[0] \ {r})
    BY <1>1, <2>1, SumRemove
  <2>3. SumOver(kv'.context, kv.decodes[0] \ {r}) = SumOver(kv.context, kv.decodes[0] \ {r})
    <3>1. \A q \in kv.decodes[0] \ {r} : kv'.context[q] = kv.context[q]
      BY <1>5, <2>1
    <3>. QED  BY <2>1, <3>1, SumAgree
  <2>4. SumOver(kv.context, kv.decodes[0] \ {r}) \in Int /\ kv.context[r] \in Int
    BY <1>1, <2>1, SumType
  <2>5. kv'.resident[0] = SumOver(kv'.context, kv'.decodes[0])
    <3>1. kv.resident[0] = SumOver(kv.context, kv.decodes[0])
      BY DEF IInv, Books
    <3>2. SumOver(kv'.context, kv'.decodes[0]) = SumOver(kv'.context, kv.decodes[0] \ {r})
      BY <1>6
    <3>3. kv'.resident[0] = SumOver(kv.context, kv.decodes[0]) - kv.context[r]
      BY <1>5, <3>1
    <3>4. SumOver(kv.context, kv.decodes[0]) - kv.context[r]
            = SumOver(kv.context, kv.decodes[0] \ {r})
      BY <2>2, <2>4
    <3>. QED  BY <2>3, <3>2, <3>3, <3>4
  <2>. QED  BY <1>4, <1>5, <1>7, <2>5 DEF IInv, Books
<1>. QED  BY <1>2, <1>3, <1>4, <1>5, <1>7, <1>8, <1>9, <1>10, <1>11, <1>12 DEF Departed

\* requeue_retracted.
LEMMA RequeuedIs ==
    ASSUME queue \in Seq(Requests), Distinct(queue), NEW r \in Requests, r \notin Members(queue)
    PROVE  /\ Requeued(r) \in Seq(Requests) /\ Distinct(Requeued(r))
           /\ Members(Requeued(r)) = Members(queue) \cup {r}
<1>1. << r >> \in Seq(Requests) /\ Distinct(<< r >>) /\ Members(<< r >>) = {r}
  <2>1. << r >> \in Seq(Requests) /\ Len(<< r >>) = 1 /\ << r >>[1] = r
    OBVIOUS
  <2>2. \A i \in 1 .. 1 : i = 1
    OBVIOUS
  <2>3. Distinct(<< r >>)
    BY <2>1, <2>2 DEF Distinct
  <2>. QED  BY <2>1, <2>2, <2>3 DEF Members
<1>2. Members(<< r >>) \cap Members(queue) = {}
  BY <1>1
<1>3. /\ << r >> \o queue \in Seq(Requests) /\ Distinct(<< r >> \o queue)
      /\ Members(<< r >> \o queue) = Members(queue) \cup {r}
  <2>1. ASSUME NEW one \in Seq(Requests), Distinct(one), Members(one) \cap Members(queue) = {}
        PROVE  /\ one \o queue \in Seq(Requests) /\ Distinct(one \o queue)
               /\ Members(one \o queue) = Members(one) \cup Members(queue)
    BY <2>1, JoinedIs
  <2>. QED  BY <1>1, <1>2, <2>1
<1>4. /\ Append(queue, r) \in Seq(Requests) /\ Distinct(Append(queue, r))
      /\ Members(Append(queue, r)) = Members(queue) \cup {r}
  BY AppendedIs
<1>. QED  BY <1>3, <1>4 DEF Requeued

\* A retraction: the victim is pending again, with the output it has.
LEMMA RetractDeparts ==
    ASSUME IInv, NEW r \in Requests, Retract(r)
    PROVE  Departs(r) /\ emitted[r] < Target[r]
<1>1. PICK st \in TrimmedForStep(kv, 0, Width) : kv' = Released(st, r, 0)
  BY DEF Retract
<1>2. /\ r \in Live /\ running' = Without(running, r) /\ entered' = Without(entered, r)
      /\ UNCHANGED << left, emitted >> /\ phase = "preparing"
  BY DEF Retract, IsVictim
<1>3. st \in Store /\ SameBooks(kv, st)
  BY <1>1, ConfigType, TrimmedIs DEF IInv, TypeOK, Trims
<1>4. r \in kv.decodes[0] /\ kv.remaining[r] > 0
  BY <1>2 DEF Live, LiveDecodes
<1>5. r \in Members(running)
  BY <1>4 DEF IInv, RetractionLosesNothing
<1>6. Leaving(st, r)
  <2>1. kv.held[r] = 0 /\ kv.promised[r] = 0
    BY <1>5 DEF IInv, Books, RetractionLosesNothing
  <2>. QED  BY <1>3, <1>4, <2>1 DEF Leaving, SameBooks
<1>7. Releases(st, r, kv')
  BY <1>1, <1>3, <1>6, ReleasedReleases
<1>8. Releases(kv, r, kv')
  BY <1>3, <1>7, ReleasesSame
<1>9. emitted[r] < Target[r]
  BY <1>2, <1>5 DEF IInv, Outputs
<1>. QED  BY <1>2, <1>5, <1>8, <1>9 DEF Departs

LEMMA RetractInv ==
    ASSUME IInv, NEW r \in Requests, Retract(r)
    PROVE  IInv'
<1>1. Departs(r) /\ emitted[r] < Target[r]
  BY RetractDeparts
<1>2. Departed(r)
  BY <1>1, DepartedIs
<1>3. /\ phase = "preparing" /\ queue' = Requeued(r)
      /\ matched' = [matched EXCEPT ![r] = PrefixMatch(kv', r)]
      /\ retracted' = TRUE
      /\ UNCHANGED << config, arrived, started, batch, left, ratio, phase, emitted, done >>
  BY DEF Retract
<1>4. r \in Members(running) /\ r \notin Members(queue)
      /\ r \notin Prefilling /\ r \notin done
  BY <1>1 DEF Departs, IInv, RetractionLosesNothing
<1>5. /\ queue' \in Seq(Requests) /\ Distinct(queue')
      /\ Members(queue') = Members(queue) \cup {r}
  BY <1>3, <1>4, QueuesType, RequeuedIs DEF IInv
<1>6. \A q : ContextNow(q)' = ContextNow(q) /\ OutputLeft(q)' = OutputLeft(q)
  BY <1>3 DEF ContextNow, OutputLeft
<1>7. TypeOK'
  <2>1. PrefixMatch(kv', r) \in Nat
    BY <1>2, PrefillIs DEF Departed, PrefixMatch, PrefillTokens, IInv, TypeOK
  <2>2. matched' \in [Requests -> Nat]
    BY <1>3, <2>1 DEF IInv, TypeOK
  <2>. QED  BY <1>2, <1>3, <1>5, <2>2 DEF IInv, TypeOK, Departed
<1>8. RetractionLosesNothing'
  BY <1>2, <1>3, <1>4, <1>5, <1>6 DEF IInv, RetractionLosesNothing, Departed
<1>9. Outputs'
  BY <1>1, <1>2, <1>3, <1>5, <1>6 DEF IInv, Outputs, Departed
<1>10. Batched'
  BY <1>2, <1>3 DEF IInv, Batched, ChunksFit, Departed
<1>. QED  BY <1>2, <1>7, <1>8, <1>9, <1>10 DEF IInv, Departed

\* A release: the request has its tokens and is reported.
LEMMA ReleaseDeparts ==
    ASSUME IInv, NEW r \in Requests, ReleaseFinished(r)
    PROVE  Departs(r) /\ emitted[r] = Target[r]
<1>1. /\ r \in Members(running) /\ IsComplete(r) /\ kv' \in ReleasedRetainingPrefix(kv, r, 0)
      /\ running' = Without(running, r) /\ entered' = Without(entered, r)
      /\ UNCHANGED << left, emitted >>
  BY DEF ReleaseFinished
<1>2. Leaving(kv, r) /\ kv \in Store
  BY <1>1 DEF IInv, TypeOK, Books, RetractionLosesNothing, Leaving
<1>3. Releases(kv, r, kv')
  BY <1>1, <1>2, RetainingReleases
<1>4. emitted[r] = Target[r]
  BY <1>1, WorkloadType DEF IInv, TypeOK, Outputs, IsComplete
<1>. QED  BY <1>1, <1>3, <1>4 DEF Departs

LEMMA ReleaseFinishedInv ==
    ASSUME IInv, NEW r \in Requests, ReleaseFinished(r)
    PROVE  IInv'
<1>1. Departs(r) /\ emitted[r] = Target[r]
  BY ReleaseDeparts
<1>2. Departed(r)
  BY <1>1, DepartedIs
<1>3. /\ phase = "finishing" /\ done' = done \cup {r}
      /\ \/ phase' = phase
         \/ /\ phase' \in {"preparing", "scheduling"}
            /\ \A q \in Members(running') : ~IsComplete(q)'
      /\ UNCHANGED << config, arrived, queue, matched, started, batch, left, ratio, retracted,
                      emitted >>
  BY DEF ReleaseFinished, StartForming, IsComplete
<1>4. r \in Members(running) /\ r \notin Members(queue)
      /\ r \notin Prefilling /\ r \notin done
  BY <1>1 DEF Departs, IInv, RetractionLosesNothing
<1>5. \A q : ContextNow(q)' = ContextNow(q) /\ OutputLeft(q)' = OutputLeft(q)
  BY <1>3 DEF ContextNow, OutputLeft
<1>6. TypeOK'
  BY <1>2, <1>3 DEF IInv, TypeOK, Departed
<1>7. RetractionLosesNothing'
  BY <1>2, <1>3, <1>4, <1>5 DEF IInv, RetractionLosesNothing, Departed
<1>8. Outputs'
  <2>1. phase' # "finishing" => \A q \in Members(running') : emitted'[q] < Target[q]
    <3>1. \A q \in Members(running') : emitted'[q] \in Nat /\ Target[q] \in Nat
      BY <1>2, <1>6, MembersOf, WorkloadType DEF Departed, TypeOK
    <3>. QED  BY <1>3, <3>1 DEF IsComplete
  <2>. QED  BY <1>1, <1>2, <1>3, <1>5, <2>1 DEF IInv, Outputs, Departed
<1>9. Batched'
  BY <1>2, <1>3 DEF IInv, Batched, ChunksFit, Departed
<1>. QED  BY <1>2, <1>6, <1>7, <1>8, <1>9 DEF IInv, Departed

\* The prefills an iteration finishes.
LEMMA FinishedIs ==
    ASSUME IInv
    PROVE  /\ Finished \subseteq Prefilling /\ Finished \subseteq ReqsOf(batch)
           /\ Finishing \in Seq(Requests) /\ Distinct(Finishing) /\ Members(Finishing) = Finished
           /\ \A r \in Requests : ChunkOf(batch, r) \in Nat /\ ChunkOf(batch, r) <= left[r]
           /\ Prefilling \cap Members(running) = {} /\ Prefilling \subseteq Requests
<1> DEFINE reqs == [i \in 1 .. Len(batch) |-> batch[i].req]
<1>1. /\ batch \in Seq(Chunks) /\ OneEach(batch) /\ ReqsOf(batch) \subseteq Prefilling
      /\ \A i \in 1 .. Len(batch) : batch[i].tokens <= left[batch[i].req]
      /\ left \in [Requests -> Nat]
  BY DEF IInv, TypeOK, Batched, ChunksFit
<1>2. ASSUME NEW r \in Requests PROVE ChunkOf(batch, r) \in Nat /\ ChunkOf(batch, r) <= left[r]
  <2>1. CASE r \in ReqsOf(batch)
    <3>1. PICK i \in 1 .. Len(batch) : batch[i].req = r
      BY <2>1 DEF ReqsOf
    <3>2. ChunkOf(batch, r) \in Nat /\ ChunkOf(batch, r) = batch[i].tokens
      BY <1>1, <3>1, ChunkOfIs
    <3>. QED  BY <1>1, <3>1, <3>2
  <2>2. CASE r \notin ReqsOf(batch)
    BY <1>1, <2>2, ChunkOfIs
  <2>. QED  BY <2>1, <2>2
<1>3. Finished \subseteq Prefilling
  BY DEF Finished, Prefilling
<1>4. Finished \subseteq ReqsOf(batch)
  <2>1. \A r \in Requests : r \notin ReqsOf(batch) => ChunkOf(batch, r) = 0
    BY <1>1, ChunkOfIs
  <2>. QED  BY <2>1 DEF Finished
<1>5. reqs \in Seq(Requests) /\ Distinct(reqs) /\ Members(reqs) = ReqsOf(batch)
  <2>1. Len(batch) \in Nat /\ \A i \in 1 .. Len(batch) : batch[i].req \in Requests
    BY <1>1, TokensType
  <2>2. reqs \in Seq(Requests) /\ Len(reqs) = Len(batch)
    BY <2>1
  <2>3. Distinct(reqs)
    BY <1>1, <2>2 DEF Distinct, OneEach
  <2>. QED  BY <2>2, <2>3 DEF Members, ReqsOf
<1>6. Finishing = Kept(reqs, Finished)
  BY DEF Finishing
<1> HIDE DEF reqs
<1>7. /\ Finishing \in Seq(Requests) /\ Distinct(Finishing)
      /\ Members(Finishing) = Members(reqs) \cap Finished
  BY <1>5, <1>6, KeptIs
<1>8. Members(Finishing) = Finished
  BY <1>4, <1>5, <1>7
<1>9. Prefilling \cap Members(running) = {} /\ Prefilling \subseteq Requests
  BY DEF IInv, RetractionLosesNothing, Prefilling
<1>. QED  BY <1>2, <1>3, <1>4, <1>7, <1>8, <1>9

\* The end of an iteration, for the steps the decodes took.
NowContexts == [r \in Requests |-> ContextNow(r)]

Completes(steps) ==
    /\ DOMAIN steps = IF Mix \/ batch = << >> THEN Live ELSE {}
    /\ \A r \in DOMAIN steps :
          /\ steps[r] \in Nat /\ 1 <= steps[r]
          /\ steps[r] <= Width /\ steps[r] <= kv.remaining[r]
    /\ emitted' \in [Requests -> Nat]
    /\ \A r \in Finished : emitted'[r] = emitted[r] + 1
    /\ \A r \in DOMAIN steps : emitted'[r] = emitted[r] + steps[r]
    /\ \A r \in Requests : r \notin Finished /\ r \notin DOMAIN steps => emitted'[r] = emitted[r]
    /\ Iteration(kv, steps, Finished, NowContexts,
                 [r \in Requests |-> Target[r] - emitted'[r]], kv')

LEMMA CompletesIs ==
    ASSUME IInv, CompleteIteration
    PROVE  \E steps : Completes(steps)
<1> DEFINE L == IF Mix \/ batch = << >> THEN Live ELSE {}
<1>1. PICK steps \in Retired(L) :
          /\ emitted' = EmittedBy(steps)
          /\ kv' = Committed(AdvancedBy(kv, steps), Finished,
                       [r \in Requests |-> ContextNow(r)],
                       [r \in Requests |-> Target[r] - emitted'[r]])
  BY DEF CompleteIteration
<1>2. PICK given : given = emitted'
  OBVIOUS
<1>3. /\ kv \in Store /\ emitted \in [Requests -> Nat] /\ Width \in Nat
      /\ Live \subseteq kv.decodes[0] /\ kv.decodes[0] \subseteq Requests
      /\ Live \subseteq Members(running)
  <2>1. kv \in Store /\ emitted \in [Requests -> Nat] /\ Width \in Nat
    BY ConfigType DEF IInv, TypeOK
  <2>2. Live \subseteq kv.decodes[0] /\ kv.decodes[0] \subseteq Requests
    BY <2>1, StoreNumbers DEF Live
  <2>3. Members(running) = kv.decodes[0]
    BY DEF IInv, RetractionLosesNothing
  <2>. QED  BY <2>1, <2>2, <2>3
<1>4. L \subseteq Live
  OBVIOUS
<1>5. /\ DOMAIN steps = L
      /\ \A r \in L : /\ steps[r] \in Nat /\ 1 <= steps[r]
                      /\ steps[r] <= Width /\ steps[r] <= kv.remaining[r]
  <2> HIDE DEF L
  <2>1. steps \in [L -> 1 .. Width] /\ \A r \in L : steps[r] <= kv.remaining[r]
    BY <1>1 DEF Retired
  <2>. QED  BY <1>3, <2>1
<1>6. Finished \cap L = {} /\ Finished \subseteq Requests
  BY <1>3, <1>4, FinishedIs
<1>7. /\ given \in [Requests -> Nat]
      /\ \A r \in Finished : given[r] = emitted[r] + 1
      /\ \A r \in L : given[r] = emitted[r] + steps[r]
      /\ \A r \in Requests : r \notin Finished /\ r \notin L => given[r] = emitted[r]
  <2> HIDE DEF L
  <2>1. given = [r \in Requests |-> emitted[r] +
                   (IF r \in Finished THEN 1 ELSE IF r \in L THEN steps[r] ELSE 0)]
    BY <1>1, <1>2, <1>5 DEF EmittedBy, NextToken
  <2>. QED  BY <1>3, <1>4, <1>5, <1>6, <2>1
<1>8. Stepping(kv, steps)
  BY <1>4, <1>5 DEF Stepping, Live
<1> DEFINE rest == [r \in Requests |-> Target[r] - given[r]]
<1>9. Committing(kv, Finished, NowContexts, rest)
  <2>1. Finished \subseteq PlacedOn(kv, 0)
    <3>1. Finished \subseteq { r \in Requests : kv.placement[r] # NoPartition }
      BY FinishedIs DEF IInv, RetractionLosesNothing
    <3>. QED  BY <1>3, <3>1, OnePartition DEF PlacedOn, Store
  <2>2. NowContexts \in [Requests -> Nat]
    BY <1>3, PrefillIs DEF NowContexts
  <2>3. \A r \in Finished : rest[r] \in Nat
    <3>1. \A r \in Finished : emitted[r] < Target[r]
      BY FinishedIs DEF IInv, Outputs
    <3>2. \A r \in Finished : Target[r] \in Nat /\ emitted[r] \in Nat
      BY <1>3, <1>6, WorkloadType
    <3>. QED  BY <1>6, <1>7, <3>1, <3>2
  <2>. QED  BY <2>1, <2>2, <2>3 DEF Committing
<1>10. kv' = Committed(AdvancedBy(kv, steps), Finished, NowContexts, rest)
  BY <1>1, <1>2 DEF NowContexts
<1> HIDE DEF rest
<1>11. Iteration(kv, steps, Finished, NowContexts, rest, kv')
  BY <1>3, <1>8, <1>9, <1>10, IterationIs
<1>12. rest = [r \in Requests |-> Target[r] - emitted'[r]]
  BY <1>2 DEF rest
<1> HIDE DEF L
<1>13. Completes(steps)
  BY <1>2, <1>5, <1>7, <1>11, <1>12 DEF Completes, L
<1>. QED  BY <1>13

\* Some of the terms of a sum grow.
LEMMA SumGrows ==
    ASSUME NEW S, IsFiniteSet(S), NEW D \in SUBSET S, NEW f, NEW g, NEW h,
           \A x \in S : f[x] \in Int,
           \A x \in D : g[x] \in Int /\ h[x] = f[x] + g[x],
           \A x \in S \ D : h[x] = f[x]
    PROVE  SumOver(h, S) = SumOver(f, S) + SumOver(g, D)
<1>1. IsFiniteSet(D) /\ IsFiniteSet(S \ D) /\ D \cup (S \ D) = S /\ D \cap (S \ D) = {}
  BY FS_Subset
<1>2. SumOver(f, S) = SumOver(f, D) + SumOver(f, S \ D)
  <2>1. \A x \in D \cup (S \ D) : f[x] \in Int
    OBVIOUS
  <2>. QED  BY <1>1, <2>1, SumUnion
<1>3. SumOver(h, S) = SumOver(h, D) + SumOver(h, S \ D)
  <2>1. \A x \in D \cup (S \ D) : h[x] \in Int
    <3>1. \A x \in D : h[x] \in Int
      OBVIOUS
    <3>. QED  BY <3>1
  <2>. QED  BY <1>1, <2>1, SumUnion
<1>4. SumOver(h, S \ D) = SumOver(f, S \ D)
  BY <1>1, SumAgree
<1>5. SumOver(h, D) = SumOver(f, D) + SumOver(g, D)
  <2>1. \A x \in D : f[x] \in Int /\ g[x] \in Int /\ h[x] = f[x] + g[x]
    OBVIOUS
  <2>. QED  BY <1>1, <2>1, SumAdd
<1>6. SumOver(f, D) \in Int /\ SumOver(g, D) \in Int /\ SumOver(f, S \ D) \in Int
  BY <1>1, SumType
<1>. QED  BY <1>2, <1>3, <1>4, <1>5, <1>6

\* Who is still being prefilled after an iteration.
LEMMA PrefillingAfter ==
    ASSUME IInv, CompleteIteration
    PROVE  /\ Prefilling' = Prefilling \ Finished /\ left' \in [Requests -> Nat]
           /\ \A r \in Requests : left'[r] <= left[r]
           /\ \A r \in Requests : left'[r] = left[r] - ChunkOf(batch, r)
<1>1. left' = [r \in Requests |-> left[r] - ChunkOf(batch, r)]
  BY DEF CompleteIteration
<1>2. \A r \in Requests : /\ ChunkOf(batch, r) \in Nat /\ ChunkOf(batch, r) <= left[r]
                          /\ left[r] \in Nat
  BY FinishedIs DEF IInv, TypeOK
<1>3. \A r \in Requests : left'[r] = left[r] - ChunkOf(batch, r)
  BY <1>1
<1>4. \A r \in Requests : left'[r] \in Nat /\ left'[r] <= left[r]
  BY <1>2, <1>3
<1>5. left' \in [Requests -> Nat]
  BY <1>1, <1>4
<1>6. \A r \in Requests : left'[r] > 0 <=> left[r] > 0 /\ ChunkOf(batch, r) # left[r]
  BY <1>2, <1>3
<1>7. Prefilling' = Prefilling \ Finished
  BY <1>6 DEF Prefilling, Finished
<1>. QED  BY <1>3, <1>4, <1>5, <1>7

\* The end of an iteration: prefills that are finished join the decodes.
LEMMA CompleteIterationInv ==
    ASSUME IInv, CompleteIteration
    PROVE  IInv'
<1>1. PICK steps : Completes(steps)
  BY CompletesIs
<1>2. /\ phase = "computing" /\ batch' = << >>
      /\ running' = running \o Finishing
      /\ \/ phase' = "finishing"
         \/ /\ phase' \in {"preparing", "scheduling"}
            /\ \A r \in Members(running') : ~(emitted'[r] >= Target[r])
      /\ UNCHANGED << config, arrived, queue, matched, started, entered, ratio, retracted, done >>
  BY DEF CompleteIteration, StartForming
<1>3. /\ Finished \subseteq Prefilling /\ Prefilling \subseteq Requests
      /\ Prefilling \cap Members(running) = {} /\ Members(running) \subseteq Requests
      /\ Finished \subseteq Requests
      /\ Members(running) = kv.decodes[0]
  BY FinishedIs, QueuesType DEF IInv, RetractionLosesNothing
<1>4. /\ running' \in Seq(Requests) /\ Distinct(running')
      /\ Members(running') = Members(running) \cup Finished
  <2>1. /\ Finishing \in Seq(Requests) /\ Distinct(Finishing) /\ Members(Finishing) = Finished
        /\ running \in Seq(Requests) /\ Distinct(running)
    BY FinishedIs, QueuesType DEF IInv
  <2>2. Members(running) \cap Members(Finishing) = {}
    BY <1>3, <2>1
  <2>. QED  BY <1>2, <2>1, <2>2, JoinedIs
<1>5. /\ Prefilling' = Prefilling \ Finished /\ left' \in [Requests -> Nat]
      /\ \A r \in Requests : left'[r] <= left[r]
  BY PrefillingAfter
<1>6. /\ DOMAIN steps \subseteq Live
      /\ \A r \in DOMAIN steps :
          /\ steps[r] \in Nat /\ 1 <= steps[r] /\ steps[r] <= kv.remaining[r]
      /\ emitted' \in [Requests -> Nat]
      /\ \A r \in Finished : emitted'[r] = emitted[r] + 1
      /\ \A r \in DOMAIN steps : emitted'[r] = emitted[r] + steps[r]
      /\ \A r \in Requests : r \notin Finished /\ r \notin DOMAIN steps => emitted'[r] = emitted[r]
  BY <1>1 DEF Completes
<1>7. Live \subseteq Members(running) /\ Finished \cap DOMAIN steps = {}
  <2>1. Live \subseteq kv.decodes[0]
    BY StoreNumbers DEF Live, IInv, TypeOK
  <2>. QED  BY <1>3, <1>6, <2>1
<1> DEFINE rest == [r \in Requests |-> Target[r] - emitted'[r]]
<1>8. Iteration(kv, steps, Finished, NowContexts, rest, kv')
  BY <1>1 DEF Completes
<1>9. /\ kv' \in Store
      /\ kv'.promised = [r \in Requests |-> IF r \in Finished THEN 0 ELSE kv.promised[r]]
      /\ kv'.placement = kv.placement
      /\ kv'.decodes[0] = kv.decodes[0] \cup Finished
      /\ kv'.held = kv.held /\ kv'.heldUnits = kv.heldUnits
      /\ kv'.reserved[0] = kv.reserved[0] - SumOver(kv.promised, Finished)
      /\ kv'.resident[0] = (kv.resident[0] + SumOver(steps, DOMAIN steps))
                              + SumOver(NowContexts, Finished)
  <2> HIDE DEF rest
  <2>. QED  BY <1>8 DEF Iteration
<1>10. \A r \in Requests \ Finished :
          /\ kv'.context[r] = IF r \in DOMAIN steps THEN kv.context[r] + steps[r]
                                                    ELSE kv.context[r]
          /\ kv'.remaining[r] = IF r \in DOMAIN steps THEN kv.remaining[r] - steps[r]
                                                      ELSE kv.remaining[r]
  <2> HIDE DEF rest
  <2>. QED  BY <1>8 DEF Iteration
<1>11. \A r \in Finished : /\ kv'.context[r] = ContextNow(r)
                           /\ kv'.remaining[r] = Target[r] - emitted'[r]
  <2>1. \A r \in Finished : kv'.context[r] = NowContexts[r] /\ kv'.remaining[r] = rest[r]
    <3> HIDE DEF rest
    <3>. QED  BY <1>8 DEF Iteration
  <2>. QED  BY <1>3, <2>1 DEF NowContexts
<1> HIDE DEF rest
<1>12. \A r \in Requests : /\ Target[r] \in Nat /\ ContextOf(r) \in Nat /\ emitted[r] \in Nat
                           /\ kv.context[r] \in Nat /\ kv.remaining[r] \in Nat
                           /\ emitted'[r] \in Nat
  BY <1>6, WorkloadType, StoreNumbers DEF IInv, TypeOK
<1>13. \A r \in Members(running) : /\ emitted[r] >= 1
                                   /\ kv.context[r] = ContextNow(r) - 1
                                   /\ kv.remaining[r] = OutputLeft(r)
  BY DEF IInv, RetractionLosesNothing
<1>14. TypeOK'
  <2>1. << >> \in Seq([req : Requests, tokens : Nat \ {0}])
    OBVIOUS
  <2>. QED  BY <1>2, <1>4, <1>5, <1>6, <1>9, <2>1, ZenonT(40) DEF IInv, TypeOK
<1>15. \A r \in Members(running') :
          /\ emitted'[r] >= 1
          /\ kv'.context[r] = ContextNow(r)' - 1
          /\ kv'.remaining[r] = OutputLeft(r)'
          /\ emitted'[r] <= Target[r]
  <2>1. ASSUME NEW r \in Finished
        PROVE  /\ emitted'[r] >= 1
               /\ kv'.context[r] = ContextNow(r)' - 1
               /\ kv'.remaining[r] = OutputLeft(r)'
               /\ emitted'[r] <= Target[r]
    <3>1. emitted[r] < Target[r] /\ r \in Requests
      BY <1>3 DEF IInv, Outputs
    <3>. QED  BY <1>6, <1>11, <1>12, <3>1 DEF ContextNow, OutputLeft
  <2>2. ASSUME NEW r \in DOMAIN steps
        PROVE  /\ emitted'[r] >= 1
               /\ kv'.context[r] = ContextNow(r)' - 1
               /\ kv'.remaining[r] = OutputLeft(r)'
               /\ emitted'[r] <= Target[r]
    <3>1. r \in Members(running) /\ r \in Requests /\ r \notin Finished
      BY <1>3, <1>6, <1>7
    <3>2. /\ kv'.context[r] = kv.context[r] + steps[r]
          /\ kv'.remaining[r] = kv.remaining[r] - steps[r]
          /\ emitted'[r] = emitted[r] + steps[r]
          /\ steps[r] \in Nat /\ 1 <= steps[r] /\ steps[r] <= kv.remaining[r]
      BY <1>6, <1>10, <3>1
    <3>. QED  BY <1>12, <1>13, <3>1, <3>2 DEF ContextNow, OutputLeft
  <2>3. ASSUME NEW r \in Members(running), r \notin DOMAIN steps
        PROVE  /\ emitted'[r] >= 1
               /\ kv'.context[r] = ContextNow(r)' - 1
               /\ kv'.remaining[r] = OutputLeft(r)'
               /\ emitted'[r] <= Target[r]
    <3>1. r \in Requests /\ r \notin Finished
      BY <1>3
    <3>2. /\ kv'.context[r] = kv.context[r]
          /\ kv'.remaining[r] = kv.remaining[r]
          /\ emitted'[r] = emitted[r]
      BY <1>6, <1>10, <2>3, <3>1
    <3>3. emitted[r] <= Target[r]
      BY <3>1 DEF IInv, Outputs
    <3>. QED  BY <1>12, <1>13, <3>1, <3>2, <3>3 DEF ContextNow, OutputLeft
  <2>. QED  BY <1>4, <2>1, <2>2, <2>3
<1>16. \A r \in Requests : r \notin Members(running') => emitted'[r] = emitted[r]
  BY <1>4, <1>6, <1>7
<1>17. RetractionLosesNothing'
  <2>1. \A r \in Prefilling' : kv'.promised[r] >= ContextNow(r)'
    <3>1. SUFFICES ASSUME NEW r \in Prefilling' PROVE kv'.promised[r] >= ContextNow(r)'
      OBVIOUS
    <3>2. r \in Prefilling /\ r \notin Finished /\ r \notin Members(running') /\ r \in Requests
      BY <1>3, <1>4, <1>5, <3>1
    <3>3. kv'.promised[r] = kv.promised[r] /\ emitted'[r] = emitted[r]
      BY <1>9, <1>16, <3>2
    <3>4. kv.promised[r] >= ContextNow(r)
      BY <3>2 DEF IInv, RetractionLosesNothing
    <3>. QED  BY <3>3, <3>4 DEF ContextNow
  <2>2. /\ arrived' = Members(queue') \cup Prefilling' \cup Members(running') \cup done'
        /\ Members(queue') \cap (Prefilling' \cup Members(running') \cup done') = {}
        /\ Prefilling' \cap (Members(running') \cup done') = {}
        /\ Members(running') \cap done' = {}
    BY <1>2, <1>3, <1>4, <1>5 DEF IInv, RetractionLosesNothing
  <2>3. /\ Members(running') = kv'.decodes[0]
        /\ Members(entered') = Prefilling' \cup Members(running')
        /\ Members(entered') = { r \in Requests : kv'.placement[r] # NoPartition }
    BY <1>2, <1>3, <1>4, <1>5, <1>9 DEF IInv, RetractionLosesNothing
  <2>. QED  BY <1>15, <2>1, <2>2, <2>3 DEF RetractionLosesNothing
<1>18. Outputs'
  <2>1. \A r \in Requests : left'[r] <= ContextNow(r)'
    <3>1. SUFFICES ASSUME NEW r \in Requests PROVE left'[r] <= ContextNow(r)'
      OBVIOUS
    <3>2. emitted[r] <= emitted'[r]
      <4>1. CASE r \in Finished
        BY <1>6, <1>12, <4>1
      <4>2. CASE r \in DOMAIN steps
        BY <1>6, <1>12, <4>2
      <4>3. CASE r \notin Finished /\ r \notin DOMAIN steps
        BY <1>6, <1>12, <4>3
      <4>. QED  BY <4>1, <4>2, <4>3
    <3>3. left[r] <= ContextNow(r) /\ left[r] \in Nat
      BY DEF IInv, Outputs, TypeOK
    <3>4. left'[r] <= left[r] /\ left'[r] \in Nat
      BY <1>5
    <3>. QED  BY <1>12, <3>2, <3>3, <3>4 DEF ContextNow
  <2>2. \A r \in Requests : emitted'[r] <= Target[r]
    <3>1. \A r \in Requests : r \notin Members(running') => emitted'[r] <= Target[r]
      BY <1>16 DEF IInv, Outputs
    <3>. QED  BY <1>15, <3>1
  <2>3. /\ \A r \in Members(queue') \cup Prefilling' : r \in Requests /\ r \notin Members(running')
        /\ \A r \in Requests \ arrived' : r \notin Members(running')
        /\ \A r \in done' : r \in Requests /\ r \notin Members(running')
    <3>1. RetractionLosesNothing'
      BY <1>17
    <3>2. Members(queue') \subseteq Requests /\ Prefilling' \subseteq Requests /\ done' \subseteq Requests
      BY <1>2, <1>3, <1>5, QueuesType DEF IInv, TypeOK
    <3>. QED  BY <3>1, <3>2 DEF RetractionLosesNothing
  <2>4. \A r \in Members(queue') \cup Prefilling' : emitted'[r] < Target[r]
    BY <1>2, <1>5, <1>16, <2>3 DEF IInv, Outputs
  <2>5. \A r \in Requests \ arrived' : emitted'[r] = 0
    BY <1>2, <1>16, <2>3 DEF IInv, Outputs
  <2>6. \A r \in done' : emitted'[r] = Target[r]
    BY <1>2, <1>16, <2>3 DEF IInv, Outputs
  <2>7. phase' # "finishing" => \A r \in Members(running') : emitted'[r] < Target[r]
    <3>1. Members(running') \subseteq Requests
      BY <1>3, <1>4
    <3>. QED  BY <1>2, <1>12, <3>1
  <2>. QED  BY <2>1, <2>2, <2>4, <2>5, <2>6, <2>7 DEF Outputs
<1>19. Batched'
  <2>1. \A S : ChunksFit(<< >>, S)
    BY TokensEmpty DEF ChunksFit
  <2>2. ChunksFit(<< >>, Prefilling)'
    BY TokensEmpty DEF ChunksFit
  <2>3. \A r \in Members(started') : ChunkOf(batch', r) < left'[r]
    <3>1. SUFFICES ASSUME NEW r \in Members(started) PROVE 0 < left'[r]
      BY <1>2, TokensEmpty
    <3>2. r \in Requests /\ ChunkOf(batch, r) < left[r]
      BY QueuesType DEF IInv, Batched
    <3>3. left'[r] = left[r] - ChunkOf(batch, r) /\ ChunkOf(batch, r) \in Nat /\ left[r] \in Nat
      BY <3>2, PrefillingAfter, FinishedIs DEF IInv, TypeOK
    <3>. QED  BY <3>2, <3>3
  <2>. QED  BY <1>2, <2>2, <2>3 DEF Batched
<1>20. kv'.reserved[0] = SumOver(kv'.promised, Requests)
  <2>1. /\ IsFiniteSet(Finished) /\ IsFiniteSet(Requests \ Finished)
        /\ Finished \cap (Requests \ Finished) = {}
        /\ Finished \cup (Requests \ Finished) = Requests
    <3>1. Finished \in SUBSET Requests /\ Requests \ Finished \in SUBSET Requests
      BY <1>3
    <3>2. IsFiniteSet(Finished) /\ IsFiniteSet(Requests \ Finished)
      BY <3>1, FiniteUniverse
    <3>. QED  BY <1>3, <3>2
  <2>2. /\ \A r \in Requests : kv.promised[r] \in Int /\ kv'.promised[r] \in Int
        /\ \A r \in Finished : kv'.promised[r] = 0
        /\ \A r \in Requests \ Finished : kv'.promised[r] = kv.promised[r]
    <3>1. kv.promised \in [Requests -> Nat] /\ kv'.promised \in [Requests -> Nat]
      BY <1>9 DEF IInv, TypeOK, Store
    <3>. QED  BY <1>3, <1>9, <3>1
  <2>3. SumOver(kv.promised, Requests)
          = SumOver(kv.promised, Finished) + SumOver(kv.promised, Requests \ Finished)
    BY <2>1, <2>2, SumUnion
  <2>4. SumOver(kv'.promised, Requests)
          = SumOver(kv'.promised, Finished) + SumOver(kv'.promised, Requests \ Finished)
    BY <2>1, <2>2, SumUnion
  <2>5. SumOver(kv'.promised, Finished) = 0
    BY <2>1, <2>2, SumZero
  <2>6. SumOver(kv'.promised, Requests \ Finished) = SumOver(kv.promised, Requests \ Finished)
    BY <2>1, <2>2, SumAgree
  <2>7. SumOver(kv.promised, Finished) \in Int /\ SumOver(kv.promised, Requests \ Finished) \in Int
    <3>1. \A r \in Finished : kv.promised[r] \in Int
      BY <1>3, <2>2
    <3>. QED  BY <2>1, <2>2, <3>1, SumType
  <2>8. kv.reserved[0] = SumOver(kv.promised, Requests)
    BY DEF IInv, Books
  <2>. QED  BY <1>9, <2>3, <2>4, <2>5, <2>6, <2>7, <2>8
<1>21. kv'.resident[0] = SumOver(kv'.context, kv'.decodes[0])
  <2> DEFINE ds == kv.decodes[0]
  <2>1. /\ IsFiniteSet(ds) /\ IsFiniteSet(Finished) /\ ds \cap Finished = {}
        /\ ds \subseteq Requests /\ DOMAIN steps \subseteq ds
    <3>1. ds \in SUBSET Requests /\ Finished \in SUBSET Requests
      BY <1>3
    <3>2. IsFiniteSet(ds) /\ IsFiniteSet(Finished)
      BY <3>1, FiniteUniverse
    <3>. QED  BY <1>3, <1>6, <1>7, <3>1, <3>2
  <2>2. \A r \in Requests : kv'.context[r] \in Int
    BY <1>9 DEF Store
  <2>3. SumOver(kv'.context, ds \cup Finished)
          = SumOver(kv'.context, ds) + SumOver(kv'.context, Finished)
    <3>1. \A r \in ds \cup Finished : kv'.context[r] \in Int
      BY <1>3, <2>1, <2>2
    <3> HIDE DEF ds
    <3>. QED  BY <2>1, <3>1, SumUnion
  <2>4. SumOver(kv'.context, Finished) = SumOver(NowContexts, Finished)
    <3>1. \A r \in Finished : kv'.context[r] = NowContexts[r]
      BY <1>3, <1>11 DEF NowContexts
    <3>. QED  BY <2>1, <3>1, SumAgree
  <2>5. SumOver(kv'.context, ds) = SumOver(kv.context, ds) + SumOver(steps, DOMAIN steps)
    <3>1. \A r \in ds : kv.context[r] \in Int
      BY <1>12, <2>1
    <3>2. \A r \in DOMAIN steps : steps[r] \in Int /\ kv'.context[r] = kv.context[r] + steps[r]
      BY <1>3, <1>6, <1>7, <1>10, <2>1
    <3>3. \A r \in ds \ DOMAIN steps : kv'.context[r] = kv.context[r]
      BY <1>10, <2>1
    <3> HIDE DEF ds
    <3>. QED  BY <2>1, <3>1, <3>2, <3>3, SumGrows
  <2>6. SumOver(kv.context, ds) \in Int /\ SumOver(steps, DOMAIN steps) \in Int
        /\ SumOver(NowContexts, Finished) \in Int
    <3>1. \A r \in ds : kv.context[r] \in Int
      BY <1>12, <2>1
    <3>2. IsFiniteSet(DOMAIN steps) /\ \A r \in DOMAIN steps : steps[r] \in Int
      BY <1>6, <2>1, FS_Subset
    <3>3. \A r \in Finished : NowContexts[r] \in Int
      BY <1>3, <1>12 DEF NowContexts, ContextNow
    <3> HIDE DEF ds
    <3>. QED  BY <2>1, <3>1, <3>2, <3>3, SumType
  <2>7. kv.resident[0] = SumOver(kv.context, ds)
    BY DEF IInv, Books
  <2> HIDE DEF ds
  <2>8. SumOver(kv'.context, kv'.decodes[0]) = SumOver(kv'.context, ds \cup Finished)
    BY <1>9 DEF ds
  <2>. QED  BY <1>9, <2>3, <2>4, <2>5, <2>6, <2>7, <2>8
<1>22. Books'
  <2>1. \A r \in Requests : r \notin Prefilling' => kv'.promised[r] = 0
    BY <1>3, <1>5, <1>9 DEF IInv, Books
  <2>. QED  BY <1>9, <1>20, <1>21, <2>1 DEF IInv, Books
<1>. QED  BY <1>14, <1>17, <1>18, <1>19, <1>22 DEF IInv

\* Every step keeps the invariant.
LEMMA StepInv == IInv /\ [Next]_vars => IInv'
<1>. SUFFICES ASSUME IInv, [Next]_vars PROVE IInv'
  OBVIOUS
<1>1. CASE UNCHANGED vars
  <2>1. Prefilling' = Prefilling /\ \A q : ContextNow(q)' = ContextNow(q) /\ OutputLeft(q)' = OutputLeft(q)
    BY <1>1 DEF vars, Prefilling, ContextNow, OutputLeft
  <2>2. TypeOK'
    BY <1>1 DEF IInv, TypeOK, vars
  <2>3. RetractionLosesNothing' /\ Outputs'
    BY <1>1, <2>1 DEF IInv, RetractionLosesNothing, Outputs, vars
  <2>4. Batched' /\ Books'
    BY <1>1, <2>1 DEF IInv, Batched, ChunksFit, Books, vars
  <2>. QED  BY <2>2, <2>3, <2>4 DEF IInv
<1>2. CASE Next
  <2>1. CASE \E r \in Requests : Enqueue(r)
    BY <2>1, EnqueueInv
  <2>2. CASE BeginBatch
    BY <2>2, BeginBatchInv
  <2>3. CASE Prepared
    BY <2>3, PreparedInv
  <2>4. CASE \E r \in Requests : Retract(r)
    BY <2>4, RetractInv
  <2>5. CASE Abort
    BY <2>5, AbortInv
  <2>6. CASE ScheduleStarted
    BY <2>6, ScheduleStartedInv
  <2>7. CASE RefreshHead
    BY <2>7, RefreshHeadInv
  <2>8. CASE \E r \in Requests : AdmitHead(r)
    BY <2>8, AdmitHeadInv
  <2>9. CASE CloseBatch
    BY <2>9, CloseBatchInv
  <2>10. CASE CompleteIteration
    BY <2>10, CompleteIterationInv
  <2>11. CASE \E r \in Requests : ReleaseFinished(r)
    BY <2>11, ReleaseFinishedInv
  <2>12. CASE Terminated
    BY <1>1, <2>12 DEF Terminated
  <2>. QED  BY <1>2, <2>1, <2>2, <2>3, <2>4, <2>5, <2>6, <2>7, <2>8, <2>9, <2>10, <2>11, <2>12
            DEF Next, Tick
<1>. QED  BY <1>1, <1>2

\* The invariant holds in every state of every chunked worker, whatever its
\* configurations, capacity and trace.
THEOREM Invariance == Spec => []IInv
BY InitInv, StepInv, PTL DEF Spec

\* Every variable of the worker keeps its type: no queue holds a request twice,
\* no chunk is empty and no new-token ratio leaves the unit interval
\* (chunked_prefill_admission.rs).
THEOREM TypeCorrect == Spec => []TypeOK
BY Invariance, PTL DEF IInv

\* A request is queued, prefilled, resident or done, retracted or not, and the
\* store and the request record count the same tokens (prepare_decode,
\* requeue_retracted and complete_decodes).
THEOREM NothingLost == Spec => []RetractionLosesNothing
BY Invariance, PTL DEF IInv

\* What an iteration serves by the contract.
LEMMA IterationServes ==
    ASSUME IInv, CompleteIteration
    PROVE  \E S \in SUBSET Contract!InService, C \in SUBSET Contract!InService :
              Contract!Serve(S, C)
<1>1. PICK steps : Completes(steps)
  BY CompletesIs
<1> DEFINE S == Finished \cup DOMAIN steps
<1>2. /\ DOMAIN steps \subseteq Live
      /\ \A r \in DOMAIN steps :
          /\ steps[r] \in Nat /\ 1 <= steps[r] /\ steps[r] <= kv.remaining[r]
      /\ emitted' \in [Requests -> Nat]
      /\ \A r \in Finished : emitted'[r] = emitted[r] + 1
      /\ \A r \in DOMAIN steps : emitted'[r] = emitted[r] + steps[r]
      /\ \A r \in Requests : r \notin Finished /\ r \notin DOMAIN steps => emitted'[r] = emitted[r]
  BY <1>1 DEF Completes
<1>3. UNCHANGED << arrived, done >>
  BY DEF CompleteIteration
<1>4. /\ Finished \subseteq Prefilling /\ Prefilling \subseteq Requests
      /\ DOMAIN steps \subseteq Members(running) /\ Members(running) \subseteq Requests
  <2>1. Live \subseteq kv.decodes[0]
    BY StoreNumbers DEF Live, IInv, TypeOK
  <2>2. Members(running) = kv.decodes[0]
    BY DEF IInv, RetractionLosesNothing
  <2>. QED  BY <1>2, <2>1, <2>2, FinishedIs, QueuesType DEF IInv
<1>5. S \in SUBSET Contract!InService
  BY <1>4 DEF IInv, RetractionLosesNothing, Contract!InService
<1>6. \A r \in Requests : emitted[r] \in Nat /\ Target[r] \in Nat
  BY WorkloadType DEF IInv, TypeOK
<1>7. \A r \in Finished : emitted'[r] \in emitted[r] + 1 .. Target[r]
  <2>1. \A r \in Finished : emitted[r] < Target[r] /\ r \in Requests
    BY <1>4 DEF IInv, Outputs
  <2>. QED  BY <1>2, <1>6, <2>1
<1>8. \A r \in DOMAIN steps : emitted'[r] \in emitted[r] + 1 .. Target[r]
  <2>1. \A r \in DOMAIN steps : kv.remaining[r] = Target[r] - emitted[r] /\ r \in Requests
    BY <1>4 DEF IInv, RetractionLosesNothing, OutputLeft
  <2>. QED  BY <1>2, <1>6, <2>1
<1>9. \A r \in Requests : IF r \in S THEN emitted'[r] \in emitted[r] + 1 .. Target[r]
                                     ELSE emitted'[r] = emitted[r]
  BY <1>2, <1>7, <1>8
<1> HIDE DEF S
<1>10. Contract!Serve(S, {})
  BY <1>2, <1>3, <1>9 DEF Contract!Serve
<1>. QED  BY <1>5, <1>10

\* The chunked worker implements the safety part of the contract: retracted or
\* not, a request gets no token twice and none too many, and is reported once,
\* when it has all of them (complete_iteration and its release loop).
THEOREM SafeContract == Spec => Contract!SafeSpec
<1>1. Init => Contract!Init
  BY DEF Init, Contract!Init
<1>2. IInv /\ [Next]_vars => [Contract!Next]_(Contract!vars)
  <2>. SUFFICES ASSUME IInv, [Next]_vars PROVE [Contract!Next]_(Contract!vars)
    OBVIOUS
  <2>1. ASSUME NEW r \in Requests, Enqueue(r) PROVE Contract!Release(r)
    BY <2>1 DEF Enqueue, Contract!Release
  <2>2. ASSUME CompleteIteration PROVE Contract!Next
    BY <2>2, IterationServes DEF Contract!Next
  <2>3. ASSUME NEW r \in Requests, ReleaseFinished(r)
        PROVE  Contract!Next
    <3>1. emitted[r] = Target[r] /\ Departs(r)
      BY <2>3, ReleaseDeparts
    <3>2. UNCHANGED << emitted, arrived >> /\ done' = done \cup {r}
      BY <2>3 DEF ReleaseFinished
    <3>3. r \in Contract!InService
      BY <3>1 DEF IInv, RetractionLosesNothing, Departs, Contract!InService
    <3>4. emitted' \in [Requests -> Nat]
      BY <3>2 DEF IInv, TypeOK
    <3>5. Contract!Serve({}, {r})
      BY <3>1, <3>2, <3>4 DEF Contract!Serve
    <3>. QED  BY <3>3, <3>5 DEF Contract!Next
  <2>4. ASSUME UNCHANGED << arrived, emitted, done >>
        PROVE  UNCHANGED Contract!vars
    BY <2>4 DEF Contract!vars
  <2>5. CASE BeginBatch \/ Prepared \/ Abort \/ ScheduleStarted \/ RefreshHead \/ CloseBatch
               \/ Terminated \/ UNCHANGED vars
               \/ \E r \in Requests : AdmitHead(r) \/ Retract(r)
    BY <2>4, <2>5 DEF BeginBatch, Prepared, Abort, ScheduleStarted, RefreshHead, CloseBatch,
                      Terminated, AdmitHead, Retract, vars
  <2>. QED  BY <2>1, <2>2, <2>3, <2>5 DEF Next, Tick, Contract!Next
<1>. QED  BY <1>1, <1>2, Invariance, PTL DEF Spec, Contract!SafeSpec

-----------------------------------------------------------------------------
(* Every step is claimed before it runs. *)

Rooms == BoundedRoom /\ FullRoom

\* The code's peak of few decodes is the one they will reach.
LEMMA ExactIs ==
    ASSUME NEW st \in Store, FewDecodes(st)
    PROVE  ProjectedPeak(st, st.decodes[0]) = ReachedPeak(st, st.decodes[0])
<1>1. st.decodes[0] \in SUBSET Requests /\ Cardinality(st.decodes[0]) < ExactBelow
  BY OnePartition DEF Store, FewDecodes
<1>. QED  BY <1>1, FewAreExact

\* The settings do not change.
LEMMA SameSettings ==
    ASSUME UNCHANGED config
    PROVE  /\ LongestPrefix' = LongestPrefix /\ Mix' = Mix /\ Bounded' = Bounded
           /\ Width' = Width /\ BatchTokens' = BatchTokens /\ Quantum' = Quantum
BY DEF LongestPrefix, Mix, Bounded, Width, BatchTokens, Quantum

\* Stores with the same books have the same numbers.
LEMMA SameNumbers ==
    ASSUME NEW a, NEW b, SameBooks(a, b)
    PROVE  /\ ProtectedUnits(b, 0) = ProtectedUnits(a, 0)
           /\ LiveDecodes(b, 0) = LiveDecodes(a, 0)
           /\ \A w : NextStepUnits(b, 0, w) = NextStepUnits(a, 0, w)
           /\ ReachedPeak(b, b.decodes[0]) = ReachedPeak(a, a.decodes[0])
<1>1. ProtectedUnits(b, 0) = ProtectedUnits(a, 0)
  BY DEF SameBooks, ProtectedUnits
<1>2. LiveDecodes(b, 0) = LiveDecodes(a, 0)
  BY DEF SameBooks, LiveDecodes
<1>3. \A w : NextStepUnits(b, 0, w) = NextStepUnits(a, 0, w)
  BY <1>2 DEF SameBooks, NextStepUnits
<1>4. ReachedPeak(b, b.decodes[0]) = ReachedPeak(a, a.decodes[0])
  BY PeakCongruence DEF SameBooks
<1>. QED  BY <1>1, <1>2, <1>3, <1>4

\* A step that leaves the books alone, and claims the next step where it has to.
Still ==
    /\ UNCHANGED << config, left, emitted >>
    /\ SameBooks(kv, kv')
    /\ Bounded /\ Claimed' => ProtectedUnits(kv, 0) + NextStep <= Capacity
    /\ ~Bounded /\ Width = 1 => phase' # "preparing"

LEMMA StillRooms ==
    ASSUME Rooms, Still
    PROVE  Rooms'
<1>1. /\ Mix' = Mix /\ Bounded' = Bounded /\ Width' = Width
  BY SameSettings DEF Still
<1>2. /\ ProtectedUnits(kv, 0)' = ProtectedUnits(kv, 0)
      /\ NextStep' = NextStep
      /\ ReachedPeak(kv, kv.decodes[0])' = ReachedPeak(kv, kv.decodes[0])
  <2>1. PICK st : st = kv'
    OBVIOUS
  <2>2. SameBooks(kv, st)
    BY <2>1 DEF Still
  <2>3. /\ ProtectedUnits(st, 0) = ProtectedUnits(kv, 0)
        /\ NextStepUnits(st, 0, Width) = NextStepUnits(kv, 0, Width)
        /\ ReachedPeak(st, st.decodes[0]) = ReachedPeak(kv, kv.decodes[0])
    BY <2>2, SameNumbers
  <2>. QED  BY <1>1, <2>1, <2>3 DEF NextStep
<1>3. BoundedRoom'
  BY <1>1, <1>2 DEF Rooms, BoundedRoom, Still
<1>4. FullRoom'
  <2>1. Prefilling' = Prefilling /\ \A r : ContextNow(r)' = ContextNow(r) /\ OutputLeft(r)' = OutputLeft(r)
    BY DEF Still, Prefilling, ContextNow, OutputLeft
  <2>. QED  BY <1>1, <1>2, <2>1 DEF Rooms, FullRoom, Still, SameBooks
<1>. QED  BY <1>3, <1>4 DEF Rooms

\* A step with no live decode claims nothing.
LEMMA NothingLive ==
    ASSUME IInv, Rooms
    PROVE  /\ NextStep \in Nat /\ ProtectedUnits(kv, 0) \in Int
           /\ Bounded /\ Live = {} => ProtectedUnits(kv, 0) + NextStep <= Capacity
<1>1. NextStep \in Nat /\ (Live = {} => NextStep = 0) /\ ProtectedUnits(kv, 0) \in Int
  BY ConfigType, NextStepType, StoreNumbers DEF IInv, TypeOK, NextStep, Live
<1>. QED  BY <1>1 DEF Rooms, BoundedRoom

\* The steps that leave the books alone.
LEMMA StillSteps ==
    ASSUME IInv, Rooms,
           \/ BeginBatch \/ Prepared \/ Abort \/ ScheduleStarted \/ RefreshHead \/ CloseBatch
           \/ \E r \in Requests : Enqueue(r)
    PROVE  Rooms'
<1>. SUFFICES Still
  BY StillRooms
<1>1. kv \in Store /\ SameBooks(kv, kv)
  BY DEF IInv, TypeOK, SameBooks
<1>2. ASSUME UNCHANGED config
      PROVE  (Claimed' <=> (\/ Mix /\ phase' \in {"scheduling", "forming", "closing", "computing"}
                            \/ ~Mix /\ phase' = "computing" /\ batch' = << >>))
  BY <1>2, SameSettings DEF Claimed
<1>3. CASE BeginBatch
  <2>1. /\ UNCHANGED << config, kv, left, emitted, batch >>
        /\ phase' = IF Mix /\ Bounded /\ Live # {} THEN "preparing" ELSE "scheduling"
    BY <1>3 DEF BeginBatch, StartForming, Live
  <2>2. Bounded /\ Claimed' => Live = {}
    BY <1>2, <2>1
  <2>. QED  BY <1>1, <2>1, <2>2, NothingLive DEF Still
<1>4. CASE Prepared
  <2>1. /\ UNCHANGED << config, left, emitted >> /\ phase = "preparing"
        /\ kv' \in TrimmedForStep(kv, 0, Width) /\ Shortfall(kv', 0, Width) = 0
        /\ phase' \in {"scheduling", "computing"}
    BY <1>4 DEF Prepared, AfterPreparing
  <2>2. PICK st : st = kv'
    OBVIOUS
  <2>3. Trims(kv, Width, st) /\ Width \in Nat
    BY <1>1, <2>1, <2>2, ConfigType, TrimmedIs DEF IInv, TypeOK
  <2>4. Bounded => ProtectedUnits(kv, 0) + NextStep <= Capacity
    <3>1. st \in Store /\ SameBooks(kv, st) /\ CacheUnits(st, 0) \in Nat
      BY <2>3 DEF Trims
    <3>2. ProtectedUnits(st, 0) = ProtectedUnits(kv, 0) /\ NextStepUnits(st, 0, Width) = NextStep
      BY <3>1, SameNumbers DEF NextStep
    <3>3. ProtectedUnits(st, 0) <= Capacity =>
             ProtectedUnits(st, 0) + NextStepUnits(st, 0, Width) <= Capacity
      BY <2>1, <2>2, <2>3, <3>1, ShortfallIs
    <3>. QED  BY <3>2, <3>3 DEF Rooms, BoundedRoom
  <2>5. SameBooks(kv, kv')
    BY <2>2, <2>3 DEF Trims
  <2>. QED  BY <2>1, <2>4, <2>5 DEF Still
<1>5. CASE Abort
  <2>1. UNCHANGED << config, kv, left, emitted, batch >> /\ phase' = "aborted"
    BY <1>5 DEF Abort
  <2>. QED  BY <1>1, <1>2, <2>1 DEF Still
<1>6. CASE ScheduleStarted
  <2>1. /\ UNCHANGED << config, kv, left, emitted >> /\ phase = "scheduling"
        /\ phase' \in {"closing", "forming"}
    BY <1>6 DEF ScheduleStarted
  <2>2. Claimed' => Claimed
    BY <1>2, <2>1 DEF Claimed
  <2>. QED  BY <1>1, <2>1, <2>2 DEF Still, Rooms, BoundedRoom
<1>7. CASE RefreshHead \/ \E r \in Requests : Enqueue(r)
  <2>1. UNCHANGED << config, kv, left, emitted, batch, phase >>
    BY <1>7 DEF RefreshHead, Enqueue
  <2>2. Claimed' => Claimed
    BY <1>2, <2>1 DEF Claimed
  <2>. QED  BY <1>1, <2>1, <2>2 DEF Still, Rooms, BoundedRoom, FullRoom
<1>8. CASE CloseBatch
  <2>1. /\ UNCHANGED << config, kv, left, emitted, batch >> /\ phase \in {"closing", "forming"}
        /\ phase' = IF batch = << >> /\ Live = {} THEN "idle"
                    ELSE IF batch = << >> /\ Bounded /\ ~Mix THEN "preparing"
                    ELSE "computing"
    BY <1>8 DEF CloseBatch
  <2>2. Bounded /\ Claimed' => Claimed
    BY <1>2, <2>1 DEF Claimed
  <2>. QED  BY <1>1, <2>1, <2>2 DEF Still, Rooms, BoundedRoom
<1>. QED  BY <1>3, <1>4, <1>5, <1>6, <1>7, <1>8

\* An admission finds room for the footprint, and for the next step if it is
\* claimed already.
LEMMA FitsNowIs ==
    ASSUME IInv, NEW r \in Requests, FootprintOf(r) \in Nat, FitsNow(r)
    PROVE  /\ Bounded => ProtectedUnits(kv, 0) + FootprintOf(r) <= Capacity
           /\ Bounded /\ Mix => ProtectedUnits(kv, 0) + FootprintOf(r) + NextStep <= Capacity
           /\ ~Bounded => kv.peak[0] + kv.reserved[0] + FootprintOf(r) <= Capacity
<1> DEFINE units == FootprintOf(r)
<1>1. /\ kv \in Store /\ Width \in Nat /\ kv.heldUnits[0] = 0
      /\ kv.peak[0] \in Int /\ kv.reserved[0] \in Int /\ Capacity \in Nat
      /\ ProtectedUnits(kv, 0) \in Int
  BY ConfigType, StoreNumbers DEF IInv, TypeOK, Books
<1>2. /\ NextStepUnits(kv, 0, Width) \in Nat /\ NextStepUnits(kv, 0, 0) \in Nat
  BY <1>1, NextStepType
<1>3. CASE Bounded
  <2>1. FitsBounded(kv, 0, units, MaxFuture, ratio, IF Mix THEN Width ELSE 0)
    BY <1>3 DEF FitsNow
  <2>2. (ProtectedUnits(kv, 0) + units) + NextStepUnits(kv, 0, IF Mix THEN Width ELSE 0) < Capacity
    <3> HIDE DEF units
    <3>. QED  BY <2>1 DEF FitsBounded
  <2>3. CASE Mix
    BY <1>1, <1>2, <1>3, <2>2, <2>3 DEF NextStep
  <2>4. CASE ~Mix
    <3>1. (ProtectedUnits(kv, 0) + units) + NextStepUnits(kv, 0, 0) < Capacity
      BY <2>2, <2>4
    <3>. QED  BY <1>1, <1>2, <1>3, <2>4, <3>1
  <2>. QED  BY <2>3, <2>4
<1>4. CASE ~Bounded
  <2>1. Fits(kv, 0, units)
    BY <1>4 DEF FitsNow
  <2>2. kv.peak[0] + (kv.reserved[0] + kv.heldUnits[0] + units) <= Capacity
    <3> HIDE DEF units
    <3>. QED  BY <2>1 DEF Fits
  <2>. QED  BY <1>1, <1>4, <2>2
<1>. QED  BY <1>3, <1>4

LEMMA AdmitRooms ==
    ASSUME IInv, Rooms, NEW r \in Requests, AdmitHead(r)
    PROVE  Rooms'
<1> DEFINE units == FootprintOf(r)
<1>1. /\ phase = "forming" /\ queue # << >> /\ r = NextPending
      /\ FitsNow(r) /\ kv' \in Reservations(r)
      /\ left' = [left EXCEPT ![r] = PrefillTokens(kv, r)]
      /\ UNCHANGED << config, phase, emitted >>
  BY DEF AdmitHead, Admissible
<1>2. emitted[r] \in Nat /\ emitted[r] <= Target[r]
  BY DEF IInv, TypeOK, Outputs
<1>3. units \in Nat /\ (~Bounded => units = ContextNow(r) + OutputLeft(r))
  BY <1>2, FootprintIs DEF IInv, TypeOK
<1>4. Reserves(kv, r, units, kv')
  <2>1. kv \in Store
    BY DEF IInv, TypeOK
  <2>. QED  BY <1>1, <1>3, <2>1, ReservationsAre
<1>5. /\ Bounded => ProtectedUnits(kv, 0) + units <= Capacity
      /\ Bounded /\ Mix => ProtectedUnits(kv, 0) + units + NextStep <= Capacity
      /\ ~Bounded => kv.peak[0] + kv.reserved[0] + units <= Capacity
  BY <1>1, <1>3, FitsNowIs
<1> HIDE DEF units
<1>6. /\ Mix' = Mix /\ Bounded' = Bounded /\ Width' = Width
  BY <1>1, SameSettings
<1>7. /\ kv'.promised = [kv.promised EXCEPT ![r] = units]
      /\ kv'.decodes = kv.decodes /\ kv'.context = kv.context /\ kv'.remaining = kv.remaining
      /\ kv'.reserved[0] = kv.reserved[0] + units
      /\ kv'.heldUnits = kv.heldUnits /\ kv'.resident = kv.resident /\ kv'.peak = kv.peak
  BY <1>4 DEF Reserves, ReservedFor
<1>8. /\ kv.reserved[0] \in Int /\ kv.heldUnits[0] \in Int /\ kv.resident[0] \in Int
      /\ kv.peak[0] \in Int /\ Capacity \in Nat /\ NextStep \in Nat
  BY StoreNumbers, NothingLive DEF IInv, TypeOK
<1>9. ProtectedUnits(kv, 0)' = ProtectedUnits(kv, 0) + units
  BY <1>3, <1>7, <1>8 DEF ProtectedUnits
<1>10. NextStep' = NextStep
  BY <1>6, <1>7 DEF NextStep, NextStepUnits, LiveDecodes
<1>11. BoundedRoom'
  <2>1. Bounded /\ Claimed' => Mix
    BY <1>1, <1>6 DEF Claimed
  <2>. QED  BY <1>5, <1>6, <1>9, <1>10, <2>1 DEF BoundedRoom
<1>12. FullRoom'
  <2>1. SUFFICES ASSUME ~Bounded, Width = 1
                 PROVE  /\ \A q \in Prefilling' : kv'.promised[q] = ContextNow(q)' + OutputLeft(q)'
                        /\ kv'.peak[0] >= ReachedPeak(kv', kv'.decodes[0])
                        /\ kv'.peak[0] + kv'.reserved[0] <= Capacity
                        /\ phase' # "preparing"
    BY <1>6 DEF FullRoom
  <2>2. ASSUME NEW q \in Prefilling'
        PROVE  kv'.promised[q] = ContextNow(q)' + OutputLeft(q)'
    <3>1. q \in Requests /\ left'[q] > 0
      BY <2>2 DEF Prefilling
    <3>2. q # r => q \in Prefilling
      BY <1>1, <3>1 DEF Prefilling, IInv, TypeOK
    <3>3. kv'.promised[q] = IF q = r THEN units ELSE kv.promised[q]
      BY <1>7, <3>1 DEF IInv, TypeOK, Store
    <3>4. ContextNow(q)' = ContextNow(q) /\ OutputLeft(q)' = OutputLeft(q)
      BY <1>1 DEF ContextNow, OutputLeft
    <3>. QED  BY <1>3, <2>1, <3>2, <3>3, <3>4 DEF Rooms, FullRoom
  <2>3. ReachedPeak(kv', kv'.decodes[0]) = ReachedPeak(kv, kv.decodes[0])
    BY <1>7, PeakCongruence
  <2>4. kv'.peak[0] + kv'.reserved[0] <= Capacity
    BY <1>3, <1>5, <1>7, <1>8, <2>1
  <2>. QED  BY <1>1, <1>7, <2>1, <2>2, <2>3, <2>4 DEF Rooms, FullRoom
<1>. QED  BY <1>11, <1>12 DEF Rooms

\* A decode that leaves makes room.
LEMMA DepartRooms ==
    ASSUME IInv, Rooms, PeakExact', NEW r \in Requests, Departs(r), UNCHANGED config,
           ~Bounded => phase' # "preparing",
           Bounded /\ Claimed' => Live' = {}
    PROVE  Rooms'
<1>1. Departed(r)
  BY DepartedIs
<1>2. /\ kv \in Store /\ kv' \in Store /\ kv'.promised = kv.promised
      /\ Prefilling' = Prefilling
  BY <1>1 DEF Departed, IInv, TypeOK
<1>3. /\ kv'.reserved = kv.reserved /\ kv'.heldUnits = kv.heldUnits
      /\ kv'.resident[0] = kv.resident[0] - kv.context[r]
      /\ kv'.peak[0] = ProjectedPeak(kv, kv.decodes[0] \ {r})
      /\ kv'.decodes = [kv.decodes EXCEPT ![0] = kv.decodes[0] \ {r}]
      /\ \A q \in Requests \ {r} : /\ kv'.context[q] = kv.context[q]
                                   /\ kv'.remaining[q] = kv.remaining[q]
      /\ UNCHANGED << left, emitted >>
  BY DEF Departs, Releases, ReleasedFrom
<1>4. /\ Mix' = Mix /\ Bounded' = Bounded /\ Width' = Width
  BY SameSettings
<1>5. /\ kv.reserved[0] \in Int /\ kv.heldUnits[0] \in Int /\ kv.resident[0] \in Int
      /\ kv.peak[0] \in Int /\ Capacity \in Nat /\ kv.context[r] \in Nat
      /\ kv.decodes[0] \in SUBSET Requests
  BY <1>2, StoreNumbers
<1>6. ProtectedUnits(kv, 0)' <= ProtectedUnits(kv, 0)
  BY <1>3, <1>5 DEF ProtectedUnits
<1>7. ProtectedUnits(kv, 0)' \in Int /\ ProtectedUnits(kv, 0) \in Int
  BY <1>3, <1>5 DEF ProtectedUnits
<1>8. BoundedRoom'
  <2>1. Live' = {} => NextStep' = 0
    <3>1. PICK st : st = kv'
      OBVIOUS
    <3>2. LiveDecodes(st, 0) = {} => NextStepUnits(st, 0, Width) = 0
      BY <1>2, <3>1, ConfigType, NextStepType DEF IInv, TypeOK
    <3>. QED  BY <1>4, <3>1, <3>2 DEF Live, NextStep
  <2>2. Bounded => ProtectedUnits(kv, 0)' <= Capacity
    BY <1>5, <1>6, <1>7 DEF Rooms, BoundedRoom
  <2>3. Bounded /\ Claimed' => ProtectedUnits(kv, 0)' + NextStep' <= Capacity
    BY <1>7, <2>1, <2>2
  <2>. QED  BY <1>4, <2>2, <2>3 DEF BoundedRoom
<1>9. FullRoom'
  <2>1. SUFFICES ASSUME ~Bounded, Width = 1
                 PROVE  /\ \A q \in Prefilling' : kv'.promised[q] = ContextNow(q)' + OutputLeft(q)'
                        /\ kv'.peak[0] >= ReachedPeak(kv', kv'.decodes[0])
                        /\ kv'.peak[0] + kv'.reserved[0] <= Capacity
                        /\ phase' # "preparing"
    BY <1>4 DEF FullRoom
  <2>2. \A q : ContextNow(q)' = ContextNow(q) /\ OutputLeft(q)' = OutputLeft(q)
    BY <1>3 DEF ContextNow, OutputLeft
  <2>3. \A q \in Prefilling' : kv'.promised[q] = ContextNow(q)' + OutputLeft(q)'
    BY <1>2, <2>1, <2>2 DEF Rooms, FullRoom
  <2> DEFINE stay == kv.decodes[0] \ {r}
  <2>4. kv'.decodes[0] = stay
    BY <1>2, <1>3, OnePartition DEF Store
  <2>5. ReachedPeak(kv', stay) <= ReachedPeak(kv, stay)
    <3>1. \A q \in stay : kv'.context[q] = kv.context[q] /\ kv'.remaining[q] = kv.remaining[q]
      BY <1>3, <1>5
    <3>2. stay \in SUBSET Requests
      BY <1>5
    <3>3. PICK st : st = kv'
      OBVIOUS
    <3> HIDE DEF stay
    <3>. QED  BY <1>2, <3>1, <3>2, <3>3, PeakOfPart
  <2>6. ReachedPeak(kv, stay) <= ReachedPeak(kv, kv.decodes[0])
    <3>1. stay \in SUBSET kv.decodes[0]
      OBVIOUS
    <3> HIDE DEF stay
    <3>. QED  BY <1>2, <1>5, <3>1, PeakOfPart
  <2>7. ReachedPeak(kv, stay) \in Int /\ ReachedPeak(kv, kv.decodes[0]) \in Int
    BY <1>2, <1>5, PeakType
  <2>8. kv.peak[0] >= ReachedPeak(kv, kv.decodes[0]) /\ kv.peak[0] + kv.reserved[0] <= Capacity
    BY <2>1 DEF Rooms, FullRoom
  <2>9. kv'.peak[0] = ReachedPeak(kv, stay)
    <3>1. PICK st : st = kv'
      OBVIOUS
    <3>2. FewDecodes(st)
      BY <1>4, <2>1, <3>1 DEF PeakExact
    <3>3. Cardinality(stay) < ExactBelow
      BY <2>4, <3>1, <3>2, OnePartition DEF FewDecodes
    <3>4. stay \in SUBSET Requests
      BY <1>5
    <3> HIDE DEF stay
    <3>5. ProjectedPeak(kv, stay) = ReachedPeak(kv, stay)
      BY <1>2, <3>3, <3>4, FewAreExact
    <3>. QED  BY <1>3, <3>5 DEF stay
  <2> HIDE DEF stay
  <2>10. kv'.peak[0] >= ReachedPeak(kv', kv'.decodes[0])
    <3>1. ReachedPeak(kv', kv'.decodes[0]) = ReachedPeak(kv', stay)
      BY <2>4
    <3>2. ReachedPeak(kv', stay) \in Int
      <4>1. stay \in SUBSET Requests
        BY <1>5 DEF stay
      <4>2. PICK st : st = kv'
        OBVIOUS
      <4>. QED  BY <1>2, <4>1, <4>2, PeakType
    <3>. QED  BY <2>5, <2>7, <2>9, <3>1, <3>2
  <2>11. kv'.peak[0] + kv'.reserved[0] <= Capacity
    BY <1>3, <1>5, <2>6, <2>7, <2>8, <2>9
  <2>. QED  BY <2>1, <2>3, <2>10, <2>11
<1>. QED  BY <1>8, <1>9 DEF Rooms

LEMMA RetractRooms ==
    ASSUME IInv, Rooms, PeakExact', NEW r \in Requests, Retract(r)
    PROVE  Rooms'
<1>1. Departs(r)
  BY RetractDeparts
<1>2. phase = "preparing" /\ UNCHANGED << config, phase >>
  BY DEF Retract
<1>3. ~Claimed'
  BY <1>2 DEF Claimed
<1>4. CASE Bounded
  BY <1>1, <1>2, <1>3, <1>4, DepartRooms
<1>5. CASE ~Bounded /\ Width = 1
  BY <1>2, <1>5 DEF Rooms, FullRoom
<1>6. CASE ~Bounded /\ Width # 1
  BY <1>2, <1>6, SameSettings DEF Rooms, BoundedRoom, FullRoom
<1>. QED  BY <1>4, <1>5, <1>6

LEMMA ReleaseRooms ==
    ASSUME IInv, Rooms, PeakExact', NEW r \in Requests, ReleaseFinished(r)
    PROVE  Rooms'
<1>1. Departs(r)
  BY ReleaseDeparts
<1>2. /\ UNCHANGED << config, batch >> /\ phase = "finishing"
      /\ \/ phase' = phase
         \/ phase' = IF Mix /\ Bounded /\ Live' # {} THEN "preparing" ELSE "scheduling"
  BY DEF ReleaseFinished, StartForming, Live
<1>3. Bounded /\ Claimed' => Live' = {}
  <2>1. Mix' = Mix
    BY <1>2, SameSettings
  <2>. QED  BY <1>2, <2>1 DEF Claimed
<1>4. ~Bounded => phase' # "preparing"
  BY <1>2
<1>. QED  BY <1>1, <1>2, <1>3, <1>4, DepartRooms

\* What the room of the partition depends on when an iteration ends.
Turns(steps) ==
    /\ kv' \in Store
    /\ Prefilling' = Prefilling \ Finished
    /\ Finished \in SUBSET Prefilling /\ Finished \cap kv.decodes[0] = {}
    /\ kv.decodes[0] \in SUBSET Requests /\ Prefilling \in SUBSET Requests
    /\ DOMAIN steps \in SUBSET kv.decodes[0]
    /\ \A r \in DOMAIN steps : steps[r] \in Nat /\ 1 <= steps[r] /\ steps[r] <= Width
                               /\ steps[r] <= kv.remaining[r]
    /\ DOMAIN steps = {} \/ DOMAIN steps = Live
    /\ Bounded /\ DOMAIN steps # {} => Claimed
    /\ kv'.decodes[0] = kv.decodes[0] \cup Finished
    /\ kv'.heldUnits = kv.heldUnits
    /\ kv'.reserved[0] = kv.reserved[0] - SumOver(kv.promised, Finished)
    /\ kv'.resident[0] = (kv.resident[0] + SumOver(steps, DOMAIN steps))
                            + SumOver(NowContexts, Finished)
    /\ \A r \in kv.decodes[0] :
          /\ kv'.context[r] = IF r \in DOMAIN steps THEN kv.context[r] + steps[r]
                                                    ELSE kv.context[r]
          /\ kv'.remaining[r] = IF r \in DOMAIN steps THEN kv.remaining[r] - steps[r]
                                                      ELSE kv.remaining[r]
    /\ \A r \in Finished : /\ kv'.context[r] = ContextNow(r)
                           /\ kv'.remaining[r] = OutputLeft(r) - 1
    /\ \A r \in Prefilling \ Finished :
          kv'.promised[r] = kv.promised[r] /\ emitted'[r] = emitted[r]
    /\ Finished = {} => kv'.peak[0] = kv.peak[0]
    /\ Finished # {} => kv'.peak[0] = ProjectedPeak(kv', kv.decodes[0] \cup Finished)

LEMMA TurnsIs ==
    ASSUME IInv, CompleteIteration
    PROVE  \E steps : Turns(steps)
<1>1. PICK steps : Completes(steps)
  BY CompletesIs
<1>2. /\ Finished \in SUBSET Prefilling /\ Prefilling \in SUBSET Requests
      /\ kv.decodes[0] = Members(running) /\ Prefilling \cap Members(running) = {}
      /\ Prefilling' = Prefilling \ Finished
  BY FinishedIs, PrefillingAfter DEF IInv, RetractionLosesNothing
<1>3. /\ Live \in SUBSET kv.decodes[0] /\ kv.decodes[0] \in SUBSET Requests
  BY StoreNumbers DEF Live, IInv, TypeOK
<1>4. /\ DOMAIN steps = IF Mix \/ batch = << >> THEN Live ELSE {}
      /\ \A r \in DOMAIN steps :
          /\ steps[r] \in Nat /\ 1 <= steps[r]
          /\ steps[r] <= Width /\ steps[r] <= kv.remaining[r]
      /\ \A r \in Finished : emitted'[r] = emitted[r] + 1
      /\ \A r \in Requests : r \notin Finished /\ r \notin DOMAIN steps => emitted'[r] = emitted[r]
  BY <1>1 DEF Completes
<1> DEFINE rest == [r \in Requests |-> Target[r] - emitted'[r]]
<1>5. Iteration(kv, steps, Finished, NowContexts, rest, kv')
  BY <1>1 DEF Completes
<1>6. \A r \in Finished : rest[r] = OutputLeft(r) - 1
  <2>1. \A r \in Finished : r \in Requests /\ Target[r] \in Int /\ emitted[r] \in Int
    BY <1>2, WorkloadType DEF IInv, TypeOK
  <2>. QED  BY <1>4, <2>1 DEF OutputLeft
<1>7. \A r \in Finished : NowContexts[r] = ContextNow(r)
  BY <1>2 DEF NowContexts
<1> HIDE DEF rest
<1>8. /\ kv' \in Store
      /\ kv'.promised = [r \in Requests |-> IF r \in Finished THEN 0 ELSE kv.promised[r]]
      /\ kv'.decodes[0] = kv.decodes[0] \cup Finished
      /\ kv'.heldUnits = kv.heldUnits
      /\ kv'.reserved[0] = kv.reserved[0] - SumOver(kv.promised, Finished)
      /\ kv'.resident[0] = (kv.resident[0] + SumOver(steps, DOMAIN steps))
                              + SumOver(NowContexts, Finished)
      /\ Finished = {} => kv'.peak[0] = kv.peak[0]
      /\ Finished # {} => kv'.peak[0] = ProjectedPeak(kv', kv.decodes[0] \cup Finished)
  BY <1>5 DEF Iteration
<1>9. \A r \in Requests \ Finished :
          /\ kv'.context[r] = IF r \in DOMAIN steps THEN kv.context[r] + steps[r]
                                                    ELSE kv.context[r]
          /\ kv'.remaining[r] = IF r \in DOMAIN steps THEN kv.remaining[r] - steps[r]
                                                      ELSE kv.remaining[r]
  BY <1>5 DEF Iteration
<1>10. \A r \in Finished : /\ kv'.context[r] = ContextNow(r)
                           /\ kv'.remaining[r] = OutputLeft(r) - 1
  BY <1>5, <1>6, <1>7 DEF Iteration
<1>11. \A r \in kv.decodes[0] : r \in Requests \ Finished
  BY <1>2, <1>3
<1>12. Finished \cap kv.decodes[0] = {} /\ DOMAIN steps \in SUBSET kv.decodes[0]
       /\ (DOMAIN steps = {} \/ DOMAIN steps = Live)
  BY <1>2, <1>3, <1>4
<1>13. Bounded /\ DOMAIN steps # {} => Claimed
  <2>1. phase = "computing"
    BY DEF CompleteIteration
  <2>. QED  BY <1>4, <2>1 DEF Claimed
<1>14. \A r \in Prefilling \ Finished :
          kv'.promised[r] = kv.promised[r] /\ emitted'[r] = emitted[r]
  <2>1. \A r \in Prefilling \ Finished : r \in Requests /\ r \notin Finished /\ r \notin DOMAIN steps
    BY <1>2, <1>12
  <2>. QED  BY <1>4, <1>8, <2>1
<1>15. \A r \in kv.decodes[0] :
          /\ kv'.context[r] = IF r \in DOMAIN steps THEN kv.context[r] + steps[r]
                                                    ELSE kv.context[r]
          /\ kv'.remaining[r] = IF r \in DOMAIN steps THEN kv.remaining[r] - steps[r]
                                                      ELSE kv.remaining[r]
  BY <1>9, <1>11
<1>16. Turns(steps)
  BY <1>2, <1>3, <1>4, <1>8, <1>10, <1>12, <1>13, <1>14, <1>15 DEF Turns
<1>. QED  BY <1>16

\* The steps of the decodes are among those they may claim.
LEMMA StepsClaimed ==
    ASSUME IInv, NEW steps, Turns(steps)
    PROVE  /\ SumOver(steps, DOMAIN steps) \in Nat
           /\ SumOver(steps, DOMAIN steps) <= NextStep
           /\ DOMAIN steps = {} => SumOver(steps, DOMAIN steps) = 0
<1> DEFINE f == [r \in Requests |-> Smaller(kv.remaining[r], Width)]
<1>1. /\ DOMAIN steps \in SUBSET Requests /\ IsFiniteSet(DOMAIN steps)
      /\ \A r \in DOMAIN steps : /\ steps[r] \in Nat /\ kv.remaining[r] \in Nat
                                 /\ steps[r] <= Width /\ steps[r] <= kv.remaining[r]
      /\ Width \in Nat /\ NextStep \in Nat
  <2>1. DOMAIN steps \in SUBSET Requests
    BY DEF Turns
  <2>2. kv \in Store /\ Width \in Nat /\ NextStep \in Nat
    BY ConfigType, NextStepType DEF IInv, TypeOK, NextStep
  <2>3. \A r \in DOMAIN steps : steps[r] \in Nat /\ steps[r] <= Width /\ steps[r] <= kv.remaining[r]
    BY DEF Turns
  <2>4. \A r \in Requests : kv.remaining[r] \in Nat
    BY <2>2, StoreNumbers
  <2>. QED  BY <2>1, <2>2, <2>3, <2>4, FiniteUniverse
<1>2. \A r \in DOMAIN steps : f[r] \in Int /\ steps[r] <= f[r]
  BY <1>1 DEF Smaller
<1>3. NextStep = SumOver(f, Live)
  BY DEF NextStep, NextStepUnits, Live
<1> HIDE DEF f
<1>4. SumOver(steps, DOMAIN steps) \in Nat
  BY <1>1, SumType
<1>5. DOMAIN steps = {} => SumOver(steps, DOMAIN steps) = 0
  BY <1>1, SumZero
<1>6. SumOver(steps, DOMAIN steps) <= SumOver(f, DOMAIN steps)
  BY <1>1, <1>2, SumMono
<1>7. DOMAIN steps = {} \/ DOMAIN steps = Live
  BY DEF Turns
<1>8. CASE DOMAIN steps = {}
  BY <1>1, <1>4, <1>5, <1>8
<1>9. CASE DOMAIN steps = Live
  BY <1>3, <1>4, <1>5, <1>6, <1>9
<1>. QED  BY <1>7, <1>8, <1>9

\* The prefills that end give up their promises for the contexts they compute.
LEMMA FinishedFit ==
    ASSUME IInv, NEW steps, Turns(steps)
    PROVE  /\ SumOver(NowContexts, Finished) \in Nat
           /\ SumOver(kv.promised, Finished) \in Nat
           /\ SumOver(NowContexts, Finished) <= SumOver(kv.promised, Finished)
<1>1. Finished \in SUBSET Prefilling /\ Finished \in SUBSET Requests
  BY DEF Turns
<1>2. \A r \in Finished : /\ NowContexts[r] \in Nat /\ kv.promised[r] \in Nat
                          /\ NowContexts[r] <= kv.promised[r]
  <2>1. \A r \in Requests : ContextOf(r) \in Nat /\ emitted[r] \in Nat /\ kv.promised[r] \in Nat
    BY WorkloadType, StoreNumbers DEF IInv, TypeOK
  <2>2. \A r \in Prefilling : kv.promised[r] >= ContextNow(r)
    BY DEF IInv, RetractionLosesNothing
  <2>. QED  BY <1>1, <2>1, <2>2 DEF NowContexts, ContextNow
<1>3. IsFiniteSet(Finished)
  BY <1>1, FiniteUniverse
<1>. QED  BY <1>2, <1>3, SumType, SumMono

\* Without prefills that end, the decodes peak no higher than before.
LEMMA PeakOfTurn ==
    ASSUME IInv, NEW steps, Turns(steps), Width = 1, phase = "computing"
    PROVE  ReachedPeak(kv', kv.decodes[0]) <= ReachedPeak(kv, kv.decodes[0])
<1> DEFINE ds == kv.decodes[0]
<1>1. PICK st : st = kv'
  OBVIOUS
<1>2. /\ kv \in Store /\ st \in Store /\ ds \in SUBSET Requests
  BY <1>1 DEF Turns, IInv, TypeOK
<1>3. \A r \in ds :
          /\ st.context[r] = IF r \in DOMAIN steps THEN kv.context[r] + steps[r]
                                                   ELSE kv.context[r]
          /\ st.remaining[r] = IF r \in DOMAIN steps THEN kv.remaining[r] - steps[r]
                                                     ELSE kv.remaining[r]
  BY <1>1 DEF Turns
<1>4. CASE DOMAIN steps = {}
  <2>1. \A r \in ds : st.context[r] = kv.context[r] /\ st.remaining[r] = kv.remaining[r]
    BY <1>3, <1>4
  <2> HIDE DEF ds
  <2>2. ReachedPeak(st, ds) <= ReachedPeak(kv, ds)
    BY <1>2, <2>1, PeakOfPart
  <2>. QED  BY <1>1, <2>2 DEF ds
<1>5. CASE DOMAIN steps = Live
  <2>1. \A r \in ds : kv.remaining[r] > 0
    <3>1. \A r \in ds : r \in Requests /\ kv.remaining[r] = OutputLeft(r) /\ emitted[r] < Target[r]
      BY <1>2 DEF IInv, RetractionLosesNothing, Outputs
    <3>2. \A r \in Requests : emitted[r] \in Nat /\ Target[r] \in Nat
      BY WorkloadType DEF IInv, TypeOK
    <3>. QED  BY <3>1, <3>2 DEF OutputLeft
  <2>2. \A r \in ds : r \in DOMAIN steps
    BY <1>5, <2>1 DEF Live, LiveDecodes
  <2>3. \A r \in ds : steps[r] = 1
    BY <2>2 DEF Turns
  <2>4. \A r \in ds : /\ kv.remaining[r] > 0
                      /\ st.context[r] = kv.context[r] + 1
                      /\ st.remaining[r] = kv.remaining[r] - 1
    BY <1>3, <2>1, <2>2, <2>3
  <2> HIDE DEF ds
  <2>5. ReachedPeak(st, ds) <= ReachedPeak(kv, ds)
    BY <1>2, <2>4, PeakAfterStep
  <2>. QED  BY <1>1, <2>5 DEF ds
<1>6. DOMAIN steps = {} \/ DOMAIN steps = Live
  BY DEF Turns
<1>. QED  BY <1>4, <1>5, <1>6

LEMMA IterationRooms ==
    ASSUME IInv, Rooms, PeakExact', CompleteIteration
    PROVE  Rooms'
<1>1. PICK steps : Turns(steps)
  BY TurnsIs
<1>2. /\ phase = "computing" /\ UNCHANGED config
      /\ \/ phase' = "finishing"
         \/ phase' = IF Mix /\ Bounded /\ Live' # {} THEN "preparing" ELSE "scheduling"
  BY DEF CompleteIteration, StartForming, Live
<1>3. /\ Mix' = Mix /\ Bounded' = Bounded /\ Width' = Width
  BY <1>2, SameSettings
<1> DEFINE grown == SumOver(steps, DOMAIN steps)
           begun == SumOver(NowContexts, Finished)
           given == SumOver(kv.promised, Finished)
           ds == kv.decodes[0]
<1>4. grown \in Nat /\ grown <= NextStep /\ (DOMAIN steps = {} => grown = 0)
  BY <1>1, StepsClaimed
<1>5. begun \in Nat /\ given \in Nat /\ begun <= given
  BY <1>1, FinishedFit
<1>6. /\ kv \in Store /\ kv.reserved[0] \in Int /\ kv.heldUnits[0] \in Int
      /\ kv.resident[0] \in Int /\ kv.peak[0] \in Int /\ Capacity \in Nat /\ NextStep \in Nat
      /\ ds \in SUBSET Requests
  BY StoreNumbers, NothingLive DEF IInv, TypeOK
<1>7. /\ kv'.heldUnits = kv.heldUnits /\ kv'.reserved[0] = kv.reserved[0] - given
      /\ kv'.resident[0] = (kv.resident[0] + grown) + begun
      /\ kv'.decodes[0] = ds \cup Finished
      /\ kv' \in Store
      /\ Bounded /\ DOMAIN steps # {} => Claimed
      /\ Finished = {} => kv'.peak[0] = kv.peak[0]
      /\ Finished # {} => kv'.peak[0] = ProjectedPeak(kv', ds \cup Finished)
      /\ Prefilling' = Prefilling \ Finished
      /\ \A r \in Prefilling \ Finished :
            kv'.promised[r] = kv.promised[r] /\ emitted'[r] = emitted[r]
  BY <1>1 DEF Turns
<1> HIDE DEF grown, begun, given
<1>8. /\ ProtectedUnits(kv, 0)' <= ProtectedUnits(kv, 0) + grown
      /\ ProtectedUnits(kv, 0)' \in Int /\ ProtectedUnits(kv, 0) \in Int
  <2>1. ProtectedUnits(kv, 0)' = ((kv.resident[0] + grown) + begun)
                                    + (kv.reserved[0] - given) + kv.heldUnits[0]
    BY <1>7, Zenon DEF ProtectedUnits
  <2>2. ProtectedUnits(kv, 0) = kv.resident[0] + kv.reserved[0] + kv.heldUnits[0]
    BY DEF ProtectedUnits
  <2>3. grown \in Nat /\ begun \in Nat /\ given \in Nat /\ begun <= given
        /\ kv.reserved[0] \in Int /\ kv.heldUnits[0] \in Int /\ kv.resident[0] \in Int
    BY <1>4, <1>5, <1>6
  <2>. QED  BY ONLY <2>1, <2>2, <2>3
<1>9. BoundedRoom'
  <2>1. SUFFICES ASSUME Bounded
                 PROVE  /\ ProtectedUnits(kv, 0)' <= Capacity
                        /\ Claimed' => ProtectedUnits(kv, 0)' + NextStep' <= Capacity
    BY <1>3 DEF BoundedRoom
  <2>2. ProtectedUnits(kv, 0)' <= Capacity
    <3>1. CASE DOMAIN steps = {}
      BY <1>4, <1>6, <1>8, <2>1, <3>1 DEF Rooms, BoundedRoom
    <3>2. CASE DOMAIN steps # {}
      <4>1. ProtectedUnits(kv, 0) + NextStep <= Capacity
        BY <1>7, <2>1, <3>2 DEF Rooms, BoundedRoom
      <4>. QED  BY <1>4, <1>6, <1>8, <4>1
    <3>. QED  BY <3>1, <3>2
  <2>3. Claimed' => Live' = {}
    BY <1>2, <1>3, <2>1 DEF Claimed
  <2>4. Live' = {} => NextStep' = 0
    <3>1. PICK st : st = kv'
      OBVIOUS
    <3>2. LiveDecodes(st, 0) = {} => NextStepUnits(st, 0, Width) = 0
      BY <1>7, <3>1, ConfigType, NextStepType DEF IInv, TypeOK
    <3>. QED  BY <1>3, <3>1, <3>2 DEF Live, NextStep
  <2>. QED  BY <1>6, <1>8, <2>2, <2>3, <2>4
<1>10. FullRoom'
  <2>1. SUFFICES ASSUME ~Bounded, Width = 1
                 PROVE  /\ \A q \in Prefilling' : kv'.promised[q] = ContextNow(q)' + OutputLeft(q)'
                        /\ kv'.peak[0] >= ReachedPeak(kv', kv'.decodes[0])
                        /\ kv'.peak[0] + kv'.reserved[0] <= Capacity
                        /\ phase' # "preparing"
    BY <1>3 DEF FullRoom
  <2>2. /\ \A r \in Prefilling : kv.promised[r] = ContextNow(r) + OutputLeft(r)
        /\ kv.peak[0] >= ReachedPeak(kv, ds)
        /\ kv.peak[0] + kv.reserved[0] <= Capacity
    BY <2>1 DEF Rooms, FullRoom
  <2>3. \A q \in Prefilling' : kv'.promised[q] = ContextNow(q)' + OutputLeft(q)'
    BY <1>7, <2>2 DEF ContextNow, OutputLeft
  <2>4. PICK st : st = kv'
    OBVIOUS
  <2>5. ReachedPeak(st, ds) <= ReachedPeak(kv, ds)
    BY <1>1, <1>2, <2>1, <2>4, PeakOfTurn
  <2>6. ReachedPeak(st, ds) \in Int /\ ReachedPeak(kv, ds) \in Int
    BY <1>6, <1>7, <2>4, PeakType
  <2>7. CASE Finished = {}
    <3>1. given = 0
      BY <2>7, FS_EmptySet, SumZero DEF given
    <3>2. kv'.peak[0] = kv.peak[0] /\ kv'.decodes[0] = ds
      BY <1>7, <2>7
    <3>3. kv'.peak[0] >= ReachedPeak(kv', kv'.decodes[0])
      <4>1. ReachedPeak(kv', kv'.decodes[0]) = ReachedPeak(st, ds)
        BY <2>4, <3>2
      <4> HIDE DEF ds
      <4>. QED  BY <1>6, <2>2, <2>5, <2>6, <3>2, <4>1
    <3>4. kv'.peak[0] + kv'.reserved[0] <= Capacity
      <4>1. kv'.reserved[0] = kv.reserved[0] - given
        BY <1>7
      <4>. QED  BY <1>6, <2>2, <3>1, <3>2, <4>1
    <3>. QED  BY <1>2, <2>1, <2>3, <3>3, <3>4
  <2>8. CASE Finished # {}
    <3>1. Finished \in SUBSET Requests /\ ds \cap Finished = {}
      BY <1>1 DEF Turns
    <3>2. \A r \in Finished :
             kv.promised[r] \in Nat /\ st.context[r] + st.remaining[r] <= kv.promised[r]
      <4>1. \A r \in Finished : /\ st.context[r] = ContextNow(r)
                                /\ st.remaining[r] = OutputLeft(r) - 1
                                /\ r \in Prefilling
        BY <1>1, <2>4 DEF Turns
      <4>2. \A r \in Finished : /\ ContextOf(r) \in Nat /\ emitted[r] \in Nat /\ Target[r] \in Nat
                                /\ kv.promised[r] \in Nat
        BY <1>6, <3>1, WorkloadType, StoreNumbers DEF IInv, TypeOK
      <4>. QED  BY <2>2, <4>1, <4>2 DEF ContextNow, OutputLeft
    <3> HIDE DEF ds
    <3>3. ReachedPeak(st, ds \cup Finished) <= ReachedPeak(st, ds) + given
      BY <1>6, <1>7, <2>4, <3>1, <3>2, PeakOfJoined DEF given
    <3>4. ReachedPeak(st, ds \cup Finished) \in Int
      <4>1. ds \cup Finished \in SUBSET Requests
        BY <1>6, <3>1
      <4>. QED  BY <1>7, <2>4, <4>1, PeakType
    <3>5. kv'.peak[0] = ReachedPeak(st, ds \cup Finished)
      <4>1. FewDecodes(st)
        BY <1>3, <2>1, <2>4 DEF PeakExact
      <4>2. ProjectedPeak(st, st.decodes[0]) = ReachedPeak(st, st.decodes[0])
        BY <1>7, <2>4, <4>1, ExactIs
      <4>. QED  BY <1>7, <2>4, <2>8, <4>2
    <3>6. kv'.peak[0] >= ReachedPeak(kv', kv'.decodes[0])
      BY <1>7, <2>4, <3>4, <3>5
    <3>7. kv'.peak[0] + kv'.reserved[0] <= Capacity
      <4>1. kv.peak[0] >= ReachedPeak(kv, ds)
        BY <2>2 DEF ds
      <4>. QED  BY <1>5, <1>6, <1>7, <2>2, <2>5, <2>6, <3>3, <3>4, <3>5, <4>1
    <3>. QED  BY <1>2, <2>1, <2>3, <3>6, <3>7
  <2>. QED  BY <2>7, <2>8
<1>. QED  BY <1>9, <1>10 DEF Rooms

\* Every step keeps the room.
LEMMA StepRooms ==
    ASSUME IInv, Rooms, PeakExact', [Next]_vars
    PROVE  Rooms'
<1>1. CASE UNCHANGED vars
  BY <1>1 DEF vars, Rooms, BoundedRoom, FullRoom, Claimed, NextStep, NextStepUnits, Live,
       LiveDecodes, Prefilling, ContextNow, OutputLeft, ProtectedUnits, Bounded, Width, Mix
<1>2. CASE \E r \in Requests : Retract(r)
  BY <1>2, RetractRooms
<1>3. CASE \E r \in Requests : AdmitHead(r)
  BY <1>3, AdmitRooms
<1>4. CASE \E r \in Requests : ReleaseFinished(r)
  BY <1>4, ReleaseRooms
<1>5. CASE CompleteIteration
  BY <1>5, IterationRooms
<1>6. CASE \/ BeginBatch \/ Prepared \/ Abort \/ ScheduleStarted \/ RefreshHead \/ CloseBatch
           \/ \E r \in Requests : Enqueue(r)
  BY <1>6, StillSteps
<1>7. CASE Terminated
  BY <1>1, <1>7 DEF Terminated
<1>. QED  BY <1>1, <1>2, <1>3, <1>4, <1>5, <1>6, <1>7 DEF Next, Tick

LEMMA InitRooms == Init => Rooms
<1>. SUFFICES ASSUME Init PROVE Rooms
  OBVIOUS
<1>1. /\ kv = EmptyStore /\ phase = "idle" /\ left = [r \in Requests |-> 0]
  BY DEF Init
<1>2. /\ kv.decodes[0] = {} /\ kv.reserved[0] = 0 /\ kv.heldUnits[0] = 0
      /\ kv.resident[0] = 0 /\ kv.peak[0] = 0
  BY <1>1, OnePartition DEF EmptyStore
<1>3. BoundedRoom
  BY <1>1, <1>2, StoreAssumption DEF BoundedRoom, ProtectedUnits, Claimed
<1>4. Prefilling = {}
  BY <1>1 DEF Prefilling
<1>5. ReachedPeak(kv, {}) <= 0
  BY <1>1, EmptyStoreType, EmptyPeak
<1>6. ReachedPeak(kv, {}) \in Int
  BY <1>1, EmptyStoreType, PeakType
<1>7. FullRoom
  BY <1>1, <1>2, <1>4, <1>5, <1>6, StoreAssumption DEF FullRoom
<1>. QED  BY <1>3, <1>7 DEF Rooms

-----------------------------------------------------------------------------
(* The rows of an iteration. *)

\* Sets of requests are finite, and a part is no larger than the whole.
LEMMA Counts ==
    ASSUME NEW S \in SUBSET Requests, NEW T \in SUBSET S
    PROVE  /\ IsFiniteSet(S) /\ Cardinality(S) \in Nat /\ Cardinality(T) \in Nat
           /\ Cardinality(T) <= Cardinality(S)
BY FiniteUniverse, FS_Subset, FS_CardinalityType

\* As many windows as the cap holds fit under it.
LEMMA WindowsFit ==
    ASSUME NEW n \in Nat, NEW cap \in Nat, NEW w \in Nat \ {0}, n <= cap \div w
    PROVE  n * w <= cap
<1>1. cap \div w \in Nat /\ (cap \div w) * w <= cap
  <2>1. /\ cap = w * (cap \div w) + (cap % w) /\ cap % w \in Nat
        /\ cap \div w \in Nat
    OBVIOUS
  <2>. QED  BY <2>1
<1>2. n * w <= (cap \div w) * w
  BY <1>1, Products
<1>3. n * w \in Nat /\ (cap \div w) * w \in Nat
  BY <1>1, Products
<1>. QED  BY <1>1, <1>2, <1>3

LEMMA BudgetIs ==
    ASSUME config \in Configs, Live \in SUBSET Requests
    PROVE  /\ Cardinality(Live) \in Nat /\ Cardinality(Live) * Width \in Nat
           /\ BatchTokens \in Nat /\ Width \in Nat
           /\ ~Mix => IterationBudget = BatchTokens
           /\ Mix /\ Cardinality(Live) * Width <= BatchTokens =>
                 IterationBudget = BatchTokens - Cardinality(Live) * Width
<1>1. Cardinality(Live) \in Nat
  BY Counts
<1>2. Width \in Nat /\ BatchTokens \in Nat
  BY ConfigType
<1>3. Cardinality(Live) * Width \in Nat
  BY <1>1, <1>2, Products
<1>. QED  BY <1>1, <1>2, <1>3 DEF IterationBudget, SaturatingSub

\* The decodes and the prompts that will decode are requests.
LEMMA WindowsType ==
    ASSUME IInv
    PROVE  Live \in SUBSET Requests /\ Windows \in SUBSET Requests /\ Live \in SUBSET Windows
BY StoreNumbers DEF IInv, TypeOK, Live, Windows, Prefilling

\* A step that takes no decode in leaves the budget as large as it was.
Settles ==
    /\ UNCHANGED config
    /\ Live' \in SUBSET Live /\ Windows' \in SUBSET Windows

LEMMA SettlesIs ==
    ASSUME IInv, Budgeted, Settles
    PROVE  /\ IterationBudget' \in Nat /\ IterationBudget <= IterationBudget'
           /\ Mix' => Cardinality(Live') * Width' <= BatchTokens'
           /\ Mix' /\ Width' > 1 => Cardinality(Windows') <= BatchTokens' \div Width'
<1>1. Mix' = Mix /\ Width' = Width /\ BatchTokens' = BatchTokens
  BY SameSettings DEF Settles
<1>2. /\ Live \in SUBSET Requests /\ Windows \in SUBSET Requests
  BY WindowsType
<1>3. PICK later : later = Live'
  OBVIOUS
<1>4. PICK rest : rest = Windows'
  OBVIOUS
<1>5. later \in SUBSET Live /\ rest \in SUBSET Windows
  BY <1>3, <1>4 DEF Settles
<1>6. /\ Cardinality(Live) \in Nat /\ Cardinality(later) \in Nat
      /\ Cardinality(later) <= Cardinality(Live)
      /\ Cardinality(Windows) \in Nat /\ Cardinality(rest) \in Nat
      /\ Cardinality(rest) <= Cardinality(Windows)
  BY <1>2, <1>5, Counts
<1>7. Width \in Nat \ {0} /\ BatchTokens \in Nat \ {0} /\ config \in Configs
  BY ConfigType DEF IInv, TypeOK
<1> DEFINE n == Cardinality(Live) * Width
           m == Cardinality(later) * Width
<1>8. n \in Nat /\ m \in Nat /\ m <= n
  BY <1>6, <1>7, Products
<1>9. IterationBudget' = IF Mix THEN SaturatingSub(BatchTokens, m) ELSE BatchTokens
  BY <1>1, <1>3 DEF IterationBudget
<1>10. IterationBudget = IF Mix THEN SaturatingSub(BatchTokens, n) ELSE BatchTokens
  BY DEF IterationBudget
<1>11. Mix => n <= BatchTokens
  BY DEF Budgeted
<1>12. BatchTokens \div Width \in Nat
  BY <1>7
<1>13. Cardinality(Live') * Width' = m
  BY <1>1, <1>3
<1> HIDE DEF n, m
<1>14. IterationBudget' \in Nat /\ IterationBudget <= IterationBudget'
  <2>1. PICK budget : budget = IterationBudget'
    OBVIOUS
  <2>2. budget \in Nat /\ IterationBudget <= budget
    BY <1>7, <1>8, <1>9, <1>10, <2>1 DEF SaturatingSub
  <2>. QED  BY <2>1, <2>2
<1>15. Mix => m <= BatchTokens
  BY <1>7, <1>8, <1>11
<1>16. Mix /\ Width > 1 => Cardinality(rest) <= BatchTokens \div Width
  BY <1>6, <1>12 DEF Budgeted
<1>. QED  BY <1>1, <1>4, <1>13, <1>14, <1>15, <1>16

\* A step that leaves the batch alone, or empties it.
Rests ==
    /\ Settles
    /\ batch' = batch \/ batch' = << >>
    /\ Len(started') <= Len(started) \/ started' = started
    /\ phase' = "forming" => phase = "forming" /\ started' = started /\ batch' = batch
                             /\ Live' = Live

LEMMA RestsBudgeted ==
    ASSUME IInv, Budgeted, Rests, started' \in Seq(Requests)
    PROVE  Budgeted'
<1>1. /\ IterationBudget' \in Nat /\ IterationBudget <= IterationBudget'
      /\ Mix' => Cardinality(Live') * Width' <= BatchTokens'
      /\ Mix' /\ Width' > 1 => Cardinality(Windows') <= BatchTokens' \div Width'
  BY SettlesIs DEF Rests
<1>2. /\ IterationBudget \in Nat /\ TokensOf(batch) \in Nat /\ TokensOf(batch) <= IterationBudget
  BY BudgetType DEF Budgeted
<1>3. TokensOf(batch') <= IterationBudget'
  <2>1. TokensOf(<< >>) = 0
    BY TokensEmpty
  <2>2. PICK budget : budget = IterationBudget'
    OBVIOUS
  <2>3. budget \in Nat /\ IterationBudget <= budget
    BY <1>1, <2>2
  <2>4. TokensOf(batch') = TokensOf(batch) \/ TokensOf(batch') = 0
    BY <2>1 DEF Rests
  <2>. QED  BY <1>2, <2>2, <2>3, <2>4
<1>4. Quantum' = Quantum
  BY SameSettings DEF Rests, Settles
<1>5. Quantum = 0 => Len(started') <= 1
  <2>1. Len(started) \in Nat /\ Len(started') \in Nat
    BY QueuesType DEF IInv
  <2>. QED  BY <2>1 DEF Rests, Budgeted
<1>6. phase' = "forming" => BudgetLeft(batch)' = BudgetLeft(batch)
  <2>1. SUFFICES ASSUME phase' = "forming" PROVE BudgetLeft(batch)' = BudgetLeft(batch)
    OBVIOUS
  <2>2. batch' = batch /\ Live' = Live /\ UNCHANGED config
    BY <2>1 DEF Rests, Settles
  <2>3. Mix' = Mix /\ Width' = Width /\ BatchTokens' = BatchTokens
    BY <2>2, SameSettings
  <2>. QED  BY <2>2, <2>3 DEF BudgetLeft, IterationBudget
<1>7. Quantum = 0 /\ phase' = "forming" /\ started' # << >> => BudgetLeft(batch)' = 0
  BY <1>6 DEF Rests, Budgeted
<1>. QED  BY <1>1, <1>3, <1>4, <1>5, <1>7 DEF Budgeted

\* The steps that take no chunk in.
LEMMA RestingSteps ==
    ASSUME IInv, IInv', Budgeted,
           \/ BeginBatch \/ Prepared \/ Abort \/ RefreshHead \/ CloseBatch
           \/ \E r \in Requests : Enqueue(r) \/ Retract(r) \/ ReleaseFinished(r)
    PROVE  Budgeted'
<1>. SUFFICES Rests
  <2>1. started' \in Seq(Requests)
    BY DEF IInv, TypeOK
  <2>. QED  BY <2>1, RestsBudgeted
<1>1. UNCHANGED << config, started, left, emitted, batch >>
  BY DEF BeginBatch, Prepared, Abort, RefreshHead, CloseBatch, Enqueue, Retract, ReleaseFinished
<1>2. \A q : OutputLeft(q)' = OutputLeft(q)
  BY <1>1 DEF OutputLeft
<1>3. Live' \in SUBSET Live => Windows' \in SUBSET Windows
  BY <1>1, <1>2 DEF Windows, Prefilling
<1>4. CASE \/ BeginBatch \/ Prepared \/ Abort \/ RefreshHead \/ CloseBatch
           \/ \E r \in Requests : Enqueue(r)
  <2>1. SameBooks(kv, kv')
    <3>1. CASE Prepared
      <4>1. kv' \in TrimmedForStep(kv, 0, Width)
        BY <3>1 DEF Prepared
      <4>2. PICK st : st = kv'
        OBVIOUS
      <4>3. Trims(kv, Width, st)
        BY <4>1, <4>2, ConfigType, TrimmedIs DEF IInv, TypeOK
      <4>. QED  BY <4>2, <4>3 DEF Trims
    <3>2. CASE ~Prepared
      <4>1. kv' = kv
        BY <1>4, <3>2 DEF BeginBatch, Abort, RefreshHead, CloseBatch, Enqueue
      <4>. QED  BY <4>1 DEF SameBooks
    <3>. QED  BY <3>1, <3>2
  <2>2. Live' = Live
    BY <2>1 DEF SameBooks, Live, LiveDecodes
  <2>3. phase' = "forming" => phase = "forming"
    BY <1>4 DEF BeginBatch, Prepared, Abort, RefreshHead, CloseBatch, Enqueue, StartForming,
         AfterPreparing
  <2>. QED  BY <1>1, <1>3, <2>2, <2>3 DEF Rests, Settles
<1>5. CASE \E r \in Requests : Retract(r) \/ ReleaseFinished(r)
  <2>1. PICK r \in Requests : Retract(r) \/ ReleaseFinished(r)
    BY <1>5
  <2>2. Departs(r)
    BY <2>1, RetractDeparts, ReleaseDeparts
  <2>3. phase' # "forming"
    BY <2>1 DEF Retract, ReleaseFinished, StartForming
  <2>4. Live' \in SUBSET Live
    <3>1. kv \in Store /\ kv.decodes[0] \in SUBSET Requests
      BY StoreNumbers DEF IInv, TypeOK
    <3>2. /\ kv'.decodes = [kv.decodes EXCEPT ![0] = kv.decodes[0] \ {r}]
          /\ \A q \in Requests \ {r} : kv'.remaining[q] = kv.remaining[q]
      BY <2>2 DEF Departs, Releases, ReleasedFrom
    <3>3. kv'.decodes[0] = kv.decodes[0] \ {r}
      BY <3>1, <3>2, OnePartition DEF Store
    <3>. QED  BY <3>1, <3>2, <3>3 DEF Live, LiveDecodes
  <2>. QED  BY <1>1, <1>3, <2>3, <2>4 DEF Rests, Settles
<1>. QED  BY <1>4, <1>5

\* The started prompts take their chunks.
LEMMA ScheduleBudgeted ==
    ASSUME IInv, Budgeted, ScheduleStarted
    PROVE  Budgeted'
<1> DEFINE S == { r \in Requests : ChunkOf(batch', r) < left[r] }
<1>1. /\ phase = "scheduling" /\ batch' = StartedChunks /\ started' = Kept(started, S)
      /\ UNCHANGED << config, kv, left, emitted >>
  BY DEF ScheduleStarted
<1>2. /\ Startable /\ IterationBudget \in Nat
  BY BudgetType
<1>3. /\ batch' \in Within
      /\ Quantum = 0 /\ Len(started) = 1 =>
            \/ TokensOf(batch') = IterationBudget
            \/ ChunkOf(batch', started[1]) = left[started[1]]
  BY <1>1, <1>2, StartedIs
<1>4. /\ Mix' = Mix /\ Width' = Width /\ BatchTokens' = BatchTokens /\ Quantum' = Quantum
  BY <1>1, SameSettings
<1>5. Live' = Live /\ Windows' = Windows
  BY <1>1 DEF Live, LiveDecodes, Windows, Prefilling, OutputLeft
<1>6. IterationBudget' = IterationBudget
  BY <1>4, <1>5 DEF IterationBudget
<1>7. TokensOf(batch') <= IterationBudget' /\ TokensOf(batch') \in Nat
  BY <1>3, <1>6, TokensType DEF Within
<1>8. started \in Seq(Requests) /\ Distinct(started) /\ Len(started) \in Nat
  BY QueuesType DEF IInv
<1> HIDE DEF S
<1>9. /\ Kept(started, S) \in Seq(Requests) /\ Members(Kept(started, S)) = Members(started) \cap S
      /\ Len(Kept(started, S)) <= Len(started) /\ Len(Kept(started, S)) \in Nat
  BY <1>8, KeptIs
<1>10. Quantum = 0 => Len(started') <= 1
  BY <1>1, <1>8, <1>9 DEF Budgeted
<1>11. ASSUME Quantum = 0, started' # << >>
       PROVE  TokensOf(batch') = IterationBudget
  <2>1. Len(Kept(started, S)) # 0
    BY <1>1, <1>9, <1>11
  <2>2. Len(started) = 1
    <3>1. Len(started) <= 1
      BY <1>11 DEF Budgeted
    <3> DEFINE n == Len(started)
               m == Len(Kept(started, S))
    <3>2. n \in Nat /\ m \in Nat /\ m <= n /\ n <= 1 /\ m # 0
      BY <1>8, <1>9, <2>1, <3>1
    <3>3. n = 1
      <4> HIDE DEF n, m
      <4>. QED  BY <3>2
    <3>. QED  BY <3>3
  <2>3. \E r \in Members(started) : r \in S
    <3>1. Kept(started, S)[1] \in Members(Kept(started, S))
      BY <1>9, <2>1 DEF Members
    <3>. QED  BY <1>9, <3>1
  <2>4. started[1] \in S
    BY <2>2, <2>3 DEF Members
  <2>5. ChunkOf(batch', started[1]) < left[started[1]] /\ started[1] \in Requests
    BY <2>4 DEF S
  <2>6. ChunkOf(batch', started[1]) # left[started[1]]
    BY <2>5 DEF IInv, TypeOK
  <2>. QED  BY <1>3, <1>11, <2>2, <2>6
<1>12. TokensOf(batch') = IterationBudget => BudgetLeft(batch)' = 0
  BY <1>2, <1>6 DEF BudgetLeft
<1>. QED  BY <1>4, <1>5, <1>7, <1>10, <1>11, <1>12 DEF Budgeted

\* An admission takes its first chunk, and a window for its decode.
LEMMA AdmitBudgeted ==
    ASSUME IInv, Budgeted, NEW r \in Requests, AdmitHead(r)
    PROVE  Budgeted'
<1> DEFINE need == PrefillTokens(kv, r)
           tokens == FirstChunk(r)
           chunk == [req |-> r, tokens |-> tokens]
<1>1. /\ phase = "forming" /\ BudgetLeft(batch) > 0 /\ tokens > 0 /\ SlotFree(r)
      /\ kv' \in Reservations(r)
      /\ left' = [left EXCEPT ![r] = need]
      /\ batch' = Append(batch, chunk)
      /\ started' = IF tokens < need THEN Append(started, r) ELSE started
      /\ UNCHANGED << config, emitted >>
  BY DEF AdmitHead, Admissible
<1>2. /\ IterationBudget \in Nat /\ TokensOf(batch) \in Nat /\ BudgetLeft(batch) \in Nat
      /\ BudgetLeft(batch) = IterationBudget - TokensOf(batch)
      /\ config \in Configs /\ batch \in Seq(Chunks)
  BY <1>1, BudgetType, SMTT(30) DEF IInv, TypeOK, BudgetLeft, Chunks
<1>3. need \in Nat /\ need <= ContextNow(r) /\ ContextNow(r) \in Nat
  BY PrefillIs DEF IInv, TypeOK
<1>4. /\ tokens \in Nat /\ tokens <= need /\ tokens <= BudgetLeft(batch)
      /\ Quantum = 0 => tokens = Smaller(need, BudgetLeft(batch))
  <2> DEFINE budget == BudgetLeft(batch)
  <2>1. budget \in Nat
    BY <1>2
  <2>2. tokens = ChunkTokens(r, need, budget)
    BY DEF FirstChunk
  <2> HIDE DEF tokens, need, budget
  <2>3. /\ tokens \in Nat /\ tokens <= need /\ tokens <= budget
        /\ Quantum = 0 => tokens = Smaller(need, budget)
    BY <1>2, <1>3, <2>1, <2>2, ChunkIs
  <2>. QED  BY <2>3 DEF budget
<1> HIDE DEF tokens, need
<1>5. TokensOf(batch') = TokensOf(batch) + tokens
  <2>1. chunk \in Chunks /\ chunk.tokens = tokens
    BY <1>1, <1>4 DEF Chunks
  <2> HIDE DEF chunk
  <2>. QED  BY <1>1, <1>2, <2>1, TokensAppend
<1>6. /\ Mix' = Mix /\ Width' = Width /\ BatchTokens' = BatchTokens /\ Quantum' = Quantum
  BY <1>1, SameSettings
<1>7. Live' = Live
  <2>1. PICK st : st = kv'
    OBVIOUS
  <2>2. FootprintOf(r) \in Nat
    BY FootprintIs DEF IInv, TypeOK, Outputs
  <2>3. Reserves(kv, r, FootprintOf(r), st)
    BY <1>1, <2>1, <2>2, ReservationsAre DEF IInv, TypeOK
  <2>. QED  BY <2>1, <2>3 DEF Reserves, ReservedFor, Live, LiveDecodes
<1>8. IterationBudget' = IterationBudget
  BY <1>6, <1>7 DEF IterationBudget
<1>9. TokensOf(batch') <= IterationBudget'
  BY <1>2, <1>4, <1>5, <1>8
<1>10. Mix' => Cardinality(Live') * Width' <= BatchTokens'
  BY <1>6, <1>7 DEF Budgeted
<1>13. BatchTokens \div Width \in Nat
  <2>1. BatchTokens \in Nat \ {0} /\ Width \in Nat \ {0}
    BY <1>2, ConfigType
  <2>. QED  BY <2>1
<1>11. Mix' /\ Width' > 1 => Cardinality(Windows') <= BatchTokens' \div Width'
  <2>1. SUFFICES ASSUME Mix, Width > 1
                 PROVE  Cardinality(Windows') <= BatchTokens \div Width
    BY <1>6
  <2>2. /\ Live \in SUBSET Requests /\ Windows \in SUBSET Requests
        /\ Cardinality(Windows) <= BatchTokens \div Width
    BY <2>1, WindowsType DEF Budgeted
  <2> DEFINE P == { q \in Requests : left[q] > 0 /\ OutputLeft(q) > 1 }
  <2>3. Windows = Live \cup P
    BY DEF Windows, Prefilling
  <2>4. Windows' \in SUBSET (Windows \cup IF OutputLeft(r) > 1 THEN {r} ELSE {})
    <3>1. \A q : OutputLeft(q)' = OutputLeft(q)
      BY <1>1 DEF OutputLeft
    <3>2. \A q \in Requests : q # r => left'[q] = left[q]
      BY <1>1 DEF IInv, TypeOK
    <3>3. Windows' = Live' \cup { q \in Requests : left'[q] > 0 /\ OutputLeft(q)' > 1 }
      BY DEF Windows, Prefilling
    <3>. QED  BY <1>7, <2>3, <3>1, <3>2, <3>3
  <2>5. CASE ~(OutputLeft(r) > 1)
    <3>1. PICK later : later = Windows'
      OBVIOUS
    <3>2. later \in SUBSET Windows
      BY <2>4, <2>5, <3>1
    <3>3. /\ Cardinality(later) <= Cardinality(Windows) /\ Cardinality(later) \in Nat
          /\ Cardinality(Windows) \in Nat
      BY <2>2, <3>2, Counts
    <3>. QED  BY <1>13, <2>2, <3>1, <3>3
  <2>6. CASE OutputLeft(r) > 1
    <3>1. BatchTokens \div Width > Cardinality(Live) + Cardinality(P)
      <4>1. OutputLeft(r) \in Int
        BY PrefillIs DEF IInv, TypeOK
      <4>2. ~(Width = 1) /\ ~(OutputLeft(r) <= 1)
        BY <2>1, <2>6, <4>1
      <4>. QED  BY <1>1, <4>2 DEF SlotFree
    <3>2. P \in SUBSET Requests
      OBVIOUS
    <3> HIDE DEF P
    <3>3. PICK later : later = Windows'
      OBVIOUS
    <3>4. later \in SUBSET ((Live \cup P) \cup {r})
      BY <2>3, <2>4, <2>6, <3>3
    <3>5. /\ IsFiniteSet(Live) /\ IsFiniteSet(P) /\ IsFiniteSet(Live \cup P)
          /\ Cardinality(Live) \in Nat /\ Cardinality(P) \in Nat
          /\ Cardinality(Live \cup P) \in Nat
      BY <2>2, <3>2, FS_Union, Counts
    <3>6. Cardinality(Live \cup P) <= Cardinality(Live) + Cardinality(P)
      <4>1. /\ Cardinality(Live \cup P)
                 = Cardinality(Live) + Cardinality(P) - Cardinality(Live \cap P)
            /\ Cardinality(Live \cap P) \in Nat
        BY <3>5, FS_Union, FS_Intersection, FS_CardinalityType
      <4>. QED  BY <3>5, <4>1
    <3>7. /\ IsFiniteSet((Live \cup P) \cup {r})
          /\ Cardinality((Live \cup P) \cup {r}) <= Cardinality(Live \cup P) + 1
      <4> DEFINE both == Live \cup P
      <4>1. IsFiniteSet(both) /\ Cardinality(both) \in Nat
        BY <3>5
      <4> HIDE DEF both
      <4>2. /\ IsFiniteSet(both \cup {r})
            /\ Cardinality(both \cup {r}) = IF r \in both THEN Cardinality(both)
                                                         ELSE Cardinality(both) + 1
        BY <4>1, FS_AddElement
      <4>3. Cardinality(both \cup {r}) <= Cardinality(both) + 1
        BY <4>1, <4>2
      <4>. QED  BY <4>2, <4>3 DEF both
    <3>8. (Live \cup P) \cup {r} \in SUBSET Requests
      BY <2>2, <3>2
    <3>9. /\ Cardinality(later) <= Cardinality((Live \cup P) \cup {r})
          /\ Cardinality(later) \in Nat /\ Cardinality((Live \cup P) \cup {r}) \in Nat
      BY <3>4, <3>8, Counts
    <3>. QED  BY <1>13, <3>1, <3>3, <3>5, <3>6, <3>7, <3>9
  <2>. QED  BY <2>5, <2>6
<1>12. Quantum = 0 => /\ Len(started') <= 1
                      /\ started' # << >> => BudgetLeft(batch)' = 0
  <2>1. SUFFICES ASSUME Quantum = 0
                 PROVE  /\ Len(started') <= 1
                        /\ started' # << >> => BudgetLeft(batch)' = 0
    OBVIOUS
  <2>2. started = << >>
    BY <1>1, <1>2, <2>1 DEF Budgeted
  <2>3. CASE tokens < need
    <3>1. started' = << r >>
      BY <1>1, <2>2, <2>3
    <3>2. tokens = BudgetLeft(batch)
      BY <1>2, <1>3, <1>4, <2>1, <2>3 DEF Smaller
    <3>3. BudgetLeft(batch)' = 0
      BY <1>2, <1>4, <1>5, <1>8, <3>2 DEF BudgetLeft
    <3>. QED  BY <3>1, <3>3
  <2>4. CASE ~(tokens < need)
    BY <1>1, <2>2, <2>4
  <2>. QED  BY <2>3, <2>4
<1>. QED  BY <1>6, <1>9, <1>10, <1>11, <1>12 DEF Budgeted

\* The end of an iteration: the prefills that go on decoding had their windows.
LEMMA IterationWindows ==
    ASSUME IInv, CompleteIteration
    PROVE  /\ Live' \in SUBSET (Live \cup Finished)
           /\ Windows' \in SUBSET Windows
           /\ Live' \in SUBSET Windows'
<1>1. PICK steps : Turns(steps)
  BY TurnsIs
<1>2. /\ Finished \in SUBSET Prefilling /\ Prefilling' = Prefilling \ Finished
      /\ kv'.decodes[0] = kv.decodes[0] \cup Finished
      /\ Prefilling \in SUBSET Requests /\ kv.decodes[0] \in SUBSET Requests
      /\ \A r \in DOMAIN steps : steps[r] \in Nat /\ steps[r] <= kv.remaining[r]
      /\ \A r \in kv.decodes[0] :
            kv'.remaining[r] = IF r \in DOMAIN steps THEN kv.remaining[r] - steps[r]
                                                     ELSE kv.remaining[r]
      /\ \A r \in Finished : kv'.remaining[r] = OutputLeft(r) - 1
      /\ \A r \in Prefilling \ Finished : emitted'[r] = emitted[r]
  BY <1>1 DEF Turns
<1>3. \A r \in Requests : kv.remaining[r] \in Nat /\ OutputLeft(r) \in Int
  BY StoreNumbers, PrefillIs DEF IInv, TypeOK
<1>4. ASSUME NEW r \in Live', r \notin Finished
      PROVE  r \in Live
  <2>1. r \in kv.decodes[0] /\ kv'.remaining[r] > 0
    BY <1>2, <1>4 DEF Live, LiveDecodes
  <2>2. kv.remaining[r] > 0
    BY <1>2, <1>3, <2>1
  <2>. QED  BY <2>1, <2>2 DEF Live, LiveDecodes
<1>5. ASSUME NEW r \in Live', r \in Finished
      PROVE  r \in Prefilling /\ OutputLeft(r) > 1
  <2>1. kv'.remaining[r] > 0
    BY <1>5 DEF Live, LiveDecodes
  <2>. QED  BY <1>2, <1>3, <1>5, <2>1
<1>6. ASSUME NEW r \in Prefilling', OutputLeft(r)' > 1
      PROVE  r \in Prefilling /\ OutputLeft(r) > 1
  <2>1. r \in Prefilling \ Finished
    BY <1>2, <1>6
  <2>2. OutputLeft(r)' = OutputLeft(r)
    BY <1>2, <2>1 DEF OutputLeft
  <2>. QED  BY <1>6, <2>1, <2>2
<1>. QED  BY <1>4, <1>5, <1>6 DEF Windows

LEMMA IterationBudgeted ==
    ASSUME IInv, Budgeted, CompleteIteration
    PROVE  Budgeted'
<1>1. /\ UNCHANGED << config, started >> /\ batch' = << >> /\ phase' # "forming"
  BY DEF CompleteIteration, StartForming
<1>2. /\ Mix' = Mix /\ Width' = Width /\ BatchTokens' = BatchTokens /\ Quantum' = Quantum
  BY <1>1, SameSettings
<1>3. PICK later : later = Live'
  OBVIOUS
<1>4. PICK rest : rest = Windows'
  OBVIOUS
<1>5. /\ later \in SUBSET (Live \cup Finished) /\ rest \in SUBSET Windows
      /\ later \in SUBSET rest
  BY <1>3, <1>4, IterationWindows
<1>6. /\ Live \in SUBSET Requests /\ Windows \in SUBSET Requests /\ Live \in SUBSET Windows
  BY WindowsType
<1>7. /\ config \in Configs /\ batch \in Seq(Chunks) /\ OneEach(batch)
      /\ Finished \subseteq ReqsOf(batch)
  BY FinishedIs DEF IInv, TypeOK, Batched, ChunksFit
<1>8. /\ Width \in Nat \ {0} /\ BatchTokens \in Nat \ {0} /\ BatchTokens \div Width \in Nat
  <2>1. Width \in Nat \ {0} /\ BatchTokens \in Nat \ {0}
    BY <1>7, ConfigType
  <2>. QED  BY <2>1
<1>9. /\ Cardinality(later) \in Nat /\ Cardinality(rest) \in Nat
      /\ Cardinality(later) <= Cardinality(rest) /\ Cardinality(rest) <= Cardinality(Windows)
      /\ Cardinality(Windows) \in Nat
  <2>1. rest \in SUBSET Requests
    BY <1>5, <1>6
  <2>. QED  BY <1>5, <1>6, <2>1, Counts
<1>10. ASSUME Mix, Width > 1
       PROVE  /\ Cardinality(later) * Width <= BatchTokens
              /\ Cardinality(rest) <= BatchTokens \div Width
  <2>1. Cardinality(Windows) <= BatchTokens \div Width
    BY <1>10 DEF Budgeted
  <2>2. /\ Cardinality(later) <= BatchTokens \div Width
        /\ Cardinality(rest) <= BatchTokens \div Width
    BY <1>8, <1>9, <2>1
  <2>. QED  BY <1>8, <1>9, <2>2, WindowsFit
<1>11. ASSUME Mix, Width = 1
       PROVE  Cardinality(later) * Width <= BatchTokens
  <2>1. /\ Finished \in SUBSET ReqsOf(batch) /\ ReqsOf(batch) \in SUBSET Requests
        /\ Cardinality(ReqsOf(batch)) <= TokensOf(batch)
    BY <1>7, ReqsBounded
  <2>2. /\ Cardinality(Finished) <= TokensOf(batch) /\ Cardinality(Finished) \in Nat
        /\ TokensOf(batch) \in Nat
    <3>1. /\ Cardinality(Finished) <= Cardinality(ReqsOf(batch)) /\ Cardinality(Finished) \in Nat
          /\ Cardinality(ReqsOf(batch)) \in Nat
      BY <2>1, Counts
    <3>. QED  BY <1>7, <2>1, <3>1, TokensType
  <2>3. /\ Cardinality(Live) \in Nat /\ Cardinality(Live) * Width \in Nat
        /\ IterationBudget = BatchTokens - Cardinality(Live) * Width
    <3>1. Cardinality(Live) * Width <= BatchTokens
      BY <1>11 DEF Budgeted
    <3>. QED  BY <1>6, <1>7, <1>11, <3>1, BudgetIs
  <2>4. Cardinality(Live) * Width = Cardinality(Live) /\ Cardinality(later) * Width = Cardinality(later)
    BY <1>9, <1>11, <2>3
  <2>5. TokensOf(batch) <= IterationBudget
    BY DEF Budgeted
  <2>6. Cardinality(later) <= Cardinality(Live) + Cardinality(Finished)
    <3>1. Live \cup Finished \in SUBSET Requests /\ Finished \in SUBSET Requests
      BY <1>6, <2>1
    <3>2. /\ IsFiniteSet(Live) /\ IsFiniteSet(Finished)
          /\ Cardinality(later) <= Cardinality(Live \cup Finished)
          /\ Cardinality(Live \cup Finished) \in Nat
      BY <1>5, <1>6, <3>1, Counts
    <3>3. /\ Cardinality(Live \cup Finished)
               = Cardinality(Live) + Cardinality(Finished) - Cardinality(Live \cap Finished)
          /\ Cardinality(Live \cap Finished) \in Nat
      BY <3>2, FS_Union, FS_Intersection, FS_CardinalityType
    <3>. QED  BY <1>9, <2>2, <2>3, <3>2, <3>3
  <2>. QED  BY <1>8, <1>9, <2>2, <2>3, <2>4, <2>5, <2>6
<1>12. Mix => Cardinality(later) * Width <= BatchTokens
  BY <1>8, <1>10, <1>11
<1>13. Cardinality(Live') * Width' = Cardinality(later) * Width
  BY <1>2, <1>3
<1>14. TokensOf(batch') <= IterationBudget'
  <2>1. TokensOf(batch') = 0
    BY <1>1, TokensEmpty
  <2>2. Cardinality(later) * Width \in Nat
    BY <1>8, <1>9, Products
  <2>3. IterationBudget' = IF Mix THEN SaturatingSub(BatchTokens, Cardinality(later) * Width)
                                  ELSE BatchTokens
    BY <1>2, <1>3 DEF IterationBudget
  <2> DEFINE rows == Cardinality(later) * Width
  <2>4. 0 <= IF Mix THEN SaturatingSub(BatchTokens, rows) ELSE BatchTokens
    <3>1. rows \in Nat
      BY <2>2
    <3> HIDE DEF rows
    <3>. QED  BY <1>8, <3>1 DEF SaturatingSub
  <2>. QED  BY <2>1, <2>3, <2>4
<1>15. Quantum = 0 => Len(started) <= 1
  BY DEF Budgeted
<1>. QED  BY <1>1, <1>2, <1>4, <1>10, <1>12, <1>13, <1>14, <1>15 DEF Budgeted

\* Every step keeps the budget.
LEMMA StepBudgeted ==
    ASSUME IInv, IInv', Budgeted, [Next]_vars
    PROVE  Budgeted'
<1>1. CASE UNCHANGED vars
  BY <1>1 DEF vars, Budgeted, Windows, Live, LiveDecodes, Prefilling, OutputLeft, IterationBudget,
       BudgetLeft, Mix, Width, BatchTokens, Quantum
<1>2. CASE \/ BeginBatch \/ Prepared \/ Abort \/ RefreshHead \/ CloseBatch
           \/ \E r \in Requests : Enqueue(r) \/ Retract(r) \/ ReleaseFinished(r)
  BY <1>2, RestingSteps
<1>3. CASE ScheduleStarted
  BY <1>3, ScheduleBudgeted
<1>4. CASE \E r \in Requests : AdmitHead(r)
  BY <1>4, AdmitBudgeted
<1>5. CASE CompleteIteration
  BY <1>5, IterationBudgeted
<1>6. CASE Terminated
  BY <1>1, <1>6 DEF Terminated
<1>. QED  BY <1>1, <1>2, <1>3, <1>4, <1>5, <1>6 DEF Next, Tick

LEMMA InitBudgeted == Init => Budgeted
<1>. SUFFICES ASSUME Init PROVE Budgeted
  OBVIOUS
<1>1. /\ kv = EmptyStore /\ batch = << >> /\ started = << >> /\ phase = "idle"
      /\ left = [r \in Requests |-> 0] /\ config \in Configs
  BY DEF Init
<1>2. Live = {} /\ Windows = {}
  BY <1>1, OnePartition DEF EmptyStore, Live, LiveDecodes, Windows, Prefilling
<1>3. Cardinality(Live) = 0 /\ Cardinality(Windows) = 0
  BY <1>2, FS_EmptySet
<1>4. /\ Width \in Nat \ {0} /\ BatchTokens \in Nat \ {0} /\ BatchTokens \div Width \in Nat
  <2>1. Width \in Nat \ {0} /\ BatchTokens \in Nat \ {0}
    BY <1>1, ConfigType
  <2>. QED  BY <2>1
<1>5. Cardinality(Live) * Width = 0
  BY <1>3, <1>4
<1>6. IterationBudget = BatchTokens
  BY <1>4, <1>5 DEF IterationBudget, SaturatingSub
<1>7. TokensOf(batch) = 0 /\ Len(started) = 0
  BY <1>1, TokensEmpty
<1>. QED  BY <1>1, <1>3, <1>4, <1>5, <1>6, <1>7 DEF Budgeted

\* The rows of a mixed iteration are claimed.
LEMMA RowsAre ==
    ASSUME IInv, Budgeted
    PROVE  RowsClaimed
<1>1. ASSUME Mix
      PROVE  TokensOf(batch) + Cardinality(Live) * Width <= BatchTokens
  <2>1. /\ TokensOf(batch) <= IterationBudget /\ Cardinality(Live) * Width <= BatchTokens
    BY <1>1 DEF Budgeted
  <2>2. TokensOf(batch) \in Nat /\ config \in Configs /\ Live \in SUBSET Requests
    BY BudgetType, WindowsType DEF IInv, TypeOK
  <2>3. /\ Cardinality(Live) * Width \in Nat /\ BatchTokens \in Nat
        /\ IterationBudget = BatchTokens - Cardinality(Live) * Width
    BY <1>1, <2>1, <2>2, BudgetIs
  <2>. QED  BY <2>1, <2>2, <2>3
<1>2. Quantum = 0 => Len(started) <= 1
  BY DEF Budgeted
<1>. QED  BY <1>1, <1>2 DEF RowsClaimed

\* The three together claim every step.
LEMMA ClaimedIs ==
    ASSUME IInv, Rooms, Budgeted
    PROVE  StepClaimed
<1> DEFINE next == SumOver([r \in Requests |-> Smaller(kv.remaining[r], Width)], Live)
<1>1. /\ kv \in Store /\ kv.reserved[0] \in Int /\ kv.resident[0] \in Int
      /\ kv.peak[0] \in Int /\ Capacity \in Nat /\ ProtectedUnits(kv, 0) \in Int
      /\ kv.decodes[0] \in SUBSET Requests
      /\ kv.heldUnits[0] = 0 /\ kv.resident[0] = SumOver(kv.context, kv.decodes[0])
  BY StoreNumbers DEF IInv, TypeOK, Books
<1>2. next = NextStep
  BY DEF NextStep, NextStepUnits, Live
<1>3. Bounded => /\ ProtectedUnits(kv, 0) <= Capacity
                 /\ phase = "computing" /\ (Mix \/ batch = << >>) =>
                       ProtectedUnits(kv, 0) + next <= Capacity
  BY <1>2 DEF Rooms, BoundedRoom, Claimed
<1>4. ~Bounded /\ Width = 1 => ProtectedUnits(kv, 0) <= Capacity
  <2>1. SUFFICES ASSUME ~Bounded, Width = 1 PROVE ProtectedUnits(kv, 0) <= Capacity
    OBVIOUS
  <2>2. /\ kv.peak[0] >= ReachedPeak(kv, kv.decodes[0])
        /\ kv.peak[0] + kv.reserved[0] <= Capacity
    BY <2>1 DEF Rooms, FullRoom
  <2>3. SumOver(kv.context, kv.decodes[0]) <= ReachedPeak(kv, kv.decodes[0])
        /\ ReachedPeak(kv, kv.decodes[0]) \in Int
    BY <1>1, ResidentBounded, PeakType
  <2>. QED  BY <1>1, <2>2, <2>3 DEF ProtectedUnits
<1> HIDE DEF next
<1>5. (Bounded \/ Width = 1) =>
          ProtectedUnits(kv, 0)
            + (IF Bounded /\ phase = "computing" /\ (Mix \/ batch = << >>) THEN next ELSE 0)
          <= Capacity
  BY <1>1, <1>3, <1>4
<1>. QED  BY <1>5, RowsAre DEF StepClaimed, KvClaimed, next

\* Every iteration has claimed what it may grow before it runs, and a mixed one
\* stays below the row cap: whatever is retracted, admitted or evicted, the
\* resident KV with its promises and the next step of every decode is within the
\* capacity; full footprints claim it as long as fewer than twelve decode at once.
THEOREM AlwaysClaimed == Spec => []RowsClaimed /\ ([]PeakExact => []StepClaimed)
<1>1. Init => Rooms /\ Budgeted
  BY InitRooms, InitBudgeted
<1>2. IInv /\ IInv' /\ Budgeted /\ [Next]_vars => Budgeted'
  BY StepBudgeted
<1>3. IInv /\ Budgeted => RowsClaimed
  BY RowsAre
<1>4. IInv /\ Rooms /\ PeakExact' /\ [Next]_vars => Rooms'
  BY StepRooms
<1>5. IInv /\ Rooms /\ Budgeted => StepClaimed
  BY ClaimedIs
<1>. QED  BY <1>1, <1>2, <1>3, <1>4, <1>5, Invariance, PTL DEF Spec

-----------------------------------------------------------------------------
(* Cached keys are upper bounds. *)

\* The cached key of a pending request is at least what it would find resident.
KeyHolds(q) == PrefixMatch(kv, q) <= matched[q]

Best == \A q \in Members(queue) : KeyHolds(q)

Ordered == RoundsOrdered(arrived, done)

\* A shorter entry makes no match longer.
LEMMA MatchDrops ==
    ASSUME NEW st \in Store, NEW new \in Store, NEW r \in Requests, emitted[r] \in Nat,
           HasSession(r) => new.cache[0][SessionOf[r]] <= st.cache[0][SessionOf[r]]
    PROVE  PrefixMatch(new, r) <= PrefixMatch(st, r)
<1>1. /\ Fresh[r] \in Nat /\ Declared[r] \in Nat
      /\ ContextOf(r) = Fresh[r] + Declared[r]
  BY WorkloadType DEF ContextOf
<1> DEFINE old == PrefixHit(st, 0, r)
           hit == PrefixHit(new, 0, r)
<1>2. /\ old \in Nat /\ old <= Declared[r] /\ hit \in Nat /\ hit <= Declared[r]
  BY <1>1, OnePartition, PeekType DEF PrefixHit
<1>3. hit <= old
  <2>1. CASE HasSession(r)
    <3>1. SessionOf[r] \in Sessions
      BY <2>1, WorkloadAssumption DEF HasSession
    <3>2. st.cache[0][SessionOf[r]] \in Nat /\ new.cache[0][SessionOf[r]] \in Nat
      BY <3>1, OnePartition DEF Store
    <3>. QED  BY <1>1, <2>1, <3>2 DEF PrefixHit, Peek, Smaller
  <2>2. CASE ~HasSession(r)
    BY <1>1, <2>2 DEF PrefixHit
  <2>. QED  BY <2>1, <2>2
<1>4. /\ PrefillTokensToCompute(st, 0, r) =
            IF Fresh[r] = 0 /\ Declared[r] - old = 0 /\ Declared[r] > 0
            THEN 1 ELSE Fresh[r] + (Declared[r] - old)
      /\ PrefillTokensToCompute(new, 0, r) =
            IF Fresh[r] = 0 /\ Declared[r] - hit = 0 /\ Declared[r] > 0
            THEN 1 ELSE Fresh[r] + (Declared[r] - hit)
  BY DEF PrefillTokensToCompute
<1>5. ContextNow(r) \in Nat
  BY <1>1 DEF ContextNow
<1>6. /\ PrefillTokens(st, r) = IF emitted[r] = 0 THEN PrefillTokensToCompute(st, 0, r)
                                ELSE ContextNow(r) - old
      /\ PrefillTokens(new, r) = IF emitted[r] = 0 THEN PrefillTokensToCompute(new, 0, r)
                                 ELSE ContextNow(r) - hit
  BY DEF PrefillTokens
<1> HIDE DEF old, hit
<1>7. PrefillTokens(new, r) >= PrefillTokens(st, r)
      /\ PrefillTokens(new, r) \in Int /\ PrefillTokens(st, r) \in Int
  <2>1. CASE emitted[r] = 0
    <3>1. /\ PrefillTokens(st, r) = PrefillTokensToCompute(st, 0, r)
          /\ PrefillTokens(new, r) = PrefillTokensToCompute(new, 0, r)
      BY <1>6, <2>1
    <3> DEFINE a == PrefillTokensToCompute(st, 0, r)
               b == PrefillTokensToCompute(new, 0, r)
               d == Declared[r]
               f == Fresh[r]
    <3>2. d \in Nat /\ f \in Nat
      BY <1>1
    <3>3. /\ a = IF f = 0 /\ d - old = 0 /\ d > 0 THEN 1 ELSE f + (d - old)
          /\ b = IF f = 0 /\ d - hit = 0 /\ d > 0 THEN 1 ELSE f + (d - hit)
      BY <1>4
    <3>4. old <= d /\ hit <= d
      BY <1>2
    <3> HIDE DEF a, b, d, f
    <3>5. a \in Int /\ b \in Int
      BY <1>2, <3>2, <3>3
    <3>6. b >= a
      <4>1. CASE f = 0 /\ d > 0 /\ d = old
        BY <1>2, <1>3, <3>2, <3>3, <3>4, <4>1
      <4>2. CASE ~(f = 0 /\ d > 0 /\ d = old)
        <5>1. a = f + (d - old)
          BY <1>2, <3>2, <3>3, <4>2
        <5>2. ~(f = 0 /\ d > 0 /\ d = hit)
          BY <1>2, <1>3, <3>2, <3>4, <4>2
        <5>3. b = f + (d - hit)
          BY <1>2, <3>2, <3>3, <5>2
        <5>. QED  BY <1>2, <1>3, <3>2, <5>1, <5>3
      <4>. QED  BY <4>1, <4>2
    <3>. QED  BY <3>1, <3>5, <3>6 DEF a, b
  <2>2. CASE emitted[r] # 0
    <3>1. /\ PrefillTokens(st, r) = ContextNow(r) - old
          /\ PrefillTokens(new, r) = ContextNow(r) - hit
      BY <1>6, <2>2
    <3>. QED  BY ONLY <1>1, <1>2, <1>3, <1>5, <3>1
  <2>. QED  BY <2>1, <2>2
<1>. QED  BY <1>5, <1>7 DEF PrefixMatch

\* A request that stays pending under its key, in a store that lost prefixes.
Waits(q) ==
    /\ q \in Members(queue) /\ matched'[q] = matched[q] /\ emitted'[q] = emitted[q]
    /\ HasSession(q) => kv'.cache[0][SessionOf[q]] <= kv.cache[0][SessionOf[q]]

LEMMA WaitsKeeps ==
    ASSUME IInv, Best, kv' \in Store, NEW q \in Requests, Waits(q)
    PROVE  KeyHolds(q)'
<1>1. PICK new \in Store : new = kv'
  OBVIOUS
<1>2. /\ PrefixMatch(kv, q) <= matched[q] /\ matched[q] \in Nat
      /\ kv \in Store /\ emitted[q] \in Nat
  BY DEF Best, KeyHolds, Waits, IInv, TypeOK
<1>3. PrefixMatch(new, q) <= PrefixMatch(kv, q)
  BY <1>1, <1>2, MatchDrops DEF Waits
<1>4. PrefixMatch(new, q) \in Nat /\ PrefixMatch(kv, q) \in Nat
  BY <1>2, PrefillIs
<1>5. PrefixMatch(kv, q)' = PrefixMatch(new, q)
  BY <1>1 DEF Waits, PrefixMatch, PrefillTokens, ContextNow, PrefillTokensToCompute,
              PrefixHit, Peek
<1>6. PrefixMatch(new, q) <= matched[q]
  BY <1>2, <1>3, <1>4
<1>. QED  BY <1>5, <1>6 DEF KeyHolds, Waits

\* Every pending request waits, or has just been given its key.
LEMMA BestKept ==
    ASSUME IInv, Best, IInv', \A q \in Members(queue') : Waits(q) \/ KeyHolds(q)'
    PROVE  Best'
<1>1. kv' \in Store /\ Members(queue') \subseteq Requests
  <2>1. kv' \in Store /\ queue' \in Seq(Requests)
    BY DEF IInv, TypeOK
  <2>. QED  BY <2>1, MembersOf
<1>2. \A q \in Members(queue') : KeyHolds(q)'
  BY <1>1, WaitsKeeps
<1>. QED  BY <1>2 DEF Best

\* A store that lost prefixes, or parts of them.
Evicts(st, new) == \A s \in Sessions : new.cache[0][s] <= st.cache[0][s]

LEMMA EvictedLess ==
    ASSUME NEW st \in Store, NEW new \in Store, OnlyEvicted(new.cache, st.cache)
    PROVE  Evicts(st, new)
<1>1. \A s \in Sessions : st.cache[0][s] \in Nat /\ new.cache[0][s] \in {0, st.cache[0][s]}
  BY OnePartition DEF OnlyEvicted, Store
<1>. QED  BY <1>1 DEF Evicts

\* prepare_next_decode evicts.
LEMMA TrimmedEvicts ==
    ASSUME NEW st \in Store, NEW width \in Nat, NEW new \in TrimmedForStep(st, 0, width)
    PROVE  Evicts(st, new)
<1>1. st.cache[0] \in [Sessions -> Nat]
  BY OnePartition DEF Store
<1>2. PICK limit : \E entries \in Shrunk(st.cache[0], limit) : new = [st EXCEPT !.cache[0] = entries]
  BY DEF TrimmedForStep
<1>3. PICK entries \in Shrunk(st.cache[0], limit) : new = [st EXCEPT !.cache[0] = entries]
  BY <1>2
<1>4. \A s \in Sessions : entries[s] \in {0, st.cache[0][s]}
  BY <1>1, <1>3, ShrunkEvicts
<1>5. new.cache[0] = entries
  BY <1>3, OnePartition DEF Store
<1>. QED  BY <1>1, <1>4, <1>5 DEF Evicts

\* So does an admission, under either policy.
LEMMA ReservationsEvict ==
    ASSUME kv \in Store, NEW r \in Requests, FootprintOf(r) \in Nat,
           NEW new \in Reservations(r), new \in Store
    PROVE  Evicts(kv, new)
<1>1. CASE ~Bounded
  <2>1. new \in ReservedPrefill(kv, r, 0, FootprintOf(r))
    BY <1>1 DEF Reservations
  <2>2. OnlyEvicted(new.cache, kv.cache)
    BY <2>1, OnePartition, ReservedPrefillEvicts
  <2>. QED  BY <2>2, EvictedLess
<1>2. CASE Bounded
  <2> DEFINE taken == IF HasSession(r)
                      THEN [kv EXCEPT !.cache[0][SessionOf[r]] = 0] ELSE kv
             promised == Promise(taken, r, 0, FootprintOf(r))
             limit == SaturatingSub(Capacity, ProtectedUnits(promised, 0))
  <2>1. PICK entries \in Shrunk(taken.cache[0], limit) :
           new = [promised EXCEPT !.cache[0] = entries]
    BY <1>2 DEF Reservations, ReservedBounded
  <2>2. kv.cache[0] \in [Sessions -> Nat]
    BY OnePartition DEF Store
  <2>3. /\ taken \in Store /\ taken.cache[0] \in [Sessions -> Nat]
        /\ \A s \in Sessions : taken.cache[0][s] <= kv.cache[0][s]
    <3>1. CASE HasSession(r)
      <4>1. SessionOf[r] \in Sessions
        BY <3>1, WorkloadType
      <4>2. taken = [kv EXCEPT !.cache[0][SessionOf[r]] = 0]
        BY <3>1
      <4> HIDE DEF taken
      <4>3. taken \in Store
        BY <4>1, <4>2, OnePartition DEF Store
      <4>4. taken.cache[0] = [kv.cache[0] EXCEPT ![SessionOf[r]] = 0]
        BY <4>2, OnePartition DEF Store
      <4>. QED  BY <2>2, <4>1, <4>3, <4>4
    <3>2. CASE ~HasSession(r)
      BY <2>2, <3>2
    <3>. QED  BY <3>1, <3>2
  <2> HIDE DEF taken, limit
  <2>4. promised.cache = taken.cache /\ promised \in Store
    <3>1. promised \in Store
      BY <2>3, OnePartition, PromiseType
    <3>2. promised.cache = taken.cache
      BY <2>3 DEF Promise, Store
    <3>. QED  BY <3>1, <3>2
  <2> HIDE DEF promised
  <2>5. new.cache[0] = entries
    BY <2>1, <2>4, OnePartition DEF Store
  <2>6. \A s \in Sessions : entries[s] \in {0, taken.cache[0][s]}
    BY <2>1, <2>3, ShrunkEvicts
  <2>7. \A s \in Sessions : taken.cache[0][s] \in Nat /\ kv.cache[0][s] \in Nat
    BY <2>2, <2>3
  <2>. QED  BY <2>3, <2>5, <2>6, <2>7 DEF Evicts
<1>. QED  BY <1>1, <1>2

\* Who is pending and was before waits, when only prefixes are lost.
LEMMA WaitsIn ==
    ASSUME NEW q \in Requests, q \in Members(queue), matched'[q] = matched[q],
           emitted'[q] = emitted[q], Evicts(kv, kv')
    PROVE  Waits(q)
BY WorkloadType DEF Waits, Evicts

LEMMA BestShrinks ==
    ASSUME IInv, Best, IInv', Evicts(kv, kv'), Members(queue') \subseteq Members(queue),
           UNCHANGED << matched, emitted >>
    PROVE  Best'
<1>1. Members(queue) \subseteq Requests
  BY QueuesType DEF IInv
<1>2. \A q \in Members(queue') : Waits(q)
  BY <1>1, WaitsIn
<1>. QED  BY <1>2, BestKept

\* Nothing is lost from a store that stays.
LEMMA EvictsSame ==
    ASSUME NEW st \in Store
    PROVE  Evicts(st, st)
<1>1. \A s \in Sessions : st.cache[0][s] \in Nat
  BY OnePartition DEF Store
<1>. QED  BY <1>1 DEF Evicts

\* Each action keeps the keys upper bounds.
LEMMA EnqueueBest ==
    ASSUME IInv, Best, IInv', NEW r \in Requests, Enqueue(r)
    PROVE  Best'
<1>1. /\ r \notin arrived /\ queue' = Append(queue, r)
      /\ matched' = [matched EXCEPT ![r] = PrefixMatch(kv, r)]
      /\ UNCHANGED << kv, emitted >>
  BY DEF Enqueue
<1>2. r \notin Members(queue) /\ Members(queue) \subseteq Requests
  BY <1>1, QueuesType DEF IInv, RetractionLosesNothing
<1>3. Members(queue') = Members(queue) \cup {r}
  BY <1>1, <1>2, QueuesType, AppendedIs DEF IInv
<1>4. Evicts(kv, kv')
  BY <1>1, EvictsSame DEF IInv, TypeOK
<1>5. matched \in [Requests -> Nat]
  BY DEF IInv, TypeOK
<1>6. \A q \in Members(queue) : Waits(q)
  BY <1>1, <1>2, <1>4, <1>5, WaitsIn
<1>7. KeyHolds(r)'
  <2>1. matched'[r] = PrefixMatch(kv, r)
    BY <1>1, <1>5
  <2>2. PrefixMatch(kv, r)' = PrefixMatch(kv, r)
    BY <1>1 DEF PrefixMatch, PrefillTokens, ContextNow
  <2>3. PrefixMatch(kv, r) \in Nat
    BY PrefillIs DEF IInv, TypeOK
  <2>. QED  BY <2>1, <2>2, <2>3 DEF KeyHolds
<1>. QED  BY <1>3, <1>6, <1>7, BestKept

LEMMA PreparedBest ==
    ASSUME IInv, Best, IInv', Prepared
    PROVE  Best'
<1>1. /\ kv' \in TrimmedForStep(kv, 0, Width)
      /\ UNCHANGED << queue, matched, emitted >>
  BY DEF Prepared
<1>2. Evicts(kv, kv')
  BY <1>1, ConfigType, TrimmedEvicts DEF IInv, TypeOK
<1>. QED  BY <1>1, <1>2, BestShrinks

\* The victim's key is what it finds in the store it leaves.
LEMMA RetractBest ==
    ASSUME IInv, Best, IInv', NEW r \in Requests, Retract(r)
    PROVE  Best'
<1>1. PICK st \in TrimmedForStep(kv, 0, Width) : kv' = Released(st, r, 0)
  BY DEF Retract
<1>2. /\ queue' = Requeued(r)
      /\ matched' = [matched EXCEPT ![r] = PrefixMatch(kv', r)]
      /\ emitted' = emitted
  BY DEF Retract
<1>3. /\ r \notin Members(queue) /\ Members(queue) \subseteq Requests
  BY RetractDeparts, QueuesType DEF Departs, IInv, RetractionLosesNothing
<1>4. Members(queue') = Members(queue) \cup {r}
  BY <1>2, <1>3, QueuesType, RequeuedIs DEF IInv
<1>5. Evicts(kv, kv')
  <2>1. st \in Store /\ Evicts(kv, st)
    BY <1>1, ConfigType, TrimmedIs, TrimmedEvicts DEF IInv, TypeOK, Trims
  <2>2. kv'.cache = st.cache
    BY <1>1, <2>1, OnePartition, ReleasedCache
  <2>. QED  BY <2>1, <2>2 DEF Evicts
<1>6. matched \in [Requests -> Nat]
  BY DEF IInv, TypeOK
<1>7. \A q \in Members(queue) : Waits(q)
  BY <1>2, <1>3, <1>5, <1>6, WaitsIn
<1>8. KeyHolds(r)'
  <2>1. PICK new \in Store : new = kv'
    BY DEF IInv, TypeOK
  <2>2. matched'[r] = PrefixMatch(new, r)
    BY <1>2, <1>6, <2>1
  <2>3. PrefixMatch(kv, r)' = PrefixMatch(new, r)
    BY <1>2, <2>1 DEF PrefixMatch, PrefillTokens, ContextNow
  <2>4. PrefixMatch(new, r) \in Nat
    BY <2>1, PrefillIs DEF IInv, TypeOK
  <2>. QED  BY <2>2, <2>3, <2>4 DEF KeyHolds
<1>. QED  BY <1>4, <1>7, <1>8, BestKept

\* A stale head is given what it finds.
LEMMA RefreshHeadBest ==
    ASSUME IInv, Best, IInv', RefreshHead
    PROVE  Best'
<1>1. /\ queue # << >>
      /\ matched' = [matched EXCEPT ![NextPending] = PrefixMatch(kv, NextPending)]
      /\ UNCHANGED << kv, queue, emitted >>
  BY DEF RefreshHead, MayRefresh
<1> DEFINE r == NextPending
<1>2. r \in Members(queue) /\ Members(queue) \subseteq Requests
  BY <1>1, QueuesType, HeadIsMember DEF IInv, TypeOK
<1>3. matched \in [Requests -> Nat] /\ Evicts(kv, kv')
  BY <1>1, EvictsSame DEF IInv, TypeOK
<1> HIDE DEF r
<1>4. matched' = [matched EXCEPT ![r] = PrefixMatch(kv, r)]
  BY <1>1 DEF r
<1>5. \A q \in Members(queue) \ {r} : Waits(q)
  BY <1>1, <1>2, <1>3, <1>4, WaitsIn
<1>6. \A q : PrefixMatch(kv, q)' = PrefixMatch(kv, q)
  BY <1>1 DEF PrefixMatch, PrefillTokens, ContextNow
<1>7. \A q \in Members(queue') : Waits(q) \/ KeyHolds(q)'
  <2>1. TAKE q \in Members(queue')
  <2>2. CASE q = r
    <3>1. matched'[q] = PrefixMatch(kv, q)
      BY <1>2, <1>3, <1>4, <2>2
    <3>2. PrefixMatch(kv, q) \in Nat
      BY <1>2, <2>2, PrefillIs DEF IInv, TypeOK
    <3>3. KeyHolds(q)'
      BY <1>6, <3>1, <3>2 DEF KeyHolds
    <3>. QED  BY <3>3
  <2>3. CASE q # r
    BY <1>1, <1>5, <2>3
  <2>. QED  BY <2>2, <2>3
<1>. QED  BY <1>7, BestKept

\* The head that is admitted is the pending one with the longest key.
LEMMA AdmitHeadBest ==
    ASSUME IInv, Best, IInv', NEW r \in Requests, AdmitHead(r)
    PROVE  Best'
<1>1. /\ queue # << >> /\ r = NextPending /\ queue' = Without(queue, r)
      /\ kv' \in Reservations(r) /\ UNCHANGED << matched, emitted >>
  BY DEF AdmitHead
<1>2. r \in Members(queue)
  BY <1>1, QueuesType, HeadIsMember DEF IInv, TypeOK
<1>3. Members(queue') = Members(queue) \ {r}
  BY <1>1, <1>2, QueuesType, WithoutIs DEF IInv
<1>4. kv \in Store /\ kv' \in Store /\ FootprintOf(r) \in Nat
  BY FootprintIs DEF IInv, TypeOK, Outputs
<1>5. Evicts(kv, kv')
  BY <1>1, <1>4, ReservationsEvict
<1>. QED  BY <1>1, <1>3, <1>5, BestShrinks

\* An iteration touches no prefix and nothing that is pending.
LEMMA CommittedCache ==
    ASSUME NEW st, NEW steps, NEW S, NEW tokens, NEW left_, st \in Store
    PROVE  Committed(AdvancedBy(st, steps), S, tokens, left_).cache = st.cache
<1> DEFINE mid == AdvancedBy(st, steps)
           freed == WithoutPromises(mid, S)
<1>1. mid.cache = st.cache /\ DOMAIN mid = DOMAIN st /\ "cache" \in DOMAIN st
  BY DEF AdvancedBy, Store
<1> HIDE DEF mid
<1>2. freed.cache = mid.cache /\ DOMAIN freed = DOMAIN mid
  BY <1>1 DEF WithoutPromises
<1> HIDE DEF freed
<1>3. Committed(mid, S, tokens, left_).cache = freed.cache
  BY <1>1, <1>2 DEF Committed, freed
<1>. QED  BY <1>1, <1>2, <1>3 DEF mid

LEMMA CompleteIterationBest ==
    ASSUME IInv, Best, IInv', CompleteIteration
    PROVE  Best'
<1>1. UNCHANGED << queue, matched >>
  BY DEF CompleteIteration
<1>2. kv \in Store /\ kv'.cache = kv.cache
  <2>1. kv \in Store
    BY DEF IInv, TypeOK
  <2>2. PICK steps, tokens, left_ :
            kv' = Committed(AdvancedBy(kv, steps), Finished, tokens, left_)
    BY DEF CompleteIteration
  <2>. QED  BY <2>1, <2>2, CommittedCache
<1>3. PICK steps : Completes(steps)
  BY CompletesIs
<1>4. Members(queue) \subseteq Requests
  BY QueuesType DEF IInv
<1>5. \A q \in Members(queue) : emitted'[q] = emitted[q]
  <2>1. Finished \cap Members(queue) = {}
    BY FinishedIs DEF IInv, RetractionLosesNothing
  <2>2. Live \cap Members(queue) = {}
    BY DEF Live, LiveDecodes, IInv, RetractionLosesNothing
  <2>. QED  BY <1>3, <1>4, <2>1, <2>2 DEF Completes
<1>6. Evicts(kv, kv')
  BY <1>2, EvictsSame DEF Evicts
<1>7. \A q \in Members(queue') : Waits(q)
  BY <1>1, <1>4, <1>5, <1>6, WaitsIn
<1>. QED  BY <1>7, BestKept

\* What a round leaves behind is its session's, and no other round of the
\* session is pending.
LEMMA ReleaseFinishedBest ==
    ASSUME IInv, Best, Ordered, IInv', NEW r \in Requests, ReleaseFinished(r)
    PROVE  Best'
<1>1. /\ r \in Members(running) /\ kv' \in ReleasedRetainingPrefix(kv, r, 0)
      /\ UNCHANGED << queue, matched, emitted >>
  BY DEF ReleaseFinished
<1>2. /\ r \in arrived /\ r \notin done /\ r \notin Members(queue)
      /\ Members(queue) \subseteq arrived /\ arrived \subseteq Requests
      /\ Members(queue) \cap done = {} /\ kv \in Store
  BY <1>1 DEF IInv, TypeOK, RetractionLosesNothing
<1>3. \A s \in Sessions : \/ kv'.cache[0][s] \in {0, kv.cache[0][s]}
                          \/ HasSession(r) /\ s = SessionOf[r]
  BY <1>1, <1>2, OnePartition, ReleasedRetainingEvicts
<1>4. ASSUME NEW q \in Members(queue') PROVE Waits(q)
  <2>1. q \in arrived /\ q \in Requests /\ q \notin done /\ q # r
    BY <1>1, <1>2, <1>4
  <2>2. ~(HasSession(r) /\ SessionOf[q] = SessionOf[r])
    BY <1>2, <2>1, OneUndone DEF Ordered, SameSession
  <2>3. ASSUME HasSession(q)
        PROVE  kv'.cache[0][SessionOf[q]] <= kv.cache[0][SessionOf[q]]
    <3>1. SessionOf[q] \in Sessions
      BY <2>1, <2>3, WorkloadType
    <3>2. kv.cache[0][SessionOf[q]] \in Nat
      BY <1>2, <3>1, OnePartition DEF Store
    <3>. QED  BY <1>3, <2>2, <3>1, <3>2
  <2>. QED  BY <1>1, <1>4, <2>3 DEF Waits
<1>. QED  BY <1>4, BestKept

\* The rounds of a session arrive in order.
LEMMA StepOrdered ==
    ASSUME IInv, Ordered, [Next]_vars
    PROVE  Ordered'
<1>1. done \subseteq arrived /\ arrived \in SUBSET Requests
  BY DEF IInv, TypeOK, RetractionLosesNothing
<1>2. ASSUME NEW r \in Requests, Enqueue(r) PROVE Ordered'
  <2>1. /\ r \notin arrived /\ Before[r] \in done \cup {NoRequest}
        /\ arrived' = arrived \cup {r} /\ done' = done
    BY <1>2 DEF Enqueue
  <2>2. RoundsOrdered(arrived \cup {r}, done)
    BY <1>1, <2>1, OrderExtends DEF Ordered
  <2>. QED  BY <2>1, <2>2 DEF Ordered
<1>3. ASSUME arrived' = arrived, done \subseteq done' PROVE Ordered'
  BY <1>3 DEF Ordered, RoundsOrdered, SameSession
<1>4. ASSUME NEW r \in Requests, ReleaseFinished(r) PROVE Ordered'
  <2>1. arrived' = arrived /\ done \subseteq done'
    BY <1>4 DEF ReleaseFinished
  <2>. QED  BY <1>3, <2>1
<1>5. ASSUME \/ BeginBatch \/ Prepared \/ Abort \/ ScheduleStarted
             \/ RefreshHead \/ CloseBatch \/ CompleteIteration
      PROVE  Ordered'
  <2>1. arrived' = arrived /\ done' = done
    BY <1>5 DEF BeginBatch, Prepared, Abort, ScheduleStarted, RefreshHead, CloseBatch,
                CompleteIteration
  <2>. QED  BY <1>3, <2>1
<1>6. ASSUME NEW r \in Requests, Retract(r) \/ AdmitHead(r) PROVE Ordered'
  <2>1. arrived' = arrived /\ done' = done
    BY <1>6 DEF Retract, AdmitHead
  <2>. QED  BY <1>3, <2>1
<1>7. ASSUME UNCHANGED vars PROVE Ordered'
  BY <1>3, <1>7 DEF vars
<1>. QED  BY <1>2, <1>4, <1>5, <1>6, <1>7 DEF Next, Tick, Terminated

\* The cached keys stay upper bounds.
LEMMA StepBest ==
    ASSUME IInv, Best, Ordered, IInv', [Next]_vars
    PROVE  Best'
<1>1. ASSUME UNCHANGED << kv, queue, matched, emitted >> PROVE Best'
  <2>1. Evicts(kv, kv')
    BY <1>1, EvictsSame DEF IInv, TypeOK
  <2>. QED  BY <1>1, <2>1, BestShrinks
<1>2. ASSUME BeginBatch \/ Abort \/ ScheduleStarted \/ CloseBatch \/ UNCHANGED vars PROVE Best'
  <2>1. UNCHANGED << kv, queue, matched, emitted >>
    BY <1>2 DEF BeginBatch, Abort, ScheduleStarted, CloseBatch, vars
  <2>. QED  BY <1>1, <2>1
<1>. QED  BY <1>2, EnqueueBest, PreparedBest, RetractBest, RefreshHeadBest, AdmitHeadBest,
             CompleteIterationBest, ReleaseFinishedBest DEF Next, Tick, Terminated

LEMMA InitBest == Init => Best /\ Ordered
<1>. SUFFICES ASSUME Init PROVE Best /\ Ordered
  OBVIOUS
<1>1. Members(queue) = {}
  BY DEF Init, Members
<1>2. arrived = {}
  BY DEF Init
<1>. QED  BY <1>1, <1>2 DEF Best, Ordered, RoundsOrdered

\* No other pending request finds more, nor as much from further ahead.
Ahead(r) ==
    \A q \in Members(queue) \ {r} :
       \/ PrefixMatch(kv, q) < PrefixMatch(kv, r)
       \/ /\ PrefixMatch(kv, q) = PrefixMatch(kv, r)
          /\ PositionIn(queue, r) < PositionIn(queue, q)

\* A head that is not stale is ahead of all: the key of the head is exact, and
\* those of the others say no less than they would find.
LEMMA HeadAhead ==
    ASSUME IInv, Best, LongestPrefix, queue # << >>, ~IsStale(NextPending)
    PROVE  Ahead(NextPending)
<1> DEFINE r == NextPending
<1>1. /\ queue \in Seq(Requests) /\ Distinct(queue) /\ Members(queue) \subseteq Requests
      /\ matched \in [Requests -> Nat]
  BY QueuesType DEF IInv, TypeOK
<1>2. r \in Members(queue)
      /\ \A q \in Members(queue) \ {r} :
            \/ matched[q] < matched[r]
            \/ matched[q] = matched[r] /\ PositionIn(queue, r) < PositionIn(queue, q)
  BY <1>1, HeadIsMember
<1>3. ~(PrefixMatch(kv, r) < matched[r])
  BY DEF IsStale
<1> HIDE DEF r
<1>4. \A q \in Members(queue) : /\ PrefixMatch(kv, q) \in Nat /\ matched[q] \in Nat
                                /\ PrefixMatch(kv, q) <= matched[q]
  BY <1>1, PrefillIs DEF Best, KeyHolds, IInv, TypeOK
<1>5. PrefixMatch(kv, r) = matched[r]
  BY <1>2, <1>3, <1>4
<1>6. ASSUME NEW q \in Members(queue) \ {r}
      PROVE  \/ PrefixMatch(kv, q) < PrefixMatch(kv, r)
             \/ /\ PrefixMatch(kv, q) = PrefixMatch(kv, r)
                /\ PositionIn(queue, r) < PositionIn(queue, q)
  <2>1. CASE matched[q] < matched[r]
    BY <1>2, <1>4, <1>5, <2>1
  <2>2. CASE matched[q] = matched[r] /\ PositionIn(queue, r) < PositionIn(queue, q)
    BY <1>2, <1>4, <1>5, <2>2
  <2>. QED  BY <1>2, <2>1, <2>2
<1>7. Ahead(r)
  BY <1>6 DEF Ahead
<1>. QED  BY <1>7 DEF r

\* Only an admission takes a request off the queue.
LEMMA OnlyAdmissionPops ==
    ASSUME IInv, [Next]_vars, NEW r \in Members(queue), r \notin Members(queue')
    PROVE  queue # << >> /\ r = NextPending /\ ~IsStale(r)
<1>1. r \in Requests /\ Members(queue) # {} /\ queue # << >>
  <2>1. queue # << >>
    BY DEF Members
  <2>. QED  BY <2>1, QueuesType DEF IInv
<1>2. ASSUME NEW q \in Requests, Enqueue(q) PROVE FALSE
  <2>1. queue' = Append(queue, q) /\ q \notin Members(queue)
    BY <1>2 DEF Enqueue, IInv, RetractionLosesNothing
  <2>2. Members(queue') = Members(queue) \cup {q}
    BY <2>1, QueuesType, AppendedIs DEF IInv
  <2>. QED  BY <2>2
<1>3. ASSUME NEW q \in Requests, Retract(q) PROVE FALSE
  <2>1. queue' = Requeued(q) /\ q \notin Members(queue)
    BY <1>3, RetractDeparts DEF Retract, Departs, IInv, RetractionLosesNothing
  <2>2. Members(queue') = Members(queue) \cup {q}
    BY <2>1, QueuesType, RequeuedIs DEF IInv
  <2>. QED  BY <2>2
<1>4. ASSUME NEW q \in Requests, AdmitHead(q)
      PROVE  r = NextPending /\ ~IsStale(r)
  <2>1. q = NextPending /\ ~IsStale(q) /\ queue' = Without(queue, q)
    BY <1>4 DEF AdmitHead
  <2>2. q \in Members(queue)
    BY <1>1, <2>1, QueuesType, HeadIsMember DEF IInv, TypeOK
  <2>3. Members(queue') = Members(queue) \ {q}
    BY <2>1, <2>2, QueuesType, WithoutIs DEF IInv
  <2>. QED  BY <2>1, <2>3
<1>5. ASSUME queue' = queue PROVE FALSE
  BY <1>5
<1>6. ASSUME \/ BeginBatch \/ Prepared \/ Abort \/ ScheduleStarted \/ RefreshHead
             \/ CloseBatch \/ CompleteIteration \/ \E q \in Requests : ReleaseFinished(q)
             \/ UNCHANGED vars
      PROVE  FALSE
  <2>1. queue' = queue
    BY <1>6 DEF BeginBatch, Prepared, Abort, ScheduleStarted, RefreshHead, CloseBatch,
                CompleteIteration, ReleaseFinished, vars
  <2>. QED  BY <1>5, <2>1
<1>. QED  BY <1>1, <1>2, <1>3, <1>4, <1>6 DEF Next, Tick, Terminated

\* The request admitted finds the longest resident prefix of all that wait,
\* whatever was evicted since they were ranked: refreshing the head alone, as
\* longest_prefix_match.rs does, is exact.
THEOREM BestFirstHolds == Spec => BestFirst
<1>1. Init => Best /\ Ordered
  BY InitBest
<1>2. IInv /\ IInv' /\ Best /\ Ordered /\ [Next]_vars => Best' /\ Ordered'
  BY StepBest, StepOrdered
<1>3. ASSUME IInv, Best, [Next]_vars
      PROVE  [ LongestPrefix => \A r \in Members(queue) \ Members(queue') :
                 \A q \in Members(queue) \ {r} :
                    \/ PrefixMatch(kv, q) < PrefixMatch(kv, r)
                    \/ /\ PrefixMatch(kv, q) = PrefixMatch(kv, r)
                       /\ PositionIn(queue, r) < PositionIn(queue, q) ]_vars
  <2>1. ASSUME LongestPrefix, NEW r \in Members(queue) \ Members(queue') PROVE Ahead(r)
    <3>1. queue # << >> /\ r = NextPending /\ ~IsStale(r)
      BY <1>3, <2>1, OnlyAdmissionPops
    <3>. QED  BY <1>3, <2>1, <3>1, HeadAhead
  <2>. QED  BY <2>1 DEF Ahead
<1>4. Spec => [](IInv)
  BY Invariance
<1>. QED  BY <1>1, <1>2, <1>3, <1>4, PTL DEF Spec, BestFirst

-----------------------------------------------------------------------------
(* The assertion of prepare_decode, in an engine that does not mix. *)

\* A prompt that is being prefilled waits for its next chunk, unless its last
\* one is in the batch.
Scheduled == \A r \in Prefilling : r \in Members(started) \/ ChunkOf(batch, r) = left[r]

\* An engine that does not mix claims a decode step only when nothing is being
\* prefilled.
Apart == ~Mix =>
    /\ phase = "preparing" => batch = << >> /\ Prefilling = {}
    /\ phase \in {"forming", "closing"} /\ batch = << >> => started = << >>
    /\ Panicked => Outgrown

LEMMA StepScheduled ==
    ASSUME IInv, IInv', Scheduled, [Next]_vars
    PROVE  Scheduled'
<1>1. /\ left \in [Requests -> Nat] /\ Members(started) \subseteq Requests
      /\ batch \in Seq(Chunks) /\ OneEach(batch) /\ ReqsOf(batch) \subseteq Prefilling
  BY QueuesType DEF IInv, TypeOK, Batched, ChunksFit
<1>2. ASSUME UNCHANGED << started, left, batch >> PROVE Scheduled'
  BY <1>2 DEF Scheduled, Prefilling, ChunkOf, TokensIn
<1>3. ASSUME \/ BeginBatch \/ Prepared \/ Abort \/ RefreshHead \/ CloseBatch \/ UNCHANGED vars
             \/ \E r \in Requests : Enqueue(r) \/ Retract(r) \/ ReleaseFinished(r)
      PROVE  Scheduled'
  <2>1. UNCHANGED << started, left, batch >>
    BY <1>3 DEF BeginBatch, Prepared, Abort, RefreshHead, CloseBatch, Enqueue, Retract,
                ReleaseFinished, vars
  <2>. QED  BY <1>2, <2>1
<1>4. ASSUME ScheduleStarted PROVE Scheduled'
  <2> DEFINE S == { r \in Requests : ChunkOf(batch', r) < left[r] }
  <2>1. /\ phase = "scheduling" /\ left' = left /\ started' = Kept(started, S)
    BY <1>4 DEF ScheduleStarted
  <2> HIDE DEF S
  <2>2. Members(started') = Members(started) \cap S
    BY <2>1, QueuesType, KeptIs DEF IInv
  <2>3. batch = << >>
    BY <2>1 DEF IInv, Batched
  <2>4. ASSUME NEW r \in Requests, left[r] > 0
        PROVE  r \in Members(started') \/ ChunkOf(batch', r) = left[r]
    <3>1. ChunkOf(batch, r) = 0
      BY <2>3, TokensEmpty
    <3>2. r \in Members(started)
      BY <2>4, <3>1 DEF Scheduled, Prefilling
    <3>3. PICK b : b = batch'
      OBVIOUS
    <3>4. ChunksFit(b, Members(started))
      BY <1>4, <3>3, BudgetType, StartedIs DEF ScheduleStarted
    <3>5. ChunkOf(b, r) \in Nat
      BY <3>4, ChunkOfIs DEF ChunksFit
    <3>6. ChunkOf(b, r) <= left[r]
      <4>1. CASE r \in ReqsOf(b)
        <5>1. PICK i \in 1 .. Len(b) : b[i].req = r
          BY <4>1 DEF ReqsOf
        <5>2. ChunkOf(b, r) = b[i].tokens
          BY <3>4, <5>1, ChunkOfIs DEF ChunksFit
        <5>3. b[i].tokens <= left[b[i].req]
          BY <3>4, <5>1 DEF ChunksFit
        <5>. QED  BY <2>1, <5>1, <5>2, <5>3
      <4>2. CASE r \notin ReqsOf(b)
        BY <1>1, <3>4, <4>2, ChunkOfIs DEF ChunksFit
      <4>. QED  BY <4>1, <4>2
    <3>7. CASE ChunkOf(b, r) < left[r]
      <4>1. r \in S
        BY <3>3, <3>7 DEF S
      <4>. QED  BY <2>2, <3>2, <4>1
    <3>8. CASE ChunkOf(b, r) = left[r]
      BY <3>3, <3>8 DEF ChunkOf, TokensIn
    <3>. QED  BY <1>1, <3>5, <3>6, <3>7, <3>8
  <2>5. \A r \in Requests : ChunkOf(batch, r)' = ChunkOf(batch', r)
    BY DEF ChunkOf, TokensIn
  <2>. QED  BY <2>1, <2>4, <2>5 DEF Scheduled, Prefilling
<1>5. ASSUME NEW r \in Requests, AdmitHead(r) PROVE Scheduled'
  <2> DEFINE need == PrefillTokens(kv, r)
             tokens == FirstChunk(r)
             chunk == [req |-> r, tokens |-> tokens]
  <2>1. /\ left' = [left EXCEPT ![r] = need] /\ batch' = Append(batch, chunk)
        /\ started' = IF tokens < need THEN Append(started, r) ELSE started
        /\ queue # << >> /\ r = NextPending /\ BudgetLeft(batch) > 0 /\ tokens > 0
    BY <1>5 DEF AdmitHead, Admissible
  <2>2. r \in Members(queue)
    BY <2>1, QueuesType, HeadIsMember DEF IInv, TypeOK
  <2>3. r \notin Prefilling /\ r \notin Members(started) /\ r \notin ReqsOf(batch)
    <3>1. r \notin Prefilling
      BY <2>2 DEF IInv, RetractionLosesNothing
    <3>2. ChunkOf(batch, r) \in Nat /\ left[r] = 0
      BY <1>1, <3>1, ChunkOfIs DEF Prefilling
    <3>. QED  BY <1>1, <3>1, <3>2 DEF IInv, Batched
  <2>4. need \in Nat /\ tokens \in Nat \ {0} /\ tokens <= need
    <3>1. need \in Nat /\ need <= ContextNow(r) /\ ContextNow(r) \in Nat
      BY PrefillIs DEF IInv, TypeOK
    <3>2. BudgetLeft(batch) \in Nat
      BY <2>1, BudgetType
    <3>3. tokens \in Nat /\ tokens <= need
      BY <3>1, <3>2, ChunkIs DEF IInv, TypeOK, FirstChunk
    <3>. QED  BY <2>1, <3>1, <3>3
  <2>5. chunk \in Chunks /\ chunk.req = r /\ chunk.tokens = tokens
    BY <2>4 DEF Chunks
  <2> HIDE DEF need, tokens, chunk
  <2>6. PICK b : b = batch'
    OBVIOUS
  <2>7. /\ b \in Seq(Chunks) /\ OneEach(b) /\ ReqsOf(b) = ReqsOf(batch) \cup {r}
        /\ Len(b) = Len(batch) + 1 /\ b[Len(batch) + 1] = chunk
        /\ \A i \in 1 .. Len(batch) : b[i] = batch[i]
    <3>1. b = Append(batch, chunk) /\ Len(batch) \in Nat
      BY <1>1, <2>1, <2>6
    <3>. QED  BY <1>1, <2>3, <2>5, <3>1, TokensAppend
  <2>8. ChunkOf(b, r) = tokens
    <3>1. Len(batch) + 1 \in 1 .. Len(b)
      BY <1>1, <2>7
    <3>. QED  BY <2>5, <2>7, <3>1, ChunkOfIs
  <2>9. ASSUME NEW q \in Requests, q # r PROVE ChunkOf(b, q) = ChunkOf(batch, q)
    <3>1. CASE q \in ReqsOf(batch)
      <4>1. PICK i \in 1 .. Len(batch) : batch[i].req = q
        BY <3>1 DEF ReqsOf
      <4>2. i \in 1 .. Len(b) /\ b[i] = batch[i]
        BY <1>1, <2>7, <4>1
      <4>. QED  BY <1>1, <2>7, <4>1, <4>2, ChunkOfIs
    <3>2. CASE q \notin ReqsOf(batch)
      BY <1>1, <2>7, <2>9, <3>2, ChunkOfIs
    <3>. QED  BY <3>1, <3>2
  <2>10. Members(started') = IF tokens < need THEN Members(started) \cup {r} ELSE Members(started)
    BY <2>1, <2>3, QueuesType, AppendedIs DEF IInv
  <2>11. ASSUME NEW q \in Requests, left'[q] > 0
         PROVE  q \in Members(started') \/ ChunkOf(b, q) = left'[q]
    <3>1. CASE q = r
      <4>1. left'[q] = need
        BY <1>1, <2>1, <3>1
      <4>. QED  BY <2>4, <2>8, <2>10, <3>1, <4>1
    <3>2. CASE q # r
      <4>1. left'[q] = left[q] /\ q \in Prefilling
        BY <1>1, <2>1, <2>11, <3>2 DEF Prefilling
      <4>. QED  BY <2>9, <2>10, <3>2, <4>1 DEF Scheduled
    <3>. QED  BY <3>1, <3>2
  <2>12. \A q \in Requests : ChunkOf(batch, q)' = ChunkOf(b, q)
    BY <2>6 DEF ChunkOf, TokensIn
  <2>. QED  BY <2>11, <2>12 DEF Scheduled, Prefilling
<1>6. ASSUME CompleteIteration PROVE Scheduled'
  <2>1. started' = started /\ left' = [r \in Requests |-> left[r] - ChunkOf(batch, r)]
    BY <1>6 DEF CompleteIteration
  <2>2. ASSUME NEW r \in Requests, left'[r] > 0 PROVE r \in Members(started')
    <3>1. ChunkOf(batch, r) \in Nat /\ left[r] \in Nat /\ left[r] - ChunkOf(batch, r) > 0
      BY <1>1, <2>1, <2>2, ChunkOfIs
    <3>2. left[r] > 0 /\ ChunkOf(batch, r) # left[r]
      BY <3>1
    <3>. QED  BY <2>1, <3>2 DEF Scheduled, Prefilling
  <2>. QED  BY <2>2 DEF Scheduled, Prefilling
<1>. QED  BY <1>3, <1>4, <1>5, <1>6 DEF Next, Tick, Terminated

\* A prompt that waits for its chunk in an engine that does not mix gets one, for
\* the whole row cap is free.
LEMMA StartsSome ==
    ASSUME IInv, ~Mix, started # << >>
    PROVE  StartedChunks # << >>
<1>1. started[1] \in Members(started) /\ started[1] \in Requests
  BY QueuesType DEF IInv, Members
<1>2. ChunkOf(batch, started[1]) \in Nat /\ left[started[1]] \in Nat
  BY <1>1, ChunkOfIs DEF IInv, TypeOK, Batched, ChunksFit
<1>3. left[started[1]] > 0
  BY <1>1, <1>2 DEF IInv, Batched
<1>4. IterationBudget = BatchTokens
  BY DEF IterationBudget
<1>. QED  BY <1>3, <1>4, BudgetType, StartedIs

\* With nothing to prefill, the step of the last live decode fits, if it fits the
\* partition alone: there is nothing else in it.
LEMMA LastFits ==
    ASSUME IInv, ~Outgrown, phase = "preparing", Prefilling = {}, Cardinality(Live) = 1,
           NEW st \in TrimmedForStep(kv, 0, Width)
    PROVE  Shortfall(st, 0, Width) = 0
<1>1. kv \in Store /\ Width \in Nat /\ config \in Configs
  BY ConfigType DEF IInv, TypeOK
<1>2. Trims(kv, Width, st)
  BY <1>1, TrimmedIs
<1>3. PICK r \in Live : Live = {r}
  <2>1. IsFiniteSet(Live)
    BY <1>1, StoreNumbers DEF Live
  <2>. QED  BY <2>1, FS_Singleton
<1>4. /\ r \in Requests /\ r \in Members(running) /\ kv.decodes[0] = Members(running)
      /\ Live = LiveDecodes(kv, 0)
  BY <1>1, <1>3, StoreNumbers DEF Live, IInv, RetractionLosesNothing
<1>5. \A q \in Members(running) : kv.remaining[q] > 0
  <2>1. \A q \in Members(running) :
           /\ q \in Requests /\ emitted[q] < Target[q] /\ kv.remaining[q] = OutputLeft(q)
    BY <1>1, <1>4, StoreNumbers DEF IInv, Outputs, RetractionLosesNothing
  <2>2. \A q \in Requests : emitted[q] \in Nat /\ Target[q] \in Nat
    BY WorkloadAssumption DEF IInv, TypeOK
  <2>. QED  BY <2>1, <2>2 DEF OutputLeft
<1>6. kv.decodes[0] = {r}
  BY <1>3, <1>4, <1>5 DEF LiveDecodes
<1>7. kv.resident[0] = kv.context[r]
  <2>1. IsFiniteSet({r}) /\ {r} \ {r} = {} /\ IsFiniteSet({})
    BY FS_Singleton, FS_EmptySet
  <2>2. kv.context[r] \in Int
    BY <1>1, <1>4, StoreNumbers
  <2>3. SumOver(kv.context, {r}) = kv.context[r] + SumOver(kv.context, {})
    BY <2>1, <2>2, SumRemove
  <2>4. SumOver(kv.context, {}) = 0
    BY <2>1, SumZero
  <2>. QED  BY <1>6, <2>2, <2>3, <2>4 DEF IInv, Books
<1>8. kv.reserved[0] = 0 /\ kv.heldUnits[0] = 0
  <2>1. \A q \in Requests : kv.promised[q] = 0
    BY DEF IInv, Books
  <2>2. SumOver(kv.promised, Requests) = 0
    BY <2>1, FiniteUniverse, SumZero
  <2>. QED  BY <2>2 DEF IInv, Books
<1>9. NextStepUnits(kv, 0, Width) <= kv.remaining[r]
  <2> DEFINE f == [q \in Requests |-> Smaller(kv.remaining[q], Width)]
  <2>1. IsFiniteSet({r}) /\ {r} \ {r} = {} /\ IsFiniteSet({})
    BY FS_Singleton, FS_EmptySet
  <2>2. kv.remaining[r] \in Nat
    BY <1>1, <1>4, StoreNumbers
  <2>3. f[r] \in Int /\ f[r] <= kv.remaining[r]
    BY <1>1, <1>4, <2>2 DEF Smaller
  <2>4. NextStepUnits(kv, 0, Width) = SumOver(f, {r})
    BY <1>3, <1>4 DEF NextStepUnits
  <2> HIDE DEF f
  <2>5. SumOver(f, {r}) = f[r] + SumOver(f, {})
    BY <2>1, <2>3, SumRemove
  <2>6. SumOver(f, {}) = 0
    BY <2>1, SumZero
  <2>. QED  BY <2>3, <2>4, <2>5, <2>6
<1>10. ProtectedUnits(kv, 0) + NextStepUnits(kv, 0, Width) <= Capacity
  <2>1. /\ kv.context[r] = ContextNow(r) - 1 /\ kv.remaining[r] = OutputLeft(r)
    BY <1>4 DEF IInv, RetractionLosesNothing
  <2>2. /\ ContextOf(r) \in Nat /\ Target[r] \in Nat /\ emitted[r] \in Nat /\ Capacity \in Nat
    BY <1>1, <1>4, WorkloadType, StoreNumbers DEF IInv, TypeOK
  <2>3. ContextOf(r) + Target[r] <= Capacity + 1
    BY <1>3, <2>2 DEF Outgrown
  <2>4. NextStepUnits(kv, 0, Width) \in Nat
    BY <1>1, NextStepType
  <2>5. ProtectedUnits(kv, 0) = ContextOf(r) + emitted[r] - 1
    BY <1>7, <1>8, <2>1, <2>2 DEF ProtectedUnits, ContextNow
  <2>6. NextStepUnits(kv, 0, Width) <= Target[r] - emitted[r]
    BY <1>9, <2>1 DEF OutputLeft
  <2>. QED  BY ONLY <2>2, <2>3, <2>4, <2>5, <2>6
<1>11. /\ ProtectedUnits(st, 0) = ProtectedUnits(kv, 0)
       /\ NextStepUnits(st, 0, Width) = NextStepUnits(kv, 0, Width)
       /\ st \in Store /\ CacheUnits(st, 0) \in Nat
  BY <1>2, SameNumbers DEF Trims
<1>12. ProtectedUnits(st, 0) + NextStepUnits(st, 0, Width) + CacheUnits(st, 0) <= Capacity
  BY <1>2, <1>10, <1>11 DEF Trims
<1>. QED  BY <1>1, <1>11, <1>12, ShortfallIs

\* An engine that does not mix claims a decode step after an iteration without
\* prefills only.
LEMMA StepApart ==
    ASSUME IInv, Scheduled, Apart, [Next]_vars
    PROVE  Apart'
<1>. SUFFICES ASSUME ~Mix' PROVE Apart'
  BY DEF Apart
<1>1. UNCHANGED config /\ ~Mix
  <2>1. UNCHANGED config
    BY DEF Next, Tick, Terminated, vars, Enqueue, BeginBatch, Prepared, Retract, Abort,
           ScheduleStarted, RefreshHead, AdmitHead, CloseBatch, CompleteIteration,
           ReleaseFinished
  <2>. QED  BY <2>1, SameSettings
<1>2. /\ phase = "preparing" => batch = << >> /\ Prefilling = {}
      /\ phase \in {"forming", "closing"} /\ batch = << >> => started = << >>
      /\ Panicked => Outgrown
  BY <1>1 DEF Apart
<1>3. ASSUME phase' \in {"idle", "scheduling", "computing", "finishing"} PROVE Apart'
  BY <1>3 DEF Apart, Panicked
<1>4. ASSUME NEW st, StartForming(st) PROVE phase' = "scheduling"
  BY <1>1, <1>4 DEF StartForming
<1>5. ASSUME \/ BeginBatch \/ Prepared \/ CompleteIteration \/ \E r \in Requests : Enqueue(r)
      PROVE  Apart'
  <2>1. CASE BeginBatch
    BY <1>3, <1>4, <2>1 DEF BeginBatch
  <2>2. CASE Prepared
    BY <1>1, <1>3, <2>2 DEF Prepared, AfterPreparing
  <2>3. CASE CompleteIteration
    <3>1. phase' = "finishing" \/ StartForming(kv')
      BY <2>3 DEF CompleteIteration
    <3>. QED  BY <1>3, <1>4, <3>1
  <2>4. CASE \E r \in Requests : Enqueue(r)
    BY <1>3, <2>4 DEF Enqueue
  <2>. QED  BY <1>5, <2>1, <2>2, <2>3, <2>4
<1>6. ASSUME NEW r \in Requests, Retract(r) PROVE Apart'
  <2>1. UNCHANGED << phase, batch, left >> /\ phase = "preparing"
    BY <1>6 DEF Retract
  <2>. QED  BY <1>2, <2>1 DEF Apart, Prefilling, Panicked
<1>7. ASSUME Abort PROVE Apart'
  <2>1. /\ phase = "preparing" /\ Cardinality(Live) = 1
        /\ \E st \in TrimmedForStep(kv, 0, Width) : Shortfall(st, 0, Width) > 0
    BY <1>7 DEF Abort
  <2>2. PICK st \in TrimmedForStep(kv, 0, Width) : Shortfall(st, 0, Width) > 0
    BY <2>1
  <2>3. Outgrown
    <3>1. SUFFICES ASSUME ~Outgrown PROVE FALSE
      OBVIOUS
    <3>2. Shortfall(st, 0, Width) = 0
      BY <1>2, <2>1, <3>1, LastFits
    <3>. QED  BY <2>2, <3>2
  <2>4. phase' = "aborted" /\ Outgrown'
    BY <1>7, <2>3 DEF Abort, Outgrown, Live
  <2>. QED  BY <2>4 DEF Apart
<1>8. ASSUME ScheduleStarted PROVE Apart'
  <2>1. batch' = StartedChunks /\ phase' \in {"closing", "forming"}
        /\ started' = Kept(started, { r \in Requests : ChunkOf(batch', r) < left[r] })
    BY <1>8 DEF ScheduleStarted
  <2>2. ASSUME batch' = << >> PROVE started' = << >>
    <3>1. started = << >>
      BY <1>1, <2>1, <2>2, StartsSome
    <3>2. \A S : Kept(started, S) \in Seq(Requests) /\ Members(Kept(started, S)) = {}
      <4>1. Members(started) = {}
        BY <3>1 DEF Members
      <4>. QED  BY <4>1, QueuesType, KeptIs DEF IInv
    <3>3. started' \in Seq(Requests) /\ Members(started') = {}
      BY <2>1, <3>2
    <3>. QED  BY <3>3 DEF Members
  <2>. QED  BY <2>1, <2>2 DEF Apart, Panicked
<1>9. ASSUME NEW r \in Requests, AdmitHead(r) PROVE Apart'
  <2>1. phase' = "forming" /\ batch' = Append(batch, [req |-> r, tokens |-> FirstChunk(r)])
    BY <1>9 DEF AdmitHead
  <2>2. batch' # << >>
    <3>1. batch \in Seq(Chunks)
      BY DEF IInv, TypeOK, Chunks
    <3>2. \A c : Len(Append(batch, c)) = Len(batch) + 1
      BY <3>1
    <3>. QED  BY <2>1, <3>1, <3>2
  <2>. QED  BY <2>1, <2>2 DEF Apart, Panicked
<1>10. ASSUME CloseBatch PROVE Apart'
  <2>1. /\ phase \in {"forming", "closing"} /\ UNCHANGED << batch, left, started >>
        /\ phase' \in {"idle", "preparing", "computing"}
        /\ phase' = "preparing" => batch = << >>
    BY <1>10 DEF CloseBatch
  <2>2. ASSUME batch = << >> PROVE Prefilling = {}
    <3>1. started = << >>
      BY <1>2, <2>1, <2>2
    <3>2. ASSUME NEW r \in Prefilling PROVE FALSE
      <4>1. r \notin Members(started)
        BY <3>1 DEF Members
      <4>2. ChunkOf(batch, r) = 0
        BY <2>2, TokensEmpty
      <4>3. ChunkOf(batch, r) = left[r]
        BY <4>1 DEF Scheduled
      <4>. QED  BY <4>2, <4>3 DEF Prefilling
    <3>. QED  BY <3>2
  <2>. QED  BY <2>1, <2>2 DEF Apart, Prefilling, Panicked
<1>11. ASSUME RefreshHead \/ UNCHANGED vars PROVE Apart'
  <2>1. UNCHANGED << phase, batch, left, started, kv >>
    BY <1>11 DEF RefreshHead, vars
  <2>2. Outgrown' = Outgrown
    BY <2>1 DEF Outgrown, Live
  <2>. QED  BY <1>2, <2>1, <2>2 DEF Apart, Prefilling, Panicked
<1>12. ASSUME NEW r \in Requests, ReleaseFinished(r) PROVE Apart'
  <2>1. phase = "finishing" /\ (phase' = phase \/ StartForming(kv'))
    BY <1>12 DEF ReleaseFinished
  <2>. QED  BY <1>3, <1>4, <2>1
<1>. QED  BY <1>5, <1>6, <1>7, <1>8, <1>9, <1>10, <1>11, <1>12 DEF Next, Tick, Terminated

LEMMA InitApart == Init => Scheduled /\ Apart
BY DEF Init, Scheduled, Apart, Prefilling, Panicked

\* prepare_decode asserts that its last decode fits.  Of an engine that does not
\* mix this is true, but of a decode that would not fit an empty partition:
\* whenever such an engine claims a step, no prompt holds a reservation.
THEOREM PanicsHaveACause == Spec => []PanicsExplained
<1>1. Init => Scheduled /\ Apart
  BY InitApart
<1>2. IInv /\ IInv' /\ Scheduled /\ Apart /\ [Next]_vars => Scheduled' /\ Apart'
  BY StepScheduled, StepApart
<1>3. Apart => PanicsExplained
  BY DEF Apart, PanicsExplained
<1>4. Spec => []IInv
  BY Invariance
<1>. QED  BY <1>1, <1>2, <1>3, <1>4, PTL DEF Spec

=============================================================================
