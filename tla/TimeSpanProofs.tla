--------------------------- MODULE TimeSpanProofs ---------------------------
(***************************************************************************)
(* Proofs about TimeSpan: what the loops of systemctl and of systemd-exec  *)
(* compute, for every text.                                                *)
(***************************************************************************)
EXTENDS TimeSpan, SequenceTheorems, WellFoundedInduction, TLAPS

(* Induction over the natural numbers, as a fact about sets.               *)
LEMMA LeastElement ==
  ASSUME NEW T \in SUBSET Nat, T # {}
  PROVE  \E n \in T : \A m \in T : n <= m
<1> DEFINE R == {ss \in Nat \X Nat : ss[1] < ss[2]}
<1>1. IsWellFoundedOn(R, Nat)
  BY NatLessThanWellFounded DEF OpToRel
<1>2. \A S \in SUBSET Nat : S # {} => \E x \in S : \A y \in S : ~(<<y, x>> \in R)
  <2> HIDE DEF R
  <2> QED
    BY <1>1, WFMin
<1>3. PICK x \in T : \A y \in T : ~(<<y, x>> \in R)
  <2> HIDE DEF R
  <2> QED
    BY <1>2
<1>4. \A y \in T : ~(y < x)
  BY <1>3
<1> QED
  BY <1>4

(* A recursion over D: the value at the ends, elsewhere comb of the result  *)
(* for the next place, which is nearer to an end.                          *)
IsRecursion(D, V, ends, value, next, comb, N, left) ==
  /\ ends \in SUBSET D /\ value \in [D -> V] /\ next \in [D -> D] /\ comb \in [D \X V -> V]
  /\ N \in Nat /\ left \in [D -> 0..N]
  /\ \A p \in D \ ends : left[next[p]] < left[p]

(* Every recursion has a function that solves it. *)
LEMMA RecursiveFunction ==
  ASSUME NEW D, NEW V, NEW ends, NEW value, NEW next, NEW comb, NEW N, NEW left,
         IsRecursion(D, V, ends, value, next, comb, N, left)
  PROVE  \E f \in [D -> V] : \A p \in D :
           f[p] = IF p \in ends THEN value[p] ELSE comb[<<p, f[next[p]]>>]
<1> USE DEF IsRecursion
<1> DEFINE Solves(f, n) == \A p \in D : left[p] < n =>
                 f[p] = IF p \in ends THEN value[p] ELSE comb[<<p, f[next[p]]>>]
           Open == {n \in Nat : \A f \in [D -> V] : ~Solves(f, n)}
<1>1. Solves(value, 0)
  OBVIOUS
<1>2. ASSUME NEW n \in Nat, NEW f \in [D -> V], Solves(f, n)
      PROVE  \E g \in [D -> V] : Solves(g, n + 1)
  <2> DEFINE g == [p \in D |-> IF p \in ends THEN value[p] ELSE comb[<<p, f[next[p]]>>]]
  <2>1. g \in [D -> V]
    OBVIOUS
  <2>2. \A p \in D : left[p] < n => g[p] = f[p]
    BY <1>2
  <2>3. Solves(g, n + 1)
    <3>1. SUFFICES ASSUME NEW p \in D \ ends, left[p] < n + 1
                   PROVE  g[p] = comb[<<p, g[next[p]]>>]
      OBVIOUS
    <3>2. left[next[p]] < n /\ next[p] \in D
      BY <3>1
    <3>3. g[next[p]] = f[next[p]]
      BY <2>2, <3>2
    <3> QED
      BY <3>3
  <2> QED
    BY <2>1, <2>3
<1> HIDE DEF Solves
<1>3. Open = {}
  <2>1. SUFFICES ASSUME Open # {}
                 PROVE  FALSE
    OBVIOUS
  <2>2. PICK n \in Open : \A m \in Open : n <= m
    BY <2>1, LeastElement
  <2>3. n # 0
    BY <1>1, <2>2
  <2>4. n - 1 \in Nat /\ n - 1 \notin Open /\ (n - 1) + 1 = n
    BY <2>2, <2>3
  <2>5. PICK f \in [D -> V] : Solves(f, n - 1)
    BY <2>4
  <2>6. \E g \in [D -> V] : Solves(g, (n - 1) + 1)
    BY <1>2, <2>4, <2>5
  <2> QED
    BY <2>2, <2>4, <2>6
<1>4. PICK f \in [D -> V] : Solves(f, N + 1)
  <2>1. N + 1 \in Nat /\ N + 1 \notin Open
    <3> HIDE DEF Open
    <3> QED
      BY <1>3
  <2> QED
    BY <2>1
<1>5. \A p \in D : left[p] < N + 1
  OBVIOUS
<1> QED
  BY <1>4, <1>5 DEF Solves

Results == [outcome: {"ok", "fails", "hangs"}, micros: Nat]

(* SkipBlanks finds the first place that is not a blank, or the end. *)
LEMMA SkipBlanksFinds ==
  ASSUME NEW text \in Seq(Tokens), NEW p \in 1..Len(text) + 1
  PROVE  LET q == SkipBlanks(text, p) IN
         /\ q \in p..Len(text) + 1 /\ q \in Nat
         /\ q <= Len(text) => text[q].kind # "blank"
         /\ \A r \in p..q - 1 : r <= Len(text) /\ text[r].kind = "blank"
<1> DEFINE Ends == {q \in Nat : q >= p /\ ~Is(text, q, {"blank"})}
<1>1. Len(text) \in Nat
  BY LenProperties
<1>2. Len(text) + 1 \in Ends
  BY <1>1 DEF Is
<1>3. PICK q \in Ends : \A r \in Ends : q <= r
  BY <1>2, LeastElement
<1>4. q \in p..Len(text) + 1
  BY <1>1, <1>2, <1>3
<1>5. \A r \in p..q - 1 : Is(text, r, {"blank"})
  BY <1>1, <1>3
<1>6. ~Is(text, q, {"blank"})
  BY <1>3
<1> DEFINE s == SkipBlanks(text, p)
<1>7. /\ s \in p..Len(text) + 1 /\ ~Is(text, s, {"blank"})
      /\ \A r \in p..s - 1 : Is(text, r, {"blank"})
  BY <1>4, <1>5, <1>6 DEF SkipBlanks
<1> HIDE DEF s
<1> QED
  BY <1>1, <1>7 DEF Is, s

(* A round moves forward or stays, and finds no number without moving.     *)
LEMMA RoundMoves ==
  ASSUME NEW text \in Seq(Tokens), NEW p \in 1..Len(text) + 1
  PROVE  LET number == SkipBlanks(text, p)
             found  == Is(text, number, {"number"})
             word   == SkipBlanks(text, IF found THEN number + 1 ELSE number)
             round  == Round(text, p)
         IN /\ number \in p..Len(text) + 1
            /\ found => word \in number + 1..Len(text) + 1
            /\ ~found => word = number
            /\ round.next \in p..Len(text) + 1
            /\ round.found => round.next > p
            /\ round.micros \in Nat
            /\ round.found \in BOOLEAN /\ round.throws \in BOOLEAN
<1> DEFINE number == SkipBlanks(text, p)
           found  == Is(text, number, {"number"})
           start  == IF found THEN number + 1 ELSE number
           word   == SkipBlanks(text, start)
           named  == Is(text, word, {"unit", "infinity"})
<1>1. Len(text) \in Nat /\ \A q \in 1..Len(text) : text[q] \in Tokens
  BY LenProperties
<1>2. /\ number \in p..Len(text) + 1 /\ number \in Nat
      /\ number <= Len(text) => text[number].kind # "blank"
  BY SkipBlanksFinds
<1> HIDE DEF number
<1>3. start \in 1..Len(text) + 1 /\ start \in Nat
  BY <1>1, <1>2 DEF Is
<1>4. /\ word \in start..Len(text) + 1 /\ word \in Nat
      /\ \A r \in start..word - 1 : r <= Len(text) /\ text[r].kind = "blank"
  <2> HIDE DEF start
  <2> QED
    BY <1>3, SkipBlanksFinds
<1> HIDE DEF word
<1>5. ~found => word = number
  <2>1. SUFFICES ASSUME ~found, word # number
                 PROVE  FALSE
    OBVIOUS
  <2>2. number \in start..word - 1
    BY <2>1, <1>2, <1>3, <1>4, <1>1
  <2> QED
    BY <2>1, <2>2, <1>2, <1>4
<1>6. found => word \in number + 1..Len(text) + 1
  BY <1>4, <1>1, <1>2
<1>7. Round(text, p) =
        [throws |-> Is(text, number, {"malformed"}), found |-> found,
         micros |-> IF found THEN text[number].value * (IF named THEN text[word].value ELSE Second) ELSE 0,
         next |-> IF named THEN word + 1 ELSE word]
  BY DEF Round, number, word
<1>8. named => word \in 1..Len(text)
  BY <1>1, <1>3, <1>4 DEF Is
<1>9. found => number \in 1..Len(text)
  BY <1>1, <1>2 DEF Is
<1>10. Round(text, p).micros \in Nat
  <2>1. named => text[word].value \in Nat
    BY <1>1, <1>8 DEF Tokens
  <2>2. found => text[number].value \in Nat
    BY <1>1, <1>9 DEF Tokens
  <2>3. \A a, b \in Nat : a * b \in Nat
    OBVIOUS
  <2> HIDE DEF found, named
  <2>4. (IF named THEN text[word].value ELSE Second) \in Nat
    BY <2>1 DEF Second, Millisecond
  <2> QED
    BY <1>7, <2>2, <2>3, <2>4
<1>11. Round(text, p).next \in p..Len(text) + 1 /\ (found => Round(text, p).next > p)
  BY <1>1, <1>2, <1>3, <1>4, <1>6, <1>7, <1>8
<1>12. Round(text, p).found = found /\ found \in BOOLEAN /\ Round(text, p).throws \in BOOLEAN
  BY <1>7 DEF Is
<1> HIDE DEF found, named
<1> QED
  BY <1>2, <1>5, <1>6, <1>10, <1>11, <1>12 DEF number, word, found

(* What one round adds to the result f of the rest. *)
Unfolded(text, strict, f, p) ==
  LET round == Round(text, p)
      rest  == f[round.next]
  IN IF round.throws \/ (strict /\ ~round.found) THEN Fails
     ELSE IF round.next > Len(text) THEN Ok(round.micros)
     ELSE IF round.next = p THEN Hangs
     ELSE IF rest.outcome = "ok" THEN Ok(round.micros + rest.micros) ELSE rest

(* The loop computes what its rounds say, from every place. *)
LEMMA LoopUnfolds ==
  ASSUME NEW text \in Seq(Tokens), NEW strict \in BOOLEAN
  PROVE  /\ Rounds(text, strict) \in [1..Len(text) + 1 -> Results]
         /\ \A p \in 1..Len(text) + 1 :
              Rounds(text, strict)[p] = Unfolded(text, strict, Rounds(text, strict), p)
<1> DEFINE D == 1..Len(text) + 1
           R(p) == Round(text, p)
           Stops(p) == R(p).throws \/ (strict /\ ~R(p).found) \/ R(p).next > Len(text) \/ R(p).next = p
           ends == {p \in D : Stops(p)}
           value == [p \in D |-> IF R(p).throws \/ (strict /\ ~R(p).found) THEN Fails
                                 ELSE IF R(p).next > Len(text) THEN Ok(R(p).micros) ELSE Hangs]
           next == [p \in D |-> R(p).next]
           comb == [pr \in D \X Results |->
                      IF pr[2].outcome = "ok" THEN Ok(R(pr[1]).micros + pr[2].micros) ELSE pr[2]]
           N == Len(text) + 1
           left == [p \in D |-> N - p]
<1>1. Len(text) \in Nat /\ N \in Nat
  BY LenProperties
<1>2. \A p \in D : /\ R(p).next \in p..Len(text) + 1
                   /\ R(p).micros \in Nat
  BY RoundMoves
<1> HIDE DEF R
<1>3. value \in [D -> Results]
  BY <1>2 DEF Results, Ok, Fails, Hangs
<1>4. next \in [D -> D]
  BY <1>1, <1>2
<1>5. comb \in [D \X Results -> Results]
  <2>1. ASSUME NEW p \in D, NEW r \in Results
        PROVE  (IF r.outcome = "ok" THEN Ok(R(p).micros + r.micros) ELSE r) \in Results
    BY <1>2 DEF Results, Ok
  <2> QED
    BY <2>1
<1>6. left \in [D -> 0..N]
  BY <1>1
<1>7. ends \in SUBSET D /\ (\A p \in D \ ends : left[next[p]] < left[p])
  BY <1>1, <1>2, <1>4
<1>8. PICK f \in [D -> Results] : \A p \in D :
        f[p] = IF p \in ends THEN value[p] ELSE comb[<<p, f[next[p]]>>]
  <2> HIDE DEF D, ends, value, next, comb, left, N
  <2>1. IsRecursion(D, Results, ends, value, next, comb, N, left)
    BY <1>1, <1>3, <1>4, <1>5, <1>6, <1>7 DEF IsRecursion
  <2> QED
    BY <2>1, RecursiveFunction
<1>9. ASSUME NEW p \in D
      PROVE  f[p] = Unfolded(text, strict, f, p)
  <2>1. CASE p \in ends
    BY <1>8, <2>1 DEF Unfolded, R
  <2>2. CASE p \notin ends
    <3>1. f[p] = comb[<<p, f[next[p]]>>] /\ f[next[p]] \in Results
      BY <1>8, <2>2, <1>4
    <3> QED
      BY <3>1, <2>2 DEF Unfolded, R
  <2> QED
    BY <2>1, <2>2
<1>10. f = [p \in D |-> Unfolded(text, strict, f, p)]
  BY <1>8, <1>9
<1>11. Rounds(text, strict) = CHOOSE g : g = [p \in D |-> Unfolded(text, strict, g, p)]
  BY DEF Rounds, Unfolded
<1> DEFINE g == Rounds(text, strict)
           Differ == {n \in Nat : n < N /\ g[N - n] # f[N - n]}
<1>12. g = [p \in D |-> Unfolded(text, strict, g, p)]
  BY <1>10, <1>11
<1>13. Differ = {}
  <2> HIDE DEF g
  <2>1. SUFFICES ASSUME Differ # {}
                 PROVE  FALSE
    OBVIOUS
  <2>2. PICK n \in Differ : \A m \in Differ : n <= m
    BY <2>1, LeastElement
  <2> DEFINE p == N - n
             q == R(p).next
  <2>3. p \in D /\ g[p] # f[p] /\ g[p] = Unfolded(text, strict, g, p)
    <3>1. p \in D /\ g[p] # f[p]
      BY <1>1, <2>2
    <3> HIDE DEF p
    <3> QED
      BY <1>12, <3>1
  <2>4. f[p] = Unfolded(text, strict, f, p)
    BY <1>9, <2>3
  <2>5. q # p /\ q \in p..N /\ g[q] # f[q]
    BY <1>2, <2>3, <2>4 DEF Unfolded, R
  <2>6. N - q \in Differ /\ N - q < n
    BY <1>1, <2>2, <2>3, <2>5
  <2> QED
    BY <1>1, <2>2, <2>6
<1>14. \A p \in D : g[p] = f[p]
  <2>1. ASSUME NEW p \in D
        PROVE  g[p] = f[p]
    <3>1. N - p \in Nat /\ N - p < N /\ N - (N - p) = p
      BY <1>1
    <3>2. N - p \notin Differ
      BY <1>13
    <3> HIDE DEF g, N
    <3> QED
      BY <3>1, <3>2
  <2> QED
    BY <2>1
<1>15. g = f
  <2> HIDE DEF g
  <2>1. f = [p \in D |-> f[p]]
    BY <1>8
  <2> QED
    BY <1>12, <1>14, <2>1
<1> QED
  BY <1>8, <1>9, <1>15

-----------------------------------------------------------------------------
(***************************************************************************)
(* Sums and lists over the places of a text or a file.                     *)
(***************************************************************************)

(* A list of values computed one by one, each from the one before. *)
IsIteration(n, V, base, step) == n \in Nat /\ base \in V /\ step \in [(1..n) \X V -> V]

(* There is a function over 0..n with the values of an iteration. *)
LEMMA UpToFunction ==
  ASSUME NEW n, NEW V, NEW base, NEW step, IsIteration(n, V, base, step)
  PROVE  \E f \in [0..n -> V] : f[0] = base /\ \A k \in 1..n : f[k] = step[<<k, f[k - 1]>>]
<1> USE DEF IsIteration
<1> DEFINE D == 0..n
           value == [k \in D |-> base]
           next == [k \in D |-> IF k = 0 THEN 0 ELSE k - 1]
           comb == [pr \in D \X V |-> IF pr[1] = 0 THEN base ELSE step[pr]]
           left == [k \in D |-> k]
<1>1. comb \in [D \X V -> V]
  <2>1. ASSUME NEW k \in D, NEW v \in V
        PROVE  (IF k = 0 THEN base ELSE step[<<k, v>>]) \in V
    OBVIOUS
  <2> QED
    BY <2>1
<1>2. IsRecursion(D, V, {0}, value, next, comb, n, left)
  <2>1. left \in [D -> 0..n] /\ next \in [D -> D] /\ value \in [D -> V] /\ {0} \in SUBSET D
    OBVIOUS
  <2>2. \A k \in D \ {0} : left[next[k]] < left[k]
    OBVIOUS
  <2> HIDE DEF D, value, next, comb, left
  <2> QED
    BY <1>1, <2>1, <2>2 DEF IsRecursion
<1>3. PICK f \in [D -> V] : \A k \in D :
        f[k] = IF k \in {0} THEN value[k] ELSE comb[<<k, f[next[k]]>>]
  <2> HIDE DEF D, value, next, comb, left
  <2> QED
    BY <1>2, RecursiveFunction
<1>4. f[0] = base
  <2>1. 0 \in D /\ 0 \in {0} /\ value[0] = base
    OBVIOUS
  <2> HIDE DEF D, value, next, comb
  <2> QED
    BY <1>3, <2>1
<1>5. ASSUME NEW k \in 1..n
      PROVE  f[k] = step[<<k, f[k - 1]>>]
  <2>1. k \in D /\ k # 0 /\ next[k] = k - 1 /\ f[k - 1] \in V
    BY <1>3
  <2>2. f[k] = comb[<<k, f[k - 1]>>]
    BY <1>3, <2>1
  <2> QED
    BY <2>1, <2>2
<1> QED
  BY <1>3, <1>4, <1>5

SameSteps(n, f, g) ==
  n \in Nat /\ f[0] = g[0] /\ \A k \in 1..n : f[k - 1] = g[k - 1] => f[k] = g[k]

SameValues(n, f, g) == \A k \in 0..n : f[k] = g[k]

(* Two functions that are computed in the same way are equal. *)
LEMMA SameUpTo ==
  ASSUME NEW n, NEW f, NEW g, SameSteps(n, f, g)
  PROVE  SameValues(n, f, g)
<1> USE DEF SameSteps, SameValues
<1> DEFINE Differ == {k \in Nat : k <= n /\ f[k] # g[k]}
<1>1. SUFFICES ASSUME Differ # {}
               PROVE  FALSE
  OBVIOUS
<1>2. PICK k \in Differ : \A m \in Differ : k <= m
  BY <1>1, LeastElement
<1>3. k # 0 /\ k \in 1..n /\ k - 1 \in Nat /\ k - 1 <= n
  BY <1>2
<1>4. k - 1 \notin Differ
  BY <1>2, <1>3
<1> QED
  BY <1>2, <1>3, <1>4

(* A function over 0..n that changes nothing between a and b is constant there. *)
LEMMA SameBetween ==
  ASSUME NEW n \in Nat, NEW f, NEW a \in 0..n, NEW b \in a..n,
         \A k \in a + 1..b : f[k] = f[k - 1]
  PROVE  f[b] = f[a]
<1> DEFINE g == [k \in 0..b - a |-> f[a + k]]
           c == [k \in 0..b - a |-> f[a]]
<1>1. b - a \in Nat /\ g[0] = c[0]
  OBVIOUS
<1>2. ASSUME NEW k \in 1..b - a, g[k - 1] = c[k - 1]
      PROVE  g[k] = c[k]
  <2>1. a + k \in a + 1..b /\ k - 1 \in 0..b - a /\ a + (k - 1) = (a + k) - 1 /\ k \in 0..b - a
    OBVIOUS
  <2> QED
    BY <1>2, <2>1
<1>3. \A k \in 0..b - a : g[k] = c[k]
  <2> HIDE DEF g, c
  <2>1. SameSteps(b - a, g, c)
    BY <1>1, <1>2 DEF SameSteps
  <2> QED
    <3>1. SameValues(b - a, g, c)
      BY <2>1, SameUpTo
    <3> QED
      BY <3>1 DEF SameValues
<1>4. b - a \in 0..b - a /\ a + (b - a) = b
  OBVIOUS
<1> QED
  BY <1>3, <1>4

LEMMA TextIs ==
  ASSUME NEW text \in Seq(Tokens)
  PROVE  /\ Len(text) \in Nat /\ DOMAIN text = 1..Len(text)
         /\ \A p \in 1..Len(text) : text[p] \in Tokens /\ text[p].value \in Nat
<1>1. Len(text) \in Nat /\ DOMAIN text = 1..Len(text) /\ text \in [1..Len(text) -> Tokens]
  BY LenProperties
<1>2. \A t \in Tokens : t.value \in Nat
  BY DEF Tokens
<1> QED
  BY <1>1, <1>2

LEMMA UnitOfNat ==
  ASSUME NEW text \in Seq(Tokens), NEW p \in 1..Len(text)
  PROVE  UnitOf(text, p) \in Nat
<1>1. Len(text) \in Nat /\ \A q \in 1..Len(text) : text[q].value \in Nat
  BY TextIs
<1> DEFINE units == {q \in p + 1..Len(text) :
                  text[q].kind = "unit" /\ \A r \in p + 1..q - 1 : text[r].kind = "blank"}
<1>2. units # {} => (CHOOSE q \in units : TRUE) \in 1..Len(text)
  <2>1. units \subseteq 1..Len(text)
    BY <1>1
  <2>2. units # {} => (CHOOSE q \in units : TRUE) \in units
    <3> HIDE DEF units
    <3> QED
      OBVIOUS
  <2> HIDE DEF units
  <2> QED
    BY <2>1, <2>2
<1> QED
  BY <1>1, <1>2 DEF UnitOf, Second, Millisecond

(* The sums of a text, from place to place. *)
LEMMA SumsAdd ==
  ASSUME NEW text \in Seq(Tokens)
  PROVE  /\ SumsOf(text) \in [0..Len(text) -> Nat]
         /\ SumsOf(text)[0] = 0
         /\ \A p \in 1..Len(text) :
              SumsOf(text)[p] = SumsOf(text)[p - 1]
                + (IF text[p].kind = "number" THEN text[p].value * UnitOf(text, p) ELSE 0)
<1> DEFINE n == Len(text)
           Share(p) == IF text[p].kind = "number" THEN text[p].value * UnitOf(text, p) ELSE 0
           step == [pr \in (1..n) \X Nat |-> pr[2] + Share(pr[1])]
           S == SumsOf(text)
<1>1. n \in Nat
  BY LenProperties
<1>2. \A p \in 1..n : Share(p) \in Nat
  <2>1. ASSUME NEW p \in 1..n
        PROVE  text[p].value \in Nat /\ UnitOf(text, p) \in Nat
    BY UnitOfNat, TextIs
  <2>2. \A a, b \in Nat : a * b \in Nat
    OBVIOUS
  <2> QED
    BY <2>1, <2>2
<1> HIDE DEF Share
<1>3. step \in [(1..n) \X Nat -> Nat]
  <2>1. \A p \in 1..n, v \in Nat : v + Share(p) \in Nat
    BY <1>2
  <2> QED
    BY <2>1
<1>4. PICK f \in [0..n -> Nat] : f[0] = 0 /\ \A k \in 1..n : f[k] = step[<<k, f[k - 1]>>]
  <2> HIDE DEF step, n
  <2>1. IsIteration(n, Nat, 0, step)
    BY <1>1, <1>3 DEF IsIteration
  <2> QED
    BY <2>1, UpToFunction
<1>5. \A k \in 1..n : f[k] = f[k - 1] + Share(k)
  BY <1>1, <1>4
<1>6. f = [p \in 0..n |-> IF p = 0 THEN 0 ELSE f[p - 1] + Share(p)]
  BY <1>1, <1>4, <1>5
<1>7. S = CHOOSE g : g = [p \in 0..n |-> IF p = 0 THEN 0 ELSE g[p - 1] + Share(p)]
  BY DEF SumsOf, Share
<1>8. S = [p \in 0..n |-> IF p = 0 THEN 0 ELSE S[p - 1] + Share(p)]
  BY <1>6, <1>7
<1> HIDE DEF S
<1>9. S[0] = f[0] /\ \A k \in 1..n : S[k] = S[k - 1] + Share(k)
  BY <1>1, <1>4, <1>8
<1>10. \A k \in 0..n : f[k] = S[k]
  <2> HIDE DEF n
  <2>1. SameSteps(n, f, S)
    BY <1>1, <1>4, <1>5, <1>9 DEF SameSteps
  <2> HIDE DEF step
  <2> QED
    <3>1. SameValues(n, f, S)
      BY <2>1, SameUpTo
    <3> QED
      BY <3>1 DEF SameValues
<1>11. S \in [0..n -> Nat]
  BY <1>4, <1>8, <1>10
<1> QED
  BY <1>4, <1>9, <1>11 DEF S, Share

-----------------------------------------------------------------------------
(***************************************************************************)
(* ParseDuration adds the numbers of a well-formed text.                   *)
(***************************************************************************)

(* The first place that is not a blank is the one that SkipBlanks finds.   *)
LEMMA SkipBlanksIs ==
  ASSUME NEW text \in Seq(Tokens), NEW p \in 1..Len(text) + 1, NEW q \in p..Len(text) + 1,
         q <= Len(text) => text[q].kind # "blank",
         \A r \in p..q - 1 : text[r].kind = "blank"
  PROVE  SkipBlanks(text, p) = q
<1> DEFINE s == SkipBlanks(text, p)
<1>1. Len(text) \in Nat
  BY TextIs
<1>2. /\ s \in p..Len(text) + 1 /\ s \in Nat
      /\ s <= Len(text) => text[s].kind # "blank"
      /\ \A r \in p..s - 1 : r <= Len(text) /\ text[r].kind = "blank"
  BY SkipBlanksFinds
<1> HIDE DEF s
<1>3. ~(s < q)
  <2>1. s < q => s \in p..q - 1 /\ s <= Len(text)
    BY <1>1, <1>2
  <2> QED
    BY <1>2, <2>1
<1>4. ~(q < s)
  <2>1. q < s => q \in p..s - 1
    BY <1>1, <1>2
  <2> QED
    BY <1>2, <2>1
<1> QED
  BY <1>1, <1>2, <1>3, <1>4 DEF s

(* Without a number between them, two places have the same sum. *)
LEMMA SumsStay ==
  ASSUME NEW text \in Seq(Tokens), NEW a \in 0..Len(text), NEW b \in a..Len(text),
         \A r \in a + 1..b : text[r].kind # "number"
  PROVE  SumsOf(text)[b] = SumsOf(text)[a]
<1> DEFINE S == SumsOf(text)
<1>1. Len(text) \in Nat
  BY TextIs
<1>2. ASSUME NEW k \in a + 1..b
      PROVE  S[k] = S[k - 1]
  <2>1. k \in 1..Len(text) /\ k - 1 \in 0..Len(text)
    BY <1>1
  <2>2. S[k] = S[k - 1] + 0 /\ S[k - 1] \in Nat
    BY <2>1, SumsAdd
  <2> QED
    BY <2>2
<1> HIDE DEF S
<1>3. S[b] = S[a]
  BY <1>1, <1>2, SameBetween
<1> QED
  BY <1>3 DEF S

(* The unit of a number is the word that the loop finds after it. *)
LEMMA UnitIsWord ==
  ASSUME NEW text \in Seq(Tokens), NEW p \in 1..Len(text)
  PROVE  LET word == SkipBlanks(text, p + 1) IN
         UnitOf(text, p) = IF word <= Len(text) /\ text[word].kind = "unit" THEN text[word].value ELSE Second
<1> DEFINE w == SkipBlanks(text, p + 1)
           units == {q \in p + 1..Len(text) :
                  text[q].kind = "unit" /\ \A r \in p + 1..q - 1 : text[r].kind = "blank"}
<1>1. Len(text) \in Nat /\ p + 1 \in 1..Len(text) + 1
  BY TextIs
<1>2. /\ w \in p + 1..Len(text) + 1 /\ w \in Nat
      /\ w <= Len(text) => text[w].kind # "blank"
      /\ \A r \in p + 1..w - 1 : r <= Len(text) /\ text[r].kind = "blank"
  BY <1>1, SkipBlanksFinds
<1> HIDE DEF w
<1>3. units = IF w <= Len(text) /\ text[w].kind = "unit" THEN {w} ELSE {}
  <2>1. ASSUME NEW q \in units
        PROVE  q = w
    <3>1. q \in p + 1..Len(text) /\ text[q].kind = "unit" /\ \A r \in p + 1..q - 1 : text[r].kind = "blank"
      OBVIOUS
    <3>2. ~(q < w)
      <4>1. q < w => q \in p + 1..w - 1
        BY <1>1, <1>2, <3>1
      <4> QED
        BY <1>2, <3>1, <4>1
    <3>3. ~(w < q)
      <4>1. w < q => w \in p + 1..q - 1 /\ w <= Len(text)
        BY <1>1, <1>2, <3>1
      <4> QED
        BY <1>2, <3>1, <4>1
    <3> QED
      BY <1>1, <1>2, <3>1, <3>2, <3>3
  <2>2. w <= Len(text) /\ text[w].kind = "unit" => w \in units
    BY <1>1, <1>2
  <2>3. w \in units => w <= Len(text) /\ text[w].kind = "unit"
    BY <1>1
  <2> HIDE DEF units
  <2> QED
    BY <2>1, <2>2, <2>3
<1>4. UnitOf(text, p) = IF units = {} THEN Second ELSE text[CHOOSE q \in units : TRUE].value
  BY DEF UnitOf
<1> HIDE DEF units
<1> QED
  BY <1>3, <1>4 DEF w

(* From p on the text begins with a number, or has only blanks left.       *)
Begins(text, p) ==
  LET number == SkipBlanks(text, p)
  IN number <= Len(text) => text[number].kind = "number"

(* One round of a well-formed text: it ends the text without a number, or  *)
(* takes a number with its unit and comes to the next.                     *)
LEMMA WellFormedRound ==
  ASSUME NEW text \in Seq(Tokens), WellFormed(text), NEW p \in 1..Len(text) + 1, Begins(text, p)
  PROVE  LET round == Round(text, p)
             S == SumsOf(text)
         IN /\ ~round.throws
            /\ round.next \in p..Len(text) + 1
            /\ S[round.next - 1] = S[p - 1] + round.micros
            /\ round.next <= Len(text) => round.next > p /\ Begins(text, round.next)
<1> DEFINE S == SumsOf(text)
           m == SkipBlanks(text, p)
           found == Is(text, m, {"number"})
           w == SkipBlanks(text, IF found THEN m + 1 ELSE m)
           named == Is(text, w, {"unit", "infinity"})
           next == IF named THEN w + 1 ELSE w
           micros == IF found THEN text[m].value * (IF named THEN text[w].value ELSE Second) ELSE 0
<1>1. Len(text) \in Nat /\ DOMAIN text = 1..Len(text)
  BY TextIs
<1>2. /\ m \in p..Len(text) + 1 /\ m \in Nat
      /\ m <= Len(text) => text[m].kind # "blank"
      /\ \A r \in p..m - 1 : r <= Len(text) /\ text[r].kind = "blank"
  BY SkipBlanksFinds
<1>3. m <= Len(text) => text[m].kind = "number"
  BY DEF Begins
<1>4. Round(text, p) = [throws |-> Is(text, m, {"malformed"}), found |-> found,
                        micros |-> micros, next |-> next]
  BY DEF Round
<1>5. S \in [0..Len(text) -> Nat]
  BY SumsAdd
<1>6. \A q \in 1..Len(text) :
        \/ text[q].kind \in {"number", "blank"}
        \/ /\ text[q].kind = "unit"
           /\ \E n \in 1..Len(text) : n < q /\ text[n].kind = "number"
                                   /\ \A r \in n + 1..q - 1 : text[r].kind = "blank"
  BY <1>1 DEF WellFormed, Numbers
<1> HIDE DEF m
<1>7. ~Round(text, p).throws
  <2>1. ~Is(text, m, {"malformed"})
    BY <1>3 DEF Is
  <2> HIDE DEF found, micros, next
  <2> QED
    BY <1>4, <2>1
<1>8. S[m - 1] = S[p - 1]
  <2>1. \A r \in (p - 1) + 1..m - 1 : text[r].kind # "number"
    BY <1>1, <1>2
  <2>2. p - 1 \in 0..Len(text) /\ m - 1 \in p - 1..Len(text)
    BY <1>1, <1>2
  <2> HIDE DEF S
  <2> QED
    BY <2>1, <2>2, SumsStay DEF S
<1>9. CASE m > Len(text)
  <2>1. m = Len(text) + 1 /\ ~found
    BY <1>1, <1>2, <1>9 DEF Is
  <2>2. w = Len(text) + 1
    <3>1. w = SkipBlanks(text, Len(text) + 1)
      BY <2>1
    <3>2. SkipBlanks(text, Len(text) + 1) \in Len(text) + 1..Len(text) + 1
      BY <1>1, SkipBlanksFinds
    <3> QED
      BY <1>1, <3>1, <3>2
  <2>3. ~named
    BY <1>1, <2>2 DEF Is
  <2>4. next = Len(text) + 1 /\ micros = 0
    BY <2>1, <2>2, <2>3
  <2>5. S[(Len(text) + 1) - 1] = S[p - 1] + 0
    <3>1. p - 1 \in 0..Len(text) /\ S[p - 1] \in Nat
      BY <1>1, <1>5
    <3> QED
      BY <1>8, <2>1, <3>1
  <2> HIDE DEF next, micros, S, found
  <2> QED
    BY <1>1, <1>4, <1>7, <2>4, <2>5 DEF S
<1>10. CASE m <= Len(text)
  <2>1. m \in 1..Len(text) /\ found /\ m + 1 \in 1..Len(text) + 1
    BY <1>1, <1>2, <1>3, <1>10 DEF Is
  <2>2. w = SkipBlanks(text, m + 1)
    BY <2>1
  <2>3. /\ w \in m + 1..Len(text) + 1 /\ w \in Nat
        /\ w <= Len(text) => text[w].kind # "blank"
        /\ \A r \in m + 1..w - 1 : r <= Len(text) /\ text[r].kind = "blank"
    BY <1>1, <2>1, <2>2, SkipBlanksFinds
  <2>4. UnitOf(text, m) = IF w <= Len(text) /\ text[w].kind = "unit" THEN text[w].value ELSE Second
    BY <2>1, <2>2, UnitIsWord
  <2>5. S[m] = S[m - 1] + text[m].value * UnitOf(text, m)
    BY <2>1, <1>3, <1>10, SumsAdd
  <2> HIDE DEF w
  <2>6. named <=> w <= Len(text) /\ text[w].kind = "unit"
    BY <1>1, <1>6, <2>1, <2>3 DEF Is
  <2>7. micros = text[m].value * UnitOf(text, m)
    BY <2>1, <2>4, <2>6
  <2>8. next \in m + 1..Len(text) + 1
    BY <1>1, <2>1, <2>3, <2>6
  <2>9. S[next - 1] = S[m]
    <3>1. \A r \in m + 1..next - 1 : text[r].kind # "number"
      BY <1>1, <2>3, <2>6
    <3>2. m \in 0..Len(text) /\ next - 1 \in m..Len(text)
      BY <1>1, <2>1, <2>8
    <3> HIDE DEF S, next
    <3> QED
      BY <3>1, <3>2, SumsStay DEF S
  <2>10. S[next - 1] = S[p - 1] + micros
    <3> HIDE DEF S, next, micros
    <3> QED
      BY <1>8, <2>5, <2>7, <2>9
  <2>11. next <= Len(text) => Begins(text, next)
    <3> DEFINE x == SkipBlanks(text, next)
    <3>1. SUFFICES ASSUME next <= Len(text), x <= Len(text), text[x].kind # "number"
                   PROVE  FALSE
      BY DEF Begins
    <3>2. next \in 1..Len(text) + 1
      BY <1>1, <2>1, <2>8
    <3>3. /\ x \in next..Len(text) + 1 /\ x \in Nat
          /\ x <= Len(text) => text[x].kind # "blank"
          /\ \A r \in next..x - 1 : r <= Len(text) /\ text[r].kind = "blank"
      <4> HIDE DEF next
      <4> QED
        BY <3>2, SkipBlanksFinds
    <3> HIDE DEF x
    <3>4. x \in 1..Len(text) /\ text[x].kind # "blank" /\ text[x].kind # "number"
      BY <1>1, <3>1, <3>2, <3>3
    <3>5. PICK n \in 1..Len(text) : n < x /\ text[n].kind = "number"
                                /\ \A r \in n + 1..x - 1 : text[r].kind = "blank"
      BY <1>6, <3>4
    <3>6. text[x].kind = "unit"
      BY <1>6, <3>4
    <3>7. ~(n >= next)
      <4>1. n >= next => n \in next..x - 1
        BY <1>1, <3>4, <3>5, <2>8
      <4> HIDE DEF next
      <4> QED
        BY <3>3, <3>5, <4>1
    <3>8. CASE named
      <4>1. next = w + 1 /\ text[w].kind = "unit" /\ w <= Len(text)
        BY <2>6, <3>8
      <4>2. n # w
        BY <4>1, <3>5
      <4>3. w \in n + 1..x - 1
        BY <1>1, <2>3, <3>3, <3>4, <3>5, <3>7, <4>1, <4>2
      <4> QED
        BY <3>5, <4>1, <4>3
    <3>9. CASE ~named
      <4>1. next = w /\ text[w].kind # "blank" /\ w <= Len(text) /\ text[w].kind # "unit"
        BY <2>3, <2>6, <3>1, <3>9
      <4>2. x # w
        BY <3>6, <4>1
      <4>3. w \in w..x - 1
        BY <1>1, <2>3, <3>3, <3>4, <4>1, <4>2
      <4> QED
        BY <3>3, <4>1, <4>3
    <3> QED
      BY <3>8, <3>9
  <2> HIDE DEF next, micros, S, found
  <2> QED
    BY <1>1, <1>2, <1>4, <1>7, <2>8, <2>10, <2>11 DEF S
<1> QED
  BY <1>1, <1>2, <1>9, <1>10

(* From each of its places on, ParseDuration adds what is left of the sum.  *)
LEMMA LoopAdds ==
  ASSUME NEW text \in Seq(Tokens), WellFormed(text)
  PROVE  \A p \in 1..Len(text) + 1 : Begins(text, p) =>
           /\ Rounds(text, FALSE)[p].outcome = "ok"
           /\ SumsOf(text)[p - 1] + Rounds(text, FALSE)[p].micros = SumOf(text)
           /\ Rounds(text, FALSE)[p].micros \in Nat
           /\ Rounds(text, FALSE)[p] = Ok(Rounds(text, FALSE)[p].micros)
<1> DEFINE N == Len(text) + 1
           from == Rounds(text, FALSE)
           S == SumsOf(text)
           Adds(p) == /\ from[p].outcome = "ok" /\ S[p - 1] + from[p].micros = SumOf(text)
                      /\ from[p].micros \in Nat /\ from[p] = Ok(from[p].micros)
           Open == {n \in Nat : n < N /\ Begins(text, N - n) /\ ~Adds(N - n)}
<1>1. Len(text) \in Nat /\ N \in Nat /\ N - 1 = Len(text)
  BY TextIs
<1>2. \A p \in 1..N : from[p] = Unfolded(text, FALSE, from, p)
  BY LoopUnfolds
<1>3. S \in [0..Len(text) -> Nat] /\ SumOf(text) = S[Len(text)]
  BY SumsAdd DEF SumOf
<1> HIDE DEF from, S
<1>4. ASSUME NEW p \in 1..N, Begins(text, p),
             \A q \in p + 1..N : Begins(text, q) => Adds(q)
      PROVE  Adds(p)
  <2> DEFINE round == Round(text, p)
  <2>1. /\ ~round.throws
        /\ round.next \in p..Len(text) + 1
        /\ S[round.next - 1] = S[p - 1] + round.micros
        /\ round.next <= Len(text) => round.next > p /\ Begins(text, round.next)
    BY <1>4, WellFormedRound DEF S
  <2>2. round.micros \in Nat
    BY RoundMoves
  <2> HIDE DEF round
  <2>3. from[p] = IF round.next > Len(text) THEN Ok(round.micros)
                  ELSE IF round.next = p THEN Hangs
                  ELSE IF from[round.next].outcome = "ok"
                       THEN Ok(round.micros + from[round.next].micros) ELSE from[round.next]
    BY <1>2, <2>1 DEF Unfolded, round
  <2>4. p - 1 \in 0..Len(text) /\ round.next - 1 \in 0..Len(text)
    BY <1>1, <2>1
  <2>5. S[p - 1] \in Nat /\ S[round.next - 1] \in Nat
    BY <1>3, <2>4
  <2>6. CASE round.next > Len(text)
    <3>1. from[p] = Ok(round.micros) /\ round.next - 1 = Len(text)
      BY <1>1, <2>1, <2>3, <2>6
    <3> QED
      BY <1>3, <2>1, <2>2, <3>1 DEF Ok
  <2>7. CASE round.next <= Len(text)
    <3>1. Adds(round.next)
      BY <1>1, <1>4, <2>1, <2>7
    <3>2. from[p] = Ok(round.micros + from[round.next].micros)
      BY <1>1, <2>1, <2>3, <2>7, <3>1
    <3>3. /\ round.micros + from[round.next].micros \in Nat
          /\ S[p - 1] + (round.micros + from[round.next].micros) = SumOf(text)
      <4> DEFINE a == S[p - 1]
                 b == S[round.next - 1]
                 c == round.micros
                 d == from[round.next].micros
      <4>1. a \in Nat /\ b \in Nat /\ c \in Nat
        BY <2>2, <2>5
      <4>2. d \in Nat /\ b = a + c /\ b + d = SumOf(text)
        BY <2>1, <3>1
      <4> HIDE DEF a, b, c, d
      <4>3. c + d \in Nat /\ a + (c + d) = SumOf(text)
        BY <4>1, <4>2
      <4> QED
        BY <4>3 DEF a, c, d
    <3>4. from[p].outcome = "ok" /\ from[p].micros = round.micros + from[round.next].micros
      BY <3>2 DEF Ok
    <3> QED
      BY <3>2, <3>3, <3>4
  <2> QED
    BY <1>1, <2>1, <2>6, <2>7
<1> HIDE DEF Adds
<1>5. Open = {}
  <2>1. SUFFICES ASSUME Open # {}
                 PROVE  FALSE
    OBVIOUS
  <2>2. PICK n \in Open : \A m \in Open : n <= m
    BY <2>1, LeastElement
  <2>3. N - n \in 1..N /\ Begins(text, N - n) /\ ~Adds(N - n)
    BY <1>1, <2>2
  <2>4. ASSUME NEW q \in (N - n) + 1..N, Begins(text, q)
        PROVE  Adds(q)
    <3>1. N - q \in Nat /\ N - q < N /\ N - (N - q) = q /\ ~(n <= N - q)
      BY <1>1, <2>2, <2>3
    <3>2. N - q \notin Open
      BY <2>2, <3>1
    <3> QED
      BY <2>4, <3>1, <3>2
  <2> QED
    BY <1>4, <2>3, <2>4
<1>6. ASSUME NEW p \in 1..N, Begins(text, p)
      PROVE  Adds(p)
  <2>1. N - p \in Nat /\ N - p < N /\ N - (N - p) = p
    BY <1>1
  <2> QED
    BY <1>5, <1>6, <2>1
<1> QED
  BY <1>6 DEF Adds, from, S

(* A well-formed text begins with a number. *)
LEMMA WellFormedBegins ==
  ASSUME NEW text \in Seq(Tokens), WellFormed(text)
  PROVE  LET m == SkipBlanks(text, 1)
         IN Begins(text, 1) /\ m \in 1..Len(text) /\ text[m].kind = "number"
<1> DEFINE m == SkipBlanks(text, 1)
<1>1. Len(text) \in Nat /\ DOMAIN text = 1..Len(text) /\ 1 \in 1..Len(text) + 1
  BY TextIs
<1>2. /\ m \in 1..Len(text) + 1 /\ m \in Nat
      /\ m <= Len(text) => text[m].kind # "blank"
      /\ \A r \in 1..m - 1 : r <= Len(text) /\ text[r].kind = "blank"
  BY <1>1, SkipBlanksFinds
<1> HIDE DEF m
<1>3. PICK n \in 1..Len(text) : text[n].kind = "number"
  BY <1>1 DEF WellFormed, Numbers
<1>4. n \notin 1..m - 1
  BY <1>2, <1>3
<1>5. m \in 1..Len(text)
  BY <1>1, <1>2, <1>3, <1>4
<1>6. text[m].kind = "number"
  <2>1. SUFFICES ASSUME text[m].kind # "number"
                 PROVE  FALSE
    OBVIOUS
  <2>2. \E q \in 1..Len(text) : q < m /\ text[q].kind = "number"
    BY <1>1, <1>2, <1>5, <2>1 DEF WellFormed, Numbers
  <2> QED
    BY <1>1, <1>2, <1>5, <2>2
<1> QED
  BY <1>5, <1>6 DEF Begins, m

(* What the loop makes of a text whose only word is its first number. *)
LEMMA LoneNumber ==
  ASSUME NEW text \in Seq(Tokens), NEW strict \in BOOLEAN, NEW m \in 1..Len(text),
         m = SkipBlanks(text, 1), text[m].kind = "number", m = Len(text)
  PROVE  Loop(text, strict) = Ok(text[m].value * Second)
<1>1. Len(text) \in Nat /\ m \in Nat
  BY TextIs
<1>2. SkipBlanks(text, m + 1) = m + 1
  BY <1>1, SkipBlanksIs
<1>3. Is(text, m, {"number"}) /\ ~Is(text, m, {"malformed"}) /\ ~Is(text, m + 1, {"unit", "infinity"})
  BY <1>1 DEF Is
<1>4. /\ ~Round(text, 1).throws /\ Round(text, 1).found
      /\ Round(text, 1).micros = text[m].value * Second /\ Round(text, 1).next = m + 1
  <2> DEFINE found == Is(text, m, {"number"})
             word  == SkipBlanks(text, IF found THEN m + 1 ELSE m)
             named == Is(text, word, {"unit", "infinity"})
  <2>1. Round(text, 1) =
          [throws |-> Is(text, m, {"malformed"}), found |-> found,
           micros |-> IF found THEN text[m].value * (IF named THEN text[word].value ELSE Second) ELSE 0,
           next |-> IF named THEN word + 1 ELSE word]
    BY DEF Round
  <2>2. found /\ word = m + 1
    BY <1>2, <1>3
  <2>3. ~named
    BY <1>3, <2>2
  <2> HIDE DEF found, word, named
  <2> QED
    BY <1>3, <2>1, <2>2, <2>3
<1>5. Rounds(text, strict)[1] = Unfolded(text, strict, Rounds(text, strict), 1)
  BY <1>1, LoopUnfolds
<1>6. m + 1 > Len(text)
  BY <1>1
<1> QED
  BY <1>4, <1>5, <1>6 DEF Unfolded, Loop

(* stod reads the number that a text begins with. *)
LEMMA StodNumber ==
  ASSUME NEW text \in Seq(Tokens), NEW m \in 1..Len(text),
         m = SkipBlanks(text, 1), text[m].kind = "number"
  PROVE  /\ ~Stod(text).throws
         /\ Stod(text).whole <=> m = Len(text)
         /\ Stod(text).micros = text[m].value * Second
<1> DEFINE fails == ~Is(text, m, {"number", "infinity"})
           whole == m = Len(text)
           micros == IF Is(text, m, {"number"}) THEN text[m].value * Second ELSE Forever
<1>1. Stod(text) = [throws |-> fails, whole |-> whole, micros |-> micros]
  BY DEF Stod
<1>2. ~fails /\ micros = text[m].value * Second /\ (whole <=> m = Len(text))
  BY TextIs DEF Is
<1>3. Stod(text).throws = fails /\ Stod(text).whole = whole /\ Stod(text).micros = micros
  <2> HIDE DEF fails, whole, micros
  <2> QED
    BY <1>1
<1> HIDE DEF fails, whole, micros
<1> QED
  BY <1>2, <1>3

(* Well-formed time spans mean to systemctl's RestartSec and to the         *)
(* intervals of a timer what they say, however the blanks are set.         *)
THEOREM WellFormedIsSum ==
  ASSUME NEW text \in Seq(Tokens), WellFormed(text), NEW old
  PROVE  ReadWhole(text, old) = Ok(SumOf(text))
<1> DEFINE m == SkipBlanks(text, 1)
<1>1. Begins(text, 1) /\ m \in 1..Len(text) /\ text[m].kind = "number"
  BY WellFormedBegins
<1>2. Len(text) \in Nat /\ 1 \in 1..Len(text) + 1 /\ 1 - 1 = 0
  BY TextIs
<1>3. ParseDuration(text) = Ok(SumOf(text))
  <2> DEFINE from == Rounds(text, FALSE)
  <2>1. from[1].micros \in Nat /\ from[1] = Ok(from[1].micros) /\ SumsOf(text)[1 - 1] + from[1].micros = SumOf(text)
    BY <1>1, <1>2, LoopAdds
  <2>2. SumsOf(text)[0] = 0
    BY SumsAdd
  <2> HIDE DEF from
  <2>3. from[1].micros = SumOf(text)
    BY <1>2, <2>1, <2>2
  <2> QED
    BY <2>1, <2>3 DEF ParseDuration, Loop, from
<1> HIDE DEF m
<1>4. text # <<Infinity>>
  <2>1. text = <<Infinity>> => m = 1 /\ text[1].kind = "infinity"
    BY <1>1 DEF Infinity
  <2> QED
    BY <1>1, <2>1
<1>5. /\ ~Stod(text).throws
      /\ Stod(text).whole <=> m = Len(text)
      /\ Stod(text).micros = text[m].value * Second
  BY <1>1, StodNumber DEF m
<1>6. CASE m = Len(text)
  <2>1. ParseDuration(text) = Ok(text[m].value * Second)
    BY <1>1, <1>6, LoneNumber DEF ParseDuration, m
  <2> QED
    BY <1>3, <1>4, <1>5, <1>6, <2>1 DEF ReadWhole
<1>7. CASE m # Len(text)
  <2>1. ReadWhole(text, old) =
          Keep(ParseDuration(text), IF Stod(text).throws THEN old ELSE Stod(text).micros)
    BY <1>4, <1>5, <1>7 DEF ReadWhole
  <2> QED
    BY <1>3, <2>1 DEF Keep, Ok
<1> QED
  BY <1>6, <1>7

-----------------------------------------------------------------------------
(***************************************************************************)
(* What systemd-exec accepts, systemctl reads alike.                       *)
(***************************************************************************)

(* t holds the tokens of the text from a to b, and all others are blanks.   *)
IsTrimmed(text, t, a, b) ==
  /\ a \in 1..Len(text) /\ b \in a..Len(text) /\ t \in Seq(Tokens) /\ Len(t) = b - a + 1
  /\ \A i \in 1..b - a + 1 : t[i] = text[a + i - 1]
  /\ text[a].kind # "blank" /\ text[b].kind # "blank"
  /\ \A i \in 1..a - 1 : text[i].kind = "blank"
  /\ \A i \in b + 1..Len(text) : text[i].kind = "blank"

(* Trim takes the blanks before and after the text away. *)
LEMMA TrimKeeps ==
  ASSUME NEW text \in Seq(Tokens), Trim(text) # <<>>
  PROVE  \E a, b \in Nat : IsTrimmed(text, Trim(text), a, b)
<1> DEFINE n == Len(text)
           kept == {p \in DOMAIN text : text[p].kind # "blank"}
           a == CHOOSE p \in kept : \A q \in kept : p <= q
           b == CHOOSE p \in kept : \A q \in kept : q <= p
<1>1. n \in Nat /\ DOMAIN text = 1..n
  BY TextIs
<1>2. kept # {} /\ kept \subseteq 1..n /\ kept \in SUBSET Nat
  <2>1. kept \subseteq 1..n
    BY <1>1
  <2>2. Trim(text) = IF kept = {} THEN <<>> ELSE SubSeq(text, a, b)
    BY DEF Trim
  <2> HIDE DEF kept, a, b
  <2> QED
    BY <1>1, <2>1, <2>2
<1>3. \E p \in kept : \A q \in kept : p <= q
  <2> HIDE DEF kept
  <2> QED
    BY <1>2, LeastElement
<1>4. \E p \in kept : \A q \in kept : q <= p
  <2> DEFINE rest == {i \in Nat : i <= n /\ n - i \in kept}
  <2>1. PICK p \in kept : TRUE
    BY <1>2
  <2>2. n - p \in rest
    <3>1. p \in 1..n
      BY <1>2
    <3> HIDE DEF kept
    <3>2. n - p \in Nat /\ n - (n - p) = p /\ n - p <= n
      BY <1>1, <3>1
    <3> QED
      BY <2>1, <3>2
  <2>3. PICK i \in rest : \A j \in rest : i <= j
    BY <2>2, LeastElement
  <2> HIDE DEF kept
  <2>4. ASSUME NEW q \in kept
        PROVE  q <= n - i
    <3>1. q \in 1..n /\ n - q \in Nat /\ n - (n - q) = q /\ n - q <= n
      BY <1>1, <1>2
    <3>2. n - q \in rest
      BY <3>1
    <3>3. i \in Nat /\ i <= n - q
      BY <2>3, <3>2
    <3> HIDE DEF rest, n
    <3> QED
      BY <1>1, <3>1, <3>3
  <2> QED
    BY <2>3, <2>4
<1>5. a \in kept /\ \A q \in kept : a <= q
  <2> HIDE DEF kept
  <2> QED
    BY <1>3
<1>6. b \in kept /\ \A q \in kept : q <= b
  <2> HIDE DEF kept
  <2> QED
    BY <1>4
<1>7. Trim(text) = SubSeq(text, a, b)
  <2>1. Trim(text) = IF kept = {} THEN <<>> ELSE SubSeq(text, a, b)
    BY DEF Trim
  <2> HIDE DEF kept, a, b
  <2> QED
    BY <1>2, <2>1
<1> HIDE DEF a, b
<1>8. a \in 1..n /\ b \in 1..n /\ a <= b /\ text[a].kind # "blank" /\ text[b].kind # "blank"
  BY <1>1, <1>5, <1>6
<1>9. (\A i \in 1..a - 1 : text[i].kind = "blank") /\ (\A i \in b + 1..n : text[i].kind = "blank")
  BY <1>1, <1>5, <1>6, <1>8
<1>10. /\ SubSeq(text, a, b) \in Seq(Tokens) /\ Len(SubSeq(text, a, b)) = b - a + 1
       /\ \A i \in 1..b - a + 1 : SubSeq(text, a, b)[i] = text[a + i - 1]
  <2> HIDE DEF kept
  <2> QED
    BY <1>1, <1>8, SubSeqProperties
<1> HIDE DEF kept
<1>11. IsTrimmed(text, Trim(text), a, b)
  BY <1>1, <1>7, <1>8, <1>9, <1>10 DEF IsTrimmed
<1>12. a \in Nat /\ b \in Nat
  BY <1>1, <1>8
<1> HIDE DEF n
<1> QED
  BY <1>11, <1>12

(* In the trimmed text the same tokens come next. *)
LEMMA TrimmedSkip ==
  ASSUME NEW text \in Seq(Tokens), NEW t, NEW a, NEW b, IsTrimmed(text, t, a, b), NEW p \in 1..Len(t)
  PROVE  /\ SkipBlanks(t, p) \in p..Len(t)
         /\ SkipBlanks(text, p + a - 1) = SkipBlanks(t, p) + a - 1
<1> DEFINE q == SkipBlanks(t, p)
<1>1. /\ Len(text) \in Nat /\ a \in 1..Len(text) /\ b \in a..Len(text)
      /\ t \in Seq(Tokens) /\ Len(t) = b - a + 1 /\ Len(t) \in Nat
      /\ \A i \in 1..b - a + 1 : t[i] = text[a + i - 1]
      /\ t[Len(t)].kind # "blank"
  <2>1. Len(text) \in Nat
    BY TextIs
  <2>2. a + (b - a + 1) - 1 = b /\ b - a + 1 \in 1..b - a + 1 /\ b - a + 1 \in Nat
    BY <2>1 DEF IsTrimmed
  <2> QED
    BY <2>1, <2>2 DEF IsTrimmed
<1>2. /\ q \in p..Len(t) + 1 /\ q \in Nat
      /\ q <= Len(t) => t[q].kind # "blank"
      /\ \A r \in p..q - 1 : r <= Len(t) /\ t[r].kind = "blank"
  <2>1. p \in 1..Len(t) + 1
    BY <1>1
  <2> QED
    BY <1>1, <2>1, SkipBlanksFinds
<1> HIDE DEF q
<1>3. q \in p..Len(t)
  <2>1. q = Len(t) + 1 => Len(t) \in p..q - 1
    BY <1>1
  <2> QED
    BY <1>1, <1>2, <2>1
<1>4. text[q + a - 1].kind # "blank" /\ q + a - 1 <= Len(text)
  <2>1. t[q] = text[a + q - 1] /\ a + q - 1 = q + a - 1
    BY <1>1, <1>3
  <2> QED
    BY <1>1, <1>2, <1>3, <2>1
<1>5. ASSUME NEW r \in p + a - 1..(q + a - 1) - 1
      PROVE  text[r].kind = "blank"
  <2>1. r - a + 1 \in p..q - 1 /\ r - a + 1 \in 1..b - a + 1 /\ a + (r - a + 1) - 1 = r
    BY <1>1, <1>3
  <2> QED
    BY <1>1, <1>2, <2>1
<1>6. p + a - 1 \in 1..Len(text) + 1 /\ q + a - 1 \in p + a - 1..Len(text) + 1
  BY <1>1, <1>3
<1>7. SkipBlanks(text, p + a - 1) = q + a - 1
  BY <1>4, <1>5, <1>6, SkipBlanksIs
<1> QED
  BY <1>3, <1>7 DEF q

(* After the trimmed text there are only blanks, which the loop passes over. *)
LEMMA TrimmedEnd ==
  ASSUME NEW text \in Seq(Tokens), NEW t, NEW a, NEW b, IsTrimmed(text, t, a, b)
  PROVE  /\ SkipBlanks(text, b + 1) = Len(text) + 1
         /\ SkipBlanks(t, Len(t) + 1) = Len(t) + 1
         /\ SkipBlanks(text, 1) = a /\ SkipBlanks(text, a) = a
<1> DEFINE e == Len(text) + 1
<1>1. /\ Len(text) \in Nat /\ a \in 1..Len(text) /\ b \in a..Len(text)
      /\ t \in Seq(Tokens) /\ Len(t) \in Nat /\ e \in Nat
      /\ text[a].kind # "blank"
      /\ \A i \in 1..a - 1 : text[i].kind = "blank"
      /\ \A i \in b + 1..Len(text) : text[i].kind = "blank"
  BY TextIs DEF IsTrimmed
<1>2. SkipBlanks(text, b + 1) = e /\ SkipBlanks(text, e) = e
  <2>1. b + 1 \in 1..Len(text) + 1 /\ e \in b + 1..Len(text) + 1 /\ e \in e..Len(text) + 1 /\ e \in 1..Len(text) + 1
    BY <1>1
  <2>2. ~(e <= Len(text)) /\ e - 1 = Len(text) /\ \A r \in e..e - 1 : FALSE
    BY <1>1
  <2> HIDE DEF e
  <2> QED
    BY <1>1, <2>1, <2>2, SkipBlanksIs
<1>3. SkipBlanks(t, Len(t) + 1) = Len(t) + 1
  BY <1>1, SkipBlanksIs
<1>4. SkipBlanks(text, 1) = a /\ SkipBlanks(text, a) = a
  <2>1. a \in 1..Len(text) + 1 /\ a \in a..Len(text) + 1 /\ 1 \in 1..Len(text) + 1 /\ \A r \in a..a - 1 : FALSE
    BY <1>1
  <2> QED
    BY <1>1, <2>1, SkipBlanksIs
<1> QED
  BY <1>2, <1>3, <1>4 DEF e

(* A round with nothing but blanks left ends the loop. *)
LEMMA RestIsZero ==
  ASSUME NEW text \in Seq(Tokens), NEW p \in 1..Len(text) + 1, SkipBlanks(text, p) = Len(text) + 1
  PROVE  Rounds(text, FALSE)[p] = Ok(0)
<1> DEFINE e == Len(text) + 1
<1>1. Len(text) \in Nat /\ e \in Nat /\ e > Len(text) /\ e \in 1..Len(text) + 1
  BY TextIs
<1>2. Rounds(text, FALSE)[p] = Unfolded(text, FALSE, Rounds(text, FALSE), p)
  BY LoopUnfolds
<1>3. \A kinds : ~Is(text, e, kinds)
  BY <1>1 DEF Is
<1>4. SkipBlanks(text, e) = e
  <2>1. SkipBlanks(text, e) \in e..Len(text) + 1
    BY <1>1, SkipBlanksFinds
  <2> QED
    BY <1>1, <2>1
<1>5. SkipBlanks(text, p) = e
  OBVIOUS
<1> HIDE DEF e
<1>6. /\ ~Round(text, p).throws
      /\ Round(text, p).micros = 0 /\ Round(text, p).next = e
  BY <1>3, <1>4, <1>5 DEF Round
<1> QED
  BY <1>1, <1>2, <1>6 DEF Unfolded

(* A round is the same in the trimmed text, up to the blanks at the end.    *)
LEMMA TrimmedRound ==
  ASSUME NEW text \in Seq(Tokens), NEW t, NEW a, NEW b, IsTrimmed(text, t, a, b),
         NEW p \in 1..Len(t), ~Round(t, p).throws, Round(t, p).found
  PROVE  LET inner == Round(t, p)
             outer == Round(text, p + a - 1)
         IN /\ ~outer.throws /\ outer.micros = inner.micros
            /\ inner.next <= Len(t) => outer.next = inner.next + a - 1
            /\ inner.next > Len(t) => outer.next \in {b + 1, Len(text) + 1}
<1> DEFINE m == SkipBlanks(t, p)
           w == SkipBlanks(t, m + 1)
           named == Is(t, w, {"unit", "infinity"})
           M == SkipBlanks(text, p + a - 1)
           W == SkipBlanks(text, M + 1)
           Named == Is(text, W, {"unit", "infinity"})
<1>1. /\ Len(text) \in Nat /\ a \in 1..Len(text) /\ b \in a..Len(text)
      /\ t \in Seq(Tokens) /\ Len(t) = b - a + 1 /\ Len(t) \in Nat
  BY TextIs DEF IsTrimmed
<1>2. ASSUME NEW i \in 1..Len(t), NEW kinds
      PROVE  Is(text, i + a - 1, kinds) <=> Is(t, i, kinds)
  <2>1. t[i] = text[a + i - 1] /\ a + i - 1 = i + a - 1
    BY <1>1 DEF IsTrimmed
  <2>2. i + a - 1 <= Len(text) /\ i <= Len(t)
    BY <1>1
  <2> QED
    BY <2>1, <2>2 DEF Is
<1>3. m \in p..Len(t) /\ M = m + a - 1
  BY TrimmedSkip
<1>4. Is(t, m, {"number"}) /\ Round(t, p).micros = t[m].value * (IF named THEN t[w].value ELSE Second)
      /\ Round(t, p).next = IF named THEN w + 1 ELSE w
  <2> DEFINE found == Is(t, m, {"number"})
             word  == SkipBlanks(t, IF found THEN m + 1 ELSE m)
             name  == Is(t, word, {"unit", "infinity"})
             micros == IF found THEN t[m].value * (IF name THEN t[word].value ELSE Second) ELSE 0
  <2>1. Round(t, p) = [throws |-> Is(t, m, {"malformed"}), found |-> found, micros |-> micros,
                       next |-> IF name THEN word + 1 ELSE word]
    BY DEF Round
  <2>2. found
    <3> HIDE DEF found, word, name, micros
    <3> QED
      BY <2>1
  <2>3. word = w /\ (name <=> named)
    BY <2>2
  <2>4. micros = t[m].value * (IF name THEN t[word].value ELSE Second)
    BY <2>2
  <2> HIDE DEF found, word, name, micros, w, named
  <2> QED
    BY <2>1, <2>2, <2>3, <2>4 DEF found
<1>5. Is(text, M, {"number"}) /\ ~Is(text, M, {"malformed"})
  <2>1. ~Is(t, m, {"malformed"})
    BY <1>4 DEF Is
  <2> HIDE DEF m, M
  <2>2. m \in 1..Len(t)
    BY <1>1, <1>3
  <2> QED
    BY <1>2, <1>3, <1>4, <2>1, <2>2
<1>6. /\ ~Round(text, p + a - 1).throws
      /\ Round(text, p + a - 1).micros = text[M].value * (IF Named THEN text[W].value ELSE Second)
      /\ Round(text, p + a - 1).next = IF Named THEN W + 1 ELSE W
  <2> DEFINE found == Is(text, M, {"number"})
             bad   == Is(text, M, {"malformed"})
             word  == SkipBlanks(text, IF found THEN M + 1 ELSE M)
             name  == Is(text, word, {"unit", "infinity"})
             micros == IF found THEN text[M].value * (IF name THEN text[word].value ELSE Second) ELSE 0
  <2>1. Round(text, p + a - 1) = [throws |-> bad, found |-> found, micros |-> micros,
                       next |-> IF name THEN word + 1 ELSE word]
    BY DEF Round
  <2>2. found /\ ~bad
    BY <1>5
  <2>3. word = W /\ (name <=> Named)
    BY <2>2
  <2>4. micros = text[M].value * (IF name THEN text[word].value ELSE Second)
    BY <2>2
  <2> HIDE DEF found, bad, word, name, micros, W, Named
  <2> QED
    BY <2>1, <2>2, <2>3, <2>4
<1>7. text[M].value = t[m].value
  <2>1. m \in 1..Len(t) /\ M = a + m - 1
    BY <1>1, <1>3
  <2> HIDE DEF m, M
  <2>2. t[m] = text[a + m - 1]
    BY <2>1 DEF IsTrimmed
  <2> QED
    BY <2>1, <2>2
<1> HIDE DEF m, M
<1>8. CASE m = Len(t)
  <2>1. M = b /\ w = Len(t) + 1 /\ W = Len(text) + 1
    <3>1. M = b
      BY <1>1, <1>3, <1>8
    <3>2. SkipBlanks(text, b + 1) = Len(text) + 1 /\ SkipBlanks(t, Len(t) + 1) = Len(t) + 1
      BY TrimmedEnd
    <3>3. w = SkipBlanks(t, Len(t) + 1) /\ W = SkipBlanks(text, b + 1)
      BY <1>8, <3>1
    <3> QED
      BY <3>1, <3>2, <3>3
  <2>2. ~named /\ ~Named
    BY <1>1, <2>1 DEF Is
  <2>3. Round(t, p).next = Len(t) + 1 /\ Round(text, p + a - 1).next = Len(text) + 1
        /\ Round(t, p).micros = t[m].value * Second /\ Round(text, p + a - 1).micros = text[M].value * Second
    BY <1>4, <1>6, <2>1, <2>2
  <2> QED
    BY <1>1, <1>6, <1>7, <2>3
<1>9. CASE m # Len(t)
  <2>1. m + 1 \in 1..Len(t) /\ M + 1 = (m + 1) + a - 1
    BY <1>1, <1>3, <1>9
  <2>2. w \in m + 1..Len(t) /\ W = w + a - 1
    BY <2>1, TrimmedSkip
  <2> HIDE DEF w, W
  <2>3. w \in 1..Len(t) /\ (named <=> Named) /\ text[W] = t[w]
    <3>1. w \in 1..Len(t) /\ W = a + w - 1
      BY <1>1, <2>1, <2>2
    <3> QED
      BY <1>1, <1>2, <2>2, <3>1 DEF IsTrimmed
  <2> HIDE DEF named, Named
  <2>4. Round(t, p).micros = Round(text, p + a - 1).micros
    BY <1>4, <1>6, <1>7, <2>3
  <2>5. Round(text, p + a - 1).next = Round(t, p).next + a - 1
    BY <1>1, <1>4, <1>6, <2>2, <2>3
  <2>6. Round(t, p).next \in 1..Len(t) + 1
    BY <1>1, <1>4, <2>3
  <2>7. Round(t, p).next > Len(t) => Round(text, p + a - 1).next = b + 1
    BY <1>1, <2>5, <2>6
  <2> QED
    BY <1>6, <2>4, <2>5, <2>7
<1> QED
  BY <1>8, <1>9

(* From each place on: what the loop of systemd-exec accepts of the trimmed *)
(* text, the loop of systemctl reads as the same time.                      *)
LEMMA LoopsAgree ==
  ASSUME NEW text \in Seq(Tokens), NEW t, NEW a, NEW b, IsTrimmed(text, t, a, b)
  PROVE  \A p \in 1..Len(t) :
           Rounds(t, TRUE)[p].outcome = "ok" => Rounds(text, FALSE)[p + a - 1] = Rounds(t, TRUE)[p]
<1> DEFINE N == Len(t)
           inner == Rounds(t, TRUE)
           outer == Rounds(text, FALSE)
           Agree(p) == inner[p].outcome = "ok" => outer[p + a - 1] = inner[p]
           Open == {n \in Nat : n < N /\ ~Agree(N - n)}
<1>1. /\ Len(text) \in Nat /\ a \in 1..Len(text) /\ b \in a..Len(text)
      /\ t \in Seq(Tokens) /\ N = b - a + 1 /\ N \in Nat
  BY TextIs DEF IsTrimmed
<1>2. \A p \in 1..N + 1 : inner[p] = Unfolded(t, TRUE, inner, p)
  BY <1>1, LoopUnfolds
<1>3. \A p \in 1..Len(text) + 1 : outer[p] = Unfolded(text, FALSE, outer, p)
  BY LoopUnfolds
<1>4. outer[b + 1] = Ok(0)
  <2>1. SkipBlanks(text, b + 1) = Len(text) + 1
    BY TrimmedEnd
  <2>2. b + 1 \in 1..Len(text) + 1
    BY <1>1
  <2> QED
    BY <2>1, <2>2, RestIsZero
<1> HIDE DEF inner, outer
<1>5. ASSUME NEW p \in 1..N, \A q \in p + 1..N : Agree(q), inner[p].outcome = "ok"
      PROVE  outer[p + a - 1] = inner[p]
  <2> DEFINE r == Round(t, p)
             R == Round(text, p + a - 1)
             P == p + a - 1
  <2>1. p \in 1..N + 1 /\ P \in 1..Len(text) + 1 /\ P <= b /\ P \in Nat
    BY <1>1
  <2>2. inner[p] = Unfolded(t, TRUE, inner, p) /\ outer[P] = Unfolded(text, FALSE, outer, P)
    BY <1>2, <1>3, <2>1
  <2>3. ~r.throws /\ r.found
    BY <1>5, <2>2 DEF Unfolded, Fails
  <2>4. r.next > p /\ r.next \in p..N + 1 /\ r.micros \in Nat
    BY <1>1, <2>1, <2>3, RoundMoves
  <2>5. /\ ~R.throws /\ R.micros = r.micros
        /\ r.next <= N => R.next = r.next + a - 1
        /\ r.next > N => R.next \in {b + 1, Len(text) + 1}
    BY <2>3, TrimmedRound
  <2> HIDE DEF r, R, P
  <2>6. inner[p] = IF r.next > N THEN Ok(r.micros)
                   ELSE IF inner[r.next].outcome = "ok" THEN Ok(r.micros + inner[r.next].micros) ELSE inner[r.next]
    BY <1>1, <2>2, <2>3, <2>4 DEF Unfolded, r
  <2>7. outer[P] = IF R.next > Len(text) THEN Ok(R.micros)
                   ELSE IF R.next = P THEN Hangs
                   ELSE IF outer[R.next].outcome = "ok" THEN Ok(R.micros + outer[R.next].micros) ELSE outer[R.next]
    BY <2>2, <2>5 DEF Unfolded, R, P
  <2>8. CASE r.next > N
    <3>1. inner[p] = Ok(r.micros)
      BY <2>6, <2>8
    <3>2. CASE R.next > Len(text)
      BY <2>5, <2>7, <3>1, <3>2 DEF P
    <3>3. CASE ~(R.next > Len(text))
      <4>1. R.next = b + 1 /\ R.next # P
        BY <1>1, <2>1, <2>5, <2>8, <3>3
      <4>2. outer[P] = Ok(r.micros + 0)
        BY <1>4, <2>5, <2>7, <3>3, <4>1 DEF Ok
      <4> QED
        BY <2>4, <3>1, <4>2 DEF P
    <3> QED
      BY <3>2, <3>3
  <2>9. CASE ~(r.next > N)
    <3>1. r.next \in p + 1..N /\ R.next = r.next + a - 1
      BY <1>1, <2>4, <2>5, <2>9
    <3>2. inner[r.next].outcome = "ok"
      BY <1>5, <2>6, <2>9
    <3>3. outer[R.next] = inner[r.next]
      BY <1>5, <3>1, <3>2
    <3>4. ~(R.next > Len(text)) /\ R.next # P
      BY <1>1, <2>4, <3>1 DEF P
    <3> QED
      BY <2>5, <2>6, <2>7, <2>9, <3>2, <3>3, <3>4 DEF P
  <2> QED
    BY <2>8, <2>9
<1> HIDE DEF SameValues
<1>6. Open = {}
  <2>1. SUFFICES ASSUME Open # {}
                 PROVE  FALSE
    OBVIOUS
  <2>2. PICK n \in Open : \A m \in Open : n <= m
    BY <2>1, LeastElement
  <2> HIDE DEF N
  <2>3. N - n \in 1..N /\ ~Agree(N - n)
    BY <1>1, <2>2
  <2>4. ASSUME NEW q \in (N - n) + 1..N
        PROVE  Agree(q)
    <3>1. N - q \in Nat /\ N - q < N /\ N - (N - q) = q /\ ~(n <= N - q)
      BY <1>1, <2>2, <2>3
    <3>2. N - q \notin Open
      BY <2>2, <3>1
    <3> QED
      BY <2>4, <3>1, <3>2
  <2> QED
    BY <1>5, <2>3, <2>4 DEF SameValues
<1>7. ASSUME NEW p \in 1..N
      PROVE  Agree(p)
  <2>1. N - p \in Nat /\ N - p < N /\ N - (N - p) = p
    BY <1>1
  <2> QED
    BY <1>6, <2>1
<1> QED
  BY <1>7 DEF Agree, inner, outer

LEMMA RoundFound ==
  ASSUME NEW text, NEW p
  PROVE  Round(text, p).found = Is(text, SkipBlanks(text, p), {"number"})
BY DEF Round

(* What systemd-exec accepts begins with a number. *)
LEMMA AcceptedBegins ==
  ASSUME NEW text \in Seq(Tokens), string_duration_to_millis(Trim(text)).outcome = "ok"
  PROVE  \E a, b \in Nat :
           /\ IsTrimmed(text, Trim(text), a, b) /\ text[a].kind = "number"
           /\ ~Round(Trim(text), 1).throws /\ Round(Trim(text), 1).found
<1> DEFINE t == Trim(text)
<1>1. Loop(t, TRUE).outcome = "ok" /\ Loop(t, TRUE) = Rounds(t, TRUE)[1]
  BY DEF string_duration_to_millis, Loop
<1>2. ASSUME t \in Seq(Tokens)
      PROVE  ~Round(t, 1).throws /\ Round(t, 1).found
  <2>1. Rounds(t, TRUE)[1] = Unfolded(t, TRUE, Rounds(t, TRUE), 1)
    <3>1. 1 \in 1..Len(t) + 1
      BY <1>2, TextIs
    <3> HIDE DEF t
    <3> QED
      BY <1>2, <3>1, LoopUnfolds
  <2> HIDE DEF t
  <2>2. Unfolded(t, TRUE, Rounds(t, TRUE), 1) # Fails
    <3> DEFINE first == Rounds(t, TRUE)[1]
               u == Unfolded(t, TRUE, Rounds(t, TRUE), 1)
    <3>1. first.outcome = "ok" /\ first = u
      BY <1>1, <2>1
    <3> HIDE DEF first, u
    <3>2. u # Fails
      BY <3>1 DEF Fails
    <3> QED
      BY <3>2 DEF u
  <2> QED
    BY <2>2 DEF Unfolded
<1>3. t # <<>>
  <2>1. SUFFICES ASSUME t = <<>>
                 PROVE  FALSE
    OBVIOUS
  <2>2. t \in Seq(Tokens) /\ Len(t) = 0
    BY <2>1
  <2>3. Is(t, SkipBlanks(t, 1), {"number"})
    BY <1>2, <2>2, RoundFound
  <2>4. SkipBlanks(t, 1) \in 1..Len(t) + 1
    <3>1. 1 \in 1..Len(t) + 1
      BY <2>2
    <3> HIDE DEF t
    <3> QED
      BY <2>2, <3>1, SkipBlanksFinds
  <2> QED
    BY <2>2, <2>3, <2>4 DEF Is
<1>4. PICK a, b \in Nat : IsTrimmed(text, t, a, b)
  BY <1>3, TrimKeeps
<1>5. /\ Len(text) \in Nat /\ a \in 1..Len(text) /\ b \in a..Len(text)
      /\ t \in Seq(Tokens) /\ Len(t) = b - a + 1 /\ 1 \in 1..Len(t)
      /\ t[1] = text[a + 1 - 1] /\ a + 1 - 1 = a
  BY <1>4, TextIs DEF IsTrimmed
<1> HIDE DEF t
<1>6. SkipBlanks(t, 1) = 1
  <2>1. SkipBlanks(t, 1) \in 1..Len(t) /\ SkipBlanks(text, 1 + a - 1) = SkipBlanks(t, 1) + a - 1
    BY <1>4, <1>5, TrimmedSkip
  <2>2. SkipBlanks(text, a) = a
    BY <1>4, TrimmedEnd
  <2>3. 1 + a - 1 = a
    BY <1>5
  <2> QED
    BY <1>5, <2>1, <2>2, <2>3
<1>7. ~Round(t, 1).throws /\ Round(t, 1).found
  BY <1>2, <1>5
<1>8. Is(t, 1, {"number"})
  BY <1>6, <1>7, RoundFound
<1>9. text[a].kind = "number"
  BY <1>5, <1>8 DEF Is
<1> QED
  BY <1>4, <1>7, <1>9 DEF t

(* Each text that the loop of systemd-exec accepts is a time to systemctl's *)
(* loop, and the same time, whatever blanks are around it.                  *)
LEMMA AcceptedParses ==
  ASSUME NEW text \in Seq(Tokens), string_duration_to_millis(Trim(text)).outcome = "ok"
  PROVE  ParseDuration(text) = string_duration_to_millis(Trim(text))
<1> DEFINE t == Trim(text)
           from == Rounds(text, FALSE)
<1>1. PICK a, b \in Nat : IsTrimmed(text, t, a, b) /\ text[a].kind = "number"
  BY AcceptedBegins
<1>2. /\ Len(text) \in Nat /\ a \in 1..Len(text) /\ a \in 1..Len(text) + 1 /\ 1 \in 1..Len(text) + 1
      /\ 1 \in 1..Len(t) /\ 1 + a - 1 = a
  BY <1>1, TextIs DEF IsTrimmed
<1>3. Loop(t, TRUE).outcome = "ok" /\ Loop(t, TRUE) = Rounds(t, TRUE)[1]
  BY DEF string_duration_to_millis, Loop
<1> HIDE DEF t
<1>4. from[1 + a - 1] = Rounds(t, TRUE)[1]
  <2>1. \A p \in 1..Len(t) :
           Rounds(t, TRUE)[p].outcome = "ok" => from[p + a - 1] = Rounds(t, TRUE)[p]
    BY <1>1, LoopsAgree
  <2> HIDE DEF from
  <2> QED
    BY <1>2, <1>3, <2>1
<1>5. SkipBlanks(text, 1) = a /\ SkipBlanks(text, a) = a
  BY <1>1, TrimmedEnd
<1>6. Round(text, 1) = Round(text, a)
  BY <1>5 DEF Round
<1>7. Round(text, a).next > a
  <2>1. Is(text, a, {"number"})
    BY <1>1, <1>2 DEF Is
  <2>2. Round(text, a).found
    BY <1>5, <2>1, RoundFound
  <2> QED
    BY <1>2, <2>2, RoundMoves
<1>8. from[1] = Unfolded(text, FALSE, from, 1) /\ from[a] = Unfolded(text, FALSE, from, a)
  BY <1>2, LoopUnfolds
<1>9. Round(text, a).next \in a..Len(text) + 1
  BY <1>2, RoundMoves
<1> HIDE DEF from
<1>10. from[1] = from[a]
  BY <1>2, <1>6, <1>7, <1>8, <1>9 DEF Unfolded
<1> QED
  BY <1>2, <1>3, <1>4, <1>10 DEF ParseDuration, string_duration_to_millis, Loop, t, from

(* The RestartSec that systemd-exec accepts is the one systemctl has: for   *)
(* every text, although each of the two accepts texts the other refuses.    *)
THEOREM AcceptedIsRead ==
  ASSUME NEW text \in Seq(Tokens), NEW old, string_duration_to_millis(Trim(text)).outcome = "ok"
  PROVE  ReadWhole(text, old) = string_duration_to_millis(Trim(text))
<1> DEFINE t == Trim(text)
<1>1. PICK a, b \in Nat : IsTrimmed(text, t, a, b) /\ text[a].kind = "number"
  BY AcceptedBegins
<1>2. /\ Len(text) \in Nat /\ a \in 1..Len(text) /\ b \in a..Len(text) /\ Len(t) = b - a + 1
      /\ t[1] = text[a + 1 - 1] /\ a + 1 - 1 = a /\ t \in Seq(Tokens)
  BY <1>1, TextIs DEF IsTrimmed
<1>3. SkipBlanks(text, 1) = a
  BY <1>1, TrimmedEnd
<1>4. ParseDuration(text) = string_duration_to_millis(t)
  BY AcceptedParses
<1>5. /\ ~Stod(text).throws
      /\ Stod(text).whole <=> a = Len(text)
      /\ Stod(text).micros = text[a].value * Second
  BY <1>1, <1>2, <1>3, StodNumber
<1>6. text # <<Infinity>>
  <2>1. text = <<Infinity>> => a = 1 /\ text[1].kind = "infinity"
    BY <1>2 DEF Infinity
  <2> QED
    BY <1>1, <2>1
<1> HIDE DEF t
<1>7. CASE a = Len(text)
  <2>1. ReadWhole(text, old) = Ok(text[a].value * Second)
    BY <1>5, <1>6, <1>7 DEF ReadWhole
  <2>2. ParseDuration(text) = Ok(text[a].value * Second)
    BY <1>1, <1>2, <1>3, <1>7, LoneNumber DEF ParseDuration
  <2> QED
    BY <1>4, <2>1, <2>2 DEF t
<1>8. CASE a # Len(text)
  <2>1. ReadWhole(text, old) =
          Keep(ParseDuration(text), IF Stod(text).throws THEN old ELSE Stod(text).micros)
    BY <1>5, <1>6, <1>8 DEF ReadWhole
  <2>2. ParseDuration(text).outcome = "ok"
    BY <1>4 DEF t
  <2> QED
    BY <1>4, <2>1, <2>2 DEF Keep, t
<1> QED
  BY <1>7, <1>8

(* Of a text with one number, the readers that take a leading number make  *)
(* the same time as systemd-exec.                                          *)
THEOREM OneNumberIsRead ==
  ASSUME NEW text \in Seq(Tokens), NEW old, OneNumber(text),
         string_duration_to_millis(Trim(text)).outcome = "ok"
  PROVE  /\ ReadLeading(text, old) = string_duration_to_millis(Trim(text))
         /\ ReadNumber(text, old) = string_duration_to_millis(Trim(text))
<1> DEFINE t == Trim(text)
<1>1. PICK a, b \in Nat : IsTrimmed(text, t, a, b) /\ text[a].kind = "number"
  BY AcceptedBegins
<1>2. /\ Len(text) \in Nat /\ a \in 1..Len(text) /\ b \in a..Len(text) /\ Len(t) = b - a + 1
      /\ t[1] = text[a + 1 - 1] /\ a + 1 - 1 = a /\ t \in Seq(Tokens) /\ DOMAIN text = 1..Len(text)
      /\ text[b].kind # "blank"
  BY <1>1, TextIs DEF IsTrimmed
<1>3. SkipBlanks(text, 1) = a
  BY <1>1, TrimmedEnd
<1>4. /\ ~Stod(text).throws
      /\ Stod(text).micros = text[a].value * Second
  BY <1>1, <1>2, <1>3, StodNumber
<1>5. text # <<Infinity>>
  <2>1. text = <<Infinity>> => a = 1 /\ text[1].kind = "infinity"
    BY <1>2 DEF Infinity
  <2> QED
    BY <1>1, <2>1
<1> HIDE DEF t
<1>6. Len(t) = 1 /\ t[1] = text[a]
  <2>1. b \in DOMAIN text /\ a \in DOMAIN text
    BY <1>2
  <2>2. text[b].kind = "number"
    BY <1>2, <2>1 DEF OneNumber
  <2>3. a = b
    BY <1>1, <2>1, <2>2 DEF OneNumber, Numbers
  <2> QED
    BY <1>2, <2>3
<1>7. string_duration_to_millis(t) = Ok(text[a].value * Second)
  <2>1. SkipBlanks(t, 1) = 1
    <3>1. 1 \in 1..Len(t) + 1 /\ 1 \in 1..Len(t)
      BY <1>6
    <3>2. SkipBlanks(t, 1) \in 1..Len(t)
      BY <1>1, <3>1, TrimmedSkip
    <3> QED
      BY <1>6, <3>2
  <2>2. 1 \in 1..Len(t) /\ 1 = Len(t) /\ t[1].kind = "number" /\ 1 = SkipBlanks(t, 1)
    BY <1>1, <1>6, <2>1
  <2>3. Loop(t, TRUE) = Ok(t[1].value * Second)
    BY <1>2, <2>2, LoneNumber
  <2> QED
    BY <1>6, <2>3 DEF string_duration_to_millis
<1> QED
  BY <1>4, <1>5, <1>7 DEF ReadLeading, ReadNumber, t

LEMMA ParsesToResult ==
  ASSUME NEW text \in Seq(Tokens)
  PROVE  /\ ParseDuration(text).outcome \in {"ok", "fails", "hangs"}
         /\ ParseDuration(text).micros \in Nat
         /\ ParseDuration(text) = [outcome |-> ParseDuration(text).outcome, micros |-> ParseDuration(text).micros]
         /\ Stod(text).micros \in Nat \cup {Forever}
<1>1. ParseDuration(text) \in Results
  <2>1. 1 \in 1..Len(text) + 1
    BY TextIs
  <2>2. Rounds(text, FALSE) \in [1..Len(text) + 1 -> Results]
    BY LoopUnfolds
  <2> QED
    BY <2>1, <2>2 DEF ParseDuration, Loop
<1>2. Stod(text).micros \in Nat \cup {Forever}
  <2> DEFINE p == SkipBlanks(text, 1)
  <2>1. Is(text, p, {"number"}) => text[p].value \in Nat
    <3>1. 1 \in 1..Len(text) + 1 /\ Len(text) \in Nat
      BY TextIs
    <3>2. p \in 1..Len(text) + 1
      BY <3>1, SkipBlanksFinds
    <3> HIDE DEF p
    <3> QED
      BY <3>1, <3>2, TextIs DEF Is
  <2>2. \A n \in Nat : n * Second \in Nat
    BY DEF Second, Millisecond
  <2>3. Stod(text).micros = IF Is(text, p, {"number"}) THEN text[p].value * Second ELSE Forever
    BY DEF Stod
  <2> QED
    BY <2>1, <2>2, <2>3
<1> QED
  BY <1>1, <1>2 DEF Results

(* The readers give a time, keep the old one, or hang; and reading a text   *)
(* again over its own result changes nothing.                              *)
LEMMA ReadersRead ==
  ASSUME NEW text \in Seq(Tokens), NEW M, Nat \subseteq M, Forever \in M, NEW old \in M
  PROVE  /\ ReadWhole(text, old).micros \in M /\ ReadWhole(text, old).outcome \in {"ok", "hangs"}
         /\ ReadLeading(text, old).micros \in M /\ ReadLeading(text, old).outcome \in {"ok", "hangs"}
         /\ ReadNumber(text, old).micros \in M /\ ReadNumber(text, old).outcome = "ok"
         /\ ReadWhole(text, old).outcome # "hangs" =>
              ReadWhole(text, ReadWhole(text, old).micros) = Ok(ReadWhole(text, old).micros)
         /\ ReadLeading(text, old).outcome # "hangs" =>
              ReadLeading(text, ReadLeading(text, old).micros) = Ok(ReadLeading(text, old).micros)
         /\ ReadNumber(text, ReadNumber(text, old).micros) = Ok(ReadNumber(text, old).micros)
<1> DEFINE parsed == ParseDuration(text)
           number == Stod(text)
<1>1. /\ parsed.outcome \in {"ok", "fails", "hangs"} /\ parsed.micros \in M
      /\ parsed = [outcome |-> parsed.outcome, micros |-> parsed.micros]
      /\ number.micros \in M
  BY ParsesToResult
<1> HIDE DEF parsed, number
<1>2. ASSUME NEW x \in M
      PROVE  /\ Keep(parsed, x).micros \in M /\ Keep(parsed, x).outcome \in {"ok", "hangs"}
             /\ Keep(parsed, x).outcome # "hangs" =>
                  Keep(parsed, Keep(parsed, x).micros) = Ok(Keep(parsed, x).micros)
             /\ Keep(parsed, x).outcome # "hangs" => Keep(parsed, x) = Ok(Keep(parsed, x).micros)
  BY <1>1 DEF Keep, Ok
<1>3. \A x : ReadWhole(text, x) =
        IF text = <<Infinity>> THEN Ok(Forever)
        ELSE IF ~number.throws /\ number.whole THEN Ok(number.micros)
        ELSE Keep(parsed, IF number.throws THEN x ELSE number.micros)
  BY DEF ReadWhole, number, parsed
<1>4. \A x : ReadLeading(text, x) =
        IF text = <<Infinity>> THEN Ok(Forever)
        ELSE IF ~number.throws THEN Ok(number.micros) ELSE Keep(parsed, x)
  BY DEF ReadLeading, number, parsed
<1>5. \A x : ReadNumber(text, x) =
        IF text = <<Infinity>> THEN Ok(Forever)
        ELSE Ok(IF number.throws THEN x ELSE number.micros)
  BY DEF ReadNumber, number, parsed
<1>6. /\ ReadWhole(text, old).micros \in M /\ ReadWhole(text, old).outcome \in {"ok", "hangs"}
      /\ ReadWhole(text, old).outcome # "hangs" =>
           ReadWhole(text, ReadWhole(text, old).micros) = Ok(ReadWhole(text, old).micros)
  <2>1. CASE text = <<Infinity>> \/ (~number.throws /\ number.whole)
    BY <1>1, <1>3, <2>1 DEF Ok
  <2>2. CASE ~(text = <<Infinity>> \/ (~number.throws /\ number.whole))
    <3>1. CASE number.throws
      BY <1>2, <1>3, <2>2, <3>1
    <3>2. CASE ~number.throws
      BY <1>1, <1>2, <1>3, <2>2, <3>2
    <3> QED
      BY <3>1, <3>2
  <2> QED
    BY <2>1, <2>2
<1>7. /\ ReadLeading(text, old).micros \in M /\ ReadLeading(text, old).outcome \in {"ok", "hangs"}
      /\ ReadLeading(text, old).outcome # "hangs" =>
           ReadLeading(text, ReadLeading(text, old).micros) = Ok(ReadLeading(text, old).micros)
  <2>1. CASE text = <<Infinity>> \/ ~number.throws
    BY <1>1, <1>4, <2>1 DEF Ok
  <2>2. CASE ~(text = <<Infinity>> \/ ~number.throws)
    BY <1>2, <1>4, <2>2
  <2> QED
    BY <2>1, <2>2
<1>8. /\ ReadNumber(text, old).micros \in M /\ ReadNumber(text, old).outcome = "ok"
      /\ ReadNumber(text, ReadNumber(text, old).micros) = Ok(ReadNumber(text, old).micros)
  BY <1>1, <1>5 DEF Ok
<1> QED
  BY <1>6, <1>7, <1>8
=============================================================================
