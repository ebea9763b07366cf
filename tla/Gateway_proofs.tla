--------------------------- MODULE Gateway_proofs ---------------------------
(***************************************************************************)
(* The breaker of app/gateway/circuit.py, for any number of calls, aliases *)
(* and attempts: closed, it is below its threshold, which takes sums over  *)
(* the window; half-open, it has its probe, as long as the transport       *)
(* raises nothing but AppError.  And the exchanges of a call run out.      *)
(***************************************************************************)
EXTENDS Gateway, FiniteSetTheorems, TLAPS

\* A call sleeps only before an attempt that it is allowed.
BackoffRoom ==
    \A c \in Calls : call[c].at = "backoff" => call[c].attempt < MaxAttempts

\* A transport that raises something else may take the probe away.
ProbeKept == OtherErrors \/ HalfOpenHasProbe

IInv == TypeOK /\ ProbeKept /\ BackoffRoom

-----------------------------------------------------------------------------
\* A new breaker and an idle call have their types.
LEMMA NewTypes == NewBreaker \in Breaker /\ IdleCall \in Call
  <1>1. 0 \in Ages /\ 0 \in 0..Threshold /\ 1 \in 1..MaxAttempts
    BY BreakerAssumption DEF Ages
  <1>2. (CHOOSE a \in Aliases : TRUE) \in Aliases
    BY AliasAssumption
  <1>3. (CHOOSE s \in Schemas : TRUE) \in Schemas
    BY AliasAssumption
  <1>4. NewBreaker \in Breaker
    BY <1>1 DEF NewBreaker, Breaker
  <1>5. IdleCall \in Call
    BY <1>1, <1>2, <1>3 DEF IdleCall, Call, Results
  <1>6. QED
    BY <1>4, <1>5

\* What allow and record_failure make of a breaker: a failure never leaves it
\* half-open, and admission does so only by setting the probe flag.
LEMMA BreakerSteps ==
    ASSUME NEW b \in Breaker
    PROVE  /\ Failed(b) \in Breaker /\ Failed(b).state # "half_open"
           /\ Admit(b) \in Breaker
           /\ Admit(b).state = "half_open" => b.state # "closed" /\ Admit(b).probe
  <1>1. 0 \in Ages /\ AddFailure(b) \in [Ages -> 0..Threshold]
    BY BreakerAssumption DEF Ages, Breaker, AddFailure
  <1>2. Failed(b) \in Breaker /\ Failed(b).state # "half_open"
    BY <1>1 DEF Failed, Breaker
  <1>3. /\ Admit(b) \in Breaker
        /\ Admit(b).state = "half_open" => b.state # "closed" /\ Admit(b).probe
    BY DEF Admit, Breaker
  <1>4. QED
    BY <1>2, <1>3

\* Entering complete_json for an alias keeps the invariant, when the call that
\* enters was no probe of a half-open breaker.
LEMMA EnterInv ==
    ASSUME IInv, NEW c \in Calls, NEW brs \in [Aliases -> Breaker],
           NEW alias \in Aliases, NEW schema \in Schemas, NEW tried \in BOOLEAN,
           \A a \in Aliases : brs[a].state = "half_open" =>
               /\ brs[a] = breaker[a]
               /\ ~Probing(c, a),
           Enter(c, brs, alias, schema, tried), UNCHANGED cache
    PROVE  IInv'
  <1> DEFINE admitted == Admits(brs[alias])
             new == [at |-> IF admitted THEN "post" ELSE "returned",
                     alias |-> alias, schema |-> schema, attempt |-> 1,
                     tried_fallback |-> tried,
                     probe |-> admitted /\ brs[alias].state # "closed",
                     result |-> IF admitted THEN "none"
                                ELSE CachedOr(alias, schema, "GATEWAY_CIRCUIT_OPEN")]
  <1>1. /\ breaker' = IF admitted THEN [brs EXCEPT ![alias] = Admit(brs[alias])]
                      ELSE brs
        /\ call' = [call EXCEPT ![c] = new]
    BY DEF Enter
  <1>2. admitted \in BOOLEAN
    BY DEF Admits, Breaker
  <1>3. 1 \in 1..MaxAttempts
    BY BreakerAssumption
  <1>4. new.probe \in BOOLEAN
    BY <1>2
  <1>5. new.result \in Results
    BY DEF Results, CachedOr
  <1>6. new \in Call
    BY <1>3, <1>4, <1>5 DEF Call
  <1>7. TypeOK'
    <2>1. breaker' \in [Aliases -> Breaker]
      BY <1>1, BreakerSteps
    <2>2. call' \in [Calls -> Call]
      BY <1>1, <1>6 DEF IInv, TypeOK
    <2>3. QED
      BY <2>1, <2>2 DEF IInv, TypeOK
  <1>8. ASSUME ~OtherErrors, NEW a \in Aliases, breaker'[a].state = "half_open"
        PROVE  breaker'[a].probe /\ \E d \in Calls : Probing(d, a)'
    <2>1. CASE a = alias /\ admitted
      <3>1. breaker'[a] = Admit(brs[a])
        BY <1>1, <2>1
      <3>2. breaker'[a].probe /\ brs[a].state # "closed"
        BY <1>8, <3>1, BreakerSteps
      <3>3. call'[c] = new
        BY <1>1 DEF IInv, TypeOK
      <3>4. new.at = "post" /\ new.alias = a /\ new.attempt = 1
        BY <2>1
      <3>5. admitted /\ brs[alias].state # "closed"
        BY <2>1, <3>2
      <3>6. new.probe
        BY <3>5
      <3>7. Probing(c, a)'
        BY <3>3, <3>4, <3>6 DEF Probing, Posting, AliasOf
      <3>8. QED
        BY <3>2, <3>7
    <2>2. CASE ~(a = alias /\ admitted)
      <3>1. breaker'[a] = brs[a]
        BY <1>1, <2>2
      <3>2. brs[a] = breaker[a] /\ ~Probing(c, a)
        BY <1>8, <3>1
      <3>3. breaker[a].probe /\ \E d \in Calls : Probing(d, a)
        BY <1>8, <3>1, <3>2 DEF IInv, ProbeKept, HalfOpenHasProbe
      <3>4. PICK d \in Calls : Probing(d, a)
        BY <3>3
      <3>5. d # c /\ call'[d] = call[d]
        BY <1>1, <3>2, <3>4 DEF IInv, TypeOK
      <3>6. Probing(d, a)'
        BY <3>4, <3>5 DEF Probing, Posting, AliasOf
      <3>7. QED
        BY <3>1, <3>2, <3>3, <3>6
    <2>3. QED
      BY <2>1, <2>2
  <1>9. BackoffRoom'
    <2>1. ASSUME NEW d \in Calls, call'[d].at = "backoff"
          PROVE  call'[d].attempt < MaxAttempts
      <3>1. call \in [Calls -> Call]
        BY DEF IInv, TypeOK
      <3>2. call'[c].at # "backoff"
        BY <1>1, <3>1
      <3>3. d # c /\ call'[d] = call[d]
        BY <1>1, <2>1, <3>1, <3>2
      <3>4. QED
        BY <2>1, <3>3 DEF IInv, BackoffRoom
    <2>2. QED
      BY <2>1 DEF BackoffRoom
  <1>10. QED
    BY <1>7, <1>8, <1>9 DEF IInv, ProbeKept, HalfOpenHasProbe

\* A step of call c that leaves no breaker half-open but those it did not
\* touch, and was not itself the probe of one of these, keeps the invariant.
LEMMA CallInv ==
    ASSUME IInv, NEW c \in Calls,
           TypeOK',
           \A d \in Calls \ {c} : call'[d] = call[d],
           call'[c].at = "backoff" => call'[c].attempt < MaxAttempts,
           ~OtherErrors => \A a \in Aliases : breaker'[a].state = "half_open" =>
               /\ breaker'[a] = breaker[a]
               /\ ~Probing(c, a)
    PROVE  IInv'
  <1>1. ASSUME ~OtherErrors, NEW a \in Aliases, breaker'[a].state = "half_open"
        PROVE  breaker'[a].probe /\ \E d \in Calls : Probing(d, a)'
    <2>1. breaker'[a] = breaker[a] /\ ~Probing(c, a)
      BY <1>1
    <2>2. breaker[a].probe /\ \E d \in Calls : Probing(d, a)
      BY <1>1, <2>1 DEF IInv, ProbeKept, HalfOpenHasProbe
    <2>3. PICK d \in Calls : Probing(d, a)
      BY <2>2
    <2>4. call'[d] = call[d]
      BY <2>1, <2>3
    <2>5. Probing(d, a)'
      BY <2>3, <2>4 DEF Probing, Posting, AliasOf
    <2>6. QED
      BY <2>1, <2>2, <2>5
  <1>2. BackoffRoom'
    BY DEF IInv, BackoffRoom
  <1>3. QED
    BY <1>1, <1>2 DEF IInv, ProbeKept, HalfOpenHasProbe

\* A call that is not in an exchange probes nothing, and one that is probes no
\* alias but its own.
LEMMA ProbeFacts ==
    ASSUME NEW c \in Calls, NEW a \in Aliases, Probing(c, a)
    PROVE  Posting(c) /\ a = AliasOf(c)
  BY DEF Probing

\* After a failure of call c the breaker of its alias is not half-open, and
\* the others are as they were.
LEMMA FailureLeaves ==
    ASSUME IInv, NEW c \in Calls, Posting(c)
    PROVE  /\ AfterFailure(c) \in [Aliases -> Breaker]
           /\ \A a \in Aliases : AfterFailure(c)[a].state = "half_open" =>
                  /\ AfterFailure(c)[a] = breaker[a]
                  /\ ~Probing(c, a)
  <1>1. AliasOf(c) \in Aliases /\ breaker \in [Aliases -> Breaker]
    BY DEF IInv, TypeOK, AliasOf, Call
  <1>2. /\ Failed(breaker[AliasOf(c)]) \in Breaker
        /\ Failed(breaker[AliasOf(c)]).state # "half_open"
    BY <1>1, BreakerSteps
  <1>3. QED
    BY <1>1, <1>2, ProbeFacts DEF AfterFailure

-----------------------------------------------------------------------------
\* Induction over data, from the library's theorem that a well-founded relation
\* has minimal elements: a set of naturals has a least one.
LEMMA Least ==
    ASSUME NEW T, T \subseteq Nat, T # {}
    PROVE  \E x \in T : \A y \in T : x <= y
  <1>1. \E x \in T : \A y \in T : ~ (<<y, x>> \in OpToRel(<, Nat))
    BY WFMin, NatLessThanWellFounded
  <1>2. PICK x \in T : \A y \in T : ~ (<<y, x>> \in OpToRel(<, Nat))
    BY <1>1
  <1>3. ASSUME NEW y \in T PROVE x <= y
    <2>1. <<y, x>> \in Nat \X Nat
      BY <1>3
    <2>2. ~(y < x)
      BY <1>2, <2>1 DEF OpToRel
    <2>3. QED
      BY <2>2
  <1>4. QED
    BY <1>3

\* What holds of 0 and of the successor of whatever it holds of holds of all.
LEMMA Induct ==
    ASSUME NEW S, 0 \in S, \A n \in Nat : n \in S => n + 1 \in S
    PROVE  Nat \subseteq S
  <1> DEFINE T == Nat \ S
  <1> SUFFICES ASSUME T # {}
               PROVE FALSE
    OBVIOUS
  <1>1. PICK x \in T : \A y \in T : x <= y
    BY Least
  <1>2. x # 0 /\ x - 1 \in Nat /\ x - 1 \notin T
    BY <1>1
  <1>3. (x - 1) + 1 \in S
    BY <1>2
  <1>4. QED
    BY <1>3

\* The parts of FoldFunction: the element taken next, one step of the recursion,
\* and the sums of all subsets of the domain.
Total(f) == FoldFunction(+, 0, f)
Pick(s) == CHOOSE x \in s : TRUE
SumBody(f, S, g) ==
    [s \in SUBSET S |-> IF s = {} THEN 0 ELSE f[Pick(s)] + g[s \ {Pick(s)}]]
PartialSum(f) == CHOOSE g : g = SumBody(f, DOMAIN f, g)

Small(S, n) == {s \in SUBSET S : Cardinality(s) <= n}

\* A fold with + is the sum, by the chosen order, of the whole domain.
LEMMA FoldIsPartialSum ==
    ASSUME NEW f
    PROVE  Total(f) = PartialSum(f)[DOMAIN f]
  BY DEF Total, FoldFunction, FoldFunctionOnSet, MapThenFoldSet, PartialSum, SumBody,
         Pick

\* The subsets of at most n elements, for an induction over n.
LEMMA SmallSets ==
    ASSUME NEW S, IsFiniteSet(S), NEW n \in Nat
    PROVE  /\ Small(S, 0) = {{}}
           /\ Small(S, Cardinality(S)) = SUBSET S
           /\ \A s \in Small(S, n + 1) : \A x \in s : s \ {x} \in Small(S, n)
           /\ {} \in Small(S, n)
  <1>1. \A s \in SUBSET S : IsFiniteSet(s) /\ Cardinality(s) \in Nat
    BY FS_Subset, FS_CardinalityType
  <1>2. Small(S, 0) = {{}}
    <2>1. ASSUME NEW s \in SUBSET S
          PROVE  Cardinality(s) <= 0 <=> s = {}
      BY <1>1, FS_EmptySet
    <2>2. QED
      BY <2>1 DEF Small
  <1>3. Small(S, Cardinality(S)) = SUBSET S
    BY FS_Subset DEF Small
  <1>4. ASSUME NEW s \in Small(S, n + 1), NEW x \in s
        PROVE  s \ {x} \in Small(S, n)
    <2>1. s \in SUBSET S /\ Cardinality(s) <= n + 1
      BY DEF Small
    <2>2. Cardinality(s \ {x}) = Cardinality(s) - 1
      BY <1>1, <2>1, FS_RemoveElement
    <2>3. Cardinality(s \ {x}) <= n
      BY <1>1, <2>1, <2>2
    <2>4. QED
      BY <2>1, <2>3 DEF Small
  <1>5. {} \in Small(S, n)
    BY FS_EmptySet DEF Small
  <1>6. QED
    BY <1>2, <1>3, <1>4, <1>5

\* The element a fold takes next is one of the set.
LEMMA PickIn == ASSUME NEW s, s # {} PROVE Pick(s) \in s
  BY DEF Pick

\* g is a solution of the recursion on the subsets of at most n elements.
Sums(f, S, n, g) ==
    /\ g \in [Small(S, n) -> Nat]
    /\ \A s \in Small(S, n) :
          g[s] = IF s = {} THEN 0 ELSE f[Pick(s)] + g[s \ {Pick(s)}]

\* The recursion of the fold has a solution, one size of subset after another.
LEMMA SumsExist ==
    ASSUME NEW S, IsFiniteSet(S), NEW f \in [S -> Nat], NEW n \in Nat
    PROVE  \E g : Sums(f, S, n, g)
  <1> DEFINE T == {m \in Nat : \E g : Sums(f, S, m, g)}
  <1>1. 0 \in T
    <2> DEFINE g == [s \in Small(S, 0) |-> 0]
    <2>1. Sums(f, S, 0, g)
      BY SmallSets DEF Sums
    <2>2. QED
      BY <2>1
  <1>2. ASSUME NEW m \in Nat, m \in T
        PROVE  m + 1 \in T
    <2>1. PICK g : Sums(f, S, m, g)
      BY <1>2
    <2> DEFINE val(s) == IF s = {} THEN 0 ELSE f[Pick(s)] + g[s \ {Pick(s)}]
               h == [s \in Small(S, m + 1) |-> val(s)]
    <2>2. ASSUME NEW s \in Small(S, m + 1), s # {}
          PROVE  Pick(s) \in S /\ s \ {Pick(s)} \in Small(S, m)
      BY <2>2, PickIn, SmallSets DEF Small
    <2>3. ASSUME NEW s \in Small(S, m + 1)
          PROVE  val(s) \in Nat
      BY <2>1, <2>2 DEF Sums
    <2>4. ASSUME NEW s \in Small(S, m)
          PROVE  s \in Small(S, m + 1) /\ val(s) = g[s]
      <3>1. Cardinality(s) \in Nat
        BY FS_Subset, FS_CardinalityType DEF Small
      <3>2. QED
        BY <2>1, <3>1 DEF Sums, Small
    <2>5. ASSUME NEW s \in Small(S, m + 1), s # {}
          PROVE  h[s] = f[Pick(s)] + h[s \ {Pick(s)}]
      BY <2>2, <2>4, <2>5
    <2>6. h \in [Small(S, m + 1) -> Nat]
      BY <2>3
    <2>7. ASSUME NEW s \in Small(S, m + 1), s = {}
          PROVE  h[s] = 0
      BY <2>7
    <2> HIDE DEF h
    <2>8. Sums(f, S, m + 1, h)
      BY <2>5, <2>6, <2>7 DEF Sums
    <2>9. QED
      BY <2>8
  <1>3. Nat \subseteq T
    <2> HIDE DEF T
    <2> QED
      BY <1>1, <1>2, Induct
  <1>4. QED
    BY <1>3

\* So the fold's function satisfies its recursion.
LEMMA SumRec ==
    ASSUME NEW S, IsFiniteSet(S), NEW f \in [S -> Nat], NEW s \in SUBSET S
    PROVE  PartialSum(f)[s] =
             IF s = {} THEN 0 ELSE f[Pick(s)] + PartialSum(f)[s \ {Pick(s)}]
  <1>1. Cardinality(S) \in Nat /\ DOMAIN f = S
    BY FS_CardinalityType
  <1>2. PICK g : Sums(f, S, Cardinality(S), g)
    BY <1>1, SumsExist
  <1>3. Small(S, Cardinality(S)) = SUBSET S
    BY SmallSets
  <1>4. g = SumBody(f, S, g)
    BY <1>2, <1>3 DEF Sums, SumBody
  <1>5. PartialSum(f) = SumBody(f, S, PartialSum(f))
    BY <1>1, <1>4 DEF PartialSum
  <1>6. SumBody(f, S, PartialSum(f))[s] =
             IF s = {} THEN 0 ELSE f[Pick(s)] + PartialSum(f)[s \ {Pick(s)}]
    BY DEF SumBody
  <1>7. QED
    BY <1>5, <1>6

\* A sum of naturals is a natural.
LEMMA SumNat ==
    ASSUME NEW S, IsFiniteSet(S), NEW f \in [S -> Nat], NEW s \in SUBSET S
    PROVE  PartialSum(f)[s] \in Nat
  <1> DEFINE T == {m \in Nat : \A u \in Small(S, m) : PartialSum(f)[u] \in Nat}
  <1>1. 0 \in T
    <2>1. PartialSum(f)[{}] = 0
      BY SumRec
    <2>2. Small(S, 0) = {{}}
      BY SmallSets
    <2>3. ASSUME NEW u \in Small(S, 0)
          PROVE  PartialSum(f)[u] \in Nat
      <3>1. u = {}
        BY <2>2
      <3>2. PartialSum(f)[u] = 0
        BY <2>1, <3>1
      <3>3. QED
        BY <3>2
    <2>4. QED
      BY <2>3
  <1>2. ASSUME NEW m \in Nat, m \in T
        PROVE  m + 1 \in T
    <2>1. ASSUME NEW u \in Small(S, m + 1)
          PROVE  PartialSum(f)[u] \in Nat
      <3>1. u \in SUBSET S
        BY DEF Small
      <3>2. CASE u = {}
        <4>1. PartialSum(f)[u] = 0
          BY <3>1, <3>2, SumRec
        <4>2. QED
          BY <4>1
      <3>3. CASE u # {}
        <4>1. Pick(u) \in S /\ u \ {Pick(u)} \in Small(S, m)
          BY <3>1, <3>3, PickIn, SmallSets
        <4>2. PartialSum(f)[u \ {Pick(u)}] \in Nat /\ f[Pick(u)] \in Nat
          BY <1>2, <4>1
        <4>3. PartialSum(f)[u] = f[Pick(u)] + PartialSum(f)[u \ {Pick(u)}]
          BY <3>1, <3>3, SumRec
        <4>4. QED
          BY <4>2, <4>3
      <3>4. QED
        BY <3>2, <3>3
    <2>2. QED
      BY <2>1
  <1>3. Nat \subseteq T
    <2> HIDE DEF T
    <2> QED
      BY <1>1, <1>2, Induct
  <1>4. Cardinality(S) \in T /\ Small(S, Cardinality(S)) = SUBSET S
    BY <1>3, FS_CardinalityType, SmallSets
  <1>5. QED
    BY <1>4

\* The order does not matter: any element may be taken out first.
LEMMA SumAny ==
    ASSUME NEW S, IsFiniteSet(S), NEW f \in [S -> Nat],
           NEW s \in SUBSET S, NEW x \in s
    PROVE  PartialSum(f)[s] = f[x] + PartialSum(f)[s \ {x}]
  <1> DEFINE G(u) == PartialSum(f)[u]
             T == {m \in Nat : \A u \in Small(S, m) : \A y \in u :
                                  G(u) = f[y] + G(u \ {y})}
  <1>1. 0 \in T
    BY SmallSets
  <1>2. ASSUME NEW m \in Nat, m \in T
        PROVE  m + 1 \in T
    <2>1. ASSUME NEW u \in Small(S, m + 1), NEW y \in u
          PROVE  G(u) = f[y] + G(u \ {y})
      <3> DEFINE p == Pick(u)
      <3>1. u \in SUBSET S /\ p \in u
        BY PickIn DEF Small
      <3>2. G(u) = f[p] + G(u \ {p})
        BY <3>1, SumRec
      <3>3. CASE y = p
        BY <3>2, <3>3
      <3>4. CASE y # p
        <4>1. u \ {p} \in Small(S, m) /\ u \ {y} \in Small(S, m)
          BY <3>1, SmallSets
        <4>2. y \in u \ {p} /\ p \in u \ {y}
          BY <3>1, <3>4
        <4>3. G(u \ {p}) = f[y] + G((u \ {p}) \ {y})
          BY <1>2, <4>1, <4>2
        <4>4. G(u \ {y}) = f[p] + G((u \ {y}) \ {p})
          BY <1>2, <4>1, <4>2
        <4>5. (u \ {p}) \ {y} = (u \ {y}) \ {p}
          OBVIOUS
        <4>6. f[p] \in Nat /\ f[y] \in Nat /\ G((u \ {p}) \ {y}) \in Nat
          BY <3>1, SumNat
        <4> HIDE DEF G, p
        <4>7. QED
          BY <3>2, <4>3, <4>4, <4>5, <4>6
      <3>5. QED
        BY <3>3, <3>4
    <2>2. QED
      BY <2>1
  <1>3. Nat \subseteq T
    <2> HIDE DEF T
    <2> QED
      BY <1>1, <1>2, Induct
  <1>4. Cardinality(S) \in T /\ Small(S, Cardinality(S)) = SUBSET S
    BY <1>3, FS_CardinalityType, SmallSets
  <1>5. QED
    BY <1>4

\* The same as a predicate, which the provers carry over to sets of ages.
OneOut(f, u) ==
    \A y \in u : PartialSum(f)[u] = f[y] + PartialSum(f)[u \ {y}]

LEMMA OneOutOf ==
    ASSUME NEW S, IsFiniteSet(S), NEW f \in [S -> Nat], NEW s \in SUBSET S
    PROVE  OneOut(f, s)
  BY SumAny DEF OneOut

LEMMA SumWithout ==
    ASSUME NEW w \in Nat, NEW f \in [0..w -> Nat],
           NEW s \in SUBSET (0..w), NEW x \in s, NEW r, r = s \ {x}
    PROVE  PartialSum(f)[s] = f[x] + PartialSum(f)[r]
  <1>1. IsFiniteSet(0..w)
    BY FS_Interval
  <1>2. OneOut(f, s)
    BY <1>1, OneOutOf
  <1>3. QED
    BY <1>2, Zenon DEF OneOut

\* Sums over an interval that starts at 0, one more element at a time.
LEMMA IntervalSum ==
    ASSUME NEW w \in Nat, NEW f \in [0..w -> Nat]
    PROVE  /\ Total(f) = PartialSum(f)[0..w]
           /\ PartialSum(f)[0..0] = f[0]
           /\ \A k \in Nat : k + 1 <= w =>
                 PartialSum(f)[0..(k + 1)] = f[k + 1] + PartialSum(f)[0..k]
           /\ \A k \in 0..w : PartialSum(f)[0..k] \in Nat
  <1>1. IsFiniteSet(0..w)
    BY FS_Interval
  <1>2. Total(f) = PartialSum(f)[0..w]
    BY FoldIsPartialSum
  <1>3. PartialSum(f)[0..0] = f[0]
    <2>1. PartialSum(f)[{}] = 0
      BY <1>1, SumRec
    <2>2. 0..0 \in SUBSET (0..w) /\ 0 \in 0..0 /\ {} = (0..0) \ {0}
      OBVIOUS
    <2>3. PartialSum(f)[0..0] = f[0] + PartialSum(f)[{}]
      BY <2>2, SumWithout
    <2>4. f[0] \in Nat
      OBVIOUS
    <2>5. QED
      BY <2>1, <2>3, <2>4
  <1>4. ASSUME NEW k \in Nat, k + 1 <= w
        PROVE  PartialSum(f)[0..(k + 1)] = f[k + 1] + PartialSum(f)[0..k]
    <2>1. 0..(k + 1) \in SUBSET (0..w) /\ k + 1 \in 0..(k + 1)
      BY <1>4
    <2> DEFINE s == 0..(k + 1)
               r == 0..k
    <2>2. s \in SUBSET (0..w) /\ k + 1 \in s /\ r = s \ {k + 1}
      BY <2>1
    <2> HIDE DEF s, r
    <2>3. PartialSum(f)[s] = f[k + 1] + PartialSum(f)[r]
      BY <2>2, SumWithout
    <2>4. QED
      BY <2>3 DEF s, r
  <1>5. ASSUME NEW k \in 0..w
        PROVE  PartialSum(f)[0..k] \in Nat
    <2>1. 0..k \in SUBSET (0..w)
      OBVIOUS
    <2>2. QED
      BY <1>1, <2>1, SumNat
  <1>6. QED
    BY <1>2, <1>3, <1>4, <1>5

LEMMA TotalNat ==
    ASSUME NEW w \in Nat, NEW f \in [0..w -> Nat]
    PROVE  Total(f) \in Nat
  <1>1. w \in 0..w
    OBVIOUS
  <1>2. Total(f) = PartialSum(f)[0..w] /\ PartialSum(f)[0..w] \in Nat
    BY <1>1, IntervalSum
  <1>3. QED
    BY <1>2

\* Nothing adds up to nothing.
LEMMA ZeroSum ==
    ASSUME NEW w \in Nat
    PROVE  Total([age \in 0..w |-> 0]) = 0
  <1> DEFINE f == [age \in 0..w |-> 0]
             T == {k \in Nat : k <= w => PartialSum(f)[0..k] = 0}
  <1>1. f \in [0..w -> Nat] /\ \A age \in 0..w : f[age] = 0
    OBVIOUS
  <1> HIDE DEF f
  <1>2. 0 \in T
    BY <1>1, IntervalSum
  <1>3. ASSUME NEW k \in Nat, k \in T
        PROVE  k + 1 \in T
    <2>1. k + 1 <= w => PartialSum(f)[0..(k + 1)] = f[k + 1] + PartialSum(f)[0..k]
      BY <1>1, IntervalSum
    <2>2. QED
      BY <1>1, <1>3, <2>1
  <1>4. Nat \subseteq T
    <2> HIDE DEF T
    <2> QED
      BY <1>2, <1>3, Induct
  <1>5. PartialSum(f)[0..w] = 0
    BY <1>4
  <1>6. QED
    BY <1>1, <1>5, IntervalSum DEF f

\* Time moves the failures of every age to the next, and those of the last out
\* of the window: the sum loses just these.
LEMMA ShiftedSum ==
    ASSUME NEW w \in Nat, NEW f \in [0..w -> Nat], NEW g \in [0..w -> Nat],
           \A age \in 0..w : g[age] = IF age = 0 THEN 0 ELSE f[age - 1]
    PROVE  Total(f) = Total(g) + f[w]
  <1> DEFINE T == {k \in Nat : k <= w =>
                      PartialSum(f)[0..k] = PartialSum(g)[0..k] + f[k]}
  <1>1. 0 \in T
    <2>1. PartialSum(f)[0..0] = f[0] /\ PartialSum(g)[0..0] = g[0]
      BY IntervalSum
    <2>2. g[0] = 0 /\ f[0] \in Nat
      OBVIOUS
    <2>3. QED
      BY <2>1, <2>2
  <1>2. ASSUME NEW k \in Nat, k \in T
        PROVE  k + 1 \in T
    <2>1. ASSUME k + 1 <= w
          PROVE  PartialSum(f)[0..(k + 1)] = PartialSum(g)[0..(k + 1)] + f[k + 1]
      <3>1. /\ PartialSum(f)[0..(k + 1)] = f[k + 1] + PartialSum(f)[0..k]
            /\ PartialSum(g)[0..(k + 1)] = g[k + 1] + PartialSum(g)[0..k]
        BY <2>1, IntervalSum
      <3>2. k \in 0..w /\ k + 1 \in 0..w
        BY <2>1
      <3>3. PartialSum(f)[0..k] = PartialSum(g)[0..k] + f[k]
        BY <1>2, <3>2
      <3>4. g[k + 1] = f[k]
        BY <3>2
      <3>5. /\ PartialSum(f)[0..k] \in Nat /\ PartialSum(g)[0..k] \in Nat
            /\ f[k] \in Nat /\ f[k + 1] \in Nat
        BY <3>2, IntervalSum
      <3>6. QED
        BY <3>1, <3>3, <3>4, <3>5
    <2>2. QED
      BY <2>1
  <1>3. Nat \subseteq T
    <2> HIDE DEF T
    <2> QED
      BY <1>1, <1>2, Induct
  <1>4. PartialSum(f)[0..w] = PartialSum(g)[0..w] + f[w]
    BY <1>3
  <1>5. QED
    BY <1>4, IntervalSum

-----------------------------------------------------------------------------
\* What a breaker counts is the total of its failures.
LEMMA InWindowIsTotal == \A b : InWindow(b) = Total(b.failures)
  BY DEF InWindow, Total

\* A breaker that is closed is below its threshold.
Below(b) == b.state = "closed" => InWindow(b) < Threshold

\* What a window holds is a number, and nothing in a new breaker.
LEMMA WindowNat ==
    ASSUME NEW b \in Breaker
    PROVE  InWindow(b) \in Nat /\ InWindow(NewBreaker) = 0
  <1>1. b.failures \in [0..Window -> Nat] /\ Window \in Nat
    BY BreakerAssumption DEF Breaker, Ages
  <1>2. Total(b.failures) \in Nat
    BY <1>1, TotalNat
  <1>3. Total([age \in 0..Window |-> 0]) = 0
    BY <1>1, ZeroSum
  <1>4. NewBreaker.failures = [age \in 0..Window |-> 0]
    BY DEF NewBreaker, Ages
  <1>5. QED
    BY <1>2, <1>3, <1>4, InWindowIsTotal

\* allow, record_success and record_failure leave a breaker below; of what came
\* before, record_failure needs no more than its type.
LEMMA BelowSteps ==
    ASSUME NEW b \in Breaker
    PROVE  /\ Below(NewBreaker) /\ Below(Failed(b))
           /\ Below(b) => Below(Admit(b))
  <1>1. Below(NewBreaker)
    BY WindowNat, BreakerAssumption DEF Below
  <1>2. Below(Failed(b))
    <2> DEFINE f == [b EXCEPT !.failures = AddFailure(b), !.probe = FALSE]
    <2>1. 0 \in Ages /\ AddFailure(b) \in [Ages -> 0..Threshold]
      BY BreakerAssumption DEF Ages, Breaker, AddFailure
    <2>2. f \in Breaker
      BY <2>1 DEF Breaker
    <2>3. InWindow(f) \in Nat
      BY <2>2, WindowNat
    <2>4. Failed(b) = IF b.state = "half_open" \/ InWindow(f) >= Threshold
                      THEN [f EXCEPT !.state = "open", !.opened = 0] ELSE f
      BY DEF Failed
    <2>5. [f EXCEPT !.state = "open", !.opened = 0].state = "open"
      BY DEF Breaker
    <2> HIDE DEF f
    <2>6. QED
      BY <2>3, <2>4, <2>5, BreakerAssumption DEF Below
  <1>3. Below(b) => Below(Admit(b))
    BY DEF Below, Admit, Breaker
  <1>4. QED
    BY <1>1, <1>2, <1>3

-----------------------------------------------------------------------------
\* The process starts with closed breakers.
LEMMA InitInv == Init => IInv
  <1> SUFFICES ASSUME Init
               PROVE  IInv
    OBVIOUS
  <1>1. TypeOK
    BY NewTypes DEF Init, TypeOK
  <1>2. HalfOpenHasProbe
    BY DEF Init, HalfOpenHasProbe, NewBreaker
  <1>3. BackoffRoom
    BY DEF Init, BackoffRoom, IdleCall
  <1>4. QED
    BY <1>1, <1>2, <1>3 DEF IInv, ProbeKept

\* The steps of a call keep the invariant.
LEMMA ProgressInv ==
    ASSUME IInv, NEW c \in Calls, Progress(c)
    PROVE  IInv'
  <1>1. /\ breaker \in [Aliases -> Breaker] /\ call \in [Calls -> Call]
        /\ cache \subseteq Aliases \X Schemas /\ call[c] \in Call
        /\ AliasOf(c) \in Aliases /\ call[c].schema \in Schemas
    BY DEF IInv, TypeOK, AliasOf, Call
  <1>2. 1 \in 1..MaxAttempts
    BY BreakerAssumption
  <1>3. ASSUME NEW brs, NEW result \in Results, Returns(c, brs, result)
        PROVE  /\ call' \in [Calls -> Call] /\ breaker' = brs
               /\ call'[c].at # "backoff"
               /\ \A d \in Calls \ {c} : call'[d] = call[d]
    BY <1>1, <1>2, <1>3 DEF Returns, Call
  <1>4. CASE PostSucceeds(c)
    <2> DEFINE brs == [breaker EXCEPT ![AliasOf(c)] = NewBreaker]
    <2>1. Returns(c, brs, "fresh") /\ Posting(c)
          /\ cache' = cache \cup {<<AliasOf(c), call[c].schema>>}
      BY <1>4 DEF PostSucceeds, Succeeded
    <2>2. "fresh" \in Results
      BY DEF Results
    <2>3. /\ call' \in [Calls -> Call] /\ breaker' = brs
          /\ call'[c].at # "backoff"
          /\ \A d \in Calls \ {c} : call'[d] = call[d]
      BY <1>3, <2>1, <2>2
    <2>4. TypeOK'
      BY <1>1, <2>1, <2>3, NewTypes DEF TypeOK
    <2>5. \A a \in Aliases : breaker'[a].state = "half_open" =>
              breaker'[a] = breaker[a] /\ ~Probing(c, a)
      BY <1>1, <2>3, ProbeFacts DEF NewBreaker
    <2>6. QED
      BY <2>3, <2>4, <2>5, CallInv
  <1>5. CASE PostRejected(c)
    <2>1. Returns(c, AfterFailure(c), "GATEWAY_REJECTED") /\ Posting(c)
          /\ UNCHANGED cache
      BY <1>5 DEF PostRejected
    <2>2. "GATEWAY_REJECTED" \in Results
      BY DEF Results
    <2>3. /\ call' \in [Calls -> Call] /\ breaker' = AfterFailure(c)
          /\ call'[c].at # "backoff"
          /\ \A d \in Calls \ {c} : call'[d] = call[d]
      BY <1>3, <2>1, <2>2
    <2>4. TypeOK'
      BY <1>1, <2>1, <2>3, FailureLeaves DEF TypeOK
    <2>5. QED
      BY <2>1, <2>3, <2>4, FailureLeaves, CallInv
  <1>6. CASE PostFails(c)
    <2>1. /\ Posting(c) /\ breaker' = AfterFailure(c) /\ UNCHANGED cache
          /\ call[c].attempt < MaxAttempts
          /\ call' = [call EXCEPT ![c].at = "backoff"]
      BY <1>6 DEF PostFails
    <2>2. /\ call' \in [Calls -> Call]
          /\ call'[c].attempt = call[c].attempt
          /\ \A d \in Calls \ {c} : call'[d] = call[d]
      BY <1>1, <2>1 DEF Call
    <2>3. TypeOK'
      BY <1>1, <2>1, <2>2, FailureLeaves DEF TypeOK
    <2>4. QED
      BY <2>1, <2>2, <2>3, FailureLeaves, CallInv
  <1>7. CASE PostExhausted(c)
    <2> DEFINE brs == AfterFailure(c)
               result == CachedOr(AliasOf(c), call[c].schema, "GATEWAY_EXHAUSTED")
    <2>1. Posting(c) /\ UNCHANGED cache
      BY <1>7 DEF PostExhausted
    <2>2. \/ Enter(c, brs, Fallback[AliasOf(c)], call[c].schema, TRUE)
          \/ Returns(c, brs, result)
      BY <1>7 DEF PostExhausted
    <2>3. Fallback[AliasOf(c)] \in Aliases
      BY <1>1, AliasAssumption
    <2>4. ASSUME Enter(c, brs, Fallback[AliasOf(c)], call[c].schema, TRUE)
          PROVE  IInv'
      BY <1>1, <2>1, <2>3, <2>4, FailureLeaves, EnterInv
    <2>5. ASSUME Returns(c, brs, result)
          PROVE  IInv'
      <3>1. result \in Results
        BY DEF Results, CachedOr
      <3>2. /\ call' \in [Calls -> Call] /\ breaker' = brs
            /\ call'[c].at # "backoff"
            /\ \A d \in Calls \ {c} : call'[d] = call[d]
        BY <1>3, <2>5, <3>1
      <3>3. TypeOK'
        BY <1>1, <2>1, <3>2, FailureLeaves DEF TypeOK
      <3>4. QED
        BY <2>1, <3>2, <3>3, FailureLeaves, CallInv
    <2>6. QED
      BY <2>2, <2>4, <2>5
  <1>8. CASE Retry(c)
    <2>1. /\ call[c].at = "backoff" /\ UNCHANGED <<breaker, cache>>
          /\ call' = [call EXCEPT ![c].at = "post", ![c].attempt = @ + 1]
      BY <1>8 DEF Retry
    <2>2. call[c].attempt + 1 \in 1..MaxAttempts
      BY <1>1, <2>1, BreakerAssumption DEF IInv, BackoffRoom, Call
    <2>3. /\ call' \in [Calls -> Call] /\ call'[c].at = "post"
          /\ \A d \in Calls \ {c} : call'[d] = call[d]
      BY <1>1, <2>1, <2>2 DEF Call
    <2>4. TypeOK'
      BY <1>1, <2>1, <2>3 DEF TypeOK
    <2>5. \A a \in Aliases : ~Probing(c, a)
      BY <2>1, ProbeFacts DEF Posting
    <2>6. QED
      BY <2>1, <2>3, <2>4, <2>5, CallInv
  <1>9. CASE Take(c)
    <2>1. /\ call[c].at = "returned" /\ UNCHANGED <<breaker, cache>>
          /\ call' = [call EXCEPT ![c] = IdleCall]
      BY <1>9 DEF Take
    <2>2. /\ call' \in [Calls -> Call] /\ call'[c].at # "backoff"
          /\ \A d \in Calls \ {c} : call'[d] = call[d]
      BY <1>1, <2>1, NewTypes DEF IdleCall
    <2>3. TypeOK'
      BY <1>1, <2>1, <2>2 DEF TypeOK
    <2>4. \A a \in Aliases : ~Probing(c, a)
      BY <2>1, ProbeFacts DEF Posting
    <2>5. QED
      BY <2>1, <2>2, <2>3, <2>4, CallInv
  <1>10. CASE PostRaisesOther(c)
    <2>1. Returns(c, breaker, "other") /\ OtherErrors /\ UNCHANGED cache
      BY <1>10 DEF PostRaisesOther
    <2>2. "other" \in Results
      BY DEF Results
    <2>3. /\ call' \in [Calls -> Call] /\ breaker' = breaker
          /\ call'[c].at # "backoff"
          /\ \A d \in Calls \ {c} : call'[d] = call[d]
      BY <1>3, <2>1, <2>2
    <2>4. TypeOK'
      BY <1>1, <2>1, <2>3 DEF TypeOK
    <2>5. QED
      BY <2>1, <2>3, <2>4, CallInv
  <1>11. QED
    BY <1>4, <1>5, <1>6, <1>7, <1>8, <1>9, <1>10 DEF Progress

\* A call that starts was idle and probed nothing.
LEMMA StartInv ==
    ASSUME IInv, NEW c \in Calls, NEW alias \in Aliases, NEW schema \in Schemas,
           Start(c, alias, schema)
    PROVE  IInv'
  <1>1. call[c].at = "idle" /\ Enter(c, breaker, alias, schema, FALSE)
        /\ UNCHANGED cache
    BY DEF Start
  <1>2. breaker \in [Aliases -> Breaker]
    BY DEF IInv, TypeOK
  <1>3. \A a \in Aliases : ~Probing(c, a)
    BY <1>1, ProbeFacts DEF Posting
  <1>4. QED
    BY <1>1, <1>2, <1>3, EnterInv

\* Time moves no breaker between its states.
LEMMA TickInv == IInv /\ Tick => IInv'
  <1> SUFFICES ASSUME IInv, Tick
               PROVE  IInv'
    OBVIOUS
  <1>1. UNCHANGED <<cache, call>> /\ breaker \in [Aliases -> Breaker]
    BY DEF Tick, IInv, TypeOK
  <1>2. ASSUME NEW a \in Aliases
        PROVE  /\ breaker'[a] \in Breaker
               /\ breaker'[a].state = breaker[a].state
               /\ breaker'[a].probe = breaker[a].probe
    <2> DEFINE f == [age \in Ages |->
                       IF age = 0 THEN 0 ELSE breaker[a].failures[age - 1]]
               o == IF breaker[a].state = "open" /\ breaker[a].opened < Window
                    THEN breaker[a].opened + 1 ELSE breaker[a].opened
    <2>1. breaker'[a] = [breaker[a] EXCEPT !.failures = f, !.opened = o]
      BY DEF Tick
    <2>2. breaker[a] \in Breaker
      BY <1>1
    <2>3. f \in [Ages -> 0..Threshold]
      BY <2>2, BreakerAssumption DEF Breaker, Ages
    <2>4. o \in Ages
      BY <2>2, BreakerAssumption DEF Breaker, Ages
    <2>5. QED
      BY <2>1, <2>2, <2>3, <2>4 DEF Breaker
  <1>3. breaker' \in [Aliases -> Breaker]
    <2>1. breaker' = [a \in Aliases |-> breaker'[a]]
      BY DEF Tick
    <2>2. QED
      BY <1>2, <2>1
  <1>4. TypeOK'
    BY <1>1, <1>3 DEF IInv, TypeOK
  <1>5. ProbeKept'
    <2>1. ASSUME ~OtherErrors, NEW a \in Aliases, breaker'[a].state = "half_open"
          PROVE  breaker'[a].probe /\ \E d \in Calls : Probing(d, a)'
      <3>1. breaker[a].probe /\ \E d \in Calls : Probing(d, a)
        BY <1>2, <2>1 DEF IInv, ProbeKept, HalfOpenHasProbe
      <3>2. QED
        BY <1>1, <1>2, <3>1 DEF Probing, Posting, AliasOf
    <2>2. QED
      BY <2>1 DEF ProbeKept, HalfOpenHasProbe
  <1>6. BackoffRoom'
    BY <1>1 DEF IInv, BackoffRoom
  <1>7. QED
    BY <1>4, <1>5, <1>6 DEF IInv

\* IInv is inductive.
LEMMA NextInv == IInv /\ [Next]_vars => IInv'
  <1> SUFFICES ASSUME IInv, [Next]_vars
               PROVE  IInv'
    OBVIOUS
  <1>1. CASE Next
    BY <1>1, ProgressInv, StartInv, TickInv DEF Next
  <1>2. CASE UNCHANGED vars
    BY <1>2 DEF vars, IInv, TypeOK, ProbeKept, HalfOpenHasProbe, BackoffRoom, Probing,
                Posting, AliasOf
  <1>3. QED
    BY <1>1, <1>2

\* What a step of a call makes of the breakers: each stays as it is, is new, or
\* reports a failure, and may then admit the call that falls back.
LEMMA BreakerMoves ==
    ASSUME IInv, NEW c \in Calls,
           Progress(c) \/ \E alias \in Aliases, schema \in Schemas :
                              Start(c, alias, schema),
           NEW a \in Aliases
    PROVE  \/ breaker'[a] \in {breaker[a], NewBreaker, Failed(breaker[a]),
                               Admit(breaker[a]), Admit(Failed(breaker[a]))}
  <1>1. breaker \in [Aliases -> Breaker] /\ AliasOf(c) \in Aliases
    BY DEF IInv, TypeOK, AliasOf, Call
  <1>2. AfterFailure(c) \in [Aliases -> Breaker]
        /\ AfterFailure(c)[a] \in {breaker[a], Failed(breaker[a])}
    <2>1. Failed(breaker[AliasOf(c)]) \in Breaker
      BY <1>1, BreakerSteps
    <2>2. QED
      BY <1>1, <2>1 DEF AfterFailure
  <1>3. ASSUME NEW brs \in [Aliases -> Breaker], NEW alias \in Aliases,
               NEW schema, NEW tried, Enter(c, brs, alias, schema, tried)
        PROVE  breaker'[a] \in {brs[a], Admit(brs[a])}
    BY <1>3 DEF Enter
  <1>4. CASE PostSucceeds(c)
    BY <1>1, <1>4 DEF PostSucceeds, Returns, Succeeded
  <1>5. CASE PostRejected(c) \/ PostFails(c)
    BY <1>2, <1>5 DEF PostRejected, PostFails, Returns
  <1>6. CASE PostExhausted(c)
    <2>1. \/ Enter(c, AfterFailure(c), Fallback[AliasOf(c)], call[c].schema, TRUE)
          \/ breaker' = AfterFailure(c)
      BY <1>6 DEF PostExhausted, Returns
    <2>2. Fallback[AliasOf(c)] \in Aliases
      BY <1>1, AliasAssumption
    <2>3. breaker'[a] \in {AfterFailure(c)[a], Admit(AfterFailure(c)[a])}
      BY <1>2, <1>3, <2>1, <2>2
    <2>4. QED
      BY <1>2, <2>3
  <1>7. CASE PostRaisesOther(c) \/ Retry(c) \/ Take(c)
    BY <1>7 DEF PostRaisesOther, Returns, Retry, Take
  <1>8. CASE \E alias \in Aliases, schema \in Schemas : Start(c, alias, schema)
    BY <1>1, <1>3, <1>8 DEF Start
  <1>9. QED
    BY <1>4, <1>5, <1>6, <1>7, <1>8 DEF Progress

\* Every step leaves closed breakers below their threshold.
LEMMA ClosedStep ==
    ASSUME IInv, ClosedBelowThreshold, [Next]_vars
    PROVE  ClosedBelowThreshold'
  <1>1. breaker \in [Aliases -> Breaker] /\ \A a \in Aliases : Below(breaker[a])
    BY DEF IInv, TypeOK, ClosedBelowThreshold, Below
  <1>2. SUFFICES ASSUME NEW a \in Aliases
                 PROVE  Below(breaker'[a])
    BY <1>2 DEF ClosedBelowThreshold, Below
  <1>3. breaker[a] \in Breaker /\ Failed(breaker[a]) \in Breaker
    BY <1>1, BreakerSteps
  <1>4. ASSUME NEW c \in Calls,
               Progress(c) \/ \E alias \in Aliases, schema \in Schemas :
                                  Start(c, alias, schema)
        PROVE  Below(breaker'[a])
    <2>1. breaker'[a] \in {breaker[a], NewBreaker, Failed(breaker[a]),
                           Admit(breaker[a]), Admit(Failed(breaker[a]))}
      BY <1>4, BreakerMoves
    <2>2. QED
      BY <1>1, <1>3, <2>1, BelowSteps
  <1>5. CASE Tick
    <2> DEFINE f == breaker[a].failures
               g == [age \in Ages |-> IF age = 0 THEN 0 ELSE f[age - 1]]
    <2>1. f \in [0..Window -> Nat] /\ Window \in Nat
      BY <1>3, BreakerAssumption DEF Breaker, Ages
    <2>2. g \in [0..Window -> Nat]
      BY <2>1 DEF Ages
    <2>3. \A age \in 0..Window : g[age] = IF age = 0 THEN 0 ELSE f[age - 1]
      BY DEF Ages
    <2>4. breaker'[a].failures = g /\ breaker'[a].state = breaker[a].state
      BY <1>3, <1>5 DEF Tick, Breaker
    <2> HIDE DEF f, g
    <2>5. Total(f) = Total(g) + f[Window]
      BY <2>1, <2>2, <2>3, ShiftedSum
    <2>6. Total(g) \in Nat /\ f[Window] \in Nat
      BY <2>1, <2>2, TotalNat
    <2>7. Total(g) <= Total(f)
      BY <2>5, <2>6
    <2>8. InWindow(breaker[a]) = Total(f)
          /\ InWindow(breaker'[a]) = Total(g)
      BY <2>4, InWindowIsTotal DEF f
    <2>9. InWindow(breaker[a]) \in Nat
      BY <1>3, WindowNat
    <2>10. /\ InWindow(breaker'[a]) <= InWindow(breaker[a])
           /\ InWindow(breaker'[a]) \in Nat
      BY <2>6, <2>7, <2>8
    <2>11. breaker'[a].state = "closed" => InWindow(breaker[a]) < Threshold
      BY <1>1, <2>4 DEF Below
    <2>12. breaker'[a].state = "closed" => InWindow(breaker'[a]) < Threshold
      BY <2>9, <2>10, <2>11, BreakerAssumption
    <2>13. QED
      BY <2>12 DEF Below
  <1>6. CASE UNCHANGED vars
    BY <1>1, <1>6 DEF vars
  <1>7. QED
    BY <1>4, <1>5, <1>6 DEF Next

-----------------------------------------------------------------------------
(***************************************************************************)
(* The exchanges of a call run out.                                        *)
(***************************************************************************)

\* A step of one call is no step of another.
LEMMA OtherCalls ==
    ASSUME IInv, NEW c \in Calls,
           Progress(c) \/ \E alias \in Aliases, schema \in Schemas :
                              Start(c, alias, schema),
           NEW d \in Calls \ {c}
    PROVE  call'[d] = call[d]
  <1>1. call \in [Calls -> Call]
    BY DEF IInv, TypeOK
  <1>2. CASE PostSucceeds(c) \/ PostRejected(c) \/ PostRaisesOther(c)
    BY <1>1, <1>2 DEF PostSucceeds, PostRejected, PostRaisesOther, Returns
  <1>3. CASE PostFails(c) \/ Retry(c) \/ Take(c)
    BY <1>1, <1>3 DEF PostFails, Retry, Take
  <1>4. CASE PostExhausted(c)
    BY <1>1, <1>4 DEF PostExhausted, Enter, Returns
  <1>5. CASE \E alias \in Aliases, schema \in Schemas : Start(c, alias, schema)
    BY <1>1, <1>5 DEF Start, Enter
  <1>6. QED
    BY <1>2, <1>3, <1>4, <1>5 DEF Progress

\* Every step of a call in an exchange or asleep between two.
LEMMA PostsStep ==
    ASSUME IInv, [Next]_vars, NEW c \in Calls, call[c].at \in {"post", "backoff"}
    PROVE  /\ PostsLeft(c) \in 0..(2 * MaxAttempts)
           /\ PostsLeft(c)' <= PostsLeft(c)
           /\ Posting(c) /\ call'[c] # call[c] => PostsLeft(c)' < PostsLeft(c)
  <1>1. /\ call \in [Calls -> Call] /\ call[c] \in Call
        /\ call[c].attempt \in 1..MaxAttempts /\ MaxAttempts \in Nat \ {0}
    BY BreakerAssumption DEF IInv, TypeOK, Call
  <1>2. PostsLeft(c) = MaxAttempts - call[c].attempt
                       + (IF Posting(c) THEN 1 ELSE 0)
                       + (IF MayFallBack(c) THEN MaxAttempts ELSE 0)
    BY DEF PostsLeft
  <1>3. PostsLeft(c) \in 0..(2 * MaxAttempts) /\ (Posting(c) => PostsLeft(c) >= 1)
    BY <1>1, <1>2
  <1>4. CASE call'[c] = call[c]
    <2>1. PostsLeft(c)' = PostsLeft(c)
      BY <1>4 DEF PostsLeft, Posting, MayFallBack, AliasOf
    <2>2. QED
      BY <1>3, <1>4, <2>1
  <1>5. ASSUME call'[c].at = "returned"
        PROVE  PostsLeft(c)' = 0
    BY <1>5 DEF PostsLeft
  <1>6. ASSUME NEW brs, NEW result, Returns(c, brs, result)
        PROVE  call'[c].at = "returned"
    BY <1>6, <1>1 DEF Returns, Call
  <1>7. CASE PostSucceeds(c) \/ PostRejected(c) \/ PostRaisesOther(c)
    <2>1. call'[c].at = "returned"
      BY <1>6, <1>7 DEF PostSucceeds, PostRejected, PostRaisesOther
    <2>2. QED
      BY <1>3, <1>5, <1>7, <2>1 DEF PostSucceeds, PostRejected, PostRaisesOther
  <1>8. CASE PostFails(c)
    <2>1. /\ Posting(c)
          /\ call'[c].at = "backoff" /\ call'[c].attempt = call[c].attempt
          /\ call'[c].alias = call[c].alias
          /\ call'[c].tried_fallback = call[c].tried_fallback
      BY <1>1, <1>8 DEF PostFails, Call
    <2>2. PostsLeft(c)' = MaxAttempts - call[c].attempt
                          + (IF MayFallBack(c) THEN MaxAttempts ELSE 0)
      BY <1>1, <2>1 DEF PostsLeft, Posting, MayFallBack, AliasOf
    <2>3. QED
      BY <1>1, <1>2, <1>3, <2>1, <2>2
  <1>9. CASE PostExhausted(c)
    <2>1. Posting(c) /\ call[c].attempt = MaxAttempts
      BY <1>9 DEF PostExhausted
    <2>2. CASE call'[c].at = "returned"
      BY <1>3, <1>5, <2>1, <2>2
    <2>3. CASE call'[c].at # "returned"
      <3>1. MayFallBack(c)
        BY <1>6, <1>9, <2>3 DEF PostExhausted
      <3>2. /\ call'[c].at = "post" /\ call'[c].attempt = 1
            /\ call'[c].tried_fallback
        BY <1>1, <1>9, <2>3, <3>1 DEF PostExhausted, Enter
      <3>3. PostsLeft(c)' = MaxAttempts
        BY <1>1, <3>2 DEF PostsLeft, Posting, MayFallBack
      <3>4. PostsLeft(c) = MaxAttempts + 1
        BY <1>1, <1>2, <2>1, <3>1
      <3>5. QED
        BY <1>1, <1>3, <3>3, <3>4
    <2>4. QED
      BY <2>2, <2>3
  <1>10. CASE Retry(c)
    <2>1. /\ call[c].at = "backoff" /\ call'[c].at = "post"
          /\ call'[c].attempt = call[c].attempt + 1
          /\ call'[c].alias = call[c].alias
          /\ call'[c].tried_fallback = call[c].tried_fallback
      BY <1>1, <1>10 DEF Retry, Call
    <2>2. PostsLeft(c)' = MaxAttempts - (call[c].attempt + 1) + 1
                          + (IF MayFallBack(c) THEN MaxAttempts ELSE 0)
      BY <1>1, <2>1 DEF PostsLeft, Posting, MayFallBack, AliasOf
    <2>3. QED
      BY <1>1, <1>2, <1>3, <2>1, <2>2 DEF Posting
  <1>11. ~Take(c) /\ \A alias, schema : ~Start(c, alias, schema)
    BY DEF Take, Start
  <1>12. ASSUME call'[c] # call[c]
         PROVE  Progress(c)
    <2>1. ~Tick /\ ~UNCHANGED vars
      BY <1>12 DEF Tick, vars
    <2>2. PICK d \in Calls :
            Progress(d) \/ \E alias \in Aliases, schema \in Schemas :
                               Start(d, alias, schema)
      BY <2>1 DEF Next
    <2>3. d = c
      BY <1>12, <2>2, OtherCalls
    <2>4. QED
      BY <1>11, <2>2, <2>3
  <1>13. QED
    BY <1>4, <1>7, <1>8, <1>9, <1>10, <1>11, <1>12 DEF Progress

-----------------------------------------------------------------------------
(***************************************************************************)
(* The ladder ends in order.                                               *)
(***************************************************************************)

\* The answer the call of a refused alias gets.
LEMMA Refused ==
    ASSUME call \in [Calls -> Call], NEW c \in Calls, NEW brs, NEW alias, NEW schema,
           NEW tried, Enter(c, brs, alias, schema, tried), call'[c].at = "returned"
    PROVE  /\ breaker' = brs /\ ~Admits(brs[alias])
           /\ call'[c].alias = alias /\ call'[c].schema = schema
           /\ call'[c].result = CachedOr(alias, schema, "GATEWAY_CIRCUIT_OPEN")
  <1>1. ~Admits(brs[alias])
    BY DEF Enter
  <1>2. QED
    BY <1>1 DEF Enter

\* Each way a call comes to a stale answer or an error of the ladder.
LEMMA LadderStep ==
    ASSUME IInv, Next, NEW c \in Calls,
           call[c].at # "returned", call'[c].at = "returned",
           call'[c].result \in {"degraded", "GATEWAY_EXHAUSTED", "GATEWAY_CIRCUIT_OPEN"}
    PROVE  /\ call'[c].result = "degraded" <=>
                  <<call'[c].alias, call'[c].schema>> \in cache
           /\ \/ call[c].at = "idle" /\ ~Admits(breaker'[call'[c].alias])
              \/ Posting(c) /\ PostsLeft(c) = 1 /\ call'[c].alias = AliasOf(c)
              \/ /\ Posting(c) /\ PostsLeft(c) = MaxAttempts + 1
                 /\ call'[c].alias # AliasOf(c)
                 /\ ~Admits(breaker'[call'[c].alias])
  <1>1. /\ call \in [Calls -> Call] /\ call[c] \in Call
        /\ call[c].attempt \in 1..MaxAttempts /\ MaxAttempts \in Nat \ {0}
    BY BreakerAssumption DEF IInv, TypeOK, Call
  <1>2. ~Tick
    BY DEF Tick
  <1>3. PICK d \in Calls :
          Progress(d) \/ \E alias \in Aliases, schema \in Schemas :
                             Start(d, alias, schema)
    BY <1>2 DEF Next
  <1>4. d = c
    BY <1>3, OtherCalls
  <1>5. ASSUME NEW brs, NEW result, Returns(c, brs, result)
        PROVE  /\ call'[c].result = result /\ call'[c].alias = AliasOf(c)
               /\ call'[c].schema = call[c].schema
    BY <1>1, <1>5 DEF Returns, AliasOf, Call
  <1>6. CASE \E alias \in Aliases, schema \in Schemas : Start(c, alias, schema)
    <2>1. PICK alias \in Aliases, schema \in Schemas : Start(c, alias, schema)
      BY <1>6
    <2>2. call[c].at = "idle" /\ Enter(c, breaker, alias, schema, FALSE)
      BY <2>1 DEF Start
    <2>3. QED
      BY <1>1, <2>2, Refused DEF CachedOr
  <1>7. CASE PostExhausted(c)
    <2>1. Posting(c) /\ call[c].attempt = MaxAttempts
      BY <1>7 DEF PostExhausted
    <2>2. CASE MayFallBack(c)
      <3>1. /\ Enter(c, AfterFailure(c), Fallback[AliasOf(c)], call[c].schema, TRUE)
            /\ Fallback[AliasOf(c)] # AliasOf(c)
        BY <1>7, <2>2 DEF PostExhausted, MayFallBack
      <3>2. PostsLeft(c) = MaxAttempts + 1
        BY <1>1, <2>1, <2>2 DEF PostsLeft, Posting
      <3>3. QED
        BY <1>1, <2>1, <3>1, <3>2, Refused DEF CachedOr
    <2>3. CASE ~MayFallBack(c)
      <3>1. Returns(c, AfterFailure(c),
                    CachedOr(AliasOf(c), call[c].schema, "GATEWAY_EXHAUSTED"))
        BY <1>7, <2>3 DEF PostExhausted
      <3>2. PostsLeft(c) = 1
        BY <1>1, <2>1, <2>3 DEF PostsLeft, Posting
      <3>3. QED
        BY <1>5, <2>1, <3>1, <3>2 DEF CachedOr
    <2>4. QED
      BY <2>2, <2>3
  <1>8. CASE PostSucceeds(c) \/ PostRejected(c) \/ PostRaisesOther(c)
    BY <1>5, <1>8 DEF PostSucceeds, PostRejected, PostRaisesOther
  <1>9. CASE PostFails(c) \/ Retry(c) \/ Take(c)
    <2>1. call'[c].at # "returned"
      BY <1>1, <1>9 DEF PostFails, Retry, Take, Call
    <2>2. QED
      BY <2>1
  <1>10. QED
    BY <1>3, <1>4, <1>6, <1>7, <1>8, <1>9 DEF Progress

-----------------------------------------------------------------------------
\* The invariant, whatever the transport raises.
THEOREM Invariant == Spec => []IInv
  <1>1. IInv /\ [Next]_vars => IInv'
    BY NextInv
  <1>2. QED
    BY <1>1, InitInv, PTL DEF Spec

\* Every attempt counter, breaker and cache entry stays in its range.
THEOREM TypeCorrect == Spec => []TypeOK
  <1>1. IInv => TypeOK
    BY DEF IInv
  <1>2. QED
    BY <1>1, Invariant, PTL

\* A half-open breaker waits for a probe in flight: it never goes on refusing
\* calls with nothing left to close it, so the last branch of allow, a second
\* probe of a half-open breaker without one, is never taken.
THEOREM NeverStuckHalfOpen ==
    ASSUME ~OtherErrors
    PROVE  Spec => []HalfOpenHasProbe
  <1>1. IInv => HalfOpenHasProbe
    BY DEF IInv, ProbeKept
  <1>2. QED
    BY <1>1, Invariant, PTL

\* A closed breaker never holds as many failures of its window as open it, with
\* any number of calls, aliases and ages, and whatever the transport raises.
THEOREM ClosedIsBelow == Spec => []ClosedBelowThreshold
  <1>1. Init => ClosedBelowThreshold
    <2>1. \A b \in Breaker : InWindow(NewBreaker) = 0
      BY WindowNat
    <2>2. QED
      BY <2>1, NewTypes, BreakerAssumption DEF Init, ClosedBelowThreshold
  <1>2. IInv /\ ClosedBelowThreshold /\ [Next]_vars => ClosedBelowThreshold'
    BY ClosedStep
  <1>3. QED
    BY <1>1, <1>2, Invariant, PTL DEF Spec

\* Every exchange of a call uses up one of those it starts with: complete_json
\* makes at most MaxAttempts for the alias and as many for its fallback.
THEOREM PostsBounded == Spec => PostsRunOut
  <1>1. IInv /\ [Next]_vars =>
          [\A c \in Calls : call[c].at \in {"post", "backoff"} =>
             /\ PostsLeft(c) \in 0..(2 * MaxAttempts)
             /\ PostsLeft(c)' <= PostsLeft(c)
             /\ Posting(c) /\ call'[c] # call[c] =>
                    PostsLeft(c)' < PostsLeft(c)]_vars
    BY PostsStep
  <1>2. QED
    BY <1>1, Invariant, PTL DEF Spec, PostsRunOut

\* Stale answers and errors come last, for every number of attempts, every map of
\* fallbacks and every threshold.
THEOREM LadderKept == Spec => LadderInOrder
  <1> DEFINE Step ==
        \A c \in Calls :
          LET answer == call'[c]
              refused == ~Admits(breaker'[answer.alias])
          IN  /\ call[c].at # "returned" /\ answer.at = "returned"
              /\ answer.result \in {"degraded", "GATEWAY_EXHAUSTED",
                                    "GATEWAY_CIRCUIT_OPEN"}
              => /\ answer.result = "degraded" <=>
                        <<answer.alias, answer.schema>> \in cache
                 /\ \/ call[c].at = "idle" /\ refused
                    \/ Posting(c) /\ PostsLeft(c) = 1 /\ answer.alias = AliasOf(c)
                    \/ /\ Posting(c) /\ PostsLeft(c) = MaxAttempts + 1
                       /\ answer.alias # AliasOf(c) /\ refused
  <1>1. IInv /\ [Next]_vars => [Step]_vars
    <2>1. IInv /\ Next => Step
      BY LadderStep
    <2>2. QED
      BY <2>1
  <1>2. QED
    BY <1>1, Invariant, PTL DEF Spec, LadderInOrder
=============================================================================
