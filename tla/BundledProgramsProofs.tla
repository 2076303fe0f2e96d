----------------------- MODULE BundledProgramsProofs -----------------------
(***************************************************************************)
(* What the two bundled programs do, for every list of names, every        *)
(* number of rounds, every count in a result and every number of retries.  *)
(***************************************************************************)
EXTENDS BundledPrograms, FiniteSetTheorems, SequenceTheorems, TLAPS

Lib == INSTANCE DriverProofs
         WITH GenStates <- Points,
              ParamsLeft <- [pa \in Programs \X Params |-> pa[2]]

-----------------------------------------------------------------------------
(* The programs as automata.                                                 *)

LEMMA CountsAreNat == Counts \subseteq Nat /\ DefaultRounds \in Nat
BY BundledAssumption

\* What agents pass is what the programs can be started with.
LEMMA ParamsType ==
  ASSUME NEW a \in Params
  PROVE  /\ a.names \in Seq(People) \cup {Absent, NoList}
         /\ a.max_rounds \in Int \cup {Absent, NoInteger}
BY BundledAssumption DEF Params

\* hello.py starts at one of its points (hello.py:45-50).
LEMMA HelloFirst ==
  ASSUME NEW a \in Params
  PROVE  Hello!First(a.names) \in Hello!Points
<1>1. Hello!NamesOf(a.names) \in Seq(People) \cup {NoList}
  <2>1. <<World>> \in Seq(People)
    BY BundledAssumption
  <2> QED BY <2>1, ParamsType DEF Hello!NamesOf
<1>2. <<>> \in Seq(People \X Messages)
  OBVIOUS
<1>3. QED BY <1>1, <1>2 DEF Hello!First, Hello!Points

\* A point that asks for a greeting has a name to go with it (hello.py:52).
LEMMA HelloAsks ==
  ASSUME NEW g \in Hello!Points, Hello!KindAt(g) = "instruction"
  PROVE  /\ g.names \in Seq(People)
         /\ g.greetings \in Seq(People \X Messages)
         /\ Len(g.greetings) \in Nat /\ Len(g.names) \in Nat
         /\ Len(g.greetings) < Len(g.names)
<1>1. g.names # NoList /\ Len(g.greetings) < Len(g.names)
  BY DEF Hello!KindAt
<1>2. g.names \in Seq(People) /\ g.greetings \in Seq(People \X Messages)
  BY <1>1 DEF Hello!Points
<1>3. QED BY <1>1, <1>2

\* Where hello.py goes on it stops at one of its points, and the greeting went
\* with the name of this turn (hello.py:52-64).
LEMMA HelloGreets ==
  ASSUME NEW g \in Hello!Points, Hello!KindAt(g) = "instruction",
         NEW r \in Messages
  PROVE  LET k == Len(g.greetings) + 1
             h == Hello!After(g, r)
         IN  /\ h \in Hello!Points
             /\ h.names = g.names
             /\ h.greetings = Append(g.greetings, <<g.names[k], r>>)
             /\ g.names[k] \in People
<1> DEFINE k == Len(g.greetings) + 1
<1>1. /\ g.names \in Seq(People) /\ g.greetings \in Seq(People \X Messages)
      /\ k \in 1..Len(g.names)
  BY HelloAsks
<1>2. g.names[k] \in People
  BY <1>1
<1>3. <<g.names[k], r>> \in People \X Messages
  BY <1>2
<1>4. Append(g.greetings, <<g.names[k], r>>) \in Seq(People \X Messages)
  BY <1>1, <1>3
<1>5. Hello!After(g, r) =
        [g EXCEPT !.greetings = Append(@, <<g.names[k], r>>)]
  BY DEF Hello!After, Hello!Accepts, Hello!Greeted
<1> HIDE DEF k
<1>6. QED BY <1>2, <1>4, <1>5 DEF Hello!Points, k

\* So does the head of the loop of review_rounds.py.
LEMMA NextRoundType ==
  ASSUME NEW g \in Review!Points
  PROVE  Review!NextRound(g) \in Review!Points
<1>1. CASE g.round_num < g.max_rounds
  <2>1. g.round_num + 1 \in Nat
    BY DEF Review!Points
  <2>2. [g EXCEPT !.at = "review", !.round_num = @ + 1] \in Review!Points
    BY <2>1 DEF Review!Points, Review!Steps
  <2> QED BY <1>1, <2>2 DEF Review!NextRound
<1>2. CASE ~ (g.round_num < g.max_rounds)
  <2>1. [g EXCEPT !.at = "rounds_used_up"] \in Review!Points
    BY DEF Review!Points
  <2> QED BY <1>2, <2>1 DEF Review!NextRound
<1>3. QED BY <1>1, <1>2

\* review_rounds.py starts at one of its points (review_rounds.py:196-205).
LEMMA ReviewFirst ==
  ASSUME NEW a \in Params
  PROVE  Review!First(a.max_rounds) \in Review!Points
<1> DEFINE limit == Review!LimitOf(a.max_rounds)
<1>1. ASSUME NEW n \in Int
      PROVE  /\ Review!Fresh(n) \in Review!Points
             /\ [Review!Fresh(n) EXCEPT !.at = "type_error"] \in Review!Points
             /\ Review!NextRound(Review!Fresh(n)) \in Review!Points
  <2>1. Review!Fresh(n) \in Review!Points
    BY DEF Review!Fresh, Review!Points, Review!Steps
  <2>2. [Review!Fresh(n) EXCEPT !.at = "type_error"] \in Review!Points
    BY <2>1 DEF Review!Points
  <2> QED BY <2>1, <2>2, NextRoundType
<1>2. CASE a.max_rounds = NoInteger
  BY <1>1, <1>2 DEF Review!First
<1>3. CASE a.max_rounds # NoInteger
  <2>1. limit \in Int
    BY <1>3, ParamsType, CountsAreNat DEF Review!LimitOf
  <2> QED BY <1>1, <1>3, <2>1 DEF Review!First
<1>4. QED BY <1>2, <1>3

\* And it goes on to one of them (review_rounds.py:205-300).
LEMMA ReviewAfter ==
  ASSUME NEW g \in Review!Points, NEW r
  PROVE  Review!After(g, r) \in Review!Points
<1>1. CASE ~ Review!Accepts(g, r)
  BY <1>1 DEF Review!After
<1>2. CASE Review!Accepts(g, r) /\ g.at = "review"
  <2>1. r \in Review!Reviews
    BY <1>2 DEF Review!Accepts, Review!Answers, Review!Reviews,
                Review!Responds, Review!Resolves
  <2>2. Review!Reviewed(g, r) \in Review!Points
    BY <2>1 DEF Review!Reviewed, Review!Points, Review!Steps, Review!Reviews
  <2> QED BY <1>2, <2>2 DEF Review!After
<1>3. CASE Review!Accepts(g, r) /\ g.at = "respond"
  <2>1. r \in Review!Responds
    BY <1>3 DEF Review!Accepts, Review!Answers, Review!Reviews,
                Review!Responds, Review!Resolves
  <2>2. r.fixed_count \in Nat /\ r.wontfix_count \in Nat /\ r.code_changed \in BOOLEAN
    BY <2>1, CountsAreNat DEF Review!Responds
  <2>3. g.total_fixed + r.fixed_count \in Nat /\ g.total_wontfix + r.wontfix_count \in Nat
    BY <2>2 DEF Review!Points
  <2>4. Review!Responded(g, r) \in Review!Points
    BY <2>2, <2>3 DEF Review!Responded, Review!Points, Review!Steps
  <2> QED BY <1>3, <2>4 DEF Review!After
<1>4. CASE Review!Accepts(g, r) /\ g.at = "resolve"
  <2>1. r \in Review!Resolves
    BY <1>4 DEF Review!Accepts, Review!Answers, Review!Reviews,
                Review!Responds, Review!Resolves
  <2>2. r.unresolved_count \in Nat
    BY <2>1, CountsAreNat DEF Review!Resolves
  <2> DEFINE told == [g EXCEPT !.last_unresolved = r.unresolved_count]
  <2>3. /\ told \in Review!Points
        /\ [told EXCEPT !.at = "no_changes"] \in Review!Points
    BY <2>2 DEF Review!Points
  <2>4. Review!Resolved(g, r) \in
          {Review!NextRound(told), [told EXCEPT !.at = "no_changes"]}
    BY DEF Review!Resolved
  <2> HIDE DEF told
  <2>5. Review!Resolved(g, r) \in Review!Points
    BY <2>3, <2>4, NextRoundType
  <2> QED BY <1>4, <2>5 DEF Review!After
<1>5. CASE g.at \notin {"review", "respond", "resolve"}
  BY <1>5 DEF Review!After
<1>6. QED BY <1>1, <1>2, <1>3, <1>4, <1>5

\* No point belongs to both programs.
LEMMA PointsDiffer ==
  \A g \in Review!Points : g \notin Hello!Points
BY DEF Review!Points, Hello!Points

\* What is seen at a point is a reaction of a program.
LEMMA KindsType ==
  /\ \A g \in Hello!Points :
       Hello!KindAt(g) \in {"raise", "abort", "instruction", "done"}
  /\ \A g \in Review!Points :
       Review!KindAt(g) \in {"raise", "abort", "instruction", "done"}
<1>1. ASSUME NEW g \in Hello!Points
      PROVE  Hello!KindAt(g) \in {"raise", "abort", "instruction", "done"}
  BY DEF Hello!KindAt
<1>2. ASSUME NEW g \in Review!Points
      PROVE  Review!KindAt(g) \in {"raise", "abort", "instruction", "done"}
  BY DEF Review!KindAt, Review!Points, Review!Steps
<1>3. QED BY <1>1, <1>2

\* The two programs are what the driver is made for: they start at a point, and
\* wherever they are resumed they stop at one.
LEMMA ProgramsFit == Lib!ProgramAssumption
<1>1. Entry \in [Programs \X Params -> Points]
  BY HelloFirst, ReviewFirst DEF Entry, Points
<1>2. [pa \in Programs \X Params |-> pa[2]] \in [Programs \X Params -> Params]
  OBVIOUS
<1>3. ASSUME NEW g \in Points, NEW r \in Results
      PROVE  Resumed[<<g, r>>] \in Points
  <2>1. CASE g \in Hello!Points
    <3>1. Hello!After(g, r) \in Hello!Points
      BY <2>1, HelloGreets DEF Hello!After, Hello!Accepts
    <3> QED BY <2>1, <3>1 DEF Resumed, Points
  <2>2. CASE g \notin Hello!Points
    <3>1. g \in Review!Points
      BY <2>2 DEF Points
    <3>2. Review!After(g, r) \in Review!Points
      BY <3>1, ReviewAfter
    <3> QED BY <2>2, <3>2 DEF Resumed, Points
  <2> QED BY <2>1, <2>2
<1>4. Resumed \in [Points \X Results -> Points]
  <2>1. Resumed = [gr \in Points \X Results |-> Resumed[gr]]
    BY DEF Resumed
  <2>2. ASSUME NEW gr \in Points \X Results
        PROVE  Resumed[gr] \in Points
    <3>1. gr = <<gr[1], gr[2]>> /\ gr[1] \in Points /\ gr[2] \in Results
      OBVIOUS
    <3> QED BY <1>3, <3>1
  <2> HIDE DEF Resumed
  <2> QED BY <2>1, <2>2
<1>5. Yields \in [Points -> Lib!Reactions]
  <2>1. ASSUME NEW g \in Points
        PROVE  [kind       |-> KindAt(g),
                verdict    |-> [r \in Results |-> IF Accepts(g, r) THEN "valid"
                                                  ELSE "invalid"],
                on_invalid |-> "retry"] \in Lib!Reactions
    <3>1. KindAt(g) \in {"raise", "abort", "instruction", "done"}
      BY KindsType DEF KindAt, Points
    <3> QED BY <3>1 DEF Lib!Reactions
  <2> QED BY <2>1 DEF Yields
<1>6. QED BY <1>1, <1>2, <1>4, <1>5 DEF Lib!ProgramAssumption

LEMMA NoDriverFits == Lib!NoDriverAssumption
<1>1. Lib!Drivers = Run!Drivers
  BY DEF Lib!Drivers, Lib!States, Lib!LastYields,
         Run!Drivers, Run!States, Run!LastYields
<1>2. QED BY <1>1, NoDriverAssumption DEF Lib!NoDriverAssumption

-----------------------------------------------------------------------------
(* Sums over a finite set.  The library's theorems about folds are for any   *)
(* operator, which the provers cannot instantiate: what follows is about the *)
(* function that MapThenSumSet defines, for a function h that is summed up.  *)

Chosen(s) == CHOOSE x \in s : TRUE

\* f[s] is the sum of h over s, for the subsets s of S.
IsSum(h, S, f) ==
  f = [s \in SUBSET S |->
         IF s = {} THEN 0 ELSE h[Chosen(s)] + f[s \ {Chosen(s)}]]

\* Less one element, a finite set is smaller.
LEMMA OneLess ==
  ASSUME NEW S, IsFiniteSet(S), NEW s \in SUBSET S, s # {}
  PROVE  /\ Chosen(s) \in s
         /\ IsFiniteSet(s) /\ IsFiniteSet(s \ {Chosen(s)})
         /\ Cardinality(s) \in Nat /\ Cardinality(s) # 0
         /\ Cardinality(s \ {Chosen(s)}) = Cardinality(s) - 1
<1>1. Chosen(s) \in s
  BY DEF Chosen
<1>2. IsFiniteSet(s)
  BY FS_Subset
<1>3. QED BY <1>1, <1>2, FS_RemoveElement, FS_CardinalityType, FS_EmptySet

\* The recursive definition of MapThenFoldSet defines a function.
LEMMA SumExists ==
  ASSUME NEW S, IsFiniteSet(S), NEW h
  PROVE  \E f : IsSum(h, S, f)
<1> DEFINE Below(n) == {s \in SUBSET S : Cardinality(s) <= n}
           Sum(f, s) == IF s = {} THEN 0 ELSE h[Chosen(s)] + f[s \ {Chosen(s)}]
           Defined == {n \in Nat : \E f : f = [s \in Below(n) |-> Sum(f, s)]}
<1>1. 0 \in Defined
  <2> DEFINE f == [s \in Below(0) |-> 0]
  <2>1. ASSUME NEW s \in Below(0)
        PROVE  s = {}
    BY <2>1, FS_Subset, FS_EmptySet, FS_CardinalityType
  <2>2. f = [s \in Below(0) |-> Sum(f, s)]
    BY <2>1
  <2> QED BY <2>2
<1>2. ASSUME NEW n \in Nat, n \in Defined
      PROVE  n + 1 \in Defined
  <2>1. PICK f : f = [s \in Below(n) |-> Sum(f, s)]
    BY <1>2
  <2> DEFINE g == [s \in Below(n + 1) |-> Sum(f, s)]
  <2>2. ASSUME NEW s \in Below(n + 1)
        PROVE  Sum(f, s) = Sum(g, s)
    <3>1. CASE s = {}
      BY <3>1
    <3>2. CASE s # {}
      <4> DEFINE t == s \ {Chosen(s)}
      <4>1. t \in Below(n) /\ t \in Below(n + 1)
        BY <3>2, OneLess
      <4>2. f[t] = Sum(f, t)
        <5> HIDE DEF t, Sum
        <5> QED BY <2>1, <4>1
      <4>3. g[t] = Sum(f, t)
        <5> HIDE DEF t, Sum, Below
        <5> QED BY <4>1
      <4> HIDE DEF t, g
      <4>4. Sum(f, s) = h[Chosen(s)] + f[t] /\ Sum(g, s) = h[Chosen(s)] + g[t]
        BY <3>2 DEF t
      <4> QED BY <4>2, <4>3, <4>4
    <3> QED BY <3>1, <3>2
  <2>3. g = [s \in Below(n + 1) |-> Sum(g, s)]
    <3> HIDE DEF Sum, Below
    <3> QED BY <2>2
  <2> HIDE DEF g, Sum, Below
  <2> QED BY <2>3
<1>3. Cardinality(S) \in Nat
  BY FS_CardinalityType
<1>4. Cardinality(S) \in Defined
  <2> HIDE DEF Defined
  <2> QED BY <1>1, <1>2, <1>3, Lib!SetInduction, ProgramsFit, NoDriverFits
<1>5. Below(Cardinality(S)) = SUBSET S
  BY FS_Subset
<1>6. QED BY <1>4, <1>5 DEF IsSum

\* A sum is what the definition says.
LEMMA SumIs ==
  ASSUME NEW S, NEW h, NEW f, IsSum(h, S, f)
  PROVE  \A s \in SUBSET S :
           f[s] = IF s = {} THEN 0 ELSE h[Chosen(s)] + f[s \ {Chosen(s)}]
<1> DEFINE Sum(s) == IF s = {} THEN 0 ELSE h[Chosen(s)] + f[s \ {Chosen(s)}]
<1>1. f = [s \in SUBSET S |-> Sum(s)]
  BY DEF IsSum
<1> HIDE DEF Sum
<1>2. \A s \in SUBSET S : f[s] = Sum(s)
  BY <1>1
<1>3. QED BY <1>2 DEF Sum

\* It adds what an element counts, whichever elements are chosen first.
LEMMA SumAdds ==
  ASSUME NEW S, IsFiniteSet(S), NEW h \in [S -> Nat], NEW f, IsSum(h, S, f),
         NEW s \in SUBSET S
  PROVE  /\ f[s] \in Nat
         /\ \A x \in S \ s : f[s \cup {x}] = h[x] + f[s]
<1> DEFINE Adds(t) == /\ f[t] \in Nat
                      /\ \A x \in S \ t : f[t \cup {x}] = h[x] + f[t]
           True(n) == \A t \in SUBSET S : Cardinality(t) = n => Adds(t)
           Nats == {n \in Nat : True(n)}
<1>1. 0 \in Nats
  <2> SUFFICES ASSUME NEW t \in SUBSET S, Cardinality(t) = 0
               PROVE  Adds(t)
    OBVIOUS
  <2>1. t = {}
    BY FS_Subset, FS_EmptySet
  <2>2. f[t] = 0
    BY <2>1, SumIs
  <2>3. ASSUME NEW x \in S \ t
        PROVE  f[t \cup {x}] = h[x] + f[t]
    <3> DEFINE v == t \cup {x}
    <3>1. v \in SUBSET S /\ v # {} /\ Chosen(v) = x
      BY <2>1 DEF Chosen
    <3>2. v \ {x} = t
      BY <2>1
    <3>3. f[v] = IF v = {} THEN 0 ELSE h[Chosen(v)] + f[v \ {Chosen(v)}]
      <4> HIDE DEF v
      <4> QED BY <3>1, SumIs
    <3> QED BY <3>1, <3>2, <3>3
  <2> QED BY <2>2, <2>3
<1>2. ASSUME NEW n \in Nat, n \in Nats
      PROVE  n + 1 \in Nats
  <2> SUFFICES ASSUME NEW t \in SUBSET S, Cardinality(t) = n + 1
               PROVE  Adds(t)
    OBVIOUS
  <2>1. ASSUME NEW u \in SUBSET S, Cardinality(u) = n
        PROVE  Adds(u)
    BY <1>2, <2>1
  <2>2. IsFiniteSet(t) /\ t # {}
    BY FS_Subset, FS_EmptySet
  <2>3. ASSUME NEW c \in t
        PROVE  /\ Adds(t \ {c})
               /\ f[t] = h[c] + f[t \ {c}]
    <3>1. Cardinality(t \ {c}) = n /\ t \ {c} \in SUBSET S
      <4>1. Cardinality(t \ {c}) = Cardinality(t) - 1
        BY <2>2, FS_RemoveElement
      <4> QED BY <4>1
    <3>2. Adds(t \ {c})
      <4> HIDE DEF Adds
      <4> QED BY <2>1, <3>1
    <3>3. (t \ {c}) \cup {c} = t /\ c \in S \ (t \ {c})
      OBVIOUS
    <3> QED BY <3>2, <3>3
  <2>4. ASSUME NEW x \in S \ t
        PROVE  f[t \cup {x}] = h[x] + f[t]
    <3> DEFINE v == t \cup {x}
               c == Chosen(v)
    <3>1. v \in SUBSET S /\ c \in v /\ f[v] = h[c] + f[v \ {c}]
      <4>1. v # {} /\ v \in SUBSET S
        OBVIOUS
      <4>2. c \in v
        BY <4>1 DEF Chosen
      <4> HIDE DEF v, c
      <4> QED BY <4>1, <4>2, SumIs DEF c
    <3> HIDE DEF c
    <3>2. CASE c = x
      <4>1. v \ {c} = t
        BY <3>2
      <4> QED BY <3>1, <3>2, <4>1
    <3>3. CASE c # x
      <4>1. c \in t /\ v \ {c} = (t \ {c}) \cup {x} /\ x \in S \ (t \ {c})
        BY <3>1, <3>3
      <4>2. f[v \ {c}] = h[x] + f[t \ {c}]
        BY <2>3, <4>1
      <4>3. f[t] = h[c] + f[t \ {c}] /\ f[t \ {c}] \in Nat
        BY <2>3, <4>1
      <4>4. h[c] \in Nat /\ h[x] \in Nat
        BY <4>1
      <4> QED BY <3>1, <4>2, <4>3, <4>4
    <3> QED BY <3>2, <3>3
  <2>5. f[t] \in Nat
    <3>1. PICK c : c \in t
      BY <2>2
    <3>2. f[t \ {c}] \in Nat /\ f[t] = h[c] + f[t \ {c}] /\ h[c] \in Nat
      BY <2>3, <3>1
    <3> QED BY <3>2
  <2> QED BY <2>4, <2>5
<1>3. \A n \in Nat : n \in Nats
  <2> HIDE DEF Nats
  <2> QED BY <1>1, <1>2, Lib!SetInduction, ProgramsFit, NoDriverFits
<1>4. Cardinality(s) \in Nat
  BY FS_Subset, FS_CardinalityType
<1>5. Adds(s)
  <2> HIDE DEF Adds
  <2> QED BY <1>3, <1>4
<1>6. QED BY <1>5

\* A sum over a set depends on what its elements count only.
LEMMA SumsAgree ==
  ASSUME NEW S, IsFiniteSet(S), NEW h, NEW f, IsSum(h, S, f),
         NEW T \in SUBSET S, NEW k, NEW g, IsSum(k, T, g),
         \A x \in T : h[x] = k[x]
  PROVE  f[T] = g[T]
<1> DEFINE Nats == {n \in Nat : \A t \in SUBSET T : Cardinality(t) = n => f[t] = g[t]}
<1>1. IsFiniteSet(T)
  BY FS_Subset
<1>2. 0 \in Nats
  <2> SUFFICES ASSUME NEW t \in SUBSET T, Cardinality(t) = 0
               PROVE  f[t] = g[t]
    OBVIOUS
  <2>1. t = {} /\ t \in SUBSET S
    BY <1>1, FS_Subset, FS_EmptySet
  <2>2. f[t] = 0 /\ g[t] = 0
    BY <2>1, SumIs
  <2> QED BY <2>2
<1>3. ASSUME NEW n \in Nat, n \in Nats
      PROVE  n + 1 \in Nats
  <2> SUFFICES ASSUME NEW t \in SUBSET T, Cardinality(t) = n + 1
               PROVE  f[t] = g[t]
    OBVIOUS
  <2>1. t # {} /\ t \in SUBSET S
    BY FS_EmptySet
  <2> DEFINE c == Chosen(t)
             u == t \ {c}
  <2>2. c \in t /\ u \in SUBSET T /\ Cardinality(u) = n
    BY <1>1, <2>1, OneLess
  <2>3. f[t] = h[c] + f[u] /\ g[t] = k[c] + g[u]
    <3>1. \A s \in SUBSET S :
            f[s] = IF s = {} THEN 0 ELSE h[Chosen(s)] + f[s \ {Chosen(s)}]
      BY SumIs
    <3>2. \A s \in SUBSET T :
            g[s] = IF s = {} THEN 0 ELSE k[Chosen(s)] + g[s \ {Chosen(s)}]
      BY SumIs
    <3> QED BY <2>1, <3>1, <3>2
  <2>4. f[u] = g[u]
    BY <1>3, <2>2
  <2>5. h[c] = k[c]
    BY <2>2
  <2> QED BY <2>3, <2>4, <2>5
<1>4. \A n \in Nat : n \in Nats
  <2> HIDE DEF Nats
  <2> QED BY <1>2, <1>3, Lib!SetInduction, ProgramsFit, NoDriverFits
<1>5. Cardinality(T) \in Nat
  BY <1>1, FS_CardinalityType
<1>6. QED BY <1>4, <1>5

\* The sum of a function over its whole domain is such a sum.
LEMMA TotalIsSum ==
  ASSUME NEW h, IsFiniteSet(DOMAIN h)
  PROVE  \E f : IsSum(h, DOMAIN h, f) /\ SumFunction(h) = f[DOMAIN h]
<1> DEFINE S == DOMAIN h
           Def(f) == f = [s \in SUBSET S |->
                            IF s = {} THEN 0
                            ELSE h[CHOOSE x \in s : TRUE]
                                   + f[s \ {CHOOSE x \in s : TRUE}]]
<1>1. \A f : IsSum(h, S, f) <=> Def(f)
  BY DEF IsSum, Chosen
<1>2. SumFunction(h) = (CHOOSE f : Def(f))[S]
  BY DEF SumFunction, SumFunctionOnSet, FoldFunctionOnSet, MapThenFoldSet
<1>3. Def(CHOOSE f : Def(f))
  <2>1. \E f : Def(f)
    <3> HIDE DEF Def
    <3> QED BY <1>1, SumExists
  <2> HIDE DEF Def
  <2> QED BY <2>1
<1> HIDE DEF Def
<1>4. QED BY <1>1, <1>2, <1>3

\* k counts what h counts, and x besides.
CountsAlso(k, h, S, x) ==
  /\ x \notin S
  /\ h \in [S -> Nat]
  /\ k \in [S \cup {x} -> Nat]
  /\ \A i \in S : k[i] = h[i]

\* One element more adds what it counts to a total.
LEMMA TotalAdds ==
  ASSUME NEW S, IsFiniteSet(S), NEW x, NEW h, NEW k, CountsAlso(k, h, S, x)
  PROVE  SumFunction(k) = SumFunction(h) + k[x]
<1> USE DEF CountsAlso
<1> DEFINE T == S \cup {x}
<1>1. DOMAIN k = T /\ DOMAIN h = S /\ k \in [T -> Nat] /\ k[x] \in Nat
  OBVIOUS
<1>2. IsFiniteSet(T) /\ S \in SUBSET T /\ x \in T \ S
  BY FS_AddElement
<1> HIDE DEF T
<1>3. PICK f : IsSum(h, S, f) /\ SumFunction(h) = f[S]
  BY <1>1, TotalIsSum
<1>4. PICK g : IsSum(k, T, g) /\ SumFunction(k) = g[T]
  BY <1>1, <1>2, TotalIsSum
<1>5. g[T] = k[x] + g[S] /\ g[S] \in Nat
  <2>1. g[S] \in Nat /\ \A y \in T \ S : g[S \cup {y}] = k[y] + g[S]
    BY <1>1, <1>2, <1>4, SumAdds
  <2> QED BY <1>2, <2>1 DEF T
<1>6. g[S] = f[S]
  BY <1>2, <1>3, <1>4, SumsAgree
<1>7. QED BY <1>1, <1>3, <1>4, <1>5, <1>6

-----------------------------------------------------------------------------
(* The driver of a run, as far as the properties look at it.                 *)

StateAt(kind) ==
  CASE kind = "instruction" -> "awaiting_result"
    [] kind = "done"        -> "completed"
    [] kind = "abort"       -> "aborted"
    [] kind = "raise"       -> "failed"

\* A driver whose program p stands at g.
DriverAt(d, p, g) ==
  /\ d \in Run!Drivers
  /\ d.program = p
  /\ d.gen = g
  /\ d.state = StateAt(KindAt(g))
  /\ d.pending = (d.state = "awaiting_result")

\* Issuing an instruction, again or anew (runtime.py:216-254).
LEMMA IssueStands ==
  ASSUME NEW d \in Run!Drivers, NEW reissue \in BOOLEAN
  PROVE  LET e == Run!Issue(d, reissue)
         IN  /\ e \in Run!Drivers
             /\ e.program = d.program /\ e.gen = d.gen
             /\ e.state = "awaiting_result" /\ e.pending = TRUE
<1>1. d.step_no + 1 \in Nat
  BY DEF Run!Drivers
<1>2. [kind |-> "instruction", step_no |-> d.step_no + 1,
       reissued |-> reissue] \in Run!LastYields
  BY <1>1 DEF Run!LastYields
<1>3. "awaiting_result" \in Run!States
  BY DEF Run!States
<1>4. QED BY <1>1, <1>2, <1>3 DEF Run!Issue, Run!Drivers

\* Wherever the program stops, the driver stands there (runtime.py:154-193).
LEMMA ReachStands ==
  ASSUME NEW d \in Run!Drivers, NEW g \in Points
  PROVE  DriverAt(Run!Reach(d, g), d.program, g)
<1> DEFINE moved == [d EXCEPT !.gen = g]
           kind  == KindAt(g)
<1>1. kind \in {"raise", "abort", "instruction", "done"}
  BY KindsType DEF KindAt, Points
<1>2. Yields[g].kind = kind
  BY DEF Yields
<1>3. moved \in Run!Drivers /\ moved.gen = g /\ moved.program = d.program
      /\ moved.step_no \in Nat
  BY DEF Run!Drivers
<1> HIDE DEF moved, kind
<1>4. CASE kind = "instruction"
  <2> DEFINE e == Run!Issue(moved, FALSE)
  <2>1. Run!Reach(d, g) = e
    BY <1>2, <1>4 DEF Run!Reach, moved
  <2>2. /\ e \in Run!Drivers
        /\ e.gen = g /\ e.program = d.program
        /\ e.state = "awaiting_result" /\ e.pending = TRUE
    BY <1>3, IssueStands
  <2>3. StateAt(kind) = "awaiting_result"
    BY <1>4 DEF StateAt
  <2> HIDE DEF e
  <2> QED BY <2>1, <2>2, <2>3 DEF DriverAt, kind
<1>5. CASE kind # "instruction"
  <2> DEFINE state == StateAt(kind)
             last  == CASE kind = "done"  -> "done"
                        [] kind = "abort" -> "abort"
                        [] kind = "raise" -> "error"
             e     == Run!Finish(moved, state, last)
  <2>1. /\ state \in {"completed", "aborted", "failed"}
        /\ last \in {"done", "abort", "error"}
    BY <1>1, <1>5 DEF StateAt
  <2>2. Run!Reach(d, g) = e
    BY <1>1, <1>2, <1>5 DEF Run!Reach, Run!Done, Run!Abort, Run!Fail, StateAt, moved
  <2> HIDE DEF state, last
  <2>3. e.state = state /\ e.pending = FALSE
        /\ e.gen = g /\ e.program = d.program
    BY <1>3 DEF Run!Finish, Run!Drivers
  <2>4. e \in Run!Drivers
    BY <1>3, <2>1 DEF Run!Finish, Run!Drivers, Run!States, Run!LastYields
  <2> HIDE DEF e
  <2> QED BY <2>1, <2>2, <2>3, <2>4 DEF DriverAt, kind, state
<1>6. QED BY <1>4, <1>5

\* sequencer_start: the driver stands where the program stops first
\* (runtime.py:52-93).
LEMMA StartStands ==
  ASSUME NEW p \in Programs, NEW a \in Params
  PROVE  /\ Entry[<<p, a>>] \in Points
         /\ DriverAt(Run!Start(p, a), p, Entry[<<p, a>>])
<1> DEFINE g == Entry[<<p, a>>]
<1>1. g \in Points
  BY ProgramsFit DEF Lib!ProgramAssumption
<1> HIDE DEF g
<1>2. Yields[g].kind # "not_built"
  <2>1. KindAt(g) \in {"raise", "abort", "instruction", "done"}
    BY <1>1, KindsType DEF KindAt, Points
  <2> QED BY <1>1, <2>1 DEF Yields
<1>3. Run!NewDriver(p, g) \in Run!Drivers /\ Run!NewDriver(p, g).program = p
  BY <1>1 DEF Run!NewDriver, Run!Drivers, Run!LastYields, Run!States
<1>4. Run!Start(p, a) = Run!Reach(Run!NewDriver(p, g), g)
  BY <1>2 DEF Run!Start, Run!Launch, g
<1>5. QED BY <1>1, <1>3, <1>4, ReachStands DEF g

\* sequencer_next: a valid result takes the program on, an invalid one leaves it
\* where it stands (runtime.py:95-136).
LEMMA SendStands ==
  ASSUME NEW d, NEW p, NEW g \in Points, DriverAt(d, p, g),
         ~ Run!IsTerminal(d), NEW r \in Results
  PROVE  /\ KindAt(g) = "instruction"
         /\ Run!Verdict(d, r) = "valid" =>
              /\ Accepts(g, r)
              /\ Resumed[<<g, r>>] \in Points
              /\ DriverAt(Run!Send(d, r), p, Resumed[<<g, r>>])
         /\ Run!Verdict(d, r) = "invalid" => DriverAt(Run!Send(d, r), p, g)
<1>1. KindAt(g) \in {"raise", "abort", "instruction", "done"}
  BY KindsType DEF KindAt, Points
<1>2. /\ d \in Run!Drivers /\ d.gen = g /\ d.program = p
      /\ d.pending = (d.state = "awaiting_result")
      /\ d.state = StateAt(KindAt(g))
  BY DEF DriverAt
<1>3. d.state = "awaiting_result" /\ d.pending
  BY <1>2 DEF Run!IsTerminal, Run!TerminalStates, Run!Drivers, Run!States
<1>4. KindAt(g) = "instruction"
  BY <1>1, <1>2, <1>3 DEF StateAt
<1>5. /\ Run!Verdict(d, r) = (IF Accepts(g, r) THEN "valid" ELSE "invalid")
      /\ Yields[g].on_invalid = "retry"
  BY <1>2 DEF Run!Verdict, Yields
<1>6. ASSUME Run!Verdict(d, r) = "valid"
      PROVE  /\ Accepts(g, r)
             /\ Resumed[<<g, r>>] \in Points
             /\ DriverAt(Run!Send(d, r), p, Resumed[<<g, r>>])
  <2>1. Resumed[<<g, r>>] \in Points
    BY ProgramsFit DEF Lib!ProgramAssumption
  <2>2. Run!Send(d, r) = Run!Reach(d, Resumed[<<g, r>>])
    BY <1>2, <1>3, <1>6 DEF Run!Send, Run!SendTo
  <2> QED BY <1>2, <1>5, <1>6, <2>1, <2>2, ReachStands
<1>7. ASSUME Run!Verdict(d, r) = "invalid"
      PROVE  DriverAt(Run!Send(d, r), p, g)
  <2> DEFINE e == Run!Issue(d, TRUE)
  <2>1. Run!Send(d, r) = e
    BY <1>2, <1>3, <1>5, <1>7 DEF Run!Send, Run!SendTo
  <2>2. /\ e \in Run!Drivers
        /\ e.gen = g /\ e.program = p
        /\ e.state = "awaiting_result" /\ e.pending = TRUE
    BY <1>2, IssueStands
  <2> HIDE DEF e
  <2> QED BY <1>2, <1>3, <2>1, <2>2 DEF DriverAt
<1>8. QED BY <1>4, <1>6, <1>7

-----------------------------------------------------------------------------
(* hello: every turn of the loop has greeted the name of that turn.          *)

HelloInv(g, a, rs) ==
  /\ g \in Hello!Points
  /\ g.names = Hello!NamesOf(a.names)
  /\ rs \in Seq(Messages)
  /\ Len(g.greetings) = Len(rs)
  /\ \A i \in 1..Len(rs) : g.greetings[i] = <<g.names[i], rs[i]>>
  /\ IF g.names = NoList THEN rs = <<>> ELSE Len(rs) <= Len(g.names)

\* It starts so.
LEMMA HelloBegins ==
  ASSUME NEW a \in Params
  PROVE  HelloInv(Hello!First(a.names), a, <<>>)
<1> DEFINE g == Hello!First(a.names)
<1>1. g \in Hello!Points
  BY HelloFirst
<1>2. g.names = Hello!NamesOf(a.names) /\ g.greetings = <<>>
  BY DEF Hello!First
<1>3. g.names = NoList \/ Len(g.names) \in Nat
  BY <1>1 DEF Hello!Points
<1>4. <<>> \in Seq(Messages) /\ Len(<<>>) = 0 /\ 1..0 = {}
  OBVIOUS
<1> HIDE DEF g
<1>5. QED BY <1>1, <1>2, <1>3, <1>4 DEF HelloInv, g

\* And goes on so (hello.py:52-64).
LEMMA HelloGoesOn ==
  ASSUME NEW g, NEW a, NEW rs, HelloInv(g, a, rs),
         Hello!KindAt(g) = "instruction", NEW r \in Messages
  PROVE  HelloInv(Hello!After(g, r), a, Append(rs, r))
<1> DEFINE h == Hello!After(g, r)
           ss == Append(rs, r)
           k  == Len(rs) + 1
<1>1. /\ g \in Hello!Points /\ rs \in Seq(Messages) /\ Len(rs) \in Nat
      /\ Len(g.greetings) = Len(rs)
      /\ g.names = Hello!NamesOf(a.names)
      /\ \A i \in 1..Len(rs) : g.greetings[i] = <<g.names[i], rs[i]>>
  BY DEF HelloInv
<1>2. /\ g.names \in Seq(People) /\ g.greetings \in Seq(People \X Messages)
      /\ k <= Len(g.names)
  BY <1>1, HelloAsks
<1>3. /\ h \in Hello!Points /\ h.names = g.names
      /\ h.greetings = Append(g.greetings, <<g.names[k], r>>)
  BY <1>1, HelloGreets
<1>4. /\ ss \in Seq(Messages) /\ Len(ss) = k /\ Len(h.greetings) = k
      /\ ss[k] = r /\ \A i \in 1..Len(rs) : ss[i] = rs[i]
  BY <1>1, <1>2, <1>3
<1>5. ASSUME NEW i \in 1..k
      PROVE  h.greetings[i] = <<h.names[i], ss[i]>>
  BY <1>1, <1>2, <1>3, <1>4
<1>6. h.names # NoList
  BY <1>2, <1>3, BundledAssumption
<1> HIDE DEF h, ss, k
<1>7. QED BY <1>1, <1>2, <1>3, <1>4, <1>5, <1>6 DEF HelloInv, h, ss, k

-----------------------------------------------------------------------------
(* review-rounds.                                                            *)

\* The results of one step among rs.
Of(rs, step) == {i \in DOMAIN rs : rs[i].step = step}

Changed(rs) == \A i \in Of(rs, "respond") : rs[i].code_changed

\* How many results the run has had at a point of round n.
ResultsAt(at, n) ==
  CASE at = "review"                        -> 3 * n - 3
    [] at \in {"respond", "zero_findings"}  -> 3 * n - 2
    [] at = "resolve"                       -> 3 * n - 1
    [] at \in {"no_changes", "rounds_used_up"} -> 3 * n

\* The step whose result led to a point.
StepBefore(at) ==
  CASE at \in {"respond", "zero_findings"} -> "review"
    [] at = "resolve"                      -> "respond"
    [] at \in {"review", "no_changes", "rounds_used_up"} -> "resolve"

\* The rounds that are over at a point of round n.
RoundsOver(at, n) == IF at \in {"no_changes", "rounds_used_up"} THEN n ELSE n - 1

\* Where a run that was given a number of rounds stands.
Place(g, a, rs) ==
  LET n == Len(rs)
      k == g.round_num
  IN  /\ g.at # "type_error"
      /\ g.max_rounds = Review!LimitOf(a.max_rounds)
      /\ IF g.at = "rounds_used_up"
         THEN k >= g.max_rounds /\ (k = 0 \/ k = g.max_rounds)
         ELSE k \in 1..g.max_rounds
      /\ n = ResultsAt(g.at, k)
      /\ n # 0 => rs[n].step = StepBefore(g.at)
      /\ g.at = "zero_findings" => rs[n].findings_total = 0
      /\ g.at = "respond" => rs[n].findings_total # 0

\* What its rounds had in them.
Rounds(g, rs) ==
  /\ Changed(rs) <=> g.at # "no_changes" /\ (g.at = "resolve" => g.code_changed)
  /\ Cardinality(Of(rs, "resolve")) = RoundsOver(g.at, g.round_num)

Totals(g, rs) ==
  /\ g.total_fixed =
       SumFunction([i \in Of(rs, "respond") |-> rs[i].fixed_count])
  /\ g.total_wontfix =
       SumFunction([i \in Of(rs, "respond") |-> rs[i].wontfix_count])
  /\ g.last_unresolved =
       IF Of(rs, "resolve") = {} THEN 0
       ELSE rs[Max(Of(rs, "resolve"))].unresolved_count

Document(g, rs) ==
  g.at \in {"respond", "resolve"} =>
    /\ Of(rs, "review") # {}
    /\ g.doc_path = rs[Max(Of(rs, "review"))].doc_path

ReviewInv(g, a, rs) ==
  /\ g \in Review!Points
  /\ rs \in Seq(Review!Answers)
  /\ IF a.max_rounds = NoInteger THEN g.at = "type_error"
     ELSE Place(g, a, rs) /\ Rounds(g, rs)
  /\ Totals(g, rs)
  /\ Document(g, rs)

\* A result of each step has what its schema asks for.
LEMMA AnswerKinds ==
  ASSUME NEW r \in Review!Answers
  PROVE  /\ r.step \in Review!Steps
         /\ r.step = "review" => r \in Review!Reviews
         /\ r.step = "respond" => /\ r \in Review!Responds
                                  /\ r.fixed_count \in Nat
                                  /\ r.wontfix_count \in Nat
                                  /\ r.code_changed \in BOOLEAN
         /\ r.step = "resolve" => r \in Review!Resolves
BY CountsAreNat DEF Review!Answers, Review!Steps, Review!Reviews,
                    Review!Responds, Review!Resolves

\* What a result makes of the variables of the program (review_rounds.py:205-300).
LEMMA AfterFields ==
  ASSUME NEW g \in Review!Points, NEW r \in Review!Answers, r.step = g.at
  PROVE  LET h == Review!After(g, r)
         IN  /\ h \in Review!Points
             /\ h.at = CASE g.at = "review" ->
                              IF r.findings_total = 0 THEN "zero_findings"
                              ELSE "respond"
                         [] g.at = "respond" -> "resolve"
                         [] g.at = "resolve" ->
                              IF ~ g.code_changed THEN "no_changes"
                              ELSE IF g.round_num < g.max_rounds THEN "review"
                              ELSE "rounds_used_up"
             /\ h.max_rounds = g.max_rounds
             /\ h.round_num = IF h.at = "review" THEN g.round_num + 1
                              ELSE g.round_num
             /\ h.doc_path = IF h.at = "respond" THEN r.doc_path ELSE g.doc_path
             /\ h.code_changed = IF g.at = "respond" THEN r.code_changed
                                 ELSE g.code_changed
             /\ h.total_fixed = IF g.at = "respond"
                                THEN g.total_fixed + r.fixed_count
                                ELSE g.total_fixed
             /\ h.total_wontfix = IF g.at = "respond"
                                  THEN g.total_wontfix + r.wontfix_count
                                  ELSE g.total_wontfix
             /\ h.last_unresolved = IF g.at = "resolve" THEN r.unresolved_count
                                    ELSE g.last_unresolved
<1>1. Review!After(g, r) \in Review!Points
  BY ReviewAfter
<1>2. Review!Accepts(g, r) /\ g.at \in Review!Steps
  BY AnswerKinds DEF Review!Accepts
<1>3. CASE g.at = "review"
  <2>1. Review!After(g, r) = Review!Reviewed(g, r)
    BY <1>2, <1>3 DEF Review!After
  <2> QED BY <1>1, <1>3, <2>1 DEF Review!Reviewed, Review!Points
<1>4. CASE g.at = "respond"
  <2>1. Review!After(g, r) = Review!Responded(g, r)
    BY <1>2, <1>4 DEF Review!After
  <2> QED BY <1>1, <1>4, <2>1 DEF Review!Responded, Review!Points
<1>5. CASE g.at = "resolve"
  <2>1. Review!After(g, r) = Review!Resolved(g, r)
    BY <1>2, <1>5 DEF Review!After
  <2> QED BY <1>1, <1>5, <2>1 DEF Review!Resolved, Review!NextRound, Review!Points
<1>6. QED BY <1>2, <1>3, <1>4, <1>5 DEF Review!Steps

\* One result more among those of its step.
LEMMA OfAppend ==
  ASSUME NEW rs \in Seq(Review!Answers), NEW r \in Review!Answers
  PROVE  LET ss == Append(rs, r)
             n  == Len(rs) + 1
         IN  /\ ss \in Seq(Review!Answers) /\ Len(ss) = n /\ ss[n] = r
             /\ \A i \in DOMAIN rs : ss[i] = rs[i] /\ rs[i] \in Review!Answers
             /\ \A step : /\ Of(rs, step) \subseteq DOMAIN rs
                          /\ IsFiniteSet(Of(rs, step))
                          /\ n \notin Of(rs, step)
                          /\ Of(ss, step) = IF r.step = step
                                            THEN Of(rs, step) \cup {n}
                                            ELSE Of(rs, step)
             /\ Max(Of(ss, r.step)) = n
<1> DEFINE ss == Append(rs, r)
           n  == Len(rs) + 1
<1>1. /\ ss \in Seq(Review!Answers) /\ Len(ss) = n /\ ss[n] = r
      /\ Len(rs) \in Nat /\ DOMAIN rs = 1..Len(rs) /\ DOMAIN ss = 1..n
      /\ \A i \in 1..Len(rs) : ss[i] = rs[i] /\ rs[i] \in Review!Answers
  OBVIOUS
<1>2. ASSUME NEW step
      PROVE  /\ Of(rs, step) \subseteq DOMAIN rs
             /\ IsFiniteSet(Of(rs, step))
             /\ n \notin Of(rs, step)
             /\ Of(ss, step) = IF r.step = step THEN Of(rs, step) \cup {n}
                               ELSE Of(rs, step)
  <2>1. Of(rs, step) \subseteq DOMAIN rs
    BY DEF Of
  <2>2. IsFiniteSet(Of(rs, step))
    <3>1. IsFiniteSet(1..Len(rs))
      BY <1>1, FS_Interval
    <3> QED BY <1>1, <2>1, <3>1, FS_Subset
  <2>3. DOMAIN ss = DOMAIN rs \cup {n} /\ n \notin DOMAIN rs
    BY <1>1
  <2>4. Of(ss, step) = IF r.step = step THEN Of(rs, step) \cup {n}
                       ELSE Of(rs, step)
    <3> HIDE DEF ss, n
    <3> QED BY <1>1, <2>3 DEF Of
  <2> QED BY <2>1, <2>2, <2>3, <2>4
<1>3. Max(Of(ss, r.step)) = n
  <2>1. n \in Of(ss, r.step) /\ n \in Nat
    BY <1>1, <1>2
  <2>2. \A i \in Of(ss, r.step) : i \in Nat /\ n >= i
    BY <1>1 DEF Of
  <2> HIDE DEF n, ss
  <2>3. \A m \in Of(ss, r.step) :
          (\A i \in Of(ss, r.step) : m >= i) => m = n
    BY <2>1, <2>2
  <2> QED BY <2>1, <2>2, <2>3 DEF Max
<1>4. QED BY <1>1, <1>2, <1>3

\* A run stays within its rounds, and its results are those of the steps in
\* turn (review_rounds.py:205, 230, 279-300).
LEMMA PlaceKept ==
  ASSUME NEW g \in Review!Points, NEW a, NEW rs \in Seq(Review!Answers),
         Place(g, a, rs), NEW r \in Review!Answers, r.step = g.at
  PROVE  Place(Review!After(g, r), a, Append(rs, r))
<1> DEFINE h  == Review!After(g, r)
           ss == Append(rs, r)
           n  == Len(rs) + 1
           k  == g.round_num
<1>1. /\ Len(ss) = n /\ ss[n] = r /\ n # 0 /\ Len(rs) \in Nat
  BY OfAppend
<1>2. g.at \in Review!Steps
  BY AnswerKinds
<1>3. k \in Nat /\ g.max_rounds \in Int /\ g.code_changed \in BOOLEAN
  BY DEF Review!Points
<1>4. g.at # "rounds_used_up"
  BY <1>2 DEF Review!Steps
<1>5. k \in 1..g.max_rounds /\ Len(rs) = ResultsAt(g.at, k)
      /\ g.max_rounds = Review!LimitOf(a.max_rounds)
  BY <1>4 DEF Place
<1>6. /\ h.at = CASE g.at = "review" ->
                       IF r.findings_total = 0 THEN "zero_findings"
                       ELSE "respond"
                  [] g.at = "respond" -> "resolve"
                  [] g.at = "resolve" ->
                       IF ~ g.code_changed THEN "no_changes"
                       ELSE IF k < g.max_rounds THEN "review"
                       ELSE "rounds_used_up"
      /\ h.max_rounds = g.max_rounds
      /\ h.round_num = IF h.at = "review" THEN k + 1 ELSE k
  BY AfterFields
<1> HIDE DEF h, ss, k, n
<1>7. /\ h.at # "type_error"
      /\ StepBefore(h.at) = g.at
      /\ h.at = "zero_findings" => r.findings_total = 0
      /\ h.at = "respond" => r.findings_total # 0
  BY <1>2, <1>6 DEF Review!Steps, StepBefore
<1>8. IF h.at = "rounds_used_up"
      THEN h.round_num >= g.max_rounds /\ h.round_num = g.max_rounds
      ELSE h.round_num \in 1..g.max_rounds
  BY <1>2, <1>3, <1>5, <1>6 DEF Review!Steps
<1>9. n = ResultsAt(h.at, h.round_num)
  BY <1>1, <1>2, <1>3, <1>5, <1>6 DEF Review!Steps, ResultsAt, n
<1>10. QED BY <1>1, <1>5, <1>6, <1>7, <1>8, <1>9 DEF Place, h, ss

\* And what a round had in it decides what follows it (review_rounds.py:279-300).
LEMMA RoundsKept ==
  ASSUME NEW g \in Review!Points, NEW rs \in Seq(Review!Answers),
         Rounds(g, rs), NEW r \in Review!Answers, r.step = g.at
  PROVE  Rounds(Review!After(g, r), Append(rs, r))
<1> DEFINE h  == Review!After(g, r)
           ss == Append(rs, r)
           n  == Len(rs) + 1
<1>1. g.at \in Review!Steps
  BY AnswerKinds
<1>2. /\ h.at = CASE g.at = "review" ->
                       IF r.findings_total = 0 THEN "zero_findings"
                       ELSE "respond"
                  [] g.at = "respond" -> "resolve"
                  [] g.at = "resolve" ->
                       IF ~ g.code_changed THEN "no_changes"
                       ELSE IF g.round_num < g.max_rounds THEN "review"
                       ELSE "rounds_used_up"
      /\ h.round_num = IF h.at = "review" THEN g.round_num + 1 ELSE g.round_num
      /\ h.code_changed = IF g.at = "respond" THEN r.code_changed
                          ELSE g.code_changed
      /\ g.round_num \in Nat
  BY AfterFields DEF Review!Points
<1>3. /\ ss[n] = r
      /\ \A i \in DOMAIN rs : ss[i] = rs[i]
      /\ \A step : /\ Of(rs, step) \subseteq DOMAIN rs
                   /\ IsFiniteSet(Of(rs, step))
                   /\ n \notin Of(rs, step)
                   /\ Of(ss, step) = IF r.step = step THEN Of(rs, step) \cup {n}
                                     ELSE Of(rs, step)
  BY OfAppend
<1> HIDE DEF h, ss, n
<1>4. Changed(ss) <=> Changed(rs) /\ (g.at = "respond" => r.code_changed)
  <2>1. CASE g.at = "respond"
    <3>1. Of(ss, "respond") = Of(rs, "respond") \cup {n}
      BY <1>3, <2>1
    <3> QED BY <1>3, <2>1, <3>1 DEF Changed
  <2>2. CASE g.at # "respond"
    <3>1. Of(ss, "respond") = Of(rs, "respond")
      BY <1>3, <2>2
    <3> QED BY <1>3, <2>2, <3>1 DEF Changed
  <2> QED BY <2>1, <2>2
<1>5. Changed(ss) <=> h.at # "no_changes" /\ (h.at = "resolve" => h.code_changed)
  BY <1>1, <1>2, <1>4 DEF Rounds, Review!Steps
<1>6. Cardinality(Of(ss, "resolve")) =
        Cardinality(Of(rs, "resolve")) + (IF g.at = "resolve" THEN 1 ELSE 0)
  <2>1. Cardinality(Of(rs, "resolve")) \in Nat
    BY <1>3, FS_CardinalityType
  <2>2. CASE g.at = "resolve"
    <3>1. Of(ss, "resolve") = Of(rs, "resolve") \cup {n}
      BY <1>3, <2>2
    <3>2. Cardinality(Of(rs, "resolve") \cup {n}) = Cardinality(Of(rs, "resolve")) + 1
      BY <1>3, FS_AddElement
    <3> QED BY <2>2, <3>1, <3>2
  <2>3. CASE g.at # "resolve"
    <3>1. Of(ss, "resolve") = Of(rs, "resolve")
      BY <1>3, <2>3
    <3> QED BY <2>1, <2>3, <3>1
  <2> QED BY <2>2, <2>3
<1>7. Cardinality(Of(ss, "resolve")) = RoundsOver(h.at, h.round_num)
  BY <1>1, <1>2, <1>6 DEF Rounds, RoundsOver, Review!Steps
<1>8. QED BY <1>5, <1>7 DEF Rounds, h, ss

\* The largest of some results is one of them.
LEMMA MaxIn ==
  ASSUME NEW n \in Nat, NEW T \in SUBSET (1..n), T # {}
  PROVE  Max(T) \in T
<1> DEFINE Below == {n - i : i \in T}
<1>1. Below \in SUBSET Nat /\ Below # {}
  <2>1. ASSUME NEW i \in T
        PROVE  n - i \in Nat
    <3>1. i \in 1..n
      OBVIOUS
    <3> QED BY <3>1
  <2> QED BY <2>1
<1>2. PICK m \in Below : \A k \in Below : m <= k
  <2> HIDE DEF Below
  <2> QED BY <1>1, Lib!NatMin, ProgramsFit, NoDriverFits
<1>3. PICK i \in T : m = n - i
  OBVIOUS
<1>4. ASSUME NEW j \in T
      PROVE  i >= j
  <2>1. n - j \in Below
    OBVIOUS
  <2>2. n - i <= n - j
    BY <1>2, <1>3, <2>1
  <2> QED BY <2>2
<1>5. QED BY <1>4 DEF Max

\* A respond step adds its counts to the totals, a resolve step says what is
\* unresolved (review_rounds.py:262-276).
LEMMA TotalsKept ==
  ASSUME NEW g \in Review!Points, NEW rs \in Seq(Review!Answers),
         Totals(g, rs), NEW r \in Review!Answers, r.step = g.at
  PROVE  Totals(Review!After(g, r), Append(rs, r))
<1> DEFINE h  == Review!After(g, r)
           ss == Append(rs, r)
           n  == Len(rs) + 1
           S  == Of(rs, "respond")
           fixed   == [i \in S |-> rs[i].fixed_count]
           wontfix == [i \in S |-> rs[i].wontfix_count]
           fixed1   == [i \in Of(ss, "respond") |-> ss[i].fixed_count]
           wontfix1 == [i \in Of(ss, "respond") |-> ss[i].wontfix_count]
<1>1. /\ ss[n] = r
      /\ \A i \in DOMAIN rs : ss[i] = rs[i] /\ rs[i] \in Review!Answers
      /\ \A step : /\ Of(rs, step) \subseteq DOMAIN rs
                   /\ IsFiniteSet(Of(rs, step))
                   /\ n \notin Of(rs, step)
                   /\ Of(ss, step) = IF r.step = step THEN Of(rs, step) \cup {n}
                                     ELSE Of(rs, step)
      /\ Max(Of(ss, r.step)) = n
  BY OfAppend
<1>2. /\ h.total_fixed = IF g.at = "respond" THEN g.total_fixed + r.fixed_count
                         ELSE g.total_fixed
      /\ h.total_wontfix = IF g.at = "respond"
                           THEN g.total_wontfix + r.wontfix_count
                           ELSE g.total_wontfix
      /\ h.last_unresolved = IF g.at = "resolve" THEN r.unresolved_count
                             ELSE g.last_unresolved
  BY AfterFields
<1> HIDE DEF h, ss, n
<1>3. /\ h.total_fixed = SumFunction(fixed1)
      /\ h.total_wontfix = SumFunction(wontfix1)
  <2>1. CASE g.at = "respond"
    <3>1. r.fixed_count \in Nat /\ r.wontfix_count \in Nat
      BY <2>1, AnswerKinds
    <3>2. \A i \in S : rs[i].fixed_count \in Nat /\ rs[i].wontfix_count \in Nat
      BY <1>1, AnswerKinds DEF Of
    <3>3. Of(ss, "respond") = S \cup {n} /\ n \notin S /\ IsFiniteSet(S)
      BY <1>1, <2>1
    <3>4. /\ fixed \in [S -> Nat] /\ wontfix \in [S -> Nat]
          /\ fixed1 \in [S \cup {n} -> Nat] /\ wontfix1 \in [S \cup {n} -> Nat]
          /\ fixed1[n] = r.fixed_count /\ wontfix1[n] = r.wontfix_count
          /\ \A i \in S : fixed1[i] = fixed[i] /\ wontfix1[i] = wontfix[i]
      BY <1>1, <3>1, <3>2, <3>3
    <3>5. /\ SumFunction(fixed1) = SumFunction(fixed) + r.fixed_count
          /\ SumFunction(wontfix1) = SumFunction(wontfix) + r.wontfix_count
      <4> HIDE DEF S, fixed, wontfix, fixed1, wontfix1
      <4>1. CountsAlso(fixed1, fixed, S, n) /\ CountsAlso(wontfix1, wontfix, S, n)
        BY <3>3, <3>4 DEF CountsAlso
      <4>2. SumFunction(fixed1) = SumFunction(fixed) + fixed1[n]
        BY <3>3, <4>1, TotalAdds
      <4>3. SumFunction(wontfix1) = SumFunction(wontfix) + wontfix1[n]
        BY <3>3, <4>1, TotalAdds
      <4> QED BY <3>4, <4>2, <4>3
    <3>6. /\ g.total_fixed = SumFunction(fixed)
          /\ g.total_wontfix = SumFunction(wontfix)
      BY DEF Totals
    <3> HIDE DEF S, fixed, wontfix, fixed1, wontfix1
    <3> QED BY <1>2, <2>1, <3>5, <3>6
  <2>2. CASE g.at # "respond"
    <3>1. Of(ss, "respond") = S
      BY <1>1, <2>2
    <3>2. fixed1 = fixed /\ wontfix1 = wontfix
      BY <1>1, <3>1
    <3> HIDE DEF S, fixed1, wontfix1
    <3> QED BY <1>2, <2>2, <3>2 DEF Totals, S
  <2> QED BY <2>1, <2>2
<1>4. h.last_unresolved = IF Of(ss, "resolve") = {} THEN 0
                          ELSE ss[Max(Of(ss, "resolve"))].unresolved_count
  <2>1. CASE g.at = "resolve"
    <3>1. Max(Of(ss, "resolve")) = n /\ Of(ss, "resolve") # {}
      BY <1>1, <2>1
    <3> QED BY <1>1, <1>2, <2>1, <3>1
  <2>2. CASE g.at # "resolve"
    <3> DEFINE T == Of(rs, "resolve")
    <3>1. Of(ss, "resolve") = T
      BY <1>1, <2>2
    <3>2. CASE T = {}
      BY <1>2, <2>2, <3>1, <3>2 DEF Totals
    <3>3. CASE T # {}
      <4>1. Max(T) \in T
        <5>1. T \subseteq 1..Len(rs) /\ Len(rs) \in Nat
          BY <1>1
        <5> HIDE DEF T
        <5> QED BY <3>3, <5>1, MaxIn
      <4>2. ss[Max(T)] = rs[Max(T)]
        BY <1>1, <4>1
      <4> QED BY <1>2, <2>2, <3>1, <3>3, <4>2 DEF Totals
    <3> QED BY <3>2, <3>3
  <2> QED BY <2>1, <2>2
<1>5. QED BY <1>3, <1>4 DEF Totals, h, ss

\* The document is that of the last review (review_rounds.py:243).
LEMMA DocumentKept ==
  ASSUME NEW g \in Review!Points, NEW rs \in Seq(Review!Answers),
         Document(g, rs), NEW r \in Review!Answers, r.step = g.at
  PROVE  Document(Review!After(g, r), Append(rs, r))
<1> DEFINE h  == Review!After(g, r)
           ss == Append(rs, r)
           n  == Len(rs) + 1
<1>1. /\ ss[n] = r
      /\ \A i \in DOMAIN rs : ss[i] = rs[i]
      /\ \A step : /\ Of(rs, step) \subseteq DOMAIN rs
                   /\ IsFiniteSet(Of(rs, step))
                   /\ Of(ss, step) = IF r.step = step THEN Of(rs, step) \cup {n}
                                     ELSE Of(rs, step)
      /\ Max(Of(ss, r.step)) = n
  BY OfAppend
<1>2. /\ g.at \in Review!Steps
      /\ h.at = CASE g.at = "review" ->
                       IF r.findings_total = 0 THEN "zero_findings"
                       ELSE "respond"
                  [] g.at = "respond" -> "resolve"
                  [] g.at = "resolve" ->
                       IF ~ g.code_changed THEN "no_changes"
                       ELSE IF g.round_num < g.max_rounds THEN "review"
                       ELSE "rounds_used_up"
      /\ h.doc_path = IF h.at = "respond" THEN r.doc_path ELSE g.doc_path
  BY AfterFields, AnswerKinds
<1> HIDE DEF h, ss, n
<1>3. CASE g.at = "review"
  <2>1. Max(Of(ss, "review")) = n /\ Of(ss, "review") # {}
    BY <1>1, <1>3
  <2> QED BY <1>1, <1>2, <1>3, <2>1 DEF Document, h, ss
<1>4. CASE g.at = "respond"
  <2> DEFINE T == Of(rs, "review")
  <2>1. Of(ss, "review") = T /\ T # {}
    BY <1>1, <1>4 DEF Document
  <2>2. Max(T) \in T
    <3>1. T \subseteq 1..Len(rs) /\ Len(rs) \in Nat
      BY <1>1
    <3> HIDE DEF T
    <3> QED BY <2>1, <3>1, MaxIn
  <2>3. ss[Max(T)] = rs[Max(T)]
    BY <1>1, <2>2
  <2>4. h.doc_path = rs[Max(T)].doc_path
    BY <1>2, <1>4 DEF Document
  <2> QED BY <2>1, <2>3, <2>4 DEF Document, h, ss
<1>5. CASE g.at = "resolve"
  BY <1>2, <1>5 DEF Document, h
<1>6. QED BY <1>2, <1>3, <1>4, <1>5 DEF Review!Steps

\* A run of review-rounds begins so (review_rounds.py:196-205).
LEMMA ReviewBegins ==
  ASSUME NEW a \in Params
  PROVE  ReviewInv(Review!First(a.max_rounds), a, <<>>)
<1> DEFINE g == Review!First(a.max_rounds)
           limit == Review!LimitOf(a.max_rounds)
<1>1. g \in Review!Points
  BY ReviewFirst
<1>2. <<>> \in Seq(Review!Answers) /\ Len(<<>>) = 0 /\ \A step : Of(<<>>, step) = {}
  BY DEF Of
<1>3. SumFunction([i \in Of(<<>>, "respond") |-> <<>>[i].fixed_count]) = 0
      /\ SumFunction([i \in Of(<<>>, "respond") |-> <<>>[i].wontfix_count]) = 0
  <2>1. ASSUME NEW f, DOMAIN f = {}
        PROVE  SumFunction(f) = 0
    <3>1. PICK s : IsSum(f, {}, s) /\ SumFunction(f) = s[{}]
      BY <2>1, TotalIsSum, FS_EmptySet
    <3> QED BY <3>1, SumIs
  <2> HIDE DEF g, limit
  <2> QED BY <1>2, <2>1
<1>4. g.total_fixed = 0 /\ g.total_wontfix = 0 /\ g.last_unresolved = 0
      /\ g.at \notin {"respond", "resolve"}
  BY DEF Review!First, Review!Fresh, Review!NextRound
<1>5. CASE a.max_rounds = NoInteger
  <2>1. g.at = "type_error"
    BY <1>5 DEF Review!First, Review!Fresh
  <2> HIDE DEF g
  <2> QED BY <1>1, <1>2, <1>3, <1>4, <1>5, <2>1
          DEF ReviewInv, Totals, Document, g
<1>6. CASE a.max_rounds # NoInteger
  <2>1. limit \in Int
    BY <1>6, ParamsType, CountsAreNat DEF Review!LimitOf
  <2>2. /\ g.at = IF 0 < limit THEN "review" ELSE "rounds_used_up"
        /\ g.round_num = IF 0 < limit THEN 1 ELSE 0
        /\ g.max_rounds = limit
    BY <1>6, <2>1 DEF Review!First, Review!Fresh, Review!NextRound
  <2> HIDE DEF g, limit
  <2>3. Place(g, a, <<>>)
    BY <1>2, <2>1, <2>2 DEF Place, ResultsAt, limit
  <2>4. Rounds(g, <<>>)
    <3>1. Changed(<<>>)
      BY <1>2 DEF Changed
    <3>2. Cardinality(Of(<<>>, "resolve")) = 0
      BY <1>2, FS_EmptySet
    <3>3. g.at # "no_changes" /\ g.at # "resolve"
      BY <2>2
    <3>4. RoundsOver(g.at, g.round_num) = 0
      BY <2>2 DEF RoundsOver
    <3> QED BY <3>1, <3>2, <3>3, <3>4 DEF Rounds
  <2> QED BY <1>1, <1>2, <1>3, <1>4, <1>6, <2>3, <2>4
          DEF ReviewInv, Totals, Document, g
<1>7. QED BY <1>5, <1>6

\* And goes on so (review_rounds.py:205-300).
LEMMA ReviewGoesOn ==
  ASSUME NEW g, NEW a, NEW rs, ReviewInv(g, a, rs),
         NEW r \in Review!Answers, r.step = g.at
  PROVE  ReviewInv(Review!After(g, r), a, Append(rs, r))
<1>1. g \in Review!Points /\ rs \in Seq(Review!Answers)
  BY DEF ReviewInv
<1>2. g.at # "type_error"
  BY AnswerKinds DEF Review!Steps
<1>3. a.max_rounds # NoInteger /\ Place(g, a, rs) /\ Rounds(g, rs)
  BY <1>2 DEF ReviewInv
<1>4. Review!After(g, r) \in Review!Points /\ Append(rs, r) \in Seq(Review!Answers)
  BY <1>1, ReviewAfter
<1>5. /\ Place(Review!After(g, r), a, Append(rs, r))
      /\ Rounds(Review!After(g, r), Append(rs, r))
  BY <1>1, <1>3, PlaceKept, RoundsKept
<1>6. /\ Totals(Review!After(g, r), Append(rs, r))
      /\ Document(Review!After(g, r), Append(rs, r))
  BY <1>1, TotalsKept, DocumentKept DEF ReviewInv
<1>7. QED BY <1>3, <1>4, <1>5, <1>6 DEF ReviewInv

-----------------------------------------------------------------------------
\* The inductive invariant of the runs of both programs.
RunInv ==
  /\ given \in Params
  /\ driver = NoDriver => accepted = <<>>
  /\ driver # NoDriver =>
       \E p \in Programs, g \in Points :
         /\ DriverAt(driver, p, g)
         /\ p = "hello" => HelloInv(g, given, accepted)
         /\ p = "review-rounds" => ReviewInv(g, given, accepted)

\* The driver, and what its program has been sent, go together all along.
LEMMA InitRun == Run!Init => RunInv
BY DEF Run!Init, RunInv

LEMMA NextRun ==
  ASSUME RunInv, [Run!Next]_(Run!vars)
  PROVE  RunInv'
<1>1. CASE Run!Begin
  <2>1. PICK p \in Programs : driver' = Run!Start(p, given)
    BY <1>1 DEF Run!Begin
  <2> DEFINE g == Entry[<<p, given>>]
  <2>2. given' = given /\ accepted' = <<>> /\ given \in Params
    BY <1>1 DEF Run!Begin, RunInv
  <2>3. g \in Points /\ DriverAt(driver', p, g)
    BY <2>1, <2>2, StartStands
  <2>4. p = "hello" => HelloInv(g, given, <<>>)
    BY <2>2, HelloBegins DEF Entry
  <2>5. p = "review-rounds" => ReviewInv(g, given, <<>>)
    BY <2>2, ReviewBegins DEF Entry
  <2> HIDE DEF g
  <2> QED BY <2>2, <2>3, <2>4, <2>5 DEF RunInv
<1>2. ASSUME NEW r \in Results, Run!Submit(r) \/ Run!Retry(r)
      PROVE  RunInv'
  <2>1. /\ driver # NoDriver /\ ~ Run!IsTerminal(driver)
        /\ driver' = Run!Send(driver, r) /\ given' = given /\ given \in Params
    BY <1>2 DEF Run!Submit, Run!Retry, Run!Awaiting, RunInv
  <2>2. PICK p \in Programs, g \in Points :
          /\ DriverAt(driver, p, g)
          /\ p = "hello" => HelloInv(g, given, accepted)
          /\ p = "review-rounds" => ReviewInv(g, given, accepted)
    BY <2>1 DEF RunInv
  <2>3. /\ KindAt(g) = "instruction"
        /\ Run!Verdict(driver, r) = "valid" =>
             /\ Accepts(g, r)
             /\ Resumed[<<g, r>>] \in Points
             /\ DriverAt(driver', p, Resumed[<<g, r>>])
        /\ Run!Verdict(driver, r) = "invalid" => DriverAt(driver', p, g)
    BY <2>1, <2>2, SendStands
  <2>4. CASE Run!Submit(r)
    <3> DEFINE h == Resumed[<<g, r>>]
    <3>1. h \in Points /\ DriverAt(driver', p, h) /\ Accepts(g, r)
          /\ accepted' = Append(accepted, r)
      BY <2>3, <2>4 DEF Run!Submit
    <3>2. p = "hello" => HelloInv(h, given, Append(accepted, r))
      <4> SUFFICES ASSUME p = "hello"
                   PROVE  HelloInv(h, given, Append(accepted, r))
        OBVIOUS
      <4>1. HelloInv(g, given, accepted) /\ g \in Hello!Points
        BY <2>2 DEF HelloInv
      <4>2. r \in Messages /\ Hello!KindAt(g) = "instruction" /\ h = Hello!After(g, r)
        BY <2>3, <3>1, <4>1 DEF Accepts, Hello!Accepts, KindAt, Resumed
      <4> QED BY <4>1, <4>2, HelloGoesOn
    <3>3. p = "review-rounds" => ReviewInv(h, given, Append(accepted, r))
      <4> SUFFICES ASSUME p = "review-rounds"
                   PROVE  ReviewInv(h, given, Append(accepted, r))
        OBVIOUS
      <4>1. ReviewInv(g, given, accepted) /\ g \notin Hello!Points
        BY <2>2, PointsDiffer DEF ReviewInv
      <4>2. r \in Review!Answers /\ r.step = g.at /\ h = Review!After(g, r)
        BY <3>1, <4>1 DEF Accepts, Review!Accepts, Resumed
      <4> QED BY <4>1, <4>2, ReviewGoesOn
    <3> HIDE DEF h
    <3>4. driver' # NoDriver
      BY <3>1, NoDriverAssumption DEF DriverAt
    <3> QED BY <2>1, <3>1, <3>2, <3>3, <3>4 DEF RunInv
  <2>5. CASE Run!Retry(r)
    <3>1. accepted' = accepted /\ DriverAt(driver', p, g)
      BY <2>3, <2>5 DEF Run!Retry
    <3>2. driver' # NoDriver
      BY <3>1, NoDriverAssumption DEF DriverAt
    <3> QED BY <2>1, <2>2, <3>1, <3>2 DEF RunInv
  <2> QED BY <1>2, <2>4, <2>5
<1>3. CASE UNCHANGED Run!vars
  BY <1>3 DEF Run!vars, RunInv
<1>4. QED BY <1>1, <1>2, <1>3 DEF Run!Next

LEMMA RunInvariance == Spec => []RunInv
<1>1. Run!Spec => Run!Init /\ [][Run!Next]_(Run!vars)
  BY DEF Run!Spec
<1>2. RunInv /\ [Run!Next]_(Run!vars) => RunInv'
  BY NextRun
<1>3. QED BY <1>1, <1>2, InitRun, PTL DEF Spec

\* Where the run of a program stands.
LEMMA StandsAt ==
  ASSUME RunInv, NEW program \in Programs, Started(program)
  PROVE  /\ DriverAt(driver, program, driver.gen)
         /\ given \in Params
         /\ program = "hello" => HelloInv(driver.gen, given, accepted)
         /\ program = "review-rounds" => ReviewInv(driver.gen, given, accepted)
BY DEF RunInv, Started, DriverAt

-----------------------------------------------------------------------------
(* The theorems.                                                             *)

\* The summary of hello greets every name once and in order, for every list of
\* names and every number of rejected messages (hello.py:45-70).
THEOREM EveryNameGreeted == Spec => []GreetsEachInOrder
<1>1. ASSUME RunInv
      PROVE  GreetsEachInOrder
  <2> SUFFICES ASSUME Started("hello"), driver.state = "completed"
               PROVE  /\ Len(accepted) = Len(Names)
                      /\ driver.gen.greetings =
                           [i \in 1..Len(accepted) |-> <<Names[i], accepted[i]>>]
    BY DEF GreetsEachInOrder
  <2> DEFINE g == driver.gen
  <2>1. DriverAt(driver, "hello", g) /\ HelloInv(g, given, accepted)
    BY <1>1, StandsAt DEF Programs
  <2>2. KindAt(g) = "done"
    <3>1. StateAt(KindAt(g)) = "completed" /\ g \in Hello!Points
      BY <2>1 DEF DriverAt, HelloInv
    <3>2. KindAt(g) \in {"raise", "abort", "instruction", "done"}
      BY <3>1, KindsType DEF KindAt
    <3> QED BY <3>1, <3>2 DEF StateAt
  <2>3. /\ g \in Hello!Points /\ g.names = Names /\ Len(g.greetings) = Len(accepted)
        /\ \A i \in 1..Len(accepted) : g.greetings[i] = <<g.names[i], accepted[i]>>
        /\ g.names # NoList => Len(accepted) <= Len(g.names)
        /\ accepted \in Seq(Messages)
    BY <2>1 DEF HelloInv, Names
  <2>4. g.names # NoList /\ ~ (Len(g.greetings) < Len(g.names))
    BY <2>2, <2>3 DEF KindAt, Hello!KindAt
  <2>5. g.names \in Seq(People) /\ g.greetings \in Seq(People \X Messages)
    BY <2>3, <2>4 DEF Hello!Points
  <2>6. Len(accepted) = Len(Names)
    BY <2>3, <2>4, <2>5
  <2>7. g.greetings = [i \in 1..Len(accepted) |-> <<Names[i], accepted[i]>>]
    <3>1. ASSUME NEW T, NEW s \in Seq(T)
          PROVE  s = [i \in 1..Len(s) |-> s[i]]
      OBVIOUS
    <3>2. g.greetings = [i \in 1..Len(g.greetings) |-> g.greetings[i]]
      <4> HIDE DEF g
      <4> QED BY <2>5, <3>1
    <3> QED BY <2>3, <3>2
  <2> QED BY <2>6, <2>7
<1>2. QED BY <1>1, RunInvariance, PTL

\* A run of review-rounds ends when, and only when, its documentation says, for
\* every max_rounds and whatever is answered (review_rounds.py:22-25, 230, 279).
THEOREM RunsEndAsDocumented == Spec => []EndsAsDocumented
<1>1. ASSUME RunInv
      PROVE  EndsAsDocumented
  <2> SUFFICES ASSUME Started("review-rounds"), Limit # NoInteger
               PROVE  EndsAsDocumented
    BY DEF EndsAsDocumented
  <2> DEFINE g == driver.gen
             n == Len(accepted)
             quiet == n # 0 /\ accepted[n].step = "review"
                            /\ accepted[n].findings_total = 0
             over  == n # 0 /\ accepted[n].step = "resolve"
  <2>1. /\ DriverAt(driver, "review-rounds", g)
        /\ ReviewInv(g, given, accepted)
        /\ given \in Params
    BY <1>1, StandsAt DEF Programs
  <2>2. /\ g \in Review!Points /\ Place(g, given, accepted) /\ Rounds(g, accepted)
        /\ n \in Nat
    BY <2>1 DEF ReviewInv, Limit
  <2>3. /\ g.at \in {"review", "respond", "resolve", "zero_findings",
                     "no_changes", "rounds_used_up"}
        /\ g.round_num \in Nat /\ g.max_rounds \in Int
    BY <2>2 DEF Place, Review!Points, Review!Steps
  <2>4. driver.state = CASE g.at \in Review!Steps -> "awaiting_result"
                         [] g.at \in {"zero_findings", "no_changes"} -> "completed"
                         [] g.at = "rounds_used_up" -> "aborted"
    <3>1. driver.state = StateAt(Review!KindAt(g))
      BY <2>1, <2>2, PointsDiffer DEF DriverAt, KindAt
    <3> QED BY <2>3, <3>1 DEF StateAt, Review!KindAt, Review!Steps
  <2>5. quiet <=> g.at = "zero_findings"
    BY <2>2, <2>3 DEF Place, StepBefore, ResultsAt
  <2>6. /\ AllChanged <=> g.at # "no_changes" /\ (g.at = "resolve" => g.code_changed)
        /\ Cardinality(Answered("resolve")) = RoundsOver(g.at, g.round_num)
    BY <2>2 DEF Rounds, Changed, Of, AllChanged, Answered
  <2>7. /\ g.at = "no_changes" => over
        /\ g.at = "resolve" => ~ over
    BY <2>2, <2>3 DEF Place, StepBefore, ResultsAt
  <2>8. Cardinality(Answered("resolve")) >= Review!LimitOf(Limit) <=>
          g.at \in {"no_changes", "rounds_used_up"} /\ g.round_num >= g.max_rounds
    BY <2>2, <2>3, <2>6 DEF Place, RoundsOver, Limit
  <2>9. g.at = "rounds_used_up" => g.round_num >= g.max_rounds
    BY <2>2 DEF Place
  <2> HIDE DEF g, quiet, over
  <2>10. /\ driver.state = "completed" <=> quiet \/ (over /\ ~ AllChanged)
         /\ driver.state = "aborted" <=>
              /\ Cardinality(Answered("resolve")) >= Review!LimitOf(Limit)
              /\ ~ quiet
              /\ AllChanged
         /\ driver.state # "failed"
    BY <2>3, <2>4, <2>5, <2>6, <2>7, <2>8, <2>9 DEF Review!Steps
  <2> QED BY <2>10 DEF EndsAsDocumented, quiet, over
<1>2. QED BY <1>1, RunInvariance, PTL

\* No round asks for more than three results, and there are no more rounds than
\* max_rounds (review_rounds.py:205).
THEOREM RoundsBounded == Spec => []ThreeResultsPerRound
<1>1. ASSUME RunInv
      PROVE  ThreeResultsPerRound
  <2> SUFFICES ASSUME Started("review-rounds"), Limit # NoInteger
               PROVE  ThreeResultsPerRound
    BY DEF ThreeResultsPerRound
  <2> DEFINE g == driver.gen
             limit == Review!LimitOf(Limit)
  <2>1. /\ DriverAt(driver, "review-rounds", g)
        /\ ReviewInv(g, given, accepted)
    BY <1>1, StandsAt DEF Programs
  <2>2. /\ g \in Review!Points /\ Place(g, given, accepted)
        /\ Len(accepted) \in Nat /\ g.max_rounds = limit
    BY <2>1 DEF ReviewInv, Limit, Place
  <2>3. /\ g.at \in {"review", "respond", "resolve", "zero_findings",
                     "no_changes", "rounds_used_up"}
        /\ g.round_num \in Nat /\ limit \in Int
    BY <2>2 DEF Place, Review!Points, Review!Steps
  <2>4. Len(accepted) = ResultsAt(g.at, g.round_num)
        /\ IF g.at = "rounds_used_up"
           THEN g.round_num = 0 \/ g.round_num = limit
           ELSE g.round_num \in 1..limit
    BY <2>2 DEF Place
  <2>5. ~ Run!IsTerminal(driver) => g.at \in {"review", "respond", "resolve"}
    <3>1. driver.state = StateAt(Review!KindAt(g))
      BY <2>1, <2>2, PointsDiffer DEF DriverAt, KindAt
    <3> QED BY <2>3, <3>1
            DEF StateAt, Review!KindAt, Review!Steps, Run!IsTerminal, Run!TerminalStates
  <2> HIDE DEF g, limit
  <2>6. /\ Len(accepted) <= (IF limit > 0 THEN 3 * limit ELSE 0)
        /\ ~ Run!IsTerminal(driver) =>
             /\ Len(accepted) \in (3 * g.round_num - 3)..(3 * g.round_num - 1)
             /\ g.round_num \in 1..limit
    BY <2>2, <2>3, <2>4, <2>5 DEF ResultsAt
  <2> QED BY <2>6 DEF ThreeResultsPerRound, g, limit
<1>2. QED BY <1>1, RunInvariance, PTL

\* The totals count every respond step once (review_rounds.py:231-239, 262-276).
THEOREM TotalsCountOnce == Spec => []TotalsTrue
<1>1. ASSUME RunInv
      PROVE  TotalsTrue
  <2> SUFFICES ASSUME Started("review-rounds")
               PROVE  TotalsTrue
    BY DEF TotalsTrue
  <2>1. Totals(driver.gen, accepted)
    BY <1>1, StandsAt DEF Programs, ReviewInv
  <2> QED BY <2>1 DEF Totals, TotalsTrue, Of, Answered
<1>2. QED BY <1>1, RunInvariance, PTL

\* Respond and resolve are about the document of their own round
\* (review_rounds.py:243, 251, 271).
THEOREM DocumentOfItsRound == Spec => []RightDocument
<1>1. ASSUME RunInv
      PROVE  RightDocument
  <2> SUFFICES ASSUME Started("review-rounds")
               PROVE  RightDocument
    BY DEF RightDocument
  <2>1. Document(driver.gen, accepted)
    BY <1>1, StandsAt DEF Programs, ReviewInv
  <2> QED BY <2>1 DEF Document, RightDocument, Of, Answered
<1>2. QED BY <1>1, RunInvariance, PTL
=============================================================================
