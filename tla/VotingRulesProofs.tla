-------------------------- MODULE VotingRulesProofs --------------------------
(***************************************************************************)
(* The two calculations of voting: what a vote pays, for every curve that  *)
(* gives equal ratings an equal chance, and that the loop over a user's    *)
(* votes finds the runs, for every list and every length of run.           *)
(***************************************************************************)
EXTENDS VotingRules, RatingProofs, Sequences, FunctionTheorems
-----------------------------------------------------------------------------
(* Runs of votes.                                                           *)

\* A list of votes as the behaviour makes it: newest first, the dates apart.
ListOfVotes(V) ==
  /\ V \in Seq([ballot : BallotsSeen, at : Nat])
  /\ \A n \in 1..Len(V) : V[n].at = Len(V) - n

Decided(v) == Abuse!Decisive(v.ballot)

\* The decisive votes from the i-th to the j-th, and that they are for one side.
Window(V, i, j) == {V[n] : n \in {m \in i..j : Decided(V[m])}}

Uniform(V, i, j, s) == \A x \in Window(V, i, j) : Abuse!Side(x.ballot) = s

LEMMA WindowFinite ==
  ASSUME NEW V, NEW i \in Nat \ {0}, NEW j \in Nat
  PROVE  IsFiniteSet(Window(V, i, j)) /\ Cardinality(Window(V, i, j)) \in 0..j
<1> DEFINE D == {m \in i..j : Decided(V[m])}
           f == [m \in D |-> V[m]]
<1>1. IsFiniteSet(1..j) /\ Cardinality(1..j) = j
  BY FS_Interval
<1>2. D \subseteq 1..j
  OBVIOUS
<1>3. IsFiniteSet(D) /\ Cardinality(D) <= j /\ Cardinality(D) \in Nat
  BY <1>1, <1>2, FS_Subset, FS_CardinalityType
<1>4. f \in Surjection(D, Window(V, i, j))
  BY DEF Window, Surjection
<1> HIDE DEF D
<1>5. IsFiniteSet(Window(V, i, j)) /\ Cardinality(Window(V, i, j)) <= Cardinality(D)
  BY <1>3, <1>4, FS_Surjection DEF ExistsSurjection
<1>6. QED
  BY <1>3, <1>5, FS_CardinalityType

\* A decisive vote more.
LEMMA WindowStep ==
  ASSUME NEW V, ListOfVotes(V), NEW n \in Nat, n + 1 \in 1..Len(V), NEW i \in 1..(n + 1)
  PROVE  /\ ~Decided(V[n + 1]) => Window(V, i, n + 1) = Window(V, i, n)
         /\ Decided(V[n + 1]) =>
              /\ Window(V, i, n + 1) = Window(V, i, n) \cup {V[n + 1]}
              /\ Cardinality(Window(V, i, n + 1)) = Cardinality(Window(V, i, n)) + 1
         /\ Window(V, n + 1, n) = {} /\ Cardinality(Window(V, n + 1, n)) = 0
<1>1. i..(n + 1) = i..n \cup {n + 1} /\ n + 1 \notin i..n
  OBVIOUS
<1>2. ~Decided(V[n + 1]) => Window(V, i, n + 1) = Window(V, i, n)
  BY <1>1 DEF Window
<1>3. Decided(V[n + 1]) => Window(V, i, n + 1) = Window(V, i, n) \cup {V[n + 1]}
  BY <1>1 DEF Window
<1>4. V[n + 1] \notin Window(V, i, n)
  <2>1. ASSUME NEW m \in i..n PROVE V[m] # V[n + 1]
    <3>1. m \in 1..Len(V) /\ m # n + 1 /\ m \in Nat /\ Len(V) \in Nat
      BY DEF ListOfVotes
    <3>2. V[m].at = Len(V) - m /\ V[n + 1].at = Len(V) - (n + 1)
      BY <3>1 DEF ListOfVotes
    <3>3. Len(V) - m # Len(V) - (n + 1)
      BY <3>1
    <3>4. QED
      BY <3>2, <3>3
  <2>2. QED
    BY <2>1 DEF Window
<1>5. IsFiniteSet(Window(V, i, n))
  BY WindowFinite
<1>6. Cardinality(Window(V, i, n) \cup {V[n + 1]}) = Cardinality(Window(V, i, n)) + 1
  BY <1>4, <1>5, FS_AddElement
<1>7. Window(V, n + 1, n) = {}
  BY DEF Window
<1>8. QED
  BY <1>2, <1>3, <1>6, <1>7, FS_EmptySet

\* Two votes of the list with a run between them.
HoldsRun(V, i, j) ==
  /\ Decided(V[i]) /\ Decided(V[j]) /\ Cardinality(Window(V, i, j)) >= AbuseRun
  /\ \E s : Uniform(V, i, j, s)

LEMMA WindowBetween ==
  ASSUME NEW V, ListOfVotes(V), NEW i \in 1..Len(V), NEW j \in 1..Len(V)
  PROVE  Window(V, i, j) = {x \in Abuse!Range(V) : /\ Decided(x)
                                                   /\ V[j].at <= x.at /\ x.at <= V[i].at}
<1>1. Len(V) \in Nat /\ DOMAIN V = 1..Len(V)
  BY DEF ListOfVotes
<1>2. ASSUME NEW m \in 1..Len(V)
      PROVE  V[j].at <= V[m].at /\ V[m].at <= V[i].at <=> m \in i..j
  BY <1>1 DEF ListOfVotes
<1>3. Window(V, i, j) = {V[m] : m \in {n \in 1..Len(V) : n \in i..j /\ Decided(V[n])}}
  BY <1>1 DEF Window
<1>4. Abuse!Range(V) = {V[m] : m \in 1..Len(V)}
  BY <1>1 DEF Abuse!Range
<1>5. QED
  BY <1>2, <1>3, <1>4

LEMMA SameCardinality == \A S : Abuse!Cardinality(S) = Cardinality(S)
BY DEF Abuse!Cardinality, Cardinality

\* Votes v and w of S and the decisive ones between them.
Stretch(S, v, w) ==
  {x \in {y \in S : Abuse!Decisive(y.ballot)} : v.at <= x.at /\ x.at <= w.at}

LEMMA RunIs ==
  ASSUME NEW S, NEW n
  PROVE  Abuse!InARow(S, n) <=>
           \E v, w \in S :
             /\ Abuse!Decisive(v.ballot) /\ Abuse!Decisive(w.ballot)
             /\ \A x \in Stretch(S, v, w) : Abuse!Side(x.ballot) = Abuse!Side(v.ballot)
             /\ Cardinality(Stretch(S, v, w)) >= n
BY SameCardinality DEF Abuse!InARow, Stretch

LEMMA RunIsHeld ==
  ASSUME NEW V, ListOfVotes(V)
  PROVE  Abuse!InARow(Abuse!Range(V), AbuseRun) <=> \E i, j \in 1..Len(V) : HoldsRun(V, i, j)
<1> DEFINE S == Abuse!Range(V)
           Between(v, w) == {x \in S : Decided(x) /\ v.at <= x.at /\ x.at <= w.at}
<1>1. Abuse!InARow(S, AbuseRun) <=>
        \E v, w \in S : /\ Decided(v) /\ Decided(w)
                        /\ \A x \in Between(v, w) : Abuse!Side(x.ballot) = Abuse!Side(v.ballot)
                        /\ Cardinality(Between(v, w)) >= AbuseRun
  <2>1. \A v, w : Stretch(S, v, w) = Between(v, w)
    BY DEF Stretch, Decided
  <2> HIDE DEF S, Between
  <2>2. QED
    BY <2>1, RunIs DEF Decided
<1>2. S = {V[m] : m \in 1..Len(V)}
  BY DEF ListOfVotes, Abuse!Range
<1>3. \A i, j \in 1..Len(V) : Between(V[j], V[i]) = Window(V, i, j)
  BY WindowBetween
<1> HIDE DEF S, Between
<1>4. ASSUME NEW i \in 1..Len(V), NEW j \in 1..Len(V), HoldsRun(V, i, j)
      PROVE  Abuse!InARow(S, AbuseRun)
  <2>1. PICK s : Uniform(V, i, j, s)
    BY <1>4 DEF HoldsRun
  <2>2. V[j] \in Window(V, i, j)
    <3>1. Window(V, i, j) # {}
      <4>1. Cardinality(Window(V, i, j)) >= AbuseRun
        BY <1>4 DEF HoldsRun
      <4>2. CASE Window(V, i, j) = {}
        BY <4>1, <4>2, FS_EmptySet, RunAssumption
      <4>3. QED
        BY <4>2
    <3>2. i <= j
      BY <3>1 DEF Window
    <3>3. QED
      BY <1>4, <3>2 DEF Window, HoldsRun
  <2>3. \A x \in Window(V, i, j) : Abuse!Side(x.ballot) = Abuse!Side(V[j].ballot)
    BY <2>1, <2>2 DEF Uniform
  <2>4. V[i] \in S /\ V[j] \in S
    BY <1>2
  <2>5. QED
    BY <1>1, <1>3, <1>4, <2>3, <2>4 DEF HoldsRun
<1>5. ASSUME Abuse!InARow(S, AbuseRun)
      PROVE  \E i, j \in 1..Len(V) : HoldsRun(V, i, j)
  <2>1. PICK v, w \in S :
               /\ Decided(v) /\ Decided(w)
               /\ \A x \in Between(v, w) : Abuse!Side(x.ballot) = Abuse!Side(v.ballot)
               /\ Cardinality(Between(v, w)) >= AbuseRun
    BY <1>1, <1>5
  <2>2. PICK i \in 1..Len(V), j \in 1..Len(V) : v = V[j] /\ w = V[i]
    BY <1>2
  <2>3. HoldsRun(V, i, j)
    BY <1>3, <2>1, <2>2 DEF HoldsRun, Uniform
  <2>4. QED
    BY <2>3
<1>6. QED
  BY <1>4, <1>5 DEF S
-----------------------------------------------------------------------------
(* The loop.                                                                *)

Start == [side |-> "none", run |-> 0, found |-> FALSE]

\* c holds the counts of the loop over V up to the n-th vote.
CountsUpTo(c, V, n) ==
  c = [m \in 0..n |-> IF m = 0 THEN Start ELSE Abuse!Count(c[m - 1], V[m])]

\* There are such counts, so the ones defined are.
LEMMA CountsExist ==
  ASSUME NEW V, NEW n \in Nat
  PROVE  \E c : CountsUpTo(c, V, n)
<1> DEFINE Missing == {m \in Nat : ~ \E c : CountsUpTo(c, V, m)}
<1> SUFFICES ASSUME Missing # {} PROVE FALSE
  OBVIOUS
<1>1. PICK m \in Missing : \A k \in Missing : m <= k
  <2>1. Missing \subseteq Nat
    OBVIOUS
  <2> HIDE DEF Missing
  <2>2. QED
    BY <2>1, LeastNumber
<1>2. CountsUpTo([k \in 0..0 |-> Start], V, 0)
  BY DEF CountsUpTo
<1>3. m # 0 /\ m - 1 \in Nat
  BY <1>2
<1>4. m - 1 \notin Missing
  BY <1>1, <1>3
<1>5. PICK c : CountsUpTo(c, V, m - 1)
  BY <1>3, <1>4
<1> DEFINE d == [k \in 0..m |-> IF k = m THEN Abuse!Count(c[m - 1], V[m]) ELSE c[k]]
<1>6. CountsUpTo(d, V, m)
  <2>1. \A k \in 0..(m - 1) : c[k] = IF k = 0 THEN Start ELSE Abuse!Count(c[k - 1], V[k])
    BY <1>5 DEF CountsUpTo
  <2>2. \A k \in 0..m : d[k] = IF k = 0 THEN Start ELSE Abuse!Count(d[k - 1], V[k])
    BY <1>3, <2>1
  <2>3. d = [k \in 0..m |-> d[k]]
    OBVIOUS
  <2> HIDE DEF d
  <2>4. QED
    BY <2>2, <2>3 DEF CountsUpTo
<1>7. QED
  BY <1>6

LEMMA CountsAre ==
  ASSUME NEW V, Len(V) \in Nat
  PROVE  /\ Abuse!Counts(V)[0] = Start
         /\ \A n \in 1..Len(V) :
              Abuse!Counts(V)[n] = Abuse!Count(Abuse!Counts(V)[n - 1], V[n])
<1> DEFINE C == Abuse!Counts(V)
<1>1. CountsUpTo(C, V, Len(V))
  <2>1. C = CHOOSE c : CountsUpTo(c, V, Len(V))
    BY DEF Abuse!Counts, CountsUpTo, Start
  <2>2. QED
    BY <2>1, CountsExist
<1> HIDE DEF C
<1>2. C[0] = Start
  BY <1>1 DEF CountsUpTo
<1>3. \A n \in 1..Len(V) : C[n] = Abuse!Count(C[n - 1], V[n])
  BY <1>1 DEF CountsUpTo
<1>4. QED
  BY <1>2, <1>3 DEF C

\* None of the first n votes are a run.
NoRun(V, n) ==
  \A i, j \in 1..n : \A s : Uniform(V, i, j, s) => Cardinality(Window(V, i, j)) < AbuseRun

\* Of the last votes for one side there are as many as c counts, and no more.
CountsLast(V, n, c) ==
  /\ c.run > 0 =>
       \E i \in 1..n : /\ Decided(V[i]) /\ Uniform(V, i, n, c.side)
                       /\ Cardinality(Window(V, i, n)) = c.run
  /\ \A i \in 1..n : \A s : Uniform(V, i, n, s) =>
       Cardinality(Window(V, i, n)) <= IF s = c.side THEN c.run ELSE 0

\* What the counts after n votes say of those n votes.
LoopInv(V, n) ==
  LET c == Abuse!Counts(V)[n]
  IN /\ c.found \in BOOLEAN /\ c.run \in Nat
     /\ c.found => \E i, j \in 1..n : HoldsRun(V, i, j)
     /\ ~c.found => c.run < AbuseRun /\ CountsLast(V, n, c) /\ NoRun(V, n)

LEMMA NoRunStep ==
  ASSUME NEW V, NEW n \in Nat, NoRun(V, n),
         \A i \in 1..(n + 1) : \A s : Uniform(V, i, n + 1, s) =>
           Cardinality(Window(V, i, n + 1)) < AbuseRun
  PROVE  NoRun(V, n + 1)
<1> SUFFICES ASSUME NEW i \in 1..(n + 1), NEW j \in 1..(n + 1), NEW s, Uniform(V, i, j, s)
             PROVE  Cardinality(Window(V, i, j)) < AbuseRun
  BY DEF NoRun
<1>1. CASE j = n + 1
  BY <1>1
<1>2. CASE j # n + 1 /\ i # n + 1
  <2>1. i \in 1..n /\ j \in 1..n
    BY <1>2
  <2>2. QED
    BY <2>1 DEF NoRun
<1>3. CASE j # n + 1 /\ i = n + 1
  <2>1. i..j = {}
    BY <1>3
  <2>2. Window(V, i, j) = {}
    BY <2>1 DEF Window
  <2>3. QED
    BY <2>2, FS_EmptySet, RunAssumption
<1>4. QED
  BY <1>1, <1>2, <1>3

LEMMA LoopTurns ==
  ASSUME NEW V, ListOfVotes(V), NEW n \in Nat, n + 1 \in 1..Len(V)
  PROVE  Abuse!Counts(V)[n + 1] = Abuse!Count(Abuse!Counts(V)[n], V[n + 1])
<1>1. Len(V) \in Nat /\ (n + 1) - 1 = n
  BY DEF ListOfVotes
<1>2. QED
  BY <1>1, CountsAre

\* A run that was found stays.
LEMMA LoopReturns ==
  ASSUME NEW V, ListOfVotes(V), NEW n \in Nat, n + 1 \in 1..Len(V), LoopInv(V, n),
         Abuse!Counts(V)[n].found
  PROVE  LoopInv(V, n + 1)
<1>1. Abuse!Counts(V)[n + 1] = Abuse!Counts(V)[n]
  BY LoopTurns DEF Abuse!Count
<1>2. \A i \in 1..n : i \in 1..(n + 1)
  OBVIOUS
<1>3. QED
  BY <1>1, <1>2 DEF LoopInv

\* A vote for neither side changes nothing.
LEMMA LoopSkips ==
  ASSUME NEW V, ListOfVotes(V), NEW n \in Nat, n + 1 \in 1..Len(V), LoopInv(V, n),
         ~Abuse!Counts(V)[n].found, ~Decided(V[n + 1])
  PROVE  LoopInv(V, n + 1)
<1> DEFINE c == Abuse!Counts(V)[n]
<1>1. Abuse!Counts(V)[n + 1] = c
  BY LoopTurns DEF Abuse!Count, Decided
<1> HIDE DEF c
<1>2. /\ c.found \in BOOLEAN /\ ~c.found /\ c.run \in Nat /\ c.run < AbuseRun
      /\ CountsLast(V, n, c) /\ NoRun(V, n)
  BY DEF LoopInv, c
<1>3. \A i \in 1..n : i \in 1..(n + 1) /\ Window(V, i, n + 1) = Window(V, i, n)
  BY WindowStep
<1>4. Cardinality(Window(V, n + 1, n + 1)) = 0
  BY WindowStep
<1>5. \A i \in 1..(n + 1) : \A s : Uniform(V, i, n + 1, s) =>
        Cardinality(Window(V, i, n + 1)) <= IF s = c.side THEN c.run ELSE 0
  <2> SUFFICES ASSUME NEW i \in 1..(n + 1), NEW s, Uniform(V, i, n + 1, s)
               PROVE  Cardinality(Window(V, i, n + 1)) <= IF s = c.side THEN c.run ELSE 0
    OBVIOUS
  <2>1. CASE i = n + 1
    BY <1>2, <1>4, <2>1
  <2>2. CASE i # n + 1
    <3>1. i \in 1..n
      BY <2>2
    <3>2. Uniform(V, i, n, s)
      BY <1>3, <3>1 DEF Uniform
    <3>3. QED
      BY <1>2, <1>3, <3>1, <3>2 DEF CountsLast
  <2>3. QED
    BY <2>1, <2>2
<1>6. CountsLast(V, n + 1, c)
  BY <1>2, <1>3, <1>5 DEF CountsLast, Uniform
<1>7. \A i \in 1..(n + 1) : Cardinality(Window(V, i, n + 1)) \in Int
  BY WindowFinite
<1>8. NoRun(V, n + 1)
  BY <1>2, <1>5, <1>7, NoRunStep, RunAssumption
<1>9. QED
  BY <1>1, <1>2, <1>6, <1>8 DEF LoopInv

\* A decisive vote continues the run of its side or begins one.
LEMMA LoopCounts ==
  ASSUME NEW V, ListOfVotes(V), NEW n \in Nat, n + 1 \in 1..Len(V), LoopInv(V, n),
         ~Abuse!Counts(V)[n].found, Decided(V[n + 1])
  PROVE  LoopInv(V, n + 1)
<1> DEFINE c == Abuse!Counts(V)[n]
           d == Abuse!Counts(V)[n + 1]
           x == V[n + 1]
           side == Abuse!Side(x.ballot)
<1>1. /\ d.side = side /\ d.run = 1 + IF c.side = side THEN c.run ELSE 0
      /\ d.found \in BOOLEAN /\ (d.found <=> d.run = AbuseRun)
  <2> DEFINE run == 1 + IF c.side = side THEN c.run ELSE 0
  <2>1. d = [side |-> side, run |-> run, found |-> run = AbuseRun]
    BY LoopTurns DEF Abuse!Count, Decided
  <2> HIDE DEF d, side, run
  <2>2. d.side = side /\ d.run = run /\ d.found = (run = AbuseRun)
    BY <2>1
  <2>3. d.found \in BOOLEAN /\ (d.found <=> d.run = AbuseRun)
    BY <2>2
  <2>4. QED
    BY <2>2, <2>3 DEF run
<1> HIDE DEF c, d
<1>2. /\ c.run \in Nat /\ c.run < AbuseRun
      /\ CountsLast(V, n, c) /\ NoRun(V, n)
  BY DEF LoopInv, c
<1>3. /\ d.run \in Nat /\ d.run > 0 /\ d.run <= AbuseRun
      /\ AbuseRun \in Nat
  BY <1>1, <1>2, RunAssumption
<1>4. \A i \in 1..(n + 1) :
        /\ Window(V, i, n + 1) = Window(V, i, n) \cup {x}
        /\ Cardinality(Window(V, i, n + 1)) = Cardinality(Window(V, i, n)) + 1
        /\ Cardinality(Window(V, i, n)) \in Nat
  BY WindowStep, WindowFinite
<1>5. Window(V, n + 1, n) = {} /\ Cardinality(Window(V, n + 1, n)) = 0
  BY WindowStep
<1> HIDE DEF x
<1>6. \A i \in 1..(n + 1) : \A s :
        Uniform(V, i, n + 1, s) <=> s = side /\ Uniform(V, i, n, side)
  BY <1>4 DEF Uniform
<1>7. \A i \in 1..n : i \in 1..(n + 1)
  OBVIOUS
<1>8. \E i \in 1..(n + 1) : /\ Decided(V[i]) /\ Uniform(V, i, n + 1, d.side)
                            /\ Cardinality(Window(V, i, n + 1)) = d.run
  <2>1. CASE c.side = side /\ c.run > 0
    <3>1. PICK i \in 1..n : /\ Decided(V[i]) /\ Uniform(V, i, n, c.side)
                            /\ Cardinality(Window(V, i, n)) = c.run
      BY <1>2, <2>1 DEF CountsLast
    <3>2. QED
      BY <1>1, <1>4, <1>6, <1>7, <2>1, <3>1
  <2>2. CASE ~(c.side = side /\ c.run > 0)
    <3>1. d.run = 1
      BY <1>1, <1>2, <2>2
    <3>2. Uniform(V, n + 1, n, side) /\ n + 1 \in 1..(n + 1)
      BY <1>5 DEF Uniform
    <3>3. QED
      BY <1>1, <1>4, <1>5, <1>6, <3>1, <3>2
  <2>3. QED
    BY <2>1, <2>2
<1>9. \A i \in 1..(n + 1) : \A s : Uniform(V, i, n + 1, s) =>
        Cardinality(Window(V, i, n + 1)) <= IF s = d.side THEN d.run ELSE 0
  <2> SUFFICES ASSUME NEW i \in 1..(n + 1), Uniform(V, i, n, side)
               PROVE  Cardinality(Window(V, i, n + 1)) <= d.run
    BY <1>1, <1>6
  <2>1. CASE i = n + 1
    BY <1>3, <1>4, <1>5, <2>1
  <2>2. CASE i # n + 1
    <3>1. i \in 1..n
      BY <2>2
    <3>2. Cardinality(Window(V, i, n)) <= IF side = c.side THEN c.run ELSE 0
      BY <1>2, <3>1 DEF CountsLast
    <3>3. QED
      BY <1>1, <1>2, <1>4, <3>2
  <2>3. QED
    BY <2>1, <2>2
<1>10. CASE d.found
  <2>1. PICK i \in 1..(n + 1) : /\ Decided(V[i]) /\ Uniform(V, i, n + 1, d.side)
                                /\ Cardinality(Window(V, i, n + 1)) = d.run
    BY <1>8
  <2>2. d.run = AbuseRun /\ n + 1 \in 1..(n + 1)
    BY <1>1, <1>10
  <2>3. Decided(V[n + 1])
    OBVIOUS
  <2>4. HoldsRun(V, i, n + 1)
    BY <1>3, <2>1, <2>2, <2>3 DEF HoldsRun
  <2>5. QED
    BY <1>1, <1>3, <1>10, <2>2, <2>4 DEF LoopInv, d
<1>11. CASE ~d.found
  <2>1. d.run < AbuseRun
    BY <1>1, <1>3, <1>11
  <2>2. CountsLast(V, n + 1, d)
    BY <1>8, <1>9 DEF CountsLast
  <2>3. \A i \in 1..(n + 1) : \A s : Uniform(V, i, n + 1, s) =>
          Cardinality(Window(V, i, n + 1)) < AbuseRun
    BY <1>3, <1>4, <1>9, <2>1
  <2>4. NoRun(V, n + 1)
    BY <1>2, <2>3, NoRunStep
  <2>5. QED
    BY <1>1, <1>3, <1>11, <2>1, <2>2, <2>4 DEF LoopInv, d
<1>12. QED
  BY <1>10, <1>11

LEMMA LoopAlways ==
  ASSUME NEW V, ListOfVotes(V), NEW n \in 0..Len(V)
  PROVE  LoopInv(V, n)
<1> DEFINE Wrong == {m \in 0..Len(V) : ~LoopInv(V, m)}
<1>0. Len(V) \in Nat
  BY DEF ListOfVotes
<1> SUFFICES ASSUME Wrong # {} PROVE FALSE
  OBVIOUS
<1>1. PICK m \in Wrong : \A k \in Wrong : m <= k
  <2>1. Wrong \subseteq Nat
    BY <1>0
  <2> HIDE DEF Wrong
  <2>2. QED
    BY <2>1, LeastNumber
<1>2. LoopInv(V, 0)
  <2>1. Abuse!Counts(V)[0] = Start
    BY <1>0, CountsAre
  <2>2. CountsLast(V, 0, Start) /\ NoRun(V, 0)
    BY DEF CountsLast, NoRun, Start
  <2>3. QED
    BY <2>1, <2>2, RunAssumption DEF LoopInv, Start
<1>3. m \in 1..Len(V) /\ m - 1 \in 0..Len(V) /\ m - 1 \in Nat /\ (m - 1) + 1 = m
  BY <1>0, <1>2
<1>4. LoopInv(V, m - 1)
  BY <1>0, <1>1, <1>3
<1>5. LoopInv(V, (m - 1) + 1)
  <2> DEFINE k == m - 1
  <2>1. k \in Nat /\ k + 1 \in 1..Len(V) /\ LoopInv(V, k)
    BY <1>3, <1>4
  <2> HIDE DEF k
  <2>2. LoopInv(V, k + 1)
    BY <2>1, LoopReturns, LoopSkips, LoopCounts
  <2>3. QED
    BY <2>2 DEF k
<1>6. QED
  BY <1>3, <1>5

\* The loop over a list of votes finds a run exactly if there is one, and a list
\* that is too short holds none.
LEMMA LoopIsRight ==
  ASSUME NEW V, ListOfVotes(V)
  PROVE  Abuse!IsVotingAbused(V) <=> Abuse!InARow(Abuse!Range(V), AbuseRun)
<1> DEFINE L == Len(V)
           c == Abuse!Counts(V)[L]
<1>1. L \in Nat
  BY DEF ListOfVotes
<1>2. LoopInv(V, L)
  BY <1>1, LoopAlways
<1>3. Abuse!IsVotingAbused(V) <=> L > AbuseRun - 1 /\ c.found
  BY DEF Abuse!IsVotingAbused, Abuse!IsConsecutiveVotesFound
<1> HIDE DEF L, c
<1>4. c.found <=> \E i, j \in 1..L : HoldsRun(V, i, j)
  <2>1. c.found => \E i, j \in 1..L : HoldsRun(V, i, j)
    BY <1>2 DEF LoopInv, c
  <2>2. ASSUME ~c.found, NEW i \in 1..L, NEW j \in 1..L, HoldsRun(V, i, j) PROVE FALSE
    <3>1. NoRun(V, L)
      BY <1>2, <2>2 DEF LoopInv, c
    <3>2. Cardinality(Window(V, i, j)) \in Int
      BY <1>1, WindowFinite
    <3>3. QED
      BY <2>2, <3>1, <3>2, RunAssumption DEF NoRun, HoldsRun
  <2>3. QED
    BY <2>1, <2>2
<1>5. ASSUME NEW i \in 1..L, NEW j \in 1..L, HoldsRun(V, i, j) PROVE L > AbuseRun - 1
  <2>1. Cardinality(Window(V, i, j)) \in 0..j /\ Cardinality(Window(V, i, j)) >= AbuseRun
    BY <1>1, <1>5, WindowFinite DEF HoldsRun
  <2>2. QED
    BY <1>1, <2>1, RunAssumption
<1>6. QED
  BY <1>3, <1>4, <1>5, RunIsHeld DEF L
-----------------------------------------------------------------------------
(* What a vote pays.                                                        *)

\* Half of the steps of the curve lie where the contestant is not ahead.
LEMMA EvenChance ==
  ASSUME NEW self \in Int, NEW opponent \in Int
  PROVE  LET p == CalculateProbabilityOfWinning(self, opponent)
         IN /\ p \in 0..Precision
            /\ self <= opponent => 2 * p <= Precision
            /\ self >= opponent => 2 * p >= Precision
<1> DEFINE S == {i \in 1..Precision : Curve[i] <= self - opponent}
           p == CalculateProbabilityOfWinning(self, opponent)
<1>1. PICK h \in Nat : Precision = 2 * h
  BY RatingAssumption, CurveAssumption
<1>2. p = Cardinality(S) /\ p \in 0..Precision
  BY ProbabilityRange DEF CalculateProbabilityOfWinning
<1>3. /\ IsFiniteSet(1..Precision) /\ IsFiniteSet(1..h) /\ Cardinality(1..h) = h
  BY <1>1, FS_Interval, RatingAssumption
<1>4. \A i \in 1..Precision : Curve[i] \in Int /\ (Curve[i] <= 0 <=> i <= h)
  BY <1>1, RatingAssumption, CurveAssumption
<1>5. ASSUME self <= opponent PROVE 2 * p <= Precision
  <2>1. S \subseteq 1..h
    BY <1>1, <1>4, <1>5
  <2>2. Cardinality(S) <= h
    BY <1>3, <2>1, FS_Subset
  <2>3. QED
    BY <1>1, <1>2, <2>2
<1>6. ASSUME self >= opponent PROVE 2 * p >= Precision
  <2>1. 1..h \subseteq S
    BY <1>1, <1>4, <1>6
  <2>2. IsFiniteSet(S)
    BY <1>3, FS_Subset
  <2>3. h <= Cardinality(S)
    BY <1>3, <2>1, <2>2, FS_Subset
  <2>4. QED
    BY <1>1, <1>2, <2>3
<1>7. QED
  BY <1>2, <1>5, <1>6

\* What the winner gains is K times the other's chance.
PaysRight(v) ==
  /\ WinnerLead(v) <= 0 => 2 * WinnerGain(v) >= 10 * Precision
  /\ WinnerLead(v) >= 0 => 2 * WinnerGain(v) <= 40 * Precision
  /\ WinnerGain(v) \in 0..40 * Precision

LEMMA GainBounds ==
  ASSUME NEW k \in Factors, NEW p \in 0..Precision
  PROVE  /\ k * p \in 0..40 * Precision
         /\ 2 * p >= Precision => 2 * (k * p) >= 10 * Precision
         /\ 2 * p <= Precision => 2 * (k * p) <= 40 * Precision
<1>1. k = 10 \/ k = 20 \/ k = 40
  BY DEF Factors
<1>2. p \in Int /\ p >= 0 /\ p <= Precision /\ Precision \in Int
  BY RatingAssumption
<1>3. CASE k = 10
  BY <1>2, <1>3
<1>4. CASE k = 20
  BY <1>2, <1>4
<1>5. CASE k = 40
  BY <1>2, <1>5
<1>6. QED
  BY <1>1, <1>3, <1>4, <1>5

LEMMA CastPaysRight ==
  ASSUME NEW b, b.contestant # b.opponent, NEW contestant \in Int, NEW opponent \in Int,
         NEW total, NEW v, v.ballot = b, Decisive(b),
         v.scores = [contestantPrevious |-> contestant,
                     contestantCurrent |-> ContestantNext(b, contestant, opponent, total),
                     opponentPrevious |-> opponent,
                     opponentCurrent |-> OpponentNext(b, contestant, opponent, total)]
  PROVE  PaysRight(v)
<1> DEFINE p == CalculateProbabilityOfWinning(contestant, opponent)
           k == CalculateKFactor(total, contestant)
<1>1. k \in Factors /\ p \in 0..Precision /\ Precision \in Nat
      /\ (contestant <= opponent => 2 * p <= Precision)
      /\ (contestant >= opponent => 2 * p >= Precision)
  BY KFactorRange, EvenChance, RatingAssumption
<1>2. /\ v.scores.contestantPrevious = contestant /\ v.scores.opponentPrevious = opponent
      /\ v.scores.contestantCurrent =
           contestant + k * ((IF b.winner = b.contestant THEN 1 ELSE 0) * Precision - p)
      /\ v.scores.opponentCurrent =
           opponent + k * ((IF b.winner = b.opponent THEN 1 ELSE 0) * Precision - (Precision - p))
  BY DEF ContestantNext, OpponentNext, CalculateNextRating
<1> HIDE DEF p, k
<1>3. k \in Int /\ p \in Int /\ Precision - p \in 0..Precision
  BY <1>1 DEF Factors
<1>4. CASE b.winner = b.contestant
  <2>1. /\ WinnerLead(v) = contestant - opponent
        /\ WinnerGain(v) = k * (Precision - p)
    <3>1. v.scores.contestantCurrent = contestant + k * (Precision - p)
      BY <1>1, <1>2, <1>3, <1>4
    <3>2. k * (Precision - p) \in Int
      BY <1>1, <1>3
    <3>3. QED
      BY <1>2, <1>4, <3>1, <3>2 DEF WinnerLead, WinnerGain
  <2>2. /\ WinnerLead(v) <= 0 => 2 * (Precision - p) >= Precision
        /\ WinnerLead(v) >= 0 => 2 * (Precision - p) <= Precision
    BY <1>1, <1>3, <2>1
  <2>3. QED
    BY <1>1, <1>3, <2>1, <2>2, GainBounds DEF PaysRight
<1>5. CASE b.winner = b.opponent
  <2>1. /\ WinnerLead(v) = opponent - contestant
        /\ WinnerGain(v) = k * p
    <3>1. v.scores.opponentCurrent = opponent + k * p
      BY <1>1, <1>2, <1>3, <1>5
    <3>2. k * p \in Int
      BY <1>1, <1>3
    <3>3. b.winner # b.contestant
      BY <1>5
    <3>4. QED
      BY <1>2, <3>1, <3>2, <3>3 DEF WinnerLead, WinnerGain
  <2>2. /\ WinnerLead(v) <= 0 => 2 * p >= Precision
        /\ WinnerLead(v) >= 0 => 2 * p <= Precision
    BY <1>1, <1>3, <2>1
  <2>3. QED
    BY <1>1, <2>1, <2>2, GainBounds DEF PaysRight
<1>6. QED
  BY <1>4, <1>5 DEF Decisive
-----------------------------------------------------------------------------
(* Every reachable state.                                                   *)

LedgerInv == rating \in [Entries -> Int] /\ UpsetPaysMore

RulesInv == LedgerInv /\ ListOfVotes(userVotes)

LEMMA CastLedgerInv ==
  ASSUME LedgerInv, NEW id \in Requests, NEW b \in Ballots, Cast(id, b)
  PROVE  LedgerInv'
<1> DEFINE contestant == rating[<<b.contestant, b.category>>]
           opponent == rating[<<b.opponent, b.category>>]
           total == Comparisons(b.contestant, b.category)
           scores == [contestantPrevious |-> contestant,
                      contestantCurrent |-> ContestantNext(b, contestant, opponent, total),
                      opponentPrevious |-> opponent,
                      opponentCurrent |-> OpponentNext(b, contestant, opponent, total)]
           v == [id |-> id, ballot |-> b, scores |-> scores]
<1>1. b \in Ballot /\ b.contestant # b.opponent
  BY BallotsAssumption
<1>2. <<b.contestant, b.category>> \in Entries /\ <<b.opponent, b.category>> \in Entries
  BY <1>1 DEF Ballot, Entries
<1>3. contestant \in Int /\ opponent \in Int
  BY <1>2 DEF LedgerInv
<1>4. /\ votes' = votes \cup {v}
      /\ rating' = [rating EXCEPT ![<<b.contestant, b.category>>] = scores.contestantCurrent,
                                  ![<<b.opponent, b.category>>] = scores.opponentCurrent]
  BY DEF Cast
<1>5. v.ballot = b /\ v.scores = scores
  OBVIOUS
<1>6. scores.contestantCurrent \in Int /\ scores.opponentCurrent \in Int
  <2> DEFINE p == CalculateProbabilityOfWinning(contestant, opponent)
             k == CalculateKFactor(total, contestant)
  <2>1. k \in Factors /\ Precision \in Int
    BY KFactorRange, RatingAssumption
  <2>2. p \in 0..Precision
    <3> HIDE DEF contestant, opponent
    <3>1. QED
      BY <1>3, ProbabilityRange
  <2> HIDE DEF p, k
  <2>3. p \in Int /\ Precision - p \in Int
    BY <2>1, <2>2
  <2>4. \A s \in {0, 1} : /\ CalculateNextRating(contestant, p, s, k) \in Int
                          /\ CalculateNextRating(opponent, Precision - p, s, k) \in Int
    BY <1>3, <2>1, <2>3, NextRatingType
  <2>5. QED
    BY <2>4 DEF ContestantNext, OpponentNext, p, k
<1> HIDE DEF scores
<1>7. rating' \in [Entries -> Int]
  BY <1>2, <1>4, <1>6 DEF LedgerInv
<1>8. Decisive(b) => PaysRight(v)
  <2> HIDE DEF v, contestant, opponent, total
  <2>1. QED
    BY <1>1, <1>3, <1>5, CastPaysRight DEF scores
<1> HIDE DEF v
<1>9. UpsetPaysMore'
  <2>1. \A w \in votes : Decisive(w.ballot) => PaysRight(w)
    BY DEF LedgerInv, UpsetPaysMore, PaysRight
  <2>2. \A w \in votes' : Decisive(w.ballot) => PaysRight(w)
    BY <1>4, <1>5, <1>8, <2>1
  <2>3. QED
    BY <2>2 DEF UpsetPaysMore, PaysRight
<1>10. QED
  BY <1>7, <1>9 DEF LedgerInv

LEMMA StepLedgerInv ==
  ASSUME LedgerInv, LedgerNext \/ UNCHANGED ledgerVars
  PROVE  LedgerInv'
<1>1. ASSUME NEW u \in Users, Discard(u) PROVE LedgerInv'
  BY <1>1 DEF LedgerInv, Discard, UpsetPaysMore
<1>2. CASE UNCHANGED ledgerVars
  BY <1>2 DEF LedgerInv, ledgerVars, UpsetPaysMore
<1>3. QED
  BY <1>1, <1>2, CastLedgerInv DEF LedgerNext

LEMMA StepListOfVotes ==
  ASSUME ListOfVotes(userVotes), Abuse!Next \/ UNCHANGED userVotes
  PROVE  ListOfVotes(userVotes)'
<1>1. CASE UNCHANGED userVotes
  BY <1>1 DEF ListOfVotes
<1>2. CASE Abuse!Next
  <2> DEFINE V == userVotes
             v(b) == [ballot |-> b, at |-> Len(V)]
  <2>1. PICK b \in BallotsSeen : userVotes' = <<v(b)>> \o V
    BY <1>2 DEF Abuse!Next
  <2>2. V \in Seq([ballot : BallotsSeen, at : Nat]) /\ Len(V) \in Nat
    BY DEF ListOfVotes
  <2>3. v(b) \in [ballot : BallotsSeen, at : Nat] /\ v(b).at = Len(V)
    BY <2>2
  <2>4. QED
    <3> DEFINE x == v(b)
    <3>1. x \in [ballot : BallotsSeen, at : Nat] /\ x.at = Len(V) /\ userVotes' = <<x>> \o V
      BY <2>1, <2>3
    <3> HIDE DEF x
    <3>2. userVotes' \in Seq([ballot : BallotsSeen, at : Nat]) /\ Len(userVotes') = Len(V) + 1
      BY <2>2, <3>1
    <3>3. \A n \in 1..(Len(V) + 1) : userVotes'[n] = IF n = 1 THEN x ELSE V[n - 1]
      BY <2>2, <3>1
    <3>4. \A n \in 1..Len(V) : V[n].at = Len(V) - n
      BY DEF ListOfVotes
    <3>5. ASSUME NEW n \in 1..(Len(V) + 1) PROVE userVotes'[n].at = Len(V) + 1 - n
      <4>1. CASE n = 1
        BY <2>2, <3>1, <3>3, <4>1
      <4>2. CASE n # 1
        <5>1. n - 1 \in 1..Len(V)
          BY <2>2, <4>2
        <5>2. QED
          BY <2>2, <3>3, <3>4, <4>2, <5>1
      <4>3. QED
        BY <4>1, <4>2
    <3>6. QED
      BY <3>2, <3>5 DEF ListOfVotes
<1>3. QED
  BY <1>1, <1>2

LEMMA StepRulesInv == RulesInv /\ [Next]_<<ledgerVars, userVotes>> => RulesInv'
BY StepLedgerInv, StepListOfVotes DEF RulesInv, Next

LEMMA InitRulesInv == Init => RulesInv
<1> SUFFICES ASSUME Init PROVE RulesInv
  OBVIOUS
<1>1. rating = InitialRatings /\ votes = {} /\ userVotes = << >>
  BY DEF Init, LedgerInit, Abuse!Init
<1>2. QED
  BY <1>1, InitialRatingsAssumption DEF RulesInv, LedgerInv, UpsetPaysMore, ListOfVotes

\* An upset pays at least half of the least K and an expected win at most half of
\* the largest; the winner gains between nothing and the largest K.
THEOREM UpsetsPayMore == Spec => []UpsetPaysMore
<1>1. RulesInv => UpsetPaysMore
  BY DEF RulesInv, LedgerInv
<1>2. QED
  BY <1>1, InitRulesInv, StepRulesInv, PTL DEF Spec

\* The loop of isConsecutiveVotesFound finds the runs of every list of votes.
THEOREM LoopFinds == Spec => []LoopFindsRuns
<1>1. RulesInv => LoopFindsRuns
  BY LoopIsRight DEF RulesInv, LoopFindsRuns, Abuse!LoopFindsRuns
<1>2. QED
  BY <1>1, InitRulesInv, StepRulesInv, PTL DEF Spec
=============================================================================
