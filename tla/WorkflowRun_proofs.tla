------------------------- MODULE WorkflowRun_proofs -------------------------
(***************************************************************************)
(* Proofs about WorkflowRun, for any calls, tools, chunks, answers and cap. *)
(***************************************************************************)
EXTENDS WorkflowRun, FiniteSetTheorems, SequenceTheorems, WellFoundedInduction,
        TLAPS

-----------------------------------------------------------------------------
(* One round.                                                                *)

(* The calls that a round executes for one key.                              *)
Executed(k) == {i \in Missed : KeyAt(i) = k}

LEMMA MissedOnce ==
  ASSUME GraphOK, NEW k \in Keys
  PROVE  /\ Cardinality(Executed(k)) \in {0, 1}
         /\ k \in cache => Cardinality(Executed(k)) = 0
         /\ Cardinality(Executed(k)) = 1 => k \in {KeyAt(i) : i \in Kept}
<1>1. Missed \subseteq Kept /\ Kept \subseteq ServerCalls /\ ServerCalls \subseteq Int
  BY DEF Missed, Kept, ServerCalls, GraphOK
<1>2. ASSUME NEW i \in Executed(k), NEW j \in Executed(k) PROVE i = j
  BY <1>1 DEF Executed, Kept, KeyAt
<1>3. CASE Executed(k) = {}
  BY <1>3, FS_EmptySet
<1>4. CASE Executed(k) # {}
  <2>1. PICK i : i \in Executed(k)
    BY <1>4
  <2>2. Executed(k) = {i}
    BY <2>1, <1>2
  <2>3. Cardinality(Executed(k)) = 1
    BY <2>2, FS_Singleton
  <2>4. i \in Kept /\ KeyAt(i) = k /\ k \notin cache
    BY <2>1, <1>1 DEF Executed, Missed
  <2> QED BY <2>3, <2>4
<1> QED BY <1>3, <1>4

LEMMA KeysAnswered == GraphOK => {KeyAt(i) : i \in Kept} \subseteq Keys
<1> SUFFICES ASSUME GraphOK, NEW i \in Kept PROVE KeyAt(i) \in Keys
  OBVIOUS
<1>1. message[i] \in Calls
  BY DEF GraphOK, Kept, ServerCalls
<1> QED BY <1>1, RunAssumption DEF KeyAt

-----------------------------------------------------------------------------
(* What each step keeps.  The rounds are counted by the channel, which the    *)
(* agent's returns only make larger, and a key that was executed has a result. *)

Counted == rounds <= iterations /\ rounds <= Cap /\ (at = "tools" => iterations < Cap)
Answerable == \A k \in Keys : fired[k] \in {0, 1} /\ (fired[k] = 1 => k \in cache)

IInv == GraphOK /\ Counted /\ Answerable

LEMMA InitIInv == Init => IInv
  BY RunAssumption DEF Init, IInv, GraphOK, Counted, Answerable, Ends

(* An end of a generation, broken or not.                                     *)
LEMMA ReturnKeeps ==
  ASSUME IInv, NEW answer \in Seq(Calls), Return(answer) PROVE IInv'
<1>1. message' = answer /\ iterations' = iterations + iterations /\ at' = "routing"
  BY DEF Return
<1>2. UNCHANGED <<cache, fired, rounds>>
  BY DEF Return, toolVars
<1>3. GraphOK' /\ Counted'
  BY <1>1, <1>2, RunAssumption DEF IInv, GraphOK, Counted
<1>4. Answerable'
  BY <1>2 DEF IInv, Answerable
<1> QED BY <1>3, <1>4 DEF IInv

LEMMA RunToolsKeeps == ASSUME IInv, RunTools PROVE IInv'
<1>1. at' = "model" /\ message' = message
      /\ iterations' = iterations + 1 /\ rounds' = rounds + 1
  BY DEF RunTools
<1>2. fired' = [k \in Keys |-> fired[k] + Cardinality(Executed(k))]
  BY DEF RunTools, Executed
<1>3. cache' = cache \cup {KeyAt(i) : i \in Kept}
  BY DEF RunTools
<1>4. GraphOK
  BY DEF IInv
<1>5. ASSUME NEW k \in Keys
      PROVE fired'[k] \in {0, 1} /\ (fired'[k] = 1 => k \in cache')
  <2>1. fired'[k] = fired[k] + Cardinality(Executed(k))
    BY <1>2
  <2>2. fired[k] \in {0, 1} /\ (fired[k] = 1 => k \in cache)
    BY DEF IInv, Answerable
  <2> QED BY <2>1, <2>2, <1>3, <1>4, MissedOnce
<1>6. fired' \in [Keys -> Nat]
  BY <1>2, <1>5
<1>7. GraphOK'
  BY <1>1, <1>3, <1>4, <1>6, KeysAnswered DEF GraphOK
<1>8. Counted'
  BY <1>1, <1>4, RunAssumption DEF RunTools, IInv, Counted, GraphOK
<1> QED BY <1>5, <1>7, <1>8 DEF IInv, Answerable

LEMMA StepKeeps == ASSUME IInv, [Next]_vars PROVE IInv'
<1>1. CASE Chunk
  BY <1>1 DEF Chunk, graphVars, toolVars, IInv, GraphOK, Counted, Answerable
<1>2. CASE EndCall
  <2>1. PICK answer \in Answers : Return(answer)
    BY <1>2 DEF EndCall
  <2> QED BY <2>1, ReturnKeeps, RunAssumption
<1>3. CASE BreakCall
  <2>1. Return(<< >>)
    BY <1>3 DEF BreakCall
  <2>2. << >> \in Seq(Calls)
    OBVIOUS
  <2> QED BY <2>1, <2>2, ReturnKeeps
<1>4. CASE Fail
  BY <1>4 DEF Fail, graphVars, toolVars, IInv, GraphOK, Counted, Answerable, Ends
<1>5. CASE Route
  <2>1. UNCHANGED <<message, iterations, cache, fired, rounds>>
    BY <1>5 DEF Route, graphVars, toolVars
  <2>2. at' \in {"tools", "over"} /\ (at' = "tools" => iterations < Cap)
    BY <1>5 DEF Route, MayContinue
  <2>3. GraphOK' /\ Answerable'
    BY <2>1, <2>2 DEF IInv, GraphOK, Answerable, Ends
  <2>4. Counted'
    BY <2>1, <2>2 DEF IInv, Counted
  <2> QED BY <2>3, <2>4 DEF IInv
<1>6. CASE RunTools
  BY <1>6, RunToolsKeeps
<1>7. CASE Done \/ UNCHANGED vars
  BY <1>7 DEF Done, vars, graphVars, toolVars, IInv, GraphOK, Counted, Answerable
<1> QED BY <1>1, <1>2, <1>3, <1>4, <1>5, <1>6, <1>7 DEF Next

LEMMA Invariance == Spec => []IInv
<1> QED BY InitIInv, StepKeeps, PTL DEF Spec

-----------------------------------------------------------------------------
(* Induction over numbers and over sequences, from the library's facts about    *)
(* well-founded relations.                                                    *)

Less == {ss \in Nat \X Nat : ss[1] < ss[2]}

LEMMA LessWellFounded == IsWellFoundedOn(Less, Nat)
  BY NatLessThanWellFounded DEF OpToRel, Less

(* A set of numbers that is not empty has a least one.                       *)
LEMMA LeastNumber ==
  ASSUME NEW S, S \subseteq Nat, S # {}
  PROVE  \E x \in S : \A y \in S : x <= y
<1>1. PICK x \in S : \A y \in S : ~ (<<y, x>> \in Less)
  BY WFMin, LessWellFounded
<1>2. ASSUME NEW y \in S PROVE x <= y
  <2>1. x \in Nat /\ y \in Nat /\ <<y, x>> \notin Less
    BY <1>1
  <2>2. ~ (y < x)
    BY <2>1 DEF Less
  <2> QED BY <2>1, <2>2
<1> QED BY <1>2

LEMMA NumberInduction ==
  ASSUME NEW S, 0 \in S, \A n \in Nat : n \in S => n + 1 \in S
  PROVE  Nat \subseteq S
<1> SUFFICES ASSUME Nat \ S # {} PROVE FALSE
  OBVIOUS
<1>1. PICK x \in Nat \ S : \A y \in Nat \ S : x <= y
  BY LeastNumber
<1>2. x # 0 /\ x - 1 \in Nat
  OBVIOUS
<1>3. x - 1 \in S
  BY <1>1, <1>2
<1> QED BY <1>2, <1>3

LEMMA SeqInduction ==
  ASSUME NEW T, NEW S, << >> \in S,
         \A s \in Seq(T), t \in T : s \in S => Append(s, t) \in S
  PROVE  Seq(T) \subseteq S
<1> DEFINE N == {n \in Nat : \A s \in Seq(T) : Len(s) = n => s \in S}
<1>1. 0 \in N
  OBVIOUS
<1>2. ASSUME NEW n \in Nat, n \in N PROVE n + 1 \in N
  <2> SUFFICES ASSUME NEW s \in Seq(T), Len(s) = n + 1 PROVE s \in S
    OBVIOUS
  <2>1. PICK f \in Seq(T), e \in T : s = Append(f, e)
    BY SequenceEmptyOrAppend
  <2>2. Len(f) = n
    BY <2>1
  <2> QED BY <1>2, <2>1, <2>2
<1>3. Nat \subseteq N
  <2> HIDE DEF N
  <2> QED BY <1>1, <1>2, NumberInduction
<1> QED BY <1>3

LEMMA MinProp ==
  ASSUME NEW S, S \subseteq Nat, S # {}
  PROVE  Min(S) \in S /\ \A y \in S : Min(S) <= y
  BY LeastNumber DEF Min

LEMMA MaxProp ==
  ASSUME NEW n \in Nat, NEW S, S \subseteq 0..n, S # {}
  PROVE  Max(S) \in S /\ \A y \in S : y <= Max(S)
<1> DEFINE B == {k \in Nat : \A y \in S : y <= k}
<1>1. n \in B
  OBVIOUS
<1>2. PICK x \in B : \A y \in B : x <= y
  BY <1>1, LeastNumber
<1>3. x \in S
  <2> SUFFICES ASSUME x \notin S PROVE FALSE
    OBVIOUS
  <2>1. x \in Nat /\ \A y \in S : y \in Nat /\ y <= x /\ y # x
    BY <1>2
  <2>2. ASSUME NEW y \in S PROVE y <= x - 1
    BY <2>1
  <2>3. x - 1 \in Nat
    <3>1. PICK y \in S : TRUE
      OBVIOUS
    <3>2. y \in Nat /\ y <= x - 1
      BY <3>1, <2>1, <2>2
    <3> QED BY <3>2, <2>1
  <2>4. x - 1 \in B
    BY <2>1, <2>2, <2>3
  <2> QED BY <2>1, <2>4, <1>2
<1>4. \A y \in S : y <= x
  BY <1>2
<1>5. \E z \in S : \A y \in S : z >= y
  BY <1>3, <1>4
<1> QED BY <1>5 DEF Max

LEMMA FirstProp ==
  ASSUME NEW T, NEW s \in Seq(T), NEW t
  PROVE  /\ First(s, t) \in 0..Len(s)
         /\ First(s, t) # 0 => s[First(s, t)] = t
         /\ \A i \in 1..Len(s) : s[i] = t => First(s, t) # 0 /\ First(s, t) <= i
<1> DEFINE I == {i \in 1..Len(s) : s[i] = t}
<1>1. First(s, t) = IF I # {} THEN Min(I) ELSE 0
  BY DEF First, SelectInSeq
<1>2. I \subseteq Nat
  OBVIOUS
<1>3. I # {} => Min(I) \in I /\ \A i \in I : Min(I) <= i
  BY <1>2, MinProp
<1>4. CASE I = {}
  <2>1. First(s, t) = 0
    BY <1>1, <1>4
  <2> QED BY <2>1, <1>4
<1>5. CASE I # {}
  <2>1. First(s, t) \in I /\ \A i \in I : First(s, t) <= i
    BY <1>1, <1>3, <1>5
  <2> QED BY <2>1
<1> QED BY <1>4, <1>5

(* A fold as a function: what the recursive functions of the model come to.    *)
Steps(F, init, s) ==
  CHOOSE f : f = [n \in 0..Len(s) |-> IF n = 0 THEN init ELSE F[<<f[n - 1], s[n]>>]]

Fold(F, init, s) == Steps(F, init, s)[Len(s)]

LEMMA StepsExist ==
  ASSUME NEW F, NEW init, NEW s, Len(s) \in Nat
  PROVE  Steps(F, init, s)
           = [n \in 0..Len(s) |->
                IF n = 0 THEN init ELSE F[<<Steps(F, init, s)[n - 1], s[n]>>]]
<1> DEFINE V(f, n) == IF n = 0 THEN init ELSE F[<<f[n - 1], s[n]>>]
           N == {m \in Nat : \E f : f = [n \in 0..m |-> V(f, n)]}
<1>1. 0 \in N
  <2> DEFINE f == [n \in 0..0 |-> init]
  <2>1. f = [n \in 0..0 |-> V(f, n)]
    OBVIOUS
  <2> QED BY <2>1
<1>2. ASSUME NEW m \in Nat, m \in N PROVE m + 1 \in N
  <2>1. PICK f : f = [n \in 0..m |-> V(f, n)]
    BY <1>2
  <2> DEFINE g == [n \in 0..m + 1 |-> IF n <= m THEN f[n] ELSE F[<<f[m], s[m + 1]>>]]
  <2>2. ASSUME NEW n \in 0..m PROVE f[n] = V(f, n)
    <3> HIDE DEF V
    <3> QED BY <2>1
  <2>3. ASSUME NEW n \in 0..m + 1 PROVE g[n] = V(g, n)
    <3>1. CASE n = m + 1
      BY <3>1
    <3>2. CASE n \in 0..m
      <4>1. n # 0 => g[n - 1] = f[n - 1]
        BY <3>2
      <4>2. g[n] = f[n]
        BY <3>2
      <4> QED BY <4>1, <4>2, <2>2, <3>2
    <3> QED BY <3>1, <3>2
  <2>4. g = [n \in 0..m + 1 |-> V(g, n)]
    <3>1. g = [n \in 0..m + 1 |-> g[n]]
      OBVIOUS
    <3> HIDE DEF V, g
    <3> QED BY <2>3, <3>1
  <2> HIDE DEF V
  <2>5. m + 1 \in Nat
    OBVIOUS
  <2> HIDE DEF g
  <2> QED BY <2>4, <2>5, Zenon
<1>3. Len(s) \in N
  <2> HIDE DEF N
  <2> QED BY <1>1, <1>2, NumberInduction
<1>4. \E f : f = [n \in 0..Len(s) |-> V(f, n)]
  BY <1>3
<1> QED BY <1>4, Zenon DEF Steps

LEMMA StepsAt ==
  ASSUME NEW F, NEW init, NEW s, Len(s) \in Nat
  PROVE  /\ Steps(F, init, s)[0] = init
         /\ \A n \in 1..Len(s) : Steps(F, init, s)[n] = F[<<Steps(F, init, s)[n - 1], s[n]>>]
<1> DEFINE g == Steps(F, init, s)
<1>1. g = [n \in 0..Len(s) |-> IF n = 0 THEN init ELSE F[<<g[n - 1], s[n]>>]]
  BY StepsExist
<1> HIDE DEF g
<1>2. g[0] = init /\ \A n \in 1..Len(s) : g[n] = F[<<g[n - 1], s[n]>>]
  BY <1>1
<1> QED BY <1>2 DEF g

StepOn(F, S, T) == F \in [S \X T -> S]

(* Whatever function follows the steps is that one.                          *)
Follows(f, S, F, init, s) ==
  f[0] = init /\ \A n \in 1..Len(s) : f[n - 1] \in S => f[n] = F[<<f[n - 1], s[n]>>]

LEMMA StepsUnique ==
  ASSUME NEW S, NEW T, NEW F, StepOn(F, S, T), NEW init \in S, NEW s \in Seq(T),
         NEW f, Follows(f, S, F, init, s)
  PROVE  f[Len(s)] \in S /\ f[Len(s)] = Fold(F, init, s)
<1> DEFINE g == Steps(F, init, s)
           N == {n \in Nat : n <= Len(s) => f[n] \in S /\ f[n] = g[n]}
<1>1. g[0] = init /\ \A n \in 1..Len(s) : g[n] = F[<<g[n - 1], s[n]>>]
  BY StepsAt
<1> HIDE DEF g
<1>2. 0 \in N
  BY <1>1 DEF Follows
<1>3. ASSUME NEW n \in Nat, n \in N PROVE n + 1 \in N
  <2> SUFFICES ASSUME n + 1 <= Len(s) PROVE f[n + 1] \in S /\ f[n + 1] = g[n + 1]
    OBVIOUS
  <2>1. f[n] \in S /\ f[n] = g[n]
    BY <1>3
  <2>2. n + 1 \in 1..Len(s) /\ n + 1 # 0 /\ (n + 1) - 1 = n /\ s[n + 1] \in T
    BY ElementOfSeq
  <2>3. f[n + 1] = F[<<f[n], s[n + 1]>>]
    BY <2>1, <2>2 DEF Follows
  <2>4. g[n + 1] = F[<<g[n], s[n + 1]>>]
    BY <1>1, <2>2
  <2> QED BY <2>1, <2>2, <2>3, <2>4 DEF StepOn
<1>4. Nat \subseteq N
  <2> HIDE DEF N
  <2> QED BY <1>2, <1>3, NumberInduction
<1>5. f[Len(s)] \in S /\ f[Len(s)] = g[Len(s)]
  BY <1>4
<1> QED BY <1>5 DEF Fold, g

(* All steps stay in the set, and the fold is where they end.                 *)
LEMMA StepsTyped ==
  ASSUME NEW S, NEW T, NEW F, StepOn(F, S, T), NEW init \in S, NEW s \in Seq(T)
  PROVE  \A n \in 0..Len(s) : Steps(F, init, s)[n] \in S
<1> DEFINE g == Steps(F, init, s)
           N == {n \in Nat : n <= Len(s) => g[n] \in S}
<1>1. g[0] = init /\ \A n \in 1..Len(s) : g[n] = F[<<g[n - 1], s[n]>>]
  BY StepsAt
<1> HIDE DEF g
<1>2. 0 \in N
  BY <1>1
<1>3. ASSUME NEW n \in Nat, n \in N PROVE n + 1 \in N
  <2> SUFFICES ASSUME n + 1 <= Len(s) PROVE g[n + 1] \in S
    OBVIOUS
  <2>1. g[n] \in S
    BY <1>3
  <2>2. n + 1 \in 1..Len(s) /\ (n + 1) - 1 = n /\ s[n + 1] \in T
    BY ElementOfSeq
  <2>3. g[n + 1] = F[<<g[n], s[n + 1]>>]
    BY <1>1, <2>2
  <2> QED BY <2>1, <2>2, <2>3 DEF StepOn
<1>4. Nat \subseteq N
  <2> HIDE DEF N
  <2> QED BY <1>2, <1>3, NumberInduction
<1> QED BY <1>4 DEF g

LEMMA FoldEmpty == ASSUME NEW F, NEW init PROVE Fold(F, init, << >>) = init
<1>1. Len(<< >>) = 0
  OBVIOUS
<1>2. Steps(F, init, << >>)[0] = init
  BY <1>1, StepsAt
<1> QED BY <1>1, <1>2 DEF Fold

LEMMA FoldProp ==
  ASSUME NEW S, NEW T, NEW F, StepOn(F, S, T), NEW init \in S, NEW s \in Seq(T)
  PROVE  /\ Fold(F, init, s) \in S
         /\ \A t \in T : Fold(F, init, Append(s, t)) = F[<<Fold(F, init, s), t>>]
<1>1. ASSUME NEW r \in Seq(T) PROVE Fold(F, init, r) \in S
  <2> DEFINE g == Steps(F, init, r)
  <2>1. g[0] = init /\ \A n \in 1..Len(r) : g[n] = F[<<g[n - 1], r[n]>>]
    BY StepsAt
  <2> HIDE DEF g
  <2>2. Follows(g, S, F, init, r)
    BY <2>1 DEF Follows
  <2>4. g[Len(r)] \in S
    BY <2>2, StepsUnique
  <2> QED BY <2>4 DEF Fold, g
<1>2. ASSUME NEW t \in T
      PROVE  Fold(F, init, Append(s, t)) = F[<<Fold(F, init, s), t>>]
  <2>1. PICK r : r = Append(s, t)
    OBVIOUS
  <2>2. r \in Seq(T) /\ Len(r) = Len(s) + 1 /\ r[Len(s) + 1] = t
        /\ \A n \in 1..Len(s) : r[n] = s[n]
    BY <2>1, AppendProperties
  <2>3. PICK g : g = Steps(F, init, r)
    OBVIOUS
  <2>4. g[0] = init /\ \A n \in 1..Len(s) + 1 : g[n] = F[<<g[n - 1], r[n]>>]
    BY <2>2, <2>3, StepsAt
  <2>5. Follows(g, S, F, init, s)
    <3>1. \A n \in 1..Len(s) : n \in 1..Len(s) + 1
      OBVIOUS
    <3> QED BY <3>1, <2>2, <2>4 DEF Follows
  <2>7. g[Len(s)] = Fold(F, init, s)
    BY <2>5, StepsUnique
  <2>8. g[Len(s) + 1] = F[<<g[Len(s)], t>>]
    BY <2>2, <2>4
  <2>9. Fold(F, init, r) = g[Len(s) + 1]
    BY <2>2, <2>3 DEF Fold
  <2> QED BY <2>1, <2>7, <2>8, <2>9
<1> QED BY <1>1, <1>2

-----------------------------------------------------------------------------
(* How often something occurs in a sequence.                                   *)

LEMMA CountEmpty == ASSUME NEW t PROVE Count(<< >>, t) = 0
<1>1. {i \in 1..Len(<< >>) : << >>[i] = t} = {}
  OBVIOUS
<1> QED BY <1>1, FS_EmptySet DEF Count

LEMMA CountNat ==
  ASSUME NEW T, NEW s \in Seq(T), NEW t
  PROVE  Count(s, t) \in Nat /\ Count(s, t) <= Len(s)
<1> DEFINE A == {i \in 1..Len(s) : s[i] = t}
<1>1. IsFiniteSet(1..Len(s)) /\ Cardinality(1..Len(s)) = Len(s)
  <2>1. Len(s) \in Nat /\ 1 \in Int /\ Len(s) \in Int
    OBVIOUS
  <2>2. Cardinality(1..Len(s)) = (IF 1 > Len(s) THEN 0 ELSE Len(s) - 1 + 1) /\ IsFiniteSet(1..Len(s))
    BY <2>1, FS_Interval
  <2> QED BY <2>1, <2>2
<1>2. A \subseteq 1..Len(s)
  OBVIOUS
<1>3. Count(s, t) = Cardinality(A)
  BY DEF Count
<1> HIDE DEF A
<1>4. IsFiniteSet(A) /\ Cardinality(A) <= Cardinality(1..Len(s))
  BY <1>1, <1>2, FS_Subset
<1>5. Cardinality(A) \in Nat
  BY <1>4, FS_CardinalityType
<1> QED BY <1>1, <1>3, <1>4, <1>5

LEMMA CountAppend ==
  ASSUME NEW T, NEW s \in Seq(T), NEW x \in T, NEW t
  PROVE  Count(Append(s, x), t) = Count(s, t) + (IF x = t THEN 1 ELSE 0)
<1> DEFINE r == Append(s, x)
           A == {i \in 1..Len(s) : s[i] = t}
           B == {i \in 1..Len(r) : r[i] = t}
<1>1. Len(r) = Len(s) + 1 /\ r[Len(s) + 1] = x /\ \A i \in 1..Len(s) : r[i] = s[i]
  BY AppendProperties
<1>2. IsFiniteSet(A)
  <2>1. A \subseteq 1..Len(s) /\ IsFiniteSet(1..Len(s))
    BY FS_Interval
  <2> HIDE DEF A
  <2> QED BY <2>1, FS_Subset
<1>5. Count(s, t) = Cardinality(A) /\ Count(r, t) = Cardinality(B) /\ Count(s, t) \in Nat
  BY CountNat DEF Count
<1>3. CASE x = t
  <2>1. B = A \cup {Len(s) + 1}
    <3> HIDE DEF r
    <3> QED BY <1>1, <1>3
  <2>2. Len(s) + 1 \notin A
    OBVIOUS
  <2> HIDE DEF A, B
  <2>3. Cardinality(B) = Cardinality(A) + 1
    BY <1>2, <2>1, <2>2, FS_AddElement
  <2> QED BY <1>3, <1>5, <2>3
<1>4. CASE x # t
  <2>1. B = A
    <3> HIDE DEF r
    <3> QED BY <1>1, <1>4
  <2> HIDE DEF A, B
  <2> QED BY <1>4, <1>5, <2>1
<1> QED BY <1>3, <1>4

LEMMA CountOne ==
  ASSUME NEW T, NEW x \in T, NEW t
  PROVE  Count(<<x>>, t) = IF x = t THEN 1 ELSE 0
<1>1. PICK e \in Seq(T) : e = << >>
  BY EmptySeq
<1>2. Count(e, t) = 0
  BY <1>1, CountEmpty
<1>3. Count(Append(e, x), t) = Count(e, t) + (IF x = t THEN 1 ELSE 0)
  BY CountAppend
<1>4. Append(e, x) = <<x>>
  BY <1>1
<1> QED BY <1>2, <1>3, <1>4

LEMMA ConcatAppend ==
  ASSUME NEW T, NEW s \in Seq(T), NEW q \in Seq(T), NEW x \in T
  PROVE  s \o Append(q, x) = Append(s \o q, x)
<1>1. <<x>> \in Seq(T) /\ s \o q \in Seq(T)
  BY ConcatProperties
<1>2. Append(q, x) = q \o <<x>> /\ Append(s \o q, x) = (s \o q) \o <<x>>
  BY <1>1, AppendIsConcat
<1> QED BY <1>1, <1>2, ConcatAssociative

LEMMA CountConcat ==
  ASSUME NEW T, NEW s \in Seq(T), NEW r \in Seq(T), NEW t
  PROVE  Count(s \o r, t) = Count(s, t) + Count(r, t)
<1> DEFINE N == {q \in Seq(T) : Count(s \o q, t) = Count(s, t) + Count(q, t)}
<1>1. << >> \in N
  BY CountEmpty, CountNat, ConcatEmptySeq
<1>2. ASSUME NEW q \in Seq(T), NEW x \in T, q \in N PROVE Append(q, x) \in N
  <2>1. s \o Append(q, x) = Append(s \o q, x)
    BY ConcatAppend
  <2>2. Count(s \o Append(q, x), t) = Count(s \o q, t) + (IF x = t THEN 1 ELSE 0)
    <3>1. PICK u \in Seq(T) : u = s \o q
      BY ConcatProperties
    <3>2. Count(Append(u, x), t) = Count(u, t) + (IF x = t THEN 1 ELSE 0)
      BY CountAppend
    <3> QED BY <2>1, <3>1, <3>2
  <2>3. Count(Append(q, x), t) = Count(q, t) + (IF x = t THEN 1 ELSE 0)
    BY CountAppend
  <2>4. Count(s, t) \in Nat /\ Count(q, t) \in Nat
    BY CountNat
  <2> QED BY <1>2, <2>2, <2>3, <2>4, AppendProperties
<1>3. Seq(T) \subseteq N
  <2> HIDE DEF N
  <2> QED BY <1>1, <1>2, SeqInduction
<1> QED BY <1>3

LEMMA CutAt ==
  ASSUME NEW T, NEW s \in Seq(T), NEW i \in 0..Len(s)
  PROVE  /\ Upto(s, i) \in Seq(T) /\ Len(Upto(s, i)) = i
         /\ After(s, i) \in Seq(T) /\ Len(After(s, i)) = Len(s) - i
         /\ \A k \in 1..i : Upto(s, i)[k] = s[k]
         /\ \A k \in 1..Len(s) - i : After(s, i)[k] = s[k + i]
         /\ Upto(s, i) \o After(s, i) = s
<1>1. \A k \in 1..i : s[k] \in T
  BY ElementOfSeq
<1>2. \A k \in i + 1..Len(s) : s[k] \in T
  BY ElementOfSeq
<1>3. /\ Upto(s, i) \in Seq(T) /\ Len(Upto(s, i)) = i
      /\ \A k \in 1..i : Upto(s, i)[k] = s[k]
  BY <1>1, SubSeqProperties DEF Upto
<1>4. /\ After(s, i) \in Seq(T) /\ Len(After(s, i)) = Len(s) - i
      /\ \A k \in 1..Len(s) - i : After(s, i)[k] = s[k + i]
  BY <1>2, SubSeqProperties DEF After
<1>5. SubSeq(s, 1, i) \o SubSeq(s, i + 1, Len(s)) = SubSeq(s, 1, Len(s))
  <2>1. 1 \in 1..Len(s) + 1 /\ i \in 1 - 1..Len(s) /\ Len(s) \in i..Len(s)
    OBVIOUS
  <2> QED BY <2>1, ConcatAdjacentSubSeq
<1>6. Upto(s, i) \o After(s, i) = s
  BY <1>5, SubSeqFull DEF Upto, After
<1> QED BY <1>3, <1>4, <1>6

LEMMA CountCut ==
  ASSUME NEW T, NEW s \in Seq(T), NEW i \in 0..Len(s), NEW t
  PROVE  Count(Upto(s, i), t) + Count(After(s, i), t) = Count(s, t)
<1>1. PICK a \in Seq(T) : a = Upto(s, i)
  BY CutAt
<1>2. PICK b \in Seq(T) : b = After(s, i)
  BY CutAt
<1>3. a \o b = s
  BY <1>1, <1>2, CutAt
<1>4. Count(a \o b, t) = Count(a, t) + Count(b, t)
  BY CountConcat
<1> QED BY <1>1, <1>2, <1>3, <1>4

(* What a sequence does not hold is not found in it.                         *)
LEMMA CountZero ==
  ASSUME NEW T, NEW s \in Seq(T), NEW t
  PROVE  Count(s, t) = 0 <=> \A i \in 1..Len(s) : s[i] # t
<1> DEFINE A == {i \in 1..Len(s) : s[i] = t}
<1>1. IsFiniteSet(A)
  BY FS_Interval, FS_Subset
<1>2. Cardinality(A) = 0 <=> A = {}
  BY <1>1, FS_EmptySet
<1> QED BY <1>2 DEF Count

LEMMA HasCount ==
  ASSUME NEW T, NEW s \in Seq(T), NEW t
  PROVE  Has(s, t) <=> Count(s, t) # 0
  BY CountZero, FirstProp DEF Has

-----------------------------------------------------------------------------
(* A sequence of sequences made one.                                         *)

Lists(T) == Seq(T)
Nil == << >>
CatF(T) == [z \in Seq(T) \X Seq(T) |-> z[1] \o z[2]]

LEMMA CatOn == ASSUME NEW T PROVE StepOn(CatF(T), Lists(T), Lists(T)) /\ Nil \in Lists(T)
  BY ConcatProperties DEF StepOn, CatF, Lists, Nil

LEMMA FlattenFold ==
  ASSUME NEW T, NEW ss \in Seq(Seq(T))
  PROVE  FlattenSeq(ss) = Fold(CatF(T), Nil, ss)
<1>1. CASE ss = << >>
  <2>1. Len(ss) = 0
    BY <1>1
  <2>2. FlattenSeq(ss) = ss
    BY <2>1 DEF FlattenSeq
  <2> QED BY <1>1, <2>2, FoldEmpty DEF Nil
<1>2. CASE ss # << >>
  <2> DEFINE V(f, i) == IF i = 1 THEN ss[i] ELSE f[i - 1] \o ss[i]
  <2>1. Len(ss) \in Nat /\ Len(ss) # 0
    BY <1>2, EmptySeq
  <2>2. \E f : f = [i \in 1..Len(ss) |-> V(f, i)]
    <3>1. PICK g : g = Steps(CatF(T), Nil, ss)
      OBVIOUS
    <3>7. \A n \in 0..Len(ss) : g[n] \in Lists(T)
      <4>1. ss \in Seq(Lists(T))
        BY DEF Lists
      <4> QED BY <3>1, <4>1, CatOn, StepsTyped
    <3>2. \A n \in 0..Len(ss) : g[n] \in Seq(T)
      BY <3>7 DEF Lists
    <3>3. g[0] = << >> /\ \A n \in 1..Len(ss) : g[n] = CatF(T)[<<g[n - 1], ss[n]>>]
      BY <3>1, StepsAt DEF Nil
    <3> DEFINE h == [i \in 1..Len(ss) |-> g[i]]
    <3>4. ASSUME NEW i \in 1..Len(ss) PROVE h[i] = V(h, i)
      <4>1. g[i - 1] \in Seq(T) /\ ss[i] \in Seq(T)
        BY <3>2, ElementOfSeq
      <4>2. g[i] = g[i - 1] \o ss[i]
        BY <3>3, <4>1 DEF CatF
      <4>3. CASE i = 1
        <5>1. i - 1 = 0 /\ g[i - 1] = << >>
          BY <3>3, <4>3
        <5>2. << >> \o ss[i] = ss[i]
          BY <4>1, ConcatEmptySeq
        <5> QED BY <4>2, <4>3, <5>1, <5>2
      <4>4. CASE i # 1
        <5>1. i - 1 \in 1..Len(ss)
          BY <4>4
        <5>2. h[i - 1] = g[i - 1] /\ h[i] = g[i]
          BY <5>1
        <5> QED BY <4>2, <4>4, <5>2
      <4> QED BY <4>3, <4>4
    <3>5. h = [i \in 1..Len(ss) |-> h[i]]
      OBVIOUS
    <3> HIDE DEF h, V
    <3>6. h = [i \in 1..Len(ss) |-> V(h, i)]
      BY <3>4, <3>5
    <3> QED BY <3>6, Zenon
  <2>3. PICK f : f = [i \in 1..Len(ss) |-> V(f, i)] /\ FlattenSeq(ss) = f[Len(ss)]
    BY <2>1, <2>2, Zenon DEF FlattenSeq
  <2>4. \A i \in 1..Len(ss) : f[i] = V(f, i)
    <3> HIDE DEF V
    <3> QED BY <2>3
  <2>5. PICK g : g = [n \in 0..Len(ss) |-> IF n = 0 THEN << >> ELSE f[n]]
    OBVIOUS
  <2>6. Follows(g, Lists(T), CatF(T), Nil, ss)
    <3>1. g[0] = Nil
      BY <2>5 DEF Nil
    <3>2. ASSUME NEW n \in 1..Len(ss), g[n - 1] \in Lists(T)
          PROVE g[n] = CatF(T)[<<g[n - 1], ss[n]>>]
      <4>1. ss[n] \in Seq(T)
        BY ElementOfSeq
      <4>2. CatF(T)[<<g[n - 1], ss[n]>>] = g[n - 1] \o ss[n]
        BY <3>2, <4>1 DEF CatF, Lists
      <4>3. CASE n = 1
        <5>0. n - 1 = 0 /\ f[n] = ss[n]
          BY <2>4, <4>3
        <5>1. g[n] = f[n] /\ f[n] = ss[n]
          BY <2>5, <5>0
        <5>2. g[n - 1] \o ss[n] = ss[n]
          BY <3>1, <4>1, <5>0, ConcatEmptySeq DEF Nil
        <5> HIDE <4>3
        <5> QED BY <4>2, <5>1, <5>2
      <4>4. CASE n # 1
        <5>1. n - 1 \in 1..Len(ss)
          BY <4>4
        <5>2. g[n - 1] = f[n - 1] /\ g[n] = f[n]
          BY <5>1, <2>5
        <5>3. f[n] = f[n - 1] \o ss[n]
          BY <2>4, <4>4
        <5> QED BY <4>2, <5>2, <5>3
      <4> QED BY <4>3, <4>4
    <3> QED BY <3>1, <3>2 DEF Follows
  <2>7. g[Len(ss)] = Fold(CatF(T), Nil, ss)
    <3>1. ss \in Seq(Lists(T))
      BY DEF Lists
    <3> QED BY <2>6, <3>1, CatOn, StepsUnique
  <2>8. g[Len(ss)] = f[Len(ss)]
    BY <2>1, <2>5
  <2> QED BY <2>3, <2>7, <2>8
<1> QED BY <1>1, <1>2

LEMMA FlattenProp ==
  ASSUME NEW T, NEW ss \in Seq(Seq(T)), NEW s \in Seq(T)
  PROVE  /\ FlattenSeq(ss) \in Seq(T)
         /\ FlattenSeq(Append(ss, s)) = FlattenSeq(ss) \o s
<1>1. ss \in Seq(Lists(T)) /\ s \in Lists(T)
  BY DEF Lists
<1>2. FlattenSeq(ss) \in Lists(T)
  BY <1>1, FlattenFold, CatOn, FoldProp
<1>3. Fold(CatF(T), Nil, Append(ss, s)) = CatF(T)[<<Fold(CatF(T), Nil, ss), s>>]
  BY <1>1, CatOn, FoldProp
<1>4. Append(ss, s) \in Seq(Seq(T))
  BY AppendProperties
<1>5. FlattenSeq(Append(ss, s)) = CatF(T)[<<FlattenSeq(ss), s>>]
  BY <1>3, <1>4, FlattenFold
<1> QED BY <1>2, <1>5 DEF CatF, Lists

LEMMA FlattenType ==
  ASSUME NEW T, NEW ss \in Seq(Seq(T))
  PROVE  FlattenSeq(ss) \in Seq(T)
  BY EmptySeq, FlattenProp

LEMMA FlattenEmpty == FlattenSeq(<< >>) = << >>
  BY DEF FlattenSeq
LEMMA FlattenOne ==
  ASSUME NEW T, NEW s \in Seq(T)
  PROVE  FlattenSeq(<<s>>) = s
<1>1. << >> \in Seq(Seq(T)) /\ <<s>> = Append(<< >>, s)
  OBVIOUS
<1>2. FlattenSeq(Append(<< >>, s)) = FlattenSeq(<< >>) \o s
  BY <1>1, FlattenProp
<1> QED BY <1>1, <1>2, FlattenEmpty, ConcatEmptySeq

LEMMA FlattenConcat ==
  ASSUME NEW T, NEW ss \in Seq(Seq(T)), NEW rr \in Seq(Seq(T))
  PROVE  FlattenSeq(ss \o rr) = FlattenSeq(ss) \o FlattenSeq(rr)
<1> DEFINE N == {q \in Seq(Seq(T)) : FlattenSeq(ss \o q) = FlattenSeq(ss) \o FlattenSeq(q)}
<1>1. << >> \in N
  BY FlattenEmpty, FlattenProp, ConcatEmptySeq
<1>2. ASSUME NEW q \in Seq(Seq(T)), NEW x \in Seq(T), q \in N PROVE Append(q, x) \in N
  <2>1. ss \o Append(q, x) = Append(ss \o q, x)
    BY ConcatAppend, SMTT(30)
  <2>2. ss \o q \in Seq(Seq(T))
    BY ConcatProperties
  <2>3. FlattenSeq(Append(ss \o q, x)) = FlattenSeq(ss \o q) \o x
    BY <2>2, FlattenProp
  <2>4. FlattenSeq(Append(q, x)) = FlattenSeq(q) \o x
    BY FlattenProp
  <2>5. FlattenSeq(ss) \in Seq(T) /\ FlattenSeq(q) \in Seq(T)
    BY FlattenProp
  <2>6. (FlattenSeq(ss) \o FlattenSeq(q)) \o x = FlattenSeq(ss) \o (FlattenSeq(q) \o x)
    BY <2>5, ConcatAssociative, SMTT(30)
  <2> QED BY <1>2, <2>1, <2>3, <2>4, <2>6, AppendProperties
<1>3. Seq(Seq(T)) \subseteq N
  <2> HIDE DEF N
  <2> QED BY <1>1, <1>2, SeqInduction
<1> QED BY <1>3

Bufs == [on : BOOLEAN, mode : Modes, pending : Seq(Tokens)]
Outs == [buf : Bufs, text : Seq(Tokens), blocks : Seq(Seq(Tokens))]

Start == Output(Idle, << >>, << >>)

LEMMA XmlStepType ==
  ASSUME NEW out \in Outs, NEW t \in Tokens
  PROVE  XmlStep(out, t) \in Outs
<1> DEFINE held == Append(out.buf.pending, t)
<1>1. held \in Seq(Tokens)
  BY AppendProperties DEF Outs, Bufs
<1>2. Append(out.blocks, held) \in Seq(Seq(Tokens))
  BY <1>1, AppendProperties DEF Outs
<1>3. Append(out.text, t) \in Seq(Tokens) /\ <<t>> \in Seq(Tokens)
  BY AppendProperties DEF Outs
<1>4. Idle \in Bufs /\ [on |-> TRUE, mode |-> "xml", pending |-> <<t>>] \in Bufs
  BY <1>3 DEF Idle, Bufs, Modes
<1> HIDE DEF held
<1>5. [out.buf EXCEPT !.pending = held] \in Bufs
  BY <1>1 DEF Bufs, Outs
<1>6. CASE out.buf.on
  <2>1. CASE t = "</call>"
    BY <1>2, <1>4, <1>6, <2>1 DEF XmlStep, Output, Outs, held
  <2>2. CASE t # "</call>"
    <3>1. XmlStep(out, t) = [out EXCEPT !.buf.pending = held]
      BY <1>6, <2>2 DEF XmlStep, held
    <3>2. XmlStep(out, t) = [buf |-> [out.buf EXCEPT !.pending = held], text |-> out.text, blocks |-> out.blocks]
      BY <3>1 DEF Outs
    <3> QED BY <1>5, <3>2 DEF Outs
  <2> QED BY <2>1, <2>2
<1>7. CASE ~ out.buf.on
  <2>1. CASE t = "<call>"
    BY <1>4, <1>7, <2>1 DEF XmlStep, Outs
  <2>2. CASE t # "<call>"
    BY <1>3, <1>7, <2>2 DEF XmlStep, Outs
  <2> QED BY <2>1, <2>2
<1> QED BY <1>6, <1>7

XmlF == [z \in Outs \X Tokens |-> XmlStep(z[1], z[2])]

LEMMA XmlOnOuts == StepOn(XmlF, Outs, Tokens) /\ Start \in Outs
<1>1. StepOn(XmlF, Outs, Tokens)
  BY XmlStepType DEF StepOn, XmlF
<1>2. Start \in Outs
  BY DEF Start, Outs, Bufs, Output, Idle, Modes
<1> QED BY <1>1, <1>2

LEMMA CutXmlFold ==
  ASSUME NEW s \in Seq(Tokens)
  PROVE  CutXml(s) = Fold(XmlF, Start, s)
<1> DEFINE V(f, n) == IF n = 0 THEN Start ELSE XmlStep(f[n - 1], s[n])
<1>1. \E f : f = [n \in 0..Len(s) |-> V(f, n)]
  <2>1. PICK g : g = Steps(XmlF, Start, s)
    OBVIOUS
  <2>2. \A n \in 0..Len(s) : g[n] \in Outs
    BY <2>1, XmlOnOuts, StepsTyped
  <2>3. g = [n \in 0..Len(s) |-> IF n = 0 THEN Start ELSE XmlF[<<g[n - 1], s[n]>>]]
    BY <2>1, StepsExist
  <2>4. ASSUME NEW n \in 0..Len(s) PROVE g[n] = V(g, n)
    <3>1. n # 0 => g[n - 1] \in Outs /\ s[n] \in Tokens
      BY <2>2, ElementOfSeq
    <3>2. g[n] = IF n = 0 THEN Start ELSE XmlF[<<g[n - 1], s[n]>>]
      BY <2>3
    <3> QED BY <3>1, <3>2 DEF XmlF
  <2>5. g = [n \in 0..Len(s) |-> g[n]]
    BY <2>3
  <2> HIDE DEF V
  <2>6. g = [n \in 0..Len(s) |-> V(g, n)]
    BY <2>4, <2>5
  <2> QED BY <2>6, Zenon
<1>2. PICK f : f = [n \in 0..Len(s) |-> V(f, n)] /\ CutXml(s) = f[Len(s)]
  BY <1>1, Zenon DEF CutXml, Start
<1>3. \A n \in 0..Len(s) : f[n] = V(f, n)
  <2> HIDE DEF V
  <2> QED BY <1>2
<1>4. Follows(f, Outs, XmlF, Start, s)
  <2>1. f[0] = Start
    BY <1>3
  <2>2. ASSUME NEW n \in 1..Len(s), f[n - 1] \in Outs PROVE f[n] = XmlF[<<f[n - 1], s[n]>>]
    <3>1. f[n] = XmlStep(f[n - 1], s[n]) /\ s[n] \in Tokens
      BY <1>3, ElementOfSeq
    <3> QED BY <2>2, <3>1 DEF XmlF
  <2> QED BY <2>1, <2>2 DEF Follows
<1>5. f[Len(s)] = Fold(XmlF, Start, s)
  BY <1>4, XmlOnOuts, StepsUnique
<1> QED BY <1>2, <1>5

(* Nothing is cut from an empty text, and one token more is one step more.     *)
LEMMA CutXmlProp ==
  /\ CutXml(<< >>) = Start
  /\ \A s \in Seq(Tokens) :
       CutXml(s) \in Outs /\ \A t \in Tokens : CutXml(Append(s, t)) = XmlStep(CutXml(s), t)
<1>1. << >> \in Seq(Tokens)
  OBVIOUS
<1>2. CutXml(<< >>) = Start
  <2>1. CutXml(<< >>) = Fold(XmlF, Start, << >>)
    BY <1>1, CutXmlFold
  <2>2. Fold(XmlF, Start, << >>) = Start
    BY FoldEmpty
  <2> QED BY <2>1, <2>2
<1>3. ASSUME NEW s \in Seq(Tokens), NEW t \in Tokens
      PROVE  CutXml(s) \in Outs /\ CutXml(Append(s, t)) = XmlStep(CutXml(s), t)
  <2>1. CutXml(s) \in Outs
    BY CutXmlFold, XmlOnOuts, FoldProp
  <2>2. Fold(XmlF, Start, Append(s, t)) = XmlF[<<Fold(XmlF, Start, s), t>>]
    BY XmlOnOuts, FoldProp
  <2>3. Append(s, t) \in Seq(Tokens)
    BY AppendProperties
  <2>4. CutXml(Append(s, t)) = XmlF[<<CutXml(s), t>>]
    BY <2>2, <2>3, CutXmlFold
  <2> QED BY <2>1, <2>4 DEF XmlF
<1>4. ASSUME NEW s \in Seq(Tokens) PROVE CutXml(s) \in Outs
    BY CutXmlFold, XmlOnOuts, FoldProp
<1> QED BY <1>2, <1>3, <1>4

-----------------------------------------------------------------------------
(* What goes into the buffer comes out of it, or is in it.                     *)
BufOK(b) == b \in Bufs /\ (b.on <=> b.pending # << >>)

Adds(out, s) ==
  \A t \in Tokens :
    Count(out.text, t) + Count(FlattenSeq(out.blocks), t) + Count(out.buf.pending, t) = Count(s, t)

Sound(out, s) == out \in Outs /\ BufOK(out.buf) /\ Adds(out, s)

LEMMA IdleOK == BufOK(Idle) /\ Idle.pending = << >>
  BY DEF BufOK, Bufs, Idle, Modes

LEMMA StartSound == Sound(Start, << >>)
  BY XmlOnOuts, CountEmpty, FlattenEmpty DEF Sound, Start, Output, Idle, BufOK, Adds, Outs

LEMMA OutputFields ==
  ASSUME NEW b, NEW text, NEW blocks
  PROVE  /\ Output(b, text, blocks).buf = b
         /\ Output(b, text, blocks).text = text
         /\ Output(b, text, blocks).blocks = blocks
         /\ (b \in Bufs /\ text \in Seq(Tokens) /\ blocks \in Seq(Seq(Tokens))
               => Output(b, text, blocks) \in Outs)
  BY DEF Output, Outs

LEMMA XmlStepSound ==
  ASSUME NEW out, NEW s \in Seq(Tokens), Sound(out, s), NEW x \in Tokens
  PROVE  Sound(XmlStep(out, x), Append(s, x))
<1> DEFINE next == XmlStep(out, x)
<1>1. out \in Outs /\ next \in Outs
  BY XmlStepType DEF Sound
<1>2. /\ out.text \in Seq(Tokens) /\ out.blocks \in Seq(Seq(Tokens))
      /\ out.buf \in Bufs /\ out.buf.pending \in Seq(Tokens)
  BY <1>1 DEF Outs, Bufs
<1>3. PICK held : held = Append(out.buf.pending, x)
  OBVIOUS
<1>4. held \in Seq(Tokens) /\ held # << >> /\ FlattenSeq(out.blocks) \in Seq(Tokens)
  <2>1. PICK p \in Seq(Tokens) : p = out.buf.pending
    BY <1>2
  <2>2. Append(p, x) \in Seq(Tokens) /\ Append(p, x) # << >>
    BY AppendProperties
  <2>3. FlattenSeq(out.blocks) \in Seq(Tokens)
    BY <1>2, FlattenType
  <2> QED BY <1>3, <2>1, <2>2, <2>3
<1> DEFINE Facts(t) ==
      /\ Count(out.text, t) \in Nat /\ Count(FlattenSeq(out.blocks), t) \in Nat
      /\ Count(out.buf.pending, t) \in Nat /\ Count(s, t) \in Nat
      /\ Count(out.text, t) + Count(FlattenSeq(out.blocks), t) + Count(out.buf.pending, t) = Count(s, t)
      /\ Count(held, t) = Count(out.buf.pending, t) + (IF x = t THEN 1 ELSE 0)
      /\ Count(Append(s, x), t) = Count(s, t) + (IF x = t THEN 1 ELSE 0)
      /\ Count(Append(out.text, x), t) = Count(out.text, t) + (IF x = t THEN 1 ELSE 0)
      /\ Count(FlattenSeq(Append(out.blocks, held)), t) = Count(FlattenSeq(out.blocks), t) + Count(held, t)
      /\ Count(held, t) \in Nat
      /\ Count(<< >>, t) = 0 /\ Count(<<x>>, t) = (IF x = t THEN 1 ELSE 0)
<1>5. ASSUME NEW t \in Tokens PROVE Facts(t)
  <2>1. /\ Count(out.text, t) \in Nat /\ Count(FlattenSeq(out.blocks), t) \in Nat
        /\ Count(out.buf.pending, t) \in Nat /\ Count(s, t) \in Nat /\ Count(held, t) \in Nat
    BY <1>2, <1>4, CountNat
  <2>2. Count(out.text, t) + Count(FlattenSeq(out.blocks), t) + Count(out.buf.pending, t) = Count(s, t)
    BY DEF Sound, Adds
  <2>3. /\ Count(held, t) = Count(out.buf.pending, t) + (IF x = t THEN 1 ELSE 0)
        /\ Count(Append(s, x), t) = Count(s, t) + (IF x = t THEN 1 ELSE 0)
        /\ Count(Append(out.text, x), t) = Count(out.text, t) + (IF x = t THEN 1 ELSE 0)
    BY <1>2, <1>3, CountAppend
  <2>4. FlattenSeq(Append(out.blocks, held)) = FlattenSeq(out.blocks) \o held
    BY <1>2, <1>4, FlattenProp
  <2>5. Count(FlattenSeq(out.blocks) \o held, t) = Count(FlattenSeq(out.blocks), t) + Count(held, t)
    BY <1>4, CountConcat
  <2>6. Count(<< >>, t) = 0
    BY CountEmpty
  <2>7. Count(<<x>>, t) = (IF x = t THEN 1 ELSE 0)
    BY CountOne
  <2> QED BY <2>1, <2>2, <2>3, <2>4, <2>5, <2>6, <2>7
<1>6. CASE out.buf.on /\ x = "</call>"
  <2>1. next.buf = Idle /\ next.text = out.text /\ next.blocks = Append(out.blocks, held)
    BY <1>3, <1>6 DEF XmlStep, Output
  <2>2. BufOK(next.buf)
    BY <2>1, IdleOK
  <2> HIDE DEF next
  <2>3. Adds(next, Append(s, x))
    <3> SUFFICES ASSUME NEW t \in Tokens
                 PROVE  Count(next.text, t) + Count(FlattenSeq(next.blocks), t)
                          + Count(next.buf.pending, t) = Count(Append(s, x), t)
      BY DEF Adds
    <3>1. /\ Count(next.text, t) = Count(out.text, t) /\ Count(next.buf.pending, t) = 0
          /\ Count(FlattenSeq(next.blocks), t) = Count(FlattenSeq(Append(out.blocks, held)), t)
      BY <2>1, <1>5, IdleOK
    <3>2. Facts(t)
      BY <1>5
    <3> QED BY <3>1, <3>2, SMTT(30)
  <2> QED BY <1>1, <2>2, <2>3 DEF Sound, next
<1>7. CASE out.buf.on /\ x # "</call>"
  <2>1. next.buf.on /\ next.buf.pending = held /\ next.text = out.text /\ next.blocks = out.blocks
    BY <1>1, <1>2, <1>3, <1>7 DEF XmlStep, Outs, Bufs
  <2>2. BufOK(next.buf)
    BY <2>1, <1>1, <1>4 DEF BufOK, Outs
  <2> HIDE DEF next
  <2>3. Adds(next, Append(s, x))
    <3> SUFFICES ASSUME NEW t \in Tokens
                 PROVE  Count(next.text, t) + Count(FlattenSeq(next.blocks), t)
                          + Count(next.buf.pending, t) = Count(Append(s, x), t)
      BY DEF Adds
    <3>1. /\ Count(next.text, t) = Count(out.text, t) /\ Count(next.buf.pending, t) = Count(held, t)
          /\ Count(FlattenSeq(next.blocks), t) = Count(FlattenSeq(out.blocks), t)
      BY <2>1
    <3>2. Facts(t)
      BY <1>5
    <3> QED BY <3>1, <3>2
  <2> QED BY <1>1, <2>2, <2>3 DEF Sound, next
<1>8. CASE ~ out.buf.on
  <2>1. out.buf.pending = << >>
    BY <1>8 DEF Sound, BufOK
  <2>2. CASE x = "<call>"
    <3>1. next.buf.on /\ next.buf.pending = <<x>> /\ next.text = out.text /\ next.blocks = out.blocks
      BY <1>1, <1>8, <2>2 DEF XmlStep, Outs
    <3>2. BufOK(next.buf)
      BY <3>1, <1>1 DEF BufOK, Outs
    <3> HIDE DEF next
    <3>3. Adds(next, Append(s, x))
      <4> SUFFICES ASSUME NEW t \in Tokens
                   PROVE  Count(next.text, t) + Count(FlattenSeq(next.blocks), t)
                            + Count(next.buf.pending, t) = Count(Append(s, x), t)
        BY DEF Adds
      <4>1. /\ Count(next.text, t) = Count(out.text, t) /\ Count(next.buf.pending, t) = Count(<<x>>, t)
            /\ Count(FlattenSeq(next.blocks), t) = Count(FlattenSeq(out.blocks), t)
            /\ Count(out.buf.pending, t) = 0
        BY <2>1, <3>1, <1>5
      <4>2. Facts(t)
        BY <1>5
      <4> QED BY <4>1, <4>2
    <3> QED BY <1>1, <3>2, <3>3 DEF Sound, next
  <2>3. CASE x # "<call>"
    <3>1. next.buf = out.buf /\ next.text = Append(out.text, x) /\ next.blocks = out.blocks
      BY <1>1, <1>8, <2>3 DEF XmlStep, Outs
    <3>2. BufOK(next.buf)
      BY <3>1 DEF Sound
    <3> HIDE DEF next
    <3>3. Adds(next, Append(s, x))
      <4> SUFFICES ASSUME NEW t \in Tokens
                   PROVE  Count(next.text, t) + Count(FlattenSeq(next.blocks), t)
                            + Count(next.buf.pending, t) = Count(Append(s, x), t)
        BY DEF Adds
      <4>1. /\ Count(next.text, t) = Count(Append(out.text, x), t)
            /\ Count(next.buf.pending, t) = 0 /\ Count(out.buf.pending, t) = 0
            /\ Count(FlattenSeq(next.blocks), t) = Count(FlattenSeq(out.blocks), t)
        BY <2>1, <3>1, <1>5
      <4>2. Facts(t)
        BY <1>5
      <4> QED BY <4>1, <4>2
    <3> QED BY <1>1, <3>2, <3>3 DEF Sound, next
  <2> QED BY <2>2, <2>3
<1> QED BY <1>6, <1>7, <1>8

LEMMA CutXmlSound == \A s \in Seq(Tokens) : Sound(CutXml(s), s)
<1> DEFINE N == {s \in Seq(Tokens) : Sound(CutXml(s), s)}
<1>1. << >> \in N
  BY StartSound, CutXmlProp
<1>2. ASSUME NEW s \in Seq(Tokens), NEW x \in Tokens, s \in N PROVE Append(s, x) \in N
  BY <1>2, CutXmlProp, XmlStepSound, AppendProperties
<1>3. Seq(Tokens) \subseteq N
  <2> HIDE DEF N
  <2> QED BY <1>1, <1>2, SeqInduction
<1> QED BY <1>3

LEMMA HeldOK ==
  ASSUME NEW mode \in Modes, NEW p \in Seq(Tokens), p # << >>
  PROVE  BufOK([on |-> TRUE, mode |-> mode, pending |-> p])
  BY DEF BufOK, Bufs

LEMMA OffOK ==
  ASSUME NEW mode \in Modes
  PROVE  /\ BufOK([Idle EXCEPT !.mode = mode])
         /\ [Idle EXCEPT !.mode = mode] = [on |-> FALSE, mode |-> mode, pending |-> << >>]
<1>1. [Idle EXCEPT !.mode = mode] = [on |-> FALSE, mode |-> mode, pending |-> << >>]
  <2>1. Idle \in Bufs /\ Idle.on = FALSE /\ Idle.pending = << >>
    BY IdleOK DEF BufOK, Idle
  <2>2. [Idle EXCEPT !.mode = mode] = [on |-> Idle.on, mode |-> mode, pending |-> Idle.pending]
    BY <2>1 DEF Bufs
  <2> QED BY <2>1, <2>2
<1>2. PICK o : o = [on |-> FALSE, mode |-> mode, pending |-> << >>]
  OBVIOUS
<1>3. o \in Bufs
  BY <1>2, EmptySeq DEF Bufs
<1>4. BufOK(o)
  BY <1>2, <1>3 DEF BufOK
<1> QED BY <1>1, <1>2, <1>4

(* One output whose parts are known.                                         *)
LEMMA SoundOutput ==
  ASSUME NEW b, BufOK(b), NEW text \in Seq(Tokens), NEW blocks \in Seq(Seq(Tokens)),
         NEW s \in Seq(Tokens),
         \A t \in Tokens :
           Count(text, t) + Count(FlattenSeq(blocks), t) + Count(b.pending, t) = Count(s, t)
  PROVE  Sound(Output(b, text, blocks), s)
  BY OutputFields DEF Sound, Adds, BufOK

LEMMA ResumeSound ==
  ASSUME NEW mode \in Modes, NEW rest \in Seq(Tokens), NEW b \in Seq(Tokens)
  PROVE  Sound(Resume(mode, rest, <<b>>), b \o rest)
<1> DEFINE i == First(rest, Opening[mode])
<1>1. i \in 0..Len(rest)
  BY FirstProp
<1>2. <<b>> \in Seq(Seq(Tokens)) /\ FlattenSeq(<<b>>) = b /\ b \o rest \in Seq(Tokens)
  BY FlattenOne, ConcatProperties
<1>3. ASSUME NEW t PROVE Count(b \o rest, t) = Count(b, t) + Count(rest, t)
  BY CountConcat
<1>4. ASSUME NEW t PROVE Count(b, t) \in Nat /\ Count(rest, t) \in Nat /\ Count(<< >>, t) = 0
  BY CountNat, CountEmpty
<1>5. CASE i = 0
  <2>1. Resume(mode, rest, <<b>>) = Output([Idle EXCEPT !.mode = mode], rest, <<b>>)
    BY <1>5 DEF Resume
  <2> HIDE DEF i
  <2>2. PICK o : o = [Idle EXCEPT !.mode = mode]
    OBVIOUS
  <2>3. BufOK(o) /\ o.pending = << >>
    BY <2>2, OffOK
  <2>4. ASSUME NEW t \in Tokens
        PROVE Count(rest, t) + Count(FlattenSeq(<<b>>), t) + Count(o.pending, t) = Count(b \o rest, t)
    BY <1>2, <1>3, <1>4, <2>3
  <2>5. Sound(Output(o, rest, <<b>>), b \o rest)
    BY <1>2, <2>3, <2>4, SoundOutput
  <2> QED BY <2>1, <2>2, <2>5
<1>6. CASE i # 0
  <2>0. i - 1 \in 0..Len(rest) /\ i - 1 < Len(rest)
    BY <1>1, <1>6
  <2>1. PICK o : o = [on |-> TRUE, mode |-> mode, pending |-> After(rest, i - 1)]
    OBVIOUS
  <2>2. Resume(mode, rest, <<b>>) = Output(o, Upto(rest, i - 1), <<b>>)
    BY <1>6, <2>1 DEF Resume
  <2> HIDE DEF i
  <2>3. Upto(rest, i - 1) \in Seq(Tokens) /\ After(rest, i - 1) \in Seq(Tokens)
        /\ Len(After(rest, i - 1)) # 0
    BY <2>0, CutAt
  <2>4. BufOK(o)
    BY <2>1, <2>3, HeldOK
  <2>5. ASSUME NEW t \in Tokens
        PROVE Count(Upto(rest, i - 1), t) + Count(FlattenSeq(<<b>>), t) + Count(o.pending, t)
                = Count(b \o rest, t)
    <3>1. Count(Upto(rest, i - 1), t) + Count(After(rest, i - 1), t) = Count(rest, t)
      BY <2>0, CountCut
    <3>2. Count(Upto(rest, i - 1), t) \in Nat /\ Count(After(rest, i - 1), t) \in Nat
      BY <2>3, CountNat
    <3>3. Count(b \o rest, t) = Count(b, t) + Count(rest, t) /\ Count(b, t) \in Nat
      BY <1>3, <1>4
    <3> QED BY <1>2, <2>1, <3>1, <3>2, <3>3
  <2>6. Sound(Output(o, Upto(rest, i - 1), <<b>>), b \o rest)
    BY <1>2, <2>3, <2>4, <2>5, SoundOutput
  <2> QED BY <2>2, <2>6
<1> QED BY <1>5, <1>6

LEMMA BalancedRange == ASSUME NEW s \in Seq(Tokens) PROVE FirstBalanced(s) \in 0..Len(s)
<1>1. PICK E : E = {i \in 1..Len(s) : BalancedAt(s, i)}
  OBVIOUS
<1>2. FirstBalanced(s) = IF E = {} THEN 0 ELSE Min(E)
  BY <1>1 DEF FirstBalanced
<1>3. E \subseteq Nat /\ \A i \in E : i \in 1..Len(s)
  BY <1>1
<1>4. CASE E = {}
  BY <1>2, <1>4
<1>5. CASE E # {}
  <2>1. Min(E) \in E /\ FirstBalanced(s) = Min(E)
    BY <1>2, <1>3, <1>5, MinProp
  <2>2. Min(E) \in 1..Len(s)
    BY <1>3, <2>1
  <2>3. FirstBalanced(s) \in 1..Len(s)
    BY <2>1, <2>2
  <2> QED BY <2>3
<1> QED BY <1>4, <1>5

LEMMA BracketRange ==
  ASSUME NEW s \in Seq(Tokens)
  PROVE  /\ LastBracket(s) \in 0..Len(s)
         /\ \A i \in 1..Len(s) : s[i] \in {"]", "[CALLS]"} => i <= LastBracket(s)
<1> DEFINE I == {i \in 1..Len(s) : s[i] \in {"]", "[CALLS]"}}
<1>1. LastBracket(s) = IF I # {} THEN Max(I) ELSE 0
  BY DEF LastBracket, SelectLastInSeq
<1>2. I \subseteq 1..Len(s) /\ I \subseteq 0..Len(s) /\ Len(s) \in Nat
  OBVIOUS
<1>3. \A i \in 1..Len(s) : s[i] \in {"]", "[CALLS]"} => i \in I
  OBVIOUS
<1> HIDE DEF I
<1>4. I # {} => Max(I) \in I /\ \A i \in I : i <= Max(I)
  BY <1>2, MaxProp
<1>5. LastBracket(s) \in 0..Len(s)
  <2>1. CASE I = {}
    BY <1>1, <2>1
  <2>2. CASE I # {}
    BY <1>1, <1>2, <1>4, <2>2
  <2> QED BY <2>1, <2>2
<1>6. ASSUME NEW i \in 1..Len(s), s[i] \in {"]", "[CALLS]"} PROVE i <= LastBracket(s)
  <2>1. i \in I
    BY <1>3, <1>6
  <2>2. LastBracket(s) = Max(I) /\ i <= Max(I)
    BY <1>1, <1>4, <2>1
  <2> QED BY <2>2
<1> QED BY <1>5, <1>6

LEMMA CutSound ==
  ASSUME NEW mode \in Modes, NEW p \in Seq(Tokens), p # << >>
  PROVE  Sound(Cut(mode, p), p)
<1>1. CASE mode = "xml"
  <2>1. Cut(mode, p) = CutXml(p)
    BY <1>1 DEF Cut
  <2> QED BY <2>1, CutXmlSound
<1>2. CASE mode = "json"
  <2>1. Cut(mode, p) = CutJson(p)
    BY <1>2 DEF Cut
  <2>2. CASE FirstBalanced(p) = 0
    <3>1. PICK o : o = [on |-> TRUE, mode |-> "json", pending |-> p]
      OBVIOUS
    <3>2. CutJson(p) = Output(o, << >>, << >>)
      BY <2>2, <3>1 DEF CutJson
    <3>3. BufOK(o)
      BY <1>2, <3>1, HeldOK
    <3>4. << >> \in Seq(Tokens) /\ << >> \in Seq(Seq(Tokens))
      BY EmptySeq
    <3>5. ASSUME NEW t \in Tokens
          PROVE  Count(<< >>, t) + Count(FlattenSeq(<< >>), t) + Count(o.pending, t) = Count(p, t)
      BY <3>1, CountEmpty, FlattenEmpty, CountNat
    <3>6. Sound(Output(o, << >>, << >>), p)
      BY <3>3, <3>4, <3>5, SoundOutput
    <3> QED BY <2>1, <3>2, <3>6
  <2>3. CASE FirstBalanced(p) # 0
    <3>1. PICK i : i = FirstBalanced(p)
      OBVIOUS
    <3>2. i \in 0..Len(p)
      BY <3>1, BalancedRange
    <3>3. CutJson(p) = Resume("json", After(p, i), <<Upto(p, i)>>)
      BY <2>3, <3>1 DEF CutJson
    <3>4. Upto(p, i) \in Seq(Tokens) /\ After(p, i) \in Seq(Tokens) /\ Upto(p, i) \o After(p, i) = p
      BY <3>2, CutAt
    <3>5. Sound(Resume("json", After(p, i), <<Upto(p, i)>>), Upto(p, i) \o After(p, i))
      BY <1>2, <3>4, ResumeSound
    <3> QED BY <2>1, <3>3, <3>4, <3>5
  <2> QED BY <2>2, <2>3
<1>3. CASE mode = "mistral"
  <2>1. PICK i : i = LastBracket(p)
    OBVIOUS
  <2>2. PICK o : o = [Idle EXCEPT !.mode = "mistral"]
    OBVIOUS
  <2>3. Cut(mode, p) = Output(o, After(p, i), <<Upto(p, i)>>)
    BY <1>3, <2>1, <2>2 DEF Cut, CutMistral
  <2>4. i \in 0..Len(p)
    BY <2>1, BracketRange
  <2>5. Upto(p, i) \in Seq(Tokens) /\ After(p, i) \in Seq(Tokens)
    BY <2>4, CutAt
  <2>6. <<Upto(p, i)>> \in Seq(Seq(Tokens)) /\ FlattenSeq(<<Upto(p, i)>>) = Upto(p, i)
    BY <2>5, FlattenOne
  <2>7. BufOK(o) /\ o.pending = << >>
    BY <1>3, <2>2, OffOK
  <2>8. ASSUME NEW t \in Tokens
        PROVE  Count(After(p, i), t) + Count(FlattenSeq(<<Upto(p, i)>>), t) + Count(o.pending, t)
                 = Count(p, t)
    <3>1. Count(Upto(p, i), t) + Count(After(p, i), t) = Count(p, t)
      BY <2>4, CountCut
    <3>2. Count(Upto(p, i), t) \in Nat /\ Count(After(p, i), t) \in Nat /\ Count(<< >>, t) = 0
      BY <2>5, CountNat, CountEmpty
    <3> QED BY <2>6, <2>7, <3>1, <3>2
  <2>9. Sound(Output(o, After(p, i), <<Upto(p, i)>>), p)
    BY <2>5, <2>6, <2>7, <2>8, SoundOutput
  <2> QED BY <2>3, <2>9
<1> QED BY <1>1, <1>2, <1>3 DEF Modes

LEMMA OpensMode ==
  ASSUME NEW chunk, Opens(chunk) # "none"
  PROVE  Opens(chunk) \in Modes /\ Has(chunk, Opening[Opens(chunk)])
  BY DEF Opens, Modes, Opening

LEMMA FeedSound ==
  ASSUME NEW b, BufOK(b), NEW chunk \in Seq(Tokens)
  PROVE  Sound(Feed(b, chunk), b.pending \o chunk)
<1>0. b.pending \in Seq(Tokens) /\ b.mode \in Modes /\ b.pending \o chunk \in Seq(Tokens)
  BY ConcatProperties DEF BufOK, Bufs
<1>1. CASE b.on
  <2>1. b.pending \o chunk # << >>
    BY <1>0, <1>1, ConcatEqualIffEmpty DEF BufOK
  <2> QED BY <1>0, <1>1, <2>1, CutSound DEF Feed
<1>2. CASE ~ b.on
  <2>1. b.pending = << >> /\ b.pending \o chunk = chunk
    BY <1>2, ConcatEmptySeq DEF BufOK
  <2>2. CASE Opens(chunk) = "none"
    <3>1. Feed(b, chunk) = Output(b, chunk, << >>)
      BY <1>2, <2>2 DEF Feed
    <3>2. << >> \in Seq(Seq(Tokens))
      BY EmptySeq
    <3>3. ASSUME NEW t \in Tokens
          PROVE  Count(chunk, t) + Count(FlattenSeq(<< >>), t) + Count(b.pending, t) = Count(chunk, t)
      BY <2>1, CountEmpty, FlattenEmpty, CountNat
    <3>4. Sound(Output(b, chunk, << >>), chunk)
      BY <3>2, <3>3, SoundOutput
    <3> QED BY <2>1, <3>1, <3>4
  <2>3. CASE Opens(chunk) # "none"
    <3>1. PICK mode : mode = Opens(chunk)
      OBVIOUS
    <3>2. PICK i : i = First(chunk, Opening[mode])
      OBVIOUS
    <3>3. mode \in Modes /\ i # 0 /\ i \in 0..Len(chunk)
      BY <2>3, <3>1, <3>2, OpensMode, FirstProp DEF Has
    <3>4. i - 1 \in 0..Len(chunk) /\ i - 1 < Len(chunk)
      BY <3>3
    <3>5. /\ Upto(chunk, i - 1) \in Seq(Tokens) /\ After(chunk, i - 1) \in Seq(Tokens)
          /\ After(chunk, i - 1) # << >>
      BY <3>4, CutAt
    <3>6. PICK out : out = Cut(mode, After(chunk, i - 1))
      OBVIOUS
    <3>7. Sound(out, After(chunk, i - 1))
      BY <3>3, <3>5, <3>6, CutSound
    <3>8. out \in Outs /\ out.text \in Seq(Tokens) /\ out.blocks \in Seq(Seq(Tokens))
          /\ BufOK(out.buf) /\ out.buf.pending \in Seq(Tokens)
      BY <3>7 DEF Sound, Outs, Bufs
    <3>9. Feed(b, chunk) = [out EXCEPT !.text = Upto(chunk, i - 1) \o out.text]
      BY <1>2, <2>3, <3>1, <3>2, <3>6 DEF Feed
    <3>10. Feed(b, chunk) = Output(out.buf, Upto(chunk, i - 1) \o out.text, out.blocks)
      BY <3>8, <3>9 DEF Output, Outs
    <3>11. Upto(chunk, i - 1) \o out.text \in Seq(Tokens)
      BY <3>5, <3>8, ConcatProperties
    <3>12. ASSUME NEW t \in Tokens
           PROVE  Count(Upto(chunk, i - 1) \o out.text, t) + Count(FlattenSeq(out.blocks), t)
                    + Count(out.buf.pending, t) = Count(chunk, t)
      <4>1. Count(Upto(chunk, i - 1) \o out.text, t) = Count(Upto(chunk, i - 1), t) + Count(out.text, t)
        BY <3>5, <3>8, CountConcat
      <4>2. Count(Upto(chunk, i - 1), t) + Count(After(chunk, i - 1), t) = Count(chunk, t)
        BY <3>4, CountCut
      <4>3. Count(out.text, t) + Count(FlattenSeq(out.blocks), t) + Count(out.buf.pending, t)
              = Count(After(chunk, i - 1), t)
        BY <3>7 DEF Sound, Adds
      <4>4. Count(Upto(chunk, i - 1), t) \in Nat /\ Count(After(chunk, i - 1), t) \in Nat
            /\ Count(out.text, t) \in Nat /\ Count(FlattenSeq(out.blocks), t) \in Nat
            /\ Count(out.buf.pending, t) \in Nat
        BY <3>5, <3>8, CountNat, FlattenType
      <4> QED BY <4>1, <4>2, <4>3, <4>4
    <3>13. Sound(Output(out.buf, Upto(chunk, i - 1) \o out.text, out.blocks), chunk)
      BY <3>8, <3>11, <3>12, SoundOutput
    <3> QED BY <2>1, <3>10, <3>13
  <2> QED BY <2>2, <2>3
<1> QED BY <1>1, <1>2

LEMMA FlushSound ==
  ASSUME NEW b, BufOK(b)
  PROVE  /\ Flush(b).buf \in Bufs /\ BufOK(Flush(b).buf) /\ ~ Flush(b).buf.on
         /\ Flush(b).buf.pending = << >>
         /\ Flush(b).blocks \in Seq(Seq(Tokens))
         /\ FlattenSeq(Flush(b).blocks) = b.pending
         /\ Flush(b).blocks = IF b.on THEN <<b.pending>> ELSE << >>
<1>1. b.pending \in Seq(Tokens)
  BY DEF BufOK, Bufs
<1>2. CASE b.on
  <2>1. Flush(b).buf = Idle /\ Flush(b).blocks = <<b.pending>>
    BY <1>2 DEF Flush, Output
  <2>2. <<b.pending>> \in Seq(Seq(Tokens)) /\ FlattenSeq(<<b.pending>>) = b.pending
    BY <1>1, FlattenOne
  <2>3. BufOK(Idle) /\ Idle \in Bufs /\ ~ Idle.on /\ Idle.pending = << >>
    BY IdleOK DEF Idle, BufOK
  <2> QED BY <1>2, <2>1, <2>2, <2>3
<1>3. CASE ~ b.on
  <2>1. Flush(b).buf = b /\ Flush(b).blocks = << >> /\ b.pending = << >> /\ b \in Bufs
    BY <1>3 DEF Flush, Output, BufOK
  <2>2. << >> \in Seq(Seq(Tokens))
    BY EmptySeq
  <2> QED BY <1>3, <2>1, <2>2, FlattenEmpty
<1> QED BY <1>2, <1>3

-----------------------------------------------------------------------------
(* What the parser makes of a text: calls that are in it.                      *)

LEMMA MapAppend ==
  ASSUME NEW R, NEW g \in Seq(R), NEW h \in Seq(R), Len(g) = Len(h) + 1,
         \A i \in 1..Len(h) : g[i] = h[i]
  PROVE  g = Append(h, g[Len(g)])
<1>1. Len(g) \in 1..Len(g) /\ g[Len(g)] \in R
  BY ElementOfSeq
<1>2. PICK x \in R : x = g[Len(g)]
  BY <1>1
<1>3. PICK f : f = Append(h, x)
  OBVIOUS
<1>4. f \in Seq(R) /\ Len(f) = Len(h) + 1 /\ f[Len(h) + 1] = x /\ \A i \in 1..Len(h) : f[i] = h[i]
  BY <1>3, AppendProperties
<1>5. \A i \in 1..Len(g) : g[i] = f[i]
  BY <1>2, <1>4
<1>6. g = f
  BY <1>4, <1>5, SeqEqual
<1> QED BY <1>2, <1>3, <1>6

LEMMA CountPos ==
  ASSUME NEW T, NEW s \in Seq(T), NEW i \in 1..Len(s)
  PROVE  Count(s, s[i]) >= 1
<1>1. Count(s, s[i]) # 0
  BY CountZero
<1>2. Count(s, s[i]) \in Nat
  BY CountNat
<1> QED BY <1>1, <1>2

LEMMA CountSub ==
  ASSUME NEW T, NEW s \in Seq(T), NEW n \in 0..Len(s), NEW t
  PROVE  /\ SubSeq(s, 2, n) \in Seq(T)
         /\ Count(SubSeq(s, 2, n), t) <= Count(s, t)
<1>1. SubSeq(s, 2, n) \in Seq(T)
  BY SubSeqProperties, ElementOfSeq
<1>2. CASE n < 2
  <2>1. SubSeq(s, 2, n) = << >>
    BY <1>2, SubSeqEmpty
  <2>2. Count(SubSeq(s, 2, n), t) = 0 /\ Count(s, t) \in Nat
    BY <2>1, CountEmpty, CountNat
  <2> QED BY <1>1, <2>2
<1>3. CASE n >= 2
  <2>1. Upto(s, n) = Upto(s, 1) \o SubSeq(s, 2, n)
    <3>1. 1 \in 1..Len(s) + 1 /\ 1 \in 1 - 1..Len(s) /\ n \in 1..Len(s) /\ 1 + 1 = 2
      BY <1>3
    <3>2. SubSeq(s, 1, 1) \o SubSeq(s, 1 + 1, n) = SubSeq(s, 1, n)
      BY <3>1, ConcatAdjacentSubSeq
    <3> QED BY <3>1, <3>2 DEF Upto
  <2>2. Upto(s, 1) \in Seq(T) /\ After(s, n) \in Seq(T) /\ Upto(s, n) \in Seq(T)
    BY <1>3, CutAt
  <2>3. Count(Upto(s, 1) \o SubSeq(s, 2, n), t) = Count(Upto(s, 1), t) + Count(SubSeq(s, 2, n), t)
    BY <1>1, <2>2, CountConcat
  <2>4. Count(Upto(s, n), t) + Count(After(s, n), t) = Count(s, t)
    BY CountCut
  <2>5. Count(Upto(s, 1), t) \in Nat /\ Count(After(s, n), t) \in Nat /\ Count(Upto(s, n), t) \in Nat
        /\ Count(SubSeq(s, 2, n), t) \in Nat /\ Count(s, t) \in Nat
    BY <1>1, <2>2, CountNat
  <2> QED BY <1>1, <2>1, <2>3, <2>4, <2>5
<1> QED BY <1>2, <1>3

LEMMA XmlCallProp ==
  ASSUME NEW b \in Seq(Tokens)
  PROVE  /\ XmlCall(b) \in Seq(Calls)
         /\ \A c \in Calls : Count(XmlCall(b), c) <= Count(b, c)
<1>1. CASE \E c \in Calls : b \in {<<"<call>", c>>, <<"<call>", c, "</call>">>}
  <2>1. b[2] \in Calls /\ 2 \in 1..Len(b)
    BY <1>1
  <2>2. PICK x \in Calls : x = b[2]
    BY <2>1
  <2>3. XmlCall(b) = <<x>>
    BY <1>1, <2>2 DEF XmlCall
  <2>4. Count(b, x) >= 1
    BY <2>1, <2>2, CountPos
  <2>5. ASSUME NEW c \in Calls PROVE Count(XmlCall(b), c) <= Count(b, c)
    <3>1. Count(<<x>>, c) = IF x = c THEN 1 ELSE 0
      BY CountOne
    <3>2. Count(b, c) \in Nat
      BY CountNat
    <3> QED BY <2>3, <2>4, <3>1, <3>2
  <2>6. <<x>> \in Seq(Calls)
    OBVIOUS
  <2> QED BY <2>3, <2>5, <2>6
<1>2. CASE ~ \E c \in Calls : b \in {<<"<call>", c>>, <<"<call>", c, "</call>">>}
  <2>1. XmlCall(b) = << >>
    BY <1>2 DEF XmlCall
  <2>2. ASSUME NEW c \in Calls PROVE Count(XmlCall(b), c) <= Count(b, c)
    BY <2>1, CountEmpty, CountNat
  <2> QED BY <2>1, <2>2, EmptySeq
<1> QED BY <1>1, <1>2

EachXml(bs) == [i \in 1..Len(bs) |-> XmlCall(bs[i])]

LEMMA EachXmlProp ==
  ASSUME NEW bs \in Seq(Seq(Tokens))
  PROVE  EachXml(bs) \in Seq(Seq(Calls)) /\ Len(EachXml(bs)) = Len(bs)
<1>1. \A i \in 1..Len(bs) : XmlCall(bs[i]) \in Seq(Calls)
  BY XmlCallProp, ElementOfSeq
<1>2. Len(bs) \in Nat
  OBVIOUS
<1> QED BY <1>1, <1>2 DEF EachXml

LEMMA EachXmlAppend ==
  ASSUME NEW bs \in Seq(Seq(Tokens)), NEW b \in Seq(Tokens)
  PROVE  EachXml(Append(bs, b)) = Append(EachXml(bs), XmlCall(b))
<1>1. PICK r \in Seq(Seq(Tokens)) : r = Append(bs, b)
  BY AppendProperties
<1>2. Len(r) = Len(bs) + 1 /\ r[Len(bs) + 1] = b /\ \A i \in 1..Len(bs) : r[i] = bs[i]
  BY <1>1, AppendProperties
<1>3. PICK g : g = EachXml(r)
  OBVIOUS
<1>4. PICK h : h = EachXml(bs)
  OBVIOUS
<1>5. g \in Seq(Seq(Calls)) /\ h \in Seq(Seq(Calls)) /\ Len(h) = Len(bs) /\ Len(g) = Len(r)
  BY <1>3, <1>4, EachXmlProp
<1>6. \A i \in 1..Len(h) : g[i] = h[i]
  BY <1>2, <1>3, <1>4, <1>5 DEF EachXml
<1>7. g = Append(h, g[Len(g)])
  BY <1>2, <1>5, <1>6, MapAppend
<1>8. g[Len(g)] = XmlCall(b)
  BY <1>2, <1>3, <1>5 DEF EachXml
<1> QED BY <1>1, <1>3, <1>4, <1>7, <1>8

LEMMA EachXmlCount ==
  ASSUME NEW bs \in Seq(Seq(Tokens)), NEW c \in Calls
  PROVE  Count(FlattenSeq(EachXml(bs)), c) <= Count(FlattenSeq(bs), c)
<1> DEFINE N == {q \in Seq(Seq(Tokens)) : Count(FlattenSeq(EachXml(q)), c) <= Count(FlattenSeq(q), c)}
<1>1. << >> \in N
  <2>1. EachXml(<< >>) = << >>
    BY DEF EachXml
  <2>2. Count(FlattenSeq(EachXml(<< >>)), c) = 0 /\ Count(FlattenSeq(<< >>), c) = 0
    BY <2>1, FlattenEmpty, CountEmpty
  <2> QED BY <2>2, EmptySeq
<1>2. ASSUME NEW q \in Seq(Seq(Tokens)), NEW b \in Seq(Tokens), q \in N PROVE Append(q, b) \in N
  <2>1. FlattenSeq(Append(q, b)) = FlattenSeq(q) \o b /\ FlattenSeq(q) \in Seq(Tokens)
    BY FlattenProp
  <2>2. Count(FlattenSeq(q) \o b, c) = Count(FlattenSeq(q), c) + Count(b, c)
    BY <2>1, CountConcat
  <2>3. PICK e \in Seq(Seq(Calls)) : e = EachXml(q)
    BY EachXmlProp
  <2>4. PICK x \in Seq(Calls) : x = XmlCall(b)
    BY XmlCallProp
  <2>5. FlattenSeq(Append(e, x)) = FlattenSeq(e) \o x /\ FlattenSeq(e) \in Seq(Calls)
    BY FlattenProp
  <2>6. Count(FlattenSeq(e) \o x, c) = Count(FlattenSeq(e), c) + Count(x, c)
    BY <2>5, CountConcat
  <2>7. EachXml(Append(q, b)) = Append(e, x)
    BY <2>3, <2>4, EachXmlAppend
  <2>8. Count(x, c) <= Count(b, c)
    BY <2>4, XmlCallProp
  <2>9. Count(FlattenSeq(e), c) \in Nat /\ Count(x, c) \in Nat /\ Count(b, c) \in Nat
        /\ Count(FlattenSeq(q), c) \in Nat
    BY <2>1, <2>5, CountNat
  <2>10. Count(FlattenSeq(EachXml(Append(q, b))), c) <= Count(FlattenSeq(Append(q, b)), c)
    <3>1. Count(FlattenSeq(e), c) <= Count(FlattenSeq(q), c)
      BY <1>2, <2>3
    <3>2. Count(FlattenSeq(EachXml(Append(q, b))), c) = Count(FlattenSeq(e), c) + Count(x, c)
      BY <2>5, <2>6, <2>7
    <3>3. Count(FlattenSeq(Append(q, b)), c) = Count(FlattenSeq(q), c) + Count(b, c)
      BY <2>1, <2>2
    <3> QED BY <2>8, <2>9, <3>1, <3>2, <3>3
  <2> QED BY <2>10, AppendProperties
<1>3. Seq(Seq(Tokens)) \subseteq N
  <2> HIDE DEF N
  <2> QED BY <1>1, <1>2, SeqInduction
<1> QED BY <1>3

LEMMA XmlCallsProp ==
  ASSUME NEW s \in Seq(Tokens)
  PROVE  /\ XmlCalls(s) \in Seq(Calls)
         /\ \A c \in Calls : Count(XmlCalls(s), c) <= Count(s, c)
<1>1. PICK out : out = CutXml(s)
  OBVIOUS
<1>2. Sound(out, s) /\ out \in Outs
  BY <1>1, CutXmlSound DEF Sound
<1>3. /\ out.blocks \in Seq(Seq(Tokens)) /\ out.buf.pending \in Seq(Tokens) /\ out.text \in Seq(Tokens)
  BY <1>2 DEF Outs, Bufs
<1>4. PICK all : all = IF out.buf.on THEN Append(out.blocks, out.buf.pending) ELSE out.blocks
  OBVIOUS
<1>5. all \in Seq(Seq(Tokens))
  BY <1>3, <1>4, AppendProperties
<1>6. XmlCalls(s) = FlattenSeq(EachXml(all))
  BY <1>1, <1>4 DEF XmlCalls, EachXml
<1>7. XmlCalls(s) \in Seq(Calls)
  BY <1>5, <1>6, EachXmlProp, FlattenType
<1>8. ASSUME NEW c \in Calls PROVE Count(XmlCalls(s), c) <= Count(s, c)
  <2>1. c \in Tokens
    BY DEF Tokens
  <2>2. Count(out.text, c) + Count(FlattenSeq(out.blocks), c) + Count(out.buf.pending, c) = Count(s, c)
    BY <1>2, <2>1 DEF Sound, Adds
  <2>3. Count(FlattenSeq(EachXml(all)), c) <= Count(FlattenSeq(all), c)
    BY <1>5, EachXmlCount
  <2>4. FlattenSeq(out.blocks) \in Seq(Tokens) /\ FlattenSeq(all) \in Seq(Tokens)
    BY <1>3, <1>5, FlattenType
  <2>5. FlattenSeq(Append(out.blocks, out.buf.pending)) = FlattenSeq(out.blocks) \o out.buf.pending
    BY <1>3, FlattenProp
  <2>6. Count(FlattenSeq(out.blocks) \o out.buf.pending, c)
          = Count(FlattenSeq(out.blocks), c) + Count(out.buf.pending, c)
    BY <1>3, <2>4, CountConcat
  <2>7. Count(FlattenSeq(all), c) <= Count(FlattenSeq(out.blocks), c) + Count(out.buf.pending, c)
    <3>1. Count(FlattenSeq(out.blocks), c) \in Nat /\ Count(out.buf.pending, c) \in Nat
      BY <1>3, <2>4, CountNat
    <3>2. CASE out.buf.on
      <4>1. all = Append(out.blocks, out.buf.pending)
        BY <1>4, <3>2
      <4>2. Count(FlattenSeq(all), c) = Count(FlattenSeq(out.blocks), c) + Count(out.buf.pending, c)
        BY <2>5, <2>6, <4>1
      <4> QED BY <3>1, <4>2
    <3>3. CASE ~ out.buf.on
      <4>1. all = out.blocks
        BY <1>4, <3>3
      <4> QED BY <3>1, <4>1
    <3> QED BY <3>2, <3>3
  <2>8. Count(out.text, c) \in Nat /\ Count(FlattenSeq(out.blocks), c) \in Nat
        /\ Count(out.buf.pending, c) \in Nat /\ Count(FlattenSeq(all), c) \in Nat
        /\ Count(XmlCalls(s), c) \in Nat /\ Count(s, c) \in Nat
    BY <1>3, <1>7, <2>4, CountNat
  <2> QED BY <1>6, <2>2, <2>3, <2>7, <2>8
<1> QED BY <1>7, <1>8

LEMMA MistralCallsProp ==
  ASSUME NEW s \in Seq(Tokens)
  PROVE  /\ MistralCalls(s) \in Seq(Calls)
         /\ \A c \in Calls : Count(MistralCalls(s), c) <= Count(s, c)
<1>1. PICK i : i = LastBracket(s)
  OBVIOUS
<1>2. i \in 0..Len(s)
  BY <1>1, BracketRange
<1>3. CASE s[i] = "]" /\ \A k \in 2..i - 1 : s[k] \in Calls
  <2>1. MistralCalls(s) = SubSeq(s, 2, i - 1)
    BY <1>1, <1>3 DEF MistralCalls
  <2>2. SubSeq(s, 2, i - 1) \in Seq(Calls)
    <3>1. 2 \in Int /\ i - 1 \in Int
      BY <1>2
    <3> QED BY <1>3, <3>1, SubSeqProperties
  <2>3. ASSUME NEW c \in Calls PROVE Count(SubSeq(s, 2, i - 1), c) <= Count(s, c)
    <3>1. CASE i = 0
      <4>1. SubSeq(s, 2, i - 1) = << >>
        BY <3>1, SubSeqEmpty
      <4>2. Count(SubSeq(s, 2, i - 1), c) = 0 /\ Count(s, c) \in Nat
        BY <4>1, CountEmpty, CountNat
      <4> QED BY <4>2
    <3>2. CASE i # 0
      <4>1. i - 1 \in 0..Len(s)
        BY <1>2, <3>2
      <4> QED BY <4>1, CountSub
    <3> QED BY <3>1, <3>2
  <2> QED BY <2>1, <2>2, <2>3
<1>4. CASE ~ (s[i] = "]" /\ \A k \in 2..i - 1 : s[k] \in Calls)
  <2>1. MistralCalls(s) = << >>
    BY <1>1, <1>4 DEF MistralCalls
  <2>2. ASSUME NEW c \in Calls PROVE Count(MistralCalls(s), c) <= Count(s, c)
    BY <2>1, CountEmpty, CountNat
  <2> QED BY <2>1, <2>2, EmptySeq
<1> QED BY <1>3, <1>4

Objects == [held : Seq(Tokens), calls : Seq(Calls), over : BOOLEAN]
NoObject == [held |-> << >>, calls |-> << >>, over |-> FALSE]

LEMMA JsonStepType ==
  ASSUME NEW out \in Objects, NEW t \in Tokens
  PROVE  JsonStep(out, t) \in Objects
<1>1. PICK held : held = Append(out.held, t)
  OBVIOUS
<1>2. held \in Seq(Tokens) /\ out.calls \in Seq(Calls)
  BY <1>1, AppendProperties DEF Objects
<1>3. CASE out.held = << >> /\ t # "{"
  BY <1>3 DEF JsonStep, Objects
<1>4. CASE ~ (out.held = << >> /\ t # "{") /\ (out.over \/ Depth(held) > 0)
  BY <1>1, <1>2, <1>4 DEF JsonStep, Objects
<1>5. CASE ~ (out.held = << >> /\ t # "{") /\ ~ (out.over \/ Depth(held) > 0)
  <2>1. PICK cs : cs = IF Len(held) = 3 /\ held[2] \in Calls THEN Append(out.calls, held[2]) ELSE out.calls
    OBVIOUS
  <2>2. cs \in Seq(Calls)
    BY <1>2, <2>1, AppendProperties
  <2>3. JsonStep(out, t) = [out EXCEPT !.held = << >>, !.calls = cs]
    BY <1>1, <1>5, <2>1 DEF JsonStep
  <2>4. << >> \in Seq(Tokens)
    BY EmptySeq
  <2>5. PICK e \in Seq(Tokens) : e = << >>
    BY <2>4
  <2>6. [out EXCEPT !.held = e, !.calls = cs] \in Objects
    BY <2>2 DEF Objects
  <2> QED BY <2>3, <2>5, <2>6
<1> QED BY <1>3, <1>4, <1>5

JsonF == [z \in Objects \X Tokens |-> JsonStep(z[1], z[2])]

LEMMA JsonOnObjects == StepOn(JsonF, Objects, Tokens) /\ NoObject \in Objects
<1>1. StepOn(JsonF, Objects, Tokens)
  BY JsonStepType DEF StepOn, JsonF
<1>2. << >> \in Seq(Tokens) /\ << >> \in Seq(Calls)
  BY EmptySeq
<1>3. NoObject \in Objects
  BY <1>2 DEF NoObject, Objects
<1> QED BY <1>1, <1>3

JsonRun(s) == Fold(JsonF, NoObject, s)

LEMMA JsonCallsRun ==
  ASSUME NEW s \in Seq(Tokens)
  PROVE  JsonCalls(s) = JsonRun(s).calls
<1> DEFINE V(f, n) == IF n = 0 THEN NoObject ELSE JsonStep(f[n - 1], s[n])
<1>1. \E f : f = [n \in 0..Len(s) |-> V(f, n)]
  <2>1. PICK g : g = Steps(JsonF, NoObject, s)
    OBVIOUS
  <2>2. \A n \in 0..Len(s) : g[n] \in Objects
    BY <2>1, JsonOnObjects, StepsTyped
  <2>3. g = [n \in 0..Len(s) |-> IF n = 0 THEN NoObject ELSE JsonF[<<g[n - 1], s[n]>>]]
    BY <2>1, StepsExist
  <2>4. ASSUME NEW n \in 0..Len(s) PROVE g[n] = V(g, n)
    <3>1. n # 0 => g[n - 1] \in Objects /\ s[n] \in Tokens
      BY <2>2, ElementOfSeq
    <3>2. g[n] = IF n = 0 THEN NoObject ELSE JsonF[<<g[n - 1], s[n]>>]
      BY <2>3
    <3> QED BY <3>1, <3>2 DEF JsonF
  <2>5. g = [n \in 0..Len(s) |-> g[n]]
    BY <2>3
  <2> HIDE DEF V
  <2>6. g = [n \in 0..Len(s) |-> V(g, n)]
    BY <2>4, <2>5
  <2> QED BY <2>6, Zenon
<1>2. PICK f : f = [n \in 0..Len(s) |-> V(f, n)] /\ JsonCalls(s) = f[Len(s)].calls
  BY <1>1, Zenon DEF JsonCalls, NoObject
<1>3. \A n \in 0..Len(s) : f[n] = V(f, n)
  <2> HIDE DEF V
  <2> QED BY <1>2
<1>4. Follows(f, Objects, JsonF, NoObject, s)
  <2>1. f[0] = NoObject
    BY <1>3
  <2>2. ASSUME NEW n \in 1..Len(s), f[n - 1] \in Objects
        PROVE f[n] = JsonF[<<f[n - 1], s[n]>>]
    <3>1. f[n] = JsonStep(f[n - 1], s[n]) /\ s[n] \in Tokens
      BY <1>3, ElementOfSeq
    <3> QED BY <2>2, <3>1 DEF JsonF
  <2> QED BY <2>1, <2>2 DEF Follows
<1>5. f[Len(s)] = Fold(JsonF, NoObject, s)
  BY <1>4, JsonOnObjects, StepsUnique
<1> QED BY <1>2, <1>5 DEF JsonRun

LEMMA JsonRunProp ==
  /\ JsonRun(<< >>) = NoObject
  /\ \A s \in Seq(Tokens) : JsonRun(s) \in Objects
  /\ \A s \in Seq(Tokens), t \in Tokens : JsonRun(Append(s, t)) = JsonStep(JsonRun(s), t)
<1>1. JsonRun(<< >>) = NoObject
  BY FoldEmpty DEF JsonRun
<1>2. ASSUME NEW s \in Seq(Tokens) PROVE JsonRun(s) \in Objects
  BY JsonOnObjects, FoldProp DEF JsonRun
<1>3. ASSUME NEW s \in Seq(Tokens), NEW t \in Tokens
      PROVE  JsonRun(Append(s, t)) = JsonStep(JsonRun(s), t)
  <2>1. JsonRun(Append(s, t)) = JsonF[<<JsonRun(s), t>>]
    BY JsonOnObjects, FoldProp DEF JsonRun
  <2> QED BY <1>2, <2>1 DEF JsonF
<1> QED BY <1>1, <1>2, <1>3

LEMMA JsonCounted ==
  ASSUME NEW c \in Calls
  PROVE  \A s \in Seq(Tokens) :
           Count(JsonRun(s).calls, c) + Count(JsonRun(s).held, c) <= Count(s, c)
<1> DEFINE N == {s \in Seq(Tokens) :
                   Count(JsonRun(s).calls, c) + Count(JsonRun(s).held, c) <= Count(s, c)}
<1>1. << >> \in N
  <2>1. JsonRun(<< >>).calls = << >> /\ JsonRun(<< >>).held = << >>
    BY JsonRunProp DEF NoObject
  <2>2. Count(<< >>, c) = 0
    BY CountEmpty
  <2> QED BY <2>1, <2>2, EmptySeq
<1>2. ASSUME NEW s \in Seq(Tokens), NEW t \in Tokens, s \in N PROVE Append(s, t) \in N
  <2>1. PICK out \in Objects : out = JsonRun(s)
    BY JsonRunProp
  <2>2. PICK next : next = JsonStep(out, t)
    OBVIOUS
  <2>3. JsonRun(Append(s, t)) = next /\ next \in Objects
    BY <2>1, <2>2, JsonRunProp, JsonStepType
  <2>4. PICK held : held = Append(out.held, t)
    OBVIOUS
  <2>5. held \in Seq(Tokens) /\ out.calls \in Seq(Calls) /\ out.held \in Seq(Tokens)
    BY <2>4, AppendProperties DEF Objects
  <2>6. Count(out.calls, c) + Count(out.held, c) <= Count(s, c)
    BY <1>2, <2>1
  <2>7. Count(held, c) = Count(out.held, c) + (IF t = c THEN 1 ELSE 0)
    BY <2>4, <2>5, CountAppend
  <2>8. Count(Append(s, t), c) = Count(s, c) + (IF t = c THEN 1 ELSE 0)
    BY CountAppend
  <2>9. Count(out.calls, c) \in Nat /\ Count(out.held, c) \in Nat /\ Count(s, c) \in Nat
        /\ Count(held, c) \in Nat
    BY <2>5, CountNat
  <2>10. Count(next.calls, c) + Count(next.held, c) <= Count(Append(s, t), c)
    <3>1. CASE out.held = << >> /\ t # "{"
      <4>1. next = [out EXCEPT !.over = TRUE]
        BY <2>2, <3>1 DEF JsonStep
      <4>2. next.calls = out.calls /\ next.held = out.held
        BY <4>1 DEF Objects
      <4> QED BY <2>6, <2>8, <2>9, <4>2
    <3>2. CASE ~ (out.held = << >> /\ t # "{") /\ (out.over \/ Depth(held) > 0)
      <4>1. next = [out EXCEPT !.held = held]
        BY <2>2, <2>4, <3>2 DEF JsonStep
      <4>2. next.calls = out.calls /\ next.held = held
        BY <4>1 DEF Objects
      <4> QED BY <2>6, <2>7, <2>8, <2>9, <4>2
    <3>3. CASE ~ (out.held = << >> /\ t # "{") /\ ~ (out.over \/ Depth(held) > 0)
      <4>1. PICK cs : cs = IF Len(held) = 3 /\ held[2] \in Calls THEN Append(out.calls, held[2]) ELSE out.calls
        OBVIOUS
      <4>2. next = [out EXCEPT !.held = << >>, !.calls = cs]
        BY <2>2, <2>4, <3>3, <4>1 DEF JsonStep
      <4>3. next.calls = cs /\ next.held = << >>
        BY <4>2 DEF Objects
      <4>4. Count(next.held, c) = 0
        BY <4>3, CountEmpty
      <4>5. CASE Len(held) = 3 /\ held[2] \in Calls
        <5>1. PICK x \in Calls : x = held[2]
          BY <4>5
        <5>2. cs = Append(out.calls, x)
          BY <4>1, <4>5, <5>1
        <5>3. Count(cs, c) = Count(out.calls, c) + (IF x = c THEN 1 ELSE 0)
          BY <2>5, <5>2, CountAppend
        <5>4. Count(held, x) >= 1
          BY <2>5, <4>5, <5>1, CountPos
        <5> QED BY <2>6, <2>7, <2>8, <2>9, <4>3, <4>4, <5>3, <5>4
      <4>6. CASE ~ (Len(held) = 3 /\ held[2] \in Calls)
        <5>1. cs = out.calls
          BY <4>1, <4>6
        <5> QED BY <2>6, <2>8, <2>9, <4>3, <4>4, <5>1
      <4> QED BY <4>5, <4>6
    <3> QED BY <3>1, <3>2, <3>3
  <2> QED BY <2>3, <2>10, AppendProperties
<1>3. Seq(Tokens) \subseteq N
  <2> HIDE DEF N
  <2> QED BY <1>1, <1>2, SeqInduction
<1> QED BY <1>3

LEMMA JsonCallsProp ==
  ASSUME NEW s \in Seq(Tokens)
  PROVE  /\ JsonCalls(s) \in Seq(Calls)
         /\ \A c \in Calls : Count(JsonCalls(s), c) <= Count(s, c)
<1>1. PICK out \in Objects : out = JsonRun(s)
  BY JsonRunProp
<1>2. JsonCalls(s) = out.calls /\ out.calls \in Seq(Calls) /\ out.held \in Seq(Tokens)
  BY <1>1, JsonCallsRun DEF Objects
<1>3. ASSUME NEW c \in Calls PROVE Count(JsonCalls(s), c) <= Count(s, c)
  <2>1. Count(out.calls, c) + Count(out.held, c) <= Count(s, c)
    BY <1>1, JsonCounted
  <2>2. Count(out.calls, c) \in Nat /\ Count(out.held, c) \in Nat /\ Count(s, c) \in Nat
    BY <1>2, CountNat
  <2> QED BY <1>2, <2>1, <2>2
<1> QED BY <1>2, <1>3

LEMMA FromCut ==
  ASSUME NEW s \in Seq(Tokens), NEW tag, Has(s, tag)
  PROVE  /\ First(s, tag) - 1 \in 0..Len(s)
         /\ From(s, tag) = After(s, First(s, tag) - 1)
         /\ From(s, tag) \in Seq(Tokens) /\ Upto(s, First(s, tag) - 1) \in Seq(Tokens)
<1>1. First(s, tag) - 1 \in 0..Len(s)
  BY FirstProp DEF Has
<1> QED BY <1>1, CutAt DEF From

(* The calls of a text and the text before them do not overlap.               *)
LEMMA StripProp ==
  ASSUME NEW s \in Seq(Tokens)
  PROVE  /\ Strip(s).calls \in Seq(Calls)
         /\ \E k \in 0..Len(s) : Strip(s).text = Upto(s, k)
         /\ \A c \in Calls : Count(Strip(s).text, c) + Count(Strip(s).calls, c) <= Count(s, c)
<1> DEFINE Fine(r) == /\ r.calls \in Seq(Calls)
                      /\ \E k \in 0..Len(s) : r.text = Upto(s, k)
                      /\ \A c \in Calls : Count(r.text, c) + Count(r.calls, c) <= Count(s, c)
<1>1. ASSUME NEW tag, Has(s, tag), NEW found \in Seq(Calls),
             \A c \in Calls : Count(found, c) <= Count(From(s, tag), c)
      PROVE  Fine([text |-> Upto(s, First(s, tag) - 1), calls |-> found])
  <2>1. PICK k \in 0..Len(s) : k = First(s, tag) - 1
    BY <1>1, FromCut
  <2>2. From(s, tag) = After(s, k) /\ After(s, k) \in Seq(Tokens) /\ Upto(s, k) \in Seq(Tokens)
    BY <1>1, <2>1, FromCut
  <2>3. ASSUME NEW c \in Calls PROVE Count(Upto(s, k), c) + Count(found, c) <= Count(s, c)
    <3>1. Count(Upto(s, k), c) + Count(After(s, k), c) = Count(s, c)
      BY CountCut
    <3>2. Count(found, c) <= Count(After(s, k), c)
      BY <1>1, <2>2
    <3>3. Count(Upto(s, k), c) \in Nat /\ Count(After(s, k), c) \in Nat /\ Count(found, c) \in Nat
      BY <2>2, CountNat
    <3> QED BY <3>1, <3>2, <3>3
  <2> QED BY <2>1, <2>3
<1>2. Fine([text |-> s, calls |-> << >>])
  <2>1. s = Upto(s, Len(s)) /\ Len(s) \in 0..Len(s)
    BY SubSeqFull DEF Upto
  <2>2. ASSUME NEW c \in Calls PROVE Count(s, c) + Count(<< >>, c) <= Count(s, c)
    BY CountEmpty, CountNat
  <2> QED BY <2>1, <2>2, EmptySeq
<1>3. PICK xml : xml = IF Has(s, "<call>") THEN XmlCalls(From(s, "<call>")) ELSE << >>
  OBVIOUS
<1>4. PICK mistral : mistral = IF Has(s, "[CALLS]") THEN MistralCalls(From(s, "[CALLS]")) ELSE << >>
  OBVIOUS
<1>5. PICK json : json = IF Has(s, "{") THEN JsonCalls(From(s, "{")) ELSE << >>
  OBVIOUS
<1>6. Strip(s) =
        IF xml # << >> THEN [text |-> Upto(s, First(s, "<call>") - 1), calls |-> xml]
        ELSE IF mistral # << >> THEN [text |-> Upto(s, First(s, "[CALLS]") - 1), calls |-> mistral]
        ELSE IF json # << >> THEN [text |-> Upto(s, First(s, "{") - 1), calls |-> json]
        ELSE [text |-> s, calls |-> << >>]
  BY <1>3, <1>4, <1>5 DEF Strip
<1> HIDE DEF Fine
<1>7. CASE xml # << >>
  <2>1. Has(s, "<call>") /\ xml = XmlCalls(From(s, "<call>"))
    BY <1>3, <1>7
  <2>2. xml \in Seq(Calls) /\ \A c \in Calls : Count(xml, c) <= Count(From(s, "<call>"), c)
    BY <2>1, FromCut, XmlCallsProp
  <2>3. Fine([text |-> Upto(s, First(s, "<call>") - 1), calls |-> xml])
    BY <1>1, <2>1, <2>2
  <2> QED BY <1>6, <1>7, <2>3 DEF Fine
<1>8. CASE xml = << >> /\ mistral # << >>
  <2>1. Has(s, "[CALLS]") /\ mistral = MistralCalls(From(s, "[CALLS]"))
    BY <1>4, <1>8
  <2>2. mistral \in Seq(Calls) /\ \A c \in Calls : Count(mistral, c) <= Count(From(s, "[CALLS]"), c)
    BY <2>1, FromCut, MistralCallsProp
  <2>3. Fine([text |-> Upto(s, First(s, "[CALLS]") - 1), calls |-> mistral])
    BY <1>1, <2>1, <2>2
  <2> QED BY <1>6, <1>8, <2>3 DEF Fine
<1>9. CASE xml = << >> /\ mistral = << >> /\ json # << >>
  <2>1. Has(s, "{") /\ json = JsonCalls(From(s, "{"))
    BY <1>5, <1>9
  <2>2. json \in Seq(Calls) /\ \A c \in Calls : Count(json, c) <= Count(From(s, "{"), c)
    BY <2>1, FromCut, JsonCallsProp
  <2>3. Fine([text |-> Upto(s, First(s, "{") - 1), calls |-> json])
    BY <1>1, <2>1, <2>2
  <2> QED BY <1>6, <1>9, <2>3 DEF Fine
<1>10. CASE xml = << >> /\ mistral = << >> /\ json = << >>
  BY <1>2, <1>6, <1>10 DEF Fine
<1> QED BY <1>7, <1>8, <1>9, <1>10

-----------------------------------------------------------------------------
(* The dictionary of calls.                                                  *)

Entry == [id : Ids, call : Calls]
RawEntry == [id : {"raw"} \X Tools \X Nat, call : Calls]

SentEntry == [id : SentIds, call : Calls]

AtEntry(es, e) == {i \in 1..Len(es) : es[i] = e}

LEMMA SentIsEntry ==
  ASSUME NEW e \in SentEntry
  PROVE  e \in Entry /\ e.id[1] # "raw"
  BY DEF SentEntry, Entry, Ids, SentIds

LEMMA EntryIsSent ==
  ASSUME NEW e \in Entry, e.id[1] # "raw"
  PROVE  e \in SentEntry
<1>1. e.id \in ({"raw"} \X Tools \X Nat) \cup SentIds
  BY DEF Entry, Ids
<1>2. e.id \notin {"raw"} \X Tools \X Nat
  OBVIOUS
<1> QED BY <1>1, <1>2 DEF Entry, SentEntry

LEMMA RawIsEntry ==
  ASSUME NEW e \in RawEntry
  PROVE  e \in Entry /\ e.id[1] = "raw"
  BY DEF RawEntry, Entry, Ids

LEMMA RegisterAt ==
  ASSUME NEW es \in Seq(Entry), NEW new \in Entry
  PROVE  \/ Register(es, new) = Append(es, new)
         \/ \E i \in 1..Len(es) : es[i].id = new.id /\ Register(es, new) = [es EXCEPT ![i] = new]
<1>1. PICK I : I = {i \in 1..Len(es) : es[i].id = new.id}
  OBVIOUS
<1>2. PICK i : i = SelectInSeq(es, LAMBDA e : e.id = new.id)
  OBVIOUS
<1>3. i = IF I # {} THEN Min(I) ELSE 0
  BY <1>1, <1>2 DEF SelectInSeq
<1>4. I \subseteq Nat /\ \A k \in I : k \in 1..Len(es) /\ es[k].id = new.id
  BY <1>1
<1>5. Register(es, new) = IF i = 0 THEN Append(es, new) ELSE [es EXCEPT ![i] = new]
  BY <1>2 DEF Register
<1>6. CASE I = {}
  BY <1>3, <1>5, <1>6
<1>7. CASE I # {}
  <2>1. Min(I) \in I /\ i = Min(I)
    BY <1>3, <1>4, <1>7, MinProp
  <2>2. i \in 1..Len(es) /\ es[i].id = new.id
    BY <1>4, <2>1
  <2>3. Register(es, new) = [es EXCEPT ![i] = new]
    BY <1>5, <2>2
  <2> QED BY <2>2, <2>3
<1> QED BY <1>6, <1>7

LEMMA RegisterType ==
  ASSUME NEW es \in Seq(Entry), NEW new \in Entry
  PROVE  Register(es, new) \in Seq(Entry)
<1>1. Append(es, new) \in Seq(Entry)
  BY AppendProperties
<1>2. CASE Register(es, new) = Append(es, new)
  BY <1>1, <1>2
<1>3. ASSUME NEW i \in 1..Len(es), Register(es, new) = [es EXCEPT ![i] = new]
      PROVE  Register(es, new) \in Seq(Entry)
  <2>1. [es EXCEPT ![i] = new] \in Seq(Entry)
    BY ExceptSeq
  <2> QED BY <1>3, <2>1
<1> QED BY <1>2, <1>3, RegisterAt

LEMMA RegisterKeeps ==
  ASSUME NEW es \in Seq(Entry), NEW new \in RawEntry, NEW e \in SentEntry
  PROVE  AtEntry(Register(es, new), e) = AtEntry(es, e)
<1>1. new \in Entry /\ new.id # e.id /\ new # e
  BY RawIsEntry, SentIsEntry
<1>2. CASE Register(es, new) = Append(es, new)
  <2>1. PICK r : r = Append(es, new)
    OBVIOUS
  <2>2. Len(r) = Len(es) + 1 /\ r[Len(es) + 1] = new /\ \A i \in 1..Len(es) : r[i] = es[i]
    BY <1>1, <2>1, AppendProperties
  <2>3. AtEntry(r, e) = AtEntry(es, e)
    BY <1>1, <2>2 DEF AtEntry
  <2> QED BY <1>2, <2>1, <2>3
<1>3. ASSUME NEW i \in 1..Len(es), es[i].id = new.id, Register(es, new) = [es EXCEPT ![i] = new]
      PROVE  AtEntry(Register(es, new), e) = AtEntry(es, e)
  <2>1. PICK r : r = [es EXCEPT ![i] = new]
    OBVIOUS
  <2>2. Len(r) = Len(es) /\ \A j \in 1..Len(es) : r[j] = IF j = i THEN new ELSE es[j]
    BY <1>1, <2>1, ExceptSeq
  <2>3. es[i] # e
    BY <1>1, <1>3
  <2>4. AtEntry(r, e) = AtEntry(es, e)
    BY <1>1, <2>2, <2>3 DEF AtEntry
  <2> QED BY <1>3, <2>1, <2>4
<1> QED BY <1>1, <1>2, <1>3, RegisterAt

RegF == [z \in Seq(Entry) \X Entry |-> Register(z[1], z[2])]
Dicts == Seq(Entry)

LEMMA RegOn == StepOn(RegF, Dicts, Entry)
  BY RegisterType DEF StepOn, RegF, Dicts

LEMMA RegisterAllFold ==
  ASSUME NEW es \in Dicts, NEW all \in Seq(Entry)
  PROVE  RegisterAll(es, all) = Fold(RegF, es, all)
<1> DEFINE V(f, n) == IF n = 0 THEN es ELSE Register(f[n - 1], all[n])
<1>1. \E f : f = [n \in 0..Len(all) |-> V(f, n)]
  <2>1. PICK g : g = Steps(RegF, es, all)
    OBVIOUS
  <2>2. \A n \in 0..Len(all) : g[n] \in Dicts
    BY <2>1, RegOn, StepsTyped
  <2>3. g = [n \in 0..Len(all) |-> IF n = 0 THEN es ELSE RegF[<<g[n - 1], all[n]>>]]
    <3> HIDE DEF V
    <3>1. Len(all) \in Nat
      OBVIOUS
    <3>2. Steps(RegF, es, all)
            = [n \in 0..Len(all) |->
                 IF n = 0 THEN es ELSE RegF[<<Steps(RegF, es, all)[n - 1], all[n]>>]]
      BY <3>1, StepsExist
    <3> QED BY <2>1, <3>2
  <2>4. ASSUME NEW n \in 0..Len(all) PROVE g[n] = V(g, n)
    <3>1. n # 0 => g[n - 1] \in Dicts /\ all[n] \in Entry
      BY <2>2, ElementOfSeq
    <3>2. g[n] = IF n = 0 THEN es ELSE RegF[<<g[n - 1], all[n]>>]
      BY <2>3
    <3> QED BY <3>1, <3>2 DEF RegF, Dicts
  <2>5. g = [n \in 0..Len(all) |-> g[n]]
    BY <2>3
  <2> HIDE DEF V
  <2>6. g = [n \in 0..Len(all) |-> V(g, n)]
    BY <2>4, <2>5
  <2> QED BY <2>6, Zenon
<1>2. PICK f : f = [n \in 0..Len(all) |-> V(f, n)] /\ RegisterAll(es, all) = f[Len(all)]
  BY <1>1, Zenon DEF RegisterAll
<1>3. \A n \in 0..Len(all) : f[n] = V(f, n)
  <2> HIDE DEF V
  <2> QED BY <1>2
<1>4. Follows(f, Dicts, RegF, es, all)
  <2>1. f[0] = es
    BY <1>3
  <2>2. ASSUME NEW n \in 1..Len(all), f[n - 1] \in Dicts
        PROVE f[n] = RegF[<<f[n - 1], all[n]>>]
    <3>1. f[n] = Register(f[n - 1], all[n]) /\ all[n] \in Entry
      BY <1>3, ElementOfSeq
    <3> QED BY <2>2, <3>1 DEF RegF, Dicts
  <2> QED BY <2>1, <2>2 DEF Follows
<1>5. f[Len(all)] = Fold(RegF, es, all)
  BY <1>4, RegOn, StepsUnique
<1> QED BY <1>2, <1>5

(* What is registered from text leaves the structured calls where they are.   *)
LEMMA RegisterAllKeeps ==
  ASSUME NEW es \in Seq(Entry)
  PROVE  \A all \in Seq(RawEntry) :
           /\ RegisterAll(es, all) \in Seq(Entry)
           /\ \A e \in SentEntry : AtEntry(RegisterAll(es, all), e) = AtEntry(es, e)
<1> DEFINE N == {all \in Seq(RawEntry) :
                   /\ RegisterAll(es, all) \in Seq(Entry)
                   /\ \A e \in SentEntry : AtEntry(RegisterAll(es, all), e) = AtEntry(es, e)}
<1>0. es \in Dicts
  BY DEF Dicts
<1>4. ASSUME NEW all \in Seq(RawEntry) PROVE all \in Seq(Entry)
  BY RawIsEntry, SeqMonotonic
<1>1. << >> \in N
  <2>1. << >> \in Seq(RawEntry) /\ << >> \in Seq(Entry)
    BY EmptySeq
  <2>2. RegisterAll(es, << >>) = es
    BY <1>0, <2>1, RegisterAllFold, FoldEmpty
  <2> QED BY <2>1, <2>2
<1>2. ASSUME NEW all \in Seq(RawEntry), NEW new \in RawEntry, all \in N PROVE Append(all, new) \in N
  <2>1. all \in Seq(Entry) /\ new \in Entry
    BY <1>4, RawIsEntry
  <2>2. PICK r \in Seq(Entry) : r = RegisterAll(es, all)
    BY <1>2
  <2>3. Fold(RegF, es, Append(all, new)) = RegF[<<Fold(RegF, es, all), new>>]
    BY <1>0, <2>1, RegOn, FoldProp
  <2>4. Append(all, new) \in Seq(Entry) /\ Append(all, new) \in Seq(RawEntry)
    BY <2>1, AppendProperties
  <2>5. RegisterAll(es, Append(all, new)) = RegF[<<r, new>>]
    BY <1>0, <2>1, <2>2, <2>3, <2>4, RegisterAllFold
  <2>6. RegisterAll(es, Append(all, new)) = Register(r, new)
    BY <2>1, <2>5 DEF RegF
  <2>7. Register(r, new) \in Seq(Entry)
    BY <2>1, RegisterType
  <2>8. ASSUME NEW e \in SentEntry PROVE AtEntry(Register(r, new), e) = AtEntry(es, e)
    BY <1>2, <2>2, RegisterKeeps
  <2> QED BY <2>4, <2>6, <2>7, <2>8
<1>3. Seq(RawEntry) \subseteq N
  <2> HIDE DEF N
  <2> QED BY <1>1, <1>2, SeqInduction
<1> QED BY <1>3

LEMMA EntriesRaw ==
  ASSUME NEW found \in Seq(Calls)
  PROVE  Entries(found) \in Seq(RawEntry)
<1>1. ASSUME NEW i \in 1..Len(found)
      PROVE  [id |-> RawId(found, i), call |-> found[i]] \in RawEntry
  <2>1. found[i] \in Calls /\ i - 1 \in Nat
    BY ElementOfSeq
  <2>2. ToolOf[found[i]] \in Tools
    BY <2>1, TextAssumption
  <2> QED BY <2>1, <2>2 DEF RawEntry, RawId
<1>2. Len(found) \in Nat
  OBVIOUS
<1> QED BY <1>1, <1>2 DEF Entries

EachEntries(bs) == [i \in 1..Len(bs) |-> Entries(Strip(bs[i]).calls)]

LEMMA EachEntriesRaw ==
  ASSUME NEW bs \in Seq(Seq(Tokens))
  PROVE  FlattenSeq(EachEntries(bs)) \in Seq(RawEntry)
<1>1. \A i \in 1..Len(bs) : Entries(Strip(bs[i]).calls) \in Seq(RawEntry)
  BY EntriesRaw, StripProp, ElementOfSeq
<1>2. Len(bs) \in Nat
  OBVIOUS
<1>3. EachEntries(bs) \in Seq(Seq(RawEntry))
  BY <1>1, <1>2 DEF EachEntries
<1> QED BY <1>3, FlattenType

LEMMA RegisterBlocksKeeps ==
  ASSUME NEW es \in Seq(Entry), NEW bs \in Seq(Seq(Tokens))
  PROVE  /\ RegisterBlocks(es, bs) \in Seq(Entry)
         /\ \A e \in SentEntry : AtEntry(RegisterBlocks(es, bs), e) = AtEntry(es, e)
<1>1. RegisterBlocks(es, bs) = RegisterAll(es, FlattenSeq(EachEntries(bs)))
  BY DEF RegisterBlocks, EachEntries
<1> QED BY <1>1, EachEntriesRaw, RegisterAllKeeps

LEMMA RegisterParseKeeps ==
  ASSUME NEW es \in Seq(Entry), NEW found \in Seq(Calls)
  PROVE  /\ RegisterParse(es, found) \in Seq(Entry)
         /\ \A e \in SentEntry : AtEntry(RegisterParse(es, found), e) = AtEntry(es, e)
  BY EntriesRaw, RegisterAllKeeps DEF RegisterParse

-----------------------------------------------------------------------------
(* The structured calls of an answer.  Those that an identifier names come with *)
(* a number that is new, the others with that of the generation.              *)

Fits(x, m) ==
  \/ x.call \notin Unnamed /\ x.id = <<"sent", m>>
  \/ x.call \in Unnamed /\ x.id[1] = "run"

LEMMA SentEntriesProp ==
  ASSUME sent \in Seq(SentEntry), NEW answer \in Seq(Calls)
  PROVE  /\ SentEntries(answer) \in Seq(SentEntry) /\ SentEntries(answer) \in Seq(Entry)
         /\ Len(SentEntries(answer)) = Len(answer)
         /\ \A i \in 1..Len(answer) : Fits(SentEntries(answer)[i], Len(sent) + i)
<1>1. PICK m \in Nat : m = Len(sent)
  OBVIOUS
<1>2. PICK a \in Nat : a = Len(answer)
  OBVIOUS
<1>3. PICK all : all = SentEntries(answer)
  OBVIOUS
<1>4. all = [i \in 1..a |-> [id |-> SentId(m + i, answer[i]), call |-> answer[i]]]
  BY <1>1, <1>2, <1>3 DEF SentEntries
<1>5. ASSUME NEW i \in 1..a
      PROVE  [id |-> SentId(m + i, answer[i]), call |-> answer[i]] \in SentEntry
             /\ Fits([id |-> SentId(m + i, answer[i]), call |-> answer[i]], m + i)
  <2>1. PICK c \in Calls : c = answer[i]
    BY <1>2, ElementOfSeq
  <2>2. m + i \in Nat
    OBVIOUS
  <2>3. CASE c \in Unnamed
    <3>1. SentId(m + i, c) = <<"run", m>>
      BY <1>1, <2>3 DEF SentId
    <3>2. <<"run", m>> \in SentIds
      BY DEF SentIds
    <3> QED BY <2>1, <2>3, <3>1, <3>2 DEF SentEntry, Fits
  <2>4. CASE c \notin Unnamed
    <3>1. SentId(m + i, c) = <<"sent", m + i>>
      BY <2>4 DEF SentId
    <3>2. <<"sent", m + i>> \in SentIds
      BY <2>2 DEF SentIds
    <3> QED BY <2>1, <2>4, <3>1, <3>2 DEF SentEntry, Fits
  <2> QED BY <2>3, <2>4
<1>6. all \in Seq(SentEntry) /\ Len(all) = a
  BY <1>4, <1>5
<1>7. SentEntry \subseteq Entry
  BY SentIsEntry
<1>8. all \in Seq(Entry)
  BY <1>6, <1>7, SeqMonotonic
<1>9. ASSUME NEW i \in 1..a PROVE Fits(all[i], m + i)
  <2>1. all[i] = [id |-> SentId(m + i, answer[i]), call |-> answer[i]]
    BY <1>4
  <2> QED BY <1>5, <2>1
<1> QED BY <1>1, <1>2, <1>3, <1>6, <1>8, <1>9

RegisterNewF == [z \in Seq(Entry) \X Entry |-> RegisterNew(z[1], z[2])]

LEMMA RegisterNewOn == StepOn(RegisterNewF, Dicts, Entry)
<1>1. ASSUME NEW es \in Seq(Entry), NEW new \in Entry PROVE RegisterNew(es, new) \in Seq(Entry)
  <2>1. Append(es, new) \in Seq(Entry)
    BY AppendProperties
  <2> QED BY <2>1 DEF RegisterNew
<1> QED BY <1>1 DEF StepOn, RegisterNewF, Dicts

LEMMA RegisterNewSteps ==
  ASSUME NEW es \in Dicts, NEW all \in Seq(Entry)
  PROVE  \E f : f = [n \in 0..Len(all) |-> IF n = 0 THEN es ELSE RegisterNew(f[n - 1], all[n])]
<1> DEFINE V(f, n) == IF n = 0 THEN es ELSE RegisterNew(f[n - 1], all[n])
<1>1. PICK g : g = Steps(RegisterNewF, es, all)
  OBVIOUS
<1>2. \A n \in 0..Len(all) : g[n] \in Dicts
  BY <1>1, RegisterNewOn, StepsTyped
<1>3. g = [n \in 0..Len(all) |-> IF n = 0 THEN es ELSE RegisterNewF[<<g[n - 1], all[n]>>]]
  BY <1>1, StepsExist
<1>4. ASSUME NEW n \in 0..Len(all) PROVE g[n] = V(g, n)
  <2>1. n # 0 => g[n - 1] \in Dicts /\ all[n] \in Entry
    BY <1>2, ElementOfSeq
  <2>2. g[n] = IF n = 0 THEN es ELSE RegisterNewF[<<g[n - 1], all[n]>>]
    BY <1>3
  <2> QED BY <2>1, <2>2 DEF RegisterNewF, Dicts
<1>5. g = [n \in 0..Len(all) |-> g[n]]
  BY <1>3
<1>6. g = [n \in 0..Len(all) |-> V(g, n)]
  <2> HIDE DEF V
  <2> QED BY <1>4, <1>5
<1> QED BY <1>6, Zenon

LEMMA RegisterAnswerFold ==
  ASSUME sent \in Seq(SentEntry), NEW es \in Dicts, NEW answer \in Seq(Calls),
         NEW all \in Seq(Entry), all = SentEntries(answer)
  PROVE  RegisterAnswer(es, answer) = Fold(RegisterNewF, es, all)
<1> DEFINE V(f, n) == IF n = 0 THEN es ELSE RegisterNew(f[n - 1], all[n])
<1>1. \E f : f = [n \in 0..Len(all) |-> V(f, n)]
  BY RegisterNewSteps, Zenon
<1>2. PICK f : f = [n \in 0..Len(all) |-> V(f, n)] /\ RegisterAnswer(es, answer) = f[Len(all)]
  BY <1>1, Zenon DEF RegisterAnswer
<1>3. \A n \in 0..Len(all) : f[n] = V(f, n)
  <2> HIDE DEF V
  <2> QED BY <1>2
<1>4. Follows(f, Dicts, RegisterNewF, es, all)
  <2>1. f[0] = es
    BY <1>3
  <2>2. ASSUME NEW n \in 1..Len(all), f[n - 1] \in Dicts
        PROVE f[n] = RegisterNewF[<<f[n - 1], all[n]>>]
    <3>1. f[n] = RegisterNew(f[n - 1], all[n]) /\ all[n] \in Entry
      BY <1>3, ElementOfSeq
    <3> QED BY <2>2, <3>1 DEF RegisterNewF, Dicts
  <2> QED BY <2>1, <2>2 DEF Follows
<1>5. f[Len(all)] = Fold(RegisterNewF, es, all)
  BY <1>4, RegisterNewOn, StepsUnique
<1> QED BY <1>2, <1>5

-----------------------------------------------------------------------------
(* The calls of the blocks, and of a round.                                  *)

EachCalls(bs) == [i \in 1..Len(bs) |-> Strip(bs[i]).calls]

LEMMA EachCallsProp ==
  ASSUME NEW bs \in Seq(Seq(Tokens))
  PROVE  EachCalls(bs) \in Seq(Seq(Calls)) /\ Len(EachCalls(bs)) = Len(bs)
<1>1. \A i \in 1..Len(bs) : Strip(bs[i]).calls \in Seq(Calls)
  BY StripProp, ElementOfSeq
<1>2. Len(bs) \in Nat
  OBVIOUS
<1> QED BY <1>1, <1>2 DEF EachCalls

LEMMA EachCallsAppend ==
  ASSUME NEW bs \in Seq(Seq(Tokens)), NEW b \in Seq(Tokens)
  PROVE  EachCalls(Append(bs, b)) = Append(EachCalls(bs), Strip(b).calls)
<1>1. PICK g : g = EachCalls(Append(bs, b))
  OBVIOUS
<1>2. PICK h : h = EachCalls(bs)
  OBVIOUS
<1>3. PICK q : q = Append(bs, b)
  OBVIOUS
<1>4. q \in Seq(Seq(Tokens)) /\ Len(q) = Len(bs) + 1 /\ q[Len(q)] = b
      /\ \A i \in 1..Len(bs) : q[i] = bs[i]
  BY <1>3, AppendProperties
<1>5. g \in Seq(Seq(Calls)) /\ Len(g) = Len(bs) + 1
  BY <1>1, <1>3, <1>4, EachCallsProp
<1>6. h \in Seq(Seq(Calls)) /\ Len(h) = Len(bs)
  BY <1>2, EachCallsProp
<1>7. \A i \in 1..Len(q) : g[i] = Strip(q[i]).calls
  BY <1>1, <1>3 DEF EachCalls
<1>8. \A i \in 1..Len(bs) : h[i] = Strip(bs[i]).calls
  BY <1>2 DEF EachCalls
<1>9. ASSUME NEW i \in 1..Len(h) PROVE g[i] = h[i]
  <2>1. i \in 1..Len(bs) /\ i \in 1..Len(q)
    BY <1>4, <1>6
  <2>2. q[i] = bs[i]
    BY <1>4, <2>1
  <2>3. g[i] = Strip(q[i]).calls /\ h[i] = Strip(bs[i]).calls
    BY <1>7, <1>8, <2>1
  <2> QED BY <2>2, <2>3
<1>10. g = Append(h, g[Len(g)])
  BY <1>5, <1>6, <1>9, MapAppend
<1>11. g[Len(g)] = Strip(b).calls
  <2>1. Len(g) \in 1..Len(q) /\ q[Len(g)] = b
    BY <1>4, <1>5
  <2>2. g[Len(g)] = Strip(q[Len(g)]).calls
    BY <1>7, <2>1
  <2> QED BY <2>1, <2>2
<1> QED BY <1>1, <1>2, <1>10, <1>11

LEMMA CallsOfEach ==
  ASSUME NEW bs \in Seq(Seq(Tokens))
  PROVE  CallsOf(bs) = FlattenSeq(EachCalls(bs)) /\ CallsOf(bs) \in Seq(Calls)
<1>1. CallsOf(bs) = FlattenSeq(EachCalls(bs))
  BY DEF CallsOf, EachCalls
<1> QED BY <1>1, EachCallsProp, FlattenType

(* The blocks hold as many calls as were parsed of them, or more.             *)
LEMMA CallsOfCount ==
  ASSUME NEW bs \in Seq(Seq(Tokens)), NEW c \in Calls
  PROVE  Count(CallsOf(bs), c) <= Count(FlattenSeq(bs), c)
<1> DEFINE N == {q \in Seq(Seq(Tokens)) : Count(FlattenSeq(EachCalls(q)), c) <= Count(FlattenSeq(q), c)}
<1>1. << >> \in N
  <2>1. EachCalls(<< >>) = << >>
    BY DEF EachCalls
  <2>2. Count(FlattenSeq(EachCalls(<< >>)), c) = 0 /\ Count(FlattenSeq(<< >>), c) = 0
    BY <2>1, FlattenEmpty, CountEmpty
  <2> QED BY <2>2, EmptySeq
<1>2. ASSUME NEW q \in Seq(Seq(Tokens)), NEW b \in Seq(Tokens), q \in N PROVE Append(q, b) \in N
  <2>1. FlattenSeq(Append(q, b)) = FlattenSeq(q) \o b /\ FlattenSeq(q) \in Seq(Tokens)
    BY FlattenProp
  <2>2. PICK x \in Seq(Calls) : x = Strip(b).calls
    BY StripProp
  <2>3. PICK y \in Seq(Seq(Calls)) : y = EachCalls(q)
    BY EachCallsProp
  <2>4. EachCalls(Append(q, b)) = Append(y, x)
    BY <2>2, <2>3, EachCallsAppend
  <2>5. FlattenSeq(Append(y, x)) = FlattenSeq(y) \o x /\ FlattenSeq(y) \in Seq(Calls)
    BY FlattenProp
  <2>6. Count(FlattenSeq(q) \o b, c) = Count(FlattenSeq(q), c) + Count(b, c)
    BY <2>1, CountConcat
  <2>7. Count(FlattenSeq(y) \o x, c) = Count(FlattenSeq(y), c) + Count(x, c)
    BY <2>5, CountConcat
  <2>8. Count(FlattenSeq(y), c) <= Count(FlattenSeq(q), c)
    BY <1>2, <2>3
  <2>9. Count(x, c) <= Count(b, c)
    <3>1. PICK k \in 0..Len(b) : Strip(b).text = Upto(b, k)
      BY StripProp
    <3>2. Count(Strip(b).text, c) \in Nat
      BY <3>1, CutAt, CountNat
    <3>3. Count(Strip(b).text, c) + Count(x, c) <= Count(b, c)
      BY <2>2, StripProp
    <3>4. Count(x, c) \in Nat /\ Count(b, c) \in Nat
      BY CountNat
    <3> QED BY <3>2, <3>3, <3>4
  <2>10. /\ Count(FlattenSeq(y), c) \in Nat /\ Count(FlattenSeq(q), c) \in Nat
         /\ Count(x, c) \in Nat /\ Count(b, c) \in Nat
    BY <2>1, <2>5, CountNat
  <2>11. Count(FlattenSeq(y) \o x, c) <= Count(FlattenSeq(q) \o b, c)
    BY <2>6, <2>7, <2>8, <2>9, <2>10
  <2>12. Append(q, b) \in Seq(Seq(Tokens))
    BY AppendProperties
  <2> QED BY <2>1, <2>4, <2>5, <2>11, <2>12
<1>3. Seq(Seq(Tokens)) \subseteq N
  <2> HIDE DEF N
  <2> QED BY <1>1, <1>2, SeqInduction
<1> QED BY <1>3, CallsOfEach

LEMMA KeptTyped ==
  ASSUME message \in Seq(Calls)
  PROVE  KeptInOrder \in Seq(Calls)
<1> DEFINE m == [i \in 1..Len(message) |-> IF i \in Kept THEN <<message[i]>> ELSE << >>]
<1>1. ASSUME NEW i \in 1..Len(message)
      PROVE  (IF i \in Kept THEN <<message[i]>> ELSE << >>) \in Seq(Calls)
  <2>1. message[i] \in Calls
    BY ElementOfSeq
  <2>2. << >> \in Seq(Calls)
    BY EmptySeq
  <2> QED BY <2>1, <2>2
<1>2. Len(message) \in Nat
  OBVIOUS
<1>3. m \in Seq(Seq(Calls))
  BY <1>1, <1>2
<1> QED BY <1>3, FlattenType DEF KeptInOrder

LEMMA CutConcat ==
  ASSUME NEW T, NEW s \in Seq(T), NEW r \in Seq(T), NEW k \in 0..Len(s)
  PROVE  Upto(s \o r, k) = Upto(s, k) /\ After(s \o r, k) = After(s, k) \o r
<1>1. PICK u \in Seq(T) : u = s \o r
  BY ConcatProperties
<1>2. /\ Len(u) = Len(s) + Len(r)
      /\ \A i \in 1..Len(s) + Len(r) : u[i] = IF i <= Len(s) THEN s[i] ELSE r[i - Len(s)]
  BY <1>1, ConcatProperties
<1>3. PICK n \in Nat : n = Len(s)
  OBVIOUS
<1>4. PICK m \in Nat : m = Len(r)
  OBVIOUS
<1>5. k \in 0..n /\ k \in 0..Len(u)
  BY <1>2, <1>3, <1>4
<1>6. Upto(u, k) = Upto(s, k)
  <2>1. PICK a \in Seq(T) : a = Upto(u, k)
    BY <1>5, CutAt
  <2>2. PICK b \in Seq(T) : b = Upto(s, k)
    BY CutAt
  <2>3. Len(a) = k /\ \A i \in 1..k : a[i] = u[i]
    BY <1>5, <2>1, CutAt
  <2>4. Len(b) = k /\ \A i \in 1..k : b[i] = s[i]
    BY <2>2, CutAt
  <2>5. \A i \in 1..k : a[i] = b[i]
    BY <1>2, <1>3, <1>4, <1>5, <2>3, <2>4
  <2> QED BY <2>1, <2>2, <2>3, <2>4, <2>5, SeqEqual
<1>7. After(u, k) = After(s, k) \o r
  <2>1. PICK a \in Seq(T) : a = After(u, k)
    BY <1>5, CutAt
  <2>2. PICK b \in Seq(T) : b = After(s, k)
    BY CutAt
  <2>3. Len(a) = n + m - k /\ \A i \in 1..n + m - k : a[i] = u[i + k]
    <3>1. Len(a) = Len(u) - k /\ \A i \in 1..Len(u) - k : a[i] = u[i + k]
      BY <1>5, <2>1, CutAt, ZenonT(40)
    <3>2. Len(u) = n + m
      BY <1>2, <1>3, <1>4
    <3> QED BY <3>1, <3>2
  <2>4. Len(b) = n - k /\ \A i \in 1..n - k : b[i] = s[i + k]
    BY <1>3, <2>2, CutAt, ZenonT(40)
  <2>5. PICK d \in Seq(T) : d = b \o r
    BY ConcatProperties
  <2>6. Len(d) = (n - k) + m
        /\ \A i \in 1..(n - k) + m : d[i] = IF i <= n - k THEN b[i] ELSE r[i - (n - k)]
    <3>1. /\ Len(d) = Len(b) + Len(r)
          /\ \A i \in 1..Len(b) + Len(r) : d[i] = IF i <= Len(b) THEN b[i] ELSE r[i - Len(b)]
      BY <2>5, ConcatProperties
    <3> QED BY <1>4, <2>4, <3>1
  <2>7. ASSUME NEW i \in 1..n + m - k PROVE a[i] = d[i]
    <3>0. i \in Nat /\ k \in Nat /\ 1 <= i /\ i <= n + m - k /\ k <= n
      BY <1>5
    <3>1. a[i] = u[i + k] /\ i + k \in 1..n + m
      BY <1>5, <2>3, SMTT(30)
    <3>2. u[i + k] = IF i + k <= n THEN s[i + k] ELSE r[(i + k) - n]
      BY <1>2, <1>3, <1>4, <3>1
    <3>3. d[i] = IF i <= n - k THEN b[i] ELSE r[i - (n - k)]
      BY <1>5, <2>6, SMTT(30)
    <3>4. CASE i <= n - k
      <4>1. d[i] = b[i]
        BY <3>3, <3>4
      <4>2. b[i] = s[i + k]
        BY <2>4, <3>0, <3>4, SMTT(30)
      <4>3. i + k <= n
        BY <3>0, <3>4
      <4> QED BY <3>1, <3>2, <4>1, <4>2, <4>3
    <3>5. CASE i > n - k
      <4>1. i - (n - k) = (i + k) - n /\ ~ (i + k <= n) /\ ~ (i <= n - k)
        BY <3>0, <3>5
      <4> QED BY <3>1, <3>2, <3>3, <4>1
    <3> QED BY <3>0, <3>4, <3>5
  <2>8. Len(a) = Len(d)
    BY <1>5, <2>3, <2>6
  <2>9. a = d
    BY <1>5, <2>3, <2>7, <2>8, SeqEqual
  <2> QED BY <2>1, <2>2, <2>5, <2>9
<1> QED BY <1>1, <1>6, <1>7

-----------------------------------------------------------------------------
(* Types.                                                                    *)

(* TypeOK, one conjunct for each variable.                                   *)
Typed ==
  /\ GraphOK
  /\ chunks \in 0..MaxChunks
  /\ content \in Seq(Tokens) /\ shown \in Seq(Tokens)
  /\ heard \in Seq(Tokens) /\ streamed \in Seq(Tokens) /\ withheld \in Seq(Tokens)
  /\ BufOK(buf)
  /\ calls \in Seq(Entry)
  /\ chunked \in BOOLEAN
  /\ sent \in Seq(SentEntry) /\ parsed \in Seq(Calls)
  /\ events \in Seq(Calls) /\ reported \in Seq(Calls) /\ answered \in Seq(Calls)

LEMMA TypedTypeOK == Typed <=> TypeOK
<1>1. \A a, b, c, d, S : {a, b, c, d} \subseteq S <=> a \in S /\ b \in S /\ c \in S /\ d \in S
  OBVIOUS
<1>2. \A a, b, c, d, e, S : {a, b, c, d, e} \subseteq S
                            <=> a \in S /\ b \in S /\ c \in S /\ d \in S /\ e \in S
  OBVIOUS
<1>3. {content, shown, heard, streamed, withheld} \subseteq Seq(Tokens) <=>
        /\ content \in Seq(Tokens) /\ shown \in Seq(Tokens)
        /\ heard \in Seq(Tokens) /\ streamed \in Seq(Tokens) /\ withheld \in Seq(Tokens)
  BY <1>2
<1>4. {parsed, events, reported, answered} \subseteq Seq(Calls) <=>
        /\ parsed \in Seq(Calls)
        /\ events \in Seq(Calls) /\ reported \in Seq(Calls) /\ answered \in Seq(Calls)
  BY <1>1
<1>5. BufOK(buf) <=> /\ buf \in [on : BOOLEAN, mode : Modes, pending : Seq(Tokens)]
                     /\ (buf.on <=> buf.pending # << >>)
  BY DEF BufOK, Bufs
<1>6. /\ calls \in Seq(Entry) <=> calls \in Seq([id : Ids, call : Calls])
      /\ sent \in Seq(SentEntry) <=> sent \in Seq([id : SentIds, call : Calls])
  BY DEF Entry, SentEntry
<1> QED BY <1>3, <1>4, <1>5, <1>6, Zenon DEF Typed, TypeOK

LEMMA RegisterAnswerType ==
  ASSUME sent \in Seq(SentEntry), NEW es \in Seq(Entry), NEW answer \in Seq(Calls)
  PROVE  RegisterAnswer(es, answer) \in Seq(Entry)
<1>1. es \in Dicts
  BY DEF Dicts
<1>2. PICK all \in Seq(Entry) : all = SentEntries(answer)
  BY SentEntriesProp
<1>3. RegisterAnswer(es, answer) = Fold(RegisterNewF, es, all)
  BY <1>1, <1>2, RegisterAnswerFold
<1>4. Fold(RegisterNewF, es, all) \in Dicts
  BY <1>1, RegisterNewOn, FoldProp
<1> QED BY <1>3, <1>4 DEF Dicts

LEMMA AfterType ==
  ASSUME NEW T, NEW s \in Seq(T), NEW i \in Nat
  PROVE  After(s, i) \in Seq(T)
<1>1. CASE i <= Len(s)
  <2>1. i \in 0..Len(s)
    BY <1>1
  <2> QED BY <2>1, CutAt
<1>2. CASE i > Len(s)
  <2>1. After(s, i) = << >>
    BY <1>2, SubSeqEmpty DEF After
  <2> QED BY <2>1, EmptySeq
<1> QED BY <1>1, <1>2

(* The step that feeds a chunk.                                               *)
LEMMA ChunkTyped ==
  ASSUME Typed, Chunk
  PROVE  \E chunk \in Chunks, out \in Outs :
           /\ chunk \in Seq(Tokens)
           /\ out = Feed(buf, chunk) /\ Sound(out, buf.pending \o chunk)
           /\ content' = content \o chunk /\ content' \in Seq(Tokens)
           /\ heard' = heard \o chunk /\ heard' \in Seq(Tokens)
           /\ streamed' = streamed \o chunk /\ streamed' \in Seq(Tokens)
           /\ buf' = out.buf /\ BufOK(buf')
           /\ shown' = shown \o out.text /\ shown' \in Seq(Tokens)
           /\ withheld' = withheld \o FlattenSeq(out.blocks) /\ withheld' \in Seq(Tokens)
           /\ calls' = RegisterBlocks(calls, out.blocks) /\ calls' \in Seq(Entry)
           /\ parsed' = parsed \o CallsOf(out.blocks) /\ parsed' \in Seq(Calls)
<1>1. PICK chunk \in Chunks :
        LET out == Feed(buf, chunk) IN
        /\ content' = content \o chunk
        /\ heard' = heard \o chunk /\ streamed' = streamed \o chunk
        /\ buf' = out.buf
        /\ shown' = shown \o out.text
        /\ withheld' = withheld \o FlattenSeq(out.blocks)
        /\ calls' = RegisterBlocks(calls, out.blocks)
        /\ parsed' = parsed \o CallsOf(out.blocks)
  BY DEF Chunk
<1>2. chunk \in Seq(Tokens)
  BY RunAssumption
<1>3. /\ content \in Seq(Tokens) /\ shown \in Seq(Tokens) /\ heard \in Seq(Tokens)
      /\ streamed \in Seq(Tokens) /\ withheld \in Seq(Tokens) /\ BufOK(buf)
  BY DEF Typed
<1>4. /\ calls \in Seq(Entry) /\ parsed \in Seq(Calls)
  BY DEF Typed
<1>5. PICK out : out = Feed(buf, chunk)
  OBVIOUS
<1>6. Sound(out, buf.pending \o chunk)
  BY <1>2, <1>3, <1>5, FeedSound
<1>7. out \in Outs /\ BufOK(out.buf)
  BY <1>6 DEF Sound
<1>8. out.text \in Seq(Tokens) /\ out.blocks \in Seq(Seq(Tokens))
  BY <1>7 DEF Outs
<1>9. FlattenSeq(out.blocks) \in Seq(Tokens)
  BY <1>8, FlattenType
<1>10. /\ content \o chunk \in Seq(Tokens) /\ heard \o chunk \in Seq(Tokens)
       /\ streamed \o chunk \in Seq(Tokens)
       /\ shown \o out.text \in Seq(Tokens)
       /\ withheld \o FlattenSeq(out.blocks) \in Seq(Tokens)
  BY <1>2, <1>3, <1>8, <1>9, ConcatProperties
<1>11. RegisterBlocks(calls, out.blocks) \in Seq(Entry)
  BY <1>4, <1>8, RegisterBlocksKeeps
<1>12. parsed \o CallsOf(out.blocks) \in Seq(Calls)
  BY <1>4, <1>8, CallsOfEach, ConcatProperties
<1> QED BY <1>1, <1>2, <1>5, <1>6, <1>7, <1>10, <1>11, <1>12

LEMMA FinishTyped ==
  ASSUME Typed, NEW whole \in Seq(Tokens), NEW answer \in Seq(Calls), NEW pieces \in BOOLEAN,
         Finish(whole, answer, pieces)
  PROVE  /\ heard' \in Seq(Tokens) /\ shown' \in Seq(Tokens) /\ withheld' \in Seq(Tokens)
         /\ BufOK(buf') /\ calls' \in Seq(Entry) /\ chunked' \in BOOLEAN
         /\ parsed' \in Seq(Calls) /\ sent' \in Seq(SentEntry) /\ streamed' = streamed
<1>1. /\ content \in Seq(Tokens) /\ shown \in Seq(Tokens)
      /\ heard \in Seq(Tokens) /\ withheld \in Seq(Tokens) /\ BufOK(buf)
  BY DEF Typed
<1>2. /\ calls \in Seq(Entry) /\ parsed \in Seq(Calls) /\ sent \in Seq(SentEntry)
  BY DEF Typed
<1>3. PICK flushed : flushed = Flush(buf).blocks
  OBVIOUS
<1>4. flushed \in Seq(Seq(Tokens)) /\ BufOK(Flush(buf).buf)
  BY <1>1, <1>3, FlushSound
<1>5. PICK listed : listed = RegisterAnswer(RegisterBlocks(calls, flushed), answer)
  OBVIOUS
<1>6. listed \in Seq(Entry)
  BY <1>2, <1>4, <1>5, RegisterBlocksKeeps, RegisterAnswerType
<1>7. PICK all \in Seq(Tokens) : all = content \o whole
  BY <1>1, ConcatProperties
<1>8. PICK found : found = Strip(all)
  OBVIOUS
<1>9. PICK k \in 0..Len(all) : found.text = Upto(all, k)
  BY <1>8, StripProp
<1>10. found.text \in Seq(Tokens)
  BY <1>9, CutAt
<1>11. found.calls \in Seq(Calls)
  BY <1>8, StripProp
<1>12. FlattenSeq(flushed) \in Seq(Tokens) /\ CallsOf(flushed) \in Seq(Calls)
  BY <1>4, FlattenType, CallsOfEach
<1>13. /\ buf' = Flush(buf).buf /\ heard' = heard \o whole /\ chunked' = pieces
       /\ sent' = sent \o SentEntries(answer) /\ streamed' = streamed
       /\ withheld' = withheld \o FlattenSeq(flushed)
  BY <1>3 DEF Finish
<1>14. heard' \in Seq(Tokens) /\ sent' \in Seq(SentEntry) /\ withheld' \in Seq(Tokens)
  BY <1>1, <1>2, <1>12, <1>13, SentEntriesProp, ConcatProperties
<1>15. shown' \in Seq(Tokens) /\ calls' \in Seq(Entry) /\ parsed' \in Seq(Calls)
  <2>1. CASE all # << >> /\ shown = << >> /\ answer = << >> /\ ~pieces
    <3>1. /\ shown' = found.text
          /\ calls' = RegisterParse(listed, found.calls)
          /\ parsed' = parsed \o CallsOf(flushed)
                         \o (IF content = << >> THEN found.calls ELSE << >>)
      BY <1>3, <1>5, <1>7, <1>8, <2>1 DEF Finish
    <3>2. calls' \in Seq(Entry)
      BY <1>6, <1>11, <3>1, RegisterParseKeeps
    <3>3. (IF content = << >> THEN found.calls ELSE << >>) \in Seq(Calls)
      BY <1>11, EmptySeq
    <3>4. parsed \o CallsOf(flushed) \in Seq(Calls)
      BY <1>2, <1>12, ConcatProperties
    <3>5. parsed' \in Seq(Calls)
      BY <3>1, <3>3, <3>4, ConcatProperties
    <3> QED BY <1>10, <3>1, <3>2, <3>5
  <2>2. CASE ~ (all # << >> /\ shown = << >> /\ answer = << >> /\ ~pieces)
    <3>1. /\ shown' = shown
          /\ calls' = listed
          /\ parsed' = parsed \o CallsOf(flushed)
      BY <1>3, <1>5, <1>7, <1>8, <2>2 DEF Finish
    <3>2. parsed \o CallsOf(flushed) \in Seq(Calls)
      BY <1>2, <1>12, ConcatProperties
    <3> QED BY <1>1, <1>6, <3>1, <3>2
  <2> QED BY <2>1, <2>2
<1> QED BY <1>4, <1>13, <1>14, <1>15

LEMMA ReturnTyped ==
  ASSUME Typed, NEW answer, Return(answer)
  PROVE  /\ content' \in Seq(Tokens) /\ events' \in Seq(Calls)
         /\ chunks' = chunks /\ reported' = reported /\ answered' = answered
<1>1. events \in Seq(Calls)
  BY DEF Typed
<1>2. content' = << >> /\ events' = events \o events
      /\ chunks' = chunks /\ reported' = reported /\ answered' = answered
  BY DEF Return, toolVars
<1> QED BY <1>1, <1>2, ConcatProperties, EmptySeq

LEMMA RunToolsTyped ==
  ASSUME Typed, RunTools
  PROVE  events' \in Seq(Calls) /\ reported' \in Seq(Calls) /\ answered' \in Seq(Calls)
<1>1. events \in Seq(Calls) /\ reported \in Seq(Calls) /\ answered \in Seq(Calls)
  BY DEF Typed
<1>2. KeptInOrder \in Seq(Calls)
  BY KeptTyped DEF Typed, GraphOK
<1>3. PICK raw \in Seq(Calls) : raw = events \o KeptInOrder
  BY <1>1, <1>2, ConcatProperties
<1>4. Unseen(raw) \in Seq(Calls)
  BY <1>1, AfterType DEF Unseen
<1>5. /\ answered' = answered \o KeptInOrder
      /\ events' = events \o raw
      /\ reported' = reported \o Unseen(raw)
  BY <1>3 DEF RunTools
<1> QED BY <1>1, <1>2, <1>4, <1>5, ConcatProperties

LEMMA TypeStep ==
  ASSUME Typed, GraphOK', [Next]_vars
  PROVE  Typed'
<1>0. /\ chunks \in 0..MaxChunks /\ content \in Seq(Tokens)
      /\ shown \in Seq(Tokens) /\ heard \in Seq(Tokens) /\ streamed \in Seq(Tokens)
      /\ withheld \in Seq(Tokens) /\ BufOK(buf) /\ calls \in Seq(Entry) /\ chunked \in BOOLEAN
      /\ parsed \in Seq(Calls) /\ sent \in Seq(SentEntry)
      /\ events \in Seq(Calls) /\ reported \in Seq(Calls) /\ answered \in Seq(Calls)
  BY DEF Typed
<1>1. CASE Chunk
  <2>1. UNCHANGED <<chunked, sent, events, reported, answered>> /\ chunks' = chunks + 1
        /\ chunks < MaxChunks
    BY <1>1 DEF Chunk, graphVars, toolVars
  <2>2. /\ content' \in Seq(Tokens) /\ heard' \in Seq(Tokens) /\ streamed' \in Seq(Tokens)
        /\ BufOK(buf') /\ shown' \in Seq(Tokens) /\ withheld' \in Seq(Tokens)
        /\ calls' \in Seq(Entry) /\ parsed' \in Seq(Calls)
    BY <1>1, ChunkTyped
  <2>3. chunks' \in 0..MaxChunks
    BY <1>0, <2>1, RunAssumption
  <2> QED BY <1>0, <2>1, <2>2, <2>3 DEF Typed
<1>2. CASE EndCall
  <2>1. PICK whole \in Wholes, answer \in Answers, pieces \in BOOLEAN :
          Finish(whole, answer, pieces) /\ Return(answer)
    BY <1>2 DEF EndCall
  <2>2. whole \in Seq(Tokens) /\ answer \in Seq(Calls)
    BY RunAssumption
  <2>3. /\ heard' \in Seq(Tokens) /\ shown' \in Seq(Tokens) /\ withheld' \in Seq(Tokens)
        /\ BufOK(buf') /\ calls' \in Seq(Entry) /\ chunked' \in BOOLEAN
        /\ parsed' \in Seq(Calls) /\ sent' \in Seq(SentEntry) /\ streamed' = streamed
    BY <2>1, <2>2, FinishTyped
  <2>4. /\ content' \in Seq(Tokens) /\ events' \in Seq(Calls)
        /\ chunks' = chunks /\ reported' = reported /\ answered' = answered
    BY <2>1, ReturnTyped
  <2> QED BY <1>0, <2>3, <2>4 DEF Typed
<1>3. CASE BreakCall
  <2>1. /\ content' \in Seq(Tokens) /\ events' \in Seq(Calls)
        /\ chunks' = chunks /\ reported' = reported /\ answered' = answered
    BY <1>3, ReturnTyped DEF BreakCall
  <2>2. UNCHANGED <<buf, shown, heard, streamed, withheld, calls, chunked, parsed, sent>>
    BY <1>3 DEF BreakCall, callVars
  <2> QED BY <1>0, <2>1, <2>2 DEF Typed
<1>4. CASE Fail \/ Route
  <2>1. UNCHANGED <<textVars, callVars, graphVars, toolVars>>
    BY <1>4 DEF Fail, Route
  <2> QED BY <1>0, <2>1 DEF Typed, textVars, callVars, graphVars, toolVars
<1>5. CASE RunTools
  <2>1. events' \in Seq(Calls) /\ reported' \in Seq(Calls) /\ answered' \in Seq(Calls)
    BY <1>5, RunToolsTyped
  <2>2. UNCHANGED <<textVars, callVars>>
    BY <1>5 DEF RunTools
  <2> QED BY <1>0, <2>1, <2>2 DEF Typed, textVars, callVars
<1>6. CASE Done \/ UNCHANGED vars
  <2>1. UNCHANGED <<textVars, callVars, graphVars, toolVars>>
    BY <1>6 DEF Done, vars
  <2> QED BY <1>0, <2>1 DEF Typed, textVars, callVars, graphVars, toolVars
<1> QED BY <1>1, <1>2, <1>3, <1>4, <1>5, <1>6 DEF Next

LEMMA TypeInit == Init => Typed
<1> SUFFICES ASSUME Init PROVE Typed
  OBVIOUS
<1>1. GraphOK
  BY RunAssumption DEF Init, GraphOK, Ends
<1>2. /\ << >> \in Seq(Tokens) /\ << >> \in Seq(Calls)
      /\ << >> \in Seq(Entry) /\ << >> \in Seq(SentEntry)
  BY EmptySeq
<1>3. BufOK(buf)
  BY IdleOK DEF Init
<1>4. chunks \in 0..MaxChunks
  BY RunAssumption DEF Init
<1> QED BY <1>1, <1>2, <1>3, <1>4 DEF Init, Typed

-----------------------------------------------------------------------------
(* The steps that change more than where the run is.                          *)

LEMMA StepKinds ==
  ASSUME [Next]_vars
  PROVE  Chunk \/ EndCall \/ BreakCall \/ RunTools
         \/ UNCHANGED <<textVars, callVars, graphVars, toolVars>>
  BY DEF Next, Fail, Route, Done, vars

LEMMA EndCallIs ==
  ASSUME EndCall
  PROVE  \E whole \in Wholes, answer \in Answers, pieces \in BOOLEAN :
           /\ whole \in Seq(Tokens) /\ answer \in Seq(Calls)
           /\ content # << >> => whole = << >>
           /\ Finish(whole, answer, pieces)
           /\ Return(answer)
<1>1. PICK whole \in Wholes, answer \in Answers, pieces \in BOOLEAN :
        (content # << >> => whole = << >>) /\ Finish(whole, answer, pieces) /\ Return(answer)
  BY DEF EndCall
<1>2. whole \in Seq(Tokens) /\ answer \in Seq(Calls)
  BY RunAssumption
<1> QED BY <1>1, <1>2

-----------------------------------------------------------------------------
(* Events.  As many were yielded as the channel has, or fewer: so what a round *)
(* adds is behind the number yielded.                                         *)

Told == Len(reported) <= Len(events) /\ NoneUnreported

LEMMA ToldStep ==
  ASSUME Typed, Told, [Next]_vars
  PROVE  Told'
<1>0. events \in Seq(Calls) /\ reported \in Seq(Calls) /\ answered \in Seq(Calls)
  BY DEF Typed
<1>1. CASE Chunk
  <2>1. UNCHANGED <<events, reported, answered>>
    BY <1>1 DEF Chunk, graphVars, toolVars
  <2> QED BY <2>1 DEF Told, NoneUnreported, Count
<1>2. ASSUME NEW answer, Return(answer) PROVE Told'
  <2>1. events' = events \o events /\ reported' = reported /\ answered' = answered
    BY <1>2 DEF Return, toolVars
  <2>2. Len(events') = Len(events) + Len(events)
    BY <1>0, <2>1, ConcatProperties
  <2>3. Len(reported') <= Len(events')
    BY <1>0, <2>1, <2>2 DEF Told
  <2>4. NoneUnreported'
    BY <2>1 DEF Told, NoneUnreported, Count
  <2> QED BY <2>3, <2>4 DEF Told
<1>3. CASE EndCall
  BY <1>2, <1>3 DEF EndCall
<1>4. CASE BreakCall
  BY <1>2, <1>4 DEF BreakCall
<1>5. CASE RunTools
  <2>1. PICK new \in Seq(Calls) : new = KeptInOrder
    BY KeptTyped DEF Typed, GraphOK
  <2>2. PICK raw \in Seq(Calls) : raw = events \o new
    BY <1>0, ConcatProperties
  <2>3. PICK n \in 0..Len(events) : n = Len(reported)
    BY <1>0 DEF Told
  <2>4. PICK old \in Seq(Calls) : old = After(events, n)
    BY <1>0, CutAt
  <2>5. After(raw, n) = old \o new
    BY <1>0, <2>2, <2>4, CutConcat
  <2>6. /\ answered' = answered \o new
        /\ events' = events \o raw
        /\ reported' = reported \o (old \o new)
    BY <1>5, <2>1, <2>2, <2>3, <2>5 DEF RunTools, Unseen
  <2>7. Len(reported') <= Len(events')
    <3>1. Len(old) = Len(events) - n
      BY <1>0, <2>4, CutAt
    <3>2. Len(old \o new) = Len(old) + Len(new) /\ old \o new \in Seq(Calls)
      BY ConcatProperties
    <3>3. Len(reported') = Len(reported) + Len(old \o new)
      BY <1>0, <2>6, <3>2, ConcatProperties
    <3>4. Len(raw) = Len(events) + Len(new)
      BY <1>0, <2>2, ConcatProperties
    <3>5. Len(events') = Len(events) + Len(raw)
      BY <1>0, <2>6, ConcatProperties
    <3>6. Len(reported) \in Nat /\ Len(events) \in Nat /\ Len(new) \in Nat
      BY <1>0
    <3> QED BY <2>3, <3>1, <3>2, <3>3, <3>4, <3>5, <3>6
  <2>8. ASSUME NEW c \in Calls PROVE Count(reported', c) >= Count(answered', c)
    <3>1. Count(reported, c) >= Count(answered, c)
      BY DEF Told, NoneUnreported
    <3>2. PICK all \in Seq(Calls) : all = old \o new
      BY ConcatProperties
    <3>3. Count(all, c) = Count(old, c) + Count(new, c)
      BY <3>2, CountConcat
    <3>4. reported' = reported \o all
      BY <2>6, <3>2
    <3>5. Count(reported', c) = Count(reported, c) + Count(all, c)
      BY <1>0, <3>4, CountConcat
    <3>6. Count(answered', c) = Count(answered, c) + Count(new, c)
      BY <1>0, <2>6, CountConcat
    <3>7. /\ Count(reported, c) \in Nat /\ Count(answered, c) \in Nat
          /\ Count(old, c) \in Nat /\ Count(new, c) \in Nat
      BY <1>0, CountNat
    <3> QED BY <3>1, <3>3, <3>5, <3>6, <3>7
  <2>9. NoneUnreported'
    BY <2>8 DEF NoneUnreported, Count
  <2> QED BY <2>7, <2>9 DEF Told
<1>6. CASE UNCHANGED <<textVars, callVars, graphVars, toolVars>>
  <2>1. UNCHANGED <<events, reported, answered>>
    BY <1>6 DEF graphVars, toolVars
  <2> QED BY <2>1 DEF Told, NoneUnreported, Count
<1> QED BY <1>1, <1>3, <1>4, <1>5, <1>6, StepKinds

LEMMA ToldInit == Init => Told
<1> SUFFICES ASSUME Init PROVE Told
  OBVIOUS
<1>1. reported = << >> /\ events = << >> /\ answered = << >>
  BY DEF Init
<1>2. \A c \in Calls : Count(<< >>, c) = 0
  BY CountEmpty
<1> QED BY <1>1, <1>2 DEF Told, NoneUnreported

-----------------------------------------------------------------------------
(* Structured calls.  An identifier that the dictionary has, and no parser made, *)
(* is that of a call sent; the numbers given are those of the calls.           *)

Known(es, all) ==
  \A i \in 1..Len(es) : es[i].id[1] # "raw" => \E n \in 1..Len(all) : es[i].id = all[n].id

Owned(es, e) ==
  \E i \in 1..Len(es) : es[i] = e /\ \A j \in 1..Len(es) : es[j].id = e.id => j = i

Placed(all) == \A n \in 1..Len(all), k \in Nat : all[n].id = <<"sent", k>> => k <= Len(all)

Numbered(es, all) ==
  Known(es, all) /\ Placed(all) /\ \A n \in Entitled(all) : Owned(es, all[n])

LEMMA NumberedSame ==
  ASSUME NEW es \in Seq(Entry), NEW fs \in Seq(Entry), NEW all \in Seq(SentEntry),
         Numbered(es, all), \A e \in SentEntry : AtEntry(fs, e) = AtEntry(es, e)
  PROVE  Numbered(fs, all)
<1>1. ASSUME NEW i \in 1..Len(fs), fs[i].id[1] # "raw"
      PROVE  i \in 1..Len(es) /\ es[i] = fs[i]
  <2>1. fs[i] \in SentEntry
    BY <1>1, ElementOfSeq, EntryIsSent
  <2>2. i \in AtEntry(fs, fs[i])
    BY DEF AtEntry
  <2>3. i \in AtEntry(es, fs[i])
    BY <2>1, <2>2
  <2> QED BY <2>3 DEF AtEntry
<1>2. Known(fs, all)
  BY <1>1 DEF Numbered, Known
<1>3. ASSUME NEW n \in Entitled(all) PROVE Owned(fs, all[n])
  <2>1. PICK e \in SentEntry : e = all[n]
    BY ElementOfSeq DEF Entitled
  <2>2. PICK i \in 1..Len(es) : es[i] = e /\ \A j \in 1..Len(es) : es[j].id = e.id => j = i
    BY <2>1 DEF Numbered, Owned
  <2>3. i \in AtEntry(es, e)
    BY <2>2 DEF AtEntry
  <2>4. i \in AtEntry(fs, e)
    BY <2>3
  <2>5. i \in 1..Len(fs) /\ fs[i] = e
    BY <2>4 DEF AtEntry
  <2>6. ASSUME NEW j \in 1..Len(fs), fs[j].id = e.id PROVE j = i
    <3>1. fs[j].id[1] # "raw"
      BY <2>6, SentIsEntry
    <3>2. j \in 1..Len(es) /\ es[j] = fs[j]
      BY <1>1, <3>1
    <3> QED BY <2>2, <2>6, <3>2
  <2> QED BY <2>1, <2>5, <2>6 DEF Owned
<1> QED BY <1>2, <1>3 DEF Numbered

(* One call more: it is added unless its identifier is there, and then another  *)
(* call of its generation has it.                                              *)
LEMMA NumberedNew ==
  ASSUME NEW es \in Seq(Entry), NEW all \in Seq(SentEntry), NEW x \in SentEntry,
         Numbered(es, all), Fits(x, Len(all) + 1)
  PROVE  RegisterNew(es, x) \in Seq(Entry) /\ Numbered(RegisterNew(es, x), Append(all, x))
<1>1. PICK m \in Nat : m = Len(all)
  OBVIOUS
<1>2. PICK w \in Nat : w = Len(es)
  OBVIOUS
<1>3. PICK more \in Seq(SentEntry) : more = Append(all, x)
  BY AppendProperties
<1>4. Len(more) = m + 1 /\ more[m + 1] = x /\ \A n \in 1..m : more[n] = all[n]
  BY <1>1, <1>3, AppendProperties
<1>5. x \in Entry /\ x.id[1] # "raw"
  BY SentIsEntry
<1>6. Placed(more)
  <2> SUFFICES ASSUME NEW n \in 1..m + 1, NEW k \in Nat, more[n].id = <<"sent", k>>
               PROVE  k <= m + 1
    BY <1>4 DEF Placed
  <2>1. CASE n \in 1..m
    <3>1. all[n].id = <<"sent", k>>
      BY <1>4, <2>1
    <3>2. k <= m
      BY <1>1, <2>1, <3>1 DEF Numbered, Placed
    <3> QED BY <3>2
  <2>2. CASE n = m + 1
    <3>1. x.id = <<"sent", k>>
      BY <1>4, <2>2
    <3>2. x.id[1] = "sent"
      BY <3>1
    <3>3. x.id = <<"sent", m + 1>>
      BY <1>1, <3>2 DEF Fits
    <3>4. <<"sent", k>> = <<"sent", m + 1>>
      BY <3>1, <3>3
    <3>5. k = m + 1
      BY <3>4
    <3> QED BY <3>5
  <2> QED BY <2>1, <2>2
<1>7. ASSUME NEW n \in Entitled(more), n # m + 1 PROVE n \in Entitled(all) /\ more[n] = all[n]
  <2>1. n \in 1..m
    BY <1>4, <1>7 DEF Entitled
  <2>2. \A i \in 1..n - 1 : i \in 1..m /\ more[i] = all[i]
    BY <1>4, <2>1
  <2>3. more[n] = all[n]
    BY <1>4, <2>1
  <2> QED BY <1>1, <2>1, <2>2, <2>3 DEF Entitled
<1>8. CASE \E i \in 1..Len(es) : es[i].id = x.id
  <2>1. RegisterNew(es, x) = es
    BY <1>8 DEF RegisterNew
  <2>2. PICK i \in 1..Len(es) : es[i].id = x.id
    BY <1>8
  <2>3. PICK k \in 1..m : x.id = all[k].id
    BY <1>1, <1>5, <2>2 DEF Numbered, Known
  <2>4. x.call \in Unnamed
    <3> SUFFICES ASSUME x.call \notin Unnamed PROVE FALSE
      OBVIOUS
    <3>1. all[k].id = <<"sent", m + 1>>
      BY <1>1, <2>3 DEF Fits
    <3>2. m + 1 <= m
      BY <1>1, <3>1 DEF Numbered, Placed
    <3> QED BY <3>2
  <2>5. m + 1 \notin Entitled(more)
    <3>1. more[k].id = more[m + 1].id /\ k \in 1..(m + 1) - 1
      BY <1>4, <2>3
    <3> QED BY <1>4, <2>4, <3>1 DEF Entitled
  <2>6. Known(es, more)
    <3> SUFFICES ASSUME NEW j \in 1..Len(es), es[j].id[1] # "raw"
                 PROVE  \E n \in 1..m + 1 : es[j].id = more[n].id
      BY <1>4 DEF Known
    <3>1. PICK n \in 1..m : es[j].id = all[n].id
      BY <1>1 DEF Numbered, Known
    <3> QED BY <1>4, <3>1
  <2>7. \A n \in Entitled(more) : Owned(es, more[n])
    BY <1>7, <2>5 DEF Numbered
  <2> QED BY <1>3, <1>6, <2>1, <2>6, <2>7 DEF Numbered
<1>9. CASE \A i \in 1..Len(es) : es[i].id # x.id
  <2>1. PICK fs \in Seq(Entry) : fs = Append(es, x)
    BY <1>5, AppendProperties
  <2>2. RegisterNew(es, x) = fs
    BY <1>9, <2>1 DEF RegisterNew
  <2>3. Len(fs) = w + 1 /\ fs[w + 1] = x /\ \A i \in 1..w : fs[i] = es[i]
    BY <1>2, <1>5, <2>1, AppendProperties
  <2>4. Known(fs, more)
    <3> SUFFICES ASSUME NEW j \in 1..w + 1, fs[j].id[1] # "raw"
                 PROVE  \E n \in 1..m + 1 : fs[j].id = more[n].id
      BY <1>4, <2>3 DEF Known
    <3>1. CASE j \in 1..w
      <4>1. es[j].id[1] # "raw" /\ fs[j] = es[j]
        BY <2>3, <3>1
      <4>2. PICK n \in 1..m : es[j].id = all[n].id
        BY <1>1, <1>2, <3>1, <4>1 DEF Numbered, Known
      <4> QED BY <1>4, <4>1, <4>2
    <3>2. CASE j = w + 1
      BY <1>4, <2>3, <3>2
    <3> QED BY <3>1, <3>2
  <2>5. Owned(fs, x)
    <3>1. ASSUME NEW j \in 1..w + 1, fs[j].id = x.id PROVE j = w + 1
      BY <1>2, <1>9, <2>3, <3>1
    <3>2. w + 1 \in 1..w + 1
      OBVIOUS
    <3> QED BY <2>3, <3>1, <3>2 DEF Owned
  <2>6. ASSUME NEW n \in Entitled(all) PROVE Owned(fs, all[n])
    <3>1. PICK i \in 1..w :
            es[i] = all[n] /\ \A j \in 1..w : es[j].id = all[n].id => j = i
      BY <1>2 DEF Numbered, Owned
    <3>2. i \in 1..w + 1 /\ fs[i] = all[n]
      BY <2>3, <3>1
    <3>3. ASSUME NEW j \in 1..w + 1, fs[j].id = all[n].id PROVE j = i
      <4>1. CASE j \in 1..w
        BY <2>3, <3>1, <3>3, <4>1
      <4>2. CASE j = w + 1
        <5>1. es[i].id = x.id
          BY <2>3, <3>1, <3>3, <4>2
        <5> QED BY <1>2, <1>9, <5>1
      <4> QED BY <4>1, <4>2
    <3> QED BY <2>3, <3>2, <3>3 DEF Owned
  <2>7. ASSUME NEW n \in Entitled(more) PROVE Owned(fs, more[n])
    <3>1. CASE n = m + 1
      BY <1>4, <2>5, <3>1
    <3>2. CASE n # m + 1
      BY <1>7, <2>6, <3>2
    <3> QED BY <3>1, <3>2
  <2> QED BY <1>3, <1>6, <2>1, <2>2, <2>4, <2>7 DEF Numbered
<1> QED BY <1>8, <1>9

LEMMA NumberedAnswer ==
  ASSUME sent \in Seq(SentEntry), NEW es \in Seq(Entry), NEW answer \in Seq(Calls),
         Numbered(es, sent)
  PROVE  RegisterAnswer(es, answer) \in Seq(Entry)
         /\ Numbered(RegisterAnswer(es, answer), sent \o SentEntries(answer))
<1>1. PICK all \in Seq(SentEntry) : all = SentEntries(answer)
  BY SentEntriesProp
<1>2. PICK m \in Nat : m = Len(sent)
  OBVIOUS
<1>3. /\ all \in Seq(Entry)
      /\ \A i \in 1..Len(all) : Fits(all[i], m + i)
  BY <1>1, <1>2, SentEntriesProp
<1>4. es \in Dicts
  BY DEF Dicts
<1> DEFINE P(n) == /\ Fold(RegisterNewF, es, Upto(all, n)) \in Seq(Entry)
                   /\ Numbered(Fold(RegisterNewF, es, Upto(all, n)), sent \o Upto(all, n))
           N == {n \in Nat : n <= Len(all) => P(n)}
<1>5. 0 \in N
  <2>1. Upto(all, 0) = << >>
    BY SubSeqEmpty DEF Upto
  <2>2. sent \o << >> = sent
    BY ConcatEmptySeq
  <2>3. Fold(RegisterNewF, es, << >>) = es
    BY FoldEmpty
  <2> QED BY <2>1, <2>2, <2>3
<1>6. ASSUME NEW n \in Nat, n \in N PROVE n + 1 \in N
  <2> SUFFICES ASSUME n + 1 <= Len(all) PROVE P(n + 1)
    OBVIOUS
  <2>1. P(n)
    BY <1>6
  <2>2. n \in 0..Len(all) /\ n + 1 \in 1..Len(all) /\ n + 1 \in 0..Len(all)
    OBVIOUS
  <2>3. PICK u \in Seq(SentEntry) : u = Upto(all, n)
    BY <2>2, CutAt
  <2>4. PICK x \in SentEntry : x = all[n + 1]
    BY <2>2, ElementOfSeq
  <2>5. Len(u) = n /\ \A k \in 1..n : u[k] = all[k]
    BY <2>2, <2>3, CutAt
  <2>6. Upto(all, n + 1) = Append(u, x)
    <3>1. PICK v \in Seq(SentEntry) : v = Upto(all, n + 1)
      BY <2>2, CutAt
    <3>2. Len(v) = n + 1 /\ \A k \in 1..n + 1 : v[k] = all[k]
      BY <2>2, <3>1, CutAt, ZenonT(40)
    <3>3. Len(v) = Len(u) + 1 /\ \A k \in 1..Len(u) : v[k] = u[k]
      BY <2>5, <3>2, SMTT(30)
    <3>4. v = Append(u, v[Len(v)])
      BY <3>3, MapAppend
    <3>5. Len(v) = n + 1 /\ v[n + 1] = x
      <4>1. n + 1 \in 1..n + 1
        OBVIOUS
      <4>2. v[n + 1] = all[n + 1]
        BY <3>2, <4>1
      <4> QED BY <2>4, <3>2, <4>2
    <3>6. v[Len(v)] = x
      BY <3>5
    <3> QED BY <3>1, <3>4, <3>6
  <2>7. u \in Seq(Entry) /\ x \in Entry
    BY SentIsEntry, SeqMonotonic
  <2>8. PICK d \in Seq(Entry) : d = Fold(RegisterNewF, es, u)
    BY <2>1, <2>3
  <2>9. PICK q \in Seq(SentEntry) : q = sent \o u
    BY ConcatProperties
  <2>10. Numbered(d, q)
    BY <2>1, <2>3, <2>8, <2>9
  <2>11. Len(q) = m + n
    BY <1>2, <2>5, <2>9, ConcatProperties
  <2>12. Fits(x, Len(q) + 1)
    <3>1. Fits(x, m + (n + 1))
      BY <1>3, <2>2, <2>4
    <3>2. m + (n + 1) = (m + n) + 1
      OBVIOUS
    <3> QED BY <2>11, <3>1, <3>2
  <2>13. RegisterNew(d, x) \in Seq(Entry) /\ Numbered(RegisterNew(d, x), Append(q, x))
    BY <2>10, <2>12, NumberedNew
  <2>14. Fold(RegisterNewF, es, Append(u, x)) = RegisterNewF[<<d, x>>]
    BY <1>4, <2>7, <2>8, RegisterNewOn, FoldProp
  <2>15. RegisterNewF[<<d, x>>] = RegisterNew(d, x)
    BY <2>7 DEF RegisterNewF
  <2>16. sent \o Append(u, x) = Append(q, x)
    BY <2>9, ConcatAppend
  <2> QED BY <2>6, <2>13, <2>14, <2>15, <2>16
<1>7. Len(all) \in N
  <2> HIDE DEF N
  <2>1. Nat \subseteq N
    BY <1>5, <1>6, NumberInduction
  <2> QED BY <2>1
<1>8. Upto(all, Len(all)) = all
  BY SubSeqFull DEF Upto
<1>9. RegisterAnswer(es, answer) = Fold(RegisterNewF, es, all)
  BY <1>1, <1>3, <1>4, RegisterAnswerFold
<1> QED BY <1>1, <1>7, <1>8, <1>9

LEMMA NumberedStep ==
  ASSUME Typed, Numbered(calls, sent), [Next]_vars
  PROVE  Numbered(calls', sent')
<1>0. calls \in Seq(Entry) /\ sent \in Seq(SentEntry) /\ BufOK(buf) /\ content \in Seq(Tokens)
  BY DEF Typed
<1>1. CASE Chunk
  <2>1. PICK chunk \in Chunks, out \in Outs : calls' = RegisterBlocks(calls, out.blocks)
    BY <1>1, ChunkTyped
  <2>2. sent' = sent
    BY <1>1 DEF Chunk
  <2>3. out.blocks \in Seq(Seq(Tokens))
    BY DEF Outs
  <2>4. /\ RegisterBlocks(calls, out.blocks) \in Seq(Entry)
        /\ \A e \in SentEntry :
             AtEntry(RegisterBlocks(calls, out.blocks), e) = AtEntry(calls, e)
    BY <1>0, <2>3, RegisterBlocksKeeps
  <2>5. Numbered(RegisterBlocks(calls, out.blocks), sent)
    BY <1>0, <2>4, NumberedSame
  <2> QED BY <2>1, <2>2, <2>5
<1>2. CASE EndCall
  <2>1. PICK whole \in Wholes, answer \in Answers, pieces \in BOOLEAN :
          /\ whole \in Seq(Tokens) /\ answer \in Seq(Calls)
          /\ Finish(whole, answer, pieces)
    BY <1>2, EndCallIs
  <2>2. PICK flushed \in Seq(Seq(Tokens)) : flushed = Flush(buf).blocks
    BY <1>0, FlushSound
  <2>3. PICK es \in Seq(Entry) : es = RegisterBlocks(calls, flushed)
    BY <1>0, RegisterBlocksKeeps
  <2>4. Numbered(es, sent)
    <3>1. \A e \in SentEntry : AtEntry(es, e) = AtEntry(calls, e)
      BY <1>0, <2>3, RegisterBlocksKeeps
    <3> QED BY <1>0, <3>1, NumberedSame
  <2>5. PICK listed : listed = RegisterAnswer(es, answer)
    OBVIOUS
  <2>6. PICK all \in Seq(SentEntry) : all = sent \o SentEntries(answer)
    BY <1>0, <2>1, SentEntriesProp, ConcatProperties
  <2>7. listed \in Seq(Entry) /\ Numbered(listed, all)
    BY <1>0, <2>1, <2>4, <2>5, <2>6, NumberedAnswer
  <2>9. sent' = all
    BY <2>1, <2>6 DEF Finish
  <2>10. calls' = listed \/ \E found \in Seq(Calls) : calls' = RegisterParse(listed, found)
    <3>1. content \o whole \in Seq(Tokens)
      BY <1>0, <2>1, ConcatProperties
    <3>2. PICK found \in Seq(Calls) : found = Strip(content \o whole).calls
      BY <3>1, StripProp
    <3>3. calls' = listed \/ calls' = RegisterParse(listed, found)
      BY <2>1, <2>2, <2>3, <2>5, <3>2 DEF Finish
    <3> QED BY <3>3
  <2>11. ASSUME NEW found \in Seq(Calls), calls' = RegisterParse(listed, found)
         PROVE  Numbered(calls', sent')
    <3>1. /\ RegisterParse(listed, found) \in Seq(Entry)
          /\ \A e \in SentEntry :
               AtEntry(RegisterParse(listed, found), e) = AtEntry(listed, e)
      BY <2>7, RegisterParseKeeps
    <3>2. Numbered(RegisterParse(listed, found), all)
      BY <2>7, <3>1, NumberedSame
    <3> QED BY <2>9, <2>11, <3>2
  <2> QED BY <2>7, <2>9, <2>10, <2>11
<1>3. CASE BreakCall
  <2>1. UNCHANGED <<calls, sent>>
    BY <1>3 DEF BreakCall, callVars
  <2> QED BY <2>1
<1>4. CASE RunTools
  <2>1. UNCHANGED <<calls, sent>>
    BY <1>4 DEF RunTools, callVars
  <2> QED BY <2>1
<1>5. CASE UNCHANGED <<textVars, callVars, graphVars, toolVars>>
  <2>1. UNCHANGED <<calls, sent>>
    BY <1>5 DEF callVars
  <2> QED BY <2>1
<1> QED BY <1>1, <1>2, <1>3, <1>4, <1>5, StepKinds

LEMMA NumberedInit == Init => Numbered(calls, sent)
<1> SUFFICES ASSUME Init PROVE Numbered(calls, sent)
  OBVIOUS
<1>1. calls = << >> /\ sent = << >>
  BY DEF Init
<1> QED BY <1>1 DEF Numbered, Known, Placed, Entitled

-----------------------------------------------------------------------------
(* Where the text goes.                                                      *)

LEMMA SumFeed ==
  ASSUME NEW a \in Nat, NEW b \in Nat, NEW c \in Nat, NEW d \in Nat,
         NEW x \in Nat, NEW y \in Nat, NEW z \in Nat, NEW e \in Nat,
         a + b + c >= d, x + y + z = c + e
  PROVE  (a + x) + (b + y) + z >= d + e
  OBVIOUS

LEMMA SumFinish ==
  ASSUME NEW a \in Nat, NEW b \in Nat, NEW c \in Nat, NEW d \in Nat, NEW e \in Nat,
         a + b + c >= d, e >= a
  PROVE  e + (b + c) + 0 >= d
  OBVIOUS

Texts == <<shown, withheld, buf, streamed>>

LEMMA AccountedTexts ==
  ASSUME UNCHANGED Texts, Accounted PROVE Accounted'
  BY DEF Texts, Accounted, Count

LEMMA AccountedChunk ==
  ASSUME Typed, Accounted, Chunk
  PROVE  Accounted'
<1>0. /\ shown \in Seq(Tokens) /\ streamed \in Seq(Tokens) /\ withheld \in Seq(Tokens)
      /\ BufOK(buf)
  BY DEF Typed
<1>1. PICK chunk \in Chunks, out \in Outs :
        /\ chunk \in Seq(Tokens)
        /\ Sound(out, buf.pending \o chunk)
        /\ streamed' = streamed \o chunk /\ buf' = out.buf
        /\ shown' = shown \o out.text
        /\ withheld' = withheld \o FlattenSeq(out.blocks)
  BY ChunkTyped
<1>2. PICK p \in Seq(Tokens) : p = buf.pending
  BY <1>0 DEF BufOK, Bufs
<1>3. PICK q \in Seq(Tokens) : q = out.buf.pending
  BY DEF Outs, Bufs
<1>4. PICK x \in Seq(Tokens) : x = out.text
  BY DEF Outs
<1>5. PICK y \in Seq(Tokens) : y = FlattenSeq(out.blocks)
  BY FlattenType DEF Outs
<1>6. ASSUME NEW t \in Tokens
      PROVE  Count(shown', t) + Count(withheld', t) + Count(buf'.pending, t) >= Count(streamed', t)
  <2>1. Count(x, t) + Count(y, t) + Count(q, t) = Count(p \o chunk, t)
    BY <1>1, <1>2, <1>3, <1>4, <1>5 DEF Sound, Adds
  <2>2. Count(p \o chunk, t) = Count(p, t) + Count(chunk, t)
    BY <1>1, CountConcat
  <2>3. Count(shown', t) = Count(shown, t) + Count(x, t)
    BY <1>0, <1>1, <1>4, CountConcat
  <2>4. Count(withheld', t) = Count(withheld, t) + Count(y, t)
    BY <1>0, <1>1, <1>5, CountConcat
  <2>5. Count(streamed', t) = Count(streamed, t) + Count(chunk, t)
    BY <1>0, <1>1, CountConcat
  <2>6. Count(buf'.pending, t) = Count(q, t)
    BY <1>1, <1>3
  <2>7. Count(shown, t) + Count(withheld, t) + Count(p, t) >= Count(streamed, t)
    BY <1>2 DEF Accounted
  <2>8. /\ Count(shown, t) \in Nat /\ Count(withheld, t) \in Nat /\ Count(p, t) \in Nat
        /\ Count(streamed, t) \in Nat /\ Count(x, t) \in Nat /\ Count(y, t) \in Nat
        /\ Count(q, t) \in Nat /\ Count(chunk, t) \in Nat
    BY <1>0, <1>1, CountNat
  <2>9. (Count(shown, t) + Count(x, t)) + (Count(withheld, t) + Count(y, t)) + Count(q, t)
          >= Count(streamed, t) + Count(chunk, t)
    <3>1. Count(x, t) + Count(y, t) + Count(q, t) = Count(p, t) + Count(chunk, t)
      BY <2>1, <2>2
    <3> QED BY <2>7, <2>8, <3>1, SumFeed
  <2> QED BY <2>3, <2>4, <2>5, <2>6, <2>9
<1> QED BY <1>6 DEF Accounted, Count

(* What Finish adds, in the two cases.                                         *)
LEMMA FinishTexts ==
  ASSUME Typed, NEW whole \in Seq(Tokens), NEW answer \in Seq(Calls), NEW pieces \in BOOLEAN,
         Finish(whole, answer, pieces), content # << >> => whole = << >>
  PROVE  /\ heard' = heard \o whole /\ buf'.pending = << >> /\ ~ buf'.on
         /\ FlattenSeq(Flush(buf).blocks) = buf.pending
         /\ withheld' = withheld \o buf.pending /\ streamed' = streamed
         /\ \/ /\ shown' = shown
               /\ parsed' = parsed \o CallsOf(Flush(buf).blocks)
            \/ /\ shown = << >> /\ content = << >>
               /\ shown' = Strip(whole).text
               /\ parsed' = (parsed \o CallsOf(Flush(buf).blocks)) \o Strip(whole).calls
            \/ /\ shown = << >> /\ content # << >> /\ whole = << >>
               /\ shown' = Strip(content).text
               /\ parsed' = parsed \o CallsOf(Flush(buf).blocks)
<1>0. /\ content \in Seq(Tokens) /\ withheld \in Seq(Tokens) /\ BufOK(buf) /\ parsed \in Seq(Calls)
  BY DEF Typed
<1>1. PICK flushed : flushed = Flush(buf).blocks
  OBVIOUS
<1>2. flushed \in Seq(Seq(Tokens)) /\ FlattenSeq(flushed) = buf.pending
      /\ Flush(buf).buf.pending = << >> /\ ~ Flush(buf).buf.on
  BY <1>0, <1>1, FlushSound
<1>3. PICK all \in Seq(Tokens) : all = content \o whole
  BY <1>0, ConcatProperties
<1>4. PICK found : found = Strip(all)
  OBVIOUS
<1>5. /\ heard' = heard \o whole /\ buf'.pending = << >> /\ ~ buf'.on
      /\ withheld' = withheld \o buf.pending /\ streamed' = streamed
  BY <1>1, <1>2 DEF Finish
<1>6. CASE all # << >> /\ shown = << >> /\ answer = << >> /\ ~pieces
  <2>1. /\ shown' = found.text
        /\ parsed' = parsed \o CallsOf(flushed)
                       \o (IF content = << >> THEN found.calls ELSE << >>)
    BY <1>1, <1>3, <1>4, <1>6 DEF Finish
  <2>2. CASE content = << >>
    <3>1. all = whole
      BY <1>3, <2>2, ConcatEmptySeq
    <3>2. parsed' = (parsed \o CallsOf(flushed)) \o found.calls
      BY <2>1, <2>2
    <3> QED BY <1>1, <1>2, <1>4, <1>5, <1>6, <2>1, <2>2, <3>1, <3>2
  <2>3. CASE content # << >>
    <3>1. whole = << >> /\ all = content
      BY <1>0, <1>3, <2>3, ConcatEmptySeq
    <3>2. PICK u \in Seq(Calls) : u = parsed \o CallsOf(flushed)
      BY <1>0, <1>2, CallsOfEach, ConcatProperties
    <3>3. parsed' = u
      <4>1. parsed' = u \o << >>
        BY <2>1, <2>3, <3>2
      <4> QED BY <4>1, ConcatEmptySeq
    <3> QED BY <1>1, <1>2, <1>4, <1>5, <1>6, <2>1, <2>3, <3>1, <3>2, <3>3
  <2> QED BY <2>2, <2>3
<1>7. CASE ~ (all # << >> /\ shown = << >> /\ answer = << >> /\ ~pieces)
  <2>1. /\ shown' = shown
        /\ parsed' = parsed \o CallsOf(flushed)
    BY <1>1, <1>3, <1>4, <1>7 DEF Finish
  <2> QED BY <1>1, <1>2, <1>5, <2>1
<1> QED BY <1>6, <1>7

LEMMA AccountedFinish ==
  ASSUME Typed, Accounted, NEW whole \in Seq(Tokens), NEW answer \in Seq(Calls),
         NEW pieces \in BOOLEAN, Finish(whole, answer, pieces), content # << >> => whole = << >>
  PROVE  Accounted'
<1>0. /\ shown \in Seq(Tokens) /\ streamed \in Seq(Tokens) /\ withheld \in Seq(Tokens)
      /\ BufOK(buf)
  BY DEF Typed
<1>1. PICK p \in Seq(Tokens) : p = buf.pending
  BY <1>0 DEF BufOK, Bufs
<1>2. withheld' = withheld \o p /\ buf'.pending = << >> /\ streamed' = streamed
  BY <1>1, FinishTexts
<1>3. shown' \in Seq(Tokens) /\ (shown' = shown \/ shown = << >>)
  BY FinishTyped, FinishTexts
<1>4. ASSUME NEW t \in Tokens
      PROVE  Count(shown', t) + Count(withheld', t) + Count(buf'.pending, t) >= Count(streamed', t)
  <2>1. Count(buf'.pending, t) = 0 /\ Count(<< >>, t) = 0
    BY <1>2, CountEmpty
  <2>2. Count(withheld', t) = Count(withheld, t) + Count(p, t)
    BY <1>0, <1>2, CountConcat
  <2>3. Count(shown, t) + Count(withheld, t) + Count(p, t) >= Count(streamed, t)
    BY <1>1 DEF Accounted
  <2>4. /\ Count(shown, t) \in Nat /\ Count(shown', t) \in Nat /\ Count(withheld, t) \in Nat
        /\ Count(p, t) \in Nat /\ Count(streamed, t) \in Nat
    BY <1>0, <1>3, CountNat
  <2>5. Count(shown', t) >= Count(shown, t)
    <3>1. CASE shown' = shown
      <4>1. Count(shown', t) = Count(shown, t)
        BY <3>1
      <4> QED BY <2>4, <4>1
    <3>2. CASE shown = << >>
      <4>1. Count(shown, t) = 0
        BY <2>1, <3>2
      <4> QED BY <2>4, <4>1
    <3> QED BY <1>3, <3>1, <3>2
  <2>6. Count(shown', t) + (Count(withheld, t) + Count(p, t)) + 0 >= Count(streamed, t)
    BY <2>3, <2>4, <2>5, SumFinish
  <2>7. Count(streamed', t) = Count(streamed, t)
    BY <1>2
  <2> QED BY <2>1, <2>2, <2>6, <2>7
<1> QED BY <1>4 DEF Accounted, Count

LEMMA AccountedStep ==
  ASSUME Typed, Accounted, [Next]_vars
  PROVE  Accounted'
<1>1. CASE Chunk
  BY <1>1, AccountedChunk
<1>2. CASE EndCall
  <2>1. PICK whole \in Wholes, answer \in Answers, pieces \in BOOLEAN :
           /\ whole \in Seq(Tokens) /\ answer \in Seq(Calls)
           /\ content # << >> => whole = << >>
           /\ Finish(whole, answer, pieces)
    BY <1>2, EndCallIs
  <2> QED BY <2>1, AccountedFinish
<1>3. CASE BreakCall
  BY <1>3, AccountedTexts DEF BreakCall, Texts
<1>4. CASE RunTools \/ UNCHANGED <<textVars, callVars, graphVars, toolVars>>
  BY <1>4, AccountedTexts DEF RunTools, Texts, textVars
<1> QED BY <1>1, <1>2, <1>3, <1>4, StepKinds

LEMMA AccountedInit == Init => Accounted
<1> SUFFICES ASSUME Init PROVE Accounted
  OBVIOUS
<1>1. shown = << >> /\ withheld = << >> /\ streamed = << >> /\ buf.pending = << >>
  BY IdleOK DEF Init
<1>2. \A t \in Tokens : Count(<< >>, t) = 0
  BY CountEmpty
<1> QED BY <1>1, <1>2 DEF Accounted

-----------------------------------------------------------------------------
(* XML, cut piece by piece.                                                  *)

LEMMA XmlStepCases ==
  ASSUME NEW out \in Outs, NEW t \in Tokens
  PROVE  /\ out.buf.on /\ t = "</call>" =>
              XmlStep(out, t) = Output(Idle, out.text, Append(out.blocks, Append(out.buf.pending, t)))
         /\ out.buf.on /\ t # "</call>" =>
              XmlStep(out, t) = Output([on |-> TRUE, mode |-> out.buf.mode,
                                        pending |-> Append(out.buf.pending, t)], out.text, out.blocks)
         /\ ~ out.buf.on /\ t = "<call>" =>
              XmlStep(out, t) = Output([on |-> TRUE, mode |-> "xml", pending |-> <<t>>], out.text, out.blocks)
         /\ ~ out.buf.on /\ t # "<call>" =>
              XmlStep(out, t) = Output(out.buf, Append(out.text, t), out.blocks)
<1>1. out = [buf |-> out.buf, text |-> out.text, blocks |-> out.blocks]
  BY DEF Outs
<1>2. out.buf = [on |-> out.buf.on, mode |-> out.buf.mode, pending |-> out.buf.pending]
      /\ out.buf.on \in BOOLEAN
  BY DEF Outs, Bufs
<1>3. CASE out.buf.on /\ t = "</call>"
  BY <1>3 DEF XmlStep
<1>4. CASE out.buf.on /\ t # "</call>"
  <2>0. PICK h : h = Append(out.buf.pending, t)
    OBVIOUS
  <2>1. XmlStep(out, t) = [out EXCEPT !.buf.pending = h]
    BY <1>4, <2>0 DEF XmlStep
  <2>2. XmlStep(out, t) = [buf |-> [out.buf EXCEPT !.pending = h],
                           text |-> out.text, blocks |-> out.blocks]
    BY <2>1 DEF Outs
  <2>3. [out.buf EXCEPT !.pending = h] = [on |-> out.buf.on, mode |-> out.buf.mode, pending |-> h]
    BY SMTT(30) DEF Outs, Bufs
  <2>4. out.buf.on = TRUE
    BY <1>2, <1>4
  <2> QED BY <1>4, <2>0, <2>2, <2>3, <2>4 DEF Output
<1>5. CASE ~ out.buf.on /\ t = "<call>"
  BY <1>1, <1>5 DEF XmlStep, Output
<1>6. CASE ~ out.buf.on /\ t # "<call>"
  BY <1>1, <1>6 DEF XmlStep, Output
<1> QED BY <1>2, <1>3, <1>4, <1>5, <1>6

(* What a buffer has let out before does not change what it lets out next.    *)
LEMMA XmlStepAfter ==
  ASSUME NEW o \in Outs, NEW x \in Seq(Tokens), NEW y \in Seq(Seq(Tokens)), NEW t \in Tokens
  PROVE  XmlStep(Output(o.buf, x \o o.text, y \o o.blocks), t)
           = Output(XmlStep(o, t).buf, x \o XmlStep(o, t).text, y \o XmlStep(o, t).blocks)
<1>0. o.buf \in Bufs /\ o.text \in Seq(Tokens) /\ o.blocks \in Seq(Seq(Tokens))
      /\ o.buf.pending \in Seq(Tokens) /\ o.buf.on \in BOOLEAN
  BY DEF Outs, Bufs
<1>10. PICK ot \in Seq(Tokens) : ot = o.text
  BY <1>0
<1>11. PICK ob \in Seq(Seq(Tokens)) : ob = o.blocks
  BY <1>0
<1>1. PICK v \in Seq(Tokens) : v = x \o ot
  BY ConcatProperties
<1>2. PICK w \in Seq(Seq(Tokens)) : w = y \o ob
  BY ConcatProperties
<1>3. PICK out : out = Output(o.buf, v, w)
  OBVIOUS
<1>4. out \in Outs /\ out.buf = o.buf /\ out.text = v /\ out.blocks = w
  BY <1>0, <1>3, OutputFields
<1>5. PICK n : n = XmlStep(o, t)
  OBVIOUS
<1>6. CASE o.buf.on /\ t = "</call>"
  <2>1. PICK h \in Seq(Tokens) : h = Append(o.buf.pending, t)
    BY <1>0, AppendProperties
  <2>6. PICK ah : ah = Append(ob, h)
    OBVIOUS
  <2>2. n = Output(Idle, ot, ah)
    BY <1>5, <1>6, <1>10, <1>11, <2>1, <2>6, XmlStepCases
  <2>3. XmlStep(out, t) = Output(Idle, v, Append(w, h))
    BY <1>4, <1>6, <2>1, XmlStepCases
  <2>4. y \o ah = Append(w, h)
    <3>1. y \o Append(ob, h) = Append(y \o ob, h)
      BY ConcatAppend, SMTT(30)
    <3> QED BY <1>2, <2>6, <3>1
  <2>5. n.buf = Idle /\ n.text = ot /\ n.blocks = ah
    BY <2>2, OutputFields
  <2> QED BY <1>1, <1>3, <1>5, <1>10, <1>11, <1>2, <2>3, <2>4, <2>5
<1>7. CASE o.buf.on /\ t # "</call>"
  <2>1. PICK b : b = [on |-> TRUE, mode |-> o.buf.mode, pending |-> Append(o.buf.pending, t)]
    OBVIOUS
  <2>2. n = Output(b, o.text, o.blocks)
    BY <1>5, <1>7, <2>1, XmlStepCases
  <2>3. XmlStep(out, t) = Output(b, v, w)
    BY <1>4, <1>7, <2>1, XmlStepCases
  <2>4. n.buf = b /\ n.text = o.text /\ n.blocks = o.blocks
    BY <2>2, OutputFields
  <2> QED BY <1>1, <1>2, <1>3, <1>5, <1>10, <1>11, <2>3, <2>4
<1>8. CASE ~ o.buf.on /\ t = "<call>"
  <2>1. PICK b : b = [on |-> TRUE, mode |-> "xml", pending |-> <<t>>]
    OBVIOUS
  <2>2. n = Output(b, o.text, o.blocks)
    BY <1>5, <1>8, <2>1, XmlStepCases
  <2>3. XmlStep(out, t) = Output(b, v, w)
    BY <1>4, <1>8, <2>1, XmlStepCases
  <2>4. n.buf = b /\ n.text = o.text /\ n.blocks = o.blocks
    BY <2>2, OutputFields
  <2> QED BY <1>1, <1>2, <1>3, <1>5, <1>10, <1>11, <2>3, <2>4
<1>9. CASE ~ o.buf.on /\ t # "<call>"
  <2>5. PICK ah : ah = Append(ot, t)
    OBVIOUS
  <2>1. n = Output(o.buf, ah, ob)
    BY <1>5, <1>9, <1>10, <1>11, <2>5, XmlStepCases
  <2>2. XmlStep(out, t) = Output(o.buf, Append(v, t), w)
    BY <1>4, <1>9, XmlStepCases
  <2>3. x \o ah = Append(v, t)
    <3>1. x \o Append(ot, t) = Append(x \o ot, t)
      BY ConcatAppend, SMTT(30)
    <3> QED BY <1>1, <2>5, <3>1
  <2>4. n.buf = o.buf /\ n.text = ah /\ n.blocks = ob
    BY <2>1, OutputFields
  <2> QED BY <1>1, <1>2, <1>3, <1>5, <1>10, <1>11, <2>2, <2>3, <2>4
<1> QED BY <1>0, <1>6, <1>7, <1>8, <1>9

(* A block that is closed, or not yet: cut alone it is what it was.            *)
Whole(b) == b # << >> /\ b[1] = "<call>" /\ CutXml(b) = Output(Idle, << >>, <<b>>)
Open(b) ==
  /\ CutXml(b.pending) = Output(b, << >>, << >>)
  /\ b.on => b.mode = "xml" /\ b.pending[1] = "<call>"

XmlWhole(out) == Open(out.buf) /\ \A i \in 1..Len(out.blocks) : Whole(out.blocks[i])

LEMMA XmlStepWhole ==
  ASSUME NEW out \in Outs, BufOK(out.buf), XmlWhole(out), NEW t \in Tokens
  PROVE  XmlWhole(XmlStep(out, t))
<1>0. /\ out.buf \in Bufs /\ out.buf.pending \in Seq(Tokens) /\ out.buf.on \in BOOLEAN
      /\ out.text \in Seq(Tokens) /\ out.blocks \in Seq(Seq(Tokens))
  BY DEF Outs, Bufs
<1>1. PICK p \in Seq(Tokens) : p = out.buf.pending
  BY <1>0
<1>2. PICK n : n = XmlStep(out, t)
  OBVIOUS
<1>3. PICK q \in Seq(Tokens) : q = Append(p, t)
  BY AppendProperties
<1>4. CutXml(q) = XmlStep(CutXml(p), t)
  BY <1>3, CutXmlProp
<1>5. CutXml(p) = Output(out.buf, << >>, << >>)
  BY <1>1 DEF XmlWhole, Open
<1>6. PICK o : o = CutXml(p)
  OBVIOUS
<1>7. o \in Outs /\ o.buf = out.buf /\ o.text = << >> /\ o.blocks = << >>
  BY <1>5, <1>6, CutXmlProp, OutputFields
<1>8. out.buf.on => q # << >> /\ q[1] = "<call>"
  <2> SUFFICES ASSUME out.buf.on PROVE q # << >> /\ q[1] = "<call>"
    OBVIOUS
  <2>1. p # << >> /\ p[1] = "<call>"
    BY <1>1 DEF XmlWhole, Open, BufOK
  <2>2. Len(p) \in Nat /\ Len(p) # 0
    BY <2>1, EmptySeq
  <2>3. Len(q) = Len(p) + 1 /\ \A i \in 1..Len(p) : q[i] = p[i]
    BY <1>3, AppendProperties
  <2>4. q[1] = p[1] /\ Len(q) # 0
    BY <2>2, <2>3
  <2> QED BY <2>1, <2>4, EmptySeq
<1>9. CASE out.buf.on /\ t = "</call>"
  <2>8. PICK ah : ah = Append(out.blocks, q)
    OBVIOUS
  <2>1. n = Output(Idle, out.text, ah)
    BY <1>1, <1>2, <1>3, <1>9, <2>8, XmlStepCases
  <2>2. n.buf = Idle /\ n.blocks = Append(out.blocks, q)
    <3>1. n.buf = Idle /\ n.blocks = ah
      BY <2>1, OutputFields
    <3> QED BY <2>8, <3>1
  <2>3. CutXml(q) = Output(Idle, << >>, Append(<< >>, q))
    <3>1. XmlStep(o, t) = Output(Idle, o.text, Append(o.blocks, Append(o.buf.pending, t)))
      BY <1>7, <1>9, XmlStepCases
    <3> QED BY <1>1, <1>3, <1>4, <1>6, <1>7, <3>1
  <2>4. Append(<< >>, q) = <<q>>
    OBVIOUS
  <2>5. Whole(q)
    BY <1>8, <1>9, <2>3, <2>4 DEF Whole
  <2>6. Open(Idle)
    <3>1. Idle.on = FALSE /\ Idle.pending = << >>
      BY DEF Idle
    <3> QED BY <3>1, CutXmlProp DEF Open, Start
  <2>7. ASSUME NEW i \in 1..Len(Append(out.blocks, q)) PROVE Whole(Append(out.blocks, q)[i])
    <3>1. /\ Len(Append(out.blocks, q)) = Len(out.blocks) + 1
          /\ Append(out.blocks, q)[Len(out.blocks) + 1] = q
          /\ \A k \in 1..Len(out.blocks) : Append(out.blocks, q)[k] = out.blocks[k]
      BY <1>0, AppendProperties
    <3>2. \A k \in 1..Len(out.blocks) : Whole(out.blocks[k])
      BY DEF XmlWhole
    <3>3. CASE i = Len(out.blocks) + 1
      BY <2>5, <3>1, <3>3
    <3>4. CASE i # Len(out.blocks) + 1
      <4>1. i \in 1..Len(out.blocks)
        BY <1>0, <3>1, <3>4
      <4>2. Append(out.blocks, q)[i] = out.blocks[i] /\ Whole(out.blocks[i])
        BY <3>1, <3>2, <4>1
      <4> QED BY <4>2
    <3> QED BY <3>3, <3>4
  <2> QED BY <1>2, <2>2, <2>6, <2>7 DEF XmlWhole
<1>10. CASE out.buf.on /\ t # "</call>"
  <2>1. PICK b : b = [on |-> TRUE, mode |-> out.buf.mode, pending |-> q]
    OBVIOUS
  <2>2. n.buf = b /\ n.blocks = out.blocks
    <3>1. n = Output(b, out.text, out.blocks)
      BY <1>1, <1>2, <1>3, <1>10, <2>1, XmlStepCases
    <3> QED BY <3>1, OutputFields
  <2>3. CutXml(q) = Output(b, << >>, << >>)
    <3>1. XmlStep(o, t) = Output([on |-> TRUE, mode |-> o.buf.mode, pending |-> Append(o.buf.pending, t)],
                                 o.text, o.blocks)
      BY <1>7, <1>10, XmlStepCases
    <3> QED BY <1>1, <1>3, <1>4, <1>6, <1>7, <2>1, <3>1
  <2>4. b.pending = q /\ b.on /\ b.mode = "xml"
    BY <1>10, <2>1 DEF XmlWhole, Open
  <2>5. Open(b)
    BY <1>8, <1>10, <2>3, <2>4 DEF Open
  <2> QED BY <1>2, <2>2, <2>5 DEF XmlWhole
<1>11. CASE ~ out.buf.on /\ t = "<call>"
  <2>1. PICK b : b = [on |-> TRUE, mode |-> "xml", pending |-> <<t>>]
    OBVIOUS
  <2>2. n.buf = b /\ n.blocks = out.blocks
    <3>1. n = Output(b, out.text, out.blocks)
      BY <1>2, <1>11, <2>1, XmlStepCases
    <3> QED BY <3>1, OutputFields
  <2>3. p = << >> /\ q = <<t>>
    <3>1. p = << >>
      BY <1>1, <1>11 DEF BufOK
    <3>2. Append(<< >>, t) = <<t>>
      OBVIOUS
    <3> QED BY <1>3, <3>1, <3>2
  <2>4. CutXml(q) = Output(b, << >>, << >>)
    BY <1>4, <1>6, <1>7, <1>11, <2>1, XmlStepCases
  <2>5. b.pending = q /\ b.on /\ b.mode = "xml" /\ q[1] = "<call>"
    BY <1>11, <2>1, <2>3
  <2>6. Open(b)
    BY <2>4, <2>5 DEF Open
  <2> QED BY <1>2, <2>2, <2>6 DEF XmlWhole
<1>12. CASE ~ out.buf.on /\ t # "<call>"
  <2>1. n = Output(out.buf, Append(out.text, t), out.blocks)
    BY <1>2, <1>12, XmlStepCases
  <2>2. n.buf = out.buf /\ n.blocks = out.blocks
    BY <2>1, OutputFields
  <2> QED BY <1>2, <2>2 DEF XmlWhole
<1> QED BY <1>0, <1>9, <1>10, <1>11, <1>12

LEMMA CutXmlWhole == \A s \in Seq(Tokens) : XmlWhole(CutXml(s))
<1> DEFINE N == {s \in Seq(Tokens) : XmlWhole(CutXml(s))}
<1>1. << >> \in N
  <2>1. CutXml(<< >>) = Output(Idle, << >>, << >>)
    BY CutXmlProp DEF Start
  <2>2. PICK o : o = CutXml(<< >>)
    OBVIOUS
  <2>3. o.buf = Idle /\ o.blocks = << >>
    BY <2>1, <2>2, OutputFields
  <2>4. Idle.on = FALSE /\ Idle.pending = << >>
    BY DEF Idle
  <2>5. Open(Idle)
    BY <2>1, <2>4 DEF Open
  <2>6. XmlWhole(o)
    BY <2>3, <2>5 DEF XmlWhole
  <2> QED BY <2>2, <2>6, EmptySeq
<1>2. ASSUME NEW s \in Seq(Tokens), NEW t \in Tokens, s \in N PROVE Append(s, t) \in N
  <2>1. XmlWhole(CutXml(s))
    BY <1>2
  <2>2. CutXml(s) \in Outs /\ BufOK(CutXml(s).buf)
    BY CutXmlSound DEF Sound
  <2>3. CutXml(Append(s, t)) = XmlStep(CutXml(s), t)
    BY CutXmlProp
  <2>4. XmlWhole(CutXml(Append(s, t)))
    BY <2>1, <2>2, <2>3, XmlStepWhole
  <2> QED BY <2>4, AppendProperties
<1>3. Seq(Tokens) \subseteq N
  <2> HIDE DEF N
  <2> QED BY <1>1, <1>2, SeqInduction
<1> QED BY <1>3

(* Text that is fed piece by piece is cut as if it came whole.                *)
LEMMA CutXmlConcat ==
  ASSUME NEW s \in Seq(Tokens)
  PROVE  \A r \in Seq(Tokens) :
           LET o == CutXml(CutXml(s).buf.pending \o r) IN
           CutXml(s \o r) = Output(o.buf, CutXml(s).text \o o.text, CutXml(s).blocks \o o.blocks)
<1>1. PICK a \in Outs : a = CutXml(s)
  BY CutXmlProp
<1>2. PICK p \in Seq(Tokens) : p = a.buf.pending
  BY DEF Outs, Bufs
<1>3. PICK x \in Seq(Tokens) : x = a.text
  BY DEF Outs
<1>4. PICK y \in Seq(Seq(Tokens)) : y = a.blocks
  BY DEF Outs
<1> DEFINE N == {r \in Seq(Tokens) : CutXml(s \o r) = Output(CutXml(p \o r).buf,
                                       x \o CutXml(p \o r).text, y \o CutXml(p \o r).blocks)}
<1>5. << >> \in N
  <2>1. CutXml(p) = Output(a.buf, << >>, << >>)
    BY <1>1, <1>2, CutXmlWhole DEF XmlWhole, Open
  <2>2. PICK o : o = CutXml(p)
    OBVIOUS
  <2>3. o.buf = a.buf /\ o.text = << >> /\ o.blocks = << >>
    BY <2>1, <2>2, OutputFields
  <2>4. p \o << >> = p /\ s \o << >> = s /\ x \o << >> = x /\ y \o << >> = y
    BY ConcatEmptySeq
  <2>5. a = Output(a.buf, x, y)
    BY <1>3, <1>4 DEF Outs, Output
  <2>6. CutXml(s) = Output(o.buf, x \o o.text, y \o o.blocks)
    BY <1>1, <2>3, <2>4, <2>5
  <2> QED BY <2>2, <2>4, <2>6, EmptySeq
<1>6. ASSUME NEW r \in Seq(Tokens), NEW t \in Tokens, r \in N PROVE Append(r, t) \in N
  <2>1. PICK u \in Seq(Tokens) : u = s \o r
    BY ConcatProperties
  <2>2. PICK v \in Seq(Tokens) : v = p \o r
    BY ConcatProperties
  <2>3. s \o Append(r, t) = Append(u, t) /\ p \o Append(r, t) = Append(v, t)
    BY <2>1, <2>2, ConcatAppend, SMTT(30)
  <2>4. PICK o \in Outs : o = CutXml(v)
    BY CutXmlProp
  <2>5. CutXml(u) = Output(o.buf, x \o o.text, y \o o.blocks)
    BY <1>6, <2>1, <2>2, <2>4
  <2>6. CutXml(Append(u, t)) = XmlStep(CutXml(u), t) /\ CutXml(Append(v, t)) = XmlStep(o, t)
    BY <2>4, CutXmlProp
  <2>7. XmlStep(Output(o.buf, x \o o.text, y \o o.blocks), t)
          = Output(XmlStep(o, t).buf, x \o XmlStep(o, t).text, y \o XmlStep(o, t).blocks)
    BY XmlStepAfter
  <2> QED BY <2>3, <2>5, <2>6, <2>7, AppendProperties
<1>7. Seq(Tokens) \subseteq N
  <2> HIDE DEF N
  <2> QED BY <1>5, <1>6, SeqInduction
<1> QED BY <1>1, <1>2, <1>3, <1>4, <1>7

LEMMA HasAt ==
  ASSUME NEW T, NEW s \in Seq(T), NEW t
  PROVE  Has(s, t) <=> \E i \in 1..Len(s) : s[i] = t
<1>1. First(s, t) \in 0..Len(s)
      /\ (First(s, t) # 0 => s[First(s, t)] = t)
      /\ \A i \in 1..Len(s) : s[i] = t => First(s, t) # 0
  BY FirstProp
<1> QED BY <1>1 DEF Has

LEMMA HasAppend ==
  ASSUME NEW T, NEW s \in Seq(T), NEW x \in T, NEW t
  PROVE  Has(Append(s, x), t) <=> Has(s, t) \/ x = t
<1>1. PICK r \in Seq(T) : r = Append(s, x)
  BY AppendProperties
<1>2. Len(r) = Len(s) + 1 /\ r[Len(s) + 1] = x /\ \A i \in 1..Len(s) : r[i] = s[i]
  BY <1>1, AppendProperties
<1>3. Has(s, t) => Has(r, t)
  <2> SUFFICES ASSUME Has(s, t) PROVE Has(r, t)
    OBVIOUS
  <2>1. PICK i \in 1..Len(s) : s[i] = t
    BY HasAt
  <2>2. i \in 1..Len(r) /\ r[i] = t
    BY <1>2, <2>1
  <2> QED BY <2>2, HasAt
<1>4. x = t => Has(r, t)
  <2>1. Len(s) + 1 \in 1..Len(r)
    BY <1>2
  <2> QED BY <1>2, <2>1, HasAt
<1>5. Has(r, t) => Has(s, t) \/ x = t
  <2> SUFFICES ASSUME Has(r, t), x # t PROVE Has(s, t)
    OBVIOUS
  <2>1. PICK i \in 1..Len(r) : r[i] = t
    BY HasAt
  <2>2. i # Len(s) + 1
    BY <1>2, <2>1
  <2>3. i \in 1..Len(s) /\ s[i] = t
    BY <1>2, <2>1, <2>2
  <2> QED BY <2>3, HasAt
<1> QED BY <1>1, <1>3, <1>4, <1>5

LEMMA HasConcat ==
  ASSUME NEW T, NEW s \in Seq(T), NEW r \in Seq(T), NEW t
  PROVE  Has(s \o r, t) <=> Has(s, t) \/ Has(r, t)
<1>1. s \o r \in Seq(T)
  BY ConcatProperties
<1>2. Count(s \o r, t) = Count(s, t) + Count(r, t)
  BY CountConcat
<1>3. Count(s, t) \in Nat /\ Count(r, t) \in Nat
  BY CountNat
<1>4. Count(s \o r, t) # 0 <=> Count(s, t) # 0 \/ Count(r, t) # 0
  BY <1>2, <1>3
<1>5. (Has(s \o r, t) <=> Count(s \o r, t) # 0) /\ (Has(s, t) <=> Count(s, t) # 0)
      /\ (Has(r, t) <=> Count(r, t) # 0)
  BY <1>1, HasCount
<1> QED BY <1>4, <1>5

(* Text without an opening tag is shown.                                      *)
LEMMA CutXmlPlain ==
  \A s \in Seq(Tokens) : ~ Has(s, "<call>") => CutXml(s) = Output(Idle, s, << >>)
<1> DEFINE N == {s \in Seq(Tokens) : ~ Has(s, "<call>") => CutXml(s) = Output(Idle, s, << >>)}
<1>1. << >> \in N
  BY CutXmlProp, EmptySeq DEF Start
<1>2. ASSUME NEW s \in Seq(Tokens), NEW t \in Tokens, s \in N PROVE Append(s, t) \in N
  <2> SUFFICES ASSUME ~ Has(Append(s, t), "<call>")
               PROVE  CutXml(Append(s, t)) = Output(Idle, Append(s, t), << >>)
    BY AppendProperties
  <2>1. ~ Has(s, "<call>") /\ t # "<call>"
    BY HasAppend
  <2>2. PICK o \in Outs : o = CutXml(s)
    BY CutXmlProp
  <2>3. o = Output(Idle, s, << >>)
    BY <1>2, <2>1, <2>2
  <2>4. o.buf = Idle /\ o.text = s /\ o.blocks = << >>
    BY <2>3, OutputFields
  <2>5. ~ o.buf.on
    BY <2>4 DEF Idle
  <2>6. XmlStep(o, t) = Output(o.buf, Append(o.text, t), o.blocks)
    BY <2>1, <2>5, XmlStepCases
  <2>7. CutXml(Append(s, t)) = XmlStep(o, t)
    BY <2>2, CutXmlProp
  <2> QED BY <2>4, <2>6, <2>7
<1>3. Seq(Tokens) \subseteq N
  <2> HIDE DEF N
  <2> QED BY <1>1, <1>2, SeqInduction
<1> QED BY <1>3

-----------------------------------------------------------------------------
(* One format.                                                               *)

Lacks(s, modes) == \A mode \in modes : ~ Has(s, Opening[mode])

LEMMA Openings ==
  Opening["xml"] = "<call>" /\ Opening["mistral"] = "[CALLS]" /\ Opening["json"] = "{"
  BY DEF Opening

(* Of a chunk with no other tags, the buffer lets out what CutXml does.        *)
LEMMA FeedXml ==
  ASSUME NEW b, BufOK(b), b.on => b.mode = "xml", NEW chunk \in Seq(Tokens),
         Lacks(chunk, {"mistral", "json"})
  PROVE  LET o == CutXml(b.pending \o chunk)
             out == Feed(b, chunk)
         IN  /\ out.text = o.text /\ out.blocks = o.blocks
             /\ out.buf.pending = o.buf.pending
             /\ out.buf.on => out.buf.mode = "xml"
<1>0. b \in Bufs /\ b.pending \in Seq(Tokens) /\ b.on \in BOOLEAN
  BY DEF BufOK, Bufs
<1>1. PICK out : out = Feed(b, chunk)
  OBVIOUS
<1>2. PICK q \in Seq(Tokens) : q = b.pending \o chunk
  BY <1>0, ConcatProperties
<1>3. PICK o \in Outs : o = CutXml(q)
  BY CutXmlProp
<1>4. o.buf.on => o.buf.mode = "xml"
  BY <1>3, CutXmlWhole DEF XmlWhole, Open
<1>5. CASE b.on
  <2>1. out = o
    BY <1>1, <1>2, <1>3, <1>5 DEF Feed, Cut
  <2> QED BY <1>1, <1>2, <1>3, <1>4, <2>1
<1>6. CASE ~ b.on
  <2>1. b.pending = << >> /\ q = chunk
    <3>1. b.pending = << >>
      BY <1>6 DEF BufOK
    <3> QED BY <1>2, <3>1, ConcatEmptySeq
  <2>2. ~ Has(chunk, "[CALLS]") /\ ~ Has(chunk, "{")
    BY Openings DEF Lacks
  <2>3. CASE ~ Has(chunk, "<call>")
    <3>1. Opens(chunk) = "none"
      BY <2>2, <2>3 DEF Opens
    <3>2. out = Output(b, chunk, << >>)
      BY <1>1, <1>6, <3>1 DEF Feed
    <3>3. out.buf = b /\ out.text = chunk /\ out.blocks = << >>
      BY <3>2, OutputFields
    <3>4. o = Output(Idle, chunk, << >>)
      BY <1>3, <2>1, <2>3, CutXmlPlain
    <3>5. o.buf = Idle /\ o.text = chunk /\ o.blocks = << >>
      BY <3>4, OutputFields
    <3>6. Idle.pending = << >>
      BY DEF Idle
    <3> QED BY <1>1, <1>2, <1>3, <1>6, <2>1, <3>3, <3>5, <3>6
  <2>4. CASE Has(chunk, "<call>")
    <3>1. Opens(chunk) = "xml"
      BY <2>4 DEF Opens
    <3>2. PICK k \in 0..Len(chunk) : k = First(chunk, "<call>") - 1
      BY <2>4, FromCut
    <3>3. PICK before \in Seq(Tokens) : before = Upto(chunk, k)
      BY CutAt
    <3>4. PICK rest \in Seq(Tokens) : rest = After(chunk, k)
      BY CutAt
    <3>5. before \o rest = chunk
      BY <3>3, <3>4, CutAt
    <3>6. ~ Has(before, "<call>")
      <4>1. Len(before) = k /\ \A i \in 1..k : before[i] = chunk[i]
        BY <3>3, CutAt
      <4>2. \A i \in 1..Len(chunk) : chunk[i] = "<call>" => First(chunk, "<call>") <= i
        BY FirstProp
      <4>3. ASSUME NEW i \in 1..k, before[i] = "<call>" PROVE FALSE
        <5>1. i \in 1..Len(chunk) /\ chunk[i] = "<call>"
          BY <4>1, <4>3
        <5>2. First(chunk, "<call>") <= i
          BY <4>2, <5>1
        <5>3. First(chunk, "<call>") \in 0..Len(chunk)
          BY FirstProp
        <5> QED BY <3>2, <5>2, <5>3
      <4> QED BY <4>1, <4>3, HasAt
    <3>7. PICK w \in Outs : w = CutXml(rest)
      BY CutXmlProp
    <3>8. out = [w EXCEPT !.text = before \o w.text]
      <4>1. out = [Cut("xml", After(chunk, First(chunk, Opening["xml"]) - 1))
                     EXCEPT !.text = Upto(chunk, First(chunk, Opening["xml"]) - 1) \o @]
        BY <1>1, <1>6, <3>1 DEF Feed
      <4>2. out = [Cut("xml", rest) EXCEPT !.text = before \o @]
        BY <3>2, <3>3, <3>4, <4>1, Openings
      <4>3. Cut("xml", rest) = w
        BY <3>7 DEF Cut
      <4> QED BY <4>2, <4>3
    <3>9. out.text = before \o w.text /\ out.blocks = w.blocks /\ out.buf = w.buf
      BY <3>8 DEF Outs
    <3>10. PICK a \in Outs : a = CutXml(before)
      BY CutXmlProp
    <3>11. a.text = before /\ a.blocks = << >> /\ a.buf.pending = << >>
      <4>1. a = Output(Idle, before, << >>)
        BY <3>6, <3>10, CutXmlPlain
      <4>2. a.buf = Idle /\ a.text = before /\ a.blocks = << >>
        BY <4>1, OutputFields
      <4> QED BY <4>2 DEF Idle
    <3>12. << >> \o rest = rest
      BY ConcatEmptySeq
    <3>13. CutXml(before \o rest) = Output(w.buf, before \o w.text, << >> \o w.blocks)
      <4>1. CutXml(before \o rest)
              = Output(CutXml(CutXml(before).buf.pending \o rest).buf,
                       CutXml(before).text \o CutXml(CutXml(before).buf.pending \o rest).text,
                       CutXml(before).blocks \o CutXml(CutXml(before).buf.pending \o rest).blocks)
        BY CutXmlConcat
      <4>2. CutXml(before).buf.pending \o rest = rest
        BY <3>10, <3>11, <3>12
      <4> QED BY <3>7, <3>10, <3>11, <4>1, <4>2
    <3>14. PICK v \in Seq(Tokens) : v = before \o w.text
      BY ConcatProperties DEF Outs
    <3>15. << >> \o w.blocks = w.blocks
      <4>1. PICK wb \in Seq(Seq(Tokens)) : wb = w.blocks
        BY DEF Outs
      <4> QED BY <4>1, ConcatEmptySeq
    <3>16. o = Output(w.buf, v, w.blocks)
      BY <1>3, <2>1, <3>5, <3>13, <3>14, <3>15
    <3>17. o.buf = w.buf /\ o.text = v /\ o.blocks = w.blocks
      BY <3>16, OutputFields
    <3> QED BY <1>1, <1>2, <1>3, <1>4, <3>9, <3>14, <3>17
  <2> QED BY <2>3, <2>4
<1> QED BY <1>0, <1>5, <1>6

LEMMA BlockCount ==
  ASSUME NEW T, NEW t
  PROVE  \A bs \in Seq(Seq(T)) :
           \A i \in 1..Len(bs) : Count(bs[i], t) <= Count(FlattenSeq(bs), t)
<1> DEFINE N == {bs \in Seq(Seq(T)) :
                   \A i \in 1..Len(bs) : Count(bs[i], t) <= Count(FlattenSeq(bs), t)}
<1>1. << >> \in N
  BY EmptySeq
<1>2. ASSUME NEW bs \in Seq(Seq(T)), NEW b \in Seq(T), bs \in N PROVE Append(bs, b) \in N
  <2>1. PICK q \in Seq(Seq(T)) : q = Append(bs, b)
    BY AppendProperties
  <2>2. Len(q) = Len(bs) + 1 /\ q[Len(bs) + 1] = b /\ \A i \in 1..Len(bs) : q[i] = bs[i]
    BY <2>1, AppendProperties
  <2>3. PICK f \in Seq(T) : f = FlattenSeq(bs)
    BY FlattenType
  <2>4. FlattenSeq(q) = f \o b
    BY <2>1, <2>3, FlattenProp
  <2>5. Count(f \o b, t) = Count(f, t) + Count(b, t) /\ Count(f, t) \in Nat /\ Count(b, t) \in Nat
    BY CountConcat, CountNat
  <2>6. ASSUME NEW i \in 1..Len(q) PROVE Count(q[i], t) <= Count(FlattenSeq(q), t)
    <3>1. CASE i = Len(bs) + 1
      <4>1. Count(q[i], t) = Count(b, t)
        BY <2>2, <3>1
      <4> QED BY <2>4, <2>5, <4>1
    <3>2. CASE i # Len(bs) + 1
      <4>1. i \in 1..Len(bs)
        BY <2>2, <3>2
      <4>2. q[i] = bs[i]
        BY <2>2, <4>1
      <4>3. PICK e \in Seq(T) : e = bs[i]
        BY <4>1, ElementOfSeq
      <4>4. Count(e, t) <= Count(f, t)
        BY <1>2, <2>3, <4>1, <4>3
      <4>5. Count(e, t) \in Nat
        BY CountNat
      <4>6. Count(e, t) <= Count(f \o b, t)
        BY <2>5, <4>4, <4>5
      <4> QED BY <2>4, <4>2, <4>3, <4>6
    <3> QED BY <3>1, <3>2
  <2> QED BY <2>1, <2>6
<1>3. Seq(Seq(T)) \subseteq N
  <2> HIDE DEF N
  <2> QED BY <1>1, <1>2, SeqInduction
<1> QED BY <1>3

LEMMA FromStart ==
  ASSUME NEW s \in Seq(Tokens), NEW tag, s # << >>, s[1] = tag
  PROVE  Has(s, tag) /\ First(s, tag) = 1 /\ From(s, tag) = s /\ Upto(s, First(s, tag) - 1) = << >>
<1>1. Len(s) \in Nat /\ Len(s) # 0
  BY EmptySeq
<1>2. 1 \in 1..Len(s)
  BY <1>1
<1>3. First(s, tag) \in 0..Len(s) /\ First(s, tag) # 0 /\ First(s, tag) <= 1
  BY <1>2, FirstProp
<1>4. First(s, tag) = 1
  BY <1>3
<1>5. SubSeq(s, 1, Len(s)) = s
  BY SubSeqFull
<1>6. After(s, 0) = s
  BY <1>5 DEF After
<1>7. Upto(s, 0) = << >>
  BY SubSeqEmpty DEF Upto
<1> QED BY <1>4, <1>6, <1>7 DEF Has, From

LEMMA StripXml ==
  ASSUME NEW s \in Seq(Tokens), s # << >>, s[1] = "<call>", Lacks(s, {"mistral", "json"})
  PROVE  /\ Strip(s).calls = XmlCalls(s)
         /\ XmlCalls(s) # << >> => Strip(s).text = << >>
         /\ XmlCalls(s) = << >> => Strip(s).text = s
<1>1. ~ Has(s, "[CALLS]") /\ ~ Has(s, "{")
  BY Openings DEF Lacks
<1>2. Has(s, "<call>") /\ From(s, "<call>") = s /\ Upto(s, First(s, "<call>") - 1) = << >>
  BY FromStart
<1>3. CASE XmlCalls(s) # << >>
  <2>1. Strip(s) = [text |-> Upto(s, First(s, "<call>") - 1), calls |-> XmlCalls(s)]
    BY <1>2, <1>3 DEF Strip
  <2> QED BY <1>2, <1>3, <2>1
<1>4. CASE XmlCalls(s) = << >>
  <2>1. Strip(s) = [text |-> s, calls |-> << >>]
    BY <1>1, <1>2, <1>4 DEF Strip
  <2> QED BY <1>4, <2>1
<1> QED BY <1>3, <1>4

(* One block, closed or not: it is parsed for itself.                         *)
LEMMA XmlCallsOne ==
  ASSUME NEW b \in Seq(Tokens),
         Whole(b) \/ \E o : o.on /\ o.pending = b /\ CutXml(b) = Output(o, << >>, << >>)
  PROVE  XmlCalls(b) = XmlCall(b)
<1>1. PICK out : out = CutXml(b)
  OBVIOUS
<1>2. PICK all : all = IF out.buf.on THEN Append(out.blocks, out.buf.pending) ELSE out.blocks
  OBVIOUS
<1>3. XmlCalls(b) = FlattenSeq([i \in 1..Len(all) |-> XmlCall(all[i])])
  BY <1>1, <1>2 DEF XmlCalls
<1>4. all = <<b>>
  <2>1. CASE Whole(b)
    <3>1. out = Output(Idle, << >>, <<b>>)
      BY <1>1, <2>1 DEF Whole
    <3>2. out.buf = Idle /\ out.blocks = <<b>>
      BY <3>1, OutputFields
    <3>3. ~ out.buf.on
      BY <3>2 DEF Idle
    <3> QED BY <1>2, <3>2, <3>3
  <2>2. ASSUME NEW o, o.on, o.pending = b, CutXml(b) = Output(o, << >>, << >>) PROVE all = <<b>>
    <3>1. out.buf = o /\ out.blocks = << >>
      BY <1>1, <2>2, OutputFields
    <3>2. all = Append(<< >>, b)
      BY <1>2, <2>2, <3>1
    <3>3. Append(<< >>, b) = <<b>>
      OBVIOUS
    <3> QED BY <3>2, <3>3
  <2> QED BY <2>1, <2>2
<1>5. Len(all) = 1 /\ all[1] = b
  BY <1>4
<1>6. PICK x \in Seq(Calls) : x = XmlCall(b)
  BY XmlCallProp
<1>7. [i \in 1..Len(all) |-> XmlCall(all[i])] = <<x>>
  BY <1>5, <1>6
<1>8. FlattenSeq(<<x>>) = x
  BY FlattenOne
<1> QED BY <1>3, <1>6, <1>7, <1>8

LEMMA EachXmlConcat ==
  ASSUME NEW cs \in Seq(Seq(Tokens))
  PROVE  \A bs \in Seq(Seq(Tokens)) : EachXml(cs \o bs) = EachXml(cs) \o EachXml(bs)
<1>1. PICK ea \in Seq(Seq(Calls)) : ea = EachXml(cs)
  BY EachXmlProp
<1>5. ASSUME NEW bs \in Seq(Seq(Tokens)), NEW b \in Seq(Tokens)
      PROVE  cs \o Append(bs, b) = Append(cs \o bs, b)
  BY ConcatAppend, SMTT(30)
<1> DEFINE N == {bs \in Seq(Seq(Tokens)) : EachXml(cs \o bs) = ea \o EachXml(bs)}
<1>2. << >> \in N
  <2>1. EachXml(<< >>) = << >>
    BY DEF EachXml
  <2>2. cs \o << >> = cs /\ ea \o << >> = ea
    BY ConcatEmptySeq
  <2> QED BY <1>1, <2>1, <2>2, EmptySeq
<1>3. ASSUME NEW bs \in Seq(Seq(Tokens)), NEW b \in Seq(Tokens), bs \in N PROVE Append(bs, b) \in N
  <2>1. PICK eb \in Seq(Seq(Calls)) : eb = EachXml(bs)
    BY EachXmlProp
  <2>2. PICK x \in Seq(Calls) : x = XmlCall(b)
    BY XmlCallProp
  <2>3. PICK u \in Seq(Seq(Tokens)) : u = cs \o bs
    BY ConcatProperties
  <2>4. cs \o Append(bs, b) = Append(u, b)
    BY <1>5, <2>3
  <2>5. EachXml(Append(u, b)) = Append(EachXml(u), x) /\ EachXml(Append(bs, b)) = Append(eb, x)
    BY <2>1, <2>2, EachXmlAppend
  <2>6. EachXml(u) = ea \o eb
    BY <1>3, <2>1, <2>3
  <2>7. ea \o Append(eb, x) = Append(ea \o eb, x)
    BY ConcatAppend, SMTT(30)
  <2>8. EachXml(cs \o Append(bs, b)) = ea \o EachXml(Append(bs, b))
    BY <2>4, <2>5, <2>6, <2>7
  <2> QED BY <2>8, AppendProperties
<1>4. Seq(Seq(Tokens)) \subseteq N
  <2> HIDE DEF N
  <2> QED BY <1>2, <1>3, SeqInduction
<1> QED BY <1>1, <1>4

XmlFound(s) == FlattenSeq(EachXml(CutXml(s).blocks))

LEMMA LacksCount ==
  ASSUME NEW s \in Seq(Tokens), NEW modes, modes \subseteq Modes
  PROVE  Lacks(s, modes) <=> \A mode \in modes : Count(s, Opening[mode]) = 0
<1>1. ASSUME NEW mode PROVE Has(s, Opening[mode]) <=> Count(s, Opening[mode]) # 0
  BY HasCount
<1> QED BY <1>1 DEF Lacks

LEMMA OpeningToken == \A mode \in Modes : Opening[mode] \in Tokens
<1>1. {"<call>", "[CALLS]", "{"} \subseteq Tokens
  BY DEF Tokens, Tags
<1> QED BY <1>1, Openings DEF Modes

(* The blocks of XML alone give the calls that XmlCall finds in them.           *)
LEMMA CallsOfXml ==
  ASSUME NEW s \in Seq(Tokens), Lacks(s, {"mistral", "json"})
  PROVE  /\ CallsOf(CutXml(s).blocks) = XmlFound(s)
         /\ CutXml(s).buf.on => Strip(CutXml(s).buf.pending).calls = XmlCall(CutXml(s).buf.pending)
<1>1. PICK out \in Outs : out = CutXml(s)
  BY CutXmlProp
<1>2. PICK bs \in Seq(Seq(Tokens)) : bs = out.blocks
  BY DEF Outs
<1>3. PICK p \in Seq(Tokens) : p = out.buf.pending
  BY DEF Outs, Bufs
<1>4. XmlWhole(out)
  BY <1>1, CutXmlWhole
<1>5. Sound(out, s)
  BY <1>1, CutXmlSound
<1>6. ASSUME NEW m \in {"mistral", "json"}
      PROVE  Count(FlattenSeq(bs), Opening[m]) = 0 /\ Count(p, Opening[m]) = 0
  <2>1. PICK t \in Tokens : t = Opening[m]
    BY OpeningToken DEF Modes
  <2>2. Count(s, t) = 0
    BY <2>1, LacksCount DEF Modes
  <2>3. Count(out.text, t) + Count(FlattenSeq(bs), t) + Count(p, t) = Count(s, t)
    BY <1>2, <1>3, <1>5 DEF Sound, Adds
  <2>4. Count(out.text, t) \in Nat /\ Count(FlattenSeq(bs), t) \in Nat /\ Count(p, t) \in Nat
    <3>1. FlattenSeq(bs) \in Seq(Tokens) /\ out.text \in Seq(Tokens)
      BY FlattenType DEF Outs
    <3> QED BY <3>1, CountNat
  <2> QED BY <2>1, <2>2, <2>3, <2>4
<1>7. ASSUME NEW i \in 1..Len(bs) PROVE Strip(bs[i]).calls = XmlCall(bs[i])
  <2>1. PICK b \in Seq(Tokens) : b = bs[i]
    BY ElementOfSeq
  <2>2. Whole(b)
    BY <1>2, <1>4, <2>1 DEF XmlWhole
  <2>3. Lacks(b, {"mistral", "json"})
    <3>1. ASSUME NEW m \in {"mistral", "json"} PROVE Count(b, Opening[m]) = 0
      <4>1. Count(bs[i], Opening[m]) <= Count(FlattenSeq(bs), Opening[m])
        BY BlockCount
      <4>2. Count(b, Opening[m]) \in Nat
        BY CountNat
      <4> QED BY <1>6, <2>1, <4>1, <4>2
    <3> QED BY <3>1, LacksCount DEF Modes
  <2>4. Strip(b).calls = XmlCalls(b)
    BY <2>2, <2>3, StripXml DEF Whole
  <2>5. XmlCalls(b) = XmlCall(b)
    BY <2>2, XmlCallsOne
  <2> QED BY <2>1, <2>4, <2>5
<1>8. EachCalls(bs) = EachXml(bs)
  BY <1>7 DEF EachCalls, EachXml
<1>9. CallsOf(bs) = FlattenSeq(EachXml(bs))
  BY <1>8, CallsOfEach
<1>10. ASSUME out.buf.on PROVE Strip(p).calls = XmlCall(p)
  <2>1. p # << >> /\ p[1] = "<call>"
    BY <1>3, <1>4, <1>5, <1>10 DEF XmlWhole, Open, Sound, BufOK
  <2>2. Lacks(p, {"mistral", "json"})
    BY <1>6, LacksCount DEF Modes
  <2>3. CutXml(p) = Output(out.buf, << >>, << >>)
    BY <1>3, <1>4 DEF XmlWhole, Open
  <2>4. XmlCalls(p) = XmlCall(p)
    BY <1>3, <1>10, <2>3, XmlCallsOne
  <2> QED BY <2>1, <2>2, <2>4, StripXml
<1> QED BY <1>1, <1>2, <1>3, <1>9, <1>10 DEF XmlFound

-----------------------------------------------------------------------------
(* Where the run is.  A generation starts with nothing held back: the one      *)
(* before ended in order, or else there is no other.                          *)

Fresh ==
  /\ at \in {"routing", "tools"} => content = << >>
  /\ at = "tools" => ~ buf.on
  /\ at = "routing" => message = << >> \/ ~ buf.on

LEMMA FreshStep ==
  ASSUME Typed, Fresh, [Next]_vars
  PROVE  Fresh'
<1>1. CASE Chunk
  BY <1>1 DEF Chunk, Fresh
<1>2. CASE EndCall
  <2>1. PICK whole \in Wholes, answer \in Answers, pieces \in BOOLEAN :
           /\ whole \in Seq(Tokens) /\ answer \in Seq(Calls)
           /\ content # << >> => whole = << >>
           /\ Finish(whole, answer, pieces) /\ Return(answer)
    BY <1>2, EndCallIs
  <2>2. ~ buf'.on
    BY <2>1, FinishTexts
  <2>3. at' = "routing" /\ content' = << >>
    BY <2>1 DEF Return
  <2> QED BY <2>2, <2>3 DEF Fresh
<1>3. CASE BreakCall
  BY <1>3 DEF BreakCall, Return, Fresh
<1>4. CASE Fail
  BY <1>4 DEF Fail, Fresh
<1>5. CASE Route
  <2>1. UNCHANGED <<content, buf, message>> /\ at = "routing"
    BY <1>5 DEF Route, textVars, graphVars
  <2>2. at' = "tools" => message # << >>
    <3> SUFFICES ASSUME at' = "tools", message = << >> PROVE FALSE
      OBVIOUS
    <3>1. ServerCalls # {}
      BY <1>5 DEF Route, MayContinue
    <3>2. ServerCalls = {}
      BY DEF ServerCalls
    <3> QED BY <3>1, <3>2
  <2>3. at' \in {"tools", "over"}
    BY <1>5 DEF Route
  <2> QED BY <2>1, <2>2, <2>3 DEF Fresh
<1>6. CASE RunTools
  BY <1>6 DEF RunTools, Fresh
<1>7. CASE Done \/ UNCHANGED vars
  BY <1>7 DEF Done, vars, textVars, graphVars, Fresh
<1> QED BY <1>1, <1>2, <1>3, <1>4, <1>5, <1>6, <1>7 DEF Next

LEMMA FreshInit == Init => Fresh
  BY DEF Init, Fresh

LEMMA ModelKinds ==
  ASSUME Typed, Fresh, [Next]_vars, at' = "model"
  PROVE  \/ Chunk
         \/ /\ RunTools /\ ~ buf.on /\ content = << >>
            /\ UNCHANGED <<textVars, callVars>> /\ rounds' = rounds + 1
         \/ at = "model" /\ UNCHANGED <<textVars, callVars, graphVars, toolVars>>
<1>1. CASE EndCall
  BY <1>1 DEF EndCall, Return
<1>2. CASE BreakCall
  BY <1>2 DEF BreakCall, Return
<1>3. CASE Fail \/ Route
  BY <1>3 DEF Fail, Route
<1>4. CASE Done \/ UNCHANGED vars
  BY <1>4 DEF Done, vars
<1>5. CASE RunTools
  BY <1>5 DEF RunTools, Fresh
<1> QED BY <1>1, <1>2, <1>3, <1>4, <1>5 DEF Next

-----------------------------------------------------------------------------
(* What was parsed was heard.                                                *)

Apart == \A c \in Calls : Count(parsed, c) + Count(buf.pending, c) <= Count(heard, c)

LEMMA SumApart ==
  ASSUME NEW a \in Nat, NEW b \in Nat, NEW d \in Nat, NEW x \in Nat, NEW y \in Nat, NEW z \in Nat,
         NEW e \in Nat, NEW k \in Nat,
         a + b <= d, x + y + z = b + e, k <= y
  PROVE  (a + k) + z <= d + e
  OBVIOUS

LEMMA SumLast ==
  ASSUME NEW a \in Nat, NEW b \in Nat, NEW d \in Nat, NEW e \in Nat, NEW k \in Nat, NEW m \in Nat,
         a + b <= d, k <= b, m <= e
  PROVE  ((a + k) + m) + 0 <= d + e
  OBVIOUS

LEMMA CallToken == Calls \subseteq Tokens
  BY DEF Tokens

LEMMA StripCount ==
  ASSUME NEW s \in Seq(Tokens), NEW c \in Calls
  PROVE  /\ Strip(s).text \in Seq(Tokens) /\ Strip(s).calls \in Seq(Calls)
         /\ Count(Strip(s).text, c) \in Nat /\ Count(Strip(s).calls, c) \in Nat
         /\ Count(Strip(s).text, c) + Count(Strip(s).calls, c) <= Count(s, c)
         /\ Count(Strip(s).calls, c) <= Count(s, c)
<1>1. PICK k \in 0..Len(s) : Strip(s).text = Upto(s, k)
  BY StripProp
<1>2. Strip(s).text \in Seq(Tokens) /\ Strip(s).calls \in Seq(Calls)
  BY <1>1, CutAt, StripProp
<1>3. Count(Strip(s).text, c) \in Nat /\ Count(Strip(s).calls, c) \in Nat /\ Count(s, c) \in Nat
  BY <1>2, CountNat
<1>4. Count(Strip(s).text, c) + Count(Strip(s).calls, c) <= Count(s, c)
  BY StripProp
<1> QED BY <1>2, <1>3, <1>4

LEMMA ApartChunk ==
  ASSUME Typed, Apart, Chunk
  PROVE  Apart'
<1>0. heard \in Seq(Tokens) /\ parsed \in Seq(Calls) /\ BufOK(buf)
  BY DEF Typed
<1>1. PICK chunk \in Chunks, out \in Outs :
        /\ chunk \in Seq(Tokens)
        /\ Sound(out, buf.pending \o chunk)
        /\ heard' = heard \o chunk /\ buf' = out.buf
        /\ parsed' = parsed \o CallsOf(out.blocks)
  BY ChunkTyped
<1>2. PICK p \in Seq(Tokens) : p = buf.pending
  BY <1>0 DEF BufOK, Bufs
<1>3. PICK q \in Seq(Tokens) : q = out.buf.pending
  BY DEF Outs, Bufs
<1>4. PICK bs \in Seq(Seq(Tokens)) : bs = out.blocks
  BY DEF Outs
<1>5. PICK y \in Seq(Tokens) : y = FlattenSeq(bs)
  BY FlattenType
<1>6. PICK x \in Seq(Tokens) : x = out.text
  BY DEF Outs
<1>7. PICK f \in Seq(Calls) : f = CallsOf(bs)
  BY CallsOfEach
<1>8. ASSUME NEW c \in Calls
      PROVE  Count(parsed', c) + Count(buf'.pending, c) <= Count(heard', c)
  <2>1. Count(x, c) + Count(y, c) + Count(q, c) = Count(p, c) + Count(chunk, c)
    <3>1. Count(x, c) + Count(y, c) + Count(q, c) = Count(p \o chunk, c)
      BY <1>1, <1>2, <1>3, <1>4, <1>5, <1>6, CallToken DEF Sound, Adds
    <3>2. Count(p \o chunk, c) = Count(p, c) + Count(chunk, c)
      BY <1>1, CountConcat
    <3> QED BY <3>1, <3>2
  <2>2. Count(f, c) <= Count(y, c)
    BY <1>5, <1>7, CallsOfCount
  <2>3. Count(parsed, c) + Count(p, c) <= Count(heard, c)
    BY <1>2 DEF Apart
  <2>4. Count(parsed', c) = Count(parsed, c) + Count(f, c)
    BY <1>0, <1>1, <1>4, <1>7, CountConcat
  <2>5. Count(heard', c) = Count(heard, c) + Count(chunk, c)
    BY <1>0, <1>1, CountConcat
  <2>6. Count(buf'.pending, c) = Count(q, c)
    BY <1>1, <1>3
  <2>7. /\ Count(parsed, c) \in Nat /\ Count(p, c) \in Nat /\ Count(heard, c) \in Nat
        /\ Count(x, c) \in Nat /\ Count(y, c) \in Nat /\ Count(q, c) \in Nat
        /\ Count(chunk, c) \in Nat /\ Count(f, c) \in Nat
    BY <1>0, <1>1, CountNat
  <2>8. (Count(parsed, c) + Count(f, c)) + Count(q, c) <= Count(heard, c) + Count(chunk, c)
    BY <2>1, <2>2, <2>3, <2>7, SumApart
  <2> QED BY <2>4, <2>5, <2>6, <2>8
<1> QED BY <1>8 DEF Apart, Count

LEMMA ApartFinish ==
  ASSUME Typed, Apart, NEW whole \in Seq(Tokens), NEW answer \in Seq(Calls),
         NEW pieces \in BOOLEAN, Finish(whole, answer, pieces), content # << >> => whole = << >>
  PROVE  Apart'
<1>0. heard \in Seq(Tokens) /\ parsed \in Seq(Calls) /\ BufOK(buf)
  BY DEF Typed
<1>1. PICK p \in Seq(Tokens) : p = buf.pending
  BY <1>0 DEF BufOK, Bufs
<1>2. PICK bs \in Seq(Seq(Tokens)) : bs = Flush(buf).blocks
  BY <1>0, FlushSound
<1>3. FlattenSeq(bs) = p
  BY <1>0, <1>1, <1>2, FlushSound
<1>4. PICK f \in Seq(Calls) : f = CallsOf(bs)
  BY CallsOfEach
<1>5. PICK g \in Seq(Calls) : g = Strip(whole).calls
  BY StripProp
<1>6. PICK u \in Seq(Calls) : u = parsed \o f
  BY <1>0, ConcatProperties
<1>7. heard' = heard \o whole /\ buf'.pending = << >> /\ (parsed' = u \/ parsed' = u \o g)
  BY <1>2, <1>4, <1>5, <1>6, FinishTexts
<1>8. ASSUME NEW c \in Calls
      PROVE  Count(parsed', c) + Count(buf'.pending, c) <= Count(heard', c)
  <2>1. Count(f, c) <= Count(p, c)
    BY <1>3, <1>4, CallsOfCount
  <2>2. Count(g, c) <= Count(whole, c)
    BY <1>5, StripCount
  <2>3. Count(parsed, c) + Count(p, c) <= Count(heard, c)
    BY <1>1 DEF Apart
  <2>4. Count(heard', c) = Count(heard, c) + Count(whole, c)
    BY <1>0, <1>7, CountConcat
  <2>5. Count(u, c) = Count(parsed, c) + Count(f, c)
    BY <1>0, <1>6, CountConcat
  <2>6. Count(buf'.pending, c) = 0
    BY <1>7, CountEmpty
  <2>7. /\ Count(parsed, c) \in Nat /\ Count(p, c) \in Nat /\ Count(heard, c) \in Nat
        /\ Count(whole, c) \in Nat /\ Count(f, c) \in Nat /\ Count(g, c) \in Nat
    BY <1>0, CountNat
  <2>8. CASE parsed' = u \o g
    <3>1. Count(parsed', c) = Count(u, c) + Count(g, c)
      BY <2>8, CountConcat
    <3>2. ((Count(parsed, c) + Count(f, c)) + Count(g, c)) + 0 <= Count(heard, c) + Count(whole, c)
      BY <2>1, <2>2, <2>3, <2>7, SumLast
    <3> QED BY <2>4, <2>5, <2>6, <3>1, <3>2
  <2>9. CASE parsed' = u
    <3>1. ((Count(parsed, c) + Count(f, c)) + 0) + 0 <= Count(heard, c) + Count(whole, c)
      <4>1. 0 \in Nat /\ 0 <= Count(whole, c)
        BY <2>7
      <4> QED BY <2>1, <2>3, <2>7, <4>1, SumLast
    <3>2. (Count(parsed, c) + Count(f, c)) + 0 = Count(parsed, c) + Count(f, c)
      BY <2>7
    <3> QED BY <2>4, <2>5, <2>6, <2>9, <3>1, <3>2
  <2> QED BY <1>7, <2>8, <2>9
<1> QED BY <1>8 DEF Apart, Count

LEMMA ApartStep ==
  ASSUME Typed, Apart, [Next]_vars
  PROVE  Apart'
<1>1. CASE Chunk
  BY <1>1, ApartChunk
<1>2. CASE EndCall
  <2>1. PICK whole \in Wholes, answer \in Answers, pieces \in BOOLEAN :
           /\ whole \in Seq(Tokens) /\ answer \in Seq(Calls)
           /\ content # << >> => whole = << >>
           /\ Finish(whole, answer, pieces)
    BY <1>2, EndCallIs
  <2> QED BY <2>1, ApartFinish
<1>3. CASE BreakCall \/ RunTools \/ UNCHANGED <<textVars, callVars, graphVars, toolVars>>
  <2>1. UNCHANGED <<parsed, buf, heard>>
    BY <1>3 DEF BreakCall, RunTools, textVars, callVars
  <2> QED BY <2>1 DEF Apart, Count
<1> QED BY <1>1, <1>2, <1>3, StepKinds

LEMMA ApartInit == Init => Apart
<1> SUFFICES ASSUME Init PROVE Apart
  OBVIOUS
<1>1. parsed = << >> /\ heard = << >> /\ buf.pending = << >>
  BY IdleOK DEF Init
<1>2. \A c \in Calls : Count(<< >>, c) = 0
  BY CountEmpty
<1> QED BY <1>1, <1>2 DEF Apart

(* What a generation had parsed so far, and that no call that was parsed       *)
(* before it is in its content.                                               *)
Parsed(found) ==
  \E k \in 0..Len(parsed) :
    /\ After(parsed, k) = found
    /\ \A c \in Calls : Count(Upto(parsed, k), c) + Count(content, c) <= Count(heard, c)

LEMMA ParsedStart ==
  ASSUME Typed, Apart, content = << >>
  PROVE  Parsed(<< >>)
<1>0. heard \in Seq(Tokens) /\ parsed \in Seq(Calls) /\ BufOK(buf)
  BY DEF Typed
<1>1. PICK p \in Seq(Tokens) : p = buf.pending
  BY <1>0 DEF BufOK, Bufs
<1>2. PICK k \in 0..Len(parsed) : k = Len(parsed)
  BY <1>0
<1>3. Upto(parsed, k) = parsed
  BY <1>0, <1>2, SubSeqFull DEF Upto
<1>4. After(parsed, k) = << >>
  <2>1. SubSeq(parsed, k + 1, Len(parsed)) = << >>
    BY <1>0, <1>2, SubSeqEmpty
  <2> QED BY <2>1 DEF After
<1>5. ASSUME NEW c \in Calls PROVE Count(parsed, c) + Count(content, c) <= Count(heard, c)
  <2>1. Count(parsed, c) + Count(p, c) <= Count(heard, c)
    BY <1>1 DEF Apart
  <2>2. Count(content, c) = 0
    BY CountEmpty
  <2>3. Count(parsed, c) \in Nat /\ Count(p, c) \in Nat /\ Count(heard, c) \in Nat
    BY <1>0, CountNat
  <2> QED BY <2>1, <2>2, <2>3
<1> QED BY <1>3, <1>4, <1>5 DEF Parsed

LEMMA ParsedNext ==
  ASSUME Typed, NEW f, Parsed(f), NEW g \in Seq(Calls), NEW chunk \in Seq(Tokens),
         parsed' = parsed \o g, content' = content \o chunk, heard' = heard \o chunk
  PROVE  Parsed(f \o g)'
<1>0. heard \in Seq(Tokens) /\ parsed \in Seq(Calls) /\ content \in Seq(Tokens)
  BY DEF Typed
<1>1. PICK k \in 0..Len(parsed) :
        /\ After(parsed, k) = f
        /\ \A c \in Calls : Count(Upto(parsed, k), c) + Count(content, c) <= Count(heard, c)
  BY DEF Parsed
<1>2. Upto(parsed', k) = Upto(parsed, k) /\ After(parsed', k) = f \o g
  BY <1>0, <1>1, CutConcat
<1>3. k \in 0..Len(parsed')
  <2>1. Len(parsed') = Len(parsed) + Len(g) /\ Len(parsed) \in Nat /\ Len(g) \in Nat
    BY <1>0, ConcatProperties
  <2> QED BY <2>1
<1>4. Upto(parsed, k) \in Seq(Calls)
  BY <1>0, CutAt
<1>5. ASSUME NEW c \in Calls PROVE Count(Upto(parsed', k), c) + Count(content', c) <= Count(heard', c)
  <2>1. PICK a \in Nat : a = Count(Upto(parsed, k), c)
    BY <1>4, CountNat
  <2>2. PICK b \in Nat : b = Count(content, c)
    BY <1>0, CountNat
  <2>3. PICK d \in Nat : d = Count(heard, c)
    BY <1>0, CountNat
  <2>4. PICK e \in Nat : e = Count(chunk, c)
    BY CountNat
  <2>5. a + b <= d
    BY <1>1, <2>1, <2>2, <2>3
  <2>6. Count(content', c) = b + e
    BY <1>0, <2>2, <2>4, CountConcat, SMTT(30)
  <2>7. Count(heard', c) = d + e
    BY <1>0, <2>3, <2>4, CountConcat
  <2>8. a + (b + e) <= d + e
    BY <2>5
  <2> QED BY <1>2, <2>1, <2>6, <2>7, <2>8
<1> QED BY <1>2, <1>3, <1>5 DEF Parsed, Count

-----------------------------------------------------------------------------
(* A generation in XML: the buffer is where CutXml is with the whole content.  *)

XmlSoFar ==
  at = "model" /\ Lacks(content, {"mistral", "json"}) =>
    /\ buf.pending = CutXml(content).buf.pending
    /\ buf.on => buf.mode = "xml"
    /\ Parsed(XmlFound(content))
    /\ shown = << >> => CutXml(content).text = << >>
    /\ rounds = 0 => /\ shown = CutXml(content).text
                     /\ withheld = FlattenSeq(CutXml(content).blocks)

LEMMA LacksConcat ==
  ASSUME NEW s \in Seq(Tokens), NEW r \in Seq(Tokens), NEW modes, Lacks(s \o r, modes)
  PROVE  Lacks(s, modes) /\ Lacks(r, modes)
  BY HasConcat DEF Lacks

LEMMA XmlChunk ==
  ASSUME Typed, XmlSoFar, Chunk
  PROVE  XmlSoFar'
<1>0. /\ content \in Seq(Tokens) /\ shown \in Seq(Tokens) /\ withheld \in Seq(Tokens)
      /\ BufOK(buf) /\ buf \in Bufs /\ buf.pending \in Seq(Tokens)
  BY DEF Typed, BufOK, Bufs
<1>1. PICK chunk \in Chunks, out \in Outs :
        /\ chunk \in Seq(Tokens)
        /\ out = Feed(buf, chunk)
        /\ content' = content \o chunk
        /\ heard' = heard \o chunk /\ buf' = out.buf
        /\ shown' = shown \o out.text
        /\ withheld' = withheld \o FlattenSeq(out.blocks)
        /\ parsed' = parsed \o CallsOf(out.blocks)
  BY ChunkTyped
<1>2. rounds' = rounds /\ at = "model" /\ at' = "model"
  BY DEF Chunk, toolVars
<1> SUFFICES ASSUME Lacks(content', {"mistral", "json"})
             PROVE  /\ buf'.pending = CutXml(content').buf.pending
                    /\ buf'.on => buf'.mode = "xml"
                    /\ Parsed(XmlFound(content))'
                    /\ shown' = << >> => CutXml(content').text = << >>
                    /\ rounds' = 0 => /\ shown' = CutXml(content').text
                                      /\ withheld' = FlattenSeq(CutXml(content').blocks)
  BY DEF XmlSoFar
<1>3. Lacks(content, {"mistral", "json"}) /\ Lacks(chunk, {"mistral", "json"})
  BY <1>0, <1>1, LacksConcat
<1>4. PICK a \in Outs : a = CutXml(content)
  BY <1>0, CutXmlProp
<1>5. PICK x \in Seq(Tokens) : x = a.text
  BY DEF Outs
<1>6. PICK y \in Seq(Seq(Tokens)) : y = a.blocks
  BY DEF Outs
<1>7. PICK p \in Seq(Tokens) : p = a.buf.pending
  BY DEF Outs, Bufs
<1>8. /\ buf.pending = p
      /\ buf.on => buf.mode = "xml"
      /\ Parsed(XmlFound(content))
      /\ shown = << >> => x = << >>
      /\ rounds = 0 => shown = x /\ withheld = FlattenSeq(y)
  BY <1>2, <1>3, <1>4, <1>5, <1>6, <1>7 DEF XmlSoFar
<1>9. PICK q \in Seq(Tokens) : q = p \o chunk
  BY <1>1, ConcatProperties
<1>10. PICK o \in Outs : o = CutXml(q)
  BY CutXmlProp
<1>11. PICK w \in Seq(Tokens) : w = o.text
  BY DEF Outs
<1>12. PICK z \in Seq(Seq(Tokens)) : z = o.blocks
  BY DEF Outs
<1>13. PICK xw \in Seq(Tokens) : xw = x \o w
  BY ConcatProperties
<1>14. PICK yz \in Seq(Seq(Tokens)) : yz = y \o z
  BY ConcatProperties
<1>15. PICK n : n = CutXml(content')
  OBVIOUS
<1>16. n = Output(o.buf, xw, yz)
  <2>1. CutXml(content \o chunk)
          = Output(CutXml(CutXml(content).buf.pending \o chunk).buf,
                   CutXml(content).text \o CutXml(CutXml(content).buf.pending \o chunk).text,
                   CutXml(content).blocks \o CutXml(CutXml(content).buf.pending \o chunk).blocks)
    BY <1>0, <1>1, CutXmlConcat
  <2>2. CutXml(CutXml(content).buf.pending \o chunk) = o
    BY <1>4, <1>7, <1>9, <1>10
  <2> QED BY <1>1, <1>4, <1>5, <1>6, <1>11, <1>12, <1>13, <1>14, <1>15, <2>1, <2>2
<1>17. n.buf = o.buf /\ n.text = xw /\ n.blocks = yz
  BY <1>16, OutputFields
<1>18. out.text = w /\ out.blocks = z /\ out.buf.pending = o.buf.pending
       /\ (out.buf.on => out.buf.mode = "xml")
  BY <1>0, <1>1, <1>3, <1>8, <1>9, <1>10, <1>11, <1>12, FeedXml, SMTT(30)
<1>19. FlattenSeq(yz) = FlattenSeq(y) \o FlattenSeq(z)
  BY <1>14, FlattenConcat
<1>20. XmlFound(content') = XmlFound(content) \o XmlFound(q)
  <2>1. PICK ey \in Seq(Seq(Calls)) : ey = EachXml(y)
    BY EachXmlProp
  <2>2. PICK ez \in Seq(Seq(Calls)) : ez = EachXml(z)
    BY EachXmlProp
  <2>3. EachXml(yz) = ey \o ez
    BY <1>14, <2>1, <2>2, EachXmlConcat
  <2>4. FlattenSeq(ey \o ez) = FlattenSeq(ey) \o FlattenSeq(ez)
    BY FlattenConcat
  <2> QED BY <1>4, <1>6, <1>10, <1>12, <1>15, <1>17, <2>1, <2>2, <2>3, <2>4 DEF XmlFound
<1>21. CallsOf(z) = XmlFound(q)
  <2>1. Lacks(q, {"mistral", "json"})
    <3>1. ASSUME NEW m \in {"mistral", "json"} PROVE Count(q, Opening[m]) = 0
      <4>1. PICK t \in Tokens : t = Opening[m]
        BY OpeningToken DEF Modes
      <4>2. Count(content, t) = 0 /\ Count(chunk, t) = 0
        <5>1. {"mistral", "json"} \subseteq Modes
          BY DEF Modes
        <5>2. \A mode \in {"mistral", "json"} : Count(content, Opening[mode]) = 0
          BY <1>0, <1>3, <5>1, LacksCount
        <5>3. \A mode \in {"mistral", "json"} : Count(chunk, Opening[mode]) = 0
          BY <1>1, <1>3, <5>1, LacksCount
        <5> QED BY <4>1, <5>2, <5>3
      <4>3. Count(x, t) + Count(FlattenSeq(y), t) + Count(p, t) = Count(content, t)
        BY <1>0, <1>4, <1>5, <1>6, <1>7, CutXmlSound DEF Sound, Adds
      <4>4. Count(x, t) \in Nat /\ Count(FlattenSeq(y), t) \in Nat /\ Count(p, t) \in Nat
        <5>1. FlattenSeq(y) \in Seq(Tokens)
          BY FlattenType
        <5> QED BY <5>1, CountNat
      <4>5. Count(p, t) = 0
        BY <4>2, <4>3, <4>4
      <4>6. Count(q, t) = Count(p, t) + Count(chunk, t)
        BY <1>1, <1>9, CountConcat
      <4> QED BY <4>1, <4>2, <4>5, <4>6
    <3> QED BY <3>1, LacksCount DEF Modes
  <2> QED BY <1>10, <1>12, <2>1, CallsOfXml
<1>22. Parsed(XmlFound(content))'
  <2>1. PICK f : f = XmlFound(content)
    OBVIOUS
  <2>2. PICK g \in Seq(Calls) : g = CallsOf(z)
    BY CallsOfEach
  <2>3. parsed' = parsed \o g
    BY <1>1, <1>18, <2>2
  <2>4. Parsed(f)
    BY <1>8, <2>1
  <2>5. Parsed(f \o g)'
    BY <1>1, <2>3, <2>4, ParsedNext
  <2>6. XmlFound(content)' = f \o g
    BY <1>20, <1>21, <2>1, <2>2
  <2> QED BY <2>5, <2>6 DEF Parsed
<1>23. shown' = << >> => xw = << >>
  <2> SUFFICES ASSUME shown' = << >> PROVE xw = << >>
    OBVIOUS
  <2>1. shown \o w = << >>
    BY <1>1, <1>18
  <2>2. shown = << >> /\ w = << >>
    BY <1>0, <2>1, ConcatEqualIffEmpty
  <2>3. x = << >>
    BY <1>8, <2>2
  <2>4. x \o w = << >>
    BY <2>2, <2>3, ConcatEmptySeq
  <2> QED BY <1>13, <2>4
<1>24. rounds' = 0 => shown' = xw /\ withheld' = FlattenSeq(yz)
  BY <1>1, <1>2, <1>8, <1>13, <1>18, <1>19
<1> QED BY <1>1, <1>15, <1>17, <1>18, <1>22, <1>23, <1>24

LEMMA XmlBegins ==
  CutXml(<< >>).text = << >> /\ CutXml(<< >>).buf.pending = << >> /\ CutXml(<< >>).blocks = << >>
  /\ XmlFound(<< >>) = << >>
<1>1. PICK o : o = CutXml(<< >>)
  OBVIOUS
<1>2. o = Output(Idle, << >>, << >>)
  BY <1>1, CutXmlProp DEF Start
<1>3. o.buf = Idle /\ o.text = << >> /\ o.blocks = << >>
  BY <1>2, OutputFields
<1>4. Idle.pending = << >>
  BY DEF Idle
<1>5. EachXml(<< >>) = << >>
  BY DEF EachXml
<1>6. XmlFound(<< >>) = << >>
  BY <1>1, <1>3, <1>5, FlattenEmpty DEF XmlFound
<1> QED BY <1>1, <1>3, <1>4, <1>6

LEMMA XmlSoFarStep ==
  ASSUME Typed, Apart, Fresh, XmlSoFar, [Next]_vars
  PROVE  XmlSoFar'
<1> SUFFICES ASSUME at' = "model" PROVE XmlSoFar'
  BY DEF XmlSoFar
<1>1. CASE Chunk
  BY <1>1, XmlChunk
<1>2. CASE /\ RunTools /\ ~ buf.on /\ content = << >>
           /\ UNCHANGED <<textVars, callVars>> /\ rounds' = rounds + 1
  <2>1. buf' = buf /\ content' = << >>
    BY <1>2 DEF textVars
  <2>2. buf'.pending = << >> /\ ~ buf'.on
    BY <1>2, <2>1 DEF Typed, BufOK
  <2>3. Parsed(<< >>)'
    <3>1. Parsed(<< >>)
      BY <1>2, ParsedStart
    <3>2. UNCHANGED <<parsed, content, heard>>
      BY <1>2 DEF textVars, callVars
    <3> QED BY <3>1, <3>2 DEF Parsed
  <2>4. rounds' # 0
    BY <1>2 DEF Typed, GraphOK
  <2> QED BY <2>1, <2>2, <2>3, <2>4, XmlBegins DEF XmlSoFar
<1>3. CASE at = "model" /\ UNCHANGED <<textVars, callVars, graphVars, toolVars>>
  <2>1. UNCHANGED <<content, buf, shown, withheld, heard, parsed, rounds>>
    BY <1>3 DEF textVars, callVars, toolVars
  <2> QED BY <1>3, <2>1 DEF XmlSoFar, Parsed, XmlFound, Lacks
<1> QED BY <1>1, <1>2, <1>3, ModelKinds

LEMMA XmlSoFarInit == Init => XmlSoFar
<1> SUFFICES ASSUME Init PROVE XmlSoFar
  OBVIOUS
<1>1. Typed /\ Apart
  BY TypeInit, ApartInit
<1>2. content = << >> /\ shown = << >> /\ withheld = << >> /\ buf.pending = << >> /\ ~ buf.on
  BY DEF Init, Idle
<1>3. Parsed(<< >>)
  BY <1>1, <1>2, ParsedStart
<1> QED BY <1>2, <1>3, XmlBegins, FlattenEmpty DEF XmlSoFar

(* The chunks of the first generation, if it has no other markup.              *)
LEMMA XmlSoFarAlike == ASSUME Typed, XmlSoFar PROVE ChunksAlike
<1> SUFFICES ASSUME at = "model", rounds = 0, XmlOnly(content)
             PROVE  /\ shown = CutXml(content).text
                    /\ buf.pending = CutXml(content).buf.pending
                    /\ withheld = FlattenSeq(CutXml(content).blocks)
  BY DEF ChunksAlike
<1>0. content \in Seq(Tokens)
  BY DEF Typed
<1>1. ~ Has(content, "[CALLS]") /\ ~ Has(content, "{")
  <2>1. "[CALLS]" \notin Calls /\ "{" \notin Calls
    BY TextAssumption DEF Tags
  <2>2. \A i \in 1..Len(content) : content[i] \in {"<call>", "</call>", "text"} \cup Calls
    BY DEF XmlOnly
  <2>3. ASSUME NEW i \in 1..Len(content) PROVE content[i] # "[CALLS]" /\ content[i] # "{"
    BY <2>1, <2>2
  <2> QED BY <1>0, <2>3, HasAt
<1>2. Lacks(content, {"mistral", "json"})
  BY <1>1, Openings DEF Lacks
<1> QED BY <1>2 DEF XmlSoFar

-----------------------------------------------------------------------------
(* JSON, object by object.                                                    *)

(* Every object so far is closed and nothing else came.                       *)
Closed(s) == JsonRun(s).held = << >> /\ ~ JsonRun(s).over

Later(x, o) == [held |-> o.held, calls |-> x \o o.calls, over |-> o.over]

LEMMA SameObject ==
  ASSUME NEW a \in Objects, NEW b \in Objects, a.held = b.held, a.calls = b.calls, a.over = b.over
  PROVE  a = b
  BY DEF Objects

LEMMA JsonStepCases ==
  ASSUME NEW o \in Objects, NEW t \in Tokens
  PROVE  LET h == Append(o.held, t)
             r == JsonStep(o, t)
         IN  /\ o.held = << >> /\ t # "{" =>
                  r.held = o.held /\ r.calls = o.calls /\ r.over = TRUE
             /\ ~ (o.held = << >> /\ t # "{") /\ (o.over \/ Depth(h) > 0) =>
                  r.held = h /\ r.calls = o.calls /\ r.over = o.over
             /\ ~ (o.held = << >> /\ t # "{") /\ ~ (o.over \/ Depth(h) > 0) =>
                  /\ r.held = << >> /\ r.over = o.over
                  /\ r.calls = IF Len(h) = 3 /\ h[2] \in Calls THEN Append(o.calls, h[2]) ELSE o.calls
<1>1. PICK h : h = Append(o.held, t)
  OBVIOUS
<1>2. o \in [held : Seq(Tokens), calls : Seq(Calls), over : BOOLEAN]
  BY DEF Objects
<1>3. CASE o.held = << >> /\ t # "{"
  <2>1. JsonStep(o, t) = [o EXCEPT !.over = TRUE]
    BY <1>3 DEF JsonStep
  <2> QED BY <1>1, <1>2, <1>3, <2>1
<1>4. CASE ~ (o.held = << >> /\ t # "{") /\ (o.over \/ Depth(h) > 0)
  <2>1. JsonStep(o, t) = [o EXCEPT !.held = h]
    BY <1>1, <1>4 DEF JsonStep
  <2> QED BY <1>1, <1>2, <1>4, <2>1
<1>5. CASE ~ (o.held = << >> /\ t # "{") /\ ~ (o.over \/ Depth(h) > 0)
  <2>1. PICK g : g = IF Len(h) = 3 /\ h[2] \in Calls THEN Append(o.calls, h[2]) ELSE o.calls
    OBVIOUS
  <2>2. JsonStep(o, t) = [o EXCEPT !.held = << >>, !.calls = g]
    BY <1>1, <1>5, <2>1 DEF JsonStep
  <2>3. JsonStep(o, t).held = << >> /\ JsonStep(o, t).calls = g /\ JsonStep(o, t).over = o.over
    BY <1>2, <2>2
  <2> QED BY <1>1, <1>5, <2>1, <2>3
<1> QED BY <1>1, <1>3, <1>4, <1>5

LEMMA JsonStepLater ==
  ASSUME NEW o \in Objects, NEW x \in Seq(Calls), NEW t \in Tokens
  PROVE  JsonStep(Later(x, o), t) = Later(x, JsonStep(o, t))
<1>1. PICK p : p = Later(x, o)
  OBVIOUS
<1>2. PICK y \in Seq(Calls) : y = o.calls
  BY DEF Objects
<1>3. PICK xy \in Seq(Calls) : xy = x \o y
  BY ConcatProperties
<1>4. p.held = o.held /\ p.calls = xy /\ p.over = o.over /\ p \in Objects
  BY <1>1, <1>2, <1>3 DEF Later, Objects
<1>5. PICK h \in Seq(Tokens) : h = Append(o.held, t)
  BY AppendProperties DEF Objects
<1>9. PICK r \in Objects : r = JsonStep(o, t)
  BY JsonStepType
<1>10. PICK q \in Objects : q = JsonStep(p, t)
  BY <1>4, JsonStepType
<1>11. PICK z \in Seq(Calls) : z = x \o r.calls
  BY ConcatProperties DEF Objects
<1>12. PICK v \in Objects : v = Later(x, r)
  BY <1>11 DEF Later, Objects
<1>13. v.held = r.held /\ v.calls = z /\ v.over = r.over
  BY <1>11, <1>12 DEF Later
<1>14. /\ p.held = << >> /\ t # "{" =>
            q.held = p.held /\ q.calls = p.calls /\ q.over = TRUE
       /\ ~ (p.held = << >> /\ t # "{") /\ (p.over \/ Depth(h) > 0) =>
            q.held = h /\ q.calls = p.calls /\ q.over = p.over
       /\ ~ (p.held = << >> /\ t # "{") /\ ~ (p.over \/ Depth(h) > 0) =>
            /\ q.held = << >> /\ q.over = p.over
            /\ q.calls = IF Len(h) = 3 /\ h[2] \in Calls THEN Append(p.calls, h[2]) ELSE p.calls
  <2>1. Append(p.held, t) = h
    BY <1>4, <1>5
  <2> HIDE <1>1
  <2>2. p \in Objects
    BY <1>4
  <2> QED BY <1>10, <2>1, <2>2, JsonStepCases
<1>6. CASE o.held = << >> /\ t # "{"
  <2>1. r.held = o.held /\ r.calls = y /\ r.over = TRUE
    BY <1>2, <1>6, <1>9, JsonStepCases
  <2>2. q.held = o.held /\ q.calls = xy /\ q.over = TRUE
    BY <1>4, <1>6, <1>14
  <2>3. z = xy
    BY <1>3, <1>11, <2>1
  <2>4. q = v
    BY <1>13, <2>1, <2>2, <2>3, SameObject
  <2> QED BY <1>1, <1>9, <1>10, <1>12, <2>4
<1>7. CASE ~ (o.held = << >> /\ t # "{") /\ (o.over \/ Depth(h) > 0)
  <2>1. r.held = h /\ r.calls = y /\ r.over = o.over
    BY <1>2, <1>5, <1>7, <1>9, JsonStepCases
  <2>2. q.held = h /\ q.calls = xy /\ q.over = o.over
    BY <1>4, <1>7, <1>14
  <2>3. z = xy
    BY <1>3, <1>11, <2>1
  <2>4. q = v
    BY <1>13, <2>1, <2>2, <2>3, SameObject
  <2> QED BY <1>1, <1>9, <1>10, <1>12, <2>4
<1>8. CASE ~ (o.held = << >> /\ t # "{") /\ ~ (o.over \/ Depth(h) > 0)
  <2>1. r.held = << >> /\ r.over = o.over
        /\ r.calls = IF Len(h) = 3 /\ h[2] \in Calls THEN Append(y, h[2]) ELSE y
    BY <1>2, <1>5, <1>8, <1>9, JsonStepCases
  <2>2. q.held = << >> /\ q.over = o.over
        /\ q.calls = IF Len(h) = 3 /\ h[2] \in Calls THEN Append(xy, h[2]) ELSE xy
    BY <1>4, <1>8, <1>14
  <2>3. z = q.calls
    <3>1. CASE Len(h) = 3 /\ h[2] \in Calls
      <4>1. PICK c \in Calls : c = h[2]
        BY <3>1
      <4>2. r.calls = Append(y, c) /\ q.calls = Append(xy, c)
        BY <2>1, <2>2, <3>1, <4>1
      <4>3. x \o Append(y, c) = Append(xy, c)
        BY <1>3, ConcatAppend
      <4> QED BY <1>11, <4>2, <4>3
    <3>2. CASE ~ (Len(h) = 3 /\ h[2] \in Calls)
      BY <1>3, <1>11, <2>1, <2>2, <3>2
    <3> QED BY <3>1, <3>2
  <2>4. q = v
    BY <1>13, <2>1, <2>2, <2>3, SameObject
  <2> QED BY <1>1, <1>9, <1>10, <1>12, <2>4
<1> QED BY <1>6, <1>7, <1>8

(* What follows closed objects is parsed as if it stood alone.                *)
LEMMA JsonRunConcat ==
  ASSUME NEW s \in Seq(Tokens), Closed(s)
  PROVE  \A r \in Seq(Tokens) : JsonRun(s \o r) = Later(JsonRun(s).calls, JsonRun(r))
<1>1. PICK x \in Seq(Calls) : x = JsonRun(s).calls
  BY JsonRunProp DEF Objects
<1> DEFINE N == {r \in Seq(Tokens) : JsonRun(s \o r) = Later(x, JsonRun(r))}
<1>2. << >> \in N
  <2>1. PICK a \in Objects : a = JsonRun(s)
    BY JsonRunProp
  <2>2. a = [held |-> << >>, calls |-> x, over |-> FALSE]
    BY <1>1, <2>1 DEF Closed, Objects
  <2>3. Later(x, NoObject) = [held |-> << >>, calls |-> x \o << >>, over |-> FALSE]
    BY DEF Later, NoObject
  <2>4. x \o << >> = x /\ s \o << >> = s
    BY ConcatEmptySeq
  <2>5. JsonRun(s \o << >>) = Later(x, JsonRun(<< >>))
    BY <2>1, <2>2, <2>3, <2>4, JsonRunProp
  <2> QED BY <2>5, EmptySeq
<1>3. ASSUME NEW r \in Seq(Tokens), NEW t \in Tokens, r \in N PROVE Append(r, t) \in N
  <2>1. PICK u \in Seq(Tokens) : u = s \o r
    BY ConcatProperties
  <2>2. s \o Append(r, t) = Append(u, t)
    BY <2>1, ConcatAppend
  <2>3. PICK o \in Objects : o = JsonRun(r)
    BY JsonRunProp
  <2>4. JsonRun(u) = Later(x, o)
    BY <1>3, <2>1, <2>3
  <2>5. JsonRun(Append(u, t)) = JsonStep(JsonRun(u), t) /\ JsonRun(Append(r, t)) = JsonStep(o, t)
    BY <2>3, JsonRunProp
  <2>6. JsonStep(Later(x, o), t) = Later(x, JsonStep(o, t))
    BY JsonStepLater
  <2> QED BY <2>2, <2>4, <2>5, <2>6, AppendProperties
<1>4. Seq(Tokens) \subseteq N
  <2> HIDE DEF N
  <2> QED BY <1>2, <1>3, SeqInduction
<1> QED BY <1>1, <1>4

LEMMA ClosedConcat ==
  ASSUME NEW s \in Seq(Tokens), NEW r \in Seq(Tokens), Closed(s), Closed(r)
  PROVE  Closed(s \o r) /\ JsonRun(s \o r).calls = JsonRun(s).calls \o JsonRun(r).calls
<1>1. JsonRun(s \o r) = Later(JsonRun(s).calls, JsonRun(r))
  BY JsonRunConcat
<1>2. PICK x : x = JsonRun(s).calls \o JsonRun(r).calls
  OBVIOUS
<1>3. JsonRun(s \o r) = [held |-> JsonRun(r).held, calls |-> x, over |-> JsonRun(r).over]
  BY <1>1, <1>2 DEF Later
<1>4. /\ JsonRun(s \o r).held = JsonRun(r).held /\ JsonRun(s \o r).calls = x
      /\ JsonRun(s \o r).over = JsonRun(r).over
  BY <1>3
<1> QED BY <1>2, <1>4 DEF Closed

LEMMA UptoNext ==
  ASSUME NEW T, NEW s \in Seq(T), NEW n \in Nat, n + 1 <= Len(s)
  PROVE  Upto(s, n + 1) = Append(Upto(s, n), s[n + 1]) /\ s[n + 1] \in T /\ Upto(s, n) \in Seq(T)
<1>1. n \in 0..Len(s) /\ n + 1 \in 1..Len(s) /\ n + 1 \in 0..Len(s)
  OBVIOUS
<1>2. PICK a \in Seq(T) : a = Upto(s, n)
  BY <1>1, CutAt
<1>3. PICK b \in Seq(T) : b = Upto(s, n + 1)
  BY <1>1, CutAt
<1>4. PICK x \in T : x = s[n + 1]
  BY <1>1, ElementOfSeq
<1>5. Len(a) = n /\ \A k \in 1..n : a[k] = s[k]
  BY <1>1, <1>2, CutAt
<1>6. Len(b) = n + 1 /\ \A k \in 1..n + 1 : b[k] = s[k]
  BY <1>1, <1>3, CutAt, ZenonT(40)
<1>7. \A k \in 1..Len(a) : b[k] = a[k]
  BY <1>5, <1>6
<1>8. b = Append(a, b[Len(b)])
  BY <1>5, <1>6, <1>7, MapAppend
<1>9. b[Len(b)] = x
  BY <1>4, <1>6
<1> QED BY <1>2, <1>3, <1>4, <1>8, <1>9

LEMMA DepthAppend ==
  ASSUME NEW s \in Seq(Tokens), NEW t \in Tokens
  PROVE  /\ Depth(s) \in Int
         /\ t = "{" => Depth(Append(s, t)) = Depth(s) + 1
         /\ t = "}" => Depth(Append(s, t)) = Depth(s) - 1
         /\ t # "{" /\ t # "}" => Depth(Append(s, t)) = Depth(s)
<1>1. PICK a \in Nat : a = Count(s, "{")
  BY CountNat
<1>2. PICK b \in Nat : b = Count(s, "}")
  BY CountNat
<1>3. PICK q \in Seq(Tokens) : q = Append(s, t)
  BY AppendProperties
<1>4. (t = "{" => Count(q, "{") = a + 1) /\ (t # "{" => Count(q, "{") = a)
  <2>1. Count(q, "{") = a + (IF t = "{" THEN 1 ELSE 0)
    BY <1>1, <1>3, CountAppend, ZenonT(40)
  <2>2. CASE t = "{"
    BY <2>1, <2>2
  <2>3. CASE t # "{"
    <3>1. Count(q, "{") = a + 0
      BY <2>1, <2>3
    <3>2. a + 0 = a
      OBVIOUS
    <3> QED BY <2>3, <3>1, <3>2
  <2> QED BY <2>2, <2>3
<1>5. (t = "}" => Count(q, "}") = b + 1) /\ (t # "}" => Count(q, "}") = b)
  <2>1. Count(q, "}") = b + (IF t = "}" THEN 1 ELSE 0)
    BY <1>2, <1>3, CountAppend, ZenonT(40)
  <2>2. CASE t = "}"
    BY <2>1, <2>2
  <2>3. CASE t # "}"
    <3>1. Count(q, "}") = b + 0
      BY <2>1, <2>3
    <3>2. b + 0 = b
      OBVIOUS
    <3> QED BY <2>3, <3>1, <3>2
  <2> QED BY <2>2, <2>3
<1>6. PICK d : d = Depth(s)
  OBVIOUS
<1>7. PICK e : e = Depth(q)
  OBVIOUS
<1>8. d = a - b
  BY <1>1, <1>2, <1>6 DEF Depth
<1>9. e = Count(q, "{") - Count(q, "}")
  BY <1>7 DEF Depth
<1>10. /\ t = "{" => e = d + 1
       /\ t = "}" => e = d - 1
       /\ t # "{" /\ t # "}" => e = d
  <2>1. CASE t = "{"
    <3>1. e = (a + 1) - b
      BY <1>4, <1>5, <1>9, <2>1
    <3>2. (a + 1) - b = (a - b) + 1
      OBVIOUS
    <3>3. t # "}"
      BY <2>1
    <3> QED BY <1>8, <2>1, <3>1, <3>2, <3>3
  <2>2. CASE t = "}"
    <3>1. e = a - (b + 1)
      BY <1>4, <1>5, <1>9, <2>2
    <3>2. a - (b + 1) = (a - b) - 1
      OBVIOUS
    <3>3. t # "{"
      BY <2>2
    <3> QED BY <1>8, <2>2, <3>1, <3>2, <3>3
  <2>3. CASE t # "{" /\ t # "}"
    BY <1>4, <1>5, <1>8, <1>9, <2>3
  <2> QED BY <2>1, <2>2, <2>3
<1>11. d \in Int
  BY <1>8
<1> QED BY <1>3, <1>6, <1>7, <1>10, <1>11

(* The braces by name: the SMT backend cannot read them as strings.            *)
LBrace == "{"
RBrace == "}"

LEMMA Braces ==
  LBrace \in Tokens /\ RBrace # LBrace /\ Opening["json"] = LBrace
  BY Openings DEF LBrace, RBrace, Tokens, Tags

LEMMA DepthNext ==
  ASSUME NEW s \in Seq(Tokens), NEW t \in Tokens
  PROVE  /\ Depth(s) \in Int /\ Depth(Append(s, t)) \in Int
         /\ t = LBrace => Depth(Append(s, t)) = Depth(s) + 1
         /\ t = RBrace => Depth(Append(s, t)) = Depth(s) - 1
         /\ t # LBrace /\ t # RBrace => Depth(Append(s, t)) = Depth(s)
<1>1. Append(s, t) \in Seq(Tokens)
  BY AppendProperties
<1>2. Depth(Append(s, t)) \in Int
  BY <1>1, DepthAppend
<1> QED BY <1>2, DepthAppend, Zenon DEF LBrace, RBrace

LEMMA JsonHolds ==
  ASSUME NEW o \in Objects, NEW t \in Tokens, o.held # << >> \/ t = LBrace, ~ o.over
  PROVE  /\ Depth(Append(o.held, t)) > 0 =>
              JsonStep(o, t).held = Append(o.held, t) /\ ~ JsonStep(o, t).over
         /\ ~ (Depth(Append(o.held, t)) > 0) =>
              JsonStep(o, t).held = << >> /\ ~ JsonStep(o, t).over
  BY JsonStepCases, ZenonT(40) DEF LBrace

(* The braces of a block that is cut match for the first time at its end.       *)
LEMMA BalancedFirst ==
  ASSUME NEW q \in Seq(Tokens), NEW i, i = FirstBalanced(q), i # 0
  PROVE  /\ i \in 1..Len(q) /\ q[i] = RBrace /\ Depth(Upto(q, i)) = 0
         /\ \A k \in 1..Len(q) : q[k] = RBrace /\ Depth(Upto(q, k)) = 0 => i <= k
<1>1. PICK ends : ends = {k \in 1..Len(q) : BalancedAt(q, k)}
  OBVIOUS
<1>2. ends # {} /\ i = Min(ends)
  BY <1>1 DEF FirstBalanced
<1>3. i \in ends /\ \A k \in ends : i <= k
  <2>1. ends \subseteq Nat
    BY <1>1
  <2> QED BY <1>2, <2>1, MinProp
<1>4. \A k \in 1..Len(q) : BalancedAt(q, k) <=> q[k] = RBrace /\ Depth(Upto(q, k)) = 0
  BY Zenon DEF BalancedAt, RBrace
<1> QED BY <1>1, <1>3, <1>4

(* The parser holds an object that is not closed.                             *)
Holding(u) ==
  Depth(u) > 0 /\ u # << >> /\ JsonRun(u).held = u /\ ~ JsonRun(u).over

LEMMA JsonBlock ==
  ASSUME NEW q \in Seq(Tokens), q # << >>, q[1] = LBrace, NEW i, i = FirstBalanced(q), i # 0
  PROVE  Closed(Upto(q, i))
<1>1. /\ i \in 1..Len(q) /\ q[i] = RBrace /\ Depth(Upto(q, i)) = 0
      /\ \A k \in 1..Len(q) : q[k] = RBrace /\ Depth(Upto(q, k)) = 0 => i <= k
  BY BalancedFirst
<1>2. Len(q) \in Nat
  OBVIOUS
<1> DEFINE N == {n \in Nat : n + 1 < i => Holding(Upto(q, n + 1))}
<1>3. ASSUME NEW u \in Seq(Tokens), NEW t \in Tokens, NEW v, v = Append(u, t),
             JsonRun(u).held = u, ~ JsonRun(u).over, u # << >> \/ t = LBrace, Depth(v) > 0
      PROVE  JsonRun(v).held = v /\ ~ JsonRun(v).over
  <2>1. PICK o \in Objects : o = JsonRun(u)
    BY JsonRunProp
  <2>2. JsonRun(v) = JsonStep(o, t)
    BY <1>3, <2>1, JsonRunProp
  <2>3. Append(o.held, t) = v /\ (o.held # << >> \/ t = LBrace) /\ ~ o.over
    BY <1>3, <2>1
  <2>4. Depth(Append(o.held, t)) > 0 =>
          JsonStep(o, t).held = Append(o.held, t) /\ ~ JsonStep(o, t).over
    BY <2>3, JsonHolds
  <2> QED BY <1>3, <2>2, <2>3, <2>4
<1>4. 0 \in N
  <2> SUFFICES ASSUME 0 + 1 < i PROVE Holding(Upto(q, 0 + 1))
    OBVIOUS
  <2>0. 0 + 1 = 1
    OBVIOUS
  <2>1. PICK u \in Seq(Tokens) : u = << >>
    BY EmptySeq
  <2>2. Upto(q, 0) = u
    BY <2>1, SubSeqEmpty DEF Upto
  <2>3. PICK t \in Tokens : t = LBrace
    BY Braces
  <2>4. PICK v \in Seq(Tokens) : v = Append(u, t)
    BY AppendProperties
  <2>5. Upto(q, 1) = v
    <3>1. 0 + 1 <= Len(q) /\ 0 \in Nat /\ 0 + 1 = 1
      BY <1>1
    <3>2. Upto(q, 0 + 1) = Append(Upto(q, 0), q[0 + 1])
      BY <3>1, UptoNext
    <3> QED BY <2>2, <2>3, <2>4, <3>1, <3>2
  <2>6. Depth(u) = 0
    <3>1. Depth(u) = Count(u, LBrace) - Count(u, RBrace)
      BY Zenon DEF Depth, LBrace, RBrace
    <3>2. Count(u, LBrace) = 0 /\ Count(u, RBrace) = 0
      BY <2>1, CountEmpty
    <3> QED BY <3>1, <3>2
  <2>7. Depth(v) = Depth(u) + 1
    BY <2>1, <2>3, <2>4, DepthNext
  <2>8. Depth(v) > 0
    BY <2>6, <2>7
  <2>9. JsonRun(u).held = u /\ ~ JsonRun(u).over
    BY <2>1, JsonRunProp DEF NoObject
  <2>10. v # << >>
    BY <2>4, AppendProperties
  <2>11. JsonRun(v).held = v /\ ~ JsonRun(v).over
    BY <1>3, <2>3, <2>4, <2>8, <2>9
  <2> QED BY <2>0, <2>5, <2>8, <2>10, <2>11 DEF Holding
<1>5. ASSUME NEW n \in Nat, n \in N PROVE n + 1 \in N
  <2>0. PICK m \in Nat : m = n + 1
    <3>1. n + 1 \in Nat
      OBVIOUS
    <3> QED BY <3>1
  <2> SUFFICES ASSUME m + 1 < i PROVE Holding(Upto(q, m + 1))
    BY <2>0
  <2>1. m < i /\ m + 1 <= Len(q) /\ m + 1 \in 1..Len(q)
    BY <1>1, <1>2
  <2>2. Holding(Upto(q, m))
    BY <1>5, <2>0, <2>1
  <2>3. PICK u \in Seq(Tokens) : u = Upto(q, m)
    BY <2>1, UptoNext
  <2>4. PICK t \in Tokens : t = q[m + 1]
    BY <2>1, UptoNext
  <2>5. PICK v \in Seq(Tokens) : v = Append(u, t)
    BY AppendProperties
  <2>6. Upto(q, m + 1) = v
    BY <2>1, <2>3, <2>4, <2>5, UptoNext
  <2>7. Depth(u) > 0 /\ u # << >> /\ JsonRun(u).held = u /\ ~ JsonRun(u).over
    BY <2>2, <2>3 DEF Holding
  <2>8. PICK d \in Int : d = Depth(u)
    BY DepthNext
  <2>9. PICK e \in Int : e = Depth(v)
    <3>1. Depth(v) \in Int
      BY <2>4, DepthNext
    <3> QED BY <3>1
  <2>10. (t = LBrace => e = d + 1) /\ (t = RBrace => e = d - 1) /\ (t # LBrace /\ t # RBrace => e = d)
    BY <2>5, <2>8, <2>9, DepthNext
  <2>11. t = RBrace => e # 0
    <3> SUFFICES ASSUME t = RBrace, e = 0 PROVE FALSE
      OBVIOUS
    <3>1. i <= m + 1
      BY <1>1, <2>1, <2>4, <2>6, <2>9
    <3> QED BY <1>1, <2>1, <3>1
  <2>12. e > 0
    <3>1. d > 0
      BY <2>7, <2>8
    <3> QED BY <2>10, <2>11, <3>1, Braces
  <2>13. JsonRun(v).held = v /\ ~ JsonRun(v).over
    <3>1. Depth(v) > 0
      BY <2>9, <2>12
    <3> QED BY <1>3, <2>5, <2>7, <3>1
  <2>14. v # << >>
    BY <2>5, AppendProperties
  <2>15. Depth(v) > 0
    BY <2>9, <2>12
  <2> QED BY <2>6, <2>13, <2>14, <2>15 DEF Holding
<1>6. Nat \subseteq N
  <2> HIDE DEF N
  <2> QED BY <1>4, <1>5, NumberInduction
<1>7. i # 1
  <2> SUFFICES ASSUME i = 1 PROVE FALSE
    OBVIOUS
  <2>1. q[1] = RBrace
    BY <1>1
  <2> QED BY <2>1, Braces
<1>8. PICK m \in Nat : m + 1 = i /\ m >= 1
  <2>1. i - 1 \in Nat /\ (i - 1) + 1 = i /\ i - 1 >= 1
    BY <1>1, <1>7
  <2> QED BY <2>1
<1>9. Holding(Upto(q, m))
  <2>1. PICK n \in Nat : n + 1 = m
    <3>1. m - 1 \in Nat /\ (m - 1) + 1 = m
      BY <1>8
    <3> QED BY <3>1
  <2>2. n \in N
    BY <1>6
  <2>3. n + 1 < i
    BY <1>8, <2>1
  <2> QED BY <2>1, <2>2, <2>3
<1>10. m + 1 <= Len(q)
  BY <1>1, <1>8
<1>11. PICK u \in Seq(Tokens) : u = Upto(q, m)
  BY <1>10, UptoNext
<1>12. PICK t \in Tokens : t = q[m + 1]
  BY <1>10, UptoNext
<1>13. PICK v \in Seq(Tokens) : v = Append(u, t)
  BY AppendProperties
<1>14. Upto(q, i) = v
  BY <1>8, <1>10, <1>11, <1>12, <1>13, UptoNext
<1>15. PICK o \in Objects : o = JsonRun(u)
  BY JsonRunProp
<1>16. JsonRun(v) = JsonStep(o, t)
  BY <1>13, <1>15, JsonRunProp
<1>17. o.held = u /\ u # << >> /\ ~ o.over /\ Depth(v) = 0
  BY <1>1, <1>9, <1>11, <1>14, <1>15 DEF Holding
<1>18. JsonStep(o, t).held = << >> /\ ~ JsonStep(o, t).over
  <2>1. Append(o.held, t) = v /\ (o.held # << >> \/ t = LBrace)
    BY <1>13, <1>17
  <2>2. ~ (Depth(Append(o.held, t)) > 0) =>
          JsonStep(o, t).held = << >> /\ ~ JsonStep(o, t).over
    BY <1>17, <2>1, JsonHolds
  <2>3. ~ (Depth(v) > 0)
    BY <1>17
  <2> QED BY <2>1, <2>2, <2>3
<1> QED BY <1>14, <1>16, <1>17, <1>18 DEF Closed

LEMMA StripFirst ==
  ASSUME NEW s \in Seq(Tokens), NEW mode \in Modes, s # << >>, s[1] = Opening[mode],
         Lacks(s, Modes \ {mode}), Strip(s).calls # << >>
  PROVE  Strip(s).text = << >>
<1>1. Upto(s, First(s, Opening[mode]) - 1) = << >>
  BY FromStart
<1>2. \A m \in Modes : m # mode => ~ Has(s, Opening[m])
  BY DEF Lacks
<1>3. CASE mode = "xml"
  <2>1. ~ Has(s, "[CALLS]") /\ ~ Has(s, Opening["json"])
    BY <1>2, <1>3, Openings DEF Modes
  <2>2. Strip(s).text = Upto(s, First(s, "<call>") - 1)
    BY <2>1, Openings, Zenon DEF Strip
  <2> QED BY <1>1, <1>3, <2>2, Openings
<1>4. CASE mode = "mistral"
  <2>1. ~ Has(s, "<call>") /\ ~ Has(s, Opening["json"])
    BY <1>2, <1>4, Openings DEF Modes
  <2>2. Strip(s).text = Upto(s, First(s, "[CALLS]") - 1)
    BY <2>1, Openings, Zenon DEF Strip
  <2> QED BY <1>1, <1>4, <2>2, Openings
<1>5. CASE mode = "json"
  <2>1. ~ Has(s, "<call>") /\ ~ Has(s, "[CALLS]")
    BY <1>2, <1>5, Openings DEF Modes
  <2>2. Strip(s).text = Upto(s, First(s, Opening["json"]) - 1)
    BY <2>1, Openings, Zenon DEF Strip
  <2> QED BY <1>1, <1>5, <2>2
<1> QED BY <1>3, <1>4, <1>5 DEF Modes

LEMMA StripJson ==
  ASSUME NEW s \in Seq(Tokens), s # << >>, s[1] = LBrace, Lacks(s, {"xml", "mistral"})
  PROVE  Strip(s).calls = JsonRun(s).calls
<1>1. ~ Has(s, "<call>") /\ ~ Has(s, "[CALLS]")
  BY Openings DEF Lacks
<1>2. Has(s, LBrace) /\ From(s, LBrace) = s
  BY FromStart
<1>3. Strip(s).calls = JsonCalls(s)
  <2>1. CASE JsonCalls(s) # << >>
    BY <1>1, <1>2, <2>1, Zenon DEF Strip, LBrace
  <2>2. CASE JsonCalls(s) = << >>
    BY <1>1, <1>2, <2>2, Zenon DEF Strip, LBrace
  <2> QED BY <2>1, <2>2
<1> QED BY <1>3, JsonCallsRun

LEMMA CutNowhere ==
  ASSUME NEW s \in Seq(Tokens), NEW k \in 0..Len(s), Upto(s, k) = << >>
  PROVE  k = 0 /\ After(s, k) = s
<1>1. Len(Upto(s, k)) = k
  BY CutAt
<1>2. k = 0
  BY <1>1
<1>3. PICK r \in Seq(Tokens) : r = After(s, k)
  BY CutAt
<1>4. Upto(s, k) \o After(s, k) = s
  BY CutAt
<1>5. << >> \o r = r
  BY ConcatEmptySeq
<1> QED BY <1>2, <1>3, <1>4, <1>5

LEMMA ResumeJson ==
  ASSUME NEW rest \in Seq(Tokens), NEW blocks, NEW out, out = Resume("json", rest, blocks),
         out.text = << >>
  PROVE  /\ out.blocks = blocks /\ out.buf.pending = rest
         /\ out.buf.on => out.buf.mode = "json" /\ rest[1] = LBrace
<1>1. PICK i : i = First(rest, LBrace)
  OBVIOUS
<1>2. i \in 0..Len(rest) /\ (i # 0 => rest[i] = LBrace)
  BY <1>1, FirstProp
<1>3. CASE i = 0
  <2>1. out = Output([Idle EXCEPT !.mode = "json"], rest, blocks)
    BY <1>1, <1>3, Braces DEF Resume
  <2>2. PICK b : b = [Idle EXCEPT !.mode = "json"]
    OBVIOUS
  <2>3. out.buf = b /\ out.text = rest /\ out.blocks = blocks
    BY <2>1, <2>2, OutputFields
  <2>4. b.pending = << >> /\ ~ b.on
    <3>1. b = [on |-> FALSE, mode |-> "json", pending |-> << >>]
      BY <2>2, OffOK DEF Modes
    <3> QED BY <3>1
  <2> QED BY <2>3, <2>4
<1>4. CASE i # 0
  <2>1. out = Output([on |-> TRUE, mode |-> "json", pending |-> After(rest, i - 1)],
                     Upto(rest, i - 1), blocks)
    BY <1>1, <1>4, Braces DEF Resume
  <2>2. PICK b : b = [on |-> TRUE, mode |-> "json", pending |-> After(rest, i - 1)]
    OBVIOUS
  <2>3. out.buf = b /\ out.text = Upto(rest, i - 1) /\ out.blocks = blocks
    BY <2>1, <2>2, OutputFields
  <2>4. PICK k \in 0..Len(rest) : k = i - 1
    <3>1. i - 1 \in 0..Len(rest)
      BY <1>2, <1>4
    <3> QED BY <3>1
  <2>5. k = 0 /\ After(rest, k) = rest
    <3>1. Upto(rest, k) = << >>
      BY <2>3, <2>4
    <3> QED BY <3>1, CutNowhere
  <2>6. i = 1
    BY <1>2, <2>4, <2>5
  <2>7. b.pending = rest /\ b.mode = "json"
    BY <2>2, <2>4, <2>5
  <2> QED BY <1>2, <1>4, <2>3, <2>6, <2>7
<1> QED BY <1>3, <1>4

LEMMA CallsOfOne ==
  ASSUME NEW b \in Seq(Tokens)
  PROVE  CallsOf(<<b>>) = Strip(b).calls
<1>1. PICK bs \in Seq(Seq(Tokens)) : bs = <<b>>
  <2>1. PICK e \in Seq(Seq(Tokens)) : e = << >>
    BY EmptySeq
  <2>2. Append(e, b) \in Seq(Seq(Tokens))
    BY AppendProperties
  <2>3. Append(e, b) = <<b>>
    BY <2>1
  <2> QED BY <2>2, <2>3
<1>2. PICK x \in Seq(Calls) : x = Strip(b).calls
  BY StripProp
<1>3. EachCalls(bs) = <<x>>
  BY <1>1, <1>2 DEF EachCalls
<1>4. FlattenSeq(<<x>>) = x
  BY FlattenOne
<1> QED BY <1>1, <1>2, <1>3, <1>4, CallsOfEach

LEMMA CallsOfNone == CallsOf(<< >>) = << >>
<1>1. PICK bs \in Seq(Seq(Tokens)) : bs = << >>
  BY EmptySeq
<1>2. EachCalls(bs) = << >>
  BY <1>1 DEF EachCalls
<1> QED BY <1>1, <1>2, CallsOfEach, FlattenEmpty

LEMMA ClosedNothing == Closed(<< >>) /\ JsonRun(<< >>).calls = << >>
  BY JsonRunProp DEF Closed, NoObject

(* Where JSON is cut, and nothing of it is shown, before it are whole objects. *)
CutsJson(q, out) ==
  \E b \in Seq(Tokens) :
    /\ out.buf.pending \in Seq(Tokens) /\ q = b \o out.buf.pending
    /\ out.buf.on => out.buf.mode = "json" /\ out.buf.pending[1] = LBrace
    /\ Closed(b) /\ CallsOf(out.blocks) = JsonRun(b).calls

LEMMA CutJsonCuts ==
  ASSUME NEW q \in Seq(Tokens), q # << >>, q[1] = LBrace, Lacks(q, {"xml", "mistral"}),
         NEW out, out = CutJson(q), out.text = << >>
  PROVE  CutsJson(q, out)
<1>1. PICK i : i = FirstBalanced(q)
  OBVIOUS
<1>2. CASE i = 0
  <2>1. PICK b : b = [on |-> TRUE, mode |-> "json", pending |-> q]
    OBVIOUS
  <2>2. out = Output(b, << >>, << >>)
    BY <1>1, <1>2, <2>1 DEF CutJson
  <2>3. out.buf = b /\ out.blocks = << >>
    BY <2>2, OutputFields
  <2>4. b.pending = q /\ b.mode = "json"
    BY <2>1
  <2>5. PICK e \in Seq(Tokens) : e = << >>
    BY EmptySeq
  <2>6. q = e \o q
    BY <2>5, ConcatEmptySeq
  <2>7. Closed(e) /\ CallsOf(out.blocks) = JsonRun(e).calls
    BY <2>3, <2>5, CallsOfNone, ClosedNothing
  <2> QED BY <2>3, <2>4, <2>6, <2>7 DEF CutsJson
<1>3. CASE i # 0
  <2>1. i \in 1..Len(q) /\ i \in 0..Len(q)
    BY <1>1, <1>3, BalancedFirst, BalancedRange
  <2>2. PICK b \in Seq(Tokens) : b = Upto(q, i)
    BY <2>1, CutAt
  <2>3. PICK rest \in Seq(Tokens) : rest = After(q, i)
    BY <2>1, CutAt
  <2>4. q = b \o rest /\ Len(b) = i /\ \A k \in 1..i : b[k] = q[k]
    BY <2>1, <2>2, <2>3, CutAt
  <2>5. out = Resume("json", rest, <<b>>)
    BY <1>1, <1>3, <2>2, <2>3 DEF CutJson
  <2>6. /\ out.blocks = <<b>> /\ out.buf.pending = rest
        /\ out.buf.on => out.buf.mode = "json" /\ rest[1] = LBrace
    BY <2>5, ResumeJson
  <2>7. Closed(b)
    BY <1>1, <1>3, <2>2, JsonBlock
  <2>8. b # << >> /\ b[1] = LBrace
    <3>1. 1 \in 1..i /\ i # 0
      BY <2>1
    <3>2. Len(<< >>) = 0
      OBVIOUS
    <3> QED BY <2>4, <3>1, <3>2
  <2>9. Lacks(b, {"xml", "mistral"})
    BY <2>4, LacksConcat
  <2>10. CallsOf(<<b>>) = JsonRun(b).calls
    BY <2>8, <2>9, CallsOfOne, StripJson
  <2> QED BY <2>4, <2>6, <2>7, <2>10 DEF CutsJson
<1> QED BY <1>2, <1>3

LEMMA FeedJson ==
  ASSUME NEW b, BufOK(b), b.on => b.mode = "json" /\ b.pending[1] = LBrace,
         NEW chunk \in Seq(Tokens), NEW q \in Seq(Tokens), q = b.pending \o chunk,
         Lacks(q, {"xml", "mistral"}), NEW out, out = Feed(b, chunk), out.text = << >>
  PROVE  (q # << >> => q[1] = LBrace) /\ CutsJson(q, out)
<1>0. b \in Bufs /\ b.pending \in Seq(Tokens) /\ b.on \in BOOLEAN
  BY DEF BufOK, Bufs
<1>1. Lacks(chunk, {"xml", "mistral"})
  BY <1>0, LacksConcat
<1>2. CASE b.on
  <2>1. PICK p \in Seq(Tokens) : p = b.pending
    BY <1>0
  <2>2. p # << >> /\ p[1] = LBrace
    BY <1>2, <2>1 DEF BufOK
  <2>3. Len(p) \in Nat \ {0} /\ Len(chunk) \in Nat
    BY <2>2, EmptySeq
  <2>4. 1 \in 1..Len(p) + Len(chunk) /\ 1 <= Len(p)
    BY <2>3
  <2>5. q[1] = p[1] /\ Len(q) = Len(p) + Len(chunk)
    BY <2>1, <2>4, ConcatProperties
  <2>6. q # << >>
    BY <2>3, <2>5, EmptySeq
  <2>7. out = CutJson(q)
    BY <1>2 DEF Feed, Cut
  <2> QED BY <2>2, <2>5, <2>6, <2>7, CutJsonCuts
<1>3. CASE ~ b.on
  <2>1. b.pending = << >> /\ q = chunk
    <3>1. b.pending = << >>
      BY <1>3 DEF BufOK
    <3> QED BY <3>1, ConcatEmptySeq
  <2>2. ~ Has(chunk, "<call>") /\ ~ Has(chunk, "[CALLS]")
    BY <1>1, Openings DEF Lacks
  <2>3. CASE ~ Has(chunk, LBrace)
    <3>1. Opens(chunk) = "none"
      BY <2>2, <2>3, Zenon DEF Opens, LBrace
    <3>2. out = Output(b, chunk, << >>)
      BY <1>3, <3>1 DEF Feed
    <3>3. out.buf = b /\ chunk = << >> /\ out.blocks = << >>
      BY <3>2, OutputFields
    <3>4. PICK e \in Seq(Tokens) : e = << >>
      BY EmptySeq
    <3>5. q = e \o b.pending
      BY <2>1, <3>3, <3>4, ConcatEmptySeq
    <3>6. Closed(e) /\ CallsOf(out.blocks) = JsonRun(e).calls
      BY <3>3, <3>4, CallsOfNone, ClosedNothing
    <3>7. q = << >>
      BY <2>1, <3>3
    <3> QED BY <1>0, <1>3, <3>3, <3>5, <3>6, <3>7 DEF CutsJson
  <2>4. CASE Has(chunk, LBrace)
    <3>1. Opens(chunk) = "json"
      BY <2>2, <2>4, Zenon DEF Opens, LBrace
    <3>2. PICK k \in 0..Len(chunk) : k = First(chunk, LBrace) - 1
      BY <2>4, FromCut
    <3>3. PICK before \in Seq(Tokens) : before = Upto(chunk, k)
      BY CutAt
    <3>4. PICK rest \in Seq(Tokens) : rest = After(chunk, k)
      BY CutAt
    <3>5. rest # << >>
      <4>1. Len(rest) = Len(chunk) - k
        BY <3>4, CutAt
      <4>2. First(chunk, LBrace) \in 0..Len(chunk)
        BY FirstProp
      <4>3. Len(rest) > 0
        BY <3>2, <4>1, <4>2
      <4> QED BY <4>3
    <3>6. PICK w \in Outs : w = CutJson(rest)
      <4>1. Sound(Cut("json", rest), rest)
        BY <3>5, CutSound DEF Modes
      <4>2. Cut("json", rest) = CutJson(rest)
        BY DEF Cut
      <4> QED BY <4>1, <4>2 DEF Sound
    <3>7. out = [w EXCEPT !.text = before \o w.text]
      <4>1. out = [Cut("json", After(chunk, First(chunk, Opening["json"]) - 1))
                     EXCEPT !.text = Upto(chunk, First(chunk, Opening["json"]) - 1) \o @]
        BY <1>3, <3>1 DEF Feed
      <4>2. out = [Cut("json", rest) EXCEPT !.text = before \o @]
        BY <3>2, <3>3, <3>4, <4>1, Braces
      <4>3. Cut("json", rest) = w
        BY <3>6 DEF Cut
      <4> QED BY <4>2, <4>3
    <3>8. out.text = before \o w.text /\ out.blocks = w.blocks /\ out.buf = w.buf
      BY <3>7 DEF Outs
    <3>9. before = << >> /\ w.text = << >>
      <4>1. PICK x \in Seq(Tokens) : x = w.text
        BY DEF Outs
      <4>2. before \o x = << >>
        BY <3>8, <4>1
      <4> QED BY <4>1, <4>2, ConcatEqualIffEmpty
    <3>10. k = 0 /\ rest = chunk
      BY <3>3, <3>4, <3>9, CutNowhere
    <3>11. chunk[1] = LBrace
      <4>1. First(chunk, LBrace) \in 0..Len(chunk)
            /\ (First(chunk, LBrace) # 0 => chunk[First(chunk, LBrace)] = LBrace)
        BY FirstProp
      <4>2. First(chunk, LBrace) = 1
        BY <3>2, <3>10, <4>1
      <4> QED BY <4>1, <4>2
    <3>12. CutsJson(q, w)
      BY <2>1, <3>5, <3>6, <3>9, <3>10, <3>11, CutJsonCuts
    <3> QED BY <2>1, <3>8, <3>11, <3>12 DEF CutsJson
  <2> QED BY <2>3, <2>4
<1> QED BY <1>0, <1>2, <1>3

-----------------------------------------------------------------------------
(* A generation in JSON, of which nothing is shown: whole objects and what is  *)
(* held back.                                                                *)

JsonSoFar ==
  at = "model" /\ shown = << >> /\ Lacks(content, {"xml", "mistral"}) =>
    /\ buf.on => buf.mode = "json" /\ buf.pending[1] = LBrace
    /\ content # << >> => content[1] = LBrace
    /\ \E whole \in Seq(Tokens) :
         content = whole \o buf.pending /\ Closed(whole) /\ Parsed(JsonRun(whole).calls)

LEMMA ConcatFirst ==
  ASSUME NEW T, NEW s \in Seq(T), NEW r \in Seq(T), s # << >>
  PROVE  s \o r # << >> /\ (s \o r)[1] = s[1]
<1>1. Len(s) \in Nat \ {0} /\ Len(r) \in Nat
  BY EmptySeq
<1>2. 1 \in 1..Len(s) + Len(r) /\ 1 <= Len(s)
  BY <1>1
<1>3. (s \o r)[1] = s[1]
  BY <1>2, ConcatProperties
<1> QED BY <1>3, ConcatEqualIffEmpty

LEMMA JsonChunk ==
  ASSUME Typed, JsonSoFar, Chunk
  PROVE  JsonSoFar'
<1>0. /\ content \in Seq(Tokens) /\ shown \in Seq(Tokens)
      /\ BufOK(buf) /\ buf \in Bufs /\ buf.pending \in Seq(Tokens)
  BY DEF Typed, BufOK, Bufs
<1>1. PICK chunk \in Chunks, out \in Outs :
        /\ chunk \in Seq(Tokens)
        /\ out = Feed(buf, chunk)
        /\ content' = content \o chunk
        /\ heard' = heard \o chunk /\ buf' = out.buf
        /\ shown' = shown \o out.text
        /\ parsed' = parsed \o CallsOf(out.blocks)
  BY ChunkTyped
<1>2. at = "model"
  BY DEF Chunk
<1> SUFFICES ASSUME shown' = << >>, Lacks(content', {"xml", "mistral"})
             PROVE  /\ buf'.on => buf'.mode = "json" /\ buf'.pending[1] = LBrace
                    /\ content' # << >> => content'[1] = LBrace
                    /\ \E whole \in Seq(Tokens) :
                         /\ content' = whole \o buf'.pending /\ Closed(whole)
                         /\ Parsed(JsonRun(whole).calls)'
  BY DEF JsonSoFar
<1>3. shown = << >> /\ out.text = << >>
  <2>1. PICK x \in Seq(Tokens) : x = out.text
    BY DEF Outs
  <2>2. shown \o x = << >>
    BY <1>1, <2>1
  <2> QED BY <1>0, <2>1, <2>2, ConcatEqualIffEmpty
<1>4. Lacks(content, {"xml", "mistral"})
  BY <1>0, <1>1, LacksConcat
<1>5. PICK c \in Seq(Tokens) :
        content = c \o buf.pending /\ Closed(c) /\ Parsed(JsonRun(c).calls)
  BY <1>2, <1>3, <1>4 DEF JsonSoFar
<1>6. (buf.on => buf.mode = "json" /\ buf.pending[1] = LBrace)
      /\ (content # << >> => content[1] = LBrace)
  BY <1>2, <1>3, <1>4 DEF JsonSoFar
<1>7. PICK p \in Seq(Tokens) : p = buf.pending
  BY <1>0
<1>8. PICK q \in Seq(Tokens) : q = p \o chunk
  BY <1>1, ConcatProperties
<1>9. content' = c \o q
  <2>1. (c \o p) \o chunk = c \o (p \o chunk)
    BY <1>1, ConcatAssociative, SMTT(30)
  <2> QED BY <1>1, <1>5, <1>7, <1>8, <2>1
<1>10. Lacks(q, {"xml", "mistral"})
  BY <1>9, LacksConcat
<1>11. (q # << >> => q[1] = LBrace) /\ CutsJson(q, out)
  BY <1>0, <1>1, <1>3, <1>6, <1>7, <1>8, <1>10, FeedJson
<1>12. PICK b \in Seq(Tokens) :
         /\ out.buf.pending \in Seq(Tokens) /\ q = b \o out.buf.pending
         /\ out.buf.on => out.buf.mode = "json" /\ out.buf.pending[1] = LBrace
         /\ Closed(b) /\ CallsOf(out.blocks) = JsonRun(b).calls
  BY <1>11 DEF CutsJson
<1>13. content' # << >> => content'[1] = LBrace
  <2>1. CASE content # << >>
    <3>1. (content \o chunk)[1] = content[1]
      BY <1>0, <1>1, <2>1, ConcatFirst
    <3> QED BY <1>1, <1>6, <2>1, <3>1
  <2>2. CASE content = << >>
    <3>1. c = << >>
      <4>1. c \o p = << >>
        BY <1>5, <1>7, <2>2
      <4> QED BY <4>1, ConcatEqualIffEmpty
    <3>2. content' = q
      BY <1>9, <3>1, ConcatEmptySeq
    <3> QED BY <1>11, <3>2
  <2> QED BY <2>1, <2>2
<1>14. PICK r \in Seq(Tokens) : r = out.buf.pending
  BY <1>12
<1>15. PICK w \in Seq(Tokens) : w = c \o b
  BY ConcatProperties
<1>16. content' = w \o r
  <2>1. (c \o b) \o r = c \o (b \o r)
    BY ConcatAssociative, SMTT(30)
  <2> QED BY <1>9, <1>12, <1>14, <1>15, <2>1
<1>17. PICK f \in Seq(Calls) : f = JsonRun(c).calls
  BY JsonRunProp DEF Objects
<1>18. PICK g \in Seq(Calls) : g = JsonRun(b).calls
  BY JsonRunProp DEF Objects
<1>19. Closed(w) /\ JsonRun(w).calls = f \o g
  BY <1>5, <1>12, <1>15, <1>17, <1>18, ClosedConcat
<1>20. Parsed(f \o g)'
  <2>1. parsed' = parsed \o g /\ Parsed(f)
    BY <1>1, <1>5, <1>12, <1>17, <1>18
  <2> QED BY <1>1, <2>1, ParsedNext
<1>21. Parsed(JsonRun(w).calls)'
  BY <1>19, <1>20 DEF Parsed
<1> QED BY <1>1, <1>12, <1>13, <1>14, <1>16, <1>19, <1>21

LEMMA JsonSoFarStep ==
  ASSUME Typed, Apart, Fresh, JsonSoFar, [Next]_vars
  PROVE  JsonSoFar'
<1> SUFFICES ASSUME at' = "model" PROVE JsonSoFar'
  BY DEF JsonSoFar
<1>1. CASE Chunk
  BY <1>1, JsonChunk
<1>2. CASE /\ RunTools /\ ~ buf.on /\ content = << >>
           /\ UNCHANGED <<textVars, callVars>> /\ rounds' = rounds + 1
  <2>1. buf' = buf /\ content' = << >>
    BY <1>2 DEF textVars
  <2>2. buf'.pending = << >> /\ ~ buf'.on
    BY <1>2, <2>1 DEF Typed, BufOK
  <2>3. Parsed(<< >>)'
    <3>1. Parsed(<< >>)
      BY <1>2, ParsedStart
    <3>2. UNCHANGED <<parsed, content, heard>>
      BY <1>2 DEF textVars, callVars
    <3> QED BY <3>1, <3>2 DEF Parsed
  <2>4. PICK e \in Seq(Tokens) : e = << >>
    BY EmptySeq
  <2>5. content' = e \o buf'.pending
    BY <2>1, <2>2, <2>4, ConcatEmptySeq
  <2>6. Closed(e) /\ JsonRun(e).calls = << >>
    BY <2>4, ClosedNothing
  <2>7. Parsed(JsonRun(e).calls)'
    BY <2>3, <2>6 DEF Parsed
  <2> QED BY <2>1, <2>2, <2>5, <2>6, <2>7 DEF JsonSoFar
<1>3. CASE at = "model" /\ UNCHANGED <<textVars, callVars, graphVars, toolVars>>
  <2>1. UNCHANGED <<content, buf, shown, heard, parsed>>
    BY <1>3 DEF textVars, callVars, toolVars
  <2> QED BY <1>3, <2>1 DEF JsonSoFar, Parsed, Lacks
<1> QED BY <1>1, <1>2, <1>3, ModelKinds

LEMMA JsonSoFarInit == Init => JsonSoFar
<1> SUFFICES ASSUME Init PROVE JsonSoFar
  OBVIOUS
<1>1. Typed /\ Apart
  BY TypeInit, ApartInit
<1>2. content = << >> /\ buf.pending = << >> /\ ~ buf.on
  BY DEF Init, Idle
<1>3. Parsed(<< >>)
  BY <1>1, <1>2, ParsedStart
<1>4. PICK e \in Seq(Tokens) : e = << >>
  BY EmptySeq
<1>5. content = e \o buf.pending
  BY <1>2, <1>4, ConcatEmptySeq
<1>6. Closed(e) /\ Parsed(JsonRun(e).calls)
  BY <1>3, <1>4, ClosedNothing
<1> QED BY <1>2, <1>5, <1>6 DEF JsonSoFar

-----------------------------------------------------------------------------
(* A generation in Mistral's format with one marker, of which nothing is shown: *)
(* a block is closed by the chunk that opens it.                              *)

Marker == Opening["mistral"]

MistralSoFar ==
  at = "model" /\ shown = << >> /\ Lacks(content, {"xml", "json"}) /\ Count(content, Marker) <= 1 =>
    /\ buf.pending = << >>
    /\ content # << >> => content[1] = Marker
    /\ Parsed(Strip(content).calls)

LEMMA StripNothing == Strip(<< >>).calls = << >>
<1>1. PICK e \in Seq(Tokens) : e = << >>
  BY EmptySeq
<1>2. \A t : ~ Has(e, t)
  BY <1>1, HasCount, CountEmpty
<1>3. Strip(e).calls = << >>
  BY <1>2, Zenon DEF Strip
<1> QED BY <1>1, <1>3

LEMMA CutMistralAll ==
  ASSUME NEW s \in Seq(Tokens), NEW out, out = CutMistral(s), out.text = << >>
  PROVE  out.buf.pending = << >> /\ ~ out.buf.on /\ out.blocks = <<s>>
<1>1. PICK i \in 0..Len(s) : i = LastBracket(s)
  BY BracketRange
<1>2. PICK b : b = [Idle EXCEPT !.mode = "mistral"]
  OBVIOUS
<1>3. out = Output(b, After(s, i), <<Upto(s, i)>>)
  BY <1>1, <1>2 DEF CutMistral
<1>4. out.buf = b /\ out.text = After(s, i) /\ out.blocks = <<Upto(s, i)>>
  BY <1>3, OutputFields
<1>5. PICK u \in Seq(Tokens) : u = Upto(s, i)
  BY CutAt
<1>6. u \o << >> = s
  <2>1. Upto(s, i) \o After(s, i) = s
    BY CutAt
  <2> QED BY <1>4, <1>5, <2>1
<1>7. u = s
  BY <1>6, ConcatEmptySeq
<1>8. b = [on |-> FALSE, mode |-> "mistral", pending |-> << >>]
  BY <1>2, OffOK DEF Modes
<1> QED BY <1>4, <1>5, <1>7, <1>8

LEMMA FeedMistral ==
  ASSUME NEW b, BufOK(b), ~ b.on, NEW chunk \in Seq(Tokens), Lacks(chunk, {"xml", "json"}),
         NEW out, out = Feed(b, chunk), out.text = << >>
  PROVE  /\ out.buf.pending = << >>
         /\ \/ chunk = << >> /\ out.blocks = << >>
            \/ chunk # << >> /\ chunk[1] = Marker /\ out.blocks = <<chunk>>
<1>0. b.pending = << >>
  BY DEF BufOK
<1>1. ~ Has(chunk, "<call>") /\ ~ Has(chunk, LBrace)
  BY Openings, Braces DEF Lacks
<1>2. CASE ~ Has(chunk, Marker)
  <2>1. Opens(chunk) = "none"
    BY <1>1, <1>2, Openings, Zenon DEF Opens, LBrace, Marker
  <2>2. out = Output(b, chunk, << >>)
    BY <2>1 DEF Feed
  <2>3. out.buf = b /\ chunk = << >> /\ out.blocks = << >>
    BY <2>2, OutputFields
  <2> QED BY <1>0, <2>3
<1>3. CASE Has(chunk, Marker)
  <2>1. Opens(chunk) = "mistral"
    BY <1>1, <1>3, Openings, Zenon DEF Opens, LBrace, Marker
  <2>2. PICK k \in 0..Len(chunk) : k = First(chunk, Marker) - 1
    BY <1>3, FromCut
  <2>3. PICK before \in Seq(Tokens) : before = Upto(chunk, k)
    BY CutAt
  <2>4. PICK rest \in Seq(Tokens) : rest = After(chunk, k)
    BY CutAt
  <2>5. rest # << >>
    <3>1. Len(rest) = Len(chunk) - k
      BY <2>4, CutAt
    <3>2. First(chunk, Marker) \in 0..Len(chunk)
      BY FirstProp
    <3>3. Len(rest) > 0
      BY <2>2, <3>1, <3>2
    <3> QED BY <3>3
  <2>6. PICK w \in Outs : w = CutMistral(rest)
    <3>1. Sound(Cut("mistral", rest), rest)
      BY <2>5, CutSound DEF Modes
    <3>2. Cut("mistral", rest) = CutMistral(rest)
      BY DEF Cut
    <3> QED BY <3>1, <3>2 DEF Sound
  <2>7. out = [w EXCEPT !.text = before \o w.text]
    <3>1. out = [Cut("mistral", After(chunk, First(chunk, Opening["mistral"]) - 1))
                   EXCEPT !.text = Upto(chunk, First(chunk, Opening["mistral"]) - 1) \o @]
      BY <2>1 DEF Feed
    <3>2. out = [Cut("mistral", rest) EXCEPT !.text = before \o @]
      BY <2>2, <2>3, <2>4, <3>1 DEF Marker
    <3>3. Cut("mistral", rest) = w
      BY <2>6 DEF Cut
    <3> QED BY <3>2, <3>3
  <2>8. out.text = before \o w.text /\ out.blocks = w.blocks /\ out.buf = w.buf
    BY <2>7 DEF Outs
  <2>9. before = << >> /\ w.text = << >>
    <3>1. PICK x \in Seq(Tokens) : x = w.text
      BY DEF Outs
    <3>2. before \o x = << >>
      BY <2>8, <3>1
    <3> QED BY <3>1, <3>2, ConcatEqualIffEmpty
  <2>10. k = 0 /\ rest = chunk
    BY <2>3, <2>4, <2>9, CutNowhere
  <2>11. chunk[1] = Marker
    <3>1. First(chunk, Marker) \in 0..Len(chunk)
          /\ (First(chunk, Marker) # 0 => chunk[First(chunk, Marker)] = Marker)
      BY FirstProp
    <3>2. First(chunk, Marker) = 1
      BY <2>2, <2>10, <3>1
    <3> QED BY <3>1, <3>2
  <2>12. w.buf.pending = << >> /\ w.blocks = <<chunk>>
    BY <2>6, <2>9, <2>10, CutMistralAll
  <2> QED BY <2>5, <2>8, <2>10, <2>11, <2>12
<1> QED BY <1>2, <1>3

LEMMA MistralChunk ==
  ASSUME Typed, MistralSoFar, Chunk
  PROVE  MistralSoFar'
<1>0. /\ content \in Seq(Tokens) /\ shown \in Seq(Tokens) /\ parsed \in Seq(Calls) /\ BufOK(buf)
  BY DEF Typed
<1>1. PICK chunk \in Chunks, out \in Outs :
        /\ chunk \in Seq(Tokens)
        /\ out = Feed(buf, chunk)
        /\ content' = content \o chunk
        /\ heard' = heard \o chunk /\ buf' = out.buf
        /\ shown' = shown \o out.text
        /\ parsed' = parsed \o CallsOf(out.blocks)
  BY ChunkTyped
<1>2. at = "model"
  BY DEF Chunk
<1> SUFFICES ASSUME shown' = << >>, Lacks(content', {"xml", "json"}), Count(content', Marker) <= 1
             PROVE  /\ buf'.pending = << >>
                    /\ content' # << >> => content'[1] = Marker
                    /\ Parsed(Strip(content).calls)'
  BY DEF MistralSoFar
<1>3. shown = << >> /\ out.text = << >>
  <2>1. PICK x \in Seq(Tokens) : x = out.text
    BY DEF Outs
  <2>2. shown \o x = << >>
    BY <1>1, <2>1
  <2> QED BY <1>0, <2>1, <2>2, ConcatEqualIffEmpty
<1>4. Lacks(content, {"xml", "json"}) /\ Lacks(chunk, {"xml", "json"})
  BY <1>0, <1>1, LacksConcat
<1>5. PICK a \in Nat : a = Count(content, Marker)
  BY <1>0, CountNat
<1>6. PICK e \in Nat : e = Count(chunk, Marker)
  BY <1>1, CountNat
<1>7. a + e <= 1
  <2>1. Count(content', Marker) = a + e
    BY <1>0, <1>1, <1>5, <1>6, CountConcat
  <2> QED BY <2>1
<1>8. Count(content, Marker) <= 1
  BY <1>5, <1>7
<1>9. buf.pending = << >> /\ (content # << >> => content[1] = Marker) /\ Parsed(Strip(content).calls)
  BY <1>2, <1>3, <1>4, <1>8 DEF MistralSoFar
<1>10. ~ buf.on
  BY <1>0, <1>9 DEF BufOK
<1>11. /\ out.buf.pending = << >>
       /\ \/ chunk = << >> /\ out.blocks = << >>
          \/ chunk # << >> /\ chunk[1] = Marker /\ out.blocks = <<chunk>>
  BY <1>0, <1>1, <1>3, <1>4, <1>10, FeedMistral
<1>12. CASE chunk = << >> /\ out.blocks = << >>
  <2>1. content' = content
    BY <1>0, <1>1, <1>12, ConcatEmptySeq
  <2>2. PICK g \in Seq(Calls) : g = << >>
    BY EmptySeq
  <2>3. PICK f \in Seq(Calls) : f = Strip(content).calls
    BY <1>0, StripProp
  <2>4. parsed' = parsed \o g
    BY <1>1, <1>12, <2>2, CallsOfNone
  <2>5. Parsed(f \o g)'
    BY <1>1, <1>9, <2>3, <2>4, ParsedNext
  <2>6. f \o g = f
    BY <2>2, ConcatEmptySeq
  <2>7. Strip(content)'.calls = f \o g
    BY <2>1, <2>3, <2>6
  <2>8. Parsed(Strip(content).calls)'
    BY <2>5, <2>7 DEF Parsed
  <2> QED BY <1>1, <1>9, <1>11, <2>1, <2>8
<1>13. CASE chunk # << >> /\ chunk[1] = Marker /\ out.blocks = <<chunk>>
  <2>1. e # 0
    <3>1. Has(chunk, Marker)
      BY <1>1, <1>13, FromStart
    <3> QED BY <1>1, <1>6, <3>1, HasCount
  <2>2. content = << >>
    <3> SUFFICES ASSUME content # << >> PROVE FALSE
      OBVIOUS
    <3>1. Has(content, Marker)
      BY <1>0, <1>9, FromStart
    <3>2. a # 0
      BY <1>0, <1>5, <3>1, HasCount
    <3> QED BY <1>7, <2>1, <3>2
  <2>3. content' = chunk
    BY <1>1, <2>2, ConcatEmptySeq
  <2>4. PICK g \in Seq(Calls) : g = Strip(chunk).calls
    BY <1>1, StripProp
  <2>5. CallsOf(out.blocks) = g
    BY <1>1, <1>13, <2>4, CallsOfOne
  <2>6. PICK f \in Seq(Calls) : f = << >>
    BY EmptySeq
  <2>7. Parsed(f)
    BY <1>9, <2>2, <2>6, StripNothing
  <2>8. Parsed(f \o g)'
    BY <1>1, <2>5, <2>7, ParsedNext
  <2>9. f \o g = g
    BY <2>6, ConcatEmptySeq
  <2>10. Strip(content)'.calls = f \o g
    BY <2>3, <2>4, <2>9
  <2>11. Parsed(Strip(content).calls)'
    BY <2>8, <2>10 DEF Parsed
  <2> QED BY <1>1, <1>11, <1>13, <2>3, <2>11
<1> QED BY <1>11, <1>12, <1>13

LEMMA MistralSoFarStep ==
  ASSUME Typed, Apart, Fresh, MistralSoFar, [Next]_vars
  PROVE  MistralSoFar'
<1> SUFFICES ASSUME at' = "model" PROVE MistralSoFar'
  BY DEF MistralSoFar
<1>1. CASE Chunk
  BY <1>1, MistralChunk
<1>2. CASE /\ RunTools /\ ~ buf.on /\ content = << >>
           /\ UNCHANGED <<textVars, callVars>> /\ rounds' = rounds + 1
  <2>1. buf' = buf /\ content' = << >> /\ content = << >>
    BY <1>2 DEF textVars
  <2>2. buf'.pending = << >>
    BY <1>2, <2>1 DEF Typed, BufOK
  <2>3. Parsed(<< >>)'
    <3>1. Parsed(<< >>)
      BY <1>2, ParsedStart
    <3>2. UNCHANGED <<parsed, content, heard>>
      BY <1>2 DEF textVars, callVars
    <3> QED BY <3>1, <3>2 DEF Parsed
  <2>4. Parsed(Strip(content).calls)'
    <3>1. Strip(content)'.calls = << >>
      BY <2>1, StripNothing
    <3> QED BY <2>3, <3>1 DEF Parsed
  <2> QED BY <2>1, <2>2, <2>4 DEF MistralSoFar
<1>3. CASE at = "model" /\ UNCHANGED <<textVars, callVars, graphVars, toolVars>>
  <2>1. UNCHANGED <<content, buf, shown, heard, parsed>>
    BY <1>3 DEF textVars, callVars, toolVars
  <2> QED BY <1>3, <2>1 DEF MistralSoFar, Parsed, Lacks
<1> QED BY <1>1, <1>2, <1>3, ModelKinds

LEMMA MistralSoFarInit == Init => MistralSoFar
<1> SUFFICES ASSUME Init PROVE MistralSoFar
  OBVIOUS
<1>1. Typed /\ Apart
  BY TypeInit, ApartInit
<1>2. content = << >> /\ buf.pending = << >>
  BY DEF Init, Idle
<1>3. Parsed(<< >>)
  BY <1>1, <1>2, ParsedStart
<1> QED BY <1>2, <1>3, StripNothing DEF MistralSoFar

-----------------------------------------------------------------------------
(* One format: what is said at the end of a generation, parsed as a whole.     *)

OneFormat ==
  /\ \E mode \in Modes : Lacks(heard, Modes \ {mode})
  /\ Count(heard, Marker) <= 1

Within == \A t \in Tokens : Count(content, t) <= Count(heard, t)

LEMMA OtherModes ==
  /\ Modes \ {"xml"} = {"mistral", "json"}
  /\ Modes \ {"mistral"} = {"xml", "json"}
  /\ Modes \ {"json"} = {"xml", "mistral"}
  BY DEF Modes

LEMMA FormatsOne ==
  ASSUME Cardinality(Formats) <= 1
  PROVE  \E mode \in Modes : Lacks(heard, Modes \ {mode})
<1>1. IsFiniteSet(Modes)
  <2>1. IsFiniteSet({"xml"})
    BY FS_Singleton
  <2>2. IsFiniteSet({"xml"} \cup {"mistral"})
    BY <2>1, FS_AddElement
  <2>3. IsFiniteSet(({"xml"} \cup {"mistral"}) \cup {"json"})
    BY <2>2, FS_AddElement
  <2>4. Modes = ({"xml"} \cup {"mistral"}) \cup {"json"}
    BY DEF Modes
  <2> QED BY <2>3, <2>4
<1>2. IsFiniteSet(Formats) /\ Formats \subseteq Modes
  BY <1>1, FS_Subset DEF Formats
<1>3. ASSUME NEW a \in Formats, NEW b \in Formats PROVE a = b
  <2> SUFFICES ASSUME a # b PROVE FALSE
    OBVIOUS
  <2>1. IsFiniteSet({a}) /\ Cardinality({a}) = 1
    BY FS_Singleton
  <2>2. Cardinality({a} \cup {b}) = 2
    BY <2>1, FS_AddElement
  <2>3. {a} \cup {b} \subseteq Formats
    OBVIOUS
  <2>4. Cardinality({a} \cup {b}) <= Cardinality(Formats)
    BY <1>2, <2>3, FS_Subset
  <2>5. Cardinality(Formats) \in Nat
    BY <1>2, FS_CardinalityType
  <2> QED BY <2>2, <2>4, <2>5
<1>4. PICK mode \in Modes : \A m \in Formats : m = mode
  <2>1. CASE Formats = {}
    <3>1. "xml" \in Modes
      BY DEF Modes
    <3> QED BY <2>1, <3>1
  <2>2. CASE Formats # {}
    BY <1>2, <1>3, <2>2
  <2> QED BY <2>1, <2>2
<1>5. Lacks(heard, Modes \ {mode})
  BY <1>4 DEF Formats, Lacks
<1> QED BY <1>5

LEMMA WithinLacks ==
  ASSUME Typed, Within, NEW modes, modes \subseteq Modes, Lacks(heard, modes)
  PROVE  Lacks(content, modes)
<1>0. content \in Seq(Tokens) /\ heard \in Seq(Tokens)
  BY DEF Typed
<1>1. ASSUME NEW mode \in modes PROVE Count(content, Opening[mode]) = 0
  <2>1. PICK t \in Tokens : t = Opening[mode]
    BY OpeningToken
  <2>2. Count(heard, t) = 0
    BY <1>0, <2>1, LacksCount
  <2>3. Count(content, t) <= Count(heard, t)
    BY DEF Within
  <2>4. Count(content, t) \in Nat
    BY <1>0, CountNat
  <2>5. Count(content, t) = 0
    BY <2>2, <2>3, <2>4
  <2> QED BY <2>1, <2>5
<1> QED BY <1>0, <1>1, LacksCount

LEMMA XmlSilent ==
  ASSUME NEW s \in Seq(Tokens), s # << >>, CutXml(s).text = << >>
  PROVE  s[1] = "<call>"
<1> SUFFICES ASSUME s[1] # "<call>" PROVE FALSE
  OBVIOUS
<1>1. Len(s) \in Nat /\ Len(s) # 0
  BY EmptySeq
<1>2. 1 \in 0..Len(s)
  BY <1>1
<1>3. PICK a \in Seq(Tokens) : a = Upto(s, 1)
  BY <1>2, CutAt
<1>4. PICK r \in Seq(Tokens) : r = After(s, 1)
  BY <1>2, CutAt
<1>5. a \o r = s /\ Len(a) = 1 /\ \A k \in 1..1 : a[k] = s[k]
  BY <1>2, <1>3, <1>4, CutAt, ZenonT(40)
<1>6. ~ Has(a, "<call>")
  <2>1. \A i \in 1..Len(a) : a[i] # "<call>"
    BY <1>5
  <2> QED BY <2>1, HasAt
<1>7. CutXml(a) = Output(Idle, a, << >>)
  BY <1>6, CutXmlPlain
<1>8. CutXml(a).text = a
  BY <1>7, OutputFields
<1>9. PICK o \in Outs : o = CutXml(CutXml(a).buf.pending \o r)
  <2>1. PICK b \in Outs : b = CutXml(a)
    BY CutXmlProp
  <2>2. b.buf.pending \in Seq(Tokens)
    BY DEF Outs, Bufs
  <2>3. b.buf.pending \o r \in Seq(Tokens)
    BY <2>2, ConcatProperties
  <2> QED BY <2>1, <2>3, CutXmlProp
<1>10. PICK x \in Seq(Tokens) : x = o.text
  BY DEF Outs
<1>11. PICK y : y = CutXml(a).blocks \o o.blocks
  OBVIOUS
<1>12. PICK z \in Seq(Tokens) : z = a \o x
  BY ConcatProperties
<1>13. CutXml(a \o r) = Output(o.buf, z, y)
  <2>1. LET w == CutXml(CutXml(a).buf.pending \o r) IN
        CutXml(a \o r) = Output(w.buf, CutXml(a).text \o w.text, CutXml(a).blocks \o w.blocks)
    BY CutXmlConcat
  <2> QED BY <1>8, <1>9, <1>10, <1>11, <1>12, <2>1
<1>14. z = << >>
  BY <1>5, <1>13, OutputFields
<1>15. a \o x = << >>
  BY <1>12, <1>14
<1>16. a = << >>
  BY <1>15, ConcatEqualIffEmpty
<1> QED BY <1>5, <1>16

LEMMA XmlCallsFound ==
  ASSUME NEW s \in Seq(Tokens), XmlCalls(s) = << >>
  PROVE  /\ XmlFound(s) = << >>
         /\ CutXml(s).buf.on => XmlCall(CutXml(s).buf.pending) = << >>
<1>1. PICK out \in Outs : out = CutXml(s)
  BY CutXmlProp
<1>2. PICK bs \in Seq(Seq(Tokens)) : bs = out.blocks
  BY DEF Outs
<1>3. PICK p \in Seq(Tokens) : p = out.buf.pending
  BY DEF Outs, Bufs
<1>4. PICK e \in Seq(Seq(Calls)) : e = EachXml(bs)
  BY EachXmlProp
<1>5. PICK x \in Seq(Calls) : x = XmlCall(p)
  BY XmlCallProp
<1>6. PICK f \in Seq(Calls) : f = FlattenSeq(e)
  BY FlattenType
<1>7. XmlFound(s) = f
  BY <1>1, <1>2, <1>4, <1>6 DEF XmlFound
<1>8. PICK all : all = IF out.buf.on THEN Append(bs, p) ELSE bs
  OBVIOUS
<1>9. XmlCalls(s) = FlattenSeq(EachXml(all))
  BY <1>1, <1>2, <1>3, <1>8 DEF XmlCalls, EachXml
<1>10. CASE out.buf.on
  <2>1. EachXml(all) = Append(e, x)
    BY <1>4, <1>5, <1>8, <1>10, EachXmlAppend
  <2>2. FlattenSeq(Append(e, x)) = f \o x
    BY <1>6, FlattenProp
  <2>3. f \o x = << >>
    BY <1>9, <2>1, <2>2
  <2>4. f = << >> /\ x = << >>
    BY <2>3, ConcatEqualIffEmpty
  <2> QED BY <1>1, <1>3, <1>5, <1>7, <2>4
<1>11. CASE ~ out.buf.on
  <2>1. f = << >>
    BY <1>4, <1>6, <1>8, <1>9, <1>11
  <2> QED BY <1>1, <1>7, <1>11, <2>1
<1> QED BY <1>10, <1>11

(* Nothing of the content was shown: it is all calls, or it has none.         *)
AllCalls == Strip(content).text = << >>
NoCalls == Parsed(<< >>) /\ CallsOf(Flush(buf).blocks) = << >>
Joined == AllCalls \/ NoCalls

LEMMA JoinXml ==
  ASSUME Typed, XmlSoFar, at = "model", shown = << >>, content # << >>,
         Lacks(content, {"mistral", "json"})
  PROVE  Joined
<1>0. content \in Seq(Tokens) /\ BufOK(buf)
  BY DEF Typed
<1>1. /\ buf.pending = CutXml(content).buf.pending
      /\ Parsed(XmlFound(content)) /\ CutXml(content).text = << >>
  BY DEF XmlSoFar
<1>2. content[1] = "<call>"
  BY <1>0, <1>1, XmlSilent
<1>3. CASE XmlCalls(content) # << >>
  <2>1. Strip(content).text = << >>
    BY <1>0, <1>2, <1>3, StripXml
  <2> QED BY <2>1 DEF Joined, AllCalls
<1>4. CASE XmlCalls(content) = << >>
  <2>1. /\ XmlFound(content) = << >>
        /\ CutXml(content).buf.on => XmlCall(CutXml(content).buf.pending) = << >>
    BY <1>0, <1>4, XmlCallsFound
  <2>2. CallsOf(Flush(buf).blocks) = << >>
    <3>1. CASE ~ buf.on
      <4>1. Flush(buf).blocks = << >>
        BY <1>0, <3>1, FlushSound
      <4> QED BY <4>1, CallsOfNone
    <3>2. CASE buf.on
      <4>1. PICK p \in Seq(Tokens) : p = buf.pending
        BY <1>0 DEF BufOK, Bufs
      <4>2. Flush(buf).blocks = <<p>>
        BY <1>0, <3>2, <4>1, FlushSound
      <4>3. p # << >>
        BY <1>0, <3>2, <4>1 DEF BufOK
      <4>4. BufOK(CutXml(content).buf)
        BY <1>0, CutXmlSound DEF Sound
      <4>5. CutXml(content).buf.on
        BY <1>1, <4>1, <4>3, <4>4 DEF BufOK
      <4>6. Strip(p).calls = << >>
        BY <1>0, <1>1, <2>1, <4>1, <4>5, CallsOfXml
      <4> QED BY <4>2, <4>6, CallsOfOne
    <3> QED BY <3>1, <3>2
  <2> QED BY <1>1, <2>1, <2>2 DEF Joined, NoCalls
<1> QED BY <1>3, <1>4

LEMMA JoinJson ==
  ASSUME Typed, JsonSoFar, at = "model", shown = << >>, content # << >>,
         Lacks(content, {"xml", "mistral"})
  PROVE  Joined
<1>0. content \in Seq(Tokens) /\ BufOK(buf)
  BY DEF Typed
<1>1. content[1] = LBrace /\ (buf.on => buf.mode = "json" /\ buf.pending[1] = LBrace)
  BY DEF JsonSoFar
<1>2. PICK w \in Seq(Tokens) :
        content = w \o buf.pending /\ Closed(w) /\ Parsed(JsonRun(w).calls)
  BY DEF JsonSoFar
<1>3. PICK p \in Seq(Tokens) : p = buf.pending
  BY <1>0 DEF BufOK, Bufs
<1>4. PICK f \in Seq(Calls) : f = JsonRun(w).calls
  BY JsonRunProp DEF Objects
<1>5. PICK g \in Seq(Calls) : g = JsonRun(p).calls
  BY JsonRunProp DEF Objects
<1>6. Strip(content).calls = f \o g
  <2>1. Strip(content).calls = JsonRun(content).calls
    BY <1>0, <1>1, StripJson
  <2>2. JsonRun(w \o p) = Later(JsonRun(w).calls, JsonRun(p))
    BY <1>2, JsonRunConcat
  <2>3. Later(f, JsonRun(p)).calls = f \o JsonRun(p).calls
    BY DEF Later
  <2> QED BY <1>2, <1>3, <1>4, <1>5, <2>1, <2>2, <2>3
<1>7. CASE Strip(content).calls # << >>
  <2>1. Lacks(content, Modes \ {"json"}) /\ "json" \in Modes
    BY OtherModes DEF Modes
  <2>2. content[1] = Opening["json"]
    BY <1>1, Braces
  <2>3. Strip(content).text = << >>
    BY <1>0, <1>7, <2>1, <2>2, StripFirst
  <2> QED BY <2>3 DEF Joined, AllCalls
<1>8. CASE Strip(content).calls = << >>
  <2>1. f \o g = << >>
    BY <1>6, <1>8
  <2>2. f = << >> /\ g = << >>
    BY <2>1, ConcatEqualIffEmpty
  <2>3. CallsOf(Flush(buf).blocks) = << >>
    <3>1. CASE ~ buf.on
      <4>1. Flush(buf).blocks = << >>
        BY <1>0, <3>1, FlushSound
      <4> QED BY <4>1, CallsOfNone
    <3>2. CASE buf.on
      <4>1. Flush(buf).blocks = <<p>>
        BY <1>0, <1>3, <3>2, FlushSound
      <4>2. p # << >> /\ p[1] = LBrace
        BY <1>0, <1>1, <1>3, <3>2 DEF BufOK
      <4>3. Lacks(p, {"xml", "mistral"})
        BY <1>2, <1>3, LacksConcat
      <4>4. Strip(p).calls = g
        BY <1>5, <4>2, <4>3, StripJson
      <4> QED BY <2>2, <4>1, <4>4, CallsOfOne
    <3> QED BY <3>1, <3>2
  <2> QED BY <1>2, <1>4, <2>2, <2>3 DEF Joined, NoCalls
<1> QED BY <1>7, <1>8

LEMMA JoinMistral ==
  ASSUME Typed, MistralSoFar, at = "model", shown = << >>, content # << >>,
         Lacks(content, {"xml", "json"}), Count(content, Marker) <= 1
  PROVE  Joined
<1>0. content \in Seq(Tokens) /\ BufOK(buf)
  BY DEF Typed
<1>1. buf.pending = << >> /\ content[1] = Marker /\ Parsed(Strip(content).calls)
  BY DEF MistralSoFar
<1>2. CASE Strip(content).calls # << >>
  <2>1. Lacks(content, Modes \ {"mistral"}) /\ "mistral" \in Modes
    BY OtherModes DEF Modes
  <2>2. Strip(content).text = << >>
    BY <1>0, <1>1, <1>2, <2>1, StripFirst DEF Marker
  <2> QED BY <2>2 DEF Joined, AllCalls
<1>3. CASE Strip(content).calls = << >>
  <2>1. ~ buf.on
    BY <1>0, <1>1 DEF BufOK
  <2>2. Flush(buf).blocks = << >>
    BY <1>0, <2>1, FlushSound
  <2> QED BY <1>1, <1>3, <2>2, CallsOfNone DEF Joined, NoCalls
<1> QED BY <1>2, <1>3

LEMMA Join ==
  ASSUME Typed, XmlSoFar, JsonSoFar, MistralSoFar, Within, OneFormat,
         at = "model", shown = << >>, content # << >>
  PROVE  Joined
<1>0. content \in Seq(Tokens) /\ heard \in Seq(Tokens)
  BY DEF Typed
<1>1. PICK mode \in Modes : Lacks(heard, Modes \ {mode})
  BY DEF OneFormat
<1>2. Lacks(content, Modes \ {mode})
  BY <1>1, WithinLacks
<1>3. CASE mode = "xml"
  BY <1>2, <1>3, OtherModes, JoinXml
<1>4. CASE mode = "json"
  BY <1>2, <1>4, OtherModes, JoinJson
<1>5. CASE mode = "mistral"
  <2>1. Count(content, Marker) <= 1
    <3>1. Marker \in Tokens
      BY OpeningToken DEF Marker, Modes
    <3>2. Count(content, Marker) <= Count(heard, Marker)
      BY <3>1 DEF Within
    <3>3. Count(content, Marker) \in Nat /\ Count(heard, Marker) \in Nat
      BY <1>0, CountNat
    <3> QED BY <3>2, <3>3 DEF OneFormat
  <2> QED BY <1>2, <1>5, <2>1, OtherModes, JoinMistral
<1> QED BY <1>3, <1>4, <1>5 DEF Modes

LEMMA WithinStep ==
  ASSUME Typed, Within, [Next]_vars
  PROVE  Within'
<1>0. content \in Seq(Tokens) /\ heard \in Seq(Tokens)
  BY DEF Typed
<1>1. CASE Chunk
  <2>1. PICK chunk \in Seq(Tokens) : content' = content \o chunk /\ heard' = heard \o chunk
    BY <1>1, ChunkTyped
  <2>2. ASSUME NEW t \in Tokens PROVE Count(content', t) <= Count(heard', t)
    <3>1. PICK a \in Nat : a = Count(content, t)
      BY <1>0, CountNat
    <3>2. PICK b \in Nat : b = Count(heard, t)
      BY <1>0, CountNat
    <3>3. PICK d \in Nat : d = Count(chunk, t)
      BY CountNat
    <3>4. Count(content', t) = a + d
      BY <1>0, <2>1, <3>1, <3>3, CountConcat
    <3>5. Count(heard', t) = b + d
      BY <1>0, <2>1, <3>2, <3>3, CountConcat
    <3>6. a <= b
      BY <3>1, <3>2 DEF Within
    <3>7. a + d <= b + d
      BY <3>6
    <3> QED BY <3>4, <3>5, <3>7
  <2> QED BY <2>2 DEF Within, Count
<1>2. CASE EndCall \/ BreakCall
  <2>1. content' = << >>
    BY <1>2 DEF EndCall, BreakCall, Return
  <2>2. heard' \in Seq(Tokens)
    <3>1. CASE EndCall
      <4>1. PICK whole \in Wholes, answer \in Answers, pieces \in BOOLEAN :
               whole \in Seq(Tokens) /\ Finish(whole, answer, pieces)
        BY <3>1, EndCallIs
      <4>2. heard' = heard \o whole
        BY <4>1 DEF Finish
      <4> QED BY <1>0, <4>1, <4>2, ConcatProperties
    <3>2. CASE BreakCall
      BY <1>0, <3>2 DEF BreakCall
    <3> QED BY <1>2, <3>1, <3>2
  <2>3. ASSUME NEW t \in Tokens PROVE Count(content', t) <= Count(heard', t)
    <3>1. Count(content', t) = 0
      BY <2>1, CountEmpty
    <3>2. Count(heard', t) \in Nat
      BY <2>2, CountNat
    <3> QED BY <3>1, <3>2
  <2> QED BY <2>3 DEF Within, Count
<1>3. CASE RunTools \/ UNCHANGED <<textVars, callVars, graphVars, toolVars>>
  <2>1. UNCHANGED <<content, heard>>
    BY <1>3 DEF RunTools, textVars
  <2> QED BY <2>1 DEF Within, Count
<1> QED BY <1>1, <1>2, <1>3, StepKinds

LEMMA WithinInit == Init => Within
<1> SUFFICES ASSUME Init PROVE Within
  OBVIOUS
<1>1. content = << >> /\ heard = << >>
  BY DEF Init
<1>2. \A t \in Tokens : Count(<< >>, t) = 0
  BY CountEmpty
<1> QED BY <1>1, <1>2 DEF Within

-----------------------------------------------------------------------------
(* A call that was heard is shown, parsed or held back, of a model that keeps   *)
(* to one format.                                                            *)

Spread ==
  OneFormat => \A c \in Calls :
    Count(shown, c) + Count(parsed, c) + Count(buf.pending, c) <= Count(heard, c)

LEMMA OneFormatBefore ==
  ASSUME heard \in Seq(Tokens), NEW r \in Seq(Tokens), heard' = heard \o r, OneFormat'
  PROVE  OneFormat
<1>1. PICK mode \in Modes : Lacks(heard', Modes \ {mode})
  BY DEF OneFormat
<1>2. Lacks(heard, Modes \ {mode})
  BY <1>1, LacksConcat
<1>3. PICK a \in Nat : a = Count(heard, Marker)
  BY CountNat
<1>4. PICK b \in Nat : b = Count(r, Marker)
  BY CountNat
<1>5. Count(heard', Marker) = a + b
  BY <1>3, <1>4, CountConcat
<1>6. Count(heard', Marker) <= 1
  BY DEF OneFormat
<1>7. a <= 1
  BY <1>5, <1>6
<1> QED BY <1>2, <1>3, <1>7 DEF OneFormat

LEMMA SumSpread ==
  ASSUME NEW s \in Nat, NEW a \in Nat, NEW b \in Nat, NEW d \in Nat, NEW x \in Nat, NEW y \in Nat,
         NEW z \in Nat, NEW e \in Nat, NEW k \in Nat,
         s + a + b <= d, x + y + z = b + e, k <= y
  PROVE  (s + x) + (a + k) + z <= d + e
  OBVIOUS

LEMMA SumKept ==
  ASSUME NEW s \in Nat, NEW a \in Nat, NEW b \in Nat, NEW d \in Nat, NEW e \in Nat, NEW k \in Nat,
         s + a + b <= d, k <= b
  PROVE  s + (a + k) + 0 <= d + e
  OBVIOUS

LEMMA SumWhole ==
  ASSUME NEW a \in Nat, NEW b \in Nat, NEW d \in Nat, NEW e \in Nat, NEW k \in Nat, NEW m \in Nat,
         NEW x \in Nat,
         a + b <= d, k <= b, x + m <= e
  PROVE  x + ((a + k) + m) + 0 <= d + e
  OBVIOUS

LEMMA SpreadChunk ==
  ASSUME Typed, Spread, Chunk
  PROVE  Spread'
<1>0. heard \in Seq(Tokens) /\ parsed \in Seq(Calls) /\ BufOK(buf) /\ shown \in Seq(Tokens)
  BY DEF Typed
<1>1. PICK chunk \in Chunks, out \in Outs :
        /\ chunk \in Seq(Tokens)
        /\ Sound(out, buf.pending \o chunk)
        /\ heard' = heard \o chunk /\ buf' = out.buf
        /\ shown' = shown \o out.text
        /\ parsed' = parsed \o CallsOf(out.blocks)
  BY ChunkTyped
<1> SUFFICES ASSUME OneFormat'
             PROVE  \A c \in Calls :
                      Count(shown', c) + Count(parsed', c) + Count(buf'.pending, c) <= Count(heard', c)
  BY DEF Spread, Count
<1>2. PICK p \in Seq(Tokens) : p = buf.pending
  BY <1>0 DEF BufOK, Bufs
<1>3. PICK q \in Seq(Tokens) : q = out.buf.pending
  BY DEF Outs, Bufs
<1>4. PICK bs \in Seq(Seq(Tokens)) : bs = out.blocks
  BY DEF Outs
<1>5. PICK y \in Seq(Tokens) : y = FlattenSeq(bs)
  BY FlattenType
<1>6. PICK x \in Seq(Tokens) : x = out.text
  BY DEF Outs
<1>7. PICK f \in Seq(Calls) : f = CallsOf(bs)
  BY CallsOfEach
<1>8. OneFormat
  BY <1>0, <1>1, OneFormatBefore
<1>9. ASSUME NEW c \in Calls
      PROVE  Count(shown', c) + Count(parsed', c) + Count(buf'.pending, c) <= Count(heard', c)
  <2>1. Count(x, c) + Count(y, c) + Count(q, c) = Count(p, c) + Count(chunk, c)
    <3>1. Count(x, c) + Count(y, c) + Count(q, c) = Count(p \o chunk, c)
      BY <1>1, <1>2, <1>3, <1>4, <1>5, <1>6, CallToken DEF Sound, Adds
    <3>2. Count(p \o chunk, c) = Count(p, c) + Count(chunk, c)
      BY <1>1, CountConcat
    <3> QED BY <3>1, <3>2
  <2>2. Count(f, c) <= Count(y, c)
    BY <1>5, <1>7, CallsOfCount
  <2>3. Count(shown, c) + Count(parsed, c) + Count(p, c) <= Count(heard, c)
    BY <1>2, <1>8 DEF Spread
  <2>4. Count(parsed', c) = Count(parsed, c) + Count(f, c)
    BY <1>0, <1>1, <1>4, <1>7, CountConcat
  <2>5. Count(heard', c) = Count(heard, c) + Count(chunk, c)
    BY <1>0, <1>1, CountConcat
  <2>6. Count(shown', c) = Count(shown, c) + Count(x, c)
    BY <1>0, <1>1, <1>6, CountConcat
  <2>7. Count(buf'.pending, c) = Count(q, c)
    BY <1>1, <1>3
  <2>8. /\ Count(parsed, c) \in Nat /\ Count(p, c) \in Nat /\ Count(heard, c) \in Nat
        /\ Count(x, c) \in Nat /\ Count(y, c) \in Nat /\ Count(q, c) \in Nat
        /\ Count(chunk, c) \in Nat /\ Count(f, c) \in Nat /\ Count(shown, c) \in Nat
    BY <1>0, <1>1, CountNat
  <2>9. (Count(shown, c) + Count(x, c)) + (Count(parsed, c) + Count(f, c)) + Count(q, c)
          <= Count(heard, c) + Count(chunk, c)
    BY <2>1, <2>2, <2>3, <2>8, SumSpread
  <2> QED BY <2>4, <2>5, <2>6, <2>7, <2>9
<1> QED BY <1>9

(* The calls of a content with no calls are in none of what was parsed.        *)
LEMMA NoCallsBound ==
  ASSUME Typed, NoCalls, NEW c \in Calls
  PROVE  Count(parsed, c) + Count(content, c) <= Count(heard, c)
<1>0. parsed \in Seq(Calls)
  BY DEF Typed
<1>1. PICK k \in 0..Len(parsed) :
        /\ After(parsed, k) = << >>
        /\ \A d \in Calls : Count(Upto(parsed, k), d) + Count(content, d) <= Count(heard, d)
  BY DEF NoCalls, Parsed
<1>2. Upto(parsed, k) \o After(parsed, k) = parsed /\ Upto(parsed, k) \in Seq(Calls)
  BY <1>0, CutAt
<1>3. Upto(parsed, k) = parsed
  BY <1>1, <1>2, ConcatEmptySeq
<1> QED BY <1>1, <1>3

LEMMA SpreadFinish ==
  ASSUME Typed, Apart, Spread, XmlSoFar, JsonSoFar, MistralSoFar, Within, at = "model",
         NEW whole \in Seq(Tokens), NEW answer \in Seq(Calls),
         NEW pieces \in BOOLEAN, Finish(whole, answer, pieces), content # << >> => whole = << >>
  PROVE  Spread'
<1>0. /\ heard \in Seq(Tokens) /\ parsed \in Seq(Calls) /\ BufOK(buf)
      /\ shown \in Seq(Tokens) /\ content \in Seq(Tokens)
  BY DEF Typed
<1>1. PICK p \in Seq(Tokens) : p = buf.pending
  BY <1>0 DEF BufOK, Bufs
<1>2. PICK bs \in Seq(Seq(Tokens)) : bs = Flush(buf).blocks
  BY <1>0, FlushSound
<1>3. FlattenSeq(bs) = p
  BY <1>0, <1>1, <1>2, FlushSound
<1>4. PICK f \in Seq(Calls) : f = CallsOf(bs)
  BY CallsOfEach
<1>5. PICK g \in Seq(Calls) : g = Strip(whole).calls
  BY StripProp
<1>6. PICK u \in Seq(Calls) : u = parsed \o f
  BY <1>0, ConcatProperties
<1>7. /\ heard' = heard \o whole /\ buf'.pending = << >>
      /\ \/ shown' = shown /\ parsed' = u
         \/ shown' = Strip(whole).text /\ parsed' = u \o g
         \/ /\ shown = << >> /\ content # << >> /\ whole = << >>
            /\ shown' = Strip(content).text /\ parsed' = u
  BY <1>2, <1>4, <1>5, <1>6, FinishTexts
<1> SUFFICES ASSUME OneFormat', NEW c \in Calls
             PROVE  Count(shown', c) + Count(parsed', c) + Count(buf'.pending, c) <= Count(heard', c)
  BY DEF Spread, Count
<1>8. OneFormat
  BY <1>0, <1>7, OneFormatBefore
<1>9. PICK a \in Nat : a = Count(parsed, c)
  BY <1>0, CountNat
<1>10. PICK b \in Nat : b = Count(p, c)
  BY CountNat
<1>11. PICK d \in Nat : d = Count(heard, c)
  BY <1>0, CountNat
<1>12. PICK e \in Nat : e = Count(whole, c)
  BY CountNat
<1>13. PICK k \in Nat : k = Count(f, c)
  BY CountNat
<1>14. PICK s \in Nat : s = Count(shown, c)
  BY <1>0, CountNat
<1>15. k <= b
  BY <1>3, <1>4, <1>10, <1>13, CallsOfCount
<1>16. a + b <= d /\ s + a + b <= d
  BY <1>1, <1>8, <1>9, <1>10, <1>11, <1>14 DEF Apart, Spread
<1>17. Count(heard', c) = d + e
  BY <1>0, <1>7, <1>11, <1>12, CountConcat, SMTT(30)
<1>18. Count(u, c) = a + k
  BY <1>0, <1>6, <1>9, <1>13, CountConcat
<1>19. Count(buf'.pending, c) = 0
  BY <1>7, CountEmpty
<1>20. CASE shown' = shown /\ parsed' = u
  <2>1. s + (a + k) + 0 <= d + e
    BY <1>15, <1>16, SumKept
  <2> QED BY <1>14, <1>17, <1>18, <1>19, <1>20, <2>1
<1>21. CASE shown' = Strip(whole).text /\ parsed' = u \o g
  <2>1. PICK x \in Nat : x = Count(Strip(whole).text, c)
    BY StripCount
  <2>2. PICK m \in Nat : m = Count(g, c)
    BY CountNat
  <2>3. x + m <= e
    BY <1>5, <1>12, <2>1, <2>2, StripCount
  <2>4. Count(u \o g, c) = (a + k) + m
    BY <1>18, <2>2, CountConcat
  <2>5. x + ((a + k) + m) + 0 <= d + e
    BY <1>15, <1>16, <2>3, SumWhole
  <2> QED BY <1>17, <1>19, <1>21, <2>1, <2>4, <2>5
<1>22. CASE /\ shown = << >> /\ content # << >> /\ whole = << >>
            /\ shown' = Strip(content).text /\ parsed' = u
  <2>1. Joined
    BY <1>8, <1>22, Join
  <2>2. CASE AllCalls
    <3>1. Count(shown', c) = 0
      BY <1>22, <2>2, CountEmpty DEF AllCalls
    <3>2. 0 + ((a + k) + 0) + 0 <= d + e
      BY <1>15, <1>16
    <3>3. (a + k) + 0 = a + k
      OBVIOUS
    <3> QED BY <1>17, <1>18, <1>19, <1>22, <3>1, <3>2, <3>3
  <2>3. CASE NoCalls
    <3>1. k = 0
      BY <1>2, <1>4, <1>13, <2>3, CountEmpty DEF NoCalls
    <3>2. PICK x \in Nat : x = Count(Strip(content).text, c)
      BY <1>0, StripCount
    <3>3. PICK m \in Nat : m = Count(Strip(content).calls, c)
      BY <1>0, StripCount
    <3>4. PICK n \in Nat : n = Count(content, c)
      BY <1>0, CountNat
    <3>5. x + m <= n
      BY <1>0, <3>2, <3>3, <3>4, StripCount
    <3>6. a + n <= d
      BY <1>9, <1>11, <2>3, <3>4, NoCallsBound
    <3>7. x + (a + k) + 0 <= d + e
      BY <3>1, <3>5, <3>6
    <3> QED BY <1>17, <1>18, <1>19, <1>22, <3>2, <3>7
  <2> QED BY <2>1, <2>2, <2>3 DEF Joined
<1> QED BY <1>7, <1>20, <1>21, <1>22

LEMMA SpreadStep ==
  ASSUME Typed, Apart, Spread, XmlSoFar, JsonSoFar, MistralSoFar, Within, [Next]_vars
  PROVE  Spread'
<1>1. CASE Chunk
  BY <1>1, SpreadChunk
<1>2. CASE EndCall
  <2>1. PICK whole \in Wholes, answer \in Answers, pieces \in BOOLEAN :
           /\ whole \in Seq(Tokens) /\ answer \in Seq(Calls)
           /\ content # << >> => whole = << >>
           /\ Finish(whole, answer, pieces)
    BY <1>2, EndCallIs
  <2>2. at = "model"
    BY <1>2 DEF EndCall
  <2> QED BY <2>1, <2>2, SpreadFinish
<1>3. CASE BreakCall \/ RunTools \/ UNCHANGED <<textVars, callVars, graphVars, toolVars>>
  <2>1. UNCHANGED <<shown, parsed, buf, heard>>
    BY <1>3 DEF BreakCall, RunTools, textVars, callVars
  <2> QED BY <2>1 DEF Spread, OneFormat
<1> QED BY <1>1, <1>2, <1>3, StepKinds

LEMMA SpreadInit == Init => Spread
<1> SUFFICES ASSUME Init PROVE Spread
  OBVIOUS
<1>1. parsed = << >> /\ heard = << >> /\ buf.pending = << >> /\ shown = << >>
  BY IdleOK DEF Init
<1>2. \A c \in Calls : Count(<< >>, c) = 0
  BY CountEmpty
<1> QED BY <1>1, <1>2 DEF Spread

LEMMA SpreadNotBoth ==
  ASSUME Typed, Spread
  PROVE  NotBoth
<1>0. /\ heard \in Seq(Tokens) /\ parsed \in Seq(Calls) /\ BufOK(buf) /\ shown \in Seq(Tokens)
  BY DEF Typed
<1> SUFFICES ASSUME Cardinality(Formats) <= 1, Count(heard, "[CALLS]") <= 1, NEW c \in Calls
             PROVE  Count(shown, c) + Count(parsed, c) <= Count(heard, c)
  BY DEF NotBoth
<1>1. OneFormat
  BY FormatsOne, Openings DEF OneFormat, Marker
<1>2. PICK p \in Seq(Tokens) : p = buf.pending
  BY <1>0 DEF BufOK, Bufs
<1>3. /\ Count(shown, c) \in Nat /\ Count(parsed, c) \in Nat /\ Count(p, c) \in Nat
      /\ Count(heard, c) \in Nat
  BY <1>0, CountNat
<1>4. Count(shown, c) + Count(parsed, c) + Count(p, c) <= Count(heard, c)
  BY <1>1, <1>2 DEF Spread
<1> QED BY <1>3, <1>4

-----------------------------------------------------------------------------
(* The invariants together: what each of them needs of the others.             *)

IText ==
  /\ Typed /\ Told /\ Numbered(calls, sent) /\ Accounted
  /\ Apart /\ Fresh /\ XmlSoFar /\ JsonSoFar /\ MistralSoFar /\ Within /\ Spread

LEMMA TextInit == Init => IText
  BY TypeInit, ToldInit, NumberedInit, AccountedInit, ApartInit, FreshInit, XmlSoFarInit,
     JsonSoFarInit, MistralSoFarInit, WithinInit, SpreadInit DEF IText

LEMMA TextStep == ASSUME IText, GraphOK', [Next]_vars PROVE IText'
<1>1. Typed'
  BY TypeStep DEF IText
<1>2. Told'
  BY ToldStep DEF IText
<1>3. Numbered(calls', sent')
  BY NumberedStep DEF IText
<1>4. Accounted'
  BY AccountedStep DEF IText
<1>5. Apart'
  BY ApartStep DEF IText
<1>6. Fresh'
  BY FreshStep DEF IText
<1>7. XmlSoFar'
  BY XmlSoFarStep DEF IText
<1>8. JsonSoFar'
  BY JsonSoFarStep DEF IText
<1>9. MistralSoFar'
  BY MistralSoFarStep DEF IText
<1>10. Within'
  BY WithinStep DEF IText
<1>11. Spread'
  BY SpreadStep DEF IText
<1> QED BY <1>1, <1>2, <1>3, <1>4, <1>5, <1>6, <1>7, <1>8, <1>9, <1>10, <1>11
    DEF IText, Numbered, Known, Owned, Placed, Entitled

LEMMA TextInvariance == Spec => []IText
<1>1. IInv => GraphOK
  BY DEF IInv
<1> QED BY <1>1, Invariance, TextInit, TextStep, PTL DEF Spec

-----------------------------------------------------------------------------
(* What the runs check, for every value of the constants.                      *)

(* Each variable has its type: the buffer holds something exactly when it is   *)
(* on, and every entry of tool_calls is a call with an identifier.             *)
THEOREM WellTyped == Spec => []TypeOK
<1>1. IText => TypeOK
  BY TypedTypeOK DEF IText
<1> QED BY <1>1, TextInvariance, PTL

(* The chunks an answer comes in make no difference to what is shown and what   *)
(* is held back of it (RawToolCallStreamBuffer.feed).                          *)
THEOREM ChunkingUnseen == Spec => []ChunksAlike
<1>1. IText => ChunksAlike
  BY XmlSoFarAlike DEF IText
<1> QED BY <1>1, TextInvariance, PTL

(* All that a model streams is shown, held back, or in a block that was given   *)
(* to the parser (feed, and flush at the end of a generation).                 *)
THEOREM StreamedAccounted == Spec => []Accounted
<1>1. IText => Accounted
  BY DEF IText
<1> QED BY <1>1, TextInvariance, PTL

(* A call that was parsed is not shown as well, of a model that keeps to one    *)
(* format (feed, and the extraction at the end of a generation).               *)
THEOREM ShownOrCalled == Spec => []NotBoth
<1>1. IText => NotBoth
  BY SpreadNotBoth DEF IText
<1> QED BY <1>1, TextInvariance, PTL

(* A structured call that has an entry of its own stays in tool_calls under its *)
(* key, once and unchanged, in whatever order calls were registered             *)
(* (on_chat_model_end): the first of a generation without an identifier too.   *)
THEOREM StructuredOnce == Spec => []StructuredKept
<1>1. IText => StructuredKept
  BY DEF IText, Numbered, Owned, StructuredKept
<1> QED BY <1>1, TextInvariance, PTL

(* Each call that server tools answered is in the events the client was sent    *)
(* (stream_workflow's slice of the events by their number).                    *)
THEOREM AnswersReported == Spec => []NoneUnreported
<1>1. IText => NoneUnreported
  BY DEF IText, Told
<1> QED BY <1>1, TextInvariance, PTL

-----------------------------------------------------------------------------
(* The graph.                                                                *)

(* The channels that decide where a run goes, and its counters, are typed       *)
(* (WorkflowState and its reducers).                                           *)
THEOREM GraphTyped == Spec => []GraphOK
<1>1. IInv => GraphOK
  BY DEF IInv
<1> QED BY <1>1, Invariance, PTL

(* The agent and the server tools alternate Cap times at most, whatever the     *)
(* model answers (make_should_continue_server_tools).                          *)
THEOREM Capped == Spec => []RoundsCapped
<1>1. IInv => RoundsCapped
  BY DEF IInv, Counted, RoundsCapped
<1> QED BY <1>1, Invariance, PTL

(* No call is executed twice in a run, however often and under whichever name   *)
(* the model repeats it (dedupe_tool_calls and server_tool_call_cache).        *)
THEOREM ExecutedOnce == Spec => []FiredOnce
<1>1. IInv => FiredOnce
  BY DEF IInv, Answerable, FiredOnce
<1> QED BY <1>1, Invariance, PTL
=============================================================================
