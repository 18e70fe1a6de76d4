------------------------- MODULE RatingOrderProofs --------------------------
(***************************************************************************)
(* The ingestion keeps the order: what a run of the process has read of a  *)
(* partition, without what cannot be decoded, is what it has stored of it  *)
(* followed by what is on its way through the goroutine, the channel and   *)
(* the controller.  The proofs follow every step of that sequence, for     *)
(* each number of partitions and messages and for as many crashes as       *)
(* MaxCrashes says.                                                        *)
(*                                                                         *)
(* And it comes to its end: its two goroutines never wait for each other,  *)
(* and after cancel their steps are numbered.                              *)
(***************************************************************************)
EXTENDS RatingPipelineProofs, WellFoundedInduction

(***************************************************************************)
(* Induction.  The library's induction theorems take an operator; a set    *)
(* of numbers does as well, and the least number outside it is found with  *)
(* the well-foundedness of < on Nat.                                       *)
(***************************************************************************)

\* A set of natural numbers that has an element has a least one.
LEMMA LeastElement ==
  ASSUME NEW T, T \subseteq Nat, T # {}
  PROVE  \E x \in T : \A y \in T : ~(y < x)
<1> DEFINE R == {ss \in Nat \X Nat : ss[1] < ss[2]}
<1>1. R = OpToRel(<, Nat)
  BY Zenon DEF OpToRel
<1>2. IsWellFoundedOn(R, Nat)
  BY <1>1, NatLessThanWellFounded, Zenon
<1>3. \E x \in T : \A y \in T : ~(<<y, x>> \in R)
  <2> HIDE DEF R
  <2> QED BY <1>2, WFMin, Zenon
<1> QED BY <1>3

\* A set with 0 and with the successors of its elements has every natural number.
LEMMA NatBySteps ==
  ASSUME NEW S, 0 \in S, \A n \in Nat : n \in S => n + 1 \in S
  PROVE  Nat \subseteq S
<1> SUFFICES ASSUME Nat \ S # {} PROVE FALSE
  OBVIOUS
<1>1. PICK x \in Nat \ S : \A y \in Nat \ S : ~(y < x)
  BY LeastElement
<1>2. x - 1 \in Nat /\ x - 1 < x
  BY <1>1
<1>3. (x - 1) + 1 \in S
  BY <1>1, <1>2
<1> QED BY <1>1, <1>3

(***************************************************************************)
(* Only.  A recursive function is a choice among the functions that        *)
(* satisfy its equation: there is one, and it is the only one as far as    *)
(* two sequences agree.                                                    *)
(***************************************************************************)

\* The equation of the function in Only, and its beginning.
Filters(f, s, S) ==
  f = [n \in 0..Len(s) |-> IF n = 0 THEN <<>>
                           ELSE IF s[n] \in S THEN Append(f[n - 1], s[n]) ELSE f[n - 1]]

FiltersTo(g, s, S, n) ==
  g = [m \in 0..n |-> IF m = 0 THEN <<>>
                      ELSE IF s[m] \in S THEN Append(g[m - 1], s[m]) ELSE g[m - 1]]

\* A function of that kind exists for every sequence, by induction on its length.
LEMMA FiltersExist ==
  ASSUME NEW s, NEW S, Len(s) \in Nat PROVE \E f : Filters(f, s, S)
<1> DEFINE N == {n \in Nat : \E g : FiltersTo(g, s, S, n)}
<1>1. 0 \in N
  <2>1. FiltersTo([m \in 0..0 |-> <<>>], s, S, 0)
    BY DEF FiltersTo
  <2> QED BY <2>1
<1>2. ASSUME NEW n \in Nat, n \in N PROVE n + 1 \in N
  <2>1. PICK g : FiltersTo(g, s, S, n)
    BY <1>2
  <2> DEFINE h == [m \in 0..(n + 1) |->
                     IF m <= n THEN g[m]
                     ELSE IF s[m] \in S THEN Append(g[m - 1], s[m]) ELSE g[m - 1]]
  <2>2. ASSUME NEW m \in 0..(n + 1)
        PROVE  h[m] = IF m = 0 THEN <<>>
                      ELSE IF s[m] \in S THEN Append(h[m - 1], s[m]) ELSE h[m - 1]
    <3>1. m - 1 \in 0..n => h[m - 1] = g[m - 1]
      OBVIOUS
    <3>2. m <= n => m \in 0..n
      OBVIOUS
    <3>3. m \in 0..n => g[m] = IF m = 0 THEN <<>>
                               ELSE IF s[m] \in S THEN Append(g[m - 1], s[m]) ELSE g[m - 1]
      BY <2>1, Zenon DEF FiltersTo
    <3> QED BY <3>1, <3>2, <3>3
  <2>3. FiltersTo(h, s, S, n + 1)
    BY <2>2 DEF FiltersTo
  <2> QED BY <2>3
<1>3. Len(s) \in N
  <2> HIDE DEF N
  <2> QED BY <1>1, <1>2, NatBySteps
<1> QED BY <1>3 DEF Filters, FiltersTo

\* Only is the last value of such a function.
LEMMA OnlyFilters ==
  ASSUME NEW s, NEW S, Len(s) \in Nat
  PROVE  \E f : Filters(f, s, S) /\ Only(s, S) = f[Len(s)]
<1> DEFINE f == CHOOSE g : Filters(g, s, S)
<1>1. Filters(f, s, S)
  BY FiltersExist
<1>2. Only(s, S) = f[Len(s)]
  BY Zenon DEF Only, Filters
<1> QED BY <1>1, <1>2

\* Two sequences that begin alike are filtered alike.
LEMMA FiltersAgree ==
  ASSUME NEW s, NEW t, NEW S, NEW T, NEW f, NEW g, Filters(f, s, S), Filters(g, t, T),
         Len(s) \in Nat, Len(t) \in Nat, NEW k \in Nat, k <= Len(s), k <= Len(t),
         \A i \in 1..k : s[i] = t[i] /\ (s[i] \in S <=> t[i] \in T)
  PROVE  f[k] = g[k]
<1> DEFINE N == {n \in Nat : n <= k => f[n] = g[n]}
<1>1. 0 \in N
  BY DEF Filters
<1>2. ASSUME NEW n \in Nat, n \in N PROVE n + 1 \in N
  <2> SUFFICES ASSUME n + 1 <= k PROVE f[n + 1] = g[n + 1]
    OBVIOUS
  <2>1. /\ f[n] = g[n] /\ n + 1 \in 1..k /\ (n + 1) - 1 = n /\ n + 1 # 0
        /\ n + 1 \in 0..Len(s) /\ n + 1 \in 0..Len(t)
    BY <1>2
  <2>2. f[n + 1] = IF s[n + 1] \in S THEN Append(f[n], s[n + 1]) ELSE f[n]
    BY <2>1, Zenon DEF Filters
  <2>3. g[n + 1] = IF t[n + 1] \in T THEN Append(g[n], t[n + 1]) ELSE g[n]
    BY <2>1, Zenon DEF Filters
  <2> QED BY <2>1, <2>2, <2>3
<1>3. k \in N
  <2> HIDE DEF N
  <2> QED BY <1>1, <1>2, NatBySteps
<1> QED BY <1>3

\* Nothing is left of nothing.
LEMMA OnlyEmpty == ASSUME NEW S PROVE Only(<<>>, S) = <<>>
<1>1. Len(<<>>) = 0
  BY EmptySeq
<1>2. PICK f : Filters(f, <<>>, S) /\ Only(<<>>, S) = f[0]
  BY <1>1, OnlyFilters
<1> QED BY <1>1, <1>2 DEF Filters

\* Two sets with the same elements of a sequence leave the same of it.
LEMMA OnlyAgree ==
  ASSUME NEW s, Len(s) \in Nat, NEW S, NEW T, \A i \in 1..Len(s) : s[i] \in S <=> s[i] \in T
  PROVE  Only(s, S) = Only(s, T)
<1>1. PICK f : Filters(f, s, S) /\ Only(s, S) = f[Len(s)]
  BY OnlyFilters
<1>2. PICK g : Filters(g, s, T) /\ Only(s, T) = g[Len(s)]
  BY OnlyFilters
<1> QED BY <1>1, <1>2, FiltersAgree

\* An element at the end is kept at the end, or dropped.
LEMMA OnlyAppend ==
  ASSUME NEW E, NEW s \in Seq(E), NEW e \in E, NEW S
  PROVE  Only(Append(s, e), S) = IF e \in S THEN Append(Only(s, S), e) ELSE Only(s, S)
<1> DEFINE t == Append(s, e)
<1>1. /\ Len(s) \in Nat /\ Len(t) = Len(s) + 1 /\ t[Len(s) + 1] = e
      /\ \A i \in 1..Len(s) : t[i] = s[i]
  BY AppendProperties, LenProperties
<1> HIDE DEF t
<1>2. PICK f : Filters(f, s, S) /\ Only(s, S) = f[Len(s)]
  BY <1>1, OnlyFilters
<1>3. PICK g : Filters(g, t, S) /\ Only(t, S) = g[Len(t)]
  BY <1>1, OnlyFilters
<1>4. f[Len(s)] = g[Len(s)]
  BY <1>1, <1>2, <1>3, FiltersAgree
<1>5. g[Len(s) + 1] = IF e \in S THEN Append(g[Len(s)], e) ELSE g[Len(s)]
  <2>1. Len(s) + 1 \in 0..Len(t) /\ (Len(s) + 1) - 1 = Len(s) /\ Len(s) + 1 # 0
    BY <1>1
  <2> QED BY <1>1, <1>3, <2>1 DEF Filters
<1> QED BY <1>1, <1>2, <1>3, <1>4, <1>5 DEF t

(***************************************************************************)
(* Slices                                                                  *)
(***************************************************************************)

\* What a part of a sequence is.
LEMMA Slice ==
  ASSUME NEW S, NEW s \in Seq(S), NEW a \in Nat, NEW b \in Nat, a <= b, b <= Len(s)
  PROVE  /\ SubSeq(s, a + 1, b) \in Seq(S)
         /\ Len(SubSeq(s, a + 1, b)) = b - a
         /\ \A i \in 1..(b - a) : a + i \in 1..Len(s) /\ SubSeq(s, a + 1, b)[i] = s[a + i]
<1> DEFINE m == a + 1
           x == SubSeq(s, m, b)
<1>1. Len(s) \in Nat /\ m \in Int /\ b \in Int
  BY LenProperties
<1>2. \A i \in m..b : s[i] \in S
  BY <1>1, ElementOfSeq
<1> HIDE DEF m
<1>3. /\ x \in Seq(S)
      /\ Len(x) = IF m <= b THEN b - m + 1 ELSE 0
      /\ \A i \in 1..(b - m + 1) : x[i] = s[m + i - 1]
  BY <1>1, <1>2, SubSeqProperties
<1> HIDE DEF x
<1>4. Len(x) = b - a
  BY <1>3 DEF m
<1>5. ASSUME NEW i \in 1..(b - a) PROVE a + i \in 1..Len(s) /\ x[i] = s[a + i]
  <2>1. a + i \in 1..Len(s) /\ i \in 1..(b - m + 1) /\ m + i - 1 = a + i
    BY <1>1 DEF m
  <2> QED BY <1>3, <2>1
<1> QED BY <1>3, <1>4, <1>5 DEF x, m

\* The elements of a concatenation, each by its place in its part.
LEMMA ConcatAt ==
  ASSUME NEW S, NEW s \in Seq(S), NEW t \in Seq(S)
  PROVE  /\ s \o t \in Seq(S) /\ Len(s) \in Nat /\ Len(t) \in Nat
         /\ Len(s \o t) = Len(s) + Len(t)
         /\ \A i \in 1..Len(s) : (s \o t)[i] = s[i]
         /\ \A i \in 1..Len(t) : (s \o t)[Len(s) + i] = t[i]
<1>1. Len(s) \in Nat /\ Len(t) \in Nat
  BY LenProperties
<1>2. /\ s \o t \in Seq(S) /\ Len(s \o t) = Len(s) + Len(t)
      /\ \A i \in 1..Len(s) + Len(t) : (s \o t)[i] = IF i <= Len(s) THEN s[i] ELSE t[i - Len(s)]
  BY ConcatProperties
<1>3. ASSUME NEW i \in 1..Len(s) PROVE (s \o t)[i] = s[i]
  <2>1. i \in 1..Len(s) + Len(t) /\ i <= Len(s)
    BY <1>1
  <2> QED BY <1>2, <2>1
<1>4. ASSUME NEW i \in 1..Len(t) PROVE (s \o t)[Len(s) + i] = t[i]
  <2>1. Len(s) + i \in 1..Len(s) + Len(t) /\ ~(Len(s) + i <= Len(s)) /\ (Len(s) + i) - Len(s) = i
    BY <1>1
  <2> QED BY <1>2, <2>1
<1> QED BY <1>1, <1>2, <1>3, <1>4

\* What follows a slice does not change it.
LEMMA SliceOfConcat ==
  ASSUME NEW S, NEW s \in Seq(S), NEW t \in Seq(S), NEW a \in Nat, NEW b \in Nat,
         a <= b, b <= Len(s)
  PROVE  SubSeq(s \o t, a + 1, b) = SubSeq(s, a + 1, b)
<1> DEFINE st == s \o t
           x == SubSeq(s, a + 1, b)
           y == SubSeq(st, a + 1, b)
<1>1. /\ st \in Seq(S) /\ Len(s) \in Nat /\ b <= Len(st)
      /\ \A i \in 1..Len(s) : st[i] = s[i]
  BY ConcatAt
<1> HIDE DEF st
<1>2. /\ x \in Seq(S) /\ Len(x) = b - a
      /\ \A i \in 1..(b - a) : a + i \in 1..Len(s) /\ x[i] = s[a + i]
  BY Slice
<1>3. /\ y \in Seq(S) /\ Len(y) = b - a
      /\ \A i \in 1..(b - a) : y[i] = st[a + i]
  BY <1>1, Slice
<1> HIDE DEF x, y
<1>4. y = x
  <2>1. \A i \in 1..Len(y) : y[i] = x[i]
    BY <1>1, <1>2, <1>3
  <2> QED BY <1>2, <1>3, <2>1, SeqEqual
<1> QED BY <1>4 DEF x, y, st

\* What is added to a sequence is added to the rest of it.
LEMMA RestOfConcat ==
  ASSUME NEW S, NEW s \in Seq(S), NEW t \in Seq(S), NEW a \in Nat, a <= Len(s)
  PROVE  SubSeq(s \o t, a + 1, Len(s \o t)) = SubSeq(s, a + 1, Len(s)) \o t
<1> DEFINE st == s \o t
           x == SubSeq(s, a + 1, Len(s))
           y == SubSeq(st, a + 1, Len(st))
           z == x \o t
<1>1. /\ st \in Seq(S) /\ Len(s) \in Nat /\ Len(t) \in Nat /\ Len(st) = Len(s) + Len(t)
      /\ \A i \in 1..Len(s) : st[i] = s[i]
      /\ \A i \in 1..Len(t) : st[Len(s) + i] = t[i]
  BY ConcatAt
<1> HIDE DEF st
<1>2. /\ x \in Seq(S) /\ Len(x) = Len(s) - a
      /\ \A i \in 1..(Len(s) - a) : a + i \in 1..Len(s) /\ x[i] = s[a + i]
  BY <1>1, Slice
<1>3. /\ y \in Seq(S) /\ Len(y) = Len(st) - a
      /\ \A i \in 1..(Len(st) - a) : y[i] = st[a + i]
  <2>1. Len(st) \in Nat /\ a <= Len(st)
    BY <1>1
  <2> QED BY <1>1, <2>1, Slice
<1> HIDE DEF x
<1>4. /\ z \in Seq(S) /\ Len(z) = Len(x) + Len(t)
      /\ \A i \in 1..Len(x) : z[i] = x[i]
      /\ \A i \in 1..Len(t) : z[Len(x) + i] = t[i]
  <2>1. x \in Seq(S)
    BY <1>2
  <2> HIDE DEF y
  <2> QED BY <2>1, ConcatAt
<1> HIDE DEF y, z
<1>5. ASSUME NEW i \in 1..Len(y) PROVE y[i] = z[i]
  <2>1. i \in 1..(Len(st) - a) /\ y[i] = st[a + i]
    BY <1>3
  <2>2. CASE i <= Len(s) - a
    <3>1. i \in 1..(Len(s) - a) /\ i \in 1..Len(x)
      BY <1>1, <1>2, <2>1, <2>2
    <3> QED BY <1>1, <1>2, <1>4, <2>1, <3>1
  <2>3. CASE ~(i <= Len(s) - a)
    <3> DEFINE j == i - (Len(s) - a)
    <3>1. j \in 1..Len(t) /\ a + i = Len(s) + j /\ i = Len(x) + j
      BY <1>1, <1>2, <2>1, <2>3
    <3> HIDE DEF j
    <3> QED BY <1>1, <1>4, <2>1, <3>1
  <2> QED BY <2>2, <2>3
<1>6. Len(y) = Len(z)
  BY <1>1, <1>2, <1>3, <1>4
<1>7. y = z
  BY <1>3, <1>4, <1>5, <1>6, SeqEqual
<1> QED BY <1>7 DEF x, y, z, st

(***************************************************************************)
(* The invariant: a message is in one partition (the producer's retries go *)
(* to the same), what is kept was published, and a run that has returned   *)
(* left nothing behind in the channel.                                     *)
(***************************************************************************)

\* What this run has read and can decode, in the order of the Puts.
Front == dropped \o putting
Flow  == StoredThisRun \o Handled

\* The events the repository and the process have.
Had == Kept \cup Range(dropped)

Apart == \A p, q \in Partition : p # q => Range(topic[p]) \cap Range(topic[q]) = {}

OrderInv ==
  /\ Apart
  /\ Had \subseteq Published
  /\ \A p \in Partition : began[p] <= position[p]
  /\ ctl = "returned" => pc \in {"closing", "closed"} /\ ch = <<>>
  /\ InOrder

\* Initially nothing has been read.
LEMMA OrderInit == Init => OrderInv
<1> SUFFICES ASSUME Init PROVE OrderInv
  OBVIOUS
<1>1. /\ topic = [p \in Partition |-> <<>>] /\ began = [p \in Partition |-> 0]
      /\ position = [p \in Partition |-> 0] /\ ctl = "start" /\ found = 0
      /\ stored = <<>> /\ held = <<>> /\ ch = <<>> /\ putting = <<>> /\ dropped = <<>>
  BY DEF Init
<1>2. Range(<<>>) = {} /\ Len(<<>>) = 0 /\ <<>> \o <<>> = <<>>
  BY EmptySeq, ConcatEmptySeq DEF Range
<1>3. Apart /\ Had \subseteq Published
  BY <1>1, <1>2 DEF Apart, Had, Kept
<1>4. ASSUME NEW p \in Partition
      PROVE  Good(ReadThisRun(p)) = In(p, StoredThisRun \o Handled)
  <2>1. ReadThisRun(p) = <<>> /\ StoredThisRun = <<>>
    BY <1>1, <1>2, SubSeqEmpty DEF ReadThisRun, StoredThisRun
  <2>2. StoredThisRun \o Handled = <<>>
    BY <1>1, <1>2, <2>1 DEF Handled
  <2> QED BY <2>1, <2>2, OnlyEmpty DEF Good, In
<1> QED BY <1>1, <1>3, <1>4 DEF OrderInv, InOrder

\* The sequences of the flow are sequences of events that the process has.
LEMMA FlowTypes ==
  ASSUME TypeOK
  PROVE  /\ stored \in Seq(Event) /\ dropped \in Seq(Event) /\ putting \in Seq(Event)
         /\ ch \in Seq(Event) /\ held \in Seq(Event) /\ Front \in Seq(Event)
         /\ Handled = (Front \o ch) \o held
         /\ Handled \in Seq(Event) /\ StoredThisRun \in Seq(Event) /\ Flow \in Seq(Event)
         /\ \A i \in 1..Len(Flow) : Flow[i] \in Had
<1>1. /\ stored \in Seq(Event) /\ dropped \in Seq(Event) /\ putting \in Seq(Event)
      /\ ch \in Seq(Event) /\ held \in Seq(Event)
  BY ShortIsSeq DEF TypeOK
<1>6. Front \in Seq(Event) /\ Range(Front) = Range(dropped) \cup Range(putting)
  BY <1>1, ConcatProperties, RangeOfConcat DEF Front
<1>7. Handled = (Front \o ch) \o held
  BY Zenon DEF Handled, Front
<1>2. Front \o ch \in Seq(Event) /\ (Front \o ch) \o held \in Seq(Event)
  BY <1>1, <1>6, ConcatProperties
<1>3. /\ Handled \in Seq(Event)
      /\ Range(Handled) = Range(dropped) \cup Range(putting) \cup Range(ch) \cup Range(held)
  <2>2. Range((Front \o ch) \o held) = Range(Front \o ch) \cup Range(held)
    BY <1>1, <1>2, RangeOfConcat
  <2>3. Range(Front \o ch) = Range(Front) \cup Range(ch)
    BY <1>1, <1>6, RangeOfConcat
  <2> QED BY <1>2, <1>6, <1>7, <2>2, <2>3, Zenon
<1>4. /\ StoredThisRun \in Seq(Event)
      /\ Range(StoredThisRun) \subseteq Range(stored)
  <2>1. /\ found \in Nat /\ Len(stored) \in Nat /\ found <= Len(stored) /\ DOMAIN stored = 1..Len(stored)
    BY <1>1, LenProperties DEF TypeOK
  <2>2. /\ StoredThisRun \in Seq(Event) /\ Len(StoredThisRun) = Len(stored) - found
        /\ \A i \in 1..(Len(stored) - found) :
             found + i \in 1..Len(stored) /\ StoredThisRun[i] = stored[found + i]
    <3> DEFINE n == Len(stored)
    <3>1. stored \in Seq(Event) /\ found \in Nat /\ n \in Nat /\ found <= n /\ n <= Len(stored)
      BY <1>1, <2>1
    <3>2. StoredThisRun = SubSeq(stored, found + 1, n)
      BY DEF StoredThisRun
    <3> HIDE DEF n
    <3>3. /\ SubSeq(stored, found + 1, n) \in Seq(Event)
          /\ Len(SubSeq(stored, found + 1, n)) = n - found
          /\ \A i \in 1..(n - found) :
               found + i \in 1..Len(stored) /\ SubSeq(stored, found + 1, n)[i] = stored[found + i]
      BY <3>1, Slice
    <3> QED BY <3>2, <3>3 DEF n
  <2>3. DOMAIN StoredThisRun = 1..(Len(stored) - found)
    BY <2>2, LenProperties
  <2> QED BY <2>1, <2>2, <2>3 DEF Range
<1>5. Flow \in Seq(Event) /\ Range(Flow) \subseteq Had
  BY <1>3, <1>4, ConcatProperties, RangeOfConcat DEF Flow, Had, Kept
<1> QED BY <1>1, <1>3, <1>4, <1>5, <1>6, <1>7, LenProperties DEF Range

\* What a step must leave alone for the order to be kept.
LEMMA SameFlow ==
  ASSUME OrderInv, UNCHANGED <<topic, position, began>>, Flow' = Flow, Had' = Had,
         pc' # "down" => pc # "down",
         (ctl = "returned" => pc \in {"closing", "closed"} /\ ch = <<>>)'
  PROVE  OrderInv'
<1>1. Apart' /\ Published' = Published
  BY DEF OrderInv, Apart, Published
<1>2. InOrder'
  BY DEF OrderInv, InOrder, Good, In, ReadThisRun, Flow
<1> QED BY <1>1, <1>2 DEF OrderInv

\* Steps that move no event.
LEMMA QuietOrder ==
  ASSUME IInv, OrderInv,
         \/ \E p \in Partition : AutoCommit(p)
         \/ Select \/ ReadFails \/ Close \/ Start \/ RangeEnds \/ Cancel
  PROVE  OrderInv'
<1> USE DEF kafka, ingester, control, run
<1>1. UNCHANGED <<topic, position, held, ch, putting, stored, began, found, dropped>>
  BY Zenon DEF AutoCommit, Select, ReadFails, Close, Start, RangeEnds, Cancel
<1>2. Flow' = Flow /\ Had' = Had
  BY <1>1 DEF Flow, StoredThisRun, Handled, Had, Kept
<1>3. (pc' # "down" => pc # "down") /\ (ctl = "returned" => pc \in {"closing", "closed"} /\ ch = <<>>)'
  BY DEF AutoCommit, Select, ReadFails, Close, Start, RangeEnds, Cancel, IInv, Control, OrderInv
<1> QED BY <1>1, <1>2, <1>3, SameFlow

\* ReadMessage adds a message to what was read, and to the flow if it can be decoded.
LEMMA ReadOrder ==
  ASSUME IInv, OrderInv, NEW p \in Partition, Read(p) PROVE OrderInv'
<1> DEFINE e == topic[p][position[p] + 1]
<1> USE DEF kafka, ingester, control, run
<1>1. /\ pc = "read" /\ position[p] < Len(topic[p]) /\ position' = [position EXCEPT ![p] = position[p] + 1]
      /\ \/ e \in Malformed /\ pc' = "select" /\ held' = held
         \/ e \notin Malformed /\ pc' = "send" /\ held' = <<e>>
      /\ UNCHANGED <<topic, committed, ch, ctl, putting, stored, began, found, dropped>>
  BY Zenon DEF Read
<1>2. /\ topic \in [Partition -> Seq(Event)] /\ position \in [Partition -> Nat] /\ began \in [Partition -> Nat]
      /\ held = <<>> /\ TypeOK /\ ctl # "returned"
  BY <1>1 DEF IInv, TypeOK, Offsets, Control, OrderInv
<1>3. /\ topic[p] \in Seq(Event) /\ Len(topic[p]) \in Nat /\ DOMAIN topic[p] = 1..Len(topic[p])
      /\ position[p] \in Nat /\ began[p] \in Nat /\ began[p] <= position[p]
      /\ position[p] + 1 \in 1..Len(topic[p])
  BY <1>1, <1>2, LenProperties DEF OrderInv
<1>4. e \in Event /\ e \in Range(topic[p])
  BY <1>3, ElementOfSeq DEF Range
<1>5. /\ ReadThisRun(p) \in Seq(Event)
      /\ ReadThisRun(p)' = Append(ReadThisRun(p), e)
      /\ \A q \in Partition \ {p} : ReadThisRun(q)' = ReadThisRun(q)
  <2>1. began[p] + 1 \in 1..Len(topic[p]) /\ position[p] + 1 \in (began[p] + 1)..Len(topic[p])
        /\ (position[p] + 1) - 1 = position[p]
    BY <1>3
  <2>2. SubSeq(topic[p], began[p] + 1, position[p] + 1)
          = SubSeq(topic[p], began[p] + 1, position[p]) \o <<e>>
    BY <1>3, <2>1, SubSeqRecursiveSecond
  <2>3. \A i \in (began[p] + 1)..position[p] : topic[p][i] \in Event
    BY <1>3, ElementOfSeq
  <2>4. SubSeq(topic[p], began[p] + 1, position[p]) \in Seq(Event)
    BY <1>3, <2>3, SubSeqProperties
  <2>5. Append(SubSeq(topic[p], began[p] + 1, position[p]), e)
          = SubSeq(topic[p], began[p] + 1, position[p]) \o <<e>>
    BY <1>4, <2>4, AppendIsConcat
  <2>6. position'[p] = position[p] + 1 /\ \A q \in Partition \ {p} : position'[q] = position[q]
    BY <1>1, <1>2
  <2> QED BY <1>1, <2>2, <2>4, <2>5, <2>6 DEF ReadThisRun
<1> HIDE DEF e
<1>6. CASE e \in Malformed /\ held' = held
  <2>1. Flow' = Flow /\ Had' = Had
    BY <1>1, <1>6 DEF Flow, StoredThisRun, Handled, Had, Kept
  <2>2. Good(ReadThisRun(p))' = Good(ReadThisRun(p))
    BY <1>4, <1>5, <1>6, OnlyAppend DEF Good
  <2>3. InOrder'
    BY <1>1, <1>5, <2>1, <2>2 DEF OrderInv, InOrder, Good, In, Flow
  <2>4. Apart' /\ Published' = Published
    BY <1>1 DEF OrderInv, Apart, Published
  <2> QED BY <1>1, <1>2, <2>1, <2>3, <2>4 DEF OrderInv
<1>7. CASE e \notin Malformed /\ held' = <<e>>
  <2>1. Flow' = Append(Flow, e) /\ Had' = Had \cup {e}
    <3> DEFINE way == Front \o ch
    <3>1. way \in Seq(Event) /\ StoredThisRun \in Seq(Event) /\ Handled = way \o held
      BY <1>2, FlowTypes, ConcatProperties
    <3>2. StoredThisRun' = StoredThisRun /\ Handled' = way \o <<e>>
      BY <1>1, <1>7, Zenon DEF StoredThisRun, Handled, Front
    <3> HIDE DEF way
    <3>3. Handled = way
      BY <1>2, <3>1, ConcatEmptySeq
    <3>4. <<e>> \in Seq(Event)
      BY <1>4
    <3>5. Flow' = Flow \o <<e>> /\ Flow \in Seq(Event)
      <4>1. Flow = StoredThisRun \o way /\ Flow' = StoredThisRun \o (way \o <<e>>)
        BY <3>2, <3>3, Zenon DEF Flow
      <4>3. StoredThisRun \o (way \o <<e>>) = (StoredThisRun \o way) \o <<e>>
        BY <3>1, <3>4, ConcatAssociative
      <4>4. StoredThisRun \o way \in Seq(Event)
        BY <3>1, ConcatProperties
      <4> QED BY <4>1, <4>3, <4>4, Zenon
    <3>6. Range(<<e>>) = {e} /\ Range(held) = {}
      BY <1>2 DEF Range
    <3> QED BY <1>1, <1>4, <1>7, <3>5, <3>6, AppendIsConcat DEF Had, Kept
  <2>2. Good(ReadThisRun(p))' = Append(Good(ReadThisRun(p)), e)
    BY <1>4, <1>5, <1>7, OnlyAppend DEF Good
  <2>3. Flow \in Seq(Event)
    BY <1>2, FlowTypes
  <2>4. Only(Flow', Range(topic[p])) = Append(Only(Flow, Range(topic[p])), e)
    BY <1>4, <2>1, <2>3, OnlyAppend
  <2>5. ASSUME NEW q \in Partition \ {p}
        PROVE  Only(Flow', Range(topic[q])) = Only(Flow, Range(topic[q]))
    <3>1. e \notin Range(topic[q])
      BY <1>4 DEF OrderInv, Apart
    <3> QED BY <1>4, <2>1, <2>3, <3>1, OnlyAppend
  <2>6. InOrder'
    BY <1>1, <1>5, <2>2, <2>4, <2>5 DEF OrderInv, InOrder, Good, In, Flow
  <2>7. Apart' /\ Published' = Published /\ e \in Published
    BY <1>1, <1>4 DEF OrderInv, Apart, Published
  <2> QED BY <1>1, <1>2, <2>1, <2>6, <2>7 DEF OrderInv
<1> QED BY <1>1, <1>6, <1>7

\* The event moves from the goroutine to the channel.
LEMMA SendOrder ==
  ASSUME IInv, OrderInv, Send PROVE OrderInv'
<1> USE DEF kafka, ingester, control, run
<1>1. /\ pc = "send" /\ pc' = "select" /\ Len(ch) < 1 /\ ch' = ch \o held /\ held' = <<>>
      /\ UNCHANGED <<topic, position, ctl, putting, stored, began, found, dropped>>
  BY Zenon DEF Send, Capacity
<1>2. TypeOK /\ ch = <<>> /\ ctl # "returned"
  BY <1>1 DEF IInv, TypeOK, AtMostOne, OrderInv
<1>3. ch' = held
  BY <1>1, <1>2, FlowTypes, ConcatEmptySeq
<1>4. Handled' = Handled
  <2>1. Front \in Seq(Event) /\ held \in Seq(Event) /\ Handled = (Front \o <<>>) \o held
    BY <1>2, FlowTypes
  <2>2. Handled' = (Front \o held) \o <<>>
    BY <1>1, <1>3, Zenon DEF Handled, Front
  <2>3. Front \o held \in Seq(Event)
    BY <2>1, ConcatProperties
  <2> QED BY <2>1, <2>2, <2>3, ConcatEmptySeq
<1>5. Flow' = Flow /\ Had' = Had
  BY <1>1, <1>2, <1>3, <1>4 DEF Flow, StoredThisRun, Had, Kept, Range
<1> QED BY <1>1, <1>2, <1>5, SameFlow

\* The event moves from the channel to the controller.
LEMMA ReceiveOrder ==
  ASSUME IInv, OrderInv, Receive PROVE OrderInv'
<1> USE DEF kafka, ingester, control, run
<1>1. /\ ctl = "receive" /\ ch # <<>> /\ putting' = <<Head(ch)>> /\ ch' = Tail(ch) /\ ctl' = "put"
      /\ UNCHANGED <<topic, position, pc, held, stored, began, found, dropped>>
  BY Zenon DEF Receive
<1>2. TypeOK /\ ch \in AtMostOne /\ putting = <<>> /\ dropped = <<>>
  BY <1>1 DEF IInv, TypeOK, Control
<1>3. PICK e \in Event : ch = <<e>>
  BY <1>1, <1>2 DEF AtMostOne
<1>4. putting' = ch /\ ch' = putting
  BY <1>1, <1>2, <1>3
<1>5. Handled' = Handled
  <2>1. Handled = ((<<>> \o <<>>) \o ch) \o held /\ Handled' = ((<<>> \o ch) \o <<>>) \o held
    BY <1>1, <1>2, <1>4, Zenon DEF Handled
  <2>2. ch \in Seq(Event) /\ <<>> \in Seq(Event)
    BY <1>2, FlowTypes, EmptySeq
  <2> QED BY <2>1, <2>2, ConcatEmptySeq
<1>6. Flow' = Flow /\ Had' = Had
  BY <1>1, <1>4, <1>5 DEF Flow, StoredThisRun, Had, Kept
<1> QED BY <1>1, <1>6, SameFlow

\* The event moves from the controller to the end of the repository, or is dropped.
LEMMA PutOrder ==
  ASSUME IInv, OrderInv, Put \/ PutFails PROVE OrderInv'
<1> USE DEF kafka, ingester, control, run
<1>1. /\ ctl = "put" /\ ctl' \in {"receive", "failed"} /\ putting' = <<>>
      /\ \/ dropped' = putting /\ stored' = stored
         \/ dropped' = dropped /\ stored' = stored \o putting
      /\ UNCHANGED <<topic, position, pc, held, ch, began, found>>
  BY Zenon DEF Put, PutFails
<1>2. TypeOK /\ dropped = <<>>
  BY <1>1 DEF IInv, Control
<1>5. /\ Range(<<>>) = {} /\ Front = putting
      /\ putting \in Seq(Event) /\ putting \o <<>> = putting
  <2>1. putting \in Seq(Event) /\ Front = <<>> \o putting
    BY <1>2, FlowTypes, Zenon DEF Front
  <2> QED BY <2>1, ConcatEmptySeq DEF Range
<1>3. CASE dropped' = putting /\ stored' = stored
  <2>1. Front' = putting
    BY <1>1, <1>3, <1>5 DEF Front
  <2>2. Handled = (Front \o ch) \o held /\ Handled' = (Front' \o ch) \o held
    BY <1>1, Zenon DEF Handled, Front
  <2>3. Flow' = Flow
    BY <1>1, <1>3, <1>5, <2>1, <2>2, Zenon DEF Flow, StoredThisRun
  <2>4. Had' = Had
    BY <1>1, <1>2, <1>3, <1>5 DEF Had, Kept
  <2> QED BY <1>1, <2>3, <2>4, SameFlow
<1>4. CASE dropped' = dropped /\ stored' = stored \o putting
  <2>1. stored \in Seq(Event) /\ putting \in Seq(Event) /\ found \in Nat /\ found <= Len(stored)
    BY <1>2, FlowTypes DEF TypeOK
  <2>2. StoredThisRun' = StoredThisRun \o putting
    <3>1. StoredThisRun' = SubSeq(stored \o putting, found + 1, Len(stored \o putting))
      BY <1>1, <1>4 DEF StoredThisRun
    <3> QED BY <2>1, <3>1, RestOfConcat DEF StoredThisRun
  <2>3. Flow' = Flow
    <3> DEFINE rest == ch \o held
    <3>1. ch \in Seq(Event) /\ held \in Seq(Event) /\ rest \in Seq(Event) /\ StoredThisRun \in Seq(Event)
      BY <1>2, FlowTypes, ConcatProperties
    <3>2. Handled = putting \o rest
      <4>1. Handled = (putting \o ch) \o held
        BY <1>5, Zenon DEF Handled, Front
      <4>2. putting \in Seq(Event) /\ ch \in Seq(Event) /\ held \in Seq(Event)
        BY <2>1, <3>1
      <4>3. (putting \o ch) \o held = putting \o (ch \o held)
        BY <4>2, ConcatAssociative
      <4> QED BY <4>1, <4>3, Zenon
    <3>3. Handled' = rest
      <4>1. Handled' = ((<<>> \o <<>>) \o ch) \o held
        BY <1>1, <1>2, <1>4, Zenon DEF Handled
      <4>2. <<>> \in Seq(Event)
        BY EmptySeq
      <4> QED BY <3>1, <4>1, <4>2, ConcatEmptySeq
    <3> HIDE DEF rest
    <3>4. Flow' = (StoredThisRun \o putting) \o rest
      BY <2>2, <3>3, Zenon DEF Flow
    <3>5. (StoredThisRun \o putting) \o rest = StoredThisRun \o (putting \o rest)
      <4>1. StoredThisRun \in Seq(Event) /\ putting \in Seq(Event) /\ rest \in Seq(Event)
        BY <2>1, <3>1
      <4> QED BY <4>1, ConcatAssociative
    <3> QED BY <3>2, <3>4, <3>5, Zenon DEF Flow
  <2>4. Had' = Had
    <3>1. Range(stored \o putting) = Range(stored) \cup Range(putting)
      BY <2>1, RangeOfConcat
    <3> QED BY <1>1, <1>4, <1>5, <3>1 DEF Had, Kept
  <2> QED BY <1>1, <2>3, <2>4, SameFlow
<1> QED BY <1>1, <1>3, <1>4

\* What a crash loses was kept before.
LEMMA CrashOrder ==
  ASSUME IInv, OrderInv, Crash PROVE OrderInv'
<1> USE DEF kafka, ingester, control, run
<1>1. /\ pc' = "down" /\ ctl' = "down" /\ held' = <<>> /\ ch' = <<>> /\ putting' = <<>>
      /\ dropped' = <<>> /\ stored' = IF Durable THEN stored ELSE <<>>
      /\ UNCHANGED <<topic, position, began>>
  BY Zenon DEF Crash
<1>2. Apart' /\ Published' = Published
  BY <1>1 DEF OrderInv, Apart, Published
<1>3. Had' \subseteq Had
  BY <1>1 DEF Had, Kept, Range
<1> QED BY <1>1, <1>2, <1>3 DEF OrderInv, InOrder

\* A new run begins with nothing read, stored or on its way.
LEMMA RestartOrder ==
  ASSUME IInv, OrderInv, Restart PROVE OrderInv'
<1> USE DEF kafka, ingester, control, run
<1>1. /\ pc = "down" /\ position' = committed /\ began' = committed /\ pc' = "none"
      /\ ctl' = "start" /\ found' = Len(stored)
      /\ UNCHANGED <<topic, held, ch, putting, stored, dropped>>
  BY Zenon DEF Restart
<1>2. /\ committed \in [Partition -> Nat] /\ stored \in Seq(Event) /\ Len(stored) \in Nat
      /\ held = <<>> /\ ch = <<>> /\ putting = <<>> /\ dropped = <<>>
  BY <1>1, LenProperties DEF IInv, TypeOK, Offsets, Control
<1>3. Apart' /\ Published' = Published /\ Had' = Had
  BY <1>1 DEF OrderInv, Apart, Published, Had, Kept
<1>4. StoredThisRun' = <<>> /\ Handled' = <<>> /\ <<>> \o <<>> = <<>>
  <2>1. StoredThisRun' = SubSeq(stored, Len(stored) + 1, Len(stored))
    BY <1>1 DEF StoredThisRun
  <2>2. <<>> \o <<>> = <<>>
    BY EmptySeq, ConcatEmptySeq
  <2> QED BY <1>1, <1>2, <2>1, <2>2, SubSeqEmpty DEF Handled
<1>5. ASSUME NEW p \in Partition PROVE ReadThisRun(p)' = <<>>
  <2>1. ReadThisRun(p)' = SubSeq(topic[p], committed[p] + 1, committed[p]) /\ committed[p] \in Nat
    BY <1>1, <1>2 DEF ReadThisRun
  <2> QED BY <2>1, SubSeqEmpty
<1>6. InOrder'
  BY <1>4, <1>5, OnlyEmpty DEF InOrder, Good, In
<1>7. \A p \in Partition : began'[p] <= position'[p]
  BY <1>1, <1>2
<1> QED BY <1>1, <1>3, <1>6, <1>7 DEF OrderInv

\* A message enters one partition only, and again only into the same.
LEMMA PublishOrder ==
  ASSUME IInv, OrderInv, NEW e \in Event, NEW p \in Partition, Publish(e, p),
         e \in Published => e \in Range(topic[p])
  PROVE  OrderInv'
<1>1. /\ topic \in [Partition -> Seq(Event)] /\ topic' = [topic EXCEPT ![p] = Append(topic[p], e)]
      /\ UNCHANGED <<position, pc, held, ch, ctl, putting, stored, began, found, dropped>>
      /\ position \in [Partition -> Nat] /\ began \in [Partition -> Nat]
      /\ \A q \in Partition : position[q] <= Len(topic[q])
  BY DEF Publish, IInv, TypeOK, Offsets, ingester, control, run
<1>2. topic'[p] = Append(topic[p], e) /\ \A q \in Partition \ {p} : topic'[q] = topic[q]
  BY <1>1
<1>3. /\ topic[p] \in Seq(Event) /\ <<e>> \in Seq(Event)
      /\ Append(topic[p], e) = topic[p] \o <<e>>
      /\ Range(topic'[p]) = Range(topic[p]) \cup {e}
  <2>1. topic[p] \in Seq(Event) /\ <<e>> \in Seq(Event)
    BY <1>1
  <2>2. Append(topic[p], e) = topic[p] \o <<e>>
    BY <2>1, AppendIsConcat
  <2>3. Range(topic[p] \o <<e>>) = Range(topic[p]) \cup Range(<<e>>)
    BY <2>1, RangeOfConcat
  <2>4. Range(<<e>>) = {e}
    BY DEF Range
  <2> QED BY <1>2, <2>1, <2>2, <2>3, <2>4
<1>4. Apart'
  <2> SUFFICES ASSUME NEW q \in Partition, NEW r \in Partition, q # r
               PROVE  Range(topic'[q]) \cap Range(topic'[r]) = {}
    BY DEF Apart
  <2>1. Range(topic[q]) \cap Range(topic[r]) = {}
    BY DEF OrderInv, Apart
  <2>2. \A t \in Partition \ {p} : Range(topic'[t]) = Range(topic[t])
    BY <1>2
  <2>3. \A t \in Partition \ {p} : e \notin Range(topic[t])
    BY DEF OrderInv, Apart, Published
  <2> QED BY <1>3, <2>1, <2>2, <2>3
<1>5. Had' = Had /\ Published \subseteq Published' /\ Flow' = Flow
  BY <1>1, <1>2, <1>3 DEF Had, Kept, Published, Flow, StoredThisRun, Handled
<1>6. ASSUME NEW q \in Partition PROVE ReadThisRun(q)' = ReadThisRun(q)
  <2>1. CASE q # p
    BY <1>1, <1>2, <2>1 DEF ReadThisRun
  <2>2. CASE q = p
    <3>1. /\ began[p] \in Nat /\ position[p] \in Nat /\ position[p] <= Len(topic[p])
          /\ began[p] <= position[p]
      BY <1>1 DEF OrderInv
    <3>2. SubSeq(topic[p] \o <<e>>, began[p] + 1, position[p])
            = SubSeq(topic[p], began[p] + 1, position[p])
      BY <1>3, <3>1, SliceOfConcat
    <3> QED BY <1>1, <1>2, <1>3, <2>2, <3>2 DEF ReadThisRun
  <2> QED BY <2>1, <2>2
<1>7. ASSUME NEW q \in Partition PROVE Only(Flow, Range(topic'[q])) = Only(Flow, Range(topic[q]))
  <2>1. Flow \in Seq(Event) /\ Len(Flow) \in Nat /\ \A i \in 1..Len(Flow) : Flow[i] \in Published
    BY FlowTypes, LenProperties DEF IInv, OrderInv
  <2>2. \A x \in Published : x \in Range(topic'[q]) <=> x \in Range(topic[q])
    BY <1>2, <1>3 DEF Published
  <2> QED BY <2>1, <2>2, OnlyAgree
<1>8. InOrder'
  BY <1>1, <1>5, <1>6, <1>7 DEF OrderInv, InOrder, Good, In, Flow
<1> QED BY <1>1, <1>4, <1>5, <1>8 DEF OrderInv

\* Every step of the ingestion.
LEMMA ConsumeOrder ==
  ASSUME IInv, OrderInv, Consume PROVE OrderInv'
BY QuietOrder, ReadOrder, SendOrder, ReceiveOrder, PutOrder, CrashOrder, RestartOrder
   DEF Consume, Ingest, StartIngestion

\* A step of something else.
LEMMA StutterOrder ==
  ASSUME OrderInv, UNCHANGED vars PROVE OrderInv'
<1>1. UNCHANGED <<topic, position, pc, held, ch, ctl, putting, stored, began, found, dropped>>
  BY DEF vars
<1>2. Flow' = Flow /\ Had' = Had
  BY <1>1 DEF Flow, StoredThisRun, Handled, Had, Kept
<1> QED BY <1>1, <1>2, SameFlow DEF OrderInv

\* The invariant, for the ingestion of any messages.
LEMMA OrderInvariance == Spec => [](IInv /\ OrderInv)
<1>1. IInv /\ OrderInv /\ [Next]_vars => IInv' /\ OrderInv'
  <2> SUFFICES ASSUME IInv, OrderInv, [Next]_vars PROVE IInv' /\ OrderInv'
    OBVIOUS
  <2>1. CASE Consume
    BY <2>1, ConsumeKeeps, ConsumeOrder
  <2>2. ASSUME NEW e \in Event \ Published, NEW p \in Partition, Publish(e, p) PROVE IInv' /\ OrderInv'
    BY <2>2, PublishKeeps, PublishOrder
  <2>3. CASE UNCHANGED vars
    BY <2>3, StutterKeeps, StutterOrder
  <2> QED BY <2>1, <2>2, <2>3 DEF Next
<1> QED BY InitInv, OrderInit, <1>1, PTL DEF Spec

\* The invariant, for the messages of the producer, which may repeat.
LEMMA PipelineOrder == PipelineSpec => [](IInv /\ OrderInv)
<1>1. PipelineInit => OrderInv
  BY OrderInit DEF PipelineInit
<1>2. ASSUME IInv, ProducerOK, OrderInv, [PipelineNext]_pipelineVars PROVE OrderInv'
  <2>1. CASE UNCHANGED vars
    BY <1>2, <2>1, StutterOrder
  <2>2. CASE Deliver
    <3>1. PICK e \in outstanding : \E p \in PartitionFor(e) : Publish(e, p)
      BY <2>2 DEF Deliver
    <3>2. PICK p \in PartitionFor(e) : Publish(e, p)
      BY <3>1
    <3>3. e \in Event /\ p \in Partition /\ (e \in Published => e \in Range(topic[p]))
      BY <1>2 DEF ProducerOK, PartitionFor
    <3> QED BY <1>2, <3>2, <3>3, PublishOrder
  <2>3. CASE Consume
    BY <1>2, <2>3, ConsumeOrder
  <2> QED BY <1>2, <2>1, <2>2, <2>3 DEF PipelineNext, pipelineVars
<1> QED BY <1>1, <1>2, PipelineInvariance, PTL DEF PipelineSpec

\* Of each partition the repository has what this run read and could decode, in
\* the order of the offsets, up to what is being sent, in the channel or being
\* stored; with any messages, and with those of ratingingester's producer.
THEOREM InOrderSafe == (Spec => []InOrder) /\ (PipelineSpec => []InOrder)
<1>1. OrderInv => InOrder
  BY DEF OrderInv
<1> QED BY <1>1, OrderInvariance, PipelineOrder, PTL

\* A StartIngestion that returned nil after cancel has stored everything that its
\* goroutine read and could decode, so the commit of Close loses nothing.
THEOREM ReturnedSafe == (Spec => []ReturnedStoredAll) /\ (PipelineSpec => []ReturnedStoredAll)
<1>1. IInv /\ OrderInv => ReturnedStoredAll
  <2> SUFFICES ASSUME IInv, OrderInv, ctl = "returned", NEW p \in Partition
               PROVE  Good(ReadThisRun(p)) = In(p, StoredThisRun) /\ committed[p] <= position[p]
    BY DEF ReturnedStoredAll
  <2>1. /\ pc # "down" /\ TypeOK
        /\ dropped = <<>> /\ putting = <<>> /\ ch = <<>> /\ held = <<>>
    BY DEF IInv, OrderInv, Control
  <2>2. Handled = <<>>
    BY <2>1, EmptySeq, ConcatEmptySeq DEF Handled
  <2>3. StoredThisRun \o Handled = StoredThisRun
    BY <2>1, <2>2, FlowTypes, ConcatEmptySeq
  <2> QED BY <2>1, <2>3 DEF OrderInv, InOrder, IInv, Control
<1> QED BY <1>1, OrderInvariance, PipelineOrder, PTL
(***************************************************************************)
(* The end of a run.  The safety half of CancelEnds: the two goroutines    *)
(* never wait for each other, and after cancel they have eleven steps left *)
(* at most, whatever is in the channel and whatever Puts and reads fail.   *)
(***************************************************************************)

\* Where the goroutines are before they are started and after a crash.
Started ==
  /\ pc = "none" => ctl \in {"start", "failed"}
  /\ ctl = "down" => pc = "down"

\* No step undoes that.
LEMMA StartedKept ==
  ASSUME IInv, Started, Consume \/ (\E e \in Event, p \in Partition : Publish(e, p)) \/ UNCHANGED vars
  PROVE  Started'
<1> USE DEF Started, kafka, ingester, control, run
<1>1. CASE \/ \E p \in Partition : AutoCommit(p)
           \/ \E e \in Event, p \in Partition : Publish(e, p)
           \/ Cancel \/ UNCHANGED vars
  <2>1. UNCHANGED <<pc, ctl>>
    BY <1>1, Zenon DEF AutoCommit, Publish, Cancel, vars
  <2> QED BY <2>1
<1>2. ASSUME NEW p \in Partition, Read(p) PROVE Started'
  BY <1>2 DEF Read
<1>3. CASE Select \/ ReadFails \/ Send \/ Close
  BY <1>3 DEF Select, ReadFails, Send, Close
<1>4. CASE StartIngestion
  BY <1>4 DEF StartIngestion, Start, Receive, RangeEnds, Put, PutFails, IInv, Control
<1>5. CASE Crash \/ Restart
  BY <1>5 DEF Crash, Restart
<1> QED BY <1>1, <1>2, <1>3, <1>4, <1>5 DEF Consume, Ingest

\* One of the goroutines can go on.  ReadMessage is not taken to fail.
CanGoOn ==
  \/ pc \in {"select", "closing"}
  \/ pc = "read" /\ \E p \in Partition : position[p] < Len(topic[p])
  \/ pc = "send" /\ Len(ch) < Capacity
  \/ ctl \in {"start", "put"}
  \/ ctl = "receive" /\ (ch # <<>> \/ pc \in {"closing", "closed"})

\* The goroutine and StartIngestion never wait for each other: one of them can
\* go on unless both have ended, the process has, there is nothing to read, or a
\* failed Put has left the goroutine with a full channel.
NeverStuck == CanGoOn \/ Idle \/ Ended \/ Stuck \/ pc = "down"

\* By where the ingester's goroutine is; sending, by what the channel has.
LEMMA StartedNeverStuck == IInv /\ OrderInv /\ Started => NeverStuck
<1> SUFFICES ASSUME IInv, OrderInv, Started, pc # "down", ~Idle, ~Ended, ~Stuck
             PROVE  CanGoOn
  BY DEF NeverStuck
<1>1. /\ pc  \in {"none", "select", "read", "send", "closing", "closed"}
      /\ ctl \in {"start", "receive", "put", "returned", "failed"}
      /\ ch \in AtMostOne
      /\ ctl = "returned" => pc \in {"closing", "closed"} /\ ch = <<>>
      /\ pc = "none" => ctl \in {"start", "failed"}
  BY DEF IInv, TypeOK, OrderInv, Started
<1>2. CASE pc = "read"
  <2>1. PICK p \in Partition : position[p] # Len(topic[p])
    BY <1>2 DEF Idle
  <2>2. position[p] \in Nat /\ Len(topic[p]) \in Nat /\ position[p] <= Len(topic[p])
    BY LenProperties DEF IInv, TypeOK, Offsets
  <2> QED BY <1>2, <2>1, <2>2 DEF CanGoOn
<1>3. CASE pc = "send"
  <2>1. CASE ch = <<>>
    <3>1. Len(ch) < Capacity
      BY <2>1, EmptySeq DEF Capacity
    <3> QED BY <1>3, <3>1 DEF CanGoOn
  <2>2. CASE ch # <<>>
    BY <1>1, <1>3, <2>2 DEF CanGoOn, Stuck
  <2> QED BY <2>1, <2>2
<1>4. CASE pc \notin {"read", "send"}
  BY <1>1, <1>4 DEF CanGoOn, Ended
<1> QED BY <1>2, <1>3, <1>4

\* The most steps the goroutines may still take after cancel: an event that is
\* read has to be sent, received and stored, and one message may still be read.
IngesterSteps == CASE pc = "read" -> 7 [] pc = "send" -> 3 [] pc = "select" -> 2
                   [] pc = "closing" -> 1 [] OTHER -> 0
ControllerSteps == CASE ctl = "start" -> 4 [] ctl \in {"receive", "put"} -> 1 [] OTHER -> 0
EventSteps == (IF held = <<>> THEN 0 ELSE 3) + (IF ch = <<>> THEN 0 ELSE 2)
                + (IF putting = <<>> THEN 0 ELSE 1)

StepsToEnd == IngesterSteps + ControllerSteps + EventSteps

\* After cancel each step of the goroutines leaves them fewer, and nothing but
\* a crash changes their number otherwise.
EndNearer ==
  cancelled /\ pc # "down" =>
    /\ StepsToEnd \in 0..11
    /\ IF Ingest \/ StartIngestion THEN StepsToEnd' \in 0..(StepsToEnd - 1)
                                   ELSE StepsToEnd' = StepsToEnd \/ Crash

EndsSoon == [][EndNearer]_vars

\* A message being read leaves nothing to send, one being stored nothing to start.
LEMMA StepsToEndRange == IInv => StepsToEnd \in 0..11
<1> SUFFICES ASSUME IInv PROVE StepsToEnd \in 0..11
  OBVIOUS
<1>1. /\ pc # "send" => held = <<>>
      /\ ctl # "put" => putting = <<>>
      /\ ctl = "start" => pc = "none"
  BY DEF IInv, Control
<1> QED BY <1>1 DEF StepsToEnd, IngesterSteps, ControllerSteps, EventSteps

\* Each step of the goroutines after cancel, by what it moves.
LEMMA GoroutinesEnd ==
  ASSUME IInv, cancelled, pc # "down", Ingest \/ StartIngestion
  PROVE  StepsToEnd' \in 0..(StepsToEnd - 1)
<1> USE DEF kafka, ingester, control, run
<1>1. CASE Select \/ ReadFails \/ Close \/ RangeEnds
  <2>1. UNCHANGED <<held, ch, putting>>
    BY <1>1, Zenon DEF Select, ReadFails, Close, RangeEnds
  <2>2. \/ pc = "select" /\ pc' = "closing" /\ ctl' = ctl
        \/ pc = "read" /\ pc' = "select" /\ ctl' = ctl
        \/ pc = "closing" /\ pc' = "closed" /\ ctl' = ctl
        \/ ctl = "receive" /\ ctl' = "returned" /\ pc' = pc
    BY <1>1 DEF Select, ReadFails, Close, RangeEnds
  <2> QED BY <2>1, <2>2 DEF StepsToEnd, IngesterSteps, ControllerSteps, EventSteps
<1>2. ASSUME NEW p \in Partition, Read(p) PROVE StepsToEnd' \in 0..(StepsToEnd - 1)
  <2>1. /\ pc = "read" /\ UNCHANGED <<ctl, ch, putting>>
        /\ (pc' = "select" /\ held' = held) \/ pc' = "send"
    BY <1>2 DEF Read
  <2>2. held = <<>>
    BY <2>1 DEF IInv, Control
  <2> QED BY <2>1, <2>2 DEF StepsToEnd, IngesterSteps, ControllerSteps, EventSteps
<1>3. CASE Send
  <2>1. /\ pc = "send" /\ pc' = "select" /\ Len(ch) < 1 /\ ch' = ch \o held /\ held' = <<>>
        /\ UNCHANGED <<ctl, putting>>
    BY <1>3, Zenon DEF Send, Capacity
  <2>2. ch = <<>> /\ held \in Seq(Event)
    BY <2>1, ShortIsSeq DEF IInv, TypeOK, AtMostOne
  <2>3. ch' = held
    BY <2>1, <2>2, ConcatEmptySeq
  <2> QED BY <2>1, <2>2, <2>3 DEF StepsToEnd, IngesterSteps, ControllerSteps, EventSteps
<1>4. CASE Start
  <2>1. /\ ctl = "start" /\ pc = "none" /\ UNCHANGED <<held, ch, putting>>
        /\ (ctl' = "receive" /\ pc' = "select") \/ (ctl' = "failed" /\ pc' = pc)
    BY <1>4 DEF Start, IInv, Control
  <2> QED BY <2>1 DEF StepsToEnd, IngesterSteps, ControllerSteps, EventSteps
<1>5. CASE Receive
  <2>1. /\ ctl = "receive" /\ ch # <<>> /\ putting' = <<Head(ch)>> /\ ch' = Tail(ch) /\ ctl' = "put"
        /\ UNCHANGED <<pc, held>>
    BY <1>5, Zenon DEF Receive
  <2>2. putting = <<>> /\ ch \in AtMostOne
    BY <2>1 DEF IInv, TypeOK, Control
  <2>3. PICK e \in Event : ch = <<e>>
    BY <2>1, <2>2 DEF AtMostOne
  <2>4. ch' = <<>>
    BY <2>1, <2>3
  <2> QED BY <2>1, <2>2, <2>4 DEF StepsToEnd, IngesterSteps, ControllerSteps, EventSteps
<1>6. CASE Put \/ PutFails
  <2>1. /\ ctl = "put" /\ UNCHANGED <<pc, held, ch>>
        /\ putting' = <<>> /\ ctl' \in {"receive", "failed"}
    BY <1>6 DEF Put, PutFails
  <2>2. putting # <<>>
    BY <2>1 DEF IInv, Control
  <2> QED BY <2>1, <2>2 DEF StepsToEnd, IngesterSteps, ControllerSteps, EventSteps
<1> QED BY <1>1, <1>2, <1>3, <1>4, <1>5, <1>6 DEF Ingest, StartIngestion

\* Kafka, the producer and cancel do not move the goroutines.
LEMMA OthersAside ==
  ASSUME IInv, pc # "down", ~(Ingest \/ StartIngestion),
         Consume \/ (\E e \in Event, p \in Partition : Publish(e, p)) \/ UNCHANGED vars
  PROVE  StepsToEnd' = StepsToEnd \/ Crash
<1> USE DEF kafka, ingester, control, run
<1> SUFFICES ASSUME ~Crash PROVE UNCHANGED <<pc, ctl, held, ch, putting>>
  BY DEF StepsToEnd, EventSteps, IngesterSteps, ControllerSteps
<1>1. \/ \E p \in Partition : AutoCommit(p)
      \/ Cancel
      \/ \E e \in Event, p \in Partition : Publish(e, p)
      \/ UNCHANGED vars
  BY DEF Consume, Restart
<1> QED BY <1>1, Zenon DEF AutoCommit, Cancel, Publish, vars

\* Every step.
LEMMA EndStep ==
  ASSUME IInv, Consume \/ (\E e \in Event, p \in Partition : Publish(e, p)) \/ UNCHANGED vars
  PROVE  EndNearer
BY StepsToEndRange, GoroutinesEnd, OthersAside DEF EndNearer

\* What a step of either specification is to the ingestion.
LEMMA StepsOfSpecs ==
  /\ [Next]_vars => Consume \/ (\E e \in Event, p \in Partition : Publish(e, p)) \/ UNCHANGED vars
  /\ ProducerOK /\ [PipelineNext]_pipelineVars =>
       Consume \/ (\E e \in Event, p \in Partition : Publish(e, p)) \/ UNCHANGED vars
<1>1. [Next]_vars => Consume \/ (\E e \in Event, p \in Partition : Publish(e, p)) \/ UNCHANGED vars
  BY DEF Next
<1>2. ASSUME ProducerOK, [PipelineNext]_pipelineVars
      PROVE  Consume \/ (\E e \in Event, p \in Partition : Publish(e, p)) \/ UNCHANGED vars
  <2>1. CASE Deliver
    <3>1. PICK e \in outstanding : \E p \in PartitionFor(e) : Publish(e, p)
      BY <2>1 DEF Deliver
    <3>2. PICK p \in PartitionFor(e) : Publish(e, p)
      BY <3>1
    <3>3. e \in Event /\ p \in Partition
      BY <1>2 DEF ProducerOK, PartitionFor
    <3> QED BY <3>2, <3>3
  <2> QED BY <1>2, <2>1 DEF PipelineNext, pipelineVars
<1> QED BY <1>1, <1>2

\* The goroutine and StartIngestion never deadlock: with the channel full or
\* empty, closed or not, one of them can go on until both have ended, but for the
\* goroutine that sends into a full channel after a failed Put.
THEOREM NeverStuckSafe == (Spec => []NeverStuck) /\ (PipelineSpec => []NeverStuck)
<1>1. Init => Started
  BY DEF Init, Started
<1>2. IInv /\ Started /\ [Next]_vars => Started'
  BY StepsOfSpecs, StartedKept
<1>3. IInv /\ ProducerOK /\ Started /\ [PipelineNext]_pipelineVars => Started'
  BY StepsOfSpecs, StartedKept
<1>4. PipelineInit => Started
  BY <1>1 DEF PipelineInit
<1>5. Spec => []NeverStuck
  BY <1>1, <1>2, StartedNeverStuck, OrderInvariance, PTL DEF Spec
<1>6. PipelineSpec => []NeverStuck
  BY <1>3, <1>4, StartedNeverStuck, PipelineOrder, PipelineInvariance, PTL DEF PipelineSpec
<1> QED BY <1>5, <1>6

\* After cancel the two goroutines end within eleven steps of theirs, unless
\* ReadMessage goes on waiting or the process ends before.
THEOREM EndsSoonSafe == (Spec => EndsSoon) /\ (PipelineSpec => EndsSoon)
<1>1. IInv /\ [Next]_vars => [EndNearer]_vars
  BY StepsOfSpecs, EndStep
<1>2. IInv /\ ProducerOK /\ [PipelineNext]_pipelineVars => [EndNearer]_vars
  BY StepsOfSpecs, EndStep
<1>3. Spec => EndsSoon
  BY <1>1, Invariance, PTL DEF Spec, EndsSoon
<1>4. PipelineSpec => EndsSoon
  BY <1>2, PipelineInvariance, PTL DEF PipelineSpec, EndsSoon
<1> QED BY <1>3, <1>4
==============================================================================
