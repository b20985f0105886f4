------------------------- MODULE HoldingsTableProofs -------------------------
(***************************************************************************)
(* Theorems about HoldingsTable: however many uploads and corporate        *)
(* actions, side by side or not, cut, failed and run again, no transaction *)
(* is appended twice to a pair nothing was seen to disturb, SUCCESS of an  *)
(* account means that each of its buys and sells has its row, and a pair   *)
(* that was deleted and not written again has a failed rebuild.            *)
(*                                                                         *)
(* First the facts about the FIFO engine: it takes the events one by one,  *)
(* writes a row for each buy and sell, and repeats none but the lots of a  *)
(* split.  Then the invariant, HInv, and one lemma for each action.        *)
(***************************************************************************)
EXTENDS HoldingsTable, FiniteSetTheorems, NaturalsInduction, WellFoundedInduction, TLAPS

----------------------------------------------------------------------------
(* The engine as a recursive function.                                      *)

Base == [queue |-> <<>>, rows |-> <<>>, lastKey |-> [k \in Replacing |-> <<>>]]
Latest(src, T) == CHOOSE i \in T : \A j \in T \ {i} : EventBefore(src, j, i)
After(src, f, T) == ApplyEvent(f[T \ {Latest(src, T)}], Latest(src, T), src[Latest(src, T)])
Runs(src, S, f) == f = [T \in SUBSET S |-> IF T = {} THEN Base ELSE After(src, f, T)]

LEMMA EngineRuns ==
    ASSUME NEW src, NEW S, \E f : Runs(src, S, f)
    PROVE  \E f : Runs(src, S, f) /\ Engine(src, S) = f[S]
<1> DEFINE Fn(f) == [T \in SUBSET S |->
            IF T = {} THEN [queue |-> <<>>, rows |-> <<>>, lastKey |-> [k \in Replacing |-> <<>>]]
            ELSE LET i == CHOOSE i \in T : \A j \in T \ {i} : EventBefore(src, j, i)
                 IN Strict(LAMBDA v : ApplyEvent(v, i, src[i]), f[T \ {i}])]
<1>1. ASSUME NEW f PROVE Fn(f) = [T \in SUBSET S |-> IF T = {} THEN Base ELSE After(src, f, T)]
    <2>1. ASSUME NEW T \in SUBSET S
          PROVE  Fn(f)[T] = IF T = {} THEN Base ELSE After(src, f, T)
        <3>1. PICK i : i = Latest(src, T)
            OBVIOUS
        <3>2. PICK v : v = f[T \ {i}]
            OBVIOUS
        <3>3. Strict(LAMBDA w : ApplyEvent(w, i, src[i]), f[T \ {i}]) = ApplyEvent(v, i, src[i])
            BY <3>2 DEF Strict
        <3>4. Fn(f)[T] = IF T = {} THEN Base ELSE Strict(LAMBDA w : ApplyEvent(w, i, src[i]), f[T \ {i}])
            BY <3>1 DEF Base, Latest
        <3>5. QED
            BY <3>1, <3>2, <3>3, <3>4 DEF After
    <2>2. QED
        BY <2>1
<1>2. Engine(src, S) = (CHOOSE f : f = Fn(f))[S]
    BY DEF Engine
<1>3. PICK f : Runs(src, S, f)
    OBVIOUS
<1>4. f = Fn(f)
    BY <1>1, <1>3 DEF Runs
<1> DEFINE g == CHOOSE h : h = Fn(h)
<1>5. g = Fn(g)
    <2> HIDE DEF Fn
    <2> QED BY <1>4
<1>6. Runs(src, S, g)
    <2> HIDE DEF Fn, g
    <2> QED
    BY <1>1, <1>5 DEF Runs
<1> QED
    <2> HIDE DEF Fn
    <2> QED
    BY <1>2, <1>6

LEMMA LeastOf ==
    ASSUME NEW S \in SUBSET Nat, S # {}
    PROVE  \E a \in S : \A b \in S : a <= b
<1>1. PICK x \in S : \A y \in S : ~(<<y, x>> \in OpToRel(<, Nat))
    BY WFMin, NatLessThanWellFounded
<1>2. \A y \in S : ~(y < x)
    BY <1>1 DEF OpToRel
<1>3. QED
    BY <1>2

Small(S, n) == {T \in SUBSET S : Cardinality(T) <= n}
RunsTo(src, S, n, f) == f = [T \in Small(S, n) |-> IF T = {} THEN Base ELSE After(src, f, T)]

LEMMA RunsExist ==
    ASSUME NEW src, NEW S, IsFiniteSet(S), \A T \in SUBSET S : T # {} => Latest(src, T) \in T
    PROVE  \E f : Runs(src, S, f)
<1>1. \A T \in SUBSET S : IsFiniteSet(T) /\ Cardinality(T) \in Nat
    BY FS_Subset, FS_CardinalityType
<1>2. \E f : RunsTo(src, S, 0, f)
    <2>1. Small(S, 0) = {{}}
        BY <1>1, FS_EmptySet DEF Small
    <2>2. PICK f : f = [T \in {{}} |-> Base]
        OBVIOUS
    <2>3. f = [T \in Small(S, 0) |-> IF T = {} THEN Base ELSE After(src, f, T)]
        BY <2>1, <2>2
    <2>4. QED
        BY <2>3 DEF RunsTo
<1>3. ASSUME NEW n \in Nat, NEW f, RunsTo(src, S, n, f)
      PROVE  \E g : RunsTo(src, S, n + 1, g)
    <2>1. PICK g : g = [T \in Small(S, n + 1) |-> IF T = {} THEN Base ELSE After(src, f, T)]
        OBVIOUS
    <2>2. ASSUME NEW T \in Small(S, n + 1), T # {}
          PROVE  After(src, g, T) = After(src, f, T)
        <3>1. PICK i : i = Latest(src, T)
            OBVIOUS
        <3>2. T \in SUBSET S /\ i \in T /\ Cardinality(T) <= n + 1
            BY <2>2, <3>1 DEF Small
        <3>3. Cardinality(T \ {i}) = Cardinality(T) - 1
            BY <1>1, <3>2, FS_RemoveElement
        <3>4. T \ {i} \in Small(S, n) /\ T \ {i} \in Small(S, n + 1)
            BY <1>1, <3>2, <3>3 DEF Small
        <3>5. PICK U : U = T \ {i}
            OBVIOUS
        <3>6. g[U] = (IF U = {} THEN Base ELSE After(src, f, U))
            BY <2>1, <3>4, <3>5
        <3>7. f[U] = (IF U = {} THEN Base ELSE After(src, f, U))
            BY <1>3, <3>4, <3>5 DEF RunsTo
        <3>8. QED
            BY <3>1, <3>5, <3>6, <3>7 DEF After
    <2>3. g = [T \in Small(S, n + 1) |-> IF T = {} THEN Base ELSE After(src, g, T)]
        BY <2>1, <2>2
    <2>4. QED
        BY <2>3 DEF RunsTo
<1>4. \A n \in Nat : \E f : RunsTo(src, S, n, f)
    <2>1. PICK Bad : Bad = {n \in Nat : ~ \E f : RunsTo(src, S, n, f)}
        OBVIOUS
    <2>2. SUFFICES ASSUME Bad # {} PROVE FALSE
        BY <2>1
    <2>3. PICK n \in Bad : \A m \in Bad : n <= m
        BY <2>1, <2>2, LeastOf
    <2>4. n # 0 /\ n \in Nat
        BY <1>2, <2>1, <2>3
    <2>5. n - 1 \in Nat /\ n - 1 \notin Bad
        BY <2>1, <2>3, <2>4
    <2>6. PICK f : RunsTo(src, S, n - 1, f)
        BY <2>1, <2>5
    <2>7. \E g : RunsTo(src, S, (n - 1) + 1, g)
        BY <1>3, <2>5, <2>6
    <2>8. (n - 1) + 1 = n
        BY <2>4
    <2>9. QED
        BY <2>1, <2>3, <2>7, <2>8
<1>5. PICK f : RunsTo(src, S, Cardinality(S), f)
    BY <1>1, <1>4
<1>6. Small(S, Cardinality(S)) = SUBSET S
    BY <1>1, FS_Subset DEF Small
<1>7. QED
    BY <1>5, <1>6 DEF Runs, RunsTo

----------------------------------------------------------------------------
(* Events in order: every set of them has a latest.                         *)

(* The four keys of the event order.                                        *)
Key(src, i) == <<src[i].date, Priority[src[i].kind], src[i].sort, i>>

LEMMA PriorityIsNat ==
    ASSUME NEW kind \in Kinds
    PROVE  Priority[kind] \in Nat
BY DEF Priority, Kinds, TxnKinds

LEMMA EventBeforeIs ==
    ASSUME NEW src \in Seq(Source), NEW i \in DOMAIN src, NEW j \in DOMAIN src
    PROVE  LET a == src[i].date      b == src[j].date
               c == Priority[src[i].kind]      d == Priority[src[j].kind]
               e == src[i].sort      f == src[j].sort
           IN /\ {a, b, c, d, e, f, i, j} \subseteq Nat
              /\ EventBefore(src, i, j) <=>
                   a < b \/ (a = b /\ (c < d \/ (c = d /\ (e < f \/ (e = f /\ i < j)))))
<1>1. src[i] \in Source /\ src[j] \in Source /\ i \in Nat /\ j \in Nat
    OBVIOUS
<1>2. PICK a, b, c, d, e, f : /\ a = src[i].date /\ b = src[j].date
                              /\ c = Priority[src[i].kind] /\ d = Priority[src[j].kind]
                              /\ e = src[i].sort /\ f = src[j].sort
    OBVIOUS
<1>3. {a, b, c, d, e, f} \subseteq Nat
    BY <1>1, <1>2, PriorityIsNat DEF Source
<1>4. PICK x : x = <<a, c, e, i>>
    OBVIOUS
<1>5. PICK y : y = <<b, d, f, j>>
    OBVIOUS
<1>6. EventBefore(src, i, j) <=> \E n \in 1 .. 4 : x[n] < y[n] /\ \A m \in 1 .. n - 1 : x[m] = y[m]
    BY <1>2, <1>4, <1>5 DEF EventBefore
<1>7. /\ x[1] = a /\ x[2] = c /\ x[3] = e /\ x[4] = i
      /\ y[1] = b /\ y[2] = d /\ y[3] = f /\ y[4] = j
    BY <1>4, <1>5
<1>8. (\E n \in 1 .. 4 : x[n] < y[n] /\ \A m \in 1 .. n - 1 : x[m] = y[m])
      <=> \/ x[1] < y[1]
          \/ x[2] < y[2] /\ x[1] = y[1]
          \/ x[3] < y[3] /\ x[1] = y[1] /\ x[2] = y[2]
          \/ x[4] < y[4] /\ x[1] = y[1] /\ x[2] = y[2] /\ x[3] = y[3]
    <2>1. /\ 1 .. 4 = {1, 2, 3, 4} /\ 1 .. 1 - 1 = {} /\ 1 .. 2 - 1 = {1}
          /\ 1 .. 3 - 1 = {1, 2} /\ 1 .. 4 - 1 = {1, 2, 3}
        OBVIOUS
    <2>2. QED
        BY <2>1, ZenonT(30)
<1>9. EventBefore(src, i, j) <=>
                   a < b \/ (a = b /\ (c < d \/ (c = d /\ (e < f \/ (e = f /\ i < j)))))
    BY <1>1, <1>3, <1>6, <1>7, <1>8
<1>10. QED
    BY <1>1, <1>2, <1>3, <1>9

LEMMA EventOrder ==
    ASSUME NEW src \in Seq(Source), NEW i \in DOMAIN src, NEW j \in DOMAIN src
    PROVE  /\ i # j => EventBefore(src, i, j) \/ EventBefore(src, j, i)
           /\ \A m \in DOMAIN src : EventBefore(src, i, j) /\ EventBefore(src, j, m) => EventBefore(src, i, m)
<1>1. i # j => EventBefore(src, i, j) \/ EventBefore(src, j, i)
    BY EventBeforeIs, SMTT(30)
<1>2. ASSUME NEW m \in DOMAIN src, EventBefore(src, i, j), EventBefore(src, j, m)
      PROVE  EventBefore(src, i, m)
    <2>1. PICK a, b, c : a = src[i].date /\ b = src[j].date /\ c = src[m].date
        OBVIOUS
    <2>2. PICK d, e, f : d = Priority[src[i].kind] /\ e = Priority[src[j].kind] /\ f = Priority[src[m].kind]
        OBVIOUS
    <2>3. PICK x, y, z : x = src[i].sort /\ y = src[j].sort /\ z = src[m].sort
        OBVIOUS
    <2>4. /\ {a, b, c, d, e, f, x, y, z, i, j, m} \subseteq Nat
          /\ a < b \/ (a = b /\ (d < e \/ (d = e /\ (x < y \/ (x = y /\ i < j)))))
        BY <1>2, <2>1, <2>2, <2>3, EventBeforeIs
    <2>5. b < c \/ (b = c /\ (e < f \/ (e = f /\ (y < z \/ (y = z /\ j < m)))))
        BY <1>2, <2>1, <2>2, <2>3, EventBeforeIs
    <2>6. a < c \/ (a = c /\ (d < f \/ (d = f /\ (x < z \/ (x = z /\ i < m)))))
        BY <2>4, <2>5, SMTT(30)
    <2>7. QED
        BY <2>1, <2>2, <2>3, <2>6, EventBeforeIs
<1>3. QED
    BY <1>1, <1>2

LEMMA LatestOf ==
    ASSUME NEW src \in Seq(Source), NEW S \in SUBSET DOMAIN src, S # {}
    PROVE  Latest(src, S) \in S
<1> DEFINE Final(T) == \E i \in T : \A j \in T \ {i} : EventBefore(src, j, i)
           Has(n) == \A T \in SUBSET DOMAIN src : T # {} /\ Cardinality(T) = n => Final(T)
<1>0. \A T \in SUBSET DOMAIN src : IsFiniteSet(T) /\ Cardinality(T) \in Nat
    <2>1. DOMAIN src = 1 .. Len(src) /\ Len(src) \in Nat
        OBVIOUS
    <2>2. IsFiniteSet(DOMAIN src)
        BY <2>1, FS_Interval
    <2>3. QED
        BY <2>2, FS_Subset, FS_CardinalityType
<1>1. ASSUME NEW n \in Nat, Has(n)
      PROVE  Has(n + 1)
    <2>1. SUFFICES ASSUME NEW T \in SUBSET DOMAIN src, T # {}, Cardinality(T) = n + 1
                   PROVE  Final(T)
        OBVIOUS
    <2>2. PICK x : x \in T
        BY <2>1
    <2>3. PICK U : U = T \ {x}
        OBVIOUS
    <2>4. Cardinality(U) = n /\ U \in SUBSET DOMAIN src
        <3>1. Cardinality(T \ {x}) = Cardinality(T) - 1
            BY <1>0, <2>2, FS_RemoveElement
        <3>2. QED
            BY <2>1, <2>3, <3>1
    <2>5. CASE U = {}
        <3>1. T \ {x} = {}
            BY <2>3, <2>5
        <3>2. QED
            BY <2>2, <3>1
    <2>6. CASE U # {}
        <3>1. PICK y \in U : \A j \in U \ {y} : EventBefore(src, j, y)
            BY <1>1, <2>4, <2>6
        <3>2. x \in DOMAIN src /\ y \in DOMAIN src /\ x # y /\ y \in T
            BY <2>2, <2>3, <3>1
        <3>3. CASE EventBefore(src, x, y)
            <4>1. \A j \in T \ {y} : EventBefore(src, j, y)
                BY <2>3, <3>1, <3>3
            <4>2. QED
                BY <3>2, <4>1
        <3>4. CASE EventBefore(src, y, x)
            <4>1. \A j \in T \ {x} : EventBefore(src, j, x)
                BY <2>3, <2>4, <3>1, <3>2, <3>4, EventOrder
            <4>2. QED
                BY <2>2, <4>1
        <3>5. QED
            BY <3>2, <3>3, <3>4, EventOrder
    <2>7. QED
        BY <2>5, <2>6
<1>2. Has(0)
    BY <1>0, FS_EmptySet
<1>3. \A n \in Nat : Has(n)
    <2> HIDE DEF Has
    <2>1. PICK Bad : Bad = {n \in Nat : ~Has(n)}
        OBVIOUS
    <2>2. SUFFICES ASSUME Bad # {} PROVE FALSE
        BY <2>1
    <2>3. PICK n \in Bad : \A m \in Bad : n <= m
        BY <2>1, <2>2, LeastOf
    <2>4. n # 0 /\ n \in Nat
        BY <1>2, <2>1, <2>3
    <2>5. n - 1 \in Nat /\ n - 1 \notin Bad
        BY <2>1, <2>3, <2>4
    <2>6. Has((n - 1) + 1)
        BY <1>1, <2>1, <2>5
    <2>7. (n - 1) + 1 = n
        BY <2>4
    <2>8. QED
        BY <2>1, <2>3, <2>6, <2>7
<1>4. PICK n \in Nat : n = Cardinality(S)
    BY <1>0
<1>5. Final(S)
    BY <1>3, <1>4
<1>6. QED
    BY <1>5 DEF Latest

----------------------------------------------------------------------------
(* Sequences of anything.                                                   *)

IsList(s) == \E T : s \in Seq(T)

(* Sequences of anything.                                                   *)
LEMMA ListOf ==
    ASSUME NEW n \in Nat, NEW s, NEW T, s \in [1 .. n -> T]
    PROVE  IsList(s) /\ Len(s) = n /\ DOMAIN s = 1 .. n
<1>1. s \in Seq(T)
    OBVIOUS
<1>2. QED
    BY <1>1 DEF IsList

LEMMA ListFacts ==
    ASSUME NEW s, IsList(s)
    PROVE  Len(s) \in Nat /\ DOMAIN s = 1 .. Len(s) /\ (s = <<>> <=> Len(s) = 0)
<1>1. PICK T : s \in Seq(T)
    BY DEF IsList
<1>2. QED
    BY <1>1

Longer(s, e, t) ==
    /\ IsList(t) /\ Len(t) = Len(s) + 1 /\ t[Len(t)] = e
    /\ DOMAIN t = 1 .. Len(t) /\ Len(s) \in Nat /\ DOMAIN s = 1 .. Len(s)
    /\ \A n \in DOMAIN s : n \in DOMAIN t /\ n # Len(t) /\ t[n] = s[n]
    /\ \A n \in DOMAIN t : n = Len(t) \/ n \in DOMAIN s

LEMMA AppendFacts ==
    ASSUME NEW s, IsList(s), NEW e, NEW t, t = Append(s, e)
    PROVE  Longer(s, e, t)
<1>1. PICK T : s \in Seq(T)
    BY DEF IsList
<1>2. PICK U : U = T \union {e}
    OBVIOUS
<1>3. s \in Seq(U) /\ e \in U
    BY <1>1, <1>2
<1>4. t \in Seq(U) /\ Len(t) = Len(s) + 1
    BY <1>3
<1>5. /\ t[Len(t)] = e /\ DOMAIN t = 1 .. Len(t) /\ Len(s) \in Nat /\ DOMAIN s = 1 .. Len(s)
    BY <1>3, <1>4
<1>6. \A n \in DOMAIN s : t[n] = s[n]
    BY <1>3
<1>7. QED
    BY <1>4, <1>5, <1>6 DEF IsList, Longer

Joined(s, r, t) ==
    /\ IsList(t) /\ Len(t) = Len(s) + Len(r) /\ DOMAIN t = 1 .. Len(t)
    /\ Len(s) \in Nat /\ DOMAIN s = 1 .. Len(s) /\ Len(r) \in Nat /\ DOMAIN r = 1 .. Len(r)
    /\ \A n \in DOMAIN s : n \in DOMAIN t /\ t[n] = s[n]
    /\ \A n \in DOMAIN r : Len(s) + n \in DOMAIN t /\ t[Len(s) + n] = r[n]
    /\ \A n \in DOMAIN t : n \in DOMAIN s \/ (n - Len(s) \in DOMAIN r /\ t[n] = r[n - Len(s)])

LEMMA ConcatFacts ==
    ASSUME NEW s, IsList(s), NEW r, IsList(r), NEW t, t = s \o r
    PROVE  Joined(s, r, t)
<1>1. PICK T : s \in Seq(T)
    BY DEF IsList
<1>2. PICK V : r \in Seq(V)
    BY DEF IsList
<1>3. PICK U : U = T \union V
    OBVIOUS
<1>4. s \in Seq(U) /\ r \in Seq(U)
    BY <1>1, <1>2, <1>3
<1>5. t \in Seq(U) /\ Len(t) = Len(s) + Len(r)
    BY <1>4
<1>6. /\ DOMAIN t = 1 .. Len(t) /\ Len(s) \in Nat /\ DOMAIN s = 1 .. Len(s)
      /\ Len(r) \in Nat /\ DOMAIN r = 1 .. Len(r)
    BY <1>4, <1>5
<1>7. \A n \in DOMAIN s : n \in DOMAIN t /\ t[n] = s[n]
    BY <1>4, <1>5, <1>6
<1>8. \A n \in DOMAIN r : Len(s) + n \in DOMAIN t /\ t[Len(s) + n] = r[n]
    BY <1>4, <1>5, <1>6
<1>9. \A n \in DOMAIN t : n \in DOMAIN s \/ (n - Len(s) \in DOMAIN r /\ t[n] = r[n - Len(s)])
    BY <1>4, <1>5, <1>6
<1>10. IsList(t)
    BY <1>5 DEF IsList
<1>11. QED
    BY <1>5, <1>6, <1>7, <1>8, <1>9, <1>10 DEF Joined

Dropped(s, t) ==
    /\ IsList(t) /\ Len(t) = Len(s) - 1 /\ DOMAIN t = 1 .. Len(t) /\ DOMAIN s = 1 .. Len(s)
    /\ Len(s) \in Nat /\ Len(t) \in Nat /\ Head(s) = s[1] /\ 1 \in DOMAIN s
    /\ \A n \in DOMAIN t : n + 1 \in DOMAIN s /\ t[n] = s[n + 1]
    /\ \A n \in DOMAIN s : n = 1 \/ (n - 1 \in DOMAIN t /\ s[n] = t[n - 1])

LEMMA TailFacts ==
    ASSUME NEW s, IsList(s), s # <<>>, NEW t, t = Tail(s)
    PROVE  Dropped(s, t)
<1>1. PICK T : s \in Seq(T)
    BY DEF IsList
<1>2. t \in Seq(T) /\ Len(t) = Len(s) - 1 /\ Head(s) = s[1] /\ Len(s) \in Nat /\ Len(s) # 0
    BY <1>1
<1>3. DOMAIN t = 1 .. Len(t) /\ DOMAIN s = 1 .. Len(s) /\ Len(t) \in Nat /\ 1 \in DOMAIN s
    BY <1>1, <1>2
<1>4. \A n \in DOMAIN t : n + 1 \in DOMAIN s /\ t[n] = s[n + 1]
    BY <1>1, <1>2, <1>3
<1>5. \A n \in DOMAIN s : n = 1 \/ (n - 1 \in DOMAIN t /\ s[n] = t[n - 1])
    BY <1>1, <1>2, <1>3
<1>6. QED
    BY <1>2, <1>3, <1>4, <1>5 DEF IsList, Dropped

LEMMA EmptyList == IsList(<<>>)
<1>1. <<>> \in Seq({})
    OBVIOUS
<1>2. QED
    BY <1>1 DEF IsList

LEMMA ConsumeIsList ==
    ASSUME NEW queue, IsList(queue), NEW n
    PROVE  IsList(Consume(queue, n))
<1> DEFINE D == {d \in DOMAIN queue : Total(SubSeq(queue, 1, d)) <= n}
<1>1. PICK l \in Nat : l = Len(queue) /\ DOMAIN queue = 1 .. l
    BY ListFacts
<1>2. IsFiniteSet(1 .. l) /\ Cardinality(1 .. l) = l
    <2>1. /\ IsFiniteSet(1 .. l)
          /\ Cardinality(1 .. l) = IF 1 > l THEN 0 ELSE l - 1 + 1
        BY FS_Interval
    <2>2. QED
        BY <2>1
<1>3. Cardinality(D) \in Nat /\ Cardinality(D) <= l
    <2>1. D \in SUBSET (1 .. l)
        BY <1>1
    <2> HIDE DEF D
    <2>2. QED
        BY <1>2, <2>1, FS_Subset, FS_CardinalityType
<1>4. PICK whole \in Nat : whole = Cardinality(D) /\ whole <= l
    BY <1>3
<1>5. PICK m \in Nat : m = l - whole
    BY <1>4
<1>6. PICK first : first = [queue[whole + 1] EXCEPT !.qty = Total(SubSeq(queue, 1, whole + 1)) - n]
    OBVIOUS
<1>7. Consume(queue, n) = [k \in 1 .. m |-> IF k = 1 THEN first ELSE queue[whole + k]]
    BY <1>1, <1>4, <1>5, <1>6, Zenon DEF Consume
<1>8. PICK T : T = {first} \union {queue[d] : d \in 1 .. (m + whole)}
    OBVIOUS
<1>9. PICK s : s = [k \in 1 .. m |-> IF k = 1 THEN first ELSE queue[whole + k]]
    OBVIOUS
<1>10. s \in [1 .. m -> T]
    BY <1>8, <1>9
<1>11. IsList(s)
    BY <1>10, ListOf
<1>12. QED
    BY <1>7, <1>9, <1>11

LEMMA TradeIsList ==
    ASSUME NEW queue, IsList(queue), NEW s
    PROVE  IsList(Trade(queue, s))
<1>1. IsList(Consume(queue, Least(s.qty, Total(queue))))
    BY ConsumeIsList
<1>2. IsList(Append(queue, [qty |-> s.qty, price |-> s.price]))
    <2>1. PICK lot : lot = [qty |-> s.qty, price |-> s.price]
        OBVIOUS
    <2>2. PICK t : t = Append(queue, lot)
        OBVIOUS
    <2>3. IsList(t)
        BY <2>2, AppendFacts DEF Longer
    <2>4. QED
        BY <2>1, <2>2, <2>3
<1>3. QED
    BY <1>1, <1>2 DEF Trade

----------------------------------------------------------------------------
(* What the engine writes, event by event.                                  *)

HasRow(rows, i) == \E n \in DOMAIN rows : rows[n].src = i
Single(rows) == \A m, n \in DOMAIN rows : m # n /\ rows[m].src = rows[n].src => rows[m].type = "SPLIT"

(* The state of an engine that has seen the sources in T.                   *)
IsAcc(acc) == \E Q, R, L : acc \in [queue : Q, rows : R, lastKey : L]
Written(src, T, rows) ==
    /\ IsList(rows) /\ Single(rows)
    /\ \A n \in DOMAIN rows : rows[n].src \in T /\ rows[n].type = src[rows[n].src].kind
    /\ \A i \in T : src[i].kind \in {"BUY", "SELL"} => HasRow(rows, i)
Seen(src, T, acc) == IsAcc(acc) /\ IsList(acc.queue) /\ Written(src, T, acc.rows)

(* One more event appends rows of its own, one unless it splits.            *)
OneMore(rows, i, s, new) ==
    \/ /\ s.kind \notin {"BUY", "SELL"} /\ new = rows
    \/ \E row : row.src = i /\ row.type = s.kind /\ new = Append(rows, row)
    \/ /\ s.kind = "SPLIT"
       /\ \E more : /\ IsList(more) /\ new = rows \o more
                    /\ \A n \in DOMAIN more : more[n].src = i /\ more[n].type = s.kind

LEMMA RowIs ==
    ASSUME NEW i, NEW s, NEW a, NEW b, NEW c, NEW d
    PROVE  HoldingsRow(i, s, a, b, c, d).src = i /\ HoldingsRow(i, s, a, b, c, d).type = s.kind
BY DEF HoldingsRow

LEMMA SplitGrows ==
    ASSUME NEW acc, IsAcc(acc), IsList(acc.queue), NEW i, NEW s, s.kind = "SPLIT", NEW r, r = SplitLots(acc, i, s)
    PROVE  IsAcc(r) /\ IsList(r.queue) /\ OneMore(acc.rows, i, s, r.rows)
<1>1. PICK l \in Nat : DOMAIN acc.queue = 1 .. l
    BY ListFacts
<1> DEFINE New(lot) == [qty |-> lot.qty * s.qty, price |-> lot.price \div s.qty]
<1>2. PICK lots : lots = [k \in DOMAIN acc.queue |-> New(acc.queue[k])]
    OBVIOUS
<1> DEFINE Row(k) == HoldingsRow(i, s, lots[k].qty, lots[k].price,
                                 Total(SubSeq(lots, 1, k)), CostOf(SubSeq(lots, 1, k)))
<1>3. PICK more : more = [k \in DOMAIN lots |-> Row(k)]
    OBVIOUS
<1>4. r = [acc EXCEPT !.queue = lots, !.rows = @ \o more]
    BY <1>2, <1>3 DEF SplitLots
<1>5. PICK T : T = {lots[k] : k \in 1 .. l}
    OBVIOUS
<1>6. lots \in [1 .. l -> T]
    <2> HIDE DEF New
    <2> QED BY <1>1, <1>2, <1>5
<1>7. PICK U : U = {more[k] : k \in 1 .. l}
    OBVIOUS
<1>8. more \in [1 .. l -> U]
    <2> HIDE DEF Row
    <2> QED BY <1>3, <1>6, <1>7
<1>9. IsList(lots) /\ IsList(more)
    BY <1>6, <1>8, ListOf
<1>10. PICK Q, R, L : acc \in [queue : Q, rows : R, lastKey : L]
    BY DEF IsAcc
<1>11. PICK rows : rows = acc.rows \o more
    OBVIOUS
<1>12. r = [acc EXCEPT !.queue = lots, !.rows = rows]
    BY <1>4, <1>11
<1>13. r \in [queue : {lots}, rows : {rows}, lastKey : L] /\ r.queue = lots /\ r.rows = rows
    BY <1>10, <1>12
<1>14. \A n \in DOMAIN more : more[n].src = i /\ more[n].type = s.kind
    <2>1. ASSUME NEW n \in DOMAIN more PROVE more[n].src = i /\ more[n].type = s.kind
        <3>1. more[n] = Row(n)
            <4> HIDE DEF Row
            <4> QED BY <1>3
        <3>2. QED
            BY <3>1, RowIs
    <2>2. QED
        BY <2>1
<1>15. IsAcc(r)
    BY <1>13 DEF IsAcc
<1>16. OneMore(acc.rows, i, s, rows)
    BY <1>9, <1>11, <1>14 DEF OneMore
<1>17. QED
    BY <1>9, <1>13, <1>15, <1>16

LEMMA ReplaceGrows ==
    ASSUME NEW acc, IsAcc(acc), IsList(acc.queue), NEW i, NEW s, NEW r, r = ReplaceLots(acc, i, s)
    PROVE  IsAcc(r) /\ IsList(r.queue) /\ OneMore(acc.rows, i, s, r.rows)
<1>1. PICK kept : kept = (IF acc.lastKey[s.kind] = <<s.kind, s.date, s.org>> THEN acc.queue ELSE <<>>)
    OBVIOUS
<1>2. PICK lot : lot = [qty |-> s.qty, price |-> s.price]
    OBVIOUS
<1>3. PICK lots : lots = Append(kept, lot)
    OBVIOUS
<1>4. PICK row : row = HoldingsRow(i, s, s.qty, s.price, Total(lots), CostOf(lots))
    OBVIOUS
<1>5. PICK keys : keys = [acc.lastKey EXCEPT ![s.kind] = <<s.kind, s.date, s.org>>]
    OBVIOUS
<1>6. PICK Q, R, L : acc \in [queue : Q, rows : R, lastKey : L]
    BY DEF IsAcc
<1>7. r = [acc EXCEPT !.queue = lots, !.lastKey[s.kind] = <<s.kind, s.date, s.org>>, !.rows = Append(@, row)]
    BY <1>1, <1>2, <1>3, <1>4, Zenon DEF ReplaceLots
<1>8. PICK rows : rows = Append(acc.rows, row)
    OBVIOUS
<1>9. r = [acc EXCEPT !.queue = lots, !.lastKey = keys, !.rows = rows]
    <2>1. PICK key : key = <<s.kind, s.date, s.org>>
        OBVIOUS
    <2>2. r = [acc EXCEPT !.queue = lots, !.lastKey[s.kind] = key, !.rows = Append(@, row)]
        BY <1>7, <2>1
    <2>3. keys = [acc.lastKey EXCEPT ![s.kind] = key]
        BY <1>5, <2>1
    <2>4. QED
        BY <1>6, <1>8, <2>2, <2>3
<1>10. r \in [queue : {lots}, rows : {rows}, lastKey : {keys}] /\ r.queue = lots /\ r.rows = rows
    BY <1>6, <1>9
<1>11. IsList(lots)
    <2>1. IsList(kept)
        BY <1>1, EmptyList
    <2>2. QED
        BY <1>3, <2>1, AppendFacts DEF Longer
<1>12. OneMore(acc.rows, i, s, rows)
    BY <1>4, <1>8, RowIs DEF OneMore
<1>13. IsAcc(r)
    BY <1>10 DEF IsAcc
<1>14. QED
    BY <1>10, <1>11, <1>12, <1>13

LEMMA EventGrows ==
    ASSUME NEW acc, IsAcc(acc), IsList(acc.queue), NEW i, NEW s, NEW r, r = ApplyEvent(acc, i, s)
    PROVE  IsAcc(r) /\ IsList(r.queue) /\ OneMore(acc.rows, i, s, r.rows)
<1>1. CASE s.kind = "MISC"
    <2>1. r = acc
        BY <1>1 DEF ApplyEvent
    <2>2. QED
        BY <1>1, <2>1 DEF OneMore
<1>2. CASE s.kind = "SPLIT"
    <2>1. r = SplitLots(acc, i, s)
        BY <1>2 DEF ApplyEvent
    <2>2. QED
        BY <1>2, <2>1, SplitGrows
<1>3. CASE s.kind \in {"DEMERGER", "MERGER"}
    <2>1. r = ReplaceLots(acc, i, s)
        BY <1>3 DEF ApplyEvent
    <2>2. QED
        BY <1>3, <2>1, ReplaceGrows
<1>4. CASE s.kind \notin {"MISC", "SPLIT", "DEMERGER", "MERGER"}
    <2>1. PICK lots : lots = Trade(acc.queue, s)
        OBVIOUS
    <2>2. PICK row : row = HoldingsRow(i, s, s.qty, s.price, Total(lots), CostOf(lots))
        OBVIOUS
    <2>3. r = [acc EXCEPT !.queue = lots, !.rows = Append(@, row)]
        BY <1>4, <2>1, <2>2 DEF ApplyEvent
    <2>4. PICK rows : rows = Append(acc.rows, row)
        OBVIOUS
    <2>5. PICK Q, R, L : acc \in [queue : Q, rows : R, lastKey : L]
        BY DEF IsAcc
    <2>6. r \in [queue : {lots}, rows : {rows}, lastKey : L] /\ r.queue = lots /\ r.rows = rows
        BY <2>3, <2>4, <2>5
    <2>7. IsList(lots)
        BY <2>1, TradeIsList
    <2>8. OneMore(acc.rows, i, s, rows)
        BY <2>2, <2>4, RowIs DEF OneMore
    <2>9. IsAcc(r)
        BY <2>6 DEF IsAcc
    <2>10. QED
        BY <2>6, <2>7, <2>8, <2>9
<1>5. QED
    BY <1>1, <1>2, <1>3, <1>4

----------------------------------------------------------------------------
(* What it has written in the end.                                          *)

LEMMA MoreWritten ==
    ASSUME NEW src, NEW T, NEW i, i \notin T, NEW rows, Written(src, T, rows),
           NEW new, OneMore(rows, i, src[i], new)
    PROVE  Written(src, T \union {i}, new)
<1> DEFINE s == src[i]
<1>0. /\ IsList(rows) /\ Single(rows)
      /\ \A n \in DOMAIN rows : rows[n].src \in T /\ rows[n].type = src[rows[n].src].kind
      /\ \A j \in T : src[j].kind \in {"BUY", "SELL"} => HasRow(rows, j)
    BY DEF Written
<1>1. CASE s.kind \notin {"BUY", "SELL"} /\ new = rows
    BY <1>0, <1>1 DEF Written
<1>2. CASE \E row : row.src = i /\ row.type = s.kind /\ new = Append(rows, row)
    <2>1. PICK row : row.src = i /\ row.type = s.kind /\ new = Append(rows, row)
        BY <1>2
    <2>2. /\ IsList(new) /\ Len(new) = Len(rows) + 1 /\ new[Len(new)] = row
          /\ DOMAIN new = 1 .. Len(new) /\ Len(rows) \in Nat /\ DOMAIN rows = 1 .. Len(rows)
          /\ \A n \in DOMAIN rows : n \in DOMAIN new /\ n # Len(new) /\ new[n] = rows[n]
          /\ \A n \in DOMAIN new : n = Len(new) \/ n \in DOMAIN rows
        <3>1. Longer(rows, row, new)
            BY <1>0, <2>1, AppendFacts
        <3>2. QED
            BY <3>1 DEF Longer
    <2>3. PICK l : l = Len(new) /\ l \in DOMAIN new
        BY <2>2
    <2>4. \A n \in DOMAIN new : (n = l /\ new[n] = row) \/ (n \in DOMAIN rows /\ n # l /\ new[n] = rows[n])
        BY <2>2, <2>3
    <2>5. Single(new)
        BY <1>0, <2>1, <2>4 DEF Single
    <2>6. \A n \in DOMAIN new : new[n].src \in T \union {i} /\ new[n].type = src[new[n].src].kind
        BY <1>0, <2>1, <2>4
    <2>7. \A j \in T \union {i} : src[j].kind \in {"BUY", "SELL"} => HasRow(new, j)
        BY <1>0, <2>1, <2>2, <2>3, <2>4 DEF HasRow
    <2>8. QED
        BY <2>2, <2>5, <2>6, <2>7 DEF Written
<1>3. CASE /\ s.kind = "SPLIT"
           /\ \E more : /\ IsList(more) /\ new = rows \o more
                        /\ \A n \in DOMAIN more : more[n].src = i /\ more[n].type = s.kind
    <2>1. PICK more : /\ IsList(more) /\ new = rows \o more
                      /\ \A n \in DOMAIN more : more[n].src = i /\ more[n].type = s.kind
        BY <1>3
    <2>2. /\ IsList(new)
          /\ \A n \in DOMAIN rows : n \in DOMAIN new /\ new[n] = rows[n]
          /\ \A n \in DOMAIN new : n \in DOMAIN rows \/ (n - Len(rows) \in DOMAIN more /\ new[n] = more[n - Len(rows)])
        <3>1. Joined(rows, more, new)
            BY <1>0, <2>1, ConcatFacts
        <3>2. QED
            BY <3>1 DEF Joined
    <2>3. \A n \in DOMAIN new : (n \in DOMAIN rows /\ new[n] = rows[n]) \/ (new[n].src = i /\ new[n].type = "SPLIT")
        BY <1>3, <2>1, <2>2
    <2>4. Single(new)
        BY <1>0, <2>3 DEF Single
    <2>5. \A n \in DOMAIN new : new[n].src \in T \union {i} /\ new[n].type = src[new[n].src].kind
        BY <1>0, <1>3, <2>3
    <2>6. \A j \in T \union {i} : src[j].kind \in {"BUY", "SELL"} => HasRow(new, j)
        <3>1. ASSUME NEW j \in T, src[j].kind \in {"BUY", "SELL"} PROVE HasRow(new, j)
            BY <1>0, <2>2, <3>1 DEF HasRow
        <3>2. QED
            BY <1>3, <3>1
    <2>7. QED
        BY <2>2, <2>4, <2>5, <2>6 DEF Written
<1>4. QED
    BY <1>1, <1>2, <1>3 DEF OneMore

(* What the engine writes: rows of its sources only, a row of each trade,   *)
(* and of no source but a split more than one.                              *)
THEOREM EngineWrites ==
    ASSUME NEW src \in Seq(Source), NEW S \in SUBSET DOMAIN src
    PROVE  Written(src, S, Engine(src, S).rows)
<1>0. \A T \in SUBSET S : IsFiniteSet(T) /\ Cardinality(T) \in Nat
    <2>1. DOMAIN src = 1 .. Len(src) /\ Len(src) \in Nat
        OBVIOUS
    <2>2. IsFiniteSet(DOMAIN src)
        BY <2>1, FS_Interval
    <2>3. \A T \in SUBSET S : T \in SUBSET DOMAIN src
        OBVIOUS
    <2>4. QED
        BY <2>2, <2>3, FS_Subset, FS_CardinalityType
<1>1. \A T \in SUBSET S : T # {} => Latest(src, T) \in T
    <2>1. \A T \in SUBSET S : T \in SUBSET DOMAIN src
        OBVIOUS
    <2>2. QED
        BY <2>1, LatestOf
<1>2. PICK f : Runs(src, S, f) /\ Engine(src, S) = f[S]
    <2>1. \E f : Runs(src, S, f)
        BY <1>0, <1>1, RunsExist
    <2>2. QED
        BY <2>1, EngineRuns
<1> DEFINE Has(n) == \A T \in SUBSET S : Cardinality(T) = n => Seen(src, T, f[T])
<1>3. Has(0)
    <2>1. \A T \in SUBSET S : Cardinality(T) = 0 => T = {}
        BY <1>0, FS_EmptySet
    <2>2. f[{}] = Base
        BY <1>2 DEF Runs
    <2>3. PICK keys : keys = [k \in Replacing |-> <<>>]
        OBVIOUS
    <2>4. Base = [queue |-> <<>>, rows |-> <<>>, lastKey |-> keys]
        BY <2>3 DEF Base
    <2>5. Base \in [queue : {<<>>}, rows : {<<>>}, lastKey : {keys}] /\ Base.queue = <<>> /\ Base.rows = <<>>
        BY <2>4
    <2>6. IsAcc(Base)
        BY <2>5 DEF IsAcc
    <2>7. Written(src, {}, <<>>)
        <3>1. DOMAIN <<>> = {}
            OBVIOUS
        <3>2. QED
            BY <3>1, EmptyList DEF Written, Single
    <2>8. Seen(src, {}, Base)
        BY <2>5, <2>6, <2>7, EmptyList DEF Seen
    <2>9. QED
        BY <2>1, <2>2, <2>8
<1>4. ASSUME NEW n \in Nat, Has(n)
      PROVE  Has(n + 1)
    <2>1. SUFFICES ASSUME NEW T \in SUBSET S, Cardinality(T) = n + 1
                   PROVE  Seen(src, T, f[T])
        OBVIOUS
    <2>2. T # {}
        <3>1. Cardinality({}) = 0
            BY FS_EmptySet
        <3>2. n + 1 # 0
            OBVIOUS
        <3>3. QED
            BY <2>1, <3>1, <3>2
    <2>3. PICK i : i = Latest(src, T)
        OBVIOUS
    <2>4. i \in T
        BY <1>1, <2>2, <2>3
    <2>5. PICK U : U = T \ {i}
        OBVIOUS
    <2>6. Cardinality(U) = n
        <3>1. Cardinality(T \ {i}) = Cardinality(T) - 1
            BY <1>0, <2>4, FS_RemoveElement
        <3>2. QED
            BY <2>1, <2>5, <3>1
    <2>7. Seen(src, U, f[U])
        BY <1>4, <2>5, <2>6
    <2>8. f[T] = ApplyEvent(f[U], i, src[i])
        BY <1>2, <2>2, <2>3, <2>5 DEF Runs, After
    <2>9. PICK r : r = f[T]
        OBVIOUS
    <2>10. IsAcc(r) /\ IsList(r.queue) /\ OneMore(f[U].rows, i, src[i], r.rows)
        BY <2>7, <2>8, <2>9, EventGrows DEF Seen
    <2>11. Written(src, U \union {i}, r.rows)
        BY <2>5, <2>7, <2>10, MoreWritten DEF Seen
    <2>12. U \union {i} = T
        BY <2>4, <2>5
    <2>13. QED
        BY <2>9, <2>10, <2>11, <2>12 DEF Seen
<1>5. \A n \in Nat : Has(n)
    <2> HIDE DEF Has
    <2>1. PICK Bad : Bad = {n \in Nat : ~Has(n)}
        OBVIOUS
    <2>2. SUFFICES ASSUME Bad # {} PROVE FALSE
        BY <2>1
    <2>3. PICK n \in Bad : \A m \in Bad : n <= m
        BY <2>1, <2>2, LeastOf
    <2>4. n # 0 /\ n \in Nat
        BY <1>3, <2>1, <2>3
    <2>5. n - 1 \in Nat /\ n - 1 \notin Bad
        BY <2>1, <2>3, <2>4
    <2>6. Has((n - 1) + 1)
        BY <1>4, <2>1, <2>5
    <2>7. (n - 1) + 1 = n
        BY <2>4
    <2>8. QED
        BY <2>1, <2>3, <2>6, <2>7
<1>6. Seen(src, S, f[S])
    BY <1>0, <1>5
<1>7. QED
    BY <1>2, <1>6 DEF Seen

----------------------------------------------------------------------------
(* The invariant.                                                           *)

Mishaps == {"overlap", "blind", "torn", "capped", "unread", "unrebuilt", "lost"}
Marks == {"none", "RUNNING", "SUCCESS", "FAILED"}
WorkerPcs == {"queued", "account", "read", "tail", "rows", "insert", "mark"} \union Dormant \union Closed
RebuildPcs == {"queued", "txns", "actions", "delete", "insert", "end"} \union Closed
InHand == {"read", "tail", "rows", "insert", "mark"}

Fields == {"type", "pc", "tries", "floor", "first", "last", "left", "acct", "new", "todo", "rows", "cheap",
           "queue", "hold", "value", "errs", "known", "upto", "partial", "wrote"}
IsJob(r) == \E A : r \in [Fields -> A]

(* The operators of HoldingsTable, for a record.                            *)
OpenRec(r) == r.pc \notin Dormant \union Closed
MineOf(r, S) == {S[i].pair : i \in r.first .. r.last}
NewOf(r, S, p) == {i \in DOMAIN S : S[i].pair = p /\ i > r.floor /\ S[i].kind \in TxnKinds}
AtHandOf(r) == IF r.pc \in {"account", "txns"} THEN r.left ELSE {p \in r.left : AcctOf[p] = r.acct}
HereOf(r) == CHOOSE p \in AtHandOf(r) : \A q \in AtHandOf(r) : p <= q

(* A row of pair p.                                                         *)
OfPair(row, S, p) == row.src \in DOMAIN S /\ S[row.src].pair = p /\ row.type = S[row.src].kind
RowsOf(H, S, p) == IsList(H) /\ \A n \in DOMAIN H : OfPair(H[n], S, p)

Shaped(r, S) ==
    /\ IsJob(r) /\ r.type \in {"worker", "rebuild"}
    /\ r.pc \in (IF r.type = "worker" THEN WorkerPcs ELSE RebuildPcs)
    /\ r.floor \in Int /\ r.first \in Nat \ {0} /\ r.last \in Nat /\ r.last <= Len(S)
    /\ r.errs \in Nat /\ r.acct \in Accounts
    /\ r.left \subseteq MineOf(r, S) /\ r.wrote \subseteq MineOf(r, S)
    /\ r.pc = "queued" => r.wrote = {}
    /\ r.pc \notin Dormant => r.first <= r.last

(* A worker, begun or not.                                                  *)
WorkerPlaced(r, S, st) ==
    /\ r.pc \in Dormant => r.floor <= Len(S) /\ \A a \in Accounts : st[a] = "none"
    /\ r.pc \notin Dormant => r.floor < r.first /\ \A i \in r.first .. r.last : S[i].kind \in TxnKinds
    /\ r.pc \in {"read", "tail", "rows", "insert"} => AtHandOf(r) # {}
    /\ r.pc = "mark" => AtHandOf(r) = {}
    /\ r.pc \in {"tail", "rows", "insert"} => r.new \subseteq NewOf(r, S, HereOf(r)) /\ r.new # {}
    /\ r.pc = "insert" => r.todo \subseteq r.new /\ r.todo # {}
    /\ \A p, q \in MineOf(r, S) :
          AcctOf[p] = AcctOf[q] /\ (r.pc \in InHand => AcctOf[p] # r.acct) /\ p \in r.left => q \in r.left

(* The sources a rebuild has read.                                          *)
Knows(r, S, K) ==
    ~r.partial => \A i \in 1 .. r.upto : AcctOf[S[i].pair] = r.acct /\ S[i].kind \in K => i \in r.known

RebuildPlaced(r, S) ==
    /\ r.known \subseteq DOMAIN S /\ r.upto \in Nat /\ r.upto <= Len(S)
    /\ r.pc = "txns" => r.left # {}
    /\ r.pc \in {"actions", "delete", "insert"} => AtHandOf(r) # {}
    /\ r.pc = "actions" => Knows(r, S, TxnKinds)
    /\ r.pc \in {"delete", "insert"} => Knows(r, S, Kinds)
    /\ r.pc = "insert" => RowsOf(r.rows, S, HereOf(r)) /\ r.rows # <<>>

Placed(r, S, st) ==
    /\ Shaped(r, S)
    /\ r.type = "worker" => WorkerPlaced(r, S, st)
    /\ r.type = "rebuild" => RebuildPlaced(r, S)

Static ==
    /\ sources \in Seq(Source)
    /\ \E H : holdings \in [Pairs -> H]
    /\ \E J : job \in [Jobs -> J]
    /\ status \in [Jobs -> [Accounts -> Marks]]
    /\ mishap \in [Pairs -> SUBSET Mishaps]
    /\ \A p \in Pairs : RowsOf(holdings[p], sources, p)
    /\ \A k \in Jobs : Placed(job[k], sources, status[k])

----------------------------------------------------------------------------
Clean(M) == M \intersect {"overlap", "torn", "capped", "unread"} = {}
Fair(M) == M \intersect {"blind", "overlap", "unrebuilt"} = {}

(* A worker alone with a pair: nothing came after its import.               *)
Solo(r, S, p) ==
    r.type = "worker" /\ OpenRec(r) =>
       r.last = Len(S) /\ \A i \in NewOf(r, S, p) : r.first <= i

(* What an open job will append to a pair is not there yet.                 *)
Unwritten(r, S, p, H, st) ==
    /\ r.type = "worker" /\ OpenRec(r) =>
          /\ st[AcctOf[p]] # "SUCCESS" /\ p \notin r.wrote => \A i \in NewOf(r, S, p) : ~HasRow(H, i)
          /\ p \in r.left /\ p \in r.wrote => p = HereOf(r) /\ r.pc = "insert"
          /\ r.pc = "insert" /\ p = HereOf(r) => \A i \in r.todo : ~HasRow(H, i)
          /\ r.pc = "insert" /\ p = HereOf(r) /\ p \in r.wrote => r.todo # r.new
          /\ r.pc \in InHand /\ AcctOf[p] = r.acct /\ p \in MineOf(r, S) => st[AcctOf[p]] # "SUCCESS"
    /\ r.type = "rebuild" /\ r.pc = "insert" /\ p = HereOf(r) => Single(H \o r.rows)

Whole(r, S, p, H) == \A i \in r.first .. r.last : S[i].pair = p /\ S[i].kind # "MISC" => HasRow(H, i)

(* SUCCESS of an account, and what a worker has done of the one in hand.    *)
Earned(r, S, p, H, st) ==
    r.type = "worker" /\ st[AcctOf[p]] = "SUCCESS" => Whole(r, S, p, H)

Brought(r, S, p, H) ==
    r.type = "worker" /\ r.pc \in InHand /\ r.errs = 0 /\ AcctOf[p] = r.acct =>
       /\ p \notin r.left => Whole(r, S, p, H)
       /\ r.pc \in {"tail", "rows", "insert"} /\ p = HereOf(r) => r.new = NewOf(r, S, p)
       /\ r.pc = "insert" /\ p = HereOf(r) =>
             \A i \in NewOf(r, S, p) : S[i].kind # "MISC" => HasRow(H, i) \/ i \in r.todo

(* A pair being rebuilt has each trade, or will have it.                    *)
Rewriting(r, S, p, H) ==
    r.type = "rebuild" /\ r.pc = "insert" /\ p = HereOf(r) =>
       \A i \in DOMAIN S : S[i].pair = p /\ S[i].kind \in {"BUY", "SELL"} => HasRow(H, i) \/ HasRow(r.rows, i)

Good(r, S, p, H, M, st) ==
    /\ "overlap" \notin M => Solo(r, S, p)
    /\ Clean(M) => Unwritten(r, S, p, H, st)
    /\ Fair(M) => Earned(r, S, p, H, st)
    /\ Fair(M) => Brought(r, S, p, H)
    /\ M \intersect {"blind", "overlap"} = {} => Rewriting(r, S, p, H)

Alone(p) == "overlap" \notin mishap[p] => \A j, k \in Jobs : OpenRec(job[j]) /\ OpenRec(job[k]) => j = k

(* A rebuild that has p still to write.                                     *)
Owes(r, S, p) ==
    /\ r.type = "rebuild" /\ p \in MineOf(r, S)
    /\ \/ r.pc \in {"queued", "failed"}
       \/ OpenRec(r) /\ r.errs > 0
       \/ r.pc \in {"txns", "actions", "delete", "insert"} /\ p \in r.left
Gone(S, p) == \E i \in DOMAIN S : /\ S[i].kind = "MERGER" /\ AcctOf[S[i].pair] = AcctOf[p] /\ S[i].org = IsinOf[p]
Owed(p) == "unrebuilt" \in mishap[p] /\ ~Gone(sources, p) => \E k \in Jobs : Owes(job[k], sources, p)

HInv ==
    /\ Static
    /\ \A p \in Pairs :
          /\ Alone(p)
          /\ Clean(mishap[p]) => Single(holdings[p])
          /\ \A k \in Jobs : Good(job[k], sources, p, holdings[p], mishap[p], status[k])
          /\ Owed(p)

----------------------------------------------------------------------------
(* Constants, records, pairs.                                               *)

(* Constants.                                                               *)
LEMMA Constants ==
    /\ NumPairs \in Nat \ {0} /\ Pairs \subseteq Nat /\ 1 \in Pairs
    /\ \A p \in Pairs : AcctOf[p] \in Accounts
    /\ Jobs \subseteq Nat
BY WorldAssumption, TableBoundsAssumption DEF Pairs, Accounts, Jobs

LEMMA SourcesGiven ==
    /\ \A h \in Histories : h \in Seq(Source)
    /\ \A b \in Batches : b # <<>> /\ b \in Seq(Source) /\ \A i \in DOMAIN b : b[i].kind \in TxnKinds
    /\ \A d \in Deeds : d # <<>> /\ d \in Seq(Source) /\ \A i \in DOMAIN d : d[i].kind \notin TxnKinds
BY WorldAssumption

LEMMA SourceIs ==
    ASSUME NEW S \in Seq(Source)
    PROVE  /\ Len(S) \in Nat /\ DOMAIN S = 1 .. Len(S)
           /\ \A i \in DOMAIN S : S[i].pair \in Pairs /\ S[i].kind \in Kinds
                                  /\ S[i].date \in Nat /\ S[i].sort \in Nat /\ i \in Nat
<1>1. Len(S) \in Nat /\ DOMAIN S = 1 .. Len(S)
    OBVIOUS
<1>2. \A i \in DOMAIN S : S[i] \in Source /\ i \in Nat
    OBVIOUS
<1>3. QED
    BY <1>1, <1>2 DEF Source

(* The record of a new job.                                                 *)
Newborn(r, type, floor, first, last) ==
    /\ IsJob(r)
    /\ r.type = type /\ r.pc = "queued" /\ r.floor = floor /\ r.first = first /\ r.last = last
    /\ r.left = {} /\ r.acct = AcctOf[1] /\ r.todo = {} /\ r.errs = 0
    /\ r.known = {} /\ r.upto = 0 /\ r.partial = FALSE /\ r.wrote = {}

LEMMA NewJobIs ==
    ASSUME NEW type, NEW floor, NEW first, NEW last
    PROVE  Newborn(NewJob(type, floor, first, last), type, floor, first, last)
<1>1. PICK r : r = NewJob(type, floor, first, last)
    OBVIOUS
<1>2. DOMAIN r = Fields
    BY <1>1 DEF NewJob, Fields
<1>3. PICK A : A = {r[x] : x \in Fields}
    OBVIOUS
<1>4. r = [x \in Fields |-> r[x]]
    BY <1>1 DEF NewJob, Fields
<1>5. r \in [Fields -> A]
    BY <1>3, <1>4
<1>6. IsJob(r)
    BY <1>5 DEF IsJob
<1>7. /\ r.type = type /\ r.pc = "queued" /\ r.floor = floor /\ r.first = first /\ r.last = last
      /\ r.left = {} /\ r.acct = AcctOf[1] /\ r.todo = {} /\ r.errs = 0
      /\ r.known = {} /\ r.upto = 0 /\ r.partial = FALSE /\ r.wrote = {}
    BY <1>1 DEF NewJob
<1>8. QED
    BY <1>1, <1>6, <1>7 DEF Newborn

(* The two things a step does to the jobs.                                  *)
LEMMA Becomes ==
    ASSUME NEW k \in Jobs, \E J : job \in [Jobs -> J], NEW r, Become(k, r)
    PROVE  /\ \E J : job' \in [Jobs -> J]
           /\ job'[k] = r /\ \A j \in Jobs \ {k} : job'[j] = job[j]
<1>1. PICK J : job \in [Jobs -> J]
    OBVIOUS
<1>2. PICK K : K = J \union {r}
    OBVIOUS
<1>3. job' = [job EXCEPT ![k] = r]
    BY DEF Become
<1>4. job' \in [Jobs -> K]
    BY <1>1, <1>2, <1>3
<1>5. QED
    BY <1>1, <1>3, <1>4

LEMMA LowestPair ==
    ASSUME NEW S \in SUBSET Pairs, S # {}
    PROVE  (CHOOSE p \in S : \A q \in S : p <= q) \in S
<1>1. \E p \in S : \A q \in S : p <= q
    BY LeastOf, Constants
<1>2. QED
    BY <1>1

LEMMA HereIs ==
    ASSUME NEW k, NEW r, r = job[k]
    PROVE  AtHand(k) = AtHandOf(r) /\ Here(k) = HereOf(r)
<1>1. AtHand(k) = AtHandOf(r)
    BY DEF AtHand, AtHandOf
<1>2. QED
    BY <1>1 DEF Here, HereOf

LEMMA MineIs ==
    ASSUME NEW k, NEW r, r = job[k]
    PROVE  Manifest(k) = MineOf(r, sources) /\ \A p : NewTxns(k, p) = NewOf(r, sources, p)
<1>1. Manifest(k) = MineOf(r, sources)
    BY DEF Manifest, MineOf
<1>2. ASSUME NEW p PROVE NewTxns(k, p) = NewOf(r, sources, p)
    BY DEF NewTxns, NewOf, SourcesOf
<1>3. QED
    BY <1>1, <1>2

LEMMA MinePairs ==
    ASSUME NEW S \in Seq(Source), NEW r, Shaped(r, S)
    PROVE  MineOf(r, S) \subseteq Pairs /\ r.left \subseteq Pairs /\ r.wrote \subseteq Pairs
           /\ AtHandOf(r) \subseteq r.left
<1>1. \A i \in r.first .. r.last : i \in DOMAIN S
    BY SourceIs DEF Shaped
<1>2. MineOf(r, S) \subseteq Pairs
    BY <1>1, SourceIs DEF MineOf
<1>3. QED
    BY <1>2 DEF Shaped, AtHandOf

LEMMA HereIn ==
    ASSUME NEW S \in Seq(Source), NEW r, Shaped(r, S), AtHandOf(r) # {}
    PROVE  HereOf(r) \in AtHandOf(r) /\ HereOf(r) \in r.left /\ HereOf(r) \in Pairs /\ HereOf(r) \in MineOf(r, S)
<1>1. AtHandOf(r) \subseteq r.left /\ r.left \subseteq Pairs /\ r.left \subseteq MineOf(r, S)
    BY MinePairs DEF Shaped
<1>2. HereOf(r) \in AtHandOf(r)
    BY <1>1, LowestPair DEF HereOf
<1>3. QED
    BY <1>1, <1>2

(* A record that agrees on its pairs is at the same one.                    *)
LEMMA SameHere ==
    ASSUME NEW r, NEW p, AtHandOf(p) = AtHandOf(r)
    PROVE  HereOf(p) = HereOf(r)
BY DEF HereOf

----------------------------------------------------------------------------
(* Sources come, mishaps come, a job moves and the table stays.             *)

(* Sources only come.                                                       *)
Extends(T, S) ==
    /\ T \in Seq(Source) /\ S \in Seq(Source) /\ Len(S) <= Len(T)
    /\ \A i \in DOMAIN S : i \in DOMAIN T /\ T[i] = S[i]

LEMMA Extended ==
    ASSUME NEW S \in Seq(Source), NEW b \in Seq(Source), NEW T, T = S \o b
    PROVE  /\ Extends(T, S) /\ Len(T) = Len(S) + Len(b)
           /\ \A i \in (Len(S) + 1) .. Len(T) : i - Len(S) \in DOMAIN b /\ T[i] = b[i - Len(S)]
<1>1. T \in Seq(Source) /\ Len(T) = Len(S) + Len(b)
    OBVIOUS
<1>2. \A i \in DOMAIN S : i \in DOMAIN T /\ T[i] = S[i]
    BY <1>1
<1>3. \A i \in (Len(S) + 1) .. Len(T) : i - Len(S) \in DOMAIN b /\ T[i] = b[i - Len(S)]
    BY <1>1
<1>4. QED
    BY <1>1, <1>2, <1>3 DEF Extends

LEMMA MineGrows ==
    ASSUME NEW S, NEW T, Extends(T, S), NEW r, Shaped(r, S)
    PROVE  /\ MineOf(r, T) = MineOf(r, S)
           /\ \A i \in r.first .. r.last : i \in DOMAIN S /\ T[i] = S[i]
<1>1. \A i \in r.first .. r.last : i \in DOMAIN S /\ T[i] = S[i]
    BY SourceIs DEF Shaped, Extends
<1>2. QED
    BY <1>1 DEF MineOf

LEMMA RowsGrow ==
    ASSUME NEW S, NEW T, Extends(T, S), NEW p, NEW H, RowsOf(H, S, p)
    PROVE  RowsOf(H, T, p)
BY DEF RowsOf, OfPair, Extends

LEMMA PlacedGrows ==
    ASSUME NEW S, NEW T, Extends(T, S), NEW r, NEW st, Placed(r, S, st)
    PROVE  Placed(r, T, st)
<1>1. Shaped(r, S)
    BY DEF Placed
<1>2. /\ MineOf(r, T) = MineOf(r, S)
      /\ \A i \in r.first .. r.last : i \in DOMAIN S /\ T[i] = S[i]
    BY <1>1, MineGrows
<1>3. Len(S) \in Nat /\ Len(T) \in Nat /\ Len(S) <= Len(T)
    BY SourceIs DEF Extends
<1>4. Shaped(r, T)
    <2>1. r.last <= Len(T)
        BY <1>1, <1>3 DEF Shaped
    <2>2. QED
        BY <1>1, <1>2, <2>1 DEF Shaped
<1>5. ASSUME r.type = "worker" PROVE WorkerPlaced(r, T, st)
    <2>1. WorkerPlaced(r, S, st)
        BY <1>5 DEF Placed
    <2>2. NewOf(r, S, HereOf(r)) \subseteq NewOf(r, T, HereOf(r))
        BY DEF NewOf, Extends
    <2>3. r.pc \in Dormant => r.floor <= Len(T) /\ \A a \in Accounts : st[a] = "none"
        BY <1>1, <1>3, <2>1 DEF WorkerPlaced, Shaped
    <2>4. r.pc \notin Dormant => r.floor < r.first /\ \A i \in r.first .. r.last : T[i].kind \in TxnKinds
        BY <1>2, <2>1 DEF WorkerPlaced
    <2>5. r.pc \in {"tail", "rows", "insert"} => r.new \subseteq NewOf(r, T, HereOf(r)) /\ r.new # {}
        BY <2>1, <2>2 DEF WorkerPlaced
    <2>6. QED
        BY <1>2, <2>1, <2>3, <2>4, <2>5 DEF WorkerPlaced
<1>6. ASSUME r.type = "rebuild" PROVE RebuildPlaced(r, T)
    <2>1. RebuildPlaced(r, S)
        BY <1>6 DEF Placed
    <2>2. \A i \in 1 .. r.upto : i \in DOMAIN S /\ T[i] = S[i]
        BY <2>1, SourceIs DEF RebuildPlaced, Extends
    <2>3. \A K : Knows(r, S, K) => Knows(r, T, K)
        BY <2>2 DEF Knows
    <2>4. r.known \subseteq DOMAIN T /\ r.upto <= Len(T)
        BY <1>3, <2>1 DEF RebuildPlaced, Extends
    <2>5. r.pc = "insert" => RowsOf(r.rows, T, HereOf(r))
        BY <2>1, RowsGrow DEF RebuildPlaced
    <2>6. QED
        BY <2>1, <2>3, <2>4, <2>5 DEF RebuildPlaced
<1>7. QED
    BY <1>1, <1>4, <1>5, <1>6 DEF Placed

(* More mishaps excuse more.                                                *)
LEMMA GoodExcused ==
    ASSUME NEW r, NEW S, NEW p, NEW H, NEW M, NEW st, Good(r, S, p, H, M, st), NEW N, M \subseteq N
    PROVE  Good(r, S, p, H, N, st)
<1>1. ("overlap" \notin N => "overlap" \notin M) /\ (Clean(N) => Clean(M)) /\ (Fair(N) => Fair(M))
      /\ (N \intersect {"blind", "overlap"} = {} => M \intersect {"blind", "overlap"} = {})
    BY DEF Clean, Fair
<1>2. QED
    BY <1>1 DEF Good

(* Of a job that is not alone, only SUCCESS is asked.                       *)
LEMMA GoodOther ==
    ASSUME NEW r, NEW S, NEW p, NEW H, NEW M, NEW st,
           OpenRec(r) => "overlap" \in M, Fair(M) => Earned(r, S, p, H, st)
    PROVE  Good(r, S, p, H, M, st)
<1>1. r.pc \in InHand \/ r.pc = "insert" => OpenRec(r)
    BY DEF OpenRec, InHand, Dormant, Closed
<1>2. "overlap" \notin M => Solo(r, S, p)
    BY DEF Solo
<1>3. Clean(M) => Unwritten(r, S, p, H, st)
    BY <1>1 DEF Clean, Unwritten
<1>4. Fair(M) => Brought(r, S, p, H)
    BY <1>1 DEF Fair, Brought
<1>5. M \intersect {"blind", "overlap"} = {} => Rewriting(r, S, p, H)
    BY <1>1 DEF Rewriting
<1>6. QED
    BY <1>2, <1>3, <1>4, <1>5 DEF Good

(* What HInv says of one job.                                               *)
LEMMA Parts ==
    ASSUME HInv, NEW k \in Jobs
    PROVE  /\ sources \in Seq(Source) /\ Placed(job[k], sources, status[k]) /\ Shaped(job[k], sources)
           /\ IsJob(job[k])
           /\ \A p \in Pairs : Good(job[k], sources, p, holdings[p], mishap[p], status[k])
           /\ \E J : job \in [Jobs -> J]
BY DEF HInv, Static, Placed, Shaped

(* A step of one job that leaves the table alone.                           *)
Calm(k) ==
    /\ sources' = sources /\ holdings' = holdings
    /\ \E J : job' \in [Jobs -> J]
    /\ status' \in [Jobs -> [Accounts -> Marks]] /\ mishap' \in [Pairs -> SUBSET Mishaps]
    /\ \A j \in Jobs \ {k} : job'[j] = job[j] /\ status'[j] = status[j]
    /\ \A p \in Pairs : mishap[p] \subseteq mishap'[p] /\ ("unrebuilt" \in mishap'[p] => "unrebuilt" \in mishap[p])
    /\ OpenRec(job'[k]) => OpenRec(job[k])

Fits(k) ==
    /\ Placed(job'[k], sources, status'[k])
    /\ \A p \in Pairs : Good(job'[k], sources, p, holdings[p], mishap'[p], status'[k])
    /\ \A p \in Pairs : Owes(job[k], sources, p) /\ ~Gone(sources, p) => Owes(job'[k], sources, p)

LEMMA CalmStep ==
    ASSUME HInv, NEW k \in Jobs, Calm(k), Fits(k)
    PROVE  HInv'
<1>1. \A j \in Jobs : Placed(job'[j], sources, status'[j])
    <2>1. ASSUME NEW j \in Jobs \ {k} PROVE Placed(job'[j], sources, status'[j])
        BY <2>1, Parts DEF Calm
    <2>2. QED
        BY <2>1 DEF Fits
<1>2. Static'
    BY <1>1 DEF HInv, Static, Calm
<1>3. ASSUME NEW p \in Pairs
      PROVE  /\ Alone(p)' /\ (Clean(mishap'[p]) => Single(holdings'[p])) /\ Owed(p)'
             /\ \A j \in Jobs : Good(job'[j], sources', p, holdings'[p], mishap'[p], status'[j])
    <2>1. \A j \in Jobs : OpenRec(job'[j]) => OpenRec(job[j])
        BY DEF Calm
    <2>2. Alone(p)'
        <3>1. "overlap" \notin mishap'[p] => "overlap" \notin mishap[p]
            BY DEF Calm
        <3>2. Alone(p)
            BY DEF HInv
        <3>3. QED
            BY <2>1, <3>1, <3>2 DEF Alone
    <2>3. Clean(mishap'[p]) => Single(holdings'[p])
        <3>1. Clean(mishap'[p]) => Clean(mishap[p])
            BY DEF Calm, Clean
        <3>2. QED
            BY <3>1 DEF HInv, Calm
    <2>4. ASSUME NEW j \in Jobs PROVE Good(job'[j], sources', p, holdings'[p], mishap'[p], status'[j])
        <3>1. CASE j = k
            BY <3>1 DEF Fits, Calm
        <3>2. CASE j # k
            <4>1. Good(job[j], sources, p, holdings[p], mishap[p], status[j]) /\ mishap[p] \subseteq mishap'[p]
                BY Parts DEF Calm
            <4>2. Good(job[j], sources, p, holdings[p], mishap'[p], status[j])
                BY <4>1, GoodExcused
            <4>3. QED
                BY <3>2, <4>2 DEF Calm
        <3>3. QED
            BY <3>1, <3>2
    <2>5. Owed(p)'
        <3>1. SUFFICES ASSUME "unrebuilt" \in mishap'[p], ~Gone(sources', p)
                       PROVE  \E j \in Jobs : Owes(job'[j], sources', p)
            BY DEF Owed
        <3>2. "unrebuilt" \in mishap[p] /\ ~Gone(sources, p)
            BY <3>1 DEF Calm
        <3>3. PICK j \in Jobs : Owes(job[j], sources, p)
            BY <3>2 DEF HInv, Owed
        <3>4. Owes(job'[j], sources, p)
            BY <3>2, <3>3 DEF Calm, Fits
        <3>5. QED
            BY <3>4 DEF Calm
    <2>6. QED
        BY <2>2, <2>3, <2>4, <2>5
<1>4. QED
    BY <1>2, <1>3 DEF HInv

----------------------------------------------------------------------------
(* A worker begins.                                                         *)

(* Records of one job: same parameters.                                     *)
SameJob(q, r) ==
    /\ IsJob(q) /\ q.type = r.type /\ q.floor = r.floor /\ q.first = r.first /\ q.last = r.last

LEMMA SameJobFacts ==
    ASSUME NEW q, NEW r, SameJob(q, r), NEW S
    PROVE  /\ MineOf(q, S) = MineOf(r, S)
           /\ \A p : NewOf(q, S, p) = NewOf(r, S, p)
           /\ \A p, H : Whole(q, S, p, H) <=> Whole(r, S, p, H)
           /\ \A p, H, st : Earned(q, S, p, H, st) <=> Earned(r, S, p, H, st)
<1>1. MineOf(q, S) = MineOf(r, S)
    BY DEF MineOf, SameJob
<1>2. \A p : NewOf(q, S, p) = NewOf(r, S, p)
    BY DEF NewOf, SameJob
<1>3. \A p, H : Whole(q, S, p, H) <=> Whole(r, S, p, H)
    BY DEF Whole, SameJob
<1>4. \A p, H, st : Earned(q, S, p, H, st) <=> Earned(r, S, p, H, st)
    BY <1>3 DEF Earned, SameJob
<1>5. QED
    BY <1>1, <1>2, <1>3, <1>4

(* What a pair's transactions are to a worker it was given.                 *)
LEMMA GivenIsNew ==
    ASSUME NEW S \in Seq(Source), NEW r, NEW st, Placed(r, S, st), r.type = "worker", r.pc \notin Dormant,
           NEW p, NEW i \in r.first .. r.last, S[i].pair = p
    PROVE  i \in NewOf(r, S, p)
<1>1. r.floor < r.first /\ S[i].kind \in TxnKinds
    BY DEF Placed, WorkerPlaced
<1>2. r.floor \in Int /\ r.first \in Nat \ {0} /\ r.last \in Nat /\ r.last <= Len(S)
    BY DEF Placed, Shaped
<1>3. i \in DOMAIN S
    BY <1>2, SourceIs
<1>4. QED
    BY <1>1, <1>2, <1>3 DEF NewOf

LEMMA NotMine ==
    ASSUME NEW S, NEW r, NEW p, p \notin MineOf(r, S), NEW H
    PROVE  Whole(r, S, p, H)
BY DEF Whole, MineOf

(* The record Fresh gives.                                                  *)
LEMMA FreshIs ==
    ASSUME NEW k, NEW r, r = job[k]
    PROVE  Newborn(Fresh(k), r.type, r.floor, r.first, r.last)
BY NewJobIs DEF Fresh

LEMMA StartWorkerStep ==
    ASSUME HInv, NEW k \in Jobs, StartWorker(k)
    PROVE  HInv'
<1>1. PICK r : r = job[k]
    OBVIOUS
<1>2. PICK f : f = Fresh(k)
    OBVIOUS
<1>3. Newborn(f, r.type, r.floor, r.first, r.last)
    BY <1>1, <1>2, FreshIs
<1>4. PICK q : q = [f EXCEPT !.pc = "account", !.tries = r.tries, !.left = Manifest(k)]
    OBVIOUS
<1>5. Become(k, q) /\ r.type = "worker" /\ r.pc = "queued"
    BY <1>1, <1>2, <1>4 DEF StartWorker
<1>6. sources' = sources /\ holdings' = holdings /\ status' = status /\ mishap' = mishap
    BY DEF StartWorker
<1>7. /\ Placed(r, sources, status[k]) /\ Shaped(r, sources) /\ sources \in Seq(Source)
      /\ \A p \in Pairs : Good(r, sources, p, holdings[p], mishap[p], status[k])
    BY <1>1, Parts
<1>8. /\ \E J : job' \in [Jobs -> J]
      /\ job'[k] = q /\ \A j \in Jobs \ {k} : job'[j] = job[j]
    BY <1>5, Becomes, Parts
<1>9. /\ SameJob(q, r)
      /\ q.pc = "account" /\ q.left = MineOf(r, sources) /\ q.wrote = {} /\ q.errs = 0 /\ q.acct = AcctOf[1]
    <2>1. PICK A : f \in [Fields -> A]
        BY <1>3 DEF Newborn, IsJob
    <2>2. PICK B : B = A \union {"account", r.tries, Manifest(k)}
        OBVIOUS
    <2>3. q \in [Fields -> B]
        <3>1. f \in [Fields -> B]
            BY <2>1, <2>2
        <3>2. "account" \in B /\ r.tries \in B /\ Manifest(k) \in B
            BY <2>2
        <3>3. QED
            BY <1>4, <3>1, <3>2
    <2>4. IsJob(q)
        BY <2>3 DEF IsJob
    <2>5. q.type = f.type /\ q.floor = f.floor /\ q.first = f.first /\ q.last = f.last
        BY <1>4, <2>1 DEF Fields
    <2>6. q.pc = "account" /\ q.left = Manifest(k) /\ q.wrote = f.wrote /\ q.errs = f.errs /\ q.acct = f.acct
        BY <1>4, <2>1 DEF Fields
    <2>7. QED
        BY <1>1, <1>3, <2>4, <2>5, <2>6, MineIs DEF SameJob, Newborn
<1>10. Placed(q, sources, status[k])
    <2>1. MineOf(q, sources) = MineOf(r, sources)
        BY <1>9, SameJobFacts
    <2>2. Shaped(q, sources)
        BY <1>5, <1>7, <1>9, <2>1, Constants DEF Shaped, SameJob, WorkerPcs, Dormant, Closed
    <2>3. WorkerPlaced(r, sources, status[k])
        BY <1>5, <1>7 DEF Placed
    <2>4. WorkerPlaced(q, sources, status[k])
        BY <1>5, <1>9, <2>1, <2>3 DEF WorkerPlaced, SameJob, InHand, Dormant
    <2>5. QED
        BY <1>5, <1>9, <2>2, <2>4 DEF Placed, SameJob
<1>11. ASSUME NEW p \in Pairs
       PROVE  Good(q, sources, p, holdings[p], mishap[p], status[k])
    <2>1. Good(r, sources, p, holdings[p], mishap[p], status[k])
        BY <1>7
    <2>2. OpenRec(r) /\ OpenRec(q)
        BY <1>5, <1>9 DEF OpenRec, Dormant, Closed
    <2>3. "overlap" \notin mishap[p] => Solo(q, sources, p)
        BY <1>5, <1>9, <2>1, <2>2, SameJobFacts DEF Good, Solo, SameJob
    <2>4. r.wrote = {}
        BY <1>5, <1>7 DEF Shaped
    <2>5. Clean(mishap[p]) => Unwritten(q, sources, p, holdings[p], status[k])
        BY <1>5, <1>9, <2>1, <2>2, <2>4, SameJobFacts DEF Good, Unwritten, SameJob, InHand
    <2>6. Fair(mishap[p]) => Earned(q, sources, p, holdings[p], status[k])
        BY <1>9, <2>1, SameJobFacts DEF Good
    <2>7. Brought(q, sources, p, holdings[p]) /\ Rewriting(q, sources, p, holdings[p])
        BY <1>9 DEF Brought, Rewriting, InHand
    <2>8. QED
        BY <2>3, <2>5, <2>6, <2>7 DEF Good
<1>12. Calm(k)
    <2>1. /\ status \in [Jobs -> [Accounts -> Marks]] /\ mishap \in [Pairs -> SUBSET Mishaps]
        BY DEF HInv, Static
    <2>2. OpenRec(r)
        BY <1>5 DEF OpenRec, Dormant, Closed
    <2>3. QED
        BY <1>1, <1>6, <1>8, <2>1, <2>2 DEF Calm
<1>13. Fits(k)
    <2>1. \A p \in Pairs : ~Owes(r, sources, p)
        BY <1>5 DEF Owes
    <2>2. QED
        BY <1>1, <1>6, <1>8, <1>10, <1>11, <2>1 DEF Fits
<1>14. QED
    BY <1>12, <1>13, CalmStep

----------------------------------------------------------------------------
(* Steps that leave the table alone.                                        *)

(* A step that leaves the table alone and excuses no pair from being        *)
(* written again.                                                           *)
Mild(k) ==
    /\ sources' = sources /\ holdings' = holdings
    /\ status' \in [Jobs -> [Accounts -> Marks]] /\ mishap' \in [Pairs -> SUBSET Mishaps]
    /\ \A j \in Jobs \ {k} : status'[j] = status[j]
    /\ \A p \in Pairs : mishap[p] \subseteq mishap'[p] /\ ("unrebuilt" \in mishap'[p] => "unrebuilt" \in mishap[p])

LEMMA MildAsIs ==
    ASSUME HInv, NEW k \in Jobs, sources' = sources, holdings' = holdings, status' = status, mishap' = mishap
    PROVE  Mild(k)
BY DEF HInv, Static, Mild

LEMMA BlameIs ==
    ASSUME HInv, NEW S, NEW what \in Mishaps, Blame(S, what)
    PROVE  /\ mishap' \in [Pairs -> SUBSET Mishaps]
           /\ \A p \in Pairs : mishap'[p] = IF p \in S THEN mishap[p] \union {what} ELSE mishap[p]
<1>1. mishap \in [Pairs -> SUBSET Mishaps]
    BY DEF HInv, Static
<1>2. mishap' = [p \in Pairs |-> IF p \in S THEN mishap[p] \union {what} ELSE mishap[p]]
    BY DEF Blame
<1>3. QED
    BY <1>1, <1>2

LEMMA MildBlame ==
    ASSUME HInv, NEW k \in Jobs, sources' = sources, holdings' = holdings, status' = status,
           NEW S, NEW what \in Mishaps, what # "unrebuilt", Blame(S, what)
    PROVE  Mild(k)
<1>1. /\ mishap' \in [Pairs -> SUBSET Mishaps]
      /\ \A p \in Pairs : mishap'[p] = IF p \in S THEN mishap[p] \union {what} ELSE mishap[p]
    BY BlameIs
<1>2. status \in [Jobs -> [Accounts -> Marks]]
    BY DEF HInv, Static
<1>3. QED
    BY <1>1, <1>2 DEF Mild

LEMMA WorkerGoesOn ==
    ASSUME HInv, NEW k \in Jobs, NEW q, Become(k, q), Mild(k), job[k].type = "worker", OpenRec(job[k]),
           Placed(q, sources, status'[k]),
           \A p \in Pairs : Good(q, sources, p, holdings[p], mishap'[p], status'[k])
    PROVE  HInv'
<1>1. /\ \E J : job' \in [Jobs -> J]
      /\ job'[k] = q /\ \A j \in Jobs \ {k} : job'[j] = job[j]
    BY Becomes, Parts
<1>2. Calm(k)
    BY <1>1 DEF Calm, Mild
<1>3. \A p \in Pairs : ~Owes(job[k], sources, p)
    BY DEF Owes
<1>4. Fits(k)
    BY <1>1, <1>3 DEF Fits
<1>5. QED
    BY <1>2, <1>4, CalmStep

(* Good of a worker, part by part.                                          *)
LEMMA WorkerGood ==
    ASSUME NEW q, q.type = "worker", NEW S, NEW p, NEW H, NEW M, NEW st,
           "overlap" \notin M => Solo(q, S, p),
           Clean(M) => Unwritten(q, S, p, H, st),
           Fair(M) => Earned(q, S, p, H, st),
           Fair(M) => Brought(q, S, p, H)
    PROVE  Good(q, S, p, H, M, st)
<1>1. Rewriting(q, S, p, H)
    BY DEF Rewriting
<1>2. QED
    BY <1>1 DEF Good

LEMMA SkipAccountStep ==
    ASSUME HInv, NEW k \in Jobs, SkipAccount(k)
    PROVE  HInv'
<1>1. PICK r : r = job[k]
    OBVIOUS
<1>2. r.type = "worker" /\ r.pc = "account" /\ r.left # {}
    BY <1>1 DEF SkipAccount
<1>3. sources' = sources /\ holdings' = holdings /\ mishap' = mishap
    BY DEF SkipAccount
<1>4. /\ Placed(r, sources, status[k]) /\ Shaped(r, sources) /\ IsJob(r) /\ sources \in Seq(Source)
      /\ \A p \in Pairs : Good(r, sources, p, holdings[p], mishap[p], status[k])
    BY <1>1, Parts
<1>5. WorkerPlaced(r, sources, status[k])
    BY <1>2, <1>4 DEF Placed
<1>6. OpenRec(r)
    BY <1>2 DEF OpenRec, Dormant, Closed
<1>7. PICK h : h = HereOf(r)
    OBVIOUS
<1>8. h \in r.left /\ h \in Pairs /\ h \in MineOf(r, sources)
    <2>1. AtHandOf(r) # {}
        BY <1>2 DEF AtHandOf
    <2>2. QED
        BY <1>4, <1>7, <2>1, HereIn
<1>9. PICK a : a = AcctOf[h]
    OBVIOUS
<1>10. a \in Accounts
    BY <1>8, <1>9, Constants
<1>11. PICK A : r \in [Fields -> A]
    BY <1>4 DEF IsJob
<1>12. \A p, q \in MineOf(r, sources) : AcctOf[p] = AcctOf[q] /\ p \in r.left => q \in r.left
    BY <1>2, <1>5 DEF WorkerPlaced, InHand
<1>13. status \in [Jobs -> [Accounts -> Marks]]
    BY DEF HInv, Static
<1>21. PICK rest : rest = {p \in r.left : AcctOf[p] # a}
    OBVIOUS
<1>22. PICK q : q = [r EXCEPT !.left = rest]
    OBVIOUS
<1>23. Become(k, q) /\ status' = status
    BY <1>1, <1>2, <1>7, <1>9, <1>21, <1>22, HereIs DEF SkipAccount
<1>24. SameJob(q, r) /\ q.pc = "account" /\ q.left = rest /\ q.wrote = r.wrote /\ q.errs = r.errs /\ q.acct = r.acct
    <2>1. PICK B : B = A \union {rest}
        OBVIOUS
    <2>2. q \in [Fields -> B]
        BY <1>11, <1>22, <2>1 DEF Fields
    <2>3. /\ q.type = r.type /\ q.floor = r.floor /\ q.first = r.first /\ q.last = r.last
          /\ q.pc = r.pc /\ q.left = rest /\ q.wrote = r.wrote /\ q.errs = r.errs /\ q.acct = r.acct
        BY <1>11, <1>22 DEF Fields
    <2>4. QED
        BY <1>2, <2>2, <2>3 DEF SameJob, IsJob
<1>25. MineOf(q, sources) = MineOf(r, sources)
    BY <1>24, SameJobFacts
<1>26. Shaped(q, sources)
    BY <1>2, <1>4, <1>21, <1>24, <1>25 DEF Shaped, SameJob
<1>27. WorkerPlaced(q, sources, status[k])
    BY <1>2, <1>5, <1>12, <1>21, <1>24, <1>25 DEF WorkerPlaced, SameJob, InHand, Dormant
<1>28. Placed(q, sources, status'[k])
    BY <1>2, <1>23, <1>24, <1>26, <1>27 DEF Placed, SameJob
<1>29. ASSUME NEW p \in Pairs
      PROVE  Good(q, sources, p, holdings[p], mishap'[p], status'[k])
    <2>1. Good(r, sources, p, holdings[p], mishap[p], status[k])
        BY <1>4
    <2>2. "overlap" \notin mishap[p] => Solo(q, sources, p)
        BY <1>2, <1>6, <1>24, <2>1, SameJobFacts DEF Good, Solo, SameJob
    <2>3. Clean(mishap[p]) => Unwritten(q, sources, p, holdings[p], status[k])
        BY <1>2, <1>6, <1>21, <1>24, <2>1, SameJobFacts DEF Good, Unwritten, SameJob, InHand
    <2>4. Fair(mishap[p]) => Earned(q, sources, p, holdings[p], status[k])
        BY <1>24, <2>1, SameJobFacts DEF Good
    <2>5. Brought(q, sources, p, holdings[p])
        BY <1>24 DEF Brought, InHand
    <2>6. q.type = "worker"
        BY <1>2, <1>24 DEF SameJob
    <2>7. QED
        BY <1>3, <1>23, <2>2, <2>3, <2>4, <2>5, <2>6, WorkerGood
<1>30. Mild(k)
    BY <1>3, <1>23, MildAsIs
<1>31. QED
    BY <1>1, <1>2, <1>6, <1>23, <1>28, <1>29, <1>30, WorkerGoesOn

(* A worker alone with a pair that was not given it has nothing to bring.   *)
LEMMA Stranger ==
    ASSUME NEW S \in Seq(Source), NEW r, NEW p, Solo(r, S, p), r.type = "worker", OpenRec(r), p \notin MineOf(r, S)
    PROVE  NewOf(r, S, p) = {}
<1>1. SUFFICES ASSUME NEW i \in NewOf(r, S, p) PROVE FALSE
    OBVIOUS
<1>2. r.last = Len(S) /\ r.first <= i
    BY <1>1 DEF Solo
<1>3. i \in DOMAIN S /\ S[i].pair = p
    BY <1>1 DEF NewOf
<1>4. i \in 1 .. Len(S)
    BY <1>3, SourceIs
<1>5. i \in r.first .. r.last
    BY <1>2, <1>4, SourceIs
<1>6. QED
    BY <1>3, <1>5 DEF MineOf

LEMMA BeginAccountStep ==
    ASSUME HInv, NEW k \in Jobs, BeginAccount(k)
    PROVE  HInv'
<1>1. PICK r : r = job[k]
    OBVIOUS
<1>2. r.type = "worker" /\ r.pc = "account" /\ r.left # {}
    BY <1>1 DEF BeginAccount
<1>3. sources' = sources /\ holdings' = holdings
    BY DEF BeginAccount
<1>4. /\ Placed(r, sources, status[k]) /\ Shaped(r, sources) /\ IsJob(r) /\ sources \in Seq(Source)
      /\ \A p \in Pairs : Good(r, sources, p, holdings[p], mishap[p], status[k])
    BY <1>1, Parts
<1>5. WorkerPlaced(r, sources, status[k])
    BY <1>2, <1>4 DEF Placed
<1>6. OpenRec(r)
    BY <1>2 DEF OpenRec, Dormant, Closed
<1>7. PICK h : h = HereOf(r)
    OBVIOUS
<1>8. h \in r.left /\ h \in Pairs /\ h \in MineOf(r, sources)
    <2>1. AtHandOf(r) # {}
        BY <1>2 DEF AtHandOf
    <2>2. QED
        BY <1>4, <1>7, <2>1, HereIn
<1>9. PICK a : a = AcctOf[h]
    OBVIOUS
<1>10. a \in Accounts
    BY <1>8, <1>9, Constants
<1>11. PICK A : r \in [Fields -> A]
    BY <1>4 DEF IsJob
<1>12. \A p, q \in MineOf(r, sources) : AcctOf[p] = AcctOf[q] /\ p \in r.left => q \in r.left
    BY <1>2, <1>5 DEF WorkerPlaced, InHand
<1>13. status \in [Jobs -> [Accounts -> Marks]] /\ mishap \in [Pairs -> SUBSET Mishaps]
    BY DEF HInv, Static
<1>14. PICK q : q = [r EXCEPT !.pc = "read", !.acct = a, !.errs = 0]
    OBVIOUS
<1>15. PICK L : L = {p \in MineOf(r, sources) : AcctOf[p] = a /\ status[k][a] = "SUCCESS"}
    OBVIOUS
<1>16. /\ Become(k, q) /\ Blame(L, "unread")
       /\ status' = [status EXCEPT ![k][a] = "RUNNING"] \/ status' = status
    <2>1. AcctOf[Here(k)] = a /\ Manifest(k) = MineOf(r, sources)
        BY <1>1, <1>7, <1>9, HereIs, MineIs
    <2>2. /\ Become(k, [job[k] EXCEPT !.pc = "read", !.acct = a, !.errs = 0])
          /\ Blame({p \in Manifest(k) : AcctOf[p] = a /\ status[k][a] = "SUCCESS"}, "unread")
          /\ \/ status' = [status EXCEPT ![k][a] = "RUNNING"] /\ UNCHANGED faults
             \/ Fault /\ UNCHANGED status
        BY <2>1, Zenon DEF BeginAccount
    <2>3. QED
        BY <1>1, <1>14, <1>15, <2>1, <2>2, Zenon
<1>17. /\ mishap' \in [Pairs -> SUBSET Mishaps]
       /\ \A p \in Pairs : mishap'[p] = IF p \in L THEN mishap[p] \union {"unread"} ELSE mishap[p]
    BY <1>16, BlameIs DEF Mishaps
<1>18. \A p \in Pairs : /\ mishap[p] \subseteq mishap'[p] /\ ("unrebuilt" \in mishap'[p] => "unrebuilt" \in mishap[p])
                        /\ (p \in L => ~Clean(mishap'[p]))
    BY <1>17 DEF Clean
<1>19. SameJob(q, r) /\ q.pc = "read" /\ q.left = r.left /\ q.wrote = r.wrote /\ q.errs = 0 /\ q.acct = a
    <2>1. PICK B : B = A \union {"read", a, 0}
        OBVIOUS
    <2>2. q \in [Fields -> B]
        <3>1. r \in [Fields -> B]
            BY <1>11, <2>1
        <3>2. "read" \in B /\ a \in B /\ 0 \in B
            BY <2>1
        <3>3. QED
            BY <1>14, <3>1, <3>2
    <2>3. /\ q.type = r.type /\ q.floor = r.floor /\ q.first = r.first /\ q.last = r.last
          /\ q.pc = "read" /\ q.left = r.left /\ q.wrote = r.wrote /\ q.errs = 0 /\ q.acct = a
        BY <1>11, <1>14 DEF Fields
    <2>4. QED
        BY <2>2, <2>3 DEF SameJob, IsJob
<1>20. MineOf(q, sources) = MineOf(r, sources) /\ q.type = "worker"
    BY <1>2, <1>19, SameJobFacts DEF SameJob
<1>21. Shaped(q, sources)
    BY <1>2, <1>4, <1>10, <1>19, <1>20 DEF Shaped, SameJob, WorkerPcs, Dormant, Closed
<1>22. PICK st : st = status'[k]
    OBVIOUS
<1>23. /\ st \in [Accounts -> Marks] /\ (st[a] = "SUCCESS" => status[k][a] = "SUCCESS")
       /\ \A b \in Accounts : b # a => st[b] = status[k][b]
       /\ status' \in [Jobs -> [Accounts -> Marks]] /\ \A j \in Jobs \ {k} : status'[j] = status[j]
    <2>1. CASE status' = [status EXCEPT ![k][a] = "RUNNING"]
        BY <1>10, <1>13, <1>22, <2>1 DEF Marks
    <2>2. CASE status' = status
        BY <1>10, <1>13, <1>22, <2>2
    <2>3. QED
        BY <1>16, <2>1, <2>2
<1>24. h \in AtHandOf(q)
    BY <1>8, <1>9, <1>19 DEF AtHandOf
<1>25. WorkerPlaced(q, sources, st)
    BY <1>2, <1>5, <1>12, <1>19, <1>20, <1>24 DEF WorkerPlaced, SameJob, InHand, Dormant
<1>26. Placed(q, sources, status'[k])
    BY <1>20, <1>21, <1>22, <1>25 DEF Placed
<1>27. ASSUME NEW p \in Pairs
       PROVE  Good(q, sources, p, holdings[p], mishap'[p], status'[k])
    <2>1. PICK N : N = mishap'[p]
        OBVIOUS
    <2>2. Good(r, sources, p, holdings[p], N, status[k])
        BY <1>4, <1>18, <2>1, GoodExcused
    <2>3. AcctOf[p] \in Accounts /\ OpenRec(q)
        BY <1>19, Constants DEF OpenRec, Dormant, Closed
    <2>4. "overlap" \notin N => Solo(q, sources, p)
        BY <1>2, <1>6, <1>19, <2>2, SameJobFacts DEF Good, Solo, SameJob
    <2>5. Clean(N) => Unwritten(q, sources, p, holdings[p], st)
        <3>1. SUFFICES ASSUME Clean(N)
                       PROVE  Unwritten(q, sources, p, holdings[p], st)
            OBVIOUS
        <3>2. Unwritten(r, sources, p, holdings[p], status[k])
            BY <2>2, <3>1 DEF Good
        <3>3. /\ status[k][AcctOf[p]] # "SUCCESS" /\ p \notin r.wrote =>
                       \A i \in NewOf(r, sources, p) : ~HasRow(holdings[p], i)
              /\ ~(p \in r.left /\ p \in r.wrote)
            BY <1>2, <1>6, <3>2 DEF Unwritten
        <3>4. p \notin L
            BY <1>18, <2>1, <3>1
        <3>5. p \notin MineOf(r, sources) => NewOf(r, sources, p) = {}
            <4>1. Solo(r, sources, p)
                BY <2>2, <3>1 DEF Good, Clean
            <4>2. QED
                BY <1>2, <1>4, <1>6, <4>1, Stranger
        <3>6. st[AcctOf[p]] # "SUCCESS" /\ p \notin r.wrote => \A i \in NewOf(r, sources, p) : ~HasRow(holdings[p], i)
            <4>1. CASE p \notin MineOf(r, sources)
                BY <3>5, <4>1
            <4>2. CASE p \in MineOf(r, sources) /\ AcctOf[p] = a
                BY <1>15, <3>3, <3>4, <4>2
            <4>3. CASE AcctOf[p] # a
                BY <1>23, <2>3, <3>3, <4>3
            <4>4. QED
                BY <4>1, <4>2, <4>3
        <3>7. p \in MineOf(r, sources) /\ AcctOf[p] = a => st[AcctOf[p]] # "SUCCESS"
            BY <1>15, <1>23, <3>4
        <3>8. NewOf(q, sources, p) = NewOf(r, sources, p)
            BY <1>19, SameJobFacts
        <3>9. QED
            BY <1>19, <1>20, <3>3, <3>6, <3>7, <3>8 DEF Unwritten
    <2>6. Fair(N) => Earned(q, sources, p, holdings[p], st)
        <3>1. st[AcctOf[p]] = "SUCCESS" => status[k][AcctOf[p]] = "SUCCESS"
            BY <1>23, <2>3
        <3>2. Earned(r, sources, p, holdings[p], status[k]) => Earned(r, sources, p, holdings[p], st)
            BY <3>1 DEF Earned
        <3>3. QED
            BY <1>19, <2>2, <3>2, SameJobFacts DEF Good
    <2>7. Brought(q, sources, p, holdings[p])
        <3>1. ASSUME AcctOf[p] = a, p \notin r.left PROVE Whole(q, sources, p, holdings[p])
            <4>1. p \notin MineOf(q, sources)
                BY <1>8, <1>9, <1>12, <1>20, <3>1
            <4>2. QED
                BY <4>1, NotMine
        <3>2. QED
            BY <1>19, <3>1 DEF Brought
    <2>8. Good(q, sources, p, holdings[p], N, st)
        BY <1>20, <2>4, <2>5, <2>6, <2>7, WorkerGood
    <2>9. QED
        BY <1>22, <2>1, <2>8
<1>28. Mild(k)
    BY <1>3, <1>17, <1>18, <1>23 DEF Mild
<1>29. QED
    BY <1>1, <1>2, <1>6, <1>16, <1>26, <1>27, <1>28, WorkerGoesOn

----------------------------------------------------------------------------
(* A worker is done with a pair.                                            *)

Busy == {"read", "tail", "rows", "insert"}

(* q is what is left of r when it is finished with its pair.                *)
Done(q, r, w, e) ==
    /\ SameJob(q, r) /\ q.left = r.left \ {HereOf(r)} /\ q.acct = r.acct /\ q.wrote = w /\ q.errs = e
    /\ q.pc = IF \E p \in q.left : AcctOf[p] = q.acct THEN "read" ELSE "mark"

LEMMA PairDoneIs ==
    ASSUME NEW k, NEW r, r = job[k], NEW x, SameJob(x, r), x.left = r.left, x.acct = r.acct,
           NEW q, q = PairDone(k, x)
    PROVE  Done(q, r, x.wrote, x.errs)
<1>1. PICK rest : rest = x.left \ {Here(k)}
    OBVIOUS
<1>2. PICK pc : pc = IF \E p \in rest : AcctOf[p] = x.acct THEN "read" ELSE "mark"
    OBVIOUS
<1>3. q = [x EXCEPT !.left = rest, !.new = {}, !.todo = {}, !.queue = <<>>, !.hold = 0, !.value = 0, !.pc = pc]
    BY <1>1, <1>2, Zenon DEF PairDone
<1>4. PICK A : x \in [Fields -> A]
    BY DEF SameJob, IsJob
<1>5. PICK B : B = A \union {rest, {}, <<>>, 0, pc}
    OBVIOUS
<1>6. PICK y : y = [x EXCEPT !.left = rest, !.new = {}, !.todo = {}]
    OBVIOUS
<1>7. y \in [Fields -> B] /\ y.left = rest /\ \A f \in Fields \ {"left", "new", "todo"} : y[f] = x[f]
    <2>1. x \in [Fields -> B]
        BY <1>4, <1>5
    <2>2. rest \in B /\ {} \in B
        BY <1>5
    <2>3. y \in [Fields -> B]
        BY <1>6, <2>1, <2>2
    <2>4. y.left = rest
        BY <1>4, <1>6 DEF Fields
    <2>5. \A f \in Fields \ {"left", "new", "todo"} : y[f] = x[f]
        BY <1>4, <1>6
    <2>6. QED
        BY <2>3, <2>4, <2>5
<1>8. PICK z : z = [y EXCEPT !.queue = <<>>, !.hold = 0]
    OBVIOUS
<1>9. z \in [Fields -> B] /\ \A f \in Fields \ {"queue", "hold"} : z[f] = y[f]
    BY <1>5, <1>7, <1>8 DEF Fields
<1>10. q = [z EXCEPT !.value = 0, !.pc = pc]
    BY <1>3, <1>6, <1>8
<1>11. q \in [Fields -> B] /\ q.pc = pc /\ \A f \in Fields \ {"value", "pc"} : q[f] = z[f]
    <2>1. 0 \in B /\ pc \in B /\ "pc" \in Fields
        BY <1>5 DEF Fields
    <2>2. q.pc = pc
        BY <1>9, <1>10, <2>1
    <2>3. \A f \in Fields \ {"value", "pc"} : q[f] = z[f]
        BY <1>9, <1>10
    <2>4. q \in [Fields -> B]
        BY <1>9, <1>10, <2>1
    <2>5. QED
        BY <2>2, <2>3, <2>4
<1>12. /\ q.type = x.type /\ q.floor = x.floor /\ q.first = x.first /\ q.last = x.last
       /\ q.left = rest /\ q.acct = x.acct /\ q.wrote = x.wrote /\ q.errs = x.errs
    BY <1>7, <1>9, <1>11 DEF Fields
<1>13. IsJob(q)
    BY <1>11 DEF IsJob
<1>14. Here(k) = HereOf(r)
    BY HereIs
<1>15. SameJob(q, r)
    BY <1>12, <1>13 DEF SameJob
<1>16. QED
    BY <1>1, <1>2, <1>11, <1>12, <1>14, <1>15 DEF Done

LEMMA DonePlaced ==
    ASSUME NEW S \in Seq(Source), NEW r, NEW st, Placed(r, S, st), r.type = "worker", r.pc \in Busy,
           NEW q, NEW w, NEW e \in Nat, Done(q, r, w, e), w \subseteq r.wrote \union {HereOf(r)}
    PROVE  Placed(q, S, st) /\ HereOf(r) \in Pairs /\ HereOf(r) \in r.left /\ AcctOf[HereOf(r)] = r.acct
<1>1. Shaped(r, S) /\ WorkerPlaced(r, S, st)
    BY DEF Placed
<1>2. AtHandOf(r) # {}
    BY <1>1 DEF WorkerPlaced, Busy
<1>3. HereOf(r) \in AtHandOf(r) /\ HereOf(r) \in r.left /\ HereOf(r) \in Pairs /\ HereOf(r) \in MineOf(r, S)
    BY <1>1, <1>2, HereIn
<1>4. AcctOf[HereOf(r)] = r.acct
    BY <1>3 DEF AtHandOf, Busy
<1>5. MineOf(q, S) = MineOf(r, S)
    BY SameJobFacts DEF Done
<1>6. q.pc \in {"read", "mark"} /\ q.left \subseteq r.left /\ q.acct = r.acct /\ q.type = "worker"
    BY DEF Done, SameJob
<1>7. Shaped(q, S)
    BY <1>1, <1>3, <1>5, <1>6 DEF Shaped, Done, SameJob, WorkerPcs, Dormant, Closed, Busy
<1>8. /\ r.pc \notin Dormant /\ r.pc \in InHand
    BY DEF Busy, Dormant, InHand
<1>9. AtHandOf(q) = {p \in q.left : AcctOf[p] = q.acct}
    BY <1>6 DEF AtHandOf
<1>10. /\ q.pc = "read" => AtHandOf(q) # {}
       /\ q.pc = "mark" => AtHandOf(q) = {}
    BY <1>9 DEF Done
<1>11. q.floor < q.first /\ \A i \in q.first .. q.last : S[i].kind \in TxnKinds
    BY <1>1, <1>8 DEF WorkerPlaced, Done, SameJob
<1>13. \A x, y \in MineOf(q, S) :
          AcctOf[x] = AcctOf[y] /\ (q.pc \in InHand => AcctOf[x] # q.acct) /\ x \in q.left => y \in q.left
    <2>1. ASSUME NEW x \in MineOf(q, S), NEW y \in MineOf(q, S),
                 AcctOf[x] = AcctOf[y], AcctOf[x] # q.acct, x \in q.left
          PROVE  y \in q.left
        <3>1. y \in r.left
            BY <1>1, <1>5, <1>6, <2>1 DEF WorkerPlaced
        <3>2. y # HereOf(r)
            BY <1>4, <1>6, <2>1
        <3>3. QED
            BY <3>1, <3>2 DEF Done
    <2>2. q.pc \in InHand
        BY <1>6 DEF InHand
    <2>3. QED
        BY <2>1, <2>2
<1>14. WorkerPlaced(q, S, st)
    BY <1>6, <1>10, <1>11, <1>13 DEF WorkerPlaced, Dormant
<1>15. QED
    BY <1>3, <1>4, <1>6, <1>7, <1>14 DEF Placed

LEMMA DoneGood ==
    ASSUME NEW S \in Seq(Source), NEW r, NEW st, Placed(r, S, st), r.type = "worker", r.pc \in Busy,
           NEW q, NEW w, NEW e \in Nat, Done(q, r, w, e), w \subseteq r.wrote \union {HereOf(r)}, r.wrote \subseteq w,
           NEW p \in Pairs, NEW H, NEW M, Good(r, S, p, H, M, st), NEW G, NEW N, M \subseteq N,
           p # HereOf(r) => G = H,
           p = HereOf(r) => p \in w \/ G = H \/ ~Clean(N),
           p = HereOf(r) /\ e = 0 /\ Fair(N) => Whole(r, S, p, G),
           Whole(r, S, p, H) => Whole(r, S, p, G),
           e = 0 => r.errs = 0
    PROVE  Good(q, S, p, G, N, st)
<1>1. Placed(q, S, st) /\ HereOf(r) \in Pairs /\ HereOf(r) \in r.left /\ AcctOf[HereOf(r)] = r.acct
    BY DonePlaced
<1>2. Good(r, S, p, H, N, st)
    BY GoodExcused
<1>3. /\ q.pc \in {"read", "mark"} /\ q.left = r.left \ {HereOf(r)} /\ q.acct = r.acct /\ q.type = "worker"
      /\ q.wrote = w /\ q.errs = e /\ SameJob(q, r)
    BY DEF Done, SameJob
<1>4. OpenRec(r) /\ OpenRec(q) /\ r.pc \in InHand /\ q.pc \in InHand
    BY <1>3 DEF OpenRec, Dormant, Closed, Busy, InHand
<1>5. NewOf(q, S, p) = NewOf(r, S, p) /\ (Whole(q, S, p, G) <=> Whole(r, S, p, G))
    BY <1>3, SameJobFacts
<1>6. MineOf(q, S) = MineOf(r, S)
    BY <1>3, SameJobFacts
<1>7. "overlap" \notin N => Solo(q, S, p)
    BY <1>2, <1>3, <1>4, <1>5 DEF Good, Solo, SameJob
<1>8. Clean(N) => Unwritten(q, S, p, G, st)
    <2>1. SUFFICES ASSUME Clean(N) PROVE Unwritten(q, S, p, G, st)
        OBVIOUS
    <2>2. Unwritten(r, S, p, H, st)
        BY <1>2, <2>1 DEF Good
    <2>3. /\ st[AcctOf[p]] # "SUCCESS" /\ p \notin r.wrote => \A i \in NewOf(r, S, p) : ~HasRow(H, i)
          /\ p \in r.left /\ p \in r.wrote => p = HereOf(r)
          /\ AcctOf[p] = r.acct /\ p \in MineOf(r, S) => st[AcctOf[p]] # "SUCCESS"
        BY <1>4, <2>2 DEF Unwritten
    <2>4. st[AcctOf[p]] # "SUCCESS" /\ p \notin w => \A i \in NewOf(q, S, p) : ~HasRow(G, i)
        BY <1>5, <2>1, <2>3
    <2>5. ~(p \in q.left /\ p \in w)
        BY <1>3, <2>3
    <2>6. QED
        BY <1>3, <1>6, <2>3, <2>4, <2>5 DEF Unwritten
<1>9. Fair(N) => Earned(q, S, p, G, st)
    <2>1. Fair(N) => Earned(r, S, p, H, st)
        BY <1>2 DEF Good
    <2>2. QED
        BY <1>5, <2>1 DEF Earned
<1>10. Fair(N) => Brought(q, S, p, G)
    <2>1. SUFFICES ASSUME Fair(N), e = 0, AcctOf[p] = r.acct, p \notin q.left PROVE Whole(r, S, p, G)
        BY <1>3, <1>5 DEF Brought
    <2>2. CASE p = HereOf(r)
        BY <2>1, <2>2
    <2>3. CASE p # HereOf(r)
        <3>1. p \notin r.left /\ G = H
            BY <1>3, <2>1, <2>3
        <3>2. Brought(r, S, p, H)
            BY <1>2, <2>1 DEF Good
        <3>3. QED
            BY <1>4, <2>1, <3>1, <3>2 DEF Brought
    <2>4. QED
        BY <2>2, <2>3
<1>11. QED
    BY <1>3, <1>7, <1>8, <1>9, <1>10, WorkerGood

----------------------------------------------------------------------------
(* A worker reads the new transactions.                                     *)

(* q is r, still at its pair.                                               *)
Stays(q, r, pc, new, todo) ==
    /\ SameJob(q, r) /\ q.left = r.left /\ q.acct = r.acct /\ q.wrote = r.wrote /\ q.errs = r.errs
    /\ q.pc = pc /\ q.new = new /\ (pc = "insert" => q.todo = todo)
    /\ pc \in {"tail", "rows", "insert"}

LEMMA StaysPlaced ==
    ASSUME NEW S \in Seq(Source), NEW r, NEW st, Placed(r, S, st), r.type = "worker", r.pc \in Busy,
           NEW q, NEW pc, NEW new, NEW todo, Stays(q, r, pc, new, todo),
           new \subseteq NewOf(r, S, HereOf(r)), new # {}, todo \subseteq new, pc = "insert" => todo # {}
    PROVE  Placed(q, S, st) /\ HereOf(q) = HereOf(r)
<1>1. Shaped(r, S) /\ WorkerPlaced(r, S, st)
    BY DEF Placed
<1>2. /\ SameJob(q, r) /\ q.type = "worker" /\ q.left = r.left /\ q.acct = r.acct /\ q.wrote = r.wrote /\ q.errs = r.errs
      /\ q.pc = pc /\ q.new = new /\ (pc = "insert" => q.todo = todo) /\ pc \in {"tail", "rows", "insert"}
    BY DEF Stays, SameJob
<1>3. MineOf(q, S) = MineOf(r, S) /\ NewOf(q, S, HereOf(r)) = NewOf(r, S, HereOf(r))
    <2>1. MineOf(q, S) = MineOf(r, S)
        BY <1>2, SameJobFacts
    <2>2. \A x : NewOf(q, S, x) = NewOf(r, S, x)
        BY <1>2 DEF NewOf, SameJob
    <2>3. QED
        BY <2>1, <2>2
<1>4. AtHandOf(q) = AtHandOf(r)
    BY <1>2 DEF AtHandOf, Busy
<1>5. HereOf(q) = HereOf(r)
    BY <1>4, SameHere
<1>6. Shaped(q, S)
    BY <1>1, <1>2, <1>3 DEF Shaped, SameJob, WorkerPcs, Dormant, Closed, Busy
<1>7. r.pc \notin Dormant /\ r.pc \in InHand /\ q.pc \notin Dormant /\ q.pc \in InHand
    BY <1>2 DEF Busy, Dormant, InHand
<1>8. AtHandOf(q) # {}
    BY <1>1, <1>4 DEF WorkerPlaced, Busy
<1>9. q.floor < q.first /\ \A i \in q.first .. q.last : S[i].kind \in TxnKinds
    BY <1>1, <1>2, <1>7 DEF WorkerPlaced, SameJob
<1>10. \A x, y \in MineOf(q, S) :
          AcctOf[x] = AcctOf[y] /\ (q.pc \in InHand => AcctOf[x] # q.acct) /\ x \in q.left => y \in q.left
    BY <1>1, <1>2, <1>3, <1>7 DEF WorkerPlaced
<1>11. WorkerPlaced(q, S, st)
    BY <1>2, <1>3, <1>5, <1>7, <1>8, <1>9, <1>10 DEF WorkerPlaced
<1>12. QED
    BY <1>2, <1>5, <1>6, <1>11 DEF Placed

LEMMA StaysGood ==
    ASSUME NEW S \in Seq(Source), NEW r, NEW st, Placed(r, S, st), r.type = "worker", r.pc \in Busy,
           NEW q, NEW pc, NEW new, NEW todo, Stays(q, r, pc, new, todo),
           new \subseteq NewOf(r, S, HereOf(r)), new # {}, todo \subseteq new, pc = "insert" => todo # {},
           r.pc # "read" => new = r.new,
           \A i \in new : S[i].kind # "MISC" => i \in todo,
           NEW p \in Pairs, NEW H, NEW M, Good(r, S, p, H, M, st), NEW N, M \subseteq N,
           r.pc = "read" /\ p = HereOf(r) /\ Fair(N) => new = NewOf(r, S, p),
           r.pc = "insert" /\ p = HereOf(r) /\ Clean(N) => p \notin r.wrote,
           r.pc = "insert" => pc = "rows"
    PROVE  Good(q, S, p, H, N, st)
<1>1. HereOf(q) = HereOf(r)
    BY StaysPlaced
<1>2. /\ SameJob(q, r) /\ q.type = "worker" /\ q.left = r.left /\ q.acct = r.acct /\ q.wrote = r.wrote /\ q.errs = r.errs
      /\ q.pc = pc /\ q.new = new /\ (pc = "insert" => q.todo = todo) /\ pc \in {"tail", "rows", "insert"}
    BY DEF Stays, SameJob
<1>3. Good(r, S, p, H, N, st)
    BY GoodExcused
<1>4. OpenRec(r) /\ OpenRec(q) /\ r.pc \in InHand /\ q.pc \in InHand
    BY <1>2 DEF OpenRec, Dormant, Closed, Busy, InHand
<1>5. NewOf(q, S, p) = NewOf(r, S, p) /\ (Whole(q, S, p, H) <=> Whole(r, S, p, H))
      /\ (Earned(q, S, p, H, st) <=> Earned(r, S, p, H, st))
    <2>1. SameJob(q, r)
        BY <1>2
    <2>2. NewOf(q, S, p) = NewOf(r, S, p)
        BY <2>1, SameJobFacts
    <2>3. Whole(q, S, p, H) <=> Whole(r, S, p, H)
        BY <2>1, SameJobFacts
    <2>4. Earned(q, S, p, H, st) <=> Earned(r, S, p, H, st)
        BY <2>1, SameJobFacts
    <2>5. QED
        BY <2>2, <2>3, <2>4
<1>6. ASSUME Fair(N), q.errs = 0, AcctOf[p] = r.acct, p = HereOf(r) PROVE new = NewOf(r, S, p)
    <2>1. Brought(r, S, p, H)
        BY <1>3, <1>6 DEF Good
    <2>2. r.pc = "read" \/ r.pc \in {"tail", "rows", "insert"}
        BY DEF Busy
    <2>3. QED
        BY <1>2, <1>4, <1>6, <2>1, <2>2 DEF Brought
<1>7. "overlap" \notin N => Solo(q, S, p)
    BY <1>1, <1>2, <1>3, <1>4, <1>5 DEF Good, Solo, SameJob
<1>8. Clean(N) => Unwritten(q, S, p, H, st)
    <2>1. SUFFICES ASSUME Clean(N) PROVE Unwritten(q, S, p, H, st)
        OBVIOUS
    <2>2. Unwritten(r, S, p, H, st)
        BY <1>3, <2>1 DEF Good
    <2>3. /\ st[AcctOf[p]] # "SUCCESS" /\ p \notin r.wrote => \A i \in NewOf(r, S, p) : ~HasRow(H, i)
          /\ p \in r.left /\ p \in r.wrote => p = HereOf(r) /\ r.pc = "insert"
          /\ AcctOf[p] = r.acct /\ p \in MineOf(r, S) => st[AcctOf[p]] # "SUCCESS"
        BY <1>4, <2>2 DEF Unwritten
    <2>4. ~(p \in r.left /\ p \in r.wrote)
        BY <2>1, <2>3
    <2>5. p = HereOf(r) => \A i \in new : ~HasRow(H, i)
        <3>1. SUFFICES ASSUME p = HereOf(r) PROVE \A i \in new : ~HasRow(H, i)
            OBVIOUS
        <3>2. AtHandOf(r) # {} /\ Shaped(r, S)
            BY <1>4 DEF Placed, WorkerPlaced, Busy
        <3>3. p \in AtHandOf(r) /\ p \in r.left /\ p \in MineOf(r, S)
            BY <3>1, <3>2, HereIn
        <3>4. AcctOf[p] = r.acct
            BY <3>3 DEF AtHandOf, Busy
        <3>5. QED
            BY <2>3, <2>4, <3>1, <3>2, <3>3, <3>4
    <2>6. p = HereOf(r) => p \notin r.wrote
        <3>1. SUFFICES ASSUME p = HereOf(r) PROVE p \notin r.wrote
            OBVIOUS
        <3>2. AtHandOf(r) # {} /\ Shaped(r, S)
            BY DEF Placed, WorkerPlaced, Busy
        <3>3. QED
            BY <2>4, <3>1, <3>2, HereIn
    <2>7. MineOf(q, S) = MineOf(r, S)
        BY <1>2, SameJobFacts
    <2>8. QED
        BY <1>1, <1>2, <1>5, <2>3, <2>4, <2>5, <2>6, <2>7 DEF Unwritten
<1>9. Fair(N) => Earned(q, S, p, H, st)
    BY <1>3, <1>5 DEF Good
<1>10. Fair(N) => Brought(q, S, p, H)
    <2>1. SUFFICES ASSUME Fair(N), q.errs = 0, AcctOf[p] = q.acct PROVE
              /\ p \notin q.left => Whole(q, S, p, H)
              /\ p = HereOf(q) => q.new = NewOf(q, S, p)
              /\ q.pc = "insert" /\ p = HereOf(q) =>
                   \A i \in NewOf(q, S, p) : S[i].kind # "MISC" => HasRow(H, i) \/ i \in q.todo
        BY DEF Brought
    <2>2. p \notin q.left => Whole(q, S, p, H)
        BY <1>2, <1>3, <1>4, <1>5, <2>1 DEF Good, Brought
    <2>3. p = HereOf(q) => new = NewOf(q, S, p)
        BY <1>1, <1>2, <1>5, <1>6, <2>1
    <2>4. QED
        BY <1>1, <1>2, <1>5, <2>2, <2>3
<1>11. QED
    BY <1>2, <1>7, <1>8, <1>9, <1>10, WorkerGood

(* What a worker at a pair has to hand.                                     *)
LEMMA AtWork ==
    ASSUME HInv, NEW k \in Jobs, NEW r, r = job[k], r.type = "worker", r.pc \in Busy
    PROVE  /\ Placed(r, sources, status[k]) /\ Shaped(r, sources) /\ IsJob(r) /\ sources \in Seq(Source)
           /\ WorkerPlaced(r, sources, status[k]) /\ OpenRec(r)
           /\ \A p \in Pairs : Good(r, sources, p, holdings[p], mishap[p], status[k])
           /\ Here(k) = HereOf(r) /\ HereOf(r) \in Pairs /\ HereOf(r) \in r.left /\ AcctOf[HereOf(r)] = r.acct
           /\ r.wrote \subseteq r.wrote \union {HereOf(r)} /\ r.errs \in Nat
           /\ SameJob(r, r)
<1>1. /\ Placed(r, sources, status[k]) /\ Shaped(r, sources) /\ IsJob(r) /\ sources \in Seq(Source)
      /\ \A p \in Pairs : Good(r, sources, p, holdings[p], mishap[p], status[k])
    BY Parts
<1>2. WorkerPlaced(r, sources, status[k]) /\ OpenRec(r)
    BY <1>1 DEF Placed, OpenRec, Busy, Dormant, Closed
<1>3. AtHandOf(r) # {}
    BY <1>2 DEF WorkerPlaced, Busy, InHand
<1>4. HereOf(r) \in AtHandOf(r) /\ HereOf(r) \in r.left /\ HereOf(r) \in Pairs
    BY <1>1, <1>3, HereIn
<1>5. AcctOf[HereOf(r)] = r.acct
    BY <1>4 DEF AtHandOf, Busy
<1>6. Here(k) = HereOf(r) /\ r.errs \in Nat /\ SameJob(r, r)
    BY <1>1, HereIs DEF Shaped, SameJob
<1>7. QED
    BY <1>1, <1>2, <1>3, <1>4, <1>5, <1>6

(* A step that gives up on a pair, or has nothing to do for it.             *)
LEMMA PassesOver ==
    ASSUME HInv, NEW k \in Jobs, NEW r, r = job[k], r.type = "worker", r.pc \in {"read", "tail", "rows"},
           NEW q, Become(k, q), Done(q, r, r.wrote, r.errs), Mild(k), status' = status,
           r.errs = 0 /\ Fair(mishap'[HereOf(r)]) => \A i \in NewOf(r, sources, HereOf(r)) : sources[i].kind = "MISC"
    PROVE  HInv'
<1>0. r.pc \in Busy
    BY DEF Busy
<1>1. /\ Placed(r, sources, status[k]) /\ sources \in Seq(Source) /\ OpenRec(r) /\ r.errs \in Nat
      /\ \A p \in Pairs : Good(r, sources, p, holdings[p], mishap[p], status[k])
      /\ HereOf(r) \in Pairs
    BY <1>0, AtWork
<1>2. r.wrote \subseteq r.wrote \union {HereOf(r)}
    OBVIOUS
<1>3. Placed(q, sources, status[k])
    BY <1>0, <1>1, <1>2, DonePlaced
<1>4. r.errs = 0 /\ Fair(mishap'[HereOf(r)]) => Whole(r, sources, HereOf(r), holdings[HereOf(r)])
    <2>1. SUFFICES ASSUME r.errs = 0, Fair(mishap'[HereOf(r)])
                   PROVE  Whole(r, sources, HereOf(r), holdings[HereOf(r)])
        OBVIOUS
    <2>2. \A i \in NewOf(r, sources, HereOf(r)) : sources[i].kind = "MISC"
        BY <2>1
    <2>3. r.pc \notin Dormant
        BY DEF Dormant
    <2>4. QED
        BY <1>1, <2>2, <2>3, GivenIsNew DEF Whole
<1>5. ASSUME NEW p \in Pairs
      PROVE  Good(q, sources, p, holdings[p], mishap'[p], status[k])
    <2>1. PICK H : H = holdings[p]
        OBVIOUS
    <2>2. PICK M : M = mishap[p]
        OBVIOUS
    <2>3. PICK N : N = mishap'[p]
        OBVIOUS
    <2>4. Good(r, sources, p, H, M, status[k]) /\ M \subseteq N
        BY <1>1, <2>1, <2>2, <2>3 DEF Mild
    <2>5. p = HereOf(r) /\ r.errs = 0 /\ Fair(N) => Whole(r, sources, p, H)
        BY <1>4, <2>1, <2>3
    <2>6. Good(q, sources, p, H, N, status[k])
        BY <1>0, <1>1, <1>2, <2>4, <2>5, DoneGood
    <2>7. QED
        BY <2>1, <2>3, <2>6
<1>6. QED
    BY <1>1, <1>3, <1>5, WorkerGoesOn

(* A step that stays at its pair.                                           *)
LEMMA StaysOn ==
    ASSUME HInv, NEW k \in Jobs, NEW r, r = job[k], r.type = "worker", r.pc \in {"read", "tail", "rows"},
           NEW q, NEW pc, NEW new, NEW todo, Become(k, q), Stays(q, r, pc, new, todo), Mild(k), status' = status,
           new \subseteq NewOf(r, sources, HereOf(r)), new # {}, todo \subseteq new, pc = "insert" => todo # {},
           r.pc = "read" /\ Fair(mishap'[HereOf(r)]) => new = NewOf(r, sources, HereOf(r)), r.pc # "read" => new = r.new,
           \A i \in new : sources[i].kind # "MISC" => i \in todo
    PROVE  HInv'
<1>0. r.pc \in Busy
    BY DEF Busy
<1>1. /\ Placed(r, sources, status[k]) /\ sources \in Seq(Source) /\ OpenRec(r)
      /\ \A p \in Pairs : Good(r, sources, p, holdings[p], mishap[p], status[k])
    BY <1>0, AtWork
<1>3. Placed(q, sources, status[k])
    BY <1>0, <1>1, StaysPlaced
<1>5. ASSUME NEW p \in Pairs
      PROVE  Good(q, sources, p, holdings[p], mishap'[p], status[k])
    <2>1. PICK H : H = holdings[p]
        OBVIOUS
    <2>2. PICK M : M = mishap[p]
        OBVIOUS
    <2>3. PICK N : N = mishap'[p]
        OBVIOUS
    <2>4. Good(r, sources, p, H, M, status[k]) /\ M \subseteq N
        BY <1>1, <2>1, <2>2, <2>3 DEF Mild
    <2>5. r.pc # "insert" /\ (r.pc = "read" /\ p = HereOf(r) /\ Fair(N) => new = NewOf(r, sources, p))
        BY <2>3
    <2>6. Good(q, sources, p, H, N, status[k])
        BY <1>0, <1>1, <2>4, <2>5, StaysGood
    <2>7. QED
        BY <2>1, <2>3, <2>6
<1>6. QED
    BY <1>1, <1>3, <1>5, WorkerGoesOn

LEMMA BlamedIs ==
    ASSUME HInv, NEW h \in Pairs, NEW what \in Mishaps, Blame({h}, what)
    PROVE  what \in mishap'[h]
<1>1. \A p \in Pairs : mishap'[p] = IF p \in {h} THEN mishap[p] \union {what} ELSE mishap[p]
    BY BlameIs
<1>2. QED
    BY <1>1

LEMMA ReadNewStep ==
    ASSUME HInv, NEW k \in Jobs, ReadNew(k)
    PROVE  HInv'
<1>1. PICK r : r = job[k]
    OBVIOUS
<1>2. r.type = "worker" /\ r.pc = "read" /\ r.pc \in Busy
    BY <1>1 DEF ReadNew, Busy
<1>3. sources' = sources /\ holdings' = holdings /\ status' = status
    BY DEF ReadNew
<1>4. IsJob(r) /\ Here(k) = HereOf(r) /\ SameJob(r, r)
    BY <1>1, <1>2, AtWork
<1>5. PICK h : h = HereOf(r)
    OBVIOUS
<1>6. PICK all : all = NewOf(r, sources, h)
    OBVIOUS
<1>7. NewTxns(k, Here(k)) = all
    BY <1>1, <1>4, <1>5, <1>6, MineIs
<1>8. PICK done : done = PairDone(k, job[k])
    OBVIOUS
<1>9. Done(done, r, r.wrote, r.errs)
    BY <1>1, <1>4, <1>8, PairDoneIs
<1>10. PICK new \in Pages(all) :
          /\ IF new = {} THEN Become(k, PairDone(k, job[k]))
             ELSE Become(k, [job[k] EXCEPT !.new = new, !.cheap = ~(\E i \in new : sources[i].kind = "SELL"),
                               !.pc = IF \E i \in new : sources[i].kind = "SELL" THEN "rows" ELSE "tail"])
          /\ IF new = all THEN UNCHANGED <<faults, mishap>> ELSE Fault /\ Blame({Here(k)}, "blind")
    BY <1>7, Zenon DEF ReadNew
<1>11. PICK sells \in BOOLEAN : sells = \E i \in new : sources[i].kind = "SELL"
    BY Zenon
<1>12. PICK q : q = [r EXCEPT !.new = new, !.cheap = ~sells, !.pc = IF sells THEN "rows" ELSE "tail"]
    OBVIOUS
<1>13. (new = {} /\ Become(k, done)) \/ (new # {} /\ Become(k, q))
    BY <1>1, <1>8, <1>10, <1>11, <1>12, Zenon
<1>14. new \subseteq all
    BY <1>10 DEF Pages
<1>15. h \in Pairs
    BY <1>1, <1>2, <1>5, AtWork
<1>16. Mild(k) /\ (new = all \/ "blind" \in mishap'[h])
    <2>1. CASE new = all
        <3>1. mishap' = mishap
            BY <1>10, <2>1
        <3>2. QED
            BY <1>3, <2>1, <3>1, MildAsIs
    <2>2. CASE new # all
        <3>1. Blame({h}, "blind")
            BY <1>4, <1>5, <1>10, <2>2
        <3>2. QED
            BY <1>3, <1>15, <3>1, MildBlame, BlamedIs DEF Mishaps
    <2>3. QED
        BY <2>1, <2>2
<1>17. Fair(mishap'[h]) => new = all
    BY <1>16 DEF Fair
<1>18. CASE new = {} /\ Become(k, done)
    <2>1. r.errs = 0 /\ Fair(mishap'[h]) => \A i \in NewOf(r, sources, h) : sources[i].kind = "MISC"
        BY <1>6, <1>17, <1>18
    <2>2. QED
        BY <1>1, <1>2, <1>3, <1>5, <1>9, <1>16, <1>18, <2>1, PassesOver
<1>19. CASE new # {} /\ Become(k, q)
    <2>2. PICK pc : pc = IF sells THEN "rows" ELSE "tail"
        OBVIOUS
    <2>3. PICK cheap : cheap = ~sells
        OBVIOUS
    <2>4. q = [r EXCEPT !.new = new, !.cheap = cheap, !.pc = pc]
        BY <1>12, <2>2, <2>3
    <2>5. PICK A : r \in [Fields -> A]
        BY <1>4 DEF IsJob
    <2>6. PICK B : B = A \union {new, cheap, pc}
        OBVIOUS
    <2>7. q \in [Fields -> B]
        BY <2>4, <2>5, <2>6 DEF Fields
    <2>8. /\ q.type = r.type /\ q.floor = r.floor /\ q.first = r.first /\ q.last = r.last
          /\ q.left = r.left /\ q.acct = r.acct /\ q.wrote = r.wrote /\ q.errs = r.errs
        BY <2>4, <2>5 DEF Fields
    <2>9. q.pc = pc /\ q.new = new
        BY <2>4, <2>5 DEF Fields
    <2>10. pc \in {"tail", "rows"}
        BY <2>2
    <2>11. Stays(q, r, pc, new, new)
        BY <2>7, <2>8, <2>9, <2>10 DEF Stays, SameJob, IsJob
    <2>12. /\ new \subseteq NewOf(r, sources, HereOf(r)) /\ new # {} /\ new \subseteq new
           /\ Fair(mishap'[HereOf(r)]) => new = NewOf(r, sources, HereOf(r))
        BY <1>5, <1>6, <1>14, <1>17, <1>19
    <2>13. QED
        BY <1>1, <1>2, <1>3, <1>16, <1>19, <2>10, <2>11, <2>12, StaysOn
<1>20. QED
    BY <1>13, <1>18, <1>19

----------------------------------------------------------------------------
(* A worker reads the table; a worker closes.                               *)

LEMMA ReadTailStep ==
    ASSUME HInv, NEW k \in Jobs, ReadTail(k)
    PROVE  HInv'
<1>1. PICK r : r = job[k]
    OBVIOUS
<1>2. r.type = "worker" /\ r.pc = "tail" /\ r.pc \in Busy
    BY <1>1 DEF ReadTail, Busy
<1>3. sources' = sources /\ holdings' = holdings /\ status' = status
    BY DEF ReadTail
<1>4. IsJob(r) /\ Here(k) = HereOf(r) /\ WorkerPlaced(r, sources, status[k])
    BY <1>1, <1>2, AtWork
<1>5. PICK h : h = HereOf(r)
    OBVIOUS
<1>6. Mild(k)
    <2>1. UNCHANGED <<faults, mishap>> \/ Blame({h}, "blind")
        BY <1>1, <1>4, <1>5 DEF ReadTail
    <2>2. CASE UNCHANGED <<faults, mishap>>
        BY <1>3, <2>2, MildAsIs
    <2>3. CASE Blame({h}, "blind")
        BY <1>3, <2>3, MildBlame DEF Mishaps
    <2>4. QED
        BY <2>1, <2>2, <2>3
<1>7. PICK hold, value : Become(k, [r EXCEPT !.pc = "insert", !.todo = r.new, !.hold = hold, !.value = value])
    BY <1>1, Zenon DEF ReadTail
<1>8. PICK q : q = [r EXCEPT !.pc = "insert", !.todo = r.new, !.hold = hold, !.value = value]
    OBVIOUS
<1>9. PICK A : r \in [Fields -> A]
    BY <1>4 DEF IsJob
<1>10. PICK B : B = A \union {"insert", hold, value}
    OBVIOUS
<1>11. PICK y : y = [r EXCEPT !.hold = hold, !.value = value]
    OBVIOUS
<1>12. y \in [Fields -> B] /\ \A f \in Fields \ {"hold", "value"} : y[f] = r[f]
    BY <1>9, <1>10, <1>11 DEF Fields
<1>13. PICK new : new = r.new
    OBVIOUS
<1>14. new \in B /\ "insert" \in B
    BY <1>9, <1>10, <1>13 DEF Fields
<1>15. q = [y EXCEPT !.pc = "insert", !.todo = new]
    BY <1>8, <1>11, <1>13
<1>16. q \in [Fields -> B]
    BY <1>12, <1>14, <1>15
<1>17. q.pc = "insert" /\ q.todo = new
    BY <1>12, <1>15 DEF Fields
<1>18. \A f \in Fields \ {"pc", "todo"} : q[f] = y[f]
    BY <1>12, <1>15
<1>19. /\ q.type = r.type /\ q.floor = r.floor /\ q.first = r.first /\ q.last = r.last
       /\ q.left = r.left /\ q.acct = r.acct /\ q.wrote = r.wrote /\ q.errs = r.errs /\ q.new = r.new
    BY <1>12, <1>18 DEF Fields
<1>20. Stays(q, r, "insert", new, new)
    BY <1>13, <1>16, <1>17, <1>19 DEF Stays, SameJob, IsJob
<1>21. new \subseteq NewOf(r, sources, HereOf(r)) /\ new # {}
    BY <1>2, <1>4, <1>13 DEF WorkerPlaced
<1>22. Become(k, q)
    BY <1>7, <1>8
<1>23. r.pc \in {"read", "tail", "rows"} /\ r.pc # "read" /\ new = r.new /\ new \subseteq new
       /\ \A i \in new : sources[i].kind # "MISC" => i \in new
    BY <1>2, <1>13
<1>24. QED
    BY <1>1, <1>2, <1>3, <1>6, <1>20, <1>21, <1>22, <1>23, StaysOn

LEMMA ReadRowsStep ==
    ASSUME HInv, NEW k \in Jobs, ReadRows(k)
    PROVE  HInv'
<1>1. PICK r : r = job[k]
    OBVIOUS
<1>2. r.type = "worker" /\ r.pc = "rows" /\ r.pc \in Busy
    BY <1>1 DEF ReadRows, Busy
<1>3. sources' = sources /\ holdings' = holdings /\ status' = status
    BY DEF ReadRows
<1>4. /\ IsJob(r) /\ Here(k) = HereOf(r) /\ WorkerPlaced(r, sources, status[k]) /\ SameJob(r, r) /\ OpenRec(r)
      /\ \A p \in Pairs : Good(r, sources, p, holdings[p], mishap[p], status[k])
      /\ HereOf(r) \in Pairs
    BY <1>1, <1>2, AtWork
<1>5. PICK h : h = HereOf(r)
    OBVIOUS
<1>6. Mild(k)
    <2>1. UNCHANGED <<faults, mishap>> \/ Blame({h}, "blind")
        BY <1>1, <1>4, <1>5, Zenon DEF ReadRows
    <2>2. CASE UNCHANGED <<faults, mishap>>
        BY <1>3, <2>2, MildAsIs
    <2>3. CASE Blame({h}, "blind")
        BY <1>3, <2>3, MildBlame DEF Mishaps
    <2>4. QED
        BY <2>1, <2>2, <2>3
<1>7. PICK todo : todo = {i \in r.new : sources[i].kind # "MISC"}
    OBVIOUS
<1>8. PICK done : done = PairDone(k, job[k])
    OBVIOUS
<1>9. Done(done, r, r.wrote, r.errs)
    BY <1>1, <1>4, <1>8, PairDoneIs
<1>10. PICK queue : Become(k, IF todo = {} THEN done
                              ELSE [r EXCEPT !.pc = "insert", !.cheap = FALSE, !.queue = queue, !.todo = todo])
    BY <1>1, <1>7, <1>8, Zenon DEF ReadRows
<1>11. r.new \subseteq NewOf(r, sources, h) /\ r.new # {}
    BY <1>2, <1>4, <1>5 DEF WorkerPlaced
<1>12. CASE todo = {}
    <2>1. Become(k, done)
        BY <1>10, <1>12
    <2>2. ASSUME r.errs = 0, Fair(mishap'[h]) PROVE \A i \in NewOf(r, sources, h) : sources[i].kind = "MISC"
        <3>1. Fair(mishap[h])
            BY <1>4, <1>5, <1>6, <2>2 DEF Mild, Fair
        <3>2. Brought(r, sources, h, holdings[h]) /\ AcctOf[h] = r.acct
            BY <1>1, <1>2, <1>4, <1>5, <3>1, AtWork DEF Good
        <3>3. r.new = NewOf(r, sources, h)
            BY <1>2, <1>5, <2>2, <3>2 DEF Brought, InHand
        <3>4. QED
            BY <1>7, <1>12, <3>3
    <2>3. QED
        BY <1>1, <1>2, <1>3, <1>5, <1>6, <1>9, <2>1, <2>2, PassesOver
<1>13. CASE todo # {}
    <2>1. PICK q : q = [r EXCEPT !.pc = "insert", !.cheap = FALSE, !.queue = queue, !.todo = todo]
        OBVIOUS
    <2>2. Become(k, q)
        BY <1>10, <1>13, <2>1
    <2>3. PICK A : r \in [Fields -> A]
        BY <1>4 DEF IsJob
    <2>4. PICK B : B = A \union {"insert", FALSE, queue, todo}
        OBVIOUS
    <2>5. PICK y : y = [r EXCEPT !.cheap = FALSE, !.queue = queue]
        OBVIOUS
    <2>6. y \in [Fields -> B] /\ \A f \in Fields \ {"cheap", "queue"} : y[f] = r[f]
        BY <2>3, <2>4, <2>5 DEF Fields
    <2>7. q = [y EXCEPT !.pc = "insert", !.todo = todo]
        BY <2>1, <2>5
    <2>8. q \in [Fields -> B]
        BY <2>4, <2>6, <2>7
    <2>9. q.pc = "insert" /\ q.todo = todo
        BY <2>6, <2>7 DEF Fields
    <2>10. \A f \in Fields \ {"pc", "todo"} : q[f] = y[f]
        BY <2>6, <2>7
    <2>11. /\ q.type = r.type /\ q.floor = r.floor /\ q.first = r.first /\ q.last = r.last
           /\ q.left = r.left /\ q.acct = r.acct /\ q.wrote = r.wrote /\ q.errs = r.errs /\ q.new = r.new
        BY <2>6, <2>10 DEF Fields
    <2>12. PICK new : new = r.new
        OBVIOUS
    <2>13. Stays(q, r, "insert", new, todo)
        BY <2>8, <2>9, <2>11, <2>12 DEF Stays, SameJob, IsJob
    <2>14. /\ todo \subseteq new /\ new # {} /\ new \subseteq NewOf(r, sources, HereOf(r))
           /\ \A i \in new : sources[i].kind # "MISC" => i \in todo
        BY <1>5, <1>7, <1>11, <2>12
    <2>15. QED
        BY <1>1, <1>2, <1>3, <1>6, <1>13, <2>2, <2>12, <2>13, <2>14, StaysOn
<1>14. QED
    BY <1>12, <1>13

----------------------------------------------------------------------------
(* q is the record Fresh gives r, with this pc.                             *)
Renewed(q, r, pc) ==
    /\ SameJob(q, r) /\ q.pc = pc /\ q.left = {} /\ q.wrote = {} /\ q.errs = 0 /\ q.acct = AcctOf[1]
    /\ q.known = {} /\ q.upto = 0 /\ q.partial = FALSE

LEMMA RenewedIs ==
    ASSUME NEW k, NEW r, r = job[k], NEW pc, NEW tries, NEW q, q = [Fresh(k) EXCEPT !.pc = pc, !.tries = tries]
    PROVE  Renewed(q, r, pc)
<1>1. PICK f : f = Fresh(k)
    OBVIOUS
<1>2. Newborn(f, r.type, r.floor, r.first, r.last)
    BY <1>1, FreshIs
<1>3. PICK A : f \in [Fields -> A]
    BY <1>2 DEF Newborn, IsJob
<1>4. PICK B : B = A \union {pc, tries}
    OBVIOUS
<1>5. q = [f EXCEPT !.pc = pc, !.tries = tries]
    BY <1>1
<1>6. q \in [Fields -> B] /\ q.pc = pc /\ \A x \in Fields \ {"pc", "tries"} : q[x] = f[x]
    <2>1. f \in [Fields -> B] /\ pc \in B /\ tries \in B /\ "pc" \in Fields
        BY <1>3, <1>4 DEF Fields
    <2>2. q \in [Fields -> B]
        BY <1>5, <2>1
    <2>3. q.pc = pc
        BY <1>5, <2>1
    <2>4. \A x \in Fields \ {"pc", "tries"} : q[x] = f[x]
        BY <1>5, <2>1
    <2>5. QED
        BY <2>2, <2>3, <2>4
<1>7. IsJob(q)
    BY <1>6 DEF IsJob
<1>8. /\ q.type = f.type /\ q.floor = f.floor /\ q.first = f.first /\ q.last = f.last
      /\ q.left = f.left /\ q.acct = f.acct /\ q.wrote = f.wrote /\ q.errs = f.errs
      /\ q.known = f.known /\ q.upto = f.upto /\ q.partial = f.partial
    BY <1>6 DEF Fields
<1>9. QED
    BY <1>2, <1>6, <1>7, <1>8 DEF Renewed, SameJob, Newborn

LEMMA RenewedPlaced ==
    ASSUME NEW S \in Seq(Source), NEW r, NEW st, Placed(r, S, st), r.pc \notin Dormant,
           NEW q, NEW pc \in {"queued", "done", "failed"}, Renewed(q, r, pc)
    PROVE  Placed(q, S, st)
<1>1. Shaped(r, S)
    BY DEF Placed
<1>2. SameJob(q, r) /\ q.type = r.type /\ q.pc = pc /\ q.left = {} /\ q.wrote = {} /\ q.errs = 0 /\ q.acct = AcctOf[1]
    BY DEF Renewed, SameJob
<1>3. Shaped(q, S)
    BY <1>1, <1>2, Constants DEF Shaped, SameJob, WorkerPcs, RebuildPcs, Dormant, Closed
<1>4. ASSUME r.type = "worker" PROVE WorkerPlaced(q, S, st)
    <2>1. WorkerPlaced(r, S, st)
        BY <1>4 DEF Placed
    <2>2. q.floor < q.first /\ \A i \in q.first .. q.last : S[i].kind \in TxnKinds
        BY <1>2, <2>1 DEF WorkerPlaced, SameJob
    <2>3. QED
        BY <1>2, <2>2 DEF WorkerPlaced, Dormant, InHand
<1>5. RebuildPlaced(q, S)
    <2>1. Len(S) \in Nat
        BY SourceIs
    <2>2. QED
        BY <1>2, <2>1 DEF RebuildPlaced, Renewed
<1>6. QED
    BY <1>2, <1>3, <1>4, <1>5 DEF Placed

LEMMA RenewedGood ==
    ASSUME NEW S, NEW r, NEW q, NEW pc \in {"queued", "done", "failed"}, Renewed(q, r, pc),
           NEW p, NEW H, NEW M, NEW st, Good(r, S, p, H, M, st), NEW N, M \subseteq N,
           pc = "queued" => OpenRec(r),
           pc = "queued" /\ r.type = "worker" /\ Clean(N) /\ st[AcctOf[p]] # "SUCCESS" => p \notin r.wrote
    PROVE  Good(q, S, p, H, N, st)
<1>1. Good(r, S, p, H, N, st)
    BY GoodExcused
<1>2. /\ SameJob(q, r) /\ q.type = r.type /\ q.pc = pc /\ q.left = {} /\ q.wrote = {}
      /\ NewOf(q, S, p) = NewOf(r, S, p) /\ (Earned(q, S, p, H, st) <=> Earned(r, S, p, H, st))
    BY SameJobFacts DEF Renewed, SameJob
<1>3. OpenRec(q) => OpenRec(r) /\ pc = "queued"
    BY <1>2 DEF OpenRec, Closed, Dormant
<1>4. "overlap" \notin N => Solo(q, S, p)
    BY <1>1, <1>2, <1>3 DEF Good, Solo, SameJob
<1>5. Clean(N) => Unwritten(q, S, p, H, st)
    <2>1. SUFFICES ASSUME Clean(N) PROVE Unwritten(q, S, p, H, st)
        OBVIOUS
    <2>2. Unwritten(r, S, p, H, st)
        BY <1>1, <2>1 DEF Good
    <2>3. q.pc \notin InHand
        BY <1>2 DEF InHand
    <2>4. QED
        BY <1>2, <1>3, <2>1, <2>2, <2>3 DEF Unwritten
<1>6. Fair(N) => Earned(q, S, p, H, st)
    BY <1>1, <1>2 DEF Good
<1>7. Brought(q, S, p, H) /\ Rewriting(q, S, p, H)
    BY <1>2 DEF Brought, Rewriting, InHand
<1>8. QED
    BY <1>4, <1>5, <1>6, <1>7 DEF Good

LEMMA FinishWorkerStep ==
    ASSUME HInv, NEW k \in Jobs, FinishWorker(k)
    PROVE  HInv'
<1>1. PICK r : r = job[k]
    OBVIOUS
<1>2. r.type = "worker" /\ r.pc = "account" /\ r.pc \notin Dormant /\ OpenRec(r)
    BY <1>1 DEF FinishWorker, Dormant, Closed, OpenRec
<1>3. sources' = sources /\ holdings' = holdings /\ status' = status /\ mishap' = mishap
    BY DEF FinishWorker
<1>4. PICK q : q = [Fresh(k) EXCEPT !.pc = "done", !.tries = r.tries]
    OBVIOUS
<1>5. Become(k, q)
    BY <1>1, <1>4 DEF FinishWorker
<1>6. Renewed(q, r, "done")
    BY <1>1, <1>4, RenewedIs
<1>7. /\ Placed(r, sources, status[k]) /\ sources \in Seq(Source)
      /\ \A p \in Pairs : Good(r, sources, p, holdings[p], mishap[p], status[k])
    BY <1>1, Parts
<1>8. Placed(q, sources, status[k])
    BY <1>2, <1>6, <1>7, RenewedPlaced
<1>9. \A p \in Pairs : Good(q, sources, p, holdings[p], mishap[p], status[k])
    BY <1>6, <1>7, RenewedGood
<1>10. Mild(k)
    BY <1>3, MildAsIs
<1>11. QED
    BY <1>1, <1>2, <1>3, <1>5, <1>8, <1>9, <1>10, WorkerGoesOn

----------------------------------------------------------------------------
(* A worker without a manifest; an account is marked.                       *)

LEMMA ManifestUnreadableStep ==
    ASSUME HInv, NEW k \in Jobs, ManifestUnreadable(k)
    PROVE  HInv'
<1>1. PICK r : r = job[k]
    OBVIOUS
<1>2. r.type = "worker" /\ r.pc = "queued" /\ r.pc \notin Dormant /\ OpenRec(r)
    BY <1>1 DEF ManifestUnreadable, Dormant, Closed, OpenRec
<1>3. sources' = sources /\ holdings' = holdings /\ status' = status
    BY DEF ManifestUnreadable
<1>4. PICK q : q = [r EXCEPT !.pc = "done"]
    OBVIOUS
<1>5. Become(k, q) /\ Blame(Manifest(k), "lost")
    BY <1>1, <1>4 DEF ManifestUnreadable
<1>6. /\ Placed(r, sources, status[k]) /\ sources \in Seq(Source) /\ Shaped(r, sources) /\ IsJob(r)
      /\ \A p \in Pairs : Good(r, sources, p, holdings[p], mishap[p], status[k])
    BY <1>1, Parts
<1>7. SameJob(q, r) /\ q.type = "worker" /\ q.pc = "done" /\ q.left = r.left /\ q.wrote = r.wrote
      /\ q.errs = r.errs /\ q.acct = r.acct
    <2>1. PICK A : r \in [Fields -> A]
        BY <1>6 DEF IsJob
    <2>2. PICK B : B = A \union {"done"}
        OBVIOUS
    <2>3. q \in [Fields -> B]
        BY <1>4, <2>1, <2>2 DEF Fields
    <2>4. /\ q.type = r.type /\ q.floor = r.floor /\ q.first = r.first /\ q.last = r.last
          /\ q.left = r.left /\ q.acct = r.acct /\ q.wrote = r.wrote /\ q.errs = r.errs /\ q.pc = "done"
        BY <1>4, <2>1 DEF Fields
    <2>5. QED
        BY <1>2, <2>3, <2>4 DEF SameJob, IsJob
<1>8. MineOf(q, sources) = MineOf(r, sources)
    BY <1>7, SameJobFacts
<1>9. Shaped(q, sources)
    BY <1>2, <1>6, <1>7, <1>8 DEF Shaped, SameJob, WorkerPcs, Dormant, Closed
<1>10. WorkerPlaced(r, sources, status[k])
    BY <1>2, <1>6 DEF Placed
<1>11. WorkerPlaced(q, sources, status[k])
    BY <1>2, <1>7, <1>8, <1>10 DEF WorkerPlaced, SameJob, InHand, Dormant
<1>12. Placed(q, sources, status[k])
    BY <1>7, <1>9, <1>11 DEF Placed
<1>13. Mild(k)
    BY <1>3, <1>5, MildBlame DEF Mishaps
<1>14. ASSUME NEW p \in Pairs
       PROVE  Good(q, sources, p, holdings[p], mishap'[p], status[k])
    <2>1. Good(r, sources, p, holdings[p], mishap'[p], status[k])
        BY <1>6, <1>13, GoodExcused DEF Mild
    <2>2. ~OpenRec(q)
        BY <1>7 DEF OpenRec, Closed
    <2>3. Fair(mishap'[p]) => Earned(q, sources, p, holdings[p], status[k])
        BY <1>7, <2>1, SameJobFacts DEF Good
    <2>4. QED
        BY <2>2, <2>3, GoodOther
<1>15. QED
    BY <1>1, <1>2, <1>3, <1>5, <1>12, <1>13, <1>14, WorkerGoesOn

LEMMA MarkAccountStep ==
    ASSUME HInv, NEW k \in Jobs, MarkAccount(k)
    PROVE  HInv'
<1>1. PICK r : r = job[k]
    OBVIOUS
<1>2. r.type = "worker" /\ r.pc = "mark" /\ r.pc \notin Dormant /\ r.pc \in InHand /\ OpenRec(r)
    BY <1>1 DEF MarkAccount, Dormant, Closed, OpenRec, InHand
<1>3. sources' = sources /\ holdings' = holdings /\ mishap' = mishap
    BY DEF MarkAccount
<1>4. PICK q : q = [r EXCEPT !.pc = "account"]
    OBVIOUS
<1>5. Become(k, q)
    BY <1>1, <1>4 DEF MarkAccount
<1>6. /\ Placed(r, sources, status[k]) /\ sources \in Seq(Source) /\ Shaped(r, sources) /\ IsJob(r)
      /\ \A p \in Pairs : Good(r, sources, p, holdings[p], mishap[p], status[k])
    BY <1>1, Parts
<1>7. WorkerPlaced(r, sources, status[k])
    BY <1>2, <1>6 DEF Placed
<1>8. SameJob(q, r) /\ q.type = "worker" /\ q.pc = "account" /\ q.left = r.left /\ q.wrote = r.wrote
      /\ q.errs = r.errs /\ q.acct = r.acct
    <2>1. PICK A : r \in [Fields -> A]
        BY <1>6 DEF IsJob
    <2>2. PICK B : B = A \union {"account"}
        OBVIOUS
    <2>3. q \in [Fields -> B]
        BY <1>4, <2>1, <2>2 DEF Fields
    <2>4. /\ q.type = r.type /\ q.floor = r.floor /\ q.first = r.first /\ q.last = r.last
          /\ q.left = r.left /\ q.acct = r.acct /\ q.wrote = r.wrote /\ q.errs = r.errs /\ q.pc = "account"
        BY <1>4, <2>1 DEF Fields
    <2>5. QED
        BY <1>2, <2>3, <2>4 DEF SameJob, IsJob
<1>9. PICK a : a = r.acct
    OBVIOUS
<1>10. PICK st : st = status'[k]
    OBVIOUS
<1>11. a \in Accounts /\ status \in [Jobs -> [Accounts -> Marks]]
    BY <1>2, <1>6, <1>7, <1>9 DEF HInv, Static, Shaped, WorkerPlaced
<1>12. /\ st \in [Accounts -> Marks] /\ (st[a] = "SUCCESS" => r.errs = 0 \/ status[k][a] = "SUCCESS")
       /\ \A b \in Accounts : b # a => st[b] = status[k][b]
       /\ status' \in [Jobs -> [Accounts -> Marks]] /\ \A j \in Jobs \ {k} : status'[j] = status[j]
    <2>0. PICK m : m = IF r.errs > 0 THEN "FAILED" ELSE "SUCCESS"
        OBVIOUS
    <2>1. PICK n : n = IF status[k][a] = "none" THEN status[k][a] ELSE m
        OBVIOUS
    <2>2. n \in Marks /\ (n = "SUCCESS" => r.errs = 0)
        <3>1. r.errs \in Nat /\ status[k][a] \in Marks
            BY <1>6, <1>11 DEF Shaped
        <3>2. m \in Marks /\ (m = "SUCCESS" => r.errs = 0)
            BY <2>0, <3>1 DEF Marks
        <3>3. QED
            BY <2>1, <3>1, <3>2
    <2>3. status' = [status EXCEPT ![k][a] = n] \/ status' = status
        <3>1. status' = [status EXCEPT ![k][a] = IF @ = "none" THEN @ ELSE m] \/ status' = status
            BY <1>1, <1>9, <2>0, Zenon DEF MarkAccount
        <3>2. [status EXCEPT ![k][a] = IF @ = "none" THEN @ ELSE m] = [status EXCEPT ![k][a] = n]
            BY <1>11, <2>1
        <3>3. QED
            BY <3>1, <3>2
    <2>4. CASE status' = [status EXCEPT ![k][a] = n]
        BY <1>10, <1>11, <2>2, <2>4
    <2>5. CASE status' = status
        BY <1>10, <1>11, <2>5
    <2>6. QED
        BY <2>3, <2>4, <2>5
<1>13. MineOf(q, sources) = MineOf(r, sources)
    BY <1>8, SameJobFacts
<1>14. AtHandOf(r) = {} /\ \A p \in r.left : AcctOf[p] # a
    <2>1. AtHandOf(r) = {}
        BY <1>2, <1>7 DEF WorkerPlaced
    <2>2. QED
        BY <1>2, <1>9, <2>1 DEF AtHandOf
<1>15. Shaped(q, sources)
    BY <1>2, <1>6, <1>8, <1>13 DEF Shaped, SameJob, WorkerPcs, Dormant, Closed
<1>16. WorkerPlaced(q, sources, st)
    <2>1. q.floor < q.first /\ \A i \in q.first .. q.last : sources[i].kind \in TxnKinds
        BY <1>2, <1>7, <1>8 DEF WorkerPlaced, SameJob
    <2>2. \A x, y \in MineOf(q, sources) :
             AcctOf[x] = AcctOf[y] /\ (q.pc \in InHand => AcctOf[x] # q.acct) /\ x \in q.left => y \in q.left
        BY <1>2, <1>7, <1>8, <1>9, <1>13, <1>14 DEF WorkerPlaced
    <2>3. QED
        BY <1>8, <2>1, <2>2 DEF WorkerPlaced, Dormant, InHand
<1>17. Placed(q, sources, status'[k])
    BY <1>8, <1>10, <1>15, <1>16 DEF Placed
<1>18. ASSUME NEW p \in Pairs
       PROVE  Good(q, sources, p, holdings[p], mishap'[p], status'[k])
    <2>1. Good(r, sources, p, holdings[p], mishap[p], status[k])
        BY <1>6
    <2>2. AcctOf[p] \in Accounts
        BY Constants
    <2>3. OpenRec(q)
        BY <1>8 DEF OpenRec, Dormant, Closed
    <2>4. "overlap" \notin mishap[p] => Solo(q, sources, p)
        BY <1>2, <1>8, <2>1, <2>3, SameJobFacts DEF Good, Solo, SameJob
    <2>5. Clean(mishap[p]) => Unwritten(q, sources, p, holdings[p], st)
        <3>1. SUFFICES ASSUME Clean(mishap[p])
                       PROVE  Unwritten(q, sources, p, holdings[p], st)
            OBVIOUS
        <3>2. p \notin MineOf(r, sources) => NewOf(r, sources, p) = {}
            <4>1. Solo(r, sources, p)
                BY <2>1, <3>1 DEF Good, Clean
            <4>2. QED
                BY <1>2, <1>6, <4>1, Stranger
        <3>3. Unwritten(r, sources, p, holdings[p], status[k])
            BY <2>1, <3>1 DEF Good
        <3>4. /\ status[k][AcctOf[p]] # "SUCCESS" /\ p \notin r.wrote =>
                       \A i \in NewOf(r, sources, p) : ~HasRow(holdings[p], i)
              /\ ~(p \in r.left /\ p \in r.wrote)
              /\ AcctOf[p] = a /\ p \in MineOf(r, sources) => status[k][AcctOf[p]] # "SUCCESS"
            BY <1>2, <1>9, <3>3 DEF Unwritten
        <3>5. NewOf(q, sources, p) = NewOf(r, sources, p)
            BY <1>8, SameJobFacts
        <3>6. st[AcctOf[p]] # "SUCCESS" /\ p \notin r.wrote => \A i \in NewOf(r, sources, p) : ~HasRow(holdings[p], i)
            <4>1. CASE p \notin MineOf(r, sources)
                BY <3>2, <4>1
            <4>2. CASE p \in MineOf(r, sources) /\ AcctOf[p] = a
                BY <3>4, <4>2
            <4>3. CASE AcctOf[p] # a
                BY <1>12, <2>2, <3>4, <4>3
            <4>4. QED
                BY <4>1, <4>2, <4>3
        <3>7. q.pc \notin InHand
            BY <1>8 DEF InHand
        <3>8. QED
            BY <1>8, <3>4, <3>5, <3>6, <3>7 DEF Unwritten
    <2>6. Fair(mishap[p]) => Earned(q, sources, p, holdings[p], st)
        <3>1. SUFFICES ASSUME Fair(mishap[p])
                       PROVE  Earned(r, sources, p, holdings[p], st)
            BY <1>8, SameJobFacts
        <3>2. CASE AcctOf[p] = a
            <4>1. p \notin r.left
                BY <1>14, <3>2
            <4>2. Brought(r, sources, p, holdings[p])
                BY <2>1, <3>1 DEF Good
            <4>3. r.errs = 0 => Whole(r, sources, p, holdings[p])
                BY <1>2, <1>9, <3>2, <4>1, <4>2 DEF Brought
            <4>4. status[k][a] = "SUCCESS" => Whole(r, sources, p, holdings[p])
                BY <1>2, <2>1, <3>1, <3>2 DEF Good, Earned
            <4>5. QED
                BY <1>12, <3>2, <4>3, <4>4 DEF Earned
        <3>3. CASE AcctOf[p] # a
            <4>1. st[AcctOf[p]] = status[k][AcctOf[p]]
                BY <1>12, <2>2, <3>3
            <4>2. QED
                BY <2>1, <3>1, <4>1 DEF Good, Earned
        <3>4. QED
            BY <3>2, <3>3
    <2>7. Brought(q, sources, p, holdings[p])
        BY <1>8 DEF Brought, InHand
    <2>8. QED
        BY <1>3, <1>8, <1>10, <2>4, <2>5, <2>6, <2>7, WorkerGood
<1>19. Mild(k)
    <2>1. mishap \in [Pairs -> SUBSET Mishaps]
        BY DEF HInv, Static
    <2>2. QED
        BY <1>3, <1>12, <2>1 DEF Mild
<1>20. QED
    BY <1>1, <1>2, <1>5, <1>17, <1>18, <1>19, WorkerGoesOn

----------------------------------------------------------------------------
(* Steps that write the rows of one pair.                                   *)

(* A step of an open job at pair h, which may write its rows.               *)
Touch(k, h) ==
    /\ sources' = sources /\ status' = status
    /\ \E H : holdings' \in [Pairs -> H]
    /\ \E J : job' \in [Jobs -> J]
    /\ mishap' \in [Pairs -> SUBSET Mishaps]
    /\ \A j \in Jobs \ {k} : job'[j] = job[j]
    /\ \A p \in Pairs \ {h} : holdings'[p] = holdings[p] /\ mishap'[p] = mishap[p]
    /\ OpenRec(job[k])

Kept(k, h) ==
    /\ RowsOf(holdings'[h], sources, h)
    /\ Placed(job'[k], sources, status[k])
    /\ "overlap" \notin mishap'[h] => \A j \in Jobs \ {k} : ~OpenRec(job[j])
    /\ Clean(mishap'[h]) => Single(holdings'[h])
    /\ \A p \in Pairs : Good(job'[k], sources, p, holdings'[p], mishap'[p], status[k])
    /\ \A j \in Jobs \ {k} : Fair(mishap'[h]) => Earned(job[j], sources, h, holdings'[h], status[j])
    /\ \A p \in Pairs : "unrebuilt" \in mishap'[p] /\ ~Gone(sources, p) => \E j \in Jobs : Owes(job'[j], sources, p)

LEMMA TableStep ==
    ASSUME HInv, NEW k \in Jobs, NEW h \in Pairs, Touch(k, h), Kept(k, h)
    PROVE  HInv'
<1>1. Static'
    <2>1. sources' \in Seq(Source) /\ status' \in [Jobs -> [Accounts -> Marks]]
        BY DEF HInv, Static, Touch
    <2>2. ASSUME NEW p \in Pairs PROVE RowsOf(holdings'[p], sources', p)
        <3>1. CASE p = h
            BY <3>1 DEF Kept, Touch
        <3>2. CASE p # h
            BY <3>2 DEF HInv, Static, Touch
        <3>3. QED
            BY <3>1, <3>2
    <2>3. ASSUME NEW j \in Jobs PROVE Placed(job'[j], sources', status'[j])
        <3>1. CASE j = k
            BY <3>1 DEF Kept, Touch
        <3>2. CASE j # k
            BY <3>2, Parts DEF Touch
        <3>3. QED
            BY <3>1, <3>2
    <2>4. QED
        BY <2>1, <2>2, <2>3 DEF Static, Touch
<1>2. ASSUME NEW p \in Pairs
      PROVE  /\ Alone(p)' /\ (Clean(mishap'[p]) => Single(holdings'[p])) /\ Owed(p)'
             /\ \A j \in Jobs : Good(job'[j], sources', p, holdings'[p], mishap'[p], status'[j])
    <2>1. \A j \in Jobs : OpenRec(job'[j]) => OpenRec(job[j])
        BY DEF Touch
    <2>2. Alone(p)'
        <3>1. CASE p = h
            BY <2>1, <3>1 DEF Kept, Alone
        <3>2. CASE p # h
            BY <2>1, <3>2 DEF HInv, Alone, Touch
        <3>3. QED
            BY <3>1, <3>2
    <2>3. Clean(mishap'[p]) => Single(holdings'[p])
        <3>1. CASE p = h
            BY <3>1 DEF Kept
        <3>2. CASE p # h
            BY <3>2 DEF HInv, Touch
        <3>3. QED
            BY <3>1, <3>2
    <2>4. Owed(p)'
        BY DEF Owed, Kept, Touch
    <2>5. ASSUME NEW j \in Jobs PROVE Good(job'[j], sources', p, holdings'[p], mishap'[p], status'[j])
        <3>1. CASE j = k
            BY <3>1 DEF Kept, Touch
        <3>2. CASE j # k /\ p # h
            BY <3>2, Parts DEF Touch
        <3>3. CASE j # k /\ p = h
            <4>1. OpenRec(job[j]) => "overlap" \in mishap'[h]
                BY <3>3 DEF Kept
            <4>2. Fair(mishap'[h]) => Earned(job[j], sources, h, holdings'[h], status[j])
                BY <3>3 DEF Kept
            <4>3. Good(job[j], sources, h, holdings'[h], mishap'[h], status[j])
                BY <4>1, <4>2, GoodOther
            <4>4. QED
                BY <3>3, <4>3 DEF Touch
        <3>4. QED
            BY <3>1, <3>2, <3>3
    <2>6. QED
        BY <2>2, <2>3, <2>4, <2>5
<1>3. QED
    BY <1>1, <1>2 DEF HInv

----------------------------------------------------------------------------
(* One more row.                                                            *)
Grown(H, row, G) ==
    /\ IsList(G)
    /\ \A i : HasRow(G, i) <=> HasRow(H, i) \/ i = row.src
    /\ \A n \in DOMAIN G : G[n] = row \/ \E m \in DOMAIN H : G[n] = H[m]

LEMMA GrownIs ==
    ASSUME NEW H, IsList(H), NEW row, NEW G, G = Append(H, row)
    PROVE  Grown(H, row, G)
<1>1. Longer(H, row, G)
    BY AppendFacts
<1>2. IsList(G) /\ Len(G) \in DOMAIN G
    BY <1>1 DEF Longer
<1>3. ASSUME NEW i PROVE HasRow(G, i) <=> HasRow(H, i) \/ i = row.src
    <2>1. ASSUME HasRow(G, i) PROVE HasRow(H, i) \/ i = row.src
        <3>1. PICK n \in DOMAIN G : G[n].src = i
            BY <2>1 DEF HasRow
        <3>2. CASE n = Len(G)
            BY <1>1, <3>1, <3>2 DEF Longer
        <3>3. CASE n # Len(G)
            BY <1>1, <3>1, <3>3 DEF Longer, HasRow
        <3>4. QED
            BY <3>2, <3>3
    <2>2. ASSUME HasRow(H, i) PROVE HasRow(G, i)
        BY <1>1, <2>2 DEF Longer, HasRow
    <2>3. ASSUME i = row.src PROVE HasRow(G, i)
        BY <1>1, <1>2, <2>3 DEF Longer, HasRow
    <2>4. QED
        BY <2>1, <2>2, <2>3
<1>4. \A n \in DOMAIN G : G[n] = row \/ \E m \in DOMAIN H : G[n] = H[m]
    BY <1>1 DEF Longer
<1>5. QED
    BY <1>2, <1>3, <1>4 DEF Grown

LEMMA GrownRows ==
    ASSUME NEW H, NEW row, NEW G, Grown(H, row, G), NEW S, NEW p, RowsOf(H, S, p), OfPair(row, S, p)
    PROVE  RowsOf(G, S, p)
BY DEF Grown, RowsOf

LEMMA GrownSingle ==
    ASSUME NEW H, IsList(H), NEW row, NEW G, G = Append(H, row), Single(H), ~HasRow(H, row.src)
    PROVE  Single(G)
<1>1. Longer(H, row, G)
    BY AppendFacts
<1>2. \A n \in DOMAIN H : H[n].src # row.src
    BY DEF HasRow
<1>3. ASSUME NEW m \in DOMAIN G, NEW n \in DOMAIN G, m # n, G[m].src = G[n].src
      PROVE  G[m].type = "SPLIT"
    <2>1. m \in DOMAIN H /\ n \in DOMAIN H
        <3>1. m # Len(G)
            BY <1>1, <1>2, <1>3 DEF Longer
        <3>2. n # Len(G)
            BY <1>1, <1>2, <1>3 DEF Longer
        <3>3. QED
            BY <1>1, <3>1, <3>2 DEF Longer
    <2>2. G[m] = H[m] /\ G[n] = H[n]
        BY <1>1, <2>1 DEF Longer
    <2>3. QED
        BY <1>3, <2>1, <2>2 DEF Single
<1>4. QED
    BY <1>3 DEF Single

LEMMA WholeGrows ==
    ASSUME NEW H, NEW row, NEW G, Grown(H, row, G), NEW r, NEW S, NEW p
    PROVE  /\ Whole(r, S, p, H) => Whole(r, S, p, G)
           /\ \A st : Earned(r, S, p, H, st) => Earned(r, S, p, G, st)
BY DEF Grown, Whole, Earned

(* What a worker may say of a pair with more rows, once that is torn.       *)
LEMMA TornGood ==
    ASSUME NEW r, NEW S, NEW p, NEW H, NEW M, NEW st, Good(r, S, p, H, M, st), r.type = "worker",
           NEW N, M \subseteq N, ~Clean(N), NEW row, NEW G, Grown(H, row, G)
    PROVE  Good(r, S, p, G, N, st)
<1>1. Good(r, S, p, H, N, st)
    BY GoodExcused
<1>2. "overlap" \notin N => Solo(r, S, p)
    BY <1>1 DEF Good
<1>3. Fair(N) => Earned(r, S, p, G, st)
    BY <1>1, WholeGrows DEF Good
<1>4. Fair(N) => Brought(r, S, p, G)
    <2>1. SUFFICES ASSUME Brought(r, S, p, H) PROVE Brought(r, S, p, G)
        BY <1>1 DEF Good
    <2>2. Whole(r, S, p, H) => Whole(r, S, p, G)
        BY WholeGrows
    <2>3. \A i : HasRow(H, i) => HasRow(G, i)
        BY DEF Grown
    <2>4. QED
        BY <2>1, <2>2, <2>3 DEF Brought
<1>5. QED
    BY <1>2, <1>3, <1>4, WorkerGood

----------------------------------------------------------------------------
(* The transaction a worker appends next is one it has to append.           *)
LEMMA LeastByKey ==
    ASSUME NEW T, T \subseteq Nat, T # {}, NEW K \in [T -> Nat]
    PROVE  \E i \in T : \A j \in T \ {i} : K[i] < K[j] \/ (K[i] = K[j] /\ i < j)
<1>1. PICK V : V = {K[i] : i \in T}
    OBVIOUS
<1>2. V \subseteq Nat /\ V # {}
    BY <1>1
<1>3. PICK m \in V : \A v \in V : m <= v
    BY <1>2, LeastOf
<1>4. PICK U : U = {i \in T : K[i] = m}
    OBVIOUS
<1>5. U \subseteq Nat /\ U # {}
    BY <1>1, <1>3, <1>4
<1>6. PICK i \in U : \A u \in U : i <= u
    BY <1>5, LeastOf
<1>7. i \in T /\ K[i] = m /\ i \in Nat
    BY <1>4, <1>5, <1>6
<1>8. ASSUME NEW j \in T \ {i} PROVE K[i] < K[j] \/ (K[i] = K[j] /\ i < j)
    <2>1. m <= K[j] /\ m \in Nat /\ K[j] \in Nat /\ j \in Nat
        BY <1>1, <1>2, <1>3
    <2>2. CASE K[j] = m
        <3>1. i <= j
            BY <1>4, <1>6, <2>2
        <3>2. QED
            BY <1>7, <1>8, <2>1, <2>2, <3>1
    <2>3. CASE K[j] # m
        BY <1>7, <2>1, <2>3
    <2>4. QED
        BY <2>2, <2>3
<1>9. QED
    BY <1>7, <1>8

LEMMA NextTxnIs ==
    ASSUME sources \in Seq(Source), NEW k, NEW T, T = job[k].todo, T \subseteq DOMAIN sources, T # {}
    PROVE  NextTxn(k) \in T
<1>1. T \subseteq Nat /\ \A i \in T : sources[i].date \in Nat /\ sources[i].sort \in Nat
    BY SourceIs
<1>2. \E i \in T : \A j \in T \ {i} : BySetDate(i, j)
    <2>1. PICK K : K = [i \in T |-> sources[i].sort]
        OBVIOUS
    <2>2. K \in [T -> Nat]
        BY <1>1, <2>1
    <2>3. PICK i \in T : \A j \in T \ {i} : K[i] < K[j] \/ (K[i] = K[j] /\ i < j)
        BY <1>1, <2>2, LeastByKey
    <2>4. QED
        BY <2>1, <2>3 DEF BySetDate
<1>3. \E i \in T : \A j \in T \ {i} : ByDate(i, j)
    <2>1. PICK K : K = [i \in T |-> sources[i].date]
        OBVIOUS
    <2>2. K \in [T -> Nat]
        BY <1>1, <2>1
    <2>3. PICK i \in T : \A j \in T \ {i} : K[i] < K[j] \/ (K[i] = K[j] /\ i < j)
        BY <1>1, <2>2, LeastByKey
    <2>4. QED
        BY <2>1, <2>3 DEF ByDate
<1>4. \E i \in T : \A j \in T \ {i} : IF job[k].cheap THEN BySetDate(i, j) ELSE ByDate(i, j)
    BY <1>2, <1>3
<1>5. NextTxn(k) = CHOOSE i \in T : \A j \in T \ {i} : IF job[k].cheap THEN BySetDate(i, j) ELSE ByDate(i, j)
    BY DEF NextTxn
<1>6. QED
    BY <1>4, <1>5

----------------------------------------------------------------------------
(* A worker at an insert.                                                   *)

(* What an INSERT of a worker adds.                                         *)
LEMMA AtInsert ==
    ASSUME HInv, NEW k \in Jobs, NEW r, r = job[k], r.type = "worker", r.pc = "insert"
    PROVE  /\ Here(k) = HereOf(r) /\ HereOf(r) \in Pairs
           /\ NextTxn(k) \in r.todo /\ r.todo \subseteq r.new /\ r.new \subseteq NewOf(r, sources, HereOf(r))
           /\ NextRow(k).src = NextTxn(k) /\ OfPair(NextRow(k), sources, HereOf(r))
           /\ IsList(holdings[HereOf(r)]) /\ RowsOf(holdings[HereOf(r)], sources, HereOf(r))
           /\ \A j \in Jobs : OpenRec(job[j]) /\ j # k => "overlap" \in mishap[HereOf(r)]
           /\ \A j \in Jobs : Fair(mishap[HereOf(r)]) => Earned(job[j], sources, HereOf(r), holdings[HereOf(r)], status[j])
           /\ \E H : holdings \in [Pairs -> H]
           /\ \A p \in Pairs : ~Owes(r, sources, p)
<1>0. r.pc \in Busy
    BY DEF Busy
<1>1. /\ WorkerPlaced(r, sources, status[k]) /\ OpenRec(r) /\ sources \in Seq(Source)
      /\ Here(k) = HereOf(r) /\ HereOf(r) \in Pairs
    BY <1>0, AtWork
<1>2. r.todo \subseteq r.new /\ r.todo # {} /\ r.new \subseteq NewOf(r, sources, HereOf(r))
    BY <1>1 DEF WorkerPlaced
<1>3. r.todo \subseteq DOMAIN sources
    BY <1>2 DEF NewOf
<1>4. NextTxn(k) \in r.todo
    BY <1>1, <1>2, <1>3, NextTxnIs
<1>5. NextRow(k).src = NextTxn(k) /\ NextRow(k).type = sources[NextTxn(k)].kind
    BY RowIs DEF NextRow
<1>6. OfPair(NextRow(k), sources, HereOf(r))
    BY <1>2, <1>4, <1>5 DEF OfPair, NewOf
<1>7. RowsOf(holdings[HereOf(r)], sources, HereOf(r)) /\ \E H : holdings \in [Pairs -> H]
    BY <1>1 DEF HInv, Static
<1>8. IsList(holdings[HereOf(r)])
    BY <1>7 DEF RowsOf
<1>9. \A j \in Jobs : OpenRec(job[j]) /\ j # k => "overlap" \in mishap[HereOf(r)]
    BY <1>1 DEF HInv, Alone
<1>10. ASSUME NEW j \in Jobs, Fair(mishap[HereOf(r)])
       PROVE  Earned(job[j], sources, HereOf(r), holdings[HereOf(r)], status[j])
    BY <1>1, <1>10, Parts DEF Good
<1>11. \A p \in Pairs : ~Owes(r, sources, p)
    BY DEF Owes
<1>12. QED
    BY <1>1, <1>2, <1>4, <1>5, <1>6, <1>7, <1>8, <1>9, <1>10, <1>11

(* A worker may leave its pair with a row more than it found.               *)
Leaves(k, h) ==
    /\ sources' = sources /\ status' = status
    /\ \E H : holdings' \in [Pairs -> H]
    /\ \A p \in Pairs \ {h} : holdings'[p] = holdings[p] /\ mishap'[p] = mishap[p]
    /\ holdings'[h] = holdings[h] \/ holdings'[h] = Append(holdings[h], NextRow(k))
    /\ mishap' \in [Pairs -> SUBSET Mishaps] /\ mishap[h] \subseteq mishap'[h]
    /\ "unrebuilt" \in mishap'[h] => "unrebuilt" \in mishap[h]
    /\ Clean(mishap'[h]) => Single(holdings'[h])

LEMMA InsertDone ==
    ASSUME HInv, NEW k \in Jobs, NEW r, r = job[k], r.type = "worker", r.pc = "insert",
           NEW q, Become(k, q), Placed(q, sources, status[k]),
           NEW h, h = HereOf(r), Leaves(k, h),
           \A p \in Pairs : Good(q, sources, p, holdings'[p], mishap'[p], status[k])
    PROVE  HInv'
<1>1. /\ h \in Pairs /\ NextRow(k).src = NextTxn(k) /\ OfPair(NextRow(k), sources, h)
      /\ IsList(holdings[h]) /\ RowsOf(holdings[h], sources, h)
      /\ \A j \in Jobs : OpenRec(job[j]) /\ j # k => "overlap" \in mishap[h]
      /\ \A j \in Jobs : Fair(mishap[h]) => Earned(job[j], sources, h, holdings[h], status[j])
      /\ \A p \in Pairs : ~Owes(r, sources, p)
    BY AtInsert
<1>2. /\ sources' = sources /\ status' = status
      /\ \E H : holdings' \in [Pairs -> H]
      /\ \A p \in Pairs \ {h} : holdings'[p] = holdings[p] /\ mishap'[p] = mishap[p]
      /\ holdings'[h] = holdings[h] \/ holdings'[h] = Append(holdings[h], NextRow(k))
    BY DEF Leaves
<1>3. /\ mishap' \in [Pairs -> SUBSET Mishaps] /\ mishap[h] \subseteq mishap'[h]
      /\ "unrebuilt" \in mishap'[h] => "unrebuilt" \in mishap[h]
      /\ Clean(mishap'[h]) => Single(holdings'[h])
    BY DEF Leaves
<1>4. /\ \E J : job' \in [Jobs -> J]
      /\ job'[k] = q /\ \A j \in Jobs \ {k} : job'[j] = job[j]
    BY Becomes, Parts
<1>5. OpenRec(r)
    BY DEF OpenRec, Dormant, Closed
<1>6. Touch(k, h)
    BY <1>1, <1>2, <1>3, <1>4, <1>5 DEF Touch
<1>7. PICK H : H = holdings[h]
    OBVIOUS
<1>8. PICK G : G = holdings'[h]
    OBVIOUS
<1>9. PICK row : row = NextRow(k)
    OBVIOUS
<1>10. G = H \/ Grown(H, row, G)
    BY <1>1, <1>2, <1>7, <1>8, <1>9, GrownIs
<1>11. RowsOf(G, sources, h)
    <2>1. CASE G = H
        BY <1>1, <1>7, <2>1
    <2>2. CASE Grown(H, row, G)
        BY <1>1, <1>7, <1>9, <2>2, GrownRows
    <2>3. QED
        BY <1>10, <2>1, <2>2
<1>12. ASSUME NEW j \in Jobs, Fair(mishap'[h]) PROVE Earned(job[j], sources, h, G, status[j])
    <2>1. Fair(mishap[h])
        BY <1>3, <1>12 DEF Fair
    <2>2. Earned(job[j], sources, h, H, status[j])
        BY <1>1, <1>7, <2>1
    <2>3. QED
        BY <1>10, <2>2, WholeGrows
<1>13. ASSUME NEW p \in Pairs, "unrebuilt" \in mishap'[p], ~Gone(sources, p)
       PROVE  \E j \in Jobs : Owes(job'[j], sources, p)
    <2>1. "unrebuilt" \in mishap[p]
        BY <1>2, <1>3, <1>13
    <2>2. PICK j \in Jobs : Owes(job[j], sources, p)
        BY <1>13, <2>1 DEF HInv, Owed
    <2>3. j # k
        BY <1>1, <2>2
    <2>4. QED
        BY <1>4, <2>2, <2>3
<1>14. "overlap" \notin mishap'[h] => \A j \in Jobs \ {k} : ~OpenRec(job[j])
    BY <1>1, <1>3
<1>15. Kept(k, h)
    BY <1>3, <1>4, <1>8, <1>11, <1>12, <1>13, <1>14 DEF Kept
<1>16. QED
    BY <1>1, <1>6, <1>15, TableStep

(* The row of one transaction, with more of the pair to follow.             *)
LEMMA MoreToDo ==
    ASSUME NEW S \in Seq(Source), NEW r, NEW st, Placed(r, S, st), r.type = "worker", r.pc = "insert",
           NEW i \in r.todo, NEW q, SameJob(q, r), q.left = r.left, q.acct = r.acct, q.errs = r.errs,
           q.pc = "insert", q.new = r.new, q.todo = r.todo \ {i}, q.todo # {}, q.wrote = r.wrote \union {HereOf(r)}
    PROVE  /\ Placed(q, S, st)
           /\ \A p \in Pairs : \A H, M, G, row :
                 /\ Good(r, S, p, H, M, st) /\ row.src = i
                 /\ p # HereOf(r) => G = H
                 /\ p = HereOf(r) => Grown(H, row, G)
                 => Good(q, S, p, G, M, st)
<1>0. r.pc \in Busy /\ r.pc \in InHand /\ r.pc \notin Dormant /\ OpenRec(r) /\ OpenRec(q) /\ q.pc \notin Dormant
    BY DEF Busy, InHand, Dormant, OpenRec, Closed
<1>1. Shaped(r, S) /\ WorkerPlaced(r, S, st)
    BY DEF Placed
<1>2. MineOf(q, S) = MineOf(r, S)
    BY SameJobFacts
<1>3. \A p : NewOf(q, S, p) = NewOf(r, S, p)
    BY DEF NewOf, SameJob
<1>4. AtHandOf(q) = AtHandOf(r)
    BY DEF AtHandOf
<1>5. HereOf(q) = HereOf(r)
    BY <1>4, SameHere
<1>6. AtHandOf(r) # {}
    BY <1>1 DEF WorkerPlaced
<1>7. HereOf(r) \in AtHandOf(r) /\ HereOf(r) \in MineOf(r, S) /\ HereOf(r) \in r.left
    BY <1>1, <1>6, HereIn
<1>8. AcctOf[HereOf(r)] = r.acct
    BY <1>7 DEF AtHandOf
<1>9. Shaped(q, S)
    BY <1>1, <1>2, <1>7 DEF Shaped, SameJob, WorkerPcs, Dormant, Closed
<1>10. q.floor < q.first /\ \A n \in q.first .. q.last : S[n].kind \in TxnKinds
    BY <1>0, <1>1 DEF WorkerPlaced, SameJob
<1>11. \A x, y \in MineOf(q, S) :
          AcctOf[x] = AcctOf[y] /\ (q.pc \in InHand => AcctOf[x] # q.acct) /\ x \in q.left => y \in q.left
    BY <1>0, <1>1, <1>2 DEF WorkerPlaced
<1>12. r.new \subseteq NewOf(r, S, HereOf(r)) /\ r.new # {} /\ r.todo \subseteq r.new
    BY <1>1 DEF WorkerPlaced
<1>13. WorkerPlaced(q, S, st)
    BY <1>0, <1>3, <1>4, <1>5, <1>6, <1>10, <1>11, <1>12 DEF WorkerPlaced
<1>14. q.type = "worker"
    BY DEF SameJob
<1>15. Placed(q, S, st)
    BY <1>9, <1>13, <1>14 DEF Placed
<1>16. ASSUME NEW p \in Pairs, NEW H, NEW M, NEW G, NEW row, Good(r, S, p, H, M, st), row.src = i,
              p # HereOf(r) => G = H, p = HereOf(r) => Grown(H, row, G)
       PROVE  Good(q, S, p, G, M, st)
    <2>1. "overlap" \notin M => Solo(q, S, p)
        BY <1>0, <1>3, <1>5, <1>14, <1>16 DEF Good, Solo, SameJob
    <2>2. Clean(M) => Unwritten(q, S, p, G, st)
        <3>1. SUFFICES ASSUME Unwritten(r, S, p, H, st) PROVE Unwritten(q, S, p, G, st)
            BY <1>16 DEF Good
        <3>2. st[AcctOf[p]] # "SUCCESS" /\ p \notin q.wrote => \A n \in NewOf(q, S, p) : ~HasRow(G, n)
            <4>1. p \notin q.wrote => p # HereOf(r) /\ p \notin r.wrote
                OBVIOUS
            <4>2. QED
                BY <1>0, <1>3, <1>16, <3>1, <4>1 DEF Unwritten
        <3>3. p \in q.left /\ p \in q.wrote => p = HereOf(q) /\ q.pc = "insert"
            BY <1>0, <1>5, <3>1 DEF Unwritten
        <3>4. ASSUME p = HereOf(q), NEW n \in q.todo PROVE ~HasRow(G, n)
            <4>1. ~HasRow(H, n) /\ n # i
                BY <1>0, <1>5, <3>1, <3>4 DEF Unwritten
            <4>2. QED
                BY <1>5, <1>16, <3>4, <4>1 DEF Grown
        <3>5. q.todo # q.new
            BY <1>12
        <3>6. AcctOf[p] = q.acct /\ p \in MineOf(q, S) => st[AcctOf[p]] # "SUCCESS"
            BY <1>0, <1>2, <3>1 DEF Unwritten
        <3>7. QED
            BY <1>14, <3>2, <3>3, <3>4, <3>5, <3>6 DEF Unwritten
    <2>3. Whole(r, S, p, H) => Whole(q, S, p, G)
        <3>1. Whole(r, S, p, H) => Whole(r, S, p, G)
            BY <1>16, WholeGrows
        <3>2. QED
            BY <3>1 DEF Whole, SameJob
    <2>4. Fair(M) => Earned(q, S, p, G, st)
        BY <1>14, <1>16, <2>3 DEF Good, Earned
    <2>5. Fair(M) => Brought(q, S, p, G)
        <3>1. SUFFICES ASSUME Brought(r, S, p, H) PROVE Brought(q, S, p, G)
            BY <1>16 DEF Good
        <3>2. SUFFICES ASSUME q.errs = 0, AcctOf[p] = q.acct
                       PROVE  /\ p \notin q.left => Whole(q, S, p, G)
                              /\ p = HereOf(q) => q.new = NewOf(q, S, p)
                              /\ p = HereOf(q) => \A n \in NewOf(q, S, p) : S[n].kind # "MISC" => HasRow(G, n) \/ n \in q.todo
            BY DEF Brought
        <3>3. p \notin q.left => Whole(q, S, p, G)
            BY <1>0, <2>3, <3>1, <3>2 DEF Brought
        <3>4. ASSUME p = HereOf(q), NEW n \in NewOf(q, S, p), S[n].kind # "MISC" PROVE HasRow(G, n) \/ n \in q.todo
            <4>1. HasRow(H, n) \/ n \in r.todo
                BY <1>0, <1>3, <1>5, <3>1, <3>2, <3>4 DEF Brought
            <4>2. QED
                BY <1>5, <1>16, <3>4, <4>1 DEF Grown
        <3>5. p = HereOf(q) => q.new = NewOf(q, S, p)
            BY <1>0, <1>3, <1>5, <3>1, <3>2 DEF Brought
        <3>6. QED
            BY <3>3, <3>4, <3>5
    <2>6. QED
        BY <1>14, <2>1, <2>2, <2>4, <2>5, WorkerGood
<1>17. QED
    BY <1>15, <1>16

----------------------------------------------------------------------------
(* A row is appended.                                                       *)

(* A table with one more row for a pair.                                    *)
LEMMA Inserted ==
    ASSUME \E H : holdings \in [Pairs -> H], NEW h \in Pairs, NEW row, Insert(h, row)
    PROVE  /\ \E H : holdings' \in [Pairs -> H]
           /\ holdings'[h] = Append(holdings[h], row)
           /\ \A p \in Pairs \ {h} : holdings'[p] = holdings[p]
<1>1. PICK T : holdings \in [Pairs -> T]
    OBVIOUS
<1>2. PICK G : G = Append(holdings[h], row)
    OBVIOUS
<1>3. holdings' = [holdings EXCEPT ![h] = G]
    BY <1>2 DEF Insert
<1>4. PICK U : U = T \union {G}
    OBVIOUS
<1>5. holdings' \in [Pairs -> U]
    BY <1>1, <1>3, <1>4
<1>6. QED
    BY <1>1, <1>2, <1>3, <1>5

LEMMA AppendRowStep ==
    ASSUME HInv, NEW k \in Jobs, AppendRow(k)
    PROVE  HInv'
<1>1. PICK r : r = job[k]
    OBVIOUS
<1>2. r.type = "worker" /\ r.pc = "insert" /\ r.pc \in Busy
    BY <1>1 DEF AppendRow, Busy
<1>3. PICK h : h = HereOf(r)
    OBVIOUS
<1>4. PICK i : i = NextTxn(k)
    OBVIOUS
<1>5. PICK row : row = NextRow(k)
    OBVIOUS
<1>6. /\ Here(k) = h /\ h \in Pairs /\ i \in r.todo /\ r.todo \subseteq r.new /\ r.new \subseteq NewOf(r, sources, h)
      /\ row.src = i /\ OfPair(row, sources, h) /\ IsList(holdings[h])
      /\ \E H : holdings \in [Pairs -> H]
    BY <1>1, <1>2, <1>3, <1>4, <1>5, AtInsert
<1>7. /\ Placed(r, sources, status[k]) /\ IsJob(r) /\ sources \in Seq(Source) /\ OpenRec(r) /\ r.errs \in Nat
      /\ \A p \in Pairs : Good(r, sources, p, holdings[p], mishap[p], status[k])
    BY <1>1, <1>2, AtWork
<1>8. sources' = sources /\ status' = status /\ mishap' = mishap /\ Insert(h, row)
    BY <1>5, <1>6 DEF AppendRow
<1>9. /\ \E H : holdings' \in [Pairs -> H]
      /\ holdings'[h] = Append(holdings[h], row)
      /\ \A p \in Pairs \ {h} : holdings'[p] = holdings[p]
    BY <1>6, <1>8, Inserted
<1>10. PICK todo : todo = r.todo \ {i}
    OBVIOUS
<1>11. PICK wrote : wrote = r.wrote \union {h}
    OBVIOUS
<1>12. PICK queue, hold, value : queue = Appended(k).queue /\ hold = Appended(k).hold /\ value = Appended(k).value
    OBVIOUS
<1>13. PICK x : x = [r EXCEPT !.todo = todo, !.wrote = wrote, !.queue = queue, !.hold = hold, !.value = value]
    OBVIOUS
<1>14. Become(k, IF x.todo = {} THEN PairDone(k, x) ELSE x)
    <2>1. x = [job[k] EXCEPT !.todo = @ \ {NextTxn(k)}, !.wrote = @ \union {Here(k)},
                             !.queue = Appended(k).queue, !.hold = Appended(k).hold, !.value = Appended(k).value]
        <3>1. PICK A : r \in [Fields -> A]
            BY <1>7 DEF IsJob
        <3>2. r.todo \ {i} = todo /\ r.wrote \union {h} = wrote
            BY <1>10, <1>11
        <3>3. "todo" \in DOMAIN r /\ "wrote" \in DOMAIN r
            BY <3>1 DEF Fields
        <3>4. PICK y : y = [r EXCEPT !.todo = @ \ {i}, !.wrote = @ \union {h}]
            OBVIOUS
        <3>5. y = [r EXCEPT !.todo = todo, !.wrote = wrote]
            BY <3>1, <3>2, <3>4
        <3>6. [job[k] EXCEPT !.todo = @ \ {NextTxn(k)}, !.wrote = @ \union {Here(k)},
                             !.queue = Appended(k).queue, !.hold = Appended(k).hold, !.value = Appended(k).value]
              = [y EXCEPT !.queue = queue, !.hold = hold, !.value = value]
            BY <1>1, <1>4, <1>6, <1>12, <3>4
        <3>7. x = [y EXCEPT !.queue = queue, !.hold = hold, !.value = value]
            BY <1>13, <3>5
        <3>8. QED
            BY <3>6, <3>7
    <2>2. QED
        BY <2>1, Zenon DEF AppendRow
<1>15. /\ SameJob(x, r) /\ x.todo = todo /\ x.wrote = wrote /\ x.left = r.left /\ x.acct = r.acct /\ x.errs = r.errs
       /\ x.pc = "insert" /\ x.new = r.new
    <2>1. PICK A : r \in [Fields -> A]
        BY <1>7 DEF IsJob
    <2>2. PICK B : B = A \union {todo, wrote, queue, hold, value}
        OBVIOUS
    <2>3. PICK y : y = [r EXCEPT !.queue = queue, !.hold = hold, !.value = value]
        OBVIOUS
    <2>4. y \in [Fields -> B]
        BY <2>1, <2>2, <2>3 DEF Fields
    <2>5. \A f \in Fields \ {"queue", "hold", "value"} : y[f] = r[f]
        BY <2>1, <2>3
    <2>6. x = [y EXCEPT !.todo = todo, !.wrote = wrote]
        BY <1>13, <2>3
    <2>7. todo \in B /\ wrote \in B
        BY <2>2
    <2>8. x \in [Fields -> B]
        BY <2>4, <2>6, <2>7
    <2>9. \A f \in Fields \ {"todo", "wrote"} : x[f] = y[f]
        BY <2>4, <2>6
    <2>10. x.todo = todo /\ x.wrote = wrote
        BY <2>4, <2>6 DEF Fields
    <2>11. /\ x.type = r.type /\ x.floor = r.floor /\ x.first = r.first /\ x.last = r.last
           /\ x.left = r.left /\ x.acct = r.acct /\ x.errs = r.errs /\ x.pc = r.pc /\ x.new = r.new
        BY <2>5, <2>9 DEF Fields
    <2>12. QED
        BY <1>2, <2>8, <2>10, <2>11 DEF SameJob, IsJob
<1>16. Grown(holdings[h], row, holdings'[h])
    <2>1. PICK H : H = holdings[h]
        OBVIOUS
    <2>2. PICK G : G = holdings'[h]
        OBVIOUS
    <2>3. Grown(H, row, G)
        BY <1>6, <1>9, <2>1, <2>2, GrownIs
    <2>4. QED
        BY <2>1, <2>2, <2>3
<1>17. Clean(mishap'[h]) => Single(holdings'[h])
    <2>1. SUFFICES ASSUME Clean(mishap[h]) PROVE Single(holdings'[h])
        BY <1>8
    <2>2. Unwritten(r, sources, h, holdings[h], status[k])
        BY <1>6, <1>7, <2>1 DEF Good
    <2>3. ~HasRow(holdings[h], row.src)
        BY <1>2, <1>3, <1>6, <1>7, <2>2 DEF Unwritten
    <2>4. Single(holdings[h])
        BY <1>6, <2>1 DEF HInv
    <2>5. PICK H : H = holdings[h]
        OBVIOUS
    <2>6. PICK G : G = holdings'[h]
        OBVIOUS
    <2>7. Single(G)
        BY <1>6, <1>9, <2>3, <2>4, <2>5, <2>6, GrownSingle
    <2>8. QED
        BY <2>6, <2>7
<1>18. PICK q : q = IF x.todo = {} THEN PairDone(k, x) ELSE x
    OBVIOUS
<1>19. Placed(q, sources, status[k]) /\ \A p \in Pairs : Good(q, sources, p, holdings'[p], mishap'[p], status[k])
    <2>1. CASE todo # {}
        <3>1. q = x
            BY <1>15, <1>18, <2>1
        <3>2. /\ Placed(x, sources, status[k])
              /\ \A p \in Pairs : \A H, M, G, rw :
                    /\ Good(r, sources, p, H, M, status[k]) /\ rw.src = i
                    /\ p # HereOf(r) => G = H
                    /\ p = HereOf(r) => Grown(H, rw, G)
                    => Good(x, sources, p, G, M, status[k])
            BY <1>2, <1>3, <1>6, <1>7, <1>10, <1>11, <1>15, <2>1, MoreToDo
        <3>3. ASSUME NEW p \in Pairs PROVE Good(x, sources, p, holdings'[p], mishap'[p], status[k])
            <4>1. Good(r, sources, p, holdings[p], mishap[p], status[k])
                BY <1>7
            <4>2. p # HereOf(r) => holdings'[p] = holdings[p]
                BY <1>3, <1>9
            <4>3. p = HereOf(r) => Grown(holdings[p], row, holdings'[p])
                BY <1>3, <1>16
            <4>4. Good(x, sources, p, holdings'[p], mishap[p], status[k])
                BY <1>6, <3>2, <4>1, <4>2, <4>3
            <4>5. QED
                BY <1>8, <4>4
        <3>4. QED
            BY <3>1, <3>2, <3>3
    <2>2. CASE todo = {}
        <3>1. q = PairDone(k, x)
            BY <1>15, <1>18, <2>2
        <3>2. Done(q, r, x.wrote, x.errs)
            BY <1>1, <1>15, <3>1, PairDoneIs
        <3>3. Done(q, r, wrote, r.errs)
            BY <1>15, <3>2
        <3>4. wrote \subseteq r.wrote \union {HereOf(r)} /\ r.wrote \subseteq wrote /\ h \in wrote
            BY <1>3, <1>11
        <3>5. Placed(q, sources, status[k])
            BY <1>2, <1>7, <3>3, <3>4, DonePlaced
        <3>6. ASSUME NEW p \in Pairs PROVE Good(q, sources, p, holdings'[p], mishap'[p], status[k])
            <4>1. PICK H : H = holdings[p]
                OBVIOUS
            <4>2. PICK M : M = mishap[p]
                OBVIOUS
            <4>3. PICK G : G = holdings'[p]
                OBVIOUS
            <4>4. Good(r, sources, p, H, M, status[k])
                BY <1>7, <4>1, <4>2
            <4>5. p # HereOf(r) => G = H
                BY <1>3, <1>9, <4>1, <4>3
            <4>6. ASSUME p = HereOf(r), r.errs = 0, Fair(M) PROVE Whole(r, sources, p, G)
                <5>1. Brought(r, sources, p, H)
                    BY <4>4, <4>6 DEF Good
                <5>2. AcctOf[p] = r.acct
                    BY <1>1, <1>2, <4>6, AtWork
                <5>3. \A n \in NewOf(r, sources, p) : sources[n].kind # "MISC" => HasRow(H, n) \/ n \in r.todo
                    BY <1>2, <4>6, <5>1, <5>2 DEF Brought, InHand
                <5>4. \A n \in r.todo : n = i
                    BY <1>10, <2>2
                <5>5. Grown(H, row, G)
                    BY <1>3, <1>16, <4>1, <4>3, <4>6
                <5>6. \A n \in NewOf(r, sources, p) : sources[n].kind # "MISC" => HasRow(G, n)
                    BY <1>6, <5>3, <5>4, <5>5 DEF Grown
                <5>7. r.pc \notin Dormant
                    BY <1>2 DEF Dormant
                <5>8. QED
                    BY <1>2, <1>7, <5>6, <5>7, GivenIsNew DEF Whole
            <4>7. p = HereOf(r) => p \in wrote
                BY <1>3, <3>4
            <4>8. Whole(r, sources, p, H) => Whole(r, sources, p, G)
                <5>1. CASE p = HereOf(r)
                    <6>1. Grown(H, row, G)
                        BY <1>3, <1>16, <4>1, <4>3, <5>1
                    <6>2. QED
                        BY <6>1, WholeGrows
                <5>2. CASE p # HereOf(r)
                    BY <4>5, <5>2
                <5>3. QED
                    BY <5>1, <5>2
            <4>9. Good(q, sources, p, G, M, status[k])
                BY <1>2, <1>7, <3>3, <3>4, <4>4, <4>5, <4>6, <4>7, <4>8, DoneGood
            <4>10. QED
                BY <1>8, <4>2, <4>3, <4>9
        <3>7. QED
            BY <3>5, <3>6
    <2>3. QED
        BY <2>1, <2>2
<1>20. Become(k, q)
    BY <1>14, <1>18
<1>21. mishap' \in [Pairs -> SUBSET Mishaps]
    BY <1>8 DEF HInv, Static
<1>22. Leaves(k, h)
    BY <1>3, <1>5, <1>6, <1>8, <1>9, <1>17, <1>19, <1>21 DEF Leaves
<1>23. QED
    BY <1>1, <1>2, <1>3, <1>17, <1>19, <1>20, <1>22, InsertDone

----------------------------------------------------------------------------
(* An append fails.                                                         *)

LEMMA AppendFailsStep ==
    ASSUME HInv, NEW k \in Jobs, AppendFails(k)
    PROVE  HInv'
<1>1. PICK r : r = job[k]
    OBVIOUS
<1>2. r.type = "worker" /\ r.pc = "insert" /\ r.pc \in Busy
    BY <1>1 DEF AppendFails, Busy
<1>3. PICK h : h = HereOf(r)
    OBVIOUS
<1>4. PICK row : row = NextRow(k)
    OBVIOUS
<1>5. /\ Here(k) = h /\ h \in Pairs /\ NextTxn(k) \in r.todo /\ r.todo \subseteq r.new /\ r.new \subseteq NewOf(r, sources, h)
      /\ IsList(holdings[h]) /\ \E H : holdings \in [Pairs -> H]
    BY <1>1, <1>2, <1>3, AtInsert
<1>6. /\ Placed(r, sources, status[k]) /\ IsJob(r) /\ sources \in Seq(Source) /\ OpenRec(r) /\ r.errs \in Nat
      /\ WorkerPlaced(r, sources, status[k]) /\ SameJob(r, r)
      /\ \A p \in Pairs : Good(r, sources, p, holdings[p], mishap[p], status[k])
    BY <1>1, <1>2, AtWork
<1>7. sources' = sources /\ status' = status
    BY DEF AppendFails
<1>8. PICK applied \in BOOLEAN :
         /\ IF applied THEN Insert(h, row) ELSE UNCHANGED holdings
         /\ Blame(IF r.cheap /\ ~applied /\ r.todo = r.new THEN {} ELSE {h}, "torn")
    BY <1>1, <1>4, <1>5, Zenon DEF AppendFails
<1>9. PICK S : S = IF r.cheap /\ ~applied /\ r.todo = r.new THEN {} ELSE {h}
    OBVIOUS
<1>10. Blame(S, "torn") /\ (S = {h} \/ (S = {} /\ ~applied /\ r.todo = r.new))
    BY <1>8, <1>9
<1>11. /\ mishap' \in [Pairs -> SUBSET Mishaps]
       /\ \A p \in Pairs : mishap'[p] = IF p \in S THEN mishap[p] \union {"torn"} ELSE mishap[p]
    BY <1>10, BlameIs DEF Mishaps
<1>12. \A p \in Pairs : /\ mishap[p] \subseteq mishap'[p] /\ ("unrebuilt" \in mishap'[p] => "unrebuilt" \in mishap[p])
                        /\ (p # h => mishap'[p] = mishap[p])
    BY <1>10, <1>11
<1>13. /\ \E H : holdings' \in [Pairs -> H]
       /\ \A p \in Pairs \ {h} : holdings'[p] = holdings[p]
       /\ (~applied /\ holdings'[h] = holdings[h]) \/ holdings'[h] = Append(holdings[h], row)
    <2>1. CASE applied
        <3>1. Insert(h, row)
            BY <1>8, <2>1
        <3>2. QED
            BY <1>5, <3>1, Inserted
    <2>2. CASE ~applied
        BY <1>5, <1>8, <2>2
    <2>3. QED
        BY <2>1, <2>2
<1>14. Clean(mishap'[h]) => holdings'[h] = holdings[h] /\ r.todo = r.new
    <2>1. SUFFICES ASSUME Clean(mishap'[h]) PROVE holdings'[h] = holdings[h] /\ r.todo = r.new
        OBVIOUS
    <2>2. S # {h}
        BY <1>5, <1>11, <2>1 DEF Clean
    <2>3. ~applied /\ r.todo = r.new
        BY <1>10, <2>2
    <2>4. QED
        BY <1>8, <2>3
<1>15. Clean(mishap'[h]) => Single(holdings'[h]) /\ h \notin r.wrote
    <2>1. SUFFICES ASSUME Clean(mishap'[h]) PROVE Single(holdings'[h]) /\ h \notin r.wrote
        OBVIOUS
    <2>2. Clean(mishap[h])
        BY <1>5, <1>12, <2>1 DEF Clean
    <2>3. Unwritten(r, sources, h, holdings[h], status[k])
        BY <1>5, <1>6, <2>2 DEF Good
    <2>4. h \in r.wrote => r.todo # r.new
        BY <1>2, <1>3, <1>6, <2>3 DEF Unwritten
    <2>5. QED
        BY <1>5, <1>14, <2>1, <2>2, <2>4 DEF HInv
<1>16. ASSUME NEW p \in Pairs PROVE Good(r, sources, p, holdings'[p], mishap'[p], status[k])
    <2>1. Good(r, sources, p, holdings[p], mishap[p], status[k])
        BY <1>6
    <2>2. CASE holdings'[p] = holdings[p]
        BY <1>12, <2>1, <2>2, GoodExcused
    <2>3. CASE holdings'[p] # holdings[p]
        <3>1. p = h /\ holdings'[p] = Append(holdings[h], row)
            BY <1>13, <2>3
        <3>2. ~Clean(mishap'[p])
            BY <1>14, <2>3, <3>1
        <3>3. PICK H : H = holdings[h]
            OBVIOUS
        <3>4. PICK G : G = holdings'[p]
            OBVIOUS
        <3>5. Grown(H, row, G)
            BY <1>5, <3>1, <3>3, <3>4, GrownIs
        <3>6. PICK M : M = mishap[p]
            OBVIOUS
        <3>7. PICK N : N = mishap'[p]
            OBVIOUS
        <3>8. Good(r, sources, p, H, M, status[k]) /\ M \subseteq N /\ ~Clean(N)
            BY <1>12, <2>1, <3>1, <3>2, <3>3, <3>6, <3>7
        <3>9. Good(r, sources, p, G, N, status[k])
            BY <1>2, <3>5, <3>8, TornGood
        <3>10. QED
            BY <3>4, <3>7, <3>9
    <2>4. QED
        BY <2>2, <2>3
<1>17. PICK A : r \in [Fields -> A]
    BY <1>6 DEF IsJob
<1>18. r.new \subseteq NewOf(r, sources, HereOf(r)) /\ r.new # {}
    BY <1>2, <1>6 DEF WorkerPlaced
<1>19. \E q : /\ Become(k, q) /\ Placed(q, sources, status[k])
              /\ \A p \in Pairs : Good(q, sources, p, holdings'[p], mishap'[p], status[k])
    <2>1. CASE r.cheap
        <3>1. PICK q : q = [r EXCEPT !.pc = "rows"]
            OBVIOUS
        <3>2. Become(k, q)
            BY <1>1, <2>1, <3>1, Zenon DEF AppendFails
        <3>3. PICK B : B = A \union {"rows"}
            OBVIOUS
        <3>4. q \in [Fields -> B]
            BY <1>17, <3>1, <3>3 DEF Fields
        <3>5. /\ q.type = r.type /\ q.floor = r.floor /\ q.first = r.first /\ q.last = r.last
              /\ q.left = r.left /\ q.acct = r.acct /\ q.wrote = r.wrote /\ q.errs = r.errs /\ q.pc = "rows" /\ q.new = r.new
            BY <1>17, <3>1 DEF Fields
        <3>6. PICK new : new = r.new
            OBVIOUS
        <3>7. Stays(q, r, "rows", new, new)
            BY <3>4, <3>5, <3>6 DEF Stays, SameJob, IsJob
        <3>8. new \subseteq NewOf(r, sources, HereOf(r)) /\ new # {} /\ new \subseteq new
              /\ \A i \in new : sources[i].kind # "MISC" => i \in new
            BY <1>18, <3>6
        <3>9. Placed(q, sources, status[k])
            BY <1>2, <1>6, <3>7, <3>8, StaysPlaced
        <3>10. ASSUME NEW p \in Pairs PROVE Good(q, sources, p, holdings'[p], mishap'[p], status[k])
            <4>1. PICK G : G = holdings'[p]
                OBVIOUS
            <4>2. PICK N : N = mishap'[p]
                OBVIOUS
            <4>3. Good(r, sources, p, G, N, status[k]) /\ N \subseteq N
                BY <1>16, <4>1, <4>2
            <4>4. r.pc = "insert" /\ p = HereOf(r) /\ Clean(N) => p \notin r.wrote
                BY <1>3, <1>15, <4>2
            <4>5. r.pc # "read" /\ new = r.new
                BY <1>2, <3>6
            <4>6. Good(q, sources, p, G, N, status[k])
                BY <1>2, <1>6, <3>7, <3>8, <4>3, <4>4, <4>5, StaysGood
            <4>7. QED
                BY <4>1, <4>2, <4>6
        <3>11. QED
            BY <3>2, <3>9, <3>10
    <2>2. CASE ~r.cheap
        <3>1. PICK d : d = PairDone(k, r)
            OBVIOUS
        <3>2. Done(d, r, r.wrote, r.errs)
            BY <1>1, <1>6, <3>1, PairDoneIs
        <3>3. PICK e : e = r.errs + 1
            OBVIOUS
        <3>4. PICK q : q = [d EXCEPT !.errs = e]
            OBVIOUS
        <3>5. IsJob(d) /\ d.errs = r.errs
            BY <3>2 DEF Done, SameJob
        <3>6. PICK D : d \in [Fields -> D]
            BY <3>5 DEF IsJob
        <3>7. Become(k, q)
            <4>1. Become(k, [PairDone(k, job[k]) EXCEPT !.errs = @ + 1])
                BY <1>1, <2>2, Zenon DEF AppendFails
            <4>2. [d EXCEPT !.errs = @ + 1] = [d EXCEPT !.errs = e]
                BY <3>3, <3>5, <3>6 DEF Fields
            <4>3. QED
                BY <1>1, <3>1, <3>4, <4>1, <4>2
        <3>8. PICK B : B = D \union {e}
            OBVIOUS
        <3>9. q \in [Fields -> B]
            BY <3>4, <3>6, <3>8 DEF Fields
        <3>10. /\ q.type = d.type /\ q.floor = d.floor /\ q.first = d.first /\ q.last = d.last
               /\ q.left = d.left /\ q.acct = d.acct /\ q.wrote = d.wrote /\ q.errs = e /\ q.pc = d.pc
            BY <3>4, <3>6 DEF Fields
        <3>11. Done(q, r, r.wrote, e)
            BY <3>2, <3>9, <3>10 DEF Done, SameJob, IsJob
        <3>12. e \in Nat /\ e # 0 /\ r.wrote \subseteq r.wrote \union {HereOf(r)} /\ r.wrote \subseteq r.wrote
            BY <1>6, <3>3
        <3>13. Placed(q, sources, status[k])
            BY <1>2, <1>6, <3>11, <3>12, DonePlaced
        <3>14. ASSUME NEW p \in Pairs PROVE Good(q, sources, p, holdings'[p], mishap'[p], status[k])
            <4>1. PICK G : G = holdings'[p]
                OBVIOUS
            <4>2. PICK N : N = mishap'[p]
                OBVIOUS
            <4>3. Good(r, sources, p, G, N, status[k]) /\ N \subseteq N
                BY <1>16, <4>1, <4>2
            <4>4. Good(q, sources, p, G, N, status[k])
                BY <1>2, <1>6, <3>11, <3>12, <4>3, DoneGood
            <4>5. QED
                BY <4>1, <4>2, <4>4
        <3>15. QED
            BY <3>7, <3>13, <3>14
    <2>3. QED
        BY <2>1, <2>2
<1>20. PICK q : /\ Become(k, q) /\ Placed(q, sources, status[k])
                /\ \A p \in Pairs : Good(q, sources, p, holdings'[p], mishap'[p], status[k])
    BY <1>19
<1>21. /\ \A p \in Pairs \ {h} : holdings'[p] = holdings[p] /\ mishap'[p] = mishap[p]
       /\ holdings'[h] = holdings[h] \/ holdings'[h] = Append(holdings[h], NextRow(k))
       /\ mishap[h] \subseteq mishap'[h] /\ ("unrebuilt" \in mishap'[h] => "unrebuilt" \in mishap[h])
       /\ Clean(mishap'[h]) => Single(holdings'[h])
    BY <1>4, <1>5, <1>12, <1>13, <1>15
<1>22. \A p \in Pairs \ {h} : holdings'[p] = holdings[p] /\ mishap'[p] = mishap[p]
    BY <1>21
<1>23. holdings'[h] = holdings[h] \/ holdings'[h] = Append(holdings[h], NextRow(k))
    BY <1>21
<1>24. mishap[h] \subseteq mishap'[h] /\ ("unrebuilt" \in mishap'[h] => "unrebuilt" \in mishap[h])
    BY <1>21
<1>25. Clean(mishap'[h]) => Single(holdings'[h])
    BY <1>21
<1>26. \E H : holdings' \in [Pairs -> H]
    BY <1>13
<1>27. mishap' \in [Pairs -> SUBSET Mishaps]
    BY <1>11
<1>28. Become(k, q) /\ Placed(q, sources, status[k])
    BY <1>20
<1>29. \A p \in Pairs : Good(q, sources, p, holdings'[p], mishap'[p], status[k])
    BY <1>20
<1>30. r = job[k] /\ r.type = "worker" /\ r.pc = "insert" /\ h = HereOf(r)
    BY <1>1, <1>2, <1>3
<1>31. sources' = sources /\ status' = status
    BY <1>7
<1>32. Leaves(k, h)
    BY <1>22, <1>23, <1>24, <1>25, <1>26, <1>27, <1>31 DEF Leaves
<1>33. QED
    BY <1>28, <1>29, <1>30, <1>32, InsertDone

----------------------------------------------------------------------------
(* A rebuild begins, and reads the transactions.                            *)

LEMMA RebuildIdle ==
    ASSUME NEW q, q.type = "rebuild", q.pc # "insert"
    PROVE  \A S, p, H, M, st : Good(q, S, p, H, M, st)
BY DEF Good, Solo, Unwritten, Earned, Brought, Rewriting

LEMMA RebuildGoesOn ==
    ASSUME HInv, NEW k \in Jobs, NEW q, Become(k, q), Mild(k), status' = status, q.type = "rebuild", q.pc # "insert",
           OpenRec(job[k]), Placed(q, sources, status[k]),
           \A p \in Pairs : Owes(job[k], sources, p) /\ ~Gone(sources, p) => Owes(q, sources, p)
    PROVE  HInv'
<1>1. /\ \E J : job' \in [Jobs -> J]
      /\ job'[k] = q /\ \A j \in Jobs \ {k} : job'[j] = job[j]
    BY Becomes, Parts
<1>2. Calm(k)
    BY <1>1 DEF Calm, Mild
<1>3. Fits(k)
    BY <1>1, RebuildIdle DEF Fits
<1>4. QED
    BY <1>2, <1>3, CalmStep

(* What a rebuild has to hand.                                              *)
LEMMA AtRebuild ==
    ASSUME HInv, NEW k \in Jobs, NEW r, r = job[k], r.type = "rebuild"
    PROVE  /\ Placed(r, sources, status[k]) /\ Shaped(r, sources) /\ IsJob(r) /\ sources \in Seq(Source)
           /\ RebuildPlaced(r, sources) /\ Here(k) = HereOf(r)
           /\ \A p \in Pairs : Good(r, sources, p, holdings[p], mishap[p], status[k])
           /\ AtHandOf(r) # {} => HereOf(r) \in Pairs /\ HereOf(r) \in r.left /\ HereOf(r) \in MineOf(r, sources)
                                  /\ HereOf(r) \in AtHandOf(r)
<1>1. /\ Placed(r, sources, status[k]) /\ Shaped(r, sources) /\ IsJob(r) /\ sources \in Seq(Source)
      /\ \A p \in Pairs : Good(r, sources, p, holdings[p], mishap[p], status[k])
    BY Parts
<1>2. RebuildPlaced(r, sources) /\ Here(k) = HereOf(r)
    BY <1>1, HereIs DEF Placed
<1>3. ASSUME AtHandOf(r) # {}
      PROVE  HereOf(r) \in Pairs /\ HereOf(r) \in r.left /\ HereOf(r) \in MineOf(r, sources) /\ HereOf(r) \in AtHandOf(r)
    BY <1>1, <1>3, HereIn
<1>4. QED
    BY <1>1, <1>2, <1>3

LEMMA StartRebuildStep ==
    ASSUME HInv, NEW k \in Jobs, StartRebuild(k)
    PROVE  HInv'
<1>1. PICK r : r = job[k]
    OBVIOUS
<1>2. r.type = "rebuild" /\ r.pc = "queued" /\ r.pc \notin Dormant /\ OpenRec(r)
    BY <1>1 DEF StartRebuild, Dormant, Closed, OpenRec
<1>3. /\ Placed(r, sources, status[k]) /\ Shaped(r, sources) /\ sources \in Seq(Source)
    BY <1>1, <1>2, AtRebuild
<1>4. PICK f : f = Fresh(k)
    OBVIOUS
<1>5. PICK mine : mine = MineOf(r, sources)
    OBVIOUS
<1>6. Manifest(k) = mine
    BY <1>1, <1>5, MineIs
<1>7. PICK q : q = [f EXCEPT !.pc = "txns", !.tries = r.tries, !.left = mine]
    OBVIOUS
<1>8. Become(k, q)
    BY <1>1, <1>4, <1>6, <1>7 DEF StartRebuild
<1>9. PICK y : y = [Fresh(k) EXCEPT !.pc = "txns", !.tries = r.tries]
    OBVIOUS
<1>10. Renewed(y, r, "txns")
    BY <1>1, <1>9, RenewedIs
<1>11. q = [y EXCEPT !.left = mine]
    BY <1>4, <1>7, <1>9
<1>12. /\ SameJob(q, r) /\ q.pc = "txns" /\ q.left = mine /\ q.wrote = {} /\ q.errs = 0 /\ q.acct = AcctOf[1]
       /\ q.known = {} /\ q.upto = 0 /\ q.type = "rebuild"
    <2>1. PICK A : y \in [Fields -> A]
        BY <1>10 DEF Renewed, SameJob, IsJob
    <2>2. PICK B : B = A \union {mine}
        OBVIOUS
    <2>3. q \in [Fields -> B]
        BY <1>11, <2>1, <2>2 DEF Fields
    <2>4. q.left = mine /\ \A x \in Fields \ {"left"} : q[x] = y[x]
        BY <1>11, <2>1 DEF Fields
    <2>5. /\ q.type = y.type /\ q.floor = y.floor /\ q.first = y.first /\ q.last = y.last /\ q.pc = y.pc
          /\ q.wrote = y.wrote /\ q.errs = y.errs /\ q.acct = y.acct /\ q.known = y.known /\ q.upto = y.upto
        BY <2>4 DEF Fields
    <2>6. QED
        BY <1>2, <1>10, <2>3, <2>4, <2>5 DEF Renewed, SameJob, IsJob
<1>13. MineOf(q, sources) = mine
    BY <1>5, <1>12, SameJobFacts
<1>14. Shaped(q, sources)
    BY <1>2, <1>3, <1>12, <1>13, Constants DEF Shaped, SameJob, RebuildPcs, Dormant
<1>15. mine # {}
    <2>1. r.first \in r.first .. r.last
        BY <1>2, <1>3 DEF Shaped
    <2>2. QED
        BY <1>5, <2>1 DEF MineOf
<1>16. RebuildPlaced(q, sources)
    <2>1. Len(sources) \in Nat
        BY <1>3, SourceIs
    <2>2. QED
        BY <1>12, <1>15, <2>1 DEF RebuildPlaced
<1>17. Placed(q, sources, status[k])
    BY <1>12, <1>14, <1>16 DEF Placed
<1>18. Mild(k)
    BY MildAsIs DEF StartRebuild
<1>19. \A p \in Pairs : Owes(r, sources, p) => Owes(q, sources, p)
    BY <1>5, <1>12, <1>13 DEF Owes
<1>20. status' = status
    BY DEF StartRebuild
<1>21. QED
    BY <1>1, <1>2, <1>8, <1>12, <1>17, <1>18, <1>19, <1>20, RebuildGoesOn

LEMMA ReadTransactionsStep ==
    ASSUME HInv, NEW k \in Jobs, ReadTransactions(k)
    PROVE  HInv'
<1>1. PICK r : r = job[k]
    OBVIOUS
<1>2. r.type = "rebuild" /\ r.pc = "txns" /\ r.pc \notin Dormant /\ OpenRec(r)
    BY <1>1 DEF ReadTransactions, Dormant, Closed, OpenRec
<1>3. /\ Placed(r, sources, status[k]) /\ Shaped(r, sources) /\ sources \in Seq(Source) /\ IsJob(r)
      /\ RebuildPlaced(r, sources) /\ Here(k) = HereOf(r)
    BY <1>1, <1>2, AtRebuild
<1>4. AtHandOf(r) = r.left /\ r.left # {}
    BY <1>2, <1>3 DEF AtHandOf, RebuildPlaced
<1>5. PICK h : h = HereOf(r)
    OBVIOUS
<1>6. h \in Pairs /\ h \in r.left
    BY <1>1, <1>2, <1>4, <1>5, AtRebuild
<1>7. PICK a : a = AcctOf[h]
    OBVIOUS
<1>8. a \in Accounts
    BY <1>6, <1>7, Constants
<1>9. PICK all : all = {i \in DOMAIN sources : AcctOf[sources[i].pair] = a /\ sources[i].kind \in TxnKinds}
    OBVIOUS
<1>10. Rows(k, TxnKinds) = all
    BY <1>3, <1>5, <1>7, <1>9 DEF Rows
<1>11. PICK S \in SUBSET all : Become(k, [r EXCEPT !.pc = "actions", !.acct = a, !.known = S,
                                                   !.upto = Len(sources), !.partial = (S # all)])
    <2>1. PICK S \in Pages(Rows(k, TxnKinds)) :
             Become(k, [job[k] EXCEPT !.pc = "actions", !.acct = AcctOf[Here(k)], !.known = S,
                             !.upto = Len(sources), !.partial = (S # Rows(k, TxnKinds))])
        BY Zenon DEF ReadTransactions
    <2>2. Become(k, [r EXCEPT !.pc = "actions", !.acct = a, !.known = S, !.upto = Len(sources), !.partial = (S # all)])
        BY <1>1, <1>3, <1>5, <1>7, <1>10, <2>1, Zenon
    <2>3. S \in SUBSET all
        BY <1>10 DEF Pages
    <2>4. QED
        BY <2>2, <2>3, Zenon
<1>12. PICK partial \in BOOLEAN : partial = (S # all)
    BY Zenon
<1>13. PICK upto \in Nat : upto = Len(sources) /\ DOMAIN sources = 1 .. upto
    BY <1>3, SourceIs
<1>14. PICK q : q = [r EXCEPT !.pc = "actions", !.acct = a, !.known = S, !.upto = upto, !.partial = partial]
    OBVIOUS
<1>15. Become(k, q)
    BY <1>11, <1>12, <1>13, <1>14, Zenon
<1>16. /\ SameJob(q, r) /\ q.pc = "actions" /\ q.left = r.left /\ q.wrote = r.wrote /\ q.errs = r.errs /\ q.acct = a
       /\ q.known = S /\ q.upto = upto /\ q.partial = partial /\ q.type = "rebuild"
    <2>1. PICK A : r \in [Fields -> A]
        BY <1>3 DEF IsJob
    <2>2. PICK B : B = A \union {"actions", a, S, upto, partial}
        OBVIOUS
    <2>3. PICK y : y = [r EXCEPT !.known = S, !.upto = upto, !.partial = partial]
        OBVIOUS
    <2>4. y \in [Fields -> B]
        <3>1. r \in [Fields -> B]
            BY <2>1, <2>2
        <3>2. S \in B /\ upto \in B /\ partial \in B
            BY <2>2
        <3>3. QED
            BY <2>3, <3>1, <3>2 DEF Fields
    <2>5. \A f \in Fields \ {"known", "upto", "partial"} : y[f] = r[f]
        BY <2>1, <2>3
    <2>6. y.known = S /\ y.upto = upto /\ y.partial = partial
        BY <2>1, <2>3 DEF Fields
    <2>7. q = [y EXCEPT !.pc = "actions", !.acct = a]
        BY <1>14, <2>3
    <2>8. "actions" \in B /\ a \in B
        BY <2>2
    <2>9. q \in [Fields -> B]
        BY <2>4, <2>7, <2>8
    <2>10. \A f \in Fields \ {"pc", "acct"} : q[f] = y[f]
        BY <2>4, <2>7
    <2>11. q.pc = "actions" /\ q.acct = a
        BY <2>4, <2>7 DEF Fields
    <2>12. /\ q.type = r.type /\ q.floor = r.floor /\ q.first = r.first /\ q.last = r.last
           /\ q.left = r.left /\ q.wrote = r.wrote /\ q.errs = r.errs
        BY <2>5, <2>10 DEF Fields
    <2>13. q.known = y.known /\ q.upto = y.upto /\ q.partial = y.partial
        BY <2>10 DEF Fields
    <2>14. QED
        BY <1>2, <2>6, <2>9, <2>11, <2>12, <2>13 DEF SameJob, IsJob
<1>17. MineOf(q, sources) = MineOf(r, sources)
    BY <1>16, SameJobFacts
<1>18. Shaped(q, sources)
    BY <1>2, <1>3, <1>8, <1>16, <1>17 DEF Shaped, SameJob, RebuildPcs, Dormant
<1>19. h \in AtHandOf(q)
    BY <1>6, <1>7, <1>16 DEF AtHandOf
<1>20. Knows(q, sources, TxnKinds)
    <2>1. ASSUME ~q.partial, NEW i \in 1 .. q.upto, AcctOf[sources[i].pair] = q.acct, sources[i].kind \in TxnKinds
          PROVE  i \in q.known
        <3>1. S = all
            BY <1>12, <1>16, <2>1
        <3>2. i \in all
            BY <1>9, <1>13, <1>16, <2>1
        <3>3. QED
            BY <1>16, <3>1, <3>2
    <2>2. QED
        BY <2>1 DEF Knows
<1>21. RebuildPlaced(q, sources)
    <2>1. q.known \subseteq DOMAIN sources /\ q.upto \in Nat /\ q.upto <= Len(sources)
        BY <1>9, <1>13, <1>16
    <2>2. QED
        BY <1>16, <1>19, <1>20, <2>1 DEF RebuildPlaced
<1>22. Placed(q, sources, status[k])
    BY <1>16, <1>18, <1>21 DEF Placed
<1>23. Mild(k)
    BY MildAsIs DEF ReadTransactions
<1>24. \A p \in Pairs : Owes(r, sources, p) => Owes(q, sources, p)
    <2>1. OpenRec(q)
        BY <1>16 DEF OpenRec, Dormant, Closed
    <2>2. QED
        BY <1>2, <1>16, <1>17, <2>1 DEF Owes
<1>25. status' = status
    BY DEF ReadTransactions
<1>26. QED
    BY <1>1, <1>2, <1>15, <1>16, <1>22, <1>23, <1>24, <1>25, RebuildGoesOn

----------------------------------------------------------------------------
(* A rebuild goes on to a pair, or closes.                                  *)

(* q is r, with only the pairs in left still to do and e errors.            *)
WentOn(q, x, left, e) ==
    /\ SameJob(q, x) /\ q.left = left /\ q.acct = x.acct /\ q.wrote = x.wrote /\ q.errs = e
    /\ q.known = x.known /\ q.upto = x.upto /\ q.partial = x.partial
    /\ q.pc = IF left = {} THEN "end" ELSE IF \E p \in left : AcctOf[p] = x.acct THEN "delete" ELSE "txns"

LEMMA GoOnIs ==
    ASSUME NEW x, IsJob(x), NEW left, NEW q, q = GoOn(x, left)
    PROVE  WentOn(q, x, left, x.errs)
<1>1. PICK pc : pc = IF left = {} THEN "end" ELSE IF \E p \in left : AcctOf[p] = x.acct THEN "delete" ELSE "txns"
    OBVIOUS
<1>2. q = [x EXCEPT !.left = left, !.rows = <<>>, !.pc = pc]
    BY <1>1, Zenon DEF GoOn
<1>3. PICK A : x \in [Fields -> A]
    BY DEF IsJob
<1>4. PICK B : B = A \union {left, <<>>, pc}
    OBVIOUS
<1>5. left \in B /\ <<>> \in B /\ pc \in B
    BY <1>4
<1>6. PICK y : y = [x EXCEPT !.left = left, !.rows = <<>>]
    OBVIOUS
<1>7. x \in [Fields -> B]
    BY <1>3, <1>4
<1>8. y \in [Fields -> B]
    BY <1>5, <1>6, <1>7
<1>9. y.left = left /\ \A f \in Fields \ {"left", "rows"} : y[f] = x[f]
    BY <1>6, <1>7 DEF Fields
<1>10. q = [y EXCEPT !.pc = pc]
    BY <1>2, <1>6
<1>11. q \in [Fields -> B]
    BY <1>5, <1>8, <1>10
<1>12. q.pc = pc /\ \A f \in Fields \ {"pc"} : q[f] = y[f]
    BY <1>8, <1>10 DEF Fields
<1>13. /\ q.type = x.type /\ q.floor = x.floor /\ q.first = x.first /\ q.last = x.last
       /\ q.left = left /\ q.acct = x.acct /\ q.wrote = x.wrote /\ q.errs = x.errs
       /\ q.known = x.known /\ q.upto = x.upto /\ q.partial = x.partial
    BY <1>9, <1>12 DEF Fields
<1>14. QED
    BY <1>1, <1>11, <1>12, <1>13 DEF WentOn, SameJob, IsJob

LEMMA WentOnPlaced ==
    ASSUME NEW S \in Seq(Source), NEW r, Shaped(r, S), r.type = "rebuild", r.pc \notin Dormant,
           NEW x, SameJob(x, r), x.wrote = r.wrote, x.acct = r.acct,
           x.known \subseteq DOMAIN S, x.upto \in Nat, x.upto <= Len(S), Knows(x, S, Kinds),
           NEW left, left \subseteq r.left, NEW e \in Nat, NEW q, WentOn(q, x, left, e), NEW st
    PROVE  Placed(q, S, st) /\ q.type = "rebuild" /\ q.pc # "insert"
<1>1. /\ SameJob(q, r) /\ q.type = "rebuild" /\ q.left = left /\ q.wrote = r.wrote /\ q.acct = r.acct /\ q.errs = e
      /\ q.known = x.known /\ q.upto = x.upto /\ q.partial = x.partial
    BY DEF WentOn, SameJob
<1>2. q.pc = IF left = {} THEN "end" ELSE IF \E p \in left : AcctOf[p] = q.acct THEN "delete" ELSE "txns"
    BY <1>1 DEF WentOn
<1>3. q.pc \in {"end", "delete", "txns"}
    BY <1>2
<1>4. MineOf(q, S) = MineOf(r, S)
    BY <1>1, SameJobFacts
<1>5. Shaped(q, S)
    BY <1>1, <1>3, <1>4 DEF Shaped, SameJob, RebuildPcs
<1>6. Knows(q, S, Kinds)
    BY <1>1 DEF Knows
<1>7. q.pc = "delete" => AtHandOf(q) # {}
    BY <1>1, <1>2 DEF AtHandOf
<1>8. q.pc = "txns" => left # {}
    BY <1>2
<1>9. RebuildPlaced(q, S)
    BY <1>1, <1>3, <1>6, <1>7, <1>8 DEF RebuildPlaced
<1>10. QED
    BY <1>1, <1>3, <1>5, <1>9 DEF Placed

LEMMA WentOnOwes ==
    ASSUME NEW S, NEW r, r.pc \in {"actions", "delete", "insert"}, NEW x, SameJob(x, r),
           NEW left, NEW e \in Nat, NEW q, WentOn(q, x, left, e),
           NEW p, Owes(r, S, p), r.errs \in Nat, p \in left \/ e > 0, r.errs <= e
    PROVE  Owes(q, S, p)
<1>1. SameJob(q, r) /\ q.type = r.type /\ q.left = left /\ q.errs = e
    BY DEF WentOn, SameJob
<1>2. MineOf(q, S) = MineOf(r, S)
    BY <1>1, SameJobFacts
<1>3. q.pc \in {"end", "delete", "txns"} /\ (left # {} => q.pc \in {"delete", "txns"})
    BY DEF WentOn
<1>4. OpenRec(q)
    BY <1>3 DEF OpenRec, Dormant, Closed
<1>5. QED
    BY <1>1, <1>2, <1>3, <1>4 DEF Owes

LEMMA ReadActionsStep ==
    ASSUME HInv, NEW k \in Jobs, ReadActions(k)
    PROVE  HInv'
<1>1. PICK r : r = job[k]
    OBVIOUS
<1>2. r.type = "rebuild" /\ r.pc = "actions" /\ r.pc \notin Dormant /\ OpenRec(r)
    BY <1>1 DEF ReadActions, Dormant, Closed, OpenRec
<1>3. /\ Placed(r, sources, status[k]) /\ Shaped(r, sources) /\ sources \in Seq(Source) /\ IsJob(r)
      /\ RebuildPlaced(r, sources) /\ Here(k) = HereOf(r)
    BY <1>1, <1>2, AtRebuild
<1>4. AtHandOf(r) # {}
    BY <1>2, <1>3 DEF RebuildPlaced
<1>5. PICK h : h = HereOf(r)
    OBVIOUS
<1>6. h \in Pairs /\ h \in AtHandOf(r)
    BY <1>1, <1>2, <1>4, <1>5, AtRebuild
<1>7. AcctOf[h] = r.acct
    BY <1>2, <1>6 DEF AtHandOf
<1>8. PICK all : all = {i \in DOMAIN sources : AcctOf[sources[i].pair] = r.acct /\ sources[i].kind \in Kinds \ TxnKinds}
    OBVIOUS
<1>9. Rows(k, Kinds \ TxnKinds) = all
    BY <1>3, <1>5, <1>7, <1>8 DEF Rows
<1>10. PICK S \in SUBSET all, cut \in BOOLEAN :
          /\ Become(k, GoOn([r EXCEPT !.known = @ \union S, !.partial = (@ \/ cut)], {p \in r.left : ~MergedAway(S, p)}))
          /\ ~cut => S = all
    <2>1. PICK S \in SUBSET Rows(k, Kinds \ TxnKinds) :
             Become(k, GoOn([job[k] EXCEPT !.known = @ \union S,
                                !.partial = (@ \/ {kind \in Kinds \ TxnKinds : S \intersect Rows(k, {kind}) # Rows(k, {kind})} # {})],
                            {p \in job[k].left : ~MergedAway(S, p)}))
        BY Zenon DEF ReadActions
    <2>2. PICK short : short = {kind \in Kinds \ TxnKinds : S \intersect Rows(k, {kind}) # Rows(k, {kind})}
        OBVIOUS
    <2>3. PICK cut \in BOOLEAN : cut = (short # {})
        BY Zenon
    <2>4. Become(k, GoOn([r EXCEPT !.known = @ \union S, !.partial = (@ \/ cut)], {p \in r.left : ~MergedAway(S, p)}))
        BY <1>1, <2>1, <2>2, <2>3, Zenon
    <2>5. ASSUME ~cut, NEW i \in all PROVE i \in S
        <3>1. PICK kind : kind = sources[i].kind
            OBVIOUS
        <3>2. kind \in Kinds \ TxnKinds /\ i \in Rows(k, {kind})
            BY <1>3, <1>5, <1>7, <1>8, <2>5, <3>1 DEF Rows
        <3>3. short = {}
            BY <2>3, <2>5
        <3>4. S \intersect Rows(k, {kind}) = Rows(k, {kind})
            BY <2>2, <3>2, <3>3
        <3>5. QED
            BY <3>2, <3>4
    <2>6. S \in SUBSET all
        BY <1>9, <2>1
    <2>7. ~cut => S = all
        BY <2>5, <2>6
    <2>8. QED
        BY <2>4, <2>6, <2>7
<1>11. PICK left : left = {p \in r.left : ~MergedAway(S, p)}
    OBVIOUS
<1>12. PICK known : known = r.known \union S
    OBVIOUS
<1>13. PICK partial \in BOOLEAN : partial = (r.partial \/ cut)
    BY Zenon
<1>14. PICK x : x = [r EXCEPT !.known = known, !.partial = partial]
    OBVIOUS
<1>15. PICK A : r \in [Fields -> A]
    BY <1>3 DEF IsJob
<1>16. x = [r EXCEPT !.known = @ \union S, !.partial = (@ \/ cut)]
    <2>1. "known" \in DOMAIN r /\ "partial" \in DOMAIN r
        BY <1>15 DEF Fields
    <2>2. [r EXCEPT !.known = @ \union S, !.partial = (@ \/ cut)]
          = [r EXCEPT !.known = known, !.partial = (@ \/ cut)]
        BY <1>12, Zenon
    <2>3. [r EXCEPT !.known = known, !.partial = (@ \/ cut)] = [r EXCEPT !.known = known, !.partial = partial]
        BY <1>13, Zenon
    <2>4. QED
        BY <1>14, <2>2, <2>3, Zenon
<1>17. /\ SameJob(x, r) /\ x.left = r.left /\ x.wrote = r.wrote /\ x.errs = r.errs /\ x.acct = r.acct
       /\ x.known = known /\ x.upto = r.upto /\ x.partial = partial /\ IsJob(x)
    <2>1. PICK B : B = A \union {known, partial}
        OBVIOUS
    <2>2. known \in B /\ partial \in B /\ r \in [Fields -> B]
        BY <1>15, <2>1
    <2>3. x \in [Fields -> B]
        BY <1>14, <2>2
    <2>4. x.known = known /\ x.partial = partial
        BY <1>14, <1>15 DEF Fields
    <2>5. \A f \in Fields \ {"known", "partial"} : x[f] = r[f]
        BY <1>14, <1>15
    <2>6. /\ x.type = r.type /\ x.floor = r.floor /\ x.first = r.first /\ x.last = r.last
          /\ x.left = r.left /\ x.wrote = r.wrote /\ x.errs = r.errs /\ x.acct = r.acct /\ x.upto = r.upto
        BY <2>5 DEF Fields
    <2>7. QED
        BY <2>3, <2>4, <2>6 DEF SameJob, IsJob
<1>18. PICK q : q = GoOn(x, left)
    OBVIOUS
<1>19. Become(k, q)
    BY <1>10, <1>11, <1>16, <1>18, Zenon
<1>20. WentOn(q, x, left, r.errs)
    BY <1>17, <1>18, GoOnIs
<1>21. Len(sources) \in Nat /\ DOMAIN sources = 1 .. Len(sources)
    BY <1>3, SourceIs
<1>22. Knows(x, sources, Kinds)
    <2>1. ASSUME ~x.partial, NEW i \in 1 .. x.upto, AcctOf[sources[i].pair] = x.acct, sources[i].kind \in Kinds
          PROVE  i \in x.known
        <3>1. ~partial
            BY <1>17, <2>1
        <3>2. ~(r.partial \/ cut)
            BY <1>13, <3>1, Zenon
        <3>3. ~r.partial /\ S = all
            BY <1>10, <3>2, Zenon
        <3>4. i \in DOMAIN sources
            BY <1>3, <1>17, <1>21 DEF RebuildPlaced
        <3>5. CASE sources[i].kind \in TxnKinds
            <4>1. Knows(r, sources, TxnKinds)
                BY <1>2, <1>3 DEF RebuildPlaced
            <4>2. i \in r.known
                BY <1>17, <2>1, <3>3, <3>5, <4>1 DEF Knows
            <4>3. QED
                BY <1>12, <1>17, <4>2
        <3>6. CASE sources[i].kind \notin TxnKinds
            BY <1>8, <1>12, <1>17, <2>1, <3>3, <3>4, <3>6
        <3>7. QED
            BY <3>5, <3>6
    <2>2. QED
        BY <2>1 DEF Knows
<1>23. S \subseteq DOMAIN sources
    BY <1>8
<1>24. x.known \subseteq DOMAIN sources /\ x.upto \in Nat /\ x.upto <= Len(sources)
    BY <1>3, <1>12, <1>17, <1>23 DEF RebuildPlaced
<1>25. left \subseteq r.left /\ r.errs \in Nat
    BY <1>3, <1>11 DEF Shaped
<1>26. Placed(q, sources, status[k]) /\ q.type = "rebuild" /\ q.pc # "insert"
    <2>1. SameJob(x, r) /\ x.wrote = r.wrote /\ x.acct = r.acct
        BY <1>17
    <2>2. Shaped(r, sources) /\ sources \in Seq(Source) /\ r.type = "rebuild" /\ r.pc \notin Dormant
        BY <1>2, <1>3
    <2>3. PICK e \in Nat : e = r.errs
        BY <1>25
    <2>4. WentOn(q, x, left, e)
        BY <1>20, <2>3
    <2>5. QED
        BY <1>22, <1>24, <1>25, <2>1, <2>2, <2>4, WentOnPlaced
<1>27. ASSUME NEW p \in Pairs, Owes(r, sources, p), ~Gone(sources, p) PROVE Owes(q, sources, p)
    <2>1. ~MergedAway(S, p)
        BY <1>23, <1>27 DEF MergedAway, Gone
    <2>2. p \in r.left => p \in left
        BY <1>11, <2>1
    <2>3. p \in left \/ r.errs > 0
        BY <1>2, <1>27, <2>2 DEF Owes
    <2>4. r.errs <= r.errs
        BY <1>25
    <2>5. QED
        BY <1>2, <1>17, <1>20, <1>25, <1>27, <2>3, <2>4, WentOnOwes
<1>28. Mild(k)
    BY MildAsIs DEF ReadActions
<1>29. status' = status
    BY DEF ReadActions
<1>30. QED
    BY <1>1, <1>2, <1>19, <1>26, <1>27, <1>28, <1>29, RebuildGoesOn

LEMMA RebuildPairFailsStep ==
    ASSUME HInv, NEW k \in Jobs, RebuildPairFails(k)
    PROVE  HInv'
<1>1. PICK r : r = job[k]
    OBVIOUS
<1>2. r.type = "rebuild" /\ r.pc \in {"delete", "insert"} /\ r.pc \notin Dormant /\ OpenRec(r)
    BY <1>1 DEF RebuildPairFails, Dormant, Closed, OpenRec
<1>3. /\ Placed(r, sources, status[k]) /\ Shaped(r, sources) /\ sources \in Seq(Source) /\ IsJob(r)
      /\ RebuildPlaced(r, sources)
    BY <1>1, <1>2, AtRebuild
<1>4. PICK left : left = r.left \ {Here(k)}
    OBVIOUS
<1>5. PICK d : d = GoOn(r, left)
    OBVIOUS
<1>6. WentOn(d, r, left, r.errs)
    BY <1>3, <1>5, GoOnIs
<1>7. PICK e : e = r.errs + 1
    OBVIOUS
<1>8. e \in Nat /\ e > 0 /\ r.errs \in Nat /\ r.errs <= e
    BY <1>3, <1>7 DEF Shaped
<1>9. PICK q : q = [d EXCEPT !.errs = e]
    OBVIOUS
<1>10. PICK A : d \in [Fields -> A]
    BY <1>6 DEF WentOn, SameJob, IsJob
<1>11. d.errs = r.errs
    BY <1>6 DEF WentOn
<1>12. Become(k, q)
    <2>1. Become(k, [Rebuilt(k) EXCEPT !.errs = @ + 1])
        BY DEF RebuildPairFails
    <2>2. Rebuilt(k) = d
        BY <1>1, <1>4, <1>5 DEF Rebuilt
    <2>3. [d EXCEPT !.errs = @ + 1] = q
        BY <1>7, <1>9, <1>10, <1>11 DEF Fields
    <2>4. QED
        BY <2>1, <2>2, <2>3
<1>13. WentOn(q, r, left, e)
    <2>1. PICK B : B = A \union {e}
        OBVIOUS
    <2>2. q \in [Fields -> B]
        BY <1>9, <1>10, <2>1 DEF Fields
    <2>3. q.errs = e /\ \A f \in Fields \ {"errs"} : q[f] = d[f]
        BY <1>9, <1>10 DEF Fields
    <2>4. /\ q.type = d.type /\ q.floor = d.floor /\ q.first = d.first /\ q.last = d.last
          /\ q.left = d.left /\ q.acct = d.acct /\ q.wrote = d.wrote /\ q.pc = d.pc
          /\ q.known = d.known /\ q.upto = d.upto /\ q.partial = d.partial
        BY <2>3 DEF Fields
    <2>5. QED
        BY <1>6, <2>2, <2>3, <2>4 DEF WentOn, SameJob, IsJob
<1>14. SameJob(r, r) /\ left \subseteq r.left
    BY <1>3, <1>4 DEF SameJob
<1>15. r.known \subseteq DOMAIN sources /\ r.upto \in Nat /\ r.upto <= Len(sources) /\ Knows(r, sources, Kinds)
    BY <1>2, <1>3 DEF RebuildPlaced
<1>16. Placed(q, sources, status[k]) /\ q.type = "rebuild" /\ q.pc # "insert"
    <2>1. PICK S \in Seq(Source) : S = sources
        BY <1>3
    <2>2. /\ Shaped(r, S) /\ r.type = "rebuild" /\ r.pc \notin Dormant /\ SameJob(r, r)
          /\ r.wrote = r.wrote /\ r.acct = r.acct /\ r.known \subseteq DOMAIN S /\ r.upto \in Nat
          /\ r.upto <= Len(S) /\ Knows(r, S, Kinds) /\ left \subseteq r.left /\ e \in Nat
        BY <1>2, <1>3, <1>8, <1>14, <1>15, <2>1
    <2>3. Placed(q, S, status[k]) /\ q.type = "rebuild" /\ q.pc # "insert"
        BY <1>13, <2>2, WentOnPlaced
    <2>4. QED
        BY <2>1, <2>3
<1>17. ASSUME NEW p \in Pairs, Owes(r, sources, p) PROVE Owes(q, sources, p)
    BY <1>2, <1>8, <1>13, <1>14, <1>17, WentOnOwes
<1>18. Mild(k)
    BY MildAsIs DEF RebuildPairFails
<1>19. status' = status
    BY DEF RebuildPairFails
<1>20. QED
    BY <1>1, <1>2, <1>12, <1>16, <1>17, <1>18, <1>19, RebuildGoesOn

LEMMA FinishRebuildStep ==
    ASSUME HInv, NEW k \in Jobs, FinishRebuild(k)
    PROVE  HInv'
<1>1. PICK r : r = job[k]
    OBVIOUS
<1>2. r.type = "rebuild" /\ r.pc = "end" /\ r.errs = 0 /\ r.pc \notin Dormant /\ OpenRec(r)
    BY <1>1 DEF FinishRebuild, Dormant, Closed, OpenRec
<1>3. Placed(r, sources, status[k]) /\ sources \in Seq(Source)
    BY <1>1, <1>2, AtRebuild
<1>4. PICK q : q = [Fresh(k) EXCEPT !.pc = "done", !.tries = r.tries]
    OBVIOUS
<1>5. Become(k, q)
    BY <1>1, <1>4 DEF FinishRebuild
<1>6. Renewed(q, r, "done")
    BY <1>1, <1>4, RenewedIs
<1>7. Placed(q, sources, status[k])
    BY <1>2, <1>3, <1>6, RenewedPlaced
<1>8. q.type = "rebuild" /\ q.pc # "insert"
    BY <1>2, <1>6 DEF Renewed, SameJob
<1>9. \A p \in Pairs : ~Owes(r, sources, p)
    BY <1>2 DEF Owes
<1>10. Mild(k)
    BY MildAsIs DEF FinishRebuild
<1>11. status' = status
    BY DEF FinishRebuild
<1>12. QED
    BY <1>1, <1>2, <1>5, <1>7, <1>8, <1>9, <1>10, <1>11, RebuildGoesOn

----------------------------------------------------------------------------
(* The pool runs a job again.                                               *)

LEMMA PoolRetryStep ==
    ASSUME HInv, NEW k \in Jobs, PoolRetry(k), OpenRec(job[k]),
           sources' = sources, holdings' = holdings, status' = status
    PROVE  HInv'
<1>1. PICK r : r = job[k]
    OBVIOUS
<1>2. r.pc \notin Dormant /\ OpenRec(r)
    BY <1>1 DEF OpenRec
<1>3. /\ Placed(r, sources, status[k]) /\ Shaped(r, sources) /\ sources \in Seq(Source)
      /\ \A p \in Pairs : Good(r, sources, p, holdings[p], mishap[p], status[k])
    BY <1>1, Parts
<1>4. PICK again : again = (r.tries < MaxTries)
    OBVIOUS
<1>5. PICK pc \in {"queued", "failed"} : pc = IF again THEN "queued" ELSE "failed"
    OBVIOUS
<1>6. PICK tries : tries = IF again THEN r.tries + 1 ELSE r.tries
    OBVIOUS
<1>7. PICK q : q = [Fresh(k) EXCEPT !.pc = pc, !.tries = tries]
    OBVIOUS
<1>8. PICK unmarked : unmarked = {p \in Manifest(k) : status[k][AcctOf[p]] # "SUCCESS"}
    OBVIOUS
<1>9. /\ Become(k, [Fresh(k) EXCEPT !.pc = IF again THEN "queued" ELSE "failed",
                                    !.tries = IF again THEN r.tries + 1 ELSE r.tries])
      /\ mishap' = [p \in Pairs |->
                      mishap[p] \union (IF r.type = "worker" /\ p \in unmarked \intersect r.wrote THEN {"torn"} ELSE {})
                                \union (IF ~again /\ p \in unmarked THEN {"lost"} ELSE {})]
    BY <1>1, <1>4, <1>8, Zenon DEF PoolRetry
<1>10. Become(k, q)
    BY <1>5, <1>6, <1>7, <1>9, Zenon
<1>11. Renewed(q, r, pc)
    BY <1>1, <1>7, RenewedIs
<1>12. mishap \in [Pairs -> SUBSET Mishaps] /\ status \in [Jobs -> [Accounts -> Marks]]
    BY DEF HInv, Static
<1>13. \A p \in Pairs : mishap'[p] =
                      mishap[p] \union (IF r.type = "worker" /\ p \in unmarked \intersect r.wrote THEN {"torn"} ELSE {})
                                \union (IF ~again /\ p \in unmarked THEN {"lost"} ELSE {})
    BY <1>9
<1>14. mishap' \in [Pairs -> SUBSET Mishaps]
    <2>1. \A p \in Pairs : (mishap[p] \union (IF r.type = "worker" /\ p \in unmarked \intersect r.wrote THEN {"torn"} ELSE {})
                                \union (IF ~again /\ p \in unmarked THEN {"lost"} ELSE {})) \in SUBSET Mishaps
        BY <1>12 DEF Mishaps
    <2>2. QED
        BY <1>9, <2>1
<1>15. /\ \E J : job' \in [Jobs -> J]
       /\ job'[k] = q /\ \A j \in Jobs \ {k} : job'[j] = job[j]
    BY <1>10, Becomes, Parts
<1>16. \A p \in Pairs : mishap[p] \subseteq mishap'[p] /\ ("unrebuilt" \in mishap'[p] => "unrebuilt" \in mishap[p])
    BY <1>13
<1>17. Calm(k)
    BY <1>1, <1>2, <1>12, <1>14, <1>15, <1>16 DEF Calm
<1>18. Placed(q, sources, status[k])
    BY <1>2, <1>3, <1>11, RenewedPlaced
<1>19. ASSUME NEW p \in Pairs PROVE Good(q, sources, p, holdings[p], mishap'[p], status[k])
    <2>1. PICK H : H = holdings[p]
        OBVIOUS
    <2>2. PICK M : M = mishap[p]
        OBVIOUS
    <2>3. PICK N : N = mishap'[p]
        OBVIOUS
    <2>4. Good(r, sources, p, H, M, status[k]) /\ M \subseteq N
        BY <1>3, <1>16, <2>1, <2>2, <2>3
    <2>5. ASSUME r.type = "worker", Clean(N), status[k][AcctOf[p]] # "SUCCESS" PROVE p \notin r.wrote
        <3>1. r.wrote \subseteq MineOf(r, sources) /\ Manifest(k) = MineOf(r, sources)
            BY <1>1, <1>3, MineIs DEF Shaped
        <3>2. ASSUME p \in r.wrote PROVE FALSE
            <4>1. p \in unmarked
                BY <1>8, <2>5, <3>1, <3>2
            <4>2. "torn" \in N
                BY <1>13, <2>3, <2>5, <3>2, <4>1
            <4>3. QED
                BY <2>5, <4>2 DEF Clean
        <3>3. QED
            BY <3>2
    <2>6. Good(q, sources, p, H, N, status[k])
        BY <1>2, <1>11, <2>4, <2>5, RenewedGood
    <2>7. QED
        BY <2>1, <2>3, <2>6
<1>20. ASSUME NEW p \in Pairs, Owes(r, sources, p) PROVE Owes(q, sources, p)
    <2>1. SameJob(q, r) /\ q.type = r.type /\ q.pc \in {"queued", "failed"}
        BY <1>11 DEF Renewed, SameJob
    <2>2. MineOf(q, sources) = MineOf(r, sources)
        BY <2>1, SameJobFacts
    <2>3. QED
        BY <1>20, <2>1, <2>2 DEF Owes
<1>21. Fits(k)
    BY <1>1, <1>15, <1>18, <1>19, <1>20 DEF Fits
<1>22. QED
    BY <1>17, <1>21, CalmStep

LEMMA RebuildFailsStep ==
    ASSUME HInv, NEW k \in Jobs, RebuildFails(k)
    PROVE  HInv'
<1>1. OpenRec(job[k])
    BY DEF RebuildFails, OpenRec, Dormant, Closed
<1>2. QED
    BY <1>1, PoolRetryStep DEF RebuildFails

LEMMA KilledStep ==
    ASSUME HInv, NEW k \in Jobs, Killed(k)
    PROVE  HInv'
<1>1. OpenRec(job[k])
    BY DEF Killed, Open, OpenRec
<1>2. QED
    BY <1>1, PoolRetryStep DEF Killed

----------------------------------------------------------------------------
(* What remains of a list beyond its first n.                               *)
LEMMA RestIs ==
    ASSUME NEW H, NEW S, NEW p, RowsOf(H, S, p), NEW n \in Nat, NEW G, G = SubSeq(H, n + 1, Len(H))
    PROVE  RowsOf(G, S, p)
<1>1. PICK T : H \in Seq(T)
    BY DEF RowsOf, IsList
<1>2. PICK l \in Nat : l = Len(H) /\ DOMAIN H = 1 .. l
    BY <1>1
<1>3. CASE n >= l
    <2>1. G = <<>>
        BY <1>1, <1>2, <1>3
    <2>2. IsList(G) /\ Len(G) = 0
        BY <2>1, EmptyList
    <2>3. DOMAIN G = {}
        BY <2>2, ListFacts
    <2>4. QED
        BY <2>2, <2>3 DEF RowsOf
<1>4. CASE n < l
    <2>1. G \in Seq(T) /\ Len(G) = l - n
        BY <1>1, <1>2, <1>4
    <2>2. \A m \in DOMAIN G : G[m] = H[n + m] /\ n + m \in DOMAIN H
        BY <1>1, <1>2, <1>4, <2>1
    <2>3. QED
        BY <2>1, <2>2 DEF RowsOf, IsList
<1>5. QED
    BY <1>2, <1>3, <1>4

LEMMA SingleEmpty == Single(<<>>)
BY DEF Single

LEMMA NothingBefore ==
    ASSUME NEW H, H = <<>>, NEW rows, IsList(rows)
    PROVE  H \o rows = rows
<1>1. PICK T : rows \in Seq(T)
    BY DEF IsList
<1>2. QED
    BY <1>1

(* Once each trade of p has its row, SUCCESS of p is earned.                *)
LEMMA EarnedAll ==
    ASSUME NEW S \in Seq(Source), NEW r, NEW st, Placed(r, S, st), NEW p \in Pairs, NEW H,
           \A i \in DOMAIN S : S[i].pair = p /\ S[i].kind \in {"BUY", "SELL"} => HasRow(H, i)
    PROVE  Earned(r, S, p, H, st)
<1>1. SUFFICES ASSUME r.type = "worker", st[AcctOf[p]] = "SUCCESS", NEW i \in r.first .. r.last,
                      S[i].pair = p, S[i].kind # "MISC"
               PROVE  HasRow(H, i)
    BY DEF Earned, Whole
<1>2. AcctOf[p] \in Accounts
    BY Constants
<1>3. WorkerPlaced(r, S, st) /\ Shaped(r, S)
    BY <1>1 DEF Placed
<1>4. r.pc \notin Dormant
    BY <1>1, <1>2, <1>3 DEF WorkerPlaced
<1>5. S[i].kind \in TxnKinds
    BY <1>3, <1>4 DEF WorkerPlaced
<1>6. S[i].kind \in {"BUY", "SELL"}
    BY <1>1, <1>5 DEF TxnKinds
<1>7. i \in DOMAIN S
    BY <1>3, SourceIs DEF Shaped
<1>8. QED
    BY <1>1, <1>6, <1>7

(* The other pairs a rebuild owes, it still owes.                           *)
LEMMA StillOwed ==
    ASSUME HInv, NEW k \in Jobs, NEW q, \A j \in Jobs \ {k} : job'[j] = job[j], job'[k] = q,
           NEW p \in Pairs, "unrebuilt" \in mishap[p], ~Gone(sources, p),
           Owes(job[k], sources, p) => Owes(q, sources, p)
    PROVE  \E j \in Jobs : Owes(job'[j], sources, p)
<1>1. PICK j \in Jobs : Owes(job[j], sources, p)
    BY DEF HInv, Owed
<1>2. CASE j = k
    BY <1>1, <1>2
<1>3. CASE j # k
    BY <1>1, <1>3
<1>4. QED
    BY <1>2, <1>3

----------------------------------------------------------------------------
(* A rebuild deletes the rows of a pair.                                    *)

(* What a rebuild that deletes or inserts has to hand.                      *)
LEMMA AtPair ==
    ASSUME HInv, NEW k \in Jobs, NEW r, r = job[k], r.type = "rebuild", r.pc \in {"delete", "insert"}
    PROVE  /\ HereOf(r) \in Pairs /\ HereOf(r) \in r.left /\ HereOf(r) \in MineOf(r, sources)
           /\ HereOf(r) \in AtHandOf(r) /\ AcctOf[HereOf(r)] = r.acct
           /\ r.known \subseteq DOMAIN sources /\ r.upto \in Nat /\ r.upto <= Len(sources) /\ Knows(r, sources, Kinds)
           /\ OpenRec(r) /\ r.pc \notin Dormant /\ r.errs \in Nat /\ SameJob(r, r) /\ Len(sources) \in Nat
<1>1. /\ RebuildPlaced(r, sources) /\ Shaped(r, sources) /\ IsJob(r) /\ sources \in Seq(Source)
    BY AtRebuild
<1>2. AtHandOf(r) # {}
    BY <1>1 DEF RebuildPlaced
<1>3. /\ HereOf(r) \in Pairs /\ HereOf(r) \in r.left /\ HereOf(r) \in MineOf(r, sources) /\ HereOf(r) \in AtHandOf(r)
    BY <1>2, AtRebuild
<1>4. AcctOf[HereOf(r)] = r.acct
    BY <1>3 DEF AtHandOf
<1>5. OpenRec(r) /\ r.pc \notin Dormant
    BY DEF OpenRec, Dormant, Closed
<1>6. Len(sources) \in Nat
    BY <1>1, SourceIs
<1>7. r.errs \in Nat /\ SameJob(r, r)
    BY <1>1 DEF Shaped, SameJob
<1>8. QED
    BY <1>1, <1>3, <1>4, <1>5, <1>6, <1>7 DEF RebuildPlaced

(* A rebuild that goes on with its pair, what it has to insert changed.     *)
Inserts(q, r, S, rows) ==
    /\ HereOf(q) = HereOf(r) /\ q.type = "rebuild" /\ q.pc = "insert" /\ q.rows = rows
    /\ q.left = r.left /\ OpenRec(q) /\ MineOf(q, S) = MineOf(r, S) /\ q.errs = r.errs

LEMMA InsertsOn ==
    ASSUME NEW S \in Seq(Source), NEW r, NEW st, Placed(r, S, st), r.type = "rebuild", r.pc \in {"delete", "insert"},
           NEW rows, RowsOf(rows, S, HereOf(r)), rows # <<>>,
           NEW q, q = [r EXCEPT !.rows = rows, !.pc = "insert"]
    PROVE  Placed(q, S, st) /\ Inserts(q, r, S, rows)
<1>1. Shaped(r, S) /\ RebuildPlaced(r, S) /\ IsJob(r)
    BY DEF Placed, Shaped
<1>2. /\ SameJob(q, r) /\ q.type = "rebuild" /\ q.pc = "insert" /\ q.rows = rows /\ q.left = r.left /\ q.acct = r.acct
      /\ q.wrote = r.wrote /\ q.errs = r.errs /\ q.known = r.known /\ q.upto = r.upto /\ q.partial = r.partial
    <2>1. PICK A : r \in [Fields -> A]
        BY <1>1 DEF IsJob
    <2>2. PICK B : B = A \union {rows, "insert"}
        OBVIOUS
    <2>3. rows \in B /\ "insert" \in B /\ r \in [Fields -> B]
        BY <2>1, <2>2
    <2>4. q \in [Fields -> B]
        BY <2>3
    <2>5. q.rows = rows /\ q.pc = "insert"
        BY <2>1 DEF Fields
    <2>6. \A f \in Fields \ {"rows", "pc"} : q[f] = r[f]
        BY <2>1
    <2>7. /\ q.type = r.type /\ q.floor = r.floor /\ q.first = r.first /\ q.last = r.last
          /\ q.left = r.left /\ q.acct = r.acct /\ q.wrote = r.wrote /\ q.errs = r.errs
          /\ q.known = r.known /\ q.upto = r.upto /\ q.partial = r.partial
        BY <2>6 DEF Fields
    <2>8. QED
        BY <2>4, <2>5, <2>7 DEF SameJob, IsJob
<1>3. MineOf(q, S) = MineOf(r, S)
    BY <1>2, SameJobFacts
<1>4. AtHandOf(q) = AtHandOf(r)
    BY <1>2 DEF AtHandOf
<1>5. HereOf(q) = HereOf(r)
    BY <1>4, SameHere
<1>6. Shaped(q, S)
    BY <1>1, <1>2, <1>3 DEF Shaped, SameJob, RebuildPcs, Dormant
<1>7. Knows(r, S, Kinds) /\ AtHandOf(r) # {}
    BY <1>1 DEF RebuildPlaced
<1>8. Knows(q, S, Kinds)
    BY <1>2, <1>7 DEF Knows
<1>9. RebuildPlaced(q, S)
    BY <1>1, <1>2, <1>4, <1>5, <1>7, <1>8 DEF RebuildPlaced
<1>10. OpenRec(q)
    BY <1>2 DEF OpenRec, Dormant, Closed
<1>11. QED
    BY <1>2, <1>3, <1>5, <1>6, <1>9, <1>10 DEF Placed, Inserts

(* Good of a rebuild that inserts.                                          *)
LEMMA InsertsGood ==
    ASSUME NEW q, q.type = "rebuild", NEW S, NEW p, NEW H, NEW M, NEW st,
           p = HereOf(q) /\ Clean(M) => Single(H \o q.rows),
           p = HereOf(q) /\ M \intersect {"blind", "overlap"} = {} =>
              \A i \in DOMAIN S : S[i].pair = p /\ S[i].kind \in {"BUY", "SELL"} => HasRow(H, i) \/ HasRow(q.rows, i)
    PROVE  Good(q, S, p, H, M, st)
<1>1. Solo(q, S, p) /\ Earned(q, S, p, H, st) /\ Brought(q, S, p, H)
    BY DEF Solo, Earned, Brought
<1>2. Clean(M) => Unwritten(q, S, p, H, st)
    BY DEF Unwritten
<1>3. M \intersect {"blind", "overlap"} = {} => Rewriting(q, S, p, H)
    BY DEF Rewriting
<1>4. QED
    BY <1>1, <1>2, <1>3 DEF Good

LEMMA DeletePairStep ==
    ASSUME HInv, NEW k \in Jobs, DeletePair(k)
    PROVE  HInv'
<1>1. PICK r : r = job[k]
    OBVIOUS
<1>2. r.type = "rebuild" /\ r.pc = "delete" /\ r.pc \in {"delete", "insert"}
    BY <1>1 DEF DeletePair
<1>3. /\ Placed(r, sources, status[k]) /\ Shaped(r, sources) /\ sources \in Seq(Source) /\ IsJob(r) /\ Here(k) = HereOf(r)
    BY <1>1, <1>2, AtRebuild
<1>4. PICK h : h = HereOf(r)
    OBVIOUS
<1>5. /\ h \in Pairs /\ h \in r.left /\ h \in MineOf(r, sources) /\ AcctOf[h] = r.acct
      /\ r.known \subseteq DOMAIN sources /\ r.upto \in Nat /\ r.upto <= Len(sources) /\ Knows(r, sources, Kinds)
      /\ OpenRec(r) /\ r.pc \notin Dormant /\ r.errs \in Nat /\ SameJob(r, r) /\ Len(sources) \in Nat
    BY <1>1, <1>2, <1>4, AtPair
<1>6. PICK K : K = {i \in r.known : sources[i].pair = h}
    OBVIOUS
<1>7. KnownOf(k, Here(k)) = K
    BY <1>1, <1>3, <1>4, <1>6 DEF KnownOf
<1>8. PICK rows : rows = Engine(sources, K).rows
    OBVIOUS
<1>9. Written(sources, K, rows)
    <2>1. K \in SUBSET DOMAIN sources
        BY <1>5, <1>6
    <2>2. QED
        BY <1>3, <1>8, <2>1, EngineWrites
<1>10. PICK kept : kept = SubSeq(holdings[h], DeleteCap + 1, Len(holdings[h]))
    OBVIOUS
<1>11. PICK still : still = (IF r.partial THEN {"blind"} ELSE {})
                      \union (IF Disturbed(k) \/ r.upto < Len(sources) THEN {"overlap"} ELSE {})
                      \union (IF kept # <<>> THEN {"capped"} ELSE {})
                      \union (IF rows # <<>> THEN {"unrebuilt"} ELSE {})
    OBVIOUS
<1>12. /\ holdings' = [holdings EXCEPT ![h] = kept]
       /\ mishap' = [mishap EXCEPT ![h] = still]
       /\ Become(k, IF rows = <<>> THEN Rebuilt(k) ELSE [r EXCEPT !.rows = rows, !.pc = "insert"])
    <2>1. Here(k) = h
        BY <1>3, <1>4
    <2>2. Engine(sources, KnownOf(k, Here(k))).rows = rows
        BY <1>7, <1>8
    <2>3. LET rs == Engine(sources, KnownOf(k, Here(k))).rows
              kp == SubSeq(holdings[Here(k)], DeleteCap + 1, Len(holdings[Here(k)]))
              stl == (IF job[k].partial THEN {"blind"} ELSE {})
                      \union (IF Disturbed(k) \/ job[k].upto < Len(sources) THEN {"overlap"} ELSE {})
                      \union (IF kp # <<>> THEN {"capped"} ELSE {})
                      \union (IF rs # <<>> THEN {"unrebuilt"} ELSE {})
          IN /\ holdings' = [holdings EXCEPT ![Here(k)] = kp]
             /\ mishap' = [mishap EXCEPT ![Here(k)] = stl]
             /\ Become(k, IF rs = <<>> THEN Rebuilt(k) ELSE [job[k] EXCEPT !.rows = rs, !.pc = "insert"])
        BY Zenon DEF DeletePair
    <2>4. QED
        BY <1>1, <1>10, <1>11, <2>1, <2>2, <2>3, Zenon
<1>13. sources' = sources /\ status' = status
    BY DEF DeletePair
<1>14. PICK q : q = IF rows = <<>> THEN Rebuilt(k) ELSE [r EXCEPT !.rows = rows, !.pc = "insert"]
    OBVIOUS
<1>15. /\ \E J : job' \in [Jobs -> J]
       /\ job'[k] = q /\ \A j \in Jobs \ {k} : job'[j] = job[j]
    <2>1. Become(k, q)
        BY <1>12, <1>14
    <2>2. QED
        BY <2>1, Becomes, Parts
<1>16. /\ \E H : holdings \in [Pairs -> H]
       /\ mishap \in [Pairs -> SUBSET Mishaps]
       /\ RowsOf(holdings[h], sources, h)
    BY <1>5 DEF HInv, Static
<1>17. /\ \E H : holdings' \in [Pairs -> H]
       /\ holdings'[h] = kept /\ \A p \in Pairs \ {h} : holdings'[p] = holdings[p]
    <2>1. PICK H : holdings \in [Pairs -> H]
        BY <1>16
    <2>2. PICK G : G = H \union {kept}
        OBVIOUS
    <2>3. holdings' \in [Pairs -> G]
        BY <1>12, <2>1, <2>2
    <2>4. QED
        BY <1>5, <1>12, <2>1, <2>3
<1>18. still \subseteq Mishaps
    BY <1>11 DEF Mishaps
<1>19. /\ mishap' \in [Pairs -> SUBSET Mishaps]
       /\ mishap'[h] = still /\ \A p \in Pairs \ {h} : mishap'[p] = mishap[p]
    BY <1>5, <1>12, <1>16, <1>18
<1>20. Touch(k, h)
    BY <1>1, <1>5, <1>13, <1>15, <1>17, <1>19 DEF Touch
<1>21. RowsOf(kept, sources, h)
    <2>1. DeleteCap \in Nat
        BY TableBoundsAssumption
    <2>2. PICK H : H = holdings[h]
        OBVIOUS
    <2>3. QED
        BY <1>10, <1>16, <2>1, <2>2, RestIs
<1>22. "overlap" \notin still => r.upto = Len(sources) /\ \A j \in Jobs \ {k} : ~OpenRec(job[j])
    <2>1. "overlap" \notin still => ~(Disturbed(k) \/ r.upto < Len(sources))
        BY <1>11
    <2>2. QED
        BY <1>5, <2>1 DEF Disturbed, Open, OpenRec
<1>23. "blind" \notin still => ~r.partial
    BY <1>11
<1>24. ASSUME still \intersect {"blind", "overlap"} = {}
       PROVE  \A i \in DOMAIN sources : sources[i].pair = h /\ sources[i].kind \in {"BUY", "SELL"} => HasRow(rows, i)
    <2>1. SUFFICES ASSUME NEW i \in DOMAIN sources, sources[i].pair = h, sources[i].kind \in {"BUY", "SELL"}
                   PROVE  HasRow(rows, i)
        OBVIOUS
    <2>2. r.upto = Len(sources) /\ ~r.partial
        BY <1>22, <1>23, <1>24
    <2>3. i \in 1 .. r.upto /\ sources[i].kind \in Kinds
        BY <1>3, <2>1, <2>2, SourceIs
    <2>4. i \in r.known
        BY <1>5, <2>1, <2>2, <2>3 DEF Knows
    <2>5. i \in K
        BY <1>6, <2>1, <2>4
    <2>6. QED
        BY <1>9, <2>1, <2>5 DEF Written
<1>25. Clean(still) => kept = <<>>
    BY <1>11 DEF Clean
<1>26. Clean(mishap'[h]) => Single(holdings'[h])
    BY <1>17, <1>19, <1>25, SingleEmpty
<1>27. ASSUME NEW j \in Jobs, Fair(still) PROVE Earned(job[j], sources, h, kept, status[j])
    <2>1. still \intersect {"blind", "overlap"} = {} /\ rows = <<>>
        BY <1>11, <1>27 DEF Fair
    <2>2. \A i \in DOMAIN sources : sources[i].pair = h /\ sources[i].kind \in {"BUY", "SELL"} => HasRow(rows, i)
        BY <1>24, <2>1
    <2>3. \A i : ~HasRow(rows, i)
        <3>1. IsList(rows) /\ Len(rows) = 0
            BY <2>1, EmptyList
        <3>2. DOMAIN rows = {}
            BY <3>1, ListFacts
        <3>3. QED
            BY <3>2 DEF HasRow
    <2>4. \A i \in DOMAIN sources : sources[i].pair = h /\ sources[i].kind \in {"BUY", "SELL"} => HasRow(kept, i)
        BY <2>2, <2>3
    <2>5. Placed(job[j], sources, status[j])
        BY Parts
    <2>6. QED
        BY <1>3, <1>5, <2>4, <2>5, EarnedAll
<1>28. CASE rows = <<>>
    <2>1. PICK left : left = r.left \ {h}
        OBVIOUS
    <2>2. q = GoOn(r, left)
        BY <1>1, <1>3, <1>4, <1>14, <1>28, <2>1 DEF Rebuilt
    <2>3. WentOn(q, r, left, r.errs)
        BY <1>3, <2>2, GoOnIs
    <2>4. left \subseteq r.left /\ r.errs <= r.errs
        BY <1>5, <2>1
    <2>5. Placed(q, sources, status[k]) /\ q.type = "rebuild" /\ q.pc # "insert"
        <3>1. SameJob(r, r) /\ r.pc \notin Dormant
            BY <1>5
        <3>2. r.known \subseteq DOMAIN sources /\ r.upto \in Nat /\ r.upto <= Len(sources) /\ Knows(r, sources, Kinds)
            BY <1>5
        <3>3. r.errs \in Nat /\ left \subseteq r.left
            BY <1>5, <2>4
        <3>4. QED
            BY <1>2, <1>3, <2>3, <3>1, <3>2, <3>3, WentOnPlaced
    <2>6. \A p \in Pairs : Good(q, sources, p, holdings'[p], mishap'[p], status[k])
        BY <2>5, RebuildIdle
    <2>7. ASSUME NEW p \in Pairs, "unrebuilt" \in mishap'[p], ~Gone(sources, p)
          PROVE  \E j \in Jobs : Owes(job'[j], sources, p)
        <3>1. "unrebuilt" \notin still
            BY <1>11, <1>28
        <3>2. p # h /\ "unrebuilt" \in mishap[p]
            BY <1>19, <2>7, <3>1
        <3>3. ASSUME Owes(r, sources, p) PROVE Owes(q, sources, p)
            <4>1. p \in left \/ r.errs > 0
                BY <1>2, <2>1, <3>2, <3>3 DEF Owes
            <4>2. QED
                BY <1>2, <1>5, <2>3, <2>4, <3>3, <4>1, WentOnOwes
        <3>4. QED
            BY <1>1, <1>15, <2>7, <3>2, <3>3, StillOwed
    <2>8. Kept(k, h)
        BY <1>15, <1>17, <1>19, <1>21, <1>22, <1>26, <1>27, <2>5, <2>6, <2>7 DEF Kept
    <2>9. QED
        BY <1>5, <1>20, <2>8, TableStep
<1>29. CASE rows # <<>>
    <2>1. q = [r EXCEPT !.rows = rows, !.pc = "insert"]
        BY <1>14, <1>29
    <2>2. RowsOf(rows, sources, h)
        BY <1>5, <1>6, <1>9 DEF Written, RowsOf, OfPair
    <2>3. /\ Placed(q, sources, status[k]) /\ HereOf(q) = h /\ q.type = "rebuild" /\ q.pc = "insert" /\ q.rows = rows
          /\ q.left = r.left /\ OpenRec(q) /\ MineOf(q, sources) = MineOf(r, sources) /\ q.errs = r.errs
        <3>1. RowsOf(rows, sources, HereOf(r))
            BY <1>4, <2>2
        <3>2. Placed(q, sources, status[k]) /\ Inserts(q, r, sources, rows)
            BY <1>2, <1>3, <1>29, <2>1, <3>1, InsertsOn
        <3>3. QED
            BY <1>4, <3>2 DEF Inserts
    <2>4. ASSUME NEW p \in Pairs PROVE Good(q, sources, p, holdings'[p], mishap'[p], status[k])
        <3>1. ASSUME p = h, Clean(still) PROVE Single(kept \o rows)
            <4>1. kept = <<>> /\ IsList(rows) /\ Single(rows)
                BY <1>9, <1>25, <3>1 DEF Written
            <4>2. kept \o rows = rows
                BY <4>1, NothingBefore
            <4>3. QED
                BY <4>1, <4>2
        <3>2. p = HereOf(q) /\ Clean(mishap'[p]) => Single(holdings'[p] \o q.rows)
            BY <1>17, <1>19, <2>3, <3>1
        <3>3. p = HereOf(q) /\ mishap'[p] \intersect {"blind", "overlap"} = {} =>
                 \A i \in DOMAIN sources : sources[i].pair = p /\ sources[i].kind \in {"BUY", "SELL"}
                    => HasRow(holdings'[p], i) \/ HasRow(q.rows, i)
            BY <1>19, <1>24, <2>3
        <3>4. QED
            BY <2>3, <3>2, <3>3, InsertsGood
    <2>5. ASSUME NEW p \in Pairs, "unrebuilt" \in mishap'[p], ~Gone(sources, p)
          PROVE  \E j \in Jobs : Owes(job'[j], sources, p)
        <3>1. CASE p = h
            <4>1. Owes(q, sources, h)
                BY <1>5, <2>3 DEF Owes
            <4>2. QED
                BY <1>15, <3>1, <4>1
        <3>2. CASE p # h
            <4>1. "unrebuilt" \in mishap[p]
                BY <1>19, <2>5, <3>2
            <4>2. Owes(r, sources, p) => Owes(q, sources, p)
                BY <1>2, <2>3 DEF Owes
            <4>3. QED
                BY <1>1, <1>15, <2>5, <4>1, <4>2, StillOwed
        <3>3. QED
            BY <3>1, <3>2
    <2>6. Kept(k, h)
        BY <1>15, <1>17, <1>19, <1>21, <1>22, <1>26, <1>27, <2>3, <2>4, <2>5 DEF Kept
    <2>7. QED
        BY <1>5, <1>20, <2>6, TableStep
<1>30. QED
    BY <1>28, <1>29

----------------------------------------------------------------------------
(* A rebuild inserts them.                                                  *)

(* A row moved from the list to come to the list that is there.             *)
LEMMA Shifted ==
    ASSUME NEW H, IsList(H), NEW rows, IsList(rows), rows # <<>>, NEW G, G = Append(H, Head(rows))
    PROVE  G \o Tail(rows) = H \o rows
<1>1. PICK T : H \in Seq(T)
    BY DEF IsList
<1>2. PICK V : rows \in Seq(V)
    BY DEF IsList
<1>3. PICK U : U = T \union V
    OBVIOUS
<1>4. H \in Seq(U) /\ rows \in Seq(U)
    BY <1>1, <1>2, <1>3
<1>5. Head(rows) \in U /\ Tail(rows) \in Seq(U) /\ Len(Tail(rows)) = Len(rows) - 1 /\ Len(rows) \in Nat \ {0} /\ Len(H) \in Nat
    BY <1>4
<1>6. G \in Seq(U) /\ Len(G) = Len(H) + 1
    BY <1>4, <1>5
<1>7. PICK D : D = G \o Tail(rows)
    OBVIOUS
<1>8. PICK C : C = H \o rows
    OBVIOUS
<1>9. D \in Seq(U) /\ Len(D) = Len(H) + Len(rows)
    BY <1>5, <1>6, <1>7
<1>10. C \in Seq(U) /\ Len(C) = Len(H) + Len(rows)
    BY <1>4, <1>8
<1>11. ASSUME NEW n \in 1 .. (Len(H) + Len(rows)) PROVE D[n] = C[n]
    <2>1. CASE n <= Len(H)
        <3>1. D[n] = G[n]
            BY <1>5, <1>6, <1>7, <2>1
        <3>2. G[n] = H[n]
            BY <1>4, <1>5, <2>1
        <3>3. C[n] = H[n]
            BY <1>4, <1>5, <1>8, <2>1
        <3>4. QED
            BY <3>1, <3>2, <3>3
    <2>2. CASE n = Len(H) + 1
        <3>1. D[n] = G[n]
            BY <1>5, <1>6, <1>7, <2>2
        <3>2. G[n] = Head(rows)
            BY <1>4, <1>5, <2>2
        <3>3. C[n] = rows[1]
            BY <1>4, <1>5, <1>8, <2>2
        <3>4. Head(rows) = rows[1]
            BY <1>4
        <3>5. QED
            BY <3>1, <3>2, <3>3, <3>4
    <2>3. CASE n > Len(H) + 1
        <3>1. D[n] = Tail(rows)[n - Len(G)]
            BY <1>5, <1>6, <1>7, <1>11, <2>3
        <3>2. Tail(rows)[n - Len(G)] = rows[n - Len(H)]
            BY <1>4, <1>5, <1>6, <1>11, <2>3
        <3>3. C[n] = rows[n - Len(H)]
            BY <1>4, <1>5, <1>8, <1>11, <2>3
        <3>4. QED
            BY <3>1, <3>2, <3>3
    <2>4. QED
        BY <1>5, <2>1, <2>2, <2>3
<1>12. D = C
    BY <1>9, <1>10, <1>11
<1>13. QED
    BY <1>7, <1>8, <1>12

(* The first part of a list without repetition.                             *)
LEMMA SingleFirst ==
    ASSUME NEW H, IsList(H), NEW rows, IsList(rows), Single(H \o rows)
    PROVE  Single(H)
<1>1. PICK C : C = H \o rows
    OBVIOUS
<1>2. Joined(H, rows, C)
    BY <1>1, ConcatFacts
<1>3. \A n \in DOMAIN H : n \in DOMAIN C /\ C[n] = H[n]
    BY <1>2 DEF Joined
<1>4. \A m, n \in DOMAIN C : m # n /\ C[m].src = C[n].src => C[m].type = "SPLIT"
    BY <1>1 DEF Single
<1>5. QED
    BY <1>3, <1>4 DEF Single

LEMMA InsertRebuiltStep ==
    ASSUME HInv, NEW k \in Jobs, InsertRebuilt(k)
    PROVE  HInv'
<1>1. PICK r : r = job[k]
    OBVIOUS
<1>2. r.type = "rebuild" /\ r.pc = "insert" /\ r.pc \in {"delete", "insert"}
    BY <1>1 DEF InsertRebuilt
<1>3. /\ Placed(r, sources, status[k]) /\ Shaped(r, sources) /\ sources \in Seq(Source) /\ IsJob(r) /\ Here(k) = HereOf(r)
      /\ RebuildPlaced(r, sources)
      /\ \A p \in Pairs : Good(r, sources, p, holdings[p], mishap[p], status[k])
    BY <1>1, <1>2, AtRebuild
<1>4. PICK h : h = HereOf(r)
    OBVIOUS
<1>5. /\ h \in Pairs /\ h \in r.left /\ h \in MineOf(r, sources) /\ AcctOf[h] = r.acct
      /\ r.known \subseteq DOMAIN sources /\ r.upto \in Nat /\ r.upto <= Len(sources) /\ Knows(r, sources, Kinds)
      /\ OpenRec(r) /\ r.pc \notin Dormant /\ r.errs \in Nat /\ SameJob(r, r) /\ Len(sources) \in Nat
    BY <1>1, <1>2, <1>4, AtPair
<1>6. PICK rows : rows = r.rows
    OBVIOUS
<1>7. RowsOf(rows, sources, h) /\ IsList(rows) /\ rows # <<>>
    BY <1>2, <1>3, <1>4, <1>6 DEF RebuildPlaced, RowsOf
<1>8. PICK row : row = Head(rows)
    OBVIOUS
<1>9. PICK rest : rest = Tail(rows)
    OBVIOUS
<1>10. Dropped(rows, rest)
    BY <1>7, <1>9, TailFacts
<1>11. IsList(rest) /\ row = rows[1] /\ 1 \in DOMAIN rows
    BY <1>8, <1>10 DEF Dropped
<1>12. OfPair(row, sources, h)
    BY <1>7, <1>11 DEF RowsOf
<1>13. RowsOf(rest, sources, h)
    BY <1>7, <1>10, <1>11 DEF RowsOf, Dropped
<1>14. \A i : HasRow(rows, i) => i = row.src \/ HasRow(rest, i)
    <2>1. ASSUME NEW i, HasRow(rows, i) PROVE i = row.src \/ HasRow(rest, i)
        <3>1. PICK n \in DOMAIN rows : rows[n].src = i
            BY <2>1 DEF HasRow
        <3>2. n = 1 \/ (n - 1 \in DOMAIN rest /\ rows[n] = rest[n - 1])
            BY <1>10 DEF Dropped
        <3>3. QED
            BY <1>11, <3>1, <3>2 DEF HasRow
    <2>2. QED
        BY <2>1
<1>15. /\ Insert(h, row)
       /\ IF rest = <<>>
          THEN /\ Become(k, Rebuilt(k))
               /\ mishap' = [mishap EXCEPT ![h] = @ \ {"unrebuilt"}]
          ELSE /\ Become(k, [r EXCEPT !.rows = rest])
               /\ UNCHANGED mishap
    <2>1. Here(k) = h
        BY <1>3, <1>4
    <2>2. /\ Insert(Here(k), Head(job[k].rows))
          /\ IF Tail(job[k].rows) = <<>>
             THEN /\ Become(k, Rebuilt(k))
                  /\ mishap' = [mishap EXCEPT ![Here(k)] = @ \ {"unrebuilt"}]
             ELSE /\ Become(k, [job[k] EXCEPT !.rows = Tail(job[k].rows)])
                  /\ UNCHANGED mishap
        BY Zenon DEF InsertRebuilt
    <2>3. QED
        BY <1>1, <1>6, <1>8, <1>9, <2>1, <2>2, Zenon
<1>16. sources' = sources /\ status' = status
    BY DEF InsertRebuilt
<1>17. /\ \E H : holdings \in [Pairs -> H]
       /\ mishap \in [Pairs -> SUBSET Mishaps]
       /\ RowsOf(holdings[h], sources, h)
    BY <1>5 DEF HInv, Static
<1>18. /\ \E H : holdings' \in [Pairs -> H]
       /\ holdings'[h] = Append(holdings[h], row)
       /\ \A p \in Pairs \ {h} : holdings'[p] = holdings[p]
    BY <1>5, <1>15, <1>17, Inserted
<1>19. PICK H : H = holdings[h]
    OBVIOUS
<1>20. PICK G : G = holdings'[h]
    OBVIOUS
<1>21. IsList(H) /\ G = Append(H, row) /\ RowsOf(H, sources, h)
    BY <1>17, <1>18, <1>19, <1>20 DEF RowsOf
<1>22. Grown(H, row, G)
    BY <1>21, GrownIs
<1>23. RowsOf(G, sources, h)
    BY <1>12, <1>21, <1>22, GrownRows
<1>24. G \o rest = H \o rows
    BY <1>7, <1>8, <1>9, <1>21, Shifted
<1>25. \E q : Become(k, q)
    BY <1>15
<1>26. PICK q : Become(k, q)
    BY <1>25
<1>27. /\ \E J : job' \in [Jobs -> J]
       /\ job'[k] = q /\ \A j \in Jobs \ {k} : job'[j] = job[j]
    BY <1>26, Becomes, Parts
<1>28. /\ mishap' \in [Pairs -> SUBSET Mishaps]
       /\ \A p \in Pairs \ {h} : mishap'[p] = mishap[p]
       /\ mishap'[h] = IF rest = <<>> THEN mishap[h] \ {"unrebuilt"} ELSE mishap[h]
    <2>1. CASE rest = <<>>
        <3>1. mishap' = [mishap EXCEPT ![h] = @ \ {"unrebuilt"}]
            BY <1>15, <2>1
        <3>2. QED
            BY <1>5, <1>17, <2>1, <3>1
    <2>2. CASE rest # <<>>
        BY <1>15, <1>17, <2>2
    <2>3. QED
        BY <2>1, <2>2
<1>29. Touch(k, h)
    BY <1>1, <1>5, <1>16, <1>18, <1>27, <1>28 DEF Touch
<1>30. "overlap" \notin mishap'[h] => \A j \in Jobs \ {k} : ~OpenRec(job[j])
    BY <1>1, <1>5, <1>28 DEF HInv, Alone
<1>31. ASSUME Clean(mishap'[h]) PROVE Single(G \o rest) /\ Single(G)
    <2>1. Clean(mishap[h])
        BY <1>28, <1>31 DEF Clean
    <2>2. Good(r, sources, h, H, mishap[h], status[k])
        BY <1>3, <1>5, <1>19
    <2>3. Single(H \o rows)
        BY <1>2, <1>4, <1>6, <2>1, <2>2 DEF Good, Unwritten
    <2>4. Single(G \o rest)
        BY <1>24, <2>3
    <2>5. IsList(G)
        BY <1>22 DEF Grown
    <2>6. QED
        BY <1>11, <2>4, <2>5, SingleFirst
<1>32. ASSUME mishap'[h] \intersect {"blind", "overlap"} = {}
       PROVE  \A i \in DOMAIN sources : sources[i].pair = h /\ sources[i].kind \in {"BUY", "SELL"}
                 => HasRow(G, i) \/ HasRow(rest, i)
    <2>1. mishap[h] \intersect {"blind", "overlap"} = {}
        BY <1>28, <1>32
    <2>2. Good(r, sources, h, H, mishap[h], status[k])
        BY <1>3, <1>5, <1>19
    <2>3. Rewriting(r, sources, h, H)
        BY <2>1, <2>2 DEF Good
    <2>4. \A i \in DOMAIN sources : sources[i].pair = h /\ sources[i].kind \in {"BUY", "SELL"}
                 => HasRow(H, i) \/ HasRow(rows, i)
        BY <1>2, <1>4, <1>6, <2>3 DEF Rewriting
    <2>5. QED
        BY <1>14, <1>22, <2>4 DEF Grown
<1>33. ASSUME NEW j \in Jobs, Fair(mishap'[h]) PROVE Earned(job[j], sources, h, G, status[j])
    <2>1. CASE rest = <<>>
        <3>1. mishap'[h] \intersect {"blind", "overlap"} = {}
            BY <1>33 DEF Fair
        <3>2. \A i : ~HasRow(rest, i)
            <4>1. Len(rest) = 0
                BY <2>1
            <4>2. DOMAIN rest = {}
                BY <1>11, <4>1, ListFacts
            <4>3. QED
                BY <4>2 DEF HasRow
        <3>3. \A i \in DOMAIN sources : sources[i].pair = h /\ sources[i].kind \in {"BUY", "SELL"} => HasRow(G, i)
            BY <1>32, <3>1, <3>2
        <3>4. Placed(job[j], sources, status[j])
            BY Parts
        <3>5. QED
            BY <1>3, <1>5, <3>3, <3>4, EarnedAll
    <2>2. CASE rest # <<>>
        <3>1. Fair(mishap[h])
            BY <1>28, <1>33, <2>2
        <3>2. Good(job[j], sources, h, H, mishap[h], status[j])
            BY <1>5, <1>19, Parts
        <3>3. Earned(job[j], sources, h, H, status[j])
            BY <3>1, <3>2 DEF Good
        <3>4. QED
            BY <1>22, <3>3, WholeGrows
    <2>3. QED
        BY <2>1, <2>2
<1>34. CASE rest = <<>>
    <2>1. PICK left : left = r.left \ {h}
        OBVIOUS
    <2>2. PICK d : d = GoOn(r, left)
        OBVIOUS
    <2>3. WentOn(d, r, left, r.errs)
        BY <1>3, <2>2, GoOnIs
    <2>4. job'[k] = d
        <3>1. Rebuilt(k) = d
            BY <1>1, <1>3, <1>4, <2>1, <2>2 DEF Rebuilt
        <3>2. Become(k, d)
            BY <1>15, <1>34, <3>1
        <3>3. QED
            BY <3>2, Becomes, Parts
    <2>5. left \subseteq r.left /\ r.errs <= r.errs
        BY <1>5, <2>1
    <2>6. Placed(d, sources, status[k]) /\ d.type = "rebuild" /\ d.pc # "insert"
        <3>1. SameJob(r, r) /\ r.pc \notin Dormant
            BY <1>5
        <3>2. r.known \subseteq DOMAIN sources /\ r.upto \in Nat /\ r.upto <= Len(sources) /\ Knows(r, sources, Kinds)
            BY <1>5
        <3>3. r.errs \in Nat /\ left \subseteq r.left
            BY <1>5, <2>5
        <3>4. Shaped(r, sources) /\ sources \in Seq(Source) /\ r.type = "rebuild"
            BY <1>2, <1>3
        <3>5. r.wrote = r.wrote
            OBVIOUS
        <3>6. PICK e \in Nat : e = r.errs
            BY <1>5
        <3>7. PICK S \in Seq(Source) : S = sources
            BY <3>4
        <3>8. /\ Shaped(r, S) /\ r.type = "rebuild" /\ r.pc \notin Dormant /\ SameJob(r, r)
              /\ r.wrote = r.wrote /\ r.acct = r.acct /\ r.known \subseteq DOMAIN S /\ r.upto \in Nat
              /\ r.upto <= Len(S) /\ Knows(r, S, Kinds) /\ left \subseteq r.left
            BY <3>1, <3>2, <3>3, <3>4, <3>7
        <3>9. WentOn(d, r, left, e)
            BY <2>3, <3>6
        <3>10. Placed(d, S, status[k]) /\ d.type = "rebuild" /\ d.pc # "insert"
            BY <3>8, <3>9, WentOnPlaced
        <3>11. QED
            BY <3>7, <3>10
    <2>7. \A p \in Pairs : Good(d, sources, p, holdings'[p], mishap'[p], status[k])
        BY <2>6, RebuildIdle
    <2>8. ASSUME NEW p \in Pairs, "unrebuilt" \in mishap'[p], ~Gone(sources, p)
          PROVE  \E j \in Jobs : Owes(job'[j], sources, p)
        <3>1. p # h /\ "unrebuilt" \in mishap[p]
            BY <1>28, <1>34, <2>8
        <3>2. ASSUME Owes(r, sources, p) PROVE Owes(d, sources, p)
            <4>1. p \in left \/ r.errs > 0
                BY <1>2, <2>1, <3>1, <3>2 DEF Owes
            <4>2. SameJob(r, r) /\ r.errs \in Nat
                BY <1>5
            <4>3. QED
                BY <1>2, <2>3, <2>5, <3>2, <4>1, <4>2, WentOnOwes
        <3>3. QED
            BY <1>1, <1>27, <2>4, <2>8, <3>1, <3>2, StillOwed
    <2>9. Clean(mishap'[h]) => Single(holdings'[h])
        BY <1>20, <1>31
    <2>10. Kept(k, h)
        BY <1>20, <1>23, <1>30, <1>33, <2>4, <2>6, <2>7, <2>8, <2>9 DEF Kept
    <2>11. QED
        BY <1>5, <1>29, <2>10, TableStep
<1>35. CASE rest # <<>>
    <2>1. PICK d : d = [r EXCEPT !.rows = rest, !.pc = "insert"]
        OBVIOUS
    <2>2. d = [r EXCEPT !.rows = rest]
        <3>1. PICK A : r \in [Fields -> A]
            BY <1>3 DEF IsJob
        <3>2. QED
            BY <1>2, <2>1, <3>1 DEF Fields
    <2>3. job'[k] = d
        <3>1. Become(k, d)
            BY <1>15, <1>35, <2>2
        <3>2. QED
            BY <3>1, Becomes, Parts
    <2>4. Placed(d, sources, status[k]) /\ Inserts(d, r, sources, rest)
        <3>1. RowsOf(rest, sources, HereOf(r))
            BY <1>4, <1>13
        <3>2. QED
            BY <1>2, <1>3, <1>35, <2>1, <3>1, InsertsOn
    <2>5. ASSUME NEW p \in Pairs PROVE Good(d, sources, p, holdings'[p], mishap'[p], status[k])
        <3>1. d.type = "rebuild" /\ HereOf(d) = h /\ d.rows = rest
            BY <1>4, <2>4 DEF Inserts
        <3>2. p = HereOf(d) /\ Clean(mishap'[p]) => Single(holdings'[p] \o d.rows)
            BY <1>20, <1>31, <3>1
        <3>3. p = HereOf(d) /\ mishap'[p] \intersect {"blind", "overlap"} = {} =>
                 \A i \in DOMAIN sources : sources[i].pair = p /\ sources[i].kind \in {"BUY", "SELL"}
                    => HasRow(holdings'[p], i) \/ HasRow(d.rows, i)
            BY <1>20, <1>32, <3>1
        <3>4. QED
            BY <3>1, <3>2, <3>3, InsertsGood
    <2>6. ASSUME NEW p \in Pairs, "unrebuilt" \in mishap'[p], ~Gone(sources, p)
          PROVE  \E j \in Jobs : Owes(job'[j], sources, p)
        <3>1. "unrebuilt" \in mishap[p]
            BY <1>28, <1>35, <2>6
        <3>2. Owes(r, sources, p) => Owes(d, sources, p)
            BY <1>2, <2>4 DEF Owes, Inserts
        <3>3. QED
            BY <1>1, <1>27, <2>3, <2>6, <3>1, <3>2, StillOwed
    <2>7. Clean(mishap'[h]) => Single(holdings'[h])
        BY <1>20, <1>31
    <2>8. Kept(k, h)
        BY <1>20, <1>23, <1>30, <1>33, <2>3, <2>4, <2>5, <2>6, <2>7 DEF Kept
    <2>9. QED
        BY <1>5, <1>29, <2>8, TableStep
<1>36. QED
    BY <1>34, <1>35

----------------------------------------------------------------------------
(* A job arrives.                                                           *)

(* A job that has not begun: it has no status and owes nothing.             *)
LEMMA Unborn ==
    ASSUME NEW S \in Seq(Source), NEW r, NEW st, Placed(r, S, st), r.pc \in Dormant
    PROVE  /\ r.type = "worker" /\ r.floor \in Int /\ r.floor <= Len(S) /\ ~OpenRec(r)
           /\ \A a \in Accounts : st[a] = "none"
           /\ \A p : ~Owes(r, S, p)
<1>1. r.type = "worker"
    BY DEF Placed, Shaped, RebuildPcs, Dormant, Closed
<1>2. r.floor \in Int /\ r.floor <= Len(S) /\ \A a \in Accounts : st[a] = "none"
    BY <1>1 DEF Placed, Shaped, WorkerPlaced
<1>3. ~OpenRec(r) /\ \A p : ~Owes(r, S, p)
    BY <1>1 DEF OpenRec, Owes
<1>4. QED
    BY <1>1, <1>2, <1>3

LEMMA SomeOpenIs == SomeOpen <=> \E j \in Jobs : OpenRec(job[j])
BY DEF SomeOpen, Open, OpenRec

(* A job arrives, with sources after all there are.                         *)
Arrives(k, T) ==
    /\ Extends(T, sources) /\ sources' = T /\ holdings' = holdings /\ status' = status
    /\ \E J : job' \in [Jobs -> J]
    /\ \A j \in Jobs \ {k} : job'[j] = job[j]
    /\ mishap' \in [Pairs -> SUBSET Mishaps]
    /\ \A p \in Pairs : /\ mishap[p] \subseteq mishap'[p]
                        /\ "unrebuilt" \in mishap'[p] => "unrebuilt" \in mishap[p]
                        /\ SomeOpen => "overlap" \in mishap'[p]
    /\ job[k].pc \in Dormant

LEMMA ArrivesStep ==
    ASSUME HInv, NEW k \in Jobs, NEW T, Arrives(k, T), Placed(job'[k], T, status[k]),
           \A p \in Pairs : Good(job'[k], T, p, holdings[p], mishap'[p], status[k])
    PROVE  HInv'
<1>1. Extends(T, sources) /\ T \in Seq(Source) /\ sources \in Seq(Source)
    BY DEF Arrives, Extends
<1>2. ASSUME NEW j \in Jobs PROVE Placed(job'[j], T, status[j])
    <2>1. CASE j = k
        BY <2>1
    <2>2. CASE j # k
        <3>1. Placed(job[j], sources, status[j])
            BY Parts
        <3>2. Placed(job[j], T, status[j])
            BY <1>1, <3>1, PlacedGrows
        <3>3. QED
            BY <2>2, <3>2 DEF Arrives
    <2>3. QED
        BY <2>1, <2>2
<1>3. ASSUME NEW p \in Pairs PROVE RowsOf(holdings[p], T, p)
    <2>1. RowsOf(holdings[p], sources, p)
        BY DEF HInv, Static
    <2>2. QED
        BY <1>1, <2>1, RowsGrow
<1>4. Static'
    <2>1. /\ sources' \in Seq(Source)
          /\ \E H : holdings' \in [Pairs -> H]
          /\ \E J : job' \in [Jobs -> J]
          /\ status' \in [Jobs -> [Accounts -> Marks]]
          /\ mishap' \in [Pairs -> SUBSET Mishaps]
        BY <1>1 DEF HInv, Static, Arrives
    <2>2. \A p \in Pairs : RowsOf(holdings'[p], sources', p)
        BY <1>3 DEF Arrives
    <2>3. \A j \in Jobs : Placed(job'[j], sources', status'[j])
        BY <1>2 DEF Arrives
    <2>4. QED
        BY <2>1, <2>2, <2>3 DEF Static
<1>5. ASSUME NEW p \in Pairs
      PROVE  /\ Alone(p)' /\ (Clean(mishap'[p]) => Single(holdings'[p])) /\ Owed(p)'
             /\ \A j \in Jobs : Good(job'[j], sources', p, holdings'[p], mishap'[p], status'[j])
    <2>1. mishap[p] \subseteq mishap'[p] /\ (SomeOpen => "overlap" \in mishap'[p])
        BY DEF Arrives
    <2>2. \A j \in Jobs \ {k} : OpenRec(job'[j]) => "overlap" \in mishap'[p]
        BY <2>1, SomeOpenIs DEF Arrives
    <2>3. Alone(p)'
        BY <2>2 DEF Alone
    <2>4. Clean(mishap'[p]) => Single(holdings'[p])
        <3>1. Clean(mishap'[p]) => Clean(mishap[p])
            BY <2>1 DEF Clean
        <3>2. Clean(mishap[p]) => Single(holdings[p])
            BY DEF HInv
        <3>3. QED
            BY <3>1, <3>2 DEF Arrives
    <2>5. ASSUME NEW j \in Jobs PROVE Good(job'[j], sources', p, holdings'[p], mishap'[p], status'[j])
        <3>1. CASE j = k
            BY <3>1 DEF Arrives
        <3>2. CASE j # k
            <4>1. PICK r : r = job[j]
                OBVIOUS
            <4>2. Good(r, sources, p, holdings[p], mishap[p], status[j]) /\ Shaped(r, sources)
                BY <4>1, Parts
            <4>3. ASSUME Fair(mishap'[p]) PROVE Earned(r, T, p, holdings[p], status[j])
                <5>1. Fair(mishap[p])
                    BY <2>1, <4>3 DEF Fair
                <5>2. Earned(r, sources, p, holdings[p], status[j])
                    BY <4>2, <5>1 DEF Good
                <5>3. \A i \in r.first .. r.last : T[i] = sources[i]
                    BY <1>1, <4>2, MineGrows
                <5>4. QED
                    BY <5>2, <5>3 DEF Earned, Whole
            <4>4. OpenRec(r) => "overlap" \in mishap'[p]
                BY <2>2, <3>2, <4>1 DEF Arrives
            <4>5. Good(r, T, p, holdings[p], mishap'[p], status[j])
                BY <4>3, <4>4, GoodOther
            <4>6. job'[j] = r
                BY <3>2, <4>1 DEF Arrives
            <4>7. QED
                BY <4>5, <4>6 DEF Arrives
        <3>3. QED
            BY <3>1, <3>2
    <2>6. Owed(p)'
        <3>1. SUFFICES ASSUME "unrebuilt" \in mishap'[p], ~Gone(sources', p)
                       PROVE  \E j \in Jobs : Owes(job'[j], sources', p)
            BY DEF Owed
        <3>2. "unrebuilt" \in mishap[p]
            BY <3>1 DEF Arrives
        <3>3. ~Gone(sources, p)
            BY <1>1, <3>1 DEF Gone, Extends, Arrives
        <3>4. PICK j \in Jobs : Owes(job[j], sources, p)
            BY <3>2, <3>3 DEF HInv, Owed
        <3>5. Placed(job[k], sources, status[k])
            BY Parts
        <3>6. j # k
            BY <1>1, <3>4, <3>5, Unborn DEF Arrives
        <3>7. Shaped(job[j], sources)
            BY Parts
        <3>8. MineOf(job[j], T) = MineOf(job[j], sources)
            BY <1>1, <3>7, MineGrows
        <3>9. Owes(job[j], T, p)
            BY <3>4, <3>8 DEF Owes
        <3>10. QED
            BY <3>6, <3>9 DEF Arrives
    <2>7. QED
        BY <2>3, <2>4, <2>5, <2>6
<1>6. QED
    BY <1>4, <1>5 DEF HInv

----------------------------------------------------------------------------
(* Uploads and corporate actions.                                           *)

LEMMA StartImportStep ==
    ASSUME HInv, NEW k \in Jobs, StartImport(k)
    PROVE  HInv'
<1>1. PICK r : r = job[k]
    OBVIOUS
<1>2. r.pc = "absent" /\ r.pc \in Dormant
    BY <1>1 DEF StartImport, NextJob, Dormant
<1>3. /\ sources \in Seq(Source) /\ Placed(r, sources, status[k])
    BY <1>1, Parts
<1>4. /\ \A a \in Accounts : status[k][a] = "none"
      /\ \A p : ~Owes(r, sources, p)
    BY <1>2, <1>3, Unborn
<1>5. Len(sources) \in Nat /\ SlackRows \in Nat
    BY <1>3, TableBoundsAssumption
<1>6. PICK floor \in (Len(sources) - SlackRows) .. Len(sources) :
         Become(k, [NewJob("worker", floor, 1, 0) EXCEPT !.pc = "importing"])
    BY DEF StartImport
<1>7. floor \in Int /\ floor <= Len(sources)
    BY <1>5
<1>8. PICK n : n = NewJob("worker", floor, 1, 0)
    OBVIOUS
<1>9. Newborn(n, "worker", floor, 1, 0)
    BY <1>8, NewJobIs
<1>10. PICK q : q = [n EXCEPT !.pc = "importing"]
    OBVIOUS
<1>11. PICK A : n \in [Fields -> A]
    BY <1>9 DEF Newborn, IsJob
<1>12. PICK D : D = A \union {"importing"}
    OBVIOUS
<1>13. q \in [Fields -> D] /\ q.pc = "importing" /\ \A y \in Fields \ {"pc"} : q[y] = n[y]
    <2>1. n \in [Fields -> D] /\ "importing" \in D
        BY <1>11, <1>12
    <2>2. "pc" \in Fields
        BY DEF Fields
    <2>3. q \in [Fields -> D]
        BY <1>10, <2>1, <2>2
    <2>4. q.pc = "importing" /\ \A y \in Fields \ {"pc"} : q[y] = n[y]
        BY <1>10, <1>11, <2>2
    <2>5. QED
        BY <2>3, <2>4
<1>14. /\ q.pc = "importing" /\ q.type = "worker" /\ q.floor = floor /\ q.first = 1 /\ q.last = 0
       /\ q.left = {} /\ q.acct = AcctOf[1] /\ q.errs = 0 /\ q.wrote = {} /\ IsJob(q)
    BY <1>9, <1>13 DEF Newborn, Fields, IsJob
<1>15. Become(k, q)
    BY <1>6, <1>8, <1>10
<1>16. /\ \E J : job' \in [Jobs -> J]
       /\ job'[k] = q /\ \A j \in Jobs \ {k} : job'[j] = job[j]
    BY <1>15, Becomes, Parts
<1>17. /\ q.pc \in Dormant /\ q.pc \in WorkerPcs /\ q.pc \notin InHand
       /\ q.pc \notin {"queued", "tail", "rows", "insert", "read", "mark"} /\ ~OpenRec(q)
    BY <1>14 DEF Dormant, WorkerPcs, InHand, OpenRec
<1>18. Placed(q, sources, status[k])
    <2>1. q.acct \in Accounts
        BY <1>14, Constants
    <2>2. Shaped(q, sources)
        BY <1>5, <1>7, <1>14, <1>17, <2>1 DEF Shaped
    <2>3. WorkerPlaced(q, sources, status[k])
        BY <1>4, <1>7, <1>14, <1>17 DEF WorkerPlaced
    <2>4. QED
        BY <1>14, <2>2, <2>3 DEF Placed
<1>19. ASSUME NEW p \in Pairs PROVE Good(q, sources, p, holdings[p], mishap[p], status[k])
    <2>1. AcctOf[p] \in Accounts
        BY Constants
    <2>2. status[k][AcctOf[p]] # "SUCCESS"
        BY <1>4, <2>1
    <2>3. Earned(q, sources, p, holdings[p], status[k])
        BY <2>2 DEF Earned
    <2>4. QED
        BY <1>17, <2>3, GoodOther
<1>20. sources' = sources /\ holdings' = holdings /\ status' = status /\ mishap' = mishap
    BY DEF StartImport
<1>21. Calm(k)
    BY <1>16, <1>17, <1>20 DEF Calm, HInv, Static
<1>22. Fits(k)
    BY <1>1, <1>4, <1>16, <1>18, <1>19, <1>20 DEF Fits
<1>23. QED
    BY <1>21, <1>22, CalmStep

(* What the two uploads do to mishap.                                       *)
LEMMA Overlaps ==
    ASSUME HInv, NEW S, \A p \in Pairs : SomeOpen => p \in S, Blame(S, "overlap")
    PROVE  /\ mishap' \in [Pairs -> SUBSET Mishaps]
           /\ \A p \in Pairs : /\ mishap[p] \subseteq mishap'[p]
                               /\ "unrebuilt" \in mishap'[p] => "unrebuilt" \in mishap[p]
                               /\ SomeOpen => "overlap" \in mishap'[p]
                               /\ p \in S => "overlap" \in mishap'[p]
<1>1. "overlap" \in Mishaps
    BY DEF Mishaps
<1>2. /\ mishap' \in [Pairs -> SUBSET Mishaps]
      /\ \A p \in Pairs : mishap'[p] = IF p \in S THEN mishap[p] \union {"overlap"} ELSE mishap[p]
    BY <1>1, BlameIs
<1>3. ASSUME NEW p \in Pairs
      PROVE  /\ mishap[p] \subseteq mishap'[p]
             /\ "unrebuilt" \in mishap'[p] => "unrebuilt" \in mishap[p]
             /\ SomeOpen => "overlap" \in mishap'[p]
             /\ p \in S => "overlap" \in mishap'[p]
    BY <1>2
<1>4. QED
    BY <1>2, <1>3

LEMMA ImportLandsStep ==
    ASSUME HInv, NEW k \in Jobs, ImportLands(k)
    PROVE  HInv'
<1>1. PICK r : r = job[k]
    OBVIOUS
<1>2. r.pc \in Dormant
    BY <1>1 DEF ImportLands, Dormant
<1>3. PICK S \in Seq(Source) : S = sources
    BY Parts
<1>4. Placed(r, S, status[k])
    BY <1>1, <1>3, Parts
<1>5. /\ r.floor \in Int /\ r.floor <= Len(S)
      /\ \A a \in Accounts : status[k][a] = "none"
    BY <1>2, <1>4, Unborn
<1>6. PICK b \in Batches :
         /\ sources' = sources \o b
         /\ Become(k, NewJob("worker", job[k].floor, Len(sources) + 1, Len(sources) + Len(b)))
    BY DEF ImportLands
<1>7. b # <<>> /\ b \in Seq(Source) /\ \A i \in DOMAIN b : b[i].kind \in TxnKinds
    BY SourcesGiven
<1>8. Len(b) \in Nat \ {0} /\ Len(S) \in Nat
    BY <1>7
<1>9. PICK T : T = S \o b
    OBVIOUS
<1>10. /\ Extends(T, S) /\ Len(T) = Len(S) + Len(b)
       /\ \A i \in (Len(S) + 1) .. Len(T) : i - Len(S) \in DOMAIN b /\ T[i] = b[i - Len(S)]
    <2>1. b \in Seq(Source)
        BY <1>7
    <2>2. Extends(T, S) /\ Len(T) = Len(S) + Len(b)
        BY <1>9, <2>1, Extended
    <2>3. ASSUME NEW i \in (Len(S) + 1) .. Len(T) PROVE i - Len(S) \in DOMAIN b /\ T[i] = b[i - Len(S)]
        <3>1. i \in Nat /\ i > Len(S) /\ i <= Len(S) + Len(b)
            BY <1>8, <2>2
        <3>2. QED
            BY <1>8, <1>9, <2>1, <3>1
    <2>4. QED
        BY <2>2, <2>3
<1>11. PICK q : q = NewJob("worker", r.floor, Len(S) + 1, Len(T))
    OBVIOUS
<1>12. Newborn(q, "worker", r.floor, Len(S) + 1, Len(T))
    BY <1>11, NewJobIs
<1>13. Become(k, q) /\ sources' = T
    BY <1>1, <1>3, <1>6, <1>9, <1>10, <1>11
<1>14. /\ \E J : job' \in [Jobs -> J]
       /\ job'[k] = q /\ \A j \in Jobs \ {k} : job'[j] = job[j]
    BY <1>13, Becomes, Parts
<1>15. PICK B : B = {p \in Pairs : SomeOpen \/ NewTxns(k, p) # {}}
    OBVIOUS
<1>16. /\ mishap' \in [Pairs -> SUBSET Mishaps]
       /\ \A p \in Pairs : /\ mishap[p] \subseteq mishap'[p]
                           /\ "unrebuilt" \in mishap'[p] => "unrebuilt" \in mishap[p]
                           /\ SomeOpen => "overlap" \in mishap'[p]
                           /\ p \in B => "overlap" \in mishap'[p]
    <2>1. Blame(B, "overlap")
        BY <1>15 DEF ImportLands
    <2>2. \A p \in Pairs : SomeOpen => p \in B
        BY <1>15
    <2>3. QED
        BY <2>1, <2>2, Overlaps
<1>17. Arrives(k, T)
    BY <1>1, <1>2, <1>3, <1>10, <1>13, <1>14, <1>16 DEF Arrives, ImportLands
<1>18. /\ IsJob(q) /\ q.type = "worker" /\ q.pc = "queued" /\ q.floor = r.floor /\ q.first = Len(S) + 1
       /\ q.last = Len(T) /\ q.left = {} /\ q.acct = AcctOf[1] /\ q.errs = 0 /\ q.wrote = {}
    BY <1>12 DEF Newborn
<1>19. /\ q.pc \in WorkerPcs /\ q.pc \notin Dormant /\ q.pc \notin InHand
       /\ q.pc \notin {"tail", "rows", "insert", "read", "mark"}
    BY <1>18 DEF Dormant, WorkerPcs, InHand, Closed
<1>20. Placed(q, T, status[k])
    <2>1. q.acct \in Accounts
        BY <1>18, Constants
    <2>2. q.floor \in Int /\ q.first \in Nat \ {0} /\ q.last \in Nat /\ q.last <= Len(T) /\ q.first <= q.last
          /\ q.floor < q.first
        BY <1>5, <1>8, <1>10, <1>18
    <2>3. Shaped(q, T)
        BY <1>18, <1>19, <2>1, <2>2 DEF Shaped
    <2>4. \A i \in q.first .. q.last : T[i].kind \in TxnKinds
        BY <1>7, <1>10, <1>18
    <2>5. WorkerPlaced(q, T, status[k])
        BY <1>18, <1>19, <2>2, <2>4 DEF WorkerPlaced
    <2>6. QED
        BY <1>18, <2>3, <2>5 DEF Placed
<1>21. ASSUME NEW p \in Pairs PROVE Good(q, T, p, holdings[p], mishap'[p], status[k])
    <2>1. ASSUME "overlap" \notin mishap'[p], NEW i \in NewOf(q, T, p) PROVE i \notin DOMAIN S /\ q.first <= i
        <3>1. NewTxns(k, p) = {}
            BY <1>15, <1>16, <2>1
        <3>2. NewOf(r, S, p) = {}
            BY <1>1, <1>3, <3>1, MineIs
        <3>3. i \in DOMAIN T /\ T[i].pair = p /\ i > r.floor /\ T[i].kind \in TxnKinds
            BY <1>18, <2>1 DEF NewOf
        <3>4. i \in DOMAIN S => T[i] = S[i]
            BY <1>10 DEF Extends
        <3>5. i \notin DOMAIN S
            BY <3>2, <3>3, <3>4 DEF NewOf
        <3>6. T \in Seq(Source)
            BY <1>10 DEF Extends
        <3>7. i \in 1 .. Len(T) /\ DOMAIN S = 1 .. Len(S)
            BY <3>3, <3>6, SourceIs
        <3>8. QED
            BY <1>8, <1>18, <3>5, <3>7
    <2>2. status[k][AcctOf[p]] # "SUCCESS"
        BY <1>5, Constants
    <2>3. "overlap" \notin mishap'[p] => Solo(q, T, p)
        BY <1>18, <2>1 DEF Solo
    <2>4. ASSUME Clean(mishap'[p]) PROVE Unwritten(q, T, p, holdings[p], status[k])
        <3>1. "overlap" \notin mishap'[p]
            BY <2>4 DEF Clean
        <3>2. RowsOf(holdings[p], S, p)
            BY <1>3 DEF HInv, Static
        <3>3. \A n \in DOMAIN holdings[p] : holdings[p][n].src \in DOMAIN S
            BY <3>2 DEF RowsOf, OfPair
        <3>4. \A i \in NewOf(q, T, p) : ~HasRow(holdings[p], i)
            BY <2>1, <3>1, <3>3 DEF HasRow
        <3>5. QED
            BY <1>18, <1>19, <3>4 DEF Unwritten
    <2>5. Earned(q, T, p, holdings[p], status[k])
        BY <2>2 DEF Earned
    <2>6. Brought(q, T, p, holdings[p])
        BY <1>19 DEF Brought
    <2>7. Rewriting(q, T, p, holdings[p])
        BY <1>18 DEF Rewriting
    <2>8. QED
        BY <2>3, <2>4, <2>5, <2>6, <2>7 DEF Good
<1>22. QED
    BY <1>14, <1>17, <1>20, <1>21, ArrivesStep

LEMMA DeclareStep ==
    ASSUME HInv, NEW k \in Jobs, Declare(k)
    PROVE  HInv'
<1>1. job[k].pc \in Dormant
    BY DEF Declare, NextJob, Dormant
<1>2. PICK S \in Seq(Source) : S = sources
    BY Parts
<1>3. PICK d \in Deeds :
         /\ sources' = sources \o d
         /\ Become(k, NewJob("rebuild", 0, Len(sources) + 1, Len(sources) + Len(d)))
    BY DEF Declare
<1>4. d # <<>> /\ d \in Seq(Source)
    BY SourcesGiven
<1>5. Len(d) \in Nat \ {0} /\ Len(S) \in Nat
    BY <1>4
<1>6. PICK T : T = S \o d
    OBVIOUS
<1>7. Extends(T, S) /\ Len(T) = Len(S) + Len(d)
    BY <1>4, <1>6, Extended
<1>8. PICK q : q = NewJob("rebuild", 0, Len(S) + 1, Len(T))
    OBVIOUS
<1>9. Newborn(q, "rebuild", 0, Len(S) + 1, Len(T))
    BY <1>8, NewJobIs
<1>10. Become(k, q) /\ sources' = T
    BY <1>2, <1>3, <1>6, <1>7, <1>8
<1>11. /\ \E J : job' \in [Jobs -> J]
       /\ job'[k] = q /\ \A j \in Jobs \ {k} : job'[j] = job[j]
    BY <1>10, Becomes, Parts
<1>12. PICK B : B = {p \in Pairs : SomeOpen}
    OBVIOUS
<1>13. /\ mishap' \in [Pairs -> SUBSET Mishaps]
       /\ \A p \in Pairs : /\ mishap[p] \subseteq mishap'[p]
                           /\ "unrebuilt" \in mishap'[p] => "unrebuilt" \in mishap[p]
                           /\ SomeOpen => "overlap" \in mishap'[p]
    <2>1. Blame(B, "overlap")
        BY <1>12 DEF Declare
    <2>2. \A p \in Pairs : SomeOpen => p \in B
        BY <1>12
    <2>3. QED
        BY <2>1, <2>2, Overlaps
<1>14. Arrives(k, T)
    BY <1>1, <1>2, <1>7, <1>10, <1>11, <1>13 DEF Arrives, Declare
<1>15. /\ IsJob(q) /\ q.type = "rebuild" /\ q.pc = "queued" /\ q.floor = 0 /\ q.first = Len(S) + 1
       /\ q.last = Len(T) /\ q.left = {} /\ q.acct = AcctOf[1] /\ q.errs = 0 /\ q.wrote = {}
       /\ q.known = {} /\ q.upto = 0
    BY <1>9 DEF Newborn
<1>16. q.pc \in RebuildPcs /\ q.pc \notin Dormant
       /\ q.pc \notin {"txns", "actions", "delete", "insert"}
    BY <1>15 DEF Dormant, RebuildPcs
<1>17. Placed(q, T, status[k])
    <2>1. q.acct \in Accounts
        BY <1>15, Constants
    <2>2. q.floor \in Int /\ q.first \in Nat \ {0} /\ q.last \in Nat /\ q.last <= Len(T) /\ q.first <= q.last
        BY <1>5, <1>7, <1>15
    <2>3. Shaped(q, T)
        BY <1>15, <1>16, <2>1, <2>2 DEF Shaped
    <2>4. RebuildPlaced(q, T)
        BY <1>5, <1>7, <1>15, <1>16 DEF RebuildPlaced
    <2>5. QED
        BY <1>15, <2>3, <2>4 DEF Placed
<1>18. \A p \in Pairs : Good(q, T, p, holdings[p], mishap'[p], status[k])
    BY <1>15, <1>16, RebuildIdle
<1>19. QED
    BY <1>11, <1>14, <1>17, <1>18, ArrivesStep

----------------------------------------------------------------------------
(* The theorems.                                                            *)

LEMMA InitHolds ==
    ASSUME Init
    PROVE  HInv
<1>1. sources \in Seq(Source)
    BY SourcesGiven DEF Init
<1>2. holdings = [p \in Pairs |-> Engine(sources, SourcesOf(p)).rows]
    BY DEF Init
<1>3. /\ job = [k \in Jobs |-> [NewJob("worker", 0, 1, 0) EXCEPT !.pc = "absent"]]
      /\ status = [k \in Jobs |-> [a \in Accounts |-> "none"]]
      /\ mishap = [p \in Pairs |-> {}]
    BY DEF Init
<1>4. PICK n : n = NewJob("worker", 0, 1, 0)
    OBVIOUS
<1>5. Newborn(n, "worker", 0, 1, 0)
    BY <1>4, NewJobIs
<1>6. PICK q : q = [n EXCEPT !.pc = "absent"]
    OBVIOUS
<1>7. PICK A : n \in [Fields -> A]
    BY <1>5 DEF Newborn, IsJob
<1>8. PICK D : D = A \union {"absent"}
    OBVIOUS
<1>9. q \in [Fields -> D] /\ q.pc = "absent" /\ \A y \in Fields \ {"pc"} : q[y] = n[y]
    <2>1. n \in [Fields -> D] /\ "absent" \in D
        BY <1>7, <1>8
    <2>2. "pc" \in Fields
        BY DEF Fields
    <2>3. q \in [Fields -> D]
        BY <1>6, <2>1, <2>2
    <2>4. q.pc = "absent" /\ \A y \in Fields \ {"pc"} : q[y] = n[y]
        BY <1>6, <1>7, <2>2
    <2>5. QED
        BY <2>3, <2>4
<1>10. /\ q.pc = "absent" /\ q.type = "worker" /\ q.floor = 0 /\ q.first = 1 /\ q.last = 0
       /\ q.left = {} /\ q.acct = AcctOf[1] /\ q.errs = 0 /\ q.wrote = {} /\ IsJob(q)
    BY <1>5, <1>9 DEF Newborn, Fields, IsJob
<1>11. /\ q.pc \in Dormant /\ q.pc \in WorkerPcs /\ q.pc \notin InHand
       /\ q.pc \notin {"queued", "tail", "rows", "insert", "read", "mark"} /\ ~OpenRec(q)
    BY <1>10 DEF Dormant, WorkerPcs, InHand, OpenRec
<1>12. job = [k \in Jobs |-> q]
    BY <1>3, <1>4, <1>6
<1>13. \A k \in Jobs : job[k] = q
    BY <1>12
<1>14. \A k \in Jobs : \A a \in Accounts : status[k][a] = "none"
    BY <1>3
<1>15. ASSUME NEW k \in Jobs PROVE Placed(job[k], sources, status[k])
    <2>1. q.acct \in Accounts
        BY <1>10, Constants
    <2>2. Len(sources) \in Nat
        BY <1>1
    <2>3. Shaped(q, sources)
        BY <1>10, <1>11, <2>1, <2>2 DEF Shaped
    <2>4. WorkerPlaced(q, sources, status[k])
        BY <1>10, <1>11, <1>14, <2>2 DEF WorkerPlaced
    <2>5. QED
        BY <1>10, <1>13, <2>3, <2>4 DEF Placed
<1>16. ASSUME NEW p \in Pairs PROVE RowsOf(holdings[p], sources, p) /\ Single(holdings[p])
    <2>1. PICK S : S = SourcesOf(p)
        OBVIOUS
    <2>2. S \in SUBSET DOMAIN sources /\ \A i \in S : i \in DOMAIN sources /\ sources[i].pair = p
        BY <2>1 DEF SourcesOf
    <2>3. PICK H : H = Engine(sources, S).rows
        OBVIOUS
    <2>4. Written(sources, S, H)
        BY <1>1, <2>2, <2>3, EngineWrites
    <2>5. holdings[p] = H
        BY <1>2, <2>1, <2>3
    <2>6. IsList(H) /\ Single(H)
        BY <2>4 DEF Written
    <2>7. \A m \in DOMAIN H : H[m].src \in S /\ H[m].type = sources[H[m].src].kind
        BY <2>4 DEF Written
    <2>8. RowsOf(H, sources, p)
        BY <2>2, <2>6, <2>7 DEF RowsOf, OfPair
    <2>9. QED
        BY <2>5, <2>6, <2>8
<1>17. Static
    <2>1. \E H : holdings \in [Pairs -> H]
        <3>1. PICK H : H = {holdings[p] : p \in Pairs}
            OBVIOUS
        <3>2. holdings \in [Pairs -> H]
            BY <1>2, <3>1
        <3>3. QED
            BY <3>2
    <2>2. job \in [Jobs -> {q}]
        BY <1>12
    <2>3. \E J : job \in [Jobs -> J]
        BY <2>2
    <2>4. status \in [Jobs -> [Accounts -> Marks]]
        BY <1>3 DEF Marks
    <2>5. mishap \in [Pairs -> SUBSET Mishaps]
        BY <1>3
    <2>6. QED
        BY <1>1, <1>15, <1>16, <2>1, <2>3, <2>4, <2>5 DEF Static
<1>18. ASSUME NEW p \in Pairs
       PROVE  /\ Alone(p) /\ (Clean(mishap[p]) => Single(holdings[p])) /\ Owed(p)
              /\ \A k \in Jobs : Good(job[k], sources, p, holdings[p], mishap[p], status[k])
    <2>1. Alone(p)
        BY <1>11, <1>13 DEF Alone
    <2>2. Owed(p)
        BY <1>3 DEF Owed
    <2>3. ASSUME NEW k \in Jobs PROVE Good(job[k], sources, p, holdings[p], mishap[p], status[k])
        <3>1. status[k][AcctOf[p]] # "SUCCESS"
            BY <1>14, Constants
        <3>2. Earned(q, sources, p, holdings[p], status[k])
            BY <3>1 DEF Earned
        <3>3. Good(q, sources, p, holdings[p], mishap[p], status[k])
            BY <1>11, <3>2, GoodOther
        <3>4. QED
            BY <1>13, <3>3
    <2>4. QED
        BY <1>16, <2>1, <2>2, <2>3
<1>19. QED
    BY <1>17, <1>18 DEF HInv

LEMMA NextHolds ==
    ASSUME HInv, [Next]_vars
    PROVE  HInv'
<1>1. CASE UNCHANGED vars
    BY <1>1 DEF HInv, Static, Alone, Owed, vars
<1>2. CASE Next
    <2>1. PICK k \in Jobs :
             \/ StartImport(k) \/ ImportLands(k) \/ Declare(k) \/ WorkerStep(k) \/ RebuildStep(k)
             \/ ManifestUnreadable(k) \/ AppendFails(k) \/ RebuildPairFails(k) \/ Killed(k)
        BY <1>2, Zenon DEF Next
    <2>2. CASE StartImport(k)
        BY <2>2, StartImportStep
    <2>3. CASE ImportLands(k)
        BY <2>3, ImportLandsStep
    <2>4. CASE Declare(k)
        BY <2>4, DeclareStep
    <2>5. CASE WorkerStep(k)
        <3>1. \/ StartWorker(k) \/ SkipAccount(k) \/ BeginAccount(k) \/ ReadNew(k) \/ ReadTail(k) \/ ReadRows(k)
              \/ AppendRow(k) \/ MarkAccount(k) \/ FinishWorker(k)
            BY <2>5, Zenon DEF WorkerStep
        <3>2. QED
            BY <3>1, StartWorkerStep, SkipAccountStep, BeginAccountStep, ReadNewStep, ReadTailStep, ReadRowsStep,
               AppendRowStep, MarkAccountStep, FinishWorkerStep, Zenon
    <2>6. CASE RebuildStep(k)
        <3>1. \/ StartRebuild(k) \/ ReadTransactions(k) \/ ReadActions(k) \/ DeletePair(k)
              \/ InsertRebuilt(k) \/ FinishRebuild(k) \/ RebuildFails(k)
            BY <2>6, Zenon DEF RebuildStep
        <3>2. QED
            BY <3>1, StartRebuildStep, ReadTransactionsStep, ReadActionsStep, DeletePairStep,
               InsertRebuiltStep, FinishRebuildStep, RebuildFailsStep, Zenon
    <2>7. CASE ManifestUnreadable(k)
        BY <2>7, ManifestUnreadableStep
    <2>8. CASE AppendFails(k)
        BY <2>8, AppendFailsStep
    <2>9. CASE RebuildPairFails(k)
        BY <2>9, RebuildPairFailsStep
    <2>10. CASE Killed(k)
        BY <2>10, KilledStep
    <2>11. QED
        BY <2>1, <2>2, <2>3, <2>4, <2>5, <2>6, <2>7, <2>8, <2>9, <2>10, Zenon
<1>3. QED
    BY <1>1, <1>2

(* The table, its jobs and what was seen to go wrong with each pair agree   *)
(* at any moment of any run of the two jobs: CalculateHoldingWorkers and    *)
(* RebuildHoldingtable.                                                     *)
THEOREM TableStaysSound == Spec => []HInv
<1>1. Init => HInv
    BY InitHolds
<1>2. HInv /\ [Next]_vars => HInv'
    BY NextHolds
<1>3. QED
    BY <1>1, <1>2, PTL DEF Spec

(* No transaction is appended twice to a pair whose workers never ran side  *)
(* by side, were never cut between a row and SUCCESS, never met a failed    *)
(* INSERT and never failed to read a SUCCESS: the mark, the floor and a     *)
(* rebuild's DELETE are enough to keep every retry from writing a row that  *)
(* is there.                                                                *)
THEOREM AppendedOnceHolds == Spec => []AppendedOnce
<1>1. HInv => AppendedOnce
    <2>1. SUFFICES ASSUME HInv,
                          NEW p \in Pairs, mishap[p] \intersect {"overlap", "torn", "capped", "unread"} = {},
                          NEW m \in DOMAIN holdings[p], NEW n \in DOMAIN holdings[p],
                          m # n, holdings[p][m].src = holdings[p][n].src
                   PROVE  holdings[p][m].type = "SPLIT"
        BY DEF AppendedOnce
    <2>2. Single(holdings[p])
        BY <2>1 DEF HInv, Clean
    <2>3. QED
        BY <2>1, <2>2 DEF Single
<1>2. QED
    BY <1>1, TableStaysSound, PTL

(* When markAccountSuccess has been recorded, each buy and sell the job was *)
(* started for has its row, unless a read failed, jobs ran side by side or  *)
(* a rebuild is not through with the pair.                                  *)
THEOREM SuccessIsWholeHolds == Spec => []SuccessIsWhole
<1>1. HInv => SuccessIsWhole
    <2>1. SUFFICES ASSUME HInv, NEW k \in Jobs, NEW p \in Pairs, job[k].type = "worker",
                          status[k][AcctOf[p]] = "SUCCESS",
                          mishap[p] \intersect {"blind", "overlap", "unrebuilt"} = {},
                          NEW i \in job[k].first .. job[k].last,
                          sources[i].pair = p, sources[i].kind # "MISC"
                   PROVE  \E n \in DOMAIN holdings[p] : holdings[p][n].src = i
        BY DEF SuccessIsWhole
    <2>2. Fair(mishap[p])
        BY <2>1 DEF Fair
    <2>3. Good(job[k], sources, p, holdings[p], mishap[p], status[k])
        BY <2>1, Parts
    <2>4. Earned(job[k], sources, p, holdings[p], status[k])
        BY <2>2, <2>3 DEF Good
    <2>5. Whole(job[k], sources, p, holdings[p])
        BY <2>1, <2>4 DEF Earned
    <2>6. HasRow(holdings[p], i)
        BY <2>1, <2>5 DEF Whole
    <2>7. QED
        BY <2>6 DEF HasRow
<1>2. QED
    BY <1>1, TableStaysSound, PTL

(* closeWithFailure reaches the pool: once no job is open, a pair deleted   *)
(* and not written again, and not merged away, has a rebuild that failed.   *)
THEOREM RebuildIsWholeHolds == Spec => []RebuildIsWhole
<1>1. HInv => RebuildIsWhole
    <2>1. SUFFICES ASSUME HInv, ~SomeOpen, NEW p \in Pairs, "unrebuilt" \in mishap[p],
                          ~MergedAway(DOMAIN sources, p)
                   PROVE  \E k \in Jobs : /\ job[k].type = "rebuild" /\ job[k].pc = "failed"
                                          /\ p \in Manifest(k)
        BY DEF RebuildIsWhole
    <2>2. ~Gone(sources, p)
        BY <2>1 DEF Gone, MergedAway
    <2>3. PICK k \in Jobs : Owes(job[k], sources, p)
        BY <2>1, <2>2 DEF HInv, Owed
    <2>4. ~OpenRec(job[k])
        BY <2>1, SomeOpenIs
    <2>5. job[k].type = "rebuild" /\ p \in MineOf(job[k], sources)
        BY <2>3 DEF Owes
    <2>6. job[k].pc = "failed"
        BY <2>3, <2>4 DEF Owes, OpenRec, Dormant, Closed
    <2>7. Manifest(k) = MineOf(job[k], sources)
        BY MineIs
    <2>8. QED
        BY <2>5, <2>6, <2>7
<1>2. QED
    BY <1>1, TableStaysSound, PTL
=============================================================================
