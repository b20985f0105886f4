------------------------ MODULE PassbookWritersProofs ------------------------
(***************************************************************************)
(* Theorems about the writers of a passbook, for every set of trades, every *)
(* number of accounts, dividends, uploads, requests, jobs, retries and      *)
(* faults.                                                                  *)
(***************************************************************************)
EXTENDS PassbookWriters, FiniteSetTheorems, NaturalsInduction, WellFoundedInduction, TLAPS

Rows == [kind : {"txn", "div"}, of : Nat, date : Nat, amt : Int, seq : Int, bal : Int, by : Nat, epoch : Nat]

Early == {"read", "record"}
Paying == Early \union {"dup", "prior", "move", "credit", "undo"}
Walking == {"delete", "chunk", "fetch", "tail", "insert"}
Pcs == {"absent", "queued", "master", "apply", "end", "done", "failed"} \union Paying \union Walking

JobRecord == [type : {"div", "rebuild", "append"}, of : Nat, filter : SUBSET Accounts, pc : Pcs, tries : Nat,
              accts : SUBSET Accounts, seq : Int, bal : Int, moves : SUBSET Rows, undo : SUBSET Rows,
              todo : SUBSET Trades, chunk : Nat, errs : Nat]

Mishaps == {"together", "partial", "moved", "ghost", "swept"}

RequestRecord == [pc : {"idle", "shown", "rejected", "checked", "underway", "submitted"},
                  div : Nat, filter : SUBSET Accounts]

Loose ==
    /\ begun \in Nat /\ landed \in Nat
    /\ book \in [Accounts -> SUBSET Rows]
    /\ master \in SUBSET Dividends
    /\ \A r \in records : r \in [div : Dividends, acct : Accounts, by : Jobs]
    /\ jobsRow \in [Dividends -> {"none", "PENDING", "COMPLETED", "FAILED", "ERROR"}]
    /\ req \in [Requests -> RequestRecord]
    /\ \A q \in Requests : req[q].pc # "idle" => req[q].div \in Dividends
    /\ spent \in Nat
    /\ accident \in [Dividends -> SUBSET {"twice", "missed"}]
    /\ payer \in [Dividends -> SUBSET Accounts]
    /\ credited \in SUBSET (Dividends \X Accounts)

Typed ==
    /\ Loose
    /\ job \in [Jobs -> JobRecord]
    /\ mishap \in [Accounts -> SUBSET Mishaps]

(* Where a job can be.                                                      *)
Placed(r) ==
    /\ r.pc = "absent" => r.type = "div"
    /\ r.type = "div" /\ r.pc # "absent" => r.of \in Dividends
    /\ r.pc \in Paying \union {"master", "apply"} => r.type = "div"
    /\ r.pc \in Walking => r.type # "div"
    /\ r.pc \in Paying \union Walking <=> r.accts # {}
    /\ r.type = "rebuild" => r.filter = RebuildOf /\ r.accts \subseteq RebuildOf
    /\ r.pc \in {"tail", "insert"} => r.todo # {}
    /\ r.pc \in {"queued", "delete"} => r.seq = 0 /\ r.bal = 0

Apart == \A a \in Accounts : "together" \notin mishap[a] =>
            \A j, k \in Jobs : Writing(job[j], a) /\ Writing(job[k], a) => j = k

Static == Typed /\ Apart /\ \A k \in Jobs : Placed(job[k])

----------------------------------------------------------------------------
(* Operators.                                                               *)

(* A set of numbers has a least one.                                        *)
LEMMA LeastOf ==
    ASSUME NEW S \in SUBSET Nat, S # {}
    PROVE  \E a \in S : \A b \in S : a <= b
<1>1. PICK x \in S : \A y \in S : ~(<<y, x>> \in OpToRel(<, Nat))
    BY WFMin, NatLessThanWellFounded
<1>2. \A y \in S : ~(y < x)
    BY <1>1 DEF OpToRel
<1>3. QED
    BY <1>2

LEMMA Numbers ==
    /\ Accounts \subseteq Nat /\ Dividends \subseteq Nat /\ Jobs \subseteq Nat \ {0}
    /\ IsFiniteSet(Jobs) /\ MaxJobs \in Nat
    /\ RebuildOf \in SUBSET Accounts /\ RebuildOf # {}
<1>0. /\ {NumAccounts, NumImports, NumDividends, NumRequests, MaxJobs, MaxTries, MaxSpent} \subseteq Nat
      /\ RebuildOf \in (SUBSET Accounts) \ {{}}
    BY PassbookAssumption
<1>1. NumAccounts \in Nat /\ NumDividends \in Nat /\ MaxJobs \in Nat /\ RebuildOf \in SUBSET Accounts /\ RebuildOf # {}
    BY <1>0
<1>2. IsFiniteSet(Jobs)
    BY <1>1, FS_Interval DEF Jobs
<1>3. QED
    BY <1>1, <1>2 DEF Accounts, Dividends, Jobs

LEMMA TradeFacts ==
    /\ \A t \in Trades : /\ t.acct \in Accounts /\ t.import \in Nat /\ t.date \in Nat /\ t.date <= LastDay /\ t.date > 0
                         /\ t.amt \in Int /\ t.rank \in Nat
    /\ \A t, u \in Trades : t.rank = u.rank => t = u
<1>1. Trades \subseteq [import : 0 .. NumImports, acct : Accounts, date : 1 .. LastDay, amt : Int, rank : Nat]
    BY PassbookAssumption
<1>2. {NumImports, LastDay} \subseteq Nat /\ \A t, u \in Trades : t.rank = u.rank => t = u
    BY PassbookAssumption
<1>3. QED
    BY <1>1, <1>2

LEMMA Amounts ==
    /\ \A d \in Dividends, a \in Accounts : Amount[d][a] \in Nat
    /\ \A d \in Dividends : RecordDate[d] \in Nat
<1>1. Amount \in [Dividends -> [Accounts -> Nat]] /\ RecordDate \in [Dividends -> 1 .. LastDay] /\ LastDay \in Nat
    BY PassbookAssumption
<1>2. QED
    BY <1>1

LEMMA LowestOf ==
    ASSUME NEW S \in SUBSET Accounts, S # {}
    PROVE  Lowest(S) \in S
<1>1. \E a \in S : \A b \in S : a <= b
    BY LeastOf, Numbers
<1>2. QED
    BY <1>1 DEF Lowest

(* What NextAccount makes of a job record.                                  *)
LEMMA NextAccountIs ==
    ASSUME NEW r \in JobRecord, NEW p, p = NextAccount(r)
    PROVE  /\ p \in JobRecord
           /\ p.type = r.type /\ p.of = r.of /\ p.filter = r.filter /\ p.tries = r.tries /\ p.errs = r.errs
           /\ p.accts = r.accts \ {Lowest(r.accts)}
           /\ p.pc = (IF p.accts = {} THEN "end" ELSE IF r.type = "div" THEN "record" ELSE "delete")
           /\ p.moves = {} /\ p.undo = {} /\ p.todo = {} /\ p.seq = 0 /\ p.bal = 0 /\ p.chunk = 0
<1>1. PICK rest : rest = r.accts \ {Lowest(r.accts)}
    OBVIOUS
<1>2. PICK q : q = (IF rest = {} THEN "end" ELSE IF r.type = "div" THEN "record" ELSE "delete")
    OBVIOUS
<1>3. p = [r EXCEPT !.accts = rest, !.moves = {}, !.undo = {}, !.todo = {}, !.seq = 0, !.bal = 0, !.chunk = 0,
                    !.pc = q]
    BY <1>1, <1>2 DEF NextAccount
<1>4. rest \in SUBSET Accounts /\ q \in Pcs
    BY <1>1, <1>2 DEF JobRecord, Pcs, Paying, Early, Walking
<1>5. p \in JobRecord
    <2>1. PICK s : s = [r EXCEPT !.accts = rest, !.pc = q]
        OBVIOUS
    <2>2. s \in JobRecord
        BY <1>4, <2>1 DEF JobRecord
    <2>3. PICK t : t = [s EXCEPT !.moves = {}, !.undo = {}, !.todo = {}]
        OBVIOUS
    <2>4. t \in JobRecord
        BY <2>2, <2>3 DEF JobRecord
    <2>5. p = [t EXCEPT !.seq = 0, !.bal = 0, !.chunk = 0]
        BY <1>3, <1>4, <2>1, <2>3 DEF JobRecord
    <2>6. PICK x : x = [t EXCEPT !.seq = 0]
        OBVIOUS
    <2>7. x \in JobRecord
        BY <2>4, <2>6 DEF JobRecord
    <2>8. PICK y : y = [x EXCEPT !.bal = 0]
        OBVIOUS
    <2>9. y \in JobRecord
        BY <2>7, <2>8 DEF JobRecord
    <2>10. p = [y EXCEPT !.chunk = 0]
        BY <2>4, <2>5, <2>6, <2>8 DEF JobRecord
    <2>11. QED
        BY <2>9, <2>10 DEF JobRecord
<1>6. p.type = r.type /\ p.of = r.of /\ p.filter = r.filter /\ p.tries = r.tries /\ p.errs = r.errs
    BY <1>3 DEF JobRecord
<1>7. p.accts = rest /\ p.pc = q /\ p.moves = {} /\ p.undo = {} /\ p.todo = {}
    BY <1>3 DEF JobRecord
<1>8. p.seq = 0 /\ p.bal = 0 /\ p.chunk = 0
    BY <1>3 DEF JobRecord
<1>9. QED
    BY <1>1, <1>2, <1>5, <1>6, <1>7, <1>8

LEMMA NextAccountPlaced ==
    ASSUME NEW r \in JobRecord, Placed(r), r.accts # {}
    PROVE  Placed(NextAccount(r))
<1>1. PICK p : p = NextAccount(r)
    OBVIOUS
<1>2. /\ p.type = r.type /\ p.of = r.of /\ p.filter = r.filter
      /\ p.accts = r.accts \ {Lowest(r.accts)} /\ p.seq = 0 /\ p.bal = 0
      /\ p.pc = (IF p.accts = {} THEN "end" ELSE IF r.type = "div" THEN "record" ELSE "delete")
    BY <1>1, NextAccountIs
<1>3. r.pc # "absent"
    BY DEF Placed, Paying, Early, Walking
<1>4. Placed(p)
    BY <1>2, <1>3 DEF Placed, Paying, Early, Walking
<1>5. QED
    BY <1>1, <1>4

(* What Become does.                                                        *)
Becomes(k, p, u) ==
    /\ job' = [job EXCEPT ![k] = p]
    /\ mishap' \in [Accounts -> SUBSET Mishaps]
    /\ \A a \in Accounts : u[a] \subseteq mishap'[a]
    /\ Apart'

LEMMA BecomeMakes ==
    ASSUME NEW k \in Jobs, NEW p, NEW u \in [Accounts -> SUBSET Mishaps], Become(k, p, u)
    PROVE  Becomes(k, p, u)
<1>1. job' = [job EXCEPT ![k] = p]
    BY DEF Become
<1>2. PICK T : T = [a \in Accounts |-> {j \in Jobs : Writing(job'[j], a)}]
    OBVIOUS
<1>3. mishap' = [a \in Accounts |-> u[a] \union (IF Cardinality(T[a]) > 1 THEN {"together"} ELSE {})]
    BY <1>1, <1>2 DEF Become
<1>4. mishap' \in [Accounts -> SUBSET Mishaps] /\ \A a \in Accounts : u[a] \subseteq mishap'[a]
    BY <1>3 DEF Mishaps
<1>5. ASSUME NEW a \in Accounts, "together" \notin mishap'[a], NEW i \in T[a], NEW j \in T[a], i # j
      PROVE  FALSE
    <2>1. ~(Cardinality(T[a]) > 1)
        BY <1>3, <1>5
    <2>2. T[a] \subseteq Jobs /\ IsFiniteSet(T[a])
        BY <1>2, Numbers, FS_Subset
    <2>3. PICK S : S = {i, j}
        OBVIOUS
    <2>4. Cardinality(S) = 2 /\ IsFiniteSet(S)
        <3>1. Cardinality({i}) = 1 /\ IsFiniteSet({i})
            BY FS_Singleton
        <3>2. PICK U : U = {i}
            OBVIOUS
        <3>3. Cardinality(U) = 1 /\ IsFiniteSet(U) /\ j \notin U
            BY <1>5, <3>1, <3>2
        <3>4. Cardinality(U \union {j}) = Cardinality(U) + 1 /\ IsFiniteSet(U \union {j})
            BY <3>3, FS_AddElement
        <3>5. S = U \union {j}
            BY <2>3, <3>2
        <3>6. QED
            BY <3>3, <3>4, <3>5
    <2>5. S \subseteq T[a]
        BY <1>5, <2>3
    <2>6. Cardinality(S) <= Cardinality(T[a]) /\ Cardinality(T[a]) \in Nat
        BY <2>2, <2>5, FS_Subset, FS_CardinalityType
    <2>7. QED
        BY <2>1, <2>4, <2>6
<1>6. Apart'
    <2>1. SUFFICES ASSUME NEW a \in Accounts, "together" \notin mishap'[a], NEW i \in Jobs, NEW j \in Jobs,
                          Writing(job'[i], a), Writing(job'[j], a)
                   PROVE  i = j
        BY DEF Apart
    <2>2. i \in T[a] /\ j \in T[a]
        BY <1>2, <2>1
    <2>3. QED
        BY <1>5, <2>1, <2>2
<1>7. QED
    BY <1>1, <1>4, <1>6 DEF Becomes

LEMMA GoMakes ==
    ASSUME Typed, NEW k \in Jobs, NEW p, Go(k, p)
    PROVE  Becomes(k, p, mishap)
<1>1. mishap \in [Accounts -> SUBSET Mishaps] /\ Become(k, p, mishap)
    BY DEF Typed, Go
<1>2. PICK u : u = mishap
    OBVIOUS
<1>3. Becomes(k, p, u)
    BY <1>1, <1>2, BecomeMakes
<1>4. QED
    BY <1>2, <1>3

----------------------------------------------------------------------------
(* The inductive invariant of the dividend properties.                      *)

Recorded(d, a) == \E r \in records : r.div = d /\ r.acct = a
IsDiv(w, d) == w.kind = "div" /\ w.of = d
Has(d, a) == \E w \in book[a] : IsDiv(w, d)

Applies(r, d) == r.pc = "apply" /\ r.of = d
Pays(r, d) == r.pc \in Paying /\ r.of = d

(* The accounts a job has still to pay have nothing of the dividend, but    *)
(* for the one it is at.                                                    *)
Ahead(r, d) ==
    \A a \in r.accts :
       /\ Recorded(d, a) => a = Lowest(r.accts) /\ r.pc \notin Early
       /\ Has(d, a) => a = Lowest(r.accts) /\ r.pc = "undo"

OneRecord(d) == \A r, s \in records : r.div = d /\ s.div = d /\ r.acct = s.acct => r = s
OneRow(d, a) == \A v, w \in book[a] : IsDiv(v, d) /\ IsDiv(w, d) => v = w

Once(d) ==
    "twice" \notin accident[d] =>
       /\ \A j, k \in Jobs : Applies(job[j], d) /\ Applies(job[k], d) => j = k
       /\ \A j, k \in Jobs : Pays(job[j], d) /\ Pays(job[k], d) => j = k
       /\ d \in master => \A k \in Jobs : ~Applies(job[k], d)
       /\ d \notin master => /\ \A k \in Jobs : ~Pays(job[k], d)
                             /\ \A a \in Accounts : ~Recorded(d, a) /\ ~Has(d, a)
       /\ \A k \in Jobs : Pays(job[k], d) => Ahead(job[k], d)
       /\ OneRecord(d)
       /\ \A a \in Accounts : OneRow(d, a)

(* Account a had the money of d, or there is a reason why its row is gone.  *)
Rebuilt(a) == a \in RebuildOf /\ \E k \in Jobs : job[k].type = "rebuild"
Credited(d, a) == <<d, a>> \in credited \/ mishap[a] # {} \/ Rebuilt(a)

(* A dividend row is of a dividend job, and is accounted for.               *)
DividendRow(w, a) ==
    /\ w.of \in Dividends /\ Credited(w.of, a)
    /\ w.by \in Jobs /\ job[w.by].type = "div" /\ job[w.by].pc # "absent"
DividendRows == \A a \in Accounts : \A w \in book[a] : w.kind = "div" => DividendRow(w, a)

Pending(r, d, a) ==
    /\ Pays(r, d) /\ r.pc # "undo" /\ a \in r.accts
    /\ a = Lowest(r.accts) /\ r.pc \notin Early => Recorded(d, a)

(* Who is to be paid is, or will be.                                        *)
Due(d) ==
    accident[d] = {} =>
       \A a \in payer[d] : \/ Recorded(d, a) /\ Credited(d, a)
                           \/ \E k \in Jobs : Pending(job[k], d, a)

UndoneIsMissed == \A k \in Jobs : job[k].pc = "undo" => "missed" \in accident[job[k].of]

IInv == Static /\ DividendRows /\ UndoneIsMissed /\ \A d \in Dividends : Once(d) /\ Due(d)

----------------------------------------------------------------------------
(* What a step does to the dividend rows and to who is credited.            *)

(* Job k becomes p, and every variable keeps its type.                      *)
Moved(k, p) ==
    /\ p \in JobRecord /\ Placed(p) /\ p.pc # "absent"
    /\ job[k].pc # "absent" => p.type = job[k].type
    /\ job' = [job EXCEPT ![k] = p]
    /\ Typed' /\ Apart'

(* The rows v and w of the book of a after the step are rows from before    *)
(* it, and one row only if they were.                                       *)
Inherits(a, v, w) ==
    \E x, y \in book[a] : /\ x.kind = v.kind /\ x.of = v.of /\ x.by = v.by
                          /\ y.kind = w.kind /\ y.of = w.of /\ y.by = w.by
                          /\ x = y => v = w

Tame == \A a \in Accounts : \A v, w \in book'[a] : v.kind = "div" /\ w.kind = "div" => Inherits(a, v, w)

Keeps == \A d \in Dividends, a \in Accounts : Credited(d, a) => Credited(d, a)'

Grows == \A d \in Dividends : accident[d] \subseteq accident'[d]

(* A step of a job that pays nobody, before or after it, or misses them.    *)
Aside(k, p) ==
    /\ Moved(k, p) /\ Tame /\ Keeps /\ Grows
    /\ p.pc \notin Paying \union {"apply"}
    /\ job[k].pc \in Paying => "missed" \in accident'[job[k].of]
    /\ UNCHANGED <<master, records, payer>>

(* A paying job credits dividend d to account h, where it is.               *)
Credits(k, d, h) ==
    \E w \in Rows : /\ w.kind = "div" /\ w.of = d /\ w.by = k
                    /\ book' = [book EXCEPT ![h] = book[h] \union {w}]
                    /\ Credited(d, h)'

(* It stays at the account, or goes to the next.                            *)
Stays(k, p, d) ==
    /\ p.accts = job[k].accts /\ p.pc \in Paying \ Early
    /\ p.pc = "undo" => "missed" \in accident'[d]
    /\ p.pc # "undo" => job[k].pc # "undo" /\ Tame

Leaves(k, p, d, h) ==
    /\ p.accts = job[k].accts \ {h}
    /\ p.pc = IF p.accts = {} THEN "end" ELSE "record"
    /\ "missed" \in accident'[d] \/ (job[k].pc # "record" /\ Credited(d, h)')

Books(k, d, h) ==
    /\ job[k].pc = "record"
    /\ records' = records \union {[div |-> d, acct |-> h, by |-> k]}

PaysOn(k, p, d, h) ==
    /\ d = job[k].of /\ h = Here(k)
    /\ Moved(k, p) /\ Keeps /\ Grows
    /\ job[k].pc \in Paying \ {"read"} /\ p.of = d
    /\ Stays(k, p, d) \/ Leaves(k, p, d, h)
    /\ records' = records \/ Books(k, d, h)
    /\ job[k].pc = "record" /\ Stays(k, p, d) => Books(k, d, h)
    /\ Tame \/ (Credits(k, d, h) /\ job[k].pc = "credit")
    /\ UNCHANGED <<master, payer>>

LEMMA TameSame == ASSUME book' = book PROVE Tame
BY DEF Tame, Inherits

LEMMA TamePut ==
    ASSUME Typed, NEW a \in Accounts, NEW x, NEW s, NEW b, Put(a, x, s, b)
    PROVE  Tame
<1>1. book \in [Accounts -> SUBSET Rows]
    BY DEF Typed, Loose
<1>2. book'[a] = {IF SameRow(v, x) THEN [v EXCEPT !.seq = s, !.bal = b] ELSE v : v \in book[a]}
      /\ \A c \in Accounts \ {a} : book'[c] = book[c]
    BY <1>1 DEF Put
<1>3. ASSUME NEW v \in book'[a]
      PROVE  \E y \in book[a] : /\ y.kind = v.kind /\ y.of = v.of /\ y.by = v.by
                                /\ v = IF SameRow(y, x) THEN [y EXCEPT !.seq = s, !.bal = b] ELSE y
    <2>1. PICK y \in book[a] : v = IF SameRow(y, x) THEN [y EXCEPT !.seq = s, !.bal = b] ELSE y
        BY <1>2
    <2>2. y \in Rows
        BY <1>1
    <2>3. y.kind = v.kind /\ y.of = v.of /\ y.by = v.by
        BY <2>1, <2>2 DEF Rows
    <2>4. QED
        BY <2>1, <2>3
<1>4. ASSUME NEW c \in Accounts, NEW v \in book'[c], NEW w \in book'[c]
      PROVE  Inherits(c, v, w)
    <2>1. CASE c = a
        <3>1. PICK y \in book[a] : /\ y.kind = v.kind /\ y.of = v.of /\ y.by = v.by
                                   /\ v = IF SameRow(y, x) THEN [y EXCEPT !.seq = s, !.bal = b] ELSE y
            BY <1>3, <1>4, <2>1
        <3>2. PICK z \in book[a] : /\ z.kind = w.kind /\ z.of = w.of /\ z.by = w.by
                                   /\ w = IF SameRow(z, x) THEN [z EXCEPT !.seq = s, !.bal = b] ELSE z
            BY <1>3, <1>4, <2>1
        <3>3. y = z => v = w
            BY <3>1, <3>2
        <3>4. QED
            BY <2>1, <3>1, <3>2, <3>3 DEF Inherits
    <2>2. CASE c # a
        BY <1>2, <1>4, <2>2 DEF Inherits
    <2>3. QED
        BY <2>1, <2>2
<1>5. QED
    BY <1>4 DEF Tame

LEMMA TameDelete ==
    ASSUME Typed, NEW a \in Accounts, NEW S, book' = [book EXCEPT ![a] = S], S \subseteq book[a]
    PROVE  Tame
<1>1. \A c \in Accounts : book'[c] \subseteq book[c]
    BY DEF Typed, Loose
<1>2. QED
    BY <1>1 DEF Tame, Inherits

LEMMA TameTxn ==
    ASSUME Typed, NEW a \in Accounts, NEW x, x.kind = "txn", book' = [book EXCEPT ![a] = book[a] \union {x}]
    PROVE  Tame
<1>1. \A c \in Accounts : book'[c] \subseteq book[c] \union {x}
    BY DEF Typed, Loose
<1>2. \A c \in Accounts : \A v \in book'[c] : v.kind = "div" => v \in book[c]
    BY <1>1
<1>3. QED
    BY <1>2 DEF Tame, Inherits

(* The rebuilds there have been are not forgotten.                          *)
LEMMA RebuiltStays ==
    ASSUME Static, NEW k \in Jobs, NEW p, Moved(k, p), NEW a, Rebuilt(a)
    PROVE  Rebuilt(a)'
<1>1. PICK j \in Jobs : job[j].type = "rebuild"
    BY DEF Rebuilt
<1>2. job \in [Jobs -> JobRecord] /\ Placed(job[j])
    BY DEF Static, Typed
<1>3. job[j].pc # "absent"
    BY <1>1, <1>2 DEF Placed
<1>4. job'[j].type = "rebuild"
    BY <1>1, <1>2, <1>3 DEF Moved
<1>5. QED
    BY <1>4 DEF Rebuilt

LEMMA KeepsAll ==
    ASSUME Static, NEW k \in Jobs, NEW p, Moved(k, p), credited \subseteq credited',
           \A a \in Accounts : mishap[a] \subseteq mishap'[a]
    PROVE  Keeps
<1>1. SUFFICES ASSUME NEW d \in Dividends, NEW a \in Accounts, Credited(d, a)
               PROVE  Credited(d, a)'
    BY DEF Keeps
<1>2. CASE Rebuilt(a)
    BY <1>2, RebuiltStays DEF Credited
<1>3. CASE <<d, a>> \in credited \/ mishap[a] # {}
    BY <1>3 DEF Credited
<1>4. QED
    BY <1>1, <1>2, <1>3 DEF Credited

----------------------------------------------------------------------------
(* What each action makes of the job.                                       *)

Turned(r, q) == [r EXCEPT !.pc = q]

LEMMA TurnedIs ==
    ASSUME NEW r \in JobRecord, NEW q \in Pcs
    PROVE  LET p == Turned(r, q)
           IN /\ p \in JobRecord /\ p.pc = q
              /\ p.type = r.type /\ p.of = r.of /\ p.filter = r.filter /\ p.tries = r.tries /\ p.errs = r.errs
              /\ p.accts = r.accts /\ p.seq = r.seq /\ p.bal = r.bal /\ p.moves = r.moves /\ p.undo = r.undo
              /\ p.todo = r.todo /\ p.chunk = r.chunk
BY DEF Turned, JobRecord

LEMMA MovedIf ==
    ASSUME Static, NEW k \in Jobs, NEW p \in JobRecord, NEW u, Becomes(k, p, u), Loose', Placed(p), p.pc # "absent",
           job[k].pc # "absent" => p.type = job[k].type
    PROVE  Moved(k, p)
<1>1. job \in [Jobs -> JobRecord] /\ job' = [job EXCEPT ![k] = p]
    BY DEF Static, Typed, Becomes
<1>2. job' \in [Jobs -> JobRecord]
    BY <1>1
<1>3. mishap' \in [Accounts -> SUBSET Mishaps] /\ Apart'
    BY DEF Becomes
<1>4. Typed'
    BY <1>2, <1>3 DEF Typed
<1>5. QED
    BY <1>1, <1>3, <1>4 DEF Moved

(* A step of a job that pays nobody, and leaves the passbooks as they are.  *)
LEMMA AsideIf ==
    ASSUME Static, NEW k \in Jobs, NEW p, Moved(k, p), Becomes(k, p, mishap), UNCHANGED <<book, credited>>, Grows,
           p.pc \notin Paying \union {"apply"}, job[k].pc \in Paying => "missed" \in accident'[job[k].of],
           UNCHANGED <<master, records, payer>>
    PROVE  Aside(k, p)
<1>1. Keeps
    BY KeepsAll DEF Becomes
<1>2. Tame
    BY TameSame
<1>3. QED
    BY <1>1, <1>2 DEF Aside

(* The same of a job whose pc alone changes.                                *)
LEMMA TurnsAside ==
    ASSUME Static, NEW k \in Jobs, NEW q \in Pcs \ (Paying \union Walking \union {"absent", "apply", "queued"}),
           job[k].pc \notin Paying \union Walking \union {"absent"}, q = "master" => job[k].type = "div",
           Go(k, Turned(job[k], q)), Loose', Grows,
           UNCHANGED <<book, credited, master, records, payer>>
    PROVE  \E p : Aside(k, p)
<1>1. PICK p : p = Turned(job[k], q)
    OBVIOUS
<1>2. job[k] \in JobRecord /\ Placed(job[k])
    BY DEF Static, Typed
<1>3. /\ p \in JobRecord /\ p.pc = q
      /\ p.type = job[k].type /\ p.of = job[k].of /\ p.filter = job[k].filter
      /\ p.accts = job[k].accts /\ p.seq = job[k].seq /\ p.bal = job[k].bal /\ p.todo = job[k].todo
    BY <1>1, <1>2, TurnedIs
<1>4. Placed(p)
    BY <1>2, <1>3 DEF Placed, Paying, Early, Walking
<1>5. Becomes(k, p, mishap)
    BY <1>1, GoMakes DEF Static
<1>6. Moved(k, p)
    BY <1>3, <1>4, <1>5, MovedIf
<1>7. QED
    BY <1>3, <1>5, <1>6, AsideIf

LEMMA Idle ==
    ASSUME Static
    PROVE  /\ \A k \in Jobs : job[k] \in JobRecord /\ Placed(job[k])
           /\ Loose /\ Typed
BY DEF Static, Typed

LEMMA DivStartAside ==
    ASSUME Static, NEW k \in Jobs, DivStart(k)
    PROVE  \E p : Aside(k, p)
<1>1. job[k].of \in Dividends /\ job[k].type = "div" /\ job[k].pc = "queued"
    BY Idle DEF DivStart, Div, MayStart, Placed
<1>2. PICK q \in {"master", "failed"}, st \in {"PENDING", "FAILED"} :
            SetJob(k, st) /\ Go(k, Turned(job[k], q))
    BY DEF DivStart, Turned
<1>3. Loose'
    BY <1>1, <1>2, Idle DEF DivStart, SetJob, Loose
<1>4. Grows /\ UNCHANGED <<book, credited, master, records, payer>>
    BY DEF DivStart, Grows
<1>5. QED
    BY <1>1, <1>2, <1>3, <1>4, TurnsAside DEF Pcs, Paying, Early, Walking

LEMMA DivMasterAside ==
    ASSUME Static, NEW k \in Jobs, DivMaster(k), job[k].of \in master
    PROVE  \E p : Aside(k, p)
<1>1. job[k].of \in Dividends /\ job[k].type = "div" /\ job[k].pc = "master"
    BY Idle DEF DivMaster, Div, Placed
<1>2. SetJob(k, "COMPLETED") /\ Go(k, Turned(job[k], "done"))
    BY DEF DivMaster, Turned
<1>3. Loose'
    BY <1>1, <1>2, Idle DEF DivMaster, SetJob, Loose
<1>4. Grows /\ UNCHANGED <<book, credited, master, records, payer>>
    BY DEF DivMaster, Grows
<1>5. QED
    BY <1>1, <1>2, <1>3, <1>4, TurnsAside DEF Pcs, Paying, Early, Walking

LEMMA DivFinishAside ==
    ASSUME Static, NEW k \in Jobs, DivFinish(k)
    PROVE  \E p : Aside(k, p)
<1>1. job[k].of \in Dividends /\ job[k].type = "div" /\ job[k].pc = "end"
    BY Idle DEF DivFinish, Div, Placed
<1>2. SetJob(k, "COMPLETED") /\ Go(k, Turned(job[k], "done"))
    BY DEF DivFinish, Turned
<1>3. Loose'
    BY <1>1, <1>2, Idle DEF DivFinish, SetJob, Loose
<1>4. Grows /\ UNCHANGED <<book, credited, master, records, payer>>
    BY DEF DivFinish, Grows
<1>5. QED
    BY <1>1, <1>2, <1>3, <1>4, TurnsAside DEF Pcs, Paying, Early, Walking

LEMMA DivFailsAside ==
    ASSUME Static, NEW k \in Jobs, DivFails(k)
    PROVE  \E p : Aside(k, p)
<1>1. job[k].of \in Dividends /\ job[k].type = "div" /\ job[k].pc \in {"master", "apply", "end"}
    BY Idle DEF DivFails, Div, Placed
<1>2. SetJob(k, "FAILED") /\ Go(k, Turned(job[k], "failed"))
    BY DEF DivFails, Turned
<1>3. Loose'
    BY <1>1, <1>2, Idle DEF DivFails, SetJob, Loose, Spend
<1>4. Grows /\ UNCHANGED <<book, credited, master, records, payer>>
    BY DEF DivFails, Grows
<1>5. QED
    BY <1>1, <1>2, <1>3, <1>4, TurnsAside DEF Pcs, Paying, Early, Walking

LEMMA NewJobIs ==
    ASSUME NEW type \in {"div", "rebuild", "append"}, NEW of \in Nat, NEW filter \in SUBSET Accounts
    PROVE  LET p == NewJob(type, of, filter)
           IN /\ p \in JobRecord /\ p.type = type /\ p.of = of /\ p.filter = filter /\ p.pc = "queued"
              /\ p.accts = {} /\ p.seq = 0 /\ p.bal = 0
BY DEF NewJob, JobRecord, Pcs

LEMMA NewJobAside ==
    ASSUME Static, NEW k \in Jobs, job[k].pc = "absent",
           NEW type \in {"div", "rebuild", "append"}, NEW of \in Nat, NEW filter \in SUBSET Accounts,
           type = "div" => of \in Dividends, type = "rebuild" => filter = RebuildOf,
           Go(k, NewJob(type, of, filter)), Loose', Grows,
           UNCHANGED <<book, credited, master, records, payer>>
    PROVE  \E p : Aside(k, p)
<1>1. PICK p : p = NewJob(type, of, filter)
    OBVIOUS
<1>2. /\ p \in JobRecord /\ p.type = type /\ p.of = of /\ p.filter = filter /\ p.pc = "queued"
      /\ p.accts = {} /\ p.seq = 0 /\ p.bal = 0
    BY <1>1, NewJobIs
<1>3. Placed(p)
    BY <1>2 DEF Placed, Paying, Early, Walking
<1>4. Becomes(k, p, mishap)
    BY <1>1, GoMakes, Idle
<1>5. Moved(k, p)
    BY <1>2, <1>3, <1>4, MovedIf
<1>6. QED
    BY <1>2, <1>4, <1>5, AsideIf DEF Paying, Early

LEMMA SubmitAside ==
    ASSUME Static, NEW q \in Requests, NEW k \in Jobs, Submit(q, k), ~(UNCHANGED job)
    PROVE  \E p : Aside(k, p)
<1>1. /\ req[q].pc = "checked" /\ job[k].pc = "absent"
      /\ Answer(q, "submitted") /\ jobsRow' = [jobsRow EXCEPT ![req[q].div] = "none"]
      /\ Go(k, NewJob("div", req[q].div, req[q].filter))
      /\ UNCHANGED <<begun, landed, book, master, records, accident, payer, spent, credited>>
    BY DEF Submit, NextJob
<1>2. req \in [Requests -> RequestRecord] /\ req[q].div \in Dividends
    BY <1>1, Idle DEF Loose
<1>3. req[q].div \in Nat /\ req[q].filter \in SUBSET Accounts
    BY <1>2 DEF RequestRecord
<1>4. req' \in [Requests -> RequestRecord]
      /\ \A s \in Requests : req'[s].pc # "idle" => req'[s].div \in Dividends
    <2>1. PICK rec : rec = [req[q] EXCEPT !.pc = "submitted"]
        OBVIOUS
    <2>2. rec \in RequestRecord /\ rec.div = req[q].div
        BY <1>2, <2>1 DEF RequestRecord
    <2>3. req' = [req EXCEPT ![q] = rec]
        BY <1>1, <2>1 DEF Answer
    <2>4. req' \in [Requests -> RequestRecord] /\ req'[q] = rec
          /\ \A s \in Requests \ {q} : req'[s] = req[s]
        BY <1>2, <2>2, <2>3
    <2>5. QED
        BY <1>2, <2>2, <2>4, Idle DEF Loose
<1>5. Loose'
    BY <1>1, <1>2, <1>4, Idle DEF Loose
<1>6. Grows
    BY <1>1 DEF Grows
<1>7. QED
    BY <1>1, <1>2, <1>3, <1>5, <1>6, NewJobAside

LEMMA RebuildAside ==
    ASSUME Static, NEW k \in Jobs, Rebuild(k)
    PROVE  \E p : Aside(k, p)
<1>1. Loose' /\ Grows /\ UNCHANGED <<book, credited, master, records, payer>>
    BY Idle DEF Rebuild, Spend, Loose, divVars, Grows
<1>2. job[k].pc = "absent" /\ Go(k, NewJob("rebuild", 0, RebuildOf))
    BY DEF Rebuild, NextJob
<1>3. QED
    BY <1>1, <1>2, NewJobAside, Numbers

LEMMA ImportLandsAside ==
    ASSUME Static, NEW k \in Jobs, ImportLands(k)
    PROVE  \E p : Aside(k, p)
<1>1. Loose' /\ Grows /\ UNCHANGED <<book, credited, master, records, payer>> /\ begun \in Nat
    BY Idle DEF ImportLands, Loose, divVars, Grows
<1>2. PICK A : A = {t.acct : t \in {u \in Trades : u.import = begun}}
    OBVIOUS
<1>3. A \in SUBSET Accounts
    BY <1>2, TradeFacts
<1>4. job[k].pc = "absent" /\ Go(k, NewJob("append", begun, A))
    BY <1>2 DEF ImportLands, NextJob
<1>5. QED
    BY <1>1, <1>3, <1>4, NewJobAside

LEMMA DivKilledAside ==
    ASSUME Static, NEW k \in Jobs, DivKilled(k)
    PROVE  \E p : Aside(k, p)
<1>1. job[k] \in JobRecord /\ Placed(job[k]) /\ job[k].type = "div" /\ job[k].pc # "absent" /\ job[k].of \in Dividends
      /\ mishap \in [Accounts -> SUBSET Mishaps]
    BY Idle DEF DivKilled, Div, AtWork, Open, Placed, Typed
<1>2. PICK p : p = [job[k] EXCEPT !.pc = "failed", !.accts = {}]
    OBVIOUS
<1>3. p \in JobRecord /\ p.type = "div" /\ p.of = job[k].of /\ p.filter = job[k].filter /\ p.pc = "failed"
      /\ p.accts = {}
    BY <1>1, <1>2 DEF JobRecord, Pcs
<1>4. Placed(p)
    BY <1>1, <1>3 DEF Placed, Paying, Early, Walking
<1>5. PICK u : u = IF job[k].undo # {} THEN Upset(Here(k), "moved") ELSE mishap
    OBVIOUS
<1>6. u \in [Accounts -> SUBSET Mishaps] /\ \A a \in Accounts : mishap[a] \subseteq u[a]
    <2>1. PICK h : h = Here(k)
        OBVIOUS
    <2>2. u = mishap \/ u = [mishap EXCEPT ![h] = mishap[h] \union {"moved"}]
        BY <1>5, <2>1 DEF Upset
    <2>3. QED
        BY <1>1, <2>2 DEF Mishaps
<1>7. Becomes(k, p, u)
    BY <1>2, <1>5, <1>6, BecomeMakes DEF DivKilled
<1>8. Loose'
    <2>1. accident' = [accident EXCEPT ![job[k].of] = accident[job[k].of] \union {"missed"}]
        BY DEF DivKilled, Miss
    <2>2. accident' \in [Dividends -> SUBSET {"twice", "missed"}]
        BY <1>1, <2>1, Idle DEF Loose
    <2>3. QED
        BY <2>2, Idle DEF Loose, DivKilled, Spend
<1>9. Moved(k, p)
    BY <1>1, <1>3, <1>4, <1>7, <1>8, MovedIf
<1>10. Grows /\ "missed" \in accident'[job[k].of]
    <2>1. accident' = [accident EXCEPT ![job[k].of] = accident[job[k].of] \union {"missed"}]
        BY DEF DivKilled, Miss
    <2>2. QED
        BY <1>1, <2>1, Idle DEF Loose, Grows
<1>11. Keeps
    BY <1>6, <1>7, <1>9, KeepsAll DEF Becomes, DivKilled
<1>12. Tame
    BY TameSame DEF DivKilled
<1>13. QED
    BY <1>3, <1>9, <1>10, <1>11, <1>12 DEF Aside, DivKilled, Paying, Early

LEMMA HereIn ==
    ASSUME Static, NEW k \in Jobs, job[k].pc \in Paying \union Walking
    PROVE  Here(k) \in job[k].accts /\ Here(k) \in Accounts
<1>1. job[k] \in JobRecord /\ Placed(job[k])
    BY Idle
<1>2. job[k].accts \in SUBSET Accounts /\ job[k].accts # {}
    BY <1>1 DEF JobRecord, Placed
<1>3. QED
    BY <1>2, LowestOf DEF Here

LEMMA UpsetIs ==
    ASSUME Static, NEW a \in Accounts, NEW what \in Mishaps
    PROVE  /\ Upset(a, what) \in [Accounts -> SUBSET Mishaps]
           /\ \A b \in Accounts : mishap[b] \subseteq Upset(a, what)[b]
           /\ what \in Upset(a, what)[a]
BY Idle DEF Upset, Typed

(* A step of an append or a rebuild.                                        *)
LEMMA WalkAside ==
    ASSUME Static, NEW k \in Jobs, job[k].type # "div", NEW p \in JobRecord, Placed(p), p.type = job[k].type,
           p.pc # "absent", NEW u \in [Accounts -> SUBSET Mishaps], Become(k, p, u),
           \A a \in Accounts : mishap[a] \subseteq u[a], credited \subseteq credited', Tame, Loose',
           UNCHANGED <<master, records, accident, payer>>
    PROVE  Aside(k, p)
<1>1. Becomes(k, p, u)
    BY BecomeMakes
<1>2. Moved(k, p)
    BY <1>1, MovedIf
<1>3. Keeps
    BY <1>1, <1>2, KeepsAll DEF Becomes
<1>4. job[k].pc \notin Paying /\ p.pc \notin Paying \union {"apply"}
    BY Idle DEF Placed
<1>5. QED
    BY <1>2, <1>3, <1>4 DEF Aside, Grows

(* The same of a step that leaves the passbooks as they are.                *)
LEMMA WalkGoes ==
    ASSUME Static, NEW k \in Jobs, job[k].type # "div", NEW p \in JobRecord, Placed(p), p.type = job[k].type,
           p.pc # "absent", Go(k, p), UNCHANGED <<begun, landed, book, divVars, req, spent, credited>>
    PROVE  Aside(k, p)
<1>1. mishap \in [Accounts -> SUBSET Mishaps] /\ Become(k, p, mishap)
    BY Idle DEF Typed, Go
<1>2. Loose'
    BY Idle DEF Loose, divVars
<1>3. Tame
    BY TameSame
<1>4. PICK u : u = mishap
    OBVIOUS
<1>5. QED
    BY <1>1, <1>2, <1>3, <1>4, WalkAside DEF divVars

LEMMA WalkStartAside ==
    ASSUME Static, NEW k \in Jobs, WalkStart(k)
    PROVE  \E p : Aside(k, p)
<1>1. job[k] \in JobRecord /\ Placed(job[k]) /\ job[k].type # "div" /\ job[k].pc = "queued"
    BY Idle DEF WalkStart, Div, MayStart
<1>2. PICK q : q = IF job[k].filter = {} THEN "end" ELSE "delete"
    OBVIOUS
<1>3. PICK p : p = [job[k] EXCEPT !.accts = job[k].filter, !.pc = q]
    OBVIOUS
<1>4. /\ p \in JobRecord /\ p.type = job[k].type /\ p.accts = job[k].filter /\ p.filter = job[k].filter
      /\ p.pc = q /\ p.seq = job[k].seq /\ p.bal = job[k].bal
    BY <1>1, <1>2, <1>3 DEF JobRecord, Pcs, Walking
<1>5. Placed(p)
    BY <1>1, <1>2, <1>4 DEF Placed, Paying, Early, Walking
<1>6. Go(k, p) /\ UNCHANGED <<begun, landed, book, divVars, req, spent, credited>>
    BY <1>2, <1>3 DEF WalkStart
<1>7. p.pc # "absent"
    BY <1>2, <1>4
<1>8. QED
    BY <1>1, <1>4, <1>5, <1>6, <1>7, WalkGoes

LEMMA NextAside ==
    ASSUME Static, NEW k \in Jobs, job[k].type # "div", job[k].pc \in Walking, Go(k, NextAccount(job[k])),
           UNCHANGED <<begun, landed, book, divVars, req, spent, credited>>
    PROVE  \E p : Aside(k, p)
<1>1. job[k] \in JobRecord /\ Placed(job[k]) /\ job[k].accts # {}
    BY Idle DEF Placed
<1>2. PICK p : p = NextAccount(job[k])
    OBVIOUS
<1>3. p \in JobRecord /\ p.type = job[k].type /\ p.pc # "absent"
    BY <1>1, <1>2, NextAccountIs
<1>4. Placed(p)
    BY <1>1, <1>2, NextAccountPlaced
<1>5. QED
    BY <1>2, <1>3, <1>4, WalkGoes

LEMMA ReadChunkAside ==
    ASSUME Static, NEW k \in Jobs, ReadChunk(k)
    PROVE  \E p : Aside(k, p)
<1>1. job[k] \in JobRecord /\ Placed(job[k]) /\ job[k].pc = "chunk" /\ job[k].type # "div"
    BY Idle DEF ReadChunk, Placed, Walking
<1>2. PICK from, mine, n :
         /\ mine \in SUBSET Trades
         /\ n = [job[k] EXCEPT !.chunk = @ + 1]
         /\ Go(k, IF from >= LastDay THEN NextAccount(job[k])
                  ELSE IF mine = {} THEN n
                  ELSE [n EXCEPT !.todo = mine, !.pc = "insert"])
    BY DEF ReadChunk
<1>3. UNCHANGED <<begun, landed, book, divVars, req, spent, credited>>
    BY DEF ReadChunk
<1>4. CASE from >= LastDay
    BY <1>1, <1>2, <1>3, <1>4, NextAside DEF Walking
<1>5. CASE ~(from >= LastDay)
    <2>1. n \in JobRecord /\ n.type = job[k].type /\ n.pc = "chunk" /\ n.accts = job[k].accts /\ n.filter = job[k].filter
        BY <1>1, <1>2 DEF JobRecord
    <2>2. PICK p : p = IF mine = {} THEN n ELSE [n EXCEPT !.todo = mine, !.pc = "insert"]
        OBVIOUS
    <2>3. /\ p \in JobRecord /\ p.type = job[k].type /\ p.accts = job[k].accts /\ p.filter = job[k].filter
          /\ p.pc \in {"chunk", "insert"} /\ (p.pc = "insert" => p.todo # {})
        BY <1>2, <2>1, <2>2 DEF JobRecord, Pcs, Walking
    <2>4. Placed(p)
        BY <1>1, <2>3 DEF Placed, Paying, Early, Walking
    <2>5. Go(k, p)
        BY <1>2, <1>5, <2>2
    <2>6. QED
        BY <1>1, <1>3, <2>3, <2>4, <2>5, WalkGoes
<1>6. QED
    BY <1>4, <1>5

LEMMA FetchEventsAside ==
    ASSUME Static, NEW k \in Jobs, FetchEvents(k)
    PROVE  \E p : Aside(k, p)
<1>1. job[k] \in JobRecord /\ Placed(job[k]) /\ job[k].pc = "fetch" /\ job[k].type # "div"
    BY Idle DEF FetchEvents, Placed, Walking
<1>2. PICK mine :
         /\ mine \in SUBSET Trades
         /\ Go(k, IF mine = {} THEN NextAccount(job[k]) ELSE [job[k] EXCEPT !.todo = mine, !.pc = "tail"])
    BY DEF FetchEvents
<1>3. UNCHANGED <<begun, landed, book, divVars, req, spent, credited>>
    BY DEF FetchEvents
<1>4. CASE mine = {}
    BY <1>1, <1>2, <1>3, <1>4, NextAside DEF Walking
<1>5. CASE mine # {}
    <2>1. PICK p : p = [job[k] EXCEPT !.todo = mine, !.pc = "tail"]
        OBVIOUS
    <2>2. /\ p \in JobRecord /\ p.type = job[k].type /\ p.accts = job[k].accts /\ p.filter = job[k].filter
          /\ p.pc = "tail" /\ p.todo = mine
        BY <1>1, <1>2, <2>1 DEF JobRecord, Pcs, Walking
    <2>3. Placed(p)
        BY <1>1, <1>5, <2>2 DEF Placed, Paying, Early, Walking
    <2>4. Go(k, p)
        BY <1>2, <1>5, <2>1
    <2>5. QED
        BY <1>1, <1>3, <2>2, <2>3, <2>4, WalkGoes
<1>6. QED
    BY <1>4, <1>5

LEMMA ReadTailAside ==
    ASSUME Static, NEW k \in Jobs, ReadTail(k)
    PROVE  \E p : Aside(k, p)
<1>1. job[k] \in JobRecord /\ Placed(job[k]) /\ job[k].pc = "tail" /\ job[k].type # "div"
    BY Idle DEF ReadTail, Placed, Walking
<1>2. UNCHANGED <<begun, landed, book, divVars, req, spent, credited>>
    BY DEF ReadTail
<1>3. Here(k) \in Accounts
    BY <1>1, HereIn DEF Walking
<1>4. PICK p : /\ Go(k, p)
               /\ \/ p = [job[k] EXCEPT !.pc = "insert"]
                  \/ \E w \in book[Here(k)] : p = [job[k] EXCEPT !.seq = w.seq, !.bal = w.bal, !.pc = "insert"]
    BY DEF ReadTail
<1>5. \A w \in book[Here(k)] : w.seq \in Int /\ w.bal \in Int
    BY <1>3, Idle DEF Loose, Rows
<1>6. /\ p \in JobRecord /\ p.type = job[k].type /\ p.accts = job[k].accts /\ p.filter = job[k].filter
      /\ p.pc = "insert" /\ p.todo = job[k].todo
    BY <1>1, <1>4, <1>5 DEF JobRecord, Pcs, Walking
<1>7. Placed(p)
    BY <1>1, <1>6 DEF Placed, Paying, Early, Walking
<1>8. QED
    BY <1>1, <1>2, <1>4, <1>6, <1>7, WalkGoes

(* A set of trades has a first one.                                         *)
LEMMA FirstTrade ==
    ASSUME NEW S \in SUBSET Trades, S # {}
    PROVE  \E t \in S : \A u \in S \ {t} : Earlier(t, u)
<1>1. PICK dates : dates = {t.date : t \in S}
    OBVIOUS
<1>2. PICK d \in dates : \A e \in dates : d <= e
    <2>1. dates \in SUBSET Nat /\ dates # {}
        BY <1>1, TradeFacts
    <2>2. QED
        BY <2>1, LeastOf
<1>3. PICK ranks : ranks = {t.rank : t \in {u \in S : u.date = d}}
    OBVIOUS
<1>4. PICK n \in ranks : \A m \in ranks : n <= m
    <2>1. ranks \in SUBSET Nat /\ ranks # {}
        BY <1>1, <1>3, TradeFacts
    <2>2. QED
        BY <2>1, LeastOf
<1>5. PICK t \in S : t.date = d /\ t.rank = n
    BY <1>3, <1>4
<1>6. ASSUME NEW u \in S, u # t
      PROVE  Earlier(t, u)
    <2>1. d <= u.date /\ u.date \in Nat /\ u.rank \in Nat /\ t.rank \in Nat /\ d \in Nat
        BY <1>1, <1>2, <1>5, TradeFacts
    <2>2. u.date = d => n <= u.rank /\ n # u.rank
        BY <1>3, <1>4, <1>5, <1>6, TradeFacts
    <2>3. QED
        BY <1>5, <2>1, <2>2 DEF Earlier
<1>7. QED
    BY <1>6

LEMMA NextTradeIs ==
    ASSUME Static, NEW k \in Jobs, job[k].pc = "insert"
    PROVE  NextTrade(k) \in job[k].todo /\ NextTrade(k) \in Trades
<1>1. job[k].todo \in SUBSET Trades /\ job[k].todo # {}
    BY Idle DEF JobRecord, Placed
<1>2. \E t \in job[k].todo : \A u \in job[k].todo \ {t} : Earlier(t, u)
    BY <1>1, FirstTrade
<1>3. QED
    BY <1>1, <1>2 DEF NextTrade

LEMMA InsertEventAside ==
    ASSUME Static, NEW k \in Jobs, InsertEvent(k)
    PROVE  \E p : Aside(k, p)
<1>1. /\ job[k] \in JobRecord /\ Placed(job[k]) /\ job[k].pc = "insert" /\ job[k].type # "div"
      /\ job[k].accts # {}
    BY Idle DEF InsertEvent, Placed, Walking
<1>2. Here(k) \in Accounts
    BY <1>1, HereIn DEF Walking
<1>3. PICK t : t = NextTrade(k)
    OBVIOUS
<1>4. t \in Trades /\ t.amt \in Int /\ t.rank \in Nat /\ t.date \in Nat
    BY <1>1, <1>3, NextTradeIs, TradeFacts
<1>5. PICK rest : rest = job[k].todo \ {t}
    OBVIOUS
<1>6. PICK n : n = [job[k] EXCEPT !.seq = @ + 1, !.bal = @ + t.amt, !.todo = rest]
    OBVIOUS
<1>7. rest \in SUBSET Trades /\ job[k].seq \in Int /\ job[k].bal \in Int
    BY <1>1, <1>5 DEF JobRecord
<1>8. /\ n \in JobRecord /\ n.type = job[k].type /\ n.accts = job[k].accts /\ n.filter = job[k].filter
      /\ n.pc = "insert" /\ n.todo = rest /\ n.seq = job[k].seq + 1 /\ n.bal = job[k].bal + t.amt
    <2>1. PICK m : m = [job[k] EXCEPT !.seq = @ + 1, !.bal = @ + t.amt]
        OBVIOUS
    <2>2. m \in JobRecord /\ m.type = job[k].type /\ m.accts = job[k].accts /\ m.filter = job[k].filter
          /\ m.pc = "insert" /\ m.seq = job[k].seq + 1 /\ m.bal = job[k].bal + t.amt
        <3>1. PICK s, b : s = job[k].seq + 1 /\ b = job[k].bal + t.amt /\ s \in Int /\ b \in Int
            BY <1>4, <1>7
        <3>2. PICK x : x = [job[k] EXCEPT !.seq = s]
            OBVIOUS
        <3>3. x \in JobRecord /\ x.type = job[k].type /\ x.accts = job[k].accts /\ x.filter = job[k].filter
              /\ x.pc = "insert" /\ x.seq = s /\ x.bal = job[k].bal
            BY <1>1, <3>1, <3>2 DEF JobRecord
        <3>4. m = [x EXCEPT !.bal = b]
            BY <1>1, <2>1, <3>1, <3>2 DEF JobRecord
        <3>5. QED
            BY <3>1, <3>3, <3>4 DEF JobRecord
    <2>3. n = [m EXCEPT !.todo = rest]
        BY <1>1, <1>6, <2>1 DEF JobRecord
    <2>4. QED
        BY <1>7, <2>2, <2>3 DEF JobRecord
<1>9. PICK w : w = Row("txn", t.rank, t.date, t.amt, n.seq, n.bal, k)
    OBVIOUS
<1>10. w \in Rows /\ w.kind = "txn"
    <2>1. n.seq \in Int /\ n.bal \in Int /\ k \in Nat
        BY <1>4, <1>7, <1>8, Numbers
    <2>2. QED
        BY <1>4, <1>9, <2>1, Idle DEF Loose, Row, Rows
<1>11. book' = [book EXCEPT ![Here(k)] = book[Here(k)] \union {w}]
    BY <1>3, <1>5, <1>6, <1>9 DEF InsertEvent
<1>12. Tame
    BY <1>2, <1>10, <1>11, TameTxn, Idle
<1>13. Loose'
    <2>1. book' \in [Accounts -> SUBSET Rows]
        BY <1>2, <1>10, <1>11, Idle DEF Loose
    <2>2. QED
        BY <2>1, Idle DEF Loose, InsertEvent, divVars
<1>14. PICK p : p = IF rest # {} THEN n ELSE IF job[k].type = "rebuild" THEN [n EXCEPT !.pc = "chunk"] ELSE NextAccount(n)
    OBVIOUS
<1>15. p \in JobRecord /\ p.type = job[k].type /\ p.pc # "absent" /\ Placed(p)
    <2>1. CASE rest # {}
        BY <1>1, <1>8, <1>14, <2>1 DEF Placed, Paying, Early, Walking
    <2>2. CASE rest = {} /\ job[k].type = "rebuild"
        <3>1. p = Turned(n, "chunk")
            BY <1>14, <2>2 DEF Turned
        <3>2. p \in JobRecord /\ p.type = n.type /\ p.accts = n.accts /\ p.filter = n.filter /\ p.pc = "chunk"
            BY <1>8, <3>1, TurnedIs DEF Pcs, Walking
        <3>3. QED
            BY <1>1, <1>8, <2>2, <3>2 DEF Placed, Paying, Early, Walking
    <2>3. CASE rest = {} /\ job[k].type # "rebuild"
        <3>1. p = NextAccount(n)
            BY <1>14, <2>3
        <3>2. p \in JobRecord /\ p.type = n.type /\ p.accts = n.accts \ {Lowest(n.accts)} /\ p.filter = n.filter
              /\ p.pc = (IF p.accts = {} THEN "end" ELSE IF n.type = "div" THEN "record" ELSE "delete")
              /\ p.seq = 0 /\ p.bal = 0
            BY <1>8, <3>1, NextAccountIs
        <3>3. QED
            BY <1>1, <1>8, <2>3, <3>2 DEF Placed, Paying, Early, Walking
    <2>4. QED
        BY <2>1, <2>2, <2>3
<1>16. Go(k, p)
    BY <1>3, <1>5, <1>6, <1>14 DEF InsertEvent
<1>17. PICK u : u = mishap
    OBVIOUS
<1>18. u \in [Accounts -> SUBSET Mishaps] /\ Become(k, p, u) /\ \A a \in Accounts : mishap[a] \subseteq u[a]
    BY <1>16, <1>17, Idle DEF Go, Typed
<1>19. QED
    BY <1>1, <1>12, <1>13, <1>15, <1>18, WalkAside DEF InsertEvent, divVars

LEMMA AccountFailsAside ==
    ASSUME Static, NEW k \in Jobs, AccountFails(k)
    PROVE  \E p : Aside(k, p)
<1>1. /\ job[k] \in JobRecord /\ Placed(job[k]) /\ job[k].pc \in Walking /\ job[k].type # "div"
      /\ job[k].accts # {}
    BY Idle DEF AccountFails, Div, Placed, Walking
<1>2. Here(k) \in Accounts
    BY <1>1, HereIn
<1>3. PICK n : n = [job[k] EXCEPT !.errs = 1]
    OBVIOUS
<1>4. n \in JobRecord /\ n.type = job[k].type /\ n.accts = job[k].accts /\ n.filter = job[k].filter /\ n.pc = job[k].pc
    BY <1>1, <1>3 DEF JobRecord
<1>5. PICK p : p = NextAccount(n)
    OBVIOUS
<1>6. /\ p \in JobRecord /\ p.type = n.type /\ p.accts = n.accts \ {Lowest(n.accts)} /\ p.filter = n.filter
      /\ p.pc = (IF p.accts = {} THEN "end" ELSE IF n.type = "div" THEN "record" ELSE "delete")
      /\ p.seq = 0 /\ p.bal = 0
    BY <1>4, <1>5, NextAccountIs
<1>7. Placed(p) /\ p.pc # "absent"
    BY <1>1, <1>4, <1>6 DEF Placed, Paying, Early, Walking
<1>8. PICK u : u = Upset(Here(k), "partial")
    OBVIOUS
<1>9. u \in [Accounts -> SUBSET Mishaps] /\ \A a \in Accounts : mishap[a] \subseteq u[a]
    BY <1>2, <1>8, UpsetIs DEF Mishaps
<1>10. Become(k, p, u)
    BY <1>3, <1>5, <1>8 DEF AccountFails
<1>11. Loose'
    BY Idle DEF Loose, AccountFails, Spend, divVars
<1>12. Tame
    BY TameSame DEF AccountFails
<1>13. QED
    BY <1>1, <1>4, <1>6, <1>7, <1>9, <1>10, <1>11, <1>12, WalkAside DEF AccountFails, divVars

(* What an append that runs again starts with.                              *)
LEMMA AgainIs ==
    ASSUME Static, NEW k \in Jobs, Again(k)
    PROVE  LET p == [NewJob("append", job[k].of, job[k].filter) EXCEPT !.tries = job[k].tries + 1]
           IN p \in JobRecord /\ p.type = job[k].type /\ p.pc = "queued" /\ Placed(p) /\ p.of = job[k].of
              /\ p.filter = job[k].filter /\ p.accts = {} /\ p.errs = 0
<1>1. job[k] \in JobRecord /\ job[k].type = "append"
    BY Idle DEF Again
<1>2. job[k].of \in Nat /\ job[k].filter \in SUBSET Accounts /\ job[k].tries \in Nat
    BY <1>1 DEF JobRecord
<1>3. PICK n : n = NewJob("append", job[k].of, job[k].filter)
    OBVIOUS
<1>4. /\ n \in JobRecord /\ n.type = "append" /\ n.of = job[k].of /\ n.filter = job[k].filter /\ n.pc = "queued"
      /\ n.accts = {} /\ n.seq = 0 /\ n.bal = 0 /\ n.errs = 0
    BY <1>2, <1>3, NewJobIs DEF NewJob
<1>5. PICK p : p = [n EXCEPT !.tries = job[k].tries + 1]
    OBVIOUS
<1>6. /\ p \in JobRecord /\ p.type = "append" /\ p.of = job[k].of /\ p.filter = job[k].filter /\ p.pc = "queued"
      /\ p.accts = {} /\ p.seq = 0 /\ p.bal = 0 /\ p.errs = 0
    BY <1>2, <1>4, <1>5 DEF JobRecord
<1>7. Placed(p)
    BY <1>6 DEF Placed, Paying, Early, Walking
<1>8. QED
    BY <1>1, <1>3, <1>5, <1>6, <1>7

LEMMA WalkEndsAside ==
    ASSUME Static, NEW k \in Jobs, WalkEnds(k)
    PROVE  \E p : Aside(k, p)
<1>1. job[k] \in JobRecord /\ Placed(job[k]) /\ job[k].pc = "end" /\ job[k].type # "div"
    BY Idle DEF WalkEnds, Div
<1>2. UNCHANGED <<begun, landed, book, divVars, req, spent, credited>>
    BY DEF WalkEnds
<1>3. CASE job[k].errs # 0 /\ Again(k)
    <2>1. PICK p : p = [NewJob("append", job[k].of, job[k].filter) EXCEPT !.tries = job[k].tries + 1]
        OBVIOUS
    <2>2. p \in JobRecord /\ p.type = job[k].type /\ p.pc # "absent" /\ Placed(p)
        BY <1>3, <2>1, AgainIs
    <2>3. Go(k, p)
        BY <1>3, <2>1 DEF WalkEnds
    <2>4. QED
        BY <1>1, <1>2, <2>2, <2>3, WalkGoes
<1>4. CASE ~(job[k].errs # 0 /\ Again(k))
    <2>1. PICK q \in {"done", "failed"} : Go(k, Turned(job[k], q))
        BY <1>4 DEF WalkEnds, Turned
    <2>2. PICK p : p = Turned(job[k], q)
        OBVIOUS
    <2>3. p \in JobRecord /\ p.type = job[k].type /\ p.accts = job[k].accts /\ p.filter = job[k].filter /\ p.pc = q
        BY <1>1, <2>2, TurnedIs DEF Pcs
    <2>4. Placed(p)
        BY <1>1, <2>3 DEF Placed, Paying, Early, Walking
    <2>5. QED
        BY <1>1, <1>2, <2>1, <2>2, <2>3, <2>4, WalkGoes
<1>5. QED
    BY <1>3, <1>4

LEMMA WalkKilledAside ==
    ASSUME Static, NEW k \in Jobs, WalkKilled(k)
    PROVE  \E p : Aside(k, p)
<1>1. job[k] \in JobRecord /\ Placed(job[k]) /\ job[k].type # "div" /\ job[k].pc # "absent"
    BY Idle DEF WalkKilled, Div, AtWork, Open
<1>2. PICK u : u = [a \in Accounts |-> mishap[a] \union (IF Writing(job[k], a) THEN {"partial"} ELSE {})]
    OBVIOUS
<1>3. u \in [Accounts -> SUBSET Mishaps] /\ \A a \in Accounts : mishap[a] \subseteq u[a]
    BY <1>2, Idle DEF Mishaps, Typed
<1>4. PICK p : p = IF Again(k) THEN [NewJob("append", job[k].of, job[k].filter) EXCEPT !.tries = job[k].tries + 1]
                   ELSE [job[k] EXCEPT !.pc = "failed", !.accts = {}]
    OBVIOUS
<1>5. p \in JobRecord /\ p.type = job[k].type /\ p.pc # "absent" /\ Placed(p)
    <2>1. CASE Again(k)
        BY <1>4, <2>1, AgainIs
    <2>2. CASE ~Again(k)
        <3>1. p = [job[k] EXCEPT !.pc = "failed", !.accts = {}]
            BY <1>4, <2>2
        <3>2. p \in JobRecord /\ p.type = job[k].type /\ p.accts = {} /\ p.filter = job[k].filter /\ p.pc = "failed"
            BY <1>1, <3>1 DEF JobRecord, Pcs
        <3>3. QED
            BY <1>1, <3>2 DEF Placed, Paying, Early, Walking
    <2>3. QED
        BY <2>1, <2>2
<1>6. Become(k, p, u)
    BY <1>2, <1>4 DEF WalkKilled
<1>7. Loose'
    BY Idle DEF Loose, WalkKilled, Spend, divVars
<1>8. Tame
    BY TameSame DEF WalkKilled
<1>9. QED
    BY <1>1, <1>3, <1>5, <1>6, <1>7, <1>8, WalkAside DEF WalkKilled, divVars

(* A rebuild's DELETE: it takes the dividends' rows with it, which is why   *)
(* the account counts as rebuilt from then on.                              *)
LEMMA RebuildDeleteAside ==
    ASSUME Static, NEW k \in Jobs, RebuildDelete(k)
    PROVE  \E p : Aside(k, p)
<1>1. job[k] \in JobRecord /\ Placed(job[k]) /\ job[k].pc = "delete" /\ job[k].type = "rebuild"
    BY Idle DEF RebuildDelete
<1>2. PICK h : h = Here(k)
    OBVIOUS
<1>3. h \in Accounts /\ h \in RebuildOf
    BY <1>1, <1>2, HereIn DEF Placed, Walking
<1>4. PICK p : p = [job[k] EXCEPT !.pc = "chunk", !.chunk = 1]
    OBVIOUS
<1>5. p \in JobRecord /\ p.type = job[k].type /\ p.accts = job[k].accts /\ p.filter = job[k].filter /\ p.pc = "chunk"
    BY <1>1, <1>4 DEF JobRecord, Pcs, Walking
<1>6. Placed(p)
    BY <1>1, <1>5 DEF Placed, Paying, Early, Walking
<1>7. PICK u : u = [mishap EXCEPT ![h] = {}]
    OBVIOUS
<1>8. u \in [Accounts -> SUBSET Mishaps] /\ \A a \in Accounts \ {h} : u[a] = mishap[a]
    BY <1>7, Idle DEF Typed
<1>9. Becomes(k, p, u)
    BY <1>2, <1>4, <1>7, <1>8, BecomeMakes DEF RebuildDelete
<1>10. Loose'
    <2>1. book' \in [Accounts -> SUBSET Rows] /\ credited' \in SUBSET (Dividends \X Accounts)
        BY Idle DEF Loose, RebuildDelete
    <2>2. QED
        BY <2>1, Idle DEF Loose, RebuildDelete, divVars
<1>11. Moved(k, p)
    BY <1>1, <1>5, <1>6, <1>9, <1>10, MovedIf
<1>12. Keeps
    <2>1. SUFFICES ASSUME NEW d \in Dividends, NEW a \in Accounts, Credited(d, a)
                   PROVE  Credited(d, a)'
        BY DEF Keeps
    <2>2. CASE a = h
        <3>1. job'[k].type = "rebuild"
            BY <1>1, <1>5, <1>9, Idle DEF Becomes, Typed
        <3>2. QED
            BY <1>3, <2>2, <3>1 DEF Credited, Rebuilt
    <2>3. CASE a # h
        <3>1. CASE Rebuilt(a)
            BY <1>11, <3>1, RebuiltStays DEF Credited
        <3>2. CASE <<d, a>> \in credited
            <4>1. <<d, a>> \in credited'
                <5>1. \A c : c \in credited /\ c[2] # h => c \in credited'
                    BY <1>2 DEF RebuildDelete
                <5>2. QED
                    BY <2>3, <3>2, <5>1
            <4>2. QED
                BY <4>1 DEF Credited
        <3>3. CASE mishap[a] # {}
            BY <1>8, <1>9, <2>3, <3>3 DEF Becomes, Credited
        <3>4. QED
            BY <2>1, <3>1, <3>2, <3>3 DEF Credited
    <2>4. QED
        BY <2>2, <2>3
<1>13. Tame
    <2>1. PICK S : S = {}
        OBVIOUS
    <2>2. book' = [book EXCEPT ![h] = S] /\ S \subseteq book[h]
        BY <1>2, <2>1 DEF RebuildDelete
    <2>3. QED
        BY <1>3, <2>2, TameDelete, Idle
<1>14. QED
    BY <1>1, <1>5, <1>11, <1>12, <1>13 DEF Aside, RebuildDelete, divVars, Grows, Paying, Early

(* An append's DELETE: it sweeps a dividend's row away only with a mishap,  *)
(* for the row is never its own.                                            *)
LEMMA AppendDeleteAside ==
    ASSUME Static, DividendRows, NEW k \in Jobs, AppendDelete(k)
    PROVE  \E p : Aside(k, p)
<1>1. job[k] \in JobRecord /\ Placed(job[k]) /\ job[k].pc = "delete" /\ job[k].type = "append"
    BY Idle DEF AppendDelete
<1>2. PICK h : h = Here(k)
    OBVIOUS
<1>3. h \in Accounts
    BY <1>1, <1>2, HereIn DEF Walking
<1>4. PICK p : p = Turned(job[k], "fetch")
    OBVIOUS
<1>5. p \in JobRecord /\ p.type = job[k].type /\ p.accts = job[k].accts /\ p.filter = job[k].filter /\ p.pc = "fetch"
    BY <1>1, <1>4, TurnedIs DEF Pcs, Walking
<1>6. Placed(p)
    BY <1>1, <1>5 DEF Placed, Paying, Early, Walking
<1>7. PICK since : since = {w \in book[h] : w.epoch >= job[k].of}
    OBVIOUS
<1>8. PICK others : others = {w \in since : w.by # k}
    OBVIOUS
<1>9. PICK u : u = IF others # {} THEN Upset(h, "swept") ELSE mishap
    OBVIOUS
<1>10. /\ u \in [Accounts -> SUBSET Mishaps] /\ \A a \in Accounts : mishap[a] \subseteq u[a]
       /\ others # {} => "swept" \in u[h]
    BY <1>3, <1>9, UpsetIs, Idle DEF Typed, Mishaps
<1>11. /\ book' = [book EXCEPT ![h] = book[h] \ since]
       /\ credited' = credited \ {<<w.of, h>> : w \in {v \in since : v.kind = "div"}}
       /\ Become(k, p, u)
    BY <1>2, <1>4, <1>7, <1>8, <1>9 DEF AppendDelete, Turned
<1>12. Becomes(k, p, u)
    BY <1>10, <1>11, BecomeMakes
<1>13. Loose'
    <2>1. book' \in [Accounts -> SUBSET Rows] /\ credited' \in SUBSET (Dividends \X Accounts)
        BY <1>11, Idle DEF Loose
    <2>2. QED
        BY <2>1, Idle DEF Loose, AppendDelete, divVars
<1>14. Moved(k, p)
    BY <1>1, <1>5, <1>6, <1>12, <1>13, MovedIf
<1>15. Keeps
    <2>1. SUFFICES ASSUME NEW d \in Dividends, NEW a \in Accounts, Credited(d, a)
                   PROVE  Credited(d, a)'
        BY DEF Keeps
    <2>2. CASE Rebuilt(a)
        BY <1>14, <2>2, RebuiltStays DEF Credited
    <2>3. CASE mishap[a] # {}
        BY <1>10, <1>12, <2>3 DEF Becomes, Credited
    <2>4. CASE <<d, a>> \in credited
        <3>1. CASE <<d, a>> \in credited'
            BY <3>1 DEF Credited
        <3>2. CASE <<d, a>> \notin credited'
            <4>1. PICK w \in since : w.kind = "div" /\ <<d, a>> = <<w.of, h>>
                BY <1>11, <2>4, <3>2
            <4>2. w \in book[h] /\ a = h
                BY <1>7, <4>1
            <4>3. w.by \in Jobs /\ job[w.by].type = "div"
                BY <1>3, <4>1, <4>2 DEF DividendRows, DividendRow
            <4>4. w \in others
                BY <1>1, <1>8, <4>1, <4>3
            <4>5. mishap'[h] # {}
                BY <1>3, <1>10, <1>12, <4>4 DEF Becomes
            <4>6. QED
                BY <4>2, <4>5 DEF Credited
        <3>3. QED
            BY <3>1, <3>2
    <2>5. QED
        BY <2>1, <2>2, <2>3, <2>4 DEF Credited
<1>16. Tame
    <2>1. PICK S : S = book[h] \ since
        OBVIOUS
    <2>2. book' = [book EXCEPT ![h] = S] /\ S \subseteq book[h]
        BY <1>11, <2>1
    <2>3. QED
        BY <1>3, <2>2, TameDelete, Idle
<1>17. QED
    BY <1>1, <1>5, <1>14, <1>15, <1>16 DEF Aside, AppendDelete, divVars, Grows, Paying, Early

----------------------------------------------------------------------------
(* The steps of a job that pays.                                            *)

LEMMA Payer ==
    ASSUME Static, NEW k \in Jobs, job[k].pc \in Paying
    PROVE  /\ job[k] \in JobRecord /\ Placed(job[k]) /\ job[k].type = "div" /\ job[k].of \in Dividends
           /\ job[k].accts # {} /\ Here(k) \in Accounts /\ Here(k) \in job[k].accts
BY Idle, HereIn DEF Placed, Paying, Early

LEMMA PaysIf ==
    ASSUME Static, NEW k \in Jobs, job[k].pc \in Paying, NEW p \in JobRecord, Placed(p), p.pc # "absent",
           p.type = job[k].type, NEW u \in [Accounts -> SUBSET Mishaps], Become(k, p, u),
           \A a \in Accounts : mishap[a] \subseteq u[a], credited \subseteq credited', Loose'
    PROVE  Moved(k, p) /\ Keeps
<1>1. Becomes(k, p, u)
    BY BecomeMakes
<1>2. Moved(k, p)
    BY <1>1, MovedIf
<1>3. Keeps
    BY <1>1, <1>2, KeepsAll DEF Becomes
<1>4. QED
    BY <1>2, <1>3

LEMMA NextPays ==
    ASSUME Static, NEW k \in Jobs, job[k].pc \in Paying
    PROVE  LET p == NextAccount(job[k])
           IN /\ p \in JobRecord /\ Placed(p) /\ p.pc # "absent" /\ p.type = job[k].type /\ p.of = job[k].of
              /\ p.accts = job[k].accts \ {Here(k)} /\ p.pc = (IF p.accts = {} THEN "end" ELSE "record")
<1>1. job[k] \in JobRecord /\ Placed(job[k]) /\ job[k].type = "div" /\ job[k].accts # {}
    BY Payer
<1>2. PICK p : p = NextAccount(job[k])
    OBVIOUS
<1>3. /\ p \in JobRecord /\ p.type = job[k].type /\ p.of = job[k].of
      /\ p.accts = job[k].accts \ {Lowest(job[k].accts)}
      /\ p.pc = (IF p.accts = {} THEN "end" ELSE IF job[k].type = "div" THEN "record" ELSE "delete")
    BY <1>1, <1>2, NextAccountIs
<1>4. Placed(p)
    BY <1>1, <1>2, NextAccountPlaced
<1>5. QED
    BY <1>1, <1>2, <1>3, <1>4 DEF Here

LEMMA Missed ==
    ASSUME Static, NEW k \in Jobs, job[k].of \in Dividends, Miss(k)
    PROVE  /\ accident' \in [Dividends -> SUBSET {"twice", "missed"}]
           /\ Grows /\ "missed" \in accident'[job[k].of]
<1>1. accident \in [Dividends -> SUBSET {"twice", "missed"}]
    BY Idle DEF Loose
<1>2. accident' = [accident EXCEPT ![job[k].of] = accident[job[k].of] \union {"missed"}]
    BY DEF Miss
<1>3. QED
    BY <1>1, <1>2 DEF Grows

LEMMA SameMishap ==
    ASSUME Static, NEW k \in Jobs, NEW p, Go(k, p)
    PROVE  \E u \in [Accounts -> SUBSET Mishaps] : Become(k, p, u) /\ \A a \in Accounts : mishap[a] \subseteq u[a]
<1>1. mishap \in [Accounts -> SUBSET Mishaps]
    BY Idle DEF Typed
<1>2. QED
    BY <1>1 DEF Go

LEMMA InsertRecordPays ==
    ASSUME Static, NEW k \in Jobs, InsertRecord(k)
    PROVE  \E p, d, h : PaysOn(k, p, d, h)
<1>1. job[k].pc = "record" /\ job[k].pc \in Paying
    BY DEF InsertRecord, Paying, Early
<1>2. PICK p, d, h : p = Turned(job[k], "dup") /\ d = job[k].of /\ h = Here(k)
    OBVIOUS
<1>3. /\ p \in JobRecord /\ p.pc = "dup" /\ p.type = job[k].type /\ p.of = job[k].of /\ p.accts = job[k].accts
      /\ p.filter = job[k].filter
    <2>1. "dup" \in Pcs /\ job[k] \in JobRecord
        BY <1>1, Payer DEF Pcs, Paying, Early
    <2>2. QED
        BY <1>2, <2>1, TurnedIs
<1>4. Placed(p)
    BY <1>1, <1>3, Payer DEF Placed, Paying, Early, Walking
<1>5. PICK rec : rec = [div |-> d, acct |-> h, by |-> k]
    OBVIOUS
<1>6. records' = records \union {rec} /\ rec.div = d /\ rec.acct = h
    BY <1>2, <1>5 DEF InsertRecord
<1>7. Loose'
    <2>1. rec \in [div : Dividends, acct : Accounts, by : Jobs]
        BY <1>1, <1>2, <1>5, Payer
    <2>2. QED
        BY <1>6, <2>1, Idle DEF Loose, InsertRecord
<1>8. Go(k, p)
    BY <1>2 DEF InsertRecord, Turned
<1>9. PICK u \in [Accounts -> SUBSET Mishaps] : Become(k, p, u) /\ \A a \in Accounts : mishap[a] \subseteq u[a]
    BY <1>8, SameMishap
<1>10. Moved(k, p) /\ Keeps
    BY <1>1, <1>3, <1>4, <1>7, <1>9, PaysIf DEF InsertRecord
<1>11. Tame /\ Grows
    BY TameSame DEF InsertRecord, Grows
<1>12. Stays(k, p, d)
    BY <1>1, <1>3, <1>11 DEF Stays, Paying, Early
<1>13. Books(k, d, h)
    BY <1>1, <1>5, <1>6 DEF Books
<1>14. PaysOn(k, p, d, h)
    BY <1>1, <1>2, <1>3, <1>10, <1>11, <1>12, <1>13 DEF PaysOn, InsertRecord
<1>15. QED
    BY <1>14

LEMMA RecordFailsPays ==
    ASSUME Static, NEW k \in Jobs, RecordFails(k)
    PROVE  \E p, d, h : PaysOn(k, p, d, h)
<1>1. job[k].pc = "record" /\ job[k].pc \in Paying /\ Miss(k)
    BY DEF RecordFails, Paying, Early
<1>2. PICK p, d, h : p = NextAccount(job[k]) /\ d = job[k].of /\ h = Here(k)
    OBVIOUS
<1>3. /\ p \in JobRecord /\ Placed(p) /\ p.pc # "absent" /\ p.type = job[k].type /\ p.of = d
      /\ p.accts = job[k].accts \ {h} /\ p.pc = (IF p.accts = {} THEN "end" ELSE "record")
    BY <1>1, <1>2, NextPays
<1>4. /\ accident' \in [Dividends -> SUBSET {"twice", "missed"}]
      /\ Grows /\ "missed" \in accident'[d]
    BY <1>1, <1>2, Payer, Missed
<1>5. Loose' /\ (records' = records \/ Books(k, d, h))
    <2>1. PICK rec : rec = [div |-> d, acct |-> h, by |-> k]
        OBVIOUS
    <2>2. records' = records \/ records' = records \union {rec}
        BY <1>2, <2>1 DEF RecordFails
    <2>3. rec \in [div : Dividends, acct : Accounts, by : Jobs]
        BY <1>1, <1>2, <2>1, Payer
    <2>4. records' \in SUBSET [div : Dividends, acct : Accounts, by : Jobs]
        BY <2>2, <2>3, Idle DEF Loose
    <2>5. Loose'
        BY <1>4, <2>4, Idle DEF Loose, RecordFails, Spend
    <2>6. QED
        BY <1>1, <2>1, <2>2, <2>5 DEF Books
<1>6. PICK u \in [Accounts -> SUBSET Mishaps] : Become(k, p, u) /\ \A a \in Accounts : mishap[a] \subseteq u[a]
    BY <1>2, SameMishap DEF RecordFails
<1>7. Moved(k, p) /\ Keeps
    BY <1>1, <1>3, <1>5, <1>6, PaysIf DEF RecordFails
<1>8. Tame
    BY TameSame DEF RecordFails
<1>9. Leaves(k, p, d, h)
    BY <1>3, <1>4 DEF Leaves
<1>10. ~Stays(k, p, d)
    BY <1>3 DEF Stays, Paying, Early
<1>11. PaysOn(k, p, d, h)
    BY <1>1, <1>2, <1>3, <1>4, <1>5, <1>7, <1>8, <1>9, <1>10 DEF PaysOn, RecordFails
<1>12. QED
    BY <1>11

LEMMA CheckCashPays ==
    ASSUME Static, DividendRows, NEW k \in Jobs, CheckCash(k)
    PROVE  \E p, d, h : PaysOn(k, p, d, h)
<1>1. job[k].pc = "dup" /\ job[k].pc \in Paying
    BY DEF CheckCash, Paying, Early
<1>2. PICK d, h : d = job[k].of /\ h = Here(k)
    OBVIOUS
<1>3. d \in Dividends /\ h \in Accounts /\ job[k] \in JobRecord
    BY <1>1, <1>2, Payer
<1>4. Loose' /\ Grows /\ UNCHANGED <<master, payer, records, accident, credited, book>>
    BY Idle DEF Loose, CheckCash, Grows, divVars
<1>5. Tame
    BY <1>4, TameSame
<1>6. CASE \E w \in book[h] : IsDiv(w, d)
    <2>1. PICK p : p = NextAccount(job[k])
        OBVIOUS
    <2>2. /\ p \in JobRecord /\ Placed(p) /\ p.pc # "absent" /\ p.type = job[k].type /\ p.of = d
          /\ p.accts = job[k].accts \ {h} /\ p.pc = (IF p.accts = {} THEN "end" ELSE "record")
        BY <1>1, <1>2, <2>1, NextPays
    <2>3. Go(k, p)
        BY <1>2, <1>6, <2>1 DEF CheckCash, IsDiv
    <2>4. PICK u \in [Accounts -> SUBSET Mishaps] : Become(k, p, u) /\ \A a \in Accounts : mishap[a] \subseteq u[a]
        BY <2>3, SameMishap
    <2>5. Moved(k, p) /\ Keeps
        BY <1>1, <1>4, <2>2, <2>4, PaysIf
    <2>6. Credited(d, h)'
        BY <1>3, <1>6, <2>5 DEF DividendRows, DividendRow, Keeps, IsDiv
    <2>7. Leaves(k, p, d, h)
        BY <1>1, <2>2, <2>6 DEF Leaves
    <2>8. PaysOn(k, p, d, h)
        BY <1>1, <1>2, <1>4, <1>5, <2>2, <2>5, <2>7 DEF PaysOn
    <2>9. QED
        BY <2>8
<1>7. CASE ~(\E w \in book[h] : IsDiv(w, d))
    <2>1. PICK p : p = Turned(job[k], "prior")
        OBVIOUS
    <2>2. /\ p \in JobRecord /\ p.pc = "prior" /\ p.type = job[k].type /\ p.of = d /\ p.accts = job[k].accts
          /\ p.filter = job[k].filter
        <3>1. "prior" \in Pcs
            BY DEF Pcs, Paying, Early
        <3>2. QED
            BY <1>2, <1>3, <2>1, <3>1, TurnedIs
    <2>3. Placed(p)
        BY <1>1, <1>2, <2>2, Payer DEF Placed, Paying, Early, Walking
    <2>4. Go(k, p)
        BY <1>2, <1>7, <2>1 DEF CheckCash, IsDiv, Turned
    <2>5. PICK u \in [Accounts -> SUBSET Mishaps] : Become(k, p, u) /\ \A a \in Accounts : mishap[a] \subseteq u[a]
        BY <2>4, SameMishap
    <2>6. Moved(k, p) /\ Keeps
        BY <1>1, <1>4, <2>2, <2>3, <2>5, PaysIf
    <2>7. Stays(k, p, d)
        BY <1>1, <1>5, <2>2 DEF Stays, Paying, Early
    <2>8. PaysOn(k, p, d, h)
        BY <1>1, <1>2, <1>4, <1>5, <2>2, <2>6, <2>7 DEF PaysOn
    <2>9. QED
        BY <2>8
<1>8. QED
    BY <1>6, <1>7

LEMMA StaysPays ==
    ASSUME Static, NEW k \in Jobs, job[k].pc \in Paying \ Early, NEW p \in JobRecord,
           p.type = job[k].type, p.of = job[k].of, p.accts = job[k].accts, p.filter = job[k].filter,
           p.pc \in Paying \ Early,
           NEW u \in [Accounts -> SUBSET Mishaps], Become(k, p, u), \A a \in Accounts : mishap[a] \subseteq u[a],
           credited \subseteq credited', Loose', Grows, Tame, UNCHANGED <<master, payer, records>>,
           p.pc = "undo" => "missed" \in accident'[job[k].of],
           p.pc # "undo" => job[k].pc # "undo"
    PROVE  \E q, d, h : PaysOn(k, q, d, h)
<1>1. PICK d, h : d = job[k].of /\ h = Here(k)
    OBVIOUS
<1>2. Placed(p) /\ p.pc # "absent"
    BY Payer DEF Placed, Paying, Early, Walking
<1>3. Moved(k, p) /\ Keeps
    BY <1>2, PaysIf
<1>4. Stays(k, p, d)
    BY <1>1 DEF Stays
<1>5. PaysOn(k, p, d, h)
    BY <1>1, <1>3, <1>4 DEF PaysOn, Early
<1>6. QED
    BY <1>5

LEMMA CollectPays ==
    ASSUME Static, NEW k \in Jobs, Collect(k)
    PROVE  \E p, d, h : PaysOn(k, p, d, h)
<1>1. job[k].pc = "prior" /\ job[k].pc \in Paying
    BY DEF Collect, Paying, Early
<1>2. job[k] \in JobRecord /\ job[k].of \in Dividends
    BY <1>1, Payer
<1>3. PICK h : h = Here(k) /\ h \in Accounts
    BY <1>1, Payer
<1>4. PICK prior \in Priors(k) : Shift(k, prior, 0)
    BY DEF Collect
<1>5. prior.seq \in Int /\ prior.bal \in Int
    <2>1. \A w \in book[h] : w.seq \in Int /\ w.bal \in Int
        BY <1>3, Idle DEF Loose, Rows
    <2>2. prior = [seq |-> 0, bal |-> 0] \/ prior \in book[h]
        BY <1>3, <1>4 DEF Priors
    <2>3. QED
        BY <2>1, <2>2
<1>6. PICK later : later = {w \in book[h] : w.seq > prior.seq + 0}
    OBVIOUS
<1>7. later \in SUBSET Rows
    BY <1>3, <1>6, Idle DEF Loose
<1>8. PICK q : q = IF later = {} THEN "credit" ELSE "move"
    OBVIOUS
<1>9. PICK p : p = [job[k] EXCEPT !.seq = prior.seq, !.bal = prior.bal, !.moves = later, !.pc = q]
    OBVIOUS
<1>10. /\ p \in JobRecord /\ p.type = job[k].type /\ p.of = job[k].of /\ p.accts = job[k].accts
       /\ p.filter = job[k].filter /\ p.pc = q
    <2>1. q \in Pcs
        BY <1>8 DEF Pcs, Paying, Early
    <2>2. PICK x : x = [job[k] EXCEPT !.seq = prior.seq, !.bal = prior.bal]
        OBVIOUS
    <2>3. /\ x \in JobRecord /\ x.type = job[k].type /\ x.of = job[k].of /\ x.accts = job[k].accts
          /\ x.filter = job[k].filter
        BY <1>2, <1>5, <2>2 DEF JobRecord
    <2>4. p = [x EXCEPT !.moves = later, !.pc = q]
        BY <1>2, <1>9, <2>2 DEF JobRecord
    <2>5. QED
        BY <1>7, <2>1, <2>3, <2>4 DEF JobRecord
<1>11. Go(k, p)
    BY <1>3, <1>4, <1>6, <1>8, <1>9 DEF Shift
<1>12. PICK u \in [Accounts -> SUBSET Mishaps] : Become(k, p, u) /\ \A a \in Accounts : mishap[a] \subseteq u[a]
    BY <1>11, SameMishap
<1>13. Loose' /\ Grows
    BY Idle DEF Loose, Collect, Grows, divVars
<1>14. Tame
    BY TameSame DEF Collect
<1>15. p.pc \in Paying \ (Early \union {"undo"})
    BY <1>8, <1>10 DEF Paying, Early
<1>16. job[k].pc \in Paying \ Early /\ job[k].pc # "undo"
    BY <1>1 DEF Paying, Early
<1>17. p.pc \in Paying \ Early /\ p.pc # "undo"
    BY <1>15
<1>18. QED
    BY <1>1, <1>10, <1>12, <1>13, <1>14, <1>16, <1>17, StaysPays DEF Collect, divVars

LEMMA PutIs ==
    ASSUME Static, NEW a \in Accounts, NEW w, NEW s \in Int, NEW b \in Int, Put(a, w, s, b)
    PROVE  book' \in [Accounts -> SUBSET Rows]
<1>1. PICK rows : rows = {IF SameRow(v, w) THEN [v EXCEPT !.seq = s, !.bal = b] ELSE v : v \in book[a]}
    OBVIOUS
<1>2. book[a] \in SUBSET Rows
    BY Idle DEF Loose
<1>3. \A v \in book[a] : [v EXCEPT !.seq = s, !.bal = b] \in Rows
    BY <1>2 DEF Rows
<1>4. rows \in SUBSET Rows
    BY <1>1, <1>2, <1>3
<1>5. QED
    BY <1>1, <1>4, Idle DEF Loose, Put

LEMMA MoveRowPays ==
    ASSUME Static, NEW k \in Jobs, MoveRow(k)
    PROVE  \E p, d, h : PaysOn(k, p, d, h)
<1>1. job[k].pc = "move" /\ job[k].pc \in Paying
    BY DEF MoveRow, Paying, Early
<1>2. job[k] \in JobRecord /\ job[k].of \in Dividends
    BY <1>1, Payer
<1>3. PICK h : h = Here(k) /\ h \in Accounts
    BY <1>1, Payer
<1>4. PICK w \in job[k].moves :
         /\ Put(h, w, w.seq + 1, w.bal + Amount[job[k].of][h])
         /\ Go(k, [job[k] EXCEPT !.moves = job[k].moves \ {w}, !.undo = job[k].undo \union {w},
                                 !.pc = IF job[k].moves \ {w} = {} THEN "credit" ELSE "move"])
    BY <1>3 DEF MoveRow
<1>5. job[k].moves \in SUBSET Rows /\ job[k].undo \in SUBSET Rows /\ w \in Rows
    BY <1>2 DEF JobRecord
<1>6. PICK m, n, q : m = job[k].moves \ {w} /\ n = job[k].undo \union {w} /\ q = IF m = {} THEN "credit" ELSE "move"
    OBVIOUS
<1>7. PICK p : p = [job[k] EXCEPT !.moves = m, !.undo = n, !.pc = q]
    OBVIOUS
<1>8. /\ p \in JobRecord /\ p.type = job[k].type /\ p.of = job[k].of /\ p.accts = job[k].accts
      /\ p.filter = job[k].filter /\ p.pc = q
    <2>1. q \in Pcs /\ m \in SUBSET Rows /\ n \in SUBSET Rows
        BY <1>5, <1>6 DEF Pcs, Paying, Early
    <2>2. QED
        BY <1>2, <1>7, <2>1 DEF JobRecord
<1>9. Go(k, p)
    BY <1>4, <1>6, <1>7
<1>10. PICK u \in [Accounts -> SUBSET Mishaps] : Become(k, p, u) /\ \A a \in Accounts : mishap[a] \subseteq u[a]
    BY <1>9, SameMishap
<1>11. PICK s, b : s = w.seq + 1 /\ b = w.bal + Amount[job[k].of][h]
    OBVIOUS
<1>12. Put(h, w, s, b) /\ s \in Int /\ b \in Int
    <2>1. Amount[job[k].of][h] \in Nat /\ w.seq \in Int /\ w.bal \in Int
        BY <1>2, <1>3, <1>5, Amounts DEF Rows
    <2>2. QED
        BY <1>4, <1>11, <2>1
<1>13. Loose'
    <2>1. book' \in [Accounts -> SUBSET Rows]
        BY <1>3, <1>12, PutIs
    <2>2. QED
        BY <2>1, Idle DEF Loose, MoveRow, divVars
<1>14. Tame
    BY <1>3, <1>12, Idle, TamePut
<1>15. Grows
    BY DEF Grows, MoveRow, divVars
<1>16. p.pc \in Paying \ (Early \union {"undo"})
    BY <1>6, <1>8 DEF Paying, Early
<1>17. job[k].pc \in Paying \ Early /\ job[k].pc # "undo"
    BY <1>1 DEF Paying, Early, MoveRow
<1>18. p.pc \in Paying \ Early /\ p.pc # "undo"
    BY <1>16
<1>19. QED
    BY <1>1, <1>8, <1>10, <1>13, <1>14, <1>15, <1>17, <1>18, StaysPays DEF MoveRow, divVars

LEMMA CreditIs ==
    ASSUME Static, NEW k \in Jobs, job[k].pc \in Paying, Credit(k), NEW d, NEW h, d = job[k].of, h = Here(k)
    PROVE  /\ book' \in [Accounts -> SUBSET Rows]
           /\ \E w \in Rows : /\ w.kind = "div" /\ w.of = d /\ w.by = k
                              /\ book' = [book EXCEPT ![h] = book[h] \union {w}]
<1>1. job[k] \in JobRecord /\ d \in Dividends /\ h \in Accounts
    BY Payer
<1>2. d \in Nat /\ RecordDate[d] \in Nat /\ Amount[d][h] \in Nat /\ k \in Nat
    BY <1>1, Numbers, Amounts
<1>3. job[k].seq + 1 \in Int /\ job[k].bal + Amount[d][h] \in Int
    <2>1. job[k].seq \in Int /\ job[k].bal \in Int
        BY <1>1 DEF JobRecord
    <2>2. QED
        BY <1>2, <2>1
<1>4. PICK w : w = Row("div", d, RecordDate[d], Amount[d][h], job[k].seq + 1, job[k].bal + Amount[d][h], k)
    OBVIOUS
<1>5. w \in Rows /\ w.kind = "div" /\ w.of = d /\ w.by = k
    BY <1>2, <1>3, <1>4, Idle DEF Loose, Row, Rows
<1>6. book' = [book EXCEPT ![h] = book[h] \union {w}]
    BY <1>4 DEF Credit
<1>7. QED
    BY <1>1, <1>5, <1>6, Idle DEF Loose

LEMMA InsertDividendPays ==
    ASSUME Static, NEW k \in Jobs, InsertDividend(k)
    PROVE  \E p, d, h : PaysOn(k, p, d, h)
<1>1. job[k].pc = "credit" /\ job[k].pc \in Paying
    BY DEF InsertDividend, Paying, Early
<1>2. PICK p, d, h : p = NextAccount(job[k]) /\ d = job[k].of /\ h = Here(k)
    OBVIOUS
<1>3. /\ p \in JobRecord /\ Placed(p) /\ p.pc # "absent" /\ p.type = job[k].type /\ p.of = d
      /\ p.accts = job[k].accts \ {h} /\ p.pc = (IF p.accts = {} THEN "end" ELSE "record")
      /\ d \in Dividends /\ h \in Accounts
    BY <1>1, <1>2, NextPays, Payer
<1>4. PICK w \in Rows : /\ w.kind = "div" /\ w.of = d /\ w.by = k
                        /\ book' = [book EXCEPT ![h] = book[h] \union {w}]
    BY <1>1, <1>2, CreditIs DEF InsertDividend
<1>5. credited' = credited \union {<<d, h>>}
    BY <1>2 DEF InsertDividend
<1>6. Loose'
    <2>1. book' \in [Accounts -> SUBSET Rows] /\ credited' \in SUBSET (Dividends \X Accounts)
        BY <1>3, <1>4, <1>5, Idle DEF Loose
    <2>2. QED
        BY <2>1, Idle DEF Loose, InsertDividend, divVars
<1>7. PICK u \in [Accounts -> SUBSET Mishaps] : Become(k, p, u) /\ \A a \in Accounts : mishap[a] \subseteq u[a]
    BY <1>2, SameMishap DEF InsertDividend
<1>8. Moved(k, p) /\ Keeps
    BY <1>1, <1>3, <1>5, <1>6, <1>7, PaysIf
<1>9. Credited(d, h)'
    BY <1>5 DEF Credited
<1>10. Leaves(k, p, d, h)
    BY <1>1, <1>3, <1>9 DEF Leaves
<1>11. Credits(k, d, h)
    BY <1>4, <1>9 DEF Credits
<1>12. PaysOn(k, p, d, h)
    BY <1>1, <1>2, <1>3, <1>8, <1>10, <1>11 DEF PaysOn, InsertDividend, divVars, Grows
<1>13. QED
    BY <1>12

(* What a job becomes that gives up on an account's passbook.               *)
LEMMA GivesUp ==
    ASSUME Static, NEW k \in Jobs, job[k].pc \in Paying,
           NEW p, p = IF job[k].undo = {} THEN NextAccount(job[k]) ELSE [job[k] EXCEPT !.pc = "undo"]
    PROVE  /\ p \in JobRecord /\ Placed(p) /\ p.pc # "absent" /\ p.type = job[k].type /\ p.of = job[k].of
           /\ \/ p.accts = job[k].accts /\ p.pc = "undo" /\ p.undo = job[k].undo /\ job[k].undo # {}
              \/ /\ p.accts = job[k].accts \ {Here(k)} /\ p.pc = (IF p.accts = {} THEN "end" ELSE "record")
                 /\ job[k].undo = {} /\ p = NextAccount(job[k])
<1>1. CASE job[k].undo = {}
    BY <1>1, NextPays
<1>2. CASE job[k].undo # {}
    <2>1. p = Turned(job[k], "undo") /\ "undo" \in Pcs /\ job[k] \in JobRecord
        BY <1>2, Payer DEF Turned, Pcs, Paying, Early
    <2>2. /\ p \in JobRecord /\ p.pc = "undo" /\ p.type = job[k].type /\ p.of = job[k].of
          /\ p.accts = job[k].accts /\ p.filter = job[k].filter /\ p.undo = job[k].undo
        BY <2>1, TurnedIs
    <2>3. Placed(p)
        BY <2>2, Payer DEF Placed, Paying, Early, Walking
    <2>4. QED
        BY <1>2, <2>2, <2>3
<1>3. QED
    BY <1>1, <1>2

LEMMA CashFailsPays ==
    ASSUME Static, NEW k \in Jobs, CashFails(k)
    PROVE  \E p, d, h : PaysOn(k, p, d, h)
<1>1. job[k].pc \in {"dup", "prior", "move", "credit"} /\ job[k].pc \in Paying /\ Miss(k)
    BY DEF CashFails, Paying, Early
<1>2. PICK d, h : d = job[k].of /\ h = Here(k)
    OBVIOUS
<1>3. d \in Dividends /\ h \in Accounts /\ job[k] \in JobRecord /\ Placed(job[k]) /\ job[k].type = "div"
    BY <1>1, <1>2, Payer
<1>4. /\ accident' \in [Dividends -> SUBSET {"twice", "missed"}]
      /\ Grows /\ "missed" \in accident'[d]
    BY <1>1, <1>2, <1>3, Missed
<1>5. PICK applied \in BOOLEAN :
         /\ applied => job[k].pc = "credit"
         /\ IF applied THEN Credit(k) ELSE UNCHANGED book
         /\ Become(k, IF job[k].undo = {} THEN NextAccount(job[k]) ELSE [job[k] EXCEPT !.pc = "undo"],
                   IF applied THEN Upset(Here(k), "ghost") ELSE mishap)
    BY Zenon DEF CashFails
<1>6. PICK p : p = IF job[k].undo = {} THEN NextAccount(job[k]) ELSE [job[k] EXCEPT !.pc = "undo"]
    OBVIOUS
<1>7. /\ p \in JobRecord /\ Placed(p) /\ p.pc # "absent" /\ p.type = job[k].type /\ p.of = d
      /\ \/ p.accts = job[k].accts /\ p.pc = "undo"
         \/ p.accts = job[k].accts \ {h} /\ p.pc = (IF p.accts = {} THEN "end" ELSE "record")
    BY <1>1, <1>2, <1>6, GivesUp
<1>8. PICK u : u = IF applied THEN Upset(h, "ghost") ELSE mishap
    OBVIOUS
<1>9. /\ u \in [Accounts -> SUBSET Mishaps] /\ \A a \in Accounts : mishap[a] \subseteq u[a]
      /\ applied => "ghost" \in u[h]
    BY <1>3, <1>8, UpsetIs, Idle DEF Typed, Mishaps
<1>10. Become(k, p, u)
    BY <1>2, <1>5, <1>6, <1>8
<1>11. book' \in [Accounts -> SUBSET Rows]
    BY <1>1, <1>2, <1>5, CreditIs, Idle DEF Loose
<1>12. Loose'
    BY <1>4, <1>11, Idle DEF Loose, CashFails, Spend
<1>13. Moved(k, p) /\ Keeps
    BY <1>1, <1>7, <1>9, <1>10, <1>12, PaysIf DEF CashFails
<1>14. Tame \/ (Credits(k, d, h) /\ job[k].pc = "credit" /\ applied)
    <2>1. CASE ~applied
        BY <1>5, <2>1, TameSame
    <2>2. CASE applied
        <3>1. PICK w \in Rows : /\ w.kind = "div" /\ w.of = d /\ w.by = k
                                /\ book' = [book EXCEPT ![h] = book[h] \union {w}]
            BY <1>1, <1>2, <1>5, <2>2, CreditIs
        <3>2. mishap'[h] # {}
            <4>1. Becomes(k, p, u)
                BY <1>9, <1>10, BecomeMakes
            <4>2. QED
                BY <1>3, <1>9, <2>2, <4>1 DEF Becomes
        <3>3. Credited(d, h)'
            BY <3>2 DEF Credited
        <3>4. QED
            BY <1>5, <2>2, <3>1, <3>3 DEF Credits
    <2>3. QED
        BY <2>1, <2>2
<1>15. Stays(k, p, d) \/ Leaves(k, p, d, h)
    BY <1>4, <1>7 DEF Stays, Leaves, Paying, Early
<1>16. PaysOn(k, p, d, h)
    BY <1>1, <1>2, <1>4, <1>7, <1>13, <1>14, <1>15 DEF PaysOn, CashFails
<1>17. QED
    BY <1>16

LEMMA MoveFailsPays ==
    ASSUME Static, NEW k \in Jobs, MoveFails(k)
    PROVE  \E p, d, h : PaysOn(k, p, d, h)
<1>1. job[k].pc = "move" /\ job[k].pc \in Paying \ Early /\ Miss(k)
    BY DEF MoveFails, Paying, Early
<1>2. PICK d, h : d = job[k].of /\ h = Here(k)
    OBVIOUS
<1>3. d \in Dividends /\ h \in Accounts /\ job[k] \in JobRecord /\ Placed(job[k]) /\ job[k].type = "div"
    BY <1>1, <1>2, Payer
<1>4. /\ accident' \in [Dividends -> SUBSET {"twice", "missed"}]
      /\ Grows /\ "missed" \in accident'[d]
    BY <1>1, <1>2, <1>3, Missed
<1>5. PICK w \in job[k].moves : Put(h, w, w.seq + 1, w.bal + Amount[d][h])
    BY <1>2 DEF MoveFails
<1>6. PICK s, b : s = w.seq + 1 /\ b = w.bal + Amount[d][h]
    OBVIOUS
<1>7. Put(h, w, s, b) /\ s \in Int /\ b \in Int
    <2>1. Amount[d][h] \in Nat /\ w.seq \in Int /\ w.bal \in Int
        BY <1>3, <1>5, Amounts DEF JobRecord, Rows
    <2>2. QED
        BY <1>5, <1>6, <2>1
<1>8. book' \in [Accounts -> SUBSET Rows] /\ Tame
    BY <1>3, <1>7, Idle, PutIs, TamePut
<1>9. PICK p : p = IF job[k].undo = {} THEN NextAccount(job[k]) ELSE [job[k] EXCEPT !.pc = "undo"]
    OBVIOUS
<1>10. /\ p \in JobRecord /\ Placed(p) /\ p.pc # "absent" /\ p.type = job[k].type /\ p.of = d
       /\ \/ p.accts = job[k].accts /\ p.pc = "undo"
          \/ p.accts = job[k].accts \ {h} /\ p.pc = (IF p.accts = {} THEN "end" ELSE "record")
    BY <1>1, <1>2, <1>9, GivesUp
<1>11. PICK u : u = Upset(h, "moved")
    OBVIOUS
<1>12. u \in [Accounts -> SUBSET Mishaps] /\ \A a \in Accounts : mishap[a] \subseteq u[a]
    BY <1>3, <1>11, UpsetIs, Idle DEF Typed, Mishaps
<1>13. Become(k, p, u)
    BY <1>2, <1>9, <1>11 DEF MoveFails
<1>14. Loose'
    BY <1>4, <1>8, Idle DEF Loose, MoveFails, Spend
<1>15. Moved(k, p) /\ Keeps
    BY <1>1, <1>10, <1>12, <1>13, <1>14, PaysIf DEF MoveFails
<1>16. Stays(k, p, d) \/ Leaves(k, p, d, h)
    BY <1>4, <1>10 DEF Stays, Leaves, Paying, Early
<1>17. PaysOn(k, p, d, h)
    BY <1>1, <1>2, <1>4, <1>8, <1>10, <1>15, <1>16 DEF PaysOn, MoveFails, Early
<1>18. QED
    BY <1>17

LEMMA UndoRowPays ==
    ASSUME Static, UndoneIsMissed, NEW k \in Jobs, UndoRow(k)
    PROVE  \E p, d, h : PaysOn(k, p, d, h)
<1>1. job[k].pc = "undo" /\ job[k].pc \in Paying
    BY DEF UndoRow, Paying, Early
<1>2. PICK d, h : d = job[k].of /\ h = Here(k)
    OBVIOUS
<1>3. d \in Dividends /\ h \in Accounts /\ job[k] \in JobRecord /\ Placed(job[k]) /\ job[k].type = "div"
    BY <1>1, <1>2, Payer
<1>4. PICK w, rest, n :
         /\ w \in job[k].undo /\ rest = job[k].undo \ {w}
         /\ n = IF rest = {} THEN NextAccount(job[k]) ELSE [job[k] EXCEPT !.undo = rest]
         /\ \/ Put(h, w, w.seq, w.bal) /\ Go(k, n)
            \/ Spend /\ UNCHANGED book /\ Become(k, n, Upset(h, "moved"))
    BY <1>2 DEF UndoRow
<1>5. w \in Rows /\ rest \in SUBSET Rows
    BY <1>3, <1>4 DEF JobRecord
<1>6. /\ n \in JobRecord /\ Placed(n) /\ n.pc # "absent" /\ n.type = job[k].type /\ n.of = d
      /\ \/ n.accts = job[k].accts /\ n.pc = "undo"
         \/ n.accts = job[k].accts \ {h} /\ n.pc = (IF n.accts = {} THEN "end" ELSE "record")
    <2>1. CASE rest = {}
        BY <1>1, <1>2, <1>4, <2>1, NextPays
    <2>2. CASE rest # {}
        <3>1. n = [job[k] EXCEPT !.undo = rest]
            BY <1>4, <2>2
        <3>2. /\ n \in JobRecord /\ n.pc = "undo" /\ n.type = job[k].type /\ n.of = d /\ n.accts = job[k].accts
              /\ n.filter = job[k].filter
            BY <1>1, <1>2, <1>3, <1>5, <3>1 DEF JobRecord
        <3>3. Placed(n)
            BY <1>1, <1>3, <1>2, <3>2, Payer DEF Placed, Paying, Early, Walking
        <3>4. QED
            BY <3>2, <3>3
    <2>3. QED
        BY <2>1, <2>2
<1>7. PICK u \in [Accounts -> SUBSET Mishaps] : Become(k, n, u) /\ \A a \in Accounts : mishap[a] \subseteq u[a]
    <2>1. CASE Go(k, n)
        BY <2>1, SameMishap
    <2>2. CASE Become(k, n, Upset(h, "moved"))
        BY <1>3, <2>2, UpsetIs DEF Mishaps
    <2>3. QED
        BY <1>4, <2>1, <2>2
<1>8. book' \in [Accounts -> SUBSET Rows] /\ Tame
    <2>1. CASE book' = book
        BY <2>1, TameSame, Idle DEF Loose
    <2>2. CASE Put(h, w, w.seq, w.bal)
        <3>1. PICK s \in Int, b \in Int : s = w.seq /\ b = w.bal
            BY <1>5 DEF Rows
        <3>2. Put(h, w, s, b)
            BY <2>2, <3>1
        <3>3. QED
            BY <1>3, <3>2, PutIs, TamePut, Idle
    <2>3. QED
        BY <1>4, <2>1, <2>2
<1>9. Loose'
    BY <1>8, Idle DEF Loose, UndoRow, Spend, divVars
<1>10. Moved(k, n) /\ Keeps
    BY <1>1, <1>6, <1>7, <1>9, PaysIf DEF UndoRow
<1>11. Grows /\ "missed" \in accident'[d]
    BY <1>1, <1>2 DEF UndoneIsMissed, UndoRow, divVars, Grows
<1>12. Stays(k, n, d) \/ Leaves(k, n, d, h)
    BY <1>6, <1>11 DEF Stays, Leaves, Paying, Early
<1>13. PaysOn(k, n, d, h)
    BY <1>1, <1>2, <1>6, <1>8, <1>10, <1>11, <1>12 DEF PaysOn, UndoRow, divVars
<1>14. QED
    BY <1>13

----------------------------------------------------------------------------
(* The two steps that decide who pays a dividend.                           *)

(* A job saw no master row of d.                                            *)
Takes(k, p, d) ==
    /\ d = job[k].of /\ d \in Dividends /\ d \notin master
    /\ Moved(k, p) /\ Tame /\ Keeps /\ Grows
    /\ job[k].pc = "master" /\ p.pc = "apply" /\ p.of = d
    /\ (\E j \in Jobs \ {k} : Applies(job[j], d)) => "twice" \in accident'[d]
    /\ UNCHANGED <<master, records, payer>>

(* It inserts the master row, and has these accounts to pay.                *)
Opens(k, p, d) ==
    /\ d = job[k].of /\ d \in Dividends
    /\ Moved(k, p) /\ Tame /\ Keeps /\ Grows
    /\ job[k].pc = "apply" /\ p.of = d
    /\ p.pc = (IF p.accts = {} THEN "end" ELSE "read")
    /\ master' = master \union {d}
    /\ payer' = [payer EXCEPT ![d] = IF d \in master THEN payer[d] ELSE p.accts]
    /\ UNCHANGED records

LEMMA DivMasterTakes ==
    ASSUME Static, NEW k \in Jobs, DivMaster(k), job[k].of \notin master
    PROVE  \E p, d : Takes(k, p, d)
<1>1. PICK d : d = job[k].of
    OBVIOUS
<1>2. /\ d \in Dividends /\ job[k].type = "div" /\ job[k].pc = "master" /\ job[k] \in JobRecord
      /\ Placed(job[k])
    BY <1>1, Idle DEF DivMaster, Div, Placed
<1>3. PICK p : p = Turned(job[k], "apply")
    OBVIOUS
<1>4. /\ p \in JobRecord /\ p.pc = "apply" /\ p.type = job[k].type /\ p.of = d /\ p.accts = job[k].accts
      /\ p.filter = job[k].filter
    BY <1>1, <1>2, <1>3, TurnedIs DEF Pcs
<1>5. Placed(p)
    BY <1>1, <1>2, <1>4 DEF Placed, Paying, Early, Walking
<1>6. PICK both \in BOOLEAN :
         /\ both = (\E j \in Jobs \ {k} : Div(j) /\ job[j].of = d /\ job[j].pc = "apply")
         /\ accident' = IF both THEN [accident EXCEPT ![d] = accident[d] \union {"twice"}] ELSE accident
    BY <1>1, Zenon DEF DivMaster
<1>7. /\ Go(k, p) /\ UNCHANGED jobsRow
      /\ UNCHANGED <<begun, landed, book, master, records, req, spent, payer, credited>>
    BY <1>3 DEF DivMaster, Turned
<1>8. accident' \in [Dividends -> SUBSET {"twice", "missed"}] /\ Grows /\ (both => "twice" \in accident'[d])
    <2>1. accident \in [Dividends -> SUBSET {"twice", "missed"}]
        BY Idle DEF Loose
    <2>2. CASE both
        <3>1. accident' = [accident EXCEPT ![d] = accident[d] \union {"twice"}]
            BY <1>6, <2>2
        <3>2. QED
            BY <1>2, <2>1, <3>1 DEF Grows
    <2>3. CASE ~both
        <3>1. accident' = accident
            BY <1>6, <2>3
        <3>2. QED
            BY <2>1, <2>3, <3>1 DEF Grows
    <2>4. QED
        BY <2>2, <2>3
<1>9. Loose'
    BY <1>7, <1>8, Idle DEF Loose
<1>10. Becomes(k, p, mishap)
    BY <1>7, GoMakes, Idle
<1>11. Moved(k, p)
    BY <1>2, <1>4, <1>5, <1>9, <1>10, MovedIf
<1>12. Keeps
    BY <1>7, <1>10, <1>11, KeepsAll DEF Becomes
<1>13. Tame
    BY <1>7, TameSame
<1>14. (\E j \in Jobs \ {k} : Applies(job[j], d)) => "twice" \in accident'[d]
    <2>1. SUFFICES ASSUME NEW j \in Jobs \ {k}, Applies(job[j], d)
                   PROVE  "twice" \in accident'[d]
        OBVIOUS
    <2>2. job[j].type = "div" /\ job[j].of = d /\ job[j].pc = "apply"
        BY <2>1, Idle DEF Applies, Placed
    <2>3. both
        BY <1>6, <2>2, Zenon DEF Div
    <2>4. QED
        BY <1>8, <2>3
<1>15. Takes(k, p, d)
    BY <1>1, <1>2, <1>4, <1>7, <1>8, <1>11, <1>12, <1>13, <1>14 DEF Takes
<1>16. QED
    BY <1>15

LEMMA InsertMasterOpens ==
    ASSUME Static, NEW k \in Jobs, InsertMaster(k)
    PROVE  \E p, d : Opens(k, p, d)
<1>1. PICK d : d = job[k].of
    OBVIOUS
<1>2. /\ d \in Dividends /\ job[k].type = "div" /\ job[k].pc = "apply" /\ job[k] \in JobRecord
      /\ Placed(job[k])
    BY <1>1, Idle DEF InsertMaster, Div, Placed
<1>3. PICK A : A = Paid(k)
    OBVIOUS
<1>4. A \in SUBSET Accounts
    BY <1>2, <1>3 DEF Paid, JobRecord
<1>5. PICK q : q = IF A = {} THEN "end" ELSE "read"
    OBVIOUS
<1>6. PICK p : p = [job[k] EXCEPT !.accts = A, !.pc = q]
    OBVIOUS
<1>7. /\ p \in JobRecord /\ p.pc = q /\ p.type = job[k].type /\ p.of = d /\ p.accts = A
      /\ p.filter = job[k].filter
    <2>1. q \in Pcs
        BY <1>5 DEF Pcs, Paying, Early
    <2>2. QED
        BY <1>1, <1>2, <1>4, <1>6, <2>1 DEF JobRecord
<1>8. Placed(p) /\ p.pc # "absent"
    BY <1>1, <1>2, <1>5, <1>7 DEF Placed, Paying, Early, Walking
<1>9. /\ Go(k, p) /\ master' = master \union {d}
      /\ payer' = [payer EXCEPT ![d] = IF d \in master THEN payer[d] ELSE A]
      /\ UNCHANGED <<begun, landed, book, records, jobsRow, req, spent, accident, credited>>
    BY <1>1, <1>3, <1>5, <1>6 DEF InsertMaster, MasterRow
<1>10. Loose'
    <2>1. master' \in SUBSET Dividends /\ payer' \in [Dividends -> SUBSET Accounts]
        BY <1>2, <1>4, <1>9, Idle DEF Loose
    <2>2. QED
        BY <1>9, <2>1, Idle DEF Loose
<1>11. Becomes(k, p, mishap)
    BY <1>9, GoMakes, Idle
<1>12. Moved(k, p)
    BY <1>2, <1>7, <1>8, <1>10, <1>11, MovedIf
<1>13. Keeps
    BY <1>9, <1>11, <1>12, KeepsAll DEF Becomes
<1>14. Tame /\ Grows
    BY <1>9, TameSame DEF Grows
<1>15. Opens(k, p, d)
    BY <1>1, <1>2, <1>5, <1>7, <1>9, <1>12, <1>13, <1>14 DEF Opens
<1>16. QED
    BY <1>15

(* It goes on from the reads to its first account.                          *)
Reads(k, p) ==
    /\ Moved(k, p) /\ Tame /\ Keeps /\ Grows
    /\ job[k].pc = "read" /\ p.pc = "record" /\ p.of = job[k].of /\ p.accts = job[k].accts
    /\ UNCHANGED <<master, records, payer>>

(* It leaves the master row of d behind, and pays nobody.                   *)
Orphans(k, p, d) ==
    /\ d = job[k].of /\ d \in Dividends
    /\ Moved(k, p) /\ Tame /\ Keeps /\ Grows
    /\ job[k].pc \in {"apply", "read"} /\ p.pc = "failed"
    /\ "missed" \in accident'[d]
    /\ master' = master \union {d}
    /\ \A e \in Dividends \ {d} : payer'[e] = payer[e]
    /\ UNCHANGED records

LEMMA ReadAccountsReads ==
    ASSUME Static, NEW k \in Jobs, ReadAccounts(k)
    PROVE  \E p : Reads(k, p)
<1>1. job[k].pc = "read" /\ job[k].pc \in Paying
    BY DEF ReadAccounts, Paying, Early
<1>2. PICK p : p = Turned(job[k], "record")
    OBVIOUS
<1>3. /\ p \in JobRecord /\ p.pc = "record" /\ p.type = job[k].type /\ p.of = job[k].of
      /\ p.accts = job[k].accts /\ p.filter = job[k].filter
    <2>1. "record" \in Pcs /\ job[k] \in JobRecord
        BY <1>1, Payer DEF Pcs, Paying, Early
    <2>2. QED
        BY <1>2, <2>1, TurnedIs
<1>4. Placed(p)
    BY <1>1, <1>3, Payer DEF Placed, Paying, Early, Walking
<1>5. Loose'
    BY Idle DEF Loose, ReadAccounts, divVars
<1>6. PICK u \in [Accounts -> SUBSET Mishaps] : Become(k, p, u) /\ \A a \in Accounts : mishap[a] \subseteq u[a]
    <2>1. Go(k, p)
        BY <1>2 DEF ReadAccounts, Turned
    <2>2. QED
        BY <2>1, SameMishap
<1>7. Moved(k, p) /\ Keeps
    BY <1>1, <1>3, <1>4, <1>5, <1>6, PaysIf DEF ReadAccounts
<1>8. Tame /\ Grows
    BY TameSame DEF ReadAccounts, Grows, divVars
<1>9. Reads(k, p)
    BY <1>1, <1>3, <1>7, <1>8 DEF Reads, ReadAccounts, divVars
<1>10. QED
    BY <1>9

LEMMA MasterFailsOrphans ==
    ASSUME Static, NEW k \in Jobs, MasterFails(k)
    PROVE  \E p, d : Orphans(k, p, d)
<1>1. PICK d : d = job[k].of
    OBVIOUS
<1>2. /\ d \in Dividends /\ job[k].type = "div" /\ job[k].pc \in {"apply", "read"} /\ job[k] \in JobRecord
      /\ Placed(job[k])
    BY <1>1, Idle DEF MasterFails, Div, Placed
<1>3. PICK p : p = [job[k] EXCEPT !.pc = "failed", !.accts = {}]
    OBVIOUS
<1>4. /\ p \in JobRecord /\ p.pc = "failed" /\ p.type = job[k].type /\ p.of = d /\ p.accts = {}
      /\ p.filter = job[k].filter
    BY <1>1, <1>2, <1>3 DEF JobRecord, Pcs
<1>5. Placed(p) /\ p.pc # "absent"
    BY <1>1, <1>2, <1>4 DEF Placed, Paying, Early, Walking
<1>6. PICK A : A = Paid(k)
    OBVIOUS
<1>7. A \in SUBSET Accounts
    BY <1>2, <1>6 DEF Paid, JobRecord
<1>8. /\ Go(k, p) /\ Miss(k) /\ master' = master \union {d} /\ jobsRow' = [jobsRow EXCEPT ![d] = "FAILED"]
      /\ payer' = [payer EXCEPT ![d] = IF d \in master THEN payer[d] ELSE A]
      /\ spent' = spent + 1 /\ UNCHANGED <<begun, landed, book, records, req, credited>>
    BY <1>1, <1>3, <1>6 DEF MasterFails, MasterRow, SetJob, Spend
<1>9. /\ accident' \in [Dividends -> SUBSET {"twice", "missed"}]
      /\ Grows /\ "missed" \in accident'[d]
    BY <1>1, <1>2, <1>8, Missed
<1>10. Loose'
    <2>1. master' \in SUBSET Dividends /\ payer' \in [Dividends -> SUBSET Accounts]
        BY <1>2, <1>7, <1>8, Idle DEF Loose
    <2>2. jobsRow' \in [Dividends -> {"none", "PENDING", "COMPLETED", "FAILED", "ERROR"}]
        BY <1>2, <1>8, Idle DEF Loose
    <2>3. QED
        BY <1>8, <1>9, <2>1, <2>2, Idle DEF Loose
<1>11. Becomes(k, p, mishap)
    BY <1>8, GoMakes, Idle
<1>12. Moved(k, p)
    BY <1>2, <1>4, <1>5, <1>10, <1>11, MovedIf
<1>13. Keeps
    BY <1>8, <1>11, <1>12, KeepsAll DEF Becomes
<1>14. Tame
    BY <1>8, TameSame
<1>15. \A e \in Dividends \ {d} : payer'[e] = payer[e]
    BY <1>8, Idle DEF Loose
<1>16. Orphans(k, p, d)
    BY <1>1, <1>2, <1>4, <1>8, <1>9, <1>12, <1>13, <1>14, <1>15 DEF Orphans
<1>17. QED
    BY <1>16

----------------------------------------------------------------------------
(* Rows and records after a step.                                           *)

LEMMA TameHas ==
    ASSUME Tame, NEW d, NEW a \in Accounts
    PROVE  /\ Has(d, a)' => Has(d, a)
           /\ OneRow(d, a) => OneRow(d, a)'
<1>1. \A v, w \in book'[a] : v.kind = "div" /\ w.kind = "div" => Inherits(a, v, w)
    BY DEF Tame
<1>2. QED
    BY <1>1 DEF Inherits, Has, OneRow, IsDiv

LEMMA CreditsHas ==
    ASSUME Static, NEW k, NEW e, NEW h \in Accounts, Credits(k, e, h), NEW d, NEW a \in Accounts
    PROVE  /\ Has(d, a)' => Has(d, a) \/ (d = e /\ a = h)
           /\ OneRow(d, a) /\ (d = e /\ a = h => ~Has(d, a)) => OneRow(d, a)'
<1>1. PICK w \in Rows : /\ w.kind = "div" /\ w.of = e /\ w.by = k
                        /\ book' = [book EXCEPT ![h] = book[h] \union {w}]
    BY DEF Credits
<1>2. book'[h] = book[h] \union {w} /\ \A c \in Accounts \ {h} : book'[c] = book[c]
    BY <1>1, Idle DEF Loose
<1>3. QED
    BY <1>1, <1>2 DEF Has, OneRow, IsDiv

LEMMA RowsKept ==
    ASSUME Static, DividendRows, NEW k \in Jobs, NEW p, Moved(k, p), Keeps,
           Tame \/ (\E d \in Dividends, h \in Accounts : job[k].type = "div" /\ job[k].pc # "absent" /\ Credits(k, d, h))
    PROVE  DividendRows'
<1>1. job \in [Jobs -> JobRecord] /\ job' = [job EXCEPT ![k] = p] /\ p.pc # "absent"
      /\ (job[k].pc # "absent" => p.type = job[k].type)
    BY Idle DEF Typed, Moved
<1>2. \A j \in Jobs : job[j].type = "div" /\ job[j].pc # "absent" => job'[j].type = "div" /\ job'[j].pc # "absent"
    BY <1>1
<1>3. SUFFICES ASSUME NEW a \in Accounts, NEW v \in book'[a], v.kind = "div"
               PROVE  DividendRow(v, a)'
    BY DEF DividendRows
<1>4. ASSUME NEW x \in book[a], x.kind = v.kind, x.of = v.of, x.by = v.by
      PROVE  DividendRow(v, a)'
    <2>1. DividendRow(x, a)
        BY <1>3, <1>4 DEF DividendRows
    <2>2. v.of \in Dividends /\ Credited(v.of, a) /\ v.by \in Jobs /\ job[v.by].type = "div" /\ job[v.by].pc # "absent"
        BY <1>4, <2>1 DEF DividendRow
    <2>3. Credited(v.of, a)'
        BY <2>2 DEF Keeps
    <2>4. QED
        BY <1>2, <2>2, <2>3 DEF DividendRow
<1>5. CASE Tame
    <2>1. Inherits(a, v, v)
        BY <1>3, <1>5 DEF Tame
    <2>2. QED
        BY <1>4, <2>1 DEF Inherits
<1>6. CASE \E d \in Dividends, h \in Accounts : job[k].type = "div" /\ job[k].pc # "absent" /\ Credits(k, d, h)
    <2>1. PICK d \in Dividends, h \in Accounts : job[k].type = "div" /\ job[k].pc # "absent" /\ Credits(k, d, h)
        BY <1>6
    <2>2. PICK w \in Rows : /\ w.kind = "div" /\ w.of = d /\ w.by = k
                            /\ book' = [book EXCEPT ![h] = book[h] \union {w}]
                            /\ Credited(d, h)'
        BY <2>1 DEF Credits
    <2>3. v \in book[a] \/ (v = w /\ a = h)
        BY <1>3, <2>2, Idle DEF Loose
    <2>4. CASE v \in book[a]
        BY <1>4, <2>4
    <2>5. CASE v = w /\ a = h
        BY <1>2, <2>1, <2>2, <2>5 DEF DividendRow
    <2>6. QED
        BY <2>3, <2>4, <2>5
<1>7. QED
    BY <1>5, <1>6

----------------------------------------------------------------------------
(* Each kind of step preserves the invariant.                               *)

Held == DividendRows /\ UndoneIsMissed /\ \A d \in Dividends : Once(d) /\ Due(d)

(* The jobs after a step: the others are as they were.                      *)
LEMMA Others ==
    ASSUME Static, NEW k \in Jobs, NEW p, Moved(k, p)
    PROVE  job'[k] = p /\ \A j \in Jobs \ {k} : job'[j] = job[j]
BY Idle DEF Moved, Typed

LEMMA AsideHolds ==
    ASSUME Static, Held, NEW k \in Jobs, NEW p, Aside(k, p)
    PROVE  Held'
<1>1. job'[k] = p /\ \A j \in Jobs \ {k} : job'[j] = job[j]
    BY Others DEF Aside
<1>2. DividendRows'
    BY RowsKept DEF Held, Aside
<1>3. UndoneIsMissed'
    <2>1. SUFFICES ASSUME NEW j \in Jobs, job'[j].pc = "undo"
                   PROVE  "missed" \in accident'[job'[j].of]
        BY DEF UndoneIsMissed
    <2>2. j # k /\ job'[j] = job[j]
        BY <1>1, <2>1 DEF Aside, Paying, Early
    <2>3. job[j].of \in Dividends /\ "missed" \in accident[job[j].of]
        BY <2>1, <2>2, Payer DEF Held, UndoneIsMissed, Paying, Early
    <2>4. QED
        BY <2>2, <2>3 DEF Aside, Grows
<1>4. ASSUME NEW d \in Dividends
      PROVE  Once(d)'
    <2>1. SUFFICES ASSUME "twice" \notin accident'[d]
                   PROVE  /\ \A j, l \in Jobs : Applies(job'[j], d) /\ Applies(job'[l], d) => j = l
                          /\ \A j, l \in Jobs : Pays(job'[j], d) /\ Pays(job'[l], d) => j = l
                          /\ d \in master' => \A j \in Jobs : ~Applies(job'[j], d)
                          /\ d \notin master' => /\ \A j \in Jobs : ~Pays(job'[j], d)
                                                 /\ \A a \in Accounts : ~Recorded(d, a)' /\ ~Has(d, a)'
                          /\ \A j \in Jobs : Pays(job'[j], d) => Ahead(job[j], d)'
                          /\ OneRecord(d)'
                          /\ \A a \in Accounts : OneRow(d, a)'
        BY DEF Once
    <2>2. "twice" \notin accident[d] /\ Once(d)
        BY <2>1 DEF Aside, Grows, Held
    <2>3. \A j \in Jobs : Applies(job'[j], d) \/ Pays(job'[j], d) => j # k /\ job'[j] = job[j]
        BY <1>1 DEF Aside, Applies, Pays
    <2>4. master' = master /\ records' = records
        BY DEF Aside
    <2>5. \A a \in Accounts : (Recorded(d, a)' <=> Recorded(d, a)) /\ (Has(d, a)' => Has(d, a))
                              /\ (OneRow(d, a) => OneRow(d, a)')
        BY <2>4, TameHas DEF Aside, Recorded
    <2>6. ASSUME NEW j \in Jobs, Pays(job'[j], d)
          PROVE  Ahead(job[j], d)'
        <3>1. job'[j] = job[j] /\ Ahead(job[j], d) /\ job[j] \in JobRecord
            BY <2>2, <2>3, <2>6, Idle DEF Once
        <3>2. job[j].accts \in SUBSET Accounts
            BY <3>1 DEF JobRecord
        <3>3. PICK r : r = job[j]
            OBVIOUS
        <3>4. Ahead(r, d)'
            BY <2>5, <3>1, <3>2, <3>3 DEF Ahead
        <3>5. QED
            BY <3>1, <3>3, <3>4 DEF Ahead
    <2>7. OneRecord(d)'
        BY <2>2, <2>4 DEF Once, OneRecord
    <2>8. /\ \A j, l \in Jobs : Applies(job'[j], d) /\ Applies(job'[l], d) => j = l
          /\ \A j, l \in Jobs : Pays(job'[j], d) /\ Pays(job'[l], d) => j = l
        BY <2>2, <2>3 DEF Once
    <2>9. /\ d \in master' => \A j \in Jobs : ~Applies(job'[j], d)
          /\ d \notin master' => /\ \A j \in Jobs : ~Pays(job'[j], d)
                                 /\ \A a \in Accounts : ~Recorded(d, a)' /\ ~Has(d, a)'
        BY <2>2, <2>3, <2>4, <2>5 DEF Once
    <2>10. \A a \in Accounts : OneRow(d, a)'
        BY <2>2, <2>5 DEF Once
    <2>11. QED
        BY <2>6, <2>7, <2>8, <2>9, <2>10
<1>5. ASSUME NEW d \in Dividends
      PROVE  Due(d)'
    <2>1. SUFFICES ASSUME accident'[d] = {}, NEW a \in payer'[d]
                   PROVE  \/ Recorded(d, a)' /\ Credited(d, a)'
                          \/ \E j \in Jobs : Pending(job[j], d, a)'
        BY DEF Due
    <2>2. accident[d] = {} /\ a \in payer[d] /\ Due(d) /\ records' = records
        BY <2>1 DEF Aside, Grows, Held
    <2>3. a \in Accounts
        BY <2>2, Idle DEF Loose
    <2>4. CASE Recorded(d, a) /\ Credited(d, a)
        BY <2>2, <2>3, <2>4 DEF Aside, Keeps, Recorded
    <2>5. CASE \E j \in Jobs : Pending(job[j], d, a)
        <3>1. PICK j \in Jobs : Pending(job[j], d, a)
            BY <2>5
        <3>2. j # k
            BY <2>1, <3>1 DEF Pending, Pays, Aside
        <3>3. job'[j] = job[j]
            BY <1>1, <3>2
        <3>4. Pending(job[j], d, a)'
            BY <2>2, <3>1, <3>3 DEF Pending, Pays, Recorded
        <3>5. QED
            BY <3>4
    <2>6. QED
        BY <2>2, <2>4, <2>5 DEF Due
<1>6. QED
    BY <1>2, <1>3, <1>4, <1>5 DEF Held

(* What is to be shown of Once and Due after a step.                        *)
LEMMA OnceIf ==
    ASSUME NEW d \in Dividends,
           "twice" \notin accident'[d] =>
              /\ \A j, l \in Jobs : Applies(job'[j], d) /\ Applies(job'[l], d) => j = l
              /\ \A j, l \in Jobs : Pays(job'[j], d) /\ Pays(job'[l], d) => j = l
              /\ d \in master' => \A j \in Jobs : ~Applies(job'[j], d)
              /\ d \notin master' => /\ \A j \in Jobs : ~Pays(job'[j], d)
                                     /\ \A a \in Accounts : ~Recorded(d, a)' /\ ~Has(d, a)'
              /\ \A j \in Jobs : Pays(job'[j], d) => Ahead(job[j], d)'
              /\ OneRecord(d)'
              /\ \A a \in Accounts : OneRow(d, a)'
    PROVE  Once(d)'
BY DEF Once

(* A step that touches neither the records nor the rows of dividend d, nor  *)
(* the jobs that pay or are about to.                                       *)
LEMMA OnceApart ==
    ASSUME Static, NEW d \in Dividends, Once(d), Grows, Tame \/ (\E k \in Jobs, e \in Dividends \ {d}, h \in Accounts : Credits(k, e, h)),
           d \in master' <=> d \in master,
           \A r \in records : r \in records', \A r \in records' : r.div = d => r \in records,
           \A j \in Jobs : Applies(job'[j], d) \/ Pays(job'[j], d) => job'[j] = job[j]
    PROVE  Once(d)'
<1>1. SUFFICES ASSUME "twice" \notin accident'[d]
               PROVE  /\ \A j, l \in Jobs : Applies(job'[j], d) /\ Applies(job'[l], d) => j = l
                      /\ \A j, l \in Jobs : Pays(job'[j], d) /\ Pays(job'[l], d) => j = l
                      /\ d \in master' => \A j \in Jobs : ~Applies(job'[j], d)
                      /\ d \notin master' => /\ \A j \in Jobs : ~Pays(job'[j], d)
                                             /\ \A a \in Accounts : ~Recorded(d, a)' /\ ~Has(d, a)'
                      /\ \A j \in Jobs : Pays(job'[j], d) => Ahead(job[j], d)'
                      /\ OneRecord(d)'
                      /\ \A a \in Accounts : OneRow(d, a)'
    BY OnceIf
<1>2. "twice" \notin accident[d]
    BY <1>1 DEF Grows
<1>3. \A a \in Accounts : (Has(d, a)' => Has(d, a)) /\ (OneRow(d, a) => OneRow(d, a)')
    <2>1. CASE Tame
        BY <2>1, TameHas
    <2>2. CASE \E k \in Jobs, e \in Dividends \ {d}, h \in Accounts : Credits(k, e, h)
        <3>1. PICK k \in Jobs, e \in Dividends \ {d}, h \in Accounts : Credits(k, e, h)
            BY <2>2
        <3>2. e # d
            BY <3>1
        <3>3. QED
            BY <3>1, <3>2, CreditsHas
    <2>3. QED
        BY <2>1, <2>2
<1>4. \A a \in Accounts : Recorded(d, a)' <=> Recorded(d, a)
    BY DEF Recorded
<1>5. ASSUME NEW j \in Jobs, Pays(job'[j], d)
      PROVE  Ahead(job[j], d)'
    <2>1. PICK r : r = job[j]
        OBVIOUS
    <2>2. job'[j] = r /\ Ahead(r, d) /\ r \in JobRecord
        BY <1>2, <1>5, <2>1, Idle DEF Once
    <2>3. r.accts \in SUBSET Accounts
        BY <2>2 DEF JobRecord
    <2>4. Ahead(r, d)'
        BY <1>3, <1>4, <2>2, <2>3 DEF Ahead
    <2>5. QED
        BY <2>2, <2>4 DEF Ahead
<1>6. OneRecord(d)' /\ \A a \in Accounts : OneRow(d, a)'
    BY <1>2, <1>3 DEF Once, OneRecord
<1>7. /\ \A j, l \in Jobs : Applies(job'[j], d) /\ Applies(job'[l], d) => j = l
      /\ \A j, l \in Jobs : Pays(job'[j], d) /\ Pays(job'[l], d) => j = l
    BY <1>2 DEF Once
<1>8. /\ d \in master' => \A j \in Jobs : ~Applies(job'[j], d)
      /\ d \notin master' => /\ \A j \in Jobs : ~Pays(job'[j], d)
                             /\ \A a \in Accounts : ~Recorded(d, a)' /\ ~Has(d, a)'
    BY <1>2, <1>3, <1>4 DEF Once
<1>9. QED
    BY <1>5, <1>6, <1>7, <1>8

LEMMA TakesHolds ==
    ASSUME Static, Held, NEW k \in Jobs, NEW p, NEW e, Takes(k, p, e)
    PROVE  Held'
<1>1. job'[k] = p /\ \A j \in Jobs \ {k} : job'[j] = job[j]
    BY Others DEF Takes
<1>2. DividendRows'
    BY RowsKept DEF Held, Takes
<1>3. UndoneIsMissed'
    <2>1. SUFFICES ASSUME NEW j \in Jobs, job'[j].pc = "undo"
                   PROVE  "missed" \in accident'[job'[j].of]
        BY DEF UndoneIsMissed
    <2>2. j # k /\ job'[j] = job[j]
        BY <1>1, <2>1 DEF Takes
    <2>3. job[j].of \in Dividends /\ "missed" \in accident[job[j].of]
        BY <2>1, <2>2, Payer DEF Held, UndoneIsMissed, Paying, Early
    <2>4. QED
        BY <2>2, <2>3 DEF Takes, Grows
<1>4. ASSUME NEW d \in Dividends
      PROVE  Once(d)'
    <2>1. CASE d # e
        <3>1. \A j \in Jobs : Applies(job'[j], d) \/ Pays(job'[j], d) => job'[j] = job[j]
            BY <1>1, <2>1 DEF Takes, Applies, Pays
        <3>2. Once(d) /\ Grows /\ Tame /\ master' = master /\ records' = records
            BY DEF Takes, Held
        <3>3. QED
            BY <3>1, <3>2, OnceApart
    <2>2. CASE d = e
        <3>1. SUFFICES ASSUME "twice" \notin accident'[d]
                       PROVE  /\ \A j, l \in Jobs : Applies(job'[j], d) /\ Applies(job'[l], d) => j = l
                              /\ \A j, l \in Jobs : Pays(job'[j], d) /\ Pays(job'[l], d) => j = l
                              /\ d \in master' => \A j \in Jobs : ~Applies(job'[j], d)
                              /\ d \notin master' => /\ \A j \in Jobs : ~Pays(job'[j], d)
                                                     /\ \A a \in Accounts : ~Recorded(d, a)' /\ ~Has(d, a)'
                              /\ \A j \in Jobs : Pays(job'[j], d) => Ahead(job[j], d)'
                              /\ OneRecord(d)'
                              /\ \A a \in Accounts : OneRow(d, a)'
            BY OnceIf
        <3>2. "twice" \notin accident[d] /\ Once(d) /\ d \notin master /\ master' = master /\ records' = records
            BY <2>2, <3>1 DEF Takes, Grows, Held
        <3>3. \A j \in Jobs : ~Pays(job'[j], d)
            <4>1. \A j \in Jobs \ {k} : ~Pays(job'[j], d)
                BY <1>1, <3>2 DEF Once
            <4>2. ~Pays(job'[k], d)
                BY <1>1 DEF Takes, Pays, Paying, Early
            <4>3. QED
                BY <4>1, <4>2
        <3>4. \A j \in Jobs : Applies(job'[j], d) => j = k
            <4>1. \A j \in Jobs \ {k} : ~Applies(job[j], d)
                BY <2>2, <3>1 DEF Takes
            <4>2. QED
                BY <1>1, <4>1
        <3>5. \A a \in Accounts : ~Recorded(d, a)' /\ ~Has(d, a)' /\ OneRow(d, a)'
            BY <3>2, TameHas DEF Once, Takes, Recorded
        <3>6. OneRecord(d)'
            BY <3>2 DEF Once, OneRecord
        <3>7. QED
            BY <3>2, <3>3, <3>4, <3>5, <3>6
    <2>3. QED
        BY <2>1, <2>2
<1>5. ASSUME NEW d \in Dividends
      PROVE  Due(d)'
    <2>1. SUFFICES ASSUME accident'[d] = {}, NEW a \in payer'[d]
                   PROVE  \/ Recorded(d, a)' /\ Credited(d, a)'
                          \/ \E j \in Jobs : Pending(job[j], d, a)'
        BY DEF Due
    <2>2. accident[d] = {} /\ a \in payer[d] /\ Due(d) /\ records' = records
        BY <2>1 DEF Takes, Grows, Held
    <2>3. a \in Accounts
        BY <2>2, Idle DEF Loose
    <2>4. CASE Recorded(d, a) /\ Credited(d, a)
        BY <2>2, <2>3, <2>4 DEF Takes, Keeps, Recorded
    <2>5. CASE \E j \in Jobs : Pending(job[j], d, a)
        <3>1. PICK j \in Jobs : Pending(job[j], d, a)
            BY <2>5
        <3>2. j # k
            BY <3>1 DEF Pending, Pays, Paying, Early, Takes
        <3>3. job'[j] = job[j]
            BY <1>1, <3>2
        <3>4. Pending(job[j], d, a)'
            BY <2>2, <3>1, <3>3 DEF Pending, Pays, Recorded
        <3>5. QED
            BY <3>4
    <2>6. QED
        BY <2>2, <2>4, <2>5 DEF Due
<1>6. QED
    BY <1>2, <1>3, <1>4, <1>5 DEF Held

LEMMA OpensHolds ==
    ASSUME Static, Held, NEW k \in Jobs, NEW p, NEW e, Opens(k, p, e)
    PROVE  Held'
<1>1. job'[k] = p /\ \A j \in Jobs \ {k} : job'[j] = job[j]
    BY Others DEF Opens
<1>2. DividendRows'
    BY RowsKept DEF Held, Opens
<1>3. UndoneIsMissed'
    <2>1. SUFFICES ASSUME NEW j \in Jobs, job'[j].pc = "undo"
                   PROVE  "missed" \in accident'[job'[j].of]
        BY DEF UndoneIsMissed
    <2>2. j # k /\ job'[j] = job[j]
        BY <1>1, <2>1 DEF Opens
    <2>3. job[j].of \in Dividends /\ "missed" \in accident[job[j].of]
        BY <2>1, <2>2, Payer DEF Held, UndoneIsMissed, Paying, Early
    <2>4. QED
        BY <2>2, <2>3 DEF Opens, Grows
<1>4. ASSUME NEW d \in Dividends
      PROVE  Once(d)'
    <2>1. CASE d # e
        <3>1. \A j \in Jobs : Applies(job'[j], d) \/ Pays(job'[j], d) => job'[j] = job[j]
            BY <1>1, <2>1 DEF Opens, Applies, Pays
        <3>2. Once(d) /\ Grows /\ Tame /\ (d \in master' <=> d \in master) /\ records' = records
            BY <2>1 DEF Opens, Held
        <3>3. QED
            BY <3>1, <3>2, OnceApart
    <2>2. CASE d = e
        <3>1. SUFFICES ASSUME "twice" \notin accident'[d]
                       PROVE  /\ \A j, l \in Jobs : Applies(job'[j], d) /\ Applies(job'[l], d) => j = l
                              /\ \A j, l \in Jobs : Pays(job'[j], d) /\ Pays(job'[l], d) => j = l
                              /\ d \in master' => \A j \in Jobs : ~Applies(job'[j], d)
                              /\ d \notin master' => /\ \A j \in Jobs : ~Pays(job'[j], d)
                                                     /\ \A a \in Accounts : ~Recorded(d, a)' /\ ~Has(d, a)'
                              /\ \A j \in Jobs : Pays(job'[j], d) => Ahead(job[j], d)'
                              /\ OneRecord(d)'
                              /\ \A a \in Accounts : OneRow(d, a)'
            BY OnceIf
        <3>2. "twice" \notin accident[d] /\ Once(d) /\ records' = records /\ d \in master'
            BY <2>2, <3>1 DEF Opens, Grows, Held
        <3>3. Applies(job[k], d)
            BY <2>2 DEF Opens, Applies
        <3>4. d \notin master
            BY <3>2, <3>3 DEF Once
        <3>5. \A j \in Jobs : Pays(job'[j], d) => j = k
            BY <1>1, <3>2, <3>4 DEF Once
        <3>6. \A j \in Jobs : ~Applies(job'[j], d)
            <4>1. \A j \in Jobs \ {k} : ~Applies(job'[j], d)
                BY <1>1, <3>2, <3>3 DEF Once
            <4>2. ~Applies(job'[k], d)
                BY <1>1 DEF Opens, Applies
            <4>3. QED
                BY <4>1, <4>2
        <3>7. \A a \in Accounts : ~Recorded(d, a)' /\ ~Has(d, a)' /\ OneRow(d, a)'
            BY <3>2, <3>4, TameHas DEF Once, Opens, Recorded
        <3>8. Ahead(job[k], d)'
            <4>1. job'[k].accts \in SUBSET Accounts
                BY <1>1 DEF Opens, Moved, JobRecord
            <4>2. QED
                BY <3>7, <4>1 DEF Ahead
        <3>9. OneRecord(d)'
            BY <3>2 DEF Once, OneRecord
        <3>10. QED
            BY <3>2, <3>5, <3>6, <3>7, <3>8, <3>9
    <2>3. QED
        BY <2>1, <2>2
<1>5. ASSUME NEW d \in Dividends
      PROVE  Due(d)'
    <2>1. SUFFICES ASSUME accident'[d] = {}, NEW a \in payer'[d]
                   PROVE  \/ Recorded(d, a)' /\ Credited(d, a)'
                          \/ \E j \in Jobs : Pending(job[j], d, a)'
        BY DEF Due
    <2>2. accident[d] = {} /\ Due(d) /\ records' = records
        BY <2>1 DEF Opens, Grows, Held
    <2>3. CASE a \in payer[d]
        <3>1. a \in Accounts
            BY <2>3, Idle DEF Loose
        <3>2. CASE Recorded(d, a) /\ Credited(d, a)
            BY <2>2, <3>1, <3>2 DEF Opens, Keeps, Recorded
        <3>3. CASE \E j \in Jobs : Pending(job[j], d, a)
            <4>1. PICK j \in Jobs : Pending(job[j], d, a)
                BY <3>3
            <4>2. j # k
                BY <4>1 DEF Pending, Pays, Paying, Early, Opens
            <4>3. job'[j] = job[j]
                BY <1>1, <4>2
            <4>4. Pending(job[j], d, a)'
                BY <2>2, <4>1, <4>3 DEF Pending, Pays, Recorded
            <4>5. QED
                BY <4>4
        <3>4. QED
            BY <2>2, <2>3, <3>2, <3>3 DEF Due
    <2>4. CASE a \notin payer[d]
        <3>1. payer \in [Dividends -> SUBSET Accounts]
            BY Idle DEF Loose
        <3>2. d = e /\ a \in p.accts
            BY <2>4, <3>1 DEF Opens
        <3>3. p.pc = "read" /\ p.of = d
            BY <3>2 DEF Opens
        <3>4. Pending(job[k], d, a)'
            BY <1>1, <3>2, <3>3 DEF Pending, Pays, Paying, Early
        <3>5. QED
            BY <3>4
    <2>5. QED
        BY <2>3, <2>4
<1>6. QED
    BY <1>2, <1>3, <1>4, <1>5 DEF Held

LEMMA ReadsHolds ==
    ASSUME Static, Held, NEW k \in Jobs, NEW p, Reads(k, p)
    PROVE  Held'
<1>1. job'[k] = p /\ \A j \in Jobs \ {k} : job'[j] = job[j]
    BY Others DEF Reads
<1>2. DividendRows'
    BY RowsKept DEF Held, Reads
<1>3. UndoneIsMissed'
    <2>1. SUFFICES ASSUME NEW j \in Jobs, job'[j].pc = "undo"
                   PROVE  "missed" \in accident'[job'[j].of]
        BY DEF UndoneIsMissed
    <2>2. j # k /\ job'[j] = job[j]
        BY <1>1, <2>1 DEF Reads
    <2>3. job[j].of \in Dividends /\ "missed" \in accident[job[j].of]
        BY <2>1, <2>2, Payer DEF Held, UndoneIsMissed, Paying, Early
    <2>4. QED
        BY <2>2, <2>3 DEF Reads, Grows
<1>4. ASSUME NEW d, NEW j \in Jobs
      PROVE  (Applies(job'[j], d) <=> Applies(job[j], d)) /\ (Pays(job'[j], d) <=> Pays(job[j], d))
    BY <1>1 DEF Reads, Applies, Pays, Paying, Early
<1>5. ASSUME NEW d \in Dividends
      PROVE  Once(d)'
    <2>1. SUFFICES ASSUME "twice" \notin accident'[d]
                   PROVE  /\ \A j, l \in Jobs : Applies(job'[j], d) /\ Applies(job'[l], d) => j = l
                          /\ \A j, l \in Jobs : Pays(job'[j], d) /\ Pays(job'[l], d) => j = l
                          /\ d \in master' => \A j \in Jobs : ~Applies(job'[j], d)
                          /\ d \notin master' => /\ \A j \in Jobs : ~Pays(job'[j], d)
                                                 /\ \A a \in Accounts : ~Recorded(d, a)' /\ ~Has(d, a)'
                          /\ \A j \in Jobs : Pays(job'[j], d) => Ahead(job[j], d)'
                          /\ OneRecord(d)'
                          /\ \A a \in Accounts : OneRow(d, a)'
        BY OnceIf
    <2>2. "twice" \notin accident[d] /\ Once(d) /\ master' = master /\ records' = records
        BY <2>1 DEF Reads, Grows, Held
    <2>3. \A a \in Accounts : (Recorded(d, a)' <=> Recorded(d, a)) /\ (Has(d, a)' => Has(d, a))
                              /\ (OneRow(d, a) => OneRow(d, a)')
        BY <2>2, TameHas DEF Reads, Recorded
    <2>4. ASSUME NEW j \in Jobs, Pays(job'[j], d)
          PROVE  Ahead(job[j], d)'
        <3>1. Ahead(job[j], d) /\ job[j] \in JobRecord
            BY <1>4, <2>2, <2>4, Idle DEF Once
        <3>2. job[j].accts \in SUBSET Accounts
            BY <3>1 DEF JobRecord
        <3>3. PICK r : r = job'[j]
            OBVIOUS
        <3>4. r.accts = job[j].accts /\ (r = job[j] \/ job[j].pc = "read")
            BY <1>1, <3>3 DEF Reads
        <3>5. \A a \in r.accts : /\ Recorded(d, a)' => a = Lowest(r.accts) /\ r.pc \notin Early
                                 /\ Has(d, a)' => a = Lowest(r.accts) /\ r.pc = "undo"
            <4>1. CASE r = job[j]
                BY <2>3, <3>1, <3>2, <4>1 DEF Ahead
            <4>2. CASE job[j].pc = "read"
                BY <2>3, <3>1, <3>2, <3>4, <4>2 DEF Ahead, Early
            <4>3. QED
                BY <3>4, <4>1, <4>2
        <3>6. QED
            BY <3>3, <3>5 DEF Ahead
    <2>5. OneRecord(d)'
        BY <2>2 DEF Once, OneRecord
    <2>6. /\ \A j, l \in Jobs : Applies(job'[j], d) /\ Applies(job'[l], d) => j = l
          /\ \A j, l \in Jobs : Pays(job'[j], d) /\ Pays(job'[l], d) => j = l
        BY <1>4, <2>2 DEF Once
    <2>7. /\ d \in master' => \A j \in Jobs : ~Applies(job'[j], d)
          /\ d \notin master' => /\ \A j \in Jobs : ~Pays(job'[j], d)
                                 /\ \A a \in Accounts : ~Recorded(d, a)' /\ ~Has(d, a)'
        BY <1>4, <2>2, <2>3 DEF Once
    <2>8. \A a \in Accounts : OneRow(d, a)'
        BY <2>2, <2>3 DEF Once
    <2>9. QED
        BY <2>4, <2>5, <2>6, <2>7, <2>8
<1>6. ASSUME NEW d \in Dividends
      PROVE  Due(d)'
    <2>1. SUFFICES ASSUME accident'[d] = {}, NEW a \in payer'[d]
                   PROVE  \/ Recorded(d, a)' /\ Credited(d, a)'
                          \/ \E j \in Jobs : Pending(job[j], d, a)'
        BY DEF Due
    <2>2. accident[d] = {} /\ a \in payer[d] /\ Due(d) /\ records' = records
        BY <2>1 DEF Reads, Grows, Held
    <2>3. a \in Accounts
        BY <2>2, Idle DEF Loose
    <2>4. CASE Recorded(d, a) /\ Credited(d, a)
        BY <2>2, <2>3, <2>4 DEF Reads, Keeps, Recorded
    <2>5. CASE \E j \in Jobs : Pending(job[j], d, a)
        <3>1. PICK j \in Jobs : Pending(job[j], d, a)
            BY <2>5
        <3>2. CASE j # k
            <4>1. job'[j] = job[j]
                BY <1>1, <3>2
            <4>2. Pending(job[j], d, a)'
                BY <2>2, <3>1, <4>1 DEF Pending, Pays, Recorded
            <4>3. QED
                BY <4>2
        <3>3. CASE j = k
            <4>1. p.pc = "record" /\ p.of = d /\ a \in p.accts
                BY <3>1, <3>3 DEF Pending, Pays, Reads
            <4>2. Pending(job[k], d, a)'
                BY <1>1, <4>1 DEF Pending, Pays, Paying, Early
            <4>3. QED
                BY <4>2
        <3>4. QED
            BY <3>2, <3>3
    <2>6. QED
        BY <2>2, <2>4, <2>5 DEF Due
<1>7. QED
    BY <1>2, <1>3, <1>5, <1>6 DEF Held

LEMMA OrphansHolds ==
    ASSUME Static, Held, NEW k \in Jobs, NEW p, NEW e, Orphans(k, p, e)
    PROVE  Held'
<1>1. job'[k] = p /\ \A j \in Jobs \ {k} : job'[j] = job[j]
    BY Others DEF Orphans
<1>2. DividendRows'
    BY RowsKept DEF Held, Orphans
<1>3. UndoneIsMissed'
    <2>1. SUFFICES ASSUME NEW j \in Jobs, job'[j].pc = "undo"
                   PROVE  "missed" \in accident'[job'[j].of]
        BY DEF UndoneIsMissed
    <2>2. j # k /\ job'[j] = job[j]
        BY <1>1, <2>1 DEF Orphans
    <2>3. job[j].of \in Dividends /\ "missed" \in accident[job[j].of]
        BY <2>1, <2>2, Payer DEF Held, UndoneIsMissed, Paying, Early
    <2>4. QED
        BY <2>2, <2>3 DEF Orphans, Grows
<1>4. \A d : \A j \in Jobs : Applies(job'[j], d) \/ Pays(job'[j], d) => j # k /\ job'[j] = job[j]
    BY <1>1 DEF Orphans, Applies, Pays, Paying, Early
<1>5. ASSUME NEW d \in Dividends
      PROVE  Once(d)'
    <2>1. CASE d # e
        <3>1. Once(d) /\ Grows /\ Tame /\ (d \in master' <=> d \in master) /\ records' = records
            BY <2>1 DEF Orphans, Held
        <3>2. QED
            BY <1>4, <3>1, OnceApart
    <2>2. CASE d = e
        <3>1. SUFFICES ASSUME "twice" \notin accident'[d]
                       PROVE  /\ \A j, l \in Jobs : Applies(job'[j], d) /\ Applies(job'[l], d) => j = l
                              /\ \A j, l \in Jobs : Pays(job'[j], d) /\ Pays(job'[l], d) => j = l
                              /\ d \in master' => \A j \in Jobs : ~Applies(job'[j], d)
                              /\ d \notin master' => /\ \A j \in Jobs : ~Pays(job'[j], d)
                                                     /\ \A a \in Accounts : ~Recorded(d, a)' /\ ~Has(d, a)'
                              /\ \A j \in Jobs : Pays(job'[j], d) => Ahead(job[j], d)'
                              /\ OneRecord(d)'
                              /\ \A a \in Accounts : OneRow(d, a)'
            BY OnceIf
        <3>2. "twice" \notin accident[d] /\ Once(d) /\ records' = records /\ d \in master'
            BY <2>2, <3>1 DEF Orphans, Grows, Held
        <3>3. Applies(job[k], d) \/ Pays(job[k], d)
            BY <2>2 DEF Orphans, Applies, Pays, Paying, Early
        <3>4. \A j \in Jobs : ~Applies(job'[j], d)
            <4>1. CASE Applies(job[k], d)
                BY <1>4, <3>2, <4>1 DEF Once
            <4>2. CASE Pays(job[k], d)
                BY <1>4, <3>2, <4>2 DEF Once
            <4>3. QED
                BY <3>3, <4>1, <4>2
        <3>5. \A a \in Accounts : (Recorded(d, a)' <=> Recorded(d, a)) /\ (Has(d, a)' => Has(d, a))
                                  /\ (OneRow(d, a) => OneRow(d, a)')
            BY <3>2, TameHas DEF Orphans, Recorded
        <3>6. ASSUME NEW j \in Jobs, Pays(job'[j], d)
              PROVE  Ahead(job[j], d)'
            <4>1. PICK r : r = job[j]
                OBVIOUS
            <4>2. job'[j] = r /\ Ahead(r, d) /\ r \in JobRecord
                BY <1>4, <3>2, <3>6, <4>1, Idle DEF Once
            <4>3. r.accts \in SUBSET Accounts
                BY <4>2 DEF JobRecord
            <4>4. Ahead(r, d)'
                BY <3>5, <4>2, <4>3 DEF Ahead
            <4>5. QED
                BY <4>2, <4>4 DEF Ahead
        <3>7. OneRecord(d)' /\ \A a \in Accounts : OneRow(d, a)'
            BY <3>2, <3>5 DEF Once, OneRecord
        <3>8. \A j, l \in Jobs : Pays(job'[j], d) /\ Pays(job'[l], d) => j = l
            BY <1>4, <3>2 DEF Once
        <3>9. QED
            BY <3>2, <3>4, <3>6, <3>7, <3>8
    <2>3. QED
        BY <2>1, <2>2
<1>6. ASSUME NEW d \in Dividends
      PROVE  Due(d)'
    <2>1. SUFFICES ASSUME accident'[d] = {}, NEW a \in payer'[d]
                   PROVE  \/ Recorded(d, a)' /\ Credited(d, a)'
                          \/ \E j \in Jobs : Pending(job[j], d, a)'
        BY DEF Due
    <2>2. d # e
        BY <2>1 DEF Orphans
    <2>3. accident[d] = {} /\ a \in payer[d] /\ Due(d) /\ records' = records
        BY <2>1, <2>2 DEF Orphans, Grows, Held
    <2>4. a \in Accounts
        BY <2>3, Idle DEF Loose
    <2>5. CASE Recorded(d, a) /\ Credited(d, a)
        BY <2>3, <2>4, <2>5 DEF Orphans, Keeps, Recorded
    <2>6. CASE \E j \in Jobs : Pending(job[j], d, a)
        <3>1. PICK j \in Jobs : Pending(job[j], d, a)
            BY <2>6
        <3>2. j # k
            BY <2>2, <3>1 DEF Pending, Pays, Orphans
        <3>3. job'[j] = job[j]
            BY <1>1, <3>2
        <3>4. Pending(job[j], d, a)'
            BY <2>3, <3>1, <3>3 DEF Pending, Pays, Recorded
        <3>5. QED
            BY <3>4
    <2>7. QED
        BY <2>3, <2>5, <2>6 DEF Due
<1>7. QED
    BY <1>2, <1>3, <1>5, <1>6 DEF Held

LEMMA PaysHolds ==
    ASSUME Static, Held, NEW k \in Jobs, NEW p, NEW e, NEW h, PaysOn(k, p, e, h)
    PROVE  Held'
<1>1. job'[k] = p /\ \A j \in Jobs \ {k} : job'[j] = job[j]
    BY Others DEF PaysOn
<1>2. /\ e = job[k].of /\ h = Here(k) /\ e \in Dividends /\ h \in Accounts /\ job[k].pc \in Paying
      /\ job[k].type = "div" /\ h \in job[k].accts /\ job[k] \in JobRecord
      /\ h = Lowest(job[k].accts)
    BY Payer DEF PaysOn, Here
<1>3. Pays(job[k], e) /\ p.of = e /\ p.pc \in Paying \union {"end"}
    BY <1>2 DEF Pays, PaysOn, Stays, Leaves, Paying, Early
<1>4. Tame \/ Credits(k, e, h)
    BY DEF PaysOn
<1>5. DividendRows'
    <2>1. job[k].pc # "absent" /\ Moved(k, p) /\ Keeps
        BY <1>2 DEF PaysOn, Paying, Early
    <2>2. QED
        BY <1>2, <1>4, <2>1, RowsKept DEF Held
<1>6. UndoneIsMissed'
    <2>1. SUFFICES ASSUME NEW j \in Jobs, job'[j].pc = "undo"
                   PROVE  "missed" \in accident'[job'[j].of]
        BY DEF UndoneIsMissed
    <2>2. CASE j = k
        <3>1. p.pc = "undo"
            BY <1>1, <2>1, <2>2
        <3>2. Stays(k, p, e)
            BY <3>1 DEF PaysOn, Leaves
        <3>3. QED
            BY <1>1, <1>3, <2>2, <3>1, <3>2 DEF Stays
    <2>3. CASE j # k
        <3>1. job'[j] = job[j]
            BY <1>1, <2>3
        <3>2. job[j].of \in Dividends /\ "missed" \in accident[job[j].of]
            BY <2>1, <3>1, Payer DEF Held, UndoneIsMissed, Paying, Early
        <3>3. QED
            BY <3>1, <3>2 DEF PaysOn, Grows
    <2>4. QED
        BY <2>2, <2>3
<1>7. /\ \A r \in records : r \in records'
      /\ \A r \in records' : r \in records \/ (job[k].pc = "record" /\ r = [div |-> e, acct |-> h, by |-> k])
    BY DEF PaysOn, Books
<1>8. \A d, a : Recorded(d, a)' => Recorded(d, a) \/ (d = e /\ a = h)
    BY <1>7 DEF Recorded
<1>9. \A d, a : Recorded(d, a) => Recorded(d, a)'
    BY <1>7 DEF Recorded
<1>10. ASSUME NEW d \in Dividends
       PROVE  Once(d)'
    <2>1. CASE d # e
        <3>1. \A j \in Jobs : Applies(job'[j], d) \/ Pays(job'[j], d) => job'[j] = job[j]
            BY <1>1, <1>3, <2>1 DEF Applies, Pays
        <3>2. Once(d) /\ Grows /\ master' = master
            BY DEF PaysOn, Held
        <3>3. \A r \in records' : r.div = d => r \in records
            BY <1>7, <2>1
        <3>4. Tame \/ (\E l \in Jobs, f \in Dividends \ {d}, g \in Accounts : Credits(l, f, g))
            BY <1>2, <1>4, <2>1
        <3>5. QED
            BY <1>7, <3>1, <3>2, <3>3, <3>4, OnceApart
    <2>2. CASE d = e
        <3>1. SUFFICES ASSUME "twice" \notin accident'[d]
                       PROVE  /\ \A j, l \in Jobs : Applies(job'[j], d) /\ Applies(job'[l], d) => j = l
                              /\ \A j, l \in Jobs : Pays(job'[j], d) /\ Pays(job'[l], d) => j = l
                              /\ d \in master' => \A j \in Jobs : ~Applies(job'[j], d)
                              /\ d \notin master' => /\ \A j \in Jobs : ~Pays(job'[j], d)
                                                     /\ \A a \in Accounts : ~Recorded(d, a)' /\ ~Has(d, a)'
                              /\ \A j \in Jobs : Pays(job'[j], d) => Ahead(job[j], d)'
                              /\ OneRecord(d)'
                              /\ \A a \in Accounts : OneRow(d, a)'
            BY OnceIf
        <3>2. "twice" \notin accident[d] /\ Once(d) /\ master' = master
            BY <3>1 DEF PaysOn, Grows, Held
        <3>3. d \in master
            BY <1>3, <2>2, <3>2 DEF Once
        <3>4. Ahead(job[k], d) /\ \A j \in Jobs : Pays(job[j], d) => j = k
            BY <1>3, <2>2, <3>2 DEF Once
        <3>5. \A j \in Jobs : ~Applies(job'[j], d)
            <4>1. ~Applies(job'[k], d)
                BY <1>1, <1>3 DEF Applies, Paying, Early
            <4>2. QED
                BY <1>1, <3>2, <3>3, <4>1 DEF Once
        <3>6. \A j \in Jobs : Pays(job'[j], d) => j = k
            BY <1>1, <3>4
        <3>7. Recorded(d, h) => job[k].pc # "record"
            BY <1>2, <3>4 DEF Ahead, Early
        <3>8. Has(d, h) => job[k].pc = "undo"
            BY <1>2, <3>4 DEF Ahead
        <3>9. \A a \in job[k].accts \ {h} : ~Recorded(d, a) /\ ~Has(d, a)
            BY <1>2, <3>4 DEF Ahead
        <3>10. \A a \in Accounts : Has(d, a)' => Has(d, a) \/ (a = h /\ ~Tame)
            BY <1>2, <1>4, <2>2, TameHas, CreditsHas
        <3>11. \A a \in Accounts : OneRow(d, a)'
            <4>1. CASE Tame
                BY <3>2, <4>1, TameHas DEF Once
            <4>2. CASE Credits(k, e, h) /\ job[k].pc = "credit"
                <5>1. ~Has(d, h)
                    BY <3>8, <4>2
                <5>2. QED
                    BY <1>2, <2>2, <3>2, <4>2, <5>1, CreditsHas DEF Once
            <4>3. QED
                BY <4>1, <4>2 DEF PaysOn
        <3>12. OneRecord(d)'
            <4>1. SUFFICES ASSUME NEW r \in records', NEW s \in records', r.div = d, s.div = d, r.acct = s.acct
                           PROVE  r = s
                BY DEF OneRecord
            <4>2. OneRecord(d)
                BY <3>2 DEF Once
            <4>3. CASE r \in records /\ s \in records
                BY <4>1, <4>2, <4>3 DEF OneRecord
            <4>4. CASE r \notin records /\ s \notin records
                BY <1>7, <4>4
            <4>5. CASE r \in records /\ s \notin records
                BY <1>7, <3>7, <4>1, <4>5 DEF Recorded
            <4>6. CASE r \notin records /\ s \in records
                BY <1>7, <3>7, <4>1, <4>6 DEF Recorded
            <4>7. QED
                BY <4>3, <4>4, <4>5, <4>6
        <3>13. Pays(p, d) => Ahead(job[k], d)'
            <4>1. SUFFICES ASSUME Pays(p, d)
                           PROVE  \A a \in p.accts : /\ Recorded(d, a)' => a = Lowest(p.accts) /\ p.pc \notin Early
                                                     /\ Has(d, a)' => a = Lowest(p.accts) /\ p.pc = "undo"
                BY <1>1 DEF Ahead
            <4>2. job[k].accts \in SUBSET Accounts
                BY <1>2 DEF JobRecord
            <4>3. CASE Stays(k, p, e)
                <5>1. p.accts = job[k].accts /\ p.pc \notin Early /\ (p.pc # "undo" => job[k].pc # "undo" /\ Tame)
                    BY <4>3 DEF Stays
                <5>2. QED
                    BY <1>2, <1>8, <3>8, <3>9, <3>10, <4>2, <5>1
            <4>4. CASE Leaves(k, p, e, h) /\ ~Stays(k, p, e)
                <5>1. p.accts = job[k].accts \ {h}
                    BY <4>4 DEF Leaves
                <5>2. QED
                    BY <1>8, <3>9, <3>10, <4>2, <4>4, <5>1
            <4>5. QED
                BY <4>3, <4>4 DEF PaysOn
        <3>14. \A j \in Jobs : Pays(job'[j], d) => Ahead(job[j], d)'
            BY <1>1, <3>6, <3>13
        <3>15. QED
            BY <3>2, <3>3, <3>5, <3>6, <3>11, <3>12, <3>14
    <2>3. QED
        BY <2>1, <2>2
<1>11. ASSUME NEW d \in Dividends
       PROVE  Due(d)'
    <2>1. SUFFICES ASSUME accident'[d] = {}, NEW a \in payer'[d]
                   PROVE  \/ Recorded(d, a)' /\ Credited(d, a)'
                          \/ \E j \in Jobs : Pending(job[j], d, a)'
        BY DEF Due
    <2>2. accident[d] = {} /\ a \in payer[d] /\ Due(d)
        BY <2>1 DEF PaysOn, Grows, Held
    <2>3. a \in Accounts
        BY <2>2, Idle DEF Loose
    <2>4. CASE Recorded(d, a) /\ Credited(d, a)
        BY <1>9, <2>3, <2>4 DEF PaysOn, Keeps
    <2>5. ASSUME NEW j \in Jobs, Pending(job[j], d, a), j # k
          PROVE  Pending(job[j], d, a)'
        <3>1. job'[j] = job[j]
            BY <1>1, <2>5
        <3>2. QED
            BY <1>9, <2>5, <3>1 DEF Pending, Pays
    <2>6. CASE Pending(job[k], d, a)
        <3>1. d = e /\ a \in job[k].accts /\ job[k].pc # "undo"
              /\ (a = h /\ job[k].pc # "record" => Recorded(d, a))
            BY <1>2, <2>6 DEF Pending, Pays, PaysOn, Early
        <3>2. "missed" \notin accident'[e]
            BY <2>1, <3>1
        <3>3. CASE Stays(k, p, e)
            <4>1. p.accts = job[k].accts /\ p.pc \in Paying \ {"undo"}
                BY <3>2, <3>3 DEF Stays
            <4>2. a = h => Recorded(d, a)'
                <5>1. CASE job[k].pc = "record"
                    <6>1. Books(k, e, h)
                        BY <3>3, <5>1 DEF PaysOn
                    <6>2. PICK rec : rec = [div |-> e, acct |-> h, by |-> k]
                        OBVIOUS
                    <6>3. rec \in records' /\ rec.div = e /\ rec.acct = h
                        BY <6>1, <6>2 DEF Books
                    <6>4. QED
                        BY <3>1, <6>3 DEF Recorded
                <5>2. CASE job[k].pc # "record"
                    BY <1>9, <3>1, <5>2
                <5>3. QED
                    BY <5>1, <5>2
            <4>3. Pending(job[k], d, a)'
                BY <1>1, <1>2, <1>3, <3>1, <4>1, <4>2 DEF Pending, Pays
            <4>4. QED
                BY <4>3
        <3>4. CASE Leaves(k, p, e, h)
            <4>1. /\ p.accts = job[k].accts \ {h} /\ p.pc = (IF p.accts = {} THEN "end" ELSE "record")
                  /\ job[k].pc # "record" /\ Credited(e, h)'
                BY <3>2, <3>4 DEF Leaves
            <4>2. CASE a = h
                BY <1>9, <3>1, <4>1, <4>2
            <4>3. CASE a # h
                <5>1. a \in p.accts /\ p.pc = "record"
                    BY <3>1, <4>1, <4>3
                <5>2. Pending(job[k], d, a)'
                    BY <1>1, <1>3, <3>1, <5>1 DEF Pending, Pays, Paying, Early
                <5>3. QED
                    BY <5>2
            <4>4. QED
                BY <4>2, <4>3
        <3>5. QED
            BY <3>3, <3>4 DEF PaysOn
    <2>7. QED
        BY <2>2, <2>4, <2>5, <2>6 DEF Due
<1>12. QED
    BY <1>5, <1>6, <1>10, <1>11 DEF Held

----------------------------------------------------------------------------
(* The theorems.                                                            *)

(* A step that leaves the dividends, the passbooks and the jobs alone.      *)
LEMMA StillHolds ==
    ASSUME Static, Held, Loose',
           UNCHANGED <<book, master, records, job, mishap, accident, payer, credited>>
    PROVE  Static' /\ Held'
<1>1. Static'
    <2>1. Typed'
        BY DEF Static, Typed
    <2>2. Apart'
        BY DEF Static, Apart
    <2>3. QED
        BY <2>1, <2>2 DEF Static
<1>2. \A d, a : Recorded(d, a)' = Recorded(d, a) /\ Has(d, a)' = Has(d, a) /\ Credited(d, a)' = Credited(d, a)
    BY DEF Recorded, Has, Credited, Rebuilt
<1>3. DividendRows' /\ UndoneIsMissed'
    BY DEF Held, DividendRows, DividendRow, Credited, Rebuilt, UndoneIsMissed
<1>4. ASSUME NEW d \in Dividends
      PROVE  Once(d)' /\ Due(d)'
    BY DEF Held, Once, Due, Ahead, Recorded, Has, Credited, Rebuilt, Pending, OneRecord, OneRow
<1>5. QED
    BY <1>1, <1>3, <1>4 DEF Held

LEMMA RequestIs ==
    ASSUME Static, NEW q \in Requests, NEW pc \in {"idle", "shown", "rejected", "checked", "underway", "submitted"},
           Answer(q, pc), req[q].pc # "idle"
    PROVE  /\ req' \in [Requests -> RequestRecord]
           /\ \A s \in Requests : req'[s].pc # "idle" => req'[s].div \in Dividends
<1>1. req \in [Requests -> RequestRecord] /\ req[q].div \in Dividends
    BY Idle DEF Loose
<1>2. PICK rec : rec = [req[q] EXCEPT !.pc = pc]
    OBVIOUS
<1>3. rec \in RequestRecord /\ rec.div = req[q].div
    BY <1>1, <1>2 DEF RequestRecord
<1>4. req' = [req EXCEPT ![q] = rec]
    BY <1>2 DEF Answer
<1>5. QED
    BY <1>1, <1>3, <1>4, Idle DEF Loose

LEMMA RequestsHold ==
    ASSUME Static, Held, NEW q \in Requests, Preview(q) \/ CheckMaster(q)
    PROVE  Static' /\ Held'
<1>1. UNCHANGED <<begun, landed, book, divVars, job, mishap, credited>> /\ spent' \in Nat
    BY Idle DEF Preview, CheckMaster, Spend, Loose
<1>2. /\ req' \in [Requests -> RequestRecord]
      /\ \A s \in Requests : req'[s].pc # "idle" => req'[s].div \in Dividends
    <2>1. CASE Preview(q)
        <3>1. PICK d \in Dividends, filter \in SUBSET Accounts :
                  req' = [req EXCEPT ![q] = [pc |-> "shown", div |-> d, filter |-> filter]]
            <4>1. PICK d \in Dividends : \E filter \in SUBSET Accounts :
                      req' = [req EXCEPT ![q] = [pc |-> "shown", div |-> d, filter |-> filter]]
                BY <2>1 DEF Preview
            <4>2. QED
                BY <4>1
        <3>2. PICK rec : rec = [pc |-> "shown", div |-> d, filter |-> filter]
            OBVIOUS
        <3>3. rec \in RequestRecord /\ rec.div = d
            BY <3>2, Numbers DEF RequestRecord
        <3>4. req' = [req EXCEPT ![q] = rec]
            BY <3>1, <3>2
        <3>5. QED
            BY <3>3, <3>4, Idle DEF Loose
    <2>2. CASE CheckMaster(q)
        <3>1. PICK pc \in {"rejected", "checked"} : Answer(q, pc)
            BY <2>2 DEF CheckMaster
        <3>2. req[q].pc # "idle"
            BY <2>2 DEF CheckMaster
        <3>3. QED
            BY <3>1, <3>2, RequestIs
    <2>3. QED
        BY <2>1, <2>2
<1>3. Loose'
    BY <1>1, <1>2, Idle DEF Loose, divVars
<1>4. QED
    BY <1>1, <1>3, StillHolds DEF divVars

LEMMA SubmitHolds ==
    ASSUME Static, Held, NEW q \in Requests, NEW k \in Jobs, Submit(q, k), UNCHANGED job
    PROVE  Static' /\ Held'
<1>1. CASE Answer(q, "underway") /\ UNCHANGED <<jobsRow, job, mishap>>
    <2>1. req[q].pc # "idle" /\ UNCHANGED <<begun, landed, book, master, records, accident, payer, spent, credited>>
        BY DEF Submit
    <2>2. Loose'
        BY <1>1, <2>1, RequestIs, Idle DEF Loose
    <2>3. QED
        BY <1>1, <2>1, <2>2, StillHolds
<1>2. CASE ~(Answer(q, "underway") /\ UNCHANGED <<jobsRow, job, mishap>>)
    <2>1. job[k].pc = "absent" /\ Go(k, NewJob("div", req[q].div, req[q].filter)) /\ job \in [Jobs -> JobRecord]
        BY <1>2, Idle DEF Submit, NextJob, Typed
    <2>2. job'[k].pc = "queued"
        BY <2>1 DEF Go, Become, NewJob
    <2>3. QED
        BY <2>1, <2>2
<1>3. QED
    BY <1>1, <1>2

(* The static part follows from the kind of the step.                       *)
LEMMA MovedStatic ==
    ASSUME Static, NEW k \in Jobs, NEW p, Moved(k, p)
    PROVE  Static'
<1>1. Typed' /\ Apart'
    BY DEF Moved
<1>2. \A j \in Jobs : Placed(job'[j])
    BY Others, Idle DEF Moved
<1>3. \A j \in Jobs : Placed(job[j])'
    BY <1>2 DEF Placed
<1>4. QED
    BY <1>1, <1>3 DEF Static

LEMMA KindsHold ==
    ASSUME Static, Held, NEW k \in Jobs,
           \/ \E p : Aside(k, p)
           \/ \E p, d, h : PaysOn(k, p, d, h)
           \/ \E p, d : Takes(k, p, d)
           \/ \E p, d : Opens(k, p, d)
           \/ \E p : Reads(k, p)
           \/ \E p, d : Orphans(k, p, d)
    PROVE  Static' /\ Held'
<1>1. CASE \E p : Aside(k, p)
    <2>1. PICK p : Aside(k, p)
        BY <1>1
    <2>2. Moved(k, p)
        BY <2>1 DEF Aside
    <2>3. QED
        BY <2>1, <2>2, AsideHolds, MovedStatic
<1>2. CASE \E p, d, h : PaysOn(k, p, d, h)
    <2>1. PICK p, d, h : PaysOn(k, p, d, h)
        BY <1>2
    <2>2. Moved(k, p)
        BY <2>1 DEF PaysOn
    <2>3. QED
        BY <2>1, <2>2, PaysHolds, MovedStatic
<1>3. CASE \E p, d : Takes(k, p, d)
    <2>1. PICK p, d : Takes(k, p, d)
        BY <1>3
    <2>2. Moved(k, p)
        BY <2>1 DEF Takes
    <2>3. QED
        BY <2>1, <2>2, TakesHolds, MovedStatic
<1>4. CASE \E p, d : Opens(k, p, d)
    <2>1. PICK p, d : Opens(k, p, d)
        BY <1>4
    <2>2. Moved(k, p)
        BY <2>1 DEF Opens
    <2>3. QED
        BY <2>1, <2>2, OpensHolds, MovedStatic
<1>5. CASE \E p : Reads(k, p)
    <2>1. PICK p : Reads(k, p)
        BY <1>5
    <2>2. Moved(k, p)
        BY <2>1 DEF Reads
    <2>3. QED
        BY <2>1, <2>2, ReadsHolds, MovedStatic
<1>6. CASE \E p, d : Orphans(k, p, d)
    <2>1. PICK p, d : Orphans(k, p, d)
        BY <1>6
    <2>2. Moved(k, p)
        BY <2>1 DEF Orphans
    <2>3. QED
        BY <2>1, <2>2, OrphansHolds, MovedStatic
<1>7. QED
    BY <1>1, <1>2, <1>3, <1>4, <1>5, <1>6

LEMMA JobSteps ==
    ASSUME Static, Held, NEW k \in Jobs, JobStep(k)
    PROVE  Static' /\ Held'
<1>0. DividendRows /\ UndoneIsMissed
    BY DEF Held
<1>1. CASE DivStart(k) \/ DivFinish(k) \/ DivFails(k) \/ DivKilled(k)
    BY <1>1, DivStartAside, DivFinishAside, DivFailsAside, DivKilledAside, KindsHold
<1>2. CASE DivMaster(k)
    <2>1. CASE job[k].of \in master
        BY <1>2, <2>1, DivMasterAside, KindsHold
    <2>2. CASE job[k].of \notin master
        BY <1>2, <2>2, DivMasterTakes, KindsHold
    <2>3. QED
        BY <2>1, <2>2
<1>3. CASE InsertMaster(k) \/ ReadAccounts(k) \/ MasterFails(k)
    BY <1>3, InsertMasterOpens, ReadAccountsReads, MasterFailsOrphans, KindsHold
<1>4. CASE InsertRecord(k) \/ RecordFails(k) \/ CheckCash(k) \/ Collect(k)
    BY <1>0, <1>4, InsertRecordPays, RecordFailsPays, CheckCashPays, CollectPays, KindsHold
<1>5. CASE MoveRow(k) \/ InsertDividend(k) \/ CashFails(k) \/ MoveFails(k) \/ UndoRow(k)
    BY <1>0, <1>5, MoveRowPays, InsertDividendPays, CashFailsPays, MoveFailsPays, UndoRowPays, KindsHold
<1>6. CASE WalkStart(k) \/ RebuildDelete(k) \/ ReadChunk(k) \/ AppendDelete(k) \/ FetchEvents(k)
    BY <1>0, <1>6, WalkStartAside, RebuildDeleteAside, ReadChunkAside, AppendDeleteAside, FetchEventsAside, KindsHold
<1>7. CASE ReadTail(k) \/ InsertEvent(k) \/ AccountFails(k) \/ WalkEnds(k) \/ WalkKilled(k)
    BY <1>7, ReadTailAside, InsertEventAside, AccountFailsAside, WalkEndsAside, WalkKilledAside, KindsHold
<1>8. QED
    BY <1>1, <1>2, <1>3, <1>4, <1>5, <1>6, <1>7 DEF JobStep

LEMMA StepHolds ==
    ASSUME IInv, [Next]_vars
    PROVE  IInv'
<1>0. Static /\ Held
    BY DEF IInv, Held
<1> SUFFICES Static' /\ Held'
    BY DEF IInv, Held
<1>1. ASSUME NEW q \in Requests, Preview(q) \/ CheckMaster(q)
      PROVE  Static' /\ Held'
    BY <1>0, <1>1, RequestsHold
<1>2. ASSUME NEW q \in Requests, NEW k \in Jobs, Submit(q, k)
      PROVE  Static' /\ Held'
    <2>1. CASE UNCHANGED job
        BY <1>0, <1>2, <2>1, SubmitHolds
    <2>2. CASE ~(UNCHANGED job)
        BY <1>0, <1>2, <2>2, SubmitAside, KindsHold
    <2>3. QED
        BY <2>1, <2>2
<1>3. ASSUME NEW d \in Dividends, PollStatus(d)
      PROVE  Static' /\ Held'
    <2>1. Loose'
        BY <1>0, <1>3, Idle DEF PollStatus, Loose
    <2>2. QED
        BY <1>0, <1>3, <2>1, StillHolds DEF PollStatus
<1>4. ASSUME NEW k \in Jobs, Rebuild(k) \/ ImportLands(k) \/ JobStep(k)
      PROVE  Static' /\ Held'
    BY <1>0, <1>4, RebuildAside, ImportLandsAside, KindsHold, JobSteps
<1>5. CASE StartImport
    <2>1. Loose'
        BY <1>0, <1>5, Idle DEF StartImport, Loose, divVars
    <2>2. QED
        BY <1>0, <1>5, <2>1, StillHolds DEF StartImport, divVars
<1>6. CASE UNCHANGED vars
    <2>1. Loose'
        BY <1>0, <1>6, Idle DEF Loose, vars
    <2>2. QED
        BY <1>0, <1>6, <2>1, StillHolds DEF vars
<1>7. QED
    BY <1>1, <1>2, <1>3, <1>4, <1>5, <1>6 DEF Next

LEMMA StartHolds ==
    ASSUME Init
    PROVE  IInv
<1>1. \A k \in Jobs : /\ job[k] \in JobRecord /\ job[k].pc = "absent" /\ job[k].type = "div" /\ job[k].accts = {}
    <2>1. PICK n : n = NewJob("div", 0, {})
        OBVIOUS
    <2>2. n \in JobRecord /\ n.type = "div" /\ n.accts = {}
        BY <2>1 DEF NewJob, JobRecord, Pcs
    <2>3. PICK p : p = [n EXCEPT !.pc = "absent"]
        OBVIOUS
    <2>4. p \in JobRecord /\ p.pc = "absent" /\ p.type = "div" /\ p.accts = {}
        BY <2>2, <2>3 DEF JobRecord, Pcs
    <2>5. \A k \in Jobs : job[k] = p
        BY <2>1, <2>3 DEF Init
    <2>6. QED
        BY <2>4, <2>5
<1>2. \A k \in Jobs : Placed(job[k])
    BY <1>1 DEF Placed, Paying, Early, Walking
<1>3. \A a \in Accounts : Opening[a] \in SUBSET Rows /\ \A w \in Opening[a] : w.kind = "txn"
    <2>1. SUFFICES ASSUME NEW a \in Accounts, NEW w \in Opening[a]
                   PROVE  w \in Rows /\ w.kind = "txn"
        OBVIOUS
    <2>2. PICK t \in Trades : /\ w = [kind |-> "txn", of |-> t.rank, date |-> t.date, amt |-> t.amt,
                                      seq |-> w.seq, bal |-> w.bal, by |-> 0, epoch |-> 0]
                              /\ w.seq \in Nat /\ w.bal \in Int
        BY OpeningAssumption
    <2>3. t.rank \in Nat /\ t.date \in Nat /\ t.amt \in Int
        BY TradeFacts
    <2>4. PICK s, b : s = w.seq /\ b = w.bal /\ s \in Nat /\ b \in Int
        BY <2>2
    <2>5. w = [kind |-> "txn", of |-> t.rank, date |-> t.date, amt |-> t.amt,
               seq |-> s, bal |-> b, by |-> 0, epoch |-> 0]
        BY <2>2, <2>4
    <2>6. QED
        BY <2>3, <2>4, <2>5 DEF Rows
<1>4. Typed
    <2>1. book \in [Accounts -> SUBSET Rows]
        BY <1>3 DEF Init
    <2>2. req \in [Requests -> RequestRecord] /\ \A q \in Requests : req[q].pc = "idle"
        BY DEF Init, RequestRecord
    <2>3. job \in [Jobs -> JobRecord]
        BY <1>1 DEF Init
    <2>4. jobsRow \in [Dividends -> {"none", "PENDING", "COMPLETED", "FAILED", "ERROR"}]
          /\ accident \in [Dividends -> SUBSET {"twice", "missed"}] /\ payer \in [Dividends -> SUBSET Accounts]
          /\ mishap \in [Accounts -> SUBSET Mishaps]
        BY DEF Init
    <2>5. begun \in Nat /\ landed \in Nat /\ spent \in Nat /\ master \in SUBSET Dividends /\ records = {}
          /\ credited \in SUBSET (Dividends \X Accounts)
        BY DEF Init
    <2>6. QED
        BY <2>1, <2>2, <2>3, <2>4, <2>5 DEF Typed, Loose
<1>5. Apart
    BY <1>1 DEF Apart, Writing
<1>6. DividendRows /\ UndoneIsMissed
    BY <1>1, <1>3 DEF DividendRows, UndoneIsMissed, Init
<1>7. ASSUME NEW d \in Dividends
      PROVE  Once(d) /\ Due(d)
    <2>1. \A k \in Jobs : ~Applies(job[k], d) /\ ~Pays(job[k], d)
        BY <1>1 DEF Applies, Pays, Paying, Early
    <2>2. \A a \in Accounts : ~Recorded(d, a) /\ ~Has(d, a) /\ OneRow(d, a)
        BY <1>3 DEF Init, Recorded, Has, OneRow, IsDiv
    <2>3. OneRecord(d) /\ payer[d] = {} /\ master = {}
        BY DEF Init, OneRecord
    <2>4. QED
        BY <2>1, <2>2, <2>3 DEF Once, Due
<1>8. QED
    BY <1>2, <1>4, <1>5, <1>6, <1>7 DEF IInv, Static

(* The inductive invariant holds throughout.                                *)
THEOREM InvariantHolds == Spec => []IInv
<1>1. Init => IInv
    BY StartHolds
<1>2. IInv /\ [Next]_vars => IInv'
    BY StepHolds
<1>3. QED
    BY <1>1, <1>2, PTL DEF Spec

(* Nobody is paid a dividend twice, nor has two records of it, however      *)
(* often it is shown, applied, retried or polled, and whatever the other    *)
(* writers of the passbooks do, unless two jobs both saw no master row.     *)
THEOREM DividendPaidOnce == Spec => []DividendOnce
<1>1. IInv => DividendOnce
    BY DEF IInv, Once, DividendOnce, OneRecord, OneRow, IsDiv
<1>2. QED
    BY <1>1, InvariantHolds, PTL

(* A dividend that is COMPLETED, with no job of it at work, was paid to     *)
(* everybody it was applied for, unless a statement of an account failed,   *)
(* the job failed or was killed with the master row there, or two jobs      *)
(* applied it.                                                              *)
THEOREM CompletedIsPaid == Spec => []CompletedMeansPaid
<1>1. IInv => CompletedMeansPaid
    <2>1. SUFFICES ASSUME IInv, NEW d \in Dividends, accident[d] = {}, NEW a \in payer[d],
                          \A k \in Jobs : AtWork(k) => ~(Div(k) /\ job[k].of = d)
                   PROVE  /\ \E r \in records : r.div = d /\ r.acct = a
                          /\ \/ <<d, a>> \in credited \/ mishap[a] # {}
                             \/ a \in RebuildOf /\ \E k \in Jobs : job[k].type = "rebuild"
        BY DEF CompletedMeansPaid
    <2>2. Due(d) /\ Static
        BY <2>1 DEF IInv
    <2>3. ASSUME NEW k \in Jobs, Pending(job[k], d, a)
          PROVE  FALSE
        <3>1. job[k].pc \in Paying /\ job[k].of = d
            BY <2>3 DEF Pending, Pays
        <3>2. job[k].type = "div"
            BY <2>2, <3>1, Payer
        <3>3. AtWork(k)
            BY <3>1 DEF AtWork, Open, Paying, Early
        <3>4. QED
            BY <2>1, <3>1, <3>2, <3>3 DEF Div
    <2>4. Recorded(d, a) /\ Credited(d, a)
        BY <2>1, <2>2, <2>3 DEF Due
    <2>5. QED
        BY <2>4 DEF Recorded, Credited, Rebuilt
<1>2. QED
    BY <1>1, InvariantHolds, PTL

----------------------------------------------------------------------------
(* The inductive invariant of PassbookAdds.                                 *)

(* The rows B have the numbers 1 .. n, each once, every balance follows     *)
(* from the one before, and what an append or a rebuild wrote lies above    *)
(* all that is older.                                                       *)
Links(B, n) ==
    /\ \A w \in B : 1 <= w.seq /\ w.seq <= n
    /\ \A s \in 1 .. n : \E w \in B : w.seq = s
    /\ \A v, w \in B : v.seq = w.seq => v = w
    /\ \A v, w \in B : w.seq = v.seq + 1 => w.bal = v.bal + w.amt
    /\ \A w \in B : w.seq = 1 => w.bal = w.amt
    /\ \A v, w \in B : w.kind = "txn" /\ v.epoch < w.epoch => v.seq < w.seq
Chain(B) == \E n \in Nat : Links(B, n)

(* A trade and a dividend have one row at most.                             *)
Keyed(B) == \A v, w \in B : v.kind = w.kind /\ v.of = w.of => v = w

(* The last row of B has number s and balance b.                            *)
Top(B, s, b) ==
    \/ B = {} /\ s = 0 /\ b = 0
    \/ \E w \in B : w.seq = s /\ w.bal = b /\ \A v \in B : v.seq <= s

HasTrade(t, B) == \E w \in B : w.kind = "txn" /\ w.of = t.rank

(* An append has account a behind it, without an error in its walk.         *)
Past(r, a) ==
    /\ r.type = "append" /\ r.errs = 0 /\ r.pc \in Walking \union {"end", "done"}
    /\ a \in r.filter /\ a \notin r.accts
Claimed(i, a) == i = 0 \/ \E k \in Jobs : job[k].of = i /\ Past(job[k], a)
Claims(a) == {i \in Nat : Claimed(i, a)}

(* The trades of the uploads in C have their rows.                          *)
Present(B, C, a) == \A t \in Trades : t.acct = a /\ t.import \in C => HasTrade(t, B)

(* A dividend job has moved the rows undo of O, which were the passbook     *)
(* when it began, and not yet the rows moves; n is the dividend.            *)
Up(w, n) == [w EXCEPT !.seq = w.seq + 1, !.bal = w.bal + n]
Shifted(O, U, n) == {IF w \in U THEN Up(w, n) ELSE w : w \in O}
Shifting(r, n, O, B) ==
    /\ Chain(O) /\ Keyed(O)
    /\ r.undo \subseteq O
    /\ B = Shifted(O, r.undo, n)
    /\ r.pc = "prior" => r.undo = {}
    /\ r.pc \in {"move", "credit"} =>
         /\ r.moves = {w \in O : w.seq > r.seq} \ r.undo
         /\ \A w \in r.undo : w.seq > r.seq
         /\ (r.seq = 0 /\ r.bal = 0) \/ \E v \in O : v.seq = r.seq /\ v.bal = r.bal
    /\ r.pc = "credit" => r.moves = {}

BusyDiv(r, a, B, C) ==
    /\ Present(B, C, a)
    /\ ~(\E w \in B : IsDiv(w, r.of))
    /\ \E O \in SUBSET Rows : Shifting(r, Amount[r.of][a], O, B)

(* l is how many uploads have landed.                                       *)
BusyAppend(k, r, a, B, C, l) ==
    /\ Chain(B) /\ Present(B, C, a)
    /\ r.pc \in {"fetch", "tail"} => \A w \in B : w.epoch < r.of
    /\ r.pc \in {"tail", "insert"} =>
         /\ \A t \in r.todo : t.acct = a /\ r.of <= t.import /\ t.import <= l /\ ~HasTrade(t, B)
         /\ \A t \in Trades : t.acct = a /\ t.import = r.of => t \in r.todo \/ HasTrade(t, B)
    /\ r.pc = "insert" =>
         /\ \A w \in B : r.of <= w.epoch => w.by = k
         /\ Top(B, r.seq, r.bal)

Sofar(r) == (r.chunk - 1) * ChunkDays

BusyRebuild(r, a, B, C, l) ==
    r.pc # "delete" =>
       /\ r.chunk > 0
       /\ Chain(B) /\ Top(B, r.seq, r.bal)
       /\ \A t \in Trades : t.acct = a /\ HasTrade(t, B) => t.date <= Sofar(r)
       /\ \A t \in Trades : t.acct = a /\ t.import \in C /\ t.date <= Sofar(r) =>
             HasTrade(t, B) \/ (r.pc = "insert" /\ t \in r.todo)
       /\ r.pc = "insert" =>
            \A t \in r.todo : t.acct = a /\ t.import <= l /\ t.date <= Sofar(r) /\ ~HasTrade(t, B)

Busy(k, r, a, B, C, l) ==
    /\ r.type = "div" => BusyDiv(r, a, B, C)
    /\ r.type = "append" => BusyAppend(k, r, a, B, C, l)
    /\ r.type = "rebuild" => BusyRebuild(r, a, B, C, l)

(* Where a row comes from.                                                  *)
Sourced(w, a) ==
    /\ w.epoch <= begun
    /\ w.by = 0 \/ (w.by \in Jobs /\ job[w.by].pc # "absent")
    /\ w.kind = "txn" =>
         \E t \in Trades :
            /\ t.rank = w.of /\ t.acct = a /\ t.import <= w.epoch
            /\ w.by \in Jobs /\ job[w.by].type = "append" =>
                 job[w.by].of <= w.epoch /\ (Claimed(t.import, a) => t.import = job[w.by].of)

Content(a) ==
    /\ \A w \in book[a] : Sourced(w, a)
    /\ Keyed(book[a])
    /\ \A d \in Dividends : <<d, a>> \in credited <=> Has(d, a)

Settled(a) == Chain(book[a]) /\ Present(book[a], Claims(a), a)

Fine(a) ==
    mishap[a] = {} =>
       /\ Content(a)
       /\ Quiet(a) => Settled(a)
       /\ \A k \in Jobs : Writing(job[k], a) => Busy(k, job[k], a, book[a], Claims(a), landed)

JobShape(r) ==
    /\ r.undo # {} => r.pc \in {"move", "credit", "undo", "failed"}
    /\ r.pc \in {"fetch", "tail"} => r.seq = 0 /\ r.bal = 0
    /\ r.pc \in {"fetch", "tail"} => r.type = "append"
    /\ r.pc = "chunk" => r.type = "rebuild"
    /\ r.type = "append" /\ r.pc = "done" => r.errs = 0
    /\ r.type = "append" =>
         /\ 0 < r.of /\ r.of <= landed
         /\ \A t \in Trades : t.import = r.of => t.acct \in r.filter

Shape ==
    /\ landed <= begun
    /\ \A k \in Jobs : JobShape(job[k])
    /\ \A j, k \in Jobs : job[j].type = "append" /\ job[k].type = "append" /\ job[j].of = job[k].of => j = k

BInv == Shape /\ \A a \in Accounts : Fine(a)

----------------------------------------------------------------------------
(* Rows in a chain.                                                         *)

LEMMA TopIsLast ==
    ASSUME NEW B \in SUBSET Rows, NEW n \in Nat, Links(B, n), NEW s, NEW b, Top(B, s, b)
    PROVE  s = n /\ b \in Int
<1>1. \A w \in B : w.seq \in Int /\ w.bal \in Int
    BY DEF Rows
<1>2. CASE B = {}
    <2>1. n \notin 1 .. n
        BY <1>2 DEF Links
    <2>2. QED
        BY <1>2, <2>1 DEF Top
<1>3. CASE B # {}
    <2>1. PICK w \in B : w.seq = s /\ w.bal = b /\ \A v \in B : v.seq <= s
        BY <1>3 DEF Top
    <2>2. s \in Int /\ 1 <= s /\ s <= n /\ b \in Int
        BY <1>1, <2>1 DEF Links
    <2>3. PICK v \in B : v.seq = n
        BY <2>2 DEF Links
    <2>4. n <= s
        BY <2>1, <2>3
    <2>5. QED
        BY <2>2, <2>4
<1>4. QED
    BY <1>2, <1>3

(* A row on top.                                                            *)
LEMMA AppendTop ==
    ASSUME NEW B \in SUBSET Rows, Chain(B), NEW s, NEW b, Top(B, s, b), NEW x \in Rows,
           x.seq = s + 1, x.bal = b + x.amt, \A v \in B : v.epoch <= x.epoch
    PROVE  Chain(B \union {x}) /\ Top(B \union {x}, x.seq, x.bal)
<1>1. PICK n \in Nat : Links(B, n)
    BY DEF Chain
<1>2. s = n /\ b \in Int
    BY <1>1, TopIsLast
<1>3. \A w \in B \union {x} : w.seq \in Int /\ w.bal \in Int /\ w.amt \in Int /\ w.epoch \in Nat
    BY DEF Rows
<1>4. \A w \in B : 1 <= w.seq /\ w.seq <= n
    BY <1>1 DEF Links
<1>5. x.seq = n + 1
    BY <1>2
<1>6. \A w \in B \union {x} : 1 <= w.seq /\ w.seq <= n + 1
    BY <1>3, <1>4, <1>5
<1>7. \A t \in 1 .. (n + 1) : \E w \in B \union {x} : w.seq = t
    <2>1. \A t \in 1 .. n : \E w \in B : w.seq = t
        BY <1>1 DEF Links
    <2>2. \A t \in 1 .. (n + 1) : t \in 1 .. n \/ t = n + 1
        OBVIOUS
    <2>3. QED
        BY <1>5, <2>1, <2>2
<1>8. \A v, w \in B \union {x} : v.seq = w.seq => v = w
    <2>1. \A v, w \in B : v.seq = w.seq => v = w
        BY <1>1 DEF Links
    <2>2. \A v \in B : v.seq # x.seq
        BY <1>3, <1>4, <1>5
    <2>3. QED
        BY <2>1, <2>2
<1>9. \A v, w \in B \union {x} : w.seq = v.seq + 1 => w.bal = v.bal + w.amt
    <2>1. SUFFICES ASSUME NEW v \in B \union {x}, NEW w \in B \union {x}, w.seq = v.seq + 1
                   PROVE  w.bal = v.bal + w.amt
        OBVIOUS
    <2>2. v # x
        BY <1>3, <1>5, <1>6, <2>1
    <2>3. CASE w # x
        BY <1>1, <2>1, <2>2, <2>3 DEF Links
    <2>4. CASE w = x
        <3>1. v \in B /\ v.seq = n
            BY <1>3, <1>5, <2>1, <2>2, <2>4
        <3>2. PICK u \in B : u.seq = s /\ u.bal = b
            BY <3>1 DEF Top
        <3>3. u = v
            BY <1>1, <1>2, <3>1, <3>2 DEF Links
        <3>4. QED
            BY <2>4, <3>2, <3>3
    <2>5. QED
        BY <2>3, <2>4
<1>10. \A w \in B \union {x} : w.seq = 1 => w.bal = w.amt
    <2>1. SUFFICES ASSUME NEW w \in B \union {x}, w.seq = 1
                   PROVE  w.bal = w.amt
        OBVIOUS
    <2>2. CASE w \in B
        BY <1>1, <2>1, <2>2 DEF Links
    <2>3. CASE w = x
        <3>1. n = 0 /\ s = 0
            BY <1>2, <1>5, <2>1, <2>3
        <3>2. b = 0
            BY <1>3, <1>4, <3>1 DEF Top
        <3>3. QED
            BY <1>3, <2>3, <3>2
    <2>4. QED
        BY <2>1, <2>2, <2>3
<1>11. \A v, w \in B \union {x} : w.kind = "txn" /\ v.epoch < w.epoch => v.seq < w.seq
    <2>1. \A v, w \in B : w.kind = "txn" /\ v.epoch < w.epoch => v.seq < w.seq
        BY <1>1 DEF Links
    <2>2. \A w \in B : ~(x.epoch < w.epoch) /\ w.seq < x.seq
        BY <1>3, <1>4, <1>5
    <2>3. QED
        BY <1>3, <2>1, <2>2
<1>12. Links(B \union {x}, n + 1)
    BY <1>6, <1>7, <1>8, <1>9, <1>10, <1>11 DEF Links
<1>13. Top(B \union {x}, x.seq, x.bal)
    BY <1>3, <1>5, <1>6 DEF Top
<1>14. QED
    BY <1>12, <1>13 DEF Chain

(* What was written since upload e began, by no dividend job, lies on top.  *)
LEMMA CutTop ==
    ASSUME NEW B \in SUBSET Rows, Chain(B), NEW e \in Nat, NEW D, D = {w \in B : w.epoch >= e},
           \A w \in D : w.kind = "txn"
    PROVE  Chain(B \ D)
<1>1. PICK n \in Nat : Links(B, n)
    BY DEF Chain
<1>2. \A w \in B : w.seq \in Int /\ w.bal \in Int /\ w.amt \in Int /\ w.epoch \in Nat
    BY DEF Rows
<1>3. CASE D = {}
    BY <1>3
<1>4. CASE D # {}
    <2>1. PICK S : S = {w.seq : w \in D}
        OBVIOUS
    <2>2. S \in SUBSET Nat /\ S # {}
        <3>1. \A w \in D : w.seq \in Nat
            BY <1>1, <1>2 DEF Links
        <3>2. QED
            BY <1>4, <2>1, <3>1
    <2>3. PICK m \in S : \A s \in S : m <= s
        BY <2>2, LeastOf
    <2>4. PICK x \in D : x.seq = m
        BY <2>1
    <2>5. \A w \in D : m <= w.seq
        BY <2>1, <2>3
    <2>6. \A v \in B \ D : v.seq < m
        BY <1>1, <1>2, <2>4 DEF Links
    <2>7. m \in Nat /\ 1 <= m /\ m <= n
        BY <1>1, <2>2, <2>4 DEF Links
    <2>8. \A w \in B \ D : 1 <= w.seq /\ w.seq <= m - 1
        BY <1>1, <1>2, <2>6, <2>7 DEF Links
    <2>9. ASSUME NEW s \in 1 .. (m - 1)
          PROVE  \E w \in B \ D : w.seq = s
        <3>1. s \in 1 .. n /\ s < m
            BY <2>7
        <3>2. PICK w \in B : w.seq = s
            BY <1>1, <3>1 DEF Links
        <3>3. w \notin D
            BY <1>2, <2>5, <2>7, <3>1, <3>2
        <3>4. QED
            BY <3>2, <3>3
    <2>10. Links(B \ D, m - 1)
        BY <1>1, <2>8, <2>9 DEF Links
    <2>11. QED
        BY <2>7, <2>10 DEF Chain
<1>5. QED
    BY <1>3, <1>4

(* The parts of a passbook that a step makes smaller keep their rows apart. *)
LEMMA KeyedSubset == ASSUME NEW B, NEW D, Keyed(B), D \subseteq B PROVE Keyed(D)
BY DEF Keyed

LEMMA KeyedAdd ==
    ASSUME NEW B, NEW x, Keyed(B), \A w \in B : ~(w.kind = x.kind /\ w.of = x.of)
    PROVE  Keyed(B \union {x})
BY DEF Keyed

----------------------------------------------------------------------------
(* Rows that a dividend moves.                                              *)

LEMMA UpIs ==
    ASSUME NEW w \in Rows, NEW n \in Int
    PROVE  /\ Up(w, n) \in Rows
           /\ Up(w, n).seq = w.seq + 1 /\ Up(w, n).bal = w.bal + n
           /\ Up(w, n).kind = w.kind /\ Up(w, n).of = w.of /\ Up(w, n).by = w.by
           /\ Up(w, n).epoch = w.epoch /\ Up(w, n).amt = w.amt /\ Up(w, n).date = w.date
<1>1. PICK s : s = w.seq + 1
    OBVIOUS
<1>2. PICK b : b = w.bal + n
    OBVIOUS
<1>3. s \in Int /\ b \in Int
    BY <1>1, <1>2 DEF Rows
<1>4. PICK x : x = [w EXCEPT !.seq = s]
    OBVIOUS
<1>5. x \in Rows /\ x = [w EXCEPT !.seq = s] /\ x.seq = s
    BY <1>3, <1>4 DEF Rows
<1>6. PICK y : y = [x EXCEPT !.bal = b]
    OBVIOUS
<1>7. y \in Rows /\ y.seq = s /\ y.bal = b
    BY <1>3, <1>5, <1>6 DEF Rows
<1>8. /\ y.kind = w.kind /\ y.of = w.of /\ y.by = w.by
      /\ y.epoch = w.epoch /\ y.amt = w.amt /\ y.date = w.date
    BY <1>4, <1>6 DEF Rows
<1>9. Up(w, n) = y
    BY <1>1, <1>2, <1>4, <1>6 DEF Up, Rows
<1>10. QED
    BY <1>1, <1>2, <1>7, <1>8, <1>9

LEMMA ShiftedNone == ASSUME NEW O, NEW n PROVE Shifted(O, {}, n) = O
BY DEF Shifted

(* Each row is a row of O, moved or not.                                    *)
LEMMA ShiftedRow ==
    ASSUME NEW O \in SUBSET Rows, NEW U, NEW n \in Int, NEW v \in Shifted(O, U, n)
    PROVE  \E w \in O : /\ v = IF w \in U THEN Up(w, n) ELSE w
                        /\ v \in Rows
                        /\ v.kind = w.kind /\ v.of = w.of /\ v.by = w.by /\ v.epoch = w.epoch
                        /\ v.amt = w.amt /\ v.date = w.date
<1>1. PICK w \in O : v = IF w \in U THEN Up(w, n) ELSE w
    BY DEF Shifted
<1>2. w \in Rows
    OBVIOUS
<1>3. QED
    BY <1>1, <1>2, UpIs

LEMMA ShiftedHas ==
    ASSUME NEW O \in SUBSET Rows, NEW U, NEW n \in Int, NEW w \in O
    PROVE  \E v \in Shifted(O, U, n) : /\ v = IF w \in U THEN Up(w, n) ELSE w
                                       /\ v.kind = w.kind /\ v.of = w.of /\ v.by = w.by /\ v.epoch = w.epoch
<1>1. PICK v : v = IF w \in U THEN Up(w, n) ELSE w
    OBVIOUS
<1>2. v \in Shifted(O, U, n)
    BY <1>1 DEF Shifted
<1>3. w \in Rows
    OBVIOUS
<1>4. QED
    BY <1>1, <1>2, <1>3, UpIs

(* The UPDATE of one row more, and its undoing.                             *)
Putted(B, w, s, b) == {IF SameRow(v, w) THEN [v EXCEPT !.seq = s, !.bal = b] ELSE v : v \in B}

LEMMA ShiftedOne ==
    ASSUME NEW O \in SUBSET Rows, Keyed(O), NEW U \in SUBSET O, NEW n \in Int, NEW w \in O \ U
    PROVE  Putted(Shifted(O, U, n), w, w.seq + 1, w.bal + n) = Shifted(O, U \union {w}, n)
<1>1. PICK X : X = Shifted(O, U, n)
    OBVIOUS
<1>2. PICK f : f = [v \in X |-> IF SameRow(v, w) THEN [v EXCEPT !.seq = w.seq + 1, !.bal = w.bal + n] ELSE v]
    OBVIOUS
<1>3. ASSUME NEW x \in O, NEW v \in X, v = IF x \in U THEN Up(x, n) ELSE x
      PROVE  f[v] = IF x \in U \union {w} THEN Up(x, n) ELSE x
    <2>1. x \in Rows /\ w \in Rows
        OBVIOUS
    <2>2. v.kind = x.kind /\ v.of = x.of /\ v.by = x.by
        BY <1>3, <2>1, UpIs
    <2>3. SameRow(v, w) <=> x = w
        BY <2>2 DEF SameRow, Keyed
    <2>4. CASE x = w
        <3>1. v = w /\ SameRow(v, w)
            BY <1>3, <2>3, <2>4
        <3>2. f[v] = Up(w, n)
            BY <1>2, <3>1 DEF Up
        <3>3. QED
            BY <2>4, <3>2
    <2>5. CASE x # w
        <3>1. f[v] = v
            BY <1>2, <2>3, <2>5
        <3>2. QED
            BY <1>3, <2>5, <3>1
    <2>6. QED
        BY <2>4, <2>5
<1>4. {f[v] : v \in X} = Shifted(O, U \union {w}, n)
    <2>1. ASSUME NEW v \in X PROVE f[v] \in Shifted(O, U \union {w}, n)
        <3>1. PICK x \in O : v = IF x \in U THEN Up(x, n) ELSE x
            BY <1>1 DEF Shifted
        <3>2. f[v] = IF x \in U \union {w} THEN Up(x, n) ELSE x
            BY <1>3, <3>1
        <3>3. QED
            BY <3>2 DEF Shifted
    <2>2. ASSUME NEW y \in Shifted(O, U \union {w}, n) PROVE y \in {f[v] : v \in X}
        <3>1. PICK x \in O : y = IF x \in U \union {w} THEN Up(x, n) ELSE x
            BY DEF Shifted
        <3>2. PICK v : v = IF x \in U THEN Up(x, n) ELSE x
            OBVIOUS
        <3>3. v \in X
            BY <1>1, <3>2 DEF Shifted
        <3>4. f[v] = y
            BY <1>3, <3>1, <3>2, <3>3
        <3>5. QED
            BY <3>3, <3>4
    <2>3. QED
        BY <2>1, <2>2
<1>5. Putted(X, w, w.seq + 1, w.bal + n) = {f[v] : v \in X}
    BY <1>2 DEF Putted
<1>6. QED
    BY <1>1, <1>4, <1>5

LEMMA ShiftedBack ==
    ASSUME NEW O \in SUBSET Rows, Keyed(O), NEW U \in SUBSET O, NEW n \in Int, NEW w \in U
    PROVE  Putted(Shifted(O, U, n), w, w.seq, w.bal) = Shifted(O, U \ {w}, n)
<1>1. PICK X : X = Shifted(O, U, n)
    OBVIOUS
<1>2. PICK f : f = [v \in X |-> IF SameRow(v, w) THEN [v EXCEPT !.seq = w.seq, !.bal = w.bal] ELSE v]
    OBVIOUS
<1>3. ASSUME NEW x \in O, NEW v \in X, v = IF x \in U THEN Up(x, n) ELSE x
      PROVE  f[v] = IF x \in U \ {w} THEN Up(x, n) ELSE x
    <2>1. x \in Rows /\ w \in Rows
        OBVIOUS
    <2>2. v.kind = x.kind /\ v.of = x.of /\ v.by = x.by
        BY <1>3, <2>1, UpIs
    <2>3. SameRow(v, w) <=> x = w
        BY <2>2 DEF SameRow, Keyed
    <2>4. CASE x = w
        <3>1. v = Up(w, n) /\ SameRow(v, w)
            BY <1>3, <2>3, <2>4
        <3>2. f[v] = [Up(w, n) EXCEPT !.seq = w.seq, !.bal = w.bal]
            BY <1>2, <3>1
        <3>3. [Up(w, n) EXCEPT !.seq = w.seq, !.bal = w.bal] = w
            BY <2>1 DEF Up, Rows
        <3>4. QED
            BY <2>4, <3>2, <3>3
    <2>5. CASE x # w
        <3>1. f[v] = v
            BY <1>2, <2>3, <2>5
        <3>2. QED
            BY <1>3, <2>5, <3>1
    <2>6. QED
        BY <2>4, <2>5
<1>4. {f[v] : v \in X} = Shifted(O, U \ {w}, n)
    <2>1. ASSUME NEW v \in X PROVE f[v] \in Shifted(O, U \ {w}, n)
        <3>1. PICK x \in O : v = IF x \in U THEN Up(x, n) ELSE x
            BY <1>1 DEF Shifted
        <3>2. f[v] = IF x \in U \ {w} THEN Up(x, n) ELSE x
            BY <1>3, <3>1
        <3>3. QED
            BY <3>2 DEF Shifted
    <2>2. ASSUME NEW y \in Shifted(O, U \ {w}, n) PROVE y \in {f[v] : v \in X}
        <3>1. PICK x \in O : y = IF x \in U \ {w} THEN Up(x, n) ELSE x
            BY DEF Shifted
        <3>2. PICK v : v = IF x \in U THEN Up(x, n) ELSE x
            OBVIOUS
        <3>3. v \in X
            BY <1>1, <3>2 DEF Shifted
        <3>4. f[v] = y
            BY <1>3, <3>1, <3>2, <3>3
        <3>5. QED
            BY <3>3, <3>4
    <2>3. QED
        BY <2>1, <2>2
<1>5. Putted(X, w, w.seq, w.bal) = {f[v] : v \in X}
    BY <1>2 DEF Putted
<1>6. QED
    BY <1>1, <1>4, <1>5

(* The credit at its place: every row after number s is one further on.     *)
LEMMA CreditChain ==
    ASSUME NEW O \in SUBSET Rows, Chain(O), NEW U, NEW s \in Int, NEW b, NEW n \in Int, NEW x \in Rows,
           U = {w \in O : w.seq > s},
           (s = 0 /\ b = 0) \/ \E v \in O : v.seq = s /\ v.bal = b,
           x.seq = s + 1, x.bal = b + n, x.amt = n, x.kind = "div", \A w \in O : w.epoch <= x.epoch
    PROVE  Chain(Shifted(O, U, n) \union {x})
<1>1. PICK m \in Nat : Links(O, m)
    BY DEF Chain
<1>2. \A w \in O : w.seq \in Int /\ w.bal \in Int /\ w.amt \in Int /\ w.epoch \in Nat /\ 1 <= w.seq /\ w.seq <= m
    BY <1>1 DEF Links, Rows
<1>3. s \in 0 .. m /\ b \in Int
    BY <1>2
<1>4. x.seq \in Int /\ x.bal \in Int /\ x.amt \in Int /\ x.epoch \in Nat
    BY DEF Rows
<1>5. PICK B : B = Shifted(O, U, n)
    OBVIOUS
(* What a row v of B was.                                                   *)
<1>6. PICK g : g = [v \in B |-> CHOOSE w \in O : v = IF w \in U THEN Up(w, n) ELSE w]
    OBVIOUS
<1>7. ASSUME NEW v \in B
      PROVE  /\ g[v] \in O
             /\ v.seq = IF g[v].seq > s THEN g[v].seq + 1 ELSE g[v].seq
             /\ v.bal = IF g[v].seq > s THEN g[v].bal + n ELSE g[v].bal
             /\ v.amt = g[v].amt /\ v.epoch = g[v].epoch /\ v.kind = g[v].kind
             /\ v = IF g[v] \in U THEN Up(g[v], n) ELSE g[v]
    <2>1. \E w \in O : v = IF w \in U THEN Up(w, n) ELSE w
        BY <1>5 DEF Shifted
    <2>2. g[v] \in O /\ v = IF g[v] \in U THEN Up(g[v], n) ELSE g[v]
        BY <1>6, <2>1
    <2>3. g[v] \in Rows
        BY <2>2
    <2>4. g[v] \in U <=> g[v].seq > s
        BY <2>2
    <2>5. PICK w \in O : w = g[v]
        BY <2>2
    <2>6. v = (IF w \in U THEN Up(w, n) ELSE w) /\ w \in Rows /\ (w \in U <=> w.seq > s)
        BY <2>2, <2>4, <2>5
    <2>7. /\ v.seq = IF w.seq > s THEN w.seq + 1 ELSE w.seq
          /\ v.bal = IF w.seq > s THEN w.bal + n ELSE w.bal
          /\ v.amt = w.amt /\ v.epoch = w.epoch /\ v.kind = w.kind
        BY <2>6, UpIs
    <2>8. QED
        BY <2>2, <2>5, <2>7
<1>8. ASSUME NEW w \in O
      PROVE  \E v \in B : v.seq = IF w.seq > s THEN w.seq + 1 ELSE w.seq
    <2>1. PICK v : v = IF w \in U THEN Up(w, n) ELSE w
        OBVIOUS
    <2>2. v \in B
        BY <1>5, <2>1 DEF Shifted
    <2>3. w \in Rows
        OBVIOUS
    <2>4. QED
        BY <2>1, <2>2, <2>3, UpIs
<1>9. \A v \in B : /\ v.seq \in Int /\ 1 <= v.seq /\ v.seq <= m + 1 /\ v.seq # s + 1
                   /\ v.bal \in Int /\ v.amt \in Int /\ v.epoch \in Nat
    BY <1>2, <1>3, <1>7
<1>10. \A w \in B \union {x} : 1 <= w.seq /\ w.seq <= m + 1
    BY <1>3, <1>9
<1>11. ASSUME NEW t \in 1 .. (m + 1)
       PROVE  \E w \in B \union {x} : w.seq = t
    <2>1. CASE t <= s
        <3>1. t \in 1 .. m
            BY <1>3, <2>1
        <3>2. PICK w \in O : w.seq = t
            BY <1>1, <3>1 DEF Links
        <3>3. PICK v \in B : v.seq = IF w.seq > s THEN w.seq + 1 ELSE w.seq
            BY <1>8
        <3>4. QED
            BY <2>1, <3>2, <3>3, <1>3
    <2>2. CASE t = s + 1
        BY <2>2
    <2>3. CASE t > s + 1
        <3>1. t - 1 \in 1 .. m
            BY <1>3, <2>3
        <3>2. PICK w \in O : w.seq = t - 1
            BY <1>1, <3>1 DEF Links
        <3>3. PICK v \in B : v.seq = IF w.seq > s THEN w.seq + 1 ELSE w.seq
            BY <1>8
        <3>4. QED
            BY <2>3, <3>2, <3>3, <1>3
    <2>4. QED
        BY <1>3, <2>1, <2>2, <2>3
<1>12. \A v, w \in B \union {x} : v.seq = w.seq => v = w
    <2>1. \A v, w \in B : v.seq = w.seq => v = w
        <3>1. SUFFICES ASSUME NEW v \in B, NEW w \in B, v.seq = w.seq
                       PROVE  v = w
            OBVIOUS
        <3>2. g[v].seq = g[w].seq
            BY <1>2, <1>7, <3>1
        <3>3. g[v] = g[w]
            BY <1>1, <1>7, <3>2 DEF Links
        <3>4. QED
            BY <1>7, <3>3
    <2>2. QED
        BY <1>9, <2>1
<1>13. \A v, w \in B \union {x} : w.seq = v.seq + 1 => w.bal = v.bal + w.amt
    <2>1. SUFFICES ASSUME NEW v \in B \union {x}, NEW w \in B \union {x}, w.seq = v.seq + 1
                   PROVE  w.bal = v.bal + w.amt
        OBVIOUS
    <2>2. CASE v = x
        <3>1. w # x
            BY <1>4, <2>1, <2>2
        <3>2. w \in B /\ w.seq = s + 2
            BY <2>1, <2>2, <3>1
        <3>3. g[w] \in O /\ g[w].seq = s + 1 /\ w.bal = g[w].bal + n /\ w.amt = g[w].amt
            BY <1>2, <1>7, <3>2
        <3>4. g[w].bal = b + g[w].amt
            <4>1. CASE s = 0 /\ b = 0
                <5>1. g[w].bal = g[w].amt
                    BY <1>1, <3>3, <4>1 DEF Links
                <5>2. QED
                    BY <1>2, <3>3, <4>1, <5>1
            <4>2. CASE \E u \in O : u.seq = s /\ u.bal = b
                BY <1>1, <3>3, <4>2 DEF Links
            <4>3. QED
                BY <4>1, <4>2
        <3>5. QED
            BY <1>2, <1>3, <2>2, <3>3, <3>4
    <2>3. CASE w = x
        <3>1. v # x
            BY <1>4, <2>1, <2>3
        <3>2. v \in B /\ v.seq = s
            BY <1>9, <2>1, <2>3, <3>1
        <3>3. g[v] \in O /\ g[v].seq = s /\ v.bal = g[v].bal
            BY <1>2, <1>7, <3>2
        <3>4. s # 0
            BY <1>9, <3>2
        <3>5. g[v].bal = b
            <4>1. PICK u \in O : u.seq = s /\ u.bal = b
                BY <3>4
            <4>2. u = g[v]
                BY <1>1, <3>3, <4>1 DEF Links
            <4>3. QED
                BY <4>1, <4>2
        <3>6. QED
            BY <2>3, <3>3, <3>5
    <2>4. CASE v # x /\ w # x
        <3>1. v \in B /\ w \in B
            BY <2>4
        <3>2. PICK p \in O : p = g[v]
            BY <1>7, <3>1
        <3>3. PICK q \in O : q = g[w]
            BY <1>7, <3>1
        <3>4. /\ v.seq = IF p.seq > s THEN p.seq + 1 ELSE p.seq
              /\ v.bal = IF p.seq > s THEN p.bal + n ELSE p.bal
              /\ w.seq = IF q.seq > s THEN q.seq + 1 ELSE q.seq
              /\ w.bal = IF q.seq > s THEN q.bal + n ELSE q.bal
              /\ w.amt = q.amt
            BY <1>7, <3>1, <3>2, <3>3
        <3>5. q.seq = p.seq + 1 /\ (q.seq > s <=> p.seq > s)
            BY <1>2, <1>9, <2>1, <3>1, <3>4
        <3>6. q.bal = p.bal + q.amt
            BY <1>1, <3>5 DEF Links
        <3>7. QED
            BY <1>2, <3>4, <3>5, <3>6
    <2>5. QED
        BY <2>2, <2>3, <2>4
<1>14. \A w \in B \union {x} : w.seq = 1 => w.bal = w.amt
    <2>1. SUFFICES ASSUME NEW w \in B \union {x}, w.seq = 1
                   PROVE  w.bal = w.amt
        OBVIOUS
    <2>2. CASE w = x
        <3>1. s = 0
            BY <2>1, <2>2
        <3>2. b = 0
            BY <1>2, <3>1
        <3>3. QED
            BY <2>2, <3>2
    <2>3. CASE w \in B
        <3>1. g[w] \in O /\ g[w].seq = 1 /\ w.bal = g[w].bal /\ w.amt = g[w].amt
            BY <1>2, <1>3, <1>7, <2>1, <2>3
        <3>2. QED
            BY <1>1, <3>1 DEF Links
    <2>4. QED
        BY <2>2, <2>3
<1>15. \A v, w \in B \union {x} : w.kind = "txn" /\ v.epoch < w.epoch => v.seq < w.seq
    <2>1. SUFFICES ASSUME NEW v \in B \union {x}, NEW w \in B \union {x}, w.kind = "txn", v.epoch < w.epoch
                   PROVE  v.seq < w.seq
        OBVIOUS
    <2>2. w \in B /\ g[w] \in O /\ w.epoch = g[w].epoch /\ g[w].kind = "txn"
        BY <1>7, <2>1
    <2>3. v # x
        BY <1>2, <1>4, <2>1, <2>2
    <2>4. v \in B /\ g[v] \in O /\ v.epoch = g[v].epoch
        BY <1>7, <2>1, <2>3
    <2>5. g[v].seq < g[w].seq
        BY <1>1, <2>1, <2>2, <2>4 DEF Links
    <2>6. QED
        BY <1>2, <1>7, <2>2, <2>4, <2>5
<1>16. Links(B \union {x}, m + 1)
    BY <1>10, <1>11, <1>12, <1>13, <1>14, <1>15 DEF Links
<1>17. QED
    BY <1>5, <1>16 DEF Chain

(* A chain adds up.                                                         *)
LEMMA ChainAddsUp ==
    ASSUME NEW B \in SUBSET Rows, Chain(B)
    PROVE  AddsUp(B)
<1>1. PICK n \in Nat : Links(B, n)
    BY DEF Chain
<1>2. PICK f : f = [s \in 1 .. n |-> CHOOSE w \in B : w.seq = s]
    OBVIOUS
<1>3. \A s \in 1 .. n : f[s] \in B /\ f[s].seq = s
    BY <1>1, <1>2 DEF Links
<1>4. \A w \in B : w.seq \in 1 .. n /\ f[w.seq] = w
    <2>1. SUFFICES ASSUME NEW w \in B PROVE w.seq \in 1 .. n /\ f[w.seq] = w
        OBVIOUS
    <2>2. w.seq \in 1 .. n
        BY <1>1 DEF Links, Rows
    <2>3. QED
        BY <1>1, <1>3, <2>2 DEF Links
<1>5. f \in Bijection(1 .. n, B)
    <2>1. f \in [1 .. n -> B]
        BY <1>2, <1>3
    <2>2. \A s, t \in 1 .. n : f[s] = f[t] => s = t
        BY <1>3
    <2>3. \A w \in B : \E s \in 1 .. n : f[s] = w
        BY <1>4
    <2>4. QED
        BY <2>1, <2>2, <2>3 DEF Bijection, Injection, Surjection, IsInjective
<1>6. ExistsBijection(1 .. n, B)
    BY <1>5 DEF ExistsBijection
<1>7. Cardinality(B) = n
    BY <1>6, FS_CountingElements
<1>8. {w.seq : w \in B} = 1 .. n
    BY <1>3, <1>4
<1>9. QED
    BY <1>1, <1>7, <1>8 DEF AddsUp, Links

----------------------------------------------------------------------------
(* What a step does to a passbook that it does not write, begins to write   *)
(* or was writing.                                                          *)

(* Jobs keep their type and what they are of.                               *)
Stable ==
    \A j \in Jobs : job[j].pc # "absent" => /\ job'[j].pc # "absent"
                                            /\ job'[j].type = job[j].type /\ job'[j].of = job[j].of

LEMMA SourcedStays ==
    ASSUME Static, Stable, NEW a \in Accounts, NEW w \in Rows, Sourced(w, a), begun \in Nat, begun' \in Nat, begun <= begun',
           \A i \in Nat : Claimed(i, a)' => \/ Claimed(i, a) \/ w.epoch < i
                                            \/ (w.by \in Jobs /\ job[w.by].of = i)
    PROVE  Sourced(w, a)'
<1>1. w.epoch <= begun' /\ w.epoch \in Nat
    BY DEF Sourced, Rows
<1>2. w.by = 0 \/ (w.by \in Jobs /\ job'[w.by].pc # "absent")
    BY DEF Sourced, Stable
<1>3. ASSUME w.kind = "txn"
      PROVE  \E t \in Trades :
                /\ t.rank = w.of /\ t.acct = a /\ t.import <= w.epoch
                /\ w.by \in Jobs /\ job'[w.by].type = "append" =>
                     job'[w.by].of <= w.epoch /\ (Claimed(t.import, a)' => t.import = job'[w.by].of)
    <2>1. PICK t \in Trades :
                /\ t.rank = w.of /\ t.acct = a /\ t.import <= w.epoch
                /\ w.by \in Jobs /\ job[w.by].type = "append" =>
                     job[w.by].of <= w.epoch /\ (Claimed(t.import, a) => t.import = job[w.by].of)
        BY <1>3 DEF Sourced
    <2>2. ASSUME w.by \in Jobs, job'[w.by].type = "append"
          PROVE  job'[w.by].of <= w.epoch /\ (Claimed(t.import, a)' => t.import = job'[w.by].of)
        <3>1. job[w.by].pc # "absent"
            BY <2>2, Numbers DEF Sourced
        <3>2. job[w.by].type = "append" /\ job'[w.by].of = job[w.by].of
            BY <2>2, <3>1 DEF Stable
        <3>3. t.import \in Nat /\ ~(w.epoch < t.import)
            BY <1>1, <2>1, TradeFacts
        <3>4. Claimed(t.import, a)' => Claimed(t.import, a) \/ job[w.by].of = t.import
            BY <3>3
        <3>5. QED
            BY <2>1, <2>2, <3>2, <3>4
    <2>3. QED
        BY <2>1, <2>2
<1>4. QED
    BY <1>1, <1>2, <1>3 DEF Sourced

(* A passbook that stays as it is, of an account nobody gets behind it.     *)
LEMMA ContentStays ==
    ASSUME Static, Static', Stable, NEW a \in Accounts, Content(a), begun <= begun', book'[a] = book[a],
           \A d \in Dividends : <<d, a>> \in credited' <=> <<d, a>> \in credited,
           \A i \in Nat : Claimed(i, a)' => Claimed(i, a)
    PROVE  Content(a)'
<1>1. begun \in Nat /\ begun' \in Nat /\ book[a] \in SUBSET Rows
    BY DEF Static, Typed, Loose
<1>2. \A w \in book[a] : Sourced(w, a)'
    BY <1>1, SourcedStays DEF Content
<1>3. Keyed(book[a]) /\ \A d \in Dividends : <<d, a>> \in credited <=> Has(d, a)
    BY DEF Content
<1>4. \A d \in Dividends : Has(d, a)' <=> Has(d, a)
    BY DEF Has
<1>5. QED
    BY <1>2, <1>3, <1>4 DEF Content

LEMMA PresentFewer ==
    ASSUME NEW B, NEW C, NEW D, NEW a, Present(B, C, a), D \subseteq C
    PROVE  Present(B, D, a)
BY DEF Present

LEMMA BusyStays ==
    ASSUME NEW k, NEW r, NEW a, NEW B, NEW C, NEW D, NEW l \in Nat, NEW m \in Nat,
           r.type = "append" => r.of \in Nat,
           r.pc \in {"tail", "insert"} => r.todo \subseteq Trades,
           Busy(k, r, a, B, C, l), D \subseteq C, l <= m
    PROVE  Busy(k, r, a, B, D, m)
<1>1. ASSUME r.type = "div"
      PROVE  BusyDiv(r, a, B, D)
    BY <1>1, PresentFewer DEF Busy, BusyDiv
<1>2. ASSUME r.type = "append"
      PROVE  BusyAppend(k, r, a, B, D, m)
    <2>1. BusyAppend(k, r, a, B, C, l)
        BY <1>2 DEF Busy
    <2>2. Present(B, D, a)
        BY <2>1, PresentFewer DEF BusyAppend
    <2>3. ASSUME r.pc \in {"tail", "insert"}, NEW t \in r.todo
          PROVE  t.import <= m
        <3>1. t.import \in Nat
            BY <2>3, TradeFacts
        <3>2. t.import <= l
            BY <2>1, <2>3 DEF BusyAppend
        <3>3. QED
            BY <3>1, <3>2
    <2>4. QED
        BY <2>1, <2>2, <2>3 DEF BusyAppend
<1>3. ASSUME r.type = "rebuild"
      PROVE  BusyRebuild(r, a, B, D, m)
    <2>1. BusyRebuild(r, a, B, C, l)
        BY <1>3 DEF Busy
    <2>2. ASSUME r.pc = "insert", NEW t \in r.todo
          PROVE  t.import <= m
        <3>1. t.import \in Nat
            BY <2>2, TradeFacts
        <3>2. t.import <= l
            BY <2>1, <2>2 DEF BusyRebuild
        <3>3. QED
            BY <3>1, <3>2
    <2>3. QED
        BY <2>1, <2>2 DEF BusyRebuild
<1>4. QED
    BY <1>1, <1>2, <1>3 DEF Busy

LEMMA ElsewhereFine ==
    ASSUME Static, Static', Stable, NEW a \in Accounts, Fine(a), begun <= begun', landed <= landed',
           book'[a] = book[a], mishap[a] \subseteq mishap'[a],
           \A d \in Dividends : <<d, a>> \in credited' <=> <<d, a>> \in credited,
           \A i \in Nat : Claimed(i, a)' => Claimed(i, a),
           \A j \in Jobs : job'[j] = job[j] \/ (~Writing(job[j], a) /\ ~Writing(job'[j], a))
    PROVE  Fine(a)'
<1>1. SUFFICES ASSUME mishap'[a] = {}
               PROVE  /\ Content(a)'
                      /\ Quiet(a)' => Settled(a)'
                      /\ \A k \in Jobs : Writing(job'[k], a) => Busy(k, job'[k], a, book'[a], Claims(a)', landed')
    <2>1. \A k \in Jobs : Writing(job[k], a)' <=> Writing(job'[k], a)
        BY DEF Writing
    <2>2. \A k \in Jobs : Busy(k, job'[k], a, book'[a], Claims(a)', landed')
                             => Busy(k, job[k], a, book[a], Claims(a), landed)'
        BY DEF Busy, BusyDiv, BusyAppend, BusyRebuild, Sofar
    <2>3. QED
        BY <2>1, <2>2 DEF Fine
<1>2. mishap[a] = {}
    BY <1>1
<1>3. Content(a)'
    BY <1>2, ContentStays DEF Fine
<1>4. Claims(a)' \subseteq Claims(a)
    BY DEF Claims
<1>5. landed \in Nat /\ landed' \in Nat
    BY DEF Static, Typed, Loose
<1>6. ASSUME Quiet(a)'
      PROVE  Settled(a)'
    <2>1. \A k \in Jobs : ~Writing(job'[k], a)
        BY <1>6 DEF Quiet, Writing
    <2>2. Quiet(a)
        BY <2>1 DEF Quiet
    <2>3. Chain(book[a]) /\ Present(book[a], Claims(a), a)
        BY <1>2, <2>2 DEF Fine, Settled
    <2>4. PICK D : D = Claims(a)'
        OBVIOUS
    <2>5. Present(book[a], D, a)
        BY <1>4, <2>3, <2>4, PresentFewer
    <2>6. Chain(book'[a]) /\ Present(book'[a], Claims(a)', a)
        BY <2>3, <2>4, <2>5
    <2>7. QED
        BY <2>6 DEF Settled, Present, Chain
<1>7. ASSUME NEW k \in Jobs, Writing(job'[k], a)
      PROVE  Busy(k, job'[k], a, book'[a], Claims(a)', landed')
    <2>1. PICK r : r = job[k]
        OBVIOUS
    <2>2. job'[k] = r /\ Writing(r, a) /\ r \in JobRecord
        BY <1>7, <2>1, Idle
    <2>3. PICK B, C, l : B = book[a] /\ C = Claims(a) /\ l = landed
        OBVIOUS
    <2>4. PICK D, m : D = Claims(a)' /\ m = landed'
        OBVIOUS
    <2>5. Busy(k, r, a, B, C, l)
        BY <1>2, <2>1, <2>2, <2>3 DEF Fine
    <2>6. D \subseteq C /\ l \in Nat /\ m \in Nat /\ l <= m
        BY <1>4, <1>5, <2>3, <2>4
    <2>7. r.of \in Nat /\ r.todo \subseteq Trades
        BY <2>2 DEF JobRecord
    <2>8. Busy(k, r, a, B, D, m)
        BY <2>5, <2>6, <2>7, BusyStays
    <2>9. QED
        BY <2>2, <2>3, <2>4, <2>8
<1>8. QED
    BY <1>3, <1>6, <1>7

----------------------------------------------------------------------------
(* The steps of a job and BInv.                                             *)

Touching == Walking \union {"prior", "move", "credit", "undo"}

(* Job record r is about to look at the passbook of a.                      *)
Enters(r, a) ==
    \/ r.pc = "delete" /\ r.type \in {"append", "rebuild"}
    \/ r.pc = "prior" /\ r.type = "div" /\ r.undo = {} /\ r.of \in Dividends /\ ~Has(r.of, a)

(* Job k, which was writing the passbook of a, is p now.                    *)
Advances(k, p, a) ==
    /\ Content(a)'
    /\ Writing(p, a) => Busy(k, p, a, book'[a], Claims(a)', landed')
    /\ ~Writing(p, a) => Settled(a)'

Same(a) == book'[a] = book[a] /\ \A d \in Dividends : <<d, a>> \in credited' <=> <<d, a>> \in credited

Good(k, p) ==
    /\ p \in JobRecord /\ p.pc # "absent"
    /\ job' = [job EXCEPT ![k] = p]
    /\ job[k].pc # "absent" => p.type = job[k].type /\ p.of = job[k].of
    /\ job[k].pc = "absent" /\ p.type = "append" => landed < p.of
    /\ begun' = begun /\ landed <= landed' /\ landed' <= begun
    /\ JobShape(p)'
    /\ \A a \in Accounts : Past(p, a) => Past(job[k], a) \/ Writing(job[k], a)
    /\ \A a \in Accounts : ~Writing(job[k], a) =>
          /\ Same(a) /\ mishap[a] \subseteq mishap'[a]
          /\ Writing(p, a) => Enters(p, a)
    /\ \A a \in Accounts : Writing(job[k], a) /\ mishap'[a] = {} => Advances(k, p, a)

LEMMA FineIf ==
    ASSUME NEW a \in Accounts,
           mishap'[a] = {} =>
              /\ Content(a)'
              /\ Quiet(a)' => Settled(a)'
              /\ \A k \in Jobs : Writing(job'[k], a) => Busy(k, job'[k], a, book'[a], Claims(a)', landed')
    PROVE  Fine(a)'
<1>1. \A k \in Jobs : Writing(job[k], a)' <=> Writing(job'[k], a)
    BY DEF Writing
<1>2. \A k \in Jobs : Busy(k, job'[k], a, book'[a], Claims(a)', landed')
                         => Busy(k, job[k], a, book[a], Claims(a), landed)'
    BY DEF Busy, BusyDiv, BusyAppend, BusyRebuild, Sofar
<1>3. QED
    BY <1>1, <1>2 DEF Fine

LEMMA GoodStable ==
    ASSUME Static, NEW k \in Jobs, NEW p, Good(k, p)
    PROVE  /\ Stable /\ job'[k] = p /\ \A j \in Jobs \ {k} : job'[j] = job[j]
           /\ \A a \in Accounts, i \in Nat :
                 Claimed(i, a)' => Claimed(i, a) \/ (i = p.of /\ Past(p, a) /\ Writing(job[k], a))
<1>1. job'[k] = p /\ \A j \in Jobs \ {k} : job'[j] = job[j]
    BY Idle DEF Good, Typed
<1>2. Stable
    BY <1>1 DEF Stable, Good
<1>3. ASSUME NEW a \in Accounts, NEW i \in Nat, Claimed(i, a)', i # 0
      PROVE  Claimed(i, a) \/ (i = p.of /\ Past(p, a) /\ Writing(job[k], a))
    <2>1. \A j \in Jobs : Past(job[j], a)' <=> Past(job'[j], a)
        BY DEF Past
    <2>2. PICK j \in Jobs : job'[j].of = i /\ Past(job'[j], a)
        BY <1>3, <2>1 DEF Claimed
    <2>3. CASE j # k
        BY <1>1, <2>2, <2>3 DEF Claimed
    <2>4. CASE j = k
        <3>1. p.of = i /\ Past(p, a)
            BY <1>1, <2>2, <2>4
        <3>2. Past(job[k], a) => job[k].pc # "absent"
            BY DEF Past, Walking
        <3>3. Past(job[k], a) => Claimed(i, a)
            BY <3>1, <3>2 DEF Good, Claimed
        <3>4. QED
            BY <3>1, <3>3 DEF Good
    <2>5. QED
        BY <2>3, <2>4
<1>4. \A a \in Accounts : Claimed(0, a)
    BY DEF Claimed
<1>5. QED
    BY <1>1, <1>2, <1>3, <1>4

(* A job that comes to a passbook finds it settled, unless it is not alone. *)
LEMMA EntersFine ==
    ASSUME Static, Static', Shape, NEW k \in Jobs, NEW p, Good(k, p), NEW a \in Accounts, Fine(a),
           ~Writing(job[k], a), Writing(p, a)
    PROVE  Fine(a)'
<1>1. SUFFICES ASSUME mishap'[a] = {}
               PROVE  /\ Content(a)'
                      /\ Quiet(a)' => Settled(a)'
                      /\ \A j \in Jobs : Writing(job'[j], a) => Busy(j, job'[j], a, book'[a], Claims(a)', landed')
    BY FineIf
<1>2. Stable /\ job'[k] = p /\ \A j \in Jobs \ {k} : job'[j] = job[j]
    BY GoodStable
<1>3. Same(a) /\ Enters(p, a) /\ mishap[a] = {}
    BY <1>1 DEF Good
<1>4. \A i \in Nat : Claimed(i, a)' => Claimed(i, a)
    BY GoodStable
<1>5. \A j \in Jobs : Writing(job'[j], a) => j = k
    <2>1. "together" \notin mishap'[a]
        BY <1>1
    <2>2. Apart'
        BY DEF Static
    <2>3. \A i, j \in Jobs : Writing(job'[i], a) /\ Writing(job'[j], a) => i = j
        BY <2>1, <2>2 DEF Apart, Writing
    <2>4. QED
        BY <1>2, <2>3
<1>6. Quiet(a)
    BY <1>2, <1>5 DEF Quiet
<1>7. Content(a)'
    <2>1. begun <= begun' /\ book'[a] = book[a] /\ \A d \in Dividends : <<d, a>> \in credited' <=> <<d, a>> \in credited
        BY <1>3, Idle DEF Good, Loose, Same
    <2>2. QED
        BY <1>1, <1>2, <1>3, <1>4, <2>1, ContentStays DEF Fine
<1>8. PICK B, C : B = book'[a] /\ C = Claims(a)'
    OBVIOUS
<1>9. B \in SUBSET Rows /\ Chain(B) /\ Present(B, C, a) /\ Keyed(B)
    <2>1. C \subseteq Claims(a)
        BY <1>4, <1>8 DEF Claims
    <2>2. PICK D : D = Claims(a)
        OBVIOUS
    <2>3. Chain(book[a]) /\ Present(book[a], D, a) /\ Keyed(book[a]) /\ B = book[a]
        BY <1>3, <1>6, <1>8, <2>2 DEF Fine, Settled, Same, Content
    <2>4. QED
        BY <2>1, <2>2, <2>3, PresentFewer, Idle DEF Loose
<1>10. Busy(k, p, a, B, C, landed')
    <2>1. CASE p.pc = "delete" /\ p.type \in {"append", "rebuild"}
        BY <1>9, <2>1 DEF Busy, BusyAppend, BusyRebuild
    <2>2. CASE p.pc = "prior" /\ p.type = "div" /\ p.undo = {} /\ p.of \in Dividends /\ ~Has(p.of, a)
        <3>1. PICK n : n = Amount[p.of][a]
            OBVIOUS
        <3>2. B = Shifted(B, p.undo, n)
            BY <2>2, ShiftedNone
        <3>3. Shifting(p, n, B, B)
            BY <1>9, <2>2, <3>2 DEF Shifting
        <3>4. ~(\E w \in B : IsDiv(w, p.of))
            BY <1>3, <1>8, <2>2 DEF Has, Same
        <3>5. BusyDiv(p, a, B, C)
            BY <1>9, <3>1, <3>3, <3>4 DEF BusyDiv
        <3>6. QED
            BY <2>2, <3>5 DEF Busy
    <2>3. QED
        BY <1>3, <2>1, <2>2 DEF Enters
<1>11. ~Quiet(a)'
    <2>1. Writing(job'[k], a)
        BY <1>2
    <2>2. QED
        BY <2>1 DEF Quiet, Writing
<1>12. QED
    BY <1>2, <1>5, <1>7, <1>8, <1>10, <1>11

LEMMA AtFine ==
    ASSUME Static, Static', NEW k \in Jobs, NEW p, Good(k, p), NEW a \in Accounts, Writing(job[k], a),
           "together" \notin mishap[a] \/ Writing(p, a)
    PROVE  Fine(a)'
<1>1. SUFFICES ASSUME mishap'[a] = {}
               PROVE  /\ Content(a)'
                      /\ Quiet(a)' => Settled(a)'
                      /\ \A j \in Jobs : Writing(job'[j], a) => Busy(j, job'[j], a, book'[a], Claims(a)', landed')
    BY FineIf
<1>2. job'[k] = p /\ \A j \in Jobs \ {k} : job'[j] = job[j]
    BY GoodStable
<1>3. Advances(k, p, a)
    BY <1>1 DEF Good
<1>4. \A i, j \in Jobs : Writing(job'[i], a) /\ Writing(job'[j], a) => i = j
    <2>1. "together" \notin mishap'[a]
        BY <1>1
    <2>2. Apart'
        BY DEF Static
    <2>3. QED
        BY <2>1, <2>2 DEF Apart, Writing
<1>5. CASE Writing(p, a)
    <2>1. \A j \in Jobs : Writing(job'[j], a) => j = k
        BY <1>2, <1>4, <1>5
    <2>2. ~Quiet(a)'
        <3>1. Writing(job'[k], a)
            BY <1>2, <1>5
        <3>2. QED
            BY <3>1 DEF Quiet, Writing
    <2>3. QED
        BY <1>2, <1>3, <1>5, <2>1, <2>2 DEF Advances
<1>6. CASE ~Writing(p, a)
    <2>1. \A j \in Jobs : Writing(job[j], a) => j = k
        BY <1>6 DEF Static, Apart
    <2>2. \A j \in Jobs : ~Writing(job'[j], a)
        BY <1>2, <1>6, <2>1
    <2>3. QED
        BY <1>3, <1>6, <2>2 DEF Advances
<1>7. QED
    BY <1>5, <1>6

(* What the cases of a step come to.                                        *)
LEMMA GoodStep ==
    ASSUME Static, Static', BInv, NEW k \in Jobs, NEW p, Good(k, p),
           \A a \in Accounts : Writing(job[k], a) => mishap[a] \subseteq mishap'[a] \/ Writing(p, a)
    PROVE  BInv'
<1>1. Stable /\ job'[k] = p /\ \A j \in Jobs \ {k} : job'[j] = job[j]
    BY GoodStable
<1>2. Shape /\ begun \in Nat /\ landed \in Nat /\ landed' \in Nat /\ \A j \in Jobs : job[j].of \in Nat
    <2>1. \A j \in Jobs : job[j].of \in Nat
        BY Idle DEF JobRecord
    <2>2. QED
        BY <2>1 DEF BInv, Static, Typed, Loose
<1>3. landed <= landed' /\ landed' <= begun' /\ JobShape(p)'
    BY DEF Good
<1>4. ASSUME NEW j \in Jobs
      PROVE  JobShape(job[j])'
    <2>1. PICK r : r = job'[j]
        OBVIOUS
    <2>2. JobShape(r)'
        <3>1. CASE j = k
            BY <1>1, <1>3, <2>1, <3>1
        <3>2. CASE j # k
            <4>1. r = job[j] /\ JobShape(r) /\ r.of \in Nat
                BY <1>1, <1>2, <2>1, <3>2 DEF Shape
            <4>2. r.of <= landed => r.of <= landed'
                BY <1>2, <1>3, <4>1
            <4>3. QED
                BY <4>1, <4>2 DEF JobShape
        <3>3. QED
            BY <3>1, <3>2
    <2>3. QED
        BY <2>1, <2>2 DEF JobShape
<1>5. ASSUME NEW i \in Jobs, NEW j \in Jobs, job'[i].type = "append", job'[j].type = "append", job'[i].of = job'[j].of
      PROVE  i = j
    <2>1. \A l \in Jobs \ {k} : job'[l].type = "append" => job'[l].of <= landed /\ job'[l].of \in Nat
        BY <1>1, <1>2 DEF Shape, JobShape
    <2>2. CASE i # k /\ j # k
        BY <1>1, <1>2, <1>5, <2>2 DEF Shape
    <2>3. CASE job[k].pc # "absent"
        <3>1. job'[k].type = job[k].type /\ job'[k].of = job[k].of
            BY <1>1, <2>3 DEF Good
        <3>2. job[i].type = "append" /\ job[j].type = "append" /\ job[i].of = job[j].of
            BY <1>1, <1>5, <3>1
        <3>3. QED
            BY <1>2, <3>2 DEF Shape
    <2>4. CASE job[k].pc = "absent" /\ (i = k \/ j = k)
        <3>1. landed < p.of /\ p.of = job'[i].of /\ p.of = job'[j].of /\ p.of \in Nat
            BY <1>1, <1>5, <2>4 DEF Good, JobRecord
        <3>2. i = k /\ j = k
            BY <1>2, <1>5, <2>1, <2>4, <3>1
        <3>3. QED
            BY <3>2
    <2>5. QED
        BY <2>2, <2>3, <2>4
<1>6. Shape'
    BY <1>3, <1>4, <1>5 DEF Shape
<1>7. ASSUME NEW a \in Accounts
      PROVE  Fine(a)'
    <2>1. Fine(a)
        BY DEF BInv
    <2>2. CASE ~Writing(job[k], a) /\ Writing(p, a)
        BY <1>2, <2>1, <2>2, EntersFine
    <2>3. CASE ~Writing(job[k], a) /\ ~Writing(p, a)
        <3>1. \A i \in Nat : Claimed(i, a)' => Claimed(i, a)
            BY <2>3, GoodStable
        <3>2. Same(a) /\ mishap[a] \subseteq mishap'[a]
            BY <2>3 DEF Good
        <3>3. \A j \in Jobs : job'[j] = job[j] \/ (~Writing(job[j], a) /\ ~Writing(job'[j], a))
            BY <1>1, <2>3
        <3>4. begun <= begun'
            BY <1>2 DEF Good
        <3>5. QED
            BY <1>1, <1>3, <2>1, <3>1, <3>2, <3>3, <3>4, ElsewhereFine DEF Same
    <2>4. CASE Writing(job[k], a)
        <3>1. CASE "together" \notin mishap[a] \/ Writing(p, a)
            BY <2>4, <3>1, AtFine
        <3>2. CASE ~("together" \notin mishap[a] \/ Writing(p, a))
            <4>1. mishap'[a] # {}
                BY <2>4, <3>2
            <4>2. QED
                BY <4>1, FineIf
        <3>3. QED
            BY <3>1, <3>2
    <2>5. QED
        BY <2>2, <2>3, <2>4
<1>8. QED
    BY <1>6, <1>7 DEF BInv

----------------------------------------------------------------------------
(* Steps of a job that is writing no passbook.                              *)

LEMMA WritingIs ==
    ASSUME Static, NEW k \in Jobs, NEW a
    PROVE  Writing(job[k], a) <=> job[k].pc \in Touching /\ a = Here(k)
<1>1. Placed(job[k])
    BY Idle
<1>2. QED
    BY <1>1 DEF Writing, Here, Touching, Walking, Placed, Paying, Early

(* At work on something else, or not at work.                               *)
LEMMA ApartGood ==
    ASSUME Static, Static', BInv, NEW k \in Jobs, NEW p \in JobRecord, NEW u, Becomes(k, p, u),
           \A a \in Accounts : mishap[a] \subseteq u[a],
           job[k].pc \notin Touching, p.pc # "absent",
           job[k].pc # "absent" => p.type = job[k].type /\ p.of = job[k].of,
           job[k].pc = "absent" /\ p.type = "append" => landed < p.of,
           UNCHANGED <<begun, book, credited>>, landed <= landed', landed' <= begun,
           JobShape(p)', \A a \in Accounts : Past(p, a) => Past(job[k], a),
           \A a \in Accounts : Writing(p, a) => Enters(p, a)
    PROVE  BInv'
<1>1. \A a \in Accounts : ~Writing(job[k], a)
    BY WritingIs
<1>2. \A a \in Accounts : Same(a) /\ mishap[a] \subseteq mishap'[a]
    BY DEF Becomes, Same
<1>3. Good(k, p)
    BY <1>1, <1>2 DEF Good, Becomes
<1>4. QED
    BY <1>1, <1>3, GoodStep

(* The same where only the place of the job changes.                        *)
LEMMA TurnsGood ==
    ASSUME Static, Static', BInv, NEW k \in Jobs, NEW q \in {"master", "apply", "record", "dup", "prior", "done", "failed"},
           job[k].pc \notin Touching \union {"absent", "failed"}, Go(k, Turned(job[k], q)),
           q = "done" => job[k].pc = "end" \/ job[k].type = "div",
           job[k].type = "append" /\ q = "done" => job[k].errs = 0,
           q = "prior" => job[k].type = "div" /\ job[k].pc = "dup" /\ ~Has(job[k].of, Here(k)),
           UNCHANGED <<begun, landed, book, credited>>
    PROVE  BInv'
<1>1. PICK p : p = Turned(job[k], q)
    OBVIOUS
<1>2. job[k] \in JobRecord /\ Placed(job[k]) /\ Typed /\ Shape /\ landed <= begun /\ landed \in Nat /\ begun \in Nat
    BY Idle DEF BInv, Shape, Loose
<1>3. /\ p \in JobRecord /\ p.pc = q
      /\ p.type = job[k].type /\ p.of = job[k].of /\ p.filter = job[k].filter /\ p.tries = job[k].tries
      /\ p.errs = job[k].errs /\ p.accts = job[k].accts /\ p.seq = job[k].seq /\ p.bal = job[k].bal
      /\ p.moves = job[k].moves /\ p.undo = job[k].undo /\ p.todo = job[k].todo /\ p.chunk = job[k].chunk
    BY <1>1, <1>2, TurnedIs DEF Pcs, Paying, Early
<1>4. PICK u : u = mishap
    OBVIOUS
<1>5. Becomes(k, p, u)
    BY <1>1, <1>2, <1>4, GoMakes
<1>6. JobShape(job[k]) /\ job[k].undo = {}
    BY <1>2 DEF Shape, JobShape, Touching
<1>7. JobShape(p)
    BY <1>3, <1>6 DEF JobShape
<1>8. JobShape(p)'
    BY <1>7 DEF JobShape
<1>9. \A a \in Accounts : Past(p, a) => Past(job[k], a)
    BY <1>3, <1>2 DEF Past, Walking, Placed
<1>10. ASSUME NEW a \in Accounts, Writing(p, a)
       PROVE  Enters(p, a)
    <2>1. p.pc = "prior" /\ a = Here(k)
        BY <1>3, <1>10 DEF Writing, Here
    <2>2. job[k].of \in Dividends
        BY <1>2, <1>3, <2>1 DEF Placed
    <2>3. QED
        BY <1>3, <1>6, <2>1, <2>2 DEF Enters
<1>11. p.pc # "absent" /\ landed <= landed' /\ landed' <= begun
    BY <1>2, <1>3
<1>12. \A a \in Accounts : mishap[a] \subseteq u[a]
    BY <1>4
<1>13. QED
    BY <1>3, <1>5, <1>8, <1>9, <1>10, <1>11, <1>12, ApartGood

(* And where the job goes to the next account, or was nowhere.              *)
LEMMA NextShape ==
    ASSUME Static, Shape, NEW r \in JobRecord, Placed(r), JobShape(r), r.accts # {}, NEW p, p = NextAccount(r)
    PROVE  /\ JobShape(p)
           /\ \A a \in Accounts : Writing(p, a) => Enters(p, a) /\ a # Lowest(r.accts)
           /\ \A a \in Accounts : Past(p, a) => Past(r, a) \/ (a = Lowest(r.accts) /\ r.pc \in Walking)
<1>1. /\ p \in JobRecord
      /\ p.type = r.type /\ p.of = r.of /\ p.filter = r.filter /\ p.errs = r.errs
      /\ p.accts = r.accts \ {Lowest(r.accts)}
      /\ p.pc = (IF p.accts = {} THEN "end" ELSE IF r.type = "div" THEN "record" ELSE "delete")
      /\ p.undo = {}
    BY NextAccountIs
<1>2. JobShape(p)
    BY <1>1 DEF JobShape
<1>3. \A a \in Accounts : Writing(p, a) => Enters(p, a) /\ a # Lowest(r.accts)
    <2>1. SUFFICES ASSUME NEW a \in Accounts, Writing(p, a)
                   PROVE  Enters(p, a) /\ a # Lowest(r.accts)
        OBVIOUS
    <2>2. p.pc = "delete" /\ r.type # "div" /\ p.accts # {} /\ a = Lowest(p.accts)
        BY <1>1, <2>1 DEF Writing
    <2>3. a \in p.accts
        BY <1>1, <2>2, LowestOf DEF JobRecord
    <2>4. QED
        BY <1>1, <2>2, <2>3 DEF Enters, JobRecord
<1>4. \A a \in Accounts : Past(p, a) => Past(r, a) \/ (a = Lowest(r.accts) /\ r.pc \in Walking)
    <2>1. r.type = "append" => r.pc \in Walking
        BY DEF Placed
    <2>2. QED
        BY <1>1, <2>1 DEF Past
<1>5. QED
    BY <1>2, <1>3, <1>4

LEMMA RecordGood ==
    ASSUME Static, Static', BInv, NEW k \in Jobs, job[k].pc \in {"record", "dup"}, Go(k, NextAccount(job[k])),
           UNCHANGED <<begun, landed, book, credited>>
    PROVE  BInv'
<1>1. /\ job[k] \in JobRecord /\ Placed(job[k]) /\ Typed /\ Shape
      /\ landed <= begun /\ landed \in Nat /\ begun \in Nat
    BY Idle DEF BInv, Shape, Loose
<1>2. job[k].type = "div" /\ job[k].accts # {} /\ JobShape(job[k])
    BY <1>1 DEF Placed, Paying, Early, Shape
<1>3. PICK p : p = NextAccount(job[k])
    OBVIOUS
<1>4. /\ p \in JobRecord /\ p.type = job[k].type /\ p.of = job[k].of /\ p.pc # "absent"
    BY <1>1, <1>3, NextAccountIs
<1>5. /\ JobShape(p) /\ \A a \in Accounts : Writing(p, a) => Enters(p, a)
      /\ \A a \in Accounts : ~Past(p, a)
    <2>1. /\ JobShape(p) /\ \A a \in Accounts : Writing(p, a) => Enters(p, a)
        BY <1>1, <1>2, <1>3, NextShape
    <2>2. QED
        BY <1>2, <1>4, <2>1 DEF Past
<1>6. JobShape(p)'
    BY <1>5 DEF JobShape
<1>7. PICK u : u = mishap
    OBVIOUS
<1>8. Becomes(k, p, u)
    BY <1>1, <1>3, <1>7, GoMakes
<1>9. job[k].pc \notin Touching /\ landed <= landed' /\ landed' <= begun /\ \A a \in Accounts : mishap[a] \subseteq u[a]
    BY <1>1, <1>7 DEF Touching, Walking
<1>10. QED
    BY <1>1, <1>4, <1>5, <1>6, <1>8, <1>9, ApartGood

LEMMA MasterStepsGood ==
    ASSUME Static, Static', BInv, NEW k \in Jobs,
           DivStart(k) \/ DivMaster(k) \/ ReadAccounts(k) \/ DivFinish(k) \/ DivFails(k)
    PROVE  BInv'
<1>1. job[k].type = "div" /\ job[k].pc \in {"queued", "master", "apply", "read", "end"}
    <2>1. CASE ReadAccounts(k)
        BY <2>1, Payer DEF ReadAccounts, Paying, Early
    <2>2. CASE ~ReadAccounts(k)
        BY <2>2 DEF DivStart, DivMaster, DivFinish, DivFails, Div, MayStart
    <2>3. QED
        BY <2>1, <2>2
<1>2. UNCHANGED <<begun, landed, book, credited>>
    BY DEF DivStart, DivMaster, ReadAccounts, DivFinish, DivFails
<1>3. PICK q \in {"master", "apply", "record", "done", "failed"} : Go(k, Turned(job[k], q))
    BY DEF DivStart, DivMaster, ReadAccounts, DivFinish, DivFails, Turned
<1>4. q \in {"master", "apply", "record", "dup", "prior", "done", "failed"} /\ job[k].pc \notin Touching \union {"absent", "failed"}
      /\ q # "prior"
    BY <1>1 DEF Touching, Walking
<1>5. QED
    BY <1>1, <1>2, <1>3, <1>4, TurnsGood

LEMMA RecordStepsGood ==
    ASSUME Static, Static', BInv, NEW k \in Jobs, InsertRecord(k) \/ RecordFails(k) \/ CheckCash(k)
    PROVE  BInv'
<1>1. job[k].pc \in {"record", "dup"} /\ UNCHANGED <<begun, landed, book, credited>>
    BY DEF InsertRecord, RecordFails, CheckCash
<1>2. job[k].type = "div" /\ job[k].pc \notin Touching \union {"absent", "failed"}
    BY <1>1, Idle DEF Placed, Paying, Early, Touching, Walking
<1>3. CASE Go(k, NextAccount(job[k]))
    BY <1>1, <1>3, RecordGood
<1>4. CASE InsertRecord(k)
    <2>1. Go(k, Turned(job[k], "dup"))
        BY <1>4 DEF InsertRecord, Turned
    <2>2. QED
        BY <1>1, <1>2, <2>1, TurnsGood
<1>5. CASE CheckCash(k) /\ ~Go(k, NextAccount(job[k]))
    <2>1. job[k].pc = "dup" /\ ~(\E w \in book[Here(k)] : w.kind = "div" /\ w.of = job[k].of)
          /\ Go(k, Turned(job[k], "prior"))
        BY <1>5 DEF CheckCash, Turned
    <2>2. ~Has(job[k].of, Here(k))
        BY <2>1 DEF Has, IsDiv
    <2>3. QED
        BY <1>1, <1>2, <2>1, <2>2, TurnsGood
<1>6. QED
    BY <1>3, <1>4, <1>5 DEF RecordFails

LEMMA InsertMasterGood ==
    ASSUME Static, Static', BInv, NEW k \in Jobs, InsertMaster(k)
    PROVE  BInv'
<1>1. /\ job[k] \in JobRecord /\ Placed(job[k]) /\ Typed /\ Shape
      /\ landed <= begun /\ landed \in Nat /\ begun \in Nat
    BY Idle DEF BInv, Shape, Loose
<1>2. job[k].type = "div" /\ job[k].pc = "apply" /\ JobShape(job[k])
    BY <1>1 DEF InsertMaster, Div, Shape
<1>3. PICK A : A = Paid(k)
    OBVIOUS
<1>4. A \in SUBSET Accounts
    BY <1>1, <1>3 DEF Paid, JobRecord
<1>5. PICK q : q = IF A = {} THEN "end" ELSE "read"
    OBVIOUS
<1>6. PICK p : p = [job[k] EXCEPT !.accts = A, !.pc = q]
    OBVIOUS
<1>7. /\ p \in JobRecord /\ p.pc = q /\ p.type = job[k].type /\ p.of = job[k].of
      /\ p.undo = job[k].undo
    <2>1. q \in Pcs
        BY <1>5 DEF Pcs, Paying, Early
    <2>2. QED
        BY <1>1, <1>4, <1>6, <2>1 DEF JobRecord
<1>8. Go(k, p) /\ UNCHANGED <<begun, landed, book, credited>>
    BY <1>3, <1>5, <1>6 DEF InsertMaster, MasterRow
<1>9. PICK u : u = mishap
    OBVIOUS
<1>10. Becomes(k, p, u)
    BY <1>1, <1>8, <1>9, GoMakes
<1>11. JobShape(p)
    BY <1>2, <1>5, <1>7 DEF JobShape
<1>12. JobShape(p)'
    BY <1>8, <1>11 DEF JobShape
<1>13. /\ \A a \in Accounts : ~Past(p, a) /\ ~Writing(p, a)
       /\ job[k].pc \notin Touching /\ landed <= landed' /\ landed' <= begun /\ \A a \in Accounts : mishap[a] \subseteq u[a]
       /\ p.pc # "absent"
    BY <1>1, <1>2, <1>5, <1>7, <1>8, <1>9 DEF Touching, Walking, Past, Writing
<1>14. QED
    BY <1>2, <1>7, <1>8, <1>10, <1>12, <1>13, ApartGood

LEMMA MasterFailsGood ==
    ASSUME Static, Static', BInv, NEW k \in Jobs, MasterFails(k)
    PROVE  BInv'
<1>1. /\ job[k] \in JobRecord /\ Placed(job[k]) /\ Typed /\ Shape
      /\ landed <= begun /\ landed \in Nat /\ begun \in Nat
    BY Idle DEF BInv, Shape, Loose
<1>2. job[k].type = "div" /\ job[k].pc \in {"apply", "read"} /\ JobShape(job[k])
    BY <1>1 DEF MasterFails, Div, Shape
<1>3. PICK p : p = [job[k] EXCEPT !.pc = "failed", !.accts = {}]
    OBVIOUS
<1>4. /\ p \in JobRecord /\ p.pc = "failed" /\ p.type = job[k].type /\ p.of = job[k].of
      /\ p.undo = job[k].undo /\ p.accts = {}
    BY <1>1, <1>3 DEF JobRecord, Pcs
<1>5. Go(k, p) /\ UNCHANGED <<begun, landed, book, credited>>
    BY <1>3 DEF MasterFails
<1>6. PICK u : u = mishap
    OBVIOUS
<1>7. Becomes(k, p, u)
    BY <1>1, <1>5, <1>6, GoMakes
<1>8. JobShape(p)
    BY <1>2, <1>4 DEF JobShape
<1>9. JobShape(p)'
    BY <1>5, <1>8 DEF JobShape
<1>10. /\ \A a \in Accounts : ~Past(p, a) /\ ~Writing(p, a)
       /\ job[k].pc \notin Touching /\ landed <= landed' /\ landed' <= begun /\ \A a \in Accounts : mishap[a] \subseteq u[a]
       /\ p.pc # "absent"
    BY <1>1, <1>2, <1>4, <1>5, <1>6 DEF Touching, Walking, Past, Writing
<1>11. QED
    BY <1>2, <1>4, <1>5, <1>7, <1>9, <1>10, ApartGood

(* A job that is submitted.                                                 *)
LEMMA NewShape ==
    ASSUME NEW type \in {"div", "rebuild", "append"}, NEW of \in Nat, NEW filter \in SUBSET Accounts, NEW n \in Nat, NEW p,
           p = NewJob(type, of, filter) \/ p = [NewJob(type, of, filter) EXCEPT !.tries = n]
    PROVE  /\ p \in JobRecord /\ p.type = type /\ p.of = of /\ p.filter = filter /\ p.pc = "queued"
           /\ p.undo = {} /\ p.accts = {}
<1>1. PICK r : r = NewJob(type, of, filter)
    OBVIOUS
<1>2. /\ r \in JobRecord /\ r.type = type /\ r.of = of /\ r.filter = filter /\ r.pc = "queued"
      /\ r.undo = {} /\ r.accts = {}
    BY <1>1 DEF NewJob, JobRecord, Pcs
<1>3. CASE p = r
    BY <1>2, <1>3
<1>4. CASE p = [r EXCEPT !.tries = n]
    BY <1>2, <1>4 DEF JobRecord
<1>5. QED
    BY <1>1, <1>3, <1>4

(* n is what has landed by then.                                            *)
LEMMA NewGood ==
    ASSUME Static, Static', BInv, NEW k \in Jobs, NEW p \in JobRecord, p.pc = "queued", p.undo = {}, p.accts = {},
           NEW u, Becomes(k, p, u), \A a \in Accounts : mishap[a] \subseteq u[a], job[k].pc \notin Touching,
           job[k].pc # "absent" => p.type = job[k].type /\ p.of = job[k].of,
           job[k].pc = "absent" /\ p.type = "append" => landed < p.of,
           p.type = "append" =>
              0 < p.of /\ p.of <= landed' /\ \A t \in Trades : t.import = p.of => t.acct \in p.filter,
           UNCHANGED <<begun, book, credited>>, landed <= landed', landed' <= begun
    PROVE  BInv'
<1>1. JobShape(p)'
    BY DEF JobShape
<1>2. \A a \in Accounts : ~Past(p, a) /\ ~Writing(p, a)
    BY DEF Past, Writing, Walking
<1>3. QED
    BY <1>1, <1>2, ApartGood

LEMMA SubmitsGood ==
    ASSUME Static, Static', BInv, NEW k \in Jobs, job[k].pc = "absent", NEW filter \in SUBSET Accounts,
           NEW type \in {"div", "rebuild"}, NEW of \in Nat,
           Go(k, NewJob(type, of, filter)), UNCHANGED <<begun, landed, book, credited>>
    PROVE  BInv'
<1>1. Typed /\ Shape /\ landed <= begun /\ landed \in Nat /\ begun \in Nat
    BY Idle DEF BInv, Shape, Loose
<1>2. PICK p : p = NewJob(type, of, filter)
    OBVIOUS
<1>3. p \in JobRecord /\ p.type = type /\ p.of = of /\ p.filter = filter /\ p.pc = "queued" /\ p.undo = {} /\ p.accts = {}
    BY <1>2, NewShape
<1>4. PICK u : u = mishap
    OBVIOUS
<1>5. Becomes(k, p, u) /\ \A a \in Accounts : mishap[a] \subseteq u[a]
    BY <1>1, <1>2, <1>4, GoMakes
<1>6. job[k].pc \notin Touching /\ landed <= landed' /\ landed' <= begun
    BY <1>1 DEF Touching, Walking
<1>7. QED
    BY <1>3, <1>5, <1>6, NewGood

LEMMA ImportLandsGood ==
    ASSUME Static, Static', BInv, NEW k \in Jobs, ImportLands(k)
    PROVE  BInv'
<1>1. Typed /\ landed \in Nat /\ begun \in Nat
    BY Idle DEF Loose
<1>2. job[k].pc = "absent" /\ landed < begun /\ landed' = begun /\ UNCHANGED <<begun, book, credited>>
    BY DEF ImportLands, NextJob
<1>3. PICK A : A = {t.acct : t \in {u \in Trades : u.import = begun}}
    OBVIOUS
<1>4. A \in SUBSET Accounts /\ \A t \in Trades : t.import = begun => t.acct \in A
    BY <1>3, TradeFacts
<1>5. PICK p : p = NewJob("append", begun, A)
    OBVIOUS
<1>6. /\ p \in JobRecord /\ p.type = "append" /\ p.of = begun /\ p.filter = A /\ p.pc = "queued"
      /\ p.undo = {} /\ p.accts = {}
    BY <1>1, <1>4, <1>5, NewShape
<1>7. PICK u : u = mishap
    OBVIOUS
<1>8. Go(k, p)
    BY <1>3, <1>5 DEF ImportLands
<1>9. Becomes(k, p, u) /\ \A a \in Accounts : mishap[a] \subseteq u[a]
    BY <1>1, <1>7, <1>8, GoMakes
<1>10. job[k].pc \notin Touching /\ landed <= landed' /\ landed' <= begun /\ 0 < begun
    BY <1>1, <1>2 DEF Touching, Walking
<1>11. QED
    BY <1>2, <1>4, <1>6, <1>9, <1>10, NewGood

LEMMA WalkStartGood ==
    ASSUME Static, Static', BInv, NEW k \in Jobs, WalkStart(k)
    PROVE  BInv'
<1>1. /\ job[k] \in JobRecord /\ Placed(job[k]) /\ Typed /\ Shape
      /\ landed <= begun /\ landed \in Nat /\ begun \in Nat
    BY Idle DEF BInv, Shape, Loose
<1>2. job[k].type # "div" /\ job[k].pc = "queued" /\ JobShape(job[k]) /\ UNCHANGED <<begun, landed, book, credited>>
    BY <1>1 DEF WalkStart, Div, MayStart, Shape
<1>3. PICK q : q = IF job[k].filter = {} THEN "end" ELSE "delete"
    OBVIOUS
<1>4. PICK p : p = [job[k] EXCEPT !.accts = job[k].filter, !.pc = q]
    OBVIOUS
<1>5. /\ p \in JobRecord /\ p.type = job[k].type /\ p.accts = job[k].filter /\ p.filter = job[k].filter
      /\ p.pc = q /\ p.undo = job[k].undo /\ p.of = job[k].of
    BY <1>1, <1>3, <1>4 DEF JobRecord, Pcs, Walking
<1>6. PICK u : u = mishap
    OBVIOUS
<1>7. Go(k, p)
    BY <1>3, <1>4 DEF WalkStart
<1>8. Becomes(k, p, u) /\ \A a \in Accounts : mishap[a] \subseteq u[a]
    BY <1>1, <1>6, <1>7, GoMakes
<1>9. JobShape(p)
    BY <1>2, <1>3, <1>5 DEF JobShape
<1>10. JobShape(p)'
    BY <1>2, <1>9 DEF JobShape
<1>11. \A a \in Accounts : ~Past(p, a)
    BY <1>5 DEF Past
<1>12. \A a \in Accounts : Writing(p, a) => Enters(p, a)
    BY <1>1, <1>2, <1>3, <1>5 DEF Writing, Enters, JobRecord
<1>13. job[k].pc \notin Touching /\ landed <= landed' /\ landed' <= begun /\ p.pc # "absent"
    BY <1>1, <1>2, <1>3, <1>5 DEF Touching, Walking
<1>14. QED
    BY <1>2, <1>5, <1>8, <1>10, <1>11, <1>12, <1>13, ApartGood

(* The pool runs an append again.                                           *)
LEMMA AgainGood ==
    ASSUME Static, Static', BInv, NEW k \in Jobs, Again(k), job[k].pc \notin Touching \union {"absent"},
           NEW u \in [Accounts -> SUBSET Mishaps], \A a \in Accounts : mishap[a] \subseteq u[a],
           Become(k, [NewJob("append", job[k].of, job[k].filter) EXCEPT !.tries = job[k].tries + 1], u),
           UNCHANGED <<begun, landed, book, credited>>
    PROVE  BInv'
<1>1. /\ job[k] \in JobRecord /\ Placed(job[k]) /\ Typed /\ Shape
      /\ landed <= begun /\ landed \in Nat /\ begun \in Nat
    BY Idle DEF BInv, Shape, Loose
<1>2. job[k].type = "append" /\ JobShape(job[k]) /\ job[k].of \in Nat /\ job[k].filter \in SUBSET Accounts
      /\ job[k].tries + 1 \in Nat
    BY <1>1 DEF Again, Shape, JobRecord
<1>3. PICK p : p = [NewJob("append", job[k].of, job[k].filter) EXCEPT !.tries = job[k].tries + 1]
    OBVIOUS
<1>4. /\ p \in JobRecord /\ p.type = "append" /\ p.of = job[k].of /\ p.filter = job[k].filter /\ p.pc = "queued"
      /\ p.undo = {} /\ p.accts = {}
    BY <1>2, <1>3, NewShape
<1>5. Becomes(k, p, u)
    BY <1>3, BecomeMakes
<1>6. p.of <= landed' /\ 0 < p.of /\ \A t \in Trades : t.import = p.of => t.acct \in p.filter
    BY <1>2, <1>4 DEF JobShape
<1>7. landed <= landed' /\ landed' <= begun
    BY <1>1
<1>8. QED
    BY <1>2, <1>4, <1>5, <1>6, <1>7, NewGood

LEMMA WalkEndsGood ==
    ASSUME Static, Static', BInv, NEW k \in Jobs, WalkEnds(k)
    PROVE  BInv'
<1>1. job[k].pc = "end" /\ UNCHANGED <<begun, landed, book, credited>>
    BY DEF WalkEnds
<1>2. job[k].pc \notin Touching \union {"absent", "failed"}
    BY <1>1 DEF Touching, Walking
<1>3. CASE job[k].errs # 0 /\ Again(k)
    <2>1. PICK u : u = mishap
        OBVIOUS
    <2>2. Go(k, [NewJob("append", job[k].of, job[k].filter) EXCEPT !.tries = job[k].tries + 1])
        BY <1>3 DEF WalkEnds
    <2>3. Become(k, [NewJob("append", job[k].of, job[k].filter) EXCEPT !.tries = job[k].tries + 1], u)
        BY <2>1, <2>2 DEF Go
    <2>4. u \in [Accounts -> SUBSET Mishaps] /\ \A a \in Accounts : mishap[a] \subseteq u[a]
        BY <2>1, Idle DEF Typed
    <2>5. QED
        BY <1>1, <1>2, <1>3, <2>3, <2>4, AgainGood
<1>4. CASE ~(job[k].errs # 0 /\ Again(k))
    <2>1. PICK q \in {"done", "failed"} : Go(k, Turned(job[k], q)) /\ (q = "done" => job[k].errs = 0)
        BY <1>4 DEF WalkEnds, Turned
    <2>2. q \in {"master", "apply", "record", "dup", "prior", "done", "failed"} /\ q # "prior"
        OBVIOUS
    <2>3. QED
        BY <1>1, <1>2, <2>1, <2>2, TurnsGood
<1>5. QED
    BY <1>3, <1>4

----------------------------------------------------------------------------
(* Steps of a job on the passbook it is writing.                            *)

(* Job k, at account h, becomes p.                                          *)
At(k, p, h) ==
    /\ h = Here(k) /\ job[k].pc \in Touching
    /\ job' = [job EXCEPT ![k] = p]
    /\ p \in JobRecord /\ p.pc # "absent"
    /\ p.type = job[k].type /\ p.of = job[k].of
    /\ begun' = begun /\ landed' = landed

LEMMA AtStable ==
    ASSUME Static, NEW k \in Jobs, NEW p, NEW h, At(k, p, h)
    PROVE  /\ Stable /\ job'[k] = p /\ \A j \in Jobs \ {k} : job'[j] = job[j]
           /\ job[k] \in JobRecord /\ Placed(job[k]) /\ h \in Accounts /\ h \in job[k].accts
           /\ h = Lowest(job[k].accts)
           /\ Writing(job[k], h) /\ ~Past(job[k], h)
           /\ \A i \in Nat : Claimed(i, h)' => Claimed(i, h) \/ (i = p.of /\ Past(p, h))
           /\ landed \in Nat /\ begun \in Nat /\ book[h] \in SUBSET Rows
<1>1. job'[k] = p /\ \A j \in Jobs \ {k} : job'[j] = job[j]
    BY Idle DEF At, Typed
<1>2. Stable
    BY <1>1 DEF Stable, At
<1>3. job[k] \in JobRecord /\ Placed(job[k]) /\ landed \in Nat /\ begun \in Nat
    BY Idle DEF Loose
<1>4. h \in Accounts /\ h \in job[k].accts /\ h = Lowest(job[k].accts)
    <2>1. job[k].pc \in Paying \union Walking
        BY DEF At, Touching, Paying, Early
    <2>2. QED
        BY <2>1, HereIn DEF At, Here
<1>5. Writing(job[k], h) /\ ~Past(job[k], h)
    BY <1>4, WritingIs DEF At, Past
<1>6. ASSUME NEW i \in Nat, Claimed(i, h)', i # 0
      PROVE  Claimed(i, h) \/ (i = p.of /\ Past(p, h))
    <2>1. \A j \in Jobs : Past(job[j], h)' <=> Past(job'[j], h)
        BY DEF Past
    <2>2. PICK j \in Jobs : job'[j].of = i /\ Past(job'[j], h)
        BY <1>6, <2>1 DEF Claimed
    <2>3. QED
        BY <1>1, <2>2 DEF Claimed
<1>7. Claimed(0, h)
    BY DEF Claimed
<1>8. book[h] \in SUBSET Rows
    BY <1>4, Idle DEF Loose
<1>9. QED
    BY <1>1, <1>2, <1>3, <1>4, <1>5, <1>6, <1>7, <1>8

LEMMA AtFacts ==
    ASSUME Static, BInv, NEW k \in Jobs, NEW p, NEW h, At(k, p, h)
    PROVE  /\ JobShape(job[k]) /\ landed <= begun
           /\ mishap[h] = {} => Content(h) /\ Busy(k, job[k], h, book[h], Claims(h), landed)
<1>1. h \in Accounts /\ Writing(job[k], h)
    BY AtStable
<1>2. Fine(h)
    BY <1>1 DEF BInv
<1>3. QED
    BY <1>1, <1>2 DEF Fine, BInv, Shape

LEMMA WorkGood ==
    ASSUME Static, Static', BInv, NEW k \in Jobs, NEW p, NEW h, At(k, p, h),
           NEW u, Becomes(k, p, u), \A a \in Accounts \ {h} : mishap[a] \subseteq u[a] /\ Same(a),
           mishap[h] \subseteq u[h] \/ Writing(p, h),
           JobShape(p),
           \A a \in Accounts \ {h} : (Past(p, a) => Past(job[k], a)) /\ (Writing(p, a) => Enters(p, a)),
           mishap'[h] = {} => Advances(k, p, h)
    PROVE  BInv'
<1>1. h \in Accounts /\ Writing(job[k], h)
    BY AtStable
<1>2. \A a \in Accounts : Writing(job[k], a) <=> a = h
    BY <1>1, WritingIs DEF At
<1>3. JobShape(p)'
    BY DEF JobShape, At
<1>4. landed <= landed' /\ landed' <= begun
    <2>1. landed \in Nat /\ begun \in Nat /\ landed <= begun
        BY Idle DEF Loose, BInv, Shape
    <2>2. QED
        BY <2>1 DEF At
<1>5. \A a \in Accounts : u[a] \subseteq mishap'[a]
    BY DEF Becomes
<1>6. \A a \in Accounts : Past(p, a) => Past(job[k], a) \/ Writing(job[k], a)
    BY <1>2
<1>7. \A a \in Accounts : ~Writing(job[k], a) =>
          /\ Same(a) /\ mishap[a] \subseteq mishap'[a]
          /\ Writing(p, a) => Enters(p, a)
    BY <1>2, <1>5
<1>8. job[k].pc # "absent"
    BY DEF At, Touching, Walking
<1>9. Good(k, p)
    BY <1>2, <1>3, <1>4, <1>6, <1>7, <1>8 DEF Good, At
<1>10. \A a \in Accounts : Writing(job[k], a) => mishap[a] \subseteq mishap'[a] \/ Writing(p, a)
    BY <1>1, <1>2, <1>5
<1>11. QED
    BY <1>9, <1>10, GoodStep

(* Rows that resemble the rows from before the step.                        *)
LEMMA ContentLike ==
    ASSUME Static, Static', Stable, NEW a \in Accounts, Content(a), begun' = begun, Keyed(book'[a]),
           \A v \in book'[a] : \E w \in book[a] : v.kind = w.kind /\ v.of = w.of /\ v.by = w.by /\ v.epoch = w.epoch,
           \A w \in book[a] : w.kind = "div" => \E v \in book'[a] : v.kind = w.kind /\ v.of = w.of,
           \A d \in Dividends : <<d, a>> \in credited' <=> <<d, a>> \in credited,
           \A i \in Nat : Claimed(i, a)' => \/ Claimed(i, a)
                                            \/ \A w \in book[a] : w.epoch < i \/ (w.by \in Jobs /\ job[w.by].of = i)
    PROVE  Content(a)'
<1>1. begun \in Nat /\ begun' \in Nat /\ begun <= begun' /\ book[a] \in SUBSET Rows
    BY DEF Static, Typed, Loose
<1>2. ASSUME NEW w \in book[a]
      PROVE  Sourced(w, a)'
    <2>1. Sourced(w, a) /\ w \in Rows
        BY <1>1 DEF Content
    <2>2. \A i \in Nat : Claimed(i, a)' => \/ Claimed(i, a) \/ w.epoch < i
                                           \/ (w.by \in Jobs /\ job[w.by].of = i)
        OBVIOUS
    <2>3. QED
        BY <1>1, <2>1, <2>2, SourcedStays
<1>3. ASSUME NEW v \in book'[a]
      PROVE  Sourced(v, a)'
    <2>1. PICK w \in book[a] : v.kind = w.kind /\ v.of = w.of /\ v.by = w.by /\ v.epoch = w.epoch
        OBVIOUS
    <2>2. Sourced(w, a)'
        BY <1>2
    <2>3. QED
        BY <2>1, <2>2 DEF Sourced
<1>4. \A d \in Dividends : Has(d, a)' <=> Has(d, a)
    BY DEF Has, IsDiv
<1>5. \A d \in Dividends : <<d, a>> \in credited <=> Has(d, a)
    BY DEF Content
<1>6. \A d \in Dividends : <<d, a>> \in credited' <=> Has(d, a)'
    BY <1>4, <1>5
<1>7. Keyed(book[a])'
    BY DEF Keyed
<1>8. QED
    BY <1>3, <1>6, <1>7 DEF Content

(* Moved rows are the same rows.                                            *)
LEMMA ShiftedKeeps ==
    ASSUME NEW O \in SUBSET Rows, NEW U, NEW V, NEW n \in Int
    PROVE  /\ Keyed(O) => Keyed(Shifted(O, U, n))
           /\ Shifted(O, U, n) \in SUBSET Rows
           /\ \A v \in Shifted(O, U, n) : \E w \in Shifted(O, V, n) :
                 v.kind = w.kind /\ v.of = w.of /\ v.by = w.by /\ v.epoch = w.epoch
<1>1. Shifted(O, U, n) \in SUBSET Rows
    BY ShiftedRow
<1>2. ASSUME NEW v \in Shifted(O, U, n)
      PROVE  \E w \in Shifted(O, V, n) : v.kind = w.kind /\ v.of = w.of /\ v.by = w.by /\ v.epoch = w.epoch
    <2>1. PICK x \in O : v.kind = x.kind /\ v.of = x.of /\ v.by = x.by /\ v.epoch = x.epoch
        BY ShiftedRow
    <2>2. PICK w \in Shifted(O, V, n) : w.kind = x.kind /\ w.of = x.of /\ w.by = x.by /\ w.epoch = x.epoch
        BY ShiftedHas
    <2>3. QED
        BY <2>1, <2>2
<1>3. ASSUME Keyed(O), NEW v \in Shifted(O, U, n), NEW w \in Shifted(O, U, n), v.kind = w.kind, v.of = w.of
      PROVE  v = w
    <2>1. PICK x \in O : v = (IF x \in U THEN Up(x, n) ELSE x) /\ v.kind = x.kind /\ v.of = x.of
        BY ShiftedRow
    <2>2. PICK y \in O : w = (IF y \in U THEN Up(y, n) ELSE y) /\ w.kind = y.kind /\ w.of = y.of
        BY ShiftedRow
    <2>3. x = y
        BY <1>3, <2>1, <2>2 DEF Keyed
    <2>4. QED
        BY <2>1, <2>2, <2>3
<1>4. QED
    BY <1>1, <1>2, <1>3 DEF Keyed

LEMMA DivAdvances ==
    ASSUME Static, Static', NEW k \in Jobs, NEW p, NEW h, At(k, p, h), p.type = "div", Content(h),
           BusyDiv(job[k], h, book[h], Claims(h)),
           NEW n, n = Amount[p.of][h], NEW O \in SUBSET Rows, NEW U, NEW V,
           Chain(O), Keyed(O), book[h] = Shifted(O, U, n), book'[h] = Shifted(O, V, n),
           \A d \in Dividends : <<d, h>> \in credited' <=> <<d, h>> \in credited,
           Writing(p, h) => Shifting(p, n, O, book'[h]),
           ~Writing(p, h) => V = {}
    PROVE  Advances(k, p, h)
<1>1. Stable /\ h \in Accounts /\ job[k] \in JobRecord /\ Placed(job[k]) /\ job[k].pc \in Touching
      /\ begun' = begun /\ p.of = job[k].of /\ job[k].type = "div"
    BY AtStable DEF At
<1>2. \A i \in Nat : Claimed(i, h)' => Claimed(i, h)
    BY AtStable DEF Past
<1>3. n \in Int
    <2>1. p.of \in Dividends
        BY <1>1 DEF Placed, Touching, Walking
    <2>2. QED
        BY <1>1, <2>1, Amounts
<1>4. Keyed(book'[h])
    BY <1>3, ShiftedKeeps
<1>5. \A v \in book'[h] : \E w \in book[h] : v.kind = w.kind /\ v.of = w.of /\ v.by = w.by /\ v.epoch = w.epoch
    BY <1>3, ShiftedKeeps
<1>6. \A w \in book[h] : \E v \in book'[h] : w.kind = v.kind /\ w.of = v.of /\ w.by = v.by /\ w.epoch = v.epoch
    BY <1>3, ShiftedKeeps
<1>7. Content(h)'
    BY <1>1, <1>2, <1>4, <1>5, <1>6, ContentLike
<1>8. PICK C, D : C = Claims(h) /\ D = Claims(h)'
    OBVIOUS
<1>9. Present(book'[h], D, h) /\ ~(\E w \in book'[h] : IsDiv(w, p.of))
    <2>1. D \subseteq C
        BY <1>2, <1>8 DEF Claims
    <2>2. Present(book[h], C, h) /\ ~(\E w \in book[h] : IsDiv(w, p.of))
        BY <1>1, <1>8 DEF BusyDiv
    <2>3. \A t \in Trades : HasTrade(t, book[h]) => HasTrade(t, book'[h])
        BY <1>6 DEF HasTrade
    <2>4. Present(book'[h], D, h)
        BY <2>1, <2>2, <2>3 DEF Present
    <2>5. QED
        BY <1>5, <2>2, <2>4 DEF IsDiv
<1>10. ASSUME Writing(p, h)
       PROVE  Busy(k, p, h, book'[h], D, landed')
    <2>1. PICK l : l = landed'
        OBVIOUS
    <2>2. PICK B : B = book'[h]
        OBVIOUS
    <2>3. BusyDiv(p, h, B, D)
        BY <1>9, <1>10, <2>2 DEF BusyDiv
    <2>4. Busy(k, p, h, B, D, l)
        BY <2>3 DEF Busy
    <2>5. QED
        BY <2>1, <2>2, <2>4
<1>11. ASSUME ~Writing(p, h)
       PROVE  Settled(h)'
    <2>1. book'[h] = O
        BY <1>11, ShiftedNone
    <2>2. Chain(book'[h])
        BY <2>1
    <2>3. Chain(book[h])'
        BY <2>2 DEF Chain, Links
    <2>4. Present(book[h], Claims(h), h)'
        BY <1>8, <1>9 DEF Present, HasTrade
    <2>5. QED
        BY <2>3, <2>4 DEF Settled
<1>12. QED
    BY <1>7, <1>8, <1>10, <1>11 DEF Advances

----------------------------------------------------------------------------
(* The dividend job at a passbook.                                          *)

(* Whatever O may have been, the step from r to p moves rows of O.          *)
DivMoves(r, p, a, n, B, D) ==
    \A O \in SUBSET Rows : Shifting(r, n, O, B) =>
       \E V : /\ D = Shifted(O, V, n)
              /\ Writing(p, a) => Shifting(p, n, O, D)
              /\ ~Writing(p, a) => V = {}

LEMMA DivWorkGood ==
    ASSUME Static, Static', BInv, NEW k \in Jobs, NEW p, NEW h, At(k, p, h), p.type = "div",
           NEW u, Becomes(k, p, u), \A a \in Accounts : mishap[a] \subseteq u[a],
           \A a \in Accounts \ {h} : book'[a] = book[a], credited' = credited,
           JobShape(p), \A a \in Accounts : Writing(p, a) => a = h,
           NEW n, n = Amount[p.of][h],
           u[h] = {} => DivMoves(job[k], p, h, n, book[h], book'[h])
    PROVE  BInv'
<1>1. h \in Accounts /\ job[k].type = "div" /\ p.of = job[k].of
    BY AtStable DEF At
<1>2. ASSUME mishap'[h] = {}
      PROVE  Advances(k, p, h)
    <2>1. u[h] = {} /\ mishap[h] = {}
        BY <1>1, <1>2 DEF Becomes
    <2>2. PICK C, l : C = Claims(h) /\ l = landed
        OBVIOUS
    <2>3. Content(h) /\ Busy(k, job[k], h, book[h], C, l)
        BY <2>1, <2>2, AtFacts
    <2>4. BusyDiv(job[k], h, book[h], C)
        BY <1>1, <2>3 DEF Busy
    <2>5. PICK O \in SUBSET Rows : Shifting(job[k], n, O, book[h])
        BY <1>1, <2>4 DEF BusyDiv
    <2>6. Chain(O) /\ Keyed(O) /\ book[h] = Shifted(O, job[k].undo, n)
        BY <2>5 DEF Shifting
    <2>7. PICK V : /\ book'[h] = Shifted(O, V, n)
                   /\ Writing(p, h) => Shifting(p, n, O, book'[h])
                   /\ ~Writing(p, h) => V = {}
        BY <2>1, <2>5 DEF DivMoves
    <2>8. PICK U : U = job[k].undo
        OBVIOUS
    <2>9. book[h] = Shifted(O, U, n) /\ BusyDiv(job[k], h, book[h], Claims(h))
        BY <2>2, <2>4, <2>6, <2>8
    <2>10. \A d \in Dividends : <<d, h>> \in credited' <=> <<d, h>> \in credited
        OBVIOUS
    <2>11. QED
        BY <2>3, <2>6, <2>7, <2>9, <2>10, DivAdvances
<1>3. \A a \in Accounts \ {h} : mishap[a] \subseteq u[a] /\ Same(a)
    BY DEF Same
<1>4. \A a \in Accounts : ~Past(p, a)
    BY DEF Past
<1>5. QED
    BY <1>1, <1>2, <1>3, <1>4, WorkGood

LEMMA AtIf ==
    ASSUME Static, NEW k \in Jobs, NEW p \in JobRecord, NEW u \in [Accounts -> SUBSET Mishaps], Become(k, p, u),
           job[k].pc \in Touching, p.pc # "absent",
           p.type = job[k].type, p.of = job[k].of, UNCHANGED <<begun, landed>>
    PROVE  /\ Becomes(k, p, u) /\ At(k, p, Here(k))
           /\ Here(k) \in Accounts /\ Here(k) \in job[k].accts /\ Here(k) = Lowest(job[k].accts)
<1>1. Becomes(k, p, u)
    BY BecomeMakes
<1>2. PICK h : h = Here(k)
    OBVIOUS
<1>3. At(k, p, h)
    BY <1>1, <1>2 DEF At, Becomes
<1>4. h \in Accounts /\ h \in job[k].accts /\ h = Lowest(job[k].accts)
    BY <1>3, AtStable
<1>5. QED
    BY <1>1, <1>2, <1>3, <1>4

LEMMA CollectGood ==
    ASSUME Static, Static', BInv, NEW k \in Jobs, Collect(k)
    PROVE  BInv'
<1>1. job[k].pc = "prior" /\ job[k].pc \in Touching /\ job[k].pc \in Paying /\ UNCHANGED <<begun, landed, book, credited>>
    BY DEF Collect, Touching, Paying, Early
<1>2. job[k] \in JobRecord /\ job[k].of \in Dividends /\ job[k].type = "div"
    BY <1>1, Payer
<1>3. PICK h : h = Here(k) /\ h \in Accounts
    BY <1>1, Payer
<1>4. PICK prior \in Priors(k) : Shift(k, prior, 0)
    BY DEF Collect
<1>5. prior = [seq |-> 0, bal |-> 0] \/ prior \in book[h]
    BY <1>3, <1>4 DEF Priors
<1>6. \A w \in book[h] : w.seq \in Int /\ w.bal \in Int
    BY <1>3, Idle DEF Loose, Rows
<1>7. PICK s, b : s = prior.seq /\ b = prior.bal
    OBVIOUS
<1>8. s \in Int /\ b \in Int /\ ((s = 0 /\ b = 0) \/ \E v \in book[h] : v.seq = s /\ v.bal = b)
    BY <1>5, <1>6, <1>7
<1>9. PICK later : later = {w \in book[h] : w.seq > s + 0}
    OBVIOUS
<1>10. later \in SUBSET Rows /\ later = {w \in book[h] : w.seq > s}
    BY <1>3, <1>8, <1>9, Idle DEF Loose
<1>11. PICK q : q = IF later = {} THEN "credit" ELSE "move"
    OBVIOUS
<1>12. PICK p : p = [job[k] EXCEPT !.seq = s, !.bal = b, !.moves = later, !.pc = q]
    OBVIOUS
<1>13. /\ p \in JobRecord /\ p.type = job[k].type /\ p.of = job[k].of /\ p.accts = job[k].accts
       /\ p.pc = q /\ p.undo = job[k].undo /\ p.moves = later /\ p.seq = s /\ p.bal = b
    <2>1. q \in Pcs
        BY <1>11 DEF Pcs, Paying, Early
    <2>2. PICK x : x = [job[k] EXCEPT !.seq = s]
        OBVIOUS
    <2>3. /\ x \in JobRecord /\ x.type = job[k].type /\ x.of = job[k].of /\ x.accts = job[k].accts
          /\ x.undo = job[k].undo /\ x.seq = s
        BY <1>2, <1>8, <2>2 DEF JobRecord
    <2>4. PICK y : y = [x EXCEPT !.bal = b]
        OBVIOUS
    <2>5. /\ y \in JobRecord /\ y.type = job[k].type /\ y.of = job[k].of /\ y.accts = job[k].accts
          /\ y.undo = job[k].undo /\ y.seq = s /\ y.bal = b
        BY <1>8, <2>3, <2>4 DEF JobRecord
    <2>6. p = [y EXCEPT !.moves = later, !.pc = q]
        BY <1>2, <1>12, <2>2, <2>4 DEF JobRecord
    <2>7. QED
        BY <1>10, <2>1, <2>5, <2>6 DEF JobRecord
<1>14. Go(k, p)
    BY <1>3, <1>4, <1>7, <1>9, <1>11, <1>12 DEF Shift
<1>15. PICK u \in [Accounts -> SUBSET Mishaps] : Become(k, p, u) /\ \A a \in Accounts : mishap[a] \subseteq u[a]
    BY <1>14, SameMishap
<1>16. p.pc # "absent"
    BY <1>11, <1>13
<1>17. Becomes(k, p, u) /\ At(k, p, h) /\ h = Lowest(job[k].accts)
    BY <1>1, <1>3, <1>13, <1>15, <1>16, AtIf
<1>18. JobShape(job[k]) /\ job[k].undo = {}
    <2>1. JobShape(job[k])
        BY <1>17, AtFacts
    <2>2. QED
        BY <1>1, <2>1 DEF JobShape
<1>19. JobShape(p)
    BY <1>2, <1>11, <1>13, <1>18 DEF JobShape
<1>20. \A a \in Accounts : Writing(p, a) => a = h
    BY <1>13, <1>17 DEF Writing
<1>21. PICK n : n = Amount[p.of][h]
    OBVIOUS
<1>22. ASSUME NEW O \in SUBSET Rows, Shifting(job[k], n, O, book[h])
       PROVE  \E V : /\ book'[h] = Shifted(O, V, n)
                     /\ Writing(p, h) => Shifting(p, n, O, book'[h])
                     /\ ~Writing(p, h) => V = {}
    <2>1. O = book[h] /\ book'[h] = Shifted(O, {}, n)
        BY <1>1, <1>18, <1>22, ShiftedNone DEF Shifting
    <2>2. p.undo = {} /\ p.pc # "prior"
        BY <1>11, <1>13, <1>18
    <2>3. Shifting(p, n, O, book'[h])
        <3>1. Chain(O) /\ Keyed(O)
            BY <1>22 DEF Shifting
        <3>2. p.moves = {w \in O : w.seq > p.seq} \ p.undo
            BY <1>10, <1>13, <2>1, <2>2
        <3>3. (p.seq = 0 /\ p.bal = 0) \/ \E v \in O : v.seq = p.seq /\ v.bal = p.bal
            BY <1>8, <1>13, <2>1
        <3>4. p.pc = "credit" => p.moves = {}
            BY <1>11, <1>13
        <3>5. QED
            BY <2>1, <2>2, <3>1, <3>2, <3>3, <3>4 DEF Shifting
    <2>4. QED
        BY <2>1, <2>3
<1>23. \A a \in Accounts \ {h} : book'[a] = book[a]
    BY <1>1
<1>24. DivMoves(job[k], p, h, n, book[h], book'[h])
    BY <1>22 DEF DivMoves
<1>25. QED
    BY <1>1, <1>2, <1>13, <1>15, <1>17, <1>19, <1>20, <1>21, <1>23, <1>24, DivWorkGood


LEMMA PutAt ==
    ASSUME Static, NEW a \in Accounts, NEW w, NEW s, NEW b, Put(a, w, s, b)
    PROVE  /\ book'[a] = Putted(book[a], w, s, b)
           /\ \A c \in Accounts \ {a} : book'[c] = book[c]
<1>1. book \in [Accounts -> SUBSET Rows]
    BY Idle DEF Loose
<1>2. QED
    BY <1>1 DEF Put, Putted

LEMMA MoveRowGood ==
    ASSUME Static, Static', BInv, NEW k \in Jobs, MoveRow(k)
    PROVE  BInv'
<1>1. job[k].pc = "move" /\ job[k].pc \in Touching /\ job[k].pc \in Paying /\ UNCHANGED <<begun, landed, credited>>
    BY DEF MoveRow, Touching, Paying, Early
<1>2. job[k] \in JobRecord /\ job[k].of \in Dividends /\ job[k].type = "div"
    BY <1>1, Payer
<1>3. PICK h : h = Here(k) /\ h \in Accounts
    BY <1>1, Payer
<1>4. PICK n : n = Amount[job[k].of][h]
    OBVIOUS
<1>5. PICK w \in job[k].moves :
         /\ Put(h, w, w.seq + 1, w.bal + n)
         /\ Go(k, [job[k] EXCEPT !.moves = job[k].moves \ {w}, !.undo = job[k].undo \union {w},
                                 !.pc = IF job[k].moves \ {w} = {} THEN "credit" ELSE "move"])
    BY <1>3, <1>4 DEF MoveRow
<1>6. job[k].moves \in SUBSET Rows /\ job[k].undo \in SUBSET Rows /\ w \in Rows
    BY <1>2 DEF JobRecord
<1>7. PICK m, v, q : m = job[k].moves \ {w} /\ v = job[k].undo \union {w} /\ q = IF m = {} THEN "credit" ELSE "move"
    OBVIOUS
<1>8. PICK p : p = [job[k] EXCEPT !.moves = m, !.undo = v, !.pc = q]
    OBVIOUS
<1>9. /\ p \in JobRecord /\ p.type = job[k].type /\ p.of = job[k].of /\ p.accts = job[k].accts
      /\ p.pc = q /\ p.undo = v /\ p.moves = m /\ p.seq = job[k].seq /\ p.bal = job[k].bal
    <2>1. q \in Pcs /\ m \in SUBSET Rows /\ v \in SUBSET Rows
        BY <1>6, <1>7 DEF Pcs, Paying, Early
    <2>2. QED
        BY <1>2, <1>8, <2>1 DEF JobRecord
<1>10. Go(k, p)
    BY <1>5, <1>7, <1>8
<1>11. PICK u \in [Accounts -> SUBSET Mishaps] : Become(k, p, u) /\ \A a \in Accounts : mishap[a] \subseteq u[a]
    BY <1>10, SameMishap
<1>12. p.pc \in {"credit", "move"}
    BY <1>7, <1>9
<1>13. Becomes(k, p, u) /\ At(k, p, h) /\ h = Lowest(job[k].accts)
    BY <1>1, <1>3, <1>9, <1>11, <1>12, AtIf
<1>14. JobShape(p)
    BY <1>2, <1>9, <1>12 DEF JobShape
<1>15. \A a \in Accounts : Writing(p, a) => a = h
    BY <1>9, <1>13 DEF Writing
<1>16. /\ book'[h] = Putted(book[h], w, w.seq + 1, w.bal + n)
       /\ \A a \in Accounts \ {h} : book'[a] = book[a]
    <2>1. PICK s, b : s = w.seq + 1 /\ b = w.bal + n
        OBVIOUS
    <2>2. Put(h, w, s, b)
        BY <1>5, <2>1
    <2>3. QED
        BY <1>3, <2>1, <2>2, PutAt
<1>17. n \in Int /\ n = Amount[p.of][h]
    BY <1>2, <1>3, <1>4, <1>9, Amounts
<1>18. ASSUME NEW O \in SUBSET Rows, Shifting(job[k], n, O, book[h])
       PROVE  \E V : /\ book'[h] = Shifted(O, V, n)
                     /\ Writing(p, h) => Shifting(p, n, O, book'[h])
                     /\ ~Writing(p, h) => V = {}
    <2>1. PICK U : U = job[k].undo
        OBVIOUS
    <2>2. /\ Chain(O) /\ Keyed(O) /\ U \in SUBSET O /\ book[h] = Shifted(O, U, n)
          /\ job[k].moves = {x \in O : x.seq > job[k].seq} \ U
          /\ \A x \in U : x.seq > job[k].seq
          /\ (job[k].seq = 0 /\ job[k].bal = 0) \/ \E x \in O : x.seq = job[k].seq /\ x.bal = job[k].bal
        BY <1>1, <1>18, <2>1 DEF Shifting
    <2>3. w \in O \ U /\ w.seq > job[k].seq
        BY <1>5, <2>2
    <2>4. book'[h] = Shifted(O, U \union {w}, n)
        <3>1. Putted(Shifted(O, U, n), w, w.seq + 1, w.bal + n) = Shifted(O, U \union {w}, n)
            BY <1>17, <2>2, <2>3, ShiftedOne
        <3>2. QED
            BY <1>16, <2>2, <3>1
    <2>5. v = U \union {w}
        BY <1>7, <2>1
    <2>6. Shifting(p, n, O, book'[h])
        <3>1. p.undo \subseteq O /\ book'[h] = Shifted(O, p.undo, n)
            BY <1>9, <2>2, <2>3, <2>4, <2>5
        <3>2. p.moves = {x \in O : x.seq > p.seq} \ p.undo
            BY <1>7, <1>9, <2>2, <2>5
        <3>3. \A x \in p.undo : x.seq > p.seq
            BY <1>9, <2>2, <2>3, <2>5
        <3>4. (p.seq = 0 /\ p.bal = 0) \/ \E x \in O : x.seq = p.seq /\ x.bal = p.bal
            BY <1>9, <2>2
        <3>5. p.pc = "credit" => p.moves = {}
            BY <1>7, <1>9
        <3>6. QED
            BY <1>12, <2>2, <3>1, <3>2, <3>3, <3>4, <3>5 DEF Shifting
    <2>7. Writing(p, h)
        BY <1>9, <1>12, <1>13, AtStable DEF Writing
    <2>8. QED
        BY <2>4, <2>6, <2>7
<1>19. DivMoves(job[k], p, h, n, book[h], book'[h])
    BY <1>18 DEF DivMoves
<1>20. QED
    BY <1>1, <1>2, <1>9, <1>11, <1>13, <1>14, <1>15, <1>16, <1>17, <1>19, DivWorkGood

LEMMA DivNext ==
    ASSUME Static, NEW k \in Jobs, job[k].pc \in Paying, NEW p, p = NextAccount(job[k])
    PROVE  /\ p \in JobRecord /\ p.pc # "absent" /\ p.type = job[k].type /\ p.of = job[k].of /\ p.type = "div"
           /\ JobShape(p) /\ \A a \in Accounts : ~Writing(p, a)
<1>1. job[k] \in JobRecord /\ job[k].type = "div"
    BY Payer
<1>2. /\ p \in JobRecord /\ p.type = job[k].type /\ p.of = job[k].of /\ p.undo = {}
      /\ p.pc \in {"end", "record"}
    BY <1>1, NextAccountIs
<1>3. QED
    BY <1>1, <1>2 DEF JobShape, Writing

(* The passbook is as it was, and no row of it is moved.                    *)
LEMMA DivRests ==
    ASSUME NEW r, NEW p, NEW a, NEW n, NEW B, r.undo = {}, ~Writing(p, a)
    PROVE  DivMoves(r, p, a, n, B, B)
<1>1. SUFFICES ASSUME NEW O \in SUBSET Rows, Shifting(r, n, O, B)
               PROVE  \E V : /\ B = Shifted(O, V, n)
                             /\ Writing(p, a) => Shifting(p, n, O, B)
                             /\ ~Writing(p, a) => V = {}
    BY DEF DivMoves
<1>2. PICK V : V = {}
    OBVIOUS
<1>3. B = Shifted(O, V, n)
    BY <1>1, <1>2 DEF Shifting
<1>4. QED
    BY <1>2, <1>3

LEMMA CashFailsGood ==
    ASSUME Static, Static', BInv, NEW k \in Jobs, CashFails(k)
    PROVE  BInv'
<1>1. job[k].pc \in {"dup", "prior", "move", "credit"} /\ job[k].pc \in Paying
    BY DEF CashFails, Paying, Early
<1>2. UNCHANGED <<begun, landed, credited>>
    BY DEF CashFails
<1>3. job[k] \in JobRecord /\ job[k].of \in Dividends /\ job[k].type = "div"
    BY <1>1, Payer
<1>4. PICK h : h = Here(k) /\ h \in Accounts
    BY <1>1, Payer
<1>5. PICK applied \in BOOLEAN :
         /\ applied => job[k].pc = "credit"
         /\ IF applied THEN Credit(k) ELSE UNCHANGED book
         /\ Become(k, IF job[k].undo = {} THEN NextAccount(job[k]) ELSE [job[k] EXCEPT !.pc = "undo"],
                   IF applied THEN Upset(Here(k), "ghost") ELSE mishap)
    BY Zenon DEF CashFails
<1>6. JobShape(job[k])
    BY DEF BInv, Shape
<1>7. CASE job[k].pc = "dup"
    <2>1. job[k].undo = {} /\ ~applied
        BY <1>5, <1>6, <1>7 DEF JobShape
    <2>2. Go(k, NextAccount(job[k])) /\ UNCHANGED book
        BY <1>5, <2>1 DEF Go
    <2>3. QED
        BY <1>2, <1>7, <2>2, RecordGood
<1>8. CASE job[k].pc # "dup"
    <2>1. PICK p : p = IF job[k].undo = {} THEN NextAccount(job[k]) ELSE [job[k] EXCEPT !.pc = "undo"]
        OBVIOUS
    <2>2. job[k].pc \in Touching
        BY <1>1, <1>8 DEF Touching
    <2>3. PICK u : u = IF applied THEN Upset(h, "ghost") ELSE mishap
        OBVIOUS
    <2>4. /\ u \in [Accounts -> SUBSET Mishaps] /\ \A a \in Accounts : mishap[a] \subseteq u[a]
          /\ applied => "ghost" \in u[h]
        BY <1>4, <2>3, UpsetIs, Idle DEF Typed, Mishaps
    <2>5. Become(k, p, u)
        BY <1>4, <1>5, <2>1, <2>3
    <2>6. /\ p \in JobRecord /\ p.pc # "absent" /\ p.type = job[k].type /\ p.of = job[k].of /\ JobShape(p)
          /\ \/ job[k].undo = {} /\ \A a \in Accounts : ~Writing(p, a)
             \/ /\ p.pc = "undo" /\ p.undo = job[k].undo /\ p.accts = job[k].accts
                /\ job[k].undo # {}
        <3>1. CASE job[k].undo = {}
            BY <1>1, <2>1, <3>1, DivNext
        <3>2. CASE job[k].undo # {}
            <4>1. p = Turned(job[k], "undo") /\ "undo" \in Pcs
                BY <2>1, <3>2 DEF Turned, Pcs, Paying, Early
            <4>2. /\ p \in JobRecord /\ p.pc = "undo" /\ p.type = job[k].type /\ p.of = job[k].of
                  /\ p.accts = job[k].accts /\ p.undo = job[k].undo
                BY <1>3, <4>1, TurnedIs
            <4>3. JobShape(p)
                BY <1>3, <4>2 DEF JobShape
            <4>4. QED
                BY <3>2, <4>2, <4>3
        <3>3. QED
            BY <3>1, <3>2
    <2>7. Becomes(k, p, u) /\ At(k, p, h) /\ h = Lowest(job[k].accts)
        BY <1>2, <1>4, <2>2, <2>4, <2>5, <2>6, AtIf
    <2>8. \A a \in Accounts : Writing(p, a) => a = h
        BY <2>6, <2>7 DEF Writing
    <2>9. \A a \in Accounts \ {h} : book'[a] = book[a]
        <3>1. CASE applied
            <4>1. PICK w \in Rows : book' = [book EXCEPT ![h] = book[h] \union {w}]
                BY <1>1, <1>4, <1>5, <3>1, CreditIs
            <4>2. QED
                BY <4>1, Idle DEF Loose
        <3>2. CASE ~applied
            BY <1>5, <3>2
        <3>3. QED
            BY <3>1, <3>2
    <2>10. PICK n : n = Amount[p.of][h]
        OBVIOUS
    <2>11. ASSUME u[h] = {}
           PROVE  DivMoves(job[k], p, h, n, book[h], book'[h])
        <3>1. book' = book
            BY <1>5, <2>4, <2>11
        <3>2. CASE job[k].undo = {} /\ \A a \in Accounts : ~Writing(p, a)
            BY <1>4, <3>1, <3>2, DivRests
        <3>3. CASE p.pc = "undo" /\ p.undo = job[k].undo /\ p.accts = job[k].accts
            <4>1. SUFFICES ASSUME NEW O \in SUBSET Rows, Shifting(job[k], n, O, book[h])
                           PROVE  \E V : /\ book'[h] = Shifted(O, V, n)
                                         /\ Writing(p, h) => Shifting(p, n, O, book'[h])
                                         /\ ~Writing(p, h) => V = {}
                BY DEF DivMoves
            <4>2. book'[h] = Shifted(O, job[k].undo, n) /\ Shifting(p, n, O, book'[h])
                BY <3>1, <3>3, <4>1 DEF Shifting
            <4>3. Writing(p, h)
                BY <2>7, <3>3, AtStable DEF Writing
            <4>4. QED
                BY <4>2, <4>3
        <3>4. QED
            BY <2>6, <3>2, <3>3
    <2>12. p.type = "div" /\ credited' = credited
        BY <1>2, <1>3, <2>6
    <2>13. QED
        BY <2>4, <2>6, <2>7, <2>8, <2>9, <2>10, <2>11, <2>12, DivWorkGood
<1>9. QED
    BY <1>7, <1>8

LEMMA MoveFailsGood ==
    ASSUME Static, Static', BInv, NEW k \in Jobs, MoveFails(k)
    PROVE  BInv'
<1>1. job[k].pc = "move" /\ job[k].pc \in Touching /\ job[k].pc \in Paying /\ UNCHANGED <<begun, landed, credited>>
    BY DEF MoveFails, Touching, Paying, Early
<1>2. job[k] \in JobRecord /\ job[k].of \in Dividends /\ job[k].type = "div"
    BY <1>1, Payer
<1>3. PICK h : h = Here(k) /\ h \in Accounts
    BY <1>1, Payer
<1>4. PICK n : n = Amount[job[k].of][h]
    OBVIOUS
<1>5. PICK p : p = IF job[k].undo = {} THEN NextAccount(job[k]) ELSE [job[k] EXCEPT !.pc = "undo"]
    OBVIOUS
<1>6. PICK w \in job[k].moves : Put(h, w, w.seq + 1, w.bal + n)
    BY <1>3, <1>4 DEF MoveFails
<1>7. PICK u : u = Upset(h, "moved")
    OBVIOUS
<1>8. /\ u \in [Accounts -> SUBSET Mishaps] /\ \A a \in Accounts : mishap[a] \subseteq u[a]
      /\ "moved" \in u[h]
    BY <1>3, <1>7, UpsetIs, Idle DEF Typed, Mishaps
<1>9. Become(k, p, u)
    BY <1>3, <1>5, <1>7 DEF MoveFails
<1>10. /\ p \in JobRecord /\ p.pc # "absent" /\ p.type = job[k].type /\ p.of = job[k].of
       /\ \/ p.accts = job[k].accts /\ p.pc = "undo"
          \/ job[k].undo = {} /\ p = NextAccount(job[k])
    BY <1>1, <1>5, GivesUp
<1>11. Becomes(k, p, u) /\ At(k, p, h) /\ h = Lowest(job[k].accts)
    BY <1>1, <1>3, <1>8, <1>9, <1>10, AtIf
<1>12. JobShape(p) /\ \A a \in Accounts : Writing(p, a) => a = h
    <2>1. CASE p.accts = job[k].accts /\ p.pc = "undo"
        BY <1>2, <1>10, <1>11, <2>1 DEF JobShape, Writing
    <2>2. CASE p = NextAccount(job[k])
        BY <1>1, <2>2, DivNext
    <2>3. QED
        BY <1>10, <2>1, <2>2
<1>13. \A a \in Accounts \ {h} : book'[a] = book[a]
    <2>1. PICK s, b : s = w.seq + 1 /\ b = w.bal + n
        OBVIOUS
    <2>2. Put(h, w, s, b)
        BY <1>6, <2>1
    <2>3. QED
        BY <1>3, <2>2, PutAt
<1>14. p.type = "div" /\ n = Amount[p.of][h] /\ u[h] # {} /\ credited' = credited
    BY <1>1, <1>2, <1>4, <1>8, <1>10
<1>15. QED
    BY <1>8, <1>10, <1>11, <1>12, <1>13, <1>14, DivWorkGood

LEMMA UndoRowGood ==
    ASSUME Static, Static', BInv, NEW k \in Jobs, UndoRow(k)
    PROVE  BInv'
<1>1. job[k].pc = "undo" /\ job[k].pc \in Paying /\ job[k].pc \in Touching /\ UNCHANGED <<begun, landed, credited>>
    BY DEF UndoRow, Paying, Early, Touching
<1>2. job[k] \in JobRecord /\ job[k].of \in Dividends /\ job[k].type = "div"
    BY <1>1, Payer
<1>3. PICK h : h = Here(k) /\ h \in Accounts
    BY <1>1, Payer
<1>4. PICK w, rest, p :
         /\ w \in job[k].undo /\ rest = job[k].undo \ {w}
         /\ p = IF rest = {} THEN NextAccount(job[k]) ELSE [job[k] EXCEPT !.undo = rest]
         /\ \/ Put(h, w, w.seq, w.bal) /\ Go(k, p)
            \/ Spend /\ UNCHANGED book /\ Become(k, p, Upset(h, "moved"))
    BY <1>3 DEF UndoRow
<1>5. w \in Rows /\ rest \in SUBSET Rows
    BY <1>2, <1>4 DEF JobRecord
<1>6. /\ p \in JobRecord /\ p.pc # "absent" /\ p.type = job[k].type /\ p.of = job[k].of /\ JobShape(p)
      /\ \/ rest = {} /\ \A a \in Accounts : ~Writing(p, a)
         \/ p.pc = "undo" /\ p.undo = rest /\ p.accts = job[k].accts
    <2>1. CASE rest = {}
        BY <1>1, <1>4, <2>1, DivNext
    <2>2. CASE rest # {}
        <3>1. p = [job[k] EXCEPT !.undo = rest]
            BY <1>4, <2>2
        <3>2. /\ p \in JobRecord /\ p.pc = "undo" /\ p.type = job[k].type /\ p.of = job[k].of
              /\ p.accts = job[k].accts /\ p.undo = rest
            BY <1>1, <1>2, <1>5, <3>1 DEF JobRecord
        <3>3. JobShape(p)
            BY <1>2, <3>2 DEF JobShape
        <3>4. QED
            BY <3>2, <3>3
    <2>3. QED
        BY <2>1, <2>2
<1>7. PICK u \in [Accounts -> SUBSET Mishaps] : /\ Become(k, p, u) /\ \A a \in Accounts : mishap[a] \subseteq u[a]
                                                /\ u[h] = {} => Put(h, w, w.seq, w.bal)
    <2>1. CASE Go(k, p) /\ Put(h, w, w.seq, w.bal)
        BY <2>1, SameMishap
    <2>2. CASE Become(k, p, Upset(h, "moved"))
        BY <1>3, <2>2, UpsetIs DEF Mishaps
    <2>3. QED
        BY <1>4, <2>1, <2>2
<1>8. Becomes(k, p, u) /\ At(k, p, h) /\ h = Lowest(job[k].accts)
    BY <1>1, <1>3, <1>6, <1>7, AtIf
<1>9. \A a \in Accounts : Writing(p, a) => a = h
    BY <1>6, <1>8 DEF Writing
<1>10. PICK s, b : s = w.seq /\ b = w.bal
    OBVIOUS
<1>11. \A a \in Accounts \ {h} : book'[a] = book[a]
    <2>1. CASE Put(h, w, w.seq, w.bal)
        BY <1>3, <1>10, <2>1, PutAt
    <2>2. CASE book' = book
        BY <2>2
    <2>3. QED
        BY <1>4, <2>1, <2>2
<1>12. PICK n : n = Amount[p.of][h]
    OBVIOUS
<1>13. n \in Int
    BY <1>2, <1>3, <1>6, <1>12, Amounts
<1>14. ASSUME u[h] = {}
       PROVE  DivMoves(job[k], p, h, n, book[h], book'[h])
    <2>1. book'[h] = Putted(book[h], w, s, b)
        BY <1>3, <1>7, <1>10, <1>14, PutAt
    <2>2. SUFFICES ASSUME NEW O \in SUBSET Rows, Shifting(job[k], n, O, book[h])
                   PROVE  \E V : /\ book'[h] = Shifted(O, V, n)
                                 /\ Writing(p, h) => Shifting(p, n, O, book'[h])
                                 /\ ~Writing(p, h) => V = {}
        BY DEF DivMoves
    <2>3. PICK U : U = job[k].undo
        OBVIOUS
    <2>4. Chain(O) /\ Keyed(O) /\ U \in SUBSET O /\ book[h] = Shifted(O, U, n) /\ w \in U /\ rest = U \ {w}
        BY <1>4, <2>2, <2>3 DEF Shifting
    <2>5. book'[h] = Shifted(O, rest, n)
        <3>1. Putted(Shifted(O, U, n), w, w.seq, w.bal) = Shifted(O, U \ {w}, n)
            BY <1>13, <2>4, ShiftedBack
        <3>2. QED
            BY <1>10, <2>1, <2>4, <3>1
    <2>6. CASE rest = {} /\ \A a \in Accounts : ~Writing(p, a)
        BY <1>3, <2>5, <2>6
    <2>7. CASE p.pc = "undo" /\ p.undo = rest
        <3>1. Shifting(p, n, O, book'[h])
            BY <2>4, <2>5, <2>7 DEF Shifting
        <3>2. CASE Writing(p, h)
            BY <2>5, <3>1, <3>2
        <3>3. CASE ~Writing(p, h)
            <4>1. p.accts = job[k].accts \/ rest = {}
                BY <1>6
            <4>2. rest = {}
                BY <1>8, <2>7, <3>3, <4>1, AtStable DEF Writing
            <4>3. QED
                BY <2>5, <3>3, <4>2
        <3>4. QED
            BY <3>2, <3>3
    <2>8. QED
        BY <1>6, <2>6, <2>7
<1>15. p.type = "div" /\ credited' = credited
    BY <1>1, <1>2, <1>6
<1>16. QED
    BY <1>6, <1>7, <1>8, <1>9, <1>11, <1>12, <1>14, <1>15, DivWorkGood

LEMMA DivKilledGood ==
    ASSUME Static, Static', BInv, NEW k \in Jobs, DivKilled(k)
    PROVE  BInv'
<1>1. job[k].type = "div" /\ job[k].pc \notin {"absent", "done", "failed"} /\ UNCHANGED <<begun, landed, book, credited>>
    BY DEF DivKilled, Div, AtWork, Open
<1>2. /\ job[k] \in JobRecord /\ Placed(job[k]) /\ Typed /\ Shape
      /\ landed <= begun /\ landed \in Nat /\ begun \in Nat /\ JobShape(job[k])
    BY Idle DEF BInv, Shape, Loose
<1>3. PICK p : p = [job[k] EXCEPT !.pc = "failed", !.accts = {}]
    OBVIOUS
<1>4. /\ p \in JobRecord /\ p.type = job[k].type /\ p.of = job[k].of /\ p.pc = "failed"
      /\ p.accts = {} /\ p.undo = job[k].undo
    BY <1>2, <1>3 DEF JobRecord, Pcs
<1>5. JobShape(p) /\ \A a : ~Writing(p, a) /\ ~Past(p, a)
    BY <1>1, <1>4 DEF JobShape, Writing, Past
<1>6. PICK h : h = Here(k)
    OBVIOUS
<1>7. PICK u : u = IF job[k].undo # {} THEN Upset(h, "moved") ELSE mishap
    OBVIOUS
<1>8. Become(k, p, u)
    BY <1>3, <1>6, <1>7 DEF DivKilled
<1>9. CASE job[k].pc \notin Touching
    <2>1. job[k].undo = {}
        BY <1>1, <1>2, <1>9 DEF JobShape, Touching
    <2>2. u = mishap
        BY <1>7, <2>1
    <2>3. u \in [Accounts -> SUBSET Mishaps]
        BY <2>2, Idle DEF Typed
    <2>4. Becomes(k, p, u)
        BY <1>8, <2>3, BecomeMakes
    <2>5. JobShape(p)'
        BY <1>1, <1>5 DEF JobShape
    <2>6. /\ \A a \in Accounts : mishap[a] \subseteq u[a]
          /\ landed <= landed' /\ landed' <= begun /\ p.pc # "absent"
          /\ \A a \in Accounts : ~Writing(p, a) /\ ~Past(p, a)
        BY <1>1, <1>2, <1>4, <1>5, <2>2
    <2>7. QED
        BY <1>1, <1>4, <1>9, <2>4, <2>5, <2>6, ApartGood
<1>10. CASE job[k].pc \in Touching
    <2>1. job[k].pc \in Paying
        BY <1>1, <1>2, <1>10 DEF Touching, Placed, Paying, Early
    <2>2. h \in Accounts
        BY <1>6, <2>1, Payer
    <2>3. /\ u \in [Accounts -> SUBSET Mishaps] /\ \A a \in Accounts : mishap[a] \subseteq u[a]
          /\ job[k].undo # {} => "moved" \in u[h]
        BY <1>7, <2>2, UpsetIs, Idle DEF Typed, Mishaps
    <2>4. p.pc # "absent"
        BY <1>4
    <2>5. Becomes(k, p, u) /\ At(k, p, h)
        BY <1>1, <1>4, <1>6, <1>8, <1>10, <2>3, <2>4, AtIf
    <2>6. PICK n : n = Amount[p.of][h]
        OBVIOUS
    <2>7. ASSUME u[h] = {}
          PROVE  DivMoves(job[k], p, h, n, book[h], book'[h])
        <3>1. job[k].undo = {} /\ book'[h] = book[h] /\ ~Writing(p, h)
            BY <1>1, <1>5, <2>3, <2>7
        <3>2. QED
            BY <3>1, DivRests
    <2>8. /\ p.type = "div" /\ credited' = credited /\ \A a \in Accounts : Writing(p, a) => a = h
          /\ \A a \in Accounts \ {h} : book'[a] = book[a]
        BY <1>1, <1>4, <1>5
    <2>9. QED
        BY <1>5, <2>3, <2>5, <2>6, <2>7, <2>8, DivWorkGood
<1>11. QED
    BY <1>9, <1>10

(* A row more.                                                              *)
LEMMA ContentAdd ==
    ASSUME Static, Static', Stable, NEW a \in Accounts, Content(a), begun' = begun, NEW x \in Rows,
           book'[a] = book[a] \union {x}, Sourced(x, a)',
           \A w \in book[a] : ~(w.kind = x.kind /\ w.of = x.of),
           \A d \in Dividends : <<d, a>> \in credited' <=> <<d, a>> \in credited \/ (x.kind = "div" /\ x.of = d),
           \A i \in Nat : Claimed(i, a)' => \/ Claimed(i, a)
                                            \/ \A w \in book[a] : w.epoch < i \/ (w.by \in Jobs /\ job[w.by].of = i)
    PROVE  Content(a)'
<1>1. begun \in Nat /\ begun' \in Nat /\ begun <= begun' /\ book[a] \in SUBSET Rows
    BY DEF Static, Typed, Loose
<1>2. ASSUME NEW w \in book[a]
      PROVE  Sourced(w, a)'
    <2>1. Sourced(w, a) /\ w \in Rows
        BY <1>1 DEF Content
    <2>2. \A i \in Nat : Claimed(i, a)' => \/ Claimed(i, a) \/ w.epoch < i
                                           \/ (w.by \in Jobs /\ job[w.by].of = i)
        OBVIOUS
    <2>3. QED
        BY <1>1, <2>1, <2>2, SourcedStays
<1>3. \A w \in book'[a] : Sourced(w, a)'
    BY <1>2
<1>4. \A d \in Dividends : Has(d, a)' <=> Has(d, a) \/ (x.kind = "div" /\ x.of = d)
    BY DEF Has, IsDiv
<1>5. \A d \in Dividends : <<d, a>> \in credited <=> Has(d, a)
    BY DEF Content
<1>6. \A d \in Dividends : <<d, a>> \in credited' <=> Has(d, a)'
    BY <1>4, <1>5
<1>7. Keyed(book'[a])
    BY KeyedAdd DEF Content
<1>8. Keyed(book[a])'
    BY <1>7 DEF Keyed
<1>9. QED
    BY <1>3, <1>6, <1>8 DEF Content

LEMMA InsertDividendGood ==
    ASSUME Static, Static', BInv, NEW k \in Jobs, InsertDividend(k)
    PROVE  BInv'
<1>1. job[k].pc = "credit" /\ job[k].pc \in Touching /\ job[k].pc \in Paying /\ UNCHANGED <<begun, landed>>
    BY DEF InsertDividend, Touching, Paying, Early
<1>2. job[k] \in JobRecord /\ job[k].of \in Dividends /\ job[k].type = "div"
    BY <1>1, Payer
<1>3. PICK h, d, n : h = Here(k) /\ h \in Accounts /\ d = job[k].of /\ d \in Dividends /\ n = Amount[d][h]
    BY <1>1, Payer
<1>4. PICK s, b : s = job[k].seq /\ b = job[k].bal
    OBVIOUS
<1>5. s \in Int /\ b \in Int /\ n \in Nat /\ n \in Int /\ RecordDate[d] \in Nat /\ k \in Nat /\ begun \in Nat /\ d \in Nat
    BY <1>2, <1>3, <1>4, Amounts, Numbers, Idle DEF JobRecord, Loose
<1>6. PICK t, c : t = s + 1 /\ c = b + n
    OBVIOUS
<1>7. PICK x : x = Row("div", d, RecordDate[d], n, t, c, k)
    OBVIOUS
<1>8. /\ x \in Rows /\ x.kind = "div" /\ x.of = d /\ x.by = k /\ x.seq = s + 1 /\ x.bal = b + n /\ x.amt = n
      /\ x.epoch = begun
    <2>1. t \in Int /\ c \in Int
        BY <1>5, <1>6
    <2>2. QED
        BY <1>5, <1>6, <1>7, <2>1 DEF Row, Rows
<1>9. book' = [book EXCEPT ![h] = book[h] \union {x}] /\ credited' = credited \union {<<d, h>>}
    BY <1>3, <1>4, <1>6, <1>7 DEF InsertDividend, Credit
<1>10. book'[h] = book[h] \union {x} /\ \A a \in Accounts \ {h} : book'[a] = book[a]
    BY <1>3, <1>9, Idle DEF Loose
<1>11. PICK p : p = NextAccount(job[k])
    OBVIOUS
<1>12. /\ p \in JobRecord /\ p.pc # "absent" /\ p.type = job[k].type /\ p.of = job[k].of /\ p.type = "div"
       /\ JobShape(p) /\ \A a \in Accounts : ~Writing(p, a)
    BY <1>1, <1>11, DivNext
<1>13. Go(k, p)
    BY <1>11 DEF InsertDividend
<1>14. PICK u \in [Accounts -> SUBSET Mishaps] : Become(k, p, u) /\ \A a \in Accounts : mishap[a] \subseteq u[a]
    BY <1>13, SameMishap
<1>15. Becomes(k, p, u) /\ At(k, p, h)
    BY <1>1, <1>3, <1>12, <1>14, AtIf
<1>16. \A a \in Accounts \ {h} : mishap[a] \subseteq u[a] /\ Same(a)
    BY <1>9, <1>10, <1>14 DEF Same
<1>17. ASSUME mishap'[h] = {}
       PROVE  Advances(k, p, h)
    <2>1. mishap[h] = {}
        BY <1>3, <1>14, <1>15, <1>17 DEF Becomes
    <2>2. PICK C, l : C = Claims(h) /\ l = landed
        OBVIOUS
    <2>3. Content(h) /\ Busy(k, job[k], h, book[h], C, l)
        BY <1>15, <2>1, <2>2, AtFacts
    <2>4. Present(book[h], C, h) /\ ~(\E w \in book[h] : IsDiv(w, d))
          /\ \E O \in SUBSET Rows : Shifting(job[k], n, O, book[h])
        BY <1>2, <1>3, <2>3 DEF Busy, BusyDiv
    <2>5. PICK O \in SUBSET Rows : Shifting(job[k], n, O, book[h])
        BY <2>4
    <2>6. PICK U : U = job[k].undo
        OBVIOUS
    <2>7. /\ Chain(O) /\ Keyed(O) /\ book[h] = Shifted(O, U, n) /\ U \subseteq O
          /\ U = {w \in O : w.seq > s}
          /\ (s = 0 /\ b = 0) \/ \E v \in O : v.seq = s /\ v.bal = b
        BY <1>1, <1>4, <2>5, <2>6 DEF Shifting
    <2>8. \A w \in O : w.epoch <= x.epoch
        <3>1. \A v \in book[h] : v.epoch <= begun
            BY <2>3 DEF Content, Sourced
        <3>2. ASSUME NEW w \in O
              PROVE  \E v \in book[h] : v.epoch = w.epoch
            BY <1>5, <2>7, ShiftedHas
        <3>3. QED
            BY <1>8, <3>1, <3>2
    <2>9. Chain(book'[h])
        BY <1>5, <1>8, <1>10, <2>7, <2>8, CreditChain
    <2>10. Stable /\ \A i \in Nat : Claimed(i, h)' => Claimed(i, h)
        BY <1>12, <1>15, AtStable DEF Past
    <2>11. Present(book'[h], Claims(h)', h)
        <3>1. PICK D : D = Claims(h)'
            OBVIOUS
        <3>2. D \subseteq C
            BY <2>2, <2>10, <3>1 DEF Claims
        <3>3. Present(book'[h], D, h)
            BY <1>10, <2>4, <3>2 DEF Present, HasTrade
        <3>4. QED
            BY <3>1, <3>3
    <2>12. Content(h)'
        <3>1. Sourced(x, h)'
            <4>1. x.epoch <= begun' /\ x.by \in Jobs /\ job'[x.by].pc # "absent"
                BY <1>1, <1>5, <1>8, <1>12, <1>15, AtStable
            <4>2. QED
                BY <1>8, <4>1 DEF Sourced
        <3>2. \A w \in book[h] : ~(w.kind = x.kind /\ w.of = x.of)
            BY <1>8, <2>4 DEF IsDiv
        <3>3. \A e \in Dividends : <<e, h>> \in credited' <=> <<e, h>> \in credited \/ (x.kind = "div" /\ x.of = e)
            BY <1>8, <1>9
        <3>4. QED
            BY <1>1, <1>3, <1>8, <1>10, <2>3, <2>10, <3>1, <3>2, <3>3, ContentAdd
    <2>13. Settled(h)'
        <3>1. Chain(book[h])'
            BY <2>9 DEF Chain, Links
        <3>2. Present(book[h], Claims(h), h)'
            BY <2>11 DEF Present, HasTrade
        <3>3. QED
            BY <3>1, <3>2 DEF Settled
    <2>14. QED
        BY <1>3, <1>12, <2>12, <2>13 DEF Advances
<1>18. \A a \in Accounts : ~Past(p, a)
    BY <1>12 DEF Past
<1>19. QED
    BY <1>3, <1>12, <1>14, <1>15, <1>16, <1>17, <1>18, WorkGood

----------------------------------------------------------------------------
(* Appends and rebuilds at a passbook.                                      *)

LEMMA ClaimedLanded ==
    ASSUME Static, Shape, NEW i \in Nat, NEW a, Claimed(i, a)
    PROVE  i <= landed
<1>1. landed \in Nat
    BY Idle DEF Loose
<1>2. CASE i = 0
    BY <1>1, <1>2
<1>3. CASE i # 0
    <2>1. PICK j \in Jobs : job[j].of = i /\ job[j].type = "append"
        BY <1>3 DEF Claimed, Past
    <2>2. QED
        BY <2>1 DEF Shape, JobShape
<1>4. QED
    BY <1>2, <1>3

LEMMA WalkGood ==
    ASSUME Static, Static', BInv, NEW k \in Jobs, NEW p, NEW h, At(k, p, h), p.type # "div",
           NEW u, Becomes(k, p, u), \A a \in Accounts \ {h} : mishap[a] \subseteq u[a] /\ Same(a),
           mishap[h] \subseteq u[h] \/ Writing(p, h),
           JobShape(p), p.filter = job[k].filter, p.errs = job[k].errs \/ p.errs # 0,
           p.accts = job[k].accts \/ (p.accts = job[k].accts \ {h} /\ p.pc \in {"delete", "end"}),
           mishap'[h] = {} => Advances(k, p, h)
    PROVE  BInv'
<1>1. /\ job[k] \in JobRecord /\ Placed(job[k]) /\ h \in Accounts /\ h \in job[k].accts
      /\ h = Lowest(job[k].accts) /\ p \in JobRecord
      /\ job[k].pc \in Touching /\ p.type = job[k].type
    BY AtStable DEF At
<1>2. job[k].pc \in Walking
    BY <1>1 DEF Touching, Placed, Paying, Early
<1>3. \A a \in Accounts \ {h} : Past(p, a) => Past(job[k], a)
    BY <1>1, <1>2 DEF Past
<1>4. ASSUME NEW a \in Accounts \ {h}, Writing(p, a)
      PROVE  Enters(p, a)
    <2>1. p.accts # job[k].accts
        BY <1>1, <1>4 DEF Writing
    <2>2. p.pc = "delete"
        BY <1>4, <2>1 DEF Writing
    <2>3. p.type \in {"append", "rebuild"}
        BY <1>1 DEF JobRecord
    <2>4. QED
        BY <2>2, <2>3 DEF Enters
<1>5. QED
    BY <1>3, <1>4, WorkGood

(* It goes to the next account.                                             *)
LEMMA WalkNext ==
    ASSUME Static, NEW r \in JobRecord, Placed(r), r.type # "div", r.accts # {}, NEW h, h = Lowest(r.accts), r.of \in Nat,
           JobShape(r), NEW p, p = NextAccount(r)
    PROVE  /\ p \in JobRecord /\ p.pc \in {"delete", "end"} /\ p.pc # "absent"
           /\ p.type = r.type /\ p.of = r.of /\ p.filter = r.filter /\ p.errs = r.errs
           /\ p.accts = r.accts \ {h} /\ ~Writing(p, h) /\ JobShape(p)
<1>1. /\ p \in JobRecord
      /\ p.type = r.type /\ p.of = r.of /\ p.filter = r.filter /\ p.errs = r.errs
      /\ p.accts = r.accts \ {h} /\ p.undo = {}
      /\ p.pc = (IF p.accts = {} THEN "end" ELSE "delete")
    BY NextAccountIs
<1>2. JobShape(p)
    BY <1>1 DEF JobShape
<1>3. ~Writing(p, h)
    BY <1>1, LowestOf DEF Writing, JobRecord
<1>4. QED
    BY <1>1, <1>2, <1>3

LEMMA AccountFailsGood ==
    ASSUME Static, Static', BInv, NEW k \in Jobs, AccountFails(k)
    PROVE  BInv'
<1>1. /\ job[k].type # "div" /\ job[k].pc \in Walking /\ job[k].pc \in Touching
      /\ UNCHANGED <<begun, landed, book, credited>>
    BY DEF AccountFails, Div, Walking, Touching
<1>2. /\ job[k] \in JobRecord /\ Placed(job[k]) /\ JobShape(job[k]) /\ job[k].accts # {} /\ job[k].of \in Nat
    BY <1>1, Idle DEF BInv, Shape, Placed, JobRecord
<1>3. PICK r : r = [job[k] EXCEPT !.errs = 1]
    OBVIOUS
<1>4. /\ r \in JobRecord /\ r.type = job[k].type /\ r.of = job[k].of /\ r.filter = job[k].filter /\ r.pc = job[k].pc
      /\ r.accts = job[k].accts /\ r.errs = 1 /\ r.seq = job[k].seq /\ r.bal = job[k].bal /\ r.undo = job[k].undo
      /\ r.todo = job[k].todo
    BY <1>2, <1>3 DEF JobRecord
<1>5. Placed(r) /\ JobShape(r)
    <2>1. Placed(r)
        BY <1>2, <1>4 DEF Placed
    <2>2. JobShape(r)
        BY <1>1, <1>2, <1>4 DEF JobShape, Walking
    <2>3. QED
        BY <2>1, <2>2
<1>6. PICK h : h = Here(k)
    OBVIOUS
<1>7. h \in Accounts /\ h = Lowest(r.accts)
    BY <1>1, <1>4, <1>6, HereIn DEF Here
<1>8. PICK p : p = NextAccount(r)
    OBVIOUS
<1>9. /\ p \in JobRecord /\ p.pc \in {"delete", "end"} /\ p.pc # "absent"
      /\ p.type = r.type /\ p.of = r.of /\ p.filter = r.filter /\ p.errs = r.errs
      /\ p.accts = r.accts \ {h} /\ ~Writing(p, h) /\ JobShape(p)
    BY <1>1, <1>2, <1>4, <1>5, <1>7, <1>8, WalkNext
<1>10. PICK u : u = Upset(h, "partial")
    OBVIOUS
<1>11. u \in [Accounts -> SUBSET Mishaps] /\ (\A a \in Accounts : mishap[a] \subseteq u[a]) /\ "partial" \in u[h]
    BY <1>7, <1>10, UpsetIs DEF Mishaps
<1>12. Become(k, p, u)
    BY <1>3, <1>6, <1>8, <1>10 DEF AccountFails
<1>13. p.type = job[k].type /\ p.of = job[k].of /\ p.filter = job[k].filter /\ p.errs # 0 /\ p.type # "div"
    BY <1>1, <1>4, <1>9
<1>14. Becomes(k, p, u) /\ At(k, p, h)
    BY <1>1, <1>6, <1>9, <1>11, <1>12, <1>13, AtIf
<1>15. mishap'[h] # {}
    BY <1>7, <1>11, <1>14 DEF Becomes
<1>16. \A a \in Accounts \ {h} : mishap[a] \subseteq u[a] /\ Same(a)
    BY <1>1, <1>11 DEF Same
<1>17. p.accts = job[k].accts \ {h} /\ mishap[h] \subseteq u[h]
    BY <1>4, <1>7, <1>9, <1>11
<1>18. QED
    BY <1>9, <1>13, <1>14, <1>15, <1>16, <1>17, WalkGood

LEMMA WalkKilledGood ==
    ASSUME Static, Static', BInv, NEW k \in Jobs, WalkKilled(k)
    PROVE  BInv'
<1>1. /\ job[k].type # "div" /\ job[k].pc \notin {"absent", "done", "failed"}
      /\ UNCHANGED <<begun, landed, book, credited>>
    BY DEF WalkKilled, Div, AtWork, Open
<1>2. /\ job[k] \in JobRecord /\ Placed(job[k]) /\ JobShape(job[k])
      /\ landed <= begun /\ landed \in Nat /\ begun \in Nat
    BY Idle DEF BInv, Shape, Loose
<1>3. PICK p : p = IF Again(k) THEN [NewJob("append", job[k].of, job[k].filter) EXCEPT !.tries = job[k].tries + 1]
                   ELSE [job[k] EXCEPT !.pc = "failed", !.accts = {}]
    OBVIOUS
<1>4. /\ p \in JobRecord /\ p.type = job[k].type /\ p.of = job[k].of /\ p.accts = {} /\ JobShape(p)
      /\ p.pc \in {"queued", "failed"}
    <2>1. CASE Again(k)
        <3>1. job[k].of \in Nat /\ job[k].filter \in SUBSET Accounts /\ job[k].tries + 1 \in Nat /\ job[k].type = "append"
            BY <1>2, <2>1 DEF JobRecord, Again
        <3>2. /\ p \in JobRecord /\ p.type = "append" /\ p.of = job[k].of /\ p.filter = job[k].filter /\ p.pc = "queued"
              /\ p.undo = {} /\ p.accts = {}
            BY <1>3, <2>1, <3>1, NewShape
        <3>3. JobShape(p)
            BY <1>2, <3>1, <3>2 DEF JobShape
        <3>4. QED
            BY <3>1, <3>2, <3>3
    <2>2. CASE ~Again(k)
        <3>1. p = [job[k] EXCEPT !.pc = "failed", !.accts = {}]
            BY <1>3, <2>2
        <3>2. /\ p \in JobRecord /\ p.type = job[k].type /\ p.of = job[k].of /\ p.filter = job[k].filter
              /\ p.pc = "failed" /\ p.undo = job[k].undo /\ p.accts = {}
            BY <1>2, <3>1 DEF JobRecord, Pcs
        <3>3. JobShape(p)
            BY <1>2, <3>2 DEF JobShape
        <3>4. QED
            BY <3>2, <3>3
    <2>3. QED
        BY <2>1, <2>2
<1>5. PICK u : u = [a \in Accounts |-> mishap[a] \union (IF Writing(job[k], a) THEN {"partial"} ELSE {})]
    OBVIOUS
<1>6. /\ u \in [Accounts -> SUBSET Mishaps] /\ \A a \in Accounts : mishap[a] \subseteq u[a]
      /\ \A a \in Accounts : Writing(job[k], a) => u[a] # {}
    BY <1>5, Idle DEF Typed, Mishaps
<1>7. Become(k, p, u)
    BY <1>3, <1>5 DEF WalkKilled
<1>8. Becomes(k, p, u)
    BY <1>6, <1>7, BecomeMakes
<1>9. \A a \in Accounts : Same(a) /\ mishap[a] \subseteq mishap'[a] /\ ~Past(p, a) /\ ~Writing(p, a)
    BY <1>1, <1>4, <1>6, <1>8 DEF Same, Becomes, Past, Writing, Walking
<1>10. \A a \in Accounts : Writing(job[k], a) => mishap'[a] # {}
    BY <1>6, <1>8 DEF Becomes
<1>11. JobShape(p)'
    BY <1>1, <1>4 DEF JobShape
<1>12. p.pc # "absent"
    BY <1>4
<1>13. Good(k, p)
    BY <1>1, <1>2, <1>4, <1>8, <1>9, <1>10, <1>11, <1>12 DEF Good, Becomes
<1>14. QED
    BY <1>9, <1>13, GoodStep

LEMMA SofarNext ==
    ASSUME NEW c \in Nat, NEW d \in Nat
    PROVE  /\ (c - 1) * d \in Int /\ ((c + 1) - 1) * d = (c - 1) * d + d
           /\ (1 - 1) * d = 0
OBVIOUS

LEMMA RebuildDeleteGood ==
    ASSUME Static, Static', BInv, NEW k \in Jobs, RebuildDelete(k)
    PROVE  BInv'
<1>1. /\ job[k].type = "rebuild" /\ job[k].pc = "delete" /\ job[k].pc \in Touching
      /\ UNCHANGED <<begun, landed>>
    BY DEF RebuildDelete, Walking, Touching
<1>2. /\ job[k] \in JobRecord /\ Placed(job[k]) /\ JobShape(job[k]) /\ job[k].seq = 0 /\ job[k].bal = 0
    BY <1>1, Idle DEF BInv, Shape, Placed
<1>3. PICK h : h = Here(k)
    OBVIOUS
<1>4. h \in Accounts /\ h = Lowest(job[k].accts)
    BY <1>1, <1>3, HereIn DEF Walking, Here
<1>5. PICK p : p = [job[k] EXCEPT !.pc = "chunk", !.chunk = 1]
    OBVIOUS
<1>6. /\ p \in JobRecord /\ p.type = job[k].type /\ p.of = job[k].of /\ p.accts = job[k].accts /\ p.filter = job[k].filter
      /\ p.pc = "chunk" /\ p.undo = job[k].undo /\ p.errs = job[k].errs /\ p.seq = 0 /\ p.bal = 0 /\ p.chunk = 1
    BY <1>2, <1>5 DEF JobRecord, Pcs, Walking
<1>7. JobShape(p)
    BY <1>1, <1>2, <1>6 DEF JobShape
<1>8. PICK u : u = [mishap EXCEPT ![h] = {}]
    OBVIOUS
<1>9. u \in [Accounts -> SUBSET Mishaps] /\ \A a \in Accounts \ {h} : u[a] = mishap[a]
    BY <1>8, Idle DEF Typed
<1>10. Become(k, p, u)
    BY <1>3, <1>5, <1>8 DEF RebuildDelete
<1>11. p.pc # "absent" /\ p.type # "div"
    BY <1>1, <1>6
<1>12. Becomes(k, p, u) /\ At(k, p, h)
    BY <1>1, <1>3, <1>6, <1>9, <1>10, <1>11, AtIf
<1>13. Writing(p, h)
    <2>1. Writing(job[k], h)
        BY <1>12, AtStable
    <2>2. QED
        BY <1>6, <2>1 DEF Writing
<1>14. book'[h] = {} /\ \A a \in Accounts \ {h} : book'[a] = book[a]
    BY <1>3, <1>4, Idle DEF RebuildDelete, Loose
<1>15. credited' = {c \in credited : c[2] # h}
    BY <1>3 DEF RebuildDelete
<1>16. \A a \in Accounts \ {h} : mishap[a] \subseteq u[a] /\ Same(a)
    <2>1. \A d, a : a # h => (<<d, a>> \in credited' <=> <<d, a>> \in credited)
        BY <1>15
    <2>2. QED
        BY <1>9, <1>14, <2>1 DEF Same
<1>17. ASSUME mishap'[h] = {}
       PROVE  Advances(k, p, h)
    <2>1. Content(h)'
        <3>1. \A d : <<d, h>> \notin credited'
            BY <1>15
        <3>2. \A d : ~Has(d, h)'
            BY <1>14 DEF Has
        <3>3. Keyed(book[h])' /\ \A w \in book'[h] : Sourced(w, h)'
            BY <1>14 DEF Keyed
        <3>4. QED
            BY <3>1, <3>2, <3>3 DEF Content
    <2>2. PICK B, D, l : B = book'[h] /\ D = Claims(h)' /\ l = landed'
        OBVIOUS
    <2>3. Chain(B) /\ Top(B, 0, 0)
        <3>1. Links(B, 0)
            BY <1>14, <2>2 DEF Links
        <3>2. QED
            BY <1>14, <2>2, <3>1 DEF Chain, Top
    <2>4. \A t \in Trades : ~HasTrade(t, B)
        BY <1>14, <2>2 DEF HasTrade
    <2>5. \A t \in Trades : ~(t.date <= Sofar(p))
        <3>1. ChunkDays \in Nat
            BY PassbookAssumption
        <3>2. Sofar(p) = 0
            BY <1>6, <3>1, SofarNext DEF Sofar
        <3>3. QED
            BY <3>2, TradeFacts
    <2>6. BusyRebuild(p, h, B, D, l)
        BY <1>6, <2>3, <2>4, <2>5 DEF BusyRebuild
    <2>7. Busy(k, p, h, B, D, l)
        BY <1>1, <1>6, <2>6 DEF Busy
    <2>8. QED
        BY <1>13, <2>1, <2>2, <2>7 DEF Advances
<1>18. QED
    BY <1>6, <1>7, <1>11, <1>12, <1>13, <1>16, <1>17, WalkGood

(* A step that reads the passbook, or the trades for it.                    *)
LEMMA ReadsGood ==
    ASSUME Static, Static', BInv, NEW k \in Jobs, NEW p, NEW h, At(k, p, h), p.type # "div",
           NEW u, Becomes(k, p, u), \A a \in Accounts : mishap[a] \subseteq u[a],
           UNCHANGED <<book, credited>>,
           JobShape(p), p.filter = job[k].filter, p.errs = job[k].errs,
           p.accts = job[k].accts, p.pc \in Walking, p.todo \subseteq Trades, p.of \in Nat,
           NEW C, C = Claims(h), mishap[h] = {} => Busy(k, p, h, book[h], C, landed)
    PROVE  BInv'
<1>1. /\ h \in Accounts /\ h \in job[k].accts /\ h = Lowest(job[k].accts) /\ Stable
      /\ begun' = begun /\ landed' = landed /\ landed \in Nat /\ begun \in Nat
    <2>1. /\ h \in Accounts /\ h \in job[k].accts /\ h = Lowest(job[k].accts) /\ Stable
          /\ landed \in Nat /\ begun \in Nat
        BY AtStable
    <2>2. begun' = begun /\ landed' = landed
        BY DEF At
    <2>3. QED
        BY <2>1, <2>2
<1>2. \A a \in Accounts : Same(a)
    BY DEF Same
<1>3. Writing(p, h) /\ ~Past(p, h)
    BY <1>1 DEF Writing, Walking, Past
<1>4. ASSUME mishap'[h] = {}
      PROVE  Advances(k, p, h)
    <2>1. mishap[h] = {}
        BY <1>1, <1>4 DEF Becomes
    <2>2. Content(h)
        BY <2>1, AtFacts
    <2>3. \A i \in Nat : Claimed(i, h)' => Claimed(i, h)
        BY <1>3, AtStable
    <2>4. \A d \in Dividends : <<d, h>> \in credited' <=> <<d, h>> \in credited
        OBVIOUS
    <2>5. Content(h)'
        BY <1>1, <2>2, <2>3, <2>4, ContentStays
    <2>6. PICK D, B, l : D = Claims(h)' /\ B = book[h] /\ l = landed
        OBVIOUS
    <2>7. D \subseteq C /\ l \in Nat /\ l <= l
        BY <1>1, <2>3, <2>6 DEF Claims
    <2>8. Busy(k, p, h, B, C, l)
        BY <2>1, <2>6
    <2>9. Busy(k, p, h, B, D, l)
        BY <2>7, <2>8, BusyStays
    <2>10. book'[h] = B /\ landed' = l
        BY <1>1, <2>6
    <2>11. QED
        BY <1>3, <2>5, <2>6, <2>9, <2>10 DEF Advances
<1>5. QED
    BY <1>1, <1>2, <1>4, WalkGood

(* A step that finds nothing to do there.                                   *)
LEMMA PassesGood ==
    ASSUME Static, Static', BInv, NEW k \in Jobs, job[k].pc \in Walking, Go(k, NextAccount(job[k])),
           UNCHANGED <<begun, landed, book, credited>>, NEW h, h = Here(k),
           NEW C, C = Claims(h),
           Content(h) /\ Busy(k, job[k], h, book[h], C, landed) =>
              /\ Chain(book[h]) /\ Present(book[h], C, h)
              /\ job[k].type = "append" => /\ \A w \in book[h] : w.epoch < job[k].of
                                           /\ \A t \in Trades : t.acct = h => t.import # job[k].of
    PROVE  BInv'
<1>1. /\ job[k] \in JobRecord /\ Placed(job[k]) /\ JobShape(job[k]) /\ job[k].accts # {} /\ job[k].of \in Nat
      /\ job[k].type # "div" /\ job[k].pc \in Touching
    BY Idle DEF BInv, Shape, Placed, JobRecord, Touching, Walking
<1>2. h \in Accounts /\ h = Lowest(job[k].accts)
    BY HereIn DEF Here
<1>3. PICK p : p = NextAccount(job[k])
    OBVIOUS
<1>4. /\ p \in JobRecord /\ p.pc \in {"delete", "end"} /\ p.pc # "absent"
      /\ p.type = job[k].type /\ p.of = job[k].of /\ p.filter = job[k].filter /\ p.errs = job[k].errs
      /\ p.accts = job[k].accts \ {h} /\ ~Writing(p, h) /\ JobShape(p)
    BY <1>1, <1>2, <1>3, WalkNext
<1>5. PICK u \in [Accounts -> SUBSET Mishaps] : Become(k, p, u) /\ \A a \in Accounts : mishap[a] \subseteq u[a]
    BY <1>3, SameMishap
<1>6. Becomes(k, p, u) /\ At(k, p, h)
    BY <1>1, <1>4, <1>5, AtIf
<1>7. \A a \in Accounts : Same(a)
    BY DEF Same
<1>8. ASSUME mishap'[h] = {}
      PROVE  Advances(k, p, h)
    <2>1. mishap[h] = {}
        BY <1>2, <1>5, <1>6, <1>8 DEF Becomes
    <2>2. PICK l : l = landed
        OBVIOUS
    <2>3. Content(h) /\ Busy(k, job[k], h, book[h], C, l)
        BY <1>6, <2>1, <2>2, AtFacts
    <2>4. /\ Chain(book[h]) /\ Present(book[h], C, h)
          /\ job[k].type = "append" => /\ \A w \in book[h] : w.epoch < job[k].of
                                       /\ \A t \in Trades : t.acct = h => t.import # job[k].of
        BY <2>2, <2>3
    <2>5. Stable /\ \A i \in Nat : Claimed(i, h)' => Claimed(i, h) \/ (i = p.of /\ p.type = "append")
        BY <1>6, AtStable DEF Past
    <2>6. Content(h)'
        <3>1. \A i \in Nat : Claimed(i, h)' => \/ Claimed(i, h)
                                               \/ \A w \in book[h] : w.epoch < i \/ (w.by \in Jobs /\ job[w.by].of = i)
            BY <1>4, <2>4, <2>5
        <3>2. \A v \in book'[h] : \E w \in book[h] : v.kind = w.kind /\ v.of = w.of /\ v.by = w.by /\ v.epoch = w.epoch
            OBVIOUS
        <3>3. \A w \in book[h] : w.kind = "div" => \E v \in book'[h] : v.kind = w.kind /\ v.of = w.of
            OBVIOUS
        <3>4. \A d \in Dividends : <<d, h>> \in credited' <=> <<d, h>> \in credited
            OBVIOUS
        <3>5. Keyed(book'[h]) /\ begun' = begun
            BY <2>3 DEF Content
        <3>6. QED
            BY <1>2, <2>3, <2>5, <3>1, <3>2, <3>3, <3>4, <3>5, ContentLike
    <2>7. Settled(h)'
        <3>1. Chain(book[h])'
            BY <2>4 DEF Chain, Links
        <3>2. PICK D : D = Claims(h)'
            OBVIOUS
        <3>3. \A i \in D : i \in C \/ (i = p.of /\ p.type = "append")
            BY <2>5, <3>2 DEF Claims
        <3>4. Present(book[h], D, h)
            BY <1>4, <2>4, <3>3 DEF Present
        <3>5. Present(book[h], Claims(h), h)'
            BY <3>2, <3>4 DEF Present, HasTrade
        <3>6. QED
            BY <3>1, <3>5 DEF Settled
    <2>8. QED
        BY <1>4, <2>6, <2>7 DEF Advances
<1>9. \A a \in Accounts \ {h} : mishap[a] \subseteq u[a] /\ Same(a)
    BY <1>5, <1>7
<1>10. mishap[h] \subseteq u[h] /\ p.type # "div"
    BY <1>1, <1>2, <1>4, <1>5
<1>11. QED
    BY <1>4, <1>6, <1>8, <1>9, <1>10, WalkGood

LEMMA ReadChunkGood ==
    ASSUME Static, Static', BInv, NEW k \in Jobs, ReadChunk(k)
    PROVE  BInv'
<1>1. job[k].pc = "chunk" /\ job[k].pc \in Walking /\ job[k].pc \in Touching /\ UNCHANGED <<begun, landed, book, credited>>
    BY DEF ReadChunk, Walking, Touching
<1>2. /\ job[k] \in JobRecord /\ Placed(job[k]) /\ JobShape(job[k]) /\ job[k].type = "rebuild"
      /\ landed \in Nat /\ Shape
    BY <1>1, Idle DEF BInv, Shape, JobShape, Loose
<1>3. PICK h, C, c, from : h = Here(k) /\ C = Claims(h) /\ c = job[k].chunk /\ from = (c - 1) * ChunkDays
    OBVIOUS
<1>4. h \in Accounts
    BY <1>1, <1>3, HereIn
<1>5. PICK mine : mine = {t \in Trades : t.import <= landed /\ t.acct = h /\ t.date > from /\ t.date <= from + ChunkDays}
    OBVIOUS
<1>6. PICK n : n = [job[k] EXCEPT !.chunk = c + 1]
    OBVIOUS
<1>7. Go(k, IF from >= LastDay THEN NextAccount(job[k])
            ELSE IF mine = {} THEN n
            ELSE [n EXCEPT !.todo = mine, !.pc = "insert"])
    BY <1>3, <1>5, <1>6 DEF ReadChunk
<1>8. c \in Nat /\ ChunkDays \in Nat /\ from \in Int /\ ((c + 1) - 1) * ChunkDays = from + ChunkDays /\ LastDay \in Nat
    <2>1. c \in Nat /\ ChunkDays \in Nat /\ LastDay \in Nat
        BY <1>2, <1>3, PassbookAssumption DEF JobRecord
    <2>2. QED
        BY <1>3, <2>1, SofarNext
<1>9. Sofar(job[k]) = from
    BY <1>3 DEF Sofar
<1>10. PICK B, l : B = book[h] /\ l = landed
    OBVIOUS
<1>11. ASSUME Busy(k, job[k], h, B, C, l)
       PROVE  /\ c > 0 /\ Chain(B) /\ Top(B, job[k].seq, job[k].bal)
              /\ \A t \in Trades : t.acct = h /\ HasTrade(t, B) => t.date <= from
              /\ \A t \in Trades : t.acct = h /\ t.import \in C /\ t.date <= from => HasTrade(t, B)
    BY <1>1, <1>2, <1>3, <1>9, <1>11 DEF Busy, BusyRebuild
<1>12. CASE from >= LastDay
    <2>1. Go(k, NextAccount(job[k]))
        BY <1>7, <1>12
    <2>2. ASSUME Busy(k, job[k], h, book[h], C, landed)
          PROVE  Chain(book[h]) /\ Present(book[h], C, h)
        <3>1. Busy(k, job[k], h, B, C, l)
            BY <1>10, <2>2
        <3>2. \A t \in Trades : t.date <= from
            BY <1>8, <1>12, TradeFacts
        <3>3. QED
            BY <1>10, <1>11, <3>1, <3>2 DEF Present
    <2>3. job[k].type # "append"
        BY <1>2
    <2>4. QED
        BY <1>1, <1>3, <2>1, <2>2, <2>3, PassesGood
<1>13. CASE ~(from >= LastDay)
    <2>1. c + 1 \in Nat
        BY <1>8
    <2>2. /\ n \in JobRecord /\ n.type = job[k].type /\ n.of = job[k].of /\ n.accts = job[k].accts /\ n.filter = job[k].filter
          /\ n.pc = "chunk" /\ n.undo = job[k].undo /\ n.errs = job[k].errs /\ n.seq = job[k].seq /\ n.bal = job[k].bal
          /\ n.chunk = c + 1 /\ n.todo = job[k].todo
        BY <1>1, <1>2, <1>6, <2>1 DEF JobRecord
    <2>3. PICK p : p = IF mine = {} THEN n ELSE [n EXCEPT !.todo = mine, !.pc = "insert"]
        OBVIOUS
    <2>4. /\ p \in JobRecord /\ p.type = job[k].type /\ p.of = job[k].of /\ p.accts = job[k].accts /\ p.filter = job[k].filter
          /\ p.undo = job[k].undo /\ p.errs = job[k].errs /\ p.seq = job[k].seq /\ p.bal = job[k].bal
          /\ p.chunk = c + 1
          /\ \/ p.pc = "chunk" /\ mine = {}
             \/ p.pc = "insert" /\ p.todo = mine
        BY <1>5, <2>2, <2>3 DEF JobRecord, Pcs, Walking
    <2>5. Go(k, p)
        BY <1>7, <1>13, <2>3
    <2>6. PICK u \in [Accounts -> SUBSET Mishaps] : Become(k, p, u) /\ \A a \in Accounts : mishap[a] \subseteq u[a]
        BY <2>5, SameMishap
    <2>7. p.pc # "absent" /\ p.pc \in Walking /\ p.type # "div"
        BY <1>2, <2>4 DEF Walking
    <2>8. Becomes(k, p, u) /\ At(k, p, h)
        BY <1>1, <1>3, <2>4, <2>6, <2>7, AtIf
    <2>9. JobShape(p)
        BY <1>1, <1>2, <2>4 DEF JobShape
    <2>10. Sofar(p) = from + ChunkDays
        BY <1>8, <2>4 DEF Sofar
    <2>11. ASSUME Busy(k, job[k], h, B, C, l)
           PROVE  Busy(k, p, h, B, C, l)
        <3>1. /\ c > 0 /\ Chain(B) /\ Top(B, job[k].seq, job[k].bal)
              /\ \A t \in Trades : t.acct = h /\ HasTrade(t, B) => t.date <= from
              /\ \A t \in Trades : t.acct = h /\ t.import \in C /\ t.date <= from => HasTrade(t, B)
            BY <1>11, <2>11
        <3>2. \A t \in Trades : t.date \in Nat /\ t.import \in Nat
            BY TradeFacts
        <3>3. p.chunk > 0 /\ Top(B, p.seq, p.bal)
            BY <1>8, <2>4, <3>1
        <3>4. \A t \in Trades : t.acct = h /\ HasTrade(t, B) => t.date <= Sofar(p)
            BY <1>8, <2>10, <3>1, <3>2
        <3>5. ASSUME NEW t \in Trades, t.acct = h, t.import \in C, t.date <= Sofar(p), ~HasTrade(t, B)
              PROVE  p.pc = "insert" /\ t \in p.todo
            <4>1. ~(t.date <= from)
                BY <3>1, <3>5
            <4>2. t.date > from /\ t.date <= from + ChunkDays
                BY <1>8, <2>10, <3>2, <3>5, <4>1
            <4>3. t.import <= landed
                BY <1>2, <1>3, <3>2, <3>5, ClaimedLanded DEF Claims
            <4>4. t \in mine
                BY <1>5, <3>5, <4>2, <4>3
            <4>5. QED
                BY <2>4, <4>4
        <3>6. ASSUME p.pc = "insert", NEW t \in p.todo
              PROVE  t.acct = h /\ t.import <= l /\ t.date <= Sofar(p) /\ ~HasTrade(t, B)
            <4>1. t \in mine
                BY <2>4, <3>6
            <4>2. t \in Trades /\ t.acct = h /\ t.import <= landed /\ t.date > from /\ t.date <= from + ChunkDays
                BY <1>5, <4>1
            <4>3. ~(t.date <= from)
                BY <1>8, <3>2, <4>2
            <4>4. QED
                BY <1>10, <2>10, <3>1, <4>2, <4>3
        <3>7. BusyRebuild(p, h, B, C, l)
            BY <3>1, <3>3, <3>4, <3>5, <3>6 DEF BusyRebuild
        <3>8. QED
            BY <1>2, <2>4, <3>7 DEF Busy
    <2>12. mishap[h] = {} => Busy(k, p, h, book[h], C, landed)
        <3>1. mishap[h] = {} => Busy(k, job[k], h, B, C, l)
            BY <1>3, <1>10, <2>8, AtFacts
        <3>2. QED
            BY <1>10, <2>11, <3>1
    <2>13. p.todo \subseteq Trades /\ p.of \in Nat
        BY <2>4 DEF JobRecord
    <2>14. QED
        BY <1>1, <1>3, <2>4, <2>6, <2>7, <2>8, <2>9, <2>12, <2>13, ReadsGood
<1>14. QED
    BY <1>12, <1>13

LEMMA FetchEventsGood ==
    ASSUME Static, Static', BInv, NEW k \in Jobs, FetchEvents(k)
    PROVE  BInv'
<1>1. job[k].pc = "fetch" /\ job[k].pc \in Walking /\ job[k].pc \in Touching /\ UNCHANGED <<begun, landed, book, credited>>
    BY DEF FetchEvents, Walking, Touching
<1>2. /\ job[k] \in JobRecord /\ Placed(job[k]) /\ JobShape(job[k]) /\ job[k].type = "append"
      /\ job[k].of <= landed /\ job[k].of \in Nat /\ landed \in Nat /\ job[k].seq = 0 /\ job[k].bal = 0
    BY <1>1, Idle DEF BInv, Shape, JobShape, Loose, JobRecord
<1>3. PICK h, C, o : h = Here(k) /\ C = Claims(h) /\ o = job[k].of
    OBVIOUS
<1>4. h \in Accounts
    BY <1>1, <1>3, HereIn
<1>5. PICK mine : mine = {t \in Trades : t.import \in o .. landed /\ t.acct = h}
    OBVIOUS
<1>6. \A t \in Trades : t \in mine <=> o <= t.import /\ t.import <= landed /\ t.acct = h
    BY <1>2, <1>3, <1>5, TradeFacts
<1>7. Go(k, IF mine = {} THEN NextAccount(job[k]) ELSE [job[k] EXCEPT !.todo = mine, !.pc = "tail"])
    BY <1>3, <1>5 DEF FetchEvents
<1>8. ASSUME Busy(k, job[k], h, book[h], C, landed)
      PROVE  Chain(book[h]) /\ Present(book[h], C, h) /\ \A w \in book[h] : w.epoch < o
    BY <1>1, <1>2, <1>3, <1>8 DEF Busy, BusyAppend
<1>9. CASE mine = {}
    <2>1. Go(k, NextAccount(job[k]))
        BY <1>7, <1>9
    <2>2. \A t \in Trades : t.acct = h => t.import # o
        BY <1>2, <1>3, <1>6, <1>9
    <2>3. QED
        BY <1>1, <1>3, <1>8, <2>1, <2>2, PassesGood
<1>10. CASE mine # {}
    <2>1. PICK p : p = [job[k] EXCEPT !.todo = mine, !.pc = "tail"]
        OBVIOUS
    <2>2. mine \in SUBSET Trades
        BY <1>5
    <2>3. /\ p \in JobRecord /\ p.type = job[k].type /\ p.of = job[k].of /\ p.accts = job[k].accts /\ p.filter = job[k].filter
          /\ p.pc = "tail" /\ p.undo = job[k].undo /\ p.errs = job[k].errs /\ p.seq = job[k].seq /\ p.bal = job[k].bal
          /\ p.todo = mine
        BY <1>2, <2>1, <2>2 DEF JobRecord, Pcs, Walking
    <2>4. Go(k, p)
        BY <1>7, <1>10, <2>1
    <2>5. PICK u \in [Accounts -> SUBSET Mishaps] : Become(k, p, u) /\ \A a \in Accounts : mishap[a] \subseteq u[a]
        BY <2>4, SameMishap
    <2>6. p.pc # "absent" /\ p.pc \in Walking /\ p.type # "div"
        BY <1>2, <2>3 DEF Walking
    <2>7. Becomes(k, p, u) /\ At(k, p, h)
        BY <1>1, <1>3, <2>3, <2>5, <2>6, AtIf
    <2>8. JobShape(p)
        BY <1>1, <1>2, <2>3 DEF JobShape
    <2>9. ASSUME mishap[h] = {}
          PROVE  Busy(k, p, h, book[h], C, landed)
        <3>1. Content(h) /\ Busy(k, job[k], h, book[h], C, landed)
            BY <1>3, <2>7, <2>9, AtFacts
        <3>2. Chain(book[h]) /\ Present(book[h], C, h) /\ \A w \in book[h] : w.epoch < o
            BY <1>8, <3>1
        <3>3. ASSUME NEW t \in mine
              PROVE  t.acct = h /\ o <= t.import /\ t.import <= landed /\ ~HasTrade(t, book[h])
            <4>1. t \in Trades /\ t.acct = h /\ o <= t.import /\ t.import <= landed
                BY <1>5, <1>6, <3>3
            <4>2. ASSUME NEW w \in book[h], w.kind = "txn", w.of = t.rank
                  PROVE  FALSE
                <5>1. PICK s \in Trades : s.rank = w.of /\ s.import <= w.epoch
                    BY <3>1, <4>2 DEF Content, Sourced
                <5>2. s = t
                    BY <4>1, <4>2, <5>1, TradeFacts
                <5>3. w.epoch < o /\ w.epoch \in Nat /\ t.import \in Nat /\ o \in Nat
                    BY <1>2, <1>3, <1>4, <3>2, <4>1, Idle, TradeFacts DEF Loose, Rows
                <5>4. QED
                    BY <4>1, <5>1, <5>2, <5>3
            <4>3. QED
                BY <4>1, <4>2 DEF HasTrade
        <3>4. \A t \in Trades : t.acct = h /\ t.import = o => t \in mine
            BY <1>2, <1>3, <1>6
        <3>5. BusyAppend(k, p, h, book[h], C, landed)
            BY <1>3, <2>3, <3>2, <3>3, <3>4 DEF BusyAppend
        <3>6. QED
            BY <1>2, <2>3, <3>5 DEF Busy
    <2>10. p.todo \subseteq Trades /\ p.of \in Nat
        BY <1>2, <2>2, <2>3
    <2>11. QED
        BY <1>1, <1>3, <2>3, <2>5, <2>6, <2>7, <2>8, <2>9, <2>10, ReadsGood
<1>11. QED
    BY <1>9, <1>10

LEMMA ReadTailGood ==
    ASSUME Static, Static', BInv, NEW k \in Jobs, ReadTail(k)
    PROVE  BInv'
<1>1. job[k].pc = "tail" /\ job[k].pc \in Walking /\ job[k].pc \in Touching /\ UNCHANGED <<begun, landed, book, credited>>
    BY DEF ReadTail, Walking, Touching
<1>2. /\ job[k] \in JobRecord /\ Placed(job[k]) /\ JobShape(job[k]) /\ job[k].type = "append"
      /\ job[k].of \in Nat /\ job[k].seq = 0 /\ job[k].bal = 0 /\ job[k].todo \in SUBSET Trades
    BY <1>1, Idle DEF BInv, Shape, JobShape, JobRecord
<1>3. PICK h, C, B : h = Here(k) /\ C = Claims(h) /\ B = book[h]
    OBVIOUS
<1>4. h \in Accounts /\ B \in SUBSET Rows
    BY <1>1, <1>3, HereIn, Idle DEF Loose
<1>5. PICK s, b, p : /\ s \in Int /\ b \in Int /\ Top(B, s, b) /\ Go(k, p)
                     /\ p = [job[k] EXCEPT !.seq = s, !.bal = b, !.pc = "insert"]
    <2>1. CASE B = {}
        <3>1. Go(k, [job[k] EXCEPT !.pc = "insert"])
            BY <1>3, <2>1 DEF ReadTail
        <3>2. PICK s, b, p : s = 0 /\ b = 0 /\ p = [job[k] EXCEPT !.pc = "insert"]
            OBVIOUS
        <3>3. p = [job[k] EXCEPT !.seq = s, !.bal = b, !.pc = "insert"]
            BY <1>2, <3>2 DEF JobRecord
        <3>4. s \in Int /\ b \in Int /\ Top(B, s, b)
            BY <2>1, <3>2 DEF Top
        <3>5. Go(k, p)
            BY <3>1, <3>2
        <3>6. QED
            BY <3>3, <3>4, <3>5
    <2>2. CASE B # {}
        <3>1. PICK w \in B : /\ \A v \in B : v.seq <= w.seq
                             /\ Go(k, [job[k] EXCEPT !.seq = w.seq, !.bal = w.bal, !.pc = "insert"])
            BY <1>3, <2>2 DEF ReadTail
        <3>2. w.seq \in Int /\ w.bal \in Int
            BY <1>4 DEF Rows
        <3>3. Top(B, w.seq, w.bal)
            BY <3>1 DEF Top
        <3>4. QED
            BY <3>1, <3>2, <3>3
    <2>3. QED
        BY <2>1, <2>2
<1>6. /\ p \in JobRecord /\ p.type = job[k].type /\ p.of = job[k].of /\ p.accts = job[k].accts /\ p.filter = job[k].filter
      /\ p.pc = "insert" /\ p.undo = job[k].undo /\ p.errs = job[k].errs /\ p.seq = s /\ p.bal = b
      /\ p.todo = job[k].todo
    BY <1>2, <1>5 DEF JobRecord, Pcs, Walking
<1>7. PICK u \in [Accounts -> SUBSET Mishaps] : Become(k, p, u) /\ \A a \in Accounts : mishap[a] \subseteq u[a]
    BY <1>5, SameMishap
<1>8. p.pc # "absent" /\ p.pc \in Walking /\ p.type # "div"
    BY <1>2, <1>6 DEF Walking
<1>9. Becomes(k, p, u) /\ At(k, p, h)
    BY <1>1, <1>3, <1>6, <1>7, <1>8, AtIf
<1>10. JobShape(p)
    BY <1>1, <1>2, <1>6 DEF JobShape
<1>11. ASSUME mishap[h] = {}
       PROVE  Busy(k, p, h, book[h], C, landed)
    <2>1. Busy(k, job[k], h, B, C, landed)
        BY <1>3, <1>9, <1>11, AtFacts
    <2>2. BusyAppend(k, job[k], h, B, C, landed)
        BY <1>2, <2>1 DEF Busy
    <2>3. \A w \in B : w.epoch < job[k].of /\ w.epoch \in Nat
        BY <1>1, <1>4, <2>2 DEF BusyAppend, Rows
    <2>4. \A w \in B : job[k].of <= w.epoch => w.by = k
        BY <1>2, <2>3
    <2>5. BusyAppend(k, p, h, B, C, landed)
        BY <1>1, <1>5, <1>6, <2>2, <2>4 DEF BusyAppend
    <2>6. QED
        BY <1>2, <1>3, <1>6, <2>5 DEF Busy
<1>12. p.todo \subseteq Trades /\ p.of \in Nat
    BY <1>2, <1>6
<1>13. QED
    BY <1>1, <1>3, <1>6, <1>7, <1>8, <1>9, <1>10, <1>11, <1>12, ReadsGood

(* Nothing of another writer being deleted, what is deleted are the rows of *)
(* this upload and of later ones, which no append has behind it.            *)
LEMMA AppendDeleteGood ==
    ASSUME Static, Static', DividendRows, BInv, NEW k \in Jobs, AppendDelete(k)
    PROVE  BInv'
<1>1. job[k].pc = "delete" /\ job[k].type = "append" /\ job[k].pc \in Walking /\ job[k].pc \in Touching /\ UNCHANGED <<begun, landed>>
    BY DEF AppendDelete, Walking, Touching
<1>2. /\ job[k] \in JobRecord /\ Placed(job[k]) /\ JobShape(job[k])
      /\ job[k].of \in Nat /\ 0 < job[k].of /\ Shape /\ landed \in Nat
    BY <1>1, Idle DEF BInv, Shape, JobShape, JobRecord, Loose
<1>3. PICK h, B, o : h = Here(k) /\ B = book[h] /\ o = job[k].of
    OBVIOUS
<1>4. h \in Accounts /\ B \in SUBSET Rows
    BY <1>1, <1>3, HereIn, Idle DEF Loose
<1>5. PICK since, others : since = {w \in B : w.epoch >= o} /\ others = {w \in since : w.by # k}
    OBVIOUS
<1>6. /\ book' = [book EXCEPT ![h] = B \ since]
      /\ credited' = credited \ {<<w.of, h>> : w \in {v \in since : v.kind = "div"}}
      /\ Become(k, [job[k] EXCEPT !.pc = "fetch"], IF others # {} THEN Upset(h, "swept") ELSE mishap)
    BY <1>3, <1>5 DEF AppendDelete
<1>7. PICK p : p = Turned(job[k], "fetch")
    OBVIOUS
<1>8. /\ p \in JobRecord /\ p.type = job[k].type /\ p.of = job[k].of /\ p.accts = job[k].accts /\ p.filter = job[k].filter
      /\ p.pc = "fetch" /\ p.undo = job[k].undo /\ p.errs = job[k].errs /\ p.seq = job[k].seq /\ p.bal = job[k].bal
    BY <1>2, <1>7, TurnedIs DEF Pcs, Walking
<1>9. PICK u : u = IF others # {} THEN Upset(h, "swept") ELSE mishap
    OBVIOUS
<1>10. /\ u \in [Accounts -> SUBSET Mishaps] /\ (\A a \in Accounts : mishap[a] \subseteq u[a])
       /\ others # {} => u[h] # {}
    <2>1. CASE others # {}
        BY <1>4, <1>9, <2>1, UpsetIs DEF Mishaps
    <2>2. CASE others = {}
        BY <1>9, <2>2, Idle DEF Typed
    <2>3. QED
        BY <2>1, <2>2
<1>11. Become(k, p, u)
    BY <1>6, <1>7, <1>9 DEF Turned
<1>12. p.pc # "absent" /\ p.type # "div"
    BY <1>1, <1>8
<1>13. Becomes(k, p, u) /\ At(k, p, h)
    BY <1>1, <1>3, <1>8, <1>10, <1>11, <1>12, AtIf
<1>14. book'[h] = B \ since /\ \A a \in Accounts \ {h} : book'[a] = book[a]
    BY <1>4, <1>6, Idle DEF Loose
<1>15. \A a \in Accounts \ {h} : mishap[a] \subseteq u[a] /\ Same(a)
    <2>1. \A d, a : a # h => (<<d, a>> \in credited' <=> <<d, a>> \in credited)
        BY <1>6
    <2>2. QED
        BY <1>10, <1>14, <2>1 DEF Same
<1>16. JobShape(p)
    BY <1>1, <1>2, <1>8 DEF JobShape, Placed
<1>17. /\ Stable /\ ~Past(job[k], h) /\ h \in job[k].accts /\ Writing(job[k], h)
       /\ \A i \in Nat : Claimed(i, h)' => Claimed(i, h) \/ (i = p.of /\ Past(p, h))
    BY <1>13, AtStable
<1>18. Writing(p, h) /\ ~Past(p, h)
    BY <1>8, <1>17 DEF Writing, Past
<1>19. ASSUME mishap'[h] = {}
       PROVE  Advances(k, p, h)
    <2>1. mishap[h] = {} /\ others = {}
        BY <1>4, <1>10, <1>13, <1>19 DEF Becomes
    <2>2. \A w \in since : w.by = k /\ w.kind = "txn"
        <3>1. SUFFICES ASSUME NEW w \in since
                       PROVE  w.by = k /\ w.kind = "txn"
            OBVIOUS
        <3>2. w.by = k /\ w \in book[h] /\ w.kind \in {"txn", "div"}
            BY <1>3, <1>4, <1>5, <2>1 DEF Rows
        <3>3. ~(w.kind = "div")
            BY <1>1, <1>4, <3>2 DEF DividendRows, DividendRow
        <3>4. QED
            BY <3>2, <3>3
    <2>3. credited' = credited
        BY <1>6, <2>2
    <2>4. PICK C, D, l : C = Claims(h) /\ D = Claims(h)' /\ l = landed
        OBVIOUS
    <2>5. Content(h) /\ Busy(k, job[k], h, B, C, l)
        BY <1>3, <1>13, <2>1, <2>4, AtFacts
    <2>6. Chain(B) /\ Present(B, C, h)
        BY <1>1, <2>5 DEF Busy, BusyAppend
    <2>7. Chain(B \ since)
        <3>1. \A w \in since : w.kind = "txn"
            BY <2>2
        <3>2. o \in Nat /\ since = {w \in B : w.epoch >= o}
            BY <1>2, <1>3, <1>5
        <3>3. QED
            BY <1>4, <2>6, <3>1, <3>2, CutTop
    <2>8. D \subseteq C
        BY <1>17, <1>18, <2>4 DEF Claims
    <2>9. \A w \in B \ since : w.epoch < o
        BY <1>2, <1>3, <1>4, <1>5 DEF Rows
    <2>10. ASSUME NEW t \in Trades, t.acct = h, t.import \in C
           PROVE  HasTrade(t, B \ since)
        <3>1. PICK w \in B : w.kind = "txn" /\ w.of = t.rank
            BY <2>6, <2>10 DEF Present, HasTrade
        <3>2. ASSUME w \in since
              PROVE  FALSE
            <4>1. w.by = k
                BY <2>2, <3>2
            <4>2. Sourced(w, h)
                BY <1>3, <2>5, <3>1 DEF Content
            <4>3. PICK s \in Trades : s.rank = w.of /\ (Claimed(s.import, h) => s.import = job[k].of)
                BY <1>1, <3>1, <4>1, <4>2 DEF Sourced
            <4>4. s = t
                BY <3>1, <4>3, TradeFacts
            <4>5. Claimed(t.import, h) /\ t.import = job[k].of
                BY <2>4, <2>10, <4>3, <4>4 DEF Claims
            <4>6. PICK j \in Jobs : job[j].of = job[k].of /\ Past(job[j], h)
                BY <1>2, <4>5 DEF Claimed
            <4>7. j = k
                BY <1>1, <1>2, <4>6 DEF Shape, Past
            <4>8. QED
                BY <1>17, <4>6, <4>7
        <3>3. QED
            BY <3>1, <3>2 DEF HasTrade
    <2>11. Busy(k, p, h, B \ since, D, l)
        <3>1. Present(B \ since, D, h)
            BY <2>8, <2>10 DEF Present
        <3>2. BusyAppend(k, p, h, B \ since, D, l)
            BY <1>3, <1>8, <2>7, <2>9, <3>1 DEF BusyAppend
        <3>3. QED
            BY <1>1, <1>8, <3>2 DEF Busy
    <2>12. Content(h)'
        <3>1. Keyed(book'[h]) /\ begun' = begun
            BY <1>1, <1>3, <1>14, <2>5, KeyedSubset DEF Content
        <3>2. \A v \in book'[h] : \E w \in book[h] : v.kind = w.kind /\ v.of = w.of /\ v.by = w.by /\ v.epoch = w.epoch
            BY <1>3, <1>14
        <3>3. \A w \in book[h] : w.kind = "div" => \E v \in book'[h] : v.kind = w.kind /\ v.of = w.of
            BY <1>3, <1>14, <2>2
        <3>4. \A d \in Dividends : <<d, h>> \in credited' <=> <<d, h>> \in credited
            BY <2>3
        <3>5. \A i \in Nat : Claimed(i, h)' => \/ Claimed(i, h)
                                               \/ \A w \in book[h] : w.epoch < i \/ (w.by \in Jobs /\ job[w.by].of = i)
            BY <1>17, <1>18
        <3>6. QED
            BY <1>4, <1>17, <2>5, <3>1, <3>2, <3>3, <3>4, <3>5, ContentLike
    <2>13. book'[h] = B \ since /\ landed' = l
        BY <1>1, <1>14, <2>4
    <2>14. QED
        BY <1>18, <2>4, <2>11, <2>12, <2>13 DEF Advances
<1>20. p.errs = job[k].errs \/ p.errs # 0
    BY <1>8
<1>21. QED
    BY <1>8, <1>12, <1>13, <1>15, <1>16, <1>18, <1>19, <1>20, WalkGood

(* What one INSERT writes and what becomes of its job.                      *)
Inserts(k, h, t, x, p) ==
    /\ t \in job[k].todo /\ t \in Trades
    /\ x \in Rows /\ x.kind = "txn" /\ x.of = t.rank /\ x.amt = t.amt /\ x.by = k /\ x.epoch = begun
    /\ x.seq = job[k].seq + 1 /\ x.bal = job[k].bal + x.amt
    /\ book'[h] = book[h] \union {x} /\ \A a \in Accounts \ {h} : book'[a] = book[a]
    /\ p \in JobRecord /\ p.type = job[k].type /\ p.of = job[k].of /\ p.filter = job[k].filter /\ p.errs = job[k].errs
    /\ JobShape(p) /\ Go(k, p)
    /\ \/ /\ p.pc = "insert" /\ p.todo = job[k].todo \ {t}
          /\ p.accts = job[k].accts /\ p.seq = x.seq /\ p.bal = x.bal /\ p.chunk = job[k].chunk
       \/ /\ p.pc = "chunk" /\ job[k].todo = {t} /\ p.type = "rebuild"
          /\ p.accts = job[k].accts /\ p.seq = x.seq /\ p.bal = x.bal /\ p.chunk = job[k].chunk
       \/ /\ p.pc \in {"delete", "end"} /\ job[k].todo = {t} /\ p.type = "append"
          /\ p.accts = job[k].accts \ {h}

LEMMA InsertEventIs ==
    ASSUME Static, Shape, NEW k \in Jobs, InsertEvent(k), NEW h, h = Here(k)
    PROVE  \E t, x, p : Inserts(k, h, t, x, p)
<1>1. /\ job[k] \in JobRecord /\ Placed(job[k]) /\ job[k].pc = "insert" /\ JobShape(job[k])
      /\ job[k].type \in {"append", "rebuild"}
    BY Idle DEF InsertEvent, Shape, Placed, Walking, JobRecord
<1>2. h \in Accounts /\ h = Lowest(job[k].accts)
    BY <1>1, HereIn DEF Walking, Here
<1>3. PICK t : t = NextTrade(k)
    OBVIOUS
<1>4. /\ t \in job[k].todo /\ t \in Trades /\ t.amt \in Int /\ t.rank \in Nat /\ t.date \in Nat
    BY <1>1, <1>3, NextTradeIs, TradeFacts
<1>5. PICK rest : rest = job[k].todo \ {t}
    OBVIOUS
<1>6. PICK n : n = [job[k] EXCEPT !.seq = @ + 1, !.bal = @ + t.amt, !.todo = rest]
    OBVIOUS
<1>7. rest \in SUBSET Trades /\ job[k].seq \in Int /\ job[k].bal \in Int /\ begun \in Nat
    BY <1>1, <1>5, Idle DEF JobRecord, Loose
<1>8. /\ n \in JobRecord /\ n.type = job[k].type /\ n.accts = job[k].accts /\ n.filter = job[k].filter
      /\ n.pc = "insert" /\ n.todo = rest /\ n.seq = job[k].seq + 1 /\ n.bal = job[k].bal + t.amt
      /\ n.of = job[k].of /\ n.errs = job[k].errs /\ n.undo = job[k].undo /\ n.chunk = job[k].chunk
    <2>1. PICK s, b : s = job[k].seq + 1 /\ b = job[k].bal + t.amt /\ s \in Int /\ b \in Int
        BY <1>4, <1>7
    <2>2. PICK y : y = [job[k] EXCEPT !.seq = s]
        OBVIOUS
    <2>3. /\ y \in JobRecord /\ y.type = job[k].type /\ y.accts = job[k].accts /\ y.filter = job[k].filter
          /\ y.pc = "insert" /\ y.seq = s /\ y.bal = job[k].bal
          /\ y.of = job[k].of /\ y.errs = job[k].errs /\ y.undo = job[k].undo /\ y.chunk = job[k].chunk
        BY <1>1, <2>1, <2>2 DEF JobRecord
    <2>4. PICK m : m = [y EXCEPT !.bal = b]
        OBVIOUS
    <2>5. /\ m \in JobRecord /\ m.type = job[k].type /\ m.accts = job[k].accts /\ m.filter = job[k].filter
          /\ m.pc = "insert" /\ m.seq = s /\ m.bal = b
          /\ m.of = job[k].of /\ m.errs = job[k].errs /\ m.undo = job[k].undo /\ m.chunk = job[k].chunk
        BY <2>1, <2>3, <2>4 DEF JobRecord
    <2>6. n = [m EXCEPT !.todo = rest]
        <3>1. m = [job[k] EXCEPT !.seq = s, !.bal = b]
            BY <1>1, <2>2, <2>4 DEF JobRecord
        <3>2. m = [job[k] EXCEPT !.seq = @ + 1, !.bal = @ + t.amt]
            BY <2>1, <3>1
        <3>3. QED
            BY <1>1, <1>6, <3>2 DEF JobRecord
    <2>7. QED
        BY <1>7, <2>1, <2>5, <2>6 DEF JobRecord
<1>9. PICK x : x = Row("txn", t.rank, t.date, t.amt, n.seq, n.bal, k)
    OBVIOUS
<1>10. /\ x \in Rows /\ x.kind = "txn" /\ x.of = t.rank /\ x.amt = t.amt /\ x.by = k /\ x.epoch = begun
       /\ x.seq = n.seq /\ x.bal = n.bal
    <2>1. n.seq \in Int /\ n.bal \in Int /\ k \in Nat
        BY <1>4, <1>7, <1>8, Numbers
    <2>2. QED
        BY <1>4, <1>7, <1>9, <2>1 DEF Row, Rows
<1>11. book' = [book EXCEPT ![h] = book[h] \union {x}]
    BY <1>3, <1>5, <1>6, <1>9 DEF InsertEvent
<1>12. book'[h] = book[h] \union {x} /\ \A a \in Accounts \ {h} : book'[a] = book[a]
    BY <1>2, <1>11, Idle DEF Loose
<1>13. PICK p : p = IF rest # {} THEN n ELSE IF job[k].type = "rebuild" THEN [n EXCEPT !.pc = "chunk"] ELSE NextAccount(n)
    OBVIOUS
<1>14. Go(k, p)
    BY <1>3, <1>5, <1>6, <1>13 DEF InsertEvent
<1>15. x.seq = job[k].seq + 1 /\ x.bal = job[k].bal + x.amt
    BY <1>8, <1>10
<1>16. CASE rest # {}
    <2>1. p = n
        BY <1>13, <1>16
    <2>2. JobShape(p)
        BY <1>1, <1>8, <2>1 DEF JobShape
    <2>3. Inserts(k, h, t, x, p)
        BY <1>4, <1>5, <1>8, <1>10, <1>12, <1>14, <1>15, <2>1, <2>2 DEF Inserts
    <2>4. QED
        BY <2>3
<1>17. CASE rest = {} /\ job[k].type = "rebuild"
    <2>1. p = Turned(n, "chunk")
        BY <1>13, <1>17 DEF Turned
    <2>2. /\ p \in JobRecord /\ p.pc = "chunk" /\ p.type = n.type /\ p.of = n.of /\ p.filter = n.filter /\ p.errs = n.errs
          /\ p.accts = n.accts /\ p.seq = n.seq /\ p.bal = n.bal /\ p.undo = n.undo /\ p.chunk = n.chunk
        BY <1>8, <2>1, TurnedIs DEF Pcs, Walking
    <2>3. JobShape(p)
        BY <1>1, <1>8, <1>17, <2>2 DEF JobShape
    <2>4. job[k].todo = {t}
        BY <1>4, <1>5, <1>17
    <2>5. Inserts(k, h, t, x, p)
        BY <1>4, <1>8, <1>10, <1>12, <1>14, <1>15, <1>17, <2>2, <2>3, <2>4 DEF Inserts
    <2>6. QED
        BY <2>5
<1>18. CASE rest = {} /\ job[k].type = "append"
    <2>1. p = NextAccount(n)
        BY <1>13, <1>18
    <2>2. /\ p \in JobRecord /\ p.type = n.type /\ p.of = n.of /\ p.filter = n.filter /\ p.errs = n.errs
          /\ p.accts = n.accts \ {h} /\ p.undo = {}
          /\ p.pc = (IF p.accts = {} THEN "end" ELSE IF n.type = "div" THEN "record" ELSE "delete")
        BY <1>2, <1>8, <2>1, NextAccountIs
    <2>3. p.pc \in {"delete", "end"}
        BY <1>8, <1>18, <2>2
    <2>4. JobShape(p)
        BY <1>1, <1>8, <2>2, <2>3 DEF JobShape
    <2>5. job[k].todo = {t}
        BY <1>4, <1>5, <1>18
    <2>6. Inserts(k, h, t, x, p)
        BY <1>4, <1>8, <1>10, <1>12, <1>14, <1>15, <1>18, <2>2, <2>3, <2>4, <2>5 DEF Inserts
    <2>7. QED
        BY <2>6
<1>19. QED
    BY <1>1, <1>16, <1>17, <1>18

(* The row goes on top, of a trade that had none; the last one of an append *)
(* makes its upload complete there.                                         *)
LEMMA InsertEventGood ==
    ASSUME Static, Static', BInv, NEW k \in Jobs, InsertEvent(k)
    PROVE  BInv'
<1>1. job[k].pc = "insert" /\ job[k].pc \in Walking /\ job[k].pc \in Touching /\ UNCHANGED <<begun, landed, credited>>
    BY DEF InsertEvent, Walking, Touching
<1>2. /\ job[k] \in JobRecord /\ Placed(job[k]) /\ JobShape(job[k]) /\ Shape /\ job[k].of \in Nat
      /\ landed \in Nat /\ begun \in Nat /\ landed <= begun /\ job[k].type \in {"append", "rebuild"}
    BY <1>1, Idle DEF BInv, Shape, JobRecord, Loose, Placed
<1>3. PICK h, C, B, l : h = Here(k) /\ C = Claims(h) /\ B = book[h] /\ l = landed
    OBVIOUS
<1>4. h \in Accounts /\ B \in SUBSET Rows
    BY <1>1, <1>3, HereIn, Idle DEF Loose
<1>5. PICK t, x, p : Inserts(k, h, t, x, p)
    BY <1>2, <1>3, InsertEventIs
<1>6. /\ t \in job[k].todo /\ t \in Trades /\ x \in Rows
      /\ x.kind = "txn" /\ x.of = t.rank /\ x.amt = t.amt /\ x.by = k /\ x.epoch = begun
      /\ x.seq = job[k].seq + 1 /\ x.bal = job[k].bal + x.amt
      /\ book'[h] = B \union {x} /\ \A a \in Accounts \ {h} : book'[a] = book[a]
      /\ p \in JobRecord /\ p.type = job[k].type /\ p.of = job[k].of /\ p.filter = job[k].filter /\ p.errs = job[k].errs
      /\ JobShape(p) /\ Go(k, p)
    BY <1>3, <1>5 DEF Inserts
<1>7. PICK u \in [Accounts -> SUBSET Mishaps] : Become(k, p, u) /\ \A a \in Accounts : mishap[a] \subseteq u[a]
    BY <1>6, SameMishap
<1>8. p.pc # "absent" /\ p.type # "div"
    BY <1>2, <1>5, <1>6 DEF Inserts
<1>9. Becomes(k, p, u) /\ At(k, p, h)
    BY <1>1, <1>3, <1>6, <1>7, <1>8, AtIf
<1>10. /\ Stable /\ ~Past(job[k], h) /\ h \in job[k].accts /\ Writing(job[k], h) /\ h = Lowest(job[k].accts)
       /\ job'[k] = p
       /\ \A i \in Nat : Claimed(i, h)' => Claimed(i, h) \/ (i = p.of /\ Past(p, h))
    BY <1>9, AtStable
<1>11. PICK D : D = Claims(h)'
    OBVIOUS
<1>12. \A i \in D : i \in C \/ (i = p.of /\ Past(p, h))
    BY <1>3, <1>10, <1>11 DEF Claims
<1>13. \A s \in Trades : HasTrade(s, B \union {x}) <=> HasTrade(s, B) \/ s = t
    BY <1>6, TradeFacts DEF HasTrade
<1>14. ASSUME Content(h), ~HasTrade(t, B), Present(B, C, h) \/ p.type = "rebuild",
              t.acct = h, t.import <= l, p.type = "append" => p.of <= begun,
              \A i \in Nat : Claimed(i, h)' => \/ Claimed(i, h)
                                               \/ \A w \in book[h] : w.epoch < i \/ (w.by \in Jobs /\ job[w.by].of = i)
       PROVE  Content(h)'
    <2>1. t.import \in Nat /\ t.import <= begun
        BY <1>2, <1>3, <1>6, <1>14, TradeFacts
    <2>2. ASSUME p.type = "append", Claimed(t.import, h)'
          PROVE  t.import = p.of
        <3>1. ~Claimed(t.import, h)
            <4>1. Claimed(t.import, h) => t.import \in C
                BY <1>3, <2>1 DEF Claims
            <4>2. QED
                BY <1>6, <1>14, <2>2, <4>1 DEF Present
        <3>2. QED
            BY <1>10, <2>1, <2>2, <3>1
    <2>3. /\ x.epoch <= begun /\ x.by \in Jobs /\ job'[x.by].pc # "absent"
          /\ t.rank = x.of /\ t.acct = h /\ t.import <= x.epoch
          /\ job'[x.by].type = "append" => job'[x.by].of <= x.epoch /\ (Claimed(t.import, h)' => t.import = job'[x.by].of)
        BY <1>2, <1>6, <1>8, <1>10, <1>14, <2>1, <2>2
    <2>4. Sourced(x, h)'
        BY <1>1, <1>6, <2>3 DEF Sourced
    <2>5. \A w \in book[h] : ~(w.kind = x.kind /\ w.of = x.of)
        BY <1>3, <1>6, <1>14 DEF HasTrade
    <2>6. \A d \in Dividends : <<d, h>> \in credited' <=> <<d, h>> \in credited \/ (x.kind = "div" /\ x.of = d)
        BY <1>1, <1>6
    <2>7. book'[h] = book[h] \union {x} /\ begun' = begun
        BY <1>1, <1>3, <1>6
    <2>8. QED
        BY <1>4, <1>6, <1>10, <1>14, <2>4, <2>5, <2>6, <2>7, ContentAdd
<1>15. ASSUME Content(h), Chain(B), Top(B, job[k].seq, job[k].bal)
       PROVE  Chain(B \union {x}) /\ Top(B \union {x}, x.seq, x.bal)
    <2>1. \A v \in B : v.epoch <= x.epoch
        BY <1>3, <1>6, <1>15 DEF Content, Sourced
    <2>2. QED
        BY <1>4, <1>6, <1>15, <2>1, AppendTop
<1>16. CASE p.type = "append"
    <2>1. ASSUME mishap'[h] = {}
          PROVE  Advances(k, p, h)
        <3>1. mishap[h] = {}
            BY <1>4, <1>7, <1>9, <2>1 DEF Becomes
        <3>2. Content(h) /\ Busy(k, job[k], h, B, C, l)
            BY <1>3, <1>9, <3>1, AtFacts
        <3>3. BusyAppend(k, job[k], h, B, C, l)
            BY <1>6, <1>16, <3>2 DEF Busy
        <3>4. /\ Chain(B) /\ Present(B, C, h) /\ Top(B, job[k].seq, job[k].bal)
              /\ \A s \in job[k].todo : s.acct = h /\ p.of <= s.import /\ s.import <= l /\ ~HasTrade(s, B)
              /\ \A s \in Trades : s.acct = h /\ s.import = p.of => s \in job[k].todo \/ HasTrade(s, B)
              /\ \A w \in B : p.of <= w.epoch => w.by = k
            BY <1>1, <1>6, <3>3 DEF BusyAppend
        <3>5. Chain(B \union {x}) /\ Top(B \union {x}, x.seq, x.bal)
            BY <1>15, <3>2, <3>4
        <3>6. p.of \in Nat /\ p.of <= begun
            <4>1. p.of \in Nat /\ p.of <= landed
                BY <1>2, <1>6, <1>16 DEF JobShape
            <4>2. QED
                BY <1>2, <4>1
        <3>7. \A w \in book[h] : w.epoch < p.of \/ (w.by \in Jobs /\ job[w.by].of = p.of)
            BY <1>3, <1>4, <1>6, <3>4, <3>6 DEF Rows
        <3>8. \A i \in Nat : Claimed(i, h)' => \/ Claimed(i, h)
                                               \/ \A w \in book[h] : w.epoch < i \/ (w.by \in Jobs /\ job[w.by].of = i)
            BY <1>10, <3>7
        <3>9. Content(h)'
            BY <1>6, <1>14, <3>2, <3>4, <3>6, <3>8
        <3>10. Present(B \union {x}, C, h)
            BY <1>13, <3>4 DEF Present
        <3>11. CASE p.pc = "insert"
            <4>1. p.todo = job[k].todo \ {t} /\ p.accts = job[k].accts /\ p.seq = x.seq /\ p.bal = x.bal
                BY <1>5, <3>11 DEF Inserts
            <4>2. Writing(p, h) /\ ~Past(p, h)
                BY <1>10, <3>11, <4>1 DEF Writing, Past
            <4>3. Present(B \union {x}, D, h)
                BY <1>12, <3>10, <4>2 DEF Present
            <4>4. \A s \in p.todo : s.acct = h /\ p.of <= s.import /\ s.import <= l /\ ~HasTrade(s, B \union {x})
                <5>1. job[k].todo \subseteq Trades
                    BY <1>2 DEF JobRecord
                <5>2. QED
                    BY <1>13, <3>4, <4>1, <5>1
            <4>5. \A s \in Trades : s.acct = h /\ s.import = p.of => s \in p.todo \/ HasTrade(s, B \union {x})
                BY <1>13, <3>4, <4>1
            <4>6. \A w \in B \union {x} : p.of <= w.epoch => w.by = k
                BY <1>6, <3>4
            <4>7. BusyAppend(k, p, h, B \union {x}, D, l)
                BY <3>5, <3>11, <4>1, <4>3, <4>4, <4>5, <4>6 DEF BusyAppend
            <4>8. Busy(k, p, h, B \union {x}, D, l)
                BY <1>16, <4>7 DEF Busy
            <4>9. book'[h] = B \union {x} /\ landed' = l
                BY <1>1, <1>3, <1>6
            <4>10. QED
                BY <1>11, <3>9, <4>2, <4>8, <4>9 DEF Advances
        <3>12. CASE p.pc # "insert"
            <4>1. p.accts = job[k].accts \ {h} /\ job[k].todo = {t}
                BY <1>5, <1>16, <3>12 DEF Inserts
            <4>2. ~Writing(p, h)
                BY <1>2, <1>10, <4>1, LowestOf DEF Writing, JobRecord
            <4>3. \A s \in Trades : s.acct = h /\ s.import = p.of => HasTrade(s, B \union {x})
                BY <1>13, <3>4, <4>1
            <4>4. Present(B \union {x}, D, h)
                BY <1>12, <3>10, <4>3 DEF Present
            <4>5. Present(book[h], Claims(h), h)'
                BY <1>6, <1>11, <4>4 DEF Present, HasTrade
            <4>6. Chain(book[h])'
                BY <1>6, <3>5 DEF Chain, Links
            <4>7. QED
                BY <3>9, <4>2, <4>5, <4>6 DEF Advances, Settled
        <3>13. QED
            BY <3>11, <3>12
    <2>2. p.accts = job[k].accts \/ (p.accts = job[k].accts \ {h} /\ p.pc \in {"delete", "end"})
        BY <1>5 DEF Inserts
    <2>3. \A a \in Accounts \ {h} : mishap[a] \subseteq u[a] /\ Same(a)
        BY <1>1, <1>6, <1>7 DEF Same
    <2>4. mishap[h] \subseteq u[h]
        BY <1>4, <1>7
    <2>5. QED
        BY <1>6, <1>8, <1>9, <2>1, <2>2, <2>3, <2>4, WalkGood
<1>17. CASE p.type = "rebuild"
    <2>1. ASSUME mishap'[h] = {}
          PROVE  Advances(k, p, h)
        <3>1. mishap[h] = {}
            BY <1>4, <1>7, <1>9, <2>1 DEF Becomes
        <3>2. Content(h) /\ Busy(k, job[k], h, B, C, l)
            BY <1>3, <1>9, <3>1, AtFacts
        <3>3. BusyRebuild(job[k], h, B, C, l)
            BY <1>6, <1>17, <3>2 DEF Busy
        <3>4. PICK f : f = Sofar(job[k])
            OBVIOUS
        <3>5. /\ job[k].chunk > 0 /\ Chain(B) /\ Top(B, job[k].seq, job[k].bal)
              /\ \A s \in Trades : s.acct = h /\ HasTrade(s, B) => s.date <= f
              /\ \A s \in Trades : s.acct = h /\ s.import \in C /\ s.date <= f => HasTrade(s, B) \/ s \in job[k].todo
              /\ \A s \in job[k].todo : s.acct = h /\ s.import <= l /\ s.date <= f /\ ~HasTrade(s, B)
            BY <1>1, <3>3, <3>4 DEF BusyRebuild
        <3>6. Chain(B \union {x}) /\ Top(B \union {x}, x.seq, x.bal)
            BY <1>15, <3>2, <3>5
        <3>7. /\ p.accts = job[k].accts /\ p.seq = x.seq /\ p.bal = x.bal /\ p.chunk = job[k].chunk
              /\ \/ p.pc = "insert" /\ p.todo = job[k].todo \ {t}
                 \/ p.pc = "chunk" /\ job[k].todo = {t}
            BY <1>5, <1>17 DEF Inserts
        <3>8. Writing(p, h) /\ ~Past(p, h)
            BY <1>10, <3>7 DEF Writing, Past
        <3>9. Content(h)'
            BY <1>6, <1>10, <1>14, <1>17, <3>2, <3>5, <3>8
        <3>10. D \subseteq C
            BY <1>12, <3>8
        <3>11. Sofar(p) = f
            BY <3>4, <3>7 DEF Sofar
        <3>12. \A s \in Trades : s.acct = h /\ HasTrade(s, B \union {x}) => s.date <= f
            BY <1>6, <1>13, <3>5
        <3>13. \A s \in Trades : s.acct = h /\ s.import \in D /\ s.date <= f =>
                  HasTrade(s, B \union {x}) \/ (p.pc = "insert" /\ s \in p.todo)
            BY <1>13, <3>5, <3>7, <3>10
        <3>14. p.pc = "insert" => \A s \in p.todo : s.acct = h /\ s.import <= l /\ s.date <= f /\ ~HasTrade(s, B \union {x})
            <4>1. job[k].todo \subseteq Trades
                BY <1>2 DEF JobRecord
            <4>2. QED
                BY <1>13, <3>5, <3>7, <4>1
        <3>15. BusyRebuild(p, h, B \union {x}, D, l)
            BY <3>5, <3>6, <3>7, <3>11, <3>12, <3>13, <3>14 DEF BusyRebuild
        <3>16. Busy(k, p, h, B \union {x}, D, l)
            BY <1>17, <3>15 DEF Busy
        <3>17. book'[h] = B \union {x} /\ landed' = l
            BY <1>1, <1>3, <1>6
        <3>18. QED
            BY <1>11, <3>8, <3>9, <3>16, <3>17 DEF Advances
    <2>2. p.accts = job[k].accts
        BY <1>5, <1>17 DEF Inserts
    <2>3. \A a \in Accounts \ {h} : mishap[a] \subseteq u[a] /\ Same(a)
        BY <1>1, <1>6, <1>7 DEF Same
    <2>4. mishap[h] \subseteq u[h]
        BY <1>4, <1>7
    <2>5. QED
        BY <1>6, <1>8, <1>9, <2>1, <2>2, <2>3, <2>4, WalkGood
<1>18. QED
    BY <1>2, <1>6, <1>16, <1>17

----------------------------------------------------------------------------
(* Every step.                                                              *)

(* A step of a request, or the start of an upload.                          *)
LEMMA UnmovedGood ==
    ASSUME Static, Static', BInv, UNCHANGED <<landed, book, job, mishap, credited>>, begun <= begun'
    PROVE  BInv'
<1>1. landed \in Nat /\ begun \in Nat /\ begun' \in Nat /\ landed <= begun
    BY Idle DEF Loose, BInv, Shape, Static, Typed
<1>2. Stable
    BY DEF Stable
<1>3. \A i \in Nat, a \in Accounts : Claimed(i, a)' => Claimed(i, a)
    BY DEF Claimed, Past
<1>4. \A a \in Accounts : Fine(a)'
    BY <1>1, <1>2, <1>3, ElsewhereFine DEF BInv
<1>5. Shape'
    <2>1. \A k \in Jobs : JobShape(job[k])'
        <3>1. SUFFICES ASSUME NEW k \in Jobs
                       PROVE  JobShape(job[k])'
            OBVIOUS
        <3>2. PICK r : r = job[k]
            OBVIOUS
        <3>3. JobShape(r)
            BY <3>2 DEF BInv, Shape
        <3>4. JobShape(r)'
            BY <3>3 DEF JobShape
        <3>5. QED
            BY <3>2, <3>4
    <2>2. QED
        BY <1>1, <2>1 DEF BInv, Shape
<1>6. QED
    BY <1>4, <1>5 DEF BInv

LEMMA JobStepGood ==
    ASSUME Static, Static', DividendRows, BInv, NEW k \in Jobs, JobStep(k)
    PROVE  BInv'
<1>1. CASE DivStart(k) \/ DivMaster(k) \/ ReadAccounts(k) \/ DivFinish(k) \/ DivFails(k)
    BY <1>1, MasterStepsGood
<1>2. CASE InsertRecord(k) \/ RecordFails(k) \/ CheckCash(k)
    BY <1>2, RecordStepsGood
<1>3. CASE InsertMaster(k) \/ MasterFails(k)
    BY <1>3, InsertMasterGood, MasterFailsGood
<1>4. CASE Collect(k)
    BY <1>4, CollectGood
<1>5. CASE MoveRow(k)
    BY <1>5, MoveRowGood
<1>6. CASE InsertDividend(k)
    BY <1>6, InsertDividendGood
<1>7. CASE CashFails(k) \/ MoveFails(k)
    BY <1>7, CashFailsGood, MoveFailsGood
<1>8. CASE UndoRow(k)
    BY <1>8, UndoRowGood
<1>9. CASE DivKilled(k)
    BY <1>9, DivKilledGood
<1>10. CASE WalkStart(k)
    BY <1>10, WalkStartGood
<1>11. CASE RebuildDelete(k)
    BY <1>11, RebuildDeleteGood
<1>12. CASE ReadChunk(k)
    BY <1>12, ReadChunkGood
<1>13. CASE AppendDelete(k)
    BY <1>13, AppendDeleteGood
<1>14. CASE FetchEvents(k)
    BY <1>14, FetchEventsGood
<1>15. CASE ReadTail(k)
    BY <1>15, ReadTailGood
<1>16. CASE InsertEvent(k)
    BY <1>16, InsertEventGood
<1>17. CASE AccountFails(k)
    BY <1>17, AccountFailsGood
<1>18. CASE WalkEnds(k)
    BY <1>18, WalkEndsGood
<1>19. CASE WalkKilled(k)
    BY <1>19, WalkKilledGood
<1>20. QED
    BY <1>1, <1>2, <1>3, <1>4, <1>5, <1>6, <1>7, <1>8, <1>9, <1>10, <1>11, <1>12, <1>13, <1>14, <1>15, <1>16,
       <1>17, <1>18, <1>19 DEF JobStep

LEMMA SubmitGood ==
    ASSUME Static, Static', BInv, NEW q \in Requests, NEW k \in Jobs, Submit(q, k)
    PROVE  BInv'
<1>1. /\ req[q].pc = "checked" /\ job[k].pc = "absent" /\ UNCHANGED <<begun, landed, book, credited>>
    BY DEF Submit, NextJob
<1>2. PICK d, f : d = req[q].div /\ f = req[q].filter
    OBVIOUS
<1>3. d \in Dividends /\ f \in SUBSET Accounts
    BY <1>1, <1>2, Idle DEF Loose, RequestRecord
<1>4. (job' = job /\ mishap' = mishap) \/ Go(k, NewJob("div", d, f))
    BY <1>2 DEF Submit
<1>5. CASE job' = job /\ mishap' = mishap
    <2>1. begun <= begun'
        BY <1>1, Idle DEF Loose
    <2>2. QED
        BY <1>1, <1>5, <2>1, UnmovedGood
<1>6. CASE Go(k, NewJob("div", d, f))
    <2>1. d \in Nat
        BY <1>3, Numbers
    <2>2. QED
        BY <1>1, <1>3, <1>6, <2>1, SubmitsGood
<1>7. QED
    BY <1>4, <1>5, <1>6

LEMMA RebuildGood ==
    ASSUME Static, Static', BInv, NEW k \in Jobs, Rebuild(k)
    PROVE  BInv'
<1>1. job[k].pc = "absent" /\ UNCHANGED <<begun, landed, book, credited>> /\ Go(k, NewJob("rebuild", 0, RebuildOf))
    BY DEF Rebuild, NextJob
<1>2. RebuildOf \in SUBSET Accounts /\ 0 \in Nat
    BY Numbers
<1>3. QED
    BY <1>1, <1>2, SubmitsGood

LEMMA StepGood ==
    ASSUME IInv, BInv, [Next]_vars
    PROVE  BInv'
<1>1. IInv'
    BY StepHolds
<1>2. Static /\ Static' /\ DividendRows /\ begun \in Nat
    BY <1>1, Idle DEF IInv, Loose
<1>3. CASE \E q \in Requests : Preview(q) \/ CheckMaster(q)
    <2>1. UNCHANGED <<begun, landed, book, job, mishap, credited>>
        BY <1>3 DEF Preview, CheckMaster
    <2>2. QED
        BY <1>2, <2>1, UnmovedGood
<1>4. CASE \E q \in Requests, k \in Jobs : Submit(q, k)
    BY <1>2, <1>4, SubmitGood
<1>5. CASE \E d \in Dividends : PollStatus(d)
    <2>1. UNCHANGED <<begun, landed, book, job, mishap, credited>>
        BY <1>5 DEF PollStatus
    <2>2. QED
        BY <1>2, <2>1, UnmovedGood
<1>6. CASE \E k \in Jobs : Rebuild(k)
    BY <1>2, <1>6, RebuildGood
<1>7. CASE \E k \in Jobs : ImportLands(k)
    BY <1>2, <1>7, ImportLandsGood
<1>8. CASE \E k \in Jobs : JobStep(k)
    BY <1>2, <1>8, JobStepGood
<1>9. CASE StartImport
    <2>1. UNCHANGED <<landed, book, job, mishap, credited>> /\ begun' = begun + 1
        BY <1>9 DEF StartImport
    <2>2. QED
        BY <1>2, <2>1, UnmovedGood
<1>10. CASE UNCHANGED vars
    <2>1. UNCHANGED <<begun, landed, book, job, mishap, credited>>
        BY <1>10 DEF vars
    <2>2. QED
        BY <1>2, <2>1, UnmovedGood
<1>11. QED
    BY <1>3, <1>4, <1>5, <1>6, <1>7, <1>8, <1>9, <1>10 DEF Next

LEMMA StartGood ==
    ASSUME Init
    PROVE  BInv
<1>1. Static /\ DividendRows /\ begun = 0 /\ landed = 0 /\ credited = {} /\ \A a \in Accounts : book[a] = Opening[a]
    BY StartHolds DEF IInv, Init
<1>2. \A k \in Jobs : job[k].pc = "absent" /\ job[k].undo = {} /\ job[k].type = "div" /\ job[k].accts = {}
    <2>1. PICK n : n = NewJob("div", 0, {})
        OBVIOUS
    <2>2. n \in JobRecord /\ n.type = "div" /\ n.accts = {} /\ n.undo = {}
        BY <2>1 DEF NewJob, JobRecord, Pcs
    <2>3. PICK p : p = [n EXCEPT !.pc = "absent"]
        OBVIOUS
    <2>4. p.pc = "absent" /\ p.type = "div" /\ p.accts = {} /\ p.undo = {}
        BY <2>2, <2>3 DEF JobRecord
    <2>5. \A k \in Jobs : job[k] = p
        BY <2>1, <2>3 DEF Init
    <2>6. QED
        BY <2>4, <2>5
<1>3. Shape
    <2>1. \A k \in Jobs : JobShape(job[k])
        BY <1>2 DEF JobShape
    <2>2. QED
        BY <1>1, <1>2, <2>1 DEF Shape
<1>4. ASSUME NEW a \in Accounts
      PROVE  Fine(a)
    <2>1. PICK B : B = Opening[a]
        OBVIOUS
    <2>2. B \in SUBSET Rows /\ book[a] = B
        BY <1>1, <1>4, <2>1, Idle DEF Loose
    <2>3. PICK trades : trades = {t \in Trades : t.import = 0 /\ t.acct = a}
        OBVIOUS
    <2>4. /\ IsFiniteSet(B) /\ AddsUp(B)
          /\ \A t \in trades : \E w \in B : w.of = t.rank
          /\ \A w \in B : \E t \in trades :
                /\ w = [kind |-> "txn", of |-> t.rank, date |-> t.date, amt |-> t.amt,
                        seq |-> w.seq, bal |-> w.bal, by |-> 0, epoch |-> 0]
                /\ w.seq \in Nat /\ w.bal \in Int
          /\ \A v, w \in B : v.of = w.of \/ v.seq = w.seq => v = w
        BY <1>4, <2>1, <2>3, OpeningAssumption
    <2>5. ASSUME NEW w \in B
          PROVE  /\ w.kind = "txn" /\ w.by = 0 /\ w.epoch = 0
                 /\ \E t \in Trades : t.rank = w.of /\ t.acct = a /\ t.import = 0
        <3>1. PICK t \in trades : w = [kind |-> "txn", of |-> t.rank, date |-> t.date, amt |-> t.amt,
                                       seq |-> w.seq, bal |-> w.bal, by |-> 0, epoch |-> 0]
            BY <2>4
        <3>2. PICK s, b : s = w.seq /\ b = w.bal
            OBVIOUS
        <3>3. w = [kind |-> "txn", of |-> t.rank, date |-> t.date, amt |-> t.amt,
                   seq |-> s, bal |-> b, by |-> 0, epoch |-> 0]
            BY <3>1, <3>2
        <3>4. w.kind = "txn" /\ w.by = 0 /\ w.epoch = 0 /\ w.of = t.rank
            BY <3>3
        <3>5. t \in Trades /\ t.acct = a /\ t.import = 0
            BY <2>3
        <3>6. QED
            BY <3>4, <3>5
    <2>6. Chain(B)
        <3>1. PICK n : n = Cardinality(B) /\ n \in Nat
            BY <2>4, FS_CardinalityType
        <3>2. {w.seq : w \in B} = 1 .. n
            BY <2>4, <3>1 DEF AddsUp
        <3>3. (\A w \in B : 1 <= w.seq /\ w.seq <= n) /\ \A s \in 1 .. n : \E w \in B : w.seq = s
            BY <3>2
        <3>4. Links(B, n)
            BY <2>4, <2>5, <3>3 DEF Links, AddsUp
        <3>5. QED
            BY <3>1, <3>4 DEF Chain
    <2>7. Content(a)
        <3>1. Keyed(B)
            BY <2>4 DEF Keyed
        <3>2. 0 \notin Jobs
            BY Numbers
        <3>3. \A w \in B : Sourced(w, a)
            BY <1>1, <2>5, <3>2 DEF Sourced
        <3>4. \A d \in Dividends : ~Has(d, a)
            BY <2>2, <2>5 DEF Has, IsDiv
        <3>5. QED
            BY <1>1, <2>2, <3>1, <3>3, <3>4 DEF Content
    <2>8. Settled(a)
        <3>1. \A i \in Claims(a) : i = 0
            BY <1>2 DEF Claims, Claimed, Past
        <3>2. ASSUME NEW t \in Trades, t.acct = a, t.import = 0
              PROVE  HasTrade(t, B)
            <4>1. PICK w \in B : w.of = t.rank
                BY <2>3, <2>4, <3>2
            <4>2. QED
                BY <2>5, <4>1 DEF HasTrade
        <3>3. Present(B, Claims(a), a)
            BY <3>1, <3>2 DEF Present
        <3>4. QED
            BY <2>2, <2>6, <3>3 DEF Settled
    <2>9. \A k \in Jobs : ~Writing(job[k], a)
        BY <1>2 DEF Writing
    <2>10. QED
        BY <2>7, <2>8, <2>9 DEF Fine
<1>5. QED
    BY <1>3, <1>4 DEF BInv

(* What the trades and the dividends of a passbook are, when it has settled.*)
LEMMA SettledComplete ==
    ASSUME IInv, Shape, NEW a \in Accounts, Content(a), Settled(a)
    PROVE  AddsUp(book[a]) /\ Complete(a)
<1>1. Static /\ DividendRows /\ book[a] \in SUBSET Rows
    BY Idle DEF IInv, Loose
<1>2. AddsUp(book[a])
    BY <1>1, ChainAddsUp DEF Settled
<1>3. ASSUME NEW t \in Trades, t.acct = a,
             t.import = 0 \/ \E k \in Jobs : job[k].type = "append" /\ job[k].of = t.import /\ job[k].pc = "done"
      PROVE  \E w \in book[a] : w.kind = "txn" /\ w.of = t.rank
    <2>1. t.import \in Nat
        BY TradeFacts
    <2>2. Claimed(t.import, a)
        <3>1. CASE t.import = 0
            BY <3>1 DEF Claimed
        <3>2. CASE \E k \in Jobs : job[k].type = "append" /\ job[k].of = t.import /\ job[k].pc = "done"
            <4>1. PICK k \in Jobs : job[k].type = "append" /\ job[k].of = t.import /\ job[k].pc = "done"
                BY <3>2
            <4>2. Placed(job[k]) /\ JobShape(job[k])
                BY <1>1, Idle DEF Shape
            <4>3. job[k].accts = {}
                BY <4>1, <4>2 DEF Placed, Paying, Early, Walking
            <4>4. job[k].errs = 0 /\ a \in job[k].filter
                BY <1>3, <4>1, <4>2 DEF JobShape
            <4>5. Past(job[k], a)
                BY <4>1, <4>3, <4>4 DEF Past
            <4>6. QED
                BY <4>1, <4>5 DEF Claimed
        <3>3. QED
            BY <1>3, <3>1, <3>2
    <2>3. HasTrade(t, book[a])
        BY <1>3, <2>1, <2>2 DEF Settled, Present, Claims
    <2>4. QED
        BY <2>3 DEF HasTrade
<1>4. \A v, w \in book[a] : v.kind = "txn" /\ w.kind = "txn" /\ v.of = w.of => v = w
    BY DEF Content, Keyed
<1>5. {w.of : w \in {v \in book[a] : v.kind = "div"}} = {c[1] : c \in {e \in credited : e[2] = a}}
    <2>1. ASSUME NEW w \in book[a], w.kind = "div"
          PROVE  \E c \in credited : c[2] = a /\ w.of = c[1]
        <3>1. w.of \in Dividends
            BY <1>1, <2>1 DEF DividendRows, DividendRow
        <3>2. Has(w.of, a)
            BY <2>1 DEF Has, IsDiv
        <3>3. <<w.of, a>> \in credited
            BY <3>1, <3>2 DEF Content
        <3>4. QED
            BY <3>3
    <2>2. ASSUME NEW c \in credited, c[2] = a
          PROVE  \E w \in book[a] : w.kind = "div" /\ w.of = c[1]
        <3>1. c \in Dividends \X Accounts
            BY <1>1, Idle DEF Loose
        <3>2. c = <<c[1], a>> /\ c[1] \in Dividends
            BY <2>2, <3>1
        <3>3. Has(c[1], a)
            BY <3>2 DEF Content
        <3>4. QED
            BY <3>3 DEF Has, IsDiv
    <2>3. QED
        BY <2>1, <2>2
<1>6. Complete(a)
    BY <1>3, <1>4, <1>5 DEF Complete
<1>7. QED
    BY <1>2, <1>6

(* A passbook that nobody is writing adds up row by row and has every trade *)
(* of every upload whose append ended well, and every dividend credited,    *)
(* once, unless one of the named mishaps befell it since its last rebuild.  *)
THEOREM PassbooksAddUp == Spec => []PassbookAdds
<1>1. Init => IInv /\ BInv
    BY StartHolds, StartGood
<1>2. IInv /\ BInv /\ [Next]_vars => (IInv /\ BInv)'
    BY StepHolds, StepGood
<1>3. IInv /\ BInv => PassbookAdds
    <2>1. SUFFICES ASSUME IInv, BInv, NEW a \in Accounts, Quiet(a), mishap[a] = {}
                   PROVE  AddsUp(book[a]) /\ Complete(a)
        BY DEF PassbookAdds
    <2>2. Shape /\ Content(a) /\ Settled(a)
        BY <2>1 DEF BInv, Fine
    <2>3. QED
        BY <2>1, <2>2, SettledComplete
<1>4. QED
    BY <1>1, <1>2, <1>3, PTL DEF Spec
=============================================================================
