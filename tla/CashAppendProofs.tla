-------------------------- MODULE CashAppendProofs --------------------------
(***************************************************************************)
(* Theorems about CashAppend, for every set of transactions, every number  *)
(* of uploads, runs, retries, handoffs and failing statements, and every   *)
(* page size and DELETE cap.                                               *)
(*                                                                         *)
(* For PassbookExact, about uploads of which none overlaps another:        *)
(* Timely says how the times of uploads, Transaction rows and passbook     *)
(* rows lie to one another and what every job may be at; Relay, that the   *)
(* runs of an upload are a chain; Exactness, what the passbooks add up to  *)
(* before, during and after the walk of the latest upload.  For            *)
(* PostedOnce, about all uploads: OInv says that the rows an account has   *)
(* since a floor are gone when a job of that floor reads its events, and   *)
(* that what the job has left to insert is not there yet.                  *)
(***************************************************************************)
EXTENDS CashAppend, FiniteSetTheorems, NaturalsInduction, WellFoundedInduction, TLAPS

----------------------------------------------------------------------------
(* Time.                                                                    *)

Mine(a, i) == {t \in Txns : t.acct = a /\ t.import = i}
Debt(a, i) == {t \in Txns : t.acct = a /\ t.import < i}
Latest(i) == startedAt[i] # 0 /\ \A k \in Imports : k > i => startedAt[k] = 0

(* Uploads begin in order, a Transaction row is not older than its upload,  *)
(* and all of an upload is older than the floor of the next one.            *)
Chronology ==
    /\ now \in Nat \ {0}
    /\ startedAt \in [Imports -> Nat]
    /\ created \in [Txns -> Nat]
    /\ \A i \in Imports : startedAt[i] # 0 =>
          /\ startedAt[i] <= now
          /\ \A k \in Imports : k < i => startedAt[k] # 0
          /\ \A t \in Txns : t.import < i => created[t] # 0 /\ created[t] + Slack < startedAt[i]
    /\ \A t \in Txns : created[t] # 0 =>
          /\ startedAt[t.import] # 0 /\ startedAt[t.import] <= created[t] /\ created[t] <= now
          /\ \A u \in Txns : u.import = t.import => created[u] # 0

(* So is every passbook row.                                                *)
RowOK(a, w) ==
    /\ w \in Row /\ w.txn.acct = a
    /\ created[w.txn] # 0
    /\ startedAt[w.txn.import] <= w.at /\ w.at <= now
    /\ \A i \in Imports : startedAt[i] # 0 /\ w.txn.import < i => w.at + Slack < startedAt[i]

Rows ==
    /\ book \in [Accounts -> SUBSET Row]
    /\ \A a \in Accounts : \A w \in book[a] : RowOK(a, w)

----------------------------------------------------------------------------
(* The jobs.                                                                *)

AtAccount == {"delete", "remove", "fetch", "tail", "insert", "next"}

Job == [pc : {"queued", "page", "handoff", "passing", "end"} \union AtAccount \union Closed,
        imp : Nat, from : Accounts \union {0}, cursor : Accounts \union {0},
        page : SUBSET Accounts, full : BOOLEAN, todo : SUBSET Txns, bal : Int, seq : Nat,
        opened : BOOLEAN, failed : BOOLEAN, tries : Nat]

Lowest(S) == CHOOSE a \in S : \A b \in S : a <= b

(* A job is of an upload whose rows are there; while it is at work that is  *)
(* the latest upload.  Its page holds the next accounts after its cursor.   *)
JobOK(p) ==
    /\ p \in Job
    /\ p.pc # "absent" =>
          /\ p.imp \in Imports
          /\ \E t \in Txns : t.import = p.imp
          /\ \A t \in Txns : t.import = p.imp => created[t] # 0
          /\ p.from <= p.cursor
    /\ p.pc \notin Closed => Latest(p.imp)
    /\ p.pc = "handoff" => p.cursor # 0
    /\ p.pc = "done" => ~p.failed
    /\ p.pc \in {"end", "done"} => \A a \in Accounts : Mine(a, p.imp) # {} => a <= p.cursor
    /\ p.pc \in AtAccount =>
          /\ p.page # {}
          /\ \A a \in p.page : a > p.cursor /\ Mine(a, p.imp) # {}
          /\ \A a \in Accounts : a > p.cursor /\ Mine(a, p.imp) # {} =>
                a \in p.page \/ (p.full /\ \A b \in p.page : b < a)
    /\ p.pc = "tail" => p.todo = Mine(Lowest(p.page), p.imp)
    /\ p.pc = "insert" => p.todo # {} /\ p.todo \subseteq Mine(Lowest(p.page), p.imp)

(* The runs of an upload that have not handed over.                         *)
Heads(i) == {r \in Runs : run[r].imp = i /\ run[r].pc \notin {"absent", "passing", "passed"}}
Landed(i) == \E r \in Runs : run[r].imp = i /\ run[r].pc # "absent"

(* The first run of an upload is the only one that starts before the first  *)
(* account, and there is always a run that has not handed over.             *)
Relay ==
    \A i \in Imports : Landed(i) =>
       /\ \E r \in Runs : run[r].imp = i /\ run[r].pc # "absent" /\ run[r].from = 0
       /\ \A r, s \in Runs :
             /\ run[r].imp = i /\ run[r].pc # "absent" /\ run[r].from = 0
             /\ run[s].imp = i /\ run[s].pc # "absent" /\ run[s].from = 0
             => r = s
       /\ Heads(i) # {}

Jobs ==
    /\ run \in [Runs -> Job]
    /\ \A r \in Runs : JobOK(run[r])

Timely == Chronology /\ Rows /\ Jobs

----------------------------------------------------------------------------
(* The passbooks.                                                           *)

Before(T, t) == {u \in T : Earlier(u, t)}
Opened(T, t) == \E u \in Before(T, t) : u.opening \/ u.import < t.import

(* The rows B are what the transactions T add up to.                        *)
Adds(B, T) ==
    /\ IsFiniteSet(B)
    /\ {w.txn : w \in B} = T
    /\ \A v, w \in B : v.txn = w.txn => v = w
    /\ Cardinality(B) = Cardinality(T)
    /\ {w.seq : w \in B} = 1 .. Cardinality(T)
    /\ \A v, w \in B : v.seq = w.seq => v = w
    /\ \A w \in B :
          /\ w.seq = Cardinality(Before(T, w.txn)) + 1
          /\ w.seq = 1 => w.bal = NewBalance(0, Opened(T, w.txn), w.txn)
          /\ \A v \in B : v.seq = w.seq - 1 => w.bal = NewBalance(v.bal, Opened(T, w.txn), w.txn)

Kept(a, i) == {w \in book[a] : w.txn.import < i}

(* The chain of runs of upload i is one, without failed accounts; and it    *)
(* has come to its end.                                                     *)
Sound(i, h) ==
    /\ Heads(i) = {h}
    /\ \A r \in Runs : run[r].imp = i /\ run[r].pc \in {"passing", "passed"} => ~run[r].failed
Settled(i) == \E h \in Runs : Sound(i, h) /\ run[h].pc = "done"

(* What the run p of upload i has done to the passbooks: those it is past,  *)
(* and the one it is at.                                                    *)
Behind(p) == \A b \in Accounts : b <= p.from \/ (b <= p.cursor /\ ~p.failed) => Adds(book[b], Owed(b))

There(i, p) == Debt(Lowest(p.page), i) \union (Mine(Lowest(p.page), i) \ p.todo)

Inserting(i, p) ==
    LET a == Lowest(p.page)
    IN /\ Adds(book[a], There(i, p))
       /\ \A t \in p.todo : \A u \in Mine(a, i) \ p.todo : u.rank < t.rank
       /\ p.seq = Cardinality(There(i, p))
       /\ p.seq = 0 => p.bal = 0
       /\ \A w \in book[a] : w.seq = p.seq => p.bal = w.bal
       /\ p.opened <=> \E u \in There(i, p) : u.opening \/ u.import < i

Doing(i, p) ==
    LET a == Lowest(p.page)
    IN /\ Behind(p)
       /\ p.pc \in {"fetch", "tail"} => book[a] = Kept(a, i)
       /\ p.pc = "insert" => Inserting(i, p)
       /\ p.pc = "next" /\ ~p.failed => Adds(book[a], Owed(a))

(* While the uploads before i were settled, their part of the passbooks is  *)
(* exact; and so is what a sound chain of runs of i has done.               *)
Priors(i) == \A a \in Accounts : Adds(Kept(a, i), Debt(a, i))

Exactness ==
    \A i \in Imports : Latest(i) /\ (\A k \in Imports : k < i => Settled(k)) =>
       Priors(i) /\ \A h \in Runs : Sound(i, h) => \A p \in {run[h]} : Doing(i, p)

IInv == ~overlap => Timely /\ Relay /\ Exactness
----------------------------------------------------------------------------
(* Operators.                                                               *)

(* A set of numbers has a least one.                                        *)
LEMMA LeastOf ==
    ASSUME NEW S \in SUBSET Nat, S # {}
    PROVE  \E a \in S : \A b \in S : a <= b
<1>1. PICK x \in S : \A y \in S : ~(<<y, x>> \in OpToRel(<, Nat))
    BY WFMin, NatLessThanWellFounded
<1>2. \A y \in S : ~(y < x)
    BY <1>1 DEF OpToRel
<1>3. QED
    BY <1>2

LEMMA AccountsAreNumbers == NumAccounts \in Nat /\ Accounts \subseteq Nat \ {0}
BY CashBoundsAssumption DEF Accounts

LEMMA LowestOf ==
    ASSUME NEW S \in SUBSET Accounts, S # {}
    PROVE  Lowest(S) \in S /\ \A b \in S : Lowest(S) <= b
<1>1. \E a \in S : \A b \in S : a <= b
    BY LeastOf, AccountsAreNumbers
<1>2. QED
    BY <1>1 DEF Lowest

LEMMA HereIsLowest == \A r : Here(r) = Lowest(run[r].page)
BY DEF Here, Lowest

LEMMA TxnFacts ==
    /\ IsFiniteSet(Txns)
    /\ \A t \in Txns : /\ t.acct \in Accounts /\ t.import \in Imports /\ t.import \in Nat
                       /\ t.amt \in Int /\ t.opening \in BOOLEAN /\ t.rank \in Nat
    /\ \A t, u \in Txns : t.rank = u.rank => t = u
<1>1. Txns \subseteq [acct: Accounts, import: Imports, amt: Int, opening: BOOLEAN, rank: Nat]
    BY TxnsAssumption
<1>2. Imports \subseteq Nat
    BY CashBoundsAssumption DEF Imports
<1>3. QED
    BY <1>1, <1>2, TxnsAssumption

(* The event a job inserts next is the first of those it has left.          *)
LEMMA NextEventOf ==
    ASSUME NEW r, run[r].todo \in SUBSET Txns, run[r].todo # {}
    PROVE  /\ NextEvent(r) \in run[r].todo
           /\ \A u \in run[r].todo : u # NextEvent(r) => NextEvent(r).rank < u.rank
<1> DEFINE S == run[r].todo
<1>1. PICK x \in {t.rank : t \in S} : \A y \in {t.rank : t \in S} : x <= y
    <2>1. {t.rank : t \in S} \in SUBSET Nat /\ {t.rank : t \in S} # {}
        BY TxnFacts
    <2>2. QED
        BY <2>1, LeastOf
<1>2. \E t \in S : \A u \in S : t.rank <= u.rank
    BY <1>1
<1>3. NextEvent(r) \in S /\ \A u \in S : NextEvent(r).rank <= u.rank
    BY <1>2 DEF NextEvent
<1>4. QED
    BY <1>3, TxnFacts

(* While an upload is the latest, what was created since its floor is what  *)
(* it brought.                                                              *)
LEMMA SinceIsMine ==
    ASSUME Chronology, NEW i \in Imports, Latest(i),
           \A t \in Txns : t.import = i => created[t] # 0
    PROVE  Since(i) = {t \in Txns : t.import = i}
<1>1. Slack \in Nat /\ Imports \subseteq Nat
    BY CashBoundsAssumption DEF Imports
<1>2. startedAt[i] \in Nat \ {0} /\ \A t \in Txns : created[t] \in Nat
    BY DEF Chronology, Latest
<1>3. ASSUME NEW t \in Txns, t.import = i
      PROVE  created[t] # 0 /\ created[t] >= Floor(i)
    <2>1. created[t] # 0 /\ startedAt[i] <= created[t]
        BY <1>3 DEF Chronology
    <2>2. QED
        BY <2>1, <1>1, <1>2 DEF Floor
<1>4. ASSUME NEW t \in Txns, created[t] # 0, created[t] >= Floor(i)
      PROVE  t.import = i
    <2>1. startedAt[t.import] # 0 /\ t.import \in Imports
        BY <1>4, TxnFacts DEF Chronology
    <2>2. ~(t.import > i)
        BY <2>1 DEF Latest
    <2>3. ASSUME t.import < i PROVE FALSE
        <3>1. created[t] + Slack < startedAt[i]
            BY <2>3 DEF Chronology, Latest
        <3>2. QED
            BY <3>1, <1>1, <1>2, <1>4 DEF Floor
    <2>4. t.import \in Nat /\ i \in Nat
        BY <2>1, <1>1
    <2>5. QED
        BY <2>2, <2>3, <2>4
<1>5. QED
    BY <1>3, <1>4 DEF Since

(* A page is the first accounts after the cursor that the upload touched;   *)
(* one that is not full leaves none behind it.                              *)
LEMMA PageFacts ==
    ASSUME Chronology, NEW i \in Imports, Latest(i),
           \A t \in Txns : t.import = i => created[t] # 0,
           NEW c \in Nat, NEW page, page = NextPage(i, c)
    PROVE  /\ page \subseteq Accounts
           /\ \A a \in page : a > c /\ Mine(a, i) # {}
           /\ \A a \in Accounts : a > c /\ Mine(a, i) # {} =>
                 a \in page \/ (Cardinality(page) >= PageSize /\ \A b \in page : b < a)
           /\ Cardinality(page) >= PageSize => page # {}
<1> DEFINE accts == {a \in Accounts : a > c /\ \E t \in Since(i) : t.acct = a}
           Below(a) == {b \in accts : b < a}
<1>1. accts = {a \in Accounts : a > c /\ Mine(a, i) # {}}
    <2>1. Since(i) = {t \in Txns : t.import = i}
        BY SinceIsMine
    <2>2. QED
        BY <2>1 DEF Mine
<1>2. page = {a \in accts : Cardinality(Below(a)) < PageSize}
    BY DEF NextPage
<1>3. accts \in SUBSET Nat /\ accts \subseteq Accounts /\ IsFiniteSet(accts) /\ PageSize \in Nat \ {0}
    <2>1. IsFiniteSet(Accounts)
        BY FS_Interval, AccountsAreNumbers DEF Accounts
    <2>2. QED
        BY <2>1, FS_Subset, AccountsAreNumbers, CashBoundsAssumption
<1> HIDE DEF accts
<1>4. \A a \in accts : IsFiniteSet(Below(a)) /\ Cardinality(Below(a)) \in Nat
    <2> TAKE a \in accts
    <2>1. Below(a) \subseteq accts
        OBVIOUS
    <2>2. QED
        BY <2>1, <1>3, FS_Subset, FS_CardinalityType
<1> HIDE DEF Below
<1>5. /\ page \subseteq accts
      /\ \A b \in accts : b \in Nat /\ Cardinality(Below(b)) \in Nat
      /\ \A b \in accts : b \in page <=> Cardinality(Below(b)) < PageSize
    BY <1>2, <1>3, <1>4
<1>6. ASSUME NEW d \in accts, d \notin page, NEW b \in page
      PROVE  b < d
    <2>1. SUFFICES ASSUME b > d PROVE FALSE
        <3>1. b \in Nat /\ d \in Nat /\ b # d
            BY <1>5, <1>6
        <3>2. QED
            BY <2>1, <3>1
    <2>2. b \in accts /\ b \in Nat /\ d \in Nat
        BY <1>5
    <2>3. Below(d) \subseteq Below(b)
        <3>1. ASSUME NEW x \in accts, x < d PROVE x < b
            BY <3>1, <2>1, <2>2, <1>3
        <3>2. QED
            BY <3>1 DEF Below
    <2>4. Cardinality(Below(d)) <= Cardinality(Below(b))
        BY <2>2, <2>3, <1>4, FS_Subset
    <2>5. Cardinality(Below(b)) < PageSize /\ ~(Cardinality(Below(d)) < PageSize)
        BY <2>2, <1>5, <1>6
    <2>6. QED
        BY <2>2, <2>4, <2>5, <1>3, <1>5
<1>7. ASSUME NEW a \in accts, a \notin page
      PROVE  Cardinality(page) >= PageSize
    <2>1. PICK d \in accts \ page : \A b \in accts \ page : d <= b
        <3>1. accts \ page \in SUBSET Nat /\ accts \ page # {}
            BY <1>3, <1>7
        <3>2. QED
            BY <3>1, LeastOf
    <2>2. ASSUME NEW b \in accts PROVE b < d <=> b \in page
        <3>1. CASE b \in page
            BY <3>1, <1>6, <2>1
        <3>2. CASE b \notin page
            BY <3>2, <2>1, <1>5
        <3>3. QED
            BY <3>1, <3>2
    <2>3. Below(d) = page
        BY <2>2, <1>5 DEF Below
    <2>4. ~(Cardinality(Below(d)) < PageSize) /\ Cardinality(Below(d)) \in Nat
        BY <2>1, <1>5
    <2>5. QED
        BY <2>3, <2>4, <1>3
<1>8. Cardinality(page) >= PageSize => page # {}
    BY FS_EmptySet, <1>3
<1>9. QED
    BY <1>1, <1>3, <1>5, <1>6, <1>7, <1>8
----------------------------------------------------------------------------
(* Timely is inductive.  What the steps of a job make of its record.        *)

LEMMA NewRunIs ==
    ASSUME NEW i \in Nat, NEW c \in Accounts \union {0}
    PROVE  /\ NewRun(i, c) \in Job /\ NoRun \in Job
           /\ NewRun(i, c).pc = "queued" /\ NoRun.pc = "absent" /\ NoRun.imp = 1
           /\ NewRun(i, c).imp = i /\ NewRun(i, c).from = c /\ NewRun(i, c).cursor = c
           /\ NewRun(i, c).failed = FALSE
<1>1. NewRun(i, c) \in Job /\ NewRun(1, 0) \in Job
    BY DEF NewRun, Job
<1>2. NoRun \in Job
    BY <1>1 DEF NoRun, Job, Closed
<1>3. QED
    BY <1>1, <1>2 DEF NewRun, NoRun

(* What a job still has of its parameters when it starts again.             *)
Again(q, pc, n) == [NewRun(q.imp, q.from) EXCEPT !.pc = pc, !.tries = n]

LEMMA AgainOK ==
    ASSUME NEW q, JobOK(q), q.pc # "absent",
           NEW pc \in {"queued", "page", "failed"}, Latest(q.imp),
           NEW n \in Nat
    PROVE  /\ JobOK(Again(q, pc, n))
           /\ Again(q, pc, n).imp = q.imp /\ Again(q, pc, n).from = q.from /\ Again(q, pc, n).cursor = q.from
           /\ Again(q, pc, n).pc = pc /\ Again(q, pc, n).failed = FALSE
<1>1. q \in Job /\ q.imp \in Nat /\ q.from \in Accounts \union {0}
    BY DEF JobOK, Job
<1>2. NewRun(q.imp, q.from) \in Job
    BY <1>1, NewRunIs
<1> DEFINE p == Again(q, pc, n)
<1>3. p \in Job
    BY <1>2 DEF Job, Closed, Again
<1>4. p.pc = pc /\ p.imp = q.imp /\ p.from = q.from /\ p.cursor = q.from /\ p.failed = FALSE
    BY DEF NewRun, Again
<1>5. q.from <= q.from
    <2>1. Accounts \union {0} \subseteq Nat
        BY AccountsAreNumbers
    <2>2. QED
        BY <2>1, <1>1
<1> HIDE DEF p
<1>6. JobOK(p)
    BY <1>3, <1>4, <1>5 DEF JobOK, Closed, AtAccount
<1>7. QED
    BY <1>4, <1>6 DEF p

LEMMA RunIs ==
    ASSUME Jobs, NEW r \in Runs
    PROVE  /\ run[r] \in Job /\ JobOK(run[r])
           /\ run[r].cursor \in Nat /\ run[r].from \in Nat /\ run[r].imp \in Nat
           /\ run[r].tries \in Nat /\ run[r].seq \in Nat /\ run[r].bal \in Int
           /\ run[r].page \subseteq Accounts /\ run[r].todo \subseteq Txns
<1>1. run[r] \in Job /\ JobOK(run[r])
    BY DEF Jobs
<1>2. /\ run[r].cursor \in Accounts \union {0} /\ run[r].from \in Accounts \union {0} /\ run[r].imp \in Nat
      /\ run[r].tries \in Nat /\ run[r].seq \in Nat /\ run[r].bal \in Int
      /\ run[r].page \subseteq Accounts /\ run[r].todo \subseteq Txns
    BY <1>1 DEF Job
<1>3. Accounts \union {0} \subseteq Nat
    BY AccountsAreNumbers
<1>4. QED
    BY <1>1, <1>2, <1>3

(* The account a job is at.                                                 *)
LEMMA HereIs ==
    ASSUME Jobs, NEW r \in Runs, run[r].pc \in AtAccount
    PROVE  /\ Here(r) \in Accounts /\ Here(r) \in run[r].page /\ Here(r) = Lowest(run[r].page)
           /\ \A b \in run[r].page : Here(r) <= b
           /\ Here(r) > run[r].cursor /\ Mine(Here(r), run[r].imp) # {}
<1>1. JobOK(run[r]) /\ run[r].page \subseteq Accounts /\ run[r].page # {}
    BY RunIs DEF JobOK
<1>2. QED
    BY <1>1, LowestOf, HereIsLowest DEF JobOK

LEMMA StartMakes ==
    ASSUME Timely, NEW r \in Runs, Start(r)
    PROVE  \E p : JobOK(p) /\ run' = [run EXCEPT ![r] = p] /\ p.imp = run[r].imp /\ p.from = run[r].from
                  /\ p.cursor = run[r].from /\ p.pc = "page" /\ p.failed = FALSE
<1>1. JobOK(run[r]) /\ run[r].tries \in Nat /\ run[r].pc = "queued"
    BY RunIs DEF Timely, Start
<1>2. Latest(run[r].imp)
    BY <1>1 DEF JobOK, Closed
<1>3. run' = [run EXCEPT ![r] = Again(run[r], "page", run[r].tries)]
    BY DEF Start, Become, Again
<1> DEFINE p == Again(run[r], "page", run[r].tries)
<1>4. JobOK(p) /\ p.imp = run[r].imp /\ p.from = run[r].from /\ p.cursor = run[r].from /\ p.pc = "page"
      /\ p.failed = FALSE
    BY ZenonT(60), <1>1, <1>2, AgainOK
<1> HIDE DEF p
<1>5. QED
    BY <1>3, <1>4 DEF p

(* A job that stays at its account.                                         *)
LEMMA StaysOK ==
    ASSUME NEW q, JobOK(q), q.pc \in AtAccount,
           NEW p \in Job, p.imp = q.imp, p.from = q.from, p.cursor = q.cursor, p.page = q.page, p.full = q.full,
           p.pc \in AtAccount,
           p.pc = "tail" => p.todo = Mine(Lowest(p.page), p.imp),
           p.pc = "insert" => p.todo # {} /\ p.todo \subseteq Mine(Lowest(p.page), p.imp)
    PROVE  JobOK(p)
<1>1. q.pc \notin Closed /\ q.pc # "absent"
    BY DEF AtAccount, Closed
<1>2. p.pc \notin {"absent", "handoff", "end", "done"}
    BY DEF AtAccount
<1>3. QED
    BY <1>1, <1>2 DEF JobOK

LEMMA FetchPageMakes ==
    ASSUME Timely, NEW r \in Runs, FetchPage(r)
    PROVE  \E p : /\ JobOK(p) /\ run' = [run EXCEPT ![r] = p] /\ p.imp = run[r].imp /\ p.from = run[r].from
                  /\ p.cursor = run[r].cursor /\ p.pc \in {"end", "delete"} /\ p.failed = run[r].failed
<1>1. JobOK(run[r]) /\ run[r].cursor \in Nat /\ run[r].pc = "page" /\ run[r] \in Job
    BY RunIs DEF Timely, FetchPage
<1>2. Latest(run[r].imp) /\ run[r].imp \in Imports /\ run[r].from <= run[r].cursor
    BY <1>1 DEF JobOK, Closed
<1>3. \A t \in Txns : t.import = run[r].imp => created[t] # 0
    BY <1>1 DEF JobOK
<1>4. PICK page : page = NextPage(run[r].imp, run[r].cursor)
    OBVIOUS
<1>5. /\ page \subseteq Accounts
      /\ \A a \in page : a > run[r].cursor /\ Mine(a, run[r].imp) # {}
      /\ \A a \in Accounts : a > run[r].cursor /\ Mine(a, run[r].imp) # {} =>
            a \in page \/ (Cardinality(page) >= PageSize /\ \A b \in page : b < a)
      /\ Cardinality(page) >= PageSize => page # {}
    BY <1>1, <1>2, <1>3, <1>4, PageFacts DEF Timely
<1>12. (Cardinality(page) >= PageSize) \in BOOLEAN
    OBVIOUS
<1>13. PICK full \in BOOLEAN : full = (Cardinality(page) >= PageSize)
    BY <1>12, Zenon
<1>6. PICK p : p = [run[r] EXCEPT !.page = page, !.full = full, !.pc = IF page = {} THEN "end" ELSE "delete"]
    OBVIOUS
<1>7. run' = [run EXCEPT ![r] = p]
    BY <1>13, <1>4, <1>6 DEF FetchPage, Become
<1>8. /\ p \in Job /\ p.imp = run[r].imp /\ p.from = run[r].from /\ p.cursor = run[r].cursor /\ p.failed = run[r].failed
      /\ p.pc = (IF page = {} THEN "end" ELSE "delete") /\ p.page = page
    BY ZenonT(60), <1>1, <1>5, <1>6 DEF Job, AtAccount
<1>9. p.full <=> Cardinality(page) >= PageSize
    BY <1>13, <1>1, <1>6 DEF Job
<1>10. JobOK(p)
    <2>1. CASE page = {}
        <3>1. \A a \in Accounts : Mine(a, p.imp) # {} => a <= p.cursor
            <4>1. ASSUME NEW a \in Accounts, Mine(a, p.imp) # {}, a > p.cursor PROVE FALSE
                BY <4>1, <2>1, <1>5, <1>8
            <4>2. QED
                BY <4>1, <1>1, <1>8, AccountsAreNumbers
        <3>2. QED
            BY <3>1, <2>1, <1>1, <1>2, <1>8 DEF JobOK, AtAccount, Closed
    <2>2. CASE page # {}
        BY <2>2, <1>1, <1>2, <1>5, <1>8, <1>9 DEF JobOK, AtAccount, Closed
    <2>3. QED
        BY <2>1, <2>2
<1>11. QED
    BY <1>7, <1>8, <1>10

LEMMA FetchEventsMakes ==
    ASSUME Timely, NEW r \in Runs, FetchEvents(r)
    PROVE  \E p : /\ JobOK(p) /\ run' = [run EXCEPT ![r] = p]
                  /\ p = [run[r] EXCEPT !.todo = Mine(Here(r), run[r].imp), !.pc = "tail"]
<1>1. JobOK(run[r]) /\ run[r].pc = "fetch" /\ run[r] \in Job /\ run[r].pc \in AtAccount /\ Jobs
    BY RunIs DEF Timely, FetchEvents, AtAccount
<1>2. Since(run[r].imp) = {t \in Txns : t.import = run[r].imp}
    BY <1>1, SinceIsMine DEF Timely, JobOK, Closed
<1>3. {t \in Since(run[r].imp) : t.acct = Here(r)} = Mine(Here(r), run[r].imp)
    BY <1>2 DEF Mine
<1>4. Mine(Here(r), run[r].imp) # {} /\ Here(r) = Lowest(run[r].page)
    BY <1>1, HereIs
<1>5. PICK p : p = [run[r] EXCEPT !.todo = Mine(Here(r), run[r].imp), !.pc = "tail"]
    OBVIOUS
<1>6. run' = [run EXCEPT ![r] = p]
    BY <1>3, <1>4, <1>5 DEF FetchEvents, Become
<1>7. /\ p \in Job /\ p.pc = "tail" /\ p.todo = Mine(Lowest(p.page), p.imp)
      /\ p.imp = run[r].imp /\ p.from = run[r].from /\ p.cursor = run[r].cursor
      /\ p.page = run[r].page /\ p.full = run[r].full
    <2>1. Mine(Here(r), run[r].imp) \subseteq Txns
        BY DEF Mine
    <2>2. QED
        BY <2>1, <1>1, <1>4, <1>5 DEF Job, AtAccount
<1>8. JobOK(p)
    BY <1>1, <1>7, StaysOK DEF AtAccount
<1>9. QED
    BY <1>5, <1>6, <1>8

(* Nothing left or something: what the COUNT says.                          *)
LEMMA CountMakes ==
    ASSUME Timely, NEW r \in Runs, CountRows(r)
    PROVE  \E p : /\ JobOK(p) /\ run' = [run EXCEPT ![r] = p]
                  /\ p.pc \in {"fetch", "remove"} /\ (p.pc = "fetch" => SinceRows(r) = {})
                  /\ p.imp = run[r].imp /\ p.from = run[r].from /\ p.cursor = run[r].cursor
                  /\ p.page = run[r].page /\ p.failed = run[r].failed
<1>1. JobOK(run[r]) /\ run[r].pc = "delete" /\ run[r] \in Job /\ run[r].pc \in AtAccount
    BY RunIs DEF Timely, CountRows, AtAccount
<1>2. PICK pc : pc = (IF SinceRows(r) = {} THEN "fetch" ELSE "remove")
    OBVIOUS
<1>3. pc \in {"fetch", "remove"} /\ (pc = "fetch" => SinceRows(r) = {})
    BY <1>2
<1>4. PICK p : p = [run[r] EXCEPT !.pc = pc]
    OBVIOUS
<1>5. run' = [run EXCEPT ![r] = p]
    BY <1>2, <1>4 DEF CountRows, Become
<1>6. /\ p \in Job /\ p.pc = pc /\ p.imp = run[r].imp /\ p.from = run[r].from /\ p.cursor = run[r].cursor
      /\ p.page = run[r].page /\ p.full = run[r].full /\ p.failed = run[r].failed
    BY <1>1, <1>3, <1>4 DEF Job, AtAccount
<1>7. JobOK(p)
    BY <1>1, <1>3, <1>6, StaysOK DEF AtAccount
<1>8. QED
    BY <1>3, <1>5, <1>6, <1>7

LEMMA DeleteMakes ==
    ASSUME Timely, NEW r \in Runs, DeleteRound(r)
    PROVE  /\ \E gone \in SUBSET SinceRows(r) : book' = [book EXCEPT ![Here(r)] = @ \ gone]
           /\ \E p : /\ JobOK(p) /\ run' = [run EXCEPT ![r] = p]
                     /\ p.pc = "delete" /\ p.imp = run[r].imp /\ p.from = run[r].from
                     /\ p.cursor = run[r].cursor /\ p.page = run[r].page /\ p.failed = run[r].failed
<1>1. JobOK(run[r]) /\ run[r].pc = "remove" /\ run[r] \in Job /\ run[r].pc \in AtAccount
    BY RunIs DEF Timely, DeleteRound, AtAccount
<1>2. PICK p : p = [run[r] EXCEPT !.pc = "delete"]
    OBVIOUS
<1>3. run' = [run EXCEPT ![r] = p]
    BY <1>2 DEF DeleteRound, Become
<1>4. /\ p \in Job /\ p.pc = "delete" /\ p.imp = run[r].imp /\ p.from = run[r].from /\ p.cursor = run[r].cursor
      /\ p.page = run[r].page /\ p.full = run[r].full /\ p.failed = run[r].failed
    BY <1>1, <1>2 DEF Job, AtAccount
<1>5. JobOK(p)
    BY <1>1, <1>4, StaysOK DEF AtAccount
<1>6. \E gone \in SUBSET SinceRows(r) : book' = [book EXCEPT ![Here(r)] = @ \ gone]
    BY DEF DeleteRound
<1>7. QED
    BY <1>3, <1>4, <1>5, <1>6

LEMMA ReadTailMakes ==
    ASSUME Timely, NEW r \in Runs, ReadTail(r)
    PROVE  \E p : /\ JobOK(p) /\ run' = [run EXCEPT ![r] = p]
                  /\ p.pc = "insert" /\ p.imp = run[r].imp /\ p.from = run[r].from /\ p.cursor = run[r].cursor
                  /\ p.page = run[r].page /\ p.failed = run[r].failed /\ p.todo = run[r].todo
                  /\ \/ book[Here(r)] = {} /\ p.bal = 0 /\ p.seq = 0 /\ p.opened = FALSE
                     \/ \E w \in book[Here(r)] :
                           /\ \A v \in book[Here(r)] : v.seq <= w.seq
                           /\ p.bal = w.bal /\ p.seq = w.seq /\ (p.opened <=> w.seq > 0)
<1>1. JobOK(run[r]) /\ run[r].pc = "tail" /\ run[r] \in Job /\ run[r].pc \in AtAccount /\ Jobs
    BY RunIs DEF Timely, ReadTail, AtAccount
<1>2. /\ Mine(Here(r), run[r].imp) # {} /\ Here(r) = Lowest(run[r].page) /\ Here(r) \in Accounts
      /\ run[r].todo = Mine(Here(r), run[r].imp)
    BY <1>1, HereIs DEF JobOK
<1> DEFINE P(bal, seq, opened) == [run[r] EXCEPT !.bal = bal, !.seq = seq, !.opened = opened, !.pc = "insert"]
           Told(p) == /\ JobOK(p)
                      /\ p.pc = "insert" /\ p.imp = run[r].imp /\ p.from = run[r].from
                      /\ p.cursor = run[r].cursor /\ p.page = run[r].page /\ p.failed = run[r].failed
                      /\ p.todo = run[r].todo
<1>3. ASSUME NEW bal \in Int, NEW seq \in Nat, NEW opened \in BOOLEAN
      PROVE  LET p == P(bal, seq, opened) IN Told(p) /\ p.bal = bal /\ p.seq = seq /\ p.opened = opened
    <2>1. PICK p : p = P(bal, seq, opened)
        OBVIOUS
    <2>2. /\ p \in Job
          /\ p.pc = "insert" /\ p.imp = run[r].imp /\ p.from = run[r].from /\ p.cursor = run[r].cursor
          /\ p.page = run[r].page /\ p.full = run[r].full /\ p.failed = run[r].failed /\ p.todo = run[r].todo
          /\ p.bal = bal /\ p.seq = seq /\ p.opened = opened
        BY <1>1, <1>3, <2>1 DEF Job, AtAccount
    <2>3. p.todo # {} /\ p.todo \subseteq Mine(Lowest(p.page), p.imp)
        BY <1>2, <2>2
    <2>4. JobOK(p)
        BY <1>1, <2>2, <2>3, StaysOK DEF AtAccount
    <2>5. QED
        BY <2>1, <2>2, <2>4
<1>4. CASE book[Here(r)] = {}
    <2>1. run' = [run EXCEPT ![r] = P(0, 0, FALSE)]
        BY <1>4 DEF ReadTail, Become
    <2> HIDE DEF P, Told
    <2>2. PICK p : p = P(0, 0, FALSE)
        OBVIOUS
    <2>3. \A bal \in Int, seq \in Nat, opened \in BOOLEAN :
             /\ Told(P(bal, seq, opened)) /\ P(bal, seq, opened).bal = bal
             /\ P(bal, seq, opened).seq = seq /\ P(bal, seq, opened).opened = opened
        BY <1>3
    <2>4. Told(p) /\ p.bal = 0 /\ p.seq = 0 /\ p.opened = FALSE
        <3>1. 0 \in Int /\ 0 \in Nat /\ FALSE \in BOOLEAN
            OBVIOUS
        <3>2. QED
            BY <2>2, <2>3, <3>1, Zenon
    <2>5. QED
        BY <1>4, <2>1, <2>2, <2>4 DEF Told
<1>5. CASE book[Here(r)] # {}
    <2>1. PICK w \in book[Here(r)] :
             /\ \A v \in book[Here(r)] : v.seq <= w.seq
             /\ Become(r, P(w.bal, w.seq, w.seq > 0))
        BY <1>5 DEF ReadTail
    <2>2. w.bal \in Int /\ w.seq \in Nat
        BY <1>2 DEF Timely, Rows, RowOK, Row
    <2>3. (w.seq > 0) \in BOOLEAN
        BY <2>2
    <2>4. PICK opened \in BOOLEAN : opened = (w.seq > 0)
        BY <2>3, Zenon
    <2> HIDE DEF P, Told
    <2>5. run' = [run EXCEPT ![r] = P(w.bal, w.seq, opened)]
        BY <2>1, <2>4 DEF Become
    <2>6. PICK p : p = P(w.bal, w.seq, opened)
        OBVIOUS
    <2>7. Told(p) /\ p.bal = w.bal /\ p.seq = w.seq /\ p.opened = opened
        BY <1>3, <2>2, <2>6
    <2>8. QED
        BY <2>1, <2>4, <2>5, <2>6, <2>7 DEF Told
<1>6. QED
    BY <1>4, <1>5

LEMMA InsertMakes ==
    ASSUME Timely, NEW r \in Runs, InsertEvent(r)
    PROVE  \E t, bal, p :
              /\ t \in run[r].todo /\ bal \in Int
              /\ t \in Mine(Here(r), run[r].imp) /\ Here(r) \in Accounts
              /\ \A u \in run[r].todo : u # t => t.rank < u.rank
              /\ bal = NewBalance(run[r].bal, run[r].opened, t)
              /\ book' = [book EXCEPT ![Here(r)] = @ \union
                             {[txn |-> t, seq |-> run[r].seq + 1, bal |-> bal, at |-> now]}]
              /\ JobOK(p) /\ run' = [run EXCEPT ![r] = p]
              /\ p.bal = bal /\ p.seq = run[r].seq + 1 /\ (p.opened <=> run[r].opened \/ t.opening)
              /\ p.todo = run[r].todo \ {t}
              /\ p.pc = (IF p.todo = {} THEN "next" ELSE "insert")
              /\ p.imp = run[r].imp /\ p.from = run[r].from /\ p.cursor = run[r].cursor
              /\ p.page = run[r].page /\ p.failed = run[r].failed
<1>1. JobOK(run[r]) /\ run[r].pc = "insert" /\ run[r] \in Job /\ run[r].pc \in AtAccount /\ Jobs
    BY RunIs DEF Timely, InsertEvent, AtAccount
<1>2. /\ Here(r) = Lowest(run[r].page) /\ Here(r) \in Accounts
      /\ run[r].todo # {} /\ run[r].todo \subseteq Mine(Here(r), run[r].imp) /\ run[r].todo \in SUBSET Txns
      /\ run[r].bal \in Int /\ run[r].seq \in Nat
    BY <1>1, HereIs, RunIs DEF JobOK
<1>3. PICK t : t = NextEvent(r)
    OBVIOUS
<1>4. t \in run[r].todo /\ \A u \in run[r].todo : u # t => t.rank < u.rank
    BY <1>2, <1>3, NextEventOf
<1>5. t \in Mine(Here(r), run[r].imp) /\ t.acct = Here(r) /\ t \in Txns /\ t.amt \in Int /\ t.opening \in BOOLEAN
    BY <1>2, <1>4, TxnFacts DEF Mine
<1>6. PICK bal : bal = NewBalance(run[r].bal, run[r].opened, t)
    OBVIOUS
<1>7. bal \in Int
    BY <1>2, <1>5, <1>6 DEF NewBalance
<1>8. (run[r].opened \/ t.opening) \in BOOLEAN
    OBVIOUS
<1>9. PICK opened \in BOOLEAN : opened = (run[r].opened \/ t.opening)
    BY <1>8, Zenon
<1>10. PICK p : p = [run[r] EXCEPT !.bal = bal, !.seq = run[r].seq + 1, !.opened = opened,
                                   !.todo = run[r].todo \ {t},
                                   !.pc = IF run[r].todo \ {t} = {} THEN "next" ELSE "insert"]
    OBVIOUS
<1>11. book' = [book EXCEPT ![Here(r)] = @ \union {[txn |-> t, seq |-> run[r].seq + 1, bal |-> bal, at |-> now]}]
    BY <1>3, <1>6 DEF InsertEvent, WriteRow, NextRow
<1>12. run' = [run EXCEPT ![r] = p]
    <2>1. run' = [run EXCEPT ![r] = [run[r] EXCEPT !.bal = bal, !.seq = @ + 1,
                                      !.opened = @ \/ t.opening, !.todo = run[r].todo \ {t},
                                      !.pc = IF run[r].todo \ {t} = {} THEN "next" ELSE "insert"]]
        BY <1>3, <1>6 DEF InsertEvent, NextRow, Become
    <2>2. QED
        BY <2>1, <1>9, <1>10
<1>13. /\ p \in Job /\ p.bal = bal /\ p.seq = run[r].seq + 1 /\ p.opened = opened
       /\ p.todo = run[r].todo \ {t} /\ p.pc = (IF p.todo = {} THEN "next" ELSE "insert")
       /\ p.imp = run[r].imp /\ p.from = run[r].from /\ p.cursor = run[r].cursor
       /\ p.page = run[r].page /\ p.full = run[r].full /\ p.failed = run[r].failed
    <2>1. run[r].seq + 1 \in Nat /\ run[r].todo \ {t} \subseteq Txns
        BY <1>2
    <2>2. QED
        BY <2>1, <1>1, <1>7, <1>10 DEF Job, AtAccount
<1>14. JobOK(p)
    <2>1. p.pc = "insert" => p.todo # {}
        BY <1>13
    <2>2. p.todo \subseteq Mine(Lowest(p.page), p.imp) /\ p.pc \in AtAccount /\ p.pc # "tail"
        BY <1>2, <1>13 DEF AtAccount
    <2>3. QED
        BY <2>1, <2>2, <1>1, <1>13, StaysOK
<1>15. QED
    BY <1>2, <1>4, <1>5, <1>6, <1>7, <1>9, <1>11, <1>12, <1>13, <1>14

LEMMA GiveUpMakes ==
    ASSUME Timely, NEW r \in Runs, run[r].pc \in AtAccount, GiveUp(r)
    PROVE  \E p : /\ JobOK(p) /\ run' = [run EXCEPT ![r] = p]
                  /\ p.pc = "next" /\ p.imp = run[r].imp /\ p.from = run[r].from /\ p.cursor = run[r].cursor
                  /\ p.page = run[r].page /\ p.failed = TRUE
<1>1. JobOK(run[r]) /\ run[r] \in Job
    BY RunIs DEF Timely
<1>2. PICK p : p = [run[r] EXCEPT !.failed = TRUE, !.todo = {}, !.pc = "next"]
    OBVIOUS
<1>3. run' = [run EXCEPT ![r] = p]
    BY <1>2 DEF GiveUp, Become
<1>4. /\ p \in Job /\ p.pc = "next" /\ p.imp = run[r].imp /\ p.from = run[r].from /\ p.cursor = run[r].cursor
      /\ p.page = run[r].page /\ p.full = run[r].full /\ p.failed = TRUE
    BY <1>1, <1>2 DEF Job, AtAccount
<1>5. JobOK(p)
    BY <1>1, <1>4, StaysOK DEF AtAccount
<1>6. QED
    BY <1>3, <1>4, <1>5

LEMMA FailureGivesUp ==
    ASSUME NEW r \in Runs, AccountFails(r) \/ InsertThrows(r)
    PROVE  GiveUp(r) /\ run[r].pc \in AtAccount /\ run[r].pc # "absent"
BY DEF AccountFails, InsertThrows, AtAccount

(* The row of an INSERT that throws.                                        *)
LEMMA ThrownRow ==
    ASSUME Timely, NEW r \in Runs, InsertThrows(r)
    PROVE  \E t, bal :
              /\ t \in run[r].todo /\ bal \in Int
              /\ t \in Mine(Here(r), run[r].imp) /\ Here(r) \in Accounts
              /\ book' = [book EXCEPT ![Here(r)] = @ \union
                             {[txn |-> t, seq |-> run[r].seq + 1, bal |-> bal, at |-> now]}]
<1>1. JobOK(run[r]) /\ run[r].pc = "insert" /\ run[r] \in Job /\ run[r].pc \in AtAccount /\ Jobs
    BY RunIs DEF Timely, InsertThrows, AtAccount
<1>2. /\ Here(r) \in Accounts /\ run[r].bal \in Int
      /\ run[r].todo # {} /\ run[r].todo \subseteq Mine(Here(r), run[r].imp) /\ run[r].todo \in SUBSET Txns
    BY <1>1, HereIs, RunIs DEF JobOK
<1>3. PICK t : t = NextEvent(r)
    OBVIOUS
<1>4. t \in run[r].todo /\ t \in Mine(Here(r), run[r].imp) /\ t.amt \in Int
    BY <1>2, <1>3, NextEventOf, TxnFacts
<1>5. PICK bal : bal = NewBalance(run[r].bal, run[r].opened, t)
    OBVIOUS
<1>6. bal \in Int
    BY <1>2, <1>4, <1>5 DEF NewBalance
<1>7. book' = [book EXCEPT ![Here(r)] = @ \union {[txn |-> t, seq |-> run[r].seq + 1, bal |-> bal, at |-> now]}]
    BY <1>3, <1>5 DEF InsertThrows, WriteRow, NextRow
<1>8. QED
    BY <1>2, <1>4, <1>6, <1>7

(* The cursor passes the account the job was at.                            *)
LEMMA AdvanceMakes ==
    ASSUME Timely, NEW r \in Runs, Advance(r)
    PROVE  \E p : /\ JobOK(p) /\ run' = [run EXCEPT ![r] = p]
                  /\ p.pc \in {"handoff", "delete", "page", "end"} /\ p.imp = run[r].imp /\ p.from = run[r].from
                  /\ p.cursor = Here(r) /\ Here(r) > run[r].cursor /\ p.failed = run[r].failed
                  /\ \A a \in Accounts : a > run[r].cursor /\ a < Here(r) => Mine(a, run[r].imp) = {}
<1>1. JobOK(run[r]) /\ run[r] \in Job /\ run[r].pc = "next" /\ run[r].pc \in AtAccount /\ Jobs
    BY RunIs DEF Timely, Advance, AtAccount
<1>2. PICK a : a = Here(r)
    OBVIOUS
<1>3. /\ a \in Accounts /\ a \in run[r].page /\ (\A b \in run[r].page : a <= b) /\ a > run[r].cursor
      /\ run[r].cursor \in Nat /\ run[r].from \in Nat /\ run[r].page \subseteq Accounts
    BY <1>1, <1>2, HereIs, RunIs
<1>4. Accounts \subseteq Nat \ {0}
    BY AccountsAreNumbers
<1>5. PICK outOfTime \in BOOLEAN :
         Become(r, [run[r] EXCEPT !.cursor = a, !.page = run[r].page \ {a},
                       !.pc = CASE outOfTime -> "handoff"
                                [] ~outOfTime /\ run[r].page \ {a} # {} -> "delete"
                                [] OTHER -> IF run[r].full THEN "page" ELSE "end"])
    BY <1>2 DEF Advance
<1>6. PICK pc : pc = (CASE outOfTime -> "handoff"
                        [] ~outOfTime /\ run[r].page \ {a} # {} -> "delete"
                        [] OTHER -> IF run[r].full THEN "page" ELSE "end")
    OBVIOUS
<1>7. \/ pc = "handoff"
      \/ pc = "delete" /\ run[r].page \ {a} # {}
      \/ pc = "page"
      \/ pc = "end" /\ run[r].page \ {a} = {} /\ ~run[r].full
    BY <1>6
<1>8. PICK p : p = [run[r] EXCEPT !.cursor = a, !.page = run[r].page \ {a}, !.pc = pc]
    OBVIOUS
<1>9. run' = [run EXCEPT ![r] = p]
    BY <1>5, <1>6, <1>8 DEF Become
<1>10. /\ p \in Job /\ p.pc = pc /\ p.imp = run[r].imp /\ p.from = run[r].from /\ p.cursor = a
       /\ p.page = run[r].page \ {a} /\ p.full = run[r].full /\ p.failed = run[r].failed
    BY <1>1, <1>3, <1>7, <1>8 DEF Job, AtAccount
<1>11. ASSUME NEW b \in Accounts, b > run[r].cursor, Mine(b, run[r].imp) # {}
       PROVE  b \in run[r].page \/ (run[r].full /\ \A c \in run[r].page : c < b)
    BY <1>1, <1>11 DEF JobOK
<1>12. ASSUME NEW b \in Accounts, b > run[r].cursor, b < a PROVE Mine(b, run[r].imp) = {}
    <2>1. SUFFICES ASSUME Mine(b, run[r].imp) # {} PROVE FALSE
        OBVIOUS
    <2>2. CASE b \in run[r].page
        <3>1. a <= b
            BY <2>2, <1>3
        <3>2. QED
            BY <3>1, <1>3, <1>4, <1>12
    <2>3. CASE \A c \in run[r].page : c < b
        <3>1. a < b
            BY <2>3, <1>3
        <3>2. QED
            BY <3>1, <1>3, <1>4, <1>12
    <2>4. QED
        BY <2>1, <2>2, <2>3, <1>11, <1>12
<1>13. ASSUME NEW b \in Accounts, b > a, Mine(b, p.imp) # {}
       PROVE  b \in p.page \/ (p.full /\ \A c \in p.page : c < b)
    <2>1. b > run[r].cursor /\ b # a
        BY <1>3, <1>4, <1>13
    <2>2. QED
        BY <2>1, <1>10, <1>11, <1>13
<1>14. ASSUME NEW b \in p.page PROVE b > a /\ Mine(b, p.imp) # {}
    <2>1. b \in run[r].page /\ b # a /\ a <= b /\ b \in Nat /\ a \in Nat
        BY <1>3, <1>4, <1>10, <1>14
    <2>2. QED
        BY <2>1, <1>1, <1>10 DEF JobOK
<1>15. Latest(p.imp) /\ p.imp \in Imports /\ (\E t \in Txns : t.import = p.imp)
       /\ (\A t \in Txns : t.import = p.imp => created[t] # 0)
    BY <1>1, <1>10 DEF JobOK, Closed
<1>16. p.from <= p.cursor /\ p.cursor # 0
    <2>1. run[r].from <= run[r].cursor
        BY <1>1 DEF JobOK
    <2>2. QED
        BY <2>1, <1>3, <1>4, <1>10
<1>17. p.pc \in {"end", "done"} => \A b \in Accounts : Mine(b, p.imp) # {} => b <= p.cursor
    <2>1. SUFFICES ASSUME p.pc = "end", NEW b \in Accounts, Mine(b, p.imp) # {}, b > a PROVE FALSE
        BY <1>3, <1>4, <1>7, <1>10
    <2>2. p.page = {} /\ ~p.full
        BY <2>1, <1>7, <1>10
    <2>3. QED
        BY <2>1, <2>2, <1>13
<1>18. JobOK(p)
    <2>1. p.pc \in AtAccount => p.pc = "delete" /\ p.page # {}
        BY <1>7, <1>10 DEF AtAccount
    <2>2. p.pc \notin {"tail", "insert", "done", "absent"} /\ p.pc \notin Closed
        BY <1>7, <1>10 DEF Closed
    <2>3. QED
        BY <2>1, <2>2, <1>10, <1>13, <1>14, <1>15, <1>16, <1>17 DEF JobOK
<1>19. p.pc \in {"handoff", "delete", "page", "end"}
    BY <1>7, <1>10
<1>20. QED
    BY <1>2, <1>3, <1>9, <1>10, <1>12, <1>18, <1>19

(* Run r, now p, has submitted run q, which continues after its cursor.     *)
Relayed(r, p, q) ==
    /\ JobOK(p) /\ p = [run[r] EXCEPT !.pc = "passing"]
    /\ JobOK(q) /\ q.pc = "queued" /\ q.imp = run[r].imp
    /\ q.from = run[r].cursor /\ q.cursor = run[r].cursor /\ q.from # 0 /\ q.failed = FALSE

LEMMA RetriggerMakes ==
    ASSUME Timely, NEW r \in Runs, NEW k \in Runs, Retrigger(r, k)
    PROVE  /\ k # r /\ run[k].pc = "absent" /\ run[r].pc = "handoff"
           /\ \E p, q : Relayed(r, p, q) /\ run' = [run EXCEPT ![k] = q, ![r] = p]
<1>1. JobOK(run[r]) /\ run[r].pc = "handoff" /\ run[r] \in Job /\ run[k].pc = "absent" /\ k # r
    BY RunIs DEF Timely, Retrigger, NextRun
<1>2. /\ run[r].imp \in Imports /\ run[r].imp \in Nat /\ run[r].cursor \in Accounts /\ Latest(run[r].imp)
      /\ run[r].from <= run[r].cursor
      /\ (\E t \in Txns : t.import = run[r].imp) /\ (\A t \in Txns : t.import = run[r].imp => created[t] # 0)
    BY <1>1 DEF JobOK, Closed, Job
<1>3. PICK q : q = NewRun(run[r].imp, run[r].cursor)
    OBVIOUS
<1>4. PICK p : p = [run[r] EXCEPT !.pc = "passing"]
    OBVIOUS
<1>5. run' = [run EXCEPT ![k] = q, ![r] = p]
    <2>1. run' = [run EXCEPT ![k] = q, ![r].pc = "passing"]
        BY <1>3 DEF Retrigger
    <2>2. QED
        BY <2>1, <1>1, <1>4
<1>6. q \in Job /\ q.pc = "queued" /\ q.imp = run[r].imp /\ q.from = run[r].cursor /\ q.cursor = run[r].cursor
      /\ q.failed = FALSE
    <2>1. run[r].cursor \in Accounts \union {0}
        BY <1>2
    <2>2. QED
        BY ZenonT(60), <2>1, <1>2, <1>3, NewRunIs
<1>7. q.from <= q.cursor /\ q.from # 0
    <2>1. \A c \in Accounts : c \in Nat \ {0}
        BY AccountsAreNumbers
    <2>2. \A c \in Nat \ {0} : c <= c /\ c # 0
        OBVIOUS
    <2>3. run[r].cursor <= run[r].cursor /\ run[r].cursor # 0
        BY <1>2, <2>1, <2>2, Zenon
    <2>4. QED
        BY <1>6, <2>3
<1>8. JobOK(q)
    BY <1>2, <1>6, <1>7 DEF JobOK, AtAccount
<1>9. p \in Job /\ p.pc = "passing" /\ p.imp = run[r].imp /\ p.from = run[r].from /\ p.cursor = run[r].cursor
    BY <1>1, <1>4 DEF Job
<1>10. JobOK(p)
    BY <1>2, <1>9 DEF JobOK, AtAccount
<1>11. QED
    BY <1>1, <1>4, <1>5, <1>6, <1>7, <1>8, <1>10 DEF Relayed

LEMMA ClosePassedMakes ==
    ASSUME Timely, NEW r \in Runs, ClosePassed(r)
    PROVE  \E p : JobOK(p) /\ run' = [run EXCEPT ![r] = p] /\ p = [run[r] EXCEPT !.pc = "passed"]
<1>1. JobOK(run[r]) /\ run[r].pc = "passing" /\ run[r] \in Job
    BY RunIs DEF Timely, ClosePassed
<1>2. PICK p : p = [run[r] EXCEPT !.pc = "passed"]
    OBVIOUS
<1>3. /\ p \in Job /\ p.pc = "passed" /\ p.imp = run[r].imp /\ p.from = run[r].from /\ p.cursor = run[r].cursor
    BY <1>1, <1>2 DEF Job, Closed
<1>4. JobOK(p)
    BY <1>1, <1>3 DEF JobOK, AtAccount, Closed
<1>5. QED
    BY <1>2, <1>4 DEF ClosePassed, Become

LEMMA CloseDoneMakes ==
    ASSUME Timely, NEW r \in Runs, CloseDone(r)
    PROVE  \E p : /\ JobOK(p) /\ run' = [run EXCEPT ![r] = p]
                  /\ p.pc = "done" /\ p.imp = run[r].imp /\ p.from = run[r].from /\ p.cursor = run[r].cursor
                  /\ p.failed = run[r].failed /\ ~run[r].failed
<1>1. JobOK(run[r]) /\ run[r].pc = "end" /\ run[r] \in Job /\ ~run[r].failed
    BY RunIs DEF Timely, CloseDone
<1>2. PICK p : p = [run[r] EXCEPT !.pc = "done"]
    OBVIOUS
<1>3. /\ p \in Job /\ p.pc = "done" /\ p.imp = run[r].imp /\ p.from = run[r].from /\ p.cursor = run[r].cursor
      /\ p.failed = run[r].failed
    BY <1>1, <1>2 DEF Job, Closed
<1>4. JobOK(p)
    BY <1>1, <1>3 DEF JobOK, AtAccount, Closed
<1>5. QED
    BY <1>1, <1>2, <1>3, <1>4 DEF CloseDone, Become

LEMMA PoolRetryMakes ==
    ASSUME Timely, NEW r \in Runs, PoolRetry(r), run[r].pc \notin Closed
    PROVE  \E p : /\ JobOK(p) /\ run' = [run EXCEPT ![r] = p]
                  /\ p.pc \in {"queued", "failed"} /\ p.imp = run[r].imp /\ p.from = run[r].from
                  /\ p.cursor = run[r].from /\ p.failed = FALSE
<1>1. JobOK(run[r]) /\ run[r].tries \in Nat /\ Latest(run[r].imp) /\ run[r].pc # "absent"
    BY RunIs DEF Timely, JobOK, Closed
<1>2. PICK pc, n : /\ pc = (IF run[r].tries < MaxRetries THEN "queued" ELSE "failed")
                   /\ n = (IF run[r].tries < MaxRetries THEN run[r].tries + 1 ELSE run[r].tries)
    OBVIOUS
<1>3. pc \in {"queued", "page", "failed"} /\ n \in Nat /\ pc \in {"queued", "failed"}
    BY <1>1, <1>2
<1>4. run' = [run EXCEPT ![r] = Again(run[r], pc, n)]
    BY <1>2 DEF PoolRetry, Become, Again
<1> DEFINE p == Again(run[r], pc, n)
<1>5. JobOK(p) /\ p.imp = run[r].imp /\ p.from = run[r].from /\ p.cursor = run[r].from /\ p.pc = pc
      /\ p.failed = FALSE
    <2> HIDE DEF p
    <2>1. JobOK(Again(run[r], pc, n))
        BY <1>1, <1>3, AgainOK
    <2>2. Again(run[r], pc, n).imp = run[r].imp
        BY ZenonT(60), <1>1, <1>3, AgainOK
    <2>6. Again(run[r], pc, n).from = run[r].from
        BY ZenonT(60), <1>1, <1>3, AgainOK
    <2>3. Again(run[r], pc, n).cursor = run[r].from /\ Again(run[r], pc, n).failed = FALSE
        BY ZenonT(60), <1>1, <1>3, AgainOK
    <2>4. Again(run[r], pc, n).pc = pc
        BY <1>1, <1>3, AgainOK
    <2>5. QED
        BY <2>1, <2>2, <2>3, <2>4, <2>6 DEF p
<1> HIDE DEF p
<1>6. QED
    BY <1>3, <1>4, <1>5 DEF p

----------------------------------------------------------------------------
(* Timely, step by step.                                                    *)

LEMMA JobsBecome ==
    ASSUME Jobs, UNCHANGED <<startedAt, created>>, NEW r \in Runs, NEW p, JobOK(p),
           run' = [run EXCEPT ![r] = p]
    PROVE  Jobs'
<1>1. \A q : JobOK(q) => JobOK(q)'
    BY DEF JobOK, Latest, Mine
<1>2. p \in Job
    BY DEF JobOK
<1>3. QED
    BY <1>1, <1>2 DEF Jobs

LEMMA RowsGo ==
    ASSUME Rows, UNCHANGED <<now, startedAt, created>>, NEW a, NEW gone,
           book' = [book EXCEPT ![a] = @ \ gone]
    PROVE  Rows'
<1>1. \A b, w : RowOK(b, w) => RowOK(b, w)'
    BY DEF RowOK
<1>2. \A b \in Accounts : book'[b] \subseteq book[b]
    BY DEF Rows
<1>3. book' \in [Accounts -> SUBSET Row]
    BY DEF Rows
<1>4. QED
    BY <1>1, <1>2, <1>3 DEF Rows

LEMMA RowsStay ==
    ASSUME Rows, UNCHANGED <<now, startedAt, created, book>>
    PROVE  Rows'
BY DEF Rows, RowOK

LEMMA ChronologyStays ==
    ASSUME Chronology, UNCHANGED <<now, startedAt, created>>
    PROVE  Chronology'
BY DEF Chronology

(* The row a job inserts is of its upload, which is the latest.             *)
LEMMA RowInserted ==
    ASSUME Timely, UNCHANGED <<now, startedAt, created>>, NEW r \in Runs, JobOK(run[r]), run[r].pc = "insert",
           NEW a \in Accounts, NEW t \in Mine(a, run[r].imp), NEW seq \in Nat, NEW bal \in Int,
           book' = [book EXCEPT ![a] = @ \union {[txn |-> t, seq |-> seq, bal |-> bal, at |-> now]}]
    PROVE  Rows'
<1>1. PICK w : w = [txn |-> t, seq |-> seq, bal |-> bal, at |-> now]
    OBVIOUS
<1>2. t \in Txns /\ t.acct = a /\ t.import = run[r].imp /\ now \in Nat
    BY DEF Mine, Timely, Chronology
<1>3. Latest(t.import) /\ created[t] # 0
    BY <1>2 DEF JobOK, Closed
<1>4. w \in Row /\ w.txn = t /\ w.at = now
    BY <1>1, <1>2 DEF Row
<1>5. startedAt[t.import] <= now /\ now <= now
    BY <1>2, <1>3, TxnFacts DEF Timely, Chronology, Latest
<1>6. \A i \in Imports : startedAt[i] # 0 => ~(t.import < i)
    BY <1>3, TxnFacts, CashBoundsAssumption DEF Latest, Imports
<1>7. RowOK(a, w)
    BY <1>2, <1>3, <1>4, <1>5, <1>6 DEF RowOK
<1>8. \A b, v : RowOK(b, v) => RowOK(b, v)'
    BY DEF RowOK
<1>9. book' = [book EXCEPT ![a] = @ \union {w}] /\ book \in [Accounts -> SUBSET Row]
    BY <1>1 DEF Timely, Rows
<1>10. book' \in [Accounts -> SUBSET Row]
    BY <1>4, <1>9
<1>11. \A b \in Accounts : \A v \in book'[b] : v \in book[b] \/ (b = a /\ v = w)
    BY <1>9
<1>12. QED
    BY <1>7, <1>8, <1>10, <1>11 DEF Timely, Rows

LEMMA TimelyInit == Init => Timely
<1> SUFFICES ASSUME Init PROVE Timely
    OBVIOUS
<1>1. Chronology
    BY DEF Init, Chronology
<1>2. Rows
    BY DEF Init, Rows
<1>3. NoRun \in Job /\ NoRun.pc = "absent"
    <2>1. 0 \in Accounts \union {0} /\ 1 \in Nat
        OBVIOUS
    <2>2. QED
        BY <2>1, NewRunIs
<1>4. JobOK(NoRun)
    BY <1>3 DEF JobOK, Closed, AtAccount
<1>5. Jobs
    BY <1>3, <1>4 DEF Init, Jobs
<1>6. QED
    BY <1>1, <1>2, <1>5 DEF Timely

LEMMA TimelyTick ==
    ASSUME Timely, Tick
    PROVE  Timely'
<1>1. now' = now + 1 /\ now \in Nat \ {0} /\ UNCHANGED <<startedAt, created, book, run>>
    BY DEF Tick, Timely, Chronology
<1>2. startedAt \in [Imports -> Nat] /\ created \in [Txns -> Nat]
    BY DEF Timely, Chronology
<1>3. Chronology'
    <2>1. \A i \in Imports : startedAt[i] <= now => startedAt[i] <= now + 1
        BY <1>1, <1>2
    <2>2. \A t \in Txns : created[t] <= now => created[t] <= now + 1
        BY <1>1, <1>2
    <2>3. QED
        BY <1>1, <2>1, <2>2 DEF Timely, Chronology
<1>4. Rows'
    <2>1. \A w \in Row : w.at <= now => w.at <= now + 1
        BY <1>1 DEF Row
    <2>2. QED
        BY <2>1, <1>1 DEF Timely, Rows, RowOK
<1>5. Jobs'
    BY <1>1 DEF Timely, Jobs, JobOK, Latest, Mine
<1>6. QED
    BY <1>3, <1>4, <1>5 DEF Timely

(* An upload that overlaps none begins when every job has closed and what   *)
(* there is is older than its floor.                                        *)
LEMMA TimelyStartImport ==
    ASSUME ~overlap', Timely, NEW i \in Imports, StartImport(i)
    PROVE  Timely'
<1>1. /\ startedAt[i] = 0 /\ startedAt' = [startedAt EXCEPT ![i] = now]
      /\ \A k \in Imports : k < i => startedAt[k] # 0
      /\ \A r \in Runs : run[r].pc \in Closed
      /\ \A t \in Txns : t.import < i => created[t] # 0 /\ created[t] + Slack < now
      /\ \A a \in Accounts : \A w \in book[a] : w.at + Slack < now
      /\ UNCHANGED <<now, created, book, run>>
    BY DEF StartImport, Apart, Active
<1>2. startedAt \in [Imports -> Nat] /\ now \in Nat \ {0} /\ Chronology /\ Rows /\ Jobs
    BY DEF Timely, Chronology
<1>3. /\ startedAt' \in [Imports -> Nat] /\ startedAt'[i] = now
      /\ \A k \in Imports : k # i => startedAt'[k] = startedAt[k]
    BY <1>1, <1>2
<1>4. \A k \in Imports : startedAt[k] # 0 => startedAt'[k] = startedAt[k] /\ k # i
    BY <1>1, <1>3
<1>5. \A k \in Imports : startedAt[k] # 0 => ~(i < k)
    BY <1>1, <1>2 DEF Chronology
<1>6. Chronology'
    <2>1. ASSUME NEW k \in Imports, startedAt'[k] # 0
          PROVE  /\ startedAt'[k] <= now
                 /\ \A j \in Imports : j < k => startedAt'[j] # 0
                 /\ \A t \in Txns : t.import < k => created[t] # 0 /\ created[t] + Slack < startedAt'[k]
        <3>1. CASE k = i
            <4>1. \A j \in Imports : j < i => startedAt'[j] # 0
                BY <1>1, <1>4
            <4>2. QED
                BY <3>1, <4>1, <1>1, <1>2, <1>3
        <3>2. CASE k # i
            BY <3>2, <2>1, <1>2, <1>3, <1>4 DEF Chronology
        <3>3. QED
            BY <3>1, <3>2
    <2>2. ASSUME NEW t \in Txns, created[t] # 0
          PROVE  /\ startedAt'[t.import] # 0 /\ startedAt'[t.import] <= created[t] /\ created[t] <= now
                 /\ \A u \in Txns : u.import = t.import => created[u] # 0
        BY <2>2, <1>2, <1>4, TxnFacts DEF Chronology
    <2>3. QED
        BY <2>1, <2>2, <1>1, <1>2, <1>3 DEF Chronology
<1>7. Rows'
    <2>1. ASSUME NEW a \in Accounts, NEW w \in book[a]
          PROVE  RowOK(a, w)'
        <3>1. RowOK(a, w) /\ w.txn \in Txns /\ startedAt[w.txn.import] # 0 /\ w.txn.import \in Imports
            BY <1>2, TxnFacts DEF Rows, RowOK, Row, Chronology
        <3>2. startedAt'[w.txn.import] = startedAt[w.txn.import]
            BY <1>4, <3>1
        <3>3. ASSUME NEW k \in Imports, startedAt'[k] # 0, w.txn.import < k
              PROVE  w.at + Slack < startedAt'[k]
            BY <3>1, <3>3, <1>1, <1>3 DEF RowOK
        <3>4. QED
            BY <3>1, <3>2, <3>3, <1>1 DEF RowOK
    <2>2. QED
        BY <2>1, <1>1, <1>2 DEF Rows
<1>8. Jobs'
    <2>1. ASSUME NEW r \in Runs PROVE JobOK(run[r])'
        <3>1. JobOK(run[r]) /\ run[r].pc \in Closed
            BY <1>1, <1>2 DEF Jobs
        <3>2. run'[r] = run[r]
            BY <1>1
        <3>3. QED
            BY <3>1, <3>2, <1>1 DEF JobOK, Mine
    <2>2. QED
        BY <2>1, <1>1, <1>2 DEF Jobs
<1>9. QED
    BY <1>6, <1>7, <1>8 DEF Timely

(* An upload that has not landed is the latest there is.                    *)
LEMMA LandingIsLatest ==
    ASSUME Timely, NEW i \in Imports, NEW r \in Runs, ImportLands(i, r)
    PROVE  /\ Latest(i) /\ (\A t \in Txns : t.import = i => created[t] = 0) /\ \E t \in Txns : t.import = i
           /\ \A k \in Runs : run[k].pc # "absent" => run[k].imp # i
           /\ run[r].pc = "absent"
<1>1. startedAt[i] # 0 /\ (\A t \in Txns : t.import = i => created[t] = 0) /\ (\E t \in Txns : t.import = i)
      /\ run[r].pc = "absent"
    BY DEF ImportLands, NextRun
<1>2. Latest(i)
    BY <1>1, CashBoundsAssumption DEF Timely, Chronology, Latest, Imports
<1>3. ASSUME NEW k \in Runs, run[k].pc # "absent" PROVE run[k].imp # i
    <2>1. JobOK(run[k])
        BY DEF Timely, Jobs
    <2>2. QED
        BY <1>1, <1>3, <2>1 DEF JobOK
<1>4. QED
    BY <1>1, <1>2, <1>3

LEMMA TimelyImportLands ==
    ASSUME Timely, NEW i \in Imports, NEW r \in Runs, ImportLands(i, r)
    PROVE  Timely'
<1>1. /\ Latest(i) /\ (\A t \in Txns : t.import = i => created[t] = 0) /\ (\E t \in Txns : t.import = i)
      /\ run[r].pc = "absent"
    BY LandingIsLatest
<1>2. /\ created' = [t \in Txns |-> IF t.import = i THEN now ELSE created[t]]
      /\ run' = [run EXCEPT ![r] = NewRun(i, 0)]
      /\ UNCHANGED <<now, startedAt, book>>
    BY DEF ImportLands
<1>3. startedAt \in [Imports -> Nat] /\ now \in Nat \ {0} /\ created \in [Txns -> Nat] /\ Chronology /\ Rows /\ Jobs
    BY DEF Timely, Chronology
<1>4. /\ \A t \in Txns : t.import = i => created'[t] = now
      /\ \A t \in Txns : t.import # i => created'[t] = created[t]
      /\ \A t \in Txns : created[t] # 0 => created'[t] = created[t]
      /\ created' \in [Txns -> Nat]
    BY <1>1, <1>2, <1>3
<1>5. Chronology'
    <2>1. ASSUME NEW k \in Imports, startedAt[k] # 0
          PROVE  /\ startedAt[k] <= now
                 /\ \A j \in Imports : j < k => startedAt[j] # 0
                 /\ \A t \in Txns : t.import < k => created'[t] # 0 /\ created'[t] + Slack < startedAt[k]
        BY <2>1, <1>3, <1>4 DEF Chronology
    <2>2. ASSUME NEW t \in Txns, created'[t] # 0
          PROVE  /\ startedAt[t.import] # 0 /\ startedAt[t.import] <= created'[t] /\ created'[t] <= now
                 /\ \A u \in Txns : u.import = t.import => created'[u] # 0
        <3>1. CASE t.import = i
            BY <3>1, <1>1, <1>3, <1>4 DEF Chronology, Latest
        <3>2. CASE t.import # i
            BY <3>2, <2>2, <1>3, <1>4 DEF Chronology
        <3>3. QED
            BY <3>1, <3>2
    <2>3. QED
        BY <2>1, <2>2, <1>2, <1>3, <1>4 DEF Chronology
<1>6. Rows'
    <2>1. ASSUME NEW a, NEW w, RowOK(a, w) PROVE RowOK(a, w)'
        <3>1. w.txn \in Txns /\ created[w.txn] # 0
            BY <2>1 DEF RowOK, Row
        <3>2. created'[w.txn] # 0
            BY <3>1, <1>4
        <3>3. QED
            BY <2>1, <3>2, <1>2 DEF RowOK
    <2>2. QED
        BY <2>1, <1>2, <1>3 DEF Rows
<1>7. Jobs'
    <2>1. PICK q : q = NewRun(i, 0)
        OBVIOUS
    <2>2. q \in Job /\ q.pc = "queued" /\ q.imp = i /\ q.from = 0 /\ q.cursor = 0
        <3>1. i \in Nat /\ 0 \in Accounts \union {0}
            BY CashBoundsAssumption DEF Imports
        <3>2. /\ NewRun(i, 0) \in Job /\ NewRun(i, 0).pc = "queued"
              /\ NewRun(i, 0).imp = i /\ NewRun(i, 0).from = 0 /\ NewRun(i, 0).cursor = 0
            BY <3>1 DEF NewRun, Job
        <3>3. QED
            BY <3>2, <2>1
    <2>3. Latest(i)'
        BY <1>1, <1>2 DEF Latest
    <2>4. JobOK(q)'
        BY <2>2, <2>3, <1>1, <1>3, <1>4 DEF JobOK, AtAccount
    <2>5. ASSUME NEW p, JobOK(p) PROVE JobOK(p)'
        <3>1. p.pc # "absent" => \A t \in Txns : t.import = p.imp => created'[t] # 0
            BY <2>5, <1>4 DEF JobOK
        <3>2. Latest(p.imp)' = Latest(p.imp) /\ \A a : Mine(a, p.imp)' = Mine(a, p.imp)
            BY <1>2 DEF Latest, Mine
        <3>3. QED
            BY <2>5, <3>1, <3>2, <1>2 DEF JobOK
    <2>6. QED
        BY <2>1, <2>2, <2>4, <2>5, <1>2, <1>3 DEF Jobs
<1>8. QED
    BY <1>5, <1>6, <1>7 DEF Timely

(* What a step of a job leaves alone.                                       *)
LEMMA RunStepLeaves ==
    ASSUME NEW r \in Runs, RunStep(r)
    PROVE  UNCHANGED <<now, startedAt, created, overlap>>
BY DEF RunStep, Start, FetchPage, CountRows, DeleteRound, FetchEvents, ReadTail, InsertEvent, AccountFails,
       InsertThrows, Advance, Retrigger, ClosePassed, CloseDone, CloseFailed, Abort, PoolRetry

LEMMA RetryMakes ==
    ASSUME Timely, NEW r \in Runs, CloseFailed(r) \/ Abort(r)
    PROVE  /\ UNCHANGED book /\ run[r].pc \notin Closed
           /\ \E p : /\ JobOK(p) /\ run' = [run EXCEPT ![r] = p]
                     /\ p.pc \in {"queued", "failed"} /\ p.imp = run[r].imp /\ p.from = run[r].from
                     /\ p.cursor = run[r].from /\ p.failed = FALSE
<1>1. PoolRetry(r) /\ run[r].pc \notin Closed
    BY DEF CloseFailed, Abort, Closed
<1>2. UNCHANGED book
    BY <1>1 DEF PoolRetry
<1>3. QED
    BY <1>1, <1>2, PoolRetryMakes

LEMMA BookMoves ==
    ASSUME NEW r \in Runs, RunStep(r)
    PROVE  UNCHANGED book \/ DeleteRound(r) \/ InsertEvent(r) \/ InsertThrows(r)
BY DEF RunStep, Start, FetchPage, CountRows, FetchEvents, ReadTail, AccountFails, Advance,
       Retrigger, ClosePassed, CloseDone, CloseFailed, Abort, PoolRetry

LEMMA TimelyRunStep ==
    ASSUME Timely, NEW r \in Runs, RunStep(r)
    PROVE  Timely'
<1>1. UNCHANGED <<now, startedAt, created>>
    BY RunStepLeaves
<1>2. Chronology'
    BY <1>1, ChronologyStays DEF Timely
<1>3. Jobs /\ Rows
    BY DEF Timely
<1>4. Jobs'
    <2>1. ASSUME NEW p, JobOK(p), run' = [run EXCEPT ![r] = p] PROVE Jobs'
        BY <2>1, <1>1, <1>3, JobsBecome
    <2>2. CASE Start(r)
        BY <2>1, <2>2, StartMakes
    <2>3. CASE FetchPage(r)
        BY <2>1, <2>3, FetchPageMakes
    <2>4. CASE CountRows(r)
        BY <2>1, <2>4, CountMakes
    <2>15. CASE DeleteRound(r)
        BY <2>1, <2>15, DeleteMakes
    <2>5. CASE FetchEvents(r)
        BY <2>1, <2>5, FetchEventsMakes
    <2>6. CASE ReadTail(r)
        BY <2>1, <2>6, ReadTailMakes
    <2>7. CASE InsertEvent(r)
        BY <2>1, <2>7, InsertMakes
    <2>8. CASE AccountFails(r) \/ InsertThrows(r)
        BY <2>1, <2>8, FailureGivesUp, GiveUpMakes
    <2>9. CASE Advance(r)
        BY <2>1, <2>9, AdvanceMakes
    <2>10. ASSUME NEW k \in Runs, Retrigger(r, k) PROVE Jobs'
        <3>1. PICK p, q : Relayed(r, p, q) /\ run' = [run EXCEPT ![k] = q, ![r] = p]
            BY <2>10, RetriggerMakes
        <3>2. \A s : JobOK(s) => JobOK(s)'
            BY <1>1 DEF JobOK, Latest, Mine
        <3>3. p \in Job /\ q \in Job /\ JobOK(p) /\ JobOK(q)
            BY <3>1 DEF Relayed, JobOK
        <3>4. \A s \in Runs : run'[s] = p \/ run'[s] = q \/ run'[s] = run[s]
            BY <3>1, <1>3 DEF Jobs
        <3>5. \A s \in Runs : JobOK(run[s])'
            BY <3>2, <3>3, <3>4, <1>3 DEF Jobs
        <3>6. run' \in [Runs -> Job]
            BY <3>1, <3>3, <1>3 DEF Jobs
        <3>7. QED
            BY <3>5, <3>6 DEF Jobs
    <2>11. CASE ClosePassed(r)
        BY <2>1, <2>11, ClosePassedMakes
    <2>12. CASE CloseDone(r)
        BY <2>1, <2>12, CloseDoneMakes
    <2>13. CASE CloseFailed(r) \/ Abort(r)
        BY <2>1, <2>13, RetryMakes
    <2>14. QED
        BY <2>2, <2>3, <2>4, <2>15, <2>5, <2>6, <2>7, <2>8, <2>9, <2>10, <2>11, <2>12, <2>13 DEF RunStep
<1>5. Rows'
    <2>1. CASE UNCHANGED book
        BY <2>1, <1>1, <1>3, RowsStay
    <2>2. CASE DeleteRound(r)
        <3>1. \E gone : book' = [book EXCEPT ![Here(r)] = @ \ gone]
            BY <2>2, DeleteMakes
        <3>2. QED
            BY <3>1, <1>1, <1>3, RowsGo
    <2>3. CASE InsertEvent(r)
        <3>1. PICK t \in run[r].todo, bal \in Int :
                 /\ t \in Mine(Here(r), run[r].imp) /\ Here(r) \in Accounts
                 /\ book' = [book EXCEPT ![Here(r)] = @ \union
                                {[txn |-> t, seq |-> run[r].seq + 1, bal |-> bal, at |-> now]}]
            BY <2>3, InsertMakes
        <3>2. run[r].seq + 1 \in Nat /\ JobOK(run[r]) /\ run[r].pc = "insert"
            BY <1>3, <2>3, RunIs DEF InsertEvent
        <3>3. QED
            BY <3>1, <3>2, <1>1, RowInserted
    <2>5. CASE InsertThrows(r)
        <3>1. PICK t \in run[r].todo, bal \in Int :
                 /\ t \in Mine(Here(r), run[r].imp) /\ Here(r) \in Accounts
                 /\ book' = [book EXCEPT ![Here(r)] = @ \union
                                {[txn |-> t, seq |-> run[r].seq + 1, bal |-> bal, at |-> now]}]
            BY <2>5, ThrownRow
        <3>2. run[r].seq + 1 \in Nat /\ JobOK(run[r]) /\ run[r].pc = "insert"
            BY <1>3, <2>5, RunIs DEF InsertThrows
        <3>3. QED
            BY <3>1, <3>2, <1>1, RowInserted
    <2>4. QED
        BY <2>1, <2>2, <2>3, <2>5, BookMoves
<1>6. QED
    BY <1>2, <1>4, <1>5 DEF Timely

LEMMA TimelyNext ==
    ASSUME ~overlap', Timely, [Next]_vars
    PROVE  Timely'
<1>1. CASE Tick
    BY <1>1, TimelyTick
<1>2. ASSUME NEW i \in Imports, StartImport(i) PROVE Timely'
    BY <1>2, TimelyStartImport
<1>3. ASSUME NEW i \in Imports, NEW r \in Runs, ImportLands(i, r) PROVE Timely'
    BY <1>3, TimelyImportLands
<1>4. ASSUME NEW r \in Runs, RunStep(r) PROVE Timely'
    BY <1>4, TimelyRunStep
<1>5. CASE UNCHANGED vars
    BY <1>5 DEF vars, Timely, Chronology, Rows, RowOK, Jobs, JobOK, Latest, Mine
<1>6. QED
    BY <1>1, <1>2, <1>3, <1>4, <1>5 DEF Next

(* What is younger than the floor of a job's upload is of its upload.       *)
LEMMA SinceIsOwn ==
    ASSUME Timely, NEW r \in Runs, run[r].pc \notin Closed, NEW a \in Accounts,
           NEW w \in book[a], w.at >= Floor(run[r].imp)
    PROVE  w.txn.import = run[r].imp
<1>1. JobOK(run[r]) /\ Latest(run[r].imp) /\ run[r].imp \in Imports
    BY RunIs DEF Timely, JobOK, Closed
<1>2. RowOK(a, w) /\ w.txn \in Txns /\ w.at \in Nat
    BY DEF Timely, Rows, RowOK, Row
<1>3. startedAt[w.txn.import] # 0 /\ w.txn.import \in Imports
    BY <1>2, TxnFacts DEF Timely, Chronology, RowOK
<1>4. Slack \in Nat /\ Imports \subseteq Nat /\ startedAt[run[r].imp] \in Nat
    BY <1>1, CashBoundsAssumption DEF Imports, Timely, Chronology
<1>5. ~(w.txn.import < run[r].imp)
    BY <1>1, <1>2, <1>4 DEF RowOK, Latest, Floor
<1>6. ~(w.txn.import > run[r].imp)
    BY <1>1, <1>3 DEF Latest
<1>7. w.txn.import \in Nat /\ run[r].imp \in Nat
    BY <1>1, <1>3, <1>4
<1>8. QED
    BY <1>5, <1>6, <1>7

----------------------------------------------------------------------------
(* The runs of an upload are a chain.                                       *)

Gone == {"absent", "passing", "passed"}
Handed == {"passing", "passed"}

(* A run changes and stays where it is in the chain; a run that had handed  *)
(* over may start again.                                                    *)
LEMMA HeadsBecome ==
    ASSUME Jobs, NEW r \in Runs, NEW p, run' = [run EXCEPT ![r] = p],
           run[r].pc # "absent", p.pc # "absent", p.imp = run[r].imp,
           p.pc \in Handed => run[r].pc \in Handed
    PROVE  /\ \A i : Heads(i) \subseteq Heads(i)'
           /\ \A i : i # p.imp => Heads(i)' = Heads(i)
           /\ (p.pc \in Handed <=> run[r].pc \in Handed) => \A i : Heads(i)' = Heads(i)
           /\ run[r].pc \in Handed /\ p.pc \notin Handed => r \notin Heads(p.imp) /\ r \in Heads(p.imp)'
           /\ \A i : Landed(i)' = Landed(i)
<1>1. \A s \in Runs : run'[s] = IF s = r THEN p ELSE run[s]
    BY DEF Jobs
<1>2. \A i : Heads(i) \subseteq Heads(i)'
    BY <1>1 DEF Heads, Handed
<1>3. \A i : i # p.imp => Heads(i)' = Heads(i)
    BY <1>1 DEF Heads
<1>4. (p.pc \in Handed <=> run[r].pc \in Handed) => \A i : Heads(i)' = Heads(i)
    <2>1. ASSUME p.pc \in Handed <=> run[r].pc \in Handed, NEW i PROVE Heads(i)' = Heads(i)
        <3>1. \A s \in Runs : s \in Heads(i)' <=> s \in Heads(i)
            BY <1>1, <2>1 DEF Heads, Handed
        <3>2. QED
            BY <3>1 DEF Heads
    <2>2. QED
        BY <2>1
<1>5. run[r].pc \in Handed /\ p.pc \notin Handed => r \notin Heads(p.imp) /\ r \in Heads(p.imp)'
    BY <1>1 DEF Heads, Handed
<1>6. \A i : Landed(i)' = Landed(i)
    <2> TAKE i
    <2>1. \A s \in Runs : run'[s].imp = i /\ run'[s].pc # "absent" <=> run[s].imp = i /\ run[s].pc # "absent"
        BY <1>1
    <2>2. QED
        BY <2>1 DEF Landed
<1>7. QED
    BY <1>2, <1>3, <1>4, <1>5, <1>6

First(i, s) == run[s].imp = i /\ run[s].pc # "absent" /\ run[s].from = 0

LEMMA RelayIs ==
    Relay <=> \A i \in Imports : Landed(i) =>
                 /\ \E s \in Runs : First(i, s)
                 /\ \A s, z \in Runs : First(i, s) /\ First(i, z) => s = z
                 /\ Heads(i) # {}
BY DEF Relay, First

LEMMA RelayIsNow ==
    Relay' <=> \A i \in Imports : Landed(i)' =>
                 /\ \E s \in Runs : First(i, s)'
                 /\ \A s, z \in Runs : First(i, s)' /\ First(i, z)' => s = z
                 /\ Heads(i)' # {}
BY DEF Relay, First

LEMMA RelayBecome ==
    ASSUME Jobs, Relay, NEW r \in Runs, NEW p, run' = [run EXCEPT ![r] = p],
           run[r].pc # "absent", p.pc # "absent", p.imp = run[r].imp, p.from = run[r].from,
           p.pc \in Handed => run[r].pc \in Handed
    PROVE  Relay'
<1>1. \A s \in Runs : run'[s] = IF s = r THEN p ELSE run[s]
    BY DEF Jobs
<1>2. \A i : \A s \in Runs : First(i, s)' <=> First(i, s)
    BY <1>1 DEF First
<1>3. \A i : Heads(i) \subseteq Heads(i)' /\ Landed(i)' = Landed(i)
    BY HeadsBecome
<1>4. QED
    BY <1>2, <1>3, RelayIs, RelayIsNow

LEMMA RelayRetrigger ==
    ASSUME Timely, Relay, NEW r \in Runs, NEW k \in Runs, Retrigger(r, k), NEW j, j = run[r].imp
    PROVE  Relay' /\ Heads(j)' = (Heads(j) \ {r}) \union {k} /\ \A i : i # j => Heads(i)' = Heads(i)
<1>1. PICK p, q : k # r /\ run[k].pc = "absent" /\ run[r].pc = "handoff"
                  /\ Relayed(r, p, q) /\ run' = [run EXCEPT ![k] = q, ![r] = p]
    BY RetriggerMakes
<1>2. /\ run[r] \in Job /\ p.pc = "passing" /\ p.imp = run[r].imp /\ p.from = run[r].from
      /\ q.pc = "queued" /\ q.imp = run[r].imp /\ q.from # 0
    BY <1>1, RunIs DEF Timely, Relayed, Job
<1>3. \A s \in Runs : run'[s] = IF s = r THEN p ELSE IF s = k THEN q ELSE run[s]
    BY <1>1 DEF Timely, Jobs
<1>4. \A i : \A s \in Runs : First(i, s)' <=> First(i, s)
    BY ZenonT(60), <1>1, <1>2, <1>3 DEF First
<1>5. \A i : Landed(i)' => Landed(i)
    BY <1>1, <1>2, <1>3 DEF Landed
<1>6. Heads(j)' = (Heads(j) \ {r}) \union {k}
    <2>1. \A s \in Runs : s \in Heads(j)' <=> (s \in Heads(j) /\ s # r) \/ s = k
        BY <1>1, <1>2, <1>3 DEF Heads
    <2>2. QED
        BY <2>1 DEF Heads
<1>7. \A i : i # j => Heads(i)' = Heads(i)
    BY ZenonT(60), <1>1, <1>2, <1>3 DEF Heads
<1>8. \A i : Heads(i) # {} => Heads(i)' # {}
    BY <1>6, <1>7
<1>9. Relay'
    BY <1>4, <1>5, <1>8, RelayIs, RelayIsNow
<1>10. QED
    BY <1>6, <1>7, <1>9

LEMMA RelayLands ==
    ASSUME Timely, Relay, NEW j \in Imports, NEW k \in Runs, ImportLands(j, k)
    PROVE  Relay' /\ Heads(j)' = {k} /\ \A i : i # j => Heads(i)' = Heads(i)
<1>1. \A s \in Runs : run[s].pc # "absent" => run[s].imp # j
    BY LandingIsLatest
<1>2. run[k].pc = "absent" /\ run' = [run EXCEPT ![k] = NewRun(j, 0)]
    BY DEF ImportLands, NextRun
<1>3. PICK q : q = NewRun(j, 0)
    OBVIOUS
<1>4. q.pc = "queued" /\ q.imp = j /\ q.from = 0
    BY <1>3 DEF NewRun
<1>5. \A s \in Runs : run'[s] = IF s = k THEN q ELSE run[s]
    BY <1>2, <1>3 DEF Timely, Jobs
<1>6. Heads(j)' = {k} /\ \A i : i # j => Heads(i)' = Heads(i)
    BY <1>1, <1>2, <1>4, <1>5 DEF Heads
<1>7. First(j, k)' /\ \A s \in Runs : First(j, s)' => s = k
    BY <1>1, <1>4, <1>5 DEF First
<1>8. \A i : i # j => /\ \A s \in Runs : First(i, s)' <=> First(i, s)
                      /\ Landed(i)' => Landed(i)
    BY <1>2, <1>4, <1>5 DEF First, Landed
<1>9. Relay'
    BY <1>6, <1>7, <1>8, RelayIs, RelayIsNow
<1>10. QED
    BY <1>6, <1>9

(* What every other step of a job does to its run.                          *)
Stays(r, p) ==
    /\ JobOK(p) /\ run' = [run EXCEPT ![r] = p]
    /\ run[r].pc # "absent" /\ p.pc # "absent" /\ p.imp = run[r].imp /\ p.from = run[r].from
    /\ p.pc \in Handed => run[r].pc \in Handed

LEMMA OtherSteps ==
    ASSUME Timely, NEW r \in Runs, RunStep(r)
    PROVE  \/ \E p : Stays(r, p)
           \/ \E k \in Runs : Retrigger(r, k)
<1>1. run[r] \in Job
    BY RunIs DEF Timely
<1>2. CASE Start(r)
    <2>1. run[r].pc = "queued"
        BY <1>2 DEF Start
    <2>2. QED
        BY <1>2, <2>1, StartMakes DEF Stays, Handed
<1>3. CASE FetchPage(r)
    <2>1. run[r].pc = "page"
        BY <1>3 DEF FetchPage
    <2>2. QED
        BY <1>3, <2>1, FetchPageMakes DEF Stays, Handed
<1>4. CASE CountRows(r)
    <2>1. run[r].pc = "delete"
        BY <1>4 DEF CountRows
    <2>2. QED
        BY <1>4, <2>1, CountMakes DEF Stays, Handed
<1>14. CASE DeleteRound(r)
    <2>1. run[r].pc = "remove"
        BY <1>14 DEF DeleteRound
    <2>2. QED
        BY <1>14, <2>1, DeleteMakes DEF Stays, Handed
<1>5. CASE FetchEvents(r)
    <2>1. PICK p : /\ JobOK(p) /\ run' = [run EXCEPT ![r] = p]
                   /\ p = [run[r] EXCEPT !.todo = Mine(Here(r), run[r].imp), !.pc = "tail"]
        BY <1>5, FetchEventsMakes
    <2>2. p.pc = "tail" /\ p.imp = run[r].imp /\ p.from = run[r].from /\ run[r].pc = "fetch"
        BY <1>1, <1>5, <2>1 DEF Job, FetchEvents
    <2>3. QED
        BY <2>1, <2>2 DEF Stays, Handed
<1>6. CASE ReadTail(r)
    <2>1. run[r].pc = "tail"
        BY <1>6 DEF ReadTail
    <2>2. QED
        BY <1>6, <2>1, ReadTailMakes DEF Stays, Handed
<1>7. CASE InsertEvent(r)
    <2>1. run[r].pc = "insert"
        BY <1>7 DEF InsertEvent
    <2>2. PICK p : /\ JobOK(p) /\ run' = [run EXCEPT ![r] = p]
                   /\ p.pc = (IF p.todo = {} THEN "next" ELSE "insert")
                   /\ p.imp = run[r].imp /\ p.from = run[r].from
        BY <1>7, InsertMakes
    <2>3. QED
        BY <2>1, <2>2 DEF Stays, Handed
<1>8. CASE AccountFails(r) \/ InsertThrows(r)
    BY <1>8, FailureGivesUp, GiveUpMakes DEF Stays, Handed
<1>9. CASE Advance(r)
    <2>1. run[r].pc = "next"
        BY <1>9 DEF Advance
    <2>2. QED
        BY <1>9, <2>1, AdvanceMakes DEF Stays, Handed
<1>10. CASE ClosePassed(r)
    <2>1. PICK p : JobOK(p) /\ run' = [run EXCEPT ![r] = p] /\ p = [run[r] EXCEPT !.pc = "passed"]
        BY <1>10, ClosePassedMakes
    <2>2. p.pc = "passed" /\ p.imp = run[r].imp /\ p.from = run[r].from /\ run[r].pc = "passing"
        BY <1>1, <1>10, <2>1 DEF Job, ClosePassed
    <2>3. QED
        BY <2>1, <2>2 DEF Stays, Handed
<1>11. CASE CloseDone(r)
    <2>1. run[r].pc = "end"
        BY <1>11 DEF CloseDone
    <2>2. QED
        BY <1>11, <2>1, CloseDoneMakes DEF Stays, Handed
<1>12. CASE CloseFailed(r) \/ Abort(r)
    <2>1. run[r].pc # "absent"
        BY <1>12 DEF CloseFailed, Abort, Closed
    <2>2. QED
        BY <1>12, <2>1, RetryMakes DEF Stays, Handed
<1>13. QED
    BY <1>2, <1>3, <1>4, <1>14, <1>5, <1>6, <1>7, <1>8, <1>9, <1>10, <1>11, <1>12 DEF RunStep

LEMMA RelayNext ==
    ASSUME Timely, Relay, [Next]_vars
    PROVE  Relay'
<1>1. UNCHANGED run => Relay'
    BY DEF Relay, Landed, Heads
<1>2. ASSUME NEW i \in Imports, NEW r \in Runs, ImportLands(i, r) PROVE Relay'
    BY <1>2, RelayLands
<1>3. ASSUME NEW r \in Runs, RunStep(r) PROVE Relay'
    <2>1. ASSUME NEW p, Stays(r, p) PROVE Relay'
        BY <2>1, RelayBecome DEF Stays, Timely
    <2>2. QED
        BY <1>1, <1>3, <2>1, OtherSteps, RelayRetrigger
<1>4. QED
    BY <1>1, <1>2, <1>3 DEF Next, Tick, StartImport, vars

LEMMA RelayInit == Init => Relay
BY DEF Init, Relay, Landed, NoRun, NewRun

----------------------------------------------------------------------------
(* What rows add up to.                                                     *)

LEMMA SomeTxnsFinite ==
    ASSUME NEW T \in SUBSET Txns
    PROVE  IsFiniteSet(T) /\ Cardinality(T) \in Nat /\ (Cardinality(T) = 0 <=> T = {})
BY TxnFacts, FS_Subset, FS_CardinalityType, FS_EmptySet

LEMMA EarlierFacts ==
    ASSUME NEW t \in Txns
    PROVE  ~Earlier(t, t) /\ \A u \in Txns : Earlier(u, t) => ~Earlier(t, u)
BY TxnFacts DEF Earlier

LEMMA NothingAdds == Adds({}, {})
<1>1. Cardinality({}) = 0 /\ IsFiniteSet({})
    BY FS_EmptySet
<1>2. QED
    BY <1>1 DEF Adds

(* A row for a transaction after all there are, numbered next, continues    *)
(* the passbook.                                                            *)
LEMMA OneMoreAdds ==
    ASSUME NEW B \in SUBSET Row, NEW T \in SUBSET Txns, Adds(B, T),
           NEW t \in Txns, t \notin T, \A u \in T : Earlier(u, t),
           NEW w \in Row, w.txn = t, w.seq = Cardinality(T) + 1,
           NEW before \in Int, NEW opened \in BOOLEAN,
           w.bal = NewBalance(before, opened, t),
           opened <=> \E u \in T : u.opening \/ u.import < t.import,
           Cardinality(T) = 0 => before = 0,
           \A v \in B : v.seq = Cardinality(T) => before = v.bal
    PROVE  Adds(B \union {w}, T \union {t})
<1> DEFINE C == B \union {w}
           U == T \union {t}
<1>1. IsFiniteSet(T) /\ Cardinality(T) \in Nat /\ IsFiniteSet(B)
    BY SomeTxnsFinite DEF Adds
<1>2. w \notin B
    BY DEF Adds
<1>3. IsFiniteSet(C) /\ Cardinality(C) = Cardinality(B) + 1 /\ Cardinality(U) = Cardinality(T) + 1
    BY <1>1, <1>2, FS_AddElement
<1>4. /\ \A v \in B : v.txn \in T /\ v.seq \in 1 .. Cardinality(T) /\ v.seq \in Nat
      /\ \A n \in 1 .. Cardinality(T) : \E v \in B : v.seq = n
      /\ \A u \in T : \E v \in B : v.txn = u
      /\ Cardinality(B) = Cardinality(T)
    BY DEF Adds
<1>5. {v.txn : v \in C} = U
    BY <1>4
<1>6. \A v, z \in C : v.txn = z.txn => v = z
    BY <1>4 DEF Adds
<1>7. {v.seq : v \in C} = 1 .. Cardinality(U)
    <2>1. \A n \in 1 .. Cardinality(U) : n \in 1 .. Cardinality(T) \/ n = w.seq
        BY <1>1, <1>3
    <2>2. \A v \in C : v.seq \in 1 .. Cardinality(U)
        BY <1>1, <1>3, <1>4
    <2>3. \A n \in 1 .. Cardinality(U) : \E v \in C : v.seq = n
        BY <2>1, <1>4
    <2>4. QED
        BY ZenonT(60), <2>2, <2>3
<1>8. \A v, z \in C : v.seq = z.seq => v = z
    <2>1. \A v \in B : v.seq # w.seq
        BY <1>1, <1>4
    <2>2. \A v, z \in B : v.seq = z.seq => v = z
        BY DEF Adds
    <2>3. QED
        BY <2>1, <2>2
<1>9. Before(U, t) = T
    BY EarlierFacts DEF Before
<1>10. Opened(U, t) <=> opened
    BY <1>9 DEF Opened
<1>11. \A u \in T : Before(U, u) = Before(T, u)
    <2>1. \A u \in T : ~Earlier(t, u)
        BY EarlierFacts
    <2>2. QED
        BY <2>1 DEF Before
<1>12. \A u \in T : Opened(U, u) = Opened(T, u)
    BY <1>11 DEF Opened
<1>13. ASSUME NEW z \in C
       PROVE  /\ z.seq = Cardinality(Before(U, z.txn)) + 1
              /\ z.seq = 1 => z.bal = NewBalance(0, Opened(U, z.txn), z.txn)
              /\ \A v \in C : v.seq = z.seq - 1 => z.bal = NewBalance(v.bal, Opened(U, z.txn), z.txn)
    <2>1. CASE z = w
        <3>1. z.seq = Cardinality(Before(U, z.txn)) + 1
            BY <2>1, <1>9
        <3>2. \A n : NewBalance(n, Opened(U, t), t) = NewBalance(n, opened, t)
            BY <1>10 DEF NewBalance
        <3>3. z.seq = 1 => before = 0
            BY <2>1, <1>1
        <3>4. ASSUME NEW v \in C, v.seq = z.seq - 1 PROVE before = v.bal
            <4>1. v.seq = Cardinality(T) /\ v # w
                BY <3>4, <2>1, <1>1
            <4>2. QED
                BY <4>1
        <3>5. QED
            BY <2>1, <3>1, <3>2, <3>3, <3>4
    <2>2. CASE z \in B
        <3>1. z.txn \in T /\ z.seq \in 1 .. Cardinality(T)
            BY <2>2, <1>4
        <3>2. Before(U, z.txn) = Before(T, z.txn) /\ Opened(U, z.txn) = Opened(T, z.txn)
            BY <3>1, <1>11, <1>12
        <3>3. w.seq # z.seq - 1
            BY <3>1, <1>1
        <3>4. /\ z.seq = Cardinality(Before(T, z.txn)) + 1
              /\ z.seq = 1 => z.bal = NewBalance(0, Opened(T, z.txn), z.txn)
              /\ \A v \in B : v.seq = z.seq - 1 => z.bal = NewBalance(v.bal, Opened(T, z.txn), z.txn)
            BY <2>2 DEF Adds
        <3>5. QED
            BY <3>2, <3>3, <3>4
    <2>3. QED
        BY <2>1, <2>2
<1>14. Cardinality(C) = Cardinality(U)
    BY <1>3, <1>4
<1> HIDE DEF C, U
<1>15. Adds(C, U)
    BY <1>3, <1>5, <1>6, <1>7, <1>8, <1>13, <1>14 DEF Adds
<1>16. QED
    BY <1>15 DEF C, U

(* The last row of a passbook that adds up is numbered by how many          *)
(* transactions there are.                                                  *)
LEMMA TailOf ==
    ASSUME NEW B \in SUBSET Row, NEW T \in SUBSET Txns, Adds(B, T)
    PROVE  /\ B = {} <=> T = {}
           /\ \A w \in B : (\A v \in B : v.seq <= w.seq) =>
                 w.seq = Cardinality(T) /\ w.seq > 0 /\ \A v \in B : v.seq = w.seq => v = w
<1>1. Cardinality(T) \in Nat
    BY SomeTxnsFinite
<1>2. B = {} <=> T = {}
    <2>1. {w.txn : w \in B} = T
        BY DEF Adds
    <2>2. (\A w \in B : w.txn \in T) /\ \A t \in T : \E w \in B : w.txn = t
        BY <2>1
    <2>3. QED
        BY <2>2
<1>3. ASSUME NEW w \in B, \A v \in B : v.seq <= w.seq
      PROVE  w.seq = Cardinality(T) /\ w.seq > 0 /\ \A v \in B : v.seq = w.seq => v = w
    <2>1. {v.seq : v \in B} = 1 .. Cardinality(T)
        BY DEF Adds
    <2>2. w.seq \in 1 .. Cardinality(T)
        BY <2>1
    <2>3. PICK v \in B : v.seq = Cardinality(T)
        BY <2>1, <2>2, <1>1
    <2>4. QED
        BY <2>2, <2>3, <1>1, <1>3 DEF Adds
<1>4. QED
    BY <1>2, <1>3

(* A passbook that adds up to what it is owed is exact.                     *)
LEMMA AddsIsExact ==
    ASSUME NEW a \in Accounts, book[a] \subseteq Row, Adds(book[a], Owed(a))
    PROVE  Exact(a)
<1> DEFINE T == Owed(a)
           B == book[a]
           Pred(w) == {v \in B : v.seq = w.seq - 1}
<1>1. Cardinality(T) \in Nat /\ T \subseteq Txns
    <2>1. Owed(a) \in SUBSET Txns
        BY DEF Owed
    <2>2. QED
        BY <2>1, SomeTxnsFinite
<1>2. {w.txn : w \in B} = T /\ Cardinality(B) = Cardinality(T)
    BY DEF Adds
<1>3. ASSUME NEW w \in B
      PROVE  /\ w.seq = Cardinality({u \in T : Earlier(u, w.txn)}) + 1
             /\ LET opened == \E u \in {u \in T : Earlier(u, w.txn)} : u.opening \/ u.import < w.txn.import
                    before == IF w.seq = 1 THEN 0 ELSE (CHOOSE v \in Pred(w) : TRUE).bal
                IN w.bal = NewBalance(before, opened, w.txn)
    <2>1. /\ w.seq = Cardinality(Before(T, w.txn)) + 1
          /\ w.seq = 1 => w.bal = NewBalance(0, Opened(T, w.txn), w.txn)
          /\ \A v \in B : v.seq = w.seq - 1 => w.bal = NewBalance(v.bal, Opened(T, w.txn), w.txn)
          /\ {v.seq : v \in B} = 1 .. Cardinality(T)
        BY DEF Adds
    <2>2. Before(T, w.txn) = {u \in T : Earlier(u, w.txn)}
        BY DEF Before
    <2>3. ASSUME w.seq # 1
          PROVE  w.bal = NewBalance((CHOOSE v \in Pred(w) : TRUE).bal, Opened(T, w.txn), w.txn)
        <3>1. w.seq - 1 \in 1 .. Cardinality(T)
            <4>1. w.seq \in {v.seq : v \in B}
                OBVIOUS
            <4>2. w.seq \in 1 .. Cardinality(T)
                BY <2>1, <4>1
            <4>3. QED
                BY <2>3, <4>2, <1>1
        <3>2. Pred(w) # {}
            BY <2>1, <3>1
        <3>3. (CHOOSE v \in Pred(w) : TRUE) \in Pred(w)
            BY <3>2
        <3>4. QED
            BY <2>1, <3>3
    <2>4. QED
        BY <2>1, <2>2, <2>3 DEF Opened
<1>4. QED
    BY <1>2, <1>3 DEF Exact

----------------------------------------------------------------------------
(* The passbooks, step by step.                                             *)

LEMMA ImportsAreNumbers == NumImports \in Nat /\ Imports \subseteq Nat \ {0}
BY CashBoundsAssumption DEF Imports

(* A row is of a transaction its account owes.                              *)
LEMMA RowOwed ==
    ASSUME Timely, NEW a \in Accounts, NEW w \in book[a]
    PROVE  w \in Row /\ w.txn \in Owed(a)
BY DEF Timely, Rows, RowOK, Row, Owed

LEMMA BookIs == ASSUME Timely, NEW a \in Accounts PROVE book[a] \in SUBSET Row
BY DEF Timely, Rows

(* What is owed is of uploads up to the latest one.                         *)
LEMMA OwedIs ==
    ASSUME Timely, NEW i \in Imports, Latest(i), NEW a
    PROVE  /\ Debt(a, i) \subseteq Owed(a) /\ Owed(a) \subseteq Debt(a, i) \union Mine(a, i)
           /\ (\A t \in Txns : t.import = i => created[t] # 0) => Owed(a) = Debt(a, i) \union Mine(a, i)
<1>1. Debt(a, i) \subseteq Owed(a)
    BY DEF Timely, Chronology, Latest, Debt, Owed
<1>2. Owed(a) \subseteq Debt(a, i) \union Mine(a, i)
    <2>1. SUFFICES ASSUME NEW t \in Owed(a) PROVE t.import < i \/ t.import = i
        BY DEF Owed, Debt, Mine
    <2>2. startedAt[t.import] # 0 /\ t.import \in Imports
        BY TxnFacts DEF Owed, Timely, Chronology
    <2>3. ~(t.import > i)
        BY <2>2 DEF Latest
    <2>4. t.import \in Nat /\ i \in Nat
        BY <2>2, ImportsAreNumbers
    <2>5. QED
        BY <2>3, <2>4
<1>3. (\A t \in Txns : t.import = i => created[t] # 0) => Mine(a, i) \subseteq Owed(a)
    BY DEF Mine, Owed
<1>4. QED
    BY <1>1, <1>2, <1>3

(* An account the latest upload does not touch is as it was.                *)
LEMMA Untouched ==
    ASSUME Timely, NEW i \in Imports, Latest(i), Priors(i), NEW a \in Accounts, Mine(a, i) = {}
    PROVE  Adds(book[a], Owed(a))
<1>1. Owed(a) = Debt(a, i)
    BY OwedIs
<1>2. book[a] = Kept(a, i)
    BY <1>1, RowOwed DEF Kept, Debt
<1>3. QED
    BY <1>1, <1>2 DEF Priors

(* A run that is done has left every passbook exact.                        *)
LEMMA DoneIsExact ==
    ASSUME Timely, NEW i \in Imports, Latest(i), Priors(i),
           NEW p, JobOK(p), p.imp = i, p.pc = "done", Doing(i, p), NEW a \in Accounts
    PROVE  Adds(book[a], Owed(a))
<1>1. CASE Mine(a, i) = {}
    BY <1>1, Untouched
<1>2. CASE Mine(a, i) # {}
    <2>1. a <= p.cursor /\ ~p.failed
        BY <1>2 DEF JobOK
    <2>2. QED
        BY <2>1 DEF Doing, Behind
<1>3. QED
    BY <1>1, <1>2

(* A step of a job of the latest upload leaves the rows of the uploads      *)
(* before it.                                                               *)
LEMMA KeptStays ==
    ASSUME Timely, NEW r \in Runs, RunStep(r), NEW i \in Imports, i = run[r].imp, NEW a \in Accounts
    PROVE  Kept(a, i)' = Kept(a, i)
<1>1. book \in [Accounts -> SUBSET Row]
    BY DEF Timely, Rows
<1>2. CASE UNCHANGED book
    BY <1>2 DEF Kept
<1>3. CASE DeleteRound(r)
    <2>1. run[r].pc \notin Closed
        BY <1>3 DEF DeleteRound, Closed
    <2>2. PICK gone \in SUBSET SinceRows(r) : book' = [book EXCEPT ![Here(r)] = @ \ gone]
        BY <1>3, DeleteMakes
    <2>3. \A w \in book[a] \ book'[a] : a = Here(r) /\ w \in SinceRows(r)
        BY <2>2, <1>1
    <2>4. \A w \in book[a] \ book'[a] : w.txn.import = i
        BY <2>1, <2>3, SinceIsOwn DEF SinceRows
    <2>5. book'[a] \subseteq book[a]
        BY <2>2, <1>1
    <2>6. ~(i < i)
        BY ImportsAreNumbers
    <2>7. QED
        BY <2>4, <2>5, <2>6 DEF Kept
<1>4. CASE InsertEvent(r) \/ InsertThrows(r)
    <2>1. PICK t \in run[r].todo, bal \in Int :
             /\ t \in Mine(Here(r), run[r].imp) /\ Here(r) \in Accounts
             /\ book' = [book EXCEPT ![Here(r)] = @ \union
                            {[txn |-> t, seq |-> run[r].seq + 1, bal |-> bal, at |-> now]}]
        BY <1>4, InsertMakes, ThrownRow
    <2>2. PICK w : w = [txn |-> t, seq |-> run[r].seq + 1, bal |-> bal, at |-> now]
        OBVIOUS
    <2>3. w.txn = t /\ t.import = i
        BY <2>1, <2>2 DEF Mine
    <2>4. book'[a] = book[a] \/ book'[a] = book[a] \union {w}
        BY <2>1, <2>2, <1>1
    <2>5. ~(i < i)
        BY ImportsAreNumbers
    <2>6. QED
        BY <2>3, <2>4, <2>5 DEF Kept
<1>5. QED
    BY <1>2, <1>3, <1>4, BookMoves

(* A run that does not touch a passbook, and claims nothing more of them.   *)
LEMMA DoesNothing ==
    ASSUME UNCHANGED <<created, book>>, NEW i, NEW p,
           p.pc \notin {"fetch", "tail", "insert"}, p.pc = "next" => p.failed, Behind(p)
    PROVE  Doing(i, p)'
<1>1. \A a : Owed(a)' = Owed(a)
    BY DEF Owed
<1>2. Behind(p)'
    BY <1>1 DEF Behind
<1>3. QED
    BY <1>2 DEF Doing

LEMMA DoingCount ==
    ASSUME Timely, NEW r \in Runs, NEW i \in Imports, i = run[r].imp, Latest(i), Doing(i, run[r]),
           CountRows(r), NEW p, p = run'[r]
    PROVE  Doing(i, p)'
<1>1. JobOK(run[r]) /\ run[r].pc = "delete" /\ run[r].pc \in AtAccount /\ UNCHANGED <<created, book>> /\ Jobs
    BY RunIs DEF Timely, JobOK, CountRows, AtAccount
<1>2. PICK a : a = Here(r)
    OBVIOUS
<1>3. a \in Accounts /\ a = Lowest(run[r].page)
    BY <1>1, <1>2, HereIs
<1>4. /\ p.pc \in {"fetch", "remove"} /\ (p.pc = "fetch" => SinceRows(r) = {})
      /\ p.from = run[r].from /\ p.cursor = run[r].cursor /\ p.page = run[r].page /\ p.failed = run[r].failed
    BY <1>1, CountMakes DEF Jobs
<1>5. Behind(p)
    BY <1>4 DEF Doing, Behind
<1>6. CASE p.pc = "remove"
    BY <1>1, <1>5, <1>6, DoesNothing
<1>7. CASE p.pc = "fetch"
    <2>1. SinceRows(r) = {} /\ p.pc = "fetch"
        BY <1>4, <1>7
    <2>2. book[a] = Kept(a, i)
        <3>1. SUFFICES ASSUME NEW w \in book[a] PROVE w.txn.import < i
            BY DEF Kept
        <3>2. w.txn \in Owed(a) /\ RowOK(a, w) /\ w.at \in Nat
            BY <1>3, RowOwed DEF Timely, Rows, RowOK, Row
        <3>3. w.txn.import < i \/ w.txn.import = i
            BY <3>2, OwedIs DEF Debt, Mine
        <3>4. ASSUME w.txn.import = i PROVE FALSE
            <4>1. startedAt[i] <= w.at /\ startedAt[i] \in Nat /\ Slack \in Nat
                BY <3>2, <3>4, CashBoundsAssumption DEF RowOK, Timely, Chronology
            <4>2. w.at >= Floor(i)
                BY <4>1, <3>2 DEF Floor
            <4>3. w \in SinceRows(r)
                BY <4>2, <1>2 DEF SinceRows
            <4>4. QED
                BY <4>3, <2>1
        <3>5. QED
            BY <3>3, <3>4
    <2>3. (book[a] = Kept(a, i))'
        BY <2>2, <1>1 DEF Kept
    <2>4. Behind(p)'
        BY <1>1, <1>5 DEF Behind, Owed
    <2>5. QED
        BY <2>1, <2>3, <2>4, <1>3, <1>4 DEF Doing
<1>8. QED
    BY <1>4, <1>6, <1>7

LEMMA DoingDelete ==
    ASSUME Timely, NEW r \in Runs, NEW i \in Imports, i = run[r].imp, Latest(i), Doing(i, run[r]),
           DeleteRound(r), NEW p, p = run'[r]
    PROVE  Doing(i, p)'
<1>1. /\ JobOK(run[r]) /\ run[r] \in Job /\ run[r].pc = "remove" /\ run[r].pc \in AtAccount /\ UNCHANGED created
      /\ run[r].cursor \in Nat /\ run[r].from \in Nat /\ run[r].from <= run[r].cursor /\ Jobs
    BY RunIs DEF Timely, JobOK, DeleteRound, AtAccount
<1>2. PICK a : a = Here(r)
    OBVIOUS
<1>3. a \in Accounts /\ a > run[r].cursor /\ a \in Nat
    BY <1>1, <1>2, HereIs, AccountsAreNumbers
<1>4. book \in [Accounts -> SUBSET Row]
    BY DEF Timely, Rows
<1>5. Behind(run[r]) /\ \A b : Owed(b)' = Owed(b)
    BY <1>1 DEF Doing, Owed
<1>6. p.pc = "delete" /\ p.from = run[r].from /\ p.cursor = run[r].cursor /\ p.failed = run[r].failed
    BY <1>1, DeleteMakes DEF Jobs
<1>7. \A b \in Accounts : b # a => book'[b] = book[b]
    BY <1>2, <1>4, DeleteMakes
<1>8. \A b \in Accounts : b <= p.from \/ b <= p.cursor => b # a
    BY <1>6, <1>1, <1>3, AccountsAreNumbers
<1>9. Behind(p)'
    BY <1>5, <1>6, <1>7, <1>8 DEF Behind
<1>10. QED
    BY <1>6, <1>9 DEF Doing

LEMMA DoingFetchEvents ==
    ASSUME Timely, NEW r \in Runs, NEW i \in Imports, i = run[r].imp, Doing(i, run[r]),
           FetchEvents(r), NEW p, p = run'[r]
    PROVE  Doing(i, p)'
<1>1. PICK q : run' = [run EXCEPT ![r] = q] /\ q = [run[r] EXCEPT !.todo = Mine(Here(r), run[r].imp), !.pc = "tail"]
    BY FetchEventsMakes
<1>2. p = q /\ run[r] \in Job /\ run[r].pc = "fetch" /\ UNCHANGED <<created, book>>
    BY <1>1, RunIs DEF Timely, Jobs, FetchEvents
<1>3. p.pc = "tail" /\ p.page = run[r].page /\ p.from = run[r].from /\ p.cursor = run[r].cursor
      /\ p.failed = run[r].failed
    BY <1>1, <1>2 DEF Job
<1>4. \A b : Owed(b)' = Owed(b) /\ Kept(b, i)' = Kept(b, i)
    BY <1>2 DEF Owed, Kept
<1>5. Behind(p)'
    BY <1>2, <1>3, <1>4 DEF Doing, Behind
<1>6. QED
    BY <1>2, <1>3, <1>4, <1>5 DEF Doing

LEMMA DoingReadTail ==
    ASSUME Timely, NEW r \in Runs, NEW i \in Imports, i = run[r].imp, Priors(i), Doing(i, run[r]),
           ReadTail(r), NEW p, p = run'[r]
    PROVE  Doing(i, p)'
<1>1. /\ JobOK(run[r]) /\ run[r].pc = "tail" /\ run[r].pc \in AtAccount /\ UNCHANGED <<created, book>> /\ Jobs
    BY RunIs DEF Timely, ReadTail, AtAccount
<1>2. PICK a : a = Here(r)
    OBVIOUS
<1>3. a \in Accounts /\ a = Lowest(run[r].page) /\ run[r].todo = Mine(a, i)
    BY <1>1, <1>2, HereIs DEF JobOK
<1>4. /\ p.pc = "insert" /\ p.imp = run[r].imp /\ p.from = run[r].from /\ p.cursor = run[r].cursor
      /\ p.page = run[r].page /\ p.failed = run[r].failed /\ p.todo = run[r].todo
      /\ \/ book[a] = {} /\ p.bal = 0 /\ p.seq = 0 /\ p.opened = FALSE
         \/ \E w \in book[a] :
               /\ \A v \in book[a] : v.seq <= w.seq
               /\ p.bal = w.bal /\ p.seq = w.seq /\ (p.opened <=> w.seq > 0)
    BY ZenonT(60), <1>1, <1>2, ReadTailMakes DEF Jobs
<1>5. book[a] = Kept(a, i) /\ Adds(book[a], Debt(a, i)) /\ Debt(a, i) \in SUBSET Txns /\ book[a] \in SUBSET Row
    BY <1>1, <1>3, BookIs DEF Doing, Priors, Debt
<1>6. There(i, p) = Debt(a, i)
    BY <1>3, <1>4 DEF There
<1>7. /\ p.seq = Cardinality(Debt(a, i)) /\ (p.seq = 0 => p.bal = 0)
      /\ \A w \in book[a] : w.seq = p.seq => p.bal = w.bal
      /\ p.opened <=> \E u \in Debt(a, i) : u.opening \/ u.import < i
    <2>1. CASE book[a] = {} /\ p.bal = 0 /\ p.seq = 0 /\ p.opened = FALSE
        <3>1. Debt(a, i) = {}
            BY <2>1, <1>5, TailOf
        <3>2. Cardinality(Debt(a, i)) = 0
            BY <3>1, FS_EmptySet
        <3>3. QED
            BY <2>1, <3>1, <3>2
    <2>2. ASSUME NEW w \in book[a], \A v \in book[a] : v.seq <= w.seq,
                 p.bal = w.bal, p.seq = w.seq, p.opened <=> w.seq > 0
          PROVE  <1>7!1 /\ <1>7!2 /\ <1>7!3
        <3>1. w.seq = Cardinality(Debt(a, i)) /\ w.seq > 0 /\ \A v \in book[a] : v.seq = w.seq => v = w
            BY <2>2, <1>5, TailOf
        <3>2. Debt(a, i) # {}
            BY <2>2, <1>5, TailOf
        <3>3. \E u \in Debt(a, i) : u.import < i
            BY <3>2 DEF Debt
        <3>4. Cardinality(Debt(a, i)) \in Nat
            BY <1>5, SomeTxnsFinite
        <3>5. p.seq # 0
            BY <2>2, <3>1, <3>4
        <3>6. QED
            BY <2>2, <3>1, <3>3, <3>5
    <2>3. QED
        BY <1>4, <2>1, <2>2
<1>8. Inserting(i, p)
    <2>1. Mine(a, i) \ p.todo = {} /\ Lowest(p.page) = a
        BY <1>3, <1>4
    <2>2. QED
        BY <2>1, <1>5, <1>6, <1>7 DEF Inserting
<1>9. Inserting(i, p)' /\ \A b : Owed(b)' = Owed(b)
    BY <1>1, <1>8 DEF Inserting, There, Owed
<1>10. Behind(p)'
    BY <1>1, <1>4, <1>9 DEF Doing, Behind
<1>11. QED
    BY <1>4, <1>9, <1>10 DEF Doing

LEMMA DoingInsert ==
    ASSUME Timely, NEW r \in Runs, NEW i \in Imports, i = run[r].imp, Latest(i), Doing(i, run[r]),
           InsertEvent(r), NEW p, p = run'[r]
    PROVE  Doing(i, p)'
<1>1. /\ JobOK(run[r]) /\ run[r].pc = "insert" /\ run[r].pc \in AtAccount /\ UNCHANGED created /\ Jobs
      /\ run[r].cursor \in Nat /\ run[r].from \in Nat /\ run[r].from <= run[r].cursor
      /\ run[r].bal \in Int /\ run[r].seq \in Nat /\ run[r].opened \in BOOLEAN
    BY RunIs DEF Timely, JobOK, Job, InsertEvent, AtAccount
<1>2. PICK a : a = Here(r)
    OBVIOUS
<1>3. /\ a \in Accounts /\ a = Lowest(run[r].page) /\ a > run[r].cursor /\ a \in Nat
      /\ run[r].todo \subseteq Mine(a, i)
    BY <1>1, <1>2, HereIs, AccountsAreNumbers DEF JobOK
<1>4. PICK t, bal, q :
              /\ t \in run[r].todo /\ bal \in Int
              /\ \A u \in run[r].todo : u # t => t.rank < u.rank
              /\ bal = NewBalance(run[r].bal, run[r].opened, t)
              /\ book' = [book EXCEPT ![a] = @ \union
                             {[txn |-> t, seq |-> run[r].seq + 1, bal |-> bal, at |-> now]}]
              /\ JobOK(q) /\ run' = [run EXCEPT ![r] = q]
              /\ q.bal = bal /\ q.seq = run[r].seq + 1 /\ (q.opened <=> run[r].opened \/ t.opening)
              /\ q.todo = run[r].todo \ {t}
              /\ q.pc = (IF q.todo = {} THEN "next" ELSE "insert")
              /\ q.imp = run[r].imp /\ q.from = run[r].from /\ q.cursor = run[r].cursor
              /\ q.page = run[r].page /\ q.failed = run[r].failed
    BY <1>2, InsertMakes
<1>5. p = q
    BY <1>1, <1>4 DEF Jobs
<1>6. t \in Txns /\ t.acct = a /\ t.import = i /\ t \in Mine(a, i) /\ i \in Nat /\ ~(i < i) /\ t.rank \in Nat
      /\ t.opening \in BOOLEAN
    BY <1>3, <1>4, ImportsAreNumbers, TxnFacts DEF Mine
<1>7. PICK w : w = [txn |-> t, seq |-> run[r].seq + 1, bal |-> bal, at |-> now]
    OBVIOUS
<1>8. w \in Row /\ w.txn = t /\ w.seq = run[r].seq + 1 /\ w.bal = bal
    BY <1>1, <1>4, <1>6, <1>7 DEF Row, Timely, Chronology
<1>9. book'[a] = book[a] \union {w} /\ \A b \in Accounts : b # a => book'[b] = book[b]
    BY <1>3, <1>4, <1>7 DEF Timely, Rows
<1>10. PICK T : T = There(i, run[r])
    OBVIOUS
<1>11. /\ Adds(book[a], T)
       /\ \A s \in run[r].todo : \A u \in Mine(a, i) \ run[r].todo : u.rank < s.rank
       /\ run[r].seq = Cardinality(T) /\ (run[r].seq = 0 => run[r].bal = 0)
       /\ \A v \in book[a] : v.seq = run[r].seq => run[r].bal = v.bal
       /\ run[r].opened <=> \E u \in T : u.opening \/ u.import < i
       /\ Behind(run[r])
    BY <1>1, <1>3, <1>10 DEF Doing, Inserting
<1>12. T = Debt(a, i) \union (Mine(a, i) \ run[r].todo) /\ T \in SUBSET Txns /\ t \notin T
    <2>1. T = Debt(a, i) \union (Mine(a, i) \ run[r].todo)
        BY <1>3, <1>10 DEF There
    <2>2. t \notin Debt(a, i)
        BY <1>6 DEF Debt
    <2>3. QED
        BY <2>1, <2>2, <1>4 DEF Debt, Mine
<1>13. \A u \in T : Earlier(u, t)
    <2>1. ASSUME NEW u \in Debt(a, i) PROVE Earlier(u, t)
        BY <1>6 DEF Debt, Earlier
    <2>2. ASSUME NEW u \in Mine(a, i) \ run[r].todo PROVE Earlier(u, t)
        <3>1. u.import = i /\ u.rank < t.rank
            BY <1>4, <1>11 DEF Mine
        <3>2. QED
            BY <3>1, <1>6 DEF Earlier
    <2>3. QED
        BY <2>1, <2>2, <1>12
<1>14. Adds(book[a] \union {w}, T \union {t})
    <2>1. book[a] \in SUBSET Row
        BY <1>3, BookIs
    <2>2. PICK before \in Int, opened \in BOOLEAN : before = run[r].bal /\ opened = run[r].opened
        BY <1>1
    <2>3. opened <=> \E u \in T : u.opening \/ u.import < t.import
        BY <2>2, <1>6, <1>11
    <2>4. w.bal = NewBalance(before, opened, t) /\ w.seq = Cardinality(T) + 1
        BY <2>2, <1>4, <1>8, <1>11
    <2>5. Cardinality(T) = 0 => before = 0
        BY <2>2, <1>11
    <2>6. \A v \in book[a] : v.seq = Cardinality(T) => before = v.bal
        BY <2>2, <1>11
    <2>7. PICK B \in SUBSET Row : B = book[a]
        BY <2>1
    <2>8. /\ T \in SUBSET Txns /\ t \in Txns /\ t \notin T /\ (\A u \in T : Earlier(u, t))
          /\ w \in Row /\ w.txn = t
        BY <1>6, <1>8, <1>12, <1>13
    <2>9. Adds(B, T) /\ \A v \in B : v.seq = Cardinality(T) => before = v.bal
        BY <2>6, <2>7, <1>11
    <2>10. Adds(B \union {w}, T \union {t})
        BY <2>3, <2>4, <2>5, <2>8, <2>9, OneMoreAdds
    <2>11. QED
        BY <2>7, <2>10
<1>15. There(i, p) = T \union {t} /\ Mine(a, i) \ p.todo = (Mine(a, i) \ run[r].todo) \union {t}
    BY <1>3, <1>4, <1>5, <1>6, <1>12 DEF There
<1>16. Cardinality(T \union {t}) = Cardinality(T) + 1 /\ Cardinality(T) \in Nat
    BY <1>12, SomeTxnsFinite, FS_AddElement
<1>17. Inserting(i, p)'
    <2>1. Lowest(p.page) = a
        BY <1>3, <1>4, <1>5
    <2>2. \A s \in p.todo : \A u \in Mine(a, i) \ p.todo : u.rank < s.rank
        BY <1>4, <1>5, <1>11, <1>15
    <2>3. p.seq = Cardinality(There(i, p)) /\ p.seq # 0
        <3>1. p.seq = Cardinality(T) + 1
            BY <1>4, <1>5, <1>11
        <3>2. QED
            BY <3>1, <1>15, <1>16
    <2>4. \A v \in book[a] \union {w} : v.seq = p.seq => p.bal = v.bal
        <3>1. \A v \in book[a] : v.seq \in 1 .. Cardinality(T)
            <4>1. {v.seq : v \in book[a]} = 1 .. Cardinality(T)
                BY <1>11 DEF Adds
            <4>2. QED
                BY <4>1
        <3>2. \A v \in book[a] : v.seq # p.seq
            BY <3>1, <1>4, <1>5, <1>11, <1>16
        <3>3. QED
            BY <3>2, <1>4, <1>5, <1>8
    <2>5. p.opened <=> \E u \in There(i, p) : u.opening \/ u.import < i
        <3>1. p.opened <=> (run[r].opened \/ t.opening)
            BY <1>4, <1>5
        <3>2. QED
            BY <3>1, <1>6, <1>11, <1>15
    <2>6. There(i, p)' = There(i, p)
        BY DEF There
    <2>7. QED
        BY <2>1, <2>2, <2>3, <2>4, <2>5, <2>6, <1>9, <1>14, <1>15 DEF Inserting
<1>18. \A b : Owed(b)' = Owed(b)
    BY <1>1 DEF Owed
<1>19. Behind(p)'
    <2>1. \A b \in Accounts : b <= p.from \/ b <= p.cursor => b # a
        BY <1>1, <1>3, <1>4, <1>5, AccountsAreNumbers
    <2>2. QED
        BY <2>1, <1>4, <1>5, <1>9, <1>11, <1>18 DEF Behind
<1>20. ASSUME p.pc = "next" PROVE Adds(book'[a], Owed(a)')
    <2>1. p.todo = {}
        BY <1>4, <1>5, <1>20
    <2>2. There(i, p) = Debt(a, i) \union Mine(a, i)
        BY <2>1, <1>3, <1>4, <1>5 DEF There
    <2>3. Owed(a) = Debt(a, i) \union Mine(a, i)
        BY <1>1, OwedIs DEF JobOK
    <2>4. QED
        BY <2>2, <2>3, <1>9, <1>14, <1>15, <1>18
<1>21. Lowest(p.page) = a /\ p.pc \in {"next", "insert"}
    BY <1>3, <1>4, <1>5
<1>22. QED
    BY <1>17, <1>19, <1>20, <1>21 DEF Doing

LEMMA DoingAdvance ==
    ASSUME Timely, NEW r \in Runs, NEW i \in Imports, i = run[r].imp, Latest(i), Priors(i), Doing(i, run[r]),
           Advance(r), NEW p, p = run'[r]
    PROVE  Doing(i, p)'
<1>1. /\ JobOK(run[r]) /\ run[r].pc = "next" /\ run[r].pc \in AtAccount /\ UNCHANGED <<created, book>> /\ Jobs
      /\ run[r].cursor \in Nat
    BY RunIs DEF Timely, JobOK, Advance, AtAccount
<1>2. PICK a : a = Here(r)
    OBVIOUS
<1>3. a \in Accounts /\ a = Lowest(run[r].page) /\ a \in Nat
    BY <1>1, <1>2, HereIs, AccountsAreNumbers
<1>4. /\ p.pc \in {"handoff", "delete", "page", "end"} /\ p.from = run[r].from
      /\ p.cursor = a /\ a > run[r].cursor /\ p.failed = run[r].failed
      /\ \A b \in Accounts : b > run[r].cursor /\ b < a => Mine(b, i) = {}
    BY <1>1, <1>2, AdvanceMakes DEF Jobs
<1>5. Behind(run[r]) /\ (~run[r].failed => Adds(book[a], Owed(a)))
    BY <1>1, <1>3 DEF Doing
<1>6. Behind(p)
    <2>1. SUFFICES ASSUME NEW b \in Accounts, b <= p.from \/ (b <= a /\ ~p.failed)
                   PROVE  Adds(book[b], Owed(b))
        BY <1>4 DEF Behind
    <2>2. b \in Nat
        BY AccountsAreNumbers
    <2>3. CASE b <= p.from \/ (b <= run[r].cursor /\ ~p.failed)
        BY <2>3, <1>4, <1>5 DEF Behind
    <2>4. CASE ~p.failed /\ b > run[r].cursor /\ b < a
        BY <2>4, <1>4, Untouched
    <2>5. CASE ~p.failed /\ b = a
        BY <2>5, <1>4, <1>5
    <2>6. QED
        BY <2>1, <2>2, <2>3, <2>4, <2>5, <1>1, <1>3
<1>7. QED
    BY <1>1, <1>4, <1>6, DoesNothing

(* An account given up claims nothing of its passbook, whatever its last    *)
(* statement did.                                                           *)
LEMMA DoingFailure ==
    ASSUME Timely, NEW r \in Runs, NEW i, Doing(i, run[r]),
           AccountFails(r) \/ InsertThrows(r), NEW p, p = run'[r]
    PROVE  Doing(i, p)'
<1>1. GiveUp(r) /\ run[r].pc \in AtAccount /\ Jobs /\ JobOK(run[r])
    BY FailureGivesUp, RunIs DEF Timely
<1>2. /\ run[r].from <= run[r].cursor /\ run[r].cursor \in Nat /\ run[r].from \in Nat
      /\ Here(r) \in Accounts /\ Here(r) > run[r].cursor
    BY <1>1, HereIs, RunIs DEF JobOK, AtAccount
<1>3. p.from = run[r].from /\ p.cursor = run[r].cursor /\ p.pc = "next" /\ p.failed = TRUE
    BY <1>1, GiveUpMakes DEF Timely, Jobs
<1>4. \A b \in Accounts : b <= p.from => b # Here(r)
    BY <1>2, <1>3, AccountsAreNumbers
<1>5. \A b \in Accounts : b # Here(r) => book'[b] = book[b]
    <2>1. book \in [Accounts -> SUBSET Row]
        BY DEF Timely, Rows
    <2>2. CASE AccountFails(r)
        BY <2>2 DEF AccountFails
    <2>3. CASE InsertThrows(r)
        BY <2>1, <2>3 DEF InsertThrows, WriteRow
    <2>4. QED
        BY <2>2, <2>3
<1>6. UNCHANGED created
    BY DEF AccountFails, InsertThrows
<1>7. Behind(p)'
    <2>1. \A b : Owed(b)' = Owed(b)
        BY <1>6 DEF Owed
    <2>2. \A b \in Accounts : b <= p.from => Adds(book[b], Owed(b))
        BY <1>3 DEF Doing, Behind
    <2>3. QED
        BY <2>1, <2>2, <1>3, <1>4, <1>5 DEF Behind
<1>8. QED
    BY <1>3, <1>7 DEF Doing

(* A step of the run that is the end of the chain.                          *)
LEMMA DoingStep ==
    ASSUME Timely, NEW r \in Runs, NEW i \in Imports, i = run[r].imp, Latest(i), Priors(i), Doing(i, run[r]),
           RunStep(r), \A k \in Runs : ~Retrigger(r, k), run[r].pc # "passing", NEW p, p = run'[r]
    PROVE  Doing(i, p)'
<1>1. Behind(run[r]) /\ Jobs
    BY DEF Doing, Timely
<1>2. CASE Start(r)
    <2>1. p.from = run[r].from /\ p.cursor = run[r].from /\ p.pc = "page"
        BY <1>1, <1>2, StartMakes DEF Jobs
    <2>2. Behind(p)
        BY <2>1, <1>1 DEF Behind
    <2>3. UNCHANGED <<created, book>>
        BY <1>2 DEF Start
    <2>4. QED
        BY <2>1, <2>2, <2>3, DoesNothing
<1>3. CASE FetchPage(r)
    <2>1. p.from = run[r].from /\ p.cursor = run[r].cursor /\ p.pc \in {"end", "delete"} /\ p.failed = run[r].failed
        BY <1>1, <1>3, FetchPageMakes DEF Jobs
    <2>2. Behind(p)
        BY <2>1, <1>1 DEF Behind
    <2>3. UNCHANGED <<created, book>>
        BY <1>3 DEF FetchPage
    <2>4. QED
        BY <2>1, <2>2, <2>3, DoesNothing
<1>4. CASE CountRows(r)
    BY <1>4, DoingCount
<1>14. CASE DeleteRound(r)
    BY <1>14, DoingDelete
<1>5. CASE FetchEvents(r)
    BY <1>5, DoingFetchEvents
<1>6. CASE ReadTail(r)
    BY <1>6, DoingReadTail
<1>7. CASE InsertEvent(r)
    BY <1>7, DoingInsert
<1>8. CASE AccountFails(r) \/ InsertThrows(r)
    BY <1>8, DoingFailure
<1>9. CASE Advance(r)
    BY <1>9, DoingAdvance
<1>10. CASE CloseDone(r)
    <2>1. p.from = run[r].from /\ p.cursor = run[r].cursor /\ p.pc = "done" /\ p.failed = run[r].failed
        BY <1>1, <1>10, CloseDoneMakes DEF Jobs
    <2>2. Behind(p)
        BY <2>1, <1>1 DEF Behind
    <2>3. UNCHANGED <<created, book>>
        BY <1>10 DEF CloseDone
    <2>4. QED
        BY <2>1, <2>2, <2>3, DoesNothing
<1>11. CASE CloseFailed(r) \/ Abort(r)
    <2>1. p.from = run[r].from /\ p.cursor = run[r].from /\ p.pc \in {"queued", "failed"}
        BY <1>1, <1>11, RetryMakes DEF Jobs
    <2>2. Behind(p)
        BY <2>1, <1>1 DEF Behind
    <2>3. UNCHANGED <<created, book>>
        BY <1>11 DEF CloseFailed, Abort, PoolRetry
    <2>4. QED
        BY <2>1, <2>2, <2>3, DoesNothing
<1>12. CASE ClosePassed(r)
    BY <1>12 DEF ClosePassed
<1>13. QED
    BY <1>2, <1>3, <1>4, <1>14, <1>5, <1>6, <1>7, <1>8, <1>9, <1>10, <1>11, <1>12 DEF RunStep

(* A run that takes over from one without a failed account.                 *)
LEMMA DoingRetrigger ==
    ASSUME Timely, NEW r \in Runs, NEW i, Doing(i, run[r]), ~run[r].failed,
           NEW k \in Runs, Retrigger(r, k), NEW q, q = run'[k]
    PROVE  Doing(i, q)'
<1>1. PICK p, z : k # r /\ Relayed(r, p, z) /\ run' = [run EXCEPT ![k] = z, ![r] = p]
    BY RetriggerMakes
<1>2. q = z
    BY <1>1 DEF Timely, Jobs
<1>3. q.pc = "queued" /\ q.from = run[r].cursor /\ q.cursor = run[r].cursor
    BY <1>1, <1>2 DEF Relayed
<1>4. Behind(q)
    BY <1>3 DEF Doing, Behind
<1>5. UNCHANGED <<created, book>>
    BY DEF Retrigger
<1>6. QED
    BY <1>3, <1>4, <1>5, DoesNothing

----------------------------------------------------------------------------
(* Exactness.                                                               *)

LEMMA StepIsOfLatest ==
    ASSUME Timely, NEW r \in Runs, RunStep(r), NEW i, i = run[r].imp
    PROVE  /\ run[r].pc \notin Closed /\ i \in Imports /\ Latest(i) /\ run[r] \in Job
           /\ \A k \in Imports : Latest(k) => k = i
           /\ \A t \in Txns : t.import = i => created[t] # 0
<1>1. run[r].pc \notin Closed
    BY DEF Closed, RunStep, Start, FetchPage, CountRows, DeleteRound, FetchEvents, ReadTail, InsertEvent,
           AccountFails, InsertThrows, Advance, Retrigger, ClosePassed, CloseDone, CloseFailed, Abort
<1>2. i \in Imports /\ Latest(i) /\ run[r] \in Job /\ \A t \in Txns : t.import = i => created[t] # 0
    BY <1>1, RunIs DEF Timely, JobOK, Closed
<1>3. \A k \in Imports : Latest(k) => k = i
    <2>1. SUFFICES ASSUME NEW k \in Imports, Latest(k) PROVE k = i
        OBVIOUS
    <2>2. startedAt[i] # 0 /\ startedAt[k] # 0 /\ ~(k > i) /\ ~(i > k)
        BY <1>2, <2>1 DEF Latest
    <2>3. k \in Nat /\ i \in Nat
        BY <1>2, ImportsAreNumbers
    <2>4. QED
        BY <2>2, <2>3
<1>4. QED
    BY <1>1, <1>2, <1>3

(* The runs of the uploads other than i stand still.                        *)
Still(i) ==
    /\ \A k : k # i => Heads(k)' = Heads(k)
    /\ \A s \in Runs : run[s].imp # i /\ run[s].pc # "absent" => run'[s] = run[s]
    /\ \A s \in Runs : run'[s].imp # i => run'[s] = run[s]

LEMMA OthersStandStill ==
    ASSUME Timely, Relay, NEW r \in Runs, RunStep(r), NEW i, i = run[r].imp
    PROVE  Still(i)
<1>1. Jobs
    BY DEF Timely
<1>3. ASSUME NEW p, Stays(r, p) PROVE Still(i)
    <2>1. p.imp = i /\ run' = [run EXCEPT ![r] = p]
        BY <1>3 DEF Stays
    <2>2. \A k : k # i => Heads(k)' = Heads(k)
        BY ZenonT(60), <2>1, <1>1, <1>3, HeadsBecome DEF Stays
    <2>3. \A s \in Runs : run'[s] = IF s = r THEN p ELSE run[s]
        BY <2>1, <1>1 DEF Jobs
    <2>4. QED
        BY <2>1, <2>2, <2>3 DEF Still
<1>4. ASSUME NEW k \in Runs, Retrigger(r, k) PROVE Still(i)
    <2>1. PICK p, q : k # r /\ run[k].pc = "absent" /\ Relayed(r, p, q) /\ run' = [run EXCEPT ![k] = q, ![r] = p]
        BY <1>4, RetriggerMakes
    <2>2. p.imp = i /\ q.imp = i
        BY <2>1, RunIs, <1>1 DEF Relayed, Job
    <2>3. \A s \in Runs : run'[s] = IF s = r THEN p ELSE IF s = k THEN q ELSE run[s]
        BY <2>1, <1>1 DEF Jobs
    <2>4. \A j : j # i => Heads(j)' = Heads(j)
        BY <1>4, RelayRetrigger
    <2>5. QED
        BY <2>1, <2>2, <2>3, <2>4 DEF Still
<1>5. QED
    BY <1>3, <1>4, OtherSteps

LEMMA LandingStandsStill ==
    ASSUME Timely, Relay, NEW j \in Imports, NEW k \in Runs, ImportLands(j, k)
    PROVE  Still(j)
<1>1. \A s \in Runs : run[s].pc # "absent" => run[s].imp # j
    BY LandingIsLatest
<1>2. run[k].pc = "absent" /\ run' = [run EXCEPT ![k] = NewRun(j, 0)]
    BY DEF ImportLands, NextRun
<1>3. PICK q : q = NewRun(j, 0)
    OBVIOUS
<1>4. q.imp = j
    BY <1>3 DEF NewRun
<1>5. \A s \in Runs : run'[s] = IF s = k THEN q ELSE run[s]
    BY <1>2, <1>3 DEF Timely, Jobs
<1>6. \A i : i # j => Heads(i)' = Heads(i)
    BY RelayLands
<1>7. QED
    BY <1>2, <1>4, <1>5, <1>6 DEF Still

(* So another upload that is settled was settled.                           *)
LEMMA SettledBefore ==
    ASSUME NEW i, Still(i), NEW k, k # i, Settled(k)'
    PROVE  Settled(k)
<1>1. PICK h \in Runs : Sound(k, h)' /\ run'[h].pc = "done"
    BY DEF Settled
<1>2. Heads(k)' = {h} /\ Heads(k) = {h}
    BY <1>1 DEF Sound, Still
<1>3. run'[h].imp = k
    BY <1>2 DEF Heads
<1>4. run[h].pc = "done"
    BY <1>1, <1>3 DEF Still
<1>5. ASSUME NEW s \in Runs, run[s].imp = k, run[s].pc \in {"passing", "passed"} PROVE ~run[s].failed
    <2>1. run'[s] = run[s]
        BY <1>5 DEF Still
    <2>2. QED
        BY <2>1, <1>1, <1>5 DEF Sound
<1>6. Sound(k, h)
    BY <1>2, <1>5 DEF Sound
<1>7. QED
    BY <1>4, <1>6 DEF Settled

(* The step of a job leaves a sound chain doing what it should.             *)
LEMMA SoundStep ==
    ASSUME Timely, Relay, NEW r \in Runs, RunStep(r), NEW i \in Imports, i = run[r].imp, Latest(i), Priors(i),
           \A h \in Runs : Sound(i, h) => \A p \in {run[h]} : Doing(i, p),
           NEW h \in Runs, Sound(i, h)', NEW q, q = run'[h]
    PROVE  Doing(i, q)'
<1>1. /\ run[r].pc \notin Closed /\ run[r].pc # "absent" /\ run[r] \in Job /\ Jobs
      /\ UNCHANGED <<now, startedAt, created>>
    BY StepIsOfLatest, RunStepLeaves DEF Closed, Timely
<1>2. Heads(i)' = {h} /\ \A s \in Runs : run'[s].imp = i /\ run'[s].pc \in Handed => ~run'[s].failed
    BY DEF Sound, Handed
<1>3. ASSUME NEW k \in Runs, Retrigger(r, k) PROVE Doing(i, q)'
    <2>1. Heads(i)' = (Heads(i) \ {r}) \union {k}
        BY <1>3, RelayRetrigger
    <2>2. h = k /\ Heads(i) \subseteq {r, k}
        BY <2>1, <1>2
    <2>3. PICK p, z : k # r /\ run[k].pc = "absent" /\ run[r].pc = "handoff"
                      /\ Relayed(r, p, z) /\ run' = [run EXCEPT ![k] = z, ![r] = p]
        BY <1>3, RetriggerMakes
    <2>4. p.pc = "passing" /\ p.imp = i /\ p.failed = run[r].failed
        BY <2>3, <1>1 DEF Relayed, Job
    <2>5. \A s \in Runs : run'[s] = IF s = r THEN p ELSE IF s = k THEN z ELSE run[s]
        BY <2>3, <1>1 DEF Jobs
    <2>6. Heads(i) = {r}
        <3>1. r \in Heads(i) /\ k \notin Heads(i)
            BY <2>3 DEF Heads
        <3>2. QED
            BY <3>1, <2>2
    <2>7. ~run[r].failed
        BY <2>3, <2>4, <2>5, <1>2 DEF Handed
    <2>8. \A s \in Runs : run[s].imp = i /\ run[s].pc \in Handed => ~run[s].failed
        <3>1. \A s \in Runs : run[s].pc \in Handed => s # r /\ s # k /\ run'[s] = run[s]
            BY <2>3, <2>5 DEF Handed
        <3>2. QED
            BY <3>1, <1>2
    <2>9. Sound(i, r)
        BY <2>6, <2>8 DEF Sound, Handed
    <2>10. Doing(i, run[r])
        BY <2>9
    <2>11. QED
        BY <2>2, <2>7, <2>10, <1>3, DoingRetrigger
<1>5. ASSUME NEW p, Stays(r, p), \A k \in Runs : ~Retrigger(r, k) PROVE Doing(i, q)'
    <2>1. /\ run' = [run EXCEPT ![r] = p] /\ run[r].pc # "absent" /\ p.pc # "absent" /\ p.imp = run[r].imp
          /\ p.pc \in Handed => run[r].pc \in Handed
        BY <1>5 DEF Stays
    <2>2. \A s \in Runs : run'[s] = IF s = r THEN p ELSE run[s]
        BY <2>1, <1>1 DEF Jobs
    <2>3. /\ Heads(i) \subseteq Heads(i)' /\ Heads(i) # {}
          /\ (p.pc \in Handed <=> run[r].pc \in Handed) => Heads(i)' = Heads(i)
          /\ run[r].pc \in Handed /\ p.pc \notin Handed => r \notin Heads(i) /\ r \in Heads(i)'
        <3>1. Landed(i)
            BY <1>1 DEF Landed
        <3>2. Heads(i) # {}
            BY <3>1 DEF Relay
        <3>3. QED
            BY <3>2, <2>1, <1>1, HeadsBecome
    <2>4. p.pc \in Handed <=> run[r].pc \in Handed
        BY <2>1, <2>3, <1>2
    <2>5. Heads(i) = {h}
        BY <2>3, <2>4, <1>2
    <2>6. CASE run[r].pc \in Handed
        <3>1. run[r].pc = "passing" /\ r # h
            BY <2>5, <2>6, <1>1 DEF Handed, Closed, Heads
        <3>2. ClosePassed(r) \/ Abort(r)
            BY <3>1 DEF RunStep, Start, FetchPage, CountRows, DeleteRound, FetchEvents, ReadTail,
                        InsertEvent, AccountFails, InsertThrows, Advance, Retrigger, CloseDone, CloseFailed
        <3>3. ~Abort(r)
            <4>1. SUFFICES ASSUME Abort(r) PROVE FALSE
                OBVIOUS
            <4>2. run'[r].pc \in {"queued", "failed"}
                <5>1. PICK z : run' = [run EXCEPT ![r] = z] /\ z.pc \in {"queued", "failed"}
                    BY <4>1, RetryMakes
                <5>2. QED
                    BY <5>1, <1>1 DEF Jobs
            <4>3. QED
                BY <4>2, <2>2, <2>4, <2>6 DEF Handed
        <3>4. PICK z : run' = [run EXCEPT ![r] = z] /\ z = [run[r] EXCEPT !.pc = "passed"]
            BY <3>2, <3>3, ClosePassedMakes
        <3>5. run'[r].failed = run[r].failed /\ run'[r].imp = i /\ run'[r].pc = "passed"
            BY <3>4, <1>1 DEF Jobs, Job
        <3>6. \A s \in Runs : run[s].imp = i /\ run[s].pc \in Handed => ~run[s].failed
            <4>1. \A s \in Runs : s # r => run'[s] = run[s]
                BY <2>2
            <4>2. QED
                BY <4>1, <3>5, <1>2 DEF Handed
        <3>7. Sound(i, h) /\ q = run[h]
            BY <3>1, <3>6, <2>2, <2>5 DEF Sound, Handed
        <3>8. Doing(i, q)
            BY <3>7
        <3>9. UNCHANGED <<created, book>>
            BY <3>2, <3>3 DEF ClosePassed
        <3>10. QED
            BY <3>8, <3>9 DEF Doing, Behind, Kept, Owed, Inserting, There
    <2>7. CASE run[r].pc \notin Handed
        <3>1. r = h
            <4>1. r \in Heads(i)
                BY <2>7, <1>1 DEF Heads, Handed
            <4>2. QED
                BY <4>1, <2>5
        <3>2. \A s \in Runs : run[s].imp = i /\ run[s].pc \in Handed => ~run[s].failed
            <4>1. \A s \in Runs : s # r => run'[s] = run[s]
                BY <2>2
            <4>2. QED
                BY <4>1, <2>7, <1>2
        <3>3. Doing(i, run[r])
            BY <3>1, <3>2, <2>5 DEF Sound, Handed
        <3>4. run[r].pc # "passing"
            BY <2>7 DEF Handed
        <3>5. QED
            BY <3>1, <3>3, <3>4, <1>5, DoingStep
    <2>8. QED
        BY <2>6, <2>7
<1>6. QED
    BY <1>3, <1>5, OtherSteps

LEMMA ExactnessRunStep ==
    ASSUME Timely, Relay, Exactness, NEW r \in Runs, RunStep(r)
    PROVE  Exactness'
<1>1. PICK j : j = run[r].imp
    OBVIOUS
<1>2. /\ j \in Imports /\ Latest(j) /\ (\A k \in Imports : Latest(k) => k = j)
      /\ UNCHANGED <<now, startedAt, created>>
    BY <1>1, StepIsOfLatest, RunStepLeaves
<1>3. \A k : Latest(k)' = Latest(k)
    BY <1>2 DEF Latest
<1>4. SUFFICES ASSUME \A k \in Imports : k < j => Settled(k)'
               PROVE  Priors(j)' /\ \A h \in Runs : Sound(j, h)' => \A p \in {run'[h]} : Doing(j, p)'
    BY <1>2, <1>3 DEF Exactness
<1>5. \A k \in Imports : k < j => Settled(k)
    <2>1. \A k \in Imports : k < j => k # j
        BY <1>2, ImportsAreNumbers
    <2>2. QED
        BY <2>1, <1>1, <1>4, OthersStandStill, SettledBefore
<1>6. Priors(j) /\ \A h \in Runs : Sound(j, h) => \A p \in {run[h]} : Doing(j, p)
    BY <1>2, <1>5 DEF Exactness
<1>7. Priors(j)'
    <2>1. \A a \in Accounts : Kept(a, j)' = Kept(a, j)
        BY <1>1, <1>2, KeptStays
    <2>2. QED
        BY <2>1, <1>6 DEF Priors
<1>8. ASSUME NEW h \in Runs, Sound(j, h)', NEW q, q = run'[h] PROVE Doing(j, q)'
    BY <1>1, <1>2, <1>6, <1>8, SoundStep
<1>9. QED
    BY <1>7, <1>8

LEMMA ExactnessImportLands ==
    ASSUME Timely, Relay, Exactness, NEW j \in Imports, NEW r \in Runs, ImportLands(j, r)
    PROVE  Exactness'
<1>1. Latest(j) /\ UNCHANGED <<startedAt, book>>
    BY LandingIsLatest DEF ImportLands
<1>2. \A k \in Imports : Latest(k)' => k = j
    BY <1>1, ImportsAreNumbers DEF Latest
<1>3. SUFFICES ASSUME \A k \in Imports : k < j => Settled(k)'
               PROVE  Priors(j)' /\ \A h \in Runs : Sound(j, h)' => \A p \in {run'[h]} : Doing(j, p)'
    BY <1>2 DEF Exactness
<1>4. \A k \in Imports : k < j => Settled(k)
    <2>1. \A k \in Imports : k < j => k # j
        BY ImportsAreNumbers
    <2>2. QED
        BY <2>1, <1>3, LandingStandsStill, SettledBefore
<1>5. Priors(j)'
    BY <1>1, <1>4 DEF Exactness, Priors, Kept
<1>6. ASSUME NEW h \in Runs, Sound(j, h)', NEW q, q = run'[h] PROVE Doing(j, q)'
    <2>1. h = r
        <3>1. Heads(j)' = {r}
            BY RelayLands
        <3>2. QED
            BY <3>1, <1>6 DEF Sound
    <2>2. q = NewRun(j, 0)
        BY <2>1, <1>6 DEF ImportLands, Timely, Jobs
    <2>3. q.pc = "queued" /\ q.from = 0 /\ q.cursor = 0
        BY <2>2 DEF NewRun
    <2>4. Behind(q)'
        <3>1. \A b \in Accounts : ~(b <= 0)
            BY AccountsAreNumbers
        <3>2. QED
            BY <2>3, <3>1 DEF Behind
    <2>5. QED
        BY <2>3, <2>4 DEF Doing
<1>7. QED
    BY <1>5, <1>6

(* When an upload begins after one that is settled, all there is is exact.  *)
LEMMA ExactnessStartImport ==
    ASSUME ~overlap', Timely, Exactness, NEW i \in Imports, StartImport(i)
    PROVE  Exactness'
<1>1. /\ startedAt[i] = 0 /\ startedAt' = [startedAt EXCEPT ![i] = now]
      /\ \A k \in Imports : k < i => startedAt[k] # 0
      /\ \A t \in Txns : t.import < i => created[t] # 0
      /\ UNCHANGED <<now, created, book, run>>
    BY DEF StartImport, Apart
<1>2. startedAt \in [Imports -> Nat] /\ now \in Nat \ {0} /\ Jobs /\ Imports \subseteq Nat \ {0}
    BY ImportsAreNumbers DEF Timely, Chronology
<1>3. \A k \in Imports : startedAt[k] # 0 <=> k < i
    <2>1. \A k \in Imports : startedAt[k] # 0 => ~(i < k) /\ k # i
        BY <1>1 DEF Timely, Chronology
    <2>2. QED
        BY <2>1, <1>1, <1>2
<1>4. \A k \in Imports : Latest(k)' => k = i
    <2>1. startedAt'[i] # 0 /\ \A k \in Imports : k # i => startedAt'[k] = startedAt[k]
        BY <1>1, <1>2
    <2>2. ASSUME NEW k \in Imports, Latest(k)' PROVE k = i
        <3>1. startedAt'[k] # 0 /\ ~(i > k)
            BY <2>1, <2>2 DEF Latest
        <3>2. k < i \/ k = i
            BY <2>1, <3>1, <1>3
        <3>3. QED
            BY <3>1, <3>2, <1>2
    <2>3. QED
        BY <2>2
<1>5. SUFFICES ASSUME \A k \in Imports : k < i => Settled(k)'
               PROVE  Priors(i)' /\ \A h \in Runs : Sound(i, h)' => \A p \in {run'[h]} : Doing(i, p)'
    BY <1>4 DEF Exactness
<1>6. \A k \in Imports : k < i => Settled(k)
    BY <1>1, <1>5 DEF Settled, Sound, Heads
<1>7. \A t \in Txns : created[t] # 0 <=> t.import < i
    BY <1>1, <1>3, TxnFacts DEF Timely, Chronology
<1>8. ASSUME NEW a \in Accounts PROVE Kept(a, i) = book[a] /\ Owed(a) = Debt(a, i)
    <2>1. Owed(a) = Debt(a, i)
        BY <1>7 DEF Owed, Debt
    <2>2. QED
        BY <2>1, RowOwed DEF Kept, Debt
<1>9. \A a \in Accounts : Adds(book[a], Owed(a))
    <2>1. CASE i = 1
        <3>1. \A a \in Accounts : Debt(a, i) = {}
            <4>1. \A t \in Txns : ~(t.import < 1)
                BY TxnFacts, <1>2
            <4>2. QED
                BY <2>1, <4>1 DEF Debt
        <3>2. \A a \in Accounts : book[a] = {} /\ Owed(a) = {}
            BY <3>1, <1>8, RowOwed
        <3>3. QED
            BY <3>2, NothingAdds
    <2>2. CASE i # 1
        <3>1. PICK k \in Imports : k = i - 1
            BY <2>2, ImportsAreNumbers DEF Imports
        <3>2. k < i /\ \A m \in Imports : m > k => ~(m < i)
            BY <3>1, <1>2
        <3>3. Latest(k)
            BY <3>2, <1>3 DEF Latest
        <3>4. \A m \in Imports : m < k => Settled(m)
            BY <3>1, <1>2, <1>6
        <3>5. PICK h \in Runs : Sound(k, h) /\ run[h].pc = "done"
            BY <3>2, <1>6 DEF Settled
        <3>6. Priors(k) /\ Doing(k, run[h])
            BY <3>3, <3>4, <3>5 DEF Exactness
        <3>7. JobOK(run[h]) /\ run[h].imp = k
            BY <3>5, RunIs, <1>2 DEF Sound, Heads
        <3>8. QED
            BY <3>3, <3>5, <3>6, <3>7, DoneIsExact
    <2>3. QED
        BY <2>1, <2>2
<1>10. Priors(i)'
    <2>1. \A a \in Accounts : Adds(Kept(a, i), Debt(a, i))
        BY <1>8, <1>9
    <2>2. QED
        BY <2>1, <1>1 DEF Priors, Kept
<1>11. ASSUME NEW h \in Runs, Sound(i, h)' PROVE FALSE
    <2>1. h \in Heads(i)
        BY <1>1, <1>11 DEF Sound, Heads
    <2>2. JobOK(run[h]) /\ run[h].pc # "absent" /\ run[h].imp = i
        BY <2>1, <1>2, RunIs DEF Heads
    <2>3. PICK t \in Txns : t.import = i /\ created[t] # 0
        BY <2>2 DEF JobOK
    <2>4. QED
        BY <2>3, <1>7, <1>2
<1>12. QED
    BY <1>10, <1>11

LEMMA ExactnessStays ==
    ASSUME Exactness, UNCHANGED <<startedAt, created, book, run>>
    PROVE  Exactness'
<1>1. \A i : Latest(i)' = Latest(i) /\ Settled(i)' = Settled(i)
    BY DEF Latest, Settled, Sound, Heads
<1>2. \A i : Priors(i)' = Priors(i)
    BY DEF Priors, Kept
<1>3. \A i, h : Sound(i, h)' = Sound(i, h)
    BY DEF Sound, Heads
<1>4. \A i, p : Doing(i, p)' = Doing(i, p)
    <2>1. \A b : Owed(b)' = Owed(b)
        BY DEF Owed
    <2>2. \A a, i : Kept(a, i)' = Kept(a, i)
        BY DEF Kept
    <2>3. \A p : Behind(p)' = Behind(p)
        BY <2>1 DEF Behind
    <2>4. \A i, p : Inserting(i, p)' = Inserting(i, p)
        BY DEF Inserting, There
    <2>5. QED
        BY <2>1, <2>2, <2>3, <2>4 DEF Doing
<1>5. QED
    BY <1>1, <1>2, <1>3, <1>4 DEF Exactness

LEMMA ExactnessInit == Init => Exactness
BY DEF Init, Exactness, Latest

(* An upload that overlapped stays one.                                     *)
LEMMA OverlapStays ==
    ASSUME [Next]_vars, overlap
    PROVE  overlap'
<1>1. ASSUME NEW r \in Runs, RunStep(r) PROVE overlap'
    BY <1>1, RunStepLeaves
<1>2. QED
    BY <1>1 DEF Next, Tick, StartImport, ImportLands, vars

LEMMA IInvNext ==
    ASSUME IInv, [Next]_vars
    PROVE  IInv'
<1> SUFFICES ASSUME ~overlap' PROVE Timely' /\ Relay' /\ Exactness'
    BY DEF IInv
<1>1. Timely /\ Relay /\ Exactness
    BY OverlapStays DEF IInv
<1>2. Timely' /\ Relay'
    BY <1>1, TimelyNext, RelayNext
<1>3. CASE Tick \/ UNCHANGED vars
    BY <1>1, <1>2, <1>3, ExactnessStays DEF Tick, vars
<1>4. ASSUME NEW i \in Imports, StartImport(i) PROVE Exactness'
    BY <1>1, <1>4, ExactnessStartImport
<1>5. ASSUME NEW i \in Imports, NEW r \in Runs, ImportLands(i, r) PROVE Exactness'
    BY <1>1, <1>5, ExactnessImportLands
<1>6. ASSUME NEW r \in Runs, RunStep(r) PROVE Exactness'
    BY <1>1, <1>6, ExactnessRunStep
<1>7. QED
    BY <1>2, <1>3, <1>4, <1>5, <1>6 DEF Next

(* An upload that was reported after one chain of runs is settled: it has   *)
(* one run that starts at the first account, so as many runs start further  *)
(* on as there are runs less one; when that is how many handed over, one    *)
(* run is left.                                                             *)
LEMMA ChainSettles ==
    ASSUME Timely, Relay, NEW i \in Imports, Reported(i), OneChain(i)
    PROVE  Settled(i)
<1> DEFINE mine == {r \in Runs : run[r].imp = i /\ run[r].pc # "absent"}
           Passed == {r \in mine : run[r].pc = "passed"}
           Later == {r \in mine : run[r].from > 0}
<1>1. Cardinality(Passed) = Cardinality(Later) /\ \A r \in mine : run[r].pc = "passed" => ~run[r].failed
    BY DEF OneChain
<1>2. \A r \in mine : run[r].pc \in {"done", "passed"}
    BY DEF Reported
<1>3. Landed(i)
    BY DEF Reported, Landed
<1>4. PICK f \in mine : run[f].from = 0 /\ \A r \in mine : run[r].from = 0 => r = f
    BY <1>3 DEF Relay
<1>5. IsFiniteSet(mine) /\ IsFiniteSet(Passed) /\ IsFiniteSet(Later)
    <2>1. IsFiniteSet(Runs)
        BY FS_Interval, CashBoundsAssumption DEF Runs
    <2>2. mine \subseteq Runs /\ Passed \subseteq Runs /\ Later \subseteq Runs
        OBVIOUS
    <2>3. QED
        BY <2>1, <2>2, FS_Subset
<1>6. mine = Later \union {f} /\ f \notin Later
    <2>1. \A r \in Runs : run[r].from \in Nat
        BY RunIs DEF Timely
    <2>2. QED
        BY <2>1, <1>4
<1>7. Heads(i) = mine \ Passed /\ Heads(i) \subseteq mine
    BY <1>2 DEF Heads
<1> HIDE DEF mine, Passed, Later
<1>8. Cardinality(mine) = Cardinality(Later) + 1 /\ Cardinality(Later) \in Nat
    BY <1>5, <1>6, FS_AddElement, FS_CardinalityType
<1>9. Passed \subseteq mine
    BY DEF Passed
<1>10. IsFiniteSet(Heads(i)) /\ Cardinality(Heads(i)) = Cardinality(mine) - Cardinality(Passed)
    <2>1. mine \cap Passed = Passed
        BY <1>9
    <2>2. Cardinality(mine \ Passed) = Cardinality(mine) - Cardinality(mine \cap Passed)
        BY <1>5, FS_Difference
    <2>3. QED
        BY <2>1, <2>2, <1>5, <1>7, FS_Subset
<1>11. Cardinality(Heads(i)) = 1
    BY <1>1, <1>8, <1>10
<1>12. PICK h : Heads(i) = {h}
    BY <1>10, <1>11, FS_Singleton
<1>13. h \in Runs /\ run[h].pc = "done"
    BY <1>12, <1>2, <1>7 DEF Heads
<1>14. \A r \in Runs : run[r].imp = i /\ run[r].pc \in {"passing", "passed"} => ~run[r].failed
    BY <1>1, <1>2 DEF mine
<1>15. QED
    BY <1>12, <1>13, <1>14 DEF Settled, Sound

(* The invariant makes the passbooks exact.                                 *)
LEMMA IInvIsExact ==
    ASSUME IInv
    PROVE  PassbookExact
<1>2. SUFFICES ASSUME ~overlap, \A i \in Imports : startedAt[i] # 0 => Reported(i) /\ OneChain(i),
                      NEW a \in Accounts
               PROVE  Exact(a)
    BY DEF PassbookExact
<1>1. Timely /\ Relay /\ Exactness
    BY <1>2 DEF IInv
<1>3. SUFFICES Adds(book[a], Owed(a))
    BY <1>1, AddsIsExact, BookIs
<1>4. \A i \in Imports : startedAt[i] # 0 => Settled(i)
    BY <1>1, <1>2, ChainSettles
<1>5. CASE \A i \in Imports : startedAt[i] = 0
    <2>1. Owed(a) = {}
        BY <1>1, <1>5, TxnFacts DEF Timely, Chronology, Owed
    <2>2. book[a] = {}
        BY <2>1, <1>1, RowOwed
    <2>3. QED
        BY <2>1, <2>2, NothingAdds
<1>6. CASE \E i \in Imports : startedAt[i] # 0
    <2>1. PICK m \in {k \in Imports \union {NumImports + 1} : k \in Imports => startedAt[k] = 0} :
             \A k \in {k \in Imports \union {NumImports + 1} : k \in Imports => startedAt[k] = 0} : m <= k
        <3>1. NumImports + 1 \notin Imports /\ NumImports + 1 \in Nat /\ Imports \subseteq Nat
            BY ImportsAreNumbers DEF Imports
        <3>2. QED
            BY <3>1, LeastOf
    <2>2. /\ m \in Nat \ {0} /\ m <= NumImports + 1
          /\ \A k \in Imports : k < m => startedAt[k] # 0
          /\ \A k \in Imports : k >= m => startedAt[k] = 0
        <3>1. m \in Nat \ {0} /\ m <= NumImports + 1
            BY <2>1, ImportsAreNumbers DEF Imports
        <3>2. \A k \in Imports : k < m => startedAt[k] # 0
            BY <2>1, <3>1, ImportsAreNumbers
        <3>3. \A k \in Imports : k >= m => startedAt[k] = 0
            <4>1. SUFFICES ASSUME NEW k \in Imports, k >= m, startedAt[k] # 0 PROVE FALSE
                OBVIOUS
            <4>2. m \in Imports /\ startedAt[m] = 0
                BY <4>1, <3>1, <2>1, ImportsAreNumbers DEF Imports
            <4>3. m < k
                BY <4>1, <4>2, <3>1, ImportsAreNumbers
            <4>4. QED
                BY <4>1, <4>2, <4>3, <1>1 DEF Timely, Chronology
        <3>4. QED
            BY <3>1, <3>2, <3>3
    <2>3. m # 1
        <3>1. \A k \in Imports : k >= 1
            BY ImportsAreNumbers
        <3>2. QED
            BY <3>1, <2>2, <1>6
    <2>4. PICK i \in Imports : i = m - 1
        BY <2>2, <2>3, ImportsAreNumbers DEF Imports
    <2>5. Latest(i)
        BY <2>2, <2>4, ImportsAreNumbers DEF Latest
    <2>6. \A k \in Imports : k <= i => Settled(k)
        BY <2>2, <2>4, <1>4, ImportsAreNumbers
    <2>7. Settled(i) /\ \A k \in Imports : k < i => Settled(k)
        BY <2>6, ImportsAreNumbers
    <2>8. PICK h \in Runs : Sound(i, h) /\ run[h].pc = "done"
        BY <2>7 DEF Settled
    <2>9. Priors(i) /\ Doing(i, run[h])
        BY <2>5, <2>7, <2>8, <1>1 DEF Exactness
    <2>10. JobOK(run[h]) /\ run[h].imp = i
        BY <2>8, <1>1, RunIs DEF Sound, Heads, Timely
    <2>11. QED
        BY <2>5, <2>8, <2>9, <2>10, <1>1, DoneIsExact
<1>7. QED
    BY <1>5, <1>6

(* When no upload overlapped another and every job reports success after    *)
(* one chain of runs, the passbooks are exact: whatever crashed, failed or  *)
(* was retried, nothing is missing, nothing is there twice, Sequence has no *)
(* gap and no balance is broken.                                            *)
THEOREM PassbookStaysExact == Spec => []PassbookExact
<1>1. Init => IInv
    BY TimelyInit, RelayInit, ExactnessInit DEF IInv
<1>2. IInv /\ [Next]_vars => IInv'
    BY IInvNext
<1>3. IInv => PassbookExact
    BY IInvIsExact
<1>4. QED
    BY <1>1, <1>2, <1>3, PTL DEF Spec

----------------------------------------------------------------------------
(* Rows are posted once, also when uploads overlap.                         *)

Working == {"fetch", "tail", "insert"}

Shapes ==
    /\ now \in Nat
    /\ startedAt \in [Imports -> Nat]
    /\ created \in [Txns -> Nat]
    /\ book \in [Accounts -> SUBSET Row]
    /\ run \in [Runs -> Job]

(* A passbook row is not older than its Transaction row.                    *)
Young ==
    /\ \A t \in Txns : created[t] <= now
    /\ \A a \in Accounts : \A w \in book[a] : created[w.txn] # 0 /\ created[w.txn] <= w.at

(* What a job has in memory.                                                *)
Holds(p) ==
    /\ p.pc # "absent" => p.imp \in Imports /\ startedAt[p.imp] # 0
    /\ p.pc \in AtAccount => p.page # {}
    /\ p.pc \in {"tail", "insert"} => p.todo # {} /\ p.todo \subseteq Since(p.imp)

(* A job that counted nothing left finds nothing since its floor, and later *)
(* no row of what it has still to insert: but for a row inserted beside it. *)
Cleared(p) ==
    Lowest(p.page) \notin crossed =>
       /\ p.pc \in {"fetch", "tail"} => \A w \in book[Lowest(p.page)] : ~(w.at >= Floor(p.imp))
       /\ p.pc = "insert" => \A w \in book[Lowest(p.page)] : w.txn \notin p.todo

OInv ==
    /\ Shapes /\ Young
    /\ \A r \in Runs : Holds(run[r]) /\ Cleared(run[r])
    /\ PostedOnce

LEMMA ShapeOf ==
    ASSUME OInv, NEW r \in Runs
    PROVE  /\ run[r] \in Job /\ Holds(run[r]) /\ Cleared(run[r])
           /\ run[r].page \subseteq Accounts /\ run[r].todo \subseteq Txns /\ run[r].imp \in Nat
           /\ run[r].from \in Accounts \union {0} /\ run[r].cursor \in Accounts \union {0}
           /\ run[r].bal \in Int /\ run[r].seq \in Nat /\ run[r].tries \in Nat
<1>1. run[r] \in Job /\ Holds(run[r]) /\ Cleared(run[r])
    BY DEF OInv, Shapes
<1>2. QED
    BY <1>1 DEF Job

LEMMA PlaceOf ==
    ASSUME OInv, NEW r \in Runs, run[r].pc \in AtAccount
    PROVE  Here(r) = Lowest(run[r].page) /\ Here(r) \in run[r].page /\ Here(r) \in Accounts
<1>1. run[r].page \subseteq Accounts /\ run[r].page # {}
    BY ShapeOf DEF Holds
<1>2. QED
    BY <1>1, LowestOf, HereIsLowest

(* A step of a job that writes nothing.                                     *)
LEMMA QuietStep ==
    ASSUME OInv, UNCHANGED <<now, startedAt, created, book, crossed>>, NEW r \in Runs, NEW p \in Job,
           run' = [run EXCEPT ![r] = p], Holds(p), p.pc \in Working => Cleared(p)
    PROVE  OInv'
<1>1. Shapes'
    BY DEF OInv, Shapes
<1>2. Young'
    BY DEF OInv, Young
<1>3. PostedOnce'
    BY DEF OInv, PostedOnce
<1>4. Cleared(p)
    BY DEF Cleared, Working
<1>5. ASSUME NEW q, Holds(q), Cleared(q) PROVE Holds(q)' /\ Cleared(q)'
    BY <1>5 DEF Holds, Cleared, Since, Floor
<1>6. \A s \in Runs : run'[s] = p \/ run'[s] = run[s]
    BY DEF OInv, Shapes
<1>7. \A s \in Runs : Holds(run[s])' /\ Cleared(run[s])'
    <2>1. Holds(p)' /\ Cleared(p)'
        BY <1>4, <1>5
    <2>2. TAKE s \in Runs
    <2>3. PICK q : q = run'[s]
        OBVIOUS
    <2>4. q = p \/ q = run[s]
        BY <1>6, <2>3
    <2>5. Holds(run[s]) /\ Cleared(run[s])
        BY DEF OInv
    <2>6. Holds(q)' /\ Cleared(q)'
        BY <2>1, <2>4, <2>5, <1>5
    <2>7. QED
        BY <2>3, <2>6
<1>8. QED
    BY <1>1, <1>2, <1>3, <1>7 DEF OInv

LEMMA OnceStart ==
    ASSUME OInv, NEW r \in Runs, NEW pc \in {"page", "queued", "failed"}, NEW n \in Nat, run[r].pc # "absent",
           run' = [run EXCEPT ![r] = Again(run[r], pc, n)],
           UNCHANGED <<now, startedAt, created, book, crossed>>
    PROVE  OInv'
<1>1. run[r].imp \in Imports /\ startedAt[run[r].imp] # 0 /\ run[r].imp \in Nat /\ run[r].from \in Accounts \union {0}
    BY ShapeOf DEF Holds
<1>2. PICK p : p = Again(run[r], pc, n)
    OBVIOUS
<1>3. NewRun(run[r].imp, run[r].from) \in Job /\ NewRun(run[r].imp, run[r].from).imp = run[r].imp
    BY ZenonT(60), <1>1, NewRunIs
<1>4. p \in Job /\ p.pc = pc /\ p.imp = run[r].imp
    BY <1>2, <1>3 DEF Again, Job, Closed
<1>5. Holds(p) /\ p.pc \notin Working
    BY <1>1, <1>4 DEF Holds, AtAccount, Working
<1>6. QED
    BY <1>2, <1>4, <1>5, QuietStep

(* The record of a job changes in its pc, and perhaps in its page, cursor   *)
(* or failed.                                                               *)
LEMMA OnceWalks ==
    ASSUME OInv, NEW r \in Runs, run[r].pc # "absent", NEW p \in Job, run' = [run EXCEPT ![r] = p],
           p.imp = run[r].imp, p.pc \notin Working, p.pc \in AtAccount => p.page # {},
           UNCHANGED <<now, startedAt, created, book, crossed>>
    PROVE  OInv'
<1>1. Holds(run[r])
    BY ShapeOf
<1>2. Holds(p)
    BY <1>1 DEF Holds, Working
<1>3. QED
    BY <1>2, QuietStep

LEMMA OnceFetchPage ==
    ASSUME OInv, NEW r \in Runs, FetchPage(r)
    PROVE  OInv'
<1>1. run[r] \in Job /\ run[r].pc = "page" /\ UNCHANGED <<now, startedAt, created, book, crossed>>
    BY ShapeOf DEF FetchPage
<1>2. PICK page : page = NextPage(run[r].imp, run[r].cursor)
    OBVIOUS
<1>3. page \subseteq Accounts
    BY <1>2 DEF NextPage
<1>4. (Cardinality(page) >= PageSize) \in BOOLEAN
    OBVIOUS
<1>5. PICK full \in BOOLEAN : full = (Cardinality(page) >= PageSize)
    BY <1>4, Zenon
<1>6. PICK pc : pc = (IF page = {} THEN "end" ELSE "delete")
    OBVIOUS
<1>7. pc \in {"end", "delete"} /\ (pc = "delete" => page # {})
    BY <1>6
<1>8. PICK p : p = [run[r] EXCEPT !.page = page, !.full = full, !.pc = pc]
    OBVIOUS
<1>9. run' = [run EXCEPT ![r] = p]
    BY <1>2, <1>5, <1>6, <1>8 DEF FetchPage, Become
<1>10. p \in Job /\ p.pc = pc /\ p.imp = run[r].imp /\ p.page = page
    BY <1>1, <1>3, <1>7, <1>8 DEF Job, AtAccount
<1>11. p.pc \notin Working /\ (p.pc \in AtAccount => p.page # {})
    BY <1>7, <1>10 DEF Working, AtAccount
<1>12. QED
    BY <1>1, <1>9, <1>10, <1>11, OnceWalks

(* The COUNT that says 0 clears the account.                                *)
LEMMA OnceCount ==
    ASSUME OInv, NEW r \in Runs, CountRows(r)
    PROVE  OInv'
<1>1. /\ run[r] \in Job /\ Holds(run[r]) /\ run[r].pc = "delete" /\ run[r].pc \in AtAccount
      /\ UNCHANGED <<now, startedAt, created, book, crossed>>
    BY ShapeOf DEF CountRows, AtAccount
<1>2. PICK pc : pc = (IF SinceRows(r) = {} THEN "fetch" ELSE "remove")
    OBVIOUS
<1>3. pc \in {"fetch", "remove"} /\ (pc = "fetch" => SinceRows(r) = {})
    BY <1>2
<1>4. PICK p : p = [run[r] EXCEPT !.pc = pc]
    OBVIOUS
<1>5. run' = [run EXCEPT ![r] = p]
    BY <1>2, <1>4 DEF CountRows, Become
<1>6. p \in Job /\ p.pc = pc /\ p.imp = run[r].imp /\ p.page = run[r].page
    BY <1>1, <1>3, <1>4 DEF Job, AtAccount
<1>7. Holds(p)
    BY <1>1, <1>3, <1>6 DEF Holds, AtAccount
<1>8. p.pc \in Working => Cleared(p)
    <2>1. SUFFICES ASSUME p.pc = "fetch" PROVE \A w \in book[Lowest(p.page)] : ~(w.at >= Floor(p.imp))
        BY <1>3, <1>6 DEF Cleared, Working
    <2>2. SinceRows(r) = {} /\ Lowest(p.page) = Here(r)
        BY <2>1, <1>1, <1>3, <1>6, PlaceOf
    <2>3. QED
        BY <2>2, <1>6 DEF SinceRows
<1>9. QED
    BY <1>1, <1>5, <1>6, <1>7, <1>8, QuietStep

LEMMA OnceFetchEvents ==
    ASSUME OInv, NEW r \in Runs, FetchEvents(r)
    PROVE  OInv'
<1>1. /\ run[r] \in Job /\ Holds(run[r]) /\ Cleared(run[r]) /\ run[r].pc = "fetch"
      /\ UNCHANGED <<now, startedAt, created, book, crossed>>
    BY ShapeOf DEF FetchEvents
<1>2. PICK todo : todo = {t \in Since(run[r].imp) : t.acct = Here(r)}
    OBVIOUS
<1>3. todo \subseteq Since(run[r].imp) /\ todo \subseteq Txns
    BY <1>2 DEF Since
<1>4. PICK pc : pc = (IF todo = {} THEN "next" ELSE "tail")
    OBVIOUS
<1>5. pc \in {"next", "tail"} /\ (pc = "tail" => todo # {})
    BY <1>4
<1>6. PICK p : p = [run[r] EXCEPT !.todo = todo, !.pc = pc]
    OBVIOUS
<1>7. run' = [run EXCEPT ![r] = p]
    BY <1>2, <1>4, <1>6 DEF FetchEvents, Become
<1>8. p \in Job /\ p.pc = pc /\ p.imp = run[r].imp /\ p.page = run[r].page /\ p.todo = todo
    BY <1>1, <1>3, <1>5, <1>6 DEF Job, AtAccount
<1>9. Holds(p)
    BY <1>1, <1>3, <1>5, <1>8 DEF Holds, AtAccount
<1>10. Cleared(p)
    BY <1>1, <1>5, <1>8 DEF Cleared
<1>11. QED
    BY <1>1, <1>7, <1>8, <1>9, <1>10, QuietStep

(* What is to be inserted is younger than every row there is.               *)
LEMMA OnceReadTail ==
    ASSUME OInv, NEW r \in Runs, ReadTail(r)
    PROVE  OInv'
<1>1. /\ run[r] \in Job /\ Holds(run[r]) /\ Cleared(run[r]) /\ run[r].pc = "tail" /\ run[r].pc \in AtAccount
      /\ UNCHANGED <<now, startedAt, created, book, crossed>>
    BY ShapeOf DEF ReadTail, AtAccount
<1>2. Here(r) \in Accounts /\ Here(r) = Lowest(run[r].page)
    BY <1>1, PlaceOf
<1>3. \A w \in book[Here(r)] : /\ w.bal \in Int /\ w.seq \in Nat /\ w.at \in Nat /\ w.txn \in Txns
                               /\ created[w.txn] \in Nat /\ created[w.txn] <= w.at
    BY <1>2 DEF OInv, Shapes, Young, Row
<1>4. PICK bal \in Int, seq \in Nat, opened \in BOOLEAN :
         run' = [run EXCEPT ![r] = [run[r] EXCEPT !.bal = bal, !.seq = seq, !.opened = opened, !.pc = "insert"]]
    <2>1. CASE book[Here(r)] = {}
        <3>1. run' = [run EXCEPT ![r] = [run[r] EXCEPT !.bal = 0, !.seq = 0, !.opened = FALSE, !.pc = "insert"]]
            BY <2>1 DEF ReadTail, Become
        <3>2. 0 \in Int /\ 0 \in Nat /\ FALSE \in BOOLEAN
            OBVIOUS
        <3>3. QED
            BY <3>1, <3>2
    <2>2. CASE book[Here(r)] # {}
        <3>1. PICK w \in book[Here(r)] :
                 run' = [run EXCEPT ![r] = [run[r] EXCEPT !.bal = w.bal, !.seq = w.seq,
                                                          !.opened = (w.seq > 0), !.pc = "insert"]]
            BY <2>2 DEF ReadTail, Become
        <3>2. (w.seq > 0) \in BOOLEAN
            OBVIOUS
        <3>3. PICK opened \in BOOLEAN : opened = (w.seq > 0)
            BY <3>2, Zenon
        <3>4. QED
            BY <3>1, <3>3, <1>3
    <2>3. QED
        BY <2>1, <2>2
<1>5. PICK p : p = [run[r] EXCEPT !.bal = bal, !.seq = seq, !.opened = opened, !.pc = "insert"]
    OBVIOUS
<1>6. p \in Job /\ p.pc = "insert" /\ p.imp = run[r].imp /\ p.page = run[r].page /\ p.todo = run[r].todo
    BY <1>1, <1>5 DEF Job, AtAccount
<1>7. Holds(p)
    BY <1>1, <1>6 DEF Holds, AtAccount
<1>8. Cleared(p)
    <2>1. SUFFICES ASSUME Here(r) \notin crossed, NEW w \in book[Here(r)], w.txn \in run[r].todo PROVE FALSE
        BY <1>2, <1>6 DEF Cleared
    <2>2. ~(w.at >= Floor(run[r].imp)) /\ created[w.txn] >= Floor(run[r].imp)
        BY <2>1, <1>1, <1>2 DEF Cleared, Holds, Since
    <2>3. Floor(run[r].imp) \in Int
        BY <1>1, CashBoundsAssumption DEF Floor, Holds, OInv, Shapes
    <2>4. QED
        BY <2>1, <2>2, <2>3, <1>3
<1>9. QED
    BY <1>1, <1>4, <1>5, <1>6, <1>7, <1>8, QuietStep

(* The cursor moves on.                                                     *)
LEMMA OnceAdvance ==
    ASSUME OInv, NEW r \in Runs, Advance(r)
    PROVE  OInv'
<1>1. /\ run[r] \in Job /\ run[r].pc = "next" /\ run[r].pc \in AtAccount
      /\ UNCHANGED <<now, startedAt, created, book, crossed>>
    BY ShapeOf DEF Advance, AtAccount
<1>2. PICK a : a = Here(r)
    OBVIOUS
<1>3. a \in Accounts /\ run[r].page \subseteq Accounts
    BY <1>1, <1>2, PlaceOf, ShapeOf
<1>4. PICK outOfTime \in BOOLEAN :
         Become(r, [run[r] EXCEPT !.cursor = a, !.page = run[r].page \ {a},
                       !.pc = CASE outOfTime -> "handoff"
                                [] ~outOfTime /\ run[r].page \ {a} # {} -> "delete"
                                [] OTHER -> IF run[r].full THEN "page" ELSE "end"])
    BY <1>2 DEF Advance
<1>5. PICK pc : pc = (CASE outOfTime -> "handoff"
                        [] ~outOfTime /\ run[r].page \ {a} # {} -> "delete"
                        [] OTHER -> IF run[r].full THEN "page" ELSE "end")
    OBVIOUS
<1>6. pc \in {"handoff", "delete", "page", "end"} /\ (pc = "delete" => run[r].page \ {a} # {})
    BY <1>5
<1>7. PICK p : p = [run[r] EXCEPT !.cursor = a, !.page = run[r].page \ {a}, !.pc = pc]
    OBVIOUS
<1>8. run' = [run EXCEPT ![r] = p]
    BY <1>4, <1>5, <1>7 DEF Become
<1>9. p \in Job /\ p.pc = pc /\ p.imp = run[r].imp /\ p.page = run[r].page \ {a}
    BY <1>1, <1>3, <1>6, <1>7 DEF Job, AtAccount
<1>10. p.pc \notin Working /\ (p.pc \in AtAccount => p.page # {})
    BY <1>6, <1>9 DEF Working, AtAccount
<1>11. QED
    BY <1>1, <1>8, <1>9, <1>10, OnceWalks

LEMMA OnceCloses ==
    ASSUME OInv, NEW r \in Runs, ClosePassed(r) \/ CloseDone(r)
    PROVE  OInv'
<1>1. run[r] \in Job /\ run[r].pc # "absent" /\ UNCHANGED <<now, startedAt, created, book, crossed>>
    BY ShapeOf DEF ClosePassed, CloseDone
<1>2. PICK pc \in {"passed", "done"} : run' = [run EXCEPT ![r] = [run[r] EXCEPT !.pc = pc]]
    BY DEF ClosePassed, CloseDone, Become
<1>3. PICK p : p = [run[r] EXCEPT !.pc = pc]
    OBVIOUS
<1>4. p \in Job /\ p.pc = pc /\ p.imp = run[r].imp
    BY <1>1, <1>2, <1>3 DEF Job, Closed
<1>5. p.pc \notin Working /\ p.pc \notin AtAccount
    BY <1>2, <1>4 DEF Working, AtAccount
<1>6. QED
    BY <1>1, <1>2, <1>3, <1>4, <1>5, OnceWalks

LEMMA OnceRetries ==
    ASSUME OInv, NEW r \in Runs, Start(r) \/ CloseFailed(r) \/ Abort(r)
    PROVE  OInv'
<1>1. run[r].tries \in Nat /\ run[r].pc # "absent" /\ UNCHANGED <<now, startedAt, created, book, crossed>>
    BY ShapeOf DEF Start, CloseFailed, Abort, PoolRetry, Closed
<1>2. PICK pc, n : /\ pc \in {"page", "queued", "failed"} /\ n \in Nat
                   /\ run' = [run EXCEPT ![r] = Again(run[r], pc, n)]
    <2>1. CASE Start(r)
        BY <2>1, <1>1 DEF Start, Become, Again
    <2>2. CASE PoolRetry(r)
        <3>1. PICK pc, n : /\ pc = (IF run[r].tries < MaxRetries THEN "queued" ELSE "failed")
                           /\ n = (IF run[r].tries < MaxRetries THEN run[r].tries + 1 ELSE run[r].tries)
            OBVIOUS
        <3>2. pc \in {"page", "queued", "failed"} /\ n \in Nat
            BY <1>1, <3>1
        <3>3. run' = [run EXCEPT ![r] = Again(run[r], pc, n)]
            BY <2>2, <3>1 DEF PoolRetry, Become, Again
        <3>4. QED
            BY <3>2, <3>3
    <2>3. QED
        BY <2>1, <2>2 DEF CloseFailed, Abort
<1>3. QED
    BY <1>1, <1>2, OnceStart

LEMMA OnceAccountFails ==
    ASSUME OInv, NEW r \in Runs, AccountFails(r)
    PROVE  OInv'
<1>1. /\ run[r] \in Job /\ Holds(run[r]) /\ run[r].pc \in AtAccount /\ run[r].pc # "absent" /\ GiveUp(r)
      /\ UNCHANGED <<now, startedAt, created, book, crossed>>
    BY ShapeOf, FailureGivesUp DEF AccountFails
<1>2. PICK p : p = [run[r] EXCEPT !.failed = TRUE, !.todo = {}, !.pc = "next"]
    OBVIOUS
<1>3. run' = [run EXCEPT ![r] = p]
    BY <1>1, <1>2 DEF GiveUp, Become
<1>4. p \in Job /\ p.pc = "next" /\ p.imp = run[r].imp /\ p.page = run[r].page
    BY <1>1, <1>2 DEF Job, AtAccount
<1>5. p.pc \notin Working /\ p.page # {}
    BY <1>1, <1>4 DEF Working, Holds
<1>6. QED
    BY <1>1, <1>3, <1>4, <1>5, OnceWalks

LEMMA OnceRetrigger ==
    ASSUME OInv, NEW r \in Runs, NEW k \in Runs, Retrigger(r, k)
    PROVE  OInv'
<1>1. /\ run[r] \in Job /\ Holds(run[r]) /\ run[r].pc = "handoff" /\ run[k].pc = "absent" /\ k # r
      /\ UNCHANGED <<now, startedAt, created, book, crossed>>
    BY ShapeOf DEF Retrigger, NextRun
<1>2. PICK q : q = NewRun(run[r].imp, run[r].cursor)
    OBVIOUS
<1>3. PICK p : p = [run[r] EXCEPT !.pc = "passing"]
    OBVIOUS
<1>4. run' = [run EXCEPT ![k] = q, ![r] = p]
    <2>1. run' = [run EXCEPT ![k] = q, ![r].pc = "passing"]
        BY <1>2 DEF Retrigger
    <2>2. QED
        BY <2>1, <1>1, <1>3
<1>5. p \in Job /\ p.pc = "passing" /\ p.imp = run[r].imp
    BY <1>1, <1>3 DEF Job
<1>6. q \in Job /\ q.pc = "queued" /\ q.imp = run[r].imp
    <2>1. run[r].imp \in Nat /\ run[r].cursor \in Accounts \union {0}
        BY ShapeOf
    <2>2. QED
        BY ZenonT(60), <2>1, <1>2, NewRunIs
<1>7. run[r].imp \in Imports /\ startedAt[run[r].imp] # 0
    BY <1>1 DEF Holds
<1>9. \A z \in {p, q} : Holds(z)' /\ Cleared(z)'
    BY <1>1, <1>5, <1>6, <1>7 DEF Holds, Cleared, AtAccount
<1>10. ASSUME NEW z, Holds(z), Cleared(z) PROVE Holds(z)' /\ Cleared(z)'
    BY <1>1, <1>10 DEF Holds, Cleared, Since, Floor
<1>11. \A s \in Runs : run'[s] \in {p, q} \/ run'[s] = run[s]
    BY <1>4 DEF OInv, Shapes
<1>12. \A s \in Runs : Holds(run[s])' /\ Cleared(run[s])'
    <2>1. TAKE s \in Runs
    <2>2. PICK z : z = run'[s]
        OBVIOUS
    <2>3. Holds(run[s]) /\ Cleared(run[s])
        BY DEF OInv
    <2>4. z \in {p, q} \/ z = run[s]
        BY <1>11, <2>2
    <2>5. Holds(z)' /\ Cleared(z)'
        BY <1>9, <1>10, <2>3, <2>4
    <2>6. QED
        BY <2>2, <2>5
<1>13. Shapes' /\ Young' /\ PostedOnce'
    BY <1>1, <1>4, <1>5, <1>6 DEF OInv, Shapes, Young, PostedOnce
<1>14. QED
    BY <1>12, <1>13 DEF OInv

(* A DELETE only takes rows away.                                           *)
LEMMA OnceDelete ==
    ASSUME OInv, NEW r \in Runs, DeleteRound(r)
    PROVE  OInv'
<1>1. /\ run[r] \in Job /\ Holds(run[r]) /\ run[r].pc = "remove"
      /\ UNCHANGED <<now, startedAt, created, crossed>>
    BY ShapeOf DEF DeleteRound
<1>2. PICK p : p = [run[r] EXCEPT !.pc = "delete"]
    OBVIOUS
<1>3. run' = [run EXCEPT ![r] = p]
    BY <1>2 DEF DeleteRound, Become
<1>4. p \in Job /\ p.pc = "delete" /\ p.imp = run[r].imp /\ p.page = run[r].page
    BY <1>1, <1>2 DEF Job, AtAccount
<1>5. Holds(p) /\ Cleared(p)
    BY <1>1, <1>4 DEF Holds, Cleared, AtAccount
<1>6. PICK gone : book' = [book EXCEPT ![Here(r)] = @ \ gone]
    BY DEF DeleteRound
<1>7. book' \in [Accounts -> SUBSET Row] /\ \A a \in Accounts : book'[a] \subseteq book[a]
    BY <1>6 DEF OInv, Shapes
<1>8. Shapes'
    BY <1>1, <1>3, <1>4, <1>7 DEF OInv, Shapes
<1>9. Young'
    BY <1>1, <1>7 DEF OInv, Young
<1>10. PostedOnce'
    BY <1>1, <1>7 DEF OInv, PostedOnce
<1>11. ASSUME NEW z \in Job, Holds(z), Cleared(z) PROVE Holds(z)' /\ Cleared(z)'
    <2>1. Holds(z)'
        BY <1>1, <1>11 DEF Holds, Since, Floor
    <2>2. CASE z.pc \in AtAccount
        <3>1. Lowest(z.page) \in Accounts
            BY <2>2, <1>11, LowestOf DEF Holds, Job
        <3>2. QED
            BY <2>1, <3>1, <1>1, <1>7, <1>11 DEF Cleared, Floor
    <2>3. CASE z.pc \notin AtAccount
        BY <2>1, <2>3 DEF Cleared, AtAccount
    <2>4. QED
        BY <2>2, <2>3
<1>12. \A s \in Runs : Holds(run[s])' /\ Cleared(run[s])'
    <2>1. TAKE s \in Runs
    <2>2. PICK z : z = run'[s]
        OBVIOUS
    <2>3. z = p \/ z = run[s]
        BY <1>3, <2>2 DEF OInv, Shapes
    <2>4. z \in Job /\ Holds(z) /\ Cleared(z)
        BY <2>3, <1>4, <1>5, ShapeOf
    <2>5. QED
        BY <2>2, <2>4, <1>11
<1>13. QED
    BY <1>8, <1>9, <1>10, <1>12 DEF OInv

(* The row a job writes is of a transaction that has none there; what       *)
(* others have at the account in memory is no concern of a job before its   *)
(* COUNT, and crosses the account for the rest.                             *)
LEMMA OnceWrites ==
    ASSUME OInv, NEW r \in Runs, run[r].pc = "insert", WriteRow(r), UNCHANGED <<now, startedAt, created>>,
           NEW p \in Job, run' = [run EXCEPT ![r] = p], p.imp = run[r].imp, p.page = run[r].page,
           p.pc \in {"next", "insert"},
           p.pc = "insert" => p.todo # {} /\ p.todo = run[r].todo \ {NextEvent(r)}
    PROVE  OInv'
<1>1. /\ Holds(run[r]) /\ Cleared(run[r]) /\ run[r] \in Job /\ run[r].pc \in AtAccount /\ run[r].pc # "absent"
      /\ run[r].todo \in SUBSET Txns /\ run[r].bal \in Int /\ run[r].seq \in Nat
    BY ShapeOf DEF AtAccount
<1>2. PICK a, t : a = Here(r) /\ t = NextEvent(r)
    OBVIOUS
<1>3. a \in Accounts /\ a = Lowest(run[r].page) /\ Here(r) = a
    BY <1>1, <1>2, PlaceOf
<1>4. t \in run[r].todo /\ t \in Txns /\ t.amt \in Int /\ created[t] # 0 /\ created[t] <= now
    <2>1. run[r].todo # {} /\ run[r].todo \subseteq Since(run[r].imp)
        BY <1>1 DEF Holds
    <2>2. t \in run[r].todo /\ t \in Txns
        BY <2>1, <1>1, <1>2, NextEventOf
    <2>3. QED
        BY <2>1, <2>2, TxnFacts DEF Since, OInv, Young
<1>5. PICK w : w = NextRow(r)
    OBVIOUS
<1>6. w \in Row /\ w.txn = t /\ w.at = now
    <2>1. PICK bal : bal = NewBalance(run[r].bal, run[r].opened, t)
        OBVIOUS
    <2>2. bal \in Int
        BY <2>1, <1>1, <1>4 DEF NewBalance
    <2>3. w = [txn |-> t, seq |-> run[r].seq + 1, bal |-> bal, at |-> now]
        BY <2>1, <1>2, <1>5 DEF NextRow
    <2>4. now \in Nat
        BY DEF OInv, Shapes
    <2>5. QED
        BY <2>2, <2>3, <2>4, <1>1, <1>4 DEF Row
<1>7. book' = [book EXCEPT ![a] = @ \union {w}] /\ book \in [Accounts -> SUBSET Row]
    BY <1>3, <1>5 DEF WriteRow, OInv, Shapes
<1>8. /\ book' \in [Accounts -> SUBSET Row] /\ book'[a] = book[a] \union {w}
      /\ \A b \in Accounts : b # a => book'[b] = book[b]
    BY <1>3, <1>6, <1>7
<1>9. crossed \subseteq crossed' /\ ((\E k \in Runs : Beside(r, k)) => a \in crossed')
    BY <1>3 DEF WriteRow
<1>10. a \notin crossed => \A v \in book[a] : v.txn \notin run[r].todo
    BY <1>1, <1>3 DEF Cleared
<1>11. Shapes'
    BY <1>8 DEF OInv, Shapes
<1>12. Young'
    <2>1. \A b \in Accounts : \A v \in book'[b] : v \in book[b] \/ v = w
        BY <1>8
    <2>2. QED
        BY <2>1, <1>4, <1>6 DEF OInv, Young
<1>13. PostedOnce'
    <2>1. SUFFICES ASSUME NEW b \in Accounts, b \notin crossed', NEW v \in book'[b], NEW u \in book'[b], v.txn = u.txn
                   PROVE  v = u
        BY DEF PostedOnce
    <2>2. b \notin crossed
        BY <2>1, <1>9
    <2>3. \A x, y \in book[b] : x.txn = y.txn => x = y
        BY <2>2 DEF OInv, PostedOnce
    <2>4. CASE b # a
        BY <2>1, <2>3, <2>4, <1>8
    <2>5. CASE b = a
        <3>1. \A x \in book[a] : x.txn # t
            BY <2>2, <2>5, <1>4, <1>10
        <3>2. QED
            BY <2>1, <2>3, <2>5, <3>1, <1>6, <1>8
    <2>6. QED
        BY <2>4, <2>5
<1>14. Holds(p)' /\ Cleared(p)'
    <2>1. Holds(p)'
        <3>1. Holds(p)
            BY <1>1 DEF Holds
        <3>2. QED
            BY <3>1 DEF Holds, Since, Floor
    <2>2. Cleared(p)'
        <3>1. SUFFICES ASSUME p.pc = "insert", a \notin crossed', NEW v \in book'[a] PROVE v.txn \notin p.todo
            BY <1>3 DEF Cleared
        <3>2. v = w \/ v \in book[a]
            BY <3>1, <1>8
        <3>3. a \notin crossed
            BY <3>1, <1>9
        <3>4. QED
            BY <3>1, <3>2, <3>3, <1>2, <1>6, <1>10
    <2>3. QED
        BY <2>1, <2>2
<1>15. ASSUME NEW k \in Runs, k # r, NEW q, q = run[k] PROVE Holds(q)' /\ Cleared(q)'
    <2>1. q \in Job /\ Holds(q) /\ Cleared(q)
        BY <1>15, ShapeOf
    <2>2. Holds(q)'
        BY <2>1 DEF Holds, Since, Floor
    <2>3. CASE q.pc \notin Working
        BY <2>2, <2>3 DEF Cleared, Working
    <2>4. CASE q.pc \in Working
        <3>1. Lowest(q.page) = Here(k) /\ Here(k) \in Accounts
            <4>1. run[k].pc \in AtAccount
                BY <2>4, <1>15 DEF Working, AtAccount
            <4>2. QED
                BY <4>1, <1>15, PlaceOf
        <3>2. CASE Here(k) = a
            <4>1. Beside(r, k)
                BY <2>4, <3>2, <1>3, <1>15 DEF Beside, Working
            <4>2. Lowest(q.page) \in crossed'
                BY <4>1, <3>1, <3>2, <1>9
            <4>3. Cleared(q)'
                BY <4>2 DEF Cleared
            <4>4. QED
                BY <2>2, <4>3
        <3>3. CASE Here(k) # a
            <4>1. PICK b \in Accounts : b = Lowest(q.page) /\ b # a
                BY <3>1, <3>3
            <4>2. book'[b] = book[b] /\ (b \notin crossed' => b \notin crossed)
                BY <4>1, <1>8, <1>9
            <4>3. Cleared(q)'
                BY <4>1, <4>2, <2>1 DEF Cleared, Floor
            <4>4. QED
                BY <2>2, <4>3
        <3>4. QED
            BY <3>2, <3>3
    <2>5. QED
        BY <2>3, <2>4
<1>16. \A s \in Runs : Holds(run[s])' /\ Cleared(run[s])'
    <2>1. TAKE s \in Runs
    <2>2. PICK q, z : q = run'[s] /\ z = run[s]
        OBVIOUS
    <2>3. IF s = r THEN q = p ELSE q = z
        BY <2>2 DEF OInv, Shapes
    <2>4. Holds(q)' /\ Cleared(q)'
        BY <2>2, <2>3, <1>14, <1>15
    <2>5. QED
        BY <2>2, <2>4
<1>17. QED
    BY <1>11, <1>12, <1>13, <1>16 DEF OInv

LEMMA OnceInserts ==
    ASSUME OInv, NEW r \in Runs, InsertEvent(r) \/ InsertThrows(r)
    PROVE  OInv'
<1>1. /\ run[r] \in Job /\ run[r].pc = "insert" /\ WriteRow(r) /\ UNCHANGED <<now, startedAt, created>>
      /\ run[r].todo \subseteq Txns /\ run[r].bal \in Int /\ run[r].seq \in Nat /\ run[r].todo # {}
    BY ShapeOf DEF InsertEvent, InsertThrows, Holds
<1>2. CASE InsertThrows(r)
    <2>1. PICK p : p = [run[r] EXCEPT !.failed = TRUE, !.todo = {}, !.pc = "next"]
        OBVIOUS
    <2>2. run' = [run EXCEPT ![r] = p]
        BY <2>1, <1>2 DEF InsertThrows, GiveUp, Become
    <2>3. p \in Job /\ p.pc = "next" /\ p.imp = run[r].imp /\ p.page = run[r].page
        BY <2>1, <1>1 DEF Job, AtAccount
    <2>4. QED
        BY <2>2, <2>3, <1>1, OnceWrites
<1>3. CASE InsertEvent(r)
    <2>1. PICK t, rest, bal : /\ t = NextEvent(r) /\ rest = run[r].todo \ {NextEvent(r)}
                              /\ bal = NewBalance(run[r].bal, run[r].opened, NextEvent(r))
        OBVIOUS
    <2>2. t \in Txns /\ t.amt \in Int /\ bal \in Int /\ rest \subseteq Txns
        <3>1. t \in run[r].todo
            BY <2>1, <1>1, NextEventOf
        <3>2. t \in Txns /\ t.amt \in Int
            BY <3>1, <1>1, TxnFacts
        <3>3. QED
            BY <2>1, <3>2, <1>1 DEF NewBalance
    <2>3. (run[r].opened \/ t.opening) \in BOOLEAN
        OBVIOUS
    <2>4. PICK opened \in BOOLEAN : opened = (run[r].opened \/ t.opening)
        BY <2>3, Zenon
    <2>5. PICK pc : pc = (IF rest = {} THEN "next" ELSE "insert")
        OBVIOUS
    <2>6. pc \in {"next", "insert"} /\ (pc = "insert" => rest # {})
        BY <2>5
    <2>7. PICK p : p = [run[r] EXCEPT !.bal = bal, !.seq = run[r].seq + 1, !.opened = opened,
                                      !.todo = rest, !.pc = pc]
        OBVIOUS
    <2>8. run' = [run EXCEPT ![r] = p]
        <3>1. run' = [run EXCEPT ![r] = [run[r] EXCEPT !.bal = bal, !.seq = @ + 1,
                                          !.opened = @ \/ t.opening, !.todo = rest, !.pc = pc]]
            BY <2>1, <2>5, <1>3 DEF InsertEvent, NextRow, Become
        <3>2. QED
            BY <3>1, <2>4, <2>7
    <2>9. p \in Job /\ p.pc = pc /\ p.imp = run[r].imp /\ p.page = run[r].page /\ p.todo = rest
        <3>1. run[r].seq + 1 \in Nat /\ pc \in AtAccount
            BY <2>6, <1>1 DEF AtAccount
        <3>2. PICK u : u = [run[r] EXCEPT !.bal = bal, !.seq = run[r].seq + 1]
            OBVIOUS
        <3>3. u \in Job /\ u.imp = run[r].imp /\ u.page = run[r].page
            BY <3>1, <3>2, <2>2, <1>1 DEF Job
        <3>4. PICK w : w = [u EXCEPT !.opened = opened, !.todo = rest]
            OBVIOUS
        <3>5. w \in Job /\ w.imp = u.imp /\ w.page = u.page /\ w.todo = rest
            BY <3>4, <3>3, <2>2 DEF Job
        <3>6. p = [w EXCEPT !.pc = pc]
            BY <3>2, <3>4, <2>7, <1>1 DEF Job
        <3>7. QED
            BY <3>1, <3>3, <3>5, <3>6 DEF Job
    <2>10. QED
        BY <2>1, <2>6, <2>8, <2>9, <1>1, OnceWrites
<1>4. QED
    BY <1>2, <1>3

LEMMA OnceRunStep ==
    ASSUME OInv, NEW r \in Runs, RunStep(r)
    PROVE  OInv'
BY OnceRetries, OnceFetchPage, OnceCount, OnceDelete, OnceFetchEvents, OnceReadTail, OnceInserts,
   OnceAccountFails, OnceAdvance, OnceRetrigger, OnceCloses DEF RunStep

(* Time passes, an upload begins or lands: no floor of a job moves, and     *)
(* what it has to insert stays.                                             *)
LEMMA OnceWorld ==
    ASSUME OInv, UNCHANGED <<book, crossed>>, now' \in Nat, now <= now', NEW Q \in SUBSET Job,
           startedAt' \in [Imports -> Nat], created' \in [Txns -> Nat],
           \A i \in Imports : startedAt[i] # 0 => startedAt'[i] = startedAt[i],
           \A t \in Txns : IF created[t] = 0 THEN created'[t] \in {0, now'} ELSE created'[t] = created[t],
           \A q \in Q : q.pc = "queued" /\ q.imp \in Imports /\ startedAt[q.imp] # 0,
           run' \in [Runs -> Job], \A s \in Runs : run'[s] = run[s] \/ run'[s] \in Q
    PROVE  OInv'
<1>1. Shapes'
    BY DEF OInv, Shapes
<1>2. now \in Nat /\ created \in [Txns -> Nat] /\ Shapes /\ Young
    BY DEF OInv, Shapes
<1>3. Young'
    <2>1. \A t \in Txns : created[t] <= now /\ created[t] \in Nat
        BY <1>2 DEF Young
    <2>2. \A t \in Txns : created'[t] <= now'
        BY <2>1, <1>2
    <2>3. ASSUME NEW a \in Accounts, NEW w \in book[a] PROVE created'[w.txn] # 0 /\ created'[w.txn] <= w.at
        <3>1. w.txn \in Txns /\ created[w.txn] # 0 /\ created[w.txn] <= w.at
            BY <1>2 DEF Young, Shapes, Row
        <3>2. created'[w.txn] = created[w.txn]
            BY <3>1
        <3>3. QED
            BY <3>1, <3>2
    <2>4. QED
        BY <2>2, <2>3 DEF Young
<1>4. PostedOnce'
    BY DEF OInv, PostedOnce
<1>5. ASSUME NEW i \in Imports, startedAt[i] # 0
      PROVE  /\ Floor(i)' = Floor(i) /\ startedAt'[i] # 0
             /\ \A t \in Since(i) : t \in Since(i)'
    <2>1. startedAt'[i] = startedAt[i]
        BY <1>5
    <2>2. Floor(i)' = Floor(i)
        BY <2>1 DEF Floor
    <2>3. QED
        BY <2>1, <2>2, <1>5 DEF Since
<1>6. ASSUME NEW q \in Job, Holds(q), Cleared(q) PROVE Holds(q)' /\ Cleared(q)'
    <2>1. CASE q.pc = "absent"
        BY <2>1 DEF Holds, Cleared, AtAccount
    <2>2. CASE q.pc # "absent"
        <3>1. q.imp \in Imports /\ startedAt[q.imp] # 0
            BY <2>2, <1>6 DEF Holds
        <3>2. /\ Floor(q.imp)' = Floor(q.imp) /\ startedAt'[q.imp] # 0
              /\ \A t \in Since(q.imp) : t \in Since(q.imp)'
            BY <3>1, <1>5
        <3>3. Holds(q)'
            BY <3>1, <3>2, <1>6 DEF Holds
        <3>4. Cleared(q)'
            BY <3>2, <1>6 DEF Cleared
        <3>5. QED
            BY <3>3, <3>4
    <2>3. QED
        BY <2>1, <2>2
<1>7. ASSUME NEW q \in Q PROVE Holds(q)' /\ Cleared(q)'
    <2>1. q.pc = "queued" /\ q.imp \in Imports /\ startedAt'[q.imp] # 0
        BY <1>5, <1>7
    <2>2. QED
        BY <2>1 DEF Holds, Cleared, AtAccount
<1>8. \A s \in Runs : Holds(run[s])' /\ Cleared(run[s])'
    <2>1. TAKE s \in Runs
    <2>2. PICK q : q = run'[s]
        OBVIOUS
    <2>3. q \in Q \/ (q \in Job /\ Holds(q) /\ Cleared(q))
        BY <2>2, ShapeOf
    <2>4. Holds(q)' /\ Cleared(q)'
        BY <2>3, <1>6, <1>7
    <2>5. QED
        BY <2>2, <2>4
<1>9. QED
    BY <1>1, <1>3, <1>4, <1>8 DEF OInv

LEMMA OnceNext ==
    ASSUME OInv, [Next]_vars
    PROVE  OInv'
<1>1. /\ now \in Nat /\ startedAt \in [Imports -> Nat] /\ created \in [Txns -> Nat] /\ run \in [Runs -> Job]
    BY DEF OInv, Shapes
<1>2. CASE Tick
    <2>1. now' = now + 1 /\ UNCHANGED <<startedAt, created, book, run, crossed>>
        BY <1>2 DEF Tick
    <2>2. now' \in Nat /\ now <= now' /\ {} \in SUBSET Job
        BY <2>1, <1>1
    <2>3. QED
        BY <2>1, <2>2, <1>1, OnceWorld
<1>3. ASSUME NEW i \in Imports, StartImport(i) PROVE OInv'
    <2>1. /\ startedAt[i] = 0 /\ startedAt' = [startedAt EXCEPT ![i] = now]
          /\ UNCHANGED <<now, created, book, run, crossed>>
        BY <1>3 DEF StartImport
    <2>2. startedAt' \in [Imports -> Nat] /\ \A k \in Imports : startedAt[k] # 0 => startedAt'[k] = startedAt[k]
        BY <2>1, <1>1
    <2>3. now' \in Nat /\ now <= now' /\ {} \in SUBSET Job
        BY <2>1, <1>1
    <2>4. QED
        BY <2>1, <2>2, <2>3, <1>1, OnceWorld
<1>4. ASSUME NEW i \in Imports, NEW r \in Runs, ImportLands(i, r) PROVE OInv'
    <2>1. /\ startedAt[i] # 0 /\ (\A t \in Txns : t.import = i => created[t] = 0)
          /\ created' = [t \in Txns |-> IF t.import = i THEN now ELSE created[t]]
          /\ run' = [run EXCEPT ![r] = NewRun(i, 0)]
          /\ UNCHANGED <<now, startedAt, book, crossed>>
        BY <1>4 DEF ImportLands
    <2>2. PICK q : q = NewRun(i, 0)
        OBVIOUS
    <2>3. q \in Job /\ q.pc = "queued" /\ q.imp = i
        <3>1. i \in Nat
            BY CashBoundsAssumption DEF Imports
        <3>2. QED
            BY <2>2, <3>1 DEF NewRun, Job
    <2>4. run' \in [Runs -> Job] /\ \A s \in Runs : run'[s] = run[s] \/ run'[s] \in {q}
        BY <2>1, <2>2, <2>3, <1>1
    <2>5. /\ created' \in [Txns -> Nat]
          /\ \A t \in Txns : IF created[t] = 0 THEN created'[t] \in {0, now'} ELSE created'[t] = created[t]
        BY <2>1, <1>1
    <2>6. {q} \in SUBSET Job /\ \A z \in {q} : z.pc = "queued" /\ z.imp \in Imports /\ startedAt[z.imp] # 0
        BY <2>1, <2>3
    <2>7. now' \in Nat /\ now <= now' /\ startedAt' \in [Imports -> Nat] /\ UNCHANGED <<startedAt, book, crossed>>
        BY <2>1, <1>1
    <2>8. QED
        BY <2>4, <2>5, <2>6, <2>7, OnceWorld
<1>5. ASSUME NEW r \in Runs, RunStep(r) PROVE OInv'
    BY <1>5, OnceRunStep
<1>6. CASE UNCHANGED vars
    BY <1>6 DEF vars, OInv, Shapes, Young, Holds, Cleared, Since, Floor, PostedOnce
<1>7. QED
    BY <1>2, <1>3, <1>4, <1>5, <1>6 DEF Next

(* However uploads overlap and jobs crash, fail, hand over or are retried,  *)
(* deleteThisImportCashRowsForAccount makes sure that a transaction has at  *)
(* most one row in a passbook: only a row inserted while another job was    *)
(* between its COUNT and its last INSERT at the account can be a second.    *)
THEOREM RowsPostedOnce == Spec => []PostedOnce
<1>1. Init => OInv
    <2> SUFFICES ASSUME Init PROVE OInv
        OBVIOUS
    <2>1. NoRun \in Job /\ NoRun.pc = "absent"
        <3>1. 0 \in Accounts \union {0} /\ 1 \in Nat
            OBVIOUS
        <3>2. QED
            BY <3>1, NewRunIs
    <2>2. Shapes
        BY <2>1 DEF Init, Shapes
    <2>3. Young /\ PostedOnce
        BY DEF Init, Young, PostedOnce
    <2>4. \A r \in Runs : Holds(run[r]) /\ Cleared(run[r])
        BY <2>1 DEF Init, Holds, Cleared, AtAccount
    <2>5. QED
        BY <2>2, <2>3, <2>4 DEF OInv
<1>2. OInv /\ [Next]_vars => OInv'
    BY OnceNext
<1>3. OInv => PostedOnce
    BY DEF OInv
<1>4. QED
    BY <1>1, <1>2, <1>3, PTL DEF Spec
=============================================================================
