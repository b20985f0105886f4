---------------------------- MODULE LotActionsProofs --------------------------
(* What the appliers of mergers and demergers promise, for every number of  *)
(* accounts, applications, retries and faults: nothing is written twice, a  *)
(* SUCCESS is whole, and COMPLETED leaves nobody behind.                    *)
EXTENDS LotActions, WellFoundedInduction, TLAPS

(* The rows account a is to get.                                            *)
Due(a) == {[acct |-> a, row |-> r] : r \in RowsFor(LotsOf(a))}
AllDue == UNION {Due(a) : a \in Accounts}

Attempts == Jobs \X Nat
Pcs == {"absent", "queued", "done", "failed", "header", "walk", "insert", "bulk", "poll", "queue", "mark", "finish"}

JobRecord == [pc : Pcs, tries : Nat, accts : SUBSET Accounts, rows : SUBSET AllDue,
              affected : SUBSET Accounts, failures : {0, 1}]
BulkRecord == [by : Attempts, st : {"running", "completed", "failed"},
               accts : SUBSET Accounts, rows : SUBSET AllDue]

Typed ==
    /\ act \in {"merger", "demerger"}
    /\ book \in [Accounts -> Scenarios]
    /\ status \in [Accounts -> {"none", "RUNNING", "FAILED", "SUCCESS"}]
    /\ jobsRow \in {"none", "RUNNING", "ERROR", "FAILED", "COMPLETED"}
    /\ \A r \in table : \E m \in AllDue, x \in Attempts : r = [acct |-> m.acct, row |-> m.row, by |-> x]
    /\ rebuilt \subseteq Accounts
    /\ job \in [Jobs -> JobRecord]
    /\ \A b \in bulk : b \in BulkRecord
    /\ faults \in Nat
    /\ accident \in [Accounts -> SUBSET {"together", "cut", "unbuilt", "unread", "untold"}]

(* Row m is written.  Account a has all its rows.                           *)
Written(m) == \E r \in table : r.acct = m.acct /\ r.row = m.row
Whole(a) == \A m \in Due(a) : Written(m)

Resting == {"absent", "queued", "done", "failed"}

(* Where a job can be.                                                      *)
Placed(r) ==
    /\ r.pc = "absent" => r.tries = 0
    /\ r.pc \in {"absent", "queued"} => r = NewJob(r.pc, r.tries)
    /\ r.pc = "insert" => act = "demerger"
    /\ r.pc \in {"bulk", "poll", "mark"} => act = "merger"
    /\ r.pc \in {"walk", "insert"} => r.accts # {}
    /\ r.pc \in {"bulk", "poll", "queue", "mark", "finish"} => r.accts = {}

(* What a merger has gathered and written by then.                          *)
MergerJob(r) ==
    act = "merger" /\ r.pc \notin Resting =>
       /\ r.pc = "header" => r.accts = {}
       /\ r.pc \in {"header", "bulk", "poll", "queue", "mark"} => r.affected # {}
       /\ r.affected \cap r.accts = {}
       /\ r.pc \in {"walk", "header", "bulk", "poll"} =>
             /\ \A m \in r.rows : m.acct \in r.affected
             /\ \A a \in r.affected : Due(a) # {} /\ Due(a) \subseteq r.rows
       /\ r.pc \in {"queue", "mark"} => \A a \in r.affected : Whole(a)

(* A demerger: the rows of the account that are not written are to come.    *)
DemergerJob(r) ==
    r.pc = "insert" =>
       /\ r.rows \subseteq Due(First(r.accts)) /\ r.rows # {}
       /\ \A m \in Due(First(r.accts)) \ r.rows : Written(m)

JobsOK == \A r \in {job[k] : k \in Jobs} : Placed(r) /\ MergerJob(r) /\ DemergerJob(r)

(* The bulk writes of an attempt: one, and it has what job r gathered.      *)
Submitted(b, r) ==
    /\ \/ b.by[2] < r.tries
       \/ b.by[2] = r.tries /\ r.pc \in {"poll", "queue", "mark", "finish", "done", "failed"}
    /\ b.by[2] = r.tries /\ r.pc = "poll" =>
          b.rows = r.rows /\ (b.accts = r.affected \/ b.st = "failed")

BulkOK ==
    /\ act = "demerger" => bulk = {}
    /\ \A b, c \in bulk : b.by = c.by => b = c
    /\ \A b \in bulk : \A m \in b.rows : m.acct \in b.accts \/ b.st = "failed"
    /\ \A b \in bulk : b.st = "completed" => \A m \in b.rows : Written(m)
    /\ \A b \in bulk : Submitted(b, job[b.by[1]])

SuccessIsWhole == \A a \in Accounts : status[a] = "SUCCESS" => Whole(a)

Static == Typed /\ JobsOK /\ BulkOK /\ SuccessIsWhole

(* The attempts that wrote rows of an account, or may still.                *)
Writers(a) == {r.by : r \in {s \in table : s.acct = a}} \union {b.by : b \in {c \in bulk : a \in c.accts}}
HasRows(a) == \E r \in table : r.acct = a
Awaited(a) == {b \in bulk : b.st = "running" /\ a \in b.accts}

(* Job r is writing account a, or has written and not yet told.             *)
Writing(r, a) ==
    \/ r.pc \in {"poll", "queue", "mark"} /\ act = "merger" /\ a \in r.affected
    \/ r.pc = "insert" /\ a = First(r.accts)

(* Job r is on its way to rebuild account a.                                *)
Rebuilding(r, a) ==
    /\ a \in r.affected
    /\ r.pc \in IF act = "merger" THEN {"poll", "queue"} ELSE {"header", "walk", "insert", "queue"}

(* One job works at a time.                                                 *)
Alone ==
    \A k \in Jobs : AtWork(k) => jobsRow = "RUNNING" /\ \A j \in Jobs : AtWork(j) => j = k

OneWriter(a) == \A x, y \in Writers(a) : x = y

(* What is known of an account that nothing befell while job k, which is r, *)
(* works ...                                                                *)
Busy(k, r, a) ==
    /\ OneWriter(a)
    /\ Writers(a) # {} /\ status[a] # "SUCCESS" => Writing(r, a) /\ <<k, r.tries>> \in Writers(a)
    /\ \A b \in Awaited(a) : r.pc = "poll" /\ b.by = <<k, r.tries>>
    /\ HasRows(a) /\ a \notin rebuilt => Rebuilding(r, a)
    /\ act = "merger" /\ a \in r.affected =>
          /\ r.pc \in {"walk", "header", "bulk"} => Writers(a) = {}
          /\ r.pc \in {"walk", "header", "bulk", "poll"} => status[a] # "SUCCESS"
    /\ r.pc = "insert" /\ a = First(r.accts) => Writers(a) \subseteq {<<k, r.tries>>}
    /\ r.failures = 0 /\ a \in Walkers \ r.accts =>
          \/ status[a] = "SUCCESS"
          \/ act = "merger" /\ a \in r.affected /\ r.pc # "finish"

(* ... and while none does.                                                 *)
Idle(a) ==
    /\ OneWriter(a)
    /\ Writers(a) # {} => status[a] = "SUCCESS"
    /\ Awaited(a) = {}
    /\ HasRows(a) => a \in rebuilt
    /\ jobsRow = "COMPLETED" /\ a \in Walkers => status[a] = "SUCCESS"

Clean(a) ==
    accident[a] = {} =>
       /\ Alone
       /\ \A k \in Jobs : AtWork(k) => \A r \in {job[k]} : Busy(k, r, a)
       /\ (\A k \in Jobs : ~AtWork(k)) => Idle(a)

IInv == Static /\ \A a \in Accounts : Clean(a)

----------------------------------------------------------------------------
(* Operators.                                                               *)

(* A set of numbers has a least one, so First is in its set.                *)
LEMMA LeastOf ==
    ASSUME NEW S \in SUBSET Nat, S # {}
    PROVE  \E a \in S : \A b \in S : a <= b
<1>1. PICK x \in S : \A y \in S : ~(<<y, x>> \in OpToRel(<, Nat))
    BY WFMin, NatLessThanWellFounded
<1>2. \A y \in S : ~(y < x)
    BY <1>1 DEF OpToRel
<1>3. QED
    BY <1>2

LEMMA FirstIn ==
    ASSUME NEW S \in SUBSET Accounts, S # {}
    PROVE  First(S) \in S
<1>1. \E a \in S : \A b \in S : a <= b
    BY LeastOf DEF Accounts
<1>2. QED
    BY <1>1 DEF First

(* What the scenarios settle stays.                                         *)
LEMMA FixedOps ==
    ASSUME UNCHANGED fixed
    PROVE  /\ act' = act /\ book' = book /\ Walkers' = Walkers /\ AllDue' = AllDue
           /\ \A a : Due(a)' = Due(a)
           /\ \A a : RowsFor(LotsOf(a))' = RowsFor(LotsOf(a))
<1>1. act' = act /\ book' = book
    BY DEF fixed
<1>2. \A a : RowsFor(LotsOf(a))' = RowsFor(LotsOf(a))
    BY <1>1 DEF RowsFor, LotsOf
<1>3. \A a : Due(a)' = Due(a)
    BY <1>2 DEF Due
<1>4. Walkers' = Walkers
    BY <1>1 DEF Walkers
<1>5. AllDue' = AllDue
    BY <1>3 DEF AllDue
<1>6. QED
    BY <1>1, <1>2, <1>3, <1>4, <1>5

LEMMA DueRow ==
    /\ \A a \in Accounts : Due(a) \subseteq AllDue
    /\ \A a : \A m \in Due(a) : m.acct = a /\ m = [acct |-> m.acct, row |-> m.row]
    /\ \A m \in AllDue : m.acct \in Accounts /\ m \in Due(m.acct) /\ m = [acct |-> m.acct, row |-> m.row]
BY DEF Due, AllDue

(* The rows of an account are told by lot and side, and there is a first    *)
(* one.                                                                     *)
LEMMA RowsOfLots ==
    ASSUME NEW a
    PROVE  /\ \A r \in RowsFor(LotsOf(a)) : r.lot \in Nat /\ r.side \in {"old", "new"}
           /\ \A r, s \in RowsFor(LotsOf(a)) : r.lot = s.lot /\ r.side = s.side => r = s
<1> DEFINE lots == LotsOf(a)
<1> HIDE DEF lots
<1>1. \A n \in 1 .. Len(lots) : n \in Nat
    OBVIOUS
<1>2. ASSUME act = "merger" PROVE RowsFor(lots) = MergerRows(lots)
    BY <1>2 DEF RowsFor
<1>3. ASSUME act # "merger" PROVE RowsFor(lots) = DemergerRows(lots)
    BY <1>3 DEF RowsFor
<1>4. /\ \A r \in MergerRows(lots) : r.lot \in Nat /\ r.side = "new"
      /\ \A r, s \in MergerRows(lots) : r.lot = s.lot => r = s
    BY <1>1 DEF MergerRows, TableRow
<1>5. /\ \A r \in DemergerRows(lots) : r.lot \in Nat /\ r.side \in {"old", "new"}
      /\ \A r, s \in DemergerRows(lots) : r.lot = s.lot /\ r.side = s.side => r = s
    BY <1>1 DEF DemergerRows, TableRow
<1>6. QED
    BY <1>2, <1>3, <1>4, <1>5 DEF lots

LEMMA FirstRowIn ==
    ASSUME NEW a, NEW S \in SUBSET Due(a), S # {}
    PROVE  FirstRow(S) \in S
<1>1. /\ \A m \in S : m.row.lot \in Nat /\ m.row.side \in {"old", "new"}
      /\ \A m, n \in S : m.row.lot = n.row.lot /\ m.row.side = n.row.side => m = n
    BY RowsOfLots DEF Due
<1>2. PICK x \in {m.row.lot : m \in S} : \A y \in {m.row.lot : m \in S} : x <= y
    <2>1. {m.row.lot : m \in S} \in SUBSET Nat /\ {m.row.lot : m \in S} # {}
        BY <1>1
    <2>2. QED
        BY <2>1, LeastOf
<1>3. PICK l \in S : l.row.lot = x
    BY <1>2
<1>4. \A n \in S : l.row.lot < n.row.lot \/ l.row.lot = n.row.lot
    BY SMTT(40), <1>1, <1>2, <1>3
<1>5. \E m \in S : \A n \in S :
         m.row.lot < n.row.lot \/ (m.row.lot = n.row.lot /\ (m.row.side = "old" \/ n = m))
    <2>1. CASE \E o \in S : o.row.lot = l.row.lot /\ o.row.side = "old"
        BY <2>1, <1>4
    <2>2. CASE ~ \E o \in S : o.row.lot = l.row.lot /\ o.row.side = "old"
        BY <2>2, <1>1, <1>4
    <2>3. QED
        BY <2>1, <2>2
<1>6. QED
    BY <1>5 DEF FirstRow

(* A job behind its account.                                                *)
LEMMA PassedFields ==
    ASSUME Typed, NEW r \in JobRecord
    PROVE  /\ Passed(r) \in JobRecord
           /\ Passed(r).accts = r.accts \ {First(r.accts)}
           /\ Passed(r).rows = r.rows /\ Passed(r).affected = r.affected
           /\ Passed(r).tries = r.tries /\ Passed(r).failures = r.failures
           /\ Passed(r).pc = IF r.accts \ {First(r.accts)} # {} THEN "walk"
                             ELSE IF act = "demerger" THEN "queue"
                             ELSE IF r.rows = {} THEN "finish" ELSE "header"
<1> DEFINE rest == r.accts \ {First(r.accts)}
           pc == IF rest # {} THEN "walk"
                 ELSE IF act = "demerger" THEN "queue"
                 ELSE IF r.rows = {} THEN "finish" ELSE "header"
<1>1. pc \in Pcs
    BY DEF Pcs
<1>2. rest \in SUBSET Accounts
    BY DEF JobRecord
<1>3. Passed(r) = [r EXCEPT !.accts = rest, !.pc = pc]
    BY DEF Passed
<1> HIDE DEF rest, pc
<1>4. /\ Passed(r) \in JobRecord /\ Passed(r).accts = rest /\ Passed(r).pc = pc
      /\ Passed(r).rows = r.rows /\ Passed(r).affected = r.affected
      /\ Passed(r).tries = r.tries /\ Passed(r).failures = r.failures
    BY <1>1, <1>2, <1>3 DEF JobRecord
<1>5. QED
    BY <1>4 DEF rest, pc

LEMMA DueTypes ==
    UNCHANGED fixed => JobRecord' = JobRecord /\ BulkRecord' = BulkRecord
BY FixedOps DEF JobRecord, BulkRecord

(* NewJob and Ended are jobs like any other.                                *)
LEMMA NewJobFields ==
    ASSUME NEW pc \in Pcs, NEW t \in Nat
    PROVE  /\ NewJob(pc, t) \in JobRecord /\ NewJob(pc, t).pc = pc /\ NewJob(pc, t).tries = t
           /\ NewJob(pc, t).accts = {} /\ NewJob(pc, t).rows = {}
           /\ NewJob(pc, t).affected = {} /\ NewJob(pc, t).failures = 0
BY DEF NewJob, JobRecord

----------------------------------------------------------------------------
(* Frames: what a step leaves alone stays true.                             *)

(* Rows are only added.                                                     *)
Grows == UNCHANGED fixed /\ table \subseteq table'

LEMMA WrittenStays ==
    ASSUME Grows
    PROVE  /\ \A m : Written(m) => Written(m)'
           /\ \A a : Whole(a) => Whole(a)'
<1>1. \A m : Written(m) => Written(m)'
    BY DEF Grows, Written
<1>2. ASSUME NEW a, Whole(a) PROVE Whole(a)'
    <2>1. \A m \in Due(a) : Written(m)'
        BY <1>1, <1>2 DEF Whole
    <2>2. Due(a)' = Due(a)
        BY FixedOps DEF Grows
    <2>3. QED
        BY <2>1, <2>2 DEF Whole
<1>3. QED
    BY <1>1, <1>2

LEMMA JobKept ==
    ASSUME Grows, NEW r
    PROVE  /\ Placed(r) => Placed(r)'
           /\ MergerJob(r) => MergerJob(r)'
           /\ DemergerJob(r) => DemergerJob(r)'
<1>1. act' = act
    BY FixedOps DEF Grows
<1>2. Placed(r) => Placed(r)'
    BY <1>1 DEF Placed
<1>3. ASSUME MergerJob(r) PROVE MergerJob(r)'
    <2>1. \A a : Due(a)' = Due(a)
        BY FixedOps DEF Grows
    <2>2. QED
        BY <1>1, <1>3, <2>1, WrittenStays DEF MergerJob
<1>4. ASSUME DemergerJob(r) PROVE DemergerJob(r)'
    <2>1. Due(First(r.accts))' = Due(First(r.accts))
        BY FixedOps DEF Grows
    <2>2. QED
        BY <1>4, <2>1, WrittenStays DEF DemergerJob
<1>5. QED
    BY <1>2, <1>3, <1>4

(* One job moves.                                                           *)
Moves(k, p) == job' = [job EXCEPT ![k] = p]

LEMMA JobsMove ==
    ASSUME Typed, JobsOK, Grows, NEW k \in Jobs, NEW p \in JobRecord, Moves(k, p),
           Placed(p)', MergerJob(p)', DemergerJob(p)'
    PROVE  JobsOK'
<1>1. SUFFICES ASSUME NEW j \in Jobs, NEW q, q = job'[j]
               PROVE  Placed(q)' /\ MergerJob(q)' /\ DemergerJob(q)'
    BY DEF JobsOK
<1>2. CASE j = k
    <2>1. q = p
        BY <1>1, <1>2 DEF Typed, Moves
    <2>2. QED
        BY <2>1
<1>3. CASE j # k
    <2>1. q = job[j]
        BY <1>1, <1>3 DEF Typed, Moves
    <2>2. Placed(q) /\ MergerJob(q) /\ DemergerJob(q)
        BY <2>1 DEF JobsOK
    <2>3. QED
        BY <2>2, JobKept
<1>4. QED
    BY <1>2, <1>3

LEMMA JobOf ==
    ASSUME Typed, JobsOK, NEW k \in Jobs
    PROVE  job[k] \in JobRecord /\ Placed(job[k]) /\ MergerJob(job[k]) /\ DemergerJob(job[k])
BY DEF Typed, JobsOK

(* The bulk writes, when a job goes from r to p and submits none.           *)
Later(r, p) ==
    \/ r.tries < p.tries
    \/ /\ p.tries = r.tries
       /\ r.pc \in {"poll", "queue", "mark", "finish", "done", "failed"} =>
             p.pc \in {"queue", "mark", "finish", "done", "failed"}
       /\ p.pc # "poll"

LEMMA BulkKept ==
    ASSUME Typed, BulkOK, Grows, NEW k \in Jobs, NEW p \in JobRecord, Moves(k, p), bulk' = bulk, Later(job[k], p)
    PROVE  BulkOK'
<1>1. act' = act
    BY FixedOps DEF Grows
<1>2. /\ (act = "demerger" => bulk = {})'
      /\ (\A b, c \in bulk : b.by = c.by => b = c)'
      /\ (\A b \in bulk : \A m \in b.rows : m.acct \in b.accts \/ b.st = "failed")'
    BY <1>1 DEF BulkOK
<1>3. (\A b \in bulk : b.st = "completed" => \A m \in b.rows : Written(m))'
    BY WrittenStays DEF BulkOK
<1>4. ASSUME NEW b \in bulk PROVE Submitted(b, job'[b.by[1]])
    <2>1. b.by[1] \in Jobs /\ b.by[2] \in Nat
        BY DEF Typed, BulkRecord, Attempts
    <2>2. Submitted(b, job[b.by[1]])
        BY DEF BulkOK
    <2>3. CASE b.by[1] # k
        BY <2>1, <2>2, <2>3 DEF Typed, Moves
    <2>4. CASE b.by[1] = k
        <3>1. job'[b.by[1]] = p
            BY <2>1, <2>4 DEF Typed, Moves
        <3>2. job[k] \in JobRecord /\ Submitted(b, job[k])
            BY <2>2, <2>4 DEF Typed
        <3>3. p.tries \in Nat /\ job[k].tries \in Nat
            BY <3>2 DEF JobRecord
        <3>4. Submitted(b, p)
            BY <2>1, <3>2, <3>3 DEF Submitted, Later
        <3>5. QED
            BY <3>1, <3>4
    <2>5. QED
        BY <2>3, <2>4
<1>5. (\A b \in bulk : Submitted(b, job[b.by[1]]))'
    BY <1>4 DEF Submitted
<1>6. QED
    BY <1>2, <1>3, <1>5 DEF BulkOK

LEMMA SuccessKept ==
    ASSUME Grows, SuccessIsWhole,
           \A a \in Accounts : status'[a] = "SUCCESS" => status[a] = "SUCCESS" \/ Whole(a)'
    PROVE  SuccessIsWhole'
BY WrittenStays DEF SuccessIsWhole

(* A step that moves one job to a p of its kind, writes nothing and tells   *)
(* nobody a SUCCESS that is not whole.                                      *)
Statuses == {"none", "RUNNING", "FAILED", "SUCCESS"}
Outcomes == {"none", "RUNNING", "ERROR", "FAILED", "COMPLETED"}
Accidents == {"together", "cut", "unbuilt", "unread", "untold"}

LEMMA BefallsTyped ==
    ASSUME Typed, NEW S, NEW what \in Accidents, Befalls(S, what)
    PROVE  accident' \in [Accounts -> SUBSET Accidents]
BY DEF Typed, Befalls, Accidents

LEMMA TypedMove ==
    ASSUME Typed, UNCHANGED fixed, NEW k \in Jobs, NEW p \in JobRecord, Moves(k, p), UNCHANGED <<table, bulk>>,
           status' \in [Accounts -> Statuses], jobsRow' \in Outcomes, rebuilt' \subseteq Accounts,
           faults' \in Nat, accident' \in [Accounts -> SUBSET Accidents]
    PROVE  Typed'
<1>1. act' = act /\ book' = book /\ AllDue' = AllDue /\ JobRecord' = JobRecord /\ BulkRecord' = BulkRecord
    BY FixedOps, DueTypes
<1>2. job' \in [Jobs -> JobRecord']
    BY <1>1 DEF Typed, Moves
<1>3. \A b \in bulk' : b \in BulkRecord'
    BY <1>1 DEF Typed
<1>4. (\A r \in table : \E m \in AllDue, x \in Attempts : r = [acct |-> m.acct, row |-> m.row, by |-> x])'
    BY <1>1 DEF Typed
<1>5. QED
    BY <1>1, <1>2, <1>3, <1>4 DEF Typed, Statuses, Outcomes, Accidents

LEMMA StaticMove ==
    ASSUME Static, UNCHANGED fixed, NEW k \in Jobs, NEW p \in JobRecord, Moves(k, p), UNCHANGED <<table, bulk>>,
           status' \in [Accounts -> Statuses], jobsRow' \in Outcomes, rebuilt' \subseteq Accounts,
           faults' \in Nat, accident' \in [Accounts -> SUBSET Accidents],
           \A a \in Accounts : status'[a] = "SUCCESS" => status[a] = "SUCCESS" \/ Whole(a),
           Placed(p), MergerJob(p), DemergerJob(p), Later(job[k], p)
    PROVE  Static'
<1>1. Grows
    BY DEF Grows
<1>2. Typed'
    BY TypedMove DEF Static
<1>3. JobsOK'
    BY <1>1, JobKept, JobsMove DEF Static
<1>4. BulkOK'
    BY <1>1, BulkKept DEF Static
<1>5. SuccessIsWhole'
    BY <1>1, WrittenStays, SuccessKept DEF Static
<1>6. QED
    BY <1>2, <1>3, <1>4, <1>5 DEF Static

LEMMA Kept ==
    ASSUME Typed
    PROVE  /\ status \in [Accounts -> Statuses] /\ jobsRow \in Outcomes /\ rebuilt \subseteq Accounts
           /\ faults \in Nat /\ accident \in [Accounts -> SUBSET Accidents]
BY DEF Typed, Statuses, Outcomes, Accidents

LEMMA FaultKept ==
    ASSUME Typed, Fault
    PROVE  faults' \in Nat
BY DEF Typed, Fault

(* A job that passes its account.                                           *)
LEMMA PassedOK ==
    ASSUME Typed, NEW q \in JobRecord,
           act = "merger" =>
              /\ q.affected \cap (q.accts \ {First(q.accts)}) = {}
              /\ \A m \in q.rows : m.acct \in q.affected
              /\ \A a \in q.affected : Due(a) # {} /\ Due(a) \subseteq q.rows
    PROVE  Placed(Passed(q)) /\ MergerJob(Passed(q)) /\ DemergerJob(Passed(q))
<1> DEFINE p == Passed(q)
<1>1. /\ p.accts = q.accts \ {First(q.accts)} /\ p.rows = q.rows /\ p.affected = q.affected
      /\ p.pc = IF q.accts \ {First(q.accts)} # {} THEN "walk"
                ELSE IF act = "demerger" THEN "queue" ELSE IF q.rows = {} THEN "finish" ELSE "header"
    BY PassedFields
<1> HIDE DEF p
<1>2. act = "demerger" <=> act # "merger"
    BY DEF Typed
<1>3. /\ p.pc \in {"walk", "queue", "finish", "header"}
      /\ p.pc = "walk" <=> p.accts # {}
      /\ p.pc = "queue" => act = "demerger"
      /\ p.pc = "header" => p.rows # {}
    BY <1>1
<1>4. Placed(p)
    BY <1>3 DEF Placed
<1>5. MergerJob(p)
    BY <1>1, <1>2, <1>3 DEF MergerJob
<1>6. DemergerJob(p)
    BY <1>3 DEF DemergerJob
<1>7. QED
    BY <1>4, <1>5, <1>6 DEF p

(* A job that ends.                                                         *)
LEMMA EndedFields ==
    ASSUME Typed, NEW k \in Jobs
    PROVE  /\ Ended(k) \in JobRecord
           /\ Ended(k).pc \in {"queued", "failed"}
           /\ Placed(Ended(k)) /\ MergerJob(Ended(k)) /\ DemergerJob(Ended(k))
           /\ Later(job[k], Ended(k))
<1>1. job[k] \in JobRecord /\ job[k].tries \in Nat
    BY DEF Typed, JobRecord
<1>2. CASE job[k].tries + 1 < MaxTries
    <2> DEFINE p == NewJob("queued", job[k].tries + 1)
    <2>1. Ended(k) = p
        BY <1>2 DEF Ended
    <2>2. "queued" \in Pcs /\ job[k].tries + 1 \in Nat
        BY <1>1 DEF Pcs
    <2>3. p \in JobRecord /\ p.pc = "queued" /\ p.tries = job[k].tries + 1
        BY <2>2, NewJobFields
    <2>4. p = NewJob(p.pc, p.tries)
        BY <2>3
    <2> HIDE DEF p
    <2>5. Placed(p) /\ MergerJob(p) /\ DemergerJob(p)
        BY <2>3, <2>4 DEF Placed, MergerJob, DemergerJob, Resting
    <2>6. Later(job[k], p)
        BY <1>1, <2>3 DEF Later
    <2>7. QED
        BY <2>1, <2>3, <2>5, <2>6
<1>3. CASE ~(job[k].tries + 1 < MaxTries)
    <2> DEFINE p == [job[k] EXCEPT !.pc = "failed"]
    <2>1. Ended(k) = p
        BY <1>3 DEF Ended
    <2>2. p \in JobRecord /\ p.pc = "failed" /\ p.tries = job[k].tries
        BY <1>1 DEF JobRecord, Pcs
    <2> HIDE DEF p
    <2>3. Placed(p) /\ MergerJob(p) /\ DemergerJob(p)
        BY <2>2 DEF Placed, MergerJob, DemergerJob, Resting
    <2>4. Later(job[k], p)
        BY <2>2 DEF Later
    <2>5. QED
        BY <2>1, <2>2, <2>3, <2>4
<1>4. QED
    BY <1>2, <1>3

----------------------------------------------------------------------------
(* Every step keeps what does not depend on accidents.                      *)

LEMMA StaticStays ==
    ASSUME Static, UNCHANGED <<fixed, job, bulk, table, status, rebuilt, faults, accident>>, jobsRow' \in Outcomes
    PROVE  Static'
<1>1. Grows /\ act' = act /\ book' = book
    BY FixedOps DEF Grows
<1>2. JobRecord' = JobRecord /\ BulkRecord' = BulkRecord /\ AllDue' = AllDue
    BY DueTypes, FixedOps
<1>3. Typed'
    <2>1. (\A r \in table : \E m \in AllDue, x \in Attempts : r = [acct |-> m.acct, row |-> m.row, by |-> x])'
        BY <1>2 DEF Static, Typed
    <2>2. QED
        BY <1>1, <1>2, <2>1 DEF Static, Typed, Outcomes
<1>4. JobsOK'
    BY <1>1, JobKept DEF Static, JobsOK
<1>5. BulkOK'
    BY <1>1, WrittenStays DEF Static, BulkOK, Submitted
<1>6. SuccessIsWhole'
    BY <1>1, SuccessKept DEF Static
<1>7. QED
    BY <1>3, <1>4, <1>5, <1>6 DEF Static

LEMMA ApplyStatic ==
    ASSUME Static, NEW k \in Jobs, Apply(k)
    PROVE  Static'
<1> DEFINE p == NewJob("queued", 0)
<1>1. p \in JobRecord /\ p.pc = "queued" /\ p.tries = 0 /\ p = NewJob(p.pc, p.tries)
    BY NewJobFields DEF Pcs
<1>2. Moves(k, p) /\ jobsRow' = "none" /\ job[k].pc = "absent"
    BY DEF Apply, Moves
<1>3. UNCHANGED <<fixed, status, table, rebuilt, bulk, faults, accident>>
    BY DEF Apply
<1>4. Placed(job[k])
    BY JobOf DEF Static
<1> HIDE DEF p
<1>5. Later(job[k], p)
    BY <1>1, <1>2, <1>4 DEF Later, Placed
<1>6. Placed(p) /\ MergerJob(p) /\ DemergerJob(p)
    BY <1>1 DEF Placed, MergerJob, DemergerJob, Resting
<1>7. jobsRow' \in Outcomes
    BY <1>2 DEF Outcomes
<1>8. QED
    BY <1>1, <1>2, <1>3, <1>5, <1>6, <1>7, Kept, StaticMove DEF Static

(* A run that starts: its job, when there is something to do.               *)
LEMMA StartJob ==
    ASSUME Static, NEW k \in Jobs, Start(k)
    PROVE  \E p \in JobRecord :
              /\ Moves(k, p) /\ job[k].pc = "queued" /\ p.tries = job[k].tries
              /\ p.rows = {} /\ p.affected = {} /\ p.failures = 0
              /\ \/ p.pc = "done" /\ Walkers = {} /\ act = "merger" /\ jobsRow' = "COMPLETED"
                 \/ /\ p.accts = Walkers /\ jobsRow' = "RUNNING"
                    /\ \/ p.pc = "walk" /\ act = "merger" /\ p.accts # {}
                       \/ p.pc = "header" /\ act = "demerger"
<1>1. job[k] \in JobRecord /\ Placed(job[k]) /\ job[k].pc = "queued"
    BY JobOf DEF Static, Start
<1>2. PICK r : r = job[k]
    OBVIOUS
<1>3. r.tries \in Nat
    BY <1>1, <1>2 DEF JobRecord
<1>4. r = NewJob("queued", r.tries)
    BY <1>1, <1>2 DEF Placed
<1>5. r \in JobRecord /\ r.rows = {} /\ r.affected = {} /\ r.failures = 0
    <2>1. "queued" \in Pcs
        BY DEF Pcs
    <2>2. QED
        BY <1>3, <1>4, <2>1, NewJobFields
<1>6. Walkers \subseteq Accounts
    BY DEF Walkers
<1>7. act \in {"merger", "demerger"}
    BY DEF Static, Typed
<1>8. CASE Walkers = {} /\ act = "merger"
    <2>1. PICK p : p = [r EXCEPT !.pc = "done"]
        OBVIOUS
    <2>2. p \in JobRecord /\ p.pc = "done" /\ p.tries = r.tries
          /\ p.rows = {} /\ p.affected = {} /\ p.failures = 0
        BY <1>5, <2>1 DEF JobRecord, Pcs
    <2>3. Moves(k, p) /\ jobsRow' = "COMPLETED"
        BY <1>1, <1>2, <1>8, <2>1 DEF Start, Moves, Static, Typed
    <2>4. QED
        BY <1>1, <1>2, <1>8, <2>2, <2>3
<1>9. CASE ~(Walkers = {} /\ act = "merger")
    <2>0. PICK c : c = IF act = "merger" THEN "walk" ELSE "header"
        OBVIOUS
    <2>1. PICK p : p = [r EXCEPT !.accts = Walkers, !.pc = c]
        OBVIOUS
    <2>2. p \in JobRecord /\ p.pc = c /\ p.tries = r.tries /\ p.accts = Walkers
          /\ p.rows = {} /\ p.affected = {} /\ p.failures = 0
        <3>1. c \in Pcs
            BY <2>0 DEF Pcs
        <3>2. QED
            BY <1>5, <1>6, <2>1, <3>1 DEF JobRecord
    <2>3. jobsRow' = "RUNNING"
        BY <1>9 DEF Start
    <2>4. Moves(k, p)
        <3>1. job' = [job EXCEPT ![k].accts = Walkers, ![k].pc = c]
            BY <1>9, <2>0 DEF Start
        <3>2. job' = [job EXCEPT ![k] = [job[k] EXCEPT !.accts = Walkers, !.pc = c]]
            BY <1>1, <3>1 DEF JobRecord, Static, Typed
        <3>3. QED
            BY <1>2, <2>1, <3>2 DEF Moves
    <2>5. (c = "walk" /\ act = "merger" /\ Walkers # {}) \/ (c = "header" /\ act = "demerger")
        BY <1>7, <1>9, <2>0
    <2>6. QED
        BY <1>1, <1>2, <2>2, <2>3, <2>4, <2>5
<1>10. QED
    BY <1>8, <1>9

LEMMA StartStatic ==
    ASSUME Static, NEW k \in Jobs, Start(k)
    PROVE  Static'
<1>1. PICK p \in JobRecord :
              /\ Moves(k, p) /\ job[k].pc = "queued" /\ p.tries = job[k].tries
              /\ p.rows = {} /\ p.affected = {} /\ p.failures = 0
              /\ \/ p.pc = "done" /\ jobsRow' = "COMPLETED"
                 \/ /\ jobsRow' = "RUNNING"
                    /\ \/ p.pc = "walk" /\ act = "merger" /\ p.accts # {}
                       \/ p.pc = "header" /\ act = "demerger"
    BY StartJob
<1>2. UNCHANGED <<fixed, status, table, rebuilt, bulk, faults>>
    BY DEF Start
<1>3. accident' \in [Accounts -> SUBSET Accidents]
    <2>1. "together" \in Accidents
        BY DEF Accidents
    <2>2. QED
        BY <2>1, BefallsTyped DEF Start, Static
<1>4. Placed(p) /\ MergerJob(p) /\ DemergerJob(p)
    BY <1>1 DEF Placed, MergerJob, DemergerJob, Resting
<1>5. Later(job[k], p)
    BY <1>1 DEF Later
<1>6. jobsRow' \in Outcomes
    BY <1>1 DEF Outcomes
<1>7. QED
    BY <1>1, <1>2, <1>3, <1>4, <1>5, <1>6, Kept, StaticMove DEF Static

(* A run that ends before its time.                                         *)
Death(k) ==
    /\ job' = [job EXCEPT ![k] = Ended(k)]
    /\ accident' = [a \in Accounts |-> accident[a] \union (IF a \in Untold THEN {"cut"} ELSE {})
                                                  \union (IF a \in Unrebuilt THEN {"unbuilt"} ELSE {})]

LEMMA DeathStatic ==
    ASSUME Static, NEW k \in Jobs, Death(k), UNCHANGED <<fixed, status, table, rebuilt, bulk>>,
           faults' \in Nat, jobsRow' \in Outcomes
    PROVE  Static'
<1>1. Moves(k, Ended(k))
    BY DEF Death, Moves
<1>2. accident' \in [Accounts -> SUBSET Accidents]
    <2>1. accident \in [Accounts -> SUBSET Accidents]
        BY Kept DEF Static
    <2>2. QED
        BY <2>1 DEF Death, Accidents
<1>3. PICK p : p = Ended(k)
    OBVIOUS
<1>4. p \in JobRecord /\ Placed(p) /\ MergerJob(p) /\ DemergerJob(p) /\ Later(job[k], p)
    BY <1>3, EndedFields DEF Static
<1>5. Moves(k, p)
    BY <1>1, <1>3 DEF Moves
<1>6. QED
    BY <1>2, <1>4, <1>5, Kept, StaticMove DEF Static

LEMMA HeaderJob ==
    ASSUME Static, NEW k \in Jobs, Header(k)
    PROVE  \E p \in JobRecord :
              /\ Moves(k, p) /\ job[k].pc = "header"
              /\ p.tries = job[k].tries /\ p.accts = job[k].accts /\ p.rows = job[k].rows
              /\ p.affected = job[k].affected /\ p.failures = job[k].failures
              /\ \/ act = "merger" /\ p.pc = "bulk"
                 \/ act = "demerger" /\ p.pc = "queue" /\ p.accts = {}
                 \/ act = "demerger" /\ p.pc = "walk" /\ p.accts # {}
<1>1. job[k] \in JobRecord
    BY DEF Static, Typed
<1>2. PICK c : c = IF act = "merger" THEN "bulk" ELSE IF job[k].accts = {} THEN "queue" ELSE "walk"
    OBVIOUS
<1>3. PICK p : p = [job[k] EXCEPT !.pc = c]
    OBVIOUS
<1>4. p \in JobRecord /\ p.pc = c /\ p.tries = job[k].tries /\ p.accts = job[k].accts /\ p.rows = job[k].rows
      /\ p.affected = job[k].affected /\ p.failures = job[k].failures
    <2>1. c \in Pcs
        BY <1>2 DEF Pcs
    <2>2. QED
        BY <1>1, <1>3, <2>1 DEF JobRecord
<1>5. Moves(k, p) /\ job[k].pc = "header"
    BY <1>2, <1>3 DEF Header, Moves, Static, Typed
<1>6. act \in {"merger", "demerger"}
    BY DEF Static, Typed
<1>7. QED
    BY <1>2, <1>3, <1>4, <1>5, <1>6

LEMMA HeaderStatic ==
    ASSUME Static, NEW k \in Jobs, Header(k)
    PROVE  Static'
<1>1. PICK p \in JobRecord :
              /\ Moves(k, p) /\ job[k].pc = "header"
              /\ p.tries = job[k].tries /\ p.accts = job[k].accts /\ p.rows = job[k].rows
              /\ p.affected = job[k].affected
              /\ \/ act = "merger" /\ p.pc = "bulk"
                 \/ act = "demerger" /\ p.pc = "queue" /\ p.accts = {}
                 \/ act = "demerger" /\ p.pc = "walk" /\ p.accts # {}
    BY HeaderJob
<1>2. UNCHANGED <<fixed, jobsRow, status, table, rebuilt, bulk, faults, accident>>
    BY DEF Header
<1>3. MergerJob(job[k])
    BY JobOf DEF Static
<1>4. Placed(p)
    BY <1>1, <1>3 DEF Placed, MergerJob, Resting
<1>5. MergerJob(p)
    BY <1>1, <1>3 DEF MergerJob, Resting
<1>6. DemergerJob(p)
    BY <1>1 DEF DemergerJob
<1>7. Later(job[k], p)
    BY <1>1 DEF Later
<1>8. QED
    BY <1>1, <1>2, <1>4, <1>5, <1>6, <1>7, Kept, StaticMove DEF Static

(* The job of a walk that skips an account.                                 *)
Walked(r, p) ==
    /\ p.tries = r.tries /\ p.failures = r.failures
    /\ p.accts = r.accts \ {First(r.accts)}
    /\ p.pc \in (IF act = "merger" THEN {"walk", "header", "finish"} ELSE {"walk", "queue"})
    /\ p.pc = "finish" => p.rows = {}

LEMMA WalkedLater ==
    ASSUME NEW r, NEW p, p.tries = r.tries, r.pc \in {"walk", "insert"},
           p.pc \in {"walk", "insert", "header", "finish", "queue"}
    PROVE  Later(r, p)
BY DEF Later

LEMMA PassedWalks ==
    ASSUME Typed, NEW q \in JobRecord
    PROVE  /\ Walked(q, Passed(q)) /\ Passed(q) \in JobRecord
           /\ Passed(q).rows = q.rows /\ Passed(q).affected = q.affected
<1>1. act \in {"merger", "demerger"}
    BY DEF Typed
<1>2. PICK p : p = Passed(q)
    OBVIOUS
<1>3. /\ p \in JobRecord
      /\ p.accts = q.accts \ {First(q.accts)}
      /\ p.rows = q.rows /\ p.affected = q.affected
      /\ p.tries = q.tries /\ p.failures = q.failures
      /\ p.pc = IF q.accts \ {First(q.accts)} # {} THEN "walk"
                ELSE IF act = "demerger" THEN "queue"
                ELSE IF q.rows = {} THEN "finish" ELSE "header"
    BY <1>2, PassedFields
<1>4. QED
    BY <1>1, <1>2, <1>3 DEF Walked

LEMMA SkipJob ==
    ASSUME Static, NEW k \in Jobs, job[k].pc = "walk", job' = [job EXCEPT ![k] = Passed(job[k])]
    PROVE  \E p \in JobRecord :
              /\ Moves(k, p) /\ Walked(job[k], p) /\ p.rows = job[k].rows /\ p.affected = job[k].affected
              /\ Placed(p) /\ MergerJob(p) /\ DemergerJob(p) /\ Later(job[k], p)
<1>1. PICK r : r = job[k]
    OBVIOUS
<1>2. r \in JobRecord /\ r.pc = "walk" /\ MergerJob(r)
    BY <1>1, JobOf DEF Static
<1>3. PICK p : p = Passed(r)
    OBVIOUS
<1>4. p \in JobRecord /\ Walked(r, p) /\ p.rows = r.rows /\ p.affected = r.affected
    BY <1>2, <1>3, PassedWalks DEF Static
<1>5. Placed(p) /\ MergerJob(p) /\ DemergerJob(p)
    <2>1. act = "merger" =>
              /\ r.affected \cap (r.accts \ {First(r.accts)}) = {}
              /\ \A m \in r.rows : m.acct \in r.affected
              /\ \A a \in r.affected : Due(a) # {} /\ Due(a) \subseteq r.rows
        BY <1>2 DEF MergerJob, Resting
    <2>2. QED
        BY <1>2, <1>3, <2>1, PassedOK DEF Static
<1>6. Later(r, p)
    <2>1. p.tries = r.tries /\ p.pc \in {"walk", "header", "finish", "queue"}
        BY <1>4 DEF Walked
    <2>2. QED
        BY <1>2, <2>1, WalkedLater
<1>7. Moves(k, p)
    BY <1>1, <1>3 DEF Moves
<1>8. QED
    BY <1>1, <1>4, <1>5, <1>6, <1>7

LEMMA SkipStatic ==
    ASSUME Static, NEW k \in Jobs, SkipAccount(k)
    PROVE  Static'
<1>1. PICK p \in JobRecord :
         Moves(k, p) /\ Placed(p) /\ MergerJob(p) /\ DemergerJob(p) /\ Later(job[k], p)
    BY SkipJob DEF SkipAccount
<1>2. UNCHANGED <<fixed, jobsRow, status, table, rebuilt, bulk, faults, accident>>
    BY DEF SkipAccount
<1>3. QED
    BY <1>1, <1>2, Kept, StaticMove DEF Static

(* An account that is worked at: it has nothing due and is a SUCCESS, or is *)
(* RUNNING and its rows are with the job.                                   *)
LEMMA WorkJob ==
    ASSUME Static, NEW k \in Jobs, job[k].pc = "walk", Work(k)
    PROVE  \E p \in JobRecord, h \in Accounts :
              /\ Moves(k, p) /\ h = First(job[k].accts) /\ h \in job[k].accts
              /\ p.tries = job[k].tries /\ p.failures = job[k].failures
              /\ Placed(p) /\ MergerJob(p) /\ DemergerJob(p) /\ Later(job[k], p)
              /\ \/ /\ Due(h) = {} /\ Walked(job[k], p)
                    /\ p.rows = job[k].rows /\ p.affected = job[k].affected
                    /\ status' = [status EXCEPT ![h] = "SUCCESS"]
                 \/ /\ act = "merger" /\ Due(h) # {} /\ Walked(job[k], p)
                    /\ p.rows = job[k].rows \union Due(h) /\ p.affected = job[k].affected \union {h}
                    /\ status' = [status EXCEPT ![h] = "RUNNING"]
                 \/ /\ act = "demerger" /\ p.pc = "insert"
                    /\ p.accts = job[k].accts /\ p.affected = job[k].affected
                    /\ status' = [status EXCEPT ![h] = "RUNNING"]
<1>1. PICK r : r = job[k]
    OBVIOUS
<1>2. r \in JobRecord /\ r.pc = "walk" /\ Placed(r) /\ MergerJob(r)
    BY <1>1, JobOf DEF Static
<1>3. PICK h : h = First(r.accts)
    OBVIOUS
<1>4. r.accts # {} /\ r.accts \in SUBSET Accounts
    BY <1>2 DEF Placed, JobRecord
<1>5. h \in r.accts /\ h \in Accounts
    BY <1>3, <1>4, FirstIn
<1>6. Here(k) = h
    BY <1>1, <1>3 DEF Here
<1>7. {[acct |-> h, row |-> x] : x \in RowsFor(LotsOf(h))} = Due(h)
    BY DEF Due
<1>8. RowsFor(LotsOf(h)) = {} <=> Due(h) = {}
    BY DEF Due
<1>9. act \in {"merger", "demerger"} /\ job \in [Jobs -> JobRecord]
    BY DEF Static, Typed
<1>10. act = "merger" =>
              /\ r.affected \cap r.accts = {}
              /\ \A m \in r.rows : m.acct \in r.affected
              /\ \A a \in r.affected : Due(a) # {} /\ Due(a) \subseteq r.rows
    BY <1>2 DEF MergerJob, Resting
<1>10a. ASSUME Due(h) # {}
       PROVE  /\ status' = [status EXCEPT ![h] = "RUNNING"]
              /\ job' = [job EXCEPT ![k] =
                           IF act = "merger"
                           THEN Passed([job[k] EXCEPT !.rows = @ \union Due(h), !.affected = @ \union {h}])
                           ELSE [job[k] EXCEPT !.rows = Due(h), !.pc = "insert"]]
    <2>1. RowsFor(LotsOf(Here(k))) # {}
        BY <1>6, <1>8, <1>10a
    <2>2. /\ status' = [status EXCEPT ![Here(k)] = "RUNNING"]
          /\ job' = [job EXCEPT ![k] =
                IF act = "merger"
                THEN Passed([job[k] EXCEPT !.rows = @ \union {[acct |-> Here(k), row |-> x] : x \in RowsFor(LotsOf(Here(k)))},
                                           !.affected = @ \union {Here(k)}])
                ELSE [job[k] EXCEPT !.rows = {[acct |-> Here(k), row |-> x] : x \in RowsFor(LotsOf(Here(k)))},
                                    !.pc = "insert"]]
        BY <2>1, Zenon DEF Work, Tell
    <2>3. {[acct |-> Here(k), row |-> x] : x \in RowsFor(LotsOf(Here(k)))} = Due(h)
        BY <1>6, <1>7
    <2>4. QED
        BY <1>6, <2>2, <2>3, Zenon
<1>11. CASE Due(h) = {}
    <2>1. status' = [status EXCEPT ![h] = "SUCCESS"] /\ job' = [job EXCEPT ![k] = Passed(job[k])]
        BY <1>6, <1>8, <1>11 DEF Work, Tell
    <2>2. PICK p \in JobRecord :
              /\ Moves(k, p) /\ Walked(job[k], p) /\ p.rows = job[k].rows /\ p.affected = job[k].affected
              /\ Placed(p) /\ MergerJob(p) /\ DemergerJob(p) /\ Later(job[k], p)
        BY <1>1, <1>2, <2>1, SkipJob
    <2>3. p.tries = job[k].tries /\ p.failures = job[k].failures
        BY <2>2 DEF Walked
    <2>4. QED
        BY <1>1, <1>3, <1>5, <1>11, <2>1, <2>2, <2>3
<1>12. CASE Due(h) # {} /\ act = "merger"
    <2>1. PICK q : q = [r EXCEPT !.rows = @ \union Due(h), !.affected = @ \union {h}]
        OBVIOUS
    <2>2. /\ q \in JobRecord /\ q.rows = r.rows \union Due(h) /\ q.affected = r.affected \union {h}
          /\ q.accts = r.accts /\ q.tries = r.tries /\ q.failures = r.failures
        BY <1>2, <1>5, <2>1, DueRow DEF JobRecord
    <2>3. PICK p : p = Passed(q)
        OBVIOUS
    <2>4. p \in JobRecord /\ Walked(q, p) /\ p.rows = q.rows /\ p.affected = q.affected
        BY <2>2, <2>3, PassedWalks DEF Static
    <2>5. Walked(r, p)
        BY <2>2, <2>4 DEF Walked
    <2>6. Placed(p) /\ MergerJob(p) /\ DemergerJob(p)
        <3>1. /\ q.affected \cap (q.accts \ {First(q.accts)}) = {}
              /\ \A m \in q.rows : m.acct \in q.affected
              /\ \A a \in q.affected : Due(a) # {} /\ Due(a) \subseteq q.rows
            BY <1>3, <1>10, <1>12, <2>2, DueRow
        <3>2. QED
            BY <2>2, <2>3, <3>1, PassedOK DEF Static
    <2>7. Moves(k, p) /\ status' = [status EXCEPT ![h] = "RUNNING"]
        <3>1. /\ status' = [status EXCEPT ![h] = "RUNNING"]
              /\ job' = [job EXCEPT ![k] = Passed([job[k] EXCEPT !.rows = @ \union Due(h), !.affected = @ \union {h}])]
            BY <1>12, <1>10a, Zenon
        <3>2. QED
            BY <1>1, <2>1, <2>3, <3>1 DEF Moves
    <2>8. p.tries = r.tries /\ p.failures = r.failures /\ p.pc \in {"walk", "header", "finish", "queue"}
        BY <2>5 DEF Walked
    <2>9. Later(r, p)
        BY <1>2, <2>8, WalkedLater
    <2>10. QED
        BY <1>1, <1>3, <1>5, <1>12, <2>2, <2>4, <2>5, <2>6, <2>7, <2>8, <2>9
<1>13. CASE Due(h) # {} /\ act = "demerger"
    <2>1. PICK p : p = [r EXCEPT !.rows = Due(h), !.pc = "insert"]
        OBVIOUS
    <2>2. /\ p \in JobRecord /\ p.rows = Due(h) /\ p.pc = "insert" /\ p.affected = r.affected
          /\ p.accts = r.accts /\ p.tries = r.tries /\ p.failures = r.failures
        BY <1>2, <1>5, <2>1, DueRow DEF JobRecord, Pcs
    <2>3. Moves(k, p) /\ status' = [status EXCEPT ![h] = "RUNNING"]
        <3>1. act # "merger"
            BY <1>13
        <3>2. /\ status' = [status EXCEPT ![h] = "RUNNING"]
              /\ job' = [job EXCEPT ![k] = [job[k] EXCEPT !.rows = Due(h), !.pc = "insert"]]
            BY <1>13, <1>10a, <3>1, Zenon
        <3>3. QED
            BY <1>1, <2>1, <3>2 DEF Moves
    <2>4. Placed(p) /\ MergerJob(p)
        BY <1>4, <1>13, <2>2 DEF Placed, MergerJob
    <2>5. DemergerJob(p)
        BY <1>3, <1>13, <2>2 DEF DemergerJob
    <2>6. Later(r, p)
        BY <1>2, <2>2, WalkedLater
    <2>7. QED
        BY <1>1, <1>3, <1>5, <1>13, <2>2, <2>3, <2>4, <2>5, <2>6
<1>14. QED
    BY <1>9, <1>11, <1>12, <1>13

(* An account without rows whose SUCCESS is lost.                           *)
LEMMA EmptyStatic ==
    ASSUME Static, NEW k \in Jobs, EmptyUntold(k)
    PROVE  Static'
<1>1. PICK p \in JobRecord :
         Moves(k, p) /\ Placed(p) /\ MergerJob(p) /\ DemergerJob(p) /\ Later(job[k], p)
    BY SkipJob DEF EmptyUntold
<1>2. UNCHANGED <<fixed, jobsRow, table, rebuilt, bulk>>
    BY DEF EmptyUntold
<1>3. faults' \in Nat
    BY FaultKept DEF EmptyUntold, Static
<1>4. accident' \in [Accounts -> SUBSET Accidents]
    <2>1. "untold" \in Accidents
        BY DEF Accidents
    <2>2. QED
        BY <2>1, BefallsTyped DEF EmptyUntold, Static
<1>5. status' = [status EXCEPT ![Here(k)] = "RUNNING"] /\ status \in [Accounts -> Statuses]
    BY Kept DEF EmptyUntold, Tell, Static
<1>6. status' \in [Accounts -> Statuses]
    BY <1>5 DEF Statuses
<1>7. \A a \in Accounts : status'[a] = "SUCCESS" => status[a] = "SUCCESS"
    BY <1>5
<1>8. QED
    BY <1>1, <1>2, <1>3, <1>4, <1>6, <1>7, Kept, StaticMove DEF Static

(* The status of an account that is worked at.                              *)
LEMMA WorkStatic ==
    ASSUME Static, NEW k \in Jobs, job[k].pc = "walk", Work(k), UNCHANGED <<fixed, jobsRow, table, rebuilt, bulk>>,
           faults' \in Nat, accident' \in [Accounts -> SUBSET Accidents]
    PROVE  Static'
<1>1. PICK p \in JobRecord, h \in Accounts :
              /\ Moves(k, p) /\ Placed(p) /\ MergerJob(p) /\ DemergerJob(p) /\ Later(job[k], p)
              /\ \/ Due(h) = {} /\ status' = [status EXCEPT ![h] = "SUCCESS"]
                 \/ status' = [status EXCEPT ![h] = "RUNNING"]
    BY WorkJob
<1>2. status' \in [Accounts -> Statuses]
    BY <1>1, Kept DEF Static, Statuses
<1>3. \A a \in Accounts : status'[a] = "SUCCESS" => status[a] = "SUCCESS" \/ Whole(a)
    <2>1. Due(h) = {} => Whole(h)
        BY DEF Whole
    <2>2. status \in [Accounts -> Statuses]
        BY Kept DEF Static
    <2>3. QED
        BY <1>1, <2>1, <2>2
<1>4. QED
    BY <1>1, <1>2, <1>3, Kept, StaticMove DEF Static

LEMMA FailsJob ==
    ASSUME Static, NEW k \in Jobs, job[k].pc \in {"walk", "insert"}, GivesUp(k)
    PROVE  \E p \in JobRecord, h \in Accounts :
              /\ Moves(k, p) /\ h = First(job[k].accts) /\ h \in job[k].accts
              /\ p.tries = job[k].tries /\ p.failures = 1 /\ p.affected = job[k].affected
              /\ p.pc \in (IF act = "merger" THEN {"walk", "header", "finish"} ELSE {"walk", "queue"})
              /\ Placed(p) /\ MergerJob(p) /\ DemergerJob(p) /\ Later(job[k], p)
              /\ status' = [status EXCEPT ![h] = "FAILED"]
<1>1. PICK r : r = job[k]
    OBVIOUS
<1>2. r \in JobRecord /\ r.pc \in {"walk", "insert"} /\ Placed(r) /\ MergerJob(r)
    BY <1>1, JobOf DEF Static
<1>3. PICK h : h = First(r.accts)
    OBVIOUS
<1>4. r.accts # {} /\ r.accts \in SUBSET Accounts
    BY <1>2 DEF Placed, JobRecord
<1>5. h \in r.accts /\ h \in Accounts
    BY <1>3, <1>4, FirstIn
<1>6. Here(k) = h
    BY <1>1, <1>3 DEF Here
<1>7. PICK q : q = [r EXCEPT !.rows = IF act = "merger" THEN @ ELSE {}, !.failures = 1]
    OBVIOUS
<1>8. /\ q \in JobRecord /\ q.rows = (IF act = "merger" THEN r.rows ELSE {}) /\ q.affected = r.affected
      /\ q.accts = r.accts /\ q.tries = r.tries /\ q.failures = 1
    BY <1>2, <1>7 DEF JobRecord
<1>9. PICK p : p = Passed(q)
    OBVIOUS
<1>10. p \in JobRecord /\ Walked(q, p) /\ p.affected = q.affected
    BY <1>8, <1>9, PassedWalks DEF Static
<1>11. /\ p.tries = r.tries /\ p.failures = 1 /\ p.affected = r.affected
       /\ p.pc \in (IF act = "merger" THEN {"walk", "header", "finish"} ELSE {"walk", "queue"})
    BY <1>8, <1>10 DEF Walked
<1>12. Placed(p) /\ MergerJob(p) /\ DemergerJob(p)
    <2>1. act = "merger" =>
              /\ q.affected \cap (q.accts \ {First(q.accts)}) = {}
              /\ \A m \in q.rows : m.acct \in q.affected
              /\ \A a \in q.affected : Due(a) # {} /\ Due(a) \subseteq q.rows
        <3>1. act = "merger" => r.pc = "walk"
            BY <1>2 DEF Placed
        <3>2. QED
            BY <1>2, <1>8, <3>1 DEF MergerJob, Resting
    <2>2. QED
        BY <1>8, <1>9, <2>1, PassedOK DEF Static
<1>13. Later(r, p)
    <2>1. p.pc \in {"walk", "header", "finish", "queue"}
        BY <1>11
    <2>2. QED
        BY <1>2, <1>11, <2>1, WalkedLater
<1>14. job' = [job EXCEPT ![k] = Passed([job[k] EXCEPT !.rows = IF act = "merger" THEN @ ELSE {}, !.failures = 1])]
    BY DEF GivesUp
<1>15. Moves(k, p)
    BY <1>1, <1>7, <1>9, <1>14 DEF Moves
<1>16. status' = [status EXCEPT ![h] = "FAILED"]
    BY <1>1, <1>6 DEF GivesUp, Tell
<1>17. QED
    BY <1>1, <1>2, <1>3, <1>5, <1>10, <1>11, <1>12, <1>13, <1>15, <1>16

LEMMA FailsStatic ==
    ASSUME Static, NEW k \in Jobs, AccountFails(k)
    PROVE  Static'
<1>1. PICK p \in JobRecord, h \in Accounts :
              /\ Moves(k, p) /\ Placed(p) /\ MergerJob(p) /\ DemergerJob(p) /\ Later(job[k], p)
              /\ status' = [status EXCEPT ![h] = "FAILED"]
    BY FailsJob DEF AccountFails
<1>2. UNCHANGED <<fixed, jobsRow, table, rebuilt, bulk>>
    BY DEF AccountFails
<1>3. faults' \in Nat
    BY FaultKept DEF AccountFails, GivesUp, Static
<1>4. accident' \in [Accounts -> SUBSET Accidents]
    <2>1. "cut" \in Accidents
        BY DEF Accidents
    <2>2. QED
        BY <2>1, BefallsTyped DEF AccountFails, Static
<1>5. status' \in [Accounts -> Statuses]
    BY <1>1, Kept DEF Static, Statuses
<1>6. \A a \in Accounts : status'[a] = "SUCCESS" => status[a] = "SUCCESS"
    BY <1>1, Kept DEF Static
<1>7. QED
    BY <1>1, <1>2, <1>3, <1>4, <1>5, <1>6, Kept, StaticMove DEF Static

(* A row that is written by an INSERT that throws.                          *)
LEMMA ThrownJob ==
    ASSUME Static, NEW k \in Jobs, InsertThrows(k)
    PROVE  \E p \in JobRecord, h \in Accounts, m \in AllDue :
              /\ m \in Due(h)
              /\ Moves(k, p) /\ h = First(job[k].accts) /\ h \in job[k].accts
              /\ job[k].pc = "insert" /\ act = "demerger"
              /\ p.tries = job[k].tries /\ p.failures = 1 /\ p.affected = job[k].affected
              /\ p.pc \in {"walk", "queue"}
              /\ table' = table \union {[acct |-> h, row |-> m.row, by |-> <<k, job[k].tries>>]}
              /\ rebuilt' = rebuilt \ {h}
              /\ Placed(p) /\ MergerJob(p) /\ Later(job[k], p)
              /\ status' = [status EXCEPT ![h] = "FAILED"]
              /\ Befalls({h}, "cut")
<1>1. PICK r : r = job[k]
    OBVIOUS
<1>2. r \in JobRecord /\ r.pc = "insert" /\ Placed(r) /\ DemergerJob(r)
    BY <1>1, JobOf DEF Static, InsertThrows
<1>3. PICK p \in JobRecord, h \in Accounts :
              /\ Moves(k, p) /\ h = First(r.accts) /\ h \in r.accts
              /\ p.tries = r.tries /\ p.failures = 1 /\ p.affected = r.affected
              /\ p.pc \in (IF act = "merger" THEN {"walk", "header", "finish"} ELSE {"walk", "queue"})
              /\ Placed(p) /\ MergerJob(p) /\ Later(r, p)
              /\ status' = [status EXCEPT ![h] = "FAILED"]
    BY <1>1, FailsJob DEF InsertThrows
<1>4. act = "demerger"
    BY <1>2 DEF Placed
<1>5. Here(k) = h
    BY <1>1, <1>3 DEF Here
<1>6. r.rows \in SUBSET Due(h) /\ r.rows # {}
    BY <1>2, <1>3 DEF DemergerJob
<1>7. PICK m : m = FirstRow(r.rows)
    OBVIOUS
<1>8. m \in Due(h) /\ m.acct = h /\ m \in AllDue
    BY <1>6, <1>7, FirstRowIn, DueRow
<1>9. /\ table' = table \union {[acct |-> h, row |-> m.row, by |-> <<k, r.tries>>]}
      /\ rebuilt' = rebuilt \ {h} /\ Befalls({h}, "cut")
    BY <1>1, <1>5, <1>7, <1>8 DEF InsertThrows, Write, Attempt
<1>10. p.pc \in {"walk", "queue"}
    BY <1>3, <1>4
<1>11. QED
    BY <1>1, <1>2, <1>3, <1>4, <1>8, <1>9, <1>10

LEMMA ThrownStatic ==
    ASSUME Static, NEW k \in Jobs, InsertThrows(k)
    PROVE  Static'
<1>1. PICK p \in JobRecord, h \in Accounts, m \in AllDue :
              /\ m \in Due(h)
              /\ Moves(k, p)
              /\ p.pc \in {"walk", "queue"}
              /\ table' = table \union {[acct |-> h, row |-> m.row, by |-> <<k, job[k].tries>>]}
              /\ rebuilt' = rebuilt \ {h}
              /\ Placed(p) /\ MergerJob(p) /\ Later(job[k], p)
              /\ status' = [status EXCEPT ![h] = "FAILED"]
              /\ Befalls({h}, "cut")
    BY ZenonT(60), ThrownJob
<1>2. Grows /\ UNCHANGED <<fixed, jobsRow, bulk>>
    BY <1>1 DEF Grows, InsertThrows
<1>3. act' = act /\ book' = book /\ AllDue' = AllDue /\ JobRecord' = JobRecord /\ BulkRecord' = BulkRecord
    BY <1>2, FixedOps, DueTypes
<1>4. status' \in [Accounts -> Statuses] /\ jobsRow' \in Outcomes /\ rebuilt' \subseteq Accounts
    BY <1>1, <1>2, Kept DEF Static, Statuses
<1>5. faults' \in Nat /\ accident' \in [Accounts -> SUBSET Accidents]
    <2>1. "cut" \in Accidents
        BY DEF Accidents
    <2>2. QED
        BY <1>1, <2>1, FaultKept, BefallsTyped DEF Static, InsertThrows, GivesUp
<1>6. (\A r \in table : \E n \in AllDue, x \in Attempts : r = [acct |-> n.acct, row |-> n.row, by |-> x])'
    <2>1. m \in AllDue /\ m.acct = h
        BY <1>1, DueRow
    <2>2. <<k, job[k].tries>> \in Attempts
        BY DEF Static, Typed, JobRecord, Attempts
    <2>3. \A r \in table : \E n \in AllDue, x \in Attempts : r = [acct |-> n.acct, row |-> n.row, by |-> x]
        BY DEF Static, Typed
    <2>4. QED
        BY <1>1, <1>3, <2>1, <2>2, <2>3
<1>7. Typed'
    <2>1. job' \in [Jobs -> JobRecord']
        BY <1>1, <1>3 DEF Static, Typed, Moves
    <2>2. \A b \in bulk' : b \in BulkRecord'
        BY <1>2, <1>3 DEF Static, Typed
    <2>3. QED
        BY <1>3, <1>4, <1>5, <1>6, <2>1, <2>2 DEF Static, Typed, Statuses, Outcomes, Accidents
<1>8. JobsOK'
    <2>1. DemergerJob(p)'
        BY <1>1 DEF DemergerJob
    <2>2. DemergerJob(p)
        BY <1>1 DEF DemergerJob
    <2>3. QED
        BY <1>1, <1>2, <2>1, <2>2, JobKept, JobsMove DEF Static
<1>9. BulkOK'
    BY <1>1, <1>2, BulkKept DEF Static
<1>10. SuccessIsWhole'
    <2>1. status \in [Accounts -> Statuses]
        BY Kept DEF Static
    <2>2. \A a \in Accounts : status'[a] = "SUCCESS" => status[a] = "SUCCESS" \/ Whole(a)'
        BY <1>1, <2>1
    <2>3. QED
        BY <1>2, <2>2, SuccessKept DEF Static
<1>11. QED
    BY <1>7, <1>8, <1>9, <1>10 DEF Static

(* A row that is written: the last one of the account tells it, if it can.  *)
LEMMA InsertJob ==
    ASSUME Static, NEW k \in Jobs, InsertRow(k)
    PROVE  \E p \in JobRecord, h \in Accounts, m \in AllDue :
              /\ m \in Due(h)
              /\ Moves(k, p) /\ h = First(job[k].accts) /\ h \in job[k].accts
              /\ job[k].pc = "insert" /\ act = "demerger"
              /\ p.tries = job[k].tries /\ p.failures = job[k].failures /\ p.affected = job[k].affected \union {h}
              /\ p.pc \in {"walk", "insert", "queue"}
              /\ table' = table \union {[acct |-> h, row |-> m.row, by |-> <<k, job[k].tries>>]}
              /\ rebuilt' = rebuilt \ {h}
              /\ Placed(p) /\ MergerJob(p) /\ DemergerJob(p)' /\ Later(job[k], p)
              /\ \/ /\ p.pc = "insert" /\ p.accts = job[k].accts
                    /\ UNCHANGED <<status, faults, accident>>
                 \/ /\ p.pc # "insert" /\ p.accts = job[k].accts \ {h} /\ Whole(h)'
                    /\ \/ status' = [status EXCEPT ![h] = "SUCCESS"] /\ UNCHANGED <<faults, accident>>
                       \/ Fault /\ Befalls({h}, "untold") /\ UNCHANGED status
<1>1. PICK r : r = job[k]
    OBVIOUS
<1>2. r \in JobRecord /\ r.pc = "insert" /\ Placed(r) /\ DemergerJob(r)
    BY <1>1, JobOf DEF Static, InsertRow
<1>3. PICK h : h = First(r.accts)
    OBVIOUS
<1>4. r.accts # {} /\ r.accts \in SUBSET Accounts /\ act = "demerger"
    BY <1>2 DEF Placed, JobRecord
<1>5. h \in r.accts /\ h \in Accounts
    BY <1>3, <1>4, FirstIn
<1>6. Here(k) = h
    BY <1>1, <1>3 DEF Here
<1>7. r.rows \in SUBSET Due(h) /\ r.rows # {} /\ \A n \in Due(h) \ r.rows : Written(n)
    BY <1>2, <1>3 DEF DemergerJob
<1>8. PICK m : m = FirstRow(r.rows)
    OBVIOUS
<1>9. m \in r.rows /\ m \in Due(h) /\ m.acct = h /\ m \in AllDue
    BY <1>5, <1>7, <1>8, FirstRowIn, DueRow
<1>10. PICK rest : rest = r.rows \ {m}
    OBVIOUS
<1>11. PICK q : q = [r EXCEPT !.rows = rest, !.affected = @ \union {h}]
    OBVIOUS
<1>12. /\ q \in JobRecord /\ q.rows = rest /\ q.affected = r.affected \union {h} /\ q.pc = "insert"
       /\ q.accts = r.accts /\ q.tries = r.tries /\ q.failures = r.failures
    BY <1>2, <1>5, <1>10, <1>11 DEF JobRecord
<1>13. /\ table' = table \union {[acct |-> h, row |-> m.row, by |-> <<k, r.tries>>]}
       /\ rebuilt' = rebuilt \ {h}
    BY <1>1, <1>6, <1>8, <1>9 DEF InsertRow, Write, Attempt
<1>14. IF rest # {}
       THEN job' = [job EXCEPT ![k] = q] /\ UNCHANGED <<status, faults, accident>>
       ELSE /\ job' = [job EXCEPT ![k] = Passed(q)]
            /\ \/ status' = [status EXCEPT ![h] = "SUCCESS"] /\ UNCHANGED <<faults, accident>>
               \/ Fault /\ Befalls({h}, "untold") /\ UNCHANGED status
    <2>1. IF job[k].rows \ {FirstRow(job[k].rows)} # {}
          THEN /\ job' = [job EXCEPT ![k] = [job[k] EXCEPT !.rows = job[k].rows \ {FirstRow(job[k].rows)},
                                                        !.affected = @ \union {Here(k)}]]
               /\ UNCHANGED <<status, faults, accident>>
          ELSE /\ job' = [job EXCEPT ![k] = Passed([job[k] EXCEPT !.rows = job[k].rows \ {FirstRow(job[k].rows)},
                                                               !.affected = @ \union {Here(k)}])]
               /\ \/ status' = [status EXCEPT ![Here(k)] = "SUCCESS"] /\ UNCHANGED <<faults, accident>>
                  \/ Fault /\ Befalls({Here(k)}, "untold") /\ UNCHANGED status
        BY Zenon DEF InsertRow, Tell
    <2>2. QED
        BY <1>1, <1>6, <1>8, <1>10, <1>11, <2>1, Zenon
<1>15. Written(m)' /\ Grows
    <2>1. table \subseteq table'
        BY <1>13
    <2>2. Written(m)'
        <3>1. PICK n : n = [acct |-> h, row |-> m.row, by |-> <<k, r.tries>>]
            OBVIOUS
        <3>2. n \in table' /\ n.acct = m.acct /\ n.row = m.row
            BY <1>9, <1>13, <3>1
        <3>3. QED
            BY <3>2 DEF Written
    <2>3. QED
        BY <2>1, <2>2 DEF Grows, InsertRow
<1>16. Due(h)' = Due(h) /\ act' = act
    BY <1>15, FixedOps DEF Grows
<1>17. \A n \in Due(h) \ rest : Written(n)'
    BY <1>7, <1>10, <1>15, WrittenStays
<1>18. CASE rest # {}
    <2>1. Moves(k, q) /\ UNCHANGED <<status, faults, accident>>
        BY <1>14, <1>18 DEF Moves
    <2>2. Placed(q) /\ MergerJob(q) /\ Later(r, q)
        BY <1>2, <1>4, <1>12 DEF Placed, MergerJob, Later
    <2>3. DemergerJob(q)'
        BY <1>3, <1>7, <1>10, <1>12, <1>16, <1>17, <1>18 DEF DemergerJob
    <2>4. QED
        BY <1>1, <1>2, <1>3, <1>4, <1>5, <1>9, <1>12, <1>13, <2>1, <2>2, <2>3
<1>19. CASE rest = {}
    <2>1. PICK p : p = Passed(q)
        OBVIOUS
    <2>2. p \in JobRecord /\ Walked(q, p) /\ p.affected = q.affected
        BY <1>12, <2>1, PassedWalks DEF Static
    <2>3. /\ p.tries = r.tries /\ p.failures = r.failures /\ p.affected = r.affected \union {h}
          /\ p.pc \in {"walk", "queue"} /\ p.accts = r.accts \ {h}
        BY <1>3, <1>4, <1>12, <2>2 DEF Walked
    <2>4. Placed(p) /\ MergerJob(p) /\ Later(r, p)
        <3>1. Placed(p) /\ MergerJob(p)
            BY <1>4, <1>12, <2>1, PassedOK DEF Static
        <3>2. QED
            BY <1>2, <2>3, <3>1, WalkedLater
    <2>5. DemergerJob(p)'
        BY <2>3 DEF DemergerJob
    <2>6. Moves(k, p)
        BY <1>14, <1>19, <2>1 DEF Moves
    <2>7. Whole(h)'
        BY <1>16, <1>17, <1>19 DEF Whole
    <2>8. \/ status' = [status EXCEPT ![h] = "SUCCESS"] /\ UNCHANGED <<faults, accident>>
          \/ Fault /\ Befalls({h}, "untold") /\ UNCHANGED status
        BY <1>14, <1>19, Zenon
    <2>9. p.pc # "insert" /\ p.pc \in {"walk", "insert", "queue"}
        BY <2>3
    <2>10. QED
        BY <1>1, <1>2, <1>3, <1>4, <1>5, <1>9, <1>13, <2>2, <2>3, <2>4, <2>5, <2>6, <2>7, <2>8, <2>9
<1>20. QED
    BY <1>18, <1>19

LEMMA InsertStatic ==
    ASSUME Static, NEW k \in Jobs, InsertRow(k)
    PROVE  Static'
<1>1. PICK p \in JobRecord, h \in Accounts, m \in AllDue :
              /\ m \in Due(h)
              /\ Moves(k, p)
              /\ table' = table \union {[acct |-> h, row |-> m.row, by |-> <<k, job[k].tries>>]}
              /\ rebuilt' = rebuilt \ {h}
              /\ Placed(p) /\ MergerJob(p) /\ DemergerJob(p)' /\ Later(job[k], p)
              /\ \/ UNCHANGED <<status, faults, accident>>
                 \/ /\ Whole(h)'
                    /\ \/ status' = [status EXCEPT ![h] = "SUCCESS"] /\ UNCHANGED <<faults, accident>>
                       \/ Fault /\ Befalls({h}, "untold") /\ UNCHANGED status
    BY ZenonT(60), InsertJob
<1>2. Grows /\ UNCHANGED <<fixed, jobsRow, bulk>>
    BY <1>1 DEF Grows, InsertRow
<1>3. act' = act /\ book' = book /\ AllDue' = AllDue /\ JobRecord' = JobRecord /\ BulkRecord' = BulkRecord
    BY <1>2, FixedOps, DueTypes
<1>4. status' \in [Accounts -> Statuses] /\ jobsRow' \in Outcomes /\ rebuilt' \subseteq Accounts
    BY <1>1, <1>2, Kept DEF Static, Statuses
<1>5. faults' \in Nat /\ accident' \in [Accounts -> SUBSET Accidents]
    <2>1. "untold" \in Accidents
        BY DEF Accidents
    <2>2. QED
        BY <1>1, <2>1, Kept, FaultKept, BefallsTyped DEF Static
<1>6. (\A r \in table : \E n \in AllDue, x \in Attempts : r = [acct |-> n.acct, row |-> n.row, by |-> x])'
    <2>1. m \in AllDue /\ m.acct = h
        BY <1>1, DueRow
    <2>2. <<k, job[k].tries>> \in Attempts
        BY DEF Static, Typed, JobRecord, Attempts
    <2>3. \A r \in table : \E n \in AllDue, x \in Attempts : r = [acct |-> n.acct, row |-> n.row, by |-> x]
        BY DEF Static, Typed
    <2>4. QED
        BY <1>1, <1>3, <2>1, <2>2, <2>3
<1>7. Typed'
    <2>1. job' \in [Jobs -> JobRecord']
        BY <1>1, <1>3 DEF Static, Typed, Moves
    <2>2. \A b \in bulk' : b \in BulkRecord'
        BY <1>2, <1>3 DEF Static, Typed
    <2>3. QED
        BY <1>3, <1>4, <1>5, <1>6, <2>1, <2>2 DEF Static, Typed, Statuses, Outcomes, Accidents
<1>8. JobsOK'
    BY <1>1, <1>2, JobKept, JobsMove DEF Static
<1>9. BulkOK'
    BY <1>1, <1>2, BulkKept DEF Static
<1>10. SuccessIsWhole'
    <2>1. status \in [Accounts -> Statuses]
        BY Kept DEF Static
    <2>2. \A a \in Accounts : status'[a] = "SUCCESS" => status[a] = "SUCCESS" \/ Whole(a)'
        BY <1>1, <2>1
    <2>3. QED
        BY <1>2, <2>2, SuccessKept DEF Static
<1>11. QED
    BY <1>7, <1>8, <1>9, <1>10 DEF Static

(* A bulk write is submitted.                                               *)
LEMMA CreateJob ==
    ASSUME Static, NEW k \in Jobs, CreateBulk(k)
    PROVE  \E p \in JobRecord, c \in BulkRecord :
              /\ Moves(k, p) /\ job[k].pc = "bulk" /\ act = "merger" /\ p.pc = "poll"
              /\ p.tries = job[k].tries /\ p.accts = job[k].accts /\ p.rows = job[k].rows
              /\ p.affected = job[k].affected /\ p.failures = job[k].failures
              /\ Placed(p) /\ MergerJob(p) /\ DemergerJob(p)
              /\ bulk' = bulk \union {c} /\ c.by = <<k, job[k].tries>> /\ c.st = "running"
              /\ c.accts = job[k].affected /\ c.rows = job[k].rows
<1>1. PICK r : r = job[k]
    OBVIOUS
<1>2. r \in JobRecord /\ r.pc = "bulk" /\ Placed(r) /\ MergerJob(r)
    BY <1>1, JobOf DEF Static, CreateBulk
<1>3. PICK p : p = [r EXCEPT !.pc = "poll"]
    OBVIOUS
<1>4. /\ p \in JobRecord /\ p.pc = "poll" /\ p.tries = r.tries /\ p.accts = r.accts /\ p.rows = r.rows
      /\ p.affected = r.affected /\ p.failures = r.failures
    BY <1>2, <1>3 DEF JobRecord, Pcs
<1>5. Moves(k, p)
    BY <1>1, <1>3 DEF CreateBulk, Moves
<1>6. act = "merger" /\ Placed(p) /\ MergerJob(p) /\ DemergerJob(p)
    BY <1>2, <1>4 DEF Placed, MergerJob, DemergerJob, Resting
<1>7. PICK c : c = [by |-> <<k, r.tries>>, st |-> "running", accts |-> r.affected, rows |-> r.rows]
    OBVIOUS
<1>8. bulk' = bulk \union {c}
    BY <1>1, <1>7 DEF CreateBulk, Attempt
<1>9. /\ c \in BulkRecord /\ c.by = <<k, r.tries>> /\ c.st = "running"
      /\ c.accts = r.affected /\ c.rows = r.rows
    BY <1>2, <1>7 DEF BulkRecord, Attempts, JobRecord
<1>10. QED
    BY <1>1, <1>2, <1>4, <1>5, <1>6, <1>8, <1>9

LEMMA CreateStatic ==
    ASSUME Static, NEW k \in Jobs, CreateBulk(k)
    PROVE  Static'
<1>1. PICK p \in JobRecord, c \in BulkRecord :
              /\ Moves(k, p) /\ job[k].pc = "bulk" /\ act = "merger" /\ p.pc = "poll"
              /\ p.tries = job[k].tries /\ p.rows = job[k].rows /\ p.affected = job[k].affected
              /\ Placed(p) /\ MergerJob(p) /\ DemergerJob(p)
              /\ bulk' = bulk \union {c} /\ c.by = <<k, job[k].tries>> /\ c.st = "running"
              /\ c.accts = job[k].affected /\ c.rows = job[k].rows
    BY CreateJob
<1>2. UNCHANGED <<fixed, jobsRow, status, table, rebuilt, faults, accident>> /\ Grows
    BY DEF CreateBulk, Grows
<1>3. act' = act /\ book' = book /\ AllDue' = AllDue /\ JobRecord' = JobRecord /\ BulkRecord' = BulkRecord
    BY <1>2, FixedOps, DueTypes
<1>4. job[k] \in JobRecord /\ MergerJob(job[k]) /\ job \in [Jobs -> JobRecord]
    BY JobOf DEF Static, Typed
<1>5. Typed'
    <2>1. job' \in [Jobs -> JobRecord']
        BY <1>1, <1>3, <1>4 DEF Moves
    <2>2. \A b \in bulk' : b \in BulkRecord'
        BY <1>1, <1>3 DEF Static, Typed
    <2>3. (\A r \in table : \E n \in AllDue, x \in Attempts : r = [acct |-> n.acct, row |-> n.row, by |-> x])'
        BY <1>2, <1>3 DEF Static, Typed
    <2>4. QED
        BY <1>2, <1>3, <2>1, <2>2, <2>3 DEF Static, Typed
<1>6. JobsOK'
    BY <1>1, <1>2, JobKept, JobsMove DEF Static
<1>7. BulkOK'
    <2>1. ASSUME NEW b \in bulk, b.by[1] = k PROVE b.by[2] < job[k].tries
        <3>1. Submitted(b, job[k])
            BY <2>1 DEF Static, BulkOK
        <3>2. QED
            BY <1>1, <3>1 DEF Submitted
    <2>2. c.by[1] = k /\ c.by[2] = job[k].tries /\ job[k].tries \in Nat /\ job'[k] = p
        BY <1>1, <1>4 DEF JobRecord, Moves
    <2>3. \A b \in bulk : b.by # c.by
        BY <2>1, <2>2
    <2>4. (\A b, d \in bulk : b.by = d.by => b = d)'
        BY <1>1, <2>3 DEF Static, BulkOK
    <2>5. (\A b \in bulk : \A m \in b.rows : m.acct \in b.accts \/ b.st = "failed")'
        BY <1>1, <1>4 DEF Static, BulkOK, MergerJob, Resting
    <2>6. (\A b \in bulk : b.st = "completed" => \A m \in b.rows : Written(m))'
        BY <1>1, <1>2, WrittenStays DEF Static, BulkOK
    <2>7. ASSUME NEW b \in bulk' PROVE Submitted(b, job'[b.by[1]])
        <3>1. CASE b = c
            BY <1>1, <2>2, <3>1 DEF Submitted
        <3>2. CASE b \in bulk
            <4>1. b.by[1] \in Jobs /\ b.by[2] \in Nat /\ Submitted(b, job[b.by[1]])
                BY <3>2 DEF Static, BulkOK, Typed, BulkRecord, Attempts
            <4>2. CASE b.by[1] = k
                BY <1>1, <2>1, <2>2, <3>2, <4>1, <4>2 DEF Submitted
            <4>3. CASE b.by[1] # k
                <5>1. job'[b.by[1]] = job[b.by[1]]
                    BY <1>1, <1>4, <4>1, <4>3 DEF Moves
                <5>2. QED
                    BY <4>1, <5>1
            <4>4. QED
                BY <4>2, <4>3
        <3>3. QED
            BY <1>1, <3>1, <3>2
    <2>8. (\A b \in bulk : Submitted(b, job[b.by[1]]))'
        BY <2>7 DEF Submitted
    <2>9. (act = "demerger" => bulk = {})'
        BY <1>1, <1>3
    <2>10. QED
        BY <2>4, <2>5, <2>6, <2>8, <2>9 DEF BulkOK
<1>8. SuccessIsWhole'
    BY <1>2, SuccessKept DEF Static
<1>9. QED
    BY <1>5, <1>6, <1>7, <1>8 DEF Static

(* A bulk write b that ends is c from then on.                              *)
LEMMA BulkEnded ==
    ASSUME Static, NEW b \in bulk, BulkEnds(b)
    PROVE  \E c \in BulkRecord :
              /\ b \in BulkRecord /\ b.st = "running" /\ c.by = b.by /\ c.rows = b.rows
              /\ bulk' = (bulk \ {b}) \union {c}
              /\ \/ /\ c.st = "completed" /\ c.accts = b.accts
                    /\ table' = table \union {[acct |-> m.acct, row |-> m.row, by |-> b.by] : m \in b.rows}
                    /\ rebuilt' = rebuilt \ b.accts /\ faults' = faults
                 \/ /\ c.st = "failed" /\ c.accts = {} /\ Fault
                    /\ UNCHANGED <<table, rebuilt>>
<1>1. b \in BulkRecord /\ b.st = "running"
    BY DEF Static, Typed, BulkEnds
<1>2. CASE /\ bulk' = (bulk \ {b}) \union {[b EXCEPT !.st = "completed"]}
           /\ table' = table \union {[acct |-> m.acct, row |-> m.row, by |-> b.by] : m \in b.rows}
           /\ rebuilt' = rebuilt \ b.accts
           /\ UNCHANGED faults
    <2>1. PICK c : c = [b EXCEPT !.st = "completed"]
        OBVIOUS
    <2>2. c \in BulkRecord /\ c.by = b.by /\ c.rows = b.rows /\ c.st = "completed" /\ c.accts = b.accts
        BY <1>1, <2>1 DEF BulkRecord
    <2>3. QED
        BY <1>1, <1>2, <2>1, <2>2
<1>3. CASE /\ Fault
           /\ bulk' = (bulk \ {b}) \union {[b EXCEPT !.st = "failed", !.accts = {}]}
           /\ UNCHANGED <<table, rebuilt>>
    <2>1. PICK c : c = [b EXCEPT !.st = "failed", !.accts = {}]
        OBVIOUS
    <2>2. c \in BulkRecord /\ c.by = b.by /\ c.rows = b.rows /\ c.st = "failed" /\ c.accts = {}
        BY <1>1, <2>1 DEF BulkRecord
    <2>3. QED
        BY <1>1, <1>3, <2>1, <2>2
<1>4. QED
    BY <1>2, <1>3 DEF BulkEnds

LEMMA BulkEndsStatic ==
    ASSUME Static, NEW b \in bulk, BulkEnds(b)
    PROVE  Static'
<1>1. PICK c \in BulkRecord :
              /\ b \in BulkRecord /\ b.st = "running" /\ c.by = b.by /\ c.rows = b.rows
              /\ bulk' = (bulk \ {b}) \union {c}
              /\ \/ /\ c.st = "completed" /\ c.accts = b.accts
                    /\ table' = table \union {[acct |-> m.acct, row |-> m.row, by |-> b.by] : m \in b.rows}
                    /\ rebuilt' = rebuilt \ b.accts /\ faults' = faults
                 \/ /\ c.st = "failed" /\ c.accts = {} /\ Fault
                    /\ UNCHANGED <<table, rebuilt>>
    BY BulkEnded
<1>2. UNCHANGED <<fixed, jobsRow, status, header, job, accident>>
    BY DEF BulkEnds
<1>3. Grows
    BY <1>1, <1>2 DEF Grows
<1>4. act' = act /\ book' = book /\ AllDue' = AllDue /\ JobRecord' = JobRecord /\ BulkRecord' = BulkRecord
    BY <1>3, FixedOps, DueTypes DEF Grows
<1>5. Typed'
    <2>1. \A d \in bulk' : d \in BulkRecord'
        BY <1>1, <1>4 DEF Static, Typed
    <2>2. (\A r \in table : \E n \in AllDue, x \in Attempts : r = [acct |-> n.acct, row |-> n.row, by |-> x])'
        <3>1. \A r \in table : \E n \in AllDue, x \in Attempts : r = [acct |-> n.acct, row |-> n.row, by |-> x]
            BY DEF Static, Typed
        <3>2. b.by \in Attempts /\ b.rows \subseteq AllDue
            BY <1>1 DEF BulkRecord
        <3>3. QED
            BY <1>1, <1>4, <3>1, <3>2
    <2>3. faults' \in Nat /\ rebuilt' \subseteq Accounts
        BY <1>1, Kept, FaultKept DEF Static
    <2>4. QED
        BY <1>2, <1>4, <2>1, <2>2, <2>3 DEF Static, Typed
<1>6. JobsOK'
    BY <1>2, <1>3, JobKept DEF Static, JobsOK
<1>7. BulkOK'
    <2>1. bulk # {} /\ act # "demerger"
        BY DEF Static, BulkOK
    <2>2. (\A x, d \in bulk : x.by = d.by => x = d)'
        BY <1>1 DEF Static, BulkOK
    <2>3. (\A x \in bulk : \A m \in x.rows : m.acct \in x.accts \/ x.st = "failed")'
        BY <1>1 DEF Static, BulkOK
    <2>4. ASSUME NEW x \in bulk', x.st = "completed", NEW m \in x.rows PROVE Written(m)'
        <3>1. CASE x = c
            <4>1. PICK n : n = [acct |-> m.acct, row |-> m.row, by |-> b.by]
                OBVIOUS
            <4>2. n \in table' /\ n.acct = m.acct /\ n.row = m.row
                BY <1>1, <2>4, <3>1, <4>1
            <4>3. QED
                BY <4>2 DEF Written
        <3>2. CASE x \in bulk
            <4>1. Written(m)
                BY <2>4, <3>2 DEF Static, BulkOK
            <4>2. QED
                BY <1>3, <4>1, WrittenStays
        <3>3. QED
            BY <1>1, <3>1, <3>2
    <2>5. ASSUME NEW x \in bulk' PROVE Submitted(x, job'[x.by[1]])
        <3>1. Submitted(b, job[b.by[1]])
            BY DEF Static, BulkOK
        <3>2. CASE x = c
            BY <1>1, <1>2, <3>1, <3>2 DEF Submitted
        <3>3. CASE x \in bulk
            BY <1>2, <3>3 DEF Static, BulkOK
        <3>4. QED
            BY <1>1, <3>2, <3>3
    <2>6. (\A x \in bulk : Submitted(x, job[x.by[1]]))'
        BY <2>5 DEF Submitted
    <2>7. (\A x \in bulk : x.st = "completed" => \A m \in x.rows : Written(m))'
        BY <2>4
    <2>8. QED
        BY <1>4, <2>1, <2>2, <2>3, <2>6, <2>7 DEF BulkOK
<1>8. SuccessIsWhole'
    BY <1>2, <1>3, SuccessKept DEF Static
<1>9. QED
    BY <1>5, <1>6, <1>7, <1>8 DEF Static

(* A poll that finds its write done goes on; else the run ends.             *)
LEMMA PollJob ==
    ASSUME Static, NEW k \in Jobs, Poll(k)
    PROVE  \/ Fail(k) /\ faults' \in Nat
           \/ /\ UNCHANGED <<jobsRow, faults, accident>>
              /\ \E b \in bulk : b.by = <<k, job[k].tries>> /\ b.st = "completed"
              /\ \E p \in JobRecord :
                    /\ Moves(k, p) /\ job[k].pc = "poll" /\ act = "merger" /\ p.pc = "queue"
                    /\ p.tries = job[k].tries /\ p.accts = job[k].accts /\ p.rows = job[k].rows
                    /\ p.affected = job[k].affected /\ p.failures = job[k].failures
                    /\ Placed(p) /\ MergerJob(p) /\ DemergerJob(p) /\ Later(job[k], p)
<1>1. PICK b \in bulk :
          /\ b.by = Attempt(k)
          /\ \/ /\ b.st = "completed"
                /\ job' = [job EXCEPT ![k].pc = "queue"]
                /\ UNCHANGED <<jobsRow, faults, accident>>
             \/ b.st = "failed" /\ Fail(k) /\ UNCHANGED faults
             \/ b.st = "running" /\ Fault /\ Fail(k)
    BY DEF Poll
<1>2. CASE Fail(k) /\ (UNCHANGED faults \/ Fault)
    BY <1>2, Kept, FaultKept DEF Static
<1>3. CASE /\ b.st = "completed"
           /\ job' = [job EXCEPT ![k].pc = "queue"]
           /\ UNCHANGED <<jobsRow, faults, accident>>
    <2>1. PICK r : r = job[k]
        OBVIOUS
    <2>2. r \in JobRecord /\ r.pc = "poll" /\ Placed(r) /\ MergerJob(r)
        BY <2>1, JobOf DEF Static, Poll
    <2>3. PICK p : p = [r EXCEPT !.pc = "queue"]
        OBVIOUS
    <2>4. /\ p \in JobRecord /\ p.pc = "queue" /\ p.tries = r.tries /\ p.accts = r.accts /\ p.rows = r.rows
          /\ p.affected = r.affected /\ p.failures = r.failures
        BY <2>2, <2>3 DEF JobRecord, Pcs
    <2>5. Moves(k, p)
        BY <1>3, <2>1, <2>3 DEF Moves
    <2>6. act = "merger" /\ Placed(p) /\ DemergerJob(p) /\ Later(r, p)
        BY <2>2, <2>4 DEF Placed, DemergerJob, Later
    <2>7. b.by = <<k, r.tries>> /\ b.by[1] = k /\ b.by[2] = r.tries
        BY <1>1, <2>1 DEF Attempt
    <2>8. \A m \in r.rows : Written(m)
        <3>1. Submitted(b, r)
            BY <2>1, <2>7 DEF Static, BulkOK
        <3>2. b.rows = r.rows
            BY <2>2, <2>7, <3>1 DEF Submitted
        <3>3. QED
            BY <1>3, <3>2 DEF Static, BulkOK
    <2>9. \A a \in r.affected : Whole(a)
        BY <2>2, <2>6, <2>8 DEF MergerJob, Resting, Whole
    <2>10. MergerJob(p)
        BY <2>2, <2>4, <2>6, <2>9 DEF MergerJob, Resting
    <2>11. QED
        BY <1>3, <2>1, <2>2, <2>4, <2>5, <2>6, <2>7, <2>10
<1>4. QED
    BY <1>1, <1>2, <1>3

LEMMA PollStatic ==
    ASSUME Static, NEW k \in Jobs, Poll(k)
    PROVE  Static'
<1>1. UNCHANGED <<fixed, status, table, rebuilt, bulk>>
    BY DEF Poll
<1>2. CASE Fail(k) /\ faults' \in Nat
    <2>1. Death(k) /\ jobsRow' \in Outcomes
        BY <1>2 DEF Fail, Death, Outcomes
    <2>2. QED
        BY <1>1, <1>2, <2>1, DeathStatic
<1>3. CASE /\ UNCHANGED <<jobsRow, faults, accident>>
           /\ \E p \in JobRecord :
                 Moves(k, p) /\ Placed(p) /\ MergerJob(p) /\ DemergerJob(p) /\ Later(job[k], p)
    BY <1>1, <1>3, Kept, StaticMove DEF Static
<1>4. QED
    BY <1>2, <1>3, PollJob

LEMMA QueueJob ==
    ASSUME Static, NEW k \in Jobs, QueueRebuilds(k)
    PROVE  \E p \in JobRecord :
              /\ Moves(k, p) /\ job[k].pc = "queue" /\ p.pc = IF act = "merger" THEN "mark" ELSE "finish"
              /\ p.tries = job[k].tries /\ p.accts = job[k].accts
              /\ p.affected = job[k].affected /\ p.failures = job[k].failures
              /\ p.affected \subseteq Accounts /\ rebuilt' = rebuilt \union p.affected
              /\ Placed(p) /\ MergerJob(p) /\ DemergerJob(p) /\ Later(job[k], p)
<1>1. PICK r : r = job[k]
    OBVIOUS
<1>2. r \in JobRecord /\ r.pc = "queue" /\ Placed(r) /\ MergerJob(r)
    BY <1>1, JobOf DEF Static, QueueRebuilds
<1>3. PICK c : c = IF act = "merger" THEN "mark" ELSE "finish"
    OBVIOUS
<1>4. PICK p : p = [r EXCEPT !.pc = c]
    OBVIOUS
<1>5. /\ p \in JobRecord /\ p.pc = c /\ p.tries = r.tries /\ p.accts = r.accts /\ p.rows = r.rows
      /\ p.affected = r.affected /\ p.failures = r.failures /\ p.affected \subseteq Accounts
    <2>1. c \in Pcs
        BY <1>3 DEF Pcs
    <2>2. QED
        BY <1>2, <1>4, <2>1 DEF JobRecord
<1>6. Moves(k, p) /\ rebuilt' = rebuilt \union r.affected
    BY <1>1, <1>3, <1>4 DEF QueueRebuilds, Moves
<1>7. Placed(p)
    BY <1>2, <1>3, <1>5 DEF Placed
<1>8. MergerJob(p)
    BY <1>2, <1>3, <1>5 DEF MergerJob, Resting
<1>9. DemergerJob(p) /\ Later(r, p)
    BY <1>2, <1>3, <1>5 DEF DemergerJob, Later
<1>10. QED
    BY <1>1, <1>2, <1>3, <1>5, <1>6, <1>7, <1>8, <1>9

LEMMA QueueStatic ==
    ASSUME Static, NEW k \in Jobs, QueueRebuilds(k)
    PROVE  Static'
<1>1. PICK p \in JobRecord :
              /\ Moves(k, p) /\ p.affected \subseteq Accounts /\ rebuilt' = rebuilt \union p.affected
              /\ Placed(p) /\ MergerJob(p) /\ DemergerJob(p) /\ Later(job[k], p)
    BY QueueJob
<1>2. UNCHANGED <<fixed, jobsRow, status, table, bulk, faults, accident>>
    BY DEF QueueRebuilds
<1>3. rebuilt' \subseteq Accounts
    BY <1>1, Kept DEF Static
<1>4. QED
    BY <1>1, <1>2, <1>3, Kept, StaticMove DEF Static

LEMMA MarkJob ==
    ASSUME Static, NEW k \in Jobs, MarkAccount(k)
    PROVE  \E p \in JobRecord, h \in Accounts :
              /\ Moves(k, p) /\ job[k].pc = "mark" /\ act = "merger" /\ h \in job[k].affected
              /\ p.tries = job[k].tries /\ p.accts = job[k].accts /\ p.failures = job[k].failures
              /\ p.affected = job[k].affected \ {h}
              /\ p.pc = IF p.affected = {} THEN "finish" ELSE "mark"
              /\ Placed(p) /\ MergerJob(p) /\ DemergerJob(p) /\ Later(job[k], p)
              /\ Whole(h)
              /\ \/ status' = [status EXCEPT ![h] = "SUCCESS"] /\ UNCHANGED <<faults, accident>>
                 \/ Fault /\ Befalls({h}, "untold") /\ UNCHANGED status
<1>1. PICK r : r = job[k]
    OBVIOUS
<1>2. r \in JobRecord /\ r.pc = "mark" /\ Placed(r) /\ MergerJob(r)
    BY <1>1, JobOf DEF Static, MarkAccount
<1>3. act = "merger" /\ r.affected # {} /\ r.affected \in SUBSET Accounts /\ \A a \in r.affected : Whole(a)
    BY <1>2 DEF Placed, MergerJob, Resting, JobRecord
<1>4. PICK h : h = First(r.affected)
    OBVIOUS
<1>5. h \in r.affected /\ h \in Accounts
    BY <1>3, <1>4, FirstIn
<1>6. PICK rest : rest = r.affected \ {h}
    OBVIOUS
<1>7. PICK c : c = IF rest = {} THEN "finish" ELSE "mark"
    OBVIOUS
<1>8. PICK p : p = [r EXCEPT !.affected = rest, !.pc = c]
    OBVIOUS
<1>9. /\ p \in JobRecord /\ p.pc = c /\ p.tries = r.tries /\ p.accts = r.accts /\ p.rows = r.rows
      /\ p.affected = rest /\ p.failures = r.failures
    <2>1. c \in Pcs /\ rest \in SUBSET Accounts
        BY <1>3, <1>6, <1>7 DEF Pcs
    <2>2. QED
        BY <1>2, <1>8, <2>1 DEF JobRecord
<1>10. /\ job' = [job EXCEPT ![k] = [job[k] EXCEPT !.affected = rest, !.pc = c]]
       /\ \/ status' = [status EXCEPT ![h] = "SUCCESS"] /\ UNCHANGED <<faults, accident>>
          \/ Fault /\ Befalls({h}, "untold") /\ UNCHANGED status
    <2>1. /\ job' = [job EXCEPT ![k].affected = rest, ![k].pc = c]
          /\ \/ status' = [status EXCEPT ![h] = "SUCCESS"] /\ UNCHANGED <<faults, accident>>
             \/ Fault /\ Befalls({h}, "untold") /\ UNCHANGED status
        BY <1>1, <1>4, <1>6, <1>7 DEF MarkAccount, Tell
    <2>2. job' = [job EXCEPT ![k] = [job[k] EXCEPT !.affected = rest, !.pc = c]]
        BY <1>1, <1>2, <2>1 DEF JobRecord, Static, Typed
    <2>3. QED
        BY <2>1, <2>2
<1>11. Moves(k, p)
    BY <1>1, <1>8, <1>10 DEF Moves
<1>12. Placed(p) /\ DemergerJob(p) /\ Later(r, p)
    BY <1>2, <1>3, <1>7, <1>9 DEF Placed, DemergerJob, Later
<1>13. MergerJob(p)
    <2>1. ~(p.pc \in {"header", "walk", "bulk", "poll"}) /\ (p.pc = "mark" => p.affected # {})
        BY <1>7, <1>9
    <2>2. p.affected \cap p.accts = {} /\ \A a \in p.affected : Whole(a)
        BY <1>2, <1>3, <1>6, <1>9 DEF MergerJob, Resting
    <2>3. QED
        BY <1>7, <1>9, <2>1, <2>2 DEF MergerJob
<1>14. QED
    BY <1>1, <1>2, <1>3, <1>5, <1>6, <1>7, <1>9, <1>10, <1>11, <1>12, <1>13

LEMMA MarkStatic ==
    ASSUME Static, NEW k \in Jobs, MarkAccount(k)
    PROVE  Static'
<1>1. PICK p \in JobRecord, h \in Accounts :
              /\ Moves(k, p)
              /\ Placed(p) /\ MergerJob(p) /\ DemergerJob(p) /\ Later(job[k], p)
              /\ Whole(h)
              /\ \/ status' = [status EXCEPT ![h] = "SUCCESS"] /\ UNCHANGED <<faults, accident>>
                 \/ Fault /\ Befalls({h}, "untold") /\ UNCHANGED status
    BY MarkJob
<1>2. UNCHANGED <<fixed, jobsRow, table, rebuilt, bulk>>
    BY DEF MarkAccount
<1>3. faults' \in Nat /\ accident' \in [Accounts -> SUBSET Accidents]
    <2>1. "untold" \in Accidents
        BY DEF Accidents
    <2>2. QED
        BY <1>1, <2>1, Kept, FaultKept, BefallsTyped DEF Static
<1>4. status' \in [Accounts -> Statuses]
    BY <1>1, Kept DEF Static, Statuses
<1>5. \A a \in Accounts : status'[a] = "SUCCESS" => status[a] = "SUCCESS" \/ Whole(a)
    BY <1>1, Kept DEF Static
<1>6. QED
    BY <1>1, <1>2, <1>3, <1>4, <1>5, Kept, StaticMove DEF Static

LEMMA FinishJob ==
    ASSUME Static, NEW k \in Jobs, Finish(k)
    PROVE  \E p \in JobRecord :
              /\ Moves(k, p) /\ job[k].pc = "finish" /\ job[k].accts = {} /\ p.pc = "done"
              /\ jobsRow' = IF job[k].failures > 0 THEN "FAILED" ELSE "COMPLETED"
              /\ Placed(p) /\ MergerJob(p) /\ DemergerJob(p) /\ Later(job[k], p)
<1>1. PICK r : r = job[k]
    OBVIOUS
<1>2. r \in JobRecord /\ r.pc = "finish" /\ Placed(r)
    BY <1>1, JobOf DEF Static, Finish
<1>3. PICK p : p = [r EXCEPT !.pc = "done"]
    OBVIOUS
<1>4. p \in JobRecord /\ p.pc = "done" /\ p.tries = r.tries
    BY <1>2, <1>3 DEF JobRecord, Pcs
<1>5. Moves(k, p) /\ jobsRow' = IF job[k].failures > 0 THEN "FAILED" ELSE "COMPLETED"
    BY <1>1, <1>3 DEF Finish, Moves
<1>6. r.accts = {}
    BY <1>2 DEF Placed
<1>7. Placed(p) /\ MergerJob(p) /\ DemergerJob(p) /\ Later(r, p)
    BY <1>2, <1>4 DEF Placed, MergerJob, DemergerJob, Later, Resting
<1>8. QED
    BY <1>1, <1>2, <1>4, <1>5, <1>6, <1>7

LEMMA FinishStatic ==
    ASSUME Static, NEW k \in Jobs, Finish(k)
    PROVE  Static'
<1>1. PICK p \in JobRecord :
              /\ Moves(k, p)
              /\ jobsRow' = IF job[k].failures > 0 THEN "FAILED" ELSE "COMPLETED"
              /\ Placed(p) /\ MergerJob(p) /\ DemergerJob(p) /\ Later(job[k], p)
    BY FinishJob
<1>2. UNCHANGED <<fixed, status, table, rebuilt, bulk, faults, accident>>
    BY DEF Finish
<1>3. jobsRow' \in Outcomes
    BY <1>1 DEF Outcomes
<1>4. QED
    BY <1>1, <1>2, <1>3, Kept, StaticMove DEF Static

LEMMA StaticInit ==
    ASSUME Init
    PROVE  Static
<1>1. \A k \in Jobs : job[k] = NewJob("absent", 0)
    BY DEF Init
<1>2. PICK p : p = NewJob("absent", 0)
    OBVIOUS
<1>3. p \in JobRecord /\ p.pc = "absent" /\ p.tries = 0 /\ p = NewJob(p.pc, p.tries)
    <2>1. "absent" \in Pcs
        BY DEF Pcs
    <2>2. QED
        BY <1>2, <2>1, NewJobFields
<1>4. job \in [Jobs -> JobRecord]
    BY <1>2, <1>3 DEF Init
<1>5. Typed
    BY <1>4 DEF Init, Typed
<1>6. Placed(p) /\ MergerJob(p) /\ DemergerJob(p)
    BY <1>3 DEF Placed, MergerJob, DemergerJob, Resting
<1>7. JobsOK
    BY <1>1, <1>2, <1>6 DEF JobsOK
<1>8. BulkOK /\ SuccessIsWhole
    BY DEF Init, BulkOK, SuccessIsWhole
<1>9. QED
    BY <1>5, <1>7, <1>8 DEF Static

LEMMA StaticNext ==
    ASSUME Static, [Next]_vars
    PROVE  Static'
<1>1. CASE UNCHANGED vars
    <2>1. UNCHANGED <<fixed, job, bulk, table, status, rebuilt, faults, accident>> /\ jobsRow' \in Outcomes
        BY <1>1, Kept DEF vars, fixed, Static
    <2>2. QED
        BY <2>1, StaticStays
<1>2. CASE PollStatus
    <2>1. UNCHANGED <<fixed, job, bulk, table, status, rebuilt, faults, accident>> /\ jobsRow' \in Outcomes
        BY <1>2 DEF PollStatus, Outcomes
    <2>2. QED
        BY <2>1, StaticStays
<1>3. ASSUME NEW b \in bulk, BulkEnds(b) PROVE Static'
    BY <1>3, BulkEndsStatic
<1>4. ASSUME NEW k \in Jobs, Apply(k) \/ JobStep(k) PROVE Static'
    <2>1. CASE Apply(k)
        BY <2>1, ApplyStatic
    <2>2. CASE Start(k)
        BY <2>2, StartStatic
    <2>3. CASE Header(k)
        BY <2>3, HeaderStatic
    <2>4. CASE Throws(k)
        <3>1. /\ Death(k) /\ jobsRow' \in Outcomes /\ faults' \in Nat
              /\ UNCHANGED <<fixed, status, table, rebuilt, bulk>>
            BY <2>4, FaultKept DEF Throws, Fail, Death, Outcomes, Static
        <3>2. QED
            BY <3>1, DeathStatic
    <2>5. CASE Killed(k)
        <3>1. /\ Death(k) /\ jobsRow' \in Outcomes /\ faults' \in Nat
              /\ UNCHANGED <<fixed, status, table, rebuilt, bulk>>
            BY <2>5, FaultKept, Kept DEF Killed, Death, Static
        <3>2. QED
            BY <3>1, DeathStatic
    <2>6. CASE SkipAccount(k)
        BY <2>6, SkipStatic
    <2>7. CASE BeginAccount(k)
        BY <2>7, WorkStatic, Kept DEF BeginAccount, Static
    <2>8. CASE StatusUnread(k)
        <3>1. "unread" \in Accidents
            BY DEF Accidents
        <3>2. faults' \in Nat /\ accident' \in [Accounts -> SUBSET Accidents]
            BY <2>8, <3>1, FaultKept, BefallsTyped DEF StatusUnread, Static
        <3>3. QED
            BY <2>8, <3>2, WorkStatic DEF StatusUnread
    <2>9. CASE AccountFails(k)
        BY <2>9, FailsStatic
    <2>10. CASE InsertRow(k)
        BY <2>10, InsertStatic
    <2>11. CASE CreateBulk(k)
        BY <2>11, CreateStatic
    <2>12. CASE Poll(k)
        BY <2>12, PollStatic
    <2>13. CASE QueueRebuilds(k)
        BY <2>13, QueueStatic
    <2>14. CASE MarkAccount(k)
        BY <2>14, MarkStatic
    <2>15. CASE Finish(k)
        BY <2>15, FinishStatic
    <2>16. CASE EmptyUntold(k)
        BY <2>16, EmptyStatic
    <2>17. CASE InsertThrows(k)
        BY <2>17, ThrownStatic
    <2>18. QED
        BY <1>4, <2>1, <2>2, <2>3, <2>4, <2>5, <2>6, <2>7, <2>8, <2>9, <2>10, <2>11, <2>12, <2>13, <2>14, <2>15,
           <2>16, <2>17 DEF JobStep
<1>5. QED
    BY <1>1, <1>2, <1>3, <1>4 DEF Next

----------------------------------------------------------------------------
(* What is known of an account that nothing befell.                         *)

LEMMA BefallsSpares ==
    ASSUME Typed, NEW S, NEW what, Befalls(S, what), NEW a \in Accounts, accident'[a] = {}
    PROVE  accident[a] = {} /\ a \notin S
BY DEF Typed, Befalls

LEMMA DeathSpares ==
    ASSUME Typed, NEW k, Death(k), NEW a \in Accounts, accident'[a] = {}
    PROVE  accident[a] = {} /\ a \notin Untold /\ a \notin Unrebuilt
<1>1. accident'[a] = accident[a] \union (IF a \in Untold THEN {"cut"} ELSE {})
                                \union (IF a \in Unrebuilt THEN {"unbuilt"} ELSE {})
    BY DEF Death
<1>2. QED
    BY <1>1

LEMMA SameRows ==
    ASSUME UNCHANGED <<table, bulk>>, NEW a
    PROVE  Writers(a)' = Writers(a) /\ (HasRows(a)' <=> HasRows(a)) /\ Awaited(a)' = Awaited(a)
BY DEF Writers, HasRows, Awaited

LEMMA WorkerIsAlone ==
    ASSUME NEW a, accident[a] = {}, Clean(a), NEW k \in Jobs, job[k].pc \notin Resting
    PROVE  /\ jobsRow = "RUNNING" /\ \A j \in Jobs : j # k => job[j].pc \in Resting
           /\ Busy(k, job[k], a)
<1>1. AtWork(k)
    BY DEF AtWork, Resting
<1>2. jobsRow = "RUNNING" /\ (\A j \in Jobs : AtWork(j) => j = k) /\ \A r \in {job[k]} : Busy(k, r, a)
    BY <1>1 DEF Clean, Alone
<1>3. QED
    BY <1>2 DEF AtWork, Resting

LEMMA NobodyWorks ==
    ASSUME NEW a, accident[a] = {}, Clean(a), \A k \in Jobs : job[k].pc \in Resting
    PROVE  Idle(a)
BY DEF Clean, AtWork, Resting

LEMMA CleanWorking ==
    ASSUME Typed, NEW a, NEW k \in Jobs, NEW p, Moves(k, p), p.pc \notin Resting,
           \A j \in Jobs : j # k => job[j].pc \in Resting, jobsRow' = "RUNNING", Busy(k, p, a)'
    PROVE  Clean(a)'
<1>1. job'[k] = p /\ \A j \in Jobs : j # k => job'[j] = job[j]
    BY DEF Typed, Moves
<1>2. \A j \in Jobs : AtWork(j)' <=> j = k
    BY <1>1 DEF AtWork, Resting
<1>3. Alone'
    BY <1>2 DEF Alone
<1>4. \A j \in Jobs : AtWork(j)' => \A r \in {job'[j]} : Busy(j, r, a)'
    BY <1>1, <1>2
<1>5. QED
    BY <1>2, <1>3, <1>4 DEF Clean

LEMMA CleanResting ==
    ASSUME Typed, NEW a, NEW k \in Jobs, NEW p, Moves(k, p), p.pc \in Resting,
           \A j \in Jobs : j # k => job[j].pc \in Resting, Idle(a)'
    PROVE  Clean(a)'
<1>1. job'[k] = p /\ \A j \in Jobs : j # k => job'[j] = job[j]
    BY DEF Typed, Moves
<1>2. \A j \in Jobs : ~AtWork(j)'
    BY <1>1 DEF AtWork, Resting
<1>3. QED
    BY <1>2 DEF Clean, Alone

LEMMA ApplyClean ==
    ASSUME Static, NEW k \in Jobs, Apply(k), NEW a \in Accounts, Clean(a), accident'[a] = {}
    PROVE  Clean(a)'
<1>1. /\ job[k].pc = "absent" /\ jobsRow' = "none" /\ job' = [job EXCEPT ![k] = NewJob("queued", 0)]
      /\ (jobsRow = "RUNNING" => \A j \in Jobs : ~AtWork(j))
      /\ UNCHANGED <<fixed, status, table, rebuilt, bulk, accident>>
    BY DEF Apply
<1>2. \A j \in Jobs : job[j].pc \in Resting
    BY <1>1, WorkerIsAlone DEF AtWork, Resting
<1>3. Idle(a)
    BY <1>1, <1>2, NobodyWorks
<1>4. Idle(a)'
    <2>1. Walkers' = Walkers
        BY <1>1, FixedOps
    <2>2. Writers(a)' = Writers(a) /\ (HasRows(a)' <=> HasRows(a)) /\ Awaited(a)' = Awaited(a)
        BY <1>1, SameRows
    <2>3. QED
        BY <1>1, <1>3, <2>1, <2>2 DEF Idle, OneWriter
<1>5. PICK p : p = NewJob("queued", 0)
    OBVIOUS
<1>6. p.pc \in Resting /\ Moves(k, p)
    BY <1>1, <1>5 DEF NewJob, Resting, Moves
<1>7. QED
    BY <1>2, <1>4, <1>6, CleanResting DEF Static

LEMMA PollStatusClean ==
    ASSUME Static, PollStatus, NEW a \in Accounts, Clean(a), accident'[a] = {}
    PROVE  Clean(a)'
<1>1. /\ jobsRow' = "ERROR" /\ \A j \in Jobs : ~AtWork(j)
      /\ UNCHANGED <<fixed, status, table, rebuilt, job, bulk, accident>>
    BY DEF PollStatus
<1>2. Idle(a)
    BY <1>1 DEF Clean
<1>3. Idle(a)'
    <2>1. Walkers' = Walkers
        BY <1>1, FixedOps
    <2>2. Writers(a)' = Writers(a) /\ (HasRows(a)' <=> HasRows(a)) /\ Awaited(a)' = Awaited(a)
        BY <1>1, SameRows
    <2>3. QED
        BY <1>1, <1>2, <2>1, <2>2 DEF Idle, OneWriter
<1>4. \A j \in Jobs : ~AtWork(j)'
    BY <1>1 DEF AtWork
<1>5. QED
    BY <1>3, <1>4 DEF Clean, Alone

LEMMA StartClean ==
    ASSUME Static, NEW k \in Jobs, Start(k), NEW a \in Accounts, Clean(a), accident'[a] = {}
    PROVE  Clean(a)'
<1>1. UNCHANGED <<fixed, status, table, rebuilt, bulk>>
    BY DEF Start
<1>2. accident[a] = {} /\ a \notin (IF \E j \in Jobs : AtWork(j) THEN Accounts ELSE {})
    BY BefallsSpares DEF Start, Static
<1>3. \A j \in Jobs : job[j].pc \in Resting
    BY <1>2 DEF AtWork, Resting
<1>4. Idle(a)
    BY <1>2, <1>3, NobodyWorks
<1>5. Walkers' = Walkers /\ act' = act
    BY <1>1, FixedOps
<1>6. Writers(a)' = Writers(a) /\ (HasRows(a)' <=> HasRows(a)) /\ Awaited(a)' = Awaited(a)
    BY <1>1, SameRows
<1>7. PICK p \in JobRecord :
              /\ Moves(k, p) /\ p.affected = {}
              /\ \/ p.pc = "done" /\ Walkers = {}
                 \/ p.accts = Walkers /\ jobsRow' = "RUNNING" /\ p.pc \in {"walk", "header"}
    BY StartJob
<1>8. CASE p.pc = "done" /\ Walkers = {}
    <2>1. Idle(a)'
        BY <1>1, <1>4, <1>5, <1>6, <1>8 DEF Idle, OneWriter
    <2>2. p.pc \in Resting
        BY <1>8 DEF Resting
    <2>3. QED
        BY <1>3, <1>7, <2>1, <2>2, CleanResting DEF Static
<1>9. CASE p.accts = Walkers /\ jobsRow' = "RUNNING" /\ p.pc \in {"walk", "header"}
    <2>1. Busy(k, p, a)'
        BY <1>1, <1>4, <1>5, <1>6, <1>7, <1>9 DEF Idle, Busy, OneWriter
    <2>2. p.pc \notin Resting
        BY <1>9 DEF Resting
    <2>3. QED
        BY <1>3, <1>7, <1>9, <2>1, <2>2, CleanWorking DEF Static
<1>10. QED
    BY <1>7, <1>8, <1>9

(* A run that is cut: the accounts it leaves in the dark are told apart.    *)
LEMMA DeathClean ==
    ASSUME Static, NEW k \in Jobs, job[k].pc \notin Resting, Death(k),
           UNCHANGED <<fixed, status, table, rebuilt, bulk>>, jobsRow' \in {jobsRow, "FAILED"},
           NEW a \in Accounts, Clean(a), accident'[a] = {}
    PROVE  Clean(a)'
<1>1. accident[a] = {} /\ a \notin Untold /\ a \notin Unrebuilt
    BY DeathSpares DEF Static
<1>2. PICK r : r = job[k]
    OBVIOUS
<1>3. jobsRow = "RUNNING" /\ (\A j \in Jobs : j # k => job[j].pc \in Resting) /\ Busy(k, r, a)
    BY <1>1, <1>2, WorkerIsAlone
<1>4. ASSUME Writers(a) # {} PROVE status[a] = "SUCCESS"
    BY <1>1, <1>4 DEF Untold, Writers
<1>5. ASSUME HasRows(a) PROVE a \in rebuilt
    BY <1>1, <1>5 DEF Unrebuilt, HasRows
<1>6. Awaited(a) = {}
    <2>1. SUFFICES ASSUME NEW b \in Awaited(a) PROVE FALSE
        OBVIOUS
    <2>2. b \in bulk /\ b.st = "running" /\ a \in b.accts /\ r.pc = "poll" /\ b.by = <<k, r.tries>>
        BY <1>3 DEF Awaited, Busy
    <2>3. Submitted(b, r)
        BY <1>2, <2>2 DEF Static, BulkOK
    <2>4. b.accts = r.affected
        BY <2>2, <2>3 DEF Submitted
    <2>5. status[a] = "SUCCESS"
        BY <1>4, <2>2 DEF Writers
    <2>6. act = "merger"
        BY <1>2, <2>2, JobOf DEF Static, Placed
    <2>7. QED
        BY <1>3, <2>2, <2>4, <2>5, <2>6 DEF Busy
<1>7. Idle(a)'
    <2>1. Writers(a)' = Writers(a) /\ (HasRows(a)' <=> HasRows(a)) /\ Awaited(a)' = Awaited(a)
        BY SameRows
    <2>2. QED
        BY <1>3, <1>4, <1>5, <1>6, <2>1 DEF Busy, Idle, OneWriter
<1>8. PICK p : p = Ended(k)
    OBVIOUS
<1>9. Moves(k, p) /\ p.pc \in Resting
    BY <1>8, EndedFields DEF Death, Moves, Resting, Static
<1>10. QED
    BY <1>3, <1>7, <1>9, CleanResting DEF Static

LEMMA HeaderClean ==
    ASSUME Static, NEW k \in Jobs, Header(k), NEW a \in Accounts, Clean(a), accident'[a] = {}
    PROVE  Clean(a)'
<1>1. PICK r : r = job[k]
    OBVIOUS
<1>2. PICK p \in JobRecord :
              /\ Moves(k, p) /\ r.pc = "header"
              /\ p.tries = r.tries /\ p.accts = r.accts /\ p.affected = r.affected /\ p.failures = r.failures
              /\ \/ act = "merger" /\ p.pc = "bulk"
                 \/ act = "demerger" /\ p.pc = "queue"
                 \/ act = "demerger" /\ p.pc = "walk"
    BY <1>1, HeaderJob
<1>3. UNCHANGED <<fixed, jobsRow, status, table, rebuilt, bulk, accident>>
    BY DEF Header
<1>4. jobsRow = "RUNNING" /\ (\A j \in Jobs : j # k => job[j].pc \in Resting) /\ Busy(k, r, a)
    BY <1>1, <1>2, <1>3, WorkerIsAlone DEF Resting
<1>5. Walkers' = Walkers /\ act' = act
    BY <1>3, FixedOps
<1>6. Writers(a)' = Writers(a) /\ (HasRows(a)' <=> HasRows(a)) /\ Awaited(a)' = Awaited(a)
    BY <1>3, SameRows
<1>7. Busy(k, p, a)'
    BY <1>2, <1>3, <1>4, <1>5, <1>6 DEF Busy, OneWriter, Writing, Rebuilding
<1>8. p.pc \notin Resting
    BY <1>2 DEF Resting
<1>9. QED
    BY <1>2, <1>3, <1>4, <1>7, <1>8, CleanWorking DEF Static

(* A walker between two accounts has written nothing that it has not told.  *)
LEMMA WalkerOwes ==
    ASSUME NEW k, NEW r, NEW a, Busy(k, r, a), r.pc = "walk", status[a] # "SUCCESS"
    PROVE  Writers(a) = {}
BY DEF Busy, Writing

LEMMA GatheredIsDue ==
    ASSUME NEW r, MergerJob(r), act = "merger", r.pc = "walk", NEW a \in r.affected
    PROVE  r.rows # {} /\ a \notin r.accts
BY DEF MergerJob, Resting

LEMMA SkipClean ==
    ASSUME Static, NEW k \in Jobs, SkipAccount(k), NEW a \in Accounts, Clean(a), accident'[a] = {}
    PROVE  Clean(a)'
<1>1. PICK r : r = job[k]
    OBVIOUS
<1>2. /\ r.pc = "walk" /\ status[First(r.accts)] = "SUCCESS"
      /\ UNCHANGED <<fixed, jobsRow, status, table, rebuilt, bulk, accident>>
    BY <1>1 DEF SkipAccount, Here
<1>3. PICK p \in JobRecord :
              Moves(k, p) /\ Walked(r, p) /\ p.rows = r.rows /\ p.affected = r.affected
    BY <1>1, SkipJob DEF SkipAccount
<1>4. jobsRow = "RUNNING" /\ (\A j \in Jobs : j # k => job[j].pc \in Resting) /\ Busy(k, r, a)
    BY <1>1, <1>2, WorkerIsAlone DEF Resting
<1>5. Walkers' = Walkers /\ act' = act /\ act \in {"merger", "demerger"}
    BY <1>2, FixedOps DEF Static, Typed
<1>6. Writers(a)' = Writers(a) /\ (HasRows(a)' <=> HasRows(a)) /\ Awaited(a)' = Awaited(a)
    BY <1>2, SameRows
<1>7. act = "merger" /\ a \in r.affected => r.rows # {}
    BY <1>1, <1>2, JobOf, GatheredIsDue DEF Static
<1>8. Busy(k, p, a)'
    BY <1>2, <1>3, <1>4, <1>5, <1>6, <1>7 DEF Busy, OneWriter, Writing, Rebuilding, Walked
<1>9. p.pc \notin Resting
    BY <1>3, <1>5 DEF Walked, Resting
<1>10. QED
    BY <1>2, <1>3, <1>4, <1>8, <1>9, CleanWorking DEF Static

LEMMA WorkClean ==
    ASSUME Static, NEW k \in Jobs, job[k].pc = "walk", Work(k), UNCHANGED <<fixed, jobsRow, table, rebuilt, bulk>>,
           NEW a \in Accounts, Clean(a), accident[a] = {}, a = First(job[k].accts) => status[a] # "SUCCESS"
    PROVE  Clean(a)'
<1>1. PICK r : r = job[k]
    OBVIOUS
<1>2. PICK p \in JobRecord, h \in Accounts :
              /\ Moves(k, p) /\ h = First(r.accts) /\ h \in r.accts
              /\ p.tries = r.tries /\ p.failures = r.failures
              /\ \/ /\ Due(h) = {} /\ Walked(r, p) /\ p.rows = r.rows /\ p.affected = r.affected
                    /\ status' = [status EXCEPT ![h] = "SUCCESS"]
                 \/ /\ act = "merger" /\ Due(h) # {} /\ Walked(r, p)
                    /\ p.rows = r.rows \union Due(h) /\ p.affected = r.affected \union {h}
                    /\ status' = [status EXCEPT ![h] = "RUNNING"]
                 \/ /\ act = "demerger" /\ p.pc = "insert" /\ p.accts = r.accts /\ p.affected = r.affected
                    /\ status' = [status EXCEPT ![h] = "RUNNING"]
    BY <1>1, WorkJob
<1>3. r.pc = "walk"
    BY <1>1
<1>4. jobsRow = "RUNNING" /\ (\A j \in Jobs : j # k => job[j].pc \in Resting) /\ Busy(k, r, a)
    BY <1>1, WorkerIsAlone DEF Resting
<1>5. Walkers' = Walkers /\ act' = act /\ act \in {"merger", "demerger"}
    BY FixedOps DEF Static, Typed
<1>6. Writers(a)' = Writers(a) /\ (HasRows(a)' <=> HasRows(a)) /\ Awaited(a)' = Awaited(a)
    BY SameRows
<1>7. act = "merger" /\ a \in r.affected => r.rows # {} /\ a \notin r.accts
    BY <1>1, JobOf, GatheredIsDue DEF Static
<1>8. status \in [Accounts -> Statuses]
    BY Kept DEF Static
<1>9. a = h => Writers(a) = {}
    BY <1>1, <1>2, <1>3, <1>4, WalkerOwes
<1>10. CASE a # h
    <2>1. status'[a] = status[a]
        BY <1>2, <1>8, <1>10
    <2>2. CASE Walked(r, p) /\ p.affected \in {r.affected, r.affected \union {h}} /\ (r.rows # {} => p.rows # {})
        <3>1. Busy(k, p, a)'
            BY <1>2, <1>3, <1>4, <1>5, <1>6, <1>7, <1>10, <2>1, <2>2
               DEF Busy, OneWriter, Writing, Rebuilding, Walked
        <3>2. p.pc \notin Resting
            BY <1>5, <2>2 DEF Resting, Walked
        <3>3. QED
            BY <1>2, <1>4, <3>1, <3>2, CleanWorking DEF Static
    <2>3. CASE act = "demerger" /\ p.pc = "insert" /\ p.accts = r.accts /\ p.affected = r.affected
        <3>1. Busy(k, p, a)'
            BY <1>2, <1>3, <1>4, <1>5, <1>6, <1>10, <2>1, <2>3 DEF Busy, OneWriter, Writing, Rebuilding
        <3>2. p.pc \notin Resting
            BY <2>3 DEF Resting
        <3>3. QED
            BY <1>2, <1>4, <3>1, <3>2, CleanWorking DEF Static
    <2>4. QED
        BY <1>2, <2>2, <2>3
<1>11. CASE a = h
    <2>1. Busy(k, p, a)'
        BY <1>2, <1>3, <1>4, <1>5, <1>6, <1>7, <1>8, <1>9, <1>11 DEF Busy, OneWriter, Writing, Rebuilding, Walked
    <2>2. p.pc \notin Resting
        BY <1>2, <1>5 DEF Resting, Walked
    <2>3. QED
        BY <1>2, <1>4, <2>1, <2>2, CleanWorking DEF Static
<1>12. QED
    BY <1>10, <1>11

LEMMA FailsClean ==
    ASSUME Static, NEW k \in Jobs, AccountFails(k), NEW a \in Accounts, Clean(a), accident'[a] = {}
    PROVE  Clean(a)'
<1>1. PICK r : r = job[k]
    OBVIOUS
<1>1a. r.pc \in {"walk", "insert"} /\ GivesUp(k)
    BY <1>1 DEF AccountFails
<1>1b. PICK p \in JobRecord, h \in Accounts :
              /\ Moves(k, p) /\ h = First(r.accts) /\ h \in r.accts
              /\ p.tries = r.tries /\ p.failures = 1 /\ p.affected = r.affected
              /\ p.pc \in (IF act = "merger" THEN {"walk", "header", "finish"} ELSE {"walk", "queue"})
              /\ status' = [status EXCEPT ![h] = "FAILED"]
    BY <1>1, <1>1a, FailsJob
<1>2. /\ Moves(k, p) /\ h = First(r.accts) /\ h \in r.accts
      /\ r.pc \in {"walk", "insert"} /\ (r.pc = "walk" => status[h] # "SUCCESS")
      /\ p.tries = r.tries /\ p.failures = 1 /\ p.affected = r.affected
      /\ p.pc \in (IF act = "merger" THEN {"walk", "header", "finish"} ELSE {"walk", "queue"})
      /\ status' = [status EXCEPT ![h] = "FAILED"]
      /\ Befalls(IF HasRows(h) THEN {h} ELSE {}, "cut")
    <2>1. Here(k) = h
        BY <1>1, <1>1b DEF Here
    <2>2. (r.pc = "walk" => status[h] # "SUCCESS") /\ Befalls(IF HasRows(h) THEN {h} ELSE {}, "cut")
        BY <1>1, <2>1 DEF AccountFails, HasRows
    <2>3. QED
        BY <1>1a, <1>1b, <2>2
<1>3. UNCHANGED <<fixed, jobsRow, table, rebuilt, bulk>>
    BY DEF AccountFails
<1>4. accident[a] = {} /\ (a = h => ~HasRows(h))
    BY <1>2, BefallsSpares DEF Static
<1>5. jobsRow = "RUNNING" /\ (\A j \in Jobs : j # k => job[j].pc \in Resting) /\ Busy(k, r, a)
    BY <1>1, <1>2, <1>4, WorkerIsAlone DEF Resting
<1>6. Walkers' = Walkers /\ act' = act /\ act \in {"merger", "demerger"}
    BY <1>3, FixedOps DEF Static, Typed
<1>7. Writers(a)' = Writers(a) /\ (HasRows(a)' <=> HasRows(a)) /\ Awaited(a)' = Awaited(a)
    BY <1>3, SameRows
<1>8. Placed(r) /\ MergerJob(r)
    BY <1>1, JobOf DEF Static
<1>9. r.pc = "insert" => act = "demerger"
    BY <1>8 DEF Placed
<1>10. act = "merger" /\ a \in r.affected => a # h
    BY <1>2, <1>8, <1>9 DEF MergerJob, Resting
<1>11. a = h => Writers(a) = {}
    <2>1. CASE r.pc = "walk"
        BY <1>2, <1>5, <2>1, WalkerOwes
    <2>2. CASE r.pc = "insert"
        <3>1. bulk = {}
            BY <1>9, <2>2 DEF Static, BulkOK
        <3>2. QED
            BY <1>4, <3>1 DEF Writers, HasRows
    <2>3. QED
        BY <1>2, <2>1, <2>2
<1>12. status \in [Accounts -> Statuses]
    BY Kept DEF Static
<1>13. CASE a # h
    <2>1. status'[a] = status[a]
        BY <1>2, <1>12, <1>13
    <2>2. Busy(k, p, a)'
        BY <1>2, <1>3, <1>5, <1>6, <1>7, <1>9, <1>13, <2>1 DEF Busy, OneWriter, Writing, Rebuilding
    <2>3. p.pc \notin Resting
        BY <1>2, <1>6 DEF Resting
    <2>4. QED
        BY <1>2, <1>3, <1>5, <2>2, <2>3, CleanWorking DEF Static
<1>14. CASE a = h
    <2>1. status'[a] = "FAILED"
        BY <1>2, <1>12, <1>14
    <2>2. Busy(k, p, a)'
        BY <1>2, <1>3, <1>5, <1>6, <1>7, <1>9, <1>10, <1>11, <1>14, <2>1 DEF Busy, OneWriter, Writing, Rebuilding
    <2>3. p.pc \notin Resting
        BY <1>2, <1>6 DEF Resting
    <2>4. QED
        BY <1>2, <1>3, <1>5, <2>2, <2>3, CleanWorking DEF Static
<1>15. QED
    BY <1>13, <1>14

LEMMA EmptyClean ==
    ASSUME Static, NEW k \in Jobs, EmptyUntold(k), NEW a \in Accounts, Clean(a), accident'[a] = {}
    PROVE  Clean(a)'
<1>1. PICK r : r = job[k]
    OBVIOUS
<1>2. /\ r.pc = "walk" /\ status' = [status EXCEPT ![First(r.accts)] = "RUNNING"]
      /\ Befalls({First(r.accts)}, "untold")
      /\ UNCHANGED <<fixed, jobsRow, table, rebuilt, bulk>>
    BY <1>1 DEF EmptyUntold, Here, Tell
<1>3. accident[a] = {} /\ a # First(r.accts)
    BY <1>2, BefallsSpares DEF Static
<1>4. status'[a] = status[a]
    <2>1. status \in [Accounts -> Statuses]
        BY Kept DEF Static
    <2>2. QED
        BY <1>2, <1>3, <2>1
<1>5. PICK p \in JobRecord :
              Moves(k, p) /\ Walked(r, p) /\ p.rows = r.rows /\ p.affected = r.affected
    BY <1>1, SkipJob DEF EmptyUntold
<1>6. jobsRow = "RUNNING" /\ (\A j \in Jobs : j # k => job[j].pc \in Resting) /\ Busy(k, r, a)
    BY <1>1, <1>2, <1>3, WorkerIsAlone DEF Resting
<1>7. Walkers' = Walkers /\ act' = act /\ act \in {"merger", "demerger"}
    BY <1>2, FixedOps DEF Static, Typed
<1>8. Writers(a)' = Writers(a) /\ (HasRows(a)' <=> HasRows(a)) /\ Awaited(a)' = Awaited(a)
    BY <1>2, SameRows
<1>9. act = "merger" /\ a \in r.affected => r.rows # {}
    BY <1>1, <1>2, JobOf, GatheredIsDue DEF Static
<1>10. Busy(k, p, a)'
    BY <1>2, <1>3, <1>4, <1>5, <1>6, <1>7, <1>8, <1>9 DEF Busy, OneWriter, Writing, Rebuilding, Walked
<1>11. p.pc \notin Resting
    BY <1>5, <1>7 DEF Walked, Resting
<1>12. QED
    BY <1>2, <1>5, <1>6, <1>10, <1>11, CleanWorking DEF Static

LEMMA ThrownClean ==
    ASSUME Static, NEW k \in Jobs, InsertThrows(k), NEW a \in Accounts, Clean(a), accident'[a] = {}
    PROVE  Clean(a)'
<1>1. PICK p \in JobRecord, h \in Accounts, m \in AllDue :
              /\ m \in Due(h)
              /\ Moves(k, p) /\ h = First(job[k].accts) /\ h \in job[k].accts
              /\ job[k].pc = "insert" /\ act = "demerger"
              /\ p.tries = job[k].tries /\ p.failures = 1 /\ p.affected = job[k].affected
              /\ p.pc \in {"walk", "queue"}
              /\ table' = table \union {[acct |-> h, row |-> m.row, by |-> <<k, job[k].tries>>]}
              /\ rebuilt' = rebuilt \ {h}
              /\ status' = [status EXCEPT ![h] = "FAILED"]
              /\ Befalls({h}, "cut")
    BY ZenonT(60), ThrownJob
<1>2. PICK r : r = job[k]
    OBVIOUS
<1>3. UNCHANGED <<fixed, jobsRow, bulk>>
    BY DEF InsertThrows
<1>4. accident[a] = {} /\ a # h
    BY <1>1, BefallsSpares DEF Static
<1>5. r.pc = "insert" /\ jobsRow = "RUNNING" /\ (\A j \in Jobs : j # k => job[j].pc \in Resting) /\ Busy(k, r, a)
    BY <1>1, <1>2, <1>4, WorkerIsAlone DEF Resting
<1>6. Walkers' = Walkers /\ act' = act /\ act # "merger"
    BY <1>1, <1>3, FixedOps
<1>7. bulk = {} /\ bulk' = {}
    BY <1>1, <1>3 DEF Static, BulkOK
<1>8. Awaited(a) = {} /\ Awaited(a)' = {}
    BY <1>7 DEF Awaited
<1>9. Writers(a)' = Writers(a) /\ (HasRows(a)' <=> HasRows(a))
    BY <1>1, <1>4, <1>7 DEF Writers, HasRows
<1>10. status'[a] = status[a] /\ (a \in rebuilt' <=> a \in rebuilt)
    <2>1. status \in [Accounts -> Statuses]
        BY Kept DEF Static
    <2>2. QED
        BY <1>1, <1>4, <2>1
<1>11. p.tries = r.tries /\ p.failures = 1 /\ p.affected = r.affected /\ p.pc \in {"walk", "queue"}
       /\ h = First(r.accts)
    BY <1>1, <1>2
<1>12. Busy(k, p, a)'
    BY <1>4, <1>5, <1>6, <1>8, <1>9, <1>10, <1>11 DEF Busy, OneWriter, Writing, Rebuilding
<1>13. p.pc \notin Resting
    BY <1>11 DEF Resting
<1>14. QED
    BY <1>1, <1>3, <1>5, <1>12, <1>13, CleanWorking DEF Static

LEMMA InsertClean ==
    ASSUME Static, NEW k \in Jobs, InsertRow(k), NEW a \in Accounts, Clean(a), accident'[a] = {}
    PROVE  Clean(a)'
<1>0. PICK p \in JobRecord, h \in Accounts, m \in AllDue :
              /\ m \in Due(h)
              /\ Moves(k, p) /\ h = First(job[k].accts) /\ h \in job[k].accts
              /\ job[k].pc = "insert" /\ act = "demerger"
              /\ p.tries = job[k].tries /\ p.failures = job[k].failures /\ p.affected = job[k].affected \union {h}
              /\ p.pc \in {"walk", "insert", "queue"}
              /\ table' = table \union {[acct |-> h, row |-> m.row, by |-> <<k, job[k].tries>>]}
              /\ rebuilt' = rebuilt \ {h}
              /\ \/ /\ p.pc = "insert" /\ p.accts = job[k].accts
                    /\ UNCHANGED <<status, faults, accident>>
                 \/ /\ p.pc # "insert" /\ p.accts = job[k].accts \ {h}
                    /\ \/ status' = [status EXCEPT ![h] = "SUCCESS"] /\ UNCHANGED <<faults, accident>>
                       \/ Fault /\ Befalls({h}, "untold") /\ UNCHANGED status
    BY ZenonT(60), InsertJob
<1>1. PICK r : r = job[k]
    OBVIOUS
<1>2. /\ m \in Due(h)
      /\ Moves(k, p) /\ h = First(r.accts) /\ h \in r.accts
      /\ r.pc = "insert" /\ act = "demerger"
      /\ p.tries = r.tries /\ p.failures = r.failures /\ p.affected = r.affected \union {h}
      /\ p.pc \in {"walk", "insert", "queue"}
      /\ table' = table \union {[acct |-> h, row |-> m.row, by |-> <<k, r.tries>>]}
      /\ rebuilt' = rebuilt \ {h}
      /\ \/ /\ p.pc = "insert" /\ p.accts = r.accts
            /\ UNCHANGED <<status, faults, accident>>
         \/ /\ p.pc # "insert" /\ p.accts = r.accts \ {h}
            /\ \/ status' = [status EXCEPT ![h] = "SUCCESS"] /\ UNCHANGED <<faults, accident>>
               \/ Fault /\ Befalls({h}, "untold") /\ UNCHANGED status
    BY <1>0, <1>1
<1>3. UNCHANGED <<fixed, jobsRow, bulk>>
    BY DEF InsertRow
<1>4. accident[a] = {} /\ (a = h /\ p.pc # "insert" => status' = [status EXCEPT ![h] = "SUCCESS"])
    BY <1>2, BefallsSpares DEF Static
<1>5. jobsRow = "RUNNING" /\ (\A j \in Jobs : j # k => job[j].pc \in Resting) /\ Busy(k, r, a)
    BY <1>1, <1>2, <1>4, WorkerIsAlone DEF Resting
<1>6. Walkers' = Walkers /\ act' = act /\ act # "merger"
    BY <1>2, <1>3, FixedOps
<1>7. bulk = {} /\ bulk' = {}
    BY <1>2, <1>3 DEF Static, BulkOK
<1>8. Awaited(a) = {} /\ Awaited(a)' = {}
    BY <1>7 DEF Awaited
<1>9. status \in [Accounts -> Statuses]
    BY Kept DEF Static
<1>10. p.pc \notin Resting
    BY <1>2 DEF Resting
<1>11. CASE a # h
    <2>1. Writers(a)' = Writers(a) /\ (HasRows(a)' <=> HasRows(a))
        BY <1>2, <1>7, <1>11 DEF Writers, HasRows
    <2>2. status'[a] = status[a] /\ (a \in rebuilt' <=> a \in rebuilt)
        BY <1>2, <1>9, <1>11
    <2>3. a \notin p.accts => a \notin r.accts
        BY <1>2, <1>11
    <2>4. Busy(k, p, a)'
        BY <1>2, <1>5, <1>6, <1>8, <1>11, <2>1, <2>2, <2>3 DEF Busy, OneWriter, Writing, Rebuilding
    <2>5. QED
        BY <1>2, <1>3, <1>5, <1>10, <2>4, CleanWorking DEF Static
<1>12. CASE a = h
    <2>1. Writers(a) \subseteq {<<k, r.tries>>}
        BY <1>2, <1>5, <1>12 DEF Busy
    <2>2. Writers(a)' = {<<k, r.tries>>}
        <3>1. PICK n : n = [acct |-> h, row |-> m.row, by |-> <<k, r.tries>>]
            OBVIOUS
        <3>2. table' = table \union {n} /\ n.acct = a /\ n.by = <<k, r.tries>>
            BY <1>2, <1>12, <3>1
        <3>3. QED
            BY <1>7, <2>1, <3>2 DEF Writers
    <2>3. p.pc # "insert" => status'[a] = "SUCCESS"
        BY <1>4, <1>9, <1>12
    <2>4. Busy(k, p, a)'
        BY <1>2, <1>5, <1>6, <1>8, <1>12, <2>2, <2>3 DEF Busy, OneWriter, Writing, Rebuilding
    <2>5. QED
        BY <1>2, <1>3, <1>5, <1>10, <2>4, CleanWorking DEF Static
<1>13. QED
    BY <1>11, <1>12

LEMMA CreateClean ==
    ASSUME Static, NEW k \in Jobs, CreateBulk(k), NEW a \in Accounts, Clean(a), accident'[a] = {}
    PROVE  Clean(a)'
<1>1. PICK r : r = job[k]
    OBVIOUS
<1>2. PICK p \in JobRecord, c \in BulkRecord :
              /\ Moves(k, p) /\ r.pc = "bulk" /\ act = "merger" /\ p.pc = "poll"
              /\ p.tries = r.tries /\ p.accts = r.accts /\ p.affected = r.affected /\ p.failures = r.failures
              /\ bulk' = bulk \union {c} /\ c.by = <<k, r.tries>> /\ c.st = "running" /\ c.accts = r.affected
    BY <1>1, CreateJob
<1>3. UNCHANGED <<fixed, jobsRow, status, table, rebuilt, accident>>
    BY DEF CreateBulk
<1>4. jobsRow = "RUNNING" /\ (\A j \in Jobs : j # k => job[j].pc \in Resting) /\ Busy(k, r, a)
    BY <1>1, <1>2, <1>3, WorkerIsAlone DEF Resting
<1>5. Walkers' = Walkers /\ act' = act
    BY <1>3, FixedOps
<1>6. Awaited(a) = {}
    BY <1>2, <1>4 DEF Busy
<1>7. \A b \in Awaited(a)' : b.by = <<k, r.tries>>
    BY <1>2, <1>6 DEF Awaited
<1>8. HasRows(a)' <=> HasRows(a)
    BY <1>3 DEF HasRows
<1>9. a \in r.affected => Writers(a)' = {<<k, r.tries>>}
    <2>1. a \in r.affected => Writers(a) = {}
        BY <1>2, <1>4 DEF Busy
    <2>2. ASSUME a \in r.affected PROVE \A x : x \in Writers(a)' <=> x \in Writers(a) \/ x = c.by
        BY <1>2, <1>3, <2>2 DEF Writers
    <2>3. QED
        BY <1>2, <2>1, <2>2
<1>10. a \notin r.affected => Writers(a)' = Writers(a)
    BY <1>2, <1>3 DEF Writers
<1>11. Busy(k, p, a)'
    BY <1>2, <1>3, <1>4, <1>5, <1>7, <1>8, <1>9, <1>10 DEF Busy, OneWriter, Writing, Rebuilding
<1>12. p.pc \notin Resting
    BY <1>2 DEF Resting
<1>13. QED
    BY <1>2, <1>3, <1>4, <1>11, <1>12, CleanWorking DEF Static

LEMMA BulkEndsClean ==
    ASSUME Static, NEW b \in bulk, BulkEnds(b), NEW a \in Accounts, Clean(a), accident'[a] = {}
    PROVE  Clean(a)'
<1>1. PICK c \in BulkRecord :
              /\ b \in BulkRecord /\ b.st = "running" /\ c.by = b.by /\ c.rows = b.rows
              /\ bulk' = (bulk \ {b}) \union {c}
              /\ \/ /\ c.st = "completed" /\ c.accts = b.accts
                    /\ table' = table \union {[acct |-> m.acct, row |-> m.row, by |-> b.by] : m \in b.rows}
                    /\ rebuilt' = rebuilt \ b.accts
                 \/ /\ c.st = "failed" /\ c.accts = {}
                    /\ UNCHANGED <<table, rebuilt>>
    BY BulkEnded
<1>2. UNCHANGED <<fixed, jobsRow, status, job, accident>>
    BY DEF BulkEnds
<1>3. Walkers' = Walkers /\ act' = act
    BY <1>2, FixedOps
<1>4. \A m \in b.rows : m.acct \in b.accts
    BY <1>1 DEF Static, BulkOK
<1>5. Writers(a)' \subseteq Writers(a)
    <2>1. ASSUME NEW x \in Writers(a)' PROVE x \in Writers(a)
        <3>1. CASE \E s \in table' : s.acct = a /\ x = s.by
            BY <1>1, <1>4, <3>1 DEF Writers
        <3>2. CASE \E d \in bulk' : a \in d.accts /\ x = d.by
            BY <1>1, <3>2 DEF Writers
        <3>3. QED
            BY <2>1, <3>1, <3>2 DEF Writers
    <2>2. QED
        BY <2>1
<1>6. Awaited(a)' \subseteq Awaited(a)
    BY <1>1 DEF Awaited
<1>7. a \notin b.accts => (HasRows(a)' <=> HasRows(a)) /\ (a \in rebuilt' <=> a \in rebuilt)
    BY <1>1, <1>4 DEF HasRows
<1>8. a \in b.accts => b \in Awaited(a)
    BY <1>1 DEF Awaited
<1>9. a \in b.accts /\ c.st = "failed" => (HasRows(a)' <=> HasRows(a)) /\ (a \in rebuilt' <=> a \in rebuilt)
    BY <1>1 DEF HasRows
<1>10. CASE \E k \in Jobs : job[k].pc \notin Resting
    <2>1. PICK k \in Jobs : job[k].pc \notin Resting
        BY <1>10
    <2>2. PICK r : r = job[k]
        OBVIOUS
    <2>3. jobsRow = "RUNNING" /\ (\A j \in Jobs : j # k => job[j].pc \in Resting) /\ Busy(k, r, a)
        BY <1>2, <2>1, <2>2, WorkerIsAlone
    <2>4. a \in b.accts => r.pc = "poll" /\ act = "merger" /\ a \in r.affected
        <3>1. SUFFICES ASSUME a \in b.accts PROVE r.pc = "poll" /\ act = "merger" /\ a \in r.affected
            OBVIOUS
        <3>2. r.pc = "poll" /\ b.by = <<k, r.tries>>
            BY <1>8, <2>3, <3>1 DEF Busy
        <3>3. Submitted(b, r)
            BY <2>2, <3>2 DEF Static, BulkOK
        <3>4. b.accts = r.affected
            BY <1>1, <3>2, <3>3 DEF Submitted
        <3>5. QED
            BY <2>2, <3>1, <3>2, <3>4, JobOf DEF Static, Placed
    <2>5. Writers(a)' # {} /\ status[a] # "SUCCESS" => <<k, r.tries>> \in Writers(a)'
        BY <1>5, <2>3 DEF Busy, OneWriter
    <2>6. HasRows(a)' /\ a \notin rebuilt' => Rebuilding(r, a)
        BY <1>1, <1>7, <1>9, <2>3, <2>4 DEF Busy, Rebuilding
    <2>7. Busy(k, r, a)'
        BY <1>2, <1>3, <1>5, <1>6, <2>3, <2>5, <2>6 DEF Busy, OneWriter, Writing, Rebuilding
    <2>8. Moves(k, r)
        BY <1>2, <2>2 DEF Moves, Static, Typed
    <2>9. QED
        BY <1>2, <2>1, <2>2, <2>3, <2>7, <2>8, CleanWorking DEF Static
<1>11. CASE \A k \in Jobs : job[k].pc \in Resting
    <2>1. Idle(a)
        BY <1>2, <1>11, NobodyWorks
    <2>2. a \notin b.accts
        BY <1>8, <2>1 DEF Idle
    <2>3. Idle(a)'
        BY <1>2, <1>3, <1>5, <1>6, <1>7, <2>1, <2>2 DEF Idle, OneWriter
    <2>4. \A k \in Jobs : ~AtWork(k)'
        BY <1>2, <1>11 DEF AtWork, Resting
    <2>5. QED
        BY <2>3, <2>4 DEF Clean, Alone
<1>12. QED
    BY <1>10, <1>11

LEMMA PollClean ==
    ASSUME Static, NEW k \in Jobs, Poll(k), NEW a \in Accounts, Clean(a), accident'[a] = {}
    PROVE  Clean(a)'
<1>1. UNCHANGED <<fixed, status, table, rebuilt, bulk>> /\ job[k].pc = "poll"
    BY DEF Poll
<1>2. CASE Fail(k)
    <2>1. Death(k) /\ jobsRow' \in {jobsRow, "FAILED"} /\ job[k].pc \notin Resting
        BY <1>1, <1>2 DEF Fail, Death, Resting
    <2>2. QED
        BY <1>1, <2>1, DeathClean
<1>3. CASE ~Fail(k)
    <2>1. PICK r : r = job[k]
        OBVIOUS
    <2>2. UNCHANGED <<jobsRow, accident>>
        BY <1>3, PollJob
    <2>3. PICK b \in bulk : b.by = <<k, r.tries>> /\ b.st = "completed"
        BY <1>3, <2>1, PollJob
    <2>4. PICK p \in JobRecord :
              /\ Moves(k, p) /\ r.pc = "poll" /\ act = "merger" /\ p.pc = "queue"
              /\ p.tries = r.tries /\ p.accts = r.accts /\ p.affected = r.affected /\ p.failures = r.failures
        BY <1>3, <2>1, PollJob
    <2>5. jobsRow = "RUNNING" /\ (\A j \in Jobs : j # k => job[j].pc \in Resting) /\ Busy(k, r, a)
        BY <1>1, <2>1, <2>2, WorkerIsAlone DEF Resting
    <2>6. Walkers' = Walkers /\ act' = act
        BY <1>1, FixedOps
    <2>7. Writers(a)' = Writers(a) /\ (HasRows(a)' <=> HasRows(a)) /\ Awaited(a)' = Awaited(a)
        BY <1>1, SameRows
    <2>8. Awaited(a) = {}
        BY <2>3, <2>5 DEF Busy, Awaited, Static, BulkOK
    <2>9. Busy(k, p, a)'
        BY <1>1, <2>4, <2>5, <2>6, <2>7, <2>8 DEF Busy, OneWriter, Writing, Rebuilding
    <2>10. p.pc \notin Resting
        BY <2>4 DEF Resting
    <2>11. QED
        BY <2>2, <2>4, <2>5, <2>9, <2>10, CleanWorking DEF Static
<1>4. QED
    BY <1>2, <1>3

LEMMA QueueClean ==
    ASSUME Static, NEW k \in Jobs, QueueRebuilds(k), NEW a \in Accounts, Clean(a), accident'[a] = {}
    PROVE  Clean(a)'
<1>1. PICK r : r = job[k]
    OBVIOUS
<1>2. PICK p \in JobRecord :
              /\ Moves(k, p) /\ r.pc = "queue" /\ p.pc = IF act = "merger" THEN "mark" ELSE "finish"
              /\ p.tries = r.tries /\ p.accts = r.accts /\ p.affected = r.affected /\ p.failures = r.failures
              /\ rebuilt' = rebuilt \union p.affected
    BY <1>1, QueueJob
<1>3. UNCHANGED <<fixed, jobsRow, status, table, bulk, accident>>
    BY DEF QueueRebuilds
<1>4. jobsRow = "RUNNING" /\ (\A j \in Jobs : j # k => job[j].pc \in Resting) /\ Busy(k, r, a)
    BY <1>1, <1>2, <1>3, WorkerIsAlone DEF Resting
<1>5. Walkers' = Walkers /\ act' = act
    BY <1>3, FixedOps
<1>6. Writers(a)' = Writers(a) /\ (HasRows(a)' <=> HasRows(a)) /\ Awaited(a)' = Awaited(a)
    BY <1>3, SameRows
<1>7. Busy(k, p, a)'
    BY <1>2, <1>3, <1>4, <1>5, <1>6 DEF Busy, OneWriter, Writing, Rebuilding
<1>8. p.pc \notin Resting
    BY <1>2 DEF Resting
<1>9. QED
    BY <1>2, <1>3, <1>4, <1>7, <1>8, CleanWorking DEF Static

LEMMA MarkClean ==
    ASSUME Static, NEW k \in Jobs, MarkAccount(k), NEW a \in Accounts, Clean(a), accident'[a] = {}
    PROVE  Clean(a)'
<1>1. PICK r : r = job[k]
    OBVIOUS
<1>2. PICK p \in JobRecord, h \in Accounts :
              /\ Moves(k, p) /\ r.pc = "mark" /\ act = "merger" /\ h \in r.affected
              /\ p.tries = r.tries /\ p.accts = r.accts /\ p.failures = r.failures
              /\ p.affected = r.affected \ {h}
              /\ p.pc = IF p.affected = {} THEN "finish" ELSE "mark"
              /\ \/ status' = [status EXCEPT ![h] = "SUCCESS"] /\ UNCHANGED <<faults, accident>>
                 \/ Fault /\ Befalls({h}, "untold") /\ UNCHANGED status
    BY <1>1, MarkJob
<1>3. UNCHANGED <<fixed, jobsRow, table, rebuilt, bulk>>
    BY DEF MarkAccount
<1>4. status \in [Accounts -> Statuses]
    BY Kept DEF Static
<1>5. accident[a] = {} /\ status'[a] = IF a = h THEN "SUCCESS" ELSE status[a]
    BY <1>2, <1>4, BefallsSpares DEF Static
<1>6. jobsRow = "RUNNING" /\ (\A j \in Jobs : j # k => job[j].pc \in Resting) /\ Busy(k, r, a)
    BY <1>1, <1>2, <1>5, WorkerIsAlone DEF Resting
<1>7. Walkers' = Walkers /\ act' = act
    BY <1>3, FixedOps
<1>8. Writers(a)' = Writers(a) /\ (HasRows(a)' <=> HasRows(a)) /\ Awaited(a)' = Awaited(a)
    BY <1>3, SameRows
<1>9. a # h /\ a \in r.affected => p.pc = "mark" /\ a \in p.affected
    BY <1>2
<1>10. p.pc \in {"finish", "mark"} /\ (a \in p.affected => a \in r.affected)
    BY <1>2
<1>11. Busy(k, p, a)'
    BY <1>2, <1>3, <1>5, <1>6, <1>7, <1>8, <1>9, <1>10 DEF Busy, OneWriter, Writing, Rebuilding
<1>12. p.pc \notin Resting
    BY <1>10 DEF Resting
<1>13. QED
    BY <1>2, <1>3, <1>6, <1>11, <1>12, CleanWorking DEF Static

LEMMA FinishClean ==
    ASSUME Static, NEW k \in Jobs, Finish(k), NEW a \in Accounts, Clean(a), accident'[a] = {}
    PROVE  Clean(a)'
<1>1. PICK r : r = job[k]
    OBVIOUS
<1>2. PICK p \in JobRecord :
              /\ Moves(k, p) /\ r.pc = "finish" /\ r.accts = {} /\ p.pc = "done"
              /\ jobsRow' = IF r.failures > 0 THEN "FAILED" ELSE "COMPLETED"
    BY <1>1, FinishJob
<1>3. UNCHANGED <<fixed, status, table, rebuilt, bulk, accident>>
    BY DEF Finish
<1>4. jobsRow = "RUNNING" /\ (\A j \in Jobs : j # k => job[j].pc \in Resting) /\ Busy(k, r, a)
    BY <1>1, <1>2, <1>3, WorkerIsAlone DEF Resting
<1>5. Walkers' = Walkers /\ act' = act
    BY <1>3, FixedOps
<1>6. Writers(a)' = Writers(a) /\ (HasRows(a)' <=> HasRows(a)) /\ Awaited(a)' = Awaited(a)
    BY <1>3, SameRows
<1>7. jobsRow' = "COMPLETED" => r.failures = 0
    <2>1. r.failures \in {0, 1}
        BY <1>1 DEF Static, Typed, JobRecord
    <2>2. QED
        BY <1>2, <2>1
<1>8. Idle(a)'
    BY <1>2, <1>3, <1>4, <1>5, <1>6, <1>7 DEF Busy, Idle, OneWriter, Writing, Rebuilding
<1>9. p.pc \in Resting
    BY <1>2 DEF Resting
<1>10. QED
    BY <1>2, <1>4, <1>8, <1>9, CleanResting DEF Static

----------------------------------------------------------------------------
(* The invariant, and what follows from it.                                 *)

LEMMA CleanInit ==
    ASSUME Init, NEW a \in Accounts
    PROVE  Clean(a)
<1>1. \A k \in Jobs : ~AtWork(k)
    BY DEF Init, AtWork, NewJob
<1>2. Writers(a) = {} /\ ~HasRows(a) /\ Awaited(a) = {}
    BY DEF Init, Writers, HasRows, Awaited
<1>3. Idle(a)
    BY <1>2 DEF Idle, OneWriter, Init
<1>4. QED
    BY <1>1, <1>3 DEF Clean, Alone

LEMMA CleanNext ==
    ASSUME Static, [Next]_vars, NEW a \in Accounts, Clean(a)
    PROVE  Clean(a)'
<1>1. SUFFICES ASSUME accident'[a] = {} PROVE Clean(a)'
    BY DEF Clean
<1>2. CASE UNCHANGED vars
    <2>1. /\ act' = act /\ book' = book /\ jobsRow' = jobsRow /\ status' = status /\ table' = table
          /\ rebuilt' = rebuilt /\ job' = job /\ bulk' = bulk /\ accident' = accident
        BY <1>2 DEF vars
    <2>2. Walkers' = Walkers
        BY <2>1 DEF Walkers
    <2>3. Writers(a)' = Writers(a) /\ (HasRows(a)' <=> HasRows(a)) /\ Awaited(a)' = Awaited(a)
        BY <2>1, SameRows
    <2>4. (Idle(a)' <=> Idle(a)) /\ \A k, r : Busy(k, r, a)' <=> Busy(k, r, a)
        BY <2>1, <2>2, <2>3 DEF Idle, Busy, OneWriter, Writing, Rebuilding
    <2>5. QED
        BY <2>1, <2>4 DEF Clean, Alone, AtWork
<1>3. CASE PollStatus
    BY <1>1, <1>3, PollStatusClean
<1>4. ASSUME NEW b \in bulk, BulkEnds(b) PROVE Clean(a)'
    BY <1>1, <1>4, BulkEndsClean
<1>5. ASSUME NEW k \in Jobs, Apply(k) \/ JobStep(k) PROVE Clean(a)'
    <2>1. CASE Apply(k)
        BY <1>1, <2>1, ApplyClean
    <2>2. CASE Start(k)
        BY <1>1, <2>2, StartClean
    <2>3. CASE Header(k)
        BY <1>1, <2>3, HeaderClean
    <2>4. CASE Throws(k)
        <3>1. /\ Death(k) /\ jobsRow' \in {jobsRow, "FAILED"}
              /\ UNCHANGED <<fixed, status, table, rebuilt, bulk>>
            BY <2>4 DEF Throws, Fail, Death
        <3>2. job[k].pc \notin Resting
            BY <2>4 DEF Throws, Resting
        <3>3. QED
            BY <1>1, <3>1, <3>2, DeathClean
    <2>5. CASE Killed(k)
        <3>1. /\ Death(k) /\ jobsRow' \in {jobsRow, "FAILED"}
              /\ UNCHANGED <<fixed, status, table, rebuilt, bulk>>
            BY <2>5 DEF Killed, Death
        <3>2. job[k].pc \notin Resting
            BY <2>5 DEF Killed, AtWork, Resting
        <3>3. QED
            BY <1>1, <3>1, <3>2, DeathClean
    <2>6. CASE SkipAccount(k)
        BY <1>1, <2>6, SkipClean
    <2>7. CASE BeginAccount(k)
        <3>1. accident[a] = {} /\ (a = First(job[k].accts) => status[a] # "SUCCESS")
            BY <1>1, <2>7 DEF BeginAccount, Here
        <3>2. QED
            BY <2>7, <3>1, WorkClean DEF BeginAccount
    <2>8. CASE StatusUnread(k)
        <3>1. accident[a] = {} /\ a # First(job[k].accts)
            BY <1>1, <2>8, BefallsSpares DEF StatusUnread, Here, Static
        <3>2. QED
            BY <2>8, <3>1, WorkClean DEF StatusUnread
    <2>9. CASE AccountFails(k)
        BY <1>1, <2>9, FailsClean
    <2>10. CASE InsertRow(k)
        BY <1>1, <2>10, InsertClean
    <2>11. CASE CreateBulk(k)
        BY <1>1, <2>11, CreateClean
    <2>12. CASE Poll(k)
        BY <1>1, <2>12, PollClean
    <2>13. CASE QueueRebuilds(k)
        BY <1>1, <2>13, QueueClean
    <2>14. CASE MarkAccount(k)
        BY <1>1, <2>14, MarkClean
    <2>15. CASE Finish(k)
        BY <1>1, <2>15, FinishClean
    <2>16. CASE EmptyUntold(k)
        BY <1>1, <2>16, EmptyClean
    <2>17. CASE InsertThrows(k)
        BY <1>1, <2>17, ThrownClean
    <2>18. QED
        BY <1>5, <2>1, <2>2, <2>3, <2>4, <2>5, <2>6, <2>7, <2>8, <2>9, <2>10, <2>11, <2>12, <2>13, <2>14, <2>15,
           <2>16, <2>17 DEF JobStep
<1>6. QED
    BY <1>2, <1>3, <1>4, <1>5 DEF Next

THEOREM Invariant == Spec => []IInv
<1>1. Init => IInv
    BY StaticInit, CleanInit DEF IInv
<1>2. IInv /\ [Next]_vars => IInv'
    <2>1. SUFFICES ASSUME IInv, [Next]_vars PROVE IInv'
        OBVIOUS
    <2>2. Static'
        BY <2>1, StaticNext DEF IInv
    <2>3. \A a \in Accounts : Clean(a)'
        BY <2>1, CleanNext DEF IInv
    <2>4. QED
        BY <2>2, <2>3 DEF IInv
<1>3. QED
    BY <1>1, <1>2, PTL DEF Spec

(* Nothing is written twice for an account that no accident befell: all its *)
(* rows are of one attempt of one application (the status that MegerFn and  *)
(* DemergerFn read before they work at an account).                         *)
THEOREM WrittenOnce == Spec => []AppliedOnce
<1>1. IInv => AppliedOnce
    <2>1. SUFFICES ASSUME IInv, NEW r \in table, NEW s \in table, r.acct = s.acct, r.row = s.row,
                          accident[r.acct] = {}
                   PROVE  r = s
        BY DEF AppliedOnce
    <2>2. PICK m \in AllDue, x \in Attempts : r = [acct |-> m.acct, row |-> m.row, by |-> x]
        BY <2>1 DEF IInv, Static, Typed
    <2>3. PICK n \in AllDue, y \in Attempts : s = [acct |-> n.acct, row |-> n.row, by |-> y]
        BY <2>1 DEF IInv, Static, Typed
    <2>4. PICK a \in Accounts : a = r.acct
        BY <2>2, DueRow
    <2>5. OneWriter(a)
        <3>1. Clean(a) /\ accident[a] = {}
            BY <2>1, <2>4 DEF IInv
        <3>2. CASE \A k \in Jobs : job[k].pc \in Resting
            BY <3>1, <3>2, NobodyWorks DEF Idle
        <3>3. CASE \E k \in Jobs : job[k].pc \notin Resting
            BY <3>1, <3>3, WorkerIsAlone DEF Busy
        <3>4. QED
            BY <3>2, <3>3
    <2>6. r.by \in Writers(a) /\ s.by \in Writers(a)
        BY <2>1, <2>4 DEF Writers
    <2>7. r.by = s.by
        BY <2>5, <2>6 DEF OneWriter
    <2>8. QED
        BY <2>1, <2>2, <2>3, <2>7
<1>2. QED
    BY <1>1, Invariant, PTL

(* COMPLETED, with no job under way: every account that has the security is *)
(* a SUCCESS and was submitted for a rebuild of Holdings after its last     *)
(* row, but for those an accident befell.                                   *)
THEOREM CompletedLeavesNobodyBehind == Spec => []CompletedIsRebuilt
<1>1. IInv => CompletedIsRebuilt
    <2>1. SUFFICES ASSUME IInv, jobsRow = "COMPLETED", \A k \in Jobs : ~AtWork(k),
                          NEW a \in Walkers, accident[a] = {}
                   PROVE  status[a] = "SUCCESS" /\ (a \in {r.acct : r \in table} => a \in rebuilt)
        BY DEF CompletedIsRebuilt
    <2>2. a \in Accounts
        BY DEF Walkers
    <2>3. Idle(a)
        BY <2>1, <2>2 DEF IInv, Clean
    <2>4. QED
        BY <2>1, <2>3 DEF Idle, HasRows
<1>2. QED
    BY <1>1, Invariant, PTL

(* The rows of an account that is a SUCCESS are those of its lots.          *)
LEMMA SuccessRows ==
    ASSUME IInv, NEW a \in Accounts, status[a] = "SUCCESS"
    PROVE  {r.row : r \in {s \in table : s.acct = a}} = RowsFor(LotsOf(a))
<1>1. ASSUME NEW r \in table, r.acct = a PROVE r.row \in RowsFor(LotsOf(a))
    <2>1. PICK m \in AllDue, x \in Attempts : r = [acct |-> m.acct, row |-> m.row, by |-> x]
        BY <1>1 DEF IInv, Static, Typed
    <2>2. m \in Due(a)
        BY <1>1, <2>1, DueRow
    <2>3. QED
        BY <2>1, <2>2 DEF Due
<1>2. ASSUME NEW x \in RowsFor(LotsOf(a)) PROVE \E r \in table : r.acct = a /\ r.row = x
    <2>1. PICK m : m = [acct |-> a, row |-> x]
        OBVIOUS
    <2>2. m \in Due(a) /\ m.acct = a /\ m.row = x
        BY <2>1 DEF Due
    <2>3. Written(m)
        BY <2>2 DEF IInv, Static, SuccessIsWhole, Whole
    <2>4. QED
        BY <2>2, <2>3 DEF Written
<1>3. QED
    BY <1>1, <1>2

(* An account marked SUCCESS has exactly the rows of the lots that were     *)
(* open on the record date, where the engine of the applier agrees with     *)
(* that of Holdings, whatever was cut, failed or done again on the way.     *)
THEOREM SuccessIsNoLie ==
    ASSUME LotsAgree
    PROVE  Spec => []SuccessIsApplied
<1>1. IInv => SuccessIsApplied
    <2>1. SUFFICES ASSUME IInv, NEW a \in Accounts, status[a] = "SUCCESS", ~TwoDates(book[a])
                   PROVE  {r.row : r \in {s \in table : s.acct = a}} = RowsFor(OpenLots[book[a]])
        BY DEF SuccessIsApplied
    <2>2. book[a] \in Scenarios
        BY <2>1 DEF IInv, Static, Typed
    <2>3. RowsFor(LotsOf(a)) = RowsFor(OpenLots[book[a]])
        BY <2>1, <2>2, LotsAgree DEF LotsAgree, RowsFor, LotsOf
    <2>4. QED
        BY <2>1, <2>3, SuccessRows
<1>2. QED
    BY <1>1, Invariant, PTL
===============================================================================
