---------------------------- MODULE IsinRenameProofs --------------------------
(* SUCCESS of a rename or a sync means that nothing is left to change, for  *)
(* every set of tables, targets, requests, workers, retries and faults.     *)
EXTENDS IsinRename, SequenceTheorems, FiniteSetTheorems, TLAPS

(* The plan of request w, and the jobs that are on their way through it.    *)
PlanOf(w) == Plan(request[w])
Draining == {"queued", "select", "update"}
Rebuilding == {"wait", "collect", "rebuild"}
Pcs == {"none", "through", "finalize", "close"} \union Draining \union Rebuilding
Alive(k) == job[k].pc # "none"

AllRows == UNION {RowsOf[t] : t \in DOMAIN RowsOf}
Accts == {Holder[r] : r \in RowsOf["Holdings"]}

JobRecord == [pc : Pcs, walk : Walks, from : Nat, at : Nat, col : Nat,
              ids : SUBSET (AllRows \union Accts), offset : Nat, tries : Nat]

Typed ==
    /\ DOMAIN val = DOMAIN First
    /\ status \in [Walks -> {"none", "RUNNING", "SUCCESS"}]
    /\ job \in [Jobs -> JobRecord]
    /\ due \in [Walks -> SUBSET RowsOf["Holdings"]]
    /\ faults \in Nat
    /\ accident \in [Walks -> SUBSET {"crossed", "skipped"}]
    /\ slipped \subseteq Walks

(* A job is of a request that was made, was given a target of its plan (0:  *)
(* the rebuild phase, which only a rename has), and is at a column of it.   *)
Placed(r) ==
    /\ Requested(r.walk)
    /\ r.from # 0 => r.from \in DOMAIN PlanOf(r.walk)
    /\ r.pc \in Draining => /\ r.from # 0
                            /\ r.at \in DOMAIN PlanOf(r.walk)
                            /\ r.col \in DOMAIN PlanOf(r.walk)[r.at]
    /\ r.pc = "queued" => r.at = r.from /\ r.col = 1
    /\ r.pc \in Rebuilding => r.from = 0
    /\ r.pc = "wait" => r.offset = 0
    /\ r.from = 0 => r.pc \in Rebuilding \union {"finalize", "close"}
    /\ r.from = 0 \/ r.pc = "through" => request[r.walk].kind = "rename"
    /\ r.pc = "finalize" /\ r.from # 0 => request[r.walk].kind # "rename"

(* The rows of a batch are rows of the table they were selected from.       *)
OwnBatch(r) == r.pc = "update" => r.ids \subseteq RowsOf[PlanOf(r.walk)[r.at][r.col].table]

(* The columns of request w before (at, col) have nothing left to change.   *)
DrainedTo(w, at, col) ==
    \A i \in DOMAIN PlanOf(w) : \A c \in DOMAIN PlanOf(w)[i] :
        i < at \/ (i = at /\ c < col) => Stale(PlanOf(w)[i][c], val) = {}

Drained(w) == AllStale(w, val) = {}

(* Unless something befell the request, what a job has behind it is drained.*)
DrainedBehind(r) ==
    accident[r.walk] = {} =>
        /\ r.from # 0 => DrainedTo(r.walk, r.from, 1)
        /\ r.pc \in Draining => DrainedTo(r.walk, r.at, r.col)
        /\ r.from = 0 \/ r.pc \in {"through", "finalize"} => Drained(r.walk)

(* Unless the pages slipped, the rebuild phase has the accounts of the rows *)
(* that are due and in the pages it read at hand, then of every row that is *)
(* due, and at its end none is.                                             *)
DueAtHand(r) ==
    (request[r.walk].kind = "rename" /\ accident[r.walk] = {} /\ r.walk \notin slipped) =>
        /\ r.pc = "collect" =>
              \A x \in due[r.walk] : Before(x, request[r.walk].new, val) < r.offset => Holder[x] \in r.ids
        /\ r.pc = "rebuild" => {Holder[x] : x \in due[r.walk]} \subseteq r.ids
        /\ r.pc = "finalize" => due[r.walk] = {}

JobOK(r) == r.pc # "none" => Placed(r) /\ OwnBatch(r) /\ DrainedBehind(r) /\ DueAtHand(r)

(* A row that is due still has the ISIN it was given.                       *)
DueIsNew ==
    \A w \in Walks : request[w].kind = "rename" =>
        \A r \in due[w] : val[<<r, "ISIN">>] = request[w].new

JobsOK == \A r \in {job[k] : k \in Jobs} : JobOK(r)

IInv == Typed /\ DueIsNew /\ SuccessIsDrained /\ JobsOK

----------------------------------------------------------------------------
(* Plans and positions in them.                                             *)

LEMMA LenOfFunction ==
    ASSUME NEW n \in Nat, NEW S, NEW f \in [1 .. n -> S]
    PROVE  Len(f) = n /\ DOMAIN f = 1 .. n
<1>1. f \in Seq(S)
    BY SeqDef
<1>2. QED
    BY <1>1

(* A plan has targets, and a target has columns of a table.                 *)
LEMMA PlanShape ==
    ASSUME NEW rq
    PROVE  /\ Len(Plan(rq)) \in Nat \ {0} /\ DOMAIN Plan(rq) = 1 .. Len(Plan(rq))
           /\ \A i \in DOMAIN Plan(rq) :
                 /\ Len(Plan(rq)[i]) \in Nat \ {0} /\ DOMAIN Plan(rq)[i] = 1 .. Len(Plan(rq)[i])
                 /\ \A c \in DOMAIN Plan(rq)[i] :
                       /\ Plan(rq)[i][c].table \in DOMAIN RowsOf
                       /\ rq.kind = "rename" => Plan(rq)[i][c].to = rq.new
<1>1. CASE rq.kind = "rename"
    <2>1. Len(IsinTargets) \in Nat \ {0} /\ DOMAIN IsinTargets = 1 .. Len(IsinTargets)
        BY IsinRenameAssumption
    <2>2. Plan(rq) = [i \in DOMAIN IsinTargets |->
            [c \in DOMAIN IsinTargets[i].cols |->
                ColumnJob(IsinTargets[i].table, IsinTargets[i].cols[c], rq.old, IsinTargets[i].cols[c], rq.new)]]
        BY <1>1 DEF Plan
    <2>3. ASSUME NEW i \in DOMAIN IsinTargets
          PROVE  /\ IsinTargets[i].table \in DOMAIN RowsOf
                 /\ Len(IsinTargets[i].cols) \in Nat \ {0}
                 /\ DOMAIN IsinTargets[i].cols = 1 .. Len(IsinTargets[i].cols)
        <3>1. IsinTargets[i] \in [table : DOMAIN RowsOf, cols : Seq(STRING)]
            BY <2>1, ElementOfSeq, IsinRenameAssumption
        <3>2. IsinTargets[i].cols \in Seq(STRING) /\ IsinTargets[i].cols # <<>>
            BY <3>1, IsinRenameAssumption
        <3>3. QED
            BY <3>1, <3>2
    <2>4. Len(Plan(rq)) = Len(IsinTargets) /\ DOMAIN Plan(rq) = 1 .. Len(IsinTargets)
        <3>1. Plan(rq) \in [1 .. Len(IsinTargets) -> {Plan(rq)[i] : i \in 1 .. Len(IsinTargets)}]
            BY <2>1, <2>2
        <3>2. QED
            BY <2>1, <3>1, LenOfFunction
    <2>5. ASSUME NEW i \in DOMAIN Plan(rq)
          PROVE  /\ Len(Plan(rq)[i]) \in Nat \ {0} /\ DOMAIN Plan(rq)[i] = 1 .. Len(Plan(rq)[i])
                 /\ \A c \in DOMAIN Plan(rq)[i] :
                       /\ Plan(rq)[i][c].table \in DOMAIN RowsOf
                       /\ Plan(rq)[i][c].to = rq.new
        <3> DEFINE n == Len(IsinTargets[i].cols)
        <3>1. i \in DOMAIN IsinTargets
            BY <2>1, <2>4
        <3>2. /\ n \in Nat \ {0} /\ DOMAIN IsinTargets[i].cols = 1 .. n
              /\ IsinTargets[i].table \in DOMAIN RowsOf
            BY <2>3, <3>1
        <3>3. Plan(rq)[i] = [c \in 1 .. n |->
                ColumnJob(IsinTargets[i].table, IsinTargets[i].cols[c], rq.old, IsinTargets[i].cols[c], rq.new)]
            BY <2>2, <3>1, <3>2
        <3> HIDE DEF n
        <3>4. Plan(rq)[i] \in [1 .. n -> {Plan(rq)[i][c] : c \in 1 .. n}]
            BY <3>3
        <3>5. Len(Plan(rq)[i]) = n /\ DOMAIN Plan(rq)[i] = 1 .. n
            BY <3>2, <3>4, LenOfFunction
        <3>6. QED
            BY <3>2, <3>3, <3>5 DEF ColumnJob
    <2>6. QED
        BY <2>1, <2>4, <2>5
<1>2. CASE rq.kind # "rename"
    <2>1. Len(ApplyTargets) \in Nat \ {0} /\ DOMAIN ApplyTargets = 1 .. Len(ApplyTargets)
        BY IsinRenameAssumption
    <2>2. Plan(rq) = [i \in DOMAIN ApplyTargets |->
            <<ColumnJob(ApplyTargets[i].table, ApplyTargets[i].isinCol, rq.isin, ApplyTargets[i].col, rq.val)>>]
        BY <1>2 DEF Plan
    <2>3. \A i \in DOMAIN ApplyTargets : ApplyTargets[i].table \in DOMAIN RowsOf
        <3>1. \A i \in DOMAIN ApplyTargets :
                 ApplyTargets[i] \in [table : DOMAIN RowsOf, isinCol : STRING, col : STRING]
            BY <2>1, ElementOfSeq, IsinRenameAssumption
        <3>2. QED
            BY <3>1
    <2>4. Len(Plan(rq)) = Len(ApplyTargets) /\ DOMAIN Plan(rq) = 1 .. Len(ApplyTargets)
        <3>1. Plan(rq) \in [1 .. Len(ApplyTargets) -> {Plan(rq)[i] : i \in 1 .. Len(ApplyTargets)}]
            BY <2>1, <2>2
        <3>2. QED
            BY <2>1, <3>1, LenOfFunction
    <2>5. QED
        BY <1>2, <2>1, <2>2, <2>3, <2>4 DEF ColumnJob
<1>3. QED
    BY <1>1, <1>2

LEMMA ColumnsOf ==
    ASSUME NEW w
    PROVE  \A cj : cj \in Columns(w) <=>
              \E i \in DOMAIN PlanOf(w) : \E c \in DOMAIN PlanOf(w)[i] : cj = PlanOf(w)[i][c]
<1> TAKE cj
<1> DEFINE S(i) == {PlanOf(w)[i][c] : c \in DOMAIN PlanOf(w)[i]}
<1>1. Columns(w) = UNION {S(i) : i \in DOMAIN PlanOf(w)}
    BY DEF Columns, PlanOf
<1>2. cj \in Columns(w) <=> \E i \in DOMAIN PlanOf(w) : cj \in S(i)
    <2> HIDE DEF S
    <2> QED
        BY <1>1
<1>3. QED
    BY <1>2

LEMMA StaleOfColumns ==
    ASSUME NEW w, NEW v
    PROVE  /\ \A cj, r : <<r, cj>> \in AllStale(w, v) <=> cj \in Columns(w) /\ r \in Stale(cj, v)
           /\ AllStale(w, v) = {} <=> \A cj \in Columns(w) : Stale(cj, v) = {}
<1> DEFINE S(cj) == {<<r, cj>> : r \in Stale(cj, v)}
<1>1. \A x : x \in AllStale(w, v) <=> \E cj \in Columns(w) : x \in S(cj)
    <2>1. AllStale(w, v) = UNION {S(cj) : cj \in Columns(w)}
        BY DEF AllStale
    <2> HIDE DEF S
    <2> QED
        BY <2>1
<1>2. \A x : x \in AllStale(w, v) <=> \E cj \in Columns(w) : \E r \in Stale(cj, v) : x = <<r, cj>>
    BY <1>1
<1>3. ASSUME NEW cj, NEW r
      PROVE  <<r, cj>> \in AllStale(w, v) <=> cj \in Columns(w) /\ r \in Stale(cj, v)
    BY <1>2
<1>4. AllStale(w, v) = {} <=> \A cj \in Columns(w) : Stale(cj, v) = {}
    BY <1>2
<1>5. QED
    BY <1>3, <1>4

(* The same of the plan of a request.                                       *)
LEMMA PlanOfShape ==
    ASSUME NEW w
    PROVE  /\ Len(PlanOf(w)) \in Nat \ {0} /\ DOMAIN PlanOf(w) = 1 .. Len(PlanOf(w))
           /\ \A i \in DOMAIN PlanOf(w) :
                 /\ Len(PlanOf(w)[i]) \in Nat \ {0} /\ DOMAIN PlanOf(w)[i] = 1 .. Len(PlanOf(w)[i])
                 /\ \A c \in DOMAIN PlanOf(w)[i] :
                       /\ PlanOf(w)[i][c].table \in DOMAIN RowsOf
                       /\ request[w].kind = "rename" => PlanOf(w)[i][c].to = request[w].new
BY PlanShape DEF PlanOf

(* What is stale is stale in a column of the request, and the other way.    *)
LEMMA DrainedColumns ==
    ASSUME NEW w
    PROVE  Drained(w) <=> \A i \in DOMAIN PlanOf(w) : \A c \in DOMAIN PlanOf(w)[i] :
                             Stale(PlanOf(w)[i][c], val) = {}
<1>1. Drained(w) <=> \A cj \in Columns(w) : Stale(cj, val) = {}
    BY StaleOfColumns DEF Drained
<1>2. QED
    BY <1>1, ColumnsOf

(* A column with nothing left to change moves the position on.              *)
LEMMA Advance ==
    ASSUME NEW w, NEW i \in DOMAIN PlanOf(w), NEW c \in DOMAIN PlanOf(w)[i],
           DrainedTo(w, i, c), Stale(PlanOf(w)[i][c], val) = {}
    PROVE  /\ DrainedTo(w, i, c + 1)
           /\ c = Len(PlanOf(w)[i]) => DrainedTo(w, i + 1, 1)
           /\ c = Len(PlanOf(w)[i]) /\ i = Len(PlanOf(w)) => Drained(w)
<1>1. /\ Len(PlanOf(w)) \in Nat \ {0} /\ DOMAIN PlanOf(w) = 1 .. Len(PlanOf(w))
      /\ \A j \in DOMAIN PlanOf(w) :
            Len(PlanOf(w)[j]) \in Nat \ {0} /\ DOMAIN PlanOf(w)[j] = 1 .. Len(PlanOf(w)[j])
    BY PlanOfShape
<1>2. DrainedTo(w, i, c + 1)
    BY <1>1 DEF DrainedTo
<1>3. ASSUME c = Len(PlanOf(w)[i]) PROVE DrainedTo(w, i + 1, 1)
    BY <1>1, <1>2, <1>3 DEF DrainedTo
<1>4. ASSUME c = Len(PlanOf(w)[i]), i = Len(PlanOf(w)) PROVE Drained(w)
    BY <1>1, <1>3, <1>4, DrainedColumns DEF DrainedTo
<1>5. QED
    BY <1>2, <1>3, <1>4

----------------------------------------------------------------------------
(* What a step may do to request w without harm to its jobs.                *)

Calm(w) ==
    /\ Requested(w) => Requested(w)'
    /\ slipped \subseteq slipped'
    /\ (Requested(w) /\ accident'[w] = {}) =>
          /\ accident[w] = {}
          /\ AllStale(w, val') \subseteq AllStale(w, val)
          /\ Drained(w) => due'[w] \subseteq due[w]

(* The rows in the pages a job read are still there.                        *)
Steady(r) ==
    (r.pc = "collect" /\ r.offset > 0 /\ r.walk \notin slipped') =>
        With(request[r.walk].new, val) \subseteq With(request[r.walk].new, val')

LEMMA KeepDrained ==
    ASSUME NEW w, UNCHANGED request, Calm(w), Requested(w), accident'[w] = {}
    PROVE  /\ Drained(w) => Drained(w)'
           /\ \A i, c : DrainedTo(w, i, c) => DrainedTo(w, i, c)'
<1>1. AllStale(w, val') \subseteq AllStale(w, val)
    BY DEF Calm
<1>2. \A i \in DOMAIN PlanOf(w) : \A c \in DOMAIN PlanOf(w)[i] :
         Stale(PlanOf(w)[i][c], val) = {} => Stale(PlanOf(w)[i][c], val') = {}
    <2>1. \A cj \in Columns(w) : Stale(cj, val) = {} => Stale(cj, val') = {}
        <3> SUFFICES ASSUME NEW cj \in Columns(w), NEW r \in Stale(cj, val') PROVE Stale(cj, val) # {}
            OBVIOUS
        <3>1. <<r, cj>> \in AllStale(w, val')
            BY StaleOfColumns
        <3>2. <<r, cj>> \in AllStale(w, val)
            BY <1>1, <3>1
        <3>3. QED
            BY <3>2, StaleOfColumns
    <2>2. QED
        BY <2>1, ColumnsOf
<1>3. ASSUME Drained(w) PROVE Drained(w)'
    <2>1. \A i \in DOMAIN PlanOf(w) : \A c \in DOMAIN PlanOf(w)[i] : Stale(PlanOf(w)[i][c], val') = {}
        BY <1>2, <1>3, DrainedColumns
    <2>2. QED
        BY <2>1 DEF Drained, AllStale, Columns, PlanOf
<1>4. ASSUME NEW i, NEW c, DrainedTo(w, i, c) PROVE DrainedTo(w, i, c)'
    BY <1>2, <1>4 DEF DrainedTo, PlanOf
<1>5. QED
    BY <1>3, <1>4

(* Rows that come in only move a row back in the pages.                     *)
LEMMA BeforeGrows ==
    ASSUME NEW isin, NEW u, NEW v, NEW x, With(isin, u) \subseteq With(isin, v)
    PROVE  Before(x, isin, u) \in Nat /\ Before(x, isin, v) \in Nat /\ Before(x, isin, u) <= Before(x, isin, v)
<1> DEFINE A == {q \in With(isin, u) : q < x}
           B == {q \in With(isin, v) : q < x}
<1>1. IsFiniteSet(RowsOf["Holdings"]) /\ B \subseteq RowsOf["Holdings"] /\ A \subseteq B
    BY IsinRenameAssumption DEF With
<1>2. Before(x, isin, u) = Cardinality(A) /\ Before(x, isin, v) = Cardinality(B)
    BY DEF Before
<1> HIDE DEF A, B
<1>3. IsFiniteSet(B)
    BY <1>1, FS_Subset
<1>4. IsFiniteSet(A) /\ Cardinality(A) <= Cardinality(B)
    BY <1>1, <1>3, FS_Subset
<1>5. QED
    BY <1>2, <1>3, <1>4, FS_CardinalityType

(* A job that a step leaves alone.                                          *)
LEMMA KeepJob ==
    ASSUME NEW r \in JobRecord, UNCHANGED request, Calm(r.walk), Steady(r), JobOK(r)
    PROVE  JobOK(r)'
<1> SUFFICES ASSUME r.pc # "none" PROVE (Placed(r) /\ OwnBatch(r) /\ DrainedBehind(r) /\ DueAtHand(r))'
    BY DEF JobOK
<1>1. Placed(r)' /\ OwnBatch(r)'
    BY DEF JobOK, Placed, OwnBatch, PlanOf, Calm, Requested
<1>2. DrainedBehind(r)'
    <2>1. CASE accident'[r.walk] = {}
        BY <2>1, KeepDrained DEF JobOK, Placed, DrainedBehind, Calm
    <2>2. QED
        BY <2>1 DEF DrainedBehind
<1>3. DueAtHand(r)'
    <2> DEFINE new == request[r.walk].new
    <2> SUFFICES ASSUME request[r.walk].kind = "rename", accident'[r.walk] = {}, r.walk \notin slipped',
                        r.pc \in {"collect", "rebuild", "finalize"}
                 PROVE  /\ r.pc = "collect" =>
                              \A x \in due'[r.walk] : Before(x, new, val') < r.offset => Holder[x] \in r.ids
                        /\ r.pc = "rebuild" => {Holder[x] : x \in due'[r.walk]} \subseteq r.ids
                        /\ r.pc = "finalize" => due'[r.walk] = {}
        BY DEF DueAtHand
    <2>1. Drained(r.walk) /\ accident[r.walk] = {}
        BY DEF JobOK, Placed, DrainedBehind, Calm, Rebuilding
    <2>2. due'[r.walk] \subseteq due[r.walk]
        BY <2>1 DEF JobOK, Placed, Calm
    <2>3. r.walk \notin slipped
        BY DEF Calm
    <2>4. ASSUME r.pc = "collect", NEW x \in due'[r.walk], Before(x, new, val') < r.offset
          PROVE  Holder[x] \in r.ids
        <3>1. Before(x, new, val') \in Nat /\ r.offset \in Nat
            BY BeforeGrows DEF JobRecord
        <3>2. With(new, val) \subseteq With(new, val')
            BY <2>4, <3>1 DEF Steady
        <3>3. Before(x, new, val) \in Nat /\ Before(x, new, val) <= Before(x, new, val')
            BY <3>2, BeforeGrows
        <3>4. Before(x, new, val) < r.offset
            BY <2>4, <3>1, <3>3
        <3>5. DueAtHand(r) /\ x \in due[r.walk]
            BY <2>2, <2>4 DEF JobOK
        <3>6. QED
            BY <2>1, <2>3, <2>4, <3>4, <3>5 DEF DueAtHand
    <2>5. QED
        BY <2>1, <2>2, <2>3, <2>4 DEF JobOK, DueAtHand
<1>4. QED
    BY <1>1, <1>2, <1>3

(* A SUCCESS that a step leaves alone.                                      *)
LEMMA KeepSuccess ==
    ASSUME IInv, UNCHANGED request, \A w \in Walks : Calm(w),
           \A w \in Walks : status'[w] = "SUCCESS" => status[w] = "SUCCESS"
    PROVE  SuccessIsDrained'
<1> SUFFICES ASSUME NEW w \in Walks, status'[w] = "SUCCESS", accident'[w] = {}
             PROVE  /\ Drained(w)'
                    /\ request'[w].kind = "rename" /\ w \notin slipped' => due'[w] = {}
    BY DEF SuccessIsDrained, Drained
<1>1. status[w] = "SUCCESS" /\ Requested(w) /\ Calm(w)
    BY DEF Requested
<1>2. accident[w] = {}
    BY <1>1 DEF Calm
<1>3. Drained(w) /\ (request[w].kind = "rename" /\ w \notin slipped => due[w] = {})
    BY <1>1, <1>2 DEF IInv, SuccessIsDrained, Drained
<1>4. QED
    BY <1>1, <1>3, KeepDrained DEF Calm

----------------------------------------------------------------------------
(* Steps that only move jobs.                                               *)

Still == UNCHANGED <<val, request, status, due, accident, slipped>>

LEMMA StillIsCalm == Still => \A w : Calm(w)
BY DEF Still, Calm, Requested

(* A step that replaces jobs by jobs that are well placed.                  *)
LEMMA MoveJobs ==
    ASSUME IInv, Still, faults' \in Nat, job' \in [Jobs -> JobRecord],
           \A k \in Jobs : job'[k] = job[k] \/ JobOK(job'[k])
    PROVE  IInv'
<1>1. Typed'
    BY DEF IInv, Typed, Still
<1>2. DueIsNew'
    BY DEF IInv, DueIsNew, Still
<1>3. SuccessIsDrained'
    BY StillIsCalm, KeepSuccess DEF Still
<1>4. JobsOK'
    <2> SUFFICES ASSUME NEW k \in Jobs, NEW r, r = job'[k] PROVE JobOK(r)'
        BY DEF JobsOK
    <2>1. JobOK(r)
        BY DEF IInv, JobsOK
    <2>2. Calm(r.walk) /\ Steady(r) /\ r \in JobRecord
        BY StillIsCalm DEF Still, Steady
    <2>3. QED
        BY <2>1, <2>2, KeepJob DEF Still
<1>5. QED
    BY <1>1, <1>2, <1>3, <1>4 DEF IInv

LEMMA NoJobOK == NoJob \in JobRecord /\ JobOK(NoJob)
BY IsinRenameAssumption DEF NoJob, NewJob, JobRecord, JobOK, Walks, Pcs

(* A job that begins with a target, when all before it is drained.          *)
LEMMA QueuedOK ==
    ASSUME NEW w \in Walks, Requested(w), NEW at \in DOMAIN PlanOf(w), NEW tries \in Nat,
           accident[w] = {} => DrainedTo(w, at, 1)
    PROVE  NewJob("queued", w, at, tries) \in JobRecord /\ JobOK(NewJob("queued", w, at, tries))
<1>1. at \in Nat \ {0} /\ 1 \in DOMAIN PlanOf(w)[at]
    BY PlanOfShape
<1>2. QED
    BY <1>1 DEF NewJob, JobRecord, Pcs, Draining, Rebuilding, JobOK, Placed, OwnBatch, DrainedBehind, DueAtHand

(* A job of the rebuild phase, when the walk is drained.                    *)
LEMMA WaitOK ==
    ASSUME NEW w \in Walks, Requested(w), request[w].kind = "rename", NEW tries \in Nat,
           accident[w] = {} => Drained(w)
    PROVE  NewJob("wait", w, 0, tries) \in JobRecord /\ JobOK(NewJob("wait", w, 0, tries))
BY DEF NewJob, JobRecord, Pcs, Draining, Rebuilding, JobOK, Placed, OwnBatch, DrainedBehind, DueAtHand

(* A closed job promises nothing but its baton.                             *)
LEMMA CloseOK ==
    ASSUME NEW r \in JobRecord, JobOK(r), r.pc # "none"
    PROVE  [r EXCEPT !.pc = "close"] \in JobRecord /\ JobOK([r EXCEPT !.pc = "close"])
BY DEF JobRecord, Pcs, Draining, Rebuilding, JobOK, Placed, OwnBatch, DrainedBehind, DueAtHand

(* The next column of a walk.                                               *)
LEMMA PassedPlaced ==
    ASSUME NEW r \in JobRecord, r.pc \in {"select", "update"}, Placed(r)
    PROVE  /\ Passed(r) \in JobRecord /\ Passed(r).walk = r.walk /\ Passed(r).from = r.from
           /\ Placed(Passed(r)) /\ OwnBatch(Passed(r)) /\ DueAtHand(Passed(r))
<1>1. /\ Len(PlanOf(r.walk)) \in Nat \ {0} /\ DOMAIN PlanOf(r.walk) = 1 .. Len(PlanOf(r.walk))
      /\ \A j \in DOMAIN PlanOf(r.walk) :
            Len(PlanOf(r.walk)[j]) \in Nat \ {0} /\ DOMAIN PlanOf(r.walk)[j] = 1 .. Len(PlanOf(r.walk)[j])
    BY PlanOfShape
<1>2. /\ r.at \in DOMAIN PlanOf(r.walk) /\ r.col \in DOMAIN PlanOf(r.walk)[r.at]
      /\ r.at \in Nat /\ r.col \in Nat /\ r.from # 0 /\ r.walk \in Walks
    BY DEF Placed, Draining, JobRecord
<1>3. CASE r.col < Len(PlanOf(r.walk)[r.at])
    <2>1. Passed(r) = [r EXCEPT !.pc = "select", !.col = @ + 1, !.ids = {}]
        BY <1>3 DEF Passed, PlanOf
    <2>2. r.col + 1 \in DOMAIN PlanOf(r.walk)[r.at]
        BY <1>1, <1>2, <1>3
    <2>3. /\ Passed(r).pc = "select" /\ Passed(r).at = r.at /\ Passed(r).col = r.col + 1
          /\ Passed(r).walk = r.walk /\ Passed(r).from = r.from
        BY <2>1 DEF JobRecord
    <2>4. Passed(r) \in JobRecord
        <3>1. "select" \in Pcs /\ r.col + 1 \in Nat /\ 1 \in Nat
            BY <1>2 DEF Pcs, Draining
        <3>2. QED
            BY <2>1, <3>1 DEF JobRecord
    <2>5. QED
        BY <2>2, <2>3, <2>4, <1>2 DEF Draining, Rebuilding, Placed, OwnBatch, DueAtHand
<1>4. CASE ~(r.col < Len(PlanOf(r.walk)[r.at])) /\ r.at < Len(PlanOf(r.walk))
    <2>1. Passed(r) = [r EXCEPT !.pc = "select", !.at = @ + 1, !.col = 1, !.ids = {}]
        BY <1>4 DEF Passed, PlanOf
    <2>2. r.at + 1 \in DOMAIN PlanOf(r.walk) /\ 1 \in DOMAIN PlanOf(r.walk)[r.at + 1]
        BY <1>1, <1>2, <1>4
    <2>3. /\ Passed(r).pc = "select" /\ Passed(r).at = r.at + 1 /\ Passed(r).col = 1
          /\ Passed(r).walk = r.walk /\ Passed(r).from = r.from
        BY <2>1 DEF JobRecord
    <2>4. Passed(r) \in JobRecord
        <3>1. "select" \in Pcs /\ r.at + 1 \in Nat /\ 1 \in Nat
            BY <1>2 DEF Pcs, Draining
        <3>2. QED
            BY <2>1, <3>1 DEF JobRecord
    <2>5. QED
        BY <2>2, <2>3, <2>4, <1>2 DEF Draining, Rebuilding, Placed, OwnBatch, DueAtHand
<1>5. CASE ~(r.col < Len(PlanOf(r.walk)[r.at])) /\ ~(r.at < Len(PlanOf(r.walk)))
    <2>1. Passed(r) = [r EXCEPT !.pc = IF request[r.walk].kind = "rename" THEN "through" ELSE "finalize",
                                !.ids = {}]
        BY <1>5 DEF Passed, PlanOf
    <2>2. QED
        BY <2>1, <1>2 DEF JobRecord, Pcs, Draining, Rebuilding, Placed, OwnBatch, DueAtHand
<1>6. QED
    BY <1>3, <1>4, <1>5

(* It is drained as far as that if the column was.                          *)
LEMMA PassedOK ==
    ASSUME NEW r \in JobRecord, r.pc \in {"select", "update"}, JobOK(r),
           Stale(PlanOf(r.walk)[r.at][r.col], val) = {}
    PROVE  Passed(r) \in JobRecord /\ JobOK(Passed(r))
<1>1. Placed(r) /\ DrainedBehind(r)
    BY DEF JobOK
<1>2. /\ Passed(r) \in JobRecord /\ Passed(r).walk = r.walk /\ Passed(r).from = r.from
      /\ Placed(Passed(r)) /\ OwnBatch(Passed(r)) /\ DueAtHand(Passed(r))
    BY <1>1, PassedPlaced
<1>3. ASSUME accident[r.walk] = {} PROVE DrainedBehind(Passed(r))
    <2>1. /\ r.at \in DOMAIN PlanOf(r.walk) /\ r.col \in DOMAIN PlanOf(r.walk)[r.at]
          /\ r.at \in Nat /\ r.col \in Nat /\ r.from # 0
          /\ DrainedTo(r.walk, r.at, r.col) /\ DrainedTo(r.walk, r.from, 1)
        BY <1>1, <1>3 DEF Placed, DrainedBehind, Draining, JobRecord
    <2>2. /\ DrainedTo(r.walk, r.at, r.col + 1)
          /\ r.col = Len(PlanOf(r.walk)[r.at]) => DrainedTo(r.walk, r.at + 1, 1)
          /\ r.col = Len(PlanOf(r.walk)[r.at]) /\ r.at = Len(PlanOf(r.walk)) => Drained(r.walk)
        BY <2>1, Advance
    <2>3. /\ r.col < Len(PlanOf(r.walk)[r.at]) \/ r.col = Len(PlanOf(r.walk)[r.at])
          /\ r.at < Len(PlanOf(r.walk)) \/ r.at = Len(PlanOf(r.walk))
        BY <2>1, PlanOfShape
    <2>4. CASE r.col < Len(PlanOf(r.walk)[r.at])
        BY <2>1, <2>2, <2>4 DEF Passed, PlanOf, JobRecord, Draining, DrainedBehind
    <2>5. CASE ~(r.col < Len(PlanOf(r.walk)[r.at])) /\ r.at < Len(PlanOf(r.walk))
        BY <2>1, <2>2, <2>3, <2>5 DEF Passed, PlanOf, JobRecord, Draining, DrainedBehind
    <2>6. CASE ~(r.col < Len(PlanOf(r.walk)[r.at])) /\ ~(r.at < Len(PlanOf(r.walk)))
        BY <2>1, <2>2, <2>3, <2>6 DEF Passed, PlanOf, JobRecord, Draining, DrainedBehind
    <2>7. QED
        BY <2>4, <2>5, <2>6
<1>4. DrainedBehind(Passed(r))
    BY <1>2, <1>3 DEF DrainedBehind
<1>5. QED
    BY <1>2, <1>4 DEF JobOK

(* A step that replaces job k by record r.                                  *)
LEMMA MoveOne ==
    ASSUME IInv, Still, faults' \in Nat, NEW k \in Jobs, NEW r \in JobRecord,
           job' = [job EXCEPT ![k] = r], JobOK(r)
    PROVE  IInv'
<1>1. job \in [Jobs -> JobRecord]
    BY DEF IInv, Typed
<1>2. job' \in [Jobs -> JobRecord] /\ \A j \in Jobs : job'[j] = job[j] \/ JobOK(job'[j])
    BY <1>1
<1>3. QED
    BY <1>2, MoveJobs

(* A step that closes job k and submits another one.                        *)
LEMMA MoveTwo ==
    ASSUME IInv, Still, faults' \in Nat, NEW k \in Jobs, NEW n \in Jobs, k # n, NEW r \in JobRecord,
           job[k].pc # "none", JobOK(r),
           job' = [job EXCEPT ![k].pc = "close", ![n] = r]
    PROVE  IInv'
<1> DEFINE c == [job[k] EXCEPT !.pc = "close"]
<1>1. job \in [Jobs -> JobRecord] /\ JobOK(job[k])
    BY DEF IInv, Typed, JobsOK
<1>2. c \in JobRecord /\ JobOK(c)
    BY <1>1, CloseOK
<1>3. job' = [[job EXCEPT ![k] = c] EXCEPT ![n] = r]
    BY <1>1
<1> HIDE DEF c
<1>4. job' \in [Jobs -> JobRecord] /\ \A j \in Jobs : job'[j] = job[j] \/ JobOK(job'[j])
    BY <1>1, <1>2, <1>3
<1>5. QED
    BY <1>4, MoveJobs

LEMMA AtHome ==
    ASSUME IInv, NEW k \in Jobs
    PROVE  job[k] \in JobRecord /\ JobOK(job[k]) /\ faults \in Nat /\ job[k].walk \in Walks
BY DEF IInv, Typed, JobsOK, JobRecord

LEMMA StartStep == ASSUME IInv, NEW k \in Jobs, Start(k) PROVE IInv'
<1> DEFINE r == [job[k] EXCEPT !.pc = IF @ = "queued" THEN "select" ELSE "collect"]
<1>1. job[k] \in JobRecord /\ JobOK(job[k]) /\ faults \in Nat
    BY AtHome
<1>2. r \in JobRecord
    BY <1>1 DEF JobRecord, Pcs, Draining, Rebuilding
<1>3. JobOK(r)
    <2>1. CASE job[k].pc = "queued"
        BY <1>1, <2>1 DEF JobRecord, Draining, Rebuilding, JobOK, Placed, OwnBatch, DrainedBehind, DueAtHand
    <2>2. CASE job[k].pc = "wait"
        <3>1. /\ r.pc = "collect" /\ r.offset = 0 /\ r.walk = job[k].walk /\ r.from = job[k].from
            BY <1>1, <2>2 DEF JobRecord, JobOK, Placed
        <3>2. \A x : ~(Before(x, request[r.walk].new, val) < r.offset)
            BY <3>1, BeforeGrows
        <3>3. Placed(job[k]) /\ DrainedBehind(job[k])
            BY <1>1, <2>2 DEF JobOK
        <3> HIDE DEF r
        <3>4. Placed(r) /\ OwnBatch(r)
            BY <2>2, <3>1, <3>3 DEF Placed, OwnBatch, Draining, Rebuilding
        <3>5. DrainedBehind(r)
            BY <2>2, <3>1, <3>3 DEF Placed, DrainedBehind, Draining, Rebuilding
        <3>6. DueAtHand(r)
            BY <3>1, <3>2 DEF DueAtHand
        <3>7. QED
            BY <3>4, <3>5, <3>6 DEF JobOK
    <2>3. QED
        BY <2>1, <2>2 DEF Start
<1>4. job' = [job EXCEPT ![k] = r] /\ Still /\ faults' = faults
    BY DEF Start, Still
<1> HIDE DEF r
<1>5. QED
    BY <1>1, <1>2, <1>3, <1>4, MoveOne

LEMMA DiesStep == ASSUME IInv, NEW k \in Jobs, Dies(k) PROVE IInv'
<1> DEFINE r == job[k]
<1>1. r \in JobRecord /\ JobOK(r) /\ faults \in Nat /\ r.walk \in Walks /\ r.tries \in Nat
    BY AtHome DEF JobRecord
<1>2. /\ Requested(r.walk) /\ Placed(r)
      /\ accident[r.walk] = {} => /\ r.from # 0 => DrainedTo(r.walk, r.from, 1)
                                  /\ r.from = 0 => Drained(r.walk)
    BY <1>1 DEF Dies, AtWork, JobOK, Placed, DrainedBehind
<1>3. Ended(k) \in JobRecord /\ JobOK(Ended(k))
    <2>1. CASE r.from = 0
        <3>1. Ended(k) = NoJob \/ Ended(k) = NewJob("wait", r.walk, 0, r.tries + 1)
            BY <2>1 DEF Ended
        <3>2. QED
            BY <1>1, <1>2, <2>1, <3>1, NoJobOK, WaitOK DEF Placed
    <2>2. CASE r.from # 0
        <3>1. Ended(k) = NoJob \/ Ended(k) = NewJob("queued", r.walk, r.from, r.tries + 1)
            BY <1>2, <2>2 DEF Ended, Placed, Rebuilding
        <3>2. QED
            BY <1>1, <1>2, <2>2, <3>1, NoJobOK, QueuedOK DEF Placed
    <2>3. QED
        BY <2>1, <2>2
<1>4. job' = [job EXCEPT ![k] = Ended(k)] /\ Still /\ faults' \in Nat
    BY <1>1 DEF Dies, Fault, Still
<1>5. QED
    BY <1>3, <1>4, MoveOne

LEMMA SelectStep == ASSUME IInv, NEW k \in Jobs, Select(k) PROVE IInv'
<1> DEFINE r == job[k]
           rows == Stale(Here(k), val)
           batch == {x \in rows : Cardinality({q \in rows : q < x}) < Batch}
           u == [r EXCEPT !.ids = batch, !.pc = "update"]
<1>1. r \in JobRecord /\ JobOK(r) /\ faults \in Nat /\ r.pc = "select" /\ Placed(r)
    BY AtHome DEF Select, JobOK
<1>2. Here(k) = PlanOf(r.walk)[r.at][r.col]
    BY DEF Here, Mine, PlanOf
<1>3. Still /\ faults' = faults
    BY DEF Select, Still
<1>4. CASE rows = {}
    <2>1. job' = [job EXCEPT ![k] = Passed(r)]
        BY <1>4 DEF Select
    <2>2. Passed(r) \in JobRecord /\ JobOK(Passed(r))
        BY <1>1, <1>2, <1>4, PassedOK
    <2>3. QED
        BY <1>1, <1>3, <2>1, <2>2, MoveOne
<1>5. CASE rows # {}
    <2>1. batch \subseteq RowsOf[PlanOf(r.walk)[r.at][r.col].table]
        BY <1>2 DEF Stale
    <2>2. PlanOf(r.walk)[r.at][r.col].table \in DOMAIN RowsOf
        BY <1>1, PlanOfShape DEF Placed, Draining
    <2>3. batch \subseteq AllRows
        BY <2>1, <2>2 DEF AllRows
    <2>4. job' = [job EXCEPT ![k] = u]
        BY <1>5 DEF Select
    <2> HIDE DEF batch
    <2>5. u \in JobRecord
        <3>1. "update" \in Pcs
            BY DEF Pcs, Draining
        <3>2. QED
            BY <1>1, <2>3, <3>1 DEF JobRecord
    <2>6. JobOK(u)
        <3>1. /\ u.pc = "update" /\ u.ids = batch /\ u.walk = r.walk /\ u.from = r.from
              /\ u.at = r.at /\ u.col = r.col
            BY <1>1 DEF JobRecord
        <3> HIDE DEF u
        <3>2. QED
            BY <1>1, <2>1, <3>1 DEF JobOK, Placed, OwnBatch, DrainedBehind, DueAtHand, Draining, Rebuilding
    <2> HIDE DEF u
    <2>7. QED
        BY <1>1, <1>3, <2>4, <2>5, <2>6, MoveOne
<1>6. QED
    BY <1>4, <1>5

LEMMA PassBatonStep == ASSUME IInv, NEW k \in Jobs, PassBaton(k) PROVE IInv'
<1> DEFINE r == job[k]
<1>1. r \in JobRecord /\ JobOK(r) /\ faults \in Nat /\ r.walk \in Walks /\ r.at \in Nat
    BY AtHome DEF JobRecord
<1>2. r.pc = "select" /\ Placed(r) /\ DrainedBehind(r)
    BY <1>1 DEF PassBaton, JobOK
<1>3. /\ Requested(r.walk) /\ r.at \in DOMAIN PlanOf(r.walk)
      /\ accident[r.walk] = {} => DrainedTo(r.walk, r.at, r.col)
    BY <1>2 DEF Placed, DrainedBehind, Draining
<1>4. r.col \in DOMAIN PlanOf(r.walk)[r.at] /\ r.at \in Nat \ {0}
    BY <1>2, <1>3, PlanOfShape DEF Placed, Draining
<1>5. accident[r.walk] = {} => DrainedTo(r.walk, r.at, 1)
    BY <1>3, <1>4, PlanOfShape DEF DrainedTo
<1>6. NewJob("queued", r.walk, r.at, 0) \in JobRecord /\ JobOK(NewJob("queued", r.walk, r.at, 0))
    BY <1>1, <1>3, <1>5, QueuedOK
<1>7. PICK n \in Jobs : /\ job[n] = NoJob
                        /\ job' = [job EXCEPT ![k].pc = "close", ![n] = NewJob("queued", r.walk, r.at, 0)]
    BY DEF PassBaton, Free, Mine
<1>8. k # n
    BY <1>2, <1>7 DEF NoJob, NewJob
<1>9. QED
    BY <1>1, <1>2, <1>6, <1>7, <1>8, MoveTwo DEF PassBaton, Still

LEMMA SubmitRebuildStep == ASSUME IInv, NEW k \in Jobs, SubmitRebuild(k) PROVE IInv'
<1> DEFINE r == job[k]
<1>1. r \in JobRecord /\ JobOK(r) /\ faults \in Nat /\ r.walk \in Walks
    BY AtHome
<1>2. /\ r.pc = "through" /\ Requested(r.walk) /\ request[r.walk].kind = "rename"
      /\ accident[r.walk] = {} => Drained(r.walk)
    BY <1>1 DEF SubmitRebuild, JobOK, Placed, DrainedBehind
<1>3. NewJob("wait", r.walk, 0, 0) \in JobRecord /\ JobOK(NewJob("wait", r.walk, 0, 0))
    BY <1>1, <1>2, WaitOK
<1>4. PICK n \in Jobs : /\ job[n] = NoJob
                        /\ job' = [job EXCEPT ![k].pc = "close", ![n] = NewJob("wait", r.walk, 0, 0)]
    BY DEF SubmitRebuild, Free, Mine
<1>5. k # n
    BY <1>2, <1>4 DEF NoJob, NewJob
<1>6. QED
    BY <1>1, <1>2, <1>3, <1>4, <1>5, MoveTwo DEF SubmitRebuild, Still

LEMMA CloseStep == ASSUME IInv, NEW k \in Jobs, Close(k) PROVE IInv'
BY AtHome, NoJobOK, MoveOne DEF Close, Still

(* What a page adds: the accounts of the rows that are due and in it.       *)
LEMMA CollectStep == ASSUME IInv, NEW k \in Jobs, Collect(k) PROVE IInv'
<1>1. PICK r : r = job[k]
    OBVIOUS
<1>2. /\ r \in JobRecord /\ JobOK(r) /\ faults \in Nat /\ r.pc = "collect" /\ Placed(r) /\ r.walk \in Walks
      /\ r.offset \in Nat /\ r.ids \subseteq AllRows \union Accts /\ Page \in Nat \ {0}
    BY <1>1, AtHome, IsinRenameAssumption DEF Collect, JobOK, JobRecord
<1>3. r.from = 0 /\ request[r.walk].kind = "rename"
    BY <1>2 DEF Placed, Rebuilding
<1>4. PICK isin, last : isin = request[r.walk].new /\ last = r.offset + Page - 1
    OBVIOUS
<1>5. PICK page : page = {x \in With(isin, val) : Before(x, isin, val) \in r.offset .. last}
    OBVIOUS
<1>6. PICK full \in BOOLEAN : full <=> \E x \in With(isin, val) : Before(x, isin, val) >= last
    BY Zenon
<1>7. PICK accts : accts = r.ids \union {Holder[x] : x \in page}
    OBVIOUS
<1>8. PICK to, pc :
          /\ to = IF full THEN r.offset + Page ELSE 0
          /\ pc = IF full THEN "collect" ELSE IF accts = {} THEN "finalize" ELSE "rebuild"
    OBVIOUS
<1>9. PICK u : u = [r EXCEPT !.ids = accts, !.offset = to, !.pc = pc]
    OBVIOUS
<1>10. job' = [job EXCEPT ![k] = u] /\ Still /\ faults' = faults
    <2>1. job \in [Jobs -> JobRecord]
        BY DEF IInv, Typed
    <2>2. job' = [job EXCEPT ![k].ids = accts, ![k].offset = to, ![k].pc = pc]
        <3>1. \A P : (P <=> full) => to = IF P THEN r.offset + Page ELSE 0
            BY <1>8
        <3>2. QED
            BY <1>1, <1>4, <1>5, <1>6, <1>7, <1>8 DEF Collect, Mine
    <2>3. QED
        BY <1>1, <1>9, <2>1, <2>2 DEF Collect, Still
<1>11. accts \subseteq AllRows \union Accts
    BY <1>2, <1>5, <1>7 DEF With, Accts
<1>12. to \in Nat /\ pc \in {"collect", "rebuild", "finalize"}
    BY <1>2, <1>8
<1>13. u \in JobRecord
    <2>1. {"collect", "rebuild", "finalize"} \subseteq Pcs
        BY DEF Pcs, Rebuilding
    <2>2. QED
        BY <1>2, <1>9, <1>11, <1>12, <2>1 DEF JobRecord
<1>14. u.pc = pc /\ u.ids = accts /\ u.offset = to /\ u.walk = r.walk /\ u.from = r.from
    BY <1>2, <1>9 DEF JobRecord
<1>15. Placed(u) /\ OwnBatch(u) /\ DrainedBehind(u)
    BY <1>2, <1>3, <1>12, <1>14 DEF JobOK, Placed, OwnBatch, DrainedBehind, Draining, Rebuilding
<1>16. DueAtHand(u)
    <2> SUFFICES ASSUME accident[r.walk] = {}, r.walk \notin slipped
                 PROVE  /\ pc = "collect" =>
                             \A x \in due[r.walk] : Before(x, isin, val) < to => Holder[x] \in accts
                        /\ pc = "rebuild" => {Holder[x] : x \in due[r.walk]} \subseteq accts
                        /\ pc = "finalize" => due[r.walk] = {}
        BY <1>4, <1>14 DEF DueAtHand
    <2>1. ASSUME NEW x \in due[r.walk], Before(x, isin, val) <= last PROVE Holder[x] \in accts
        <3>1. x \in With(isin, val)
            BY <1>2, <1>3, <1>4 DEF IInv, Typed, DueIsNew, With
        <3>2. Before(x, isin, val) \in Nat
            BY BeforeGrows
        <3>3. CASE Before(x, isin, val) < r.offset
            BY <1>2, <1>3, <1>4, <1>7, <3>3 DEF JobOK, DueAtHand
        <3>4. CASE Before(x, isin, val) >= r.offset
            <4>1. Before(x, isin, val) \in r.offset .. last
                BY <1>2, <1>4, <2>1, <3>2, <3>4
            <4>2. QED
                BY <1>5, <1>7, <3>1, <4>1
        <3>5. QED
            BY <1>2, <3>2, <3>3, <3>4
    <2>2. CASE full
        <3>1. pc = "collect" /\ to = r.offset + Page
            BY <1>8, <2>2
        <3>2. ASSUME NEW x \in due[r.walk], Before(x, isin, val) < to PROVE Before(x, isin, val) <= last
            BY <1>2, <1>4, <3>1, <3>2, BeforeGrows
        <3>3. QED
            BY <2>1, <3>1, <3>2
    <2>3. CASE ~full
        <3>1. pc = IF accts = {} THEN "finalize" ELSE "rebuild"
            BY <1>8, <2>3
        <3>2. \A x \in due[r.walk] : Holder[x] \in accts
            <4> SUFFICES ASSUME NEW x \in due[r.walk] PROVE Before(x, isin, val) <= last
                BY <2>1
            <4>1. x \in With(isin, val)
                BY <1>2, <1>3, <1>4 DEF IInv, Typed, DueIsNew, With
            <4>2. Before(x, isin, val) \in Nat /\ last \in Int
                BY <1>2, <1>4, BeforeGrows
            <4>3. ~(Before(x, isin, val) >= last)
                BY <1>6, <2>3, <4>1
            <4>4. QED
                BY <4>2, <4>3
        <3>3. QED
            BY <3>1, <3>2
    <2>4. QED
        BY <2>2, <2>3
<1>17. JobOK(u)
    BY <1>15, <1>16 DEF JobOK
<1>18. QED
    BY <1>2, <1>10, <1>13, <1>17, MoveOne

----------------------------------------------------------------------------
(* Steps that touch a request.                                              *)

(* The jobs a calm step leaves alone are as good as before.                 *)
LEMMA CalmJobs ==
    ASSUME IInv, UNCHANGED request, \A w \in Walks : Calm(w), \A k \in Jobs : Steady(job[k]),
           \A k \in Jobs : \A r : r = job'[k] => r = job[k] \/ JobOK(r)'
    PROVE  JobsOK'
<1> SUFFICES ASSUME NEW k \in Jobs, NEW r, r = job'[k] PROVE JobOK(r)'
    BY DEF JobsOK
<1>1. CASE r = job[k]
    <2>1. JobOK(r) /\ r.walk \in Walks /\ r \in JobRecord /\ Steady(r)
        BY <1>1, AtHome
    <2>2. QED
        BY <2>1, KeepJob
<1>2. QED
    BY <1>1

LEMMA SteadyRows == ASSUME UNCHANGED val PROVE \A r : Steady(r)
BY DEF Steady

(* A calm step that replaces job k by record p.                             *)
LEMMA CalmJob ==
    ASSUME IInv, UNCHANGED request, \A w \in Walks : Calm(w), \A j \in Jobs : Steady(job[j]),
           NEW k \in Jobs, NEW p \in JobRecord, job' = [job EXCEPT ![k] = p], JobOK(p)'
    PROVE  JobsOK' /\ job' \in [Jobs -> JobRecord]
<1>1. job \in [Jobs -> JobRecord]
    BY DEF IInv, Typed
<1>2. \A j \in Jobs : job'[j] = job[j] \/ job'[j] = p
    BY <1>1
<1>3. \A j \in Jobs : \A q : q = job'[j] => q = job[j] \/ JobOK(q)'
    <2> SUFFICES ASSUME NEW j \in Jobs, NEW q, q = job'[j], q # job[j] PROVE JobOK(q)'
        OBVIOUS
    <2>1. q = p
        BY <1>2
    <2>2. QED
        BY <2>1
<1>4. QED
    BY <1>1, <1>3, CalmJobs

LEMMA RequestStep == ASSUME IInv, NEW w \in Walks, Request(w) PROVE IInv'
<1> DEFINE new == NewJob("queued", w, 1, 0)
<1>1. /\ UNCHANGED <<val, request, due, accident, slipped>> /\ Requested(w)'
      /\ \A u \in Walks : u # w => status'[u] = status[u]
      /\ status' \in [Walks -> {"none", "RUNNING", "SUCCESS"}] /\ status'[w] = "RUNNING"
    BY DEF Request, IInv, Typed, Requested
<1>2. \A u \in Walks : Calm(u)
    BY <1>1 DEF Calm, Requested
<1>3. new \in JobRecord
    BY DEF NewJob, JobRecord, Pcs, Draining
<1>4. JobOK(new)'
    <2>1. 1 \in DOMAIN PlanOf(w) /\ 1 \in DOMAIN PlanOf(w)[1] /\ PlanOf(w) = PlanOf(w)'
        <3>1. 1 \in DOMAIN PlanOf(w) /\ 1 \in DOMAIN PlanOf(w)[1]
            BY PlanOfShape
        <3>2. PlanOf(w) = PlanOf(w)'
            BY <1>1 DEF PlanOf
        <3>3. QED
            BY <3>1, <3>2
    <2>2. DrainedTo(w, 1, 1)'
        BY <2>1, PlanOfShape DEF DrainedTo
    <2>3. QED
        BY <1>1, <2>1, <2>2
           DEF NewJob, JobOK, Placed, OwnBatch, DrainedBehind, DueAtHand, Draining, Rebuilding
<1>5. /\ faults' \in Nat
      /\ UNCHANGED job \/ \E k \in Jobs : job' = [job EXCEPT ![k] = new]
    BY DEF Request, Fault, IInv, Typed
<1> HIDE DEF new
<1>6. job' \in [Jobs -> JobRecord] /\ \A k \in Jobs : job'[k] = job[k] \/ job'[k] = new
    BY <1>3, <1>5 DEF IInv, Typed
<1>7. JobsOK'
    <2>1. \A k \in Jobs : \A r : r = job'[k] => r = job[k] \/ JobOK(r)'
        <3> SUFFICES ASSUME NEW k \in Jobs, NEW r, r = job'[k], r # job[k] PROVE JobOK(r)'
            OBVIOUS
        <3>1. r = new
            BY <1>6
        <3>2. QED
            BY <1>4, <3>1
    <2>2. QED
        BY <1>1, <1>2, <2>1, CalmJobs, SteadyRows
<1>8. SuccessIsDrained'
    <2>1. \A u \in Walks : status'[u] = "SUCCESS" => status[u] = "SUCCESS"
        BY <1>1
    <2>2. QED
        BY <1>1, <1>2, <2>1, KeepSuccess
<1>9. Typed' /\ DueIsNew'
    BY <1>1, <1>5, <1>6 DEF IInv, Typed, DueIsNew
<1>10. QED
    BY <1>7, <1>8, <1>9 DEF IInv

LEMMA SkipColumnStep == ASSUME IInv, NEW k \in Jobs, SkipColumn(k) PROVE IInv'
<1>1. PICK r : r = job[k]
    OBVIOUS
<1>2. r \in JobRecord /\ JobOK(r) /\ r.walk \in Walks /\ r.pc \in {"select", "update"} /\ Placed(r)
    BY <1>1, AtHome DEF SkipColumn, JobOK
<1>3. /\ UNCHANGED <<val, request, status, due, slipped>> /\ faults' \in Nat
      /\ accident' \in [Walks -> SUBSET {"crossed", "skipped"}]
      /\ accident'[r.walk] # {} /\ \A w \in Walks : accident[w] \subseteq accident'[w]
    BY <1>1, <1>2 DEF SkipColumn, Befalls, Mine, Fault, IInv, Typed
<1>4. \A w \in Walks : Calm(w)
    BY <1>3 DEF Calm, Requested
<1>5. PICK p : p = Passed(r)
    OBVIOUS
<1>6. p \in JobRecord /\ p.walk = r.walk /\ Placed(p) /\ OwnBatch(p)
    BY <1>2, <1>5, PassedPlaced
<1>7. JobOK(p)'
    <2>1. Placed(p)' /\ OwnBatch(p)'
        BY <1>3, <1>6 DEF Placed, OwnBatch, PlanOf, Requested
    <2>2. QED
        BY <1>3, <1>6, <2>1 DEF JobOK, DrainedBehind, DueAtHand
<1>8. job' = [job EXCEPT ![k] = p]
    BY <1>1, <1>5 DEF SkipColumn
<1>9. JobsOK' /\ job' \in [Jobs -> JobRecord]
    BY <1>3, <1>4, <1>6, <1>7, <1>8, CalmJob, SteadyRows
<1>10. SuccessIsDrained'
    BY <1>3, <1>4, KeepSuccess
<1>11. Typed' /\ DueIsNew'
    BY <1>3, <1>9 DEF IInv, Typed, DueIsNew
<1>12. QED
    BY <1>9, <1>10, <1>11 DEF IInv

LEMMA UpdateStep == ASSUME IInv, NEW k \in Jobs, Update(k) PROVE IInv'
<1>1. PICK r : r = job[k]
    OBVIOUS
<1>2. r \in JobRecord /\ JobOK(r) /\ r.walk \in Walks /\ r.pc = "update" /\ Placed(r) /\ OwnBatch(r)
    BY <1>1, AtHome DEF Update, JobOK
<1>3. PICK cj : cj = PlanOf(r.walk)[r.at][r.col]
    OBVIOUS
<1>4. Here(k) = cj /\ Mine(k) = r.walk
    BY <1>1, <1>3 DEF Here, Mine, PlanOf
<1>5. /\ cj.table \in DOMAIN RowsOf /\ r.ids \subseteq RowsOf[cj.table] /\ cj \in Columns(r.walk)
      /\ request[r.walk].kind = "rename" => cj.to = request[r.walk].new
    BY <1>2, <1>3, PlanOfShape, ColumnsOf DEF Placed, OwnBatch, Draining
<1> DEFINE changed == {x \in r.ids : val[<<x, cj.col>>] # cj.to}
           isins == cj.table = "Holdings" /\ cj.col = "ISIN"
<1>6. /\ UNCHANGED <<request, status, faults>>
      /\ val' = [x \in DOMAIN val |-> IF x[1] \in r.ids /\ x[2] = cj.col THEN cj.to ELSE val[x]]
      /\ due' = [w \in Walks |->
                    IF ~isins THEN due[w]
                    ELSE IF w = r.walk THEN due[w] \union changed ELSE due[w] \ changed]
      /\ accident' = [w \in Walks |->
                accident[w] \union IF \/ Requested(w) /\ ~(AllStale(w, val') \subseteq AllStale(w, val))
                                      \/ w = r.walk /\ ~(changed \subseteq Stale(cj, val))
                                   THEN {"crossed"} ELSE {}]
      /\ slipped' = slipped \union {w \in Walks : \E j \in Jobs :
                /\ job[j].pc = "collect" /\ job[j].walk = w /\ job[j].offset > 0
                /\ ~(With(request[w].new, val) \subseteq With(request[w].new, val'))}
    BY <1>1, <1>4 DEF Update, Mine
<1>7. /\ \A w \in Walks : Calm(w)
      /\ \A j \in Jobs : Steady(job[j])
    <2>0. ASSUME NEW j \in Jobs PROVE Steady(job[j])
        <3>1. job[j].walk \in Walks
            BY AtHome
        <3>2. QED
            BY <1>6, <3>1 DEF Steady
    <2> SUFFICES ASSUME NEW w \in Walks, Requested(w), accident'[w] = {}
                 PROVE  /\ Requested(w)' /\ accident[w] = {}
                        /\ AllStale(w, val') \subseteq AllStale(w, val)
                        /\ Drained(w) => due'[w] \subseteq due[w]
        BY <1>6, <2>0 DEF Calm, Requested
    <2> HIDE DEF changed, isins
    <2>1. /\ Requested(w)' /\ accident[w] = {}
          /\ AllStale(w, val') \subseteq AllStale(w, val)
          /\ w = r.walk => changed \subseteq Stale(cj, val)
        BY <1>6 DEF Requested
    <2>2. ASSUME Drained(w) PROVE due'[w] \subseteq due[w]
        <3>1. CASE w # r.walk
            BY <1>6, <3>1
        <3>2. CASE w = r.walk
            <4>1. Stale(cj, val) = {}
                BY <1>5, <2>2, <3>2, StaleOfColumns DEF Drained
            <4>2. QED
                BY <1>6, <2>1, <3>2, <4>1
        <3>3. QED
            BY <3>1, <3>2
    <2>3. QED
        BY <2>1, <2>2
<1>8. PICK p : p = [r EXCEPT !.pc = "select", !.ids = {}]
    OBVIOUS
<1>9. p \in JobRecord /\ JobOK(p)'
    <2>1. JobOK(r)'
        BY <1>2, <1>6, <1>7, KeepJob DEF Steady
    <2>2. /\ p.pc = "select" /\ p.ids = {} /\ p.walk = r.walk /\ p.from = r.from
          /\ p.at = r.at /\ p.col = r.col
        BY <1>2, <1>8 DEF JobRecord
    <2>3. p \in JobRecord
        <3>1. "select" \in Pcs
            BY DEF Pcs, Draining
        <3>2. QED
            BY <1>2, <1>8, <3>1 DEF JobRecord
    <2>4. QED
        BY <1>2, <2>1, <2>2, <2>3
           DEF JobOK, Placed, OwnBatch, DrainedBehind, DueAtHand, Draining, Rebuilding
<1>10. JobsOK' /\ job' \in [Jobs -> JobRecord]
    <2>1. job' = [job EXCEPT ![k] = p]
        <3>1. job \in [Jobs -> JobRecord]
            BY DEF IInv, Typed
        <3>2. QED
            BY <1>1, <1>8, <3>1 DEF Update
    <2>2. QED
        BY <1>6, <1>7, <1>9, <2>1, CalmJob
<1>11. SuccessIsDrained'
    BY <1>6, <1>7, KeepSuccess
<1>12. Typed'
    <2>1. isins => changed \subseteq RowsOf["Holdings"]
        BY <1>5
    <2> HIDE DEF changed, isins
    <2>2. due' \in [Walks -> SUBSET RowsOf["Holdings"]]
        BY <1>6, <2>1 DEF IInv, Typed
    <2>3. accident' \in [Walks -> SUBSET {"crossed", "skipped"}]
        BY <1>6 DEF IInv, Typed
    <2>4. DOMAIN val' = DOMAIN First
        BY <1>6 DEF IInv, Typed
    <2>5. slipped' \subseteq Walks
        BY <1>6 DEF IInv, Typed
    <2>6. QED
        BY <1>6, <1>10, <2>2, <2>3, <2>4, <2>5 DEF IInv, Typed
<1>13. DueIsNew'
    <2> SUFFICES ASSUME NEW w \in Walks, request[w].kind = "rename", NEW x \in due'[w]
                 PROVE  val'[<<x, "ISIN">>] = request[w].new
        BY <1>6 DEF DueIsNew
    <2>1. x \in RowsOf["Holdings"] /\ <<x, "ISIN">> \in DOMAIN val
        BY <1>12, IsinRenameAssumption DEF IInv, Typed
    <2>2. val'[<<x, "ISIN">>] = IF x \in r.ids /\ cj.col = "ISIN" THEN cj.to ELSE val[<<x, "ISIN">>]
        BY <1>6, <2>1
    <2>3. ASSUME x \in r.ids, cj.col = "ISIN" PROVE isins
        BY <1>5, <2>1, <2>3, IsinRenameAssumption
    <2>4. CASE x \in changed /\ isins
        <3>1. w = r.walk
            BY <1>6, <2>4
        <3>2. QED
            BY <1>5, <2>2, <2>4, <3>1
    <2>5. CASE ~(x \in changed /\ isins)
        <3>1. x \in due[w]
            BY <1>6, <2>5
        <3>2. val[<<x, "ISIN">>] = request[w].new
            BY <3>1 DEF IInv, DueIsNew
        <3>3. QED
            BY <2>2, <2>3, <2>5, <3>2
    <2>6. QED
        BY <2>4, <2>5
<1>14. QED
    BY <1>10, <1>11, <1>12, <1>13 DEF IInv

LEMMA QueueRebuildStep == ASSUME IInv, NEW k \in Jobs, QueueRebuild(k) PROVE IInv'
<1>1. PICK r : r = job[k]
    OBVIOUS
<1>2. r \in JobRecord /\ JobOK(r) /\ r.walk \in Walks /\ r.pc = "rebuild" /\ Placed(r)
    BY <1>1, AtHome DEF QueueRebuild, JobOK
<1>3. r.from = 0 /\ request[r.walk].kind = "rename"
    BY <1>2 DEF Placed, Rebuilding
<1>4. PICK a \in r.ids :
          /\ job' = [job EXCEPT ![k].ids = r.ids \ {a},
                                ![k].pc = IF r.ids \ {a} = {} THEN "finalize" ELSE "rebuild"]
          /\ due' = [w \in Walks |->
                        IF request[w].kind = "rename" /\ request[w].new = request[r.walk].new
                        THEN {x \in due[w] : Holder[x] # a} ELSE due[w]]
    <2>1. PICK a \in job[k].ids :
             /\ job' = [job EXCEPT ![k].ids = job[k].ids \ {a},
                                   ![k].pc = IF job[k].ids \ {a} = {} THEN "finalize" ELSE "rebuild"]
             /\ due' = [w \in Walks |->
                           IF request[w].kind = "rename" /\ request[w].new = request[job[k].walk].new
                           THEN {x \in due[w] : Holder[x] # a} ELSE due[w]]
        BY Zenon DEF QueueRebuild, Mine
    <2>2. QED
        BY <1>1, <2>1
<1>5. UNCHANGED <<val, request, status, faults, accident, slipped>>
    BY DEF QueueRebuild
<1>6. due' \in [Walks -> SUBSET RowsOf["Holdings"]] /\ \A w \in Walks : due'[w] \subseteq due[w]
    BY <1>4 DEF IInv, Typed
<1>7. \A w \in Walks : Calm(w)
    BY <1>5, <1>6 DEF Calm, Requested
<1>8. PICK p : p = [r EXCEPT !.ids = r.ids \ {a},
                             !.pc = IF r.ids \ {a} = {} THEN "finalize" ELSE "rebuild"]
    OBVIOUS
<1>9. /\ p.pc = IF r.ids \ {a} = {} THEN "finalize" ELSE "rebuild"
      /\ p.ids = r.ids \ {a} /\ p.walk = r.walk /\ p.from = r.from
    BY <1>2, <1>8 DEF JobRecord
<1>10. p \in JobRecord
    <2>1. {"rebuild", "finalize"} \subseteq Pcs
        BY DEF Pcs, Rebuilding
    <2>2. QED
        BY <1>2, <1>8, <2>1 DEF JobRecord
<1>11. JobOK(p)'
    <2>1. JobOK(r)'
        BY <1>2, <1>5, <1>7, KeepJob, SteadyRows
    <2>2. DueAtHand(p)'
        <3> SUFFICES ASSUME accident[r.walk] = {}, r.walk \notin slipped
                     PROVE  /\ p.pc = "rebuild" => {Holder[x] : x \in due'[r.walk]} \subseteq p.ids
                            /\ p.pc = "finalize" => due'[r.walk] = {}
            BY <1>5, <1>9 DEF DueAtHand
        <3>1. {Holder[x] : x \in due[r.walk]} \subseteq r.ids
            BY <1>2, <1>3 DEF JobOK, DueAtHand
        <3>2. due'[r.walk] = {x \in due[r.walk] : Holder[x] # a}
            BY <1>2, <1>3, <1>4
        <3>3. {Holder[x] : x \in due'[r.walk]} \subseteq r.ids \ {a}
            BY <3>1, <3>2
        <3>4. QED
            BY <1>9, <3>3
    <2>3. QED
        BY <1>2, <1>3, <1>9, <2>1, <2>2
           DEF JobOK, Placed, OwnBatch, DrainedBehind, Draining, Rebuilding
<1>12. JobsOK' /\ job' \in [Jobs -> JobRecord]
    <2>1. job' = [job EXCEPT ![k] = p]
        <3>1. job \in [Jobs -> JobRecord]
            BY DEF IInv, Typed
        <3>2. QED
            BY <1>1, <1>4, <1>8, <3>1
    <2>2. QED
        BY <1>5, <1>7, <1>10, <1>11, <2>1, CalmJob, SteadyRows
<1>13. SuccessIsDrained'
    BY <1>5, <1>7, KeepSuccess
<1>14. Typed' /\ DueIsNew'
    BY <1>5, <1>6, <1>12 DEF IInv, Typed, DueIsNew
<1>15. QED
    BY <1>12, <1>13, <1>14 DEF IInv

(* Rows that move only mark the request.                                    *)
LEMMA RowsMoveStep == ASSUME IInv, NEW k \in Jobs, RowsMove(k) PROVE IInv'
<1>1. PICK r : r = job[k]
    OBVIOUS
<1>2. r \in JobRecord /\ JobOK(r) /\ r.walk \in Walks /\ r.pc = "collect" /\ r.offset \in Nat
    BY <1>1, AtHome DEF RowsMove, JobRecord
<1>3. /\ UNCHANGED <<val, request, status, due, faults, accident>>
      /\ slipped' = slipped \union {r.walk}
    BY <1>1 DEF RowsMove, Mine
<1>4. \A w \in Walks : Calm(w)
    BY <1>3 DEF Calm, Requested
<1>5. PICK p : p = [r EXCEPT !.offset = r.offset + 1]
    OBVIOUS
<1>6. p \in JobRecord /\ p.pc = "collect" /\ p.walk = r.walk /\ p.from = r.from
    BY <1>2, <1>5 DEF JobRecord
<1>7. JobOK(p)'
    <2>1. JobOK(r)'
        BY <1>2, <1>3, <1>4, KeepJob, SteadyRows
    <2>2. QED
        BY <1>2, <1>3, <1>6, <2>1
           DEF JobOK, Placed, OwnBatch, DrainedBehind, DueAtHand, Draining, Rebuilding
<1>8. JobsOK' /\ job' \in [Jobs -> JobRecord]
    <2>1. job' = [job EXCEPT ![k] = p]
        <3>1. job \in [Jobs -> JobRecord]
            BY DEF IInv, Typed
        <3>2. QED
            BY <1>1, <1>5, <3>1 DEF RowsMove
    <2>2. QED
        BY <1>3, <1>4, <1>6, <1>7, <2>1, CalmJob, SteadyRows
<1>9. SuccessIsDrained'
    BY <1>3, <1>4, KeepSuccess
<1>10. Typed' /\ DueIsNew'
    BY <1>2, <1>3, <1>8 DEF IInv, Typed, DueIsNew
<1>11. QED
    BY <1>8, <1>9, <1>10 DEF IInv

LEMMA FinalizeStep == ASSUME IInv, NEW k \in Jobs, Finalize(k) PROVE IInv'
<1>1. PICK r : r = job[k]
    OBVIOUS
<1>2. r \in JobRecord /\ JobOK(r) /\ r.walk \in Walks /\ r.pc = "finalize" /\ Placed(r)
    BY <1>1, AtHome DEF Finalize, JobOK
<1>3. /\ UNCHANGED <<val, request, due, accident, slipped>> /\ faults' \in Nat
      /\ UNCHANGED status \/ status' = [status EXCEPT ![r.walk] = "SUCCESS"]
    BY <1>1 DEF Finalize, Mine, Fault, IInv, Typed
<1>4. \A w \in Walks : Calm(w)
    BY <1>3 DEF Calm, Requested, IInv, Typed
<1>5. PICK p : p = [r EXCEPT !.pc = "close"]
    OBVIOUS
<1>6. p \in JobRecord /\ JobOK(p)'
    <2>1. p \in JobRecord /\ JobOK(p) /\ p.walk \in Walks
        BY <1>2, <1>5, CloseOK DEF JobRecord
    <2>2. QED
        BY <1>3, <1>4, <2>1, KeepJob, SteadyRows
<1>7. JobsOK' /\ job' \in [Jobs -> JobRecord]
    <2>1. job' = [job EXCEPT ![k] = p]
        <3>1. job \in [Jobs -> JobRecord]
            BY DEF IInv, Typed
        <3>2. QED
            BY <1>1, <1>5, <3>1 DEF Finalize
    <2>2. QED
        BY <1>3, <1>4, <1>6, <2>1, CalmJob, SteadyRows
<1>8. SuccessIsDrained'
    <2> SUFFICES ASSUME NEW w \in Walks, status'[w] = "SUCCESS", accident[w] = {}
                 PROVE  /\ AllStale(w, val) = {}
                        /\ request[w].kind = "rename" /\ w \notin slipped => due[w] = {}
        BY <1>3 DEF SuccessIsDrained, AllStale, Columns
    <2>1. CASE w = r.walk
        BY <1>2, <2>1 DEF JobOK, DrainedBehind, DueAtHand, Drained
    <2>2. CASE w # r.walk
        BY <1>3, <2>2 DEF IInv, Typed, SuccessIsDrained
    <2>3. QED
        BY <2>1, <2>2
<1>9. Typed' /\ DueIsNew'
    BY <1>3, <1>7 DEF IInv, Typed, DueIsNew
<1>10. QED
    BY <1>7, <1>8, <1>9 DEF IInv

----------------------------------------------------------------------------
LEMMA InitIInv == Init => IInv
<1> SUFFICES ASSUME Init PROVE IInv
    OBVIOUS
<1>1. Typed
    BY NoJobOK DEF Init, Typed
<1>2. JobsOK
    BY NoJobOK DEF Init, JobsOK
<1>3. DueIsNew /\ SuccessIsDrained
    BY DEF Init, DueIsNew, SuccessIsDrained
<1>4. QED
    BY <1>1, <1>2, <1>3 DEF IInv

LEMMA Inductive == Spec => []IInv
<1>1. IInv /\ [Next]_vars => IInv'
    <2> SUFFICES ASSUME IInv, [Next]_vars PROVE IInv'
        OBVIOUS
    <2>1. ASSUME NEW w \in Walks, Request(w) PROVE IInv'
        BY <2>1, RequestStep
    <2>2. ASSUME NEW k \in Jobs, Worker(k) PROVE IInv'
        BY <2>2, StartStep, DiesStep, SelectStep, UpdateStep, SkipColumnStep, PassBatonStep, CloseStep,
           SubmitRebuildStep, CollectStep, RowsMoveStep, QueueRebuildStep, FinalizeStep DEF Worker
    <2>3. CASE UNCHANGED vars
        <3>1. Still /\ faults' \in Nat /\ job' \in [Jobs -> JobRecord] /\ job' = job
            BY <2>3 DEF vars, Still, IInv, Typed
        <3>2. QED
            BY <3>1, MoveJobs
    <2>4. QED
        BY <2>1, <2>2, <2>3 DEF Next
<1>2. QED
    BY InitIInv, <1>1, PTL DEF Spec

(* SUCCESS: nothing is left to change unless a statement was skipped or     *)
(* another request crossed, and every account is queued unless rows left    *)
(* the pages the accounts were read from.                                   *)
THEOREM SuccessMeansDrained == Spec => []SuccessIsDrained
<1>1. IInv => SuccessIsDrained
    BY DEF IInv
<1>2. QED
    BY Inductive, <1>1, PTL
===============================================================================
