-------------------------- MODULE TaskDuenessProofs --------------------------
(***************************************************************************)
(* Proofs about TaskDueness, for every catalog, period, grace and size of  *)
(* the history: the shared timer covers every enabled task, never spins,   *)
(* and a missed calendar occurrence is kept until something runs for it.   *)
(***************************************************************************)
EXTENDS TaskDueness, WellFoundedInduction, SequenceTheorems, TLAPS

-----------------------------------------------------------------------------
(* Least and greatest elements of sets of naturals.                        *)

LEMMA NatIsWellFounded ==
    \E R : /\ IsWellFoundedOn(R, Nat)
           /\ \A k, m \in Nat : <<k, m>> \in R <=> k < m
<1>1. IsWellFoundedOn(OpToRel(<, Nat), Nat)
  BY NatLessThanWellFounded
<1>2. \A k, m \in Nat : <<k, m>> \in OpToRel(<, Nat) <=> k < m
  BY DEF OpToRel
<1> QED
  BY <1>1, <1>2, Zenon

LEMMA Least ==
    ASSUME NEW S \in SUBSET Nat, S # {}
    PROVE  \E m \in S : \A k \in S : m <= k
<1>1. PICK R : /\ IsWellFoundedOn(R, Nat)
               /\ \A k, m \in Nat : <<k, m>> \in R <=> k < m
  BY NatIsWellFounded, Zenon
<1>2. IsWellFoundedOn(R, Nat)
  BY <1>1, Zenon
<1>3. \E m \in S : \A k \in S : ~(<<k, m>> \in R)
  BY <1>2, WFMin, Zenon
<1>4. PICK m \in S : \A k \in S : ~(<<k, m>> \in R)
  BY <1>3, Zenon
<1>5. ASSUME NEW k \in S
      PROVE  m <= k
  <2>1. k \in Nat /\ m \in Nat
    OBVIOUS
  <2>2. ~(k < m)
    BY <1>1, <1>4, <2>1, Zenon
  <2> QED
    BY <2>1, <2>2
<1> QED
  BY <1>5

LEMMA MinIs ==
    ASSUME NEW S \in SUBSET Nat, S # {}
    PROVE  Min(S) \in S /\ \A k \in S : Min(S) <= k
BY Least DEF Min

(* A bounded set of naturals has a greatest element: the least bound.      *)
LEMMA MaxIs ==
    ASSUME NEW S \in SUBSET Nat, S # {}, NEW b \in Nat, \A k \in S : k <= b
    PROVE  Max(S) \in S /\ \A k \in S : k <= Max(S)
<1> DEFINE U == {u \in Nat : \A k \in S : k <= u}
<1>1. PICK m \in U : \A u \in U : m <= u
  BY Least
<1>2. m \in S
  <2> SUFFICES ASSUME m \notin S
               PROVE  FALSE
    OBVIOUS
  <2>1. \A k \in S : k <= m - 1
    OBVIOUS
  <2>2. m - 1 \in Nat
    <3>1. PICK k \in S : k <= m - 1
      BY <2>1
    <3> QED
      BY <3>1
  <2> QED
    BY <1>1, <2>1, <2>2
<1> QED
  BY <1>1, <1>2 DEF Max

LEMMA MaxOfTwo ==
    ASSUME NEW a \in Nat, NEW b \in Nat
    PROVE  Max({a, b}) = IF a >= b THEN a ELSE b
BY DEF Max

-----------------------------------------------------------------------------
(* Occurrences of a schedule.                                              *)

LEMMA Positive == Period \in Nat \ {0} /\ MaxEntries \in Nat \ {0}
BY DuenessAssumption

LEMMA Division ==
    ASSUME NEW a \in Nat
    PROVE  /\ a \div Period \in Nat
           /\ (a \div Period) * Period <= a
           /\ a < (a \div Period + 1) * Period
BY Positive

LEMMA DivisionMonotone ==
    ASSUME NEW a \in Nat, NEW b \in Nat, a <= b
    PROVE  a \div Period <= b \div Period
BY Positive

LEMMA ProductMonotone ==
    ASSUME NEW a \in Nat, NEW b \in Nat, a <= b
    PROVE  a * Period <= b * Period
BY Positive

(* The next occurrence lies in the future, ...                             *)
LEMMA NextLater ==
    ASSUME NEW t, NEW a \in Nat
    PROVE  Next1(t, a) \in Nat /\ Next1(t, a) > a
<1>1. CASE t \in Calendar
  <2>1. a \div Period \in Nat /\ a < (a \div Period + 1) * Period
    BY Division
  <2>2. (a \div Period + 1) * Period \in Nat
    BY <2>1, Positive
  <2> QED
    BY <1>1, <2>1, <2>2 DEF Next1
<1>2. CASE t \notin Calendar
  BY <1>2, Positive DEF Next1
<1> QED
  BY <1>1, <1>2

(* ... and not before that of an earlier time.                             *)
LEMMA NextMonotone ==
    ASSUME NEW t, NEW a \in Nat, NEW b \in Nat, a <= b
    PROVE  Next1(t, a) <= Next1(t, b)
<1>1. CASE t \in Calendar
  <2>1. a \div Period \in Nat /\ b \div Period \in Nat
    BY Division
  <2>2. a \div Period + 1 <= b \div Period + 1
    BY <2>1, DivisionMonotone
  <2>3. (a \div Period + 1) * Period <= (b \div Period + 1) * Period
    BY <2>1, <2>2, ProductMonotone
  <2> QED
    BY <1>1, <2>3 DEF Next1
<1>2. CASE t \notin Calendar
  BY <1>2, Positive DEF Next1
<1> QED
  BY <1>1, <1>2

(* On a calendar it is a multiple of the period, the first one.            *)
LEMMA NextOnCalendar ==
    ASSUME NEW t \in Calendar, NEW a \in Nat
    PROVE  /\ \E k \in Nat : Next1(t, a) = k * Period
           /\ \A k \in Nat : a < k * Period => Next1(t, a) <= k * Period
<1>1. a \div Period \in Nat /\ (a \div Period) * Period <= a
  BY Division
<1>2. ASSUME NEW k \in Nat, a < k * Period
      PROVE  (a \div Period + 1) * Period <= k * Period
  <2>1. a \div Period < k
    <3> SUFFICES ASSUME k <= a \div Period
                 PROVE  FALSE
      BY <1>1
    <3>1. k * Period <= (a \div Period) * Period
      BY <1>1, ProductMonotone
    <3> QED
      BY <1>1, <1>2, <3>1, Positive
  <2> QED
    BY <1>1, <2>1, ProductMonotone
<1> QED
  BY <1>1, <1>2 DEF Next1

-----------------------------------------------------------------------------
(* The history.                                                            *)

LEMMA UpsertIs ==
    ASSUME NEW rs \in Seq(Row), NEW row \in Row
    PROVE  /\ Upsert(rs, row) \in Seq(Row)
           /\ Len(Upsert(rs, row)) <= Len(rs) + 1
           /\ \A i \in DOMAIN Upsert(rs, row) :
                 \/ Upsert(rs, row)[i] = row
                 \/ \E j \in DOMAIN rs : Upsert(rs, row)[i] = rs[j]
<1>1. CASE \E i \in DOMAIN rs : rs[i].id = row.id
  <2> DEFINE up1 == [i \in DOMAIN rs |-> IF rs[i].id = row.id THEN row ELSE rs[i]]
  <2>1. Upsert(rs, row) = up1
    BY <1>1 DEF Upsert
  <2>2. DOMAIN rs = 1..Len(rs) /\ Len(rs) \in Nat
    OBVIOUS
  <2>3. up1 \in [1..Len(rs) -> Row]
    BY <2>2
  <2>4. up1 \in Seq(Row) /\ Len(up1) = Len(rs)
    BY <2>2, <2>3
  <2> QED
    BY <2>1, <2>2, <2>4
<1>2. CASE ~\E i \in DOMAIN rs : rs[i].id = row.id
  BY <1>2 DEF Upsert
<1> QED
  BY <1>1, <1>2

(* compact() finds a row to remove: the oldest, and of those the first.    *)
LEMMA OldestExists ==
    ASSUME NEW rs \in Seq(Row), Len(rs) > 0
    PROVE  \E i \in DOMAIN rs : \A j \in DOMAIN rs \ {i} :
               rs[j].at > rs[i].at \/ (rs[j].at = rs[i].at /\ j > i)
<1>1. /\ DOMAIN rs = 1..Len(rs) /\ Len(rs) \in Nat
      /\ \A i \in DOMAIN rs : rs[i].at \in Nat
  <2>1. \A r \in Row : r.at \in Nat
    BY DEF Row, Time
  <2> QED
    BY <2>1, LenProperties, ElementOfSeq
<1> DEFINE A == {rs[i].at : i \in DOMAIN rs}
<1>2. PICK a \in A : \A k \in A : a <= k
  <2>1. A \in SUBSET Nat /\ A # {}
    BY <1>1
  <2> QED
    BY <2>1, Least
<1> DEFINE I == {i \in DOMAIN rs : rs[i].at = a}
<1>3. PICK i \in I : \A k \in I : i <= k
  <2>1. I \in SUBSET Nat /\ I # {}
    BY <1>1
  <2> HIDE DEF I
  <2> QED
    BY <2>1, Least
<1>4. ASSUME NEW j \in DOMAIN rs \ {i}
      PROVE  rs[j].at > rs[i].at \/ (rs[j].at = rs[i].at /\ j > i)
  <2>1. a <= rs[j].at /\ rs[i].at = a
    BY <1>2, <1>3
  <2>2. CASE rs[j].at = a
    BY <1>1, <1>3, <2>1, <2>2
  <2>3. CASE rs[j].at # a
    BY <1>1, <2>1, <2>3
  <2> QED
    BY <2>2, <2>3
<1> QED
  BY <1>3, <1>4

LEMMA CompactIs ==
    ASSUME NEW rs \in Seq(Row), Len(rs) <= MaxEntries + 1
    PROVE  /\ Compact(rs) \in Seq(Row)
           /\ Len(Compact(rs)) <= MaxEntries
           /\ \A i \in DOMAIN Compact(rs) : \E j \in DOMAIN rs :
                 Compact(rs)[i] = rs[j]
<1>1. Len(rs) \in Nat /\ DOMAIN rs = 1..Len(rs) /\ MaxEntries \in Nat
  BY Positive, LenProperties
<1>2. CASE Len(rs) <= MaxEntries
  BY <1>2 DEF Compact
<1>3. CASE Len(rs) > MaxEntries
  <2> DEFINE Oldest(i) == \A j \in DOMAIN rs \ {i} :
                 rs[j].at > rs[i].at \/ (rs[j].at = rs[i].at /\ j > i)
             c == CHOOSE i \in DOMAIN rs : Oldest(i)
  <2>1. \E i \in DOMAIN rs : Oldest(i)
    <3>1. Len(rs) > 0
      BY <1>1, <1>3
    <3> QED
      BY <3>1, OldestExists
  <2>2. c \in DOMAIN rs
    BY <2>1, Zenon
  <2>3. Compact(rs) = RemoveAt(rs, c)
    BY <1>1, <1>3 DEF Compact
  <2> HIDE DEF c
  <2>4. PICK i \in 1..Len(rs) : Compact(rs) = RemoveAt(rs, i)
    BY <1>1, <2>2, <2>3
  <2> DEFINE l == SubSeq(rs, 1, i - 1)
             r == SubSeq(rs, i + 1, Len(rs))
  <2>5. /\ l \in Seq(Row) /\ Len(l) = i - 1
        /\ \A k \in 1..i - 1 : l[k] = rs[k]
    <3>1. \A k \in 1..i - 1 : rs[k] \in Row
      BY <1>1, ElementOfSeq
    <3>2. /\ l \in Seq(Row)
          /\ Len(l) = IF 1 <= i - 1 THEN i - 1 - 1 + 1 ELSE 0
          /\ \A k \in 1..i - 1 - 1 + 1 : l[k] = rs[1 + k - 1]
      BY <1>1, <3>1, SubSeqProperties
    <3> HIDE DEF l
    <3> QED
      BY <1>1, <3>2
  <2>6. /\ r \in Seq(Row) /\ Len(r) = Len(rs) - i
        /\ \A k \in 1..Len(rs) - i : r[k] = rs[i + k]
    <3>1. \A k \in i + 1..Len(rs) : rs[k] \in Row
      BY <1>1, ElementOfSeq
    <3>2. /\ r \in Seq(Row)
          /\ Len(r) = IF i + 1 <= Len(rs) THEN Len(rs) - (i + 1) + 1 ELSE 0
          /\ \A k \in 1..Len(rs) - (i + 1) + 1 : r[k] = rs[(i + 1) + k - 1]
      BY <1>1, <3>1, SubSeqProperties
    <3> HIDE DEF r
    <3>3. Len(r) = Len(rs) - i
      <4>1. i \in Int /\ Len(rs) \in Int /\ i <= Len(rs)
        BY <1>1
      <4>2. Len(r) = IF i + 1 <= Len(rs) THEN Len(rs) - (i + 1) + 1 ELSE 0
        BY <3>2
      <4> QED
        BY <4>1, <4>2
    <3>4. ASSUME NEW k \in 1..Len(rs) - i
          PROVE  r[k] = rs[i + k]
      <4>1. k \in 1..Len(rs) - (i + 1) + 1 /\ (i + 1) + k - 1 = i + k
        BY <1>1
      <4>2. r[k] = rs[(i + 1) + k - 1]
        BY <3>2, <4>1
      <4> QED
        BY <4>1, <4>2
    <3> QED
      BY <3>2, <3>3, <3>4
  <2>7. Compact(rs) = l \o r
    BY <2>4 DEF RemoveAt
  <2> HIDE DEF l, r
  <2>8. /\ l \o r \in Seq(Row) /\ Len(l \o r) = Len(rs) - 1
        /\ \A k \in 1..Len(rs) - 1 :
              (l \o r)[k] = IF k <= i - 1 THEN l[k] ELSE r[k - (i - 1)]
    <3>1. /\ l \o r \in Seq(Row) /\ Len(l \o r) = Len(l) + Len(r)
          /\ \A k \in 1..Len(l) + Len(r) :
                (l \o r)[k] = IF k <= Len(l) THEN l[k] ELSE r[k - Len(l)]
      BY <2>5, <2>6, ConcatProperties
    <3>2. Len(l) + Len(r) = Len(rs) - 1
      BY <1>1, <2>5, <2>6
    <3> QED
      BY <2>5, <3>1, <3>2
  <2>9. ASSUME NEW k \in 1..Len(rs) - 1
        PROVE  \E j \in 1..Len(rs) : (l \o r)[k] = rs[j]
    <3>1. CASE k <= i - 1
      <4>1. k \in 1..i - 1 /\ k \in 1..Len(rs)
        BY <1>1, <3>1
      <4>2. (l \o r)[k] = rs[k]
        BY <2>5, <2>8, <3>1, <4>1
      <4> QED
        BY <4>1, <4>2
    <3>2. CASE ~(k <= i - 1)
      <4>1. /\ k - (i - 1) \in 1..Len(rs) - i
            /\ i + (k - (i - 1)) \in 1..Len(rs)
        BY <1>1, <3>2
      <4>2. (l \o r)[k] = rs[i + (k - (i - 1))]
        BY <2>6, <2>8, <3>2, <4>1
      <4> QED
        BY <4>1, <4>2
    <3> QED
      BY <3>1, <3>2
  <2>10. DOMAIN (l \o r) = 1..Len(rs) - 1
    BY <2>8, LenProperties
  <2>11. Len(rs) - 1 <= MaxEntries
    BY <1>1
  <2> QED
    BY <1>1, <2>7, <2>8, <2>9, <2>10, <2>11
<1> QED
  BY <1>1, <1>2, <1>3

(* What a stored row leaves in the history.                                *)
LEMMA StoreIs ==
    ASSUME TypeOK, NEW row \in Row, Store(row)
    PROVE  /\ rows' \in Seq(Row)
           /\ Len(rows') <= MaxEntries
           /\ \A i \in DOMAIN rows' :
                 \/ rows'[i] = row
                 \/ \E j \in DOMAIN rows : rows'[i] = rows[j]
<1> DEFINE u == Upsert(rows, row)
<1>1. /\ u \in Seq(Row) /\ Len(u) <= MaxEntries + 1
      /\ \A i \in DOMAIN u : u[i] = row \/ \E j \in DOMAIN rows : u[i] = rows[j]
  <2>1. rows \in Seq(Row) /\ Len(rows) \in Nat /\ Len(rows) <= MaxEntries
    BY LenProperties DEF TypeOK
  <2>2. /\ u \in Seq(Row) /\ Len(u) <= Len(rows) + 1
        /\ \A i \in DOMAIN u :
              u[i] = row \/ \E j \in DOMAIN rows : u[i] = rows[j]
    BY <2>1, UpsertIs
  <2>3. Len(u) \in Nat
    BY <2>2, LenProperties
  <2> HIDE DEF u
  <2> QED
    BY <2>1, <2>2, <2>3, Positive
<1>2. rows' = Compact(u)
  BY DEF Store
<1> HIDE DEF u
<1> QED
  BY <1>1, <1>2, CompactIs

-----------------------------------------------------------------------------
(* The inductive invariant.                                                *)

(* No record is of the future, and a success in the history is not newer   *)
(* than the newest success there was.                                      *)
Recorded == \A i \in DOMAIN rows : rows[i].fin <= lastGood[rows[i].task]

Past ==
    /\ \A t \in Task : lastGood[t] <= now /\ scheduled[t] <= now
    /\ tick.at <= now

(* A stored cursor is an occurrence of the calendar.                       *)
Occurrences == \A t \in Calendar : \E k \in Nat : cursor[t] = k * Period

(* The idle scheduler: its timer is in time for every enabled task, counted *)
(* from now, from what the task last did and from its cursor.              *)
Covered ==
    Idle =>
        /\ \A t \in enabled :
              /\ timer # Never /\ timer <= Next1(t, now)
              /\ Base(t) # Never /\ ~Forgotten(t)
                    => timer <= Max({now + 1, Next1(t, Base(t))})
        /\ \A t \in Calendar \cap enabled : timer <= Max({now + 1, cursor[t]})

(* A task that a tick is about to run has not succeeded lately, unless the *)
(* history does not know or the task still is in active.                   *)
Decided ==
    \A t \in Task :
        tick.i \in 1..Len(Catalog) /\ Deciding(t) /\ active[t] = 0
            => Forgotten(t) \/ ~StillGood(t, tick.at)

Basic == TypeOK /\ Recorded /\ Past

DueInv == Basic /\ Occurrences /\ Covered /\ Decided

-----------------------------------------------------------------------------
(* The newest success of a history.                                        *)

GoodIn(rs, t) ==
    {i \in DOMAIN rs : rs[i].task = t /\ rs[i].status = "succeeded"}
FinishesIn(rs, t) == {rs[i].fin : i \in GoodIn(rs, t)} \union {Never}
LatestIn(rs, t) == Max(FinishesIn(rs, t))

LEMMA LastSuccessIn ==
    ASSUME NEW t
    PROVE  /\ LastSuccess(t) = LatestIn(rows, t)
           /\ LastSuccess(t)' = LatestIn(rows', t)
BY DEF LastSuccess, Successes, LatestIn, FinishesIn, GoodIn

LEMMA RowParts ==
    ASSUME NEW r \in Row
    PROVE  r.task \in Task /\ r.fin \in Nat /\ r.at \in Nat
BY DEF Row, Time

LEMMA LatestIs ==
    ASSUME NEW rs \in Seq(Row), NEW t, NEW b \in Nat,
           \A i \in DOMAIN rs : rs[i].task = t => rs[i].fin <= b
    PROVE  /\ LatestIn(rs, t) \in FinishesIn(rs, t)
           /\ LatestIn(rs, t) \in Nat
           /\ LatestIn(rs, t) <= b
           /\ \A f \in FinishesIn(rs, t) : f <= LatestIn(rs, t)
<1>1. \A i \in DOMAIN rs : rs[i].fin \in Nat
  BY RowParts, LenProperties, ElementOfSeq
<1>2. FinishesIn(rs, t) \in SUBSET Nat /\ FinishesIn(rs, t) # {}
  BY <1>1 DEF FinishesIn, GoodIn, Never
<1>3. \A f \in FinishesIn(rs, t) : f <= b
  BY DEF FinishesIn, GoodIn, Never
<1> QED
  BY <1>2, <1>3, MaxIs DEF LatestIn

(* What the scheduler reads of the past of a task.                         *)
LEMMA PastIs ==
    ASSUME Basic, NEW t \in Task
    PROVE  /\ LastSuccess(t) \in Nat /\ LastSuccess(t) <= lastGood[t]
           /\ LastSuccess(t) <= now
           /\ scheduled[t] \in Nat /\ scheduled[t] <= now
           /\ lastGood[t] \in Nat /\ lastGood[t] <= now /\ now \in Nat
           /\ Base(t) = IF scheduled[t] >= LastSuccess(t)
                        THEN scheduled[t] ELSE LastSuccess(t)
<1>1. /\ rows \in Seq(Row) /\ lastGood[t] \in Nat /\ scheduled[t] \in Nat
      /\ now \in Nat /\ lastGood[t] <= now /\ scheduled[t] <= now
  BY DEF Basic, TypeOK, Past, Time
<1>2. \A i \in DOMAIN rows : rows[i].task = t => rows[i].fin <= lastGood[t]
  BY DEF Basic, Recorded
<1>3. LastSuccess(t) \in Nat /\ LastSuccess(t) <= lastGood[t]
  BY <1>1, <1>2, LatestIs, LastSuccessIn
<1>4. LastSuccess(t) <= now
  BY <1>1, <1>3
<1> QED
  BY <1>1, <1>3, <1>4, MaxOfTwo DEF Base

LEMMA PastIsNext ==
    ASSUME Basic', NEW t \in Task
    PROVE  /\ LastSuccess(t)' \in Nat /\ LastSuccess(t)' <= lastGood'[t]
           /\ LastSuccess(t)' <= now'
           /\ scheduled'[t] \in Nat /\ scheduled'[t] <= now'
           /\ lastGood'[t] \in Nat /\ lastGood'[t] <= now' /\ now' \in Nat
           /\ Base(t)' = IF scheduled'[t] >= LastSuccess(t)'
                         THEN scheduled'[t] ELSE LastSuccess(t)'
<1>1. /\ rows' \in Seq(Row) /\ lastGood'[t] \in Nat /\ scheduled'[t] \in Nat
      /\ now' \in Nat /\ lastGood'[t] <= now' /\ scheduled'[t] <= now'
  BY DEF Basic, TypeOK, Past, Time
<1>2. \A i \in DOMAIN rows' : rows'[i].task = t => rows'[i].fin <= lastGood'[t]
  BY DEF Basic, Recorded
<1>3. LastSuccess(t)' \in Nat /\ LastSuccess(t)' <= lastGood'[t]
  BY <1>1, <1>2, LatestIs, LastSuccessIn
<1>4. LastSuccess(t)' <= now'
  BY <1>1, <1>3
<1> QED
  BY <1>1, <1>3, <1>4, MaxOfTwo DEF Base

-----------------------------------------------------------------------------
(* What a step does to the history.                                        *)

(* The successes of t in the history were there before.                    *)
Quiet(t) ==
    \A i \in GoodIn(rows', t) : \E j \in GoodIn(rows, t) :
        rows'[i].fin = rows[j].fin

(* A success that is still in the history was there before, or it is new   *)
(* and its task has not left active yet.                                   *)
Remembers(t) ==
    LastSuccess(t)' = lastGood'[t] =>
        \/ LastSuccess(t)' = now' /\ active'[t] # 0
        \/ LastSuccess(t)' = LastSuccess(t) /\ LastSuccess(t) = lastGood[t]

LEMMA QuietRemembers ==
    ASSUME Basic, NEW t \in Task, Quiet(t), rows' \in Seq(Row), Recorded',
           lastGood'[t] = lastGood[t]
    PROVE  Remembers(t)
<1>1. /\ LastSuccess(t) \in Nat /\ LastSuccess(t) <= lastGood[t]
      /\ lastGood[t] \in Nat
  BY PastIs
<1>2. FinishesIn(rows', t) \subseteq FinishesIn(rows, t)
  BY DEF Quiet, FinishesIn
<1>3. \A f \in FinishesIn(rows, t) : f <= LastSuccess(t)
  <2>1. rows \in Seq(Row)
    BY DEF Basic, TypeOK
  <2>2. \A i \in DOMAIN rows : rows[i].task = t => rows[i].fin <= lastGood[t]
    BY DEF Basic, Recorded
  <2> QED
    BY <1>1, <2>1, <2>2, LatestIs, LastSuccessIn
<1>4. LastSuccess(t)' \in FinishesIn(rows', t) /\ LastSuccess(t)' \in Nat
  <2>1. \A i \in DOMAIN rows' : rows'[i].task = t => rows'[i].fin <= lastGood[t]
    BY DEF Recorded
  <2> QED
    BY <1>1, <2>1, LatestIs, LastSuccessIn
<1>5. LastSuccess(t)' <= LastSuccess(t)
  BY <1>2, <1>3, <1>4
<1> QED
  BY <1>1, <1>4, <1>5 DEF Remembers

(* A step that adds no success.                                            *)
LEMMA AddsNone ==
    ASSUME Basic, UNCHANGED lastGood,
           rows' \in Seq(Row),
           \A i \in DOMAIN rows' :
              \/ rows'[i].fin = Never /\ rows'[i].status # "succeeded"
              \/ \E j \in DOMAIN rows :
                    /\ rows'[i].fin = rows[j].fin
                    /\ rows'[i].task = rows[j].task
                    /\ rows'[i].status = "succeeded"
                          => rows[j].status = "succeeded"
    PROVE  Recorded' /\ \A t \in Task : Remembers(t)
<1>1. Recorded'
  <2> SUFFICES ASSUME NEW i \in DOMAIN rows'
               PROVE  rows'[i].fin <= lastGood[rows'[i].task]
    BY DEF Recorded
  <2>1. rows'[i].task \in Task
    BY RowParts, LenProperties, ElementOfSeq
  <2>2. lastGood[rows'[i].task] \in Nat
    BY <2>1, PastIs
  <2> QED
    BY <2>2 DEF Basic, Recorded, Never
<1>2. \A t \in Task : Quiet(t)
  BY DEF Quiet, GoodIn
<1> QED
  BY <1>1, <1>2, QuietRemembers

(* runNow() stores a row that is no success.                               *)
LEMMA RunNowIs ==
    ASSUME TypeOK, NEW t \in Task, RunNow(t)
    PROVE  /\ sequence' \in Nat /\ active' \in [Task -> Nat]
           /\ rows' \in Seq(Row) /\ Len(rows') <= MaxEntries
           /\ \A i \in DOMAIN rows' :
                 \/ rows'[i].fin = Never /\ rows'[i].status # "succeeded"
                 \/ \E j \in DOMAIN rows : rows'[i] = rows[j]
<1>1. sequence' = sequence + 1 /\ sequence' \in Nat
  BY DEF RunNow, TypeOK
<1>2. active' \in [Task -> Nat]
  BY <1>1 DEF RunNow, TypeOK
<1>3. PICK row \in Row : /\ Store(row)
                         /\ row.fin = Never /\ row.status # "succeeded"
  <2> DEFINE skip == [id |-> <<"skip", sequence'>>, task |-> t,
                      status |-> "skipped", at |-> now, fin |-> Never]
             run == [id |-> <<"run", sequence'>>, task |-> t,
                     status |-> "running", at |-> now, fin |-> Never]
  <2>1. now \in Nat /\ Never \in Nat
    BY DEF TypeOK, Time, Never
  <2>2. skip \in Row /\ run \in Row
    BY <1>1, <2>1 DEF Row, Time
  <2>3. /\ skip.fin = Never /\ skip.status # "succeeded"
        /\ run.fin = Never /\ run.status # "succeeded"
    OBVIOUS
  <2>4. Store(skip) \/ Store(run)
    BY DEF RunNow
  <2> HIDE DEF skip, run
  <2> QED
    BY <2>2, <2>3, <2>4
<1> QED
  BY <1>1, <1>2, <1>3, StoreIs

(* The end of an execution stores one, when it is one.                     *)
LEMMA FinishIs ==
    ASSUME TypeOK, NEW t \in Task, NEW s \in {"succeeded", "failed"},
           Finish(t, s)
    PROVE  \E row \in Row :
              /\ row.task = t /\ row.status = s
              /\ row.fin = IF s = "succeeded" THEN now ELSE Never
              /\ rows' \in Seq(Row) /\ Len(rows') <= MaxEntries
              /\ \A i \in DOMAIN rows' :
                    rows'[i] = row \/ \E j \in DOMAIN rows : rows'[i] = rows[j]
<1> DEFINE id == <<"run", active[t]>>
           at == IF \E i \in DOMAIN rows : rows[i].id = id
                 THEN rows[CHOOSE i \in DOMAIN rows : rows[i].id = id].at
                 ELSE now
           row == [id |-> id, task |-> t, status |-> s, at |-> at,
                   fin |-> IF s = "succeeded" THEN now ELSE Never]
<1>1. now \in Nat /\ Never \in Nat /\ active[t] \in Nat
  BY DEF TypeOK, Time, Never
<1>2. at \in Nat
  <2>1. CASE \E i \in DOMAIN rows : rows[i].id = id
    <3>1. \A i \in DOMAIN rows : rows[i].at \in Nat
      BY RowParts, LenProperties, ElementOfSeq DEF TypeOK
    <3>2. (CHOOSE i \in DOMAIN rows : rows[i].id = id) \in DOMAIN rows
      BY <2>1, Zenon
    <3>3. at = rows[CHOOSE i \in DOMAIN rows : rows[i].id = id].at
      BY <2>1, Zenon
    <3> QED
      BY <3>1, <3>2, <3>3, Zenon
  <2>2. CASE ~\E i \in DOMAIN rows : rows[i].id = id
    <3>1. at = now
      BY <2>2, Zenon
    <3> QED
      BY <1>1, <3>1
  <2> QED
    BY <2>1, <2>2
<1>3. Store(row)
  BY DEF Finish
<1> HIDE DEF at
<1>4. row \in Row
  BY <1>1, <1>2 DEF Row, Time
<1>5. /\ row.task = t /\ row.status = s
      /\ row.fin = IF s = "succeeded" THEN now ELSE Never
  OBVIOUS
<1> HIDE DEF row
<1> QED
  BY <1>3, <1>4, <1>5, StoreIs

HistoryKept ==
    /\ rows' \in Seq(Row) /\ Len(rows') <= MaxEntries
    /\ Recorded'
    /\ \A t \in Task : Remembers(t)

LEMMA SameHistory ==
    ASSUME Basic, UNCHANGED <<rows, lastGood>>
    PROVE  HistoryKept
<1>1. rows' \in Seq(Row) /\ Len(rows') <= MaxEntries
  BY DEF Basic, TypeOK
<1> QED
  BY <1>1, AddsNone DEF HistoryKept

LEMMA RunNowHistory ==
    ASSUME Basic, NEW t \in Task, RunNow(t), UNCHANGED lastGood
    PROVE  HistoryKept
<1>1. /\ rows' \in Seq(Row) /\ Len(rows') <= MaxEntries
      /\ \A i \in DOMAIN rows' :
            \/ rows'[i].fin = Never /\ rows'[i].status # "succeeded"
            \/ \E j \in DOMAIN rows : rows'[i] = rows[j]
  BY RunNowIs DEF Basic
<1>2. \A i \in DOMAIN rows' :
         \/ rows'[i].fin = Never /\ rows'[i].status # "succeeded"
         \/ \E j \in DOMAIN rows :
               /\ rows'[i].fin = rows[j].fin
               /\ rows'[i].task = rows[j].task
               /\ rows'[i].status = "succeeded" => rows[j].status = "succeeded"
  BY <1>1
<1> QED
  BY <1>1, <1>2, AddsNone DEF HistoryKept

LEMMA StartHistory ==
    ASSUME Basic, Start
    PROVE  HistoryKept
<1>1. /\ rows \in Seq(Row) /\ Len(rows) <= MaxEntries
      /\ Len(rows) \in Nat /\ DOMAIN rows = 1..Len(rows)
      /\ \A i \in DOMAIN rows : rows[i] \in Row
  BY LenProperties, ElementOfSeq DEF Basic, TypeOK
<1>2. /\ DOMAIN rows' = DOMAIN rows
      /\ \A i \in DOMAIN rows :
            rows'[i] = IF rows[i].status = "running"
                       THEN [rows[i] EXCEPT !.status = "abandoned"]
                       ELSE rows[i]
  BY DEF Start
<1>3. ASSUME NEW i \in DOMAIN rows
      PROVE  /\ rows'[i] \in Row
             /\ rows'[i].fin = rows[i].fin /\ rows'[i].task = rows[i].task
             /\ rows'[i].status = "succeeded" => rows[i].status = "succeeded"
  <2>1. rows[i] \in Row
    BY <1>1
  <2>2. \A r \in Row :
           LET a == [r EXCEPT !.status = "abandoned"]
           IN  /\ a \in Row /\ a.fin = r.fin /\ a.task = r.task
               /\ a.status = "abandoned"
    BY DEF Row
  <2>3. CASE rows[i].status = "running"
    BY <1>2, <2>1, <2>2, <2>3
  <2>4. CASE rows[i].status # "running"
    BY <1>2, <2>1, <2>4
  <2> QED
    BY <2>3, <2>4
<1>4. rows' \in Seq(Row) /\ Len(rows') = Len(rows)
  <2>1. rows' \in [1..Len(rows) -> Row]
    BY <1>1, <1>2, <1>3 DEF Start
  <2> QED
    BY <1>1, <2>1
<1>5. UNCHANGED lastGood
  BY DEF Start
<1> QED
  BY <1>1, <1>2, <1>3, <1>4, <1>5, AddsNone DEF HistoryKept

LEMMA FinishHistory ==
    ASSUME Basic, NEW t \in Task, NEW s \in {"succeeded", "failed"},
           Finish(t, s)
    PROVE  HistoryKept
<1>1. PICK row \in Row :
         /\ row.task = t /\ row.status = s
         /\ row.fin = IF s = "succeeded" THEN now ELSE Never
         /\ rows' \in Seq(Row) /\ Len(rows') <= MaxEntries
         /\ \A i \in DOMAIN rows' :
               rows'[i] = row \/ \E j \in DOMAIN rows : rows'[i] = rows[j]
  BY FinishIs DEF Basic
<1>2. CASE s = "failed"
  <2>1. \A i \in DOMAIN rows' :
           \/ rows'[i].fin = Never /\ rows'[i].status # "succeeded"
           \/ \E j \in DOMAIN rows :
                 /\ rows'[i].fin = rows[j].fin
                 /\ rows'[i].task = rows[j].task
                 /\ rows'[i].status = "succeeded"
                       => rows[j].status = "succeeded"
    BY <1>1, <1>2
  <2>2. UNCHANGED lastGood
    BY <1>2 DEF Finish
  <2> QED
    BY <1>1, <2>1, <2>2, AddsNone DEF HistoryKept
<1>3. CASE s = "succeeded"
  <2>1. /\ lastGood' = [lastGood EXCEPT ![t] = now] /\ now' = now
        /\ lastGood \in [Task -> Nat] /\ now \in Nat
    BY <1>3 DEF Finish, Basic, TypeOK, Time
  <2>2. lastGood'[t] = now /\ \A u \in Task \ {t} : lastGood'[u] = lastGood[u]
    BY <2>1
  <2>3. ASSUME NEW i \in DOMAIN rows'
        PROVE  rows'[i].fin <= lastGood'[rows'[i].task]
    <3>1. CASE rows'[i] = row
      BY <1>1, <1>3, <2>1, <2>2, <3>1
    <3>2. CASE \E j \in DOMAIN rows : rows'[i] = rows[j]
      <4>1. PICK j \in DOMAIN rows : rows'[i] = rows[j]
        BY <3>2
      <4>2. rows[j].fin <= lastGood[rows[j].task]
        BY DEF Basic, Recorded
      <4>3. rows[j].task \in Task /\ rows[j].fin \in Nat
        BY RowParts, LenProperties, ElementOfSeq DEF Basic, TypeOK
      <4>4. lastGood[t] \in Nat /\ lastGood[t] <= now
        BY PastIs
      <4> QED
        BY <2>1, <2>2, <4>1, <4>2, <4>3, <4>4
    <3> QED
      BY <1>1, <3>1, <3>2
  <2>4. Recorded'
    BY <2>3 DEF Recorded
  <2>5. ASSUME NEW u \in Task
        PROVE  Remembers(u)
    <3>1. CASE u = t
      <4>1. lastGood'[u] = now' /\ active'[u] # 0
        BY <2>1, <2>2, <3>1 DEF Finish
      <4> QED
        BY <4>1 DEF Remembers
    <3>2. CASE u # t
      <4>1. Quiet(u)
        BY <1>1, <3>2 DEF Quiet, GoodIn
      <4> QED
        BY <1>1, <2>2, <2>4, <3>2, <4>1, QuietRemembers
    <3> QED
      BY <3>1, <3>2
  <2> QED
    BY <1>1, <2>4, <2>5 DEF HistoryKept
<1> QED
  BY <1>2, <1>3

LEMMA CatalogIs ==
    /\ Len(Catalog) \in Nat
    /\ \A i \in 1..Len(Catalog) : Catalog[i] \in Task
BY DuenessAssumption, LenProperties, ElementOfSeq

LEMMA HistoryStep ==
    ASSUME Basic, [Next]_vars
    PROVE  HistoryKept
<1>1. CASE Start
  BY <1>1, StartHistory
<1>2. CASE \/ Exit \/ TimePasses \/ TimerFires \/ TickReads \/ ScheduleNext
           \/ Rejected \/ SweepFires \/ Refresh
  <2>1. UNCHANGED <<rows, lastGood>>
    BY <1>2 DEF Exit, TimePasses, TimerFires, TickReads, ScheduleNext,
        Rejected, TickSkips, TickFails, SweepFails, SweepFires, Refresh, stored
  <2> QED
    BY <2>1, SameHistory
<1>3. CASE TickTask
  <2>1. Catalog[tick.i] \in Task
    BY <1>3, CatalogIs DEF TickTask
  <2> QED
    BY <1>3, <2>1, RunNowHistory DEF TickTask
<1>4. CASE SweepTask
  <2>1. PICK t \in delayed : RunNow(t)
    BY <1>4 DEF SweepTask
  <2>2. t \in Task /\ UNCHANGED lastGood
    BY <1>4, DuenessAssumption DEF SweepTask, Basic, TypeOK
  <2> QED
    BY <2>1, <2>2, RunNowHistory
<1>5. CASE \E t \in Task : ManualRun(t)
  BY <1>5, RunNowHistory DEF ManualRun
<1>6. CASE \E t \in Task : UpdatePreference(t) \/ Freed(t)
  BY <1>6, SameHistory DEF UpdatePreference, Freed, stored
<1>7. CASE \E t \in Task : \E s \in {"succeeded", "failed"} : Finish(t, s)
  BY <1>7, FinishHistory
<1>8. CASE UNCHANGED vars
  BY <1>8, SameHistory DEF vars, stored
<1> QED
  BY <1>1, <1>2, <1>3, <1>4, <1>5, <1>6, <1>7, <1>8 DEF Next, TimerStep

-----------------------------------------------------------------------------
(* The tasks, times and claims have their types, and are of the past.      *)

ControlOK ==
    /\ now \in Nat \ {0} /\ up \in BOOLEAN
    /\ enabled \subseteq Task
    /\ sequence \in Nat /\ active \in [Task -> Nat]
    /\ rearm \in BOOLEAN /\ refreshing \in BOOLEAN /\ sweeping \in BOOLEAN
    /\ upsets \in Nat

TickRecord == [i : 0..Len(Catalog) + 1, at : Nat, step : {"read", "run"}]

TimesOK ==
    /\ scheduled \in [Task -> Nat] /\ delayed \subseteq Startup
    /\ timer \in Nat /\ sweep \in Nat
    /\ tick \in TickRecord /\ stopping \subseteq Task
    /\ lastGood \in [Task -> Nat]

LEMMA TypeGroups ==
    TypeOK <=> /\ ControlOK /\ TimesOK
               /\ cursor \in [Calendar -> Nat]
               /\ rows \in Seq(Row) /\ Len(rows) <= MaxEntries
BY DEF TypeOK, ControlOK, TimesOK, TickRecord, Time, Never

LEMMA TypeGroupsNext ==
    TypeOK' <=> /\ ControlOK' /\ TimesOK'
                /\ cursor' \in [Calendar -> Nat]
                /\ rows' \in Seq(Row) /\ Len(rows') <= MaxEntries
BY DEF TypeOK, ControlOK, TimesOK, TickRecord, Time, Never

(* The candidate of every task is a time, and no later than a period from  *)
(* now or from what the task last did.                                     *)
LEMMA CandidateIs ==
    ASSUME Basic, NEW t \in Task
    PROVE  /\ Candidate(t) \in Nat
           /\ Candidate(t) <= Next1(t, now)
           /\ Base(t) # Never => Candidate(t) <= Max({now + 1, Next1(t, Base(t))})
<1>1. now \in Nat /\ Base(t) \in Nat /\ Base(t) <= now
  BY PastIs
<1>2. /\ Next1(t, now) \in Nat /\ Next1(t, now) > now
      /\ Next1(t, Base(t)) \in Nat /\ Next1(t, Base(t)) <= Next1(t, now)
  BY <1>1, NextLater, NextMonotone
<1>3. \/ Candidate(t) = now
      \/ Base(t) # Never /\ Candidate(t) = Next1(t, Base(t))
      \/ Base(t) = Never /\ Candidate(t) = Next1(t, now)
  <2>1. CASE CatchUp(t)
    BY <2>1, Zenon DEF Candidate
  <2>2. CASE ~CatchUp(t) /\ Base(t) # Never
    BY <2>2, Zenon DEF Candidate
  <2>3. CASE ~CatchUp(t) /\ Base(t) = Never /\ t \in Startup \ Calendar
    BY <2>3, Zenon DEF Candidate
  <2>4. CASE ~CatchUp(t) /\ Base(t) = Never /\ t \notin Startup \ Calendar
    BY <2>4, Zenon DEF Candidate
  <2> QED
    BY <2>1, <2>2, <2>3, <2>4, Zenon
<1>4. /\ Max({now + 1, Next1(t, Base(t))}) \in Nat
      /\ Max({now + 1, Next1(t, Base(t))}) >= now + 1
      /\ Max({now + 1, Next1(t, Base(t))}) >= Next1(t, Base(t))
  BY <1>1, <1>2, MaxOfTwo
<1> HIDE DEF Candidate
<1> QED
  BY <1>1, <1>2, <1>3, <1>4

(* What scheduleNext arms: the earliest candidate, or at once.             *)
Arms == Max({now, Min({Candidate(t) : t \in enabled})})

LEMMA ArmsIs ==
    ASSUME Basic, enabled # {}
    PROVE  /\ Arms \in Nat /\ Arms >= now
           /\ \E t \in enabled : Arms = Max({now, Candidate(t)})
           /\ \A t \in enabled : Arms <= Max({now, Candidate(t)})
<1> DEFINE C == {Candidate(t) : t \in enabled}
<1>1. C \in SUBSET Nat /\ C # {}
  <2>1. \A t \in enabled : Candidate(t) \in Nat
    BY CandidateIs DEF Basic, TypeOK
  <2> HIDE DEF Candidate
  <2> QED
    BY <2>1
<1>2. Min(C) \in C /\ \A k \in C : Min(C) <= k
  <2> HIDE DEF C
  <2> QED
    BY <1>1, MinIs
<1>3. PICK t \in enabled : Min(C) = Candidate(t)
  BY <1>2
<1>4. now \in Nat /\ Min(C) \in Nat
  BY <1>1, <1>2, PastIs DEF Basic, TypeOK, Time
<1>5. Arms = Max({now, Candidate(t)}) /\ Arms = Max({now, Min(C)})
  BY <1>3 DEF Arms
<1>6. Arms \in Nat /\ Arms >= now
  BY <1>4, <1>5, MaxOfTwo
<1>7. ASSUME NEW u \in enabled
      PROVE  Arms <= Max({now, Candidate(u)})
  <2>1. Candidate(u) \in C
    OBVIOUS
  <2>2. Candidate(u) \in Nat /\ Min(C) <= Candidate(u)
    BY <1>1, <1>2, <2>1
  <2>3. /\ Max({now, Candidate(u)}) =
              IF now >= Candidate(u) THEN now ELSE Candidate(u)
        /\ Max({now, Min(C)}) = IF now >= Min(C) THEN now ELSE Min(C)
    BY <1>4, <2>2, MaxOfTwo
  <2> HIDE DEF C
  <2> QED
    BY <1>4, <1>5, <2>2, <2>3
<1> QED
  BY <1>5, <1>6, <1>7

LEMMA SchedulesIs ==
    ASSUME Basic, ScheduleNext
    PROVE  /\ enabled # {} => timer' = Arms
           /\ enabled = {} => timer' = Never
           /\ timer' \in Nat
           /\ cursor' = [t \in Calendar |-> NextCursor(t)]
           /\ \A t \in Calendar : NextCursor(t) \in Nat
<1>1. /\ enabled # {} => timer' = Arms
      /\ enabled = {} => timer' = Never
      /\ cursor' = [t \in Calendar |-> NextCursor(t)]
  BY DEF ScheduleNext, Arms
<1>2. ASSUME NEW t \in Calendar
      PROVE  NextCursor(t) \in Nat
  <2>1. t \in Task /\ cursor[t] \in Nat /\ Never \in Nat
    BY DuenessAssumption DEF Basic, TypeOK, Time, Never
  <2>2. Candidate(t) \in Nat
    BY <2>1, CandidateIs
  <2>3. NextCursor(t) \in {Never, Candidate(t), cursor[t]}
    BY Zenon DEF NextCursor
  <2> HIDE DEF NextCursor, Candidate
  <2> QED
    BY <2>1, <2>2, <2>3
<1>3. timer' \in Nat
  BY <1>1, ArmsIs DEF Never
<1> QED
  BY <1>1, <1>2, <1>3

LEMMA NoTickIs == NoTick \in TickRecord
BY CatalogIs DEF NoTick, TickRecord, Never

LEMMA TicksAre ==
    ASSUME tick \in TickRecord, tick.i \in 1..Len(Catalog)
    PROVE  /\ [tick EXCEPT !.i = @ + 1] \in TickRecord
           /\ [tick EXCEPT !.step = "run"] \in TickRecord
           /\ [tick EXCEPT !.step = "read", !.i = tick.i + 1] \in TickRecord
<1>1. tick.i + 1 \in 0..Len(Catalog) + 1
  BY CatalogIs
<1>2. ASSUME NEW r \in TickRecord, NEW i \in 0..Len(Catalog) + 1,
             NEW step \in {"read", "run"}
      PROVE  /\ [r EXCEPT !.i = i] \in TickRecord
             /\ [r EXCEPT !.step = step] \in TickRecord
             /\ [r EXCEPT !.step = step, !.i = i]
                    = [[r EXCEPT !.step = step] EXCEPT !.i = i]
  BY DEF TickRecord
<1> QED
  BY <1>1, <1>2

LEMMA TypeStep ==
    ASSUME Basic, HistoryKept, [Next]_vars
    PROVE  TypeOK'
<1>1. /\ ControlOK /\ TimesOK /\ cursor \in [Calendar -> Nat]
      /\ rows' \in Seq(Row) /\ Len(rows') <= MaxEntries
  BY TypeGroups DEF Basic, HistoryKept
<1> USE DEF Never
<1>2. CASE Start
  <2>1. ControlOK'
    BY <1>1, <1>2 DEF Start, ControlOK
  <2>2. cursor' \in [Calendar -> Nat]
    BY <1>1, <1>2 DEF Start
  <2>3. now \in Nat /\ Grace \in Nat
    BY <1>1, DuenessAssumption DEF ControlOK
  <2>4. delayed' \subseteq Startup
    BY <1>2 DEF Start
  <2>5. scheduled' \in [Task -> Nat] /\ sweep' \in Nat
    BY <1>1, <1>2, <2>3 DEF Start, TimesOK
  <2>6. TimesOK'
    BY <1>1, <1>2, <2>4, <2>5 DEF Start, TimesOK
  <2> QED
    BY <1>1, <2>1, <2>2, <2>6, TypeGroupsNext
<1>3. CASE Exit
  <2>1. /\ now' = now /\ enabled' = enabled /\ cursor' = cursor
        /\ up' = FALSE /\ sequence' = 0 /\ upsets' = upsets + 1
        /\ active' = [t \in Task |-> 0] /\ rearm' = FALSE
        /\ refreshing' = FALSE
    BY <1>3 DEF Exit, stored
  <2>2. ControlOK' /\ cursor' \in [Calendar -> Nat]
    <3>1. upsets' \in Nat /\ active' \in [Task -> Nat]
      BY <1>1, <2>1 DEF ControlOK
    <3>2. sweeping' = FALSE
      BY <1>3 DEF Exit
    <3> QED
      BY <1>1, <2>1, <3>1, <3>2 DEF ControlOK
  <2>3. TimesOK'
    BY <1>1, <1>3, NoTickIs DEF Exit, TimesOK
  <2> QED
    BY <1>1, <2>2, <2>3, TypeGroupsNext
<1>4. CASE TimePasses
  <2>1. ControlOK' /\ cursor' \in [Calendar -> Nat]
    BY <1>1, <1>4 DEF TimePasses, ControlOK, stored, claims, timers
  <2>2. TimesOK'
    BY <1>1, <1>4 DEF TimePasses, TimesOK, claims, timers
  <2> QED
    BY <1>1, <2>1, <2>2, TypeGroupsNext
<1>5. CASE TimerFires
  <2>1. ControlOK' /\ cursor' \in [Calendar -> Nat]
    BY <1>1, <1>5 DEF TimerFires, ControlOK, stored, claims
  <2>2. tick' \in TickRecord
    <3>1. tick' = [i |-> 1, at |-> now, step |-> "read"] /\ now \in Nat
      BY <1>1, <1>5 DEF TimerFires, ControlOK
    <3> QED
      BY <3>1, CatalogIs DEF TickRecord
  <2>3. TimesOK'
    BY <1>1, <1>5, <2>2 DEF TimerFires, TimesOK, claims
  <2> QED
    BY <1>1, <2>1, <2>3, TypeGroupsNext
<1>6. CASE TickTask
  <2>1. Catalog[tick.i] \in Task
    BY <1>6, CatalogIs DEF TickTask
  <2>2. sequence' \in Nat /\ active' \in [Task -> Nat]
    BY <1>6, <2>1, RunNowIs DEF Basic, TickTask
  <2>3. ControlOK' /\ cursor' \in [Calendar -> Nat]
    BY <1>1, <1>6, <2>2 DEF TickTask, ControlOK
  <2>4. scheduled' \in [Task -> Nat]
    <3>1. scheduled' = [scheduled EXCEPT ![Catalog[tick.i]] = tick.at]
      BY <1>6 DEF TickTask
    <3>2. tick.at \in Nat
      BY <1>1 DEF TimesOK, TickRecord
    <3> QED
      BY <1>1, <3>1, <3>2 DEF TimesOK
  <2>5. tick' \in TickRecord
    BY <1>1, <1>6, TicksAre DEF TickTask, TimesOK
  <2>6. TimesOK'
    BY <1>1, <1>6, <2>4, <2>5 DEF TickTask, TimesOK
  <2> QED
    BY <1>1, <2>3, <2>6, TypeGroupsNext
<1>15. CASE TickReads
  <2>1. ControlOK' /\ cursor' \in [Calendar -> Nat]
    BY <1>1, <1>15 DEF TickReads, ControlOK, stored, claims
  <2>2. tick' \in TickRecord
    BY <1>1, <1>15, TicksAre DEF TickReads, Reads, TimesOK
  <2>3. TimesOK'
    BY <1>1, <1>15, <2>2 DEF TickReads, TimesOK, claims
  <2> QED
    BY <1>1, <2>1, <2>3, TypeGroupsNext
<1>16. CASE TickSkips
  <2>1. ControlOK' /\ cursor' \in [Calendar -> Nat]
    BY <1>1, <1>16 DEF TickSkips, ControlOK, stored, claims
  <2>2. tick' \in TickRecord
    BY <1>1, <1>16, TicksAre DEF TickSkips, Reads, TimesOK
  <2>3. TimesOK'
    BY <1>1, <1>16, <2>2 DEF TickSkips, TimesOK, claims
  <2> QED
    BY <1>1, <2>1, <2>3, TypeGroupsNext
<1>17. CASE SweepFires
  <2>1. ControlOK' /\ cursor' \in [Calendar -> Nat]
    BY <1>1, <1>17 DEF SweepFires, ControlOK, stored, claims
  <2>2. TimesOK'
    BY <1>1, <1>17 DEF SweepFires, TimesOK, claims
  <2> QED
    BY <1>1, <2>1, <2>2, TypeGroupsNext
<1>18. CASE SweepFails
  <2>1. ControlOK' /\ cursor' \in [Calendar -> Nat]
    <3>1. sweeping' = FALSE /\ sequence' \in Nat /\ upsets' \in Nat
      BY <1>1, <1>18 DEF SweepFails, ControlOK
    <3> QED
      BY <1>1, <1>18, <3>1 DEF SweepFails, ControlOK, stored
  <2>2. scheduled' \in [Task -> Nat]
    BY <1>1, <1>18 DEF SweepFails, TimesOK, ControlOK
  <2>3. TimesOK'
    BY <1>1, <1>18, <2>2 DEF SweepFails, TimesOK
  <2> QED
    BY <1>1, <2>1, <2>3, TypeGroupsNext
<1>19. ASSUME NEW t \in Task, Freed(t)
       PROVE  TypeOK'
  <2>1. ControlOK' /\ cursor' \in [Calendar -> Nat]
    BY <1>1, <1>19 DEF Freed, ControlOK, stored, claims, timers
  <2>2. TimesOK'
    BY <1>1, <1>19 DEF Freed, TimesOK, claims, timers
  <2> QED
    BY <1>1, <2>1, <2>2, TypeGroupsNext
<1>7. CASE ScheduleNext
  <2>1. ControlOK'
    BY <1>1, <1>7 DEF ScheduleNext, ControlOK
  <2>2. cursor' \in [Calendar -> Nat] /\ timer' \in Nat
    BY <1>7, SchedulesIs
  <2>3. TimesOK'
    BY <1>1, <1>7, <2>2, NoTickIs DEF ScheduleNext, TimesOK, claims
  <2> QED
    BY <1>1, <2>1, <2>2, <2>3, TypeGroupsNext
<1>8. CASE SweepTask
  <2>1. PICK t \in delayed : /\ scheduled' = [scheduled EXCEPT ![t] = now]
                             /\ RunNow(t)
                             /\ delayed' = delayed \ {t}
    BY <1>8 DEF SweepTask
  <2>2. t \in Task
    BY <1>1, DuenessAssumption DEF TimesOK
  <2>3. sequence' \in Nat /\ active' \in [Task -> Nat]
    BY <2>1, <2>2, RunNowIs DEF Basic
  <2>4. ControlOK' /\ cursor' \in [Calendar -> Nat]
    <3>1. sweeping' \in BOOLEAN
      BY <1>8 DEF SweepTask
    <3> QED
      BY <1>1, <1>8, <2>3, <3>1 DEF SweepTask, ControlOK
  <2>5. scheduled' \in [Task -> Nat]
    BY <1>1, <1>8, <2>1 DEF SweepTask, TimesOK, ControlOK
  <2>6. TimesOK'
    BY <1>1, <1>8, <2>1, <2>5 DEF SweepTask, TimesOK
  <2> QED
    BY <1>1, <2>4, <2>6, TypeGroupsNext
<1>9. CASE TickFails
  <2>1. ControlOK' /\ cursor' \in [Calendar -> Nat]
    BY <1>1, <1>9 DEF TickFails, ControlOK, stored
  <2>2. timer' \in Nat /\ scheduled' \in [Task -> Nat]
    <3>1. scheduled' = [scheduled EXCEPT ![Catalog[tick.i]] = 0]
          /\ timer' = now + 1
      BY <1>9 DEF TickFails
    <3>2. timer' \in Nat
      BY <1>1, <3>1 DEF ControlOK
    <3>3. scheduled' \in [Task -> Nat]
      BY <1>1, <3>1 DEF TimesOK
    <3> QED
      BY <3>2, <3>3
  <2>3. TimesOK'
    BY <1>1, <1>9, <2>2, NoTickIs DEF TickFails, TimesOK
  <2> QED
    BY <1>1, <2>1, <2>3, TypeGroupsNext
<1>10. ASSUME NEW t \in Task, ManualRun(t)
       PROVE  TypeOK'
  <2>1. sequence' \in Nat /\ active' \in [Task -> Nat]
    BY <1>10, RunNowIs DEF ManualRun, Basic
  <2>2. ControlOK' /\ cursor' \in [Calendar -> Nat]
    BY <1>1, <1>10, <2>1 DEF ManualRun, ControlOK, claims, timers
  <2>3. TimesOK'
    BY <1>1, <1>10 DEF ManualRun, TimesOK, claims, timers
  <2> QED
    BY <1>1, <2>2, <2>3, TypeGroupsNext
<1>11. ASSUME NEW t \in Task, UpdatePreference(t)
       PROVE  TypeOK'
  <2>1. ControlOK' /\ cursor' \in [Calendar -> Nat]
    BY <1>1, <1>11 DEF UpdatePreference, ControlOK, claims, timers
  <2>2. TimesOK'
    BY <1>1, <1>11 DEF UpdatePreference, TimesOK, claims, timers
  <2> QED
    BY <1>1, <2>1, <2>2, TypeGroupsNext
<1>12. ASSUME NEW t \in Task, NEW s \in {"succeeded", "failed"}, Finish(t, s)
       PROVE  TypeOK'
  <2>1. ControlOK' /\ cursor' \in [Calendar -> Nat]
    BY <1>1, <1>12 DEF Finish, ControlOK, claims, timers
  <2>2. lastGood' \in [Task -> Nat]
    BY <1>1, <1>12 DEF Finish, TimesOK, ControlOK
  <2>3. TimesOK'
    BY <1>1, <1>12, <2>2 DEF Finish, TimesOK, claims, timers
  <2> QED
    BY <1>1, <2>1, <2>3, TypeGroupsNext
<1>13. CASE Refresh
  <2>1. ControlOK' /\ cursor' \in [Calendar -> Nat]
    BY <1>1, <1>13 DEF Refresh, ControlOK, stored
  <2>2. TimesOK'
    BY <1>1, <1>13, NoTickIs DEF Refresh, TimesOK
  <2> QED
    BY <1>1, <2>1, <2>2, TypeGroupsNext
<1>14. CASE UNCHANGED vars
  <2>1. ControlOK' /\ cursor' \in [Calendar -> Nat]
    BY <1>1, <1>14 DEF vars, ControlOK, stored, claims, timers
  <2>2. TimesOK'
    BY <1>1, <1>14 DEF vars, TimesOK, claims, timers
  <2> QED
    BY <1>1, <2>1, <2>2, TypeGroupsNext
<1> QED
  BY <1>2, <1>3, <1>4, <1>5, <1>6, <1>7, <1>8, <1>9, <1>10, <1>11, <1>12,
     <1>13, <1>14, <1>15, <1>16, <1>17, <1>18, <1>19
     DEF Next, TimerStep, Rejected

LEMMA PastStep ==
    ASSUME Basic, TypeOK', [Next]_vars
    PROVE  Past'
<1>1. /\ now \in Nat /\ now' \in Nat /\ now <= now'
      /\ lastGood \in [Task -> Nat] /\ scheduled \in [Task -> Nat]
      /\ tick.at \in Nat /\ tick.at <= now
      /\ \A t \in Task : lastGood[t] <= now /\ scheduled[t] <= now
  <2>1. now' = now \/ now' = now + 1
    BY DEF Next, TimerStep, Rejected, Start, Exit, TimePasses, TimerFires,
        TickReads, TickSkips, TickTask, ScheduleNext, SweepFires, SweepTask,
        SweepFails, TickFails, ManualRun, UpdatePreference, Finish, Freed,
        Refresh, vars
  <2>2. now \in Nat /\ lastGood \in [Task -> Nat] /\ scheduled \in [Task -> Nat]
        /\ tick.at \in Nat
    BY TypeGroups DEF Basic, ControlOK, TimesOK, TickRecord
  <2> QED
    BY <2>1, <2>2 DEF Basic, Past
<1>2. \/ lastGood' = lastGood
      \/ now' = now /\ \E t \in Task : lastGood' = [lastGood EXCEPT ![t] = now]
  BY DEF Next, TimerStep, Rejected, Start, Exit, TimePasses, TimerFires,
      TickReads, TickSkips, TickTask, ScheduleNext, SweepFires, SweepTask,
      SweepFails, TickFails, ManualRun, UpdatePreference, Finish, Freed,
      Refresh, vars
<1>3. \A t \in Task : lastGood'[t] = lastGood[t] \/ lastGood'[t] <= now
  BY <1>1, <1>2
<1>4. tick' = tick \/ tick' = NoTick \/ tick'.at = now \/ tick'.at = tick.at
  <2>1. tick \in TickRecord
    BY TypeGroups DEF Basic, TimesOK
  <2>2. CASE TimerFires
    BY <2>2 DEF TimerFires
  <2>3. CASE TickTask \/ TickReads \/ TickSkips
    BY <2>1, <2>3 DEF TickTask, TickReads, TickSkips, TickRecord
  <2>4. ~(TimerFires \/ TickTask \/ TickReads \/ TickSkips)
           => tick' = tick \/ tick' = NoTick
    BY DEF Next, TimerStep, Rejected, Start, Exit, TimePasses, ScheduleNext,
        SweepFires, SweepTask, SweepFails, TickFails, ManualRun,
        UpdatePreference, Finish, Freed, Refresh, vars, timers
  <2> QED
    BY <2>2, <2>3, <2>4
<1>5. tick'.at <= now'
  BY <1>1, <1>4 DEF NoTick, Never
<1>6. ASSUME NEW t \in Task
      PROVE  scheduled'[t] \in {scheduled[t], Never, now, tick.at}
  <2>1. CASE Start
    BY <2>1 DEF Start
  <2>2. CASE Exit
    BY <2>2 DEF Exit
  <2>3. CASE TickTask
    BY <1>1, <2>3 DEF TickTask
  <2>4. CASE SweepTask \/ SweepFails
    BY <1>1, <2>4 DEF SweepTask, SweepFails
  <2>5. CASE TickFails
    BY <1>1, <2>5 DEF TickFails
  <2>6. CASE UNCHANGED scheduled
    BY <2>6
  <2>7. ~(Start \/ Exit \/ TickTask \/ SweepTask \/ SweepFails \/ TickFails)
           => UNCHANGED scheduled
    BY DEF Next, TimerStep, Rejected, TimePasses, TimerFires, TickReads,
        TickSkips, SweepFires, ScheduleNext, ManualRun, UpdatePreference,
        Finish, Freed, Refresh, vars, claims
  <2> QED
    BY <2>1, <2>2, <2>3, <2>4, <2>5, <2>6, <2>7
<1>7. \A t \in Task : scheduled'[t] <= now'
  BY <1>1, <1>6 DEF Never
<1>8. \A t \in Task : lastGood'[t] <= now'
  <2>1. lastGood' \in [Task -> Nat]
    BY TypeGroupsNext DEF TimesOK
  <2> QED
    BY <1>1, <1>3, <2>1
<1> QED
  BY <1>5, <1>7, <1>8 DEF Past

LEMMA BasicStep ==
    ASSUME Basic, [Next]_vars
    PROVE  Basic' /\ HistoryKept
<1>1. HistoryKept
  BY HistoryStep
<1>2. TypeOK'
  BY <1>1, TypeStep
<1> QED
  BY <1>1, <1>2, PastStep DEF Basic, HistoryKept

-----------------------------------------------------------------------------
(* The stored cursors stay occurrences: scheduleNext stores the next one.  *)

LEMMA OccurrencesStep ==
    ASSUME DueInv, [Next]_vars
    PROVE  Occurrences'
<1>1. CASE ScheduleNext
  <2>1. cursor' = [t \in Calendar |-> NextCursor(t)]
    BY <1>1, SchedulesIs DEF DueInv
  <2>2. ASSUME NEW t \in Calendar
        PROVE  \E k \in Nat : NextCursor(t) = k * Period
    <3>1. /\ t \in Task /\ t \notin Startup \ Calendar
          /\ Base(t) \in Nat /\ now \in Nat
      BY DuenessAssumption, PastIs DEF DueInv
    <3>2. CASE NextCursor(t) = Never
      BY <3>2, Positive DEF Never
    <3>3. CASE NextCursor(t) = cursor[t]
      BY <3>3 DEF DueInv, Occurrences
    <3>4. CASE ~CatchUp(t) /\ NextCursor(t) = Candidate(t)
      <4>1. \/ Candidate(t) = Next1(t, Base(t))
            \/ Candidate(t) = Next1(t, now)
        <5>1. CASE Base(t) # Never
          BY <3>4, <5>1, Zenon DEF Candidate
        <5>2. CASE Base(t) = Never
          BY <3>1, <3>4, <5>2, Zenon DEF Candidate
        <5> QED
          BY <5>1, <5>2
      <4> QED
        BY <3>1, <3>4, <4>1, NextOnCalendar
    <3>5. \/ NextCursor(t) = Never \/ NextCursor(t) = cursor[t]
          \/ ~CatchUp(t) /\ NextCursor(t) = Candidate(t)
      BY Zenon DEF NextCursor
    <3> QED
      BY <3>2, <3>3, <3>4, <3>5
  <2> QED
    BY <2>1, <2>2 DEF Occurrences
<1>2. CASE ~ScheduleNext
  <2>1. cursor' = cursor
    BY <1>2 DEF Next, TimerStep, Rejected, Start, Exit, TimePasses,
        TimerFires, TickReads, TickSkips, TickTask, SweepFires, SweepTask,
        SweepFails, TickFails, ManualRun, UpdatePreference, Finish, Freed,
        Refresh, vars, stored
  <2> QED
    BY <2>1 DEF DueInv, Occurrences
<1> QED
  BY <1>1, <1>2

-----------------------------------------------------------------------------
(* The timer of the idle scheduler.                                        *)

LEMMA NotIdle ==
    ASSUME Basic,
           \/ TimerFires \/ TickReads \/ TickSkips \/ TickTask
           \/ Start \/ Refresh \/ Exit
           \/ \E t \in Task : UpdatePreference(t)
    PROVE  ~Idle'
<1>1. tick \in TickRecord /\ NoTick.i = 0
  BY TypeGroups DEF Basic, TimesOK, NoTick
<1>2. CASE TimerFires
  BY <1>2 DEF Idle, TimerFires, NoTick
<1>3. CASE TickReads \/ TickSkips \/ TickTask
  <2>1. tick.i \in 1..Len(Catalog) /\ Len(Catalog) \in Nat
    BY <1>3, CatalogIs DEF TickReads, TickSkips, TickTask, Reads
  <2>2. tick'.i = tick.i \/ tick'.i = tick.i + 1
    BY <1>1, <1>3 DEF TickReads, TickSkips, TickTask, TickRecord
  <2> QED
    BY <1>1, <2>1, <2>2 DEF Idle
<1>4. CASE \/ Start \/ Refresh \/ Exit
           \/ \E t \in Task : UpdatePreference(t)
  BY <1>4 DEF Idle, Start, Refresh, Exit, UpdatePreference
<1> QED
  BY <1>2, <1>3, <1>4

(* scheduleNext arms for the earliest of the tasks.                        *)
LEMMA ScheduleCovers ==
    ASSUME Basic, Basic', ScheduleNext
    PROVE  Covered'
<1>1. /\ UNCHANGED <<now, enabled, rows, scheduled, lastGood>>
      /\ cursor' = [t \in Calendar |-> NextCursor(t)]
      /\ enabled # {} => timer' = Arms
      /\ enabled \subseteq Task
      /\ now \in Nat \ {0}
  <2>1. enabled \subseteq Task /\ now \in Nat \ {0}
    BY TypeGroups DEF Basic, ControlOK
  <2>2. UNCHANGED <<now, enabled, rows, scheduled, lastGood>>
    BY DEF ScheduleNext, claims
  <2> QED
    BY <2>1, <2>2, SchedulesIs
<1>2. \A t : LastSuccess(t)' = LastSuccess(t) /\ Base(t)' = Base(t)
  BY <1>1 DEF LastSuccess, Successes, Base
<1>3. ASSUME NEW t \in enabled
      PROVE  /\ timer' \in Nat /\ timer' >= now
             /\ timer' <= Max({now, Candidate(t)})
             /\ Candidate(t) \in Nat
             /\ Candidate(t) <= Next1(t, now) /\ Next1(t, now) \in Nat
             /\ now < Next1(t, now)
             /\ Base(t) # Never
                   => Candidate(t) <= Max({now + 1, Next1(t, Base(t))})
             /\ Base(t) \in Nat /\ Next1(t, Base(t)) \in Nat
  BY <1>1, ArmsIs, CandidateIs, NextLater, PastIs
<1>4. ASSUME NEW t \in enabled
      PROVE  /\ timer' # Never /\ timer' <= Next1(t, now)
             /\ Base(t) # Never
                   => timer' <= Max({now + 1, Next1(t, Base(t))})
  <2>1. Max({now, Candidate(t)}) =
           IF now >= Candidate(t) THEN now ELSE Candidate(t)
    BY <1>1, <1>3, MaxOfTwo
  <2> DEFINE n == Next1(t, Base(t))
             m == Max({now + 1, n})
  <2>2. m \in Nat /\ m >= now + 1
    <3>1. n \in Nat
      BY <1>3, Zenon
    <3> HIDE DEF n
    <3>2. now + 1 \in Nat
      BY <1>1
    <3> QED
      BY <3>1, <3>2, MaxOfTwo
  <2>3. Base(t) # Never => Candidate(t) <= m
    BY <1>3
  <2> HIDE DEF m, n
  <2>4. now \in Nat \ {0} /\ Candidate(t) \in Nat /\ timer' \in Nat
    BY <1>1, <1>3
  <2>5. timer' <= now \/ timer' <= Candidate(t)
    <3>1. timer' <= Max({now, Candidate(t)})
      BY <1>3
    <3> QED
      BY <2>1, <3>1
  <2>6. timer' # Never
    <3>1. timer' >= now
      BY <1>3
    <3> QED
      BY <2>4, <3>1 DEF Never
  <2>7. timer' <= Next1(t, now)
    <3>1. /\ Candidate(t) <= Next1(t, now) /\ Next1(t, now) \in Nat
          /\ now < Next1(t, now)
      BY <1>3
    <3> QED
      BY <2>4, <2>5, <3>1
  <2>8. Base(t) # Never => timer' <= m
    BY <2>2, <2>3, <2>4, <2>5
  <2> QED
    BY <2>6, <2>7, <2>8 DEF m, n
<1>5. ASSUME NEW t \in Calendar \cap enabled
      PROVE  timer' <= Max({now + 1, cursor'[t]})
  <2>1. cursor'[t] = NextCursor(t) /\ cursor'[t] \in Nat
    BY <1>1, SchedulesIs
  <2>2. /\ now \in Nat /\ timer' \in Nat /\ Candidate(t) \in Nat
        /\ timer' <= Max({now, Candidate(t)})
    BY <1>1, <1>3
  <2>3. timer' <= now \/ timer' <= Candidate(t)
    <3>1. Max({now, Candidate(t)}) =
             IF now >= Candidate(t) THEN now ELSE Candidate(t)
      BY <2>2, MaxOfTwo
    <3> QED
      BY <2>2, <3>1
  <2>4. timer' <= now \/ timer' <= cursor'[t]
    <3>1. CASE CatchUp(t)
      <4>1. Candidate(t) = now
        BY <3>1, Zenon DEF Candidate
      <4> QED
        BY <2>3, <4>1
    <3>2. CASE ~CatchUp(t) /\ Candidate(t) > now
      <4>1. cursor'[t] = Candidate(t)
        BY <2>1, <3>2, Zenon DEF NextCursor
      <4> QED
        BY <2>3, <4>1
    <3>3. CASE ~(Candidate(t) > now)
      <4> HIDE DEF Candidate
      <4> QED
        BY <2>2, <2>3, <3>3
    <3> QED
      BY <3>1, <3>2, <3>3
  <2>5. Max({now + 1, cursor'[t]}) =
           IF now + 1 >= cursor'[t] THEN now + 1 ELSE cursor'[t]
    <3>1. now + 1 \in Nat
      BY <2>2
    <3> QED
      BY <2>1, <3>1, MaxOfTwo
  <2> HIDE DEF Candidate
  <2> QED
    BY <2>1, <2>2, <2>4, <2>5
<1> QED
  BY <1>1, <1>2, <1>4, <1>5 DEF Covered, Forgotten, Next1

(* A failed write comes back after 1.                                      *)
LEMMA FailureCovers ==
    ASSUME Basic, Basic', TickFails
    PROVE  Covered'
<1>1. /\ timer' = now + 1 /\ now' = now /\ enabled' = enabled
      /\ now \in Nat /\ enabled \subseteq Task
  BY TypeGroups DEF TickFails, stored, Basic, ControlOK
<1>2. ASSUME NEW n \in Nat
      PROVE  timer' <= Max({now' + 1, n})
  BY <1>1, <1>2, MaxOfTwo
<1>3. timer' # Never
  BY <1>1 DEF Never
<1>4. ASSUME NEW t \in Task
      PROVE  timer' <= Next1(t, now')
  BY <1>1, NextLater
<1>5. ASSUME NEW t \in Task
      PROVE  timer' <= Max({now' + 1, Next1(t, Base(t)')})
  <2>1. Base(t)' \in Nat
    BY PastIsNext
  <2>2. Next1(t, Base(t)') \in Nat
    BY <2>1, NextLater
  <2> QED
    BY <1>2, <2>2
<1>6. ASSUME NEW t \in Calendar
      PROVE  timer' <= Max({now' + 1, cursor'[t]})
  <2>1. cursor'[t] \in Nat
    BY TypeGroupsNext DEF Basic
  <2> QED
    BY <1>2, <2>1
<1> QED
  BY <1>1, <1>3, <1>4, <1>5, <1>6 DEF Covered, Next1

(* What the other steps of the idle scheduler do to what it counts from:   *)
(* a task does something now, or its past is what it was.                  *)
LEMMA BaseStep ==
    ASSUME Basic, Basic', HistoryKept, NEW t \in Task,
           scheduled'[t] = scheduled[t] \/ scheduled'[t] = now'
    PROVE  \/ Base(t)' = now'
           \/ Forgotten(t)'
           \/ Base(t)' = Base(t) /\ ~Forgotten(t)
<1>1. /\ LastSuccess(t)' \in Nat /\ LastSuccess(t)' <= now'
      /\ scheduled'[t] \in Nat /\ scheduled'[t] <= now' /\ now' \in Nat
      /\ Base(t)' = IF scheduled'[t] >= LastSuccess(t)'
                    THEN scheduled'[t] ELSE LastSuccess(t)'
  BY PastIsNext
<1>2. Base(t) = IF scheduled[t] >= LastSuccess(t)
                THEN scheduled[t] ELSE LastSuccess(t)
  BY PastIs
<1>3. \/ Forgotten(t)'
      \/ LastSuccess(t)' = now'
      \/ LastSuccess(t)' = LastSuccess(t) /\ ~Forgotten(t)
  BY DEF HistoryKept, Remembers, Forgotten
<1> QED
  BY <1>1, <1>2, <1>3

LEMMA BoundKept ==
    ASSUME NEW a \in Nat, NEW b \in Nat, NEW n \in Nat, NEW x \in Nat,
           a <= b, x <= Max({a + 1, n})
    PROVE  x <= Max({b + 1, n})
BY MaxOfTwo

LEMMA BoundWidened ==
    ASSUME NEW b \in Nat, NEW n \in Nat, NEW x \in Nat, x <= n
    PROVE  x <= Max({b + 1, n})
BY MaxOfTwo

LEMMA IdleCovers ==
    ASSUME Basic, Basic', HistoryKept, Covered,
           \/ SweepFires \/ SweepTask \/ SweepFails \/ TimePasses
           \/ UNCHANGED vars
           \/ \E t \in Task : \/ ManualRun(t) \/ Freed(t)
                              \/ \E s \in {"succeeded", "failed"} : Finish(t, s)
    PROVE  Covered'
<1> SUFFICES ASSUME Idle'
             PROVE  /\ \A t \in enabled' :
                          /\ timer' # Never /\ timer' <= Next1(t, now')
                          /\ Base(t)' # Never /\ ~Forgotten(t)' =>
                                timer' <= Max({now' + 1, Next1(t, Base(t)')})
                    /\ \A t \in Calendar \cap enabled' :
                          timer' <= Max({now' + 1, cursor'[t]})
  BY DEF Covered, Next1
<1>1. /\ UNCHANGED <<timer, enabled, cursor>>
      /\ (now' = now \/ now' = now + 1)
      /\ Idle
  <2>1. CASE SweepFires
    BY <2>1 DEF SweepFires, Idle, stored
  <2>6. CASE SweepTask
    BY <2>6 DEF SweepTask, Idle
  <2>7. CASE SweepFails
    BY <2>7 DEF SweepFails, Idle, stored
  <2>2. CASE TimePasses
    BY <2>2 DEF TimePasses, Idle, stored, timers
  <2>3. CASE UNCHANGED vars
    BY <2>3 DEF vars, Idle, stored, timers
  <2>4. CASE \E t \in Task : ManualRun(t)
    BY <2>4 DEF ManualRun, Idle, timers
  <2>8. CASE \E t \in Task : Freed(t)
    BY <2>8 DEF Freed, Idle, timers, stored
  <2>5. CASE \E t \in Task : \E s \in {"succeeded", "failed"} : Finish(t, s)
    BY <2>5 DEF Finish, Idle, timers
  <2> QED
    BY <2>1, <2>2, <2>3, <2>4, <2>5, <2>6, <2>7, <2>8
<1>2. ASSUME NEW t \in Task
      PROVE  scheduled'[t] = scheduled[t] \/ scheduled'[t] = now'
  <2>1. CASE SweepTask \/ SweepFails
    <3>1. \E u : scheduled' = [scheduled EXCEPT ![u] = now]
      BY <2>1 DEF SweepTask, SweepFails
    <3>2. now' = now /\ scheduled \in [Task -> Nat]
      BY <2>1, TypeGroups DEF SweepTask, SweepFails, Basic, TimesOK
    <3> QED
      BY <3>1, <3>2
  <2>2. CASE ~(SweepTask \/ SweepFails)
    BY <2>2 DEF SweepFires, TimePasses, vars, ManualRun, Freed, Finish, claims
  <2> QED
    BY <2>1, <2>2
<1>3. /\ now \in Nat /\ now' \in Nat /\ now <= now' /\ timer \in Nat
      /\ enabled \subseteq Task
  BY <1>1, TypeGroups DEF Basic, ControlOK, TimesOK
<1>4. ASSUME NEW n \in Nat, timer <= Max({now + 1, n})
      PROVE  timer <= Max({now' + 1, n})
  BY <1>3, <1>4, BoundKept
<1>5. ASSUME NEW t \in enabled
      PROVE  timer # Never /\ timer <= Next1(t, now')
  <2>1. timer # Never /\ timer <= Next1(t, now)
    BY <1>1 DEF Covered
  <2>2. /\ Next1(t, now) \in Nat /\ Next1(t, now') \in Nat
        /\ Next1(t, now) <= Next1(t, now')
    BY <1>3, NextLater, NextMonotone
  <2> QED
    BY <1>3, <2>1, <2>2
<1>6. ASSUME NEW t \in enabled, Base(t)' # Never, ~Forgotten(t)'
      PROVE  timer <= Max({now' + 1, Next1(t, Base(t)')})
  <2> DEFINE b == Base(t)'
             n == Next1(t, b)
  <2>1. t \in Task
    BY <1>3
  <2>2. n \in Nat
    <3>1. b \in Nat
      BY <2>1, PastIsNext
    <3> HIDE DEF b
    <3> QED
      BY <3>1, NextLater
  <2>3. \/ b = now'
        \/ b = Base(t) /\ ~Forgotten(t)
    <3>1. scheduled'[t] = scheduled[t] \/ scheduled'[t] = now'
      BY <1>2, <2>1
    <3> QED
      BY <1>6, <2>1, <3>1, BaseStep
  <2>4. CASE b = now'
    <3>1. timer <= n
      BY <1>5, <2>4
    <3> HIDE DEF n
    <3>4. timer <= Max({now' + 1, n})
      BY <1>3, <2>2, <3>1, BoundWidened
    <3> QED
      BY <3>4 DEF n
  <2>5. CASE b = Base(t) /\ ~Forgotten(t)
    <3>1. timer <= Max({now + 1, Next1(t, Base(t))})
      BY <1>1, <1>6, <2>5 DEF Covered
    <3>2. timer <= Max({now + 1, n})
      BY <2>5, <3>1
    <3> HIDE DEF n
    <3>3. timer <= Max({now' + 1, n})
      BY <1>4, <2>2, <3>2
    <3> QED
      BY <3>3 DEF n
  <2> QED
    BY <2>3, <2>4, <2>5
<1>7. ASSUME NEW t \in Calendar \cap enabled
      PROVE  timer <= Max({now' + 1, cursor[t]})
  <2>1. cursor[t] \in Nat
    BY TypeGroups DEF Basic
  <2>2. timer <= Max({now + 1, cursor[t]})
    BY <1>1 DEF Covered
  <2> QED
    BY <1>4, <2>1, <2>2
<1> QED
  BY <1>1, <1>5, <1>6, <1>7

LEMMA CoveredStep ==
    ASSUME DueInv, Basic', HistoryKept, [Next]_vars
    PROVE  Covered'
<1>1. CASE \/ TimerFires \/ TickReads \/ TickSkips \/ TickTask
           \/ Start \/ Refresh \/ Exit
           \/ \E t \in Task : UpdatePreference(t)
  BY <1>1, NotIdle DEF Covered, DueInv
<1>2. CASE ScheduleNext
  BY <1>2, ScheduleCovers DEF DueInv
<1>3. CASE TickFails
  BY <1>3, FailureCovers DEF DueInv
<1>4. CASE \/ SweepFires \/ SweepTask \/ SweepFails \/ TimePasses
           \/ UNCHANGED vars
           \/ \E t \in Task : \/ ManualRun(t) \/ Freed(t)
                              \/ \E s \in {"succeeded", "failed"} : Finish(t, s)
  BY <1>4, IdleCovers DEF DueInv
<1> QED
  BY <1>1, <1>2, <1>3, <1>4, Zenon DEF Next, TimerStep, Rejected

-----------------------------------------------------------------------------
(* A task that a tick is about to run.                                     *)

(* A step that leaves the tick where it is, does not free the task, and    *)
(* keeps the newest success of a task that is not active.                  *)
LEMMA DecidedKept ==
    ASSUME Basic, Decided, HistoryKept, UNCHANGED tick,
           \A t \in Task : Deciding(t) /\ active'[t] = 0
               => active[t] = 0 /\ lastGood'[t] = lastGood[t]
    PROVE  Decided'
<1> SUFFICES ASSUME NEW t \in Task, tick.i \in 1..Len(Catalog),
                    tick.step = "run", Catalog[tick.i] = t, active'[t] = 0,
                    ~Forgotten(t)'
             PROVE  ~StillGood(t, tick.at)'
  BY DEF Decided, Deciding
<1>1. active[t] = 0 /\ lastGood'[t] = lastGood[t]
  BY DEF Deciding
<1>2. ~Forgotten(t)
  BY <1>1 DEF HistoryKept, Remembers, Forgotten
<1>3. ~StillGood(t, tick.at)
  BY <1>1, <1>2 DEF Decided, Deciding
<1> QED
  BY <1>1, <1>3 DEF StillGood, Next1

LEMMA DecidedStep ==
    ASSUME Basic, Decided, HistoryKept, [Next]_vars
    PROVE  Decided'
<1>1. tick \in TickRecord /\ active \in [Task -> Nat]
  BY TypeGroups DEF Basic, ControlOK, TimesOK
<1>2. CASE \/ TimerFires \/ TickSkips \/ TickTask \/ ScheduleNext \/ TickFails
           \/ Refresh \/ Exit
  <2>1. tick'.step = "read"
    <3>1. CASE TickSkips
      BY <1>1, <3>1 DEF TickSkips, Reads, TickRecord
    <3>2. CASE TickTask
      BY <1>1, <3>2 DEF TickTask, TickRecord
    <3>3. CASE TimerFires \/ ScheduleNext \/ TickFails \/ Refresh \/ Exit
      <4>1. NoTick.step = "read"
        BY DEF NoTick
      <4> QED
        BY <3>3, <4>1 DEF TimerFires, ScheduleNext, TickFails, Refresh, Exit
    <3> QED
      BY <1>2, <3>1, <3>2, <3>3
  <2> QED
    BY <2>1 DEF Decided, Deciding
<1>3. CASE TickReads
  <2> DEFINE u == Catalog[tick.i]
  <2>1. /\ UNCHANGED <<rows, lastGood>>
        /\ tick.step = "read"
    BY <1>3 DEF TickReads, Reads, stored
  <2>2. CASE IsDue(u, tick.at)
    <3>1. tick' = [tick EXCEPT !.step = "run"]
      BY <1>3, <2>2 DEF TickReads
    <3>2. tick'.i = tick.i /\ tick'.at = tick.at
      BY <1>1, <3>1 DEF TickRecord
    <3>3. ~Fresh(u, tick.at)
      BY <2>2 DEF IsDue
    <3>4. Forgotten(u) \/ ~StillGood(u, tick.at)
      BY <3>3 DEF Fresh, Forgotten, StillGood
    <3>5. Forgotten(u)' \/ ~StillGood(u, tick.at)'
      BY <2>1, <3>2, <3>4
         DEF Forgotten, StillGood, LastSuccess, Successes, Next1
    <3> QED
      BY <3>2, <3>5 DEF Decided, Deciding
  <2>3. CASE ~IsDue(u, tick.at)
    <3>1. tick'.step = "read"
      BY <1>1, <1>3, <2>1, <2>3 DEF TickReads, TickRecord
    <3> QED
      BY <3>1 DEF Decided, Deciding
  <2> QED
    BY <2>2, <2>3
<1>4. CASE \/ Start \/ TimePasses \/ SweepFires \/ SweepFails \/ UNCHANGED vars
           \/ \E t \in Task : UpdatePreference(t)
  <2>1. UNCHANGED <<tick, active, lastGood>>
    BY <1>4 DEF Start, TimePasses, SweepFires, SweepFails, UpdatePreference,
        vars, timers
  <2> QED
    BY <2>1, DecidedKept
<1>5. ASSUME NEW u \in Task, RunNow(u), UNCHANGED <<tick, lastGood>>
      PROVE  Decided'
  <2>1. \A t \in Task : active'[t] = 0 => active[t] = 0
    BY <1>1, <1>5 DEF RunNow
  <2> QED
    BY <1>5, <2>1, DecidedKept
<1>6. CASE SweepTask
  <2>1. PICK u \in delayed : RunNow(u)
    BY <1>6 DEF SweepTask
  <2>2. u \in Task
    BY TypeGroups, DuenessAssumption DEF Basic, TimesOK
  <2> QED
    BY <1>5, <1>6, <2>1, <2>2 DEF SweepTask
<1>7. CASE \E t \in Task : ManualRun(t)
  BY <1>5, <1>7 DEF ManualRun, timers
<1>8. CASE \E t \in Task : \E s \in {"succeeded", "failed"} : Finish(t, s)
  <2>1. PICK u \in Task : \E s \in {"succeeded", "failed"} : Finish(u, s)
    BY <1>8
  <2>2. UNCHANGED <<tick, active>> /\ active[u] # 0
    BY <2>1 DEF Finish, timers
  <2>3. \A t \in Task \ {u} : lastGood'[t] = lastGood[t]
    <3>1. lastGood \in [Task -> Nat]
      BY TypeGroups DEF Basic, TimesOK
    <3> QED
      BY <2>1, <3>1 DEF Finish
  <2> QED
    BY <2>2, <2>3, DecidedKept
<1>9. CASE \E t \in Task : Freed(t)
  <2>1. PICK u \in Task : Freed(u)
    BY <1>9
  <2>2. UNCHANGED <<tick, lastGood>> /\ ~Deciding(u)
    BY <2>1 DEF Freed, timers
  <2>3. \A t \in Task \ {u} : active'[t] = active[t]
    BY <1>1, <2>1 DEF Freed
  <2> QED
    BY <2>2, <2>3, DecidedKept
<1> QED
  BY <1>2, <1>3, <1>4, <1>6, <1>7, <1>8, <1>9, Zenon
  DEF Next, TimerStep, Rejected

LEMMA InitIsDue ==
    ASSUME Init
    PROVE  DueInv
<1>1. TypeOK
  <2>1. ControlOK
    <3>1. enabled \subseteq Task
      BY DEF Init
    <3>2. active \in [Task -> Nat]
      BY DEF Init
    <3>3. /\ now = 1 /\ up = FALSE /\ sequence = 0 /\ rearm = FALSE
          /\ refreshing = FALSE /\ sweeping = FALSE /\ upsets = 0
      BY DEF Init
    <3>4. /\ up \in BOOLEAN /\ rearm \in BOOLEAN /\ refreshing \in BOOLEAN
          /\ sweeping \in BOOLEAN
      BY <3>3, Zenon
    <3>5. now \in Nat \ {0} /\ sequence \in Nat /\ upsets \in Nat
      BY <3>3
    <3> QED
      BY <3>1, <3>2, <3>4, <3>5, Zenon DEF ControlOK
  <2>2. TimesOK
    BY NoTickIs DEF Init, TimesOK, Never
  <2>3. rows \in Seq(Row) /\ Len(rows) <= MaxEntries
    BY Positive DEF Init
  <2> QED
    BY <2>1, <2>2, <2>3, TypeGroups DEF Init, Never
<1>2. Recorded
  BY DEF Init, Recorded
<1>3. Past
  BY DEF Init, Past, NoTick, Never
<1>4. Occurrences
  <2>1. Never = 0 * Period
    BY Positive DEF Never
  <2> QED
    BY <2>1 DEF Init, Occurrences
<1>5. ~Idle
  BY DEF Init, Idle
<1>6. Decided
  BY DEF Init, Decided, Deciding, NoTick
<1> QED
  BY <1>1, <1>2, <1>3, <1>4, <1>5, <1>6 DEF DueInv, Basic, Covered

LEMMA DueStep ==
    ASSUME DueInv, [Next]_vars
    PROVE  DueInv'
BY BasicStep, OccurrencesStep, CoveredStep, DecidedStep DEF DueInv

-----------------------------------------------------------------------------
(* Theorems.                                                               *)

(* The inductive invariant holds throughout.                               *)
THEOREM DuenessInvariance == Spec => []DueInv
<1>1. Init => DueInv
  BY InitIsDue
<1>2. DueInv /\ [Next]_vars => DueInv'
  BY DueStep
<1> QED
  BY <1>1, <1>2, PTL DEF Spec

(* Every variable keeps its type: the history never outgrows its size,     *)
(* whatever is stored over and compacted, and a tick stays on the catalog. *)
THEOREM DuenessTypeCorrect == Spec => []TypeOK
<1>1. DueInv => TypeOK
  BY DEF DueInv, Basic
<1> QED
  BY <1>1, DuenessInvariance, PTL

(* While nothing is under way, the shared timer is armed and in time for   *)
(* every enabled task.                                                     *)
THEOREM TimerIsInTime == Spec => []TimerCovers
<1>1. DueInv => TimerCovers
  BY DEF DueInv, Covered, TimerCovers
<1> QED
  BY <1>1, DuenessInvariance, PTL

(* A missed occurrence is not too early for the schedule: what the task    *)
(* last did is a period behind it.                                         *)
LEMMA MissedIsDue ==
    ASSUME DueInv, NEW t \in Calendar, NEW a \in Nat, a < cursor[t]
    PROVE  Next1(t, a) <= cursor[t]
<1>1. PICK k \in Nat : cursor[t] = k * Period
  BY DEF DueInv, Occurrences
<1> QED
  BY <1>1, NextOnCalendar

LEMMA MissedIsKept ==
    ASSUME DueInv, [Next]_vars, NEW t \in Calendar \cap enabled, Missed(t)
    PROVE  cursor'[t] = cursor[t]
<1>1. CASE ScheduleNext
  <2>1. /\ t \in Task
        /\ LastSuccess(t) \in Nat /\ now \in Nat /\ cursor[t] \in Nat
    BY DuenessAssumption, PastIs, TypeGroups DEF DueInv, Basic
  <2>2. Next1(t, LastSuccess(t)) <= cursor[t] /\ cursor[t] <= now
    BY <2>1, MissedIsDue DEF Missed
  <2>3. ~(Next1(t, LastSuccess(t)) > now)
    <3>1. Next1(t, LastSuccess(t)) \in Nat
      BY <2>1, NextLater
    <3> QED
      BY <2>1, <2>2, <3>1
  <2>4. CatchUp(t)
    BY <2>3 DEF CatchUp, Missed, Fresh
  <2>5. NextCursor(t) = cursor[t]
    BY <2>4, Zenon DEF NextCursor
  <2> QED
    BY <1>1, <2>5, SchedulesIs DEF DueInv
<1>2. CASE ~ScheduleNext
  BY <1>2 DEF Next, TimerStep, Rejected, Start, Exit, TimePasses, TimerFires,
      TickReads, TickSkips, TickTask, SweepFires, SweepTask, SweepFails,
      TickFails, ManualRun, UpdatePreference, Finish, Freed, Refresh, vars,
      stored
<1> QED
  BY <1>1, <1>2

(* An occurrence nothing has run for is never moved on, and the idle       *)
(* scheduler has armed for it at once.                                     *)
THEOREM MissedIsCaughtUp == Spec => MissedCaughtUp
<1>1. DueInv => (Idle => \A t \in Calendar \cap enabled :
                    Missed(t) => timer # Never /\ timer <= now + 1)
  <2> SUFFICES ASSUME DueInv, Idle, NEW t \in Calendar \cap enabled, Missed(t)
               PROVE  timer # Never /\ timer <= now + 1
    OBVIOUS
  <2>1. timer # Never /\ timer <= Max({now + 1, cursor[t]})
    BY DEF DueInv, Covered
  <2>2. now \in Nat /\ cursor[t] \in Nat /\ timer \in Nat
    BY TypeGroups DEF DueInv, Basic, ControlOK, TimesOK
  <2>3. cursor[t] <= now
    BY DEF Missed
  <2>4. Max({now + 1, cursor[t]}) = now + 1
    BY <2>2, <2>3, MaxOfTwo
  <2> QED
    BY <2>1, <2>4
<1>2. DueInv /\ [Next]_vars
         => [\A t \in Calendar \cap enabled :
                 Missed(t) => cursor'[t] = cursor[t]]_vars
  BY MissedIsKept
<1> QED
  BY <1>1, <1>2, DuenessInvariance, PTL DEF Spec, MissedCaughtUp

(* A candidate of now or earlier belongs to a task that is due: the three  *)
(* records of what has run agree.                                          *)
LEMMA CandidateIsDue ==
    ASSUME DueInv, NEW t \in enabled, Candidate(t) <= now
    PROVE  IsDue(t, now)
<1>1. /\ t \in Task /\ now \in Nat
      /\ LastSuccess(t) \in Nat /\ scheduled[t] \in Nat
      /\ LastSuccess(t) <= now /\ scheduled[t] <= now
      /\ Base(t) = IF scheduled[t] >= LastSuccess(t)
                   THEN scheduled[t] ELSE LastSuccess(t)
  BY PastIs, TypeGroups DEF DueInv, Basic, ControlOK
<1>2. /\ Next1(t, scheduled[t]) \in Nat /\ Next1(t, LastSuccess(t)) \in Nat
      /\ Next1(t, now) \in Nat /\ Next1(t, now) > now
  BY <1>1, NextLater
<1>3. CASE CatchUp(t)
  <2>1. /\ t \in Calendar /\ cursor[t] <= now /\ ~Fresh(t, now)
        /\ scheduled[t] < cursor[t] /\ cursor[t] \in Nat
    BY <1>3, TypeGroups DEF CatchUp, DueInv, Basic
  <2>2. Next1(t, scheduled[t]) <= cursor[t]
    BY <1>1, <2>1, MissedIsDue
  <2>3. ~(Next1(t, scheduled[t]) > now)
    BY <1>1, <1>2, <2>1, <2>2
  <2> QED
    BY <2>1, <2>3 DEF IsDue
<1>4. CASE ~CatchUp(t) /\ Base(t) # Never
  <2>1. Candidate(t) = Next1(t, Base(t))
    BY <1>4, Zenon DEF Candidate
  <2>2. /\ Base(t) \in Nat
        /\ scheduled[t] <= Base(t) /\ LastSuccess(t) <= Base(t)
    BY <1>1
  <2>3. /\ Next1(t, scheduled[t]) <= Next1(t, Base(t))
        /\ Next1(t, LastSuccess(t)) <= Next1(t, Base(t))
        /\ Next1(t, Base(t)) \in Nat
    BY <1>1, <2>2, NextMonotone, NextLater
  <2>4. Next1(t, Base(t)) <= now
    BY <2>1, Zenon
  <2>5. /\ ~(Next1(t, scheduled[t]) > now)
        /\ ~(Next1(t, LastSuccess(t)) > now)
    BY <1>1, <1>2, <2>3, <2>4
  <2> QED
    BY <2>5 DEF IsDue, Fresh
<1>5. CASE ~CatchUp(t) /\ Base(t) = Never
  <2>1. scheduled[t] = Never /\ LastSuccess(t) = Never
    BY <1>1, <1>5 DEF Never
  <2> QED
    BY <2>1 DEF IsDue, Fresh
<1> QED
  BY <1>3, <1>4, <1>5

LEMMA ArmedStep ==
    ASSUME DueInv, [Next]_vars, timer # now, timer' = now
    PROVE  \E t \in Task : IsDue(t, now)
<1>1. now \in Nat \ {0} /\ enabled \subseteq Task
  BY TypeGroups DEF DueInv, Basic, ControlOK
<1>2. ScheduleNext
  <2>1. timer' # Never /\ timer' # now + 1 /\ timer' # timer
    BY <1>1 DEF Never
  <2> QED
    BY <2>1 DEF Next, TimerStep, Rejected, Start, Exit, TimePasses,
        TimerFires, TickReads, TickSkips, TickTask, SweepFires, SweepTask,
        SweepFails, TickFails, ManualRun, UpdatePreference, Finish, Freed,
        Refresh, vars, timers
<1>3. enabled # {} /\ timer' = Arms
  BY <1>1, <1>2, SchedulesIs DEF DueInv, Never
<1>4. PICK t \in enabled : Arms = Max({now, Candidate(t)})
  BY <1>3, ArmsIs DEF DueInv
<1>5. Candidate(t) \in Nat
  BY <1>1, CandidateIs DEF DueInv
<1> HIDE DEF Candidate
<1>6. Max({now, Candidate(t)}) =
         IF now >= Candidate(t) THEN now ELSE Candidate(t)
  BY <1>1, <1>5, MaxOfTwo
<1>7. Candidate(t) <= now
  BY <1>1, <1>3, <1>4, <1>5, <1>6
<1> QED
  BY <1>1, <1>7, CandidateIsDue

(* A timer that is armed for at once finds a task to run: the scheduler    *)
(* never spins.                                                            *)
THEOREM ArmedIsDue == Spec => ArmedForWork
<1>1. DueInv /\ [Next]_vars
         => [timer # now /\ timer' = now => \E t \in Task : IsDue(t, now)]_vars
  BY ArmedStep
<1> QED
  BY <1>1, DuenessInvariance, PTL DEF Spec, ArmedForWork

LEMMA SparedStep ==
    ASSUME DueInv, [Next]_vars, NEW t \in Task, TickStarts(t), ~Forgotten(t)
    PROVE  ~StillGood(t, tick.at)
<1>1. /\ tick \in TickRecord /\ active \in [Task -> Nat]
      /\ Len(Catalog) \in Nat /\ tick.i \in Nat
  BY TypeGroups, CatalogIs DEF DueInv, Basic, ControlOK, TimesOK, TickRecord
<1>2. tick'.i = tick.i + 1 /\ active'[t] # active[t] /\ active'[t] # 0
  BY DEF TickStarts
<1>3. TickTask
  <2>1. CASE Exit
    BY <1>2, <2>1 DEF Exit
  <2>2. CASE UNCHANGED active
    BY <1>2, <2>2
  <2>3. CASE UNCHANGED tick
    BY <1>1, <1>2, <2>3
  <2> QED
    BY <2>1, <2>2, <2>3 DEF Next, TimerStep, Rejected, Start, TimePasses,
        TimerFires, TickReads, TickSkips, ScheduleNext, SweepFires, SweepTask,
        SweepFails, TickFails, ManualRun, UpdatePreference, Finish, Freed,
        Refresh, vars, timers
<1> DEFINE u == Catalog[tick.i]
<1>4. /\ u \in Task /\ RunNow(u)
      /\ tick.i \in 1..Len(Catalog) /\ tick.step = "run"
  BY <1>3, CatalogIs DEF TickTask
<1>5. u = t /\ active[t] = 0
  BY <1>1, <1>2, <1>4 DEF RunNow
<1> QED
  BY <1>4, <1>5 DEF DueInv, Decided, Deciding

(* A tick runs no task whose last success is less than a period old, even  *)
(* one that came after it had read the history, unless that is forgotten.  *)
THEOREM FreshIsSpared == Spec => FreshSpared
<1>1. DueInv /\ [Next]_vars
         => [\A t \in Task : TickStarts(t) /\ ~Forgotten(t)
                                => ~StillGood(t, tick.at)]_vars
  BY SparedStep
<1> QED
  BY <1>1, DuenessInvariance, PTL DEF Spec, FreshSpared


=============================================================================
