-------------------------- MODULE TaskPagesProofs --------------------------
(***************************************************************************)
(* What a client finds on the pages it walks through, for every number of  *)
(* clients, tasks, statuses and changes and every page length; and that    *)
(* its requests are those of TaskListing.                                  *)
(*                                                                         *)
(* The proofs speak of a row's position instead of sorted sequences: it is *)
(* one more than the number of rows before it, so it can only grow while   *)
(* rows are added.                                                         *)
(***************************************************************************)
EXTENDS TaskPages, FiniteSetTheorems, SequenceTheorems, TLAPS

\* A table as its primary key leaves it.
Keyed(rows) ==
    rows \subseteq Rows /\ \A a, b \in rows : a.id = b.id => a = b

LEMMA RowType ==
    ASSUME NEW row \in Rows
    PROVE  /\ row.id \in Ids /\ row.id \in Nat
           /\ row.created \in Seconds /\ row.created \in Nat
           /\ row.status \in Statuses
BY IdAssumption, RowAssumption DEF Rows

LEMMA KeyedIsFinite ==
    ASSUME NEW rows, Keyed(rows)
    PROVE  /\ IsFiniteSet(rows) /\ Cardinality(rows) \in Nat
           /\ Cardinality(rows) <= Cardinality(Ids)
           /\ Cardinality(IdsOf(rows)) = Cardinality(rows)
<1> DEFINE idOf == [row \in rows |-> row.id]
<1>1. \A row \in rows : row.id \in Ids  BY RowType DEF Keyed
<1>2. idOf \in Injection(rows, Ids)
  BY <1>1 DEF Keyed, Injection, IsInjective
<1>3. idOf \in Injection(rows, IdsOf(rows)) /\ idOf \in Surjection(rows, IdsOf(rows))
  BY DEF Keyed, Injection, IsInjective, Surjection, IdsOf
<1> HIDE DEF idOf
<1>4. IsFiniteSet(rows) /\ Cardinality(rows) <= Cardinality(Ids)
  BY <1>2, IdAssumption, FS_Injection
<1>5. Cardinality(IdsOf(rows)) = Cardinality(rows)
  BY <1>3, <1>4, FS_Surjection
<1> QED BY <1>4, <1>5, FS_CardinalityType

LEMMA MatchingIsKeyed ==
    ASSUME NEW rows, Keyed(rows), NEW status
    PROVE  Keyed(Matching(rows, status))
BY DEF Keyed, Matching
-----------------------------------------------------------------------------
(* Positions. *)

\* The rows before a row.
Earlier(rows, row) == {other \in rows : Before(other, row)}

\* ORDER BY created_at DESC, id DESC leaves no ties.
LEMMA BeforeIsTotal ==
    ASSUME NEW rows, Keyed(rows), NEW a \in rows, NEW b \in rows
    PROVE  /\ ~Before(a, a)
           /\ a # b => Before(a, b) \/ Before(b, a)
           /\ \A c \in rows : Before(a, b) /\ Before(b, c) => Before(a, c)
<1>1. \A row \in rows : row.id \in Nat /\ row.created \in Nat
  BY RowType DEF Keyed
<1>2. a.id = b.id => a = b  BY DEF Keyed
<1> QED BY <1>1, <1>2 DEF Before

LEMMA PositionType ==
    ASSUME NEW rows, Keyed(rows), NEW row \in rows
    PROVE  /\ IsFiniteSet(Earlier(rows, row))
           /\ Position(rows, row) = 1 + Cardinality(Earlier(rows, row))
           /\ Position(rows, row) \in 1 .. Cardinality(rows)
<1>1. IsFiniteSet(rows) /\ Cardinality(rows) \in Nat  BY KeyedIsFinite
<1>2. Earlier(rows, row) \subseteq rows  BY DEF Earlier
<1>3. row \notin Earlier(rows, row)  BY BeforeIsTotal DEF Earlier
<1>4. /\ IsFiniteSet(Earlier(rows, row)) /\ Cardinality(Earlier(rows, row)) \in Nat
      /\ Cardinality(Earlier(rows, row)) <= Cardinality(rows)
      /\ Cardinality(Earlier(rows, row)) # Cardinality(rows)
  BY <1>1, <1>2, <1>3, FS_Subset, FS_CardinalityType
<1>5. Position(rows, row) = 1 + Cardinality(Earlier(rows, row))
  BY DEF Position, Earlier
<1> QED BY <1>1, <1>4, <1>5

LEMMA PositionOrders ==
    ASSUME NEW rows, Keyed(rows), NEW a \in rows, NEW b \in rows, Before(a, b)
    PROVE  Position(rows, a) < Position(rows, b)
<1>1. Earlier(rows, a) \subseteq Earlier(rows, b)  BY BeforeIsTotal DEF Earlier
<1>2. a \in Earlier(rows, b) /\ a \notin Earlier(rows, a)
  BY BeforeIsTotal DEF Earlier
<1>3. /\ IsFiniteSet(Earlier(rows, a)) /\ IsFiniteSet(Earlier(rows, b))
      /\ Position(rows, a) = 1 + Cardinality(Earlier(rows, a))
      /\ Position(rows, b) = 1 + Cardinality(Earlier(rows, b))
  BY PositionType
<1>4. /\ Cardinality(Earlier(rows, a)) <= Cardinality(Earlier(rows, b))
      /\ Cardinality(Earlier(rows, a)) # Cardinality(Earlier(rows, b))
  BY <1>1, <1>2, <1>3, FS_Subset
<1>5. Cardinality(Earlier(rows, a)) \in Nat /\ Cardinality(Earlier(rows, b)) \in Nat
  BY <1>3, FS_CardinalityType
<1> QED BY <1>3, <1>4, <1>5

LEMMA PositionIsUnique ==
    ASSUME NEW rows, Keyed(rows), NEW a \in rows, NEW b \in rows,
           Position(rows, a) = Position(rows, b)
    PROVE  a = b
<1>1. Position(rows, a) \in Nat /\ Position(rows, b) \in Nat
  <2>1. Cardinality(rows) \in Nat  BY KeyedIsFinite
  <2> QED BY <2>1, PositionType
<1> QED BY <1>1, BeforeIsTotal, PositionOrders

\* As many positions as rows: each is taken.
LEMMA PositionIsTaken ==
    ASSUME NEW rows, Keyed(rows), NEW p \in 1 .. Cardinality(rows)
    PROVE  \E row \in rows : Position(rows, row) = p
<1> DEFINE place == [row \in rows |-> Position(rows, row)]
           places == 1 .. Cardinality(rows)
<1>1. Cardinality(rows) \in Nat  BY KeyedIsFinite
<1>2. IsFiniteSet(places) /\ Cardinality(places) = Cardinality(rows)
  BY <1>1, FS_Interval
<1>3. place \in Injection(rows, places)
  <2>1. place \in [rows -> places]  BY PositionType
  <2>2. \A a, b \in rows : place[a] = place[b] => a = b  BY PositionIsUnique
  <2> QED BY <2>1, <2>2 DEF Injection, IsInjective
<1>4. place \in Surjection(rows, places)
  <2> HIDE DEF place, places
  <2> QED BY <1>2, <1>3, FS_Injection
<1>5. \E row \in rows : place[row] = p
  <2> HIDE DEF place
  <2> QED BY <1>4 DEF Surjection
<1> QED BY <1>5

\* What MySQL returns has each row at its position.
LEMMA OrderingType ==
    ASSUME NEW rows, Keyed(rows), NEW s \in Orderings(rows)
    PROVE  /\ s \in Seq(rows) /\ Len(s) = Cardinality(rows)
           /\ \A p \in 1 .. Len(s) : s[p] \in rows /\ Position(rows, s[p]) = p
           /\ \A row \in rows : s[Position(rows, row)] = row
<1> DEFINE n == Cardinality(rows)
           at(p) == CHOOSE row \in rows : Position(rows, row) = p
<1>1. n \in Nat  BY KeyedIsFinite
<1>2. s = [p \in 1 .. n |-> at(p)]  BY DEF Orderings
<1>3. \A p \in 1 .. n : at(p) \in rows /\ Position(rows, at(p)) = p
  BY PositionIsTaken
<1> HIDE DEF at, n
<1>4. s \in [1 .. n -> rows]  BY <1>2, <1>3
<1>5. s \in Seq(rows) /\ Len(s) = n  BY <1>1, <1>4
<1>6. \A p \in 1 .. n : s[p] \in rows /\ Position(rows, s[p]) = p  BY <1>2, <1>3
<1>7. \A row \in rows : s[Position(rows, row)] = row
  <2> SUFFICES ASSUME NEW row \in rows PROVE s[Position(rows, row)] = row  OBVIOUS
  <2>1. Position(rows, row) \in 1 .. n  BY PositionType DEF n
  <2> QED BY <1>6, <2>1, PositionIsUnique
<1> QED BY <1>5, <1>6, <1>7 DEF n
-----------------------------------------------------------------------------
(* Revisions. *)

\* Every row lives on, with its id and its created_at.
Succeeds(old, new) ==
    \A a \in old : \E b \in new : b.id = a.id /\ b.created = a.created

\* Rows that are added and updated can only push another towards the end.
LEMMA PositionOnlyGrows ==
    ASSUME NEW old, Keyed(old), NEW new, Keyed(new), Succeeds(old, new),
           NEW a \in old, NEW b \in new, b.id = a.id
    PROVE  Position(old, a) <= Position(new, b)
<1> DEFINE heir == [x \in old |-> CHOOSE y \in new : y.id = x.id /\ y.created = x.created]
<1>1. \A x \in old : heir[x] \in new /\ heir[x].id = x.id /\ heir[x].created = x.created
  BY DEF Succeeds
<1> HIDE DEF heir
<1>2. b.created = a.created  BY <1>1 DEF Keyed
<1> DEFINE f == [x \in Earlier(old, a) |-> heir[x]]
<1>3. \A x \in Earlier(old, a) : heir[x] \in Earlier(new, b)
  BY <1>1, <1>2 DEF Earlier, Before
<1>4. \A x, y \in Earlier(old, a) : heir[x] = heir[y] => x = y
  BY <1>1 DEF Earlier, Keyed
<1>5. f \in Injection(Earlier(old, a), Earlier(new, b))
  BY <1>3, <1>4 DEF Injection, IsInjective
<1>6. /\ IsFiniteSet(Earlier(old, a)) /\ IsFiniteSet(Earlier(new, b))
      /\ Position(old, a) = 1 + Cardinality(Earlier(old, a))
      /\ Position(new, b) = 1 + Cardinality(Earlier(new, b))
  BY PositionType
<1>7. Cardinality(Earlier(old, a)) <= Cardinality(Earlier(new, b))
  <2> HIDE DEF f
  <2> QED BY <1>5, <1>6, FS_Injection
<1> QED BY <1>6, <1>7, FS_CardinalityType
-----------------------------------------------------------------------------
(* Pages. *)

\* What a walk has got once it has a page.
Extended(got, page) == got \o [i \in DOMAIN page |-> page[i].id]

LEMMA MinOfTwo ==
    ASSUME NEW a \in Nat, NEW b \in Nat
    PROVE  /\ Min({a, b}) \in Nat /\ Min({a, b}) <= a /\ Min({a, b}) <= b
           /\ Min({a, b}) = a \/ Min({a, b}) = b
<1>1. \E x \in {a, b} : \A y \in {a, b} : x <= y  OBVIOUS
<1>2. Min({a, b}) \in {a, b} /\ \A y \in {a, b} : Min({a, b}) <= y
  BY <1>1 DEF Min
<1> QED BY <1>2

LEMMA FilterType ==
    ASSUME NEW f \in Filters
    PROVE  f.limit \in Nat \ {0} /\ f.offset \in Nat
<1>1. f.limit \in Limits /\ f.offset \in Offsets  BY DEF Filters
<1>2. f.limit \in 1 .. 100  BY <1>1, PageAssumption
<1>3. f.offset \in Nat  BY <1>1 DEF Offsets
<1> QED BY <1>2, <1>3

\* A page that begins where a walk stands.
LEMMA PageExtends ==
    ASSUME NEW rows, Keyed(rows), NEW s \in Orderings(rows),
           NEW f \in Filters, NEW got \in Seq(Ids), f.offset = Len(got),
           NEW new, new = Extended(got, Page(s, f))
    PROVE  /\ new \in Seq(Ids)
           /\ Len(got) <= Len(new)
           /\ Len(new) <= Cardinality(rows) \/ Len(new) = Len(got)
           /\ Len(Page(s, f)) < f.limit => Cardinality(rows) <= Len(new)
           /\ \A p \in 1 .. Len(got) : new[p] = got[p]
           /\ \A p \in (Len(got) + 1) .. Len(new) : \E row \in rows :
                row.id = new[p] /\ Position(rows, row) = p
<1> DEFINE n == Cardinality(rows)
           from == f.offset + 1
           to == Min({Len(s), f.offset + f.limit})
           page == Page(s, f)
           ids == [i \in DOMAIN page |-> page[i].id]
<1>1. /\ n \in Nat /\ s \in Seq(rows) /\ Len(s) = n
      /\ \A p \in 1 .. n : s[p] \in rows /\ Position(rows, s[p]) = p
  BY OrderingType, KeyedIsFinite
<1>2. f.limit \in Nat \ {0} /\ f.offset \in Nat  BY FilterType
<1>3. /\ to \in Nat /\ to <= n /\ to <= f.offset + f.limit
      /\ to = n \/ to = f.offset + f.limit
  BY <1>1, <1>2, MinOfTwo
<1>4. \A i \in from .. to : s[i] \in rows  BY <1>1, <1>2, <1>3
<1>5. page = SubSeq(s, from, to)  BY DEF Page
<1> HIDE DEF page, to, from, n
<1>6. from \in Int /\ to \in Int  BY <1>2, <1>3 DEF from
<1>7. /\ page \in Seq(rows)
      /\ Len(page) = IF from <= to THEN to - from + 1 ELSE 0
      /\ \A i \in 1 .. (to - from + 1) : page[i] = s[from + i - 1]
  BY <1>4, <1>5, <1>6, SubSeqProperties
<1>8. Len(page) \in Nat /\ DOMAIN page = 1 .. Len(page)  BY <1>7, LenProperties
<1>9. \A i \in 1 .. Len(page) : page[i] \in rows /\ page[i].id \in Ids
  <2>1. \A i \in 1 .. Len(page) : page[i] \in rows  BY <1>7, ElementOfSeq
  <2> QED BY <2>1, RowType DEF Keyed
<1>10. ids \in Seq(Ids) /\ Len(ids) = Len(page) /\ \A i \in 1 .. Len(page) : ids[i] = page[i].id
  <2>1. ids \in [1 .. Len(page) -> Ids]  BY <1>8, <1>9
  <2> QED BY <1>8, <2>1
<1> HIDE DEF ids
<1>11. new = got \o ids  BY DEF Extended, ids, page
<1>12. Len(got) \in Nat  BY LenProperties
<1>13. /\ new \in Seq(Ids) /\ Len(new) = Len(got) + Len(page)
       /\ \A i \in 1 .. Len(got) + Len(page) :
            new[i] = IF i <= Len(got) THEN got[i] ELSE ids[i - Len(got)]
  <2>1. ids \in Seq(Ids) /\ Len(ids) = Len(page)  BY <1>10
  <2>2. /\ got \o ids \in Seq(Ids) /\ Len(got \o ids) = Len(got) + Len(ids)
        /\ \A i \in 1 .. Len(got) + Len(ids) :
             (got \o ids)[i] = IF i <= Len(got) THEN got[i] ELSE ids[i - Len(got)]
    <3>1. ids \in Seq(Ids)  BY <2>1
    <3> QED BY <3>1, ConcatProperties, SMTT(60)
  <2> QED BY <1>11, <2>1, <2>2
<1>14. \A p \in 1 .. Len(got) : new[p] = got[p]  BY <1>8, <1>12, <1>13
<1>15. Len(got) <= Len(new)  BY <1>8, <1>12, <1>13
<1>16. from = Len(got) + 1  BY DEF from
<1>17. Len(new) <= n \/ Len(new) = Len(got)
  BY <1>3, <1>6, <1>7, <1>8, <1>12, <1>13, <1>16
<1>18. Len(page) < f.limit => n <= Len(new)
  BY <1>1, <1>2, <1>3, <1>6, <1>7, <1>8, <1>12, <1>13, <1>16
<1>19. ASSUME NEW p \in (Len(got) + 1) .. Len(new)
       PROVE  \E row \in rows : row.id = new[p] /\ Position(rows, row) = p
  <2>1. from <= to /\ Len(new) = to  BY <1>6, <1>7, <1>8, <1>12, <1>13, <1>16
  <2>2. p - Len(got) \in 1 .. Len(page)  BY <1>8, <1>12, <1>13
  <2>3. p - Len(got) \in 1 .. (to - from + 1)  BY <1>7, <2>1, <2>2
  <2>4. page[p - Len(got)] = s[from + (p - Len(got)) - 1]  BY <1>7, <2>3
  <2>5. from + (p - Len(got)) - 1 = p  BY <1>12, <1>16
  <2>6. p \in 1 .. n  BY <1>1, <1>3, <1>12, <2>1
  <2>7. new[p] = ids[p - Len(got)]
    <3>1. p \in 1 .. Len(got) + Len(page) /\ ~(p <= Len(got))  BY <1>8, <1>12, <1>13
    <3> QED BY <1>13, <3>1
  <2>8. new[p] = page[p - Len(got)].id  BY <1>10, <2>2, <2>7
  <2> QED BY <1>1, <2>4, <2>5, <2>6, <2>8
<1> QED BY <1>13, <1>14, <1>15, <1>17, <1>18, <1>19 DEF n, page
-----------------------------------------------------------------------------
(* Walks. *)

\* Each task of start is among the ids got, or at a position of rows that the
\* next page begins at or before.
AtOrBehind(start, rows, got) ==
    \A task \in start :
        \/ task.id \in ToSet(got)
        \/ \E row \in rows : row.id = task.id /\ Len(got) < Position(rows, row)

\* The ids got are those of the first rows, each at its position.
InOrder(rows, got) ==
    /\ Len(got) <= Cardinality(rows)
    /\ \A p \in 1 .. Len(got) : \E row \in rows :
         row.id = got[p] /\ Position(rows, row) = p

LEMMA Members ==
    ASSUME NEW got \in Seq(Ids), NEW p \in 1 .. Len(got)
    PROVE  got[p] \in ToSet(got)
BY LenProperties DEF ToSet

LEMMA ChangeKeepsBehind ==
    ASSUME NEW start, NEW old, Keyed(old), NEW new, Keyed(new), Succeeds(old, new),
           NEW got \in Seq(Ids), AtOrBehind(start, old, got)
    PROVE  AtOrBehind(start, new, got)
<1> SUFFICES ASSUME NEW task \in start, task.id \notin ToSet(got)
             PROVE  \E row \in new : row.id = task.id /\ Len(got) < Position(new, row)
  BY DEF AtOrBehind
<1>1. PICK a \in old : a.id = task.id /\ Len(got) < Position(old, a)
  BY DEF AtOrBehind
<1>2. PICK b \in new : b.id = a.id  BY DEF Succeeds
<1>3. Position(old, a) <= Position(new, b)  BY <1>2, PositionOnlyGrows
<1>4. /\ Cardinality(old) \in Nat /\ Cardinality(new) \in Nat
      /\ Position(old, a) \in 1 .. Cardinality(old)
      /\ Position(new, b) \in 1 .. Cardinality(new)
  BY KeyedIsFinite, PositionType
<1>5. Len(got) < Position(new, b)  BY <1>1, <1>3, <1>4, LenProperties
<1> QED BY <1>1, <1>2, <1>5

LEMMA PageKeepsBehind ==
    ASSUME NEW rows, Keyed(rows), NEW s \in Orderings(rows),
           NEW f \in Filters, NEW got \in Seq(Ids), f.offset = Len(got),
           NEW new, new = Extended(got, Page(s, f)),
           NEW start, AtOrBehind(start, rows, got)
    PROVE  /\ AtOrBehind(start, rows, new)
           /\ Len(Page(s, f)) < f.limit => IdsOf(start) \subseteq ToSet(new)
<1>1. /\ new \in Seq(Ids) /\ Len(got) <= Len(new)
      /\ Len(Page(s, f)) < f.limit => Cardinality(rows) <= Len(new)
      /\ \A p \in 1 .. Len(got) : new[p] = got[p]
      /\ \A p \in (Len(got) + 1) .. Len(new) : \E row \in rows :
           row.id = new[p] /\ Position(rows, row) = p
  BY PageExtends
<1>2. Len(got) \in Nat /\ Len(new) \in Nat /\ DOMAIN got = 1 .. Len(got)
  BY <1>1, LenProperties
<1>3. ToSet(got) \subseteq ToSet(new)
  <2> SUFFICES ASSUME NEW p \in 1 .. Len(got) PROVE got[p] \in ToSet(new)
    BY <1>2 DEF ToSet
  <2>1. p \in 1 .. Len(new)  BY <1>1, <1>2
  <2> QED BY <1>1, <2>1, Members
<1>4. \A row \in rows : Position(rows, row) \in 1 .. Cardinality(rows)
  BY PositionType
<1>5. Cardinality(rows) \in Nat  BY KeyedIsFinite
<1>6. ASSUME NEW row \in rows, Len(got) < Position(rows, row),
             Position(rows, row) <= Len(new)
      PROVE  row.id \in ToSet(new)
  <2> DEFINE p == Position(rows, row)
  <2>1. p \in (Len(got) + 1) .. Len(new) /\ p \in 1 .. Len(new)
    BY <1>2, <1>4, <1>5, <1>6
  <2>2. PICK other \in rows : other.id = new[p] /\ Position(rows, other) = p
    BY <1>1, <2>1
  <2>3. other = row  BY <2>2, PositionIsUnique
  <2> QED BY <1>1, <2>1, <2>2, <2>3, Members
<1>7. ASSUME NEW task \in start
      PROVE  \/ task.id \in ToSet(new)
             \/ \E row \in rows : row.id = task.id /\ Len(new) < Position(rows, row)
  <2>1. CASE task.id \in ToSet(got)  BY <1>3, <2>1
  <2>2. CASE task.id \notin ToSet(got)
    <3>1. PICK row \in rows : row.id = task.id /\ Len(got) < Position(rows, row)
      BY <2>2 DEF AtOrBehind
    <3>2. Position(rows, row) <= Len(new) \/ Len(new) < Position(rows, row)
      BY <1>2, <1>4, <1>5
    <3> QED BY <1>6, <3>1, <3>2
  <2> QED BY <2>1, <2>2
<1>8. ASSUME Len(Page(s, f)) < f.limit, NEW task \in start
      PROVE  task.id \in ToSet(new)
  <2>1. \A row \in rows : ~(Len(new) < Position(rows, row))
    BY <1>1, <1>2, <1>4, <1>5, <1>8
  <2> QED BY <1>7, <2>1
<1> QED BY <1>7, <1>8 DEF AtOrBehind, IdsOf

LEMMA PageKeepsOrder ==
    ASSUME NEW rows, Keyed(rows), NEW s \in Orderings(rows),
           NEW f \in Filters, NEW got \in Seq(Ids), f.offset = Len(got),
           NEW new, new = Extended(got, Page(s, f)), InOrder(rows, got)
    PROVE  /\ InOrder(rows, new)
           /\ Len(Page(s, f)) < f.limit => Len(new) = Cardinality(rows)
<1>1. /\ new \in Seq(Ids) /\ Len(got) <= Len(new)
      /\ Len(new) <= Cardinality(rows) \/ Len(new) = Len(got)
      /\ Len(Page(s, f)) < f.limit => Cardinality(rows) <= Len(new)
      /\ \A p \in 1 .. Len(got) : new[p] = got[p]
      /\ \A p \in (Len(got) + 1) .. Len(new) : \E row \in rows :
           row.id = new[p] /\ Position(rows, row) = p
  BY PageExtends
<1>2. Len(got) \in Nat /\ Len(new) \in Nat /\ Cardinality(rows) \in Nat
  BY <1>1, LenProperties, KeyedIsFinite
<1>3. Len(new) <= Cardinality(rows)  BY <1>1, <1>2 DEF InOrder
<1>4. ASSUME NEW p \in 1 .. Len(new)
      PROVE  \E row \in rows : row.id = new[p] /\ Position(rows, row) = p
  <2>1. p \in 1 .. Len(got) \/ p \in (Len(got) + 1) .. Len(new)  BY <1>2
  <2> QED BY <1>1, <2>1 DEF InOrder
<1> QED BY <1>1, <1>2, <1>3, <1>4 DEF InOrder

\* All rows in order: each once, newest first.
LEMMA OrderIsComplete ==
    ASSUME NEW rows, Keyed(rows), NEW got \in Seq(Ids), InOrder(rows, got),
           Len(got) = Cardinality(rows)
    PROVE  /\ ToSet(got) = IdsOf(rows)
           /\ \A a, b \in rows : a.created > b.created =>
                \E i, j \in DOMAIN got : i < j /\ got[i] = a.id /\ got[j] = b.id
<1>1. DOMAIN got = 1 .. Len(got)  BY LenProperties
<1>2. ASSUME NEW row \in rows
      PROVE  Position(rows, row) \in DOMAIN got /\ got[Position(rows, row)] = row.id
  <2>1. Position(rows, row) \in 1 .. Len(got)  BY PositionType
  <2>2. PICK other \in rows : /\ other.id = got[Position(rows, row)]
                              /\ Position(rows, other) = Position(rows, row)
    BY <2>1 DEF InOrder
  <2> QED BY <1>1, <2>1, <2>2, PositionIsUnique
<1>3. ToSet(got) \subseteq IdsOf(rows)  BY <1>1 DEF InOrder, ToSet, IdsOf
<1>4. IdsOf(rows) \subseteq ToSet(got)  BY <1>2 DEF ToSet, IdsOf
<1>5. ASSUME NEW a \in rows, NEW b \in rows, a.created > b.created
      PROVE  \E i, j \in DOMAIN got : i < j /\ got[i] = a.id /\ got[j] = b.id
  <2>1. Position(rows, a) < Position(rows, b)  BY <1>5, PositionOrders DEF Before
  <2> QED BY <1>2, <2>1
<1> QED BY <1>3, <1>4, <1>5
-----------------------------------------------------------------------------
(* The inductive invariant. *)

Now == rev[Team]

\* Every revision has a table with unique keys, in which the rows of those
\* before it live on.
TablesOK ==
    /\ rev \in [{Team} -> Nat] /\ settled \in [{Team} -> Nat]
    /\ Now <= MaxRev /\ settled[Team] <= Now
    /\ tables \in Seq(SUBSET Rows) /\ Len(tables) = Now + 1
    /\ \A n \in 0 .. Now : Keyed(Table(n))
    /\ \A n \in 0 .. Now : \A m \in 0 .. n : Succeeds(Table(m), Table(n))

\* The page that w waits for is the one its walk has come to, from no
\* revision before the walk began.
CallOK(w) ==
    \/ call[w] = Listing!NoCall
    \/ /\ ~walk[w].done
       /\ \E n \in Nat : /\ walk[w].start <= n /\ n <= settled[Team]
                         /\ call[w] = Listing!Open(Team, AskFor(w), n)
    \/ /\ ~walk[w].done
       /\ \E n \in Nat : /\ walk[w].start <= n /\ n <= Now
                         /\ call[w] = Listing!Answered(
                              [team |-> Team, filter |-> AskFor(w), rev |-> n])

WalksOK ==
    /\ DOMAIN call = Walkers
    /\ walk \in [Walkers -> Walks]
    /\ \A w \in Walkers :
         /\ walk[w].start <= settled[Team]
         /\ Len(walk[w].got) <= Cardinality(Ids)
         /\ CallOK(w)

\* A quiet walk through all statuses has passed no task by: neither in the
\* newest table nor in the one its next page was read from.
NothingPassed(w) ==
    walk[w].quiet /\ walk[w].status = Unset =>
        LET start == Table(walk[w].start)
        IN /\ AtOrBehind(start, Table(Now), walk[w].got)
           /\ call[w].stage = "answered" =>
                AtOrBehind(start, Table(call[w].list.rev), walk[w].got)
           /\ walk[w].done => IdsOf(start) \subseteq ToSet(walk[w].got)

\* A walk that began at the newest table follows its order.
Ordered(w) ==
    walk[w].start = Now =>
        LET all == Matching(Table(Now), walk[w].status)
        IN /\ InOrder(all, walk[w].got)
           /\ walk[w].done => Len(walk[w].got) = Cardinality(all)

Inv ==
    /\ TablesOK /\ WalksOK
    /\ \A w \in Walkers : NothingPassed(w) /\ Ordered(w)

\* What there is to know of a walk and its call.
LEMMA WalkFacts ==
    ASSUME TablesOK, WalksOK, NEW w \in Walkers
    PROVE  /\ walk[w].start \in 0 .. Now /\ walk[w].got \in Seq(Ids)
           /\ Len(walk[w].got) \in Nat
           /\ AskFor(w) \in Filters
           /\ Now \in Nat /\ settled[Team] \in Nat
<1>1. Now \in Nat /\ settled[Team] \in Nat  BY DEF TablesOK, Now
<1>2. walk[w] \in Walks  BY DEF WalksOK
<1>3. walk[w].start \in 0 .. Now  BY <1>1, <1>2 DEF Walks, WalksOK, TablesOK
<1>4. walk[w].got \in Seq(Ids)  BY <1>2 DEF Walks
<1>5. Len(walk[w].got) \in Nat  BY <1>4, LenProperties
<1>6. Len(walk[w].got) \in Offsets
  <2>1. Cardinality(Ids) \in Nat  BY IdAssumption, FS_CardinalityType
  <2> QED BY <1>5, <2>1 DEF Offsets, WalksOK
<1>7. AskFor(w) \in Filters  BY <1>2, <1>6 DEF AskFor, Filters, Walks
<1> QED BY <1>1, <1>3, <1>4, <1>5, <1>7

LEMMA CallFacts ==
    ASSUME NEW w, CallOK(w)
    PROVE  /\ call[w].stage \in {"none", "open", "answered"}
           /\ call[w].stage = "none" => call[w] = Listing!NoCall
           /\ call[w].stage = "open" =>
                /\ ~walk[w].done
                /\ call[w].floor \in Nat /\ call[w].floor <= settled[Team]
                /\ walk[w].start <= call[w].floor
                /\ call[w] = Listing!Open(Team, AskFor(w), call[w].floor)
           /\ call[w].stage = "answered" =>
                /\ ~walk[w].done
                /\ call[w].list.rev \in Nat /\ call[w].list.rev <= Now
                /\ walk[w].start <= call[w].list.rev
                /\ call[w].list.filter = AskFor(w)
<1>1. CASE call[w] = Listing!NoCall
  <2>1. call[w].stage = "none"  BY <1>1 DEF Listing!NoCall
  <2> QED BY <1>1, <2>1
<1>2. CASE /\ ~walk[w].done
           /\ \E n \in Nat : /\ walk[w].start <= n /\ n <= settled[Team]
                             /\ call[w] = Listing!Open(Team, AskFor(w), n)
  <2>1. PICK n \in Nat : /\ walk[w].start <= n /\ n <= settled[Team]
                         /\ call[w] = Listing!Open(Team, AskFor(w), n)
    BY <1>2
  <2>2. call[w].stage = "open" /\ call[w].floor = n  BY <2>1 DEF Listing!Open
  <2> QED BY <1>2, <2>1, <2>2
<1>3. CASE /\ ~walk[w].done
           /\ \E n \in Nat : /\ walk[w].start <= n /\ n <= Now
                             /\ call[w] = Listing!Answered(
                                  [team |-> Team, filter |-> AskFor(w), rev |-> n])
  <2>1. PICK n \in Nat : /\ walk[w].start <= n /\ n <= Now
                         /\ call[w] = Listing!Answered(
                              [team |-> Team, filter |-> AskFor(w), rev |-> n])
    BY <1>3
  <2>2. /\ call[w].stage = "answered" /\ call[w].list.rev = n
        /\ call[w].list.filter = AskFor(w)
    BY <2>1 DEF Listing!Answered
  <2> QED BY <1>3, <2>1, <2>2
<1> QED BY <1>1, <1>2, <1>3 DEF CallOK

LEMMA InitInv == Init => Inv
<1> SUFFICES ASSUME Init PROVE Inv  OBVIOUS
<1>1. PICK created \in [OldIds -> Seconds], status \in [OldIds -> Statuses] :
        tables = <<{[id |-> i, created |-> created[i], status |-> status[i]]
                      : i \in OldIds}>>
  BY DEF Init
<1> DEFINE first == {[id |-> i, created |-> created[i], status |-> status[i]] : i \in OldIds}
<1>2. first \subseteq Rows /\ Keyed(first)  BY IdAssumption DEF Rows, Keyed
<1> HIDE DEF first
<1>3. /\ rev \in [{Team} -> Nat] /\ settled \in [{Team} -> Nat]
      /\ Now = 0 /\ settled[Team] = 0
      /\ call = [w \in Walkers |-> Listing!NoCall]
  BY DEF Init, Listing!Init, Now
<1>4. tables = <<first>>  BY <1>1 DEF first
<1>5. /\ tables \in Seq(SUBSET Rows) /\ Len(tables) = Now + 1 /\ Table(0) = first
  BY <1>2, <1>3, <1>4 DEF Table
<1>6. TablesOK
  <2>1. \A n \in 0 .. Now : n = 0  BY <1>3
  <2>2. \A n \in 0 .. Now : \A m \in 0 .. n : n = 0 /\ m = 0  BY <1>3
  <2>3. Succeeds(first, first)  BY DEF Succeeds
  <2> QED BY <1>2, <1>3, <1>5, <2>1, <2>2, <2>3, BoundAssumption DEF TablesOK
<1>7. \A w \in Walkers : /\ walk[w] \in Walks /\ walk[w].start = 0
                         /\ walk[w].got = <<>> /\ walk[w].done = FALSE
  <2>1. <<>> \in Seq(Ids)  BY EmptySeq
  <2>2. {<<>>} \subseteq Seq(Ids) /\ {0} \subseteq Nat
        /\ {TRUE} \subseteq BOOLEAN /\ {FALSE} \subseteq BOOLEAN
    BY <2>1
  <2>3. SUFFICES ASSUME NEW w \in Walkers
                 PROVE  /\ walk[w] \in Walks /\ walk[w].start = 0
                        /\ walk[w].got = <<>> /\ walk[w].done = FALSE
    OBVIOUS
  <2>4. walk[w] \in [status : Statuses \cup {Unset}, limit : Limits,
                     start : {0}, quiet : {TRUE}, got : {<<>>}, done : {FALSE}]
    BY DEF Init
  <2>5. walk[w].start = 0 /\ walk[w].got = <<>> /\ walk[w].done = FALSE  BY <2>4
  <2>6. walk[w] \in Walks  BY <2>2, <2>4, Zenon DEF Walks
  <2> QED BY <2>5, <2>6
<1>8. WalksOK
  <2>1. walk \in [Walkers -> Walks]  BY <1>7 DEF Init
  <2>2. Len(<<>>) = 0 /\ Cardinality(Ids) \in Nat
    BY EmptySeq, IdAssumption, FS_CardinalityType
  <2> QED BY <1>3, <1>7, <2>1, <2>2 DEF WalksOK, CallOK
<1>9. ASSUME NEW w \in Walkers PROVE NothingPassed(w) /\ Ordered(w)
  <2>1. Len(walk[w].got) = 0 /\ walk[w].start = 0 /\ ~walk[w].done
    BY <1>7, EmptySeq
  <2>2. \A row \in first : 0 < Position(first, row)
    <3>1. Cardinality(first) \in Nat  BY <1>2, KeyedIsFinite
    <3> QED BY <1>2, <3>1, PositionType
  <2>3. call[w].stage # "answered"  BY <1>3 DEF Listing!NoCall
  <2>4. NothingPassed(w)
    BY <1>3, <1>5, <2>1, <2>2, <2>3 DEF NothingPassed, AtOrBehind
  <2>5. InOrder(Matching(first, walk[w].status), walk[w].got)
    <3>1. Cardinality(Matching(first, walk[w].status)) \in Nat
      BY <1>2, MatchingIsKeyed, KeyedIsFinite
    <3> QED BY <2>1, <3>1 DEF InOrder
  <2> QED BY <1>3, <1>5, <2>1, <2>4, <2>5 DEF Ordered
<1> QED BY <1>6, <1>8, <1>9 DEF Inv
-----------------------------------------------------------------------------
(* The steps of other clients. *)

LEMMA SucceedsOnwards ==
    ASSUME NEW a, NEW b, NEW c, Succeeds(a, b), Succeeds(b, c)
    PROVE  Succeeds(a, c)
BY DEF Succeeds

LEMMA NewestTable ==
    ASSUME TablesOK
    PROVE  /\ Now \in Nat /\ Last(tables) = Table(Now)
           /\ Keyed(Table(Now)) /\ Table(Now) \subseteq Rows
BY DEF TablesOK, Now, Table, Last, Keyed

LEMMA ChangeStep ==
    ASSUME Inv, Listing!Change(Team), UNCHANGED walk,
           NEW rows, Keyed(rows), Succeeds(Table(Now), rows), Becomes(rows)
    PROVE  Inv'
<1>1. /\ Now \in Nat /\ settled[Team] \in Nat /\ settled[Team] <= Now
      /\ Now' = Now + 1 /\ Now' <= MaxRev
      /\ rev' \in [{Team} -> Nat] /\ UNCHANGED <<settled, call, walk>>
  BY BoundAssumption DEF Inv, TablesOK, Now, Listing!Change
<1>2. /\ tables' \in Seq(SUBSET Rows) /\ Len(tables') = Now' + 1
      /\ Table(Now)' = rows
      /\ \A n \in 0 .. Now : Table(n)' = Table(n)
  <2>1. tables \in Seq(SUBSET Rows) /\ Len(tables) = Now + 1  BY DEF Inv, TablesOK
  <2>2. rows \in SUBSET Rows /\ tables' = Append(tables, rows)
    BY DEF Keyed, Becomes
  <2>3. /\ tables' \in Seq(SUBSET Rows) /\ Len(tables') = Len(tables) + 1
        /\ \A i \in 1 .. Len(tables) : tables'[i] = tables[i]
        /\ tables'[Len(tables) + 1] = rows
    BY <2>1, <2>2
  <2>4. \A n \in 0 .. Now : n + 1 \in 1 .. Len(tables)  BY <1>1, <2>1
  <2>5. Now' + 1 = Len(tables) + 1  BY <1>1, <2>1
  <2>6. Table(Now)' = rows  BY <2>3, <2>5 DEF Table
  <2>7. \A n \in 0 .. Now : Table(n)' = Table(n)  BY <2>3, <2>4 DEF Table
  <2>8. Len(tables') = Now' + 1  BY <2>1, <2>3, <2>5
  <2> QED BY <2>3, <2>6, <2>7, <2>8
<1>3. TablesOK'
  <2>1. \A n \in 0 .. Now' : n \in 0 .. Now \/ n = Now'  BY <1>1
  <2>2. \A n \in 0 .. Now' : Keyed(Table(n)')
    <3>1. \A n \in 0 .. Now : Keyed(Table(n))  BY DEF Inv, TablesOK
    <3> QED BY <1>2, <2>1, <3>1
  <2>3. ASSUME NEW n \in 0 .. Now', NEW m \in 0 .. n
        PROVE  Succeeds(Table(m)', Table(n)')
    <3>1. CASE n \in 0 .. Now
      <4>1. m \in 0 .. Now /\ m \in 0 .. n  BY <1>1, <3>1
      <4>2. Succeeds(Table(m), Table(n))  BY <3>1, <4>1 DEF Inv, TablesOK
      <4> QED BY <1>2, <3>1, <4>1, <4>2
    <3>2. CASE n = Now' /\ m = Now'
      BY <1>2, <3>2 DEF Succeeds
    <3>3. CASE n = Now' /\ m \in 0 .. Now
      <4>1. Now \in 0 .. Now /\ m \in 0 .. Now  BY <1>1, <3>3
      <4>2. Succeeds(Table(m), Table(Now))  BY <4>1 DEF Inv, TablesOK
      <4>3. Succeeds(Table(m), rows)  BY <4>2, SucceedsOnwards
      <4> QED BY <1>2, <3>3, <4>3
    <3> QED BY <1>1, <2>1, <3>1, <3>2, <3>3
  <2>4. settled' \in [{Team} -> Nat] /\ settled'[Team] <= Now'
    BY <1>1 DEF Inv, TablesOK
  <2> QED BY <1>1, <1>2, <2>2, <2>3, <2>4 DEF TablesOK
<1>4. ASSUME NEW w \in Walkers PROVE CallOK(w)'
  <2>1. CallOK(w)  BY DEF Inv, WalksOK
  <2>2. AskFor(w)' = AskFor(w)  BY <1>1 DEF AskFor
  <2>3. \A n \in Nat : n <= Now => n <= Now'  BY <1>1
  <2> QED BY <1>1, <2>1, <2>2, <2>3 DEF CallOK
<1>5. WalksOK'  BY <1>1, <1>4 DEF Inv, WalksOK
<1>6. ASSUME NEW w \in Walkers PROVE Ordered(w)'
  <2>1. walk[w].start \in 0 .. Now  BY WalkFacts DEF Inv
  <2>2. walk'[w].start # Now'  BY <1>1, <2>1
  <2> QED BY <2>2 DEF Ordered
<1>7. ASSUME NEW w \in Walkers PROVE NothingPassed(w)'
  <2>1. /\ walk[w].start \in 0 .. Now /\ walk[w].got \in Seq(Ids)
        /\ Keyed(Table(Now))
    BY WalkFacts, NewestTable DEF Inv
  <2>2. Table(walk[w].start)' = Table(walk[w].start)  BY <1>1, <1>2, <2>1
  <2>3. SUFFICES ASSUME walk[w].quiet, walk[w].status = Unset
        PROVE  /\ AtOrBehind(Table(walk[w].start), rows, walk[w].got)
               /\ call[w].stage = "answered" =>
                    AtOrBehind(Table(walk[w].start), Table(call[w].list.rev)', walk[w].got)
               /\ walk[w].done => IdsOf(Table(walk[w].start)) \subseteq ToSet(walk[w].got)
    BY <1>1, <1>2, <2>2 DEF NothingPassed
  <2>4. /\ AtOrBehind(Table(walk[w].start), Table(Now), walk[w].got)
        /\ call[w].stage = "answered" =>
             AtOrBehind(Table(walk[w].start), Table(call[w].list.rev), walk[w].got)
        /\ walk[w].done => IdsOf(Table(walk[w].start)) \subseteq ToSet(walk[w].got)
    BY <2>3 DEF Inv, NothingPassed
  <2>5. AtOrBehind(Table(walk[w].start), rows, walk[w].got)
    BY <2>1, <2>4, ChangeKeepsBehind
  <2>6. call[w].stage = "answered" => Table(call[w].list.rev)' = Table(call[w].list.rev)
    <3>1. CallOK(w)  BY DEF Inv, WalksOK
    <3>2. call[w].stage = "answered" => call[w].list.rev \in 0 .. Now
      BY <1>1, <3>1, CallFacts
    <3> QED BY <1>1, <1>2, <3>2
  <2> QED BY <2>4, <2>5, <2>6
<1> QED BY <1>3, <1>5, <1>6, <1>7 DEF Inv

LEMMA CreateStep == Inv /\ Create => Inv'
<1> SUFFICES ASSUME Inv, Create PROVE Inv'  OBVIOUS
<1>1. PICK i \in Ids \ IdsOf(Last(tables)), c \in Seconds :
        Becomes(Last(tables) \cup {[id |-> i, created |-> c, status |-> "todo"]})
  BY DEF Create
<1> DEFINE new == [id |-> i, created |-> c, status |-> "todo"]
<1>2. Last(tables) = Table(Now) /\ Keyed(Table(Now))  BY NewestTable DEF Inv
<1>3. new \in Rows /\ new.id = i  BY RowAssumption DEF Rows
<1>4. \A row \in Table(Now) : row.id # new.id  BY <1>1, <1>2, <1>3 DEF IdsOf
<1> HIDE DEF new
<1>5. Keyed(Table(Now) \cup {new})  BY <1>2, <1>3, <1>4 DEF Keyed
<1>6. Succeeds(Table(Now), Table(Now) \cup {new})  BY DEF Succeeds
<1>7. Becomes(Table(Now) \cup {new})  BY <1>1, <1>2 DEF new
<1>8. Listing!Change(Team) /\ UNCHANGED walk  BY DEF Create
<1> QED BY <1>5, <1>6, <1>7, <1>8, ChangeStep

LEMMA UpdateStep == Inv /\ Update => Inv'
<1> SUFFICES ASSUME Inv, Update PROVE Inv'  OBVIOUS
<1>1. PICK row \in Last(tables), s \in Statuses :
        Becomes((Last(tables) \ {row}) \cup {[row EXCEPT !.status = s]})
  BY DEF Update
<1> DEFINE new == [row EXCEPT !.status = s]
           rows == (Table(Now) \ {row}) \cup {new}
<1>2. /\ Last(tables) = Table(Now) /\ Keyed(Table(Now)) /\ row \in Table(Now)
      /\ row \in Rows
  BY <1>1, NewestTable DEF Inv
<1>3. new \in Rows /\ new.id = row.id /\ new.created = row.created
  BY <1>2 DEF Rows
<1> HIDE DEF new
<1>4. Keyed(rows)  BY <1>2, <1>3 DEF Keyed
<1>5. Succeeds(Table(Now), rows)  BY <1>2, <1>3 DEF Succeeds
<1>6. Becomes(rows)  BY <1>1, <1>2 DEF new
<1>7. Listing!Change(Team) /\ UNCHANGED walk  BY DEF Update
<1> HIDE DEF rows
<1> QED BY <1>4, <1>5, <1>6, <1>7, ChangeStep

LEMMA SettleStep == Inv /\ Settle => Inv'
<1> SUFFICES ASSUME Inv, Settle PROVE Inv'  OBVIOUS
<1>1. /\ UNCHANGED <<tables, rev, call, walk>>
      /\ \E n \in settled[Team] .. rev[Team] : settled' = [settled EXCEPT ![Team] = n]
  BY DEF Settle, Listing!Settle
<1>2. /\ Now \in Nat /\ settled[Team] \in Nat /\ settled[Team] <= Now
      /\ settled \in [{Team} -> Nat]
  BY DEF Inv, TablesOK, Now
<1>3. /\ Now' = Now /\ \A n : Table(n)' = Table(n)
      /\ settled' \in [{Team} -> Nat]
      /\ settled'[Team] \in Nat /\ settled[Team] <= settled'[Team] /\ settled'[Team] <= Now
  BY <1>1, <1>2 DEF Now, Table
<1>4. TablesOK'  BY <1>1, <1>3 DEF Inv, TablesOK
<1>5. ASSUME NEW w \in Walkers
      PROVE  /\ walk'[w].start <= settled'[Team] /\ Len(walk'[w].got) <= Cardinality(Ids)
             /\ CallOK(w)' /\ NothingPassed(w)' /\ Ordered(w)'
  <2>1. /\ walk[w].start <= settled[Team] /\ Len(walk[w].got) <= Cardinality(Ids)
        /\ CallOK(w) /\ NothingPassed(w) /\ Ordered(w)
    BY DEF Inv, WalksOK
  <2>2. walk[w].start \in Nat  BY <1>2, WalkFacts DEF Inv
  <2>3. AskFor(w)' = AskFor(w)  BY <1>1 DEF AskFor
  <2>4. walk'[w].start <= settled'[Team]  BY <1>1, <1>2, <1>3, <2>1, <2>2
  <2>5. \A n \in Nat : n <= settled[Team] => n <= settled'[Team]  BY <1>2, <1>3
  <2>6. CallOK(w)'  BY <1>1, <1>3, <2>1, <2>3, <2>5 DEF CallOK
  <2>7. NothingPassed(w)'  BY <1>1, <1>3, <2>1 DEF NothingPassed
  <2>8. Ordered(w)'  BY <1>1, <1>3, <2>1 DEF Ordered
  <2> QED BY <1>1, <2>1, <2>4, <2>6, <2>7, <2>8
<1>6. WalksOK'  BY <1>1, <1>5 DEF Inv, WalksOK
<1> QED BY <1>4, <1>5, <1>6 DEF Inv
-----------------------------------------------------------------------------
(* The steps of a walk. *)

\* What the invariant says of one walk.
WalkOK(w) ==
    /\ walk[w] \in Walks
    /\ walk[w].start <= settled[Team]
    /\ Len(walk[w].got) <= Cardinality(Ids)
    /\ CallOK(w) /\ NothingPassed(w) /\ Ordered(w)

LEMMA WalkByWalk ==
    Inv <=> /\ TablesOK /\ DOMAIN call = Walkers
            /\ walk \in [Walkers -> Walks]
            /\ \A w \in Walkers : WalkOK(w)
BY DEF Inv, WalksOK, WalkOK

\* A step of one walk is no matter to the others.
LEMMA OneWalkSteps ==
    ASSUME Inv, NEW w \in Walkers, UNCHANGED <<tables, rev, settled>>,
           NEW k, call' = [call EXCEPT ![w] = k],
           NEW x, walk' = [walk EXCEPT ![w] = x], WalkOK(w)'
    PROVE  Inv'
<1>1. TablesOK' /\ \A n : Table(n)' = Table(n)
  BY DEF Inv, TablesOK, Now, Table
<1>2. DOMAIN call' = Walkers  BY DEF Inv, WalksOK
<1>3. x \in Walks
  BY DEF Inv, WalksOK, WalkOK
<1>4. walk' \in [Walkers -> Walks]  BY <1>3 DEF Inv, WalksOK
<1>5. ASSUME NEW v \in Walkers, v # w PROVE WalkOK(v)'
  <2>1. WalkOK(v)  BY WalkByWalk
  <2>2. walk'[v] = walk[v] /\ call'[v] = call[v] /\ Now' = Now
    BY <1>5 DEF Inv, WalksOK, Now
  <2>3. AskFor(v)' = AskFor(v)  BY <2>2 DEF AskFor
  <2>4. CallOK(v)'  BY <2>1, <2>2, <2>3 DEF WalkOK, CallOK
  <2>5. NothingPassed(v)'  BY <1>1, <2>1, <2>2 DEF WalkOK, NothingPassed
  <2>6. Ordered(v)'  BY <1>1, <2>1, <2>2 DEF WalkOK, Ordered
  <2> QED BY <2>1, <2>2, <2>4, <2>5, <2>6 DEF WalkOK
<1> QED BY <1>1, <1>2, <1>4, <1>5, WalkByWalk DEF Inv, WalksOK, WalkOK

LEMMA AskStep == ASSUME NEW w \in Walkers PROVE Inv /\ AskPage(w) => Inv'
<1> SUFFICES ASSUME Inv, AskPage(w) PROVE Inv'  OBVIOUS
<1>1. /\ ~walk[w].done /\ call[w] = Listing!NoCall
      /\ UNCHANGED <<tables, rev, settled>>
      /\ call' = [call EXCEPT ![w] = Listing!Open(Team, AskFor(w), settled[Team])]
      /\ walk' = [walk EXCEPT ![w].start = IF walk[w].got = <<>>
                                           THEN settled[Team] ELSE @]
  BY DEF AskPage
<1> DEFINE start == IF walk[w].got = <<>> THEN settled[Team] ELSE walk[w].start
           x == [walk[w] EXCEPT !.start = start]
           k == Listing!Open(Team, AskFor(w), settled[Team])
<1>2. /\ Now \in Nat /\ settled[Team] \in Nat /\ settled[Team] <= Now
      /\ walk[w].start \in 0 .. Now /\ walk[w].start <= settled[Team]
      /\ WalkOK(w) /\ walk[w] \in Walks
      /\ \A n \in 0 .. Now : Keyed(Table(n)) /\ Succeeds(Table(n), Table(Now))
  BY WalkFacts, WalkByWalk DEF Inv, TablesOK, WalksOK
<1>3. start \in 0 .. Now /\ start <= settled[Team]  BY <1>2
<1>4. /\ x \in Walks /\ x.start = start /\ x.got = walk[w].got
      /\ x.status = walk[w].status /\ x.limit = walk[w].limit
      /\ x.done = walk[w].done /\ x.quiet = walk[w].quiet
  BY <1>2, <1>3 DEF Walks
<1>5. walk' = [walk EXCEPT ![w] = x] /\ walk'[w] = x /\ call'[w] = k
  BY <1>1 DEF Inv, WalksOK
<1>6. AskFor(w)' = AskFor(w)  BY <1>4, <1>5 DEF AskFor
<1>7. \A n : Table(n)' = Table(n)  BY <1>1 DEF Table
<1>8. Now' = Now /\ settled'[Team] = settled[Team]  BY <1>1 DEF Now
<1>9. k.stage = "open"  BY DEF Listing!Open
<1> HIDE DEF x, start, k
<1>10. CallOK(w)'
  <2>1. /\ walk'[w].start <= settled[Team] /\ settled[Team] <= settled'[Team]
        /\ call'[w] = Listing!Open(Team, AskFor(w)', settled[Team]) /\ ~walk'[w].done
    BY <1>1, <1>2, <1>3, <1>4, <1>5, <1>6, <1>8 DEF k
  <2> QED BY <1>2, <2>1 DEF CallOK
<1>11. NothingPassed(w)'
  <2>1. SUFFICES ASSUME x.quiet, x.status = Unset
        PROVE  AtOrBehind(Table(start), Table(Now), walk[w].got)
    BY <1>1, <1>4, <1>5, <1>7, <1>8, <1>9 DEF NothingPassed
  <2>2. CASE walk[w].got = <<>>
    <3>1. Len(walk[w].got) = 0  BY <2>2, EmptySeq
    <3>2. /\ Keyed(Table(Now)) /\ Succeeds(Table(start), Table(Now))
          /\ Cardinality(Table(Now)) \in Nat
      BY <1>2, <1>3, KeyedIsFinite
    <3>3. \A row \in Table(Now) : 0 < Position(Table(Now), row)
      BY <3>2, PositionType
    <3> QED BY <3>1, <3>2, <3>3 DEF AtOrBehind, Succeeds
  <2>3. CASE walk[w].got # <<>>
    <3>1. start = walk[w].start  BY <2>3 DEF start
    <3> QED BY <1>2, <1>4, <2>1, <3>1 DEF WalkOK, NothingPassed
  <2> QED BY <2>2, <2>3
<1>12. Ordered(w)'
  <2>1. SUFFICES ASSUME start = Now
        PROVE  InOrder(Matching(Table(Now), walk[w].status), walk[w].got)
    BY <1>1, <1>4, <1>5, <1>7, <1>8 DEF Ordered
  <2>2. CASE walk[w].got = <<>>
    <3>1. Len(walk[w].got) = 0  BY <2>2, EmptySeq
    <3>2. Cardinality(Matching(Table(Now), walk[w].status)) \in Nat
      BY <1>2, MatchingIsKeyed, KeyedIsFinite
    <3> QED BY <3>1, <3>2 DEF InOrder
  <2>3. CASE walk[w].got # <<>>
    <3>1. walk[w].start = Now  BY <2>1, <2>3 DEF start
    <3> QED BY <1>2, <3>1 DEF WalkOK, Ordered
  <2> QED BY <2>2, <2>3
<1>13. WalkOK(w)'
  <2>1. Len(walk[w].got) <= Cardinality(Ids)  BY <1>2 DEF WalkOK
  <2> QED BY <1>3, <1>4, <1>5, <1>8, <1>10, <1>11, <1>12, <2>1 DEF WalkOK
<1> QED BY <1>1, <1>5, <1>13, OneWalkSteps DEF k

LEMMA AnswerStep == ASSUME NEW w \in Walkers PROVE Inv /\ AnswerPage(w) => Inv'
<1> SUFFICES ASSUME Inv, AnswerPage(w) PROVE Inv'  OBVIOUS
<1>1. PICK n \in call[w].floor .. rev[call[w].team] :
        call' = [call EXCEPT ![w] = Listing!Answered(
                   [team |-> call[w].team, filter |-> call[w].filter, rev |-> n])]
  BY DEF AnswerPage, Listing!Answer
<1>2. /\ call[w].stage = "open" /\ UNCHANGED <<tables, rev, settled>>
      /\ walk' = [walk EXCEPT ![w].quiet = @ /\ call[w].floor = rev[Team]]
  BY DEF AnswerPage, Listing!Answer
<1> DEFINE quiet == walk[w].quiet /\ call[w].floor = rev[Team]
           x == [walk[w] EXCEPT !.quiet = quiet]
           k == Listing!Answered([team |-> Team, filter |-> AskFor(w), rev |-> n])
<1>3. /\ Now \in Nat /\ settled[Team] \in Nat /\ settled[Team] <= Now
      /\ walk[w].start \in 0 .. Now
      /\ WalkOK(w) /\ walk[w] \in Walks
  BY WalkFacts, WalkByWalk DEF Inv, TablesOK, WalksOK
<1>4. /\ ~walk[w].done
      /\ call[w].floor \in Nat /\ call[w].floor <= settled[Team]
      /\ walk[w].start <= call[w].floor
      /\ call[w] = Listing!Open(Team, AskFor(w), call[w].floor)
  BY <1>2, <1>3, CallFacts DEF WalkOK
<1>5. call[w].team = Team /\ call[w].filter = AskFor(w)
  BY <1>4 DEF Listing!Open
<1>6. /\ n \in Nat /\ call[w].floor <= n /\ n <= Now /\ walk[w].start <= n
  BY <1>1, <1>3, <1>4, <1>5 DEF Now
<1>7. /\ x \in Walks /\ x.start = walk[w].start /\ x.got = walk[w].got
      /\ x.status = walk[w].status /\ x.limit = walk[w].limit
      /\ x.done = walk[w].done /\ x.quiet = quiet
  <2>1. quiet \in BOOLEAN  OBVIOUS
  <2> HIDE DEF quiet
  <2> QED BY <1>3, <2>1 DEF Walks
<1>8. /\ call' = [call EXCEPT ![w] = k]
      /\ walk' = [walk EXCEPT ![w] = x] /\ walk'[w] = x /\ call'[w] = k
  BY <1>1, <1>2, <1>5 DEF Inv, WalksOK
<1>9. AskFor(w)' = AskFor(w)  BY <1>7, <1>8 DEF AskFor
<1>10. \A m : Table(m)' = Table(m)  BY <1>2 DEF Table
<1>11. Now' = Now /\ settled'[Team] = settled[Team]  BY <1>2 DEF Now
<1>12. k.list.rev = n  BY DEF Listing!Answered
<1>13. quiet => walk[w].quiet /\ n = Now  BY <1>3, <1>4, <1>6 DEF Now
<1> HIDE DEF x, k, quiet
<1>14. CallOK(w)'
  <2>1. /\ walk'[w].start <= n /\ n <= Now' /\ ~walk'[w].done
        /\ call'[w] = Listing!Answered([team |-> Team, filter |-> AskFor(w)', rev |-> n])
    BY <1>4, <1>6, <1>7, <1>8, <1>9, <1>11 DEF k
  <2> QED BY <1>6, <2>1 DEF CallOK
<1>15. NothingPassed(w)'
  <2>1. SUFFICES ASSUME quiet, walk[w].status = Unset
        PROVE  AtOrBehind(Table(walk[w].start), Table(Now), walk[w].got)
    BY <1>4, <1>7, <1>8, <1>10, <1>11, <1>12, <1>13 DEF NothingPassed
  <2> QED BY <1>3, <1>13, <2>1 DEF WalkOK, NothingPassed
<1>16. Ordered(w)'
  BY <1>3, <1>7, <1>8, <1>10, <1>11 DEF WalkOK, Ordered
<1>17. WalkOK(w)'
  BY <1>3, <1>7, <1>8, <1>11, <1>14, <1>15, <1>16 DEF WalkOK
<1> QED BY <1>2, <1>8, <1>17, OneWalkSteps

LEMMA TakeStep == ASSUME NEW w \in Walkers PROVE Inv /\ TakePage(w) => Inv'
<1> SUFFICES ASSUME Inv, TakePage(w) PROVE Inv'  OBVIOUS
<1> DEFINE n == call[w].list.rev
           f == AskFor(w)
           got == walk[w].got
           rows == Matching(Table(n), f.status)
<1>1. /\ call[w].stage = "answered"
      /\ call' = [call EXCEPT ![w] = Listing!NoCall]
      /\ UNCHANGED <<tables, rev, settled>>
  BY DEF TakePage, Listing!Close
<1>2. /\ Now \in Nat /\ settled[Team] \in Nat /\ settled[Team] <= Now
      /\ walk[w].start \in 0 .. Now /\ walk[w].start <= settled[Team]
      /\ got \in Seq(Ids) /\ f \in Filters
      /\ WalkOK(w) /\ walk[w] \in Walks
      /\ \A m \in 0 .. Now : Keyed(Table(m)) /\ Succeeds(Table(m), Table(Now))
  BY WalkFacts, WalkByWalk DEF Inv, TablesOK, WalksOK
<1>3. n \in 0 .. Now /\ walk[w].start <= n /\ call[w].list.filter = f
  BY <1>1, <1>2, CallFacts DEF WalkOK
<1>4. PICK s \in Orderings(rows) :
        walk' = [walk EXCEPT
                   ![w].got = @ \o [i \in DOMAIN Page(s, f) |-> Page(s, f)[i].id],
                   ![w].done = Len(Page(s, f)) < f.limit]
  BY <1>3 DEF TakePage
<1> DEFINE new == Extended(got, Page(s, f))
           short == Len(Page(s, f)) < f.limit
           x == [walk[w] EXCEPT !.got = new, !.done = short]
<1>5. f.status = walk[w].status /\ f.limit = walk[w].limit /\ f.offset = Len(got)
  BY DEF AskFor
<1>6. Keyed(rows) /\ Keyed(Table(n)) /\ Cardinality(rows) <= Cardinality(Ids)
  BY <1>2, <1>3, MatchingIsKeyed, KeyedIsFinite
<1> HIDE DEF f, n, got, rows
<1>7. /\ new \in Seq(Ids)
      /\ Len(new) <= Cardinality(rows) \/ Len(new) = Len(got)
  BY <1>2, <1>5, <1>6, PageExtends
<1>8. walk' = [walk EXCEPT ![w] = x]
  BY <1>4 DEF Extended, got
<1> HIDE DEF new
<1>9. /\ x \in Walks /\ x.start = walk[w].start /\ x.got = new
      /\ x.status = walk[w].status /\ x.limit = walk[w].limit
      /\ x.done = short /\ x.quiet = walk[w].quiet
  <2>1. short \in BOOLEAN  OBVIOUS
  <2> HIDE DEF short
  <2> QED BY <1>2, <1>7, <2>1 DEF Walks
<1> HIDE DEF x, short
<1>10. walk'[w] = x /\ call'[w] = Listing!NoCall
  BY <1>1, <1>8 DEF Inv, WalksOK
<1>11. \A m : Table(m)' = Table(m)  BY <1>1 DEF Table
<1>12. Now' = Now /\ settled'[Team] = settled[Team]  BY <1>1 DEF Now
<1>13. call'[w].stage # "answered"  BY <1>10 DEF Listing!NoCall
<1>14. Len(new) <= Cardinality(Ids)
  <2>1. Len(new) \in Nat /\ Len(got) \in Nat /\ Len(got) <= Cardinality(Ids)
    BY <1>2, <1>7, LenProperties DEF WalkOK, got
  <2>2. Cardinality(rows) \in Nat /\ Cardinality(Ids) \in Nat
    BY <1>6, KeyedIsFinite, IdAssumption, FS_CardinalityType
  <2> QED BY <1>6, <1>7, <2>1, <2>2
<1>15. NothingPassed(w)'
  <2> DEFINE start == Table(walk[w].start)
  <2>1. SUFFICES ASSUME walk[w].quiet, walk[w].status = Unset
        PROVE  /\ AtOrBehind(start, Table(Now), new)
               /\ short => IdsOf(start) \subseteq ToSet(new)
    BY <1>9, <1>10, <1>11, <1>12, <1>13 DEF NothingPassed
  <2>2. rows = Table(n)  BY <1>5, <2>1 DEF Matching, rows
  <2>3. AtOrBehind(start, rows, got)
    BY <1>1, <1>2, <2>1, <2>2 DEF WalkOK, NothingPassed, n, got
  <2> HIDE DEF start
  <2>4. AtOrBehind(start, rows, new) /\ (short => IdsOf(start) \subseteq ToSet(new))
    BY <1>2, <1>5, <1>6, <2>3, PageKeepsBehind DEF new, short
  <2>5. AtOrBehind(start, Table(Now), new)
    BY <1>2, <1>3, <1>6, <1>7, <2>2, <2>4, ChangeKeepsBehind
  <2> QED BY <2>4, <2>5
<1>16. Ordered(w)'
  <2>1. SUFFICES ASSUME walk[w].start = Now
        PROVE  LET all == Matching(Table(Now), walk[w].status)
               IN InOrder(all, new) /\ (short => Len(new) = Cardinality(all))
    BY <1>9, <1>10, <1>11, <1>12 DEF Ordered
  <2>2. n = Now  BY <1>2, <1>3, <2>1
  <2>3. rows = Matching(Table(Now), walk[w].status)  BY <1>5, <2>2 DEF rows
  <2>4. InOrder(rows, got)  BY <1>2, <2>1, <2>3 DEF WalkOK, Ordered, got
  <2>5. InOrder(rows, new) /\ (short => Len(new) = Cardinality(rows))
    BY <1>2, <1>5, <1>6, <2>4, PageKeepsOrder DEF new, short
  <2> QED BY <2>3, <2>5
<1>17. WalkOK(w)'
  <2>1. CallOK(w)'  BY <1>10 DEF CallOK
  <2> QED BY <1>2, <1>9, <1>10, <1>12, <1>14, <1>15, <1>16, <2>1 DEF WalkOK
<1> QED BY <1>1, <1>8, <1>17, OneWalkSteps

LEMMA StutterStep == Inv /\ UNCHANGED vars => Inv'
BY DEF vars, Inv, TablesOK, WalksOK, CallOK, AskFor, NothingPassed, Ordered, Now, Table

LEMMA InvHolds == Spec => []Inv
<1>1. Inv /\ [Next]_vars => Inv'
  BY CreateStep, UpdateStep, SettleStep, AskStep, AnswerStep, TakeStep,
     StutterStep DEF Next
<1> QED BY <1>1, InitInv, PTL DEF Spec
-----------------------------------------------------------------------------
(* What follows from the invariant. *)

LEMMA InvImpliesTypeOK == Inv => TypeOK
<1> SUFFICES ASSUME Inv PROVE TypeOK  OBVIOUS
<1>1. rev[Team] \in 0 .. MaxRev /\ settled[Team] \in 0 .. rev[Team]
  BY BoundAssumption DEF Inv, TablesOK, Now
<1>2. ASSUME NEW n \in 0 .. rev[Team]
      PROVE  /\ Table(n) \subseteq Rows
             /\ Cardinality(Table(n)) = Cardinality(IdsOf(Table(n)))
  <2>1. Keyed(Table(n))  BY DEF Inv, TablesOK, Now
  <2> QED BY <2>1, KeyedIsFinite DEF Keyed
<1> QED BY <1>1, <1>2 DEF TypeOK, Inv, TablesOK, WalksOK, Now

LEMMA InvImpliesQuietWalkIsComplete == Inv => QuietWalkIsComplete
<1> SUFFICES ASSUME Inv, NEW w \in Walkers,
                    walk[w].done, walk[w].start = rev[Team]
             PROVE  LET all == Matching(Table(rev[Team]), walk[w].status)
                    IN /\ Len(walk[w].got) = Cardinality(all)
                       /\ ToSet(walk[w].got) = IdsOf(all)
                       /\ \A a, b \in all :
                            a.created > b.created =>
                              \E i, j \in DOMAIN walk[w].got :
                                i < j /\ walk[w].got[i] = a.id /\ walk[w].got[j] = b.id
  BY DEF QuietWalkIsComplete
<1> DEFINE all == Matching(Table(rev[Team]), walk[w].status)
<1>1. InOrder(all, walk[w].got) /\ Len(walk[w].got) = Cardinality(all)
  BY DEF Inv, Ordered, Now
<1>2. Keyed(all) /\ walk[w].got \in Seq(Ids)
  BY MatchingIsKeyed, NewestTable, WalkFacts DEF Inv, Now
<1> HIDE DEF all
<1>3. /\ ToSet(walk[w].got) = IdsOf(all)
      /\ \A a, b \in all : a.created > b.created =>
           \E i, j \in DOMAIN walk[w].got :
             i < j /\ walk[w].got[i] = a.id /\ walk[w].got[j] = b.id
  BY <1>1, <1>2, OrderIsComplete
<1> QED BY <1>1, <1>3 DEF all

LEMMA InvImpliesNothingHidden == Inv => NothingHidden
BY DEF Inv, NothingPassed, NothingHidden

\* Every revision is a table of tasks with unique keys, and every walk is
\* well formed.
THEOREM TypeCorrect == Spec => []TypeOK
BY InvHolds, InvImpliesTypeOK, PTL

\* However many clients walk, a walk that no change disturbed shows every
\* task that matches exactly once, in the order of List's query.
THEOREM QuietWalksAreComplete == Spec => []QuietWalkIsComplete
BY InvHolds, InvImpliesQuietWalkIsComplete, PTL

\* Whatever is created and updated between its pages, a walk through all
\* statuses misses no task that was there when it began.
THEOREM NothingIsHidden == Spec => []NothingHidden
BY InvHolds, InvImpliesNothingHidden, PTL
-----------------------------------------------------------------------------
(* The requests of the walks are among those TaskListing serves: what it   *)
(* promises, and TaskCache keeps, is all that a walk relies on.            *)

LEMMA ListingStep == Inv /\ [Next]_vars => [Listing!Next]_(Listing!vars)
<1> SUFFICES ASSUME Inv, [Next]_vars PROVE [Listing!Next]_(Listing!vars)  OBVIOUS
<1>1. CASE Create \/ Update
  BY <1>1 DEF Create, Update, Listing!Next
<1>2. CASE Settle
  BY <1>2 DEF Settle, Listing!Next
<1>3. ASSUME NEW w \in Walkers, AskPage(w)
      PROVE  Listing!Next
  <2>1. AskFor(w) \in Filters  BY WalkFacts DEF Inv
  <2>2. call[w].stage = "none"  BY <1>3 DEF AskPage, Listing!NoCall
  <2>3. Listing!Ask(w)  BY <1>3, <2>1, <2>2 DEF AskPage, Listing!Ask
  <2> QED BY <2>3 DEF Listing!Next
<1>4. ASSUME NEW w \in Walkers, AnswerPage(w)
      PROVE  Listing!Next
  BY <1>4 DEF AnswerPage, Listing!Next
<1>5. ASSUME NEW w \in Walkers, TakePage(w)
      PROVE  Listing!Next
  BY <1>5 DEF TakePage, Listing!Next
<1>6. CASE UNCHANGED vars
  BY <1>6 DEF vars, Listing!vars
<1> QED BY <1>1, <1>2, <1>3, <1>4, <1>5, <1>6 DEF Next

\* A client that walks is a client of TaskListing.
THEOREM WalksAreListings == Spec => Listing!Spec
<1>1. Init => Listing!Init  BY DEF Init
<1> QED BY <1>1, ListingStep, InvHolds, PTL DEF Spec, Listing!Spec
=============================================================================
