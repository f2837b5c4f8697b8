-------------------------- MODULE TimelineSyncProofs --------------------------
(***************************************************************************)
(* Proofs about TimelineSync, for every page size, every bound, and every  *)
(* order of commits, rewinds, reloads, answers, timeouts and lost          *)
(* connections: the reader of a timeline only moves on, the state has its  *)
(* shape, no message the reader has passed is missing from the view, and   *)
(* none is there twice or out of its order.                                *)
(***************************************************************************)
EXTENDS TimelineSync, FiniteSetTheorems, FunctionTheorems, WellFoundedInduction, TLAPS

-----------------------------------------------------------------------------
(* Sets of numbers *)

\* A set of numbers that is not empty has a least element.
LEMMA Least ==
    ASSUME NEW T \in SUBSET Nat, T # {}
    PROVE  \E x \in T : \A y \in T : x <= y
<1>1. PICK x \in T : \A y \in T : <<y, x>> \notin OpToRel(<, Nat)
  BY NatLessThanWellFounded, WFMin
<1>2. \A y \in T : ~(y < x)
  BY <1>1 DEF OpToRel
<1>3. QED
  BY <1>2

\* Min is that element.
LEMMA MinLeast ==
    ASSUME NEW T \in SUBSET Nat, T # {}
    PROVE  Min(T) \in T /\ \A y \in T : Min(T) <= y
BY Least DEF Min

\* The lesser of two.
LEMMA MinPair ==
    ASSUME NEW a \in Nat, NEW b \in Nat
    PROVE  Min({a, b}) \in Nat /\ Min({a, b}) <= a /\ Min({a, b}) <= b
<1>1. {a, b} \in SUBSET Nat /\ {a, b} # {}
  OBVIOUS
<1>2. QED
  BY <1>1, MinLeast

\* A bounded set of numbers that is not empty has a greatest element.
LEMMA Greatest ==
    ASSUME NEW n \in Nat, NEW T \in SUBSET (0..n), T # {}
    PROVE  \E x \in T : \A y \in T : y <= x
<1> DEFINE U == {n - x : x \in T}
<1>1. \A x \in T : n - x \in Nat
  OBVIOUS
<1>2. U \subseteq Nat
  BY <1>1
<1>3. U # {}
  OBVIOUS
<1>4. PICK u \in U : \A v \in U : u <= v
  BY <1>2, <1>3, Least
<1>5. PICK x \in T : u = n - x
  BY <1>4
<1>6. \A y \in T : n - x <= n - y
  BY <1>4, <1>5
<1>7. QED
  BY <1>6

-----------------------------------------------------------------------------
(* The invariant.  The connection keeps the order of what is sent, so the     *)
(* epochs of the messages under way never decrease, and a page that replaces  *)
(* the display was made after every row and page before it was sent: it ends  *)
(* no earlier than where they take the cursor.                                *)

Positive == Nat \ {0}
Places == Positive \X Nat
Cursors == [epoch: Positive, start: Nat, end: Positive]
Requests == [why: {"init", "catchup", "older", "redo", "resume"},
             dir: {"tail", "after", "before"}, at: Places \cup {None}, late: BOOLEAN]

\* A request asks for the rows after, or before, a place only if it names one.
RequestOK(r) == r \in Requests /\ (r.dir # "tail" => r.at \in Places)

\* A page that answers a request for the tail, or one from an earlier epoch.
IsTail(p) == p.reset \/ p.to.dir = "tail"
TailPaged(m) == m.type = "page" /\ IsTail(m)

\* What may move the cursor on, and where to.
Forward(m) == m.type = "row" \/ (m.type = "page" /\ (IsTail(m) \/ m.to.dir = "after"))
Place(m) == IF m.type = "row" THEN m.row ELSE <<m.epoch, m.end>>

Pages(entries) ==
    [type: {"page"}, to: Requests, reset: BOOLEAN, epoch: Positive, entries: {entries},
     start: Nat, end: Nat, hasOlder: BOOLEAN, hasNewer: BOOLEAN]

\* A page with entries ends with a row; the tail has none only if there is none.
PageOK(p) ==
    /\ p \in Pages(p.entries) /\ RequestOK(p.to)
    /\ p.entries # <<>> => p.end > 0
    /\ IsTail(p) => (p.start = 0 <=> p.end = 0)

MessageOK(m) ==
    \/ m.type = "row" /\ m.row \in Positive \X Positive
    \/ m.type \in {"end", "redone"}
    \/ m.type = "page" /\ PageOK(m)

Shapes ==
    /\ epoch \in Positive /\ log \in Seq(Kinds) /\ unread \in Seq(Kinds)
    /\ cursor \in Cursors \cup {None}
    /\ \A r \in requests : RequestOK(r)

SentShapes ==
    /\ \E S : toApp \in Seq(S)
    /\ \A i \in 1..Len(toApp) : MessageOK(toApp[i])

\* Whatever the cursor is at, or is told of, is in the log, as long as the log
\* is in that epoch.
InLog(p) == p[1] <= epoch /\ (p[1] = epoch => p[2] <= Len(log))
CursorInLog == cursor # None => InLog(End)
SentInLog == \A i \in 1..Len(toApp) : Forward(toApp[i]) => InLog(Place(toApp[i]))

AtMost(p, q) == p[1] < q[1] \/ (p[1] = q[1] /\ p[2] <= q[2])
Precedes(p, m) == p[1] <= Place(m)[1] /\ (TailPaged(m) => AtMost(p, Place(m)))

SentInOrder ==
    \A i, j \in 1..Len(toApp) : i < j /\ Forward(toApp[i]) /\ Forward(toApp[j]) =>
        Precedes(Place(toApp[i]), toApp[j])

CursorBehind ==
    cursor # None =>
        \A i \in 1..Len(toApp) : Forward(toApp[i]) => Precedes(End, toApp[i])

SyncInv == /\ Shapes /\ SentShapes /\ CursorInLog /\ SentInLog
           /\ SentInOrder /\ CursorBehind

-----------------------------------------------------------------------------
(* Pages *)

\* The entries of the rows lo..hi, one of them ending in row hi.
LEMMA LastProjected ==
    ASSUME NEW lo \in Nat, NEW hi \in Nat, lo <= hi
    PROVE  /\ Projected(lo, hi) \subseteq (lo..hi) \X (lo..hi)
           /\ \E s \in Projected(lo, hi) : \A t \in Projected(lo, hi) : t[1] <= s[1]
<1> DEFINE First(i) == i = lo \/ ~Joins(i)
           T == {i \in lo..hi : First(i)}
<1>1. T \in SUBSET (0..hi) /\ T # {}
  OBVIOUS
<1>2. PICK i \in T : \A k \in T : k <= i
  BY <1>1, Greatest
<1>3. \A k \in i + 1..hi : Joins(k)
  BY <1>2
<1>4. <<i, hi>> \in Projected(lo, hi)
  BY <1>2, <1>3 DEF Projected
<1>5. \A t \in Projected(lo, hi) : t[1] \in T
  BY DEF Projected
<1>6. QED
  BY <1>2, <1>4, <1>5 DEF Projected

\* The greater of two.
LEMMA MaxPair ==
    ASSUME NEW a \in Int, NEW b \in Int
    PROVE  Max({a, b}) \in {a, b} /\ Max({a, b}) >= a /\ Max({a, b}) >= b
BY DEF Max

\* A page without entries is the empty sequence.
LEMMA NoEntries == Entries({}) = <<>>
<1>1. Cardinality({}) = 0
  BY FS_EmptySet
<1>2. QED
  BY <1>1 DEF Entries

\* A page the daemon makes now, in answer to r.
PageFor(p, r) ==
    /\ p \in Pages(p.entries) /\ p.type = "page" /\ p.to = r /\ p.epoch = epoch
    /\ p.entries # <<>> => p.end > 0

\* The tail ends with the newest row, and is empty only when the log is.
LEMMA TailPageShape ==
    ASSUME Shapes, NEW r \in Requests, NEW reset \in BOOLEAN
    PROVE  /\ PageFor(TailPage(r, reset), r) /\ TailPage(r, reset).end = Len(log)
           /\ TailPage(r, reset).start = 0 <=> Len(log) = 0
<1> PICK p : p = TailPage(r, reset)
  OBVIOUS
<1> SUFFICES PageFor(p, r) /\ p.end = Len(log) /\ (p.start = 0 <=> p.end = 0)
  OBVIOUS
<1> DEFINE lo == IF ~reset /\ UseFull(TailFrom, Len(log)) THEN 1 ELSE TailFrom
           all == Projected(lo, Len(log))
           last == {s \in all : Cardinality({t \in all : t[1] > s[1]}) < PageSize}
           starts == {s[1] : s \in last}
<1>1. /\ Len(log) \in Nat /\ (log = <<>> <=> Len(log) = 0) /\ epoch \in Positive
  BY DEF Shapes
<1>2. CASE log = <<>>
  <2>1. p = Page(r, reset, {}, 0, 0, FALSE, FALSE)
    BY <1>2 DEF TailPage, EmptyPage
  <2>2. QED
    BY <1>1, <1>2, <2>1, NoEntries DEF Page, Pages, PageFor
<1>3. CASE log # <<>>
  <2>1. TailFrom \in 1..Len(log) /\ lo \in 1..Len(log)
    BY <1>1, <1>3, PageAssumption DEF TailFrom
  <2> HIDE DEF lo
  <2>2. lo \in Nat /\ Len(log) \in Nat /\ lo <= Len(log)
    BY <1>1, <2>1
  <2>3. /\ all \subseteq (lo..Len(log)) \X (lo..Len(log))
        /\ \E s \in all : \A t \in all : t[1] <= s[1]
    BY <2>2, LastProjected, Zenon
  <2>4. PICK s \in all : \A t \in all : t[1] <= s[1]
    BY <2>3
  <2>5. \A t \in all : t[1] \in Nat /\ t[1] >= 1
    <3>1. \A t \in (lo..Len(log)) \X (lo..Len(log)) : t[1] \in Nat /\ t[1] >= 1
      BY <2>1, <2>2
    <3>2. QED
      BY <2>3, <3>1, Zenon
  <2>6. {t \in all : t[1] > s[1]} = {}
    BY <2>4, <2>5
  <2>7. Cardinality({t \in all : t[1] > s[1]}) < PageSize
    <3>1. Cardinality({}) < PageSize
      BY FS_EmptySet, PageAssumption
    <3>2. QED
      BY <2>6, <3>1, Zenon
  <2>8. s \in last
    BY <2>4, <2>7
  <2>9. starts \in SUBSET Nat /\ starts # {} /\ \A n \in starts : n >= 1
    BY <2>5, <2>8
  <2>10. Min(starts) \in Nat /\ Min(starts) >= 1
    BY <2>9, MinLeast
  <2>11. p = Page(r, reset, last, Min(starts), Len(log), Min(starts) > 1, FALSE)
    BY <1>3 DEF TailPage, lo
  <2>12. QED
    <3>1. PICK spans : p = Page(r, reset, spans, Min(starts), Len(log), Min(starts) > 1, FALSE)
      BY <2>11
    <3> HIDE DEF starts
    <3>2. QED
      BY <1>1, <1>3, <2>10, <3>1 DEF Page, Pages, PageFor
<1>4. QED
  BY <1>2, <1>3

\* A page of rows ends with the last of them.
LEMMA RangePageShape ==
    ASSUME Shapes, NEW r \in Requests, NEW lo \in Positive, NEW hi \in Int
    PROVE  /\ PageFor(RangePage(r, lo, hi), r) /\ ~RangePage(r, lo, hi).reset
           /\ RangePage(r, lo, hi).end \in {hi, 0}
<1> PICK p : p = RangePage(r, lo, hi)
  OBVIOUS
<1> SUFFICES PageFor(p, r) /\ ~p.reset /\ p.end \in {hi, 0}
  OBVIOUS
<1> DEFINE all == IF UseFull(lo, hi) THEN Projected(1, Len(log)) ELSE Projected(lo, hi)
           of == {s \in all : s[1] <= hi /\ s[2] >= lo}
<1>1. epoch \in Positive /\ Len(log) \in Nat
  BY DEF Shapes
<1>2. CASE lo > hi
  <2>1. p = Page(r, FALSE, {}, 0, 0, FALSE, FALSE)
    BY <1>2 DEF RangePage, EmptyPage
  <2>2. QED
    BY <1>1, <2>1, NoEntries DEF Page, Pages, PageFor
<1>3. CASE ~(lo > hi)
  <2>1. p = Page(r, FALSE, of, lo, hi, lo > 1, hi < Len(log))
    BY <1>3, Zenon DEF RangePage
  <2>2. PICK spans : p = Page(r, FALSE, spans, lo, hi, lo > 1, hi < Len(log))
    BY <2>1
  <2>3. lo \in Nat /\ hi \in Nat /\ hi > 0
    BY <1>3 DEF Positive
  <2>4. QED
    BY <1>1, <2>2, <2>3 DEF Page, Pages, PageFor
<1>4. QED
  BY <1>2, <1>3

\* What the daemon answers is a page of its epoch; it ends where the log ends,
\* or before.
LEMMA AnswerShape ==
    ASSUME Shapes, NEW r, RequestOK(r), NEW p, p = Answer(r)
    PROVE  /\ MessageOK(p) /\ p.type = "page" /\ p.epoch = epoch
           /\ Forward(p) => p.end <= Len(log)
           /\ TailPaged(p) => p.end = Len(log)
<1>1. /\ r \in Requests /\ (r.dir # "tail" => r.at \in Places)
      /\ Len(log) \in Nat /\ PageSize \in Nat \ {0}
  BY PageAssumption DEF RequestOK, Shapes
<1>2. ASSUME PageFor(p, r), IsTail(p) => (p.start = 0 <=> p.end = 0)
      PROVE  MessageOK(p) /\ p.type = "page" /\ p.epoch = epoch
  BY <1>2, Zenon DEF PageFor, MessageOK, PageOK
<1>3. ASSUME p = TailPage(r, TRUE) \/ p = TailPage(r, FALSE)
      PROVE  MessageOK(p) /\ p.type = "page" /\ p.epoch = epoch /\ p.end = Len(log)
  BY <1>1, <1>2, <1>3, TailPageShape
<1>4. CASE r.at # None /\ r.at[1] # epoch
  <2>1. p = TailPage(r, TRUE)
    BY <1>4 DEF Answer
  <2>2. MessageOK(p) /\ p.type = "page" /\ p.epoch = epoch /\ p.end = Len(log)
    BY <1>3, <2>1, Zenon
  <2>3. QED
    BY <1>1, <2>2
<1>5. CASE ~(r.at # None /\ r.at[1] # epoch) /\ r.dir = "tail"
  <2>1. p = TailPage(r, FALSE)
    BY <1>5 DEF Answer
  <2>2. MessageOK(p) /\ p.type = "page" /\ p.epoch = epoch /\ p.end = Len(log)
    BY <1>3, <2>1, Zenon
  <2>3. QED
    BY <1>1, <2>2
<1>6. CASE ~(r.at # None /\ r.at[1] # epoch) /\ r.dir = "after"
  <2> DEFINE hi == Min({Len(log), r.at[2] + PageSize})
  <2>1. r.at[2] \in Nat /\ r.at[2] + PageSize \in Nat
    BY <1>1, <1>6 DEF Places
  <2>2. p = RangePage(r, r.at[2] + 1, hi)
    BY <1>6 DEF Answer
  <2>3. hi \in Nat /\ hi \in Int /\ hi <= Len(log)
    BY <1>1, <2>1, MinPair
  <2> HIDE DEF hi
  <2>4. r.at[2] + 1 \in Positive
    BY <2>1 DEF Positive
  <2>5. PageFor(p, r) /\ ~p.reset /\ p.end \in {hi, 0}
    BY <1>1, <2>2, <2>3, <2>4, RangePageShape
  <2>6. ~IsTail(p)
    BY <1>6, <2>5 DEF IsTail, PageFor
  <2>7. p.end <= Len(log)
    BY <1>1, <2>3, <2>5
  <2>8. QED
    BY <1>2, <2>5, <2>6, <2>7 DEF TailPaged
<1>7. CASE ~(r.at # None /\ r.at[1] # epoch) /\ r.dir = "before"
  <2> DEFINE lo == Max({1, r.at[2] - PageSize})
  <2>1. r.at[2] \in Nat /\ r.at[2] - 1 \in Int /\ r.at[2] - PageSize \in Int
    BY <1>1, <1>7 DEF Places
  <2>2. p = RangePage(r, lo, r.at[2] - 1)
    BY <1>7 DEF Answer
  <2>3. lo \in Positive
    <3>1. PICK d \in Int : d = r.at[2] - PageSize
      BY <2>1
    <3>2. Max({1, d}) \in {1, d} /\ Max({1, d}) >= 1
      BY MaxPair
    <3>3. QED
      BY <3>1, <3>2 DEF Positive
  <2> HIDE DEF lo
  <2>4. PageFor(p, r) /\ ~p.reset
    BY <1>1, <2>1, <2>2, <2>3, RangePageShape
  <2>5. ~IsTail(p) /\ ~Forward(p)
    BY <1>7, <2>4 DEF IsTail, Forward, PageFor
  <2>6. QED
    BY <1>2, <2>4, <2>5 DEF TailPaged
<1>8. QED
  BY <1>1, <1>4, <1>5, <1>6, <1>7 DEF Requests

-----------------------------------------------------------------------------
(* What is under way *)

\* A message that moves the cursor names its place.
LEMMA Placed ==
    ASSUME NEW m, MessageOK(m), Forward(m)
    PROVE  Place(m) \in Positive \X Nat
<1>1. CASE m.type = "row"
  BY <1>1 DEF MessageOK, Place, Positive
<1>2. CASE m.type # "row"
  <2>1. m.type = "page" /\ m \in Pages(m.entries)
    BY <1>2 DEF MessageOK, Forward, PageOK
  <2>2. m.epoch \in Positive /\ m.end \in Nat
    BY <2>1 DEF Pages
  <2>3. QED
    BY <1>2, <2>2 DEF Place
<1>3. QED
  BY <1>1, <1>2

\* So does the cursor.
LEMMA EndPlace ==
    ASSUME Shapes, cursor # None
    PROVE  /\ cursor \in Cursors /\ End \in Positive \X Positive
           /\ End[1] = cursor.epoch /\ End[2] = cursor.end
BY DEF Shapes, Cursors, End

\* A message the daemon sends now.
Fresh(m) ==
    /\ MessageOK(m)
    /\ Forward(m) => Place(m)[1] = epoch /\ Place(m)[2] <= Len(log)
    /\ TailPaged(m) => Place(m)[2] = Len(log)

\* The log only grows, or begins anew in a later epoch.
GoesOn == epoch' >= epoch /\ (epoch' = epoch => Len(log') >= Len(log))

\* What was in the log still is.
LEMMA StaysInLog ==
    ASSUME Shapes, Shapes', GoesOn, NEW p \in Positive \X Nat, InLog(p)
    PROVE  InLog(p)'
BY DEF Shapes, GoesOn, InLog, Positive

\* What is in the log comes before a message sent now.
LEMMA FreshFollows ==
    ASSUME Shapes, NEW p \in Positive \X Nat, InLog(p), NEW m, Fresh(m), Forward(m)
    PROVE  Precedes(p, m)
<1>1. Place(m) \in Positive \X Nat
  BY Placed DEF Fresh
<1>2. Place(m)[1] = epoch /\ (TailPaged(m) => Place(m)[2] = Len(log))
  BY DEF Fresh
<1>3. QED
  BY <1>1, <1>2 DEF Precedes, AtMost, InLog, Positive, Shapes

\* Messages sent now come after those under way.
LEMMA MoreSent ==
    ASSUME SyncInv, Shapes', GoesOn, UNCHANGED cursor, \E S : toApp' \in Seq(S),
           \A i \in 1..Len(toApp') :
               \/ i \in 1..Len(toApp) /\ toApp'[i] = toApp[i]
               \/ i > Len(toApp) /\ Fresh(toApp[i])'
    PROVE  SyncInv'
<1> DEFINE Old(i) == i \in 1..Len(toApp) /\ toApp'[i] = toApp[i]
           New(i) == i > Len(toApp) /\ Fresh(toApp[i])'
<1>1. \A i \in 1..Len(toApp') : Old(i) \/ New(i)
  OBVIOUS
<1>2. Shapes /\ SentShapes /\ Len(toApp) \in Nat /\ Len(toApp') \in Nat
  BY DEF SyncInv, SentShapes
<1>3. SentShapes'
  BY <1>1, <1>2 DEF SentShapes, Fresh
<1>4. \A i \in 1..Len(toApp') : Forward(toApp'[i]) => Place(toApp'[i]) \in Positive \X Nat
  BY <1>3, Placed DEF SentShapes
<1>5. \A i \in 1..Len(toApp') : Forward(toApp'[i]) => InLog(Place(toApp[i]))'
  <2> SUFFICES ASSUME NEW i \in 1..Len(toApp'), Forward(toApp'[i])
               PROVE  InLog(Place(toApp[i]))'
    OBVIOUS
  <2>1. CASE Old(i)
    <3> PICK m : m = toApp[i]
      OBVIOUS
    <3>1. InLog(Place(m)) /\ Place(m) \in Positive \X Nat
      BY <2>1, <1>4 DEF SyncInv, SentInLog
    <3>2. PICK p \in Positive \X Nat : p = Place(m)
      BY <3>1
    <3>3. InLog(p)'
      BY <1>2, <3>1, <3>2, StaysInLog
    <3>4. Place(toApp[i])' = p
      BY <2>1, <3>2
    <3>5. QED
      BY <3>3, <3>4 DEF InLog
  <2>2. CASE New(i)
    BY <2>2 DEF Fresh, InLog, Shapes, Positive
  <2>3. QED
    BY <1>1, <2>1, <2>2
<1>6. SentInLog'
  BY <1>5 DEF SentInLog
<1>7. CursorInLog'
  <2> SUFFICES ASSUME cursor' # None
               PROVE  InLog(End)'
    BY DEF CursorInLog
  <2>1. End \in Positive \X Nat /\ InLog(End) /\ End' = End
    BY <1>2, EndPlace DEF SyncInv, CursorInLog, Positive, End
  <2>2. PICK p \in Positive \X Nat : p = End
    BY <2>1
  <2>3. InLog(p)'
    BY <1>2, <2>1, <2>2, StaysInLog
  <2>4. QED
    BY <2>1, <2>2, <2>3 DEF InLog
\* A place in the log comes before each message that is new.
<1>8. ASSUME NEW p \in Positive \X Nat, InLog(p)', NEW j \in 1..Len(toApp'), New(j),
             Forward(toApp'[j])
      PROVE  Precedes(p, toApp'[j])
  <2>1. PICK m : m = toApp'[j]
    OBVIOUS
  <2>2. Fresh(m)'
    BY <1>8, <2>1 DEF Fresh
  <2>3. Place(m) \in Positive \X Nat /\ Place(m)[1] = epoch'
        /\ (TailPaged(m) => Place(m)[2] = Len(log'))
    BY <1>4, <1>8, <2>1, <2>2 DEF Fresh
  <2>4. QED
    BY <1>8, <2>1, <2>3 DEF Precedes, AtMost, InLog, Positive, Shapes
<1>9. SentInOrder'
  <2> SUFFICES ASSUME NEW i \in 1..Len(toApp'), NEW j \in 1..Len(toApp'), i < j,
                      Forward(toApp'[i]), Forward(toApp'[j])
               PROVE  Precedes(Place(toApp'[i]), toApp'[j])
    BY DEF SentInOrder
  <2>1. CASE Old(j)
    <3>1. Old(i)
      BY <1>1, <1>2, <2>1
    <3>2. QED
      BY <2>1, <3>1 DEF SyncInv, SentInOrder
  <2>2. CASE New(j)
    <3>1. PICK p \in Positive \X Nat : p = Place(toApp'[i])
      BY <1>4
    <3>2. InLog(p)'
      BY <1>5, <3>1 DEF InLog
    <3>3. QED
      BY <1>8, <2>2, <3>1, <3>2
  <2>3. QED
    BY <1>1, <2>1, <2>2
<1>10. CursorBehind'
  <2> SUFFICES ASSUME cursor' # None, NEW i \in 1..Len(toApp'), Forward(toApp'[i])
               PROVE  Precedes(End', toApp'[i])
    BY DEF CursorBehind
  <2>1. End' = End /\ cursor # None
    BY DEF End
  <2>2. CASE Old(i)
    BY <2>1, <2>2 DEF SyncInv, CursorBehind
  <2>3. CASE New(i)
    <3>1. PICK p \in Positive \X Nat : p = End'
      BY <1>2, <2>1, EndPlace DEF Positive
    <3>2. InLog(p)'
      BY <1>7, <3>1 DEF CursorInLog, InLog
    <3>3. QED
      BY <1>8, <2>3, <3>1, <3>2
  <2>4. QED
    BY <1>1, <2>2, <2>3
<1>11. QED
  BY <1>3, <1>6, <1>7, <1>9, <1>10 DEF SyncInv

\* Nothing is sent.
LEMMA NoneSent ==
    ASSUME SyncInv, Shapes', GoesOn, UNCHANGED <<cursor, toApp>>
    PROVE  SyncInv'
<1>1. \E S : toApp' \in Seq(S)
  BY DEF SyncInv, SentShapes
<1>2. \A i \in 1..Len(toApp') : i \in 1..Len(toApp) /\ toApp'[i] = toApp[i]
  OBVIOUS
<1>3. QED
  BY <1>1, <1>2, MoreSent

\* The daemon sends messages.
LEMMA TheseSent ==
    ASSUME SyncInv, Shapes', GoesOn, UNCHANGED cursor, NEW T, NEW ms \in Seq(T),
           \A i \in 1..Len(ms) : Fresh(ms[i])', toApp' = toApp \/ toApp' = toApp \o ms
    PROVE  SyncInv'
<1>1. PICK S : toApp \in Seq(S)
  BY DEF SyncInv, SentShapes
<1>2. CASE toApp' = toApp
  BY <1>2, NoneSent
<1>3. CASE toApp' = toApp \o ms
  <2>1. Len(toApp') = Len(toApp) + Len(ms) /\ Len(toApp) \in Nat /\ Len(ms) \in Nat
    BY <1>1, <1>3
  <2>2. \E R : toApp' \in Seq(R)
    <3>1. toApp \in Seq(S \cup T) /\ ms \in Seq(S \cup T)
      BY <1>1
    <3>2. toApp' \in Seq(S \cup T)
      BY <3>1, <1>3
    <3>3. QED
      BY <3>2
  <2>3. ASSUME NEW i \in 1..Len(toApp')
        PROVE  \/ i \in 1..Len(toApp) /\ toApp'[i] = toApp[i]
               \/ i > Len(toApp) /\ Fresh(toApp[i])'
    <3>1. CASE i <= Len(toApp)
      BY <1>1, <1>3, <2>1, <3>1
    <3>2. CASE i > Len(toApp)
      <4>1. toApp'[i] = ms[i - Len(toApp)] /\ i - Len(toApp) \in 1..Len(ms)
        BY <1>1, <1>3, <2>1, <3>2
      <4>2. QED
        BY <3>2, <4>1 DEF Fresh
    <3>3. QED
      BY <2>1, <3>1, <3>2
  <2>4. QED
    BY <2>2, <2>3, MoreSent
<1>4. QED
  BY <1>2, <1>3

-----------------------------------------------------------------------------
(* The steps of the daemon *)

FreshAll(ms) == (\E T : ms \in Seq(T)) /\ \A i \in 1..Len(ms) : Fresh(ms[i])

\* A step of the reader that does nothing, and what it looks at.
ReaderStays == UNCHANGED <<epoch, log, cursor>>

LEMMA Stutters ==
    ASSUME ReaderStays
    PROVE  [Reader!Next]_Reader!vars
BY DEF ReaderStays, Reader!vars

\* Rows made one after the other.
LEMMA RowEventsFresh ==
    ASSUME Shapes', NEW rows, NEW first \in Positive, first <= Len(log') + 1
    PROVE  FreshAll(RowEvents(epoch, rows, first, Len(log)))'
<1> PICK ms : ms = RowEvents(epoch', rows, first, Len(log'))
  OBVIOUS
<1> DEFINE n == Len(log') + 1 - first
           R(i) == [type |-> "row", row |-> <<epoch', first + i - 1>>, kind |-> rows[first + i - 1]]
<1>1. Len(log') \in Nat /\ n \in Nat /\ epoch' \in Positive /\ first \in Nat /\ first > 0
  BY DEF Shapes, Positive
<1>2. ms = [i \in 1..n |-> R(i)]
  BY DEF RowEvents
<1>3. (\E T : ms \in Seq(T)) /\ Len(ms) = n
  <2> DEFINE T == {R(i) : i \in 1..n}
  <2>1. \A i \in 1..n : R(i) \in T
    OBVIOUS
  <2> HIDE DEF R, T
  <2>2. ms \in [1..n -> T]
    BY <1>2, <2>1
  <2>3. ms \in Seq(T) /\ Len(ms) = n
    BY <1>1, <2>2
  <2>4. QED
    BY <2>3
<1>4. ASSUME NEW i \in 1..Len(ms)
      PROVE  Fresh(ms[i])'
  <2>1. PICK m : m = ms[i]
    OBVIOUS
  <2>2. /\ m.type = "row" /\ m.row = <<epoch', first + i - 1>>
        /\ first + i - 1 \in Positive /\ first + i - 1 <= Len(log')
    BY <1>1, <1>2, <1>3, <2>1 DEF Positive
  <2>3. MessageOK(m) /\ Place(m) = <<epoch', first + i - 1>> /\ ~TailPaged(m)
    BY <1>1, <2>2 DEF MessageOK, Place, TailPaged
  <2>4. QED
    BY <2>1, <2>2, <2>3 DEF Fresh
<1>5. FreshAll(ms)'
  BY <1>3, <1>4 DEF FreshAll
<1>6. QED
  BY <1>5 DEF FreshAll

\* The app learns of the end of a turn, and of a rewind or reload, without
\* being told of rows.
LEMMA WordFresh ==
    ASSUME NEW type \in {"end", "redone"}
    PROVE  FreshAll(<<[type |-> type]>>)' /\ FreshAll(<<>>)'
<1> PICK m : m = [type |-> type]
  OBVIOUS
<1>1. m.type \in {"end", "redone"}
  OBVIOUS
<1>2. MessageOK(m) /\ ~Forward(m) /\ ~TailPaged(m)
  BY <1>1 DEF MessageOK, Forward, TailPaged
<1>3. Fresh(m)'
  BY <1>2 DEF Fresh
<1>4. <<m>> \in Seq({m}) /\ \A i \in 1..Len(<<m>>) : <<m>>[i] = m
  OBVIOUS
<1>5. FreshAll(<<m>>)'
  <2>1. PICK ms : ms = <<m>>
    OBVIOUS
  <2>2. ms \in Seq({m}) /\ \A i \in 1..Len(ms) : ms[i] = m
    BY <1>4, <2>1
  <2>3. \A i \in 1..Len(ms) : Fresh(ms[i])'
    BY <1>3, <2>2 DEF Fresh
  <2>4. FreshAll(ms)'
    BY <2>2, <2>3 DEF FreshAll
  <2>5. QED
    BY <2>1, <2>4 DEF FreshAll
<1>6. FreshAll(<<>>)'
  BY DEF FreshAll
<1>7. QED
  BY <1>5, <1>6

LEMMA FreshConcat ==
    ASSUME NEW ms, NEW ns, FreshAll(ms)', FreshAll(ns)'
    PROVE  FreshAll(ms \o ns)'
<1>1. PICK S, T : ms \in Seq(S) /\ ns \in Seq(T)
  BY DEF FreshAll
<1>2. ms \in Seq(S \cup T) /\ ns \in Seq(S \cup T)
  BY <1>1
<1>3. ms \o ns \in Seq(S \cup T) /\ Len(ms \o ns) = Len(ms) + Len(ns)
      /\ Len(ms) \in Nat /\ Len(ns) \in Nat
  BY <1>2
<1>4. ASSUME NEW i \in 1..Len(ms \o ns)
      PROVE  Fresh((ms \o ns)[i])'
  <2>1. CASE i <= Len(ms)
    <3>1. (ms \o ns)[i] = ms[i] /\ i \in 1..Len(ms)
      BY <1>2, <1>3, <2>1
    <3>2. QED
      BY <3>1 DEF FreshAll
  <2>2. CASE i > Len(ms)
    <3>1. (ms \o ns)[i] = ns[i - Len(ms)] /\ i - Len(ms) \in 1..Len(ns)
      BY <1>2, <1>3, <2>2
    <3>2. QED
      BY <3>1 DEF FreshAll
  <2>3. QED
    BY <1>3, <2>1, <2>2
<1>5. QED
  BY <1>3, <1>4 DEF FreshAll

LEMMA DaemonSends ==
    ASSUME SyncInv, Shapes', GoesOn, UNCHANGED cursor, NEW ms, FreshAll(ms)', Send(ms)
    PROVE  SyncInv'
<1>1. PICK T : ms \in Seq(T)
  BY DEF FreshAll
<1>2. \A i \in 1..Len(ms) : Fresh(ms[i])'
  BY DEF FreshAll
<1>3. toApp' = toApp \/ toApp' = toApp \o ms
  BY DEF Send
<1>4. QED
  BY <1>1, <1>2, <1>3, TheseSent

\* The log of the abstract reader grows, in its epoch ...
LEMMA CommitOK ==
    ASSUME SyncInv, NEW kind \in Kinds, Commit(kind)
    PROVE  SyncInv' /\ Reader!Grow
<1>1. /\ log' = Append(log, kind) /\ Send(RowEvents(epoch, log', Len(log'), Len(log')))
      /\ UNCHANGED <<epoch, unread, requests, cursor>>
  BY DEF Commit, app
<1>2. Shapes /\ Len(log) \in Nat /\ log' \in Seq(Kinds) /\ Len(log') = Len(log) + 1
  BY <1>1 DEF SyncInv, Shapes
<1>3. Shapes' /\ GoesOn
  BY <1>1, <1>2 DEF Shapes, GoesOn, Positive
<1>4. PICK rows : rows = log'
  OBVIOUS
<1>5. PICK first \in Positive : first = Len(log')
  BY <1>2 DEF Positive
<1>6. PICK ms : ms = RowEvents(epoch', rows, first, Len(log'))
  OBVIOUS
<1>7. FreshAll(ms)' /\ Send(ms)
  <2>1. FreshAll(RowEvents(epoch, rows, first, Len(log)))'
    BY <1>3, <1>5, RowEventsFresh DEF Positive
  <2>2. Send(ms)
    BY <1>1, <1>4, <1>5, <1>6
  <2>3. QED
    BY <1>6, <2>1, <2>2 DEF FreshAll
<1>8. SyncInv'
  BY <1>1, <1>3, <1>7, DaemonSends
<1>9. Reader!Grow
  BY <1>1, <1>2 DEF Reader!Grow
<1>10. QED
  BY <1>8, <1>9

LEMMA HydrateOK ==
    ASSUME SyncInv, Hydrate
    PROVE  SyncInv' /\ Reader!Grow
<1>1. /\ unread # <<>> /\ log' = Append(log, Head(unread)) /\ unread' = Tail(unread)
      /\ UNCHANGED <<epoch, requests, cursor>>
  BY DEF Hydrate, app
<1>2. PICK ms : ms \in Answered /\ Send(ms)
  BY DEF Hydrate, Answered
<1>3. Shapes /\ Len(log) \in Nat /\ Head(unread) \in Kinds /\ unread' \in Seq(Kinds)
  BY <1>1 DEF SyncInv, Shapes
<1>4. log' \in Seq(Kinds) /\ Len(log') = Len(log) + 1
  BY <1>1, <1>3 DEF Shapes
<1>5. Shapes' /\ GoesOn
  BY <1>1, <1>3, <1>4 DEF Shapes, GoesOn, Positive
<1>6. FreshAll(ms)'
  <2>1. FreshAll(<<>>)' /\ FreshAll(<<[type |-> "redone"]>>)'
    BY WordFresh
  <2>2. CASE ms = <<>>
    BY <2>1, <2>2 DEF FreshAll
  <2>3. CASE ms = <<[type |-> "redone"]>>
    BY <2>1, <2>3 DEF FreshAll
  <2>4. QED
    BY <1>2, <2>2, <2>3 DEF Answered
<1>7. SyncInv'
  BY <1>1, <1>2, <1>5, <1>6, DaemonSends
<1>8. Reader!Grow
  BY <1>1, <1>3, <1>4 DEF Reader!Grow
<1>9. QED
  BY <1>7, <1>8

\* ... or begins anew in the next one.
LEMMA RewindOK ==
    ASSUME SyncInv, NEW n \in 0..Len(log), Rewind(n)
    PROVE  SyncInv' /\ Reader!Renew
<1>1. /\ epoch' = epoch + 1 /\ log' = SubSeq(log, 1, n)
      /\ UNCHANGED <<unread, requests, cursor>>
  BY DEF Rewind, app
<1>2. PICK answer \in Answered : Send(RowEvents(epoch', log', 1, n) \o answer)
  BY DEF Rewind
<1>3. Shapes /\ Len(log) \in Nat /\ log \in Seq(Kinds)
  BY DEF SyncInv, Shapes
<1>4. log' \in Seq(Kinds) /\ Len(log') = n /\ n \in Nat
  BY <1>1, <1>3
<1>5. Shapes' /\ GoesOn
  BY <1>1, <1>3, <1>4 DEF Shapes, GoesOn, Positive
<1>6. PICK rows : rows = log'
  OBVIOUS
<1>7. PICK ms : ms = RowEvents(epoch', rows, 1, n)
  OBVIOUS
<1>8. FreshAll(ms)'
  <2>1. FreshAll(RowEvents(epoch, rows, 1, Len(log)))'
    BY <1>4, <1>5, RowEventsFresh DEF Positive
  <2>2. QED
    BY <1>4, <1>7, <2>1 DEF FreshAll
<1>9. FreshAll(answer)'
  <2>1. FreshAll(<<>>)' /\ FreshAll(<<[type |-> "redone"]>>)'
    BY WordFresh
  <2>2. CASE answer = <<>>
    BY <2>1, <2>2 DEF FreshAll
  <2>3. CASE answer = <<[type |-> "redone"]>>
    BY <2>1, <2>3 DEF FreshAll
  <2>4. QED
    BY <2>2, <2>3 DEF Answered
<1>10. PICK all : all = ms \o answer
  OBVIOUS
<1>11. FreshAll(all)' /\ Send(all)
  <2>1. FreshAll(ms \o answer)'
    BY <1>8, <1>9, FreshConcat
  <2>2. QED
    BY <1>2, <1>6, <1>7, <1>10, <2>1 DEF FreshAll
<1>12. SyncInv'
  BY <1>1, <1>5, <1>11, DaemonSends
<1>13. Reader!Renew
  BY <1>1, <1>4 DEF Reader!Renew
<1>14. QED
  BY <1>12, <1>13

LEMMA ReloadOK ==
    ASSUME SyncInv, Reload
    PROVE  SyncInv' /\ Reader!Renew
<1>1. /\ epoch' = epoch + 1 /\ log' = <<>> /\ unread' = log
      /\ UNCHANGED <<toApp, requests, cursor>>
  BY DEF Reload, app
<1>2. Shapes
  BY DEF SyncInv
<1>3. Shapes' /\ GoesOn
  BY <1>1, <1>2 DEF Shapes, GoesOn, Positive
<1>4. SyncInv'
  BY <1>1, <1>3, NoneSent
<1>5. Reader!Renew
  BY <1>1 DEF Reader!Renew
<1>6. QED
  BY <1>4, <1>5

LEMMA TurnEndsOK ==
    ASSUME SyncInv, TurnEnds
    PROVE  SyncInv' /\ ReaderStays
<1>1. UNCHANGED <<epoch, log, unread, requests, cursor>>
  BY DEF TurnEnds, app
<1>2. PICK ms : ms = <<[type |-> "end"]>>
  OBVIOUS
<1>3. FreshAll(ms)' /\ Send(ms)
  BY <1>2, WordFresh DEF TurnEnds, FreshAll
<1>4. Shapes' /\ GoesOn
  BY <1>1 DEF SyncInv, Shapes, GoesOn, Positive
<1>5. QED
  BY <1>1, <1>3, <1>4, DaemonSends DEF ReaderStays

\* The daemon answers a request.
LEMMA ServeOK ==
    ASSUME SyncInv, NEW r \in requests, Serve(r)
    PROVE  SyncInv' /\ ReaderStays
<1>1. /\ requests' = requests \ {r} /\ toApp' = Append(toApp, Answer(r))
      /\ UNCHANGED <<epoch, log, unread, cursor>>
  BY DEF Serve, app, daemon
<1>2. Shapes /\ RequestOK(r)
  BY DEF SyncInv, Shapes
<1>3. Shapes' /\ GoesOn
  BY <1>1, <1>2 DEF Shapes, GoesOn, Positive
<1>4. PICK p : p = Answer(r)
  OBVIOUS
<1>5. /\ MessageOK(p) /\ p.type = "page" /\ p.epoch = epoch
      /\ Forward(p) => p.end <= Len(log)
      /\ TailPaged(p) => p.end = Len(log)
  BY <1>2, <1>4, AnswerShape
<1>6. Fresh(p)
  BY <1>5 DEF Fresh, Place
<1>7. Fresh(p)'
  BY <1>1, <1>6 DEF Fresh
<1>8. PICK S : toApp \in Seq(S)
  BY DEF SyncInv, SentShapes
<1>9. toApp \in Seq(S \cup {p}) /\ toApp' = Append(toApp, p)
  BY <1>1, <1>4, <1>8
<1>10. /\ toApp' \in Seq(S \cup {p}) /\ Len(toApp') = Len(toApp) + 1 /\ Len(toApp) \in Nat
       /\ toApp'[Len(toApp) + 1] = p /\ \A i \in 1..Len(toApp) : toApp'[i] = toApp[i]
  BY <1>9
<1>11. ASSUME NEW i \in 1..Len(toApp')
       PROVE  \/ i \in 1..Len(toApp) /\ toApp'[i] = toApp[i]
              \/ i > Len(toApp) /\ Fresh(toApp[i])'
  <2>1. CASE i \in 1..Len(toApp)
    BY <1>10, <2>1
  <2>2. CASE i \notin 1..Len(toApp)
    <3>1. i = Len(toApp) + 1 /\ i > Len(toApp) /\ toApp'[i] = p
      BY <1>10, <2>2
    <3>2. QED
      BY <1>7, <3>1 DEF Fresh
  <2>3. QED
    BY <2>1, <2>2
<1>12. SyncInv'
  BY <1>1, <1>3, <1>10, <1>11, MoreSent
<1>13. QED
  BY <1>1, <1>12 DEF ReaderStays

-----------------------------------------------------------------------------
(* The app asks, and gives up *)

LEMMA AskOK ==
    ASSUME NEW why \in {"init", "catchup", "older", "redo", "resume"},
           NEW dir \in {"tail", "after", "before"}, NEW at \in Places \cup {None},
           dir # "tail" => at \in Places
    PROVE  RequestOK(Ask(why, dir, at))
<1> PICK r : r = Ask(why, dir, at)
  OBVIOUS
<1>1. r \in Requests /\ r.dir = dir /\ r.at = at
  BY DEF Ask, Requests
<1>2. QED
  BY <1>1 DEF RequestOK

\* What is asked to catch up names its place.
LEMMA CatchUpsOK ==
    ASSUME NEW places \in SUBSET Places
    PROVE  \A r \in CatchUps(places) : RequestOK(r)
BY AskOK DEF CatchUps

LEMMA EndOK ==
    ASSUME Shapes, cursor # None
    PROVE  End \in Places
BY EndPlace DEF Places, Positive

\* The app asks, and neither the daemon nor the display moves.
LEMMA Asks ==
    ASSUME SyncInv, UNCHANGED <<epoch, log, unread, cursor, toApp>>,
           \A r \in requests' : RequestOK(r)
    PROVE  SyncInv' /\ ReaderStays
<1>1. Shapes' /\ GoesOn
  BY DEF SyncInv, Shapes, GoesOn, Positive
<1>2. QED
  BY <1>1, NoneSent DEF ReaderStays

LEMMA OpenOK ==
    ASSUME SyncInv, Open
    PROVE  SyncInv' /\ ReaderStays
<1>1. /\ requests' = requests \cup {InitialRequest}
      /\ UNCHANGED <<epoch, log, unread, cursor, toApp>>
  BY DEF Open, daemon
<1>2. Shapes /\ \A r \in requests : RequestOK(r)
  BY DEF SyncInv, Shapes
<1>3. RequestOK(InitialRequest)
  <2>1. CASE applied /\ cursor # None
    <3>1. RequestOK(Ask("init", "after", End))
      BY <1>2, <2>1, EndOK, AskOK
    <3>2. QED
      BY <2>1, <3>1 DEF InitialRequest
  <2>2. CASE ~(applied /\ cursor # None)
    <3>1. RequestOK(Ask("init", "tail", None))
      BY AskOK
    <3>2. QED
      BY <2>2, <3>1 DEF InitialRequest
  <2>3. QED
    BY <2>1, <2>2
<1>4. QED
  BY <1>1, <1>2, <1>3, Asks

LEMMA ResumeOK ==
    ASSUME SyncInv, Resume
    PROVE  SyncInv' /\ ReaderStays
<1> DEFINE new == IF cursor = None THEN {Ask("resume", "tail", None)} ELSE CatchUps({End})
<1>1. /\ requests' = requests \cup new
      /\ UNCHANGED <<epoch, log, unread, cursor, toApp>>
  BY DEF Resume, daemon
<1>2. Shapes /\ \A r \in requests : RequestOK(r)
  BY DEF SyncInv, Shapes
<1>3. \A r \in new : RequestOK(r)
  <2>1. RequestOK(Ask("resume", "tail", None))
    BY AskOK
  <2>2. cursor # None => {End} \in SUBSET Places
    BY <1>2, EndOK
  <2>3. cursor # None => \A r \in CatchUps({End}) : RequestOK(r)
    BY <2>2, CatchUpsOK
  <2>4. QED
    BY <2>1, <2>3
<1> HIDE DEF new
<1>4. QED
  BY <1>1, <1>2, <1>3, Asks

LEMMA LoadOlderOK ==
    ASSUME SyncInv, LoadOlder
    PROVE  SyncInv' /\ ReaderStays
<1>1. /\ requests' = requests \cup {Ask("older", "before", <<cursor.epoch, cursor.start>>)}
      /\ cursor # None /\ UNCHANGED <<epoch, log, unread, cursor, toApp>>
  BY DEF LoadOlder, daemon
<1>2. Shapes /\ \A r \in requests : RequestOK(r)
  BY DEF SyncInv, Shapes
<1>3. <<cursor.epoch, cursor.start>> \in Places
  BY <1>1, <1>2, EndPlace DEF Cursors, Places
<1>4. RequestOK(Ask("older", "before", <<cursor.epoch, cursor.start>>))
  BY <1>3, AskOK
<1>5. QED
  BY <1>1, <1>2, <1>4, Asks

\* A page whose request is given up stays the page it is.
SamePage(m, n) ==
    /\ MessageOK(m) => MessageOK(n)
    /\ (Forward(n) <=> Forward(m)) /\ (TailPaged(n) <=> TailPaged(m)) /\ Place(n) = Place(m)

LEMMA GivenUp ==
    ASSUME NEW m, m.type = "page", MessageOK(m), NEW q, q \in {m.to, [m.to EXCEPT !.late = TRUE]}
    PROVE  SamePage(m, [m EXCEPT !.to = q])
<1> PICK n : n = [m EXCEPT !.to = q]
  OBVIOUS
<1>1. m \in Pages(m.entries) /\ RequestOK(m.to) /\ PageOK(m)
  BY DEF MessageOK, PageOK
<1>2. RequestOK(q) /\ q.dir = m.to.dir
  BY <1>1 DEF RequestOK, Requests
<1>3. q \in Requests
  BY <1>2 DEF RequestOK
<1>4. /\ n \in Pages(m.entries) /\ n.type = "page" /\ n.to = q /\ n.reset = m.reset
      /\ n.epoch = m.epoch /\ n.entries = m.entries /\ n.start = m.start /\ n.end = m.end
  BY <1>1, <1>3 DEF Pages
<1>5. (IsTail(n) <=> IsTail(m)) /\ (Forward(n) <=> Forward(m)) /\ (TailPaged(n) <=> TailPaged(m))
  BY <1>2, <1>4 DEF IsTail, Forward, TailPaged
<1>6. Place(n) = Place(m)
  BY <1>4 DEF Place
<1>7. PageOK(n)
  BY <1>1, <1>2, <1>4, <1>5 DEF PageOK
<1>8. QED
  BY <1>4, <1>5, <1>6, <1>7 DEF SamePage, MessageOK

LEMMA TimesOutOK ==
    ASSUME SyncInv, NEW r, TimesOut(r)
    PROVE  SyncInv' /\ ReaderStays
<1> DEFINE given(q) == IF q = r THEN [q EXCEPT !.late = TRUE] ELSE q
           M(i) == IF toApp[i].type = "page" THEN [toApp[i] EXCEPT !.to = given(@)] ELSE toApp[i]
<1>1. /\ requests' = {given(q) : q \in requests}
      /\ toApp' = [i \in DOMAIN toApp |-> M(i)]
      /\ UNCHANGED <<epoch, log, unread, cursor>>
  BY DEF TimesOut, daemon
<1>2. PICK S : toApp \in Seq(S)
  BY DEF SyncInv, SentShapes
<1>3. /\ DOMAIN toApp = 1..Len(toApp) /\ Len(toApp) \in Nat
      /\ \A i \in 1..Len(toApp) : MessageOK(toApp[i])
  BY <1>2 DEF SyncInv, SentShapes
<1>4. (\E T : toApp' \in Seq(T)) /\ Len(toApp') = Len(toApp)
  <2> DEFINE T == {M(i) : i \in 1..Len(toApp)}
  <2>1. \A i \in 1..Len(toApp) : M(i) \in T
    OBVIOUS
  <2> HIDE DEF M, T
  <2>2. toApp' \in [1..Len(toApp) -> T]
    BY <1>1, <1>3, <2>1
  <2>3. toApp' \in Seq(T) /\ Len(toApp') = Len(toApp)
    BY <1>3, <2>2
  <2>4. QED
    BY <2>3
<1>5. ASSUME NEW i \in 1..Len(toApp)
      PROVE  SamePage(toApp[i], toApp'[i])
  <2>1. toApp'[i] = M(i) /\ MessageOK(toApp[i])
    BY <1>1, <1>3
  <2>2. PICK m : m = toApp[i]
    OBVIOUS
  <2>3. CASE m.type = "page"
    <3>1. PICK q : q = given(m.to)
      OBVIOUS
    <3>2. q \in {m.to, [m.to EXCEPT !.late = TRUE]}
      BY <3>1
    <3>3. toApp'[i] = [m EXCEPT !.to = q]
      BY <2>1, <2>2, <2>3, <3>1
    <3>4. QED
      BY <2>1, <2>2, <2>3, <3>2, <3>3, GivenUp
  <2>4. CASE m.type # "page"
    BY <2>1, <2>2, <2>4 DEF SamePage
  <2>5. QED
    BY <2>3, <2>4
<1>6. \A q \in requests' : RequestOK(q)
  BY <1>1 DEF SyncInv, Shapes, RequestOK, Requests
<1>7. Shapes' /\ InLog(End)' = InLog(End)
  BY <1>1, <1>6 DEF SyncInv, Shapes, InLog, End
<1>8. SentShapes'
  BY <1>3, <1>4, <1>5 DEF SentShapes, SamePage
<1>9. CursorInLog'
  BY <1>1, <1>7 DEF SyncInv, CursorInLog
<1>10. SentInLog'
  <2> SUFFICES ASSUME NEW i \in 1..Len(toApp'), Forward(toApp'[i])
               PROVE  InLog(Place(toApp[i]))'
    BY DEF SentInLog
  <2>1. InLog(Place(toApp[i])) /\ Place(toApp'[i]) = Place(toApp[i])
    BY <1>4, <1>5 DEF SyncInv, SentInLog, SamePage
  <2>2. QED
    BY <1>1, <2>1 DEF InLog
<1>11. SentInOrder'
  BY <1>4, <1>5 DEF SyncInv, SentInOrder, SamePage, Precedes
<1>12. CursorBehind'
  <2> SUFFICES ASSUME cursor' # None, NEW i \in 1..Len(toApp'), Forward(toApp'[i])
               PROVE  Precedes(End', toApp'[i])
    BY DEF CursorBehind
  <2>1. End' = End /\ cursor # None
    BY <1>1 DEF End
  <2>2. QED
    BY <1>4, <1>5, <2>1 DEF SyncInv, CursorBehind, SamePage, Precedes
<1>13. QED
  BY <1>1, <1>7, <1>8, <1>9, <1>10, <1>11, <1>12 DEF SyncInv, ReaderStays

LEMMA DisconnectOK ==
    ASSUME SyncInv, Disconnect
    PROVE  SyncInv' /\ ReaderStays
<1>1. requests' = {} /\ toApp' = <<>> /\ UNCHANGED <<epoch, log, unread, cursor>>
  BY DEF Disconnect, daemon
<1>2. Shapes' /\ GoesOn
  BY <1>1 DEF SyncInv, Shapes, GoesOn, Positive
<1>3. (\E S : toApp' \in Seq(S)) /\ Len(toApp') = 0
  BY <1>1
<1>4. QED
  BY <1>1, <1>2, <1>3, MoreSent DEF ReaderStays

LEMMA ConnectOK ==
    ASSUME SyncInv, Connect
    PROVE  SyncInv' /\ ReaderStays
<1>1. UNCHANGED <<epoch, log, unread, cursor, toApp, requests>>
  BY DEF Connect, daemon
<1>2. QED
  BY <1>1, Asks DEF SyncInv, Shapes

-----------------------------------------------------------------------------
(* The app receives *)

\* The cursor stays where it is, is given up, or goes to the place of a message.
CursorGoes(m) ==
    \/ cursor' = None
    \/ cursor # None /\ cursor' # None /\ End' = End
    \/ cursor' # None /\ Forward(m) /\ End' = Place(m)

LEMMA Received ==
    ASSUME SyncInv, Shapes', UNCHANGED <<epoch, log>>, toApp # <<>>, toApp' = Tail(toApp),
           CursorGoes(Head(toApp))
    PROVE  SyncInv'
<1>1. PICK S : toApp \in Seq(S)
  BY DEF SyncInv, SentShapes
<1>2. PICK m : m = Head(toApp)
  OBVIOUS
<1>3. /\ m = toApp[1] /\ toApp' \in Seq(S) /\ Len(toApp) \in Nat /\ 1 \in 1..Len(toApp)
      /\ Len(toApp') = Len(toApp) - 1
      /\ \A i \in 1..Len(toApp') : toApp'[i] = toApp[i + 1] /\ i + 1 \in 2..Len(toApp)
  BY <1>1, <1>2
<1>4. SentShapes'
  BY <1>3 DEF SyncInv, SentShapes
<1>5. SentInLog'
  <2> SUFFICES ASSUME NEW i \in 1..Len(toApp'), Forward(toApp'[i])
               PROVE  InLog(Place(toApp[i]))'
    BY DEF SentInLog
  <2>1. toApp'[i] = toApp[i + 1] /\ i + 1 \in 1..Len(toApp)
    BY <1>3
  <2>2. InLog(Place(toApp[i + 1]))
    BY <2>1 DEF SyncInv, SentInLog
  <2>3. QED
    BY <2>1, <2>2 DEF InLog
<1>6. SentInOrder'
  <2> SUFFICES ASSUME NEW i \in 1..Len(toApp'), NEW j \in 1..Len(toApp'), i < j,
                      Forward(toApp'[i]), Forward(toApp'[j])
               PROVE  Precedes(Place(toApp'[i]), toApp'[j])
    BY DEF SentInOrder
  <2>1. /\ toApp'[i] = toApp[i + 1] /\ i + 1 \in 1..Len(toApp)
        /\ toApp'[j] = toApp[j + 1] /\ j + 1 \in 1..Len(toApp) /\ i + 1 < j + 1
    BY <1>3
  <2>2. QED
    BY <2>1 DEF SyncInv, SentInOrder
<1>7. CASE cursor' = None
  BY <1>4, <1>5, <1>6, <1>7 DEF SyncInv, CursorInLog, CursorBehind
<1>8. CASE cursor # None /\ cursor' # None /\ End' = End
  <2>1. CursorInLog'
    BY <1>8 DEF SyncInv, CursorInLog, InLog
  <2>2. CursorBehind'
    <3> SUFFICES ASSUME NEW i \in 1..Len(toApp'), Forward(toApp'[i])
                 PROVE  Precedes(End', toApp'[i])
      BY DEF CursorBehind
    <3>1. toApp'[i] = toApp[i + 1] /\ i + 1 \in 1..Len(toApp)
      BY <1>3
    <3>2. QED
      BY <1>8, <3>1 DEF SyncInv, CursorBehind
  <2>3. QED
    BY <1>4, <1>5, <1>6, <2>1, <2>2 DEF SyncInv
<1>9. CASE cursor' # None /\ Forward(m) /\ End' = Place(m)
  <2>1. CursorInLog'
    <3>1. InLog(Place(m))
      BY <1>3, <1>9 DEF SyncInv, SentInLog
    <3>2. QED
      BY <1>9, <3>1 DEF CursorInLog, InLog
  <2>2. CursorBehind'
    <3> SUFFICES ASSUME NEW i \in 1..Len(toApp'), Forward(toApp'[i])
                 PROVE  Precedes(End', toApp'[i])
      BY DEF CursorBehind
    <3>1. toApp'[i] = toApp[i + 1] /\ i + 1 \in 1..Len(toApp) /\ 1 < i + 1
      BY <1>3
    <3>2. QED
      BY <1>3, <1>9, <3>1 DEF SyncInv, SentInOrder
  <2>3. QED
    BY <1>4, <1>5, <1>6, <2>1, <2>2 DEF SyncInv
<1>10. QED
  BY <1>2, <1>7, <1>8, <1>9 DEF CursorGoes

\* The cursor goes on to a row that exists: the reader reads.
LEMMA ReadsOn ==
    ASSUME Shapes, Shapes', CursorInLog', UNCHANGED <<epoch, log>>, cursor' # None,
           cursor # None => AtMost(End, End') /\ End # End'
    PROVE  Reader!Read
<1> DEFINE at == IF cursor = None THEN <<0, 0>> ELSE <<cursor.epoch, cursor.end>>
<1>1. /\ End' \in Positive \X Positive /\ End'[1] <= epoch'
      /\ End'[1] = epoch' => End'[2] <= Len(log')
      /\ at' = End'
  BY DEF Shapes, CursorInLog, InLog, End, Cursors, Positive
<1>2. at' \in (1..epoch) \X (Nat \ {0})
  BY <1>1 DEF Positive, Shapes
<1>3. Reader!Later(at', at)
  <2>1. CASE cursor = None
    BY <1>1, <2>1 DEF Reader!Later, Positive
  <2>2. CASE cursor # None
    <3>1. End \in Positive \X Positive /\ at = End /\ AtMost(End, End') /\ End # End'
      BY <2>2, EndPlace DEF End
    <3>2. PICK p \in Positive \X Positive : p = End
      BY <3>1
    <3>3. PICK q \in Positive \X Positive : q = End'
      BY <1>1
    <3>4. q[1] > p[1] \/ (q[1] = p[1] /\ q[2] > p[2])
      <4>1. AtMost(p, q) /\ p # q /\ p = <<p[1], p[2]>> /\ q = <<q[1], q[2]>>
        BY <3>1, <3>2, <3>3
      <4>2. QED
        BY <4>1 DEF AtMost, Positive
    <3>5. QED
      BY <1>1, <3>1, <3>2, <3>3, <3>4 DEF Reader!Later
  <2>3. QED
    BY <2>1, <2>2
<1>4. at'[1] = epoch => at'[2] <= Len(log)
  BY <1>1
<1>5. QED
  BY <1>2, <1>3, <1>4 DEF Reader!Read

ReaderMoves == [Reader!Next]_Reader!vars

\* What the decision about a row says of the cursor.
LEMMA DecisionShape ==
    ASSUME Shapes, NEW row \in Positive \X Positive
    PROVE  \/ cursor = None /\ Decision(row) = "init"
           \/ cursor # None /\ Decision(row) \in {"drop", "gap"}
           \/ cursor # None /\ Decision(row) = "restart" /\ row[1] # cursor.epoch
           \/ /\ cursor # None /\ Decision(row) = "accept"
              /\ row[1] = cursor.epoch /\ row[2] = cursor.end + 1
<1>1. CASE cursor = None
  <2>1. Decision(row) = "init"
    BY <1>1 DEF Decision, InEpoch
  <2>2. QED
    BY <1>1, <2>1
<1>2. CASE cursor # None /\ cursor.epoch # row[1]
  <2>1. Decision(row) = IF row[2] = 1 THEN "restart" ELSE "drop"
    BY <1>2 DEF Decision, InEpoch
  <2>2. QED
    BY <1>2, <2>1
<1>3. CASE cursor # None /\ cursor.epoch = row[1]
  <2>1. cursor.end \in Nat /\ row[2] \in Nat
    BY <1>3, EndPlace DEF Positive
  <2>2. CASE row[2] <= cursor.end
    <3>1. Decision(row) = "drop"
      BY <1>3, <2>1, <2>2 DEF Decision, InEpoch
    <3>2. QED
      BY <1>3, <3>1
  <2>3. CASE row[2] = cursor.end + 1
    <3>1. Decision(row) = "accept"
      BY <1>3, <2>1, <2>3 DEF Decision, InEpoch
    <3>2. QED
      BY <1>3, <2>3, <3>1
  <2>4. CASE row[2] > cursor.end + 1
    <3>1. Decision(row) = "gap"
      BY <1>3, <2>1, <2>4 DEF Decision, InEpoch
    <3>2. QED
      BY <1>3, <3>1
  <2>5. QED
    BY <2>1, <2>2, <2>3, <2>4
<1>4. QED
  BY <1>1, <1>2, <1>3

\* The first of the messages under way has the shape it needs, and the cursor
\* precedes it.
LEMMA FirstMessage ==
    ASSUME SyncInv, toApp # <<>>
    PROVE  /\ MessageOK(Head(toApp))
           /\ Forward(Head(toApp)) => InLog(Place(Head(toApp)))
           /\ cursor # None /\ Forward(Head(toApp)) => Precedes(End, Head(toApp))
<1>1. PICK S : toApp \in Seq(S)
  BY DEF SyncInv, SentShapes
<1>2. Head(toApp) = toApp[1] /\ 1 \in 1..Len(toApp)
  BY <1>1
<1>3. QED
  BY <1>2 DEF SyncInv, SentShapes, SentInLog, CursorBehind

LEMMA RowArrivesOK ==
    ASSUME SyncInv, RowArrives
    PROVE  SyncInv' /\ ReaderMoves
<1>1. PICK m : m = Head(toApp)
  OBVIOUS
<1>2. PICK decision : decision = Decision(m.row)
  OBVIOUS
<1>3. /\ toApp # <<>> /\ m.type = "row" /\ toApp' = Tail(toApp)
      /\ UNCHANGED <<epoch, log, unread>>
  BY <1>1 DEF RowArrives, Delivered, daemon
<1>4. /\ Shapes /\ MessageOK(m) /\ Forward(m) /\ Place(m) = m.row
      /\ m.row \in Positive \X Positive
      /\ cursor # None => Precedes(End, m)
  BY <1>1, <1>3, FirstMessage DEF SyncInv, MessageOK, Forward, Place
<1>5. CASE decision \in {"drop", "gap"}
  <2>1. CatchUp(IF decision = "gap" THEN {End} ELSE {}) /\ UNCHANGED cursor
    BY <1>1, <1>2, <1>5 DEF RowArrives
  <2>2. PICK places : places = IF decision = "gap" THEN {End} ELSE {}
    OBVIOUS
  <2>3. cursor # None
    BY <1>2, <1>4, <1>5, DecisionShape
  <2>4. places \in SUBSET Places
    BY <1>4, <2>2, <2>3, EndOK
  <2>5. requests' = requests \cup CatchUps(places)
    BY <2>1, <2>2 DEF CatchUp
  <2>6. Shapes'
    <3>1. \A r \in CatchUps(places) : RequestOK(r)
      BY <2>4, CatchUpsOK
    <3>2. QED
      BY <1>3, <1>4, <2>1, <2>5, <3>1 DEF Shapes
  <2>7. CursorGoes(m)
    BY <2>1, <2>3 DEF CursorGoes, End
  <2>8. SyncInv'
    BY <1>1, <1>3, <2>6, <2>7, Received
  <2>9. ReaderStays
    BY <1>3, <2>1 DEF ReaderStays
  <2>10. QED
    BY <2>8, <2>9, Stutters DEF ReaderMoves
<1>6. CASE decision \notin {"drop", "gap"}
  <2> DEFINE start == IF decision = "accept" THEN cursor.start ELSE m.row[2]
  <2>1. /\ cursor' = [epoch |-> m.row[1], start |-> start, end |-> m.row[2]]
        /\ UNCHANGED requests
    BY <1>1, <1>2, <1>6 DEF RowArrives
  <2>2. start \in Nat
    <3>1. m.row[2] \in Nat
      BY <1>4 DEF Positive
    <3>2. decision = "accept" => cursor # None
      BY <1>2, <1>4, DecisionShape
    <3>3. decision = "accept" => cursor.start \in Nat
      BY <1>4, <3>2, EndPlace DEF Cursors
    <3>4. QED
      BY <3>1, <3>3
  <2> HIDE DEF start
  <2>3. PICK c : c = [epoch |-> m.row[1], start |-> start, end |-> m.row[2]]
    OBVIOUS
  <2>4. c \in Cursors /\ c.epoch = m.row[1] /\ c.end = m.row[2] /\ c \in [epoch: Nat, start: Nat, end: Nat]
    BY <1>4, <2>2, <2>3 DEF Cursors, Positive
  <2>5. cursor' = c /\ c # None
    BY <2>1, <2>3, <2>4, NoneAssumption
  <2>6. Shapes'
    BY <1>3, <1>4, <2>1, <2>4, <2>5 DEF Shapes
  <2>7. End' = m.row
    BY <1>4, <2>4, <2>5 DEF End
  <2>8. CursorGoes(m)
    BY <1>4, <2>5, <2>7 DEF CursorGoes
  <2>9. SyncInv'
    BY <1>1, <1>3, <2>6, <2>8, Received
  <2>10. cursor # None => AtMost(End, m.row) /\ End # m.row
    <3> HAVE cursor # None
    <3>1. End \in Positive \X Positive /\ End[1] = cursor.epoch /\ End[2] = cursor.end
      BY <1>4, EndPlace
    <3>2. Precedes(End, m)
      BY <1>4
    <3>3. End[1] <= m.row[1]
      BY <1>4, <3>2 DEF Precedes
    <3>4. \/ m.row[1] # cursor.epoch
          \/ m.row[1] = cursor.epoch /\ m.row[2] = cursor.end + 1
      BY <1>2, <1>4, <1>6, DecisionShape
    <3>5. QED
      BY <1>4, <3>1, <3>3, <3>4 DEF AtMost, Positive
  <2>11. Reader!Read
    BY <1>3, <1>4, <2>5, <2>6, <2>7, <2>9, <2>10, ReadsOn DEF SyncInv
  <2>12. QED
    BY <2>9, <2>11 DEF ReaderMoves, Reader!Next
<1>7. QED
  BY <1>5, <1>6

LEMMA EndArrivesOK ==
    ASSUME SyncInv, EndArrives
    PROVE  SyncInv' /\ ReaderMoves
<1>1. /\ toApp # <<>> /\ toApp' = Tail(toApp) /\ UNCHANGED <<epoch, log, unread, cursor>>
      /\ requests' = requests \cup CatchUps(EndOf(cursor))
  BY DEF EndArrives, Delivered, CatchUp, daemon
<1>2. Shapes
  BY DEF SyncInv
<1>3. EndOf(cursor) \in SUBSET Places
  BY <1>2, EndOK DEF EndOf, End
<1>4. \A r \in CatchUps(EndOf(cursor)) : RequestOK(r)
  BY <1>3, CatchUpsOK
<1>5. Shapes'
  BY <1>1, <1>2, <1>4 DEF Shapes
<1>6. CursorGoes(Head(toApp))
  BY <1>1 DEF CursorGoes, End
<1>7. SyncInv'
  BY <1>1, <1>5, <1>6, Received
<1>8. QED
  BY <1>1, <1>7, Stutters DEF ReaderMoves, ReaderStays

LEMMA RedoneArrivesOK ==
    ASSUME SyncInv, RedoneArrives
    PROVE  SyncInv' /\ ReaderMoves
<1> DEFINE new == Ask("redo", "tail", IF cursor = None THEN None ELSE End)
<1>1. /\ toApp # <<>> /\ toApp' = Tail(toApp) /\ UNCHANGED <<epoch, log, unread, cursor>>
      /\ requests' = requests \cup {new}
  BY DEF RedoneArrives, Delivered, daemon
<1>2. Shapes
  BY DEF SyncInv
<1>3. RequestOK(new)
  <2>1. PICK at : at = IF cursor = None THEN None ELSE End
    OBVIOUS
  <2>2. at \in Places \cup {None}
    BY <1>2, <2>1, EndOK
  <2>3. RequestOK(Ask("redo", "tail", at))
    BY <2>2, AskOK
  <2>4. QED
    BY <2>1, <2>3
<1> HIDE DEF new
<1>4. Shapes'
  BY <1>1, <1>2, <1>3 DEF Shapes
<1>5. CursorGoes(Head(toApp))
  BY <1>1 DEF CursorGoes, End
<1>6. SyncInv'
  BY <1>1, <1>4, <1>5, Received
<1>7. QED
  BY <1>1, <1>6, Stutters DEF ReaderMoves, ReaderStays

\* A page that does not end elsewhere leaves the reader where it is.
LEMMA SameEnd ==
    ASSUME UNCHANGED <<epoch, log>>, cursor # None, cursor' # None, End' = End
    PROVE  ReaderMoves
BY DEF ReaderMoves, Reader!vars, End

\* The cursor of a page or of a row that is taken.
LEMMA CursorTaken ==
    ASSUME NEW e \in Positive, NEW start \in Nat, NEW end \in Positive,
           cursor' = [epoch |-> e, start |-> start, end |-> end]
    PROVE  cursor' \in Cursors /\ cursor' # None /\ End' = <<e, end>>
<1> PICK c : c = [epoch |-> e, start |-> start, end |-> end]
  OBVIOUS
<1>1. c \in Cursors /\ c \in [epoch: Nat, start: Nat, end: Nat] /\ c.epoch = e /\ c.end = end
  BY DEF Cursors, Positive
<1>2. cursor' = c /\ c # None
  BY <1>1, NoneAssumption
<1>3. QED
  BY <1>1, <1>2 DEF End

\* A page takes the place of the display: it ends where the reader is, or later,
\* or the reader starts anew.
LEMMA ReplacePathOK ==
    ASSUME SyncInv, NEW p, MessageOK(p), TailPaged(p), ReplacePath(p),
           InLog(Place(p)), cursor # None => Precedes(End, p),
           UNCHANGED <<epoch, log>>
    PROVE  /\ CursorGoes(p) /\ cursor' \in Cursors \cup {None}
           /\ Shapes' /\ CursorInLog' => ReaderMoves
<1>1. /\ p \in Pages(p.entries) /\ p.type = "page" /\ (p.start = 0 <=> p.end = 0)
      /\ Shapes
  BY DEF MessageOK, PageOK, TailPaged, SyncInv
<1>2. /\ p.epoch \in Positive /\ p.start \in Nat /\ p.end \in Nat
      /\ Forward(p) /\ Place(p) = <<p.epoch, p.end>>
  BY <1>1 DEF Pages, Place, Forward, TailPaged
<1>3. cursor # None => AtMost(End, <<p.epoch, p.end>>)
  BY <1>2 DEF Precedes
<1>4. CASE p.start = 0
  <2>1. cursor' = None /\ p.end = 0
    BY <1>1, <1>4 DEF ReplacePath
  <2>2. CASE cursor = None
    BY <2>1, <2>2, Stutters DEF CursorGoes, ReaderMoves, ReaderStays
  <2>3. CASE cursor # None
    <3>1. End \in Positive \X Positive /\ End = <<cursor.epoch, cursor.end>>
      BY <1>1, <2>3, EndPlace DEF End
    <3>2. cursor.epoch < p.epoch /\ p.epoch <= epoch
      BY <1>2, <1>3, <2>1, <2>3, <3>1 DEF AtMost, InLog, Positive
    <3>3. cursor.epoch < epoch
      BY <1>1, <1>2, <3>1, <3>2 DEF Positive, Shapes
    <3>4. <<cursor.epoch, cursor.end>> # <<0, 0>>
      BY <3>1 DEF Positive
    <3>5. Reader!StartAnew
      BY <2>1, <2>3, <3>3, <3>4 DEF Reader!StartAnew, Reader!Nothing
    <3>6. QED
      BY <2>1, <3>5 DEF CursorGoes, ReaderMoves, Reader!Next
  <2>4. QED
    BY <2>2, <2>3
<1>5. CASE p.start # 0
  <2>1. /\ p.end \in Positive
        /\ cursor' = [epoch |-> p.epoch, start |-> p.start, end |-> p.end]
    BY <1>1, <1>2, <1>5 DEF ReplacePath, Positive
  <2>2. cursor' \in Cursors /\ cursor' # None /\ End' = <<p.epoch, p.end>>
    BY <1>2, <2>1, CursorTaken
  <2>3. CursorGoes(p)
    BY <1>2, <2>2 DEF CursorGoes
  <2>4. ASSUME Shapes', CursorInLog'
        PROVE  ReaderMoves
    <3>1. CASE cursor # None /\ End = End'
      BY <2>2, <3>1, SameEnd
    <3>2. CASE ~(cursor # None /\ End = End')
      <4>1. cursor # None => AtMost(End, End') /\ End # End'
        BY <1>3, <2>2, <3>2
      <4>2. Reader!Read
        BY <1>1, <2>2, <2>4, <4>1, ReadsOn
      <4>3. QED
        BY <4>2 DEF ReaderMoves, Reader!Next
    <3>3. QED
      BY <3>1, <3>2
  <2>5. QED
    BY <2>2, <2>3, <2>4
<1>6. QED
  BY <1>4, <1>5

\* A page goes to the display as a whole: before it, after it, or not at all.
LEMMA IncrementalPathOK ==
    ASSUME SyncInv, NEW p, MessageOK(p), p.type = "page", IncrementalPath(p),
           UNCHANGED <<epoch, log>>
    PROVE  /\ CursorGoes(p) /\ cursor' \in Cursors \cup {None}
           /\ Shapes' /\ CursorInLog' => ReaderMoves
<1>1. p \in Pages(p.entries) /\ PageOK(p) /\ RequestOK(p.to) /\ Shapes
  BY DEF MessageOK, PageOK, SyncInv
<1>2. /\ p.epoch \in Positive /\ p.start \in Nat /\ p.end \in Nat
      /\ Place(p) = <<p.epoch, p.end>>
  BY <1>1 DEF Pages, Place
<1>3. CASE /\ p.entries # <<>> /\ Older(p)
           /\ cursor' = [cursor EXCEPT !.start = p.start]
  <2>1. cursor # None
    BY <1>3 DEF Older, InEpoch
  <2>2. cursor \in Cursors
    BY <1>1, <2>1, EndPlace
  <2>3. cursor' = [epoch |-> cursor.epoch, start |-> p.start, end |-> cursor.end]
    BY <1>3, <2>2 DEF Cursors
  <2>4. cursor' \in Cursors /\ cursor' # None /\ End' = <<cursor.epoch, cursor.end>>
    BY <1>2, <2>2, <2>3, CursorTaken DEF Cursors
  <2>5. QED
    BY <2>1, <2>4, SameEnd DEF CursorGoes, End
<1>4. CASE /\ p.entries # <<>> /\ Newer(p)
           /\ cursor' = [epoch |-> p.epoch,
                         start |-> IF cursor = None THEN p.start ELSE cursor.start, end |-> p.end]
  <2>1. p.end \in Positive
    BY <1>1, <1>2, <1>4 DEF PageOK, Positive
  <2>2. PICK start \in Nat : start = IF cursor = None THEN p.start ELSE cursor.start
    BY <1>1, <1>2, EndPlace DEF Cursors
  <2>3. cursor' = [epoch |-> p.epoch, start |-> start, end |-> p.end]
    BY <1>4, <2>2
  <2>4. cursor' \in Cursors /\ cursor' # None /\ End' = <<p.epoch, p.end>>
    BY <1>2, <2>1, <2>3, CursorTaken
  <2>5. Forward(p)
    BY <1>1, <1>4 DEF Newer, Forward, IsTail, RequestOK, Requests
  <2>6. CursorGoes(p)
    BY <1>2, <2>4, <2>5 DEF CursorGoes
  <2>7. cursor # None => AtMost(End, End') /\ End # End'
    <3> HAVE cursor # None
    <3>1. p.epoch = cursor.epoch /\ p.end > cursor.end
      BY <1>4 DEF Newer, InEpoch
    <3>2. End = <<cursor.epoch, cursor.end>> /\ cursor.end \in Nat
      BY <1>1, EndPlace DEF End, Positive
    <3>3. QED
      BY <1>2, <2>4, <3>1, <3>2 DEF AtMost
  <2>8. ASSUME Shapes', CursorInLog'
        PROVE  ReaderMoves
    <3>1. Reader!Read
      BY <1>1, <2>4, <2>7, <2>8, ReadsOn
    <3>2. QED
      BY <3>1 DEF ReaderMoves, Reader!Next
  <2>9. QED
    BY <2>4, <2>6, <2>8
<1>5. CASE UNCHANGED cursor
  BY <1>1, <1>5, Stutters DEF CursorGoes, ReaderMoves, ReaderStays, Shapes, End
<1>6. QED
  BY <1>3, <1>4, <1>5 DEF IncrementalPath

LEMMA PageArrivesOK ==
    ASSUME SyncInv, PageArrives
    PROVE  SyncInv' /\ ReaderMoves
<1>1. PICK p : p = Head(toApp)
  OBVIOUS
<1> DEFINE replaces == p.reset \/ (p.to.dir = "tail" /\ init # None)
           complete == p.to.dir # "after" \/ ~p.hasNewer
           behind == IF replaces THEN (IF p.reset \/ p.end = 0 THEN {} ELSE {<<p.epoch, p.end>>})
                     ELSE IF Ahead(p) THEN {End} ELSE {}
           places == behind \cup IF ~complete /\ p.end > 0 THEN {<<p.epoch, p.end>>} ELSE {}
<1>2. /\ toApp # <<>> /\ p.type = "page" /\ toApp' = Tail(toApp)
      /\ UNCHANGED <<epoch, log, unread>>
  BY <1>1 DEF PageArrives, Delivered, daemon
<1>3. requests' = requests \cup CatchUps(places)
  BY <1>1 DEF PageArrives
<1>4. IF replaces THEN ReplacePath(p) ELSE IncrementalPath(p)
  BY <1>1 DEF PageArrives
<1>5. /\ Shapes /\ MessageOK(p)
      /\ Forward(p) => InLog(Place(p))
      /\ cursor # None /\ Forward(p) => Precedes(End, p)
  BY <1>1, <1>2, FirstMessage DEF SyncInv
<1>6. places \in SUBSET Places
  <2>1. <<p.epoch, p.end>> \in Places
    BY <1>2, <1>5 DEF MessageOK, PageOK, Pages, Places
  <2>2. Ahead(p) => End \in Places
    BY <1>5, EndOK DEF Ahead, InEpoch
  <2> HIDE DEF replaces, complete
  <2>3. QED
    BY <2>1, <2>2
<1>7. \A r \in CatchUps(places) : RequestOK(r)
  <2> HIDE DEF places
  <2>1. QED
    BY <1>6, CatchUpsOK
<1> HIDE DEF places
<1>8. CursorGoes(p) /\ cursor' \in Cursors \cup {None} /\ (Shapes' /\ CursorInLog' => ReaderMoves)
  <2>1. CASE replaces
    <3>1. TailPaged(p) /\ Forward(p)
      BY <1>2, <2>1 DEF TailPaged, IsTail, Forward
    <3>2. QED
      BY <1>2, <1>4, <1>5, <2>1, <3>1, ReplacePathOK
  <2>2. CASE ~replaces
    BY <1>2, <1>4, <1>5, <2>2, IncrementalPathOK
  <2>3. QED
    BY <2>1, <2>2
<1>9. Shapes'
  BY <1>2, <1>3, <1>5, <1>7, <1>8 DEF Shapes
<1>10. SyncInv'
  BY <1>1, <1>2, <1>8, <1>9, Received
<1>11. QED
  BY <1>8, <1>9, <1>10 DEF SyncInv

-----------------------------------------------------------------------------
(* The theorems *)

LEMMA SyncInit == Init => SyncInv /\ Reader!Init
<1> SUFFICES ASSUME Init PROVE SyncInv /\ Reader!Init
  OBVIOUS
<1>1. /\ epoch = 1 /\ log = <<>> /\ unread = <<>> /\ requests = {} /\ toApp = <<>> /\ cursor = None
      /\ Len(log) = 0 /\ Len(toApp) = 0
  BY DEF Init
<1>2. Shapes /\ SentShapes
  BY <1>1 DEF Shapes, SentShapes, Positive
<1>3. CursorInLog /\ SentInLog /\ SentInOrder /\ CursorBehind
  BY <1>1 DEF CursorInLog, SentInLog, SentInOrder, CursorBehind
<1>4. Reader!Init
  BY <1>1 DEF Reader!Init, Reader!Nothing
<1>5. QED
  BY <1>2, <1>3, <1>4 DEF SyncInv

LEMMA SyncNext ==
    ASSUME SyncInv, [Next]_vars
    PROVE  SyncInv' /\ ReaderMoves
<1>1. ASSUME SyncInv' /\ ReaderStays
      PROVE  SyncInv' /\ ReaderMoves
  BY <1>1, Stutters DEF ReaderMoves
<1>2. ASSUME SyncInv' /\ (Reader!Grow \/ Reader!Renew)
      PROVE  SyncInv' /\ ReaderMoves
  BY <1>2 DEF ReaderMoves, Reader!Next
<1>3. ASSUME NEW kind \in Kinds, Commit(kind) PROVE SyncInv' /\ ReaderMoves
  BY <1>2, <1>3, CommitOK
<1>4. CASE TurnEnds
  BY <1>1, <1>4, TurnEndsOK
<1>5. ASSUME NEW n \in 0..Len(log), Rewind(n) PROVE SyncInv' /\ ReaderMoves
  BY <1>2, <1>5, RewindOK
<1>6. CASE Reload
  BY <1>2, <1>6, ReloadOK
<1>7. CASE Resume
  BY <1>1, <1>7, ResumeOK
<1>8. CASE LoadOlder
  BY <1>1, <1>8, LoadOlderOK
<1>9. ASSUME NEW r \in Awaited, TimesOut(r) PROVE SyncInv' /\ ReaderMoves
  BY <1>1, <1>9, TimesOutOK
<1>10. CASE Disconnect
  BY <1>1, <1>10, DisconnectOK
<1>11. CASE Hydrate
  BY <1>2, <1>11, HydrateOK
<1>12. ASSUME NEW r \in requests, Serve(r) PROVE SyncInv' /\ ReaderMoves
  BY <1>1, <1>12, ServeOK
<1>13. CASE Receive
  BY <1>13, RowArrivesOK, EndArrivesOK, RedoneArrivesOK, PageArrivesOK DEF Receive
<1>14. CASE Connect
  BY <1>1, <1>14, ConnectOK
<1>15. CASE Open
  BY <1>1, <1>15, OpenOK
<1>16. CASE UNCHANGED vars
  <2>1. /\ UNCHANGED <<epoch, log, unread, cursor, toApp, requests>>
    BY <1>16 DEF vars, daemon, app
  <2>2. SyncInv' /\ ReaderStays
    BY <2>1, Asks DEF SyncInv, Shapes
  <2>3. QED
    BY <1>1, <2>2
<1>17. QED
  BY <1>3, <1>4, <1>5, <1>6, <1>7, <1>8, <1>9, <1>10, <1>11, <1>12, <1>13, <1>14, <1>15, <1>16
     DEF Next, Proceed

\* In every state: the cursor of the app is at a row of the log or of an earlier
\* epoch, what is on its way to the app is of no earlier epoch than the cursor,
\* and a page that may replace the display ends no earlier than it.
THEOREM SyncInvariant == Spec => []SyncInv
<1>1. Init => SyncInv
  BY SyncInit
<1>2. SyncInv /\ [Next]_vars => SyncInv'
  BY SyncNext
<1>3. QED
  BY <1>1, <1>2, PTL DEF Spec

\* The daemon and the app implement TimelineReader, whatever is lost, given up,
\* overtaken or asked twice: within an epoch the cursor only moves on, to rows
\* that exist, and it is dropped only after the log has begun a later epoch.
THEOREM ReaderImplemented == Spec => ReaderSpec
<1>1. Init => SyncInv /\ Reader!Init
  BY SyncInit
<1>2. SyncInv /\ [Next]_vars => SyncInv' /\ [Reader!Next]_Reader!vars
  BY SyncNext DEF ReaderMoves
<1>3. QED
  BY <1>1, <1>2, PTL DEF Spec, ReaderSpec, Reader!Spec

-----------------------------------------------------------------------------
(* Folds.  What a fold computes for every sequence is shown step by step:    *)
(* there is a function of the number of elements taken that does the same.   *)

\* What holds of 0, and of k + 1 when of k, holds up to n.
LEMMA StepByStep ==
    ASSUME NEW n \in Nat, NEW T, 0 \in T, \A k \in 0..n - 1 : k \in T => k + 1 \in T
    PROVE  \A k \in 0..n : k \in T
<1> SUFFICES ASSUME NEW j \in 0..n, j \notin T
             PROVE  FALSE
  OBVIOUS
<1> DEFINE U == {k \in 0..n : k \notin T}
<1>1. U \in SUBSET Nat /\ U # {}
  OBVIOUS
<1>2. PICK k \in U : \A i \in U : k <= i
  BY <1>1, Least
<1>3. k \in 0..n /\ k \notin T /\ k # 0
  BY <1>2
<1>4. k - 1 \in 0..n - 1 /\ k - 1 \notin U /\ (k - 1) + 1 = k
  BY <1>2, <1>3
<1>5. QED
  BY <1>3, <1>4

\* Max is the greatest element.
LEMMA MaxGreatest ==
    ASSUME NEW n \in Nat, NEW T \in SUBSET (1..n), T # {}
    PROVE  Max(T) \in T /\ \A y \in T : y <= Max(T)
<1>1. T \in SUBSET (0..n)
  OBVIOUS
<1>2. \E x \in T : \A y \in T : y <= x
  BY <1>1, Greatest
<1>3. \E x \in T : \A y \in T : x >= y
  BY <1>2
<1>4. Max(T) \in T /\ \A y \in T : Max(T) >= y
  BY <1>3 DEF Max
<1>5. QED
  BY <1>4

\* The greatest of the first numbers is the last of them.
LEMMA FirstNumbers ==
    ASSUME NEW k \in Nat
    PROVE  /\ 1..(k + 1) # {} /\ Max(1..(k + 1)) = k + 1
           /\ (1..(k + 1)) \ {Max(1..(k + 1))} = 1..k
<1>1. k + 1 \in Nat /\ 1..(k + 1) \in SUBSET (1..(k + 1)) /\ k + 1 \in 1..(k + 1)
  OBVIOUS
<1>2. Max(1..(k + 1)) \in 1..(k + 1) /\ k + 1 <= Max(1..(k + 1))
  BY <1>1, MaxGreatest
<1>3. Max(1..(k + 1)) = k + 1
  BY <1>1, <1>2
<1>4. (1..(k + 1)) \ {k + 1} = 1..k
  OBVIOUS
<1>5. QED
  BY <1>1, <1>3, <1>4

\* A function by recursion on the greatest element of a set exists.
Recursive(g, n, S, base, G) ==
    /\ g \in [SUBSET (1..n) -> S]
    /\ \A s \in SUBSET (1..n) :
            g[s] = IF s = {} THEN base ELSE G[<<g[s \ {Max(s)}], Max(s)>>]

\* Recursion on the greatest element defines a function.
LEMMA FoldExists ==
    ASSUME NEW n \in Nat, NEW S, NEW base \in S, NEW G \in [S \X (1..n) -> S]
    PROVE  \E g : Recursive(g, n, S, base, G)
<1> DEFINE T == {k \in 0..n : \E g : Recursive(g, k, S, base, G)}
<1>1. 0 \in T
  <2>1. PICK g : g = [s \in SUBSET (1..0) |-> base]
    OBVIOUS
  <2>2. 1..0 = {} /\ \A s \in SUBSET (1..0) : s = {}
    OBVIOUS
  <2>3. g \in [SUBSET (1..0) -> S] /\ \A s \in SUBSET (1..0) : g[s] = base
    BY <2>1
  <2>4. Recursive(g, 0, S, base, G)
    BY <2>2, <2>3 DEF Recursive
  <2>5. QED
    BY <2>4
<1>2. ASSUME NEW k \in 0..n - 1, k \in T
      PROVE  k + 1 \in T
  <2>1. PICK h : Recursive(h, k, S, base, G)
    BY <1>2
  <2>2. /\ k \in Nat /\ k + 1 \in 1..n /\ k + 1 \in 0..n /\ k + 1 \in Nat
    OBVIOUS
  <2> DEFINE less(s) == s \ {k + 1}
             V(s) == IF s \in SUBSET (1..k) THEN h[s] ELSE G[<<h[less(s)], k + 1>>]
  <2>3. ASSUME NEW s \in SUBSET (1..(k + 1))
        PROVE  /\ less(s) \in SUBSET (1..k)
               /\ s \notin SUBSET (1..k) => k + 1 \in s /\ s # {} /\ Max(s) = k + 1
               /\ V(s) \in S
    <3>1. less(s) \in SUBSET (1..k)
      BY <2>2
    <3>2. ASSUME s \notin SUBSET (1..k)
          PROVE  k + 1 \in s /\ s # {} /\ Max(s) = k + 1
      <4>1. k + 1 \in s /\ s # {}
        BY <2>2, <3>2
      <4>2. Max(s) \in s /\ k + 1 <= Max(s)
        BY <2>2, <4>1, MaxGreatest
      <4>3. Max(s) \in 1..(k + 1)
        BY <4>2
      <4>4. QED
        BY <2>2, <4>1, <4>2, <4>3
    <3>3. h[less(s)] \in S /\ (s \in SUBSET (1..k) => h[s] \in S)
      BY <2>1, <3>1 DEF Recursive
    <3>4. V(s) \in S
      BY <2>2, <3>3
    <3>5. QED
      BY <3>1, <3>2, <3>4
  <2>4. PICK g : g = [s \in SUBSET (1..(k + 1)) |-> V(s)]
    OBVIOUS
  <2>5. g \in [SUBSET (1..(k + 1)) -> S]
    <3> HIDE DEF V
    <3>1. QED
      BY <2>3, <2>4
  <2>6. ASSUME NEW s \in SUBSET (1..(k + 1))
        PROVE  g[s] = IF s = {} THEN base ELSE G[<<g[s \ {Max(s)}], Max(s)>>]
    <3>1. g[s] = V(s)
      BY <2>4
    <3>2. CASE s \in SUBSET (1..k)
      <4>1. g[s] = h[s] /\ h[s] = IF s = {} THEN base ELSE G[<<h[s \ {Max(s)}], Max(s)>>]
        BY <2>1, <3>1, <3>2 DEF Recursive
      <4>2. s \ {Max(s)} \in SUBSET (1..k) /\ s \ {Max(s)} \in SUBSET (1..(k + 1))
        BY <3>2
      <4>3. g[s \ {Max(s)}] = h[s \ {Max(s)}]
        BY <2>4, <4>2
      <4>4. QED
        BY <4>1, <4>3
    <3>3. CASE s \notin SUBSET (1..k)
      <4>1. s # {} /\ Max(s) = k + 1 /\ less(s) \in SUBSET (1..k)
        BY <2>3, <3>3
      <4>2. g[s] = G[<<h[less(s)], k + 1>>]
        BY <3>1, <3>3
      <4>3. less(s) \in SUBSET (1..(k + 1))
        BY <4>1
      <4>4. g[less(s)] = h[less(s)]
        BY <2>4, <4>1, <4>3
      <4>5. QED
        BY <4>1, <4>2, <4>4
    <3>4. QED
      BY <3>2, <3>3
  <2>7. Recursive(g, k + 1, S, base, G)
    BY <2>5, <2>6 DEF Recursive
  <2>8. QED
    BY <2>2, <2>7
<1> HIDE DEF T
<1>3. n \in T
  BY <1>1, <1>2, StepByStep
<1>4. QED
  BY <1>3 DEF T

\* Along the numbers: what it computes from the first k elements.
Along(h, n, S, base, G) ==
    /\ h \in [0..n -> S] /\ h[0] = base
    /\ \A k \in 0..n - 1 : h[k + 1] = G[<<h[k], k + 1>>]

\* What a step of it is.
LEMMA AlongSteps ==
    ASSUME NEW n \in Nat, NEW S, NEW base, NEW G, NEW h, Along(h, n, S, base, G),
           NEW k \in 0..n - 1
    PROVE  /\ k \in 0..n /\ k + 1 \in 1..n
           /\ h[k] \in S /\ h[k + 1] \in S /\ h[k + 1] = G[<<h[k], k + 1>>]
<1>1. k \in 0..n /\ k + 1 \in 0..n /\ k + 1 \in 1..n
  OBVIOUS
<1>2. QED
  BY <1>1 DEF Along

\* The recursive function does the same, one element after the other.
LEMMA FoldAlong ==
    ASSUME NEW n \in Nat, NEW S, NEW base \in S, NEW G \in [S \X (1..n) -> S],
           NEW g, Recursive(g, n, S, base, G)
    PROVE  \E h : Along(h, n, S, base, G) /\ h[n] = g[1..n]
<1>1. PICK h : h = [k \in 0..n |-> g[1..k]]
  OBVIOUS
<1>2. \A k \in 0..n : 1..k \in SUBSET (1..n)
  OBVIOUS
<1>3. h \in [0..n -> S] /\ h[n] = g[1..n] /\ \A k \in 0..n : h[k] = g[1..k]
  BY <1>1, <1>2 DEF Recursive
<1>4. h[0] = base
  <2>1. 1..0 = {} /\ 0 \in 0..n
    OBVIOUS
  <2>2. QED
    BY <1>2, <1>3, <2>1 DEF Recursive
<1>5. ASSUME NEW k \in 0..n - 1
      PROVE  h[k + 1] = G[<<h[k], k + 1>>]
  <2>1. /\ k \in 0..n /\ k + 1 \in 0..n /\ k + 1 \in Nat
        /\ 1..(k + 1) # {} /\ k + 1 \in 1..(k + 1)
    OBVIOUS
  <2>2. Max(1..(k + 1)) \in 1..(k + 1) /\ k + 1 <= Max(1..(k + 1))
    BY <2>1, MaxGreatest
  <2>3. Max(1..(k + 1)) = k + 1
    BY <2>1, <2>2
  <2>4. (1..(k + 1)) \ {k + 1} = 1..k
    BY <2>1
  <2>5. 1..(k + 1) \in SUBSET (1..n)
    BY <1>2, <2>1
  <2>6. g[1..(k + 1)] = G[<<g[(1..(k + 1)) \ {Max(1..(k + 1))}], Max(1..(k + 1))>>]
    BY <2>1, <2>5 DEF Recursive
  <2>7. QED
    BY <1>3, <2>1, <2>3, <2>4, <2>6
<1>6. QED
  BY <1>3, <1>4, <1>5 DEF Along

\* So does any function that takes the same steps from values of its range.
Climbs(f, n, S, base, G) ==
    /\ f[{}] = base
    /\ \A s \in SUBSET (1..n) : s # {} /\ f[s \ {Max(s)}] \in S =>
            f[s] = G[<<f[s \ {Max(s)}], Max(s)>>]

\* It gets to the value of the fold that way.
Reaches(f, n, S, base, G) == \E h : Along(h, n, S, base, G) /\ h[n] = f[1..n]

\* A function that climbs gets to its value step by step.
LEMMA FoldSteps ==
    ASSUME NEW n \in Nat, NEW S, NEW base \in S, NEW G \in [S \X (1..n) -> S],
           NEW f, Climbs(f, n, S, base, G)
    PROVE  Reaches(f, n, S, base, G)
<1>1. PICK g : Recursive(g, n, S, base, G)
  BY FoldExists
<1>2. PICK h : Along(h, n, S, base, G)
  BY <1>1, FoldAlong
<1> DEFINE T == {k \in 0..n : f[1..k] = h[k]}
<1>3. 0 \in T
  <2>1. 1..0 = {} /\ 0 \in 0..n
    OBVIOUS
  <2>2. QED
    BY <1>2, <2>1 DEF Along, Climbs
<1>4. ASSUME NEW k \in 0..n - 1, k \in T
      PROVE  k + 1 \in T
  <2>1. k \in Nat /\ k \in 0..n /\ k + 1 \in 0..n /\ 1..(k + 1) \in SUBSET (1..n)
    OBVIOUS
  <2>2. /\ 1..(k + 1) # {} /\ Max(1..(k + 1)) = k + 1
        /\ (1..(k + 1)) \ {Max(1..(k + 1))} = 1..k
    BY <2>1, FirstNumbers
  <2>3. f[1..k] = h[k] /\ h[k] \in S /\ h[k + 1] = G[<<h[k], k + 1>>]
    BY <1>2, <1>4, <2>1 DEF Along
  <2>4. f[1..(k + 1)] = G[<<f[1..k], k + 1>>]
    BY <2>1, <2>2, <2>3 DEF Climbs
  <2>5. QED
    BY <2>1, <2>3, <2>4
<1> HIDE DEF T
<1>5. n \in T
  BY <1>3, <1>4, StepByStep
<1>6. QED
  BY <1>2, <1>5 DEF T, Reaches

-----------------------------------------------------------------------------
(* The view *)

\* An entry of a page.
EntryShape == [kind: Kinds, text: Seq(RowIds)]

\* Messages never get into the head.
PlainKinds == Kinds \ {"message"}
PlainItems == [kind: PlainKinds, id: Seq(RowIds) \X Nat, text: Seq(RowIds)]
Views == [tail: Seq(Items), head: Seq(PlainItems)]

\* They are items.
LEMMA PlainItemsOK == PlainItems \subseteq Items /\ Seq(PlainItems) \subseteq Seq(Items)
<1>1. PlainItems \subseteq Items
  BY DEF PlainItems, Items, PlainKinds
<1>2. QED
  BY <1>1

\* Item i is a message.
Message(items, i) == i \in 1..Len(items) /\ items[i].kind = "message"

\* The messages stay at their places, ...
SameMessages(old, new) ==
    \A i \in Nat :
        /\ Message(old, i) <=> Message(new, i)
        /\ Message(old, i) => new[i].text = old[i].text

\* ... or one more comes after them.
OneMore(old, new, text) ==
    \E j \in Nat :
        /\ Message(new, j) /\ new[j].text = text
        /\ \A i \in Nat :
              /\ Message(new, i) <=> i = j \/ Message(old, i)
              /\ Message(old, i) => i < j /\ new[i].text = old[i].text

\* A row, or an entry, of a kind is shown.
Grown(old, new, kind, text) ==
    /\ kind # "message" => SameMessages(old, new)
    /\ kind = "message" => OneMore(old, new, text)

\* Messages that stay, and stay again, stay.
LEMMA SameTrans ==
    ASSUME NEW a, NEW b, NEW c, SameMessages(a, b), SameMessages(b, c)
    PROVE  SameMessages(a, c)
BY DEF SameMessages

\* What comes after messages that stay comes after those there were.
LEMMA SameGrown ==
    ASSUME NEW a, NEW b, NEW c, NEW kind, NEW text, SameMessages(a, b), Grown(b, c, kind, text)
    PROVE  Grown(a, c, kind, text)
<1>1. CASE kind # "message"
  BY <1>1, SameTrans DEF Grown
<1>2. CASE kind = "message"
  <2>1. OneMore(b, c, text)
    BY <1>2 DEF Grown
  <2>2. OneMore(a, c, text)
    BY <2>1, Zenon DEF OneMore, SameMessages
  <2>3. QED
    BY <1>2, <2>2 DEF Grown
<1>3. QED
  BY <1>1, <1>2

\* One item more, or one with a longer text that is no message.
LEMMA ReducedOK ==
    ASSUME NEW items \in Seq(Items), NEW kind \in Kinds, NEW text \in Seq(RowIds)
    PROVE  /\ Reduced(items, kind, text) \in Seq(Items) /\ Reduced(items, kind, text) # <<>>
           /\ Grown(items, Reduced(items, kind, text), kind, text)
           /\ items \in Seq(PlainItems) /\ kind # "message" =>
                  Reduced(items, kind, text) \in Seq(PlainItems)
<1> PICK out : out = Reduced(items, kind, text)
  OBVIOUS
<1> SUFFICES /\ out \in Seq(Items) /\ out # <<>> /\ Grown(items, out, kind, text)
             /\ items \in Seq(PlainItems) /\ kind # "message" => out \in Seq(PlainItems)
  OBVIOUS
<1> DEFINE new == [kind |-> kind, id |-> <<text, Len(items)>>, text |-> text]
<1>1. PICK n \in Nat : n = Len(items)
  OBVIOUS
<1>2. DOMAIN items = 1..n /\ \A i \in 1..n : items[i] \in Items
  BY <1>1
<1>3. CASE items # <<>> /\ kind # "message" /\ Last(items).kind = kind
  <2>1. n > 0 /\ n \in 1..n /\ items[n].kind = kind
    BY <1>1, <1>3 DEF Last
  <2>2. PICK r : r = [items EXCEPT ![n].text = items[n].text \o text]
    OBVIOUS
  <2>3. out = r
    BY <1>1, <1>3, <2>2 DEF Reduced
  <2>4. /\ DOMAIN r = 1..n /\ r[n] = [items[n] EXCEPT !.text = items[n].text \o text]
        /\ \A i \in 1..n : i # n => r[i] = items[i]
    BY <1>2, <2>1, <2>2
  <2>5. items[n] \in [kind: Kinds, id: Seq(RowIds) \X Nat, text: Seq(RowIds)]
    BY <1>2, <2>1 DEF Items
  <2>6. items[n].text \in Seq(RowIds)
    BY <2>5
  <2>7. items[n].text \o text \in Seq(RowIds)
    BY <2>6
  <2>8. r[n] \in Items /\ r[n].kind = kind
    BY <2>1, <2>4, <2>5, <2>7 DEF Items
  <2>9. r \in [1..n -> Items]
    BY <1>2, <2>2, <2>4, <2>8
  <2>10. r \in Seq(Items) /\ Len(r) = n /\ r # <<>>
    BY <1>1, <2>1, <2>9
  <2>11. SameMessages(items, r)
    BY <1>1, <1>3, <2>1, <2>4, <2>8, <2>10 DEF SameMessages, Message
  <2>12. ASSUME items \in Seq(PlainItems)
         PROVE  r \in Seq(PlainItems)
    <3>1. \A i \in 1..n : items[i] \in PlainItems
      BY <1>1, <2>12
    <3>2. items[n] \in [kind: PlainKinds, id: Seq(RowIds) \X Nat, text: Seq(RowIds)]
      BY <2>1, <3>1 DEF PlainItems
    <3>3. r[n] \in PlainItems
      BY <2>4, <2>7, <3>2 DEF PlainItems
    <3>4. r \in [1..n -> PlainItems]
      BY <2>2, <1>2, <2>4, <3>1, <3>3
    <3>5. QED
      BY <1>1, <3>4
  <2>13. QED
    BY <1>3, <2>3, <2>10, <2>11, <2>12 DEF Grown
<1>4. CASE ~(items # <<>> /\ kind # "message" /\ Last(items).kind = kind)
  <2>1. out = Append(items, new)
    BY <1>4 DEF Reduced
  <2>2. /\ new \in Items /\ new.kind = kind /\ new.text = text
        /\ kind # "message" => new \in PlainItems
    BY <1>1 DEF Items, PlainItems, PlainKinds
  <2> HIDE DEF new
  <2>3. /\ out \in Seq(Items) /\ Len(out) = n + 1 /\ out # <<>> /\ out[n + 1] = new
        /\ \A i \in 1..n : out[i] = items[i]
        /\ items \in Seq(PlainItems) /\ kind # "message" => out \in Seq(PlainItems)
    BY <1>1, <2>1, <2>2
  <2>4. Grown(items, out, kind, text)
    <3>1. CASE kind # "message"
      <4>1. SameMessages(items, out)
        BY <1>1, <2>2, <2>3, <3>1 DEF SameMessages, Message
      <4>2. QED
        BY <3>1, <4>1 DEF Grown
    <3>2. CASE kind = "message"
      <4>1. Message(out, n + 1) /\ out[n + 1].text = text /\ n + 1 \in Nat
        BY <1>1, <2>2, <2>3, <3>2 DEF Message
      <4>2. ASSUME NEW i \in Nat
            PROVE  /\ Message(out, i) <=> i = n + 1 \/ Message(items, i)
                   /\ Message(items, i) => i < n + 1 /\ out[i].text = items[i].text
        BY <1>1, <2>2, <2>3, <3>2 DEF Message
      <4>3. OneMore(items, out, text)
        BY <4>1, <4>2 DEF OneMore
      <4>4. QED
        BY <3>2, <4>3 DEF Grown
    <3>3. QED
      BY <3>1, <3>2
  <2>5. QED
    BY <2>3, <2>4
<1>5. QED
  BY <1>3, <1>4

\* The rule of the fold in Hydrated, and what it chooses.
HydratesRule(f, base, seq) ==
    f = [s \in SUBSET DOMAIN seq |->
            IF s = {} THEN base ELSE Reduced(f[s \ {Max(s)}], seq[Max(s)].kind, seq[Max(s)].text)]

HydratesOn(base, seq) == CHOOSE f : HydratesRule(f, base, seq)

\* Entry by entry.
HydratesBy(h, n, base, seq) ==
    /\ h \in [0..n -> Seq(Items)] /\ h[0] = base
    /\ \A k \in 0..n - 1 : h[k + 1] = Reduced(h[k], seq[k + 1].kind, seq[k + 1].text)

\* Hydrated puts the entries into the view one by one.
LEMMA HydratesSteps ==
    ASSUME NEW base \in Seq(Items), NEW seq \in Seq(EntryShape)
    PROVE  \E h : HydratesBy(h, Len(seq), base, seq)
                  /\ h[Len(seq)] = Hydrated(base, seq)
<1>1. PICK n \in Nat : n = Len(seq)
  OBVIOUS
<1>2. DOMAIN seq = 1..n /\ \A k \in 1..n : seq[k] \in EntryShape
  BY <1>1
<1> DEFINE op(v, k) == Reduced(v, seq[k].kind, seq[k].text)
<1>3. PICK G : G = [x \in Seq(Items) \X (1..n) |-> op(x[1], x[2])]
  OBVIOUS
<1>4. \A v \in Seq(Items) : \A k \in 1..n : op(v, k) \in Seq(Items)
  <2> SUFFICES ASSUME NEW v \in Seq(Items), NEW k \in 1..n
               PROVE  Reduced(v, seq[k].kind, seq[k].text) \in Seq(Items)
    OBVIOUS
  <2>1. seq[k].kind \in Kinds /\ seq[k].text \in Seq(RowIds)
    BY <1>2 DEF EntryShape
  <2>2. QED
    BY <2>1, ReducedOK
<1>5. PICK f : f = HydratesOn(base, seq)
  OBVIOUS
<1>6. Hydrated(base, seq) = f[1..n]
  BY <1>2, <1>5, Zenon DEF Hydrated, HydratesOn, HydratesRule, FoldLeft, MapThenFoldSet
<1> HIDE DEF op
<1>7. \A v \in Seq(Items) : \A k \in 1..n : G[<<v, k>>] = op(v, k)
  BY <1>3
<1>8. G \in [Seq(Items) \X (1..n) -> Seq(Items)]
  <2>1. \A x \in Seq(Items) \X (1..n) : op(x[1], x[2]) \in Seq(Items)
    BY <1>4
  <2>2. QED
    BY <1>3, <2>1
<1>9. ASSUME NEW s \in SUBSET (1..n), s # {}
       PROVE  Max(s) \in 1..n /\ s \ {Max(s)} \in SUBSET (1..n)
  BY <1>1, <1>9, MaxGreatest
<1>10. PICK g : Recursive(g, n, Seq(Items), base, G)
  BY <1>1, <1>8, FoldExists
<1>11. HydratesRule(g, base, seq)
  <2>1. ASSUME NEW s \in SUBSET (1..n), s # {}
        PROVE  g[s] = op(g[s \ {Max(s)}], Max(s))
    <3>1. g[s \ {Max(s)}] \in Seq(Items) /\ g[s] = G[<<g[s \ {Max(s)}], Max(s)>>]
      BY <1>9, <1>10, <2>1 DEF Recursive
    <3>2. QED
      BY <1>7, <1>9, <2>1, <3>1
  <2>2. g \in [SUBSET (1..n) -> Seq(Items)] /\ g[{}] = base
    BY <1>10 DEF Recursive
  <2>3. g = [s \in SUBSET (1..n) |-> IF s = {} THEN base ELSE op(g[s \ {Max(s)}], Max(s))]
    BY <2>1, <2>2
  <2>4. QED
    BY <1>2, <2>3, Zenon DEF HydratesRule, op
<1>12. f = [s \in SUBSET (1..n) |-> IF s = {} THEN base ELSE op(f[s \ {Max(s)}], Max(s))]
  <2>1. HydratesRule(f, base, seq)
    BY <1>5, <1>11, Zenon DEF HydratesOn
  <2>2. QED
    BY <1>2, <2>1, Zenon DEF HydratesRule, op
<1>13. ASSUME NEW s \in SUBSET (1..n), s # {}, f[s \ {Max(s)}] \in Seq(Items)
       PROVE  f[s] = G[<<f[s \ {Max(s)}], Max(s)>>]
  BY <1>7, <1>9, <1>12, <1>13
<1>14. f[{}] = base
  BY <1>12
<1>15. PICK h : Along(h, n, Seq(Items), base, G) /\ h[n] = f[1..n]
  <2>1. Climbs(f, n, Seq(Items), base, G)
    BY <1>13, <1>14 DEF Climbs
  <2>2. n \in Nat /\ base \in Seq(Items) /\ G \in [Seq(Items) \X (1..n) -> Seq(Items)]
    BY <1>1, <1>8
  <2>3. Reaches(f, n, Seq(Items), base, G)
    BY <2>1, <2>2, FoldSteps, Zenon
  <2>4. QED
    BY <2>3, Zenon DEF Reaches
<1>16. ASSUME NEW k \in 0..n - 1
       PROVE  h[k + 1] = op(h[k], k + 1)
  <2>1. k \in 0..n /\ k + 1 \in 1..n /\ h[k] \in Seq(Items) /\ h[k + 1] = G[<<h[k], k + 1>>]
    BY <1>1, <1>15, AlongSteps
  <2>2. QED
    BY <1>7, <2>1
<1>17. HydratesBy(h, n, base, seq)
  BY <1>15, <1>16 DEF Along, op, HydratesBy
<1>18. QED
  BY <1>1, <1>6, <1>15, <1>17


\* Messages stay where nothing changes.
LEMMA SameSelf == \A items : SameMessages(items, items)
BY DEF SameMessages

\* Other items after them leave the messages where they are.
LEMMA PlainAfter ==
    ASSUME NEW a \in Seq(Items), NEW b \in Seq(PlainItems)
    PROVE  a \o b \in Seq(Items) /\ SameMessages(a, a \o b)
<1>1. b \in Seq(Items) /\ \A i \in 1..Len(b) : b[i].kind # "message"
  <2>1. \A x \in PlainItems : x.kind # "message"
    BY DEF PlainItems, PlainKinds
  <2>2. QED
    BY <2>1, PlainItemsOK
<1>2. a \o b \in Seq(Items)
  BY <1>1
<1>3. PICK c : c = a \o b
  OBVIOUS
<1>4. /\ Len(a) \in Nat /\ Len(b) \in Nat /\ Len(c) = Len(a) + Len(b)
      /\ \A i \in 1..Len(a) : c[i] = a[i]
      /\ \A i \in Nat : i \in Len(a) + 1..Len(c) => c[i] = b[i - Len(a)] /\ i - Len(a) \in 1..Len(b)
  BY <1>1, <1>3
<1>5. ASSUME NEW i \in Nat
      PROVE  /\ Message(a, i) <=> Message(c, i)
             /\ Message(a, i) => c[i].text = a[i].text
  <2>1. CASE i \in 1..Len(a)
    BY <1>4, <2>1 DEF Message
  <2>2. CASE i \in Len(a) + 1..Len(c)
    <3>1. c[i].kind # "message" /\ i \notin 1..Len(a)
      BY <1>1, <1>4, <2>2
    <3>2. QED
      BY <3>1 DEF Message
  <2>3. CASE i = 0 \/ i > Len(c)
    BY <1>4, <2>3 DEF Message
  <2>4. QED
    BY <1>4, <2>1, <2>2, <2>3
<1>6. QED
  BY <1>2, <1>3, <1>5 DEF SameMessages

\* The items of the head that the tail does not have: the fold in Flushed.
NewOnes(items, base, seq) ==
    FoldLeft(LAMBDA acc, h : IF \A i \in DOMAIN items : items[i].id # h.id
                             THEN Append(acc, h) ELSE acc, base, seq)

\* Its rule, and what it chooses.
FlushesRule(f, items, base, seq) ==
    f = [s \in SUBSET DOMAIN seq |->
            IF s = {} THEN base
            ELSE IF \A i \in DOMAIN items : items[i].id # seq[Max(s)].id
            THEN Append(f[s \ {Max(s)}], seq[Max(s)])
            ELSE f[s \ {Max(s)}]]

FlushesOn(items, base, seq) == CHOOSE f : FlushesRule(f, items, base, seq)

\* Item by item, those the tail has left out.
FlushesBy(h, n, items, base, seq) ==
    /\ h \in [0..n -> Seq(PlainItems)] /\ h[0] = base
    /\ \A k \in 0..n - 1 :
            h[k + 1] = IF \A i \in DOMAIN items : items[i].id # seq[k + 1].id
                       THEN Append(h[k], seq[k + 1]) ELSE h[k]

\* It goes through the head item by item.
LEMMA FlushesSteps ==
    ASSUME NEW items, NEW base \in Seq(PlainItems), NEW seq \in Seq(PlainItems)
    PROVE  \E h : FlushesBy(h, Len(seq), items, base, seq)
                  /\ h[Len(seq)] = NewOnes(items, base, seq)
<1>1. PICK n \in Nat : n = Len(seq)
  OBVIOUS
<1>2. DOMAIN seq = 1..n /\ \A k \in 1..n : seq[k] \in PlainItems
  BY <1>1
<1> DEFINE op(v, k) == IF \A i \in DOMAIN items : items[i].id # seq[k].id THEN Append(v, seq[k]) ELSE v
<1>3. PICK G : G = [x \in Seq(PlainItems) \X (1..n) |-> op(x[1], x[2])]
  OBVIOUS
<1>4. \A v \in Seq(PlainItems) : \A k \in 1..n : op(v, k) \in Seq(PlainItems)
  <2> SUFFICES ASSUME NEW v \in Seq(PlainItems), NEW k \in 1..n
               PROVE  Append(v, seq[k]) \in Seq(PlainItems)
    BY Zenon
  <2>1. QED
    BY <1>2
<1>5. PICK f : f = FlushesOn(items, base, seq)
  OBVIOUS
<1>6. NewOnes(items, base, seq) = f[1..n]
  BY <1>2, <1>5, Zenon DEF NewOnes, FlushesOn, FlushesRule, FoldLeft, MapThenFoldSet
<1> HIDE DEF op
<1>7. \A v \in Seq(PlainItems) : \A k \in 1..n : G[<<v, k>>] = op(v, k)
  BY <1>3
<1>8. G \in [Seq(PlainItems) \X (1..n) -> Seq(PlainItems)]
  <2>1. \A x \in Seq(PlainItems) \X (1..n) : op(x[1], x[2]) \in Seq(PlainItems)
    BY <1>4
  <2>2. QED
    BY <1>3, <2>1
<1>9. ASSUME NEW s \in SUBSET (1..n), s # {}
       PROVE  Max(s) \in 1..n /\ s \ {Max(s)} \in SUBSET (1..n)
  BY <1>1, <1>9, MaxGreatest
<1>10. PICK g : Recursive(g, n, Seq(PlainItems), base, G)
  BY <1>1, <1>8, FoldExists
<1>11. FlushesRule(g, items, base, seq)
  <2>1. ASSUME NEW s \in SUBSET (1..n), s # {}
        PROVE  g[s] = op(g[s \ {Max(s)}], Max(s))
    <3>1. g[s \ {Max(s)}] \in Seq(PlainItems) /\ g[s] = G[<<g[s \ {Max(s)}], Max(s)>>]
      BY <1>9, <1>10, <2>1 DEF Recursive
    <3>2. QED
      BY <1>7, <1>9, <2>1, <3>1
  <2>2. g \in [SUBSET (1..n) -> Seq(PlainItems)] /\ g[{}] = base
    BY <1>10 DEF Recursive
  <2>3. g = [s \in SUBSET (1..n) |-> IF s = {} THEN base ELSE op(g[s \ {Max(s)}], Max(s))]
    BY <2>1, <2>2
  <2>4. QED
    BY <1>2, <2>3, Zenon DEF FlushesRule, op
<1>12. f = [s \in SUBSET (1..n) |-> IF s = {} THEN base ELSE op(f[s \ {Max(s)}], Max(s))]
  <2>1. FlushesRule(f, items, base, seq)
    BY <1>5, <1>11, Zenon DEF FlushesOn
  <2>2. QED
    BY <1>2, <2>1, Zenon DEF FlushesRule, op
<1>13. ASSUME NEW s \in SUBSET (1..n), s # {}, f[s \ {Max(s)}] \in Seq(PlainItems)
       PROVE  f[s] = G[<<f[s \ {Max(s)}], Max(s)>>]
  BY <1>7, <1>9, <1>12, <1>13
<1>14. f[{}] = base
  BY <1>12
<1>15. PICK h : Along(h, n, Seq(PlainItems), base, G) /\ h[n] = f[1..n]
  <2>1. Climbs(f, n, Seq(PlainItems), base, G)
    BY <1>13, <1>14 DEF Climbs
  <2>2. n \in Nat /\ base \in Seq(PlainItems) /\ G \in [Seq(PlainItems) \X (1..n) -> Seq(PlainItems)]
    BY <1>1, <1>8
  <2>3. Reaches(f, n, Seq(PlainItems), base, G)
    BY <2>1, <2>2, FoldSteps, Zenon
  <2>4. QED
    BY <2>3, Zenon DEF Reaches
<1>16. ASSUME NEW k \in 0..n - 1
       PROVE  h[k + 1] = op(h[k], k + 1)
  <2>1. k \in 0..n /\ k + 1 \in 1..n /\ h[k] \in Seq(PlainItems) /\ h[k + 1] = G[<<h[k], k + 1>>]
    BY <1>1, <1>15, AlongSteps
  <2>2. QED
    BY <1>7, <2>1
<1>17. FlushesBy(h, n, items, base, seq)
  BY <1>15, <1>16 DEF Along, op, FlushesBy
<1>18. QED
  BY <1>1, <1>6, <1>15, <1>17


\* Flushed leaves the messages where they are.
LEMMA FlushedOK ==
    ASSUME NEW v \in Views
    PROVE  /\ Flushed(v) \in Views /\ Flushed(v).head = <<>>
           /\ SameMessages(v.tail, Flushed(v).tail)
<1>1. v.tail \in Seq(Items) /\ v.head \in Seq(PlainItems) /\ <<>> \in Seq(PlainItems)
  BY DEF Views
<1>2. PICK items, new : items = v.tail /\ new = NewOnes(v.tail, <<>>, v.head)
  OBVIOUS
<1>3. PICK n \in Nat : n = Len(v.head)
  BY <1>1
<1>4. PICK h : FlushesBy(h, n, items, <<>>, v.head) /\ h[n] = new
  <2>1. PICK base, seq : base = <<>> /\ seq = v.head
    OBVIOUS
  <2>2. base \in Seq(PlainItems) /\ seq \in Seq(PlainItems)
    BY <1>1, <2>1
  <2>3. \E h : FlushesBy(h, Len(seq), items, base, seq) /\ h[Len(seq)] = NewOnes(items, base, seq)
    BY <2>2, FlushesSteps
  <2>4. QED
    BY <1>2, <1>3, <2>1, <2>3
<1>5. new \in Seq(PlainItems)
  <2>1. n \in 0..n
    BY <1>3
  <2>2. QED
    BY <1>4, <2>1 DEF FlushesBy
<1>6. Flushed(v) = [tail |-> v.tail \o new, head |-> <<>>]
  BY <1>2, Zenon DEF Flushed, NewOnes
<1>7. v.tail \o new \in Seq(Items) /\ SameMessages(v.tail, v.tail \o new)
  BY <1>1, <1>5, PlainAfter
<1>8. QED
  BY <1>1, <1>6, <1>7 DEF Views

\* The last item, if it is not a message, may be taken from the tail.
LEMMA FrontSame ==
    ASSUME NEW items \in Seq(Items), items # <<>>, Last(items).kind # "message"
    PROVE  /\ Front(items) \in Seq(Items) /\ Last(items) \in PlainItems
           /\ SameMessages(items, Front(items))
<1>1. PICK n \in Nat : n = Len(items)
  OBVIOUS
<1>2. n > 0 /\ n - 1 \in Nat /\ items[n] \in Items /\ items[n].kind # "message"
  BY <1>1 DEF Last
<1>3. PICK f : f = Front(items)
  OBVIOUS
<1>4. f \in Seq(Items) /\ Len(f) = n - 1 /\ \A i \in 1..n - 1 : f[i] = items[i]
  BY <1>1, <1>2, <1>3 DEF Front
<1>5. SameMessages(items, f)
  BY <1>1, <1>2, <1>4 DEF SameMessages, Message
<1>6. items[n] \in PlainItems
  BY <1>2 DEF Items, PlainItems, PlainKinds
<1>7. QED
  BY <1>1, <1>3, <1>4, <1>5, <1>6 DEF Last

\* So does Resumed.
LEMMA ResumedOK ==
    ASSUME NEW v \in Views
    PROVE  /\ Resumed(v) \in Views /\ SameMessages(v.tail, Resumed(v).tail)
           /\ v.head # <<>> => Resumed(v) = v
<1>1. v.tail \in Seq(Items) /\ v.head \in Seq(PlainItems)
  BY DEF Views
<1>2. CASE v.head = <<>> /\ v.tail # <<>> /\ Last(v.tail).kind = "assistant"
  <2>1. /\ Front(v.tail) \in Seq(Items) /\ Last(v.tail) \in PlainItems
        /\ SameMessages(v.tail, Front(v.tail))
    BY <1>1, <1>2, FrontSame
  <2>2. Resumed(v) = [tail |-> Front(v.tail), head |-> <<Last(v.tail)>>]
    BY <1>2 DEF Resumed
  <2>3. <<Last(v.tail)>> \in Seq(PlainItems)
    BY <2>1
  <2>4. QED
    BY <1>2, <2>1, <2>2, <2>3 DEF Views
<1>3. CASE ~(v.head = <<>> /\ v.tail # <<>> /\ Last(v.tail).kind = "assistant")
  <2>1. Resumed(v) = v
    BY <1>3 DEF Resumed
  <2>2. QED
    BY <2>1, SameSelf
<1>4. QED
  BY <1>2, <1>3

\* A row that is applied is shown, after all messages if it is one.
LEMMA AppliedOK ==
    ASSUME NEW v \in Views, NEW kind \in Kinds, NEW text \in Seq(RowIds)
    PROVE  Applied(v, kind, text) \in Views /\ Grown(v.tail, Applied(v, kind, text).tail, kind, text)
<1>1. PICK s : s = IF v.head # <<>> /\ (kind = "message" \/ Last(v.head).kind # kind)
                   THEN Flushed(v) ELSE v
  OBVIOUS
<1>2. s \in Views /\ SameMessages(v.tail, s.tail)
  BY <1>1, FlushedOK, SameSelf
<1>3. PICK r : r = IF kind = "assistant" THEN Resumed(s) ELSE s
  OBVIOUS
<1>4. r \in Views /\ SameMessages(s.tail, r.tail)
  BY <1>2, <1>3, ResumedOK, SameSelf
<1>5. SameMessages(v.tail, r.tail)
  BY <1>2, <1>4, SameTrans
<1>6. Applied(v, kind, text) = IF kind = "message" THEN [r EXCEPT !.tail = Reduced(@, kind, text)]
                               ELSE [r EXCEPT !.head = Reduced(@, kind, text)]
  BY <1>1, <1>3 DEF Applied
<1>7. r.tail \in Seq(Items) /\ r.head \in Seq(PlainItems) /\ r.head \in Seq(Items)
  BY <1>4, PlainItemsOK DEF Views
<1>8. CASE kind = "message"
  <2>1. PICK t : t = Reduced(r.tail, kind, text)
    OBVIOUS
  <2>2. t \in Seq(Items) /\ Grown(r.tail, t, kind, text)
    BY <1>7, <2>1, ReducedOK
  <2>3. Applied(v, kind, text) = [r EXCEPT !.tail = t]
    BY <1>6, <1>8, <2>1
  <2>4. Grown(v.tail, t, kind, text)
    BY <1>5, <2>2, SameGrown
  <2>5. QED
    BY <1>4, <2>2, <2>3, <2>4 DEF Views
<1>9. CASE kind # "message"
  <2>1. PICK t : t = Reduced(r.head, kind, text)
    OBVIOUS
  <2>2. t \in Seq(PlainItems)
    BY <1>7, <1>9, <2>1, ReducedOK
  <2>3. Applied(v, kind, text) = [r EXCEPT !.head = t]
    BY <1>6, <1>9, <2>1
  <2>4. Grown(v.tail, r.tail, kind, text)
    BY <1>5, <1>9 DEF Grown
  <2>5. QED
    BY <1>4, <2>2, <2>3, <2>4 DEF Views
<1>10. QED
  BY <1>8, <1>9

\* So is an entry.
LEMMA EntryAppliedOK ==
    ASSUME NEW v \in Views, NEW e \in EntryShape
    PROVE  EntryApplied(v, e) \in Views /\ Grown(v.tail, EntryApplied(v, e).tail, e.kind, e.text)
<1>1. e.kind \in Kinds /\ e.text \in Seq(RowIds)
  BY DEF EntryShape
<1>2. CASE e.kind = "assistant" /\ IsLive(v) /\ IsPrefix(Last(v.head).text, e.text)
  <2>1. PICK n \in Nat : n = Len(v.head)
    BY DEF Views
  <2>2. /\ v.head \in Seq(PlainItems) /\ v.head # <<>> /\ n > 0
    BY <1>2, <2>1 DEF Views, IsLive
  <2>3. PICK h : h = [v.head EXCEPT ![n].text = e.text]
    OBVIOUS
  <2>4. EntryApplied(v, e) = [v EXCEPT !.head = h]
    BY <1>2, <2>1, <2>3 DEF EntryApplied
  <2>5. v.head[n] \in [kind: PlainKinds, id: Seq(RowIds) \X Nat, text: Seq(RowIds)]
    <3>1. v.head[n] \in PlainItems
      BY <2>1, <2>2
    <3>2. QED
      BY <3>1 DEF PlainItems
  <2>6. [v.head[n] EXCEPT !.text = e.text] \in PlainItems
    BY <1>1, <2>5 DEF PlainItems
  <2>7. h \in Seq(PlainItems)
    <3>1. v.head \in [1..n -> PlainItems]
      BY <2>1, <2>2
    <3>2. h = [v.head EXCEPT ![n] = [v.head[n] EXCEPT !.text = e.text]]
      BY <2>3
    <3>3. h \in [1..n -> PlainItems]
      BY <2>6, <3>1, <3>2
    <3>4. QED
      BY <2>1, <3>3
  <2>8. [v EXCEPT !.head = h] \in Views /\ [v EXCEPT !.head = h].tail = v.tail
    BY <2>7 DEF Views
  <2>9. Grown(v.tail, v.tail, e.kind, e.text)
    BY <1>2, SameSelf DEF Grown
  <2>10. QED
    BY <2>4, <2>8, <2>9
<1>3. CASE ~(e.kind = "assistant" /\ IsLive(v) /\ IsPrefix(Last(v.head).text, e.text))
  <2>1. EntryApplied(v, e) = Applied(v, e.kind, e.text)
    BY <1>3 DEF EntryApplied
  <2>2. QED
    BY <1>1, <2>1, AppliedOK
<1>4. QED
  BY <1>2, <1>3

\* The rule of the fold in Extended, and what it chooses.
ExtendsRule(f, base, seq) ==
    f = [s \in SUBSET DOMAIN seq |->
            IF s = {} THEN base ELSE EntryApplied(f[s \ {Max(s)}], seq[Max(s)])]

ExtendsOn(base, seq) == CHOOSE f : ExtendsRule(f, base, seq)

\* Entry by entry.
ExtendsBy(h, n, base, seq) ==
    /\ h \in [0..n -> Views] /\ h[0] = base
    /\ \A k \in 0..n - 1 : h[k + 1] = EntryApplied(h[k], seq[k + 1])

\* Extended applies the entries one by one.
LEMMA ExtendsSteps ==
    ASSUME NEW base \in Views, NEW seq \in Seq(EntryShape)
    PROVE  \E h : ExtendsBy(h, Len(seq), base, seq)
                  /\ h[Len(seq)] = FoldLeft(EntryApplied, base, seq)
<1>1. PICK n \in Nat : n = Len(seq)
  OBVIOUS
<1>2. DOMAIN seq = 1..n /\ \A k \in 1..n : seq[k] \in EntryShape
  BY <1>1
<1> DEFINE op(v, k) == EntryApplied(v, seq[k])
<1>3. PICK G : G = [x \in Views \X (1..n) |-> op(x[1], x[2])]
  OBVIOUS
<1>4. \A v \in Views : \A k \in 1..n : op(v, k) \in Views
  BY <1>2, EntryAppliedOK
<1>5. PICK f : f = ExtendsOn(base, seq)
  OBVIOUS
<1>6. FoldLeft(EntryApplied, base, seq) = f[1..n]
  BY <1>2, <1>5, Zenon DEF ExtendsOn, ExtendsRule, FoldLeft, MapThenFoldSet
<1> HIDE DEF op
<1>7. \A v \in Views : \A k \in 1..n : G[<<v, k>>] = op(v, k)
  BY <1>3
<1>8. G \in [Views \X (1..n) -> Views]
  <2>1. \A x \in Views \X (1..n) : op(x[1], x[2]) \in Views
    BY <1>4
  <2>2. QED
    BY <1>3, <2>1
<1>9. ASSUME NEW s \in SUBSET (1..n), s # {}
       PROVE  Max(s) \in 1..n /\ s \ {Max(s)} \in SUBSET (1..n)
  BY <1>1, <1>9, MaxGreatest
<1>10. PICK g : Recursive(g, n, Views, base, G)
  BY <1>1, <1>8, FoldExists
<1>11. ExtendsRule(g, base, seq)
  <2>1. ASSUME NEW s \in SUBSET (1..n), s # {}
        PROVE  g[s] = op(g[s \ {Max(s)}], Max(s))
    <3>1. g[s \ {Max(s)}] \in Views /\ g[s] = G[<<g[s \ {Max(s)}], Max(s)>>]
      BY <1>9, <1>10, <2>1 DEF Recursive
    <3>2. QED
      BY <1>7, <1>9, <2>1, <3>1
  <2>2. g \in [SUBSET (1..n) -> Views] /\ g[{}] = base
    BY <1>10 DEF Recursive
  <2>3. g = [s \in SUBSET (1..n) |-> IF s = {} THEN base ELSE op(g[s \ {Max(s)}], Max(s))]
    BY <2>1, <2>2
  <2>4. QED
    BY <1>2, <2>3, Zenon DEF ExtendsRule, op
<1>12. f = [s \in SUBSET (1..n) |-> IF s = {} THEN base ELSE op(f[s \ {Max(s)}], Max(s))]
  <2>1. ExtendsRule(f, base, seq)
    BY <1>5, <1>11, Zenon DEF ExtendsOn
  <2>2. QED
    BY <1>2, <2>1, Zenon DEF ExtendsRule, op
<1>13. ASSUME NEW s \in SUBSET (1..n), s # {}, f[s \ {Max(s)}] \in Views
       PROVE  f[s] = G[<<f[s \ {Max(s)}], Max(s)>>]
  BY <1>7, <1>9, <1>12, <1>13
<1>14. f[{}] = base
  BY <1>12
<1>15. PICK h : Along(h, n, Views, base, G) /\ h[n] = f[1..n]
  <2>1. Climbs(f, n, Views, base, G)
    BY <1>13, <1>14 DEF Climbs
  <2>2. n \in Nat /\ base \in Views /\ G \in [Views \X (1..n) -> Views]
    BY <1>1, <1>8
  <2>3. Reaches(f, n, Views, base, G)
    BY <2>1, <2>2, FoldSteps, Zenon
  <2>4. QED
    BY <2>3, Zenon DEF Reaches
<1>16. ASSUME NEW k \in 0..n - 1
       PROVE  h[k + 1] = op(h[k], k + 1)
  <2>1. k \in 0..n /\ k + 1 \in 1..n /\ h[k] \in Views /\ h[k + 1] = G[<<h[k], k + 1>>]
    BY <1>1, <1>15, AlongSteps
  <2>2. QED
    BY <1>7, <2>1
<1>17. ExtendsBy(h, n, base, seq)
  BY <1>15, <1>16 DEF Along, op, ExtendsBy
<1>18. QED
  BY <1>1, <1>6, <1>15, <1>17


\* The rule of the fold in Displayed, and what it chooses.
DisplaysRule(f, base, seq) ==
    f = [s \in SUBSET DOMAIN seq |->
            IF s = {} THEN base ELSE f[s \ {Max(s)}] \o seq[Max(s)].text]

DisplaysOn(base, seq) == CHOOSE f : DisplaysRule(f, base, seq)

\* Item by item.
DisplaysBy(h, n, base, seq) ==
    /\ h \in [0..n -> Seq(RowIds)] /\ h[0] = base
    /\ \A k \in 0..n - 1 : h[k + 1] = h[k] \o seq[k + 1].text

\* Displayed goes through the items one by one.
LEMMA DisplaysSteps ==
    ASSUME NEW base \in Seq(RowIds), NEW seq \in Seq(Items)
    PROVE  \E h : DisplaysBy(h, Len(seq), base, seq)
                  /\ h[Len(seq)] = FoldLeft(LAMBDA acc, i : acc \o i.text, base, seq)
<1>1. PICK n \in Nat : n = Len(seq)
  OBVIOUS
<1>2. DOMAIN seq = 1..n /\ \A k \in 1..n : seq[k] \in Items
  BY <1>1
<1> DEFINE op(v, k) == v \o seq[k].text
<1>3. PICK G : G = [x \in Seq(RowIds) \X (1..n) |-> op(x[1], x[2])]
  OBVIOUS
<1>4. \A v \in Seq(RowIds) : \A k \in 1..n : op(v, k) \in Seq(RowIds)
  <2> SUFFICES ASSUME NEW v \in Seq(RowIds), NEW k \in 1..n
               PROVE  v \o seq[k].text \in Seq(RowIds)
    OBVIOUS
  <2>1. seq[k] \in Items
    BY <1>2
  <2>2. seq[k].text \in Seq(RowIds)
    BY <2>1 DEF Items
  <2>3. QED
    BY <2>2
<1>5. PICK f : f = DisplaysOn(base, seq)
  OBVIOUS
<1>6. FoldLeft(LAMBDA acc, i : acc \o i.text, base, seq) = f[1..n]
  BY <1>2, <1>5, Zenon DEF DisplaysOn, DisplaysRule, FoldLeft, MapThenFoldSet
<1> HIDE DEF op
<1>7. \A v \in Seq(RowIds) : \A k \in 1..n : G[<<v, k>>] = op(v, k)
  BY <1>3
<1>8. G \in [Seq(RowIds) \X (1..n) -> Seq(RowIds)]
  <2>1. \A x \in Seq(RowIds) \X (1..n) : op(x[1], x[2]) \in Seq(RowIds)
    BY <1>4
  <2>2. QED
    BY <1>3, <2>1
<1>9. ASSUME NEW s \in SUBSET (1..n), s # {}
       PROVE  Max(s) \in 1..n /\ s \ {Max(s)} \in SUBSET (1..n)
  BY <1>1, <1>9, MaxGreatest
<1>10. PICK g : Recursive(g, n, Seq(RowIds), base, G)
  BY <1>1, <1>8, FoldExists
<1>11. DisplaysRule(g, base, seq)
  <2>1. ASSUME NEW s \in SUBSET (1..n), s # {}
        PROVE  g[s] = op(g[s \ {Max(s)}], Max(s))
    <3>1. g[s \ {Max(s)}] \in Seq(RowIds) /\ g[s] = G[<<g[s \ {Max(s)}], Max(s)>>]
      BY <1>9, <1>10, <2>1 DEF Recursive
    <3>2. QED
      BY <1>7, <1>9, <2>1, <3>1
  <2>2. g \in [SUBSET (1..n) -> Seq(RowIds)] /\ g[{}] = base
    BY <1>10 DEF Recursive
  <2>3. g = [s \in SUBSET (1..n) |-> IF s = {} THEN base ELSE op(g[s \ {Max(s)}], Max(s))]
    BY <2>1, <2>2
  <2>4. QED
    BY <1>2, <2>3, Zenon DEF DisplaysRule, op
<1>12. f = [s \in SUBSET (1..n) |-> IF s = {} THEN base ELSE op(f[s \ {Max(s)}], Max(s))]
  <2>1. DisplaysRule(f, base, seq)
    BY <1>5, <1>11, Zenon DEF DisplaysOn
  <2>2. QED
    BY <1>2, <2>1, Zenon DEF DisplaysRule, op
<1>13. ASSUME NEW s \in SUBSET (1..n), s # {}, f[s \ {Max(s)}] \in Seq(RowIds)
       PROVE  f[s] = G[<<f[s \ {Max(s)}], Max(s)>>]
  BY <1>7, <1>9, <1>12, <1>13
<1>14. f[{}] = base
  BY <1>12
<1>15. PICK h : Along(h, n, Seq(RowIds), base, G) /\ h[n] = f[1..n]
  <2>1. Climbs(f, n, Seq(RowIds), base, G)
    BY <1>13, <1>14 DEF Climbs
  <2>2. n \in Nat /\ base \in Seq(RowIds) /\ G \in [Seq(RowIds) \X (1..n) -> Seq(RowIds)]
    BY <1>1, <1>8
  <2>3. Reaches(f, n, Seq(RowIds), base, G)
    BY <2>1, <2>2, FoldSteps, Zenon
  <2>4. QED
    BY <2>3, Zenon DEF Reaches
<1>16. ASSUME NEW k \in 0..n - 1
       PROVE  h[k + 1] = op(h[k], k + 1)
  <2>1. k \in 0..n /\ k + 1 \in 1..n /\ h[k] \in Seq(RowIds) /\ h[k + 1] = G[<<h[k], k + 1>>]
    BY <1>1, <1>15, AlongSteps
  <2>2. QED
    BY <1>7, <2>1
<1>17. DisplaysBy(h, n, base, seq)
  BY <1>15, <1>16 DEF Along, op, DisplaysBy
<1>18. QED
  BY <1>1, <1>6, <1>15, <1>17


-----------------------------------------------------------------------------
(* What the view holds *)

\* A message with this text is among the items.
Holds(items, text) == \E i \in Nat : Message(items, i) /\ items[i].text = text

\* What is held stays held, and a message shown is held.
LEMMA GrownHolds ==
    ASSUME NEW old, NEW new, NEW kind, NEW text, Grown(old, new, kind, text)
    PROVE  /\ \A t : Holds(old, t) => Holds(new, t)
           /\ kind = "message" => Holds(new, text)
<1>1. CASE kind # "message"
  <2>1. SameMessages(old, new)
    BY <1>1 DEF Grown
  <2>2. QED
    BY <1>1, <2>1 DEF SameMessages, Holds
<1>2. CASE kind = "message"
  <2>1. PICK j \in Nat :
            /\ Message(new, j) /\ new[j].text = text
            /\ \A i \in Nat :
                  /\ Message(new, i) <=> i = j \/ Message(old, i)
                  /\ Message(old, i) => i < j /\ new[i].text = old[i].text
    BY <1>2 DEF Grown, OneMore
  <2>2. QED
    BY <2>1 DEF Holds
<1>3. QED
  BY <1>1, <1>2

\* Items that grow by the entries one after the other.
Grows(h, n, entries) ==
    \A k \in 0..n - 1 : Grown(h[k], h[k + 1], entries[k + 1].kind, entries[k + 1].text)

\* So it is along a sequence of entries.
LEMMA GrowsHolds ==
    ASSUME NEW n \in Nat, NEW h, NEW entries, Grows(h, n, entries)
    PROVE  /\ \A t : Holds(h[0], t) => Holds(h[n], t)
           /\ \A k \in 1..n : entries[k].kind = "message" => Holds(h[n], entries[k].text)
<1> DEFINE Held(k) ==
               /\ \A t : Holds(h[0], t) => Holds(h[k], t)
               /\ \A j \in 1..k : entries[j].kind = "message" => Holds(h[k], entries[j].text)
           T == {k \in 0..n : Held(k)}
<1>1. 0 \in T
  OBVIOUS
<1>2. ASSUME NEW k \in 0..n - 1, k \in T
      PROVE  k + 1 \in T
  <2>1. Held(k)
    BY <1>2
  <2>2. k \in Nat /\ k + 1 \in 0..n
    OBVIOUS
  <2>3. /\ \A t : Holds(h[k], t) => Holds(h[k + 1], t)
        /\ entries[k + 1].kind = "message" => Holds(h[k + 1], entries[k + 1].text)
    BY GrownHolds DEF Grows
  <2>4. \A j \in 1..k + 1 : j \in 1..k \/ j = k + 1
    BY <2>2
  <2>5. Held(k + 1)
    BY <2>1, <2>3, <2>4
  <2>6. QED
    BY <2>2, <2>5
<1> HIDE DEF T
<1>3. n \in T
  BY <1>1, <1>2, StepByStep
<1>4. QED
  BY <1>3 DEF T

\* Items that are what others become, entry by entry.
Filled(old, new, entries) ==
    \E h : /\ h[0] = old /\ h[Len(entries)] = new
           /\ Grows(h, Len(entries), entries)

\* A view, or a part of it, that has taken a page.
Taken(old, new, entries) ==
    /\ \A t : Holds(old, t) => Holds(new, t)
    /\ \A k \in 1..Len(entries) : entries[k].kind = "message" => Holds(new, entries[k].text)

\* Hydrated takes the entries in.
LEMMA HydratedOK ==
    ASSUME NEW items \in Seq(Items), NEW entries \in Seq(EntryShape)
    PROVE  /\ Hydrated(items, entries) \in Seq(Items)
           /\ entries # <<>> => Hydrated(items, entries) # <<>>
           /\ Taken(items, Hydrated(items, entries), entries)
           /\ Filled(items, Hydrated(items, entries), entries)
<1>1. PICK n \in Nat : n = Len(entries)
  OBVIOUS
<1>2. PICK h : HydratesBy(h, n, items, entries) /\ h[n] = Hydrated(items, entries)
  BY <1>1, HydratesSteps
<1>3. /\ \A k \in 0..n : h[k] \in Seq(Items)
      /\ h[0] = items
      /\ \A k \in 0..n - 1 : h[k + 1] = Reduced(h[k], entries[k + 1].kind, entries[k + 1].text)
  BY <1>2 DEF HydratesBy
<1>4. ASSUME NEW k \in 0..n - 1
      PROVE  /\ h[k + 1] # <<>>
             /\ Grown(h[k], h[k + 1], entries[k + 1].kind, entries[k + 1].text)
  <2>1. k \in 0..n /\ k + 1 \in 1..n
    BY <1>1
  <2>2. entries[k + 1] \in EntryShape
    BY <1>1, <2>1
  <2>3. /\ h[k] \in Seq(Items) /\ entries[k + 1].kind \in Kinds
        /\ entries[k + 1].text \in Seq(RowIds)
    BY <1>3, <2>1, <2>2 DEF EntryShape
  <2>4. QED
    BY <1>3, <2>3, ReducedOK
<1>5. Grows(h, n, entries)
  BY <1>4 DEF Grows
<1>6. Taken(items, h[n], entries)
  BY <1>1, <1>3, <1>5, GrowsHolds DEF Taken
<1>7. ASSUME entries # <<>>
      PROVE  h[n] # <<>>
  <2>1. n - 1 \in 0..n - 1 /\ (n - 1) + 1 = n
    BY <1>1, <1>7
  <2>2. QED
    BY <1>4, <2>1
<1>8. h[n] \in Seq(Items)
  <2>1. n \in 0..n
    BY <1>1
  <2>2. QED
    BY <1>3, <2>1
<1>9. Filled(items, h[n], entries)
  BY <1>1, <1>3, <1>5 DEF Filled
<1>10. QED
  BY <1>2, <1>6, <1>7, <1>8, <1>9

\* Extended takes the entries in.
LEMMA ExtendedOK ==
    ASSUME NEW v \in Views, NEW entries \in Seq(EntryShape)
    PROVE  /\ Extended(v, entries) \in Views
           /\ Taken(v.tail, Extended(v, entries).tail, entries)
           /\ Filled(v.tail, Extended(v, entries).tail, entries)
<1>1. CASE v.head = <<>>
  <2>1. PICK t : t = Hydrated(v.tail, entries)
    OBVIOUS
  <2>2. t \in Seq(Items) /\ Taken(v.tail, t, entries) /\ Filled(v.tail, t, entries)
    BY <2>1, HydratedOK DEF Views
  <2>3. Extended(v, entries) = [v EXCEPT !.tail = t]
    BY <1>1, <2>1 DEF Extended
  <2>4. QED
    BY <2>2, <2>3 DEF Views
<1>2. CASE v.head # <<>>
  <2>1. PICK n \in Nat : n = Len(entries)
    OBVIOUS
  <2>2. Extended(v, entries) = FoldLeft(EntryApplied, v, entries)
    BY <1>2 DEF Extended
  <2>3. PICK h : ExtendsBy(h, n, v, entries) /\ h[n] = Extended(v, entries)
    BY <2>1, <2>2, ExtendsSteps
  <2>4. /\ \A k \in 0..n : h[k] \in Views
        /\ h[0] = v
        /\ \A k \in 0..n - 1 : h[k + 1] = EntryApplied(h[k], entries[k + 1])
    BY <2>3 DEF ExtendsBy
  <2>5. PICK t : t = [k \in 0..n |-> h[k].tail]
    OBVIOUS
  <2>6. ASSUME NEW k \in 0..n - 1
        PROVE  Grown(t[k], t[k + 1], entries[k + 1].kind, entries[k + 1].text)
    <3>1. k \in 0..n /\ k + 1 \in 1..n /\ k + 1 \in 0..n
      BY <2>1
    <3>2. entries[k + 1] \in EntryShape /\ h[k] \in Views
      BY <2>1, <2>4, <3>1
    <3>3. Grown(h[k].tail, h[k + 1].tail, entries[k + 1].kind, entries[k + 1].text)
      BY <2>4, <3>2, EntryAppliedOK
    <3>4. QED
      BY <2>5, <3>1, <3>3
  <2>7. Grows(t, n, entries)
    BY <2>6 DEF Grows
  <2>8. 0 \in 0..n /\ n \in 0..n
    BY <2>1
  <2>9. Taken(t[0], t[n], entries)
    BY <2>1, <2>7, GrowsHolds DEF Taken
  <2>10. Filled(t[0], t[n], entries)
    BY <2>1, <2>7 DEF Filled
  <2>11. QED
    BY <2>3, <2>4, <2>5, <2>8, <2>9, <2>10
<1>3. QED
  BY <1>1, <1>2

\* The messages of two sequences of items put together.
LEMMA JoinedHolds ==
    ASSUME NEW a \in Seq(Items), NEW b \in Seq(Items)
    PROVE  /\ a \o b \in Seq(Items)
           /\ \A t : Holds(a, t) \/ Holds(b, t) => Holds(a \o b, t)
<1>1. PICK c : c = a \o b
  OBVIOUS
<1>2. /\ Len(a) \in Nat /\ Len(b) \in Nat /\ Len(c) = Len(a) + Len(b) /\ c \in Seq(Items)
      /\ \A i \in 1..Len(a) : c[i] = a[i]
      /\ \A i \in 1..Len(b) : c[Len(a) + i] = b[i]
  BY <1>1
<1>3. ASSUME NEW t, NEW i \in Nat, Message(a, i), a[i].text = t
      PROVE  Holds(c, t)
  <2>1. i \in 1..Len(c) /\ c[i] = a[i]
    BY <1>2, <1>3 DEF Message
  <2>2. QED
    BY <1>3, <2>1 DEF Message, Holds
<1>4. ASSUME NEW t, NEW i \in Nat, Message(b, i), b[i].text = t
      PROVE  Holds(c, t)
  <2>1. Len(a) + i \in Nat /\ Len(a) + i \in 1..Len(c) /\ c[Len(a) + i] = b[i]
    BY <1>2, <1>4 DEF Message
  <2>2. QED
    BY <1>4, <2>1 DEF Message, Holds
<1>5. QED
  BY <1>1, <1>2, <1>3, <1>4 DEF Holds

\* Nothing holds no message.
LEMMA EmptyHolds == <<>> \in Seq(Items) /\ \A t : ~Holds(<<>>, t)
BY DEF Holds, Message

\* Without the first item, if it is not a message.
LEMMA TailHolds ==
    ASSUME NEW items \in Seq(Items), items # <<>>, Head(items).kind # "message"
    PROVE  Tail(items) \in Seq(Items) /\ \A t : Holds(items, t) => Holds(Tail(items), t)
<1>1. PICK n \in Nat : n = Len(items)
  OBVIOUS
<1>2. PICK r : r = Tail(items)
  OBVIOUS
<1>3. n > 0 /\ r \in Seq(Items) /\ Len(r) = n - 1 /\ \A i \in 1..n - 1 : r[i] = items[i + 1]
  BY <1>1, <1>2
<1>4. ASSUME NEW t, NEW i \in Nat, Message(items, i), items[i].text = t
      PROVE  Holds(r, t)
  <2>1. i # 1 /\ i \in 1..n
    BY <1>1, <1>4 DEF Message
  <2>2. i - 1 \in Nat /\ i - 1 \in 1..n - 1 /\ (i - 1) + 1 = i
    BY <1>1, <2>1
  <2>3. r[i - 1] = items[i]
    BY <1>3, <2>2
  <2>4. QED
    BY <1>3, <1>4, <2>2, <2>3 DEF Message, Holds
<1>5. QED
  BY <1>2, <1>3, <1>4 DEF Holds

\* Prepended takes the entries in, and keeps what there was.
LEMMA PrependedOK ==
    ASSUME NEW v \in Views, NEW entries \in Seq(EntryShape), entries # <<>>
    PROVE  /\ Prepended(v, entries) \in Views
           /\ Taken(v.tail, Prepended(v, entries).tail, entries)
<1>1. PICK new : new = Hydrated(<<>>, entries)
  OBVIOUS
<1>2. new \in Seq(Items) /\ new # <<>> /\ Taken(<<>>, new, entries)
  BY <1>1, EmptyHolds, HydratedOK
<1>3. v.tail \in Seq(Items)
  BY DEF Views
<1>4. ASSUME NEW t \in Seq(Items), Prepended(v, entries) = [v EXCEPT !.tail = t],
             \A x : Holds(new, x) \/ Holds(v.tail, x) => Holds(t, x)
      PROVE  /\ Prepended(v, entries) \in Views
             /\ Taken(v.tail, Prepended(v, entries).tail, entries)
  <2>1. Taken(v.tail, t, entries)
    BY <1>2, <1>4 DEF Taken
  <2>2. QED
    BY <1>4, <2>1 DEF Views
<1>5. CASE v.tail # <<>> /\ Last(new).kind = "assistant" /\ Head(v.tail).kind = "assistant"
  <2>1. PICK merged : merged = [Last(new) EXCEPT !.text = @ \o Head(v.tail).text]
    OBVIOUS
  <2>2. /\ Front(new) \in Seq(Items) /\ Last(new) \in PlainItems
        /\ SameMessages(new, Front(new))
    BY <1>2, <1>5, FrontSame
  <2>3. Tail(v.tail) \in Seq(Items) /\ \A x : Holds(v.tail, x) => Holds(Tail(v.tail), x)
    BY <1>3, <1>5, TailHolds
  <2>4. merged \in PlainItems
    <3>1. Last(new) \in [kind: PlainKinds, id: Seq(RowIds) \X Nat, text: Seq(RowIds)]
      BY <2>2 DEF PlainItems
    <3>2. Head(v.tail) \in Items
      BY <1>3, <1>5
    <3>3. Head(v.tail).text \in Seq(RowIds)
      BY <3>2 DEF Items
    <3>4. Last(new).text \o Head(v.tail).text \in Seq(RowIds)
      BY <3>1, <3>3
    <3>5. QED
      BY <2>1, <3>1, <3>4 DEF PlainItems
  <2>5. PICK a : a = Front(new) \o <<merged>>
    OBVIOUS
  <2>6. a \in Seq(Items) /\ SameMessages(Front(new), a)
    <3>1. <<merged>> \in Seq(PlainItems)
      BY <2>4
    <3>2. QED
      BY <2>2, <2>5, <3>1, PlainAfter
  <2>7. \A x : Holds(new, x) => Holds(a, x)
    BY <2>2, <2>6 DEF SameMessages, Holds
  <2>8. Append(Front(new), merged) = a
    BY <2>2, <2>5
  <2>9. Prepended(v, entries) = [v EXCEPT !.tail = a \o Tail(v.tail)]
    BY <1>1, <1>5, <2>1, <2>8 DEF Prepended
  <2>10. /\ a \o Tail(v.tail) \in Seq(Items)
         /\ \A x : Holds(a, x) \/ Holds(Tail(v.tail), x) => Holds(a \o Tail(v.tail), x)
    BY <2>3, <2>6, JoinedHolds
  <2>11. QED
    BY <1>4, <2>3, <2>7, <2>9, <2>10
<1>6. CASE ~(v.tail # <<>> /\ Last(new).kind = "assistant" /\ Head(v.tail).kind = "assistant")
  <2>1. Prepended(v, entries) = [v EXCEPT !.tail = new \o @]
    BY <1>1, <1>6 DEF Prepended
  <2>2. /\ new \o v.tail \in Seq(Items)
        /\ \A x : Holds(new, x) \/ Holds(v.tail, x) => Holds(new \o v.tail, x)
    BY <1>2, <1>3, JoinedHolds
  <2>3. QED
    BY <1>4, <2>1, <2>2
<1>7. QED
  BY <1>5, <1>6

\* Replaced takes the entries in.
LEMMA ReplacedOK ==
    ASSUME NEW v \in Views, NEW entries \in Seq(EntryShape)
    PROVE  /\ Replaced(v, entries) \in Views
           /\ Taken(<<>>, Replaced(v, entries).tail, entries)
<1>1. PICK new : new = Hydrated(<<>>, entries)
  OBVIOUS
<1>2. new \in Seq(Items) /\ Taken(<<>>, new, entries)
  BY <1>1, EmptyHolds, HydratedOK
<1> DEFINE endsOpen == new # <<>> /\ Last(new).kind = "assistant"
<1>3. v.head \in Seq(PlainItems) /\ <<>> \in Seq(PlainItems)
  BY DEF Views
<1>4. ASSUME NEW t \in Seq(Items), NEW h \in Seq(PlainItems), SameMessages(new, t),
             Replaced(v, entries) = [tail |-> t, head |-> h]
      PROVE  Replaced(v, entries) \in Views /\ Taken(<<>>, Replaced(v, entries).tail, entries)
  <2>1. Taken(<<>>, t, entries)
    BY <1>2, <1>4 DEF Taken, SameMessages, Holds
  <2>2. QED
    BY <1>4, <2>1 DEF Views
<1>5. CASE ~IsLive(v)
  <2>1. Replaced(v, entries) = [tail |-> new, head |-> <<>>]
    BY <1>1, <1>5 DEF Replaced
  <2>2. QED
    BY <1>2, <1>3, <1>4, <2>1, SameSelf
<1>6. CASE IsLive(v) /\ ~endsOpen
  <2>1. Replaced(v, entries) = [tail |-> new, head |-> v.head]
    BY <1>1, <1>6 DEF Replaced
  <2>2. QED
    BY <1>2, <1>3, <1>4, <2>1, SameSelf
<1>7. CASE IsLive(v) /\ endsOpen
  <2>1. Replaced(v, entries) = IF IsPrefix(Last(new).text, Last(v.head).text)
              THEN [tail |-> Front(new),
                    head |-> <<[Last(v.head) EXCEPT !.text = Last(new).text]>>]
              ELSE [tail |-> new, head |-> <<>>]
    BY <1>1, <1>7 DEF Replaced
  <2>2. /\ Front(new) \in Seq(Items) /\ Last(new) \in PlainItems
        /\ SameMessages(new, Front(new))
    BY <1>2, <1>7, FrontSame
  <2>3. PICK item : item = [Last(v.head) EXCEPT !.text = Last(new).text]
    OBVIOUS
  <2>4. <<item>> \in Seq(PlainItems)
    <3>1. Last(v.head) \in PlainItems
      BY <1>3, <1>7 DEF IsLive, Last
    <3>2. item \in PlainItems
      BY <2>2, <2>3, <3>1 DEF PlainItems
    <3>3. QED
      BY <3>2
  <2>5. CASE IsPrefix(Last(new).text, Last(v.head).text)
    BY <1>4, <2>1, <2>2, <2>3, <2>4, <2>5
  <2>6. CASE ~IsPrefix(Last(new).text, Last(v.head).text)
    BY <1>2, <1>3, <1>4, <2>1, <2>6, SameSelf
  <2>7. QED
    BY <2>5, <2>6
<1>8. QED
  BY <1>5, <1>6, <1>7

\* What a message says is displayed.
LEMMA DisplayedOK ==
    ASSUME tail \in Seq(Items), head \in Seq(PlainItems), NEW row, Holds(tail, <<row>>)
    PROVE  Contains(Displayed, row)
<1>1. PICK items : items = tail \o head
  OBVIOUS
<1>2. items \in Seq(Items) /\ Holds(items, <<row>>)
  BY <1>1, PlainItemsOK, JoinedHolds
<1>3. PICK n \in Nat : n = Len(items)
  BY <1>2
<1>4. PICK h : DisplaysBy(h, n, <<>>, items) /\ h[n] = Displayed
  <2>1. PICK base : base = <<>>
    OBVIOUS
  <2>2. base \in Seq(RowIds)
    BY <2>1
  <2>3. \E h : DisplaysBy(h, Len(items), base, items)
               /\ h[Len(items)] = FoldLeft(LAMBDA acc, i : acc \o i.text, base, items)
    BY <1>2, <2>2, DisplaysSteps
  <2>4. Displayed = FoldLeft(LAMBDA acc, i : acc \o i.text, base, items)
    BY <1>1, <2>1, Zenon DEF Displayed
  <2>5. QED
    BY <1>3, <2>1, <2>3, <2>4
<1>5. PICK m \in 1..n : items[m].text = <<row>>
  BY <1>2, <1>3 DEF Holds, Message
<1> DEFINE T == {k \in 0..n : k >= m => Contains(h[k], row)}
<1>6. 0 \in T
  BY <1>3, <1>5
<1>7. ASSUME NEW k \in 0..n - 1, k \in T
      PROVE  k + 1 \in T
  <2>1. /\ k \in Nat /\ k \in 0..n /\ k + 1 \in 0..n /\ k + 1 \in 1..n
    BY <1>3
  <2>2. h[k] \in Seq(RowIds) /\ h[k + 1] = h[k] \o items[k + 1].text
    BY <1>4, <2>1 DEF DisplaysBy
  <2>3. items[k + 1] \in Items
    BY <1>2, <1>3, <2>1
  <2>4. items[k + 1].text \in Seq(RowIds)
    BY <2>3 DEF Items
  <2>5. CASE k >= m
    <3>1. PICK a, b : a = h[k] /\ b = items[k + 1].text
      OBVIOUS
    <3>2. a \in Seq(RowIds) /\ b \in Seq(RowIds) /\ h[k + 1] = a \o b
      BY <2>2, <2>4, <3>1
    <3>3. PICK i \in 1..Len(a) : a[i] = row
      BY <1>7, <2>5, <3>1 DEF Contains
    <3>4. i \in 1..Len(a \o b) /\ (a \o b)[i] = row
      BY <3>2, <3>3
    <3>5. QED
      BY <2>1, <3>2, <3>4 DEF Contains
  <2>6. CASE k + 1 = m
    <3>1. items[k + 1].text = <<row>>
      BY <1>5, <2>6
    <3>2. Len(h[k]) + 1 \in 1..Len(h[k + 1]) /\ h[k + 1][Len(h[k]) + 1] = row
      BY <2>2, <2>4, <3>1
    <3>3. QED
      BY <2>1, <3>2 DEF Contains
  <2>7. CASE k + 1 < m
    BY <2>1, <2>7
  <2>8. QED
    BY <1>5, <2>1, <2>5, <2>6, <2>7
<1> HIDE DEF T
<1>8. n \in T
  <2>1. \A k \in 0..n : k \in T
    BY <1>3, <1>6, <1>7, StepByStep, Zenon
  <2>2. QED
    BY <1>3, <2>1
<1>9. n >= m => Contains(h[n], row)
  BY <1>8 DEF T
<1>10. Contains(h[n], row)
  BY <1>3, <1>5, <1>9
<1>11. QED
  BY <1>4, <1>10, Zenon

-----------------------------------------------------------------------------
(* What is on a page *)

\* How many spans begin no later.
Rank(spans, s) == Cardinality({t \in spans : t[1] <= s[1]})

\* Spans that begin at different rows are counted in their order.
LEMMA NthSpans ==
    ASSUME NEW spans, IsFiniteSet(spans), \A s \in spans : s[1] \in Nat,
           \A s, t \in spans : s[1] = t[1] => s = t
    PROVE  /\ Cardinality(spans) \in Nat
           /\ \A i \in 1..Cardinality(spans) : Nth(spans, i) \in spans /\ Rank(spans, Nth(spans, i)) = i
           /\ \A s \in spans : Rank(spans, s) \in 1..Cardinality(spans) /\ Nth(spans, Rank(spans, s)) = s
<1>1. PICK c \in Nat : c = Cardinality(spans)
  BY FS_CardinalityType
<1> DEFINE upTo(s) == {t \in spans : t[1] <= s[1]}
<1>2. ASSUME NEW s \in spans
      PROVE  /\ IsFiniteSet(upTo(s)) /\ Rank(spans, s) \in 1..c
  <2>1. upTo(s) \in SUBSET spans /\ s \in upTo(s)
    OBVIOUS
  <2>2. IsFiniteSet(upTo(s)) /\ Cardinality(upTo(s)) <= c
    BY <1>1, <2>1, FS_Subset
  <2>3. Cardinality(upTo(s)) \in Nat /\ Cardinality(upTo(s)) # 0
    BY <2>1, <2>2, FS_CardinalityType, FS_EmptySet
  <2>4. QED
    BY <1>1, <2>2, <2>3 DEF Rank
<1>3. ASSUME NEW s \in spans, NEW t \in spans, s[1] < t[1]
      PROVE  Rank(spans, s) # Rank(spans, t)
  <2>1. upTo(s) \in SUBSET upTo(t) /\ t \in upTo(t) /\ t \notin upTo(s)
    BY <1>3
  <2>2. Cardinality(upTo(s)) # Cardinality(upTo(t))
    BY <1>2, <2>1, FS_Subset
  <2>3. QED
    BY <2>2 DEF Rank
<1>4. ASSUME NEW s \in spans, NEW t \in spans, Rank(spans, s) = Rank(spans, t)
      PROVE  s = t
  <2>1. ~(s[1] < t[1]) /\ ~(t[1] < s[1])
    BY <1>3, <1>4
  <2>2. QED
    BY <2>1
<1>5. PICK f : f = [s \in spans |-> Rank(spans, s)]
  OBVIOUS
<1>6. f \in [spans -> 1..c] /\ \A s \in spans : f[s] = Rank(spans, s)
  BY <1>2, <1>5
<1>7. f \in Injection(spans, 1..c)
  BY <1>4, <1>6, Fun_IsInj
<1>8. IsFiniteSet(1..c) /\ Cardinality(1..c) = c
  BY <1>1, FS_Interval
<1>9. f \in Surjection(spans, 1..c)
  BY <1>1, <1>7, <1>8, FS_Injection
<1>10. \A i \in 1..c : \E s \in spans : Rank(spans, s) = i
  <2>1. \A i \in 1..c : \E s \in spans : f[s] = i
    BY <1>9 DEF Surjection
  <2>2. QED
    BY <1>6, <2>1
<1>11. ASSUME NEW i \in 1..c
       PROVE  Nth(spans, i) \in spans /\ Rank(spans, Nth(spans, i)) = i
  <2>1. \E s \in spans : Cardinality({t \in spans : t[1] <= s[1]}) = i
    BY <1>10 DEF Rank
  <2>2. Nth(spans, i) \in spans /\ Cardinality({t \in spans : t[1] <= Nth(spans, i)[1]}) = i
    BY <2>1, Zenon DEF Nth
  <2>3. QED
    BY <2>2 DEF Rank
<1>12. ASSUME NEW s \in spans
       PROVE  Rank(spans, s) \in 1..c /\ Nth(spans, Rank(spans, s)) = s
  <2>1. Rank(spans, s) \in 1..c
    BY <1>2
  <2>2. QED
    BY <1>4, <1>11, <2>1
<1>13. QED
  BY <1>1, <1>11, <1>12

\* A span of rows of the log that are put together.
SpanOK(s) ==
    /\ s \in (1..Len(log)) \X (1..Len(log)) /\ s[1] <= s[2]
    /\ \A k \in s[1] + 1..s[2] : Joins(k)

\* No two of them begin at the same row.
SpansOK(spans) ==
    /\ \A s \in spans : SpanOK(s)
    /\ \A s, t \in spans : s[1] = t[1] => s = t

\* Projected makes such spans, one for each message.
LEMMA ProjectedOK ==
    ASSUME Len(log) \in Nat, NEW lo \in 1..Len(log), NEW hi \in 1..Len(log)
    PROVE  /\ SpansOK(Projected(lo, hi))
           /\ \A n \in lo..hi : log[n] = "message" => <<n, n>> \in Projected(lo, hi)
<1>1. ASSUME NEW s \in Projected(lo, hi)
      PROVE  SpanOK(s) /\ s \in (lo..hi) \X (lo..hi) /\ (s[2] = hi \/ ~Joins(s[2] + 1))
  BY DEF Projected, SpanOK
<1>2. ASSUME NEW s \in Projected(lo, hi), NEW t \in Projected(lo, hi), s[1] = t[1], s[2] < t[2]
      PROVE  FALSE
  <2>1. s[2] # hi /\ s[2] + 1 \in t[1] + 1..t[2]
    BY <1>1, <1>2 DEF SpanOK
  <2>2. Joins(s[2] + 1)
    BY <1>1, <2>1 DEF SpanOK
  <2>3. QED
    BY <1>1, <2>1, <2>2
<1>3. ASSUME NEW s \in Projected(lo, hi), NEW t \in Projected(lo, hi), s[1] = t[1]
      PROVE  s = t
  <2>1. s \in Nat \X Nat /\ t \in Nat \X Nat
    BY <1>1 DEF SpanOK
  <2>2. ~(s[2] < t[2]) /\ ~(t[2] < s[2])
    BY <1>2, <1>3
  <2>3. QED
    BY <1>3, <2>1, <2>2
<1>4. ASSUME NEW n \in lo..hi, log[n] = "message"
      PROVE  <<n, n>> \in Projected(lo, hi)
  <2>1. /\ n \in Nat /\ (n + 1) - 1 = n /\ n + 1..n = {}
    OBVIOUS
  <2>2. ~Joins(n) /\ ~Joins(n + 1)
    BY <1>4, <2>1 DEF Joins
  <2>3. QED
    BY <2>1, <2>2 DEF Projected
<1>5. QED
  BY <1>1, <1>3, <1>4 DEF SpansOK

\* A span that begins with a message is one row.
LEMMA MessageSpan ==
    ASSUME NEW s, SpanOK(s), Len(log) \in Nat, log[s[1]] = "message"
    PROVE  s[2] = s[1]
<1>1. s[1] \in Nat /\ s[2] \in Nat /\ s[1] <= s[2] /\ \A k \in s[1] + 1..s[2] : Joins(k)
  BY DEF SpanOK
<1>2. ASSUME s[1] < s[2]
      PROVE  FALSE
  <2>1. Joins(s[1] + 1) /\ (s[1] + 1) - 1 = s[1]
    BY <1>1, <1>2
  <2>2. QED
    BY <2>1 DEF Joins
<1>3. QED
  BY <1>1, <1>2

\* The rows of a span.
LEMMA RowsOfOK ==
    ASSUME epoch \in 1..MaxEpochs, Len(log) \in 0..MaxRows, NEW s, SpanOK(s)
    PROVE  /\ RowsOf(s) \in Seq(RowIds)
           /\ s[2] = s[1] => RowsOf(s) = << <<epoch, s[1]>> >>
<1>1. MaxRows \in Nat /\ MaxEpochs \in Nat
  BY BoundsAssumption
<1>2. PICK a \in 1..Len(log), b \in 1..Len(log) : s[1] = a /\ s[2] = b /\ a <= b
  BY DEF SpanOK
<1>3. PICK n \in Nat : n = b + 1 - a
  BY <1>1, <1>2
<1>4. RowsOf(s) = [i \in 1..n |-> <<epoch, a + i - 1>>]
  BY <1>2, <1>3 DEF RowsOf
<1>5. \A i \in 1..n : <<epoch, a + i - 1>> \in RowIds
  <2>1. \A i \in 1..n : a + i - 1 \in 1..MaxRows
    BY <1>1, <1>2, <1>3
  <2>2. QED
    BY <2>1 DEF RowIds
<1>6. RowsOf(s) \in Seq(RowIds)
  <2>1. RowsOf(s) \in [1..n -> RowIds]
    BY <1>4, <1>5
  <2>2. QED
    BY <1>3, <2>1
<1>7. ASSUME a = b
      PROVE  RowsOf(s) = << <<epoch, a>> >>
  <2>1. n = 1 /\ a + 1 - 1 = a
    BY <1>2, <1>3, <1>7
  <2>2. PICK x : x = <<epoch, a>>
    OBVIOUS
  <2>3. RowsOf(s) = [i \in 1..1 |-> x]
    <3>1. \A i \in 1..1 : <<epoch, a + i - 1>> = x
      BY <2>1, <2>2
    <3>2. QED
      BY <1>4, <2>1, <3>1
  <2>4. [i \in 1..1 |-> x] = <<x>>
    OBVIOUS
  <2>5. QED
    BY <2>2, <2>3, <2>4
<1>8. QED
  BY <1>2, <1>6, <1>7

\* A message of the page, by the number of its entry.
Word(entries, e, k, n) ==
    k \in 1..Len(entries) /\ entries[k] = [kind |-> "message", text |-> << <<e, n>> >>]

\* Entries has the messages of its spans, in their order.
LEMMA EntriesOK ==
    ASSUME epoch \in 1..MaxEpochs, log \in Seq(Kinds), Len(log) \in 0..MaxRows,
           NEW spans, SpansOK(spans), NEW E, E = Entries(spans)
    PROVE  /\ E \in Seq(EntryShape)
           /\ \A n \in 1..Len(log) : log[n] = "message" /\ <<n, n>> \in spans =>
                  \E k \in Nat : Word(E, epoch, k, n)
           /\ \A k \in 1..Len(E) : E[k].kind = "message" =>
                  \E n \in 1..Len(log) : <<n, n>> \in spans /\ Word(E, epoch, k, n)
           /\ \A k, l \in 1..Len(E) : \A m, n \in 1..Len(log) :
                  k < l /\ Word(E, epoch, k, m) /\ Word(E, epoch, l, n) => m < n
<1>1. Len(log) \in Nat
  BY BoundsAssumption
<1>2. IsFiniteSet(spans)
  <2>1. IsFiniteSet(1..Len(log))
    BY <1>1, FS_Interval
  <2>2. IsFiniteSet((1..Len(log)) \X (1..Len(log)))
    BY <2>1, FS_Product
  <2>3. spans \in SUBSET ((1..Len(log)) \X (1..Len(log)))
    BY DEF SpansOK, SpanOK
  <2>4. QED
    BY <2>2, <2>3, FS_Subset
<1>3. \A s \in spans : SpanOK(s) /\ s[1] \in Nat /\ s[1] \in 1..Len(log)
  BY <1>1 DEF SpansOK, SpanOK
<1>4. /\ Cardinality(spans) \in Nat
      /\ \A i \in 1..Cardinality(spans) : Nth(spans, i) \in spans /\ Rank(spans, Nth(spans, i)) = i
      /\ \A s \in spans : Rank(spans, s) \in 1..Cardinality(spans) /\ Nth(spans, Rank(spans, s)) = s
  BY <1>2, <1>3, NthSpans DEF SpansOK
<1>5. PICK c \in Nat : c = Cardinality(spans)
  BY <1>4
<1>6. PICK at : at = [i \in 1..c |-> Nth(spans, i)]
  OBVIOUS
<1>7. /\ E = [i \in 1..c |-> [kind |-> log[at[i][1]], text |-> RowsOf(at[i])]]
      /\ \A i \in 1..c : at[i] \in spans /\ Rank(spans, at[i]) = i
      /\ \A s \in spans : Rank(spans, s) \in 1..c /\ at[Rank(spans, s)] = s
  BY <1>4, <1>5, <1>6 DEF Entries
<1>8. \A s \in spans : /\ RowsOf(s) \in Seq(RowIds) /\ log[s[1]] \in Kinds
                       /\ s[2] = s[1] => RowsOf(s) = << <<epoch, s[1]>> >>
  BY <1>3, RowsOfOK
<1>9. E \in Seq(EntryShape) /\ Len(E) = c
  <2>1. \A s \in spans : [kind |-> log[s[1]], text |-> RowsOf(s)] \in EntryShape
    BY <1>8 DEF EntryShape
  <2>2. E \in [1..c -> EntryShape]
    BY <1>7, <2>1
  <2>3. QED
    BY <1>5, <2>2
<1>10. ASSUME NEW n \in 1..Len(log), log[n] = "message", <<n, n>> \in spans
       PROVE  \E k \in Nat : Word(E, epoch, k, n)
  <2>1. PICK k : k = Rank(spans, <<n, n>>)
    OBVIOUS
  <2>2. k \in 1..c /\ at[k] = <<n, n>>
    BY <1>7, <1>10, <2>1
  <2>3. E[k] = [kind |-> "message", text |-> << <<epoch, n>> >>]
    <3>1. PICK s \in spans : s = <<n, n>>
      BY <1>10
    <3>2. E[k] = [kind |-> log[s[1]], text |-> RowsOf(s)]
      <4>1. at[k] = s /\ k \in 1..c
        BY <2>2, <3>1
      <4>2. E[k] = [kind |-> log[at[k][1]], text |-> RowsOf(at[k])]
        BY <1>7, <4>1
      <4>3. QED
        BY <4>1, <4>2
    <3>3. s[1] = n /\ s[2] = n
      BY <3>1
    <3>4. RowsOf(s) = << <<epoch, s[1]>> >>
      BY <1>8, <3>3
    <3>5. QED
      BY <1>10, <3>2, <3>3, <3>4
  <2>4. QED
    BY <1>5, <1>9, <2>2, <2>3 DEF Word
<1>11. ASSUME NEW k \in 1..c, E[k].kind = "message"
       PROVE  \E n \in 1..Len(log) : <<n, n>> \in spans /\ n = at[k][1] /\ Word(E, epoch, k, n)
  <2>1. PICK s \in spans : s = at[k]
    BY <1>7
  <2>2. SpanOK(s) /\ s[1] \in 1..Len(log) /\ log[s[1]] = "message"
    BY <1>3, <1>7, <1>11, <2>1
  <2>3. s[2] = s[1] /\ s = <<s[1], s[1]>>
    <3>1. s[2] = s[1]
      BY <1>1, <2>2, MessageSpan
    <3>2. QED
      BY <2>2, <3>1 DEF SpanOK
  <2>4. E[k] = [kind |-> "message", text |-> << <<epoch, s[1]>> >>]
    <3>1. E[k] = [kind |-> log[s[1]], text |-> RowsOf(s)]
      BY <1>7, <2>1
    <3>2. RowsOf(s) = << <<epoch, s[1]>> >>
      BY <1>8, <2>3
    <3>3. QED
      BY <2>2, <3>1, <3>2
  <2>5. QED
    BY <1>9, <2>1, <2>2, <2>3, <2>4 DEF Word
<1>12. ASSUME NEW k \in 1..c, NEW l \in 1..c, NEW m \in 1..Len(log), NEW n \in 1..Len(log),
              k < l, Word(E, epoch, k, m), Word(E, epoch, l, n)
       PROVE  m < n
  <2>1. E[k].kind = "message" /\ E[l].kind = "message"
    BY <1>12 DEF Word
  <2>2. PICK x \in 1..Len(log) : x = at[k][1] /\ Word(E, epoch, k, x)
    BY <1>11, <2>1
  <2>3. PICK y \in 1..Len(log) : y = at[l][1] /\ Word(E, epoch, l, y)
    BY <1>11, <2>1
  <2>4. x = m /\ y = n
    BY <1>12, <2>2, <2>3 DEF Word
  <2>5. ASSUME n <= m
        PROVE  FALSE
    <3>1. at[k] \in spans /\ at[l] \in spans /\ at[l][1] <= at[k][1]
      BY <1>7, <2>2, <2>3, <2>4, <2>5
    <3>2. {t \in spans : t[1] <= at[l][1]} \in SUBSET {t \in spans : t[1] <= at[k][1]}
      BY <1>3, <3>1
    <3>3. IsFiniteSet({t \in spans : t[1] <= at[k][1]})
      BY <1>2, FS_Subset
    <3>4. Rank(spans, at[l]) <= Rank(spans, at[k])
      BY <3>2, <3>3, FS_Subset DEF Rank
    <3>5. QED
      BY <1>7, <1>12, <3>4
  <2>6. QED
    BY <1>1, <2>5
<1>13. QED
  BY <1>9, <1>10, <1>11, <1>12

\* The log and what is unread of it have room.
LogOK ==
    /\ epoch \in 1..MaxEpochs /\ log \in Seq(Kinds) /\ unread \in Seq(Kinds)
    /\ Len(log) + Len(unread) <= MaxRows

\* How long they are.
LEMMA LogLength ==
    ASSUME LogOK
    PROVE  /\ MaxRows \in Nat /\ MaxEpochs \in Nat
           /\ Len(log) \in 0..MaxRows /\ Len(log) \in Nat /\ Len(unread) \in Nat
           /\ epoch \in Nat /\ epoch >= 1
<1>1. MaxRows \in Nat /\ MaxEpochs \in Nat
  BY BoundsAssumption
<1>2. Len(log) \in Nat /\ Len(unread) \in Nat
  BY DEF LogOK
<1>3. QED
  BY <1>1, <1>2 DEF LogOK

\* The page shows the messages of its rows, and only those, in order; of all its
\* rows, while the log goes on in its epoch.
PageText(p, e, l) ==
    /\ p.epoch \in 1..e
    /\ p.start \in 0..MaxRows /\ p.end \in 0..MaxRows /\ p.start <= p.end
    /\ p.start = 0 <=> p.end = 0
    /\ p.entries \in Seq(EntryShape) /\ (p.entries # <<>> => p.start > 0)
    /\ \A k \in 1..Len(p.entries) : p.entries[k].kind = "message" =>
           \E n \in p.start..p.end : Word(p.entries, p.epoch, k, n)
    /\ \A k, i \in 1..Len(p.entries) : \A m, n \in 1..MaxRows :
           k < i /\ Word(p.entries, p.epoch, k, m) /\ Word(p.entries, p.epoch, i, n) => m < n
    /\ p.epoch = e =>
           /\ p.end <= Len(l)
           /\ \A n \in p.start..p.end : n > 0 /\ l[n] = "message" =>
                  \E k \in Nat : Word(p.entries, e, k, n)

\* So it is of a page without rows, ...
LEMMA EmptyPageText ==
    ASSUME LogOK, NEW r, NEW reset, NEW p, p = EmptyPage(r, reset)
    PROVE  PageText(p, epoch, log) /\ p.start = 0 /\ p.end = 0 /\ p.epoch = epoch
           /\ ~p.hasNewer /\ p.to = r /\ p.reset = reset
<1>1. p = Page(r, reset, {}, 0, 0, FALSE, FALSE)
  BY DEF EmptyPage
<1>2. /\ p.epoch = epoch /\ p.start = 0 /\ p.end = 0 /\ p.entries = <<>>
      /\ p.hasNewer = FALSE /\ p.to = r /\ p.reset = reset
  BY <1>1, NoEntries DEF Page
<1>3. /\ <<>> \in Seq(EntryShape) /\ \A k : k \notin 1..Len(<<>>)
  OBVIOUS
<1>4. \A n \in 0..0 : ~(n > 0)
  OBVIOUS
<1>5. QED
  BY <1>2, <1>3, <1>4, LogLength DEF PageText

\* ... of a page made of spans that have the messages of its rows, ...
LEMMA PageMade ==
    ASSUME LogOK, NEW spans, SpansOK(spans), NEW lo \in 1..Len(log), NEW hi \in lo..Len(log),
           \A n \in lo..hi : log[n] = "message" => <<n, n>> \in spans,
           \A n \in 1..Len(log) : <<n, n>> \in spans => n \in lo..hi,
           NEW r, NEW reset, NEW ho, NEW hn, NEW p, p = Page(r, reset, spans, lo, hi, ho, hn)
    PROVE  PageText(p, epoch, log)
<1>1. PICK E : E = Entries(spans)
  OBVIOUS
<1>2. p.epoch = epoch /\ p.start = lo /\ p.end = hi /\ p.entries = E
  BY <1>1 DEF Page
<1>3. /\ E \in Seq(EntryShape)
      /\ \A n \in 1..Len(log) : log[n] = "message" /\ <<n, n>> \in spans =>
             \E k \in Nat : Word(E, epoch, k, n)
      /\ \A k \in 1..Len(E) : E[k].kind = "message" =>
             \E n \in 1..Len(log) : <<n, n>> \in spans /\ Word(E, epoch, k, n)
      /\ \A k, l \in 1..Len(E) : \A m, n \in 1..Len(log) :
             k < l /\ Word(E, epoch, k, m) /\ Word(E, epoch, l, n) => m < n
  BY <1>1, LogLength, EntriesOK DEF LogOK
<1>4. /\ lo \in Nat /\ hi \in Nat /\ lo >= 1 /\ lo <= hi /\ hi <= Len(log) /\ Len(log) <= MaxRows
      /\ MaxRows \in Nat /\ Len(log) \in Nat /\ epoch \in 1..epoch
  BY LogLength
<1>5. /\ lo \in 0..MaxRows /\ hi \in 0..MaxRows /\ lo # 0 /\ hi # 0 /\ lo > 0
      /\ lo..hi \subseteq 1..Len(log)
  BY <1>4
<1>6. ASSUME NEW k \in 1..Len(E), E[k].kind = "message"
      PROVE  \E n \in lo..hi : Word(E, epoch, k, n)
  BY <1>3, <1>6
<1>7. ASSUME NEW k \in 1..Len(E), NEW i \in 1..Len(E), NEW m \in 1..MaxRows, NEW n \in 1..MaxRows,
             k < i, Word(E, epoch, k, m), Word(E, epoch, i, n)
      PROVE  m < n
  <2>1. E[k].kind = "message" /\ E[i].kind = "message"
    BY <1>7 DEF Word
  <2>2. PICK x \in lo..hi : Word(E, epoch, k, x)
    BY <1>6, <2>1
  <2>3. PICK y \in lo..hi : Word(E, epoch, i, y)
    BY <1>6, <2>1
  <2>4. x = m /\ y = n
    BY <1>7, <2>2, <2>3 DEF Word
  <2>5. m \in 1..Len(log) /\ n \in 1..Len(log)
    BY <1>5, <2>4
  <2>6. QED
    BY <1>3, <1>7, <2>5
<1>8. ASSUME NEW n \in lo..hi, log[n] = "message"
      PROVE  \E k \in Nat : Word(E, epoch, k, n)
  BY <1>3, <1>5, <1>8
<1>9. QED
  BY <1>2, <1>3, <1>4, <1>5, <1>6, <1>7, <1>8 DEF PageText

\* (which may be some of those there are)
LEMMA SomeSpans ==
    ASSUME NEW all, SpansOK(all), NEW some \in SUBSET all
    PROVE  SpansOK(some)
BY DEF SpansOK

\* ... of the tail ...
LEMMA TailPageText ==
    ASSUME LogOK, NEW r, NEW reset, NEW p, p = TailPage(r, reset)
    PROVE  /\ PageText(p, epoch, log) /\ p.end = Len(log) /\ p.epoch = epoch /\ ~p.hasNewer
           /\ p.to = r /\ p.reset = reset
<1> DEFINE lo == IF ~reset /\ UseFull(TailFrom, Len(log)) THEN 1 ELSE TailFrom
           all == Projected(lo, Len(log))
           after(n) == {t \in all : t[1] > n}
           last == {s \in all : Cardinality({t \in all : t[1] > s[1]}) < PageSize}
           starts == {s[1] : s \in last}
<1>1. /\ Len(log) \in Nat /\ (log = <<>> <=> Len(log) = 0) /\ PageSize \in Nat \ {0}
  BY LogLength, PageAssumption DEF LogOK
<1>2. CASE log = <<>>
  <2>1. p = EmptyPage(r, reset)
    BY <1>2 DEF TailPage
  <2>2. QED
    BY <1>1, <1>2, <2>1, EmptyPageText
<1>3. CASE log # <<>>
  <2>1. TailFrom \in 1..Len(log) /\ lo \in 1..Len(log) /\ Len(log) \in 1..Len(log)
    BY <1>1, <1>3 DEF TailFrom
  <2> HIDE DEF lo
  <2>2. /\ SpansOK(all)
        /\ \A n \in lo..Len(log) : log[n] = "message" => <<n, n>> \in all
    BY <1>1, <2>1, ProjectedOK
  <2>3. all \subseteq (lo..Len(log)) \X (lo..Len(log)) /\ \E s \in all : \A t \in all : t[1] <= s[1]
    <3>1. lo \in Nat /\ Len(log) \in Nat /\ lo <= Len(log)
      BY <1>1, <2>1
    <3>2. QED
      BY <3>1, LastProjected, Zenon
  <2>4. \A s \in all : s[1] \in Nat /\ s[1] \in lo..Len(log) /\ s[1] \in 1..Len(log)
    BY <2>1, <2>3
  <2>5. PICK s \in all : \A t \in all : t[1] <= s[1]
    BY <2>3
  <2>6. {t \in all : t[1] > s[1]} = {}
    BY <2>4, <2>5
  <2>7. Cardinality({t \in all : t[1] > s[1]}) < PageSize
    <3>1. Cardinality({}) < PageSize
      BY FS_EmptySet, PageAssumption
    <3>2. QED
      BY <2>6, <3>1, Zenon
  <2>8. s \in last
    BY <2>5, <2>7
  <2>9. starts \in SUBSET Nat /\ starts # {} /\ starts \subseteq lo..Len(log)
    BY <2>4, <2>8
  <2>10. PICK start : start = Min(starts)
    OBVIOUS
  <2>11. start \in starts /\ \A n \in starts : start <= n
    BY <2>9, <2>10, MinLeast
  <2> HIDE DEF starts
  <2>12. start \in lo..Len(log) /\ start \in 1..Len(log) /\ Len(log) \in start..Len(log)
    <3>1. start \in lo..Len(log)
      BY <2>9, <2>11
    <3>2. QED
      BY <1>1, <2>1, <3>1
  <2>13. p = Page(r, reset, last, start, Len(log), start > 1, FALSE)
    BY <1>3, <2>10 DEF TailPage, lo, starts
  <2>14. PICK first \in all : first[1] = start /\ Cardinality(after(start)) < PageSize
    BY <2>11 DEF starts
  <2>15. IsFiniteSet(all)
    <3>1. IsFiniteSet(lo..Len(log))
      BY <1>1, <2>1, FS_Interval
    <3>2. IsFiniteSet((lo..Len(log)) \X (lo..Len(log)))
      BY <3>1, FS_Product
    <3>3. QED
      BY <2>3, <3>2, FS_Subset
  <2>16. ASSUME NEW n \in start..Len(log), log[n] = "message"
         PROVE  <<n, n>> \in last
    <3>1. n \in lo..Len(log) /\ n \in Nat /\ start <= n
      BY <2>1, <2>12
    <3>2. <<n, n>> \in all
      BY <2>2, <2>16, <3>1
    <3>3. after(n) \in SUBSET after(start)
      BY <2>4, <2>12, <3>1
    <3>4. IsFiniteSet(after(start))
      BY <2>15, FS_Subset
    <3>5. Cardinality(after(n)) <= Cardinality(after(start))
      BY <3>3, <3>4, FS_Subset
    <3>6. Cardinality(after(n)) \in Nat /\ Cardinality(after(start)) \in Nat
      BY <3>3, <3>4, FS_Subset, FS_CardinalityType
    <3>7. Cardinality(after(n)) < PageSize
      BY <1>1, <2>14, <3>5, <3>6
    <3>8. QED
      BY <3>2, <3>7
  <2>17. ASSUME NEW n \in 1..Len(log), <<n, n>> \in last
         PROVE  n \in start..Len(log)
    <3>1. PICK s1 \in last : s1 = <<n, n>>
      BY <2>17
    <3>2. n = s1[1] /\ s1[1] \in starts
      BY <3>1 DEF starts
    <3>3. start <= n
      BY <2>11, <3>2
    <3>4. QED
      BY <1>1, <2>12, <3>3
  <2>18. SpansOK(last)
    BY <2>2, SomeSpans
  <2> HIDE DEF last
  <2>19. PageText(p, epoch, log)
    BY <2>12, <2>13, <2>16, <2>17, <2>18, PageMade
  <2>20. QED
    BY <2>13, <2>19 DEF Page
<1>4. QED
  BY <1>2, <1>3

\* ... and of the rows asked for.
LEMMA RangePageText ==
    ASSUME LogOK, NEW r, NEW lo \in Positive, NEW hi \in Int, hi <= Len(log),
           NEW p, p = RangePage(r, lo, hi)
    PROVE  /\ PageText(p, epoch, log) /\ p.epoch = epoch /\ p.to = r /\ ~p.reset
           /\ p.end > 0 => p.start = lo /\ p.end = hi /\ (p.hasNewer <=> hi < Len(log))
           /\ p.end = 0 => ~p.hasNewer
<1>1. Len(log) \in Nat
  BY LogLength
<1>2. CASE lo > hi
  <2> PICK reset : reset = FALSE
    OBVIOUS
  <2>1. p = EmptyPage(r, reset)
    BY <1>2 DEF RangePage
  <2>2. /\ PageText(p, epoch, log) /\ p.end = 0 /\ p.epoch = epoch
        /\ ~p.hasNewer /\ p.to = r /\ p.reset = reset
    BY <2>1, EmptyPageText
  <2>3. QED
    BY <2>2
<1>3. CASE ~(lo > hi)
  <2> DEFINE all == IF UseFull(lo, hi) THEN Projected(1, Len(log)) ELSE Projected(lo, hi)
             of == {s \in all : s[1] <= hi /\ s[2] >= lo}
  <2>1. /\ lo \in Nat /\ hi \in Nat /\ lo >= 1 /\ lo \in 1..Len(log) /\ hi \in 1..Len(log)
        /\ hi \in lo..Len(log) /\ 1 \in 1..Len(log) /\ Len(log) \in 1..Len(log)
    BY <1>1, <1>3 DEF Positive
  <2>2. SpansOK(all) /\ \A n \in lo..hi : log[n] = "message" => <<n, n>> \in all
    <3>1. /\ SpansOK(Projected(lo, hi))
          /\ \A n \in lo..hi : log[n] = "message" => <<n, n>> \in Projected(lo, hi)
      BY <1>1, <2>1, ProjectedOK
    <3>2. /\ SpansOK(Projected(1, Len(log)))
          /\ \A n \in 1..Len(log) : log[n] = "message" => <<n, n>> \in Projected(1, Len(log))
      BY <1>1, <2>1, ProjectedOK
    <3>3. \A n \in lo..hi : n \in 1..Len(log)
      BY <1>1, <2>1
    <3>4. CASE UseFull(lo, hi)
      BY <3>2, <3>3, <3>4
    <3>5. CASE ~UseFull(lo, hi)
      BY <3>1, <3>5
    <3>6. QED
      BY <3>4, <3>5
  <2> HIDE DEF all
  <2>3. SpansOK(of)
    BY <2>2, SomeSpans
  <2>4. \A n \in lo..hi : log[n] = "message" => <<n, n>> \in of
    BY <2>1, <2>2
  <2>5. \A n \in 1..Len(log) : <<n, n>> \in of => n \in lo..hi
    BY <2>1
  <2>6. p = Page(r, FALSE, of, lo, hi, lo > 1, hi < Len(log))
    BY <1>3, Zenon DEF RangePage, all
  <2> HIDE DEF of
  <2>7. PageText(p, epoch, log)
    BY <2>1, <2>3, <2>4, <2>5, <2>6, PageMade
  <2>8. /\ p.epoch = epoch /\ p.start = lo /\ p.end = hi /\ p.to = r /\ ~p.reset
        /\ p.hasNewer <=> hi < Len(log)
    <3>1. PICK newer : newer = (hi < Len(log))
      OBVIOUS
    <3>2. p = Page(r, FALSE, of, lo, hi, lo > 1, newer)
      BY <2>6, <3>1, Zenon
    <3>3. p.epoch = epoch /\ p.start = lo /\ p.end = hi /\ p.to = r /\ ~p.reset /\ p.hasNewer = newer
      BY <3>2 DEF Page
    <3>4. newer <=> hi < Len(log)
      BY <3>1
    <3>5. QED
      BY <3>3, <3>4
  <2>9. QED
    BY <2>1, <2>7, <2>8
<1>4. QED
  BY <1>2, <1>3

\* The page answers what was asked for.
PageRange(p) ==
    ~p.reset /\ p.end > 0 =>
        /\ p.to.dir = "before" => p.epoch = p.to.at[1] /\ p.end = p.to.at[2] - 1
        /\ p.to.dir = "after" =>
               /\ p.epoch = p.to.at[1] /\ p.start = p.to.at[2] + 1 /\ p.end <= p.to.at[2] + PageSize
               /\ p.hasNewer => p.end = p.to.at[2] + PageSize

\* A place is not None.
LEMMA PlaceNotNone == \A at \in Places : at # None
<1>1. Places \subseteq Nat \X Nat
  BY DEF Places, Positive
<1>2. QED
  BY <1>1, NoneAssumption

\* So it is of every answer.
LEMMA AnswerText ==
    ASSUME LogOK, Shapes, NEW r, RequestOK(r), r.at # None => InLog(r.at), NEW p, p = Answer(r)
    PROVE  /\ PageText(p, epoch, log) /\ PageRange(p) /\ p.to = r /\ p.epoch = epoch
           /\ IsTail(p) => ~p.hasNewer
<1>1. /\ r \in Requests /\ (r.dir # "tail" => r.at \in Places)
      /\ Len(log) \in Nat /\ PageSize \in Nat \ {0}
  BY PageAssumption, LogLength DEF RequestOK
<1>5. ASSUME NEW reset, p = TailPage(r, reset)
      PROVE  /\ PageText(p, epoch, log) /\ p.epoch = epoch /\ ~p.hasNewer
             /\ p.to = r /\ p.reset = reset
  BY <1>5, TailPageText
<1>6. CASE r.at # None /\ r.at[1] # epoch
  <2>1. p = TailPage(r, TRUE)
    BY <1>6 DEF Answer
  <2>2. p.reset = TRUE /\ p.to = r
    BY <1>5, <2>1
  <2>3. QED
    BY <1>5, <2>1, <2>2 DEF PageRange
<1>7. CASE ~(r.at # None /\ r.at[1] # epoch) /\ r.dir = "tail"
  <2>1. p = TailPage(r, FALSE)
    BY <1>7 DEF Answer
  <2>2. p.to = r
    BY <1>5, <2>1
  <2>3. QED
    BY <1>5, <1>7, <2>1, <2>2 DEF PageRange
<1>8. CASE ~(r.at # None /\ r.at[1] # epoch) /\ r.dir # "tail"
  <2>1. r.at \in Places /\ r.at # None /\ r.at[1] = epoch
    <3>1. r.at \in Places
      BY <1>1, <1>8
    <3>2. CASE r.at = None
      BY <3>1, <3>2, <1>8, PlaceNotNone
    <3>3. QED
      BY <1>8, <3>1, <3>2
  <2>2. PICK n \in Nat : n = r.at[2] /\ n <= Len(log)
    BY <2>1 DEF Places, InLog
  <2>3. CASE r.dir = "after"
    <3> DEFINE hi == Min({Len(log), n + PageSize})
    <3>1. p = RangePage(r, n + 1, hi)
      BY <1>8, <2>2, <2>3 DEF Answer
    <3>2. /\ hi \in Nat /\ hi <= Len(log) /\ hi <= n + PageSize
          /\ hi < Len(log) => hi = n + PageSize
      <4>1. n + PageSize \in Nat
        BY <1>1
      <4>2. hi \in Nat /\ hi <= Len(log) /\ hi <= n + PageSize
        BY <1>1, <4>1, MinPair
      <4>3. hi \in {Len(log), n + PageSize}
        BY <1>1, <4>1, MinLeast
      <4>4. QED
        BY <1>1, <4>2, <4>3
    <3> HIDE DEF hi
    <3>3. n + 1 \in Positive /\ hi \in Int
      BY <3>2 DEF Positive
    <3>4. /\ PageText(p, epoch, log) /\ p.epoch = epoch /\ p.to = r /\ ~p.reset
          /\ p.end > 0 => p.start = n + 1 /\ p.end = hi /\ (p.hasNewer <=> hi < Len(log))
      BY <3>1, <3>2, <3>3, RangePageText
    <3>6. PageRange(p)
      BY <2>1, <2>2, <2>3, <3>2, <3>4 DEF PageRange
    <3>7. QED
      BY <2>3, <3>4, <3>6 DEF IsTail
  <2>4. CASE r.dir = "before"
    <3> DEFINE lo == Max({1, n - PageSize})
    <3>1. p = RangePage(r, lo, n - 1)
      BY <1>8, <2>2, <2>4 DEF Answer
    <3>2. lo \in Positive
      <4>1. PICK d \in Int : d = n - PageSize
        BY <1>1, <2>2
      <4>2. Max({1, d}) \in {1, d} /\ Max({1, d}) >= 1
        BY MaxPair
      <4>3. QED
        BY <4>1, <4>2 DEF Positive
    <3> HIDE DEF lo
    <3>3. n - 1 \in Int /\ n - 1 <= Len(log)
      BY <1>1, <2>2
    <3>4. /\ PageText(p, epoch, log) /\ p.epoch = epoch /\ p.to = r /\ ~p.reset
          /\ p.end > 0 => p.end = n - 1
      BY <3>1, <3>2, <3>3, RangePageText
    <3>6. PageRange(p)
      BY <2>1, <2>2, <2>4, <3>4 DEF PageRange
    <3>7. QED
      BY <2>4, <3>4, <3>6 DEF IsTail
  <2>5. QED
    BY <1>1, <1>8, <2>3, <2>4 DEF Requests
<1>9. QED
  BY <1>6, <1>7, <1>8

-----------------------------------------------------------------------------
(* The invariant of the view.  It relates the cursor to the view and to the    
   pages and rows under way *)

\* A message under way tells of rows that are, or were, in the log.
MessageText(m, e, l) ==
    /\ m.type = "row" =>
           /\ m.row \in RowIds /\ m.kind \in Kinds /\ m.row[1] <= e
           /\ m.row[1] = e => m.row[2] <= Len(l) /\ l[m.row[2]] = m.kind
    /\ m.type = "page" => PageText(m, e, l) /\ PageRange(m)

\* The places before which rows are asked for.
Befores == {r.at : r \in {q \in requests \cup Under : q.dir = "before"}}

\* They are not after the rows displayed.
Behind(at) ==
    /\ cursor # None
    /\ at[1] < cursor.epoch \/ (at[1] = cursor.epoch /\ at[2] >= cursor.start)

\* The parts of the invariant.
CursorText == cursor # None => cursor \in Cursor /\ cursor.start <= cursor.end
SentText == \A i \in 1..Len(toApp) : MessageText(toApp[i], epoch, log)
AskedText == \A r \in requests : r \in Request /\ (r.at # None => InLog(r.at))
AllBehind == "moved" \notin mishaps => \A at \in Befores : Behind(at)
\* The messages from the first to the last row of the cursor are in the tail.
Covered ==
    (cursor # None /\ cursor.epoch = epoch /\ "moved" \notin mishaps) =>
        \A n \in cursor.start..cursor.end :
            log[n] = "message" => Holds(tail, << <<epoch, n>> >>)

\* The invariant of the view.
ViewText ==
    /\ LogOK /\ CursorText /\ Shown \in Views
    /\ SentText /\ AskedText /\ AllBehind /\ Covered

\* The log only gets longer, or another epoch begins.
Lengthens(e, l, f, m) ==
    \/ f > e
    \/ f = e /\ Len(m) >= Len(l) /\ \A n \in 1..Len(l) : m[n] = l[n]

\* What a page shows stays true while the log gets longer.
LEMMA StaysPageText ==
    ASSUME NEW e \in Nat, NEW f \in Nat, NEW l, NEW ll, Len(l) \in Nat, Len(ll) \in Nat,
           Lengthens(e, l, f, ll), MaxRows \in Nat, NEW p, PageText(p, e, l)
    PROVE  PageText(p, f, ll)
<1>1. p.epoch \in 1..f /\ p.start \in 0..MaxRows /\ p.end \in 0..MaxRows
  BY DEF PageText, Lengthens
<1>2. ASSUME p.epoch = f
      PROVE  /\ p.end <= Len(ll)
             /\ \A n \in p.start..p.end : n > 0 /\ ll[n] = "message" =>
                    \E k \in Nat : Word(p.entries, f, k, n)
  <2>1. f = e /\ Len(ll) >= Len(l) /\ \A n \in 1..Len(l) : ll[n] = l[n]
    BY <1>2 DEF PageText, Lengthens
  <2>2. p.end <= Len(l) /\ \A n \in p.start..p.end : n > 0 /\ l[n] = "message" =>
                    \E k \in Nat : Word(p.entries, e, k, n)
    BY <1>2, <2>1 DEF PageText
  <2>3. \A n \in p.start..p.end : n > 0 => n \in 1..Len(l)
    BY <1>1, <2>2
  <2>4. p.end <= Len(ll)
    BY <1>1, <2>1, <2>2
  <2>5. QED
    BY <2>1, <2>2, <2>3, <2>4, Zenon
<1>3. QED
  BY <1>1, <1>2, Zenon DEF PageText

\* So does what a message tells.
LEMMA StaysText ==
    ASSUME NEW e \in Nat, NEW f \in Nat, NEW l, NEW ll, Len(l) \in Nat, Len(ll) \in Nat,
           Lengthens(e, l, f, ll), MaxRows \in Nat, NEW m, MessageText(m, e, l)
    PROVE  MessageText(m, f, ll)
<1>1. CASE m.type = "row"
  <2>1. m.row \in RowIds /\ m.kind \in Kinds /\ m.row[1] <= e /\ m.row[1] \in Nat /\ m.row[2] \in Nat
        /\ m.row[2] >= 1
    BY <1>1 DEF MessageText, RowIds
  <2>2. m.row[1] <= f
    BY <2>1 DEF Lengthens
  <2>3. ASSUME m.row[1] = f
        PROVE  m.row[2] <= Len(ll) /\ ll[m.row[2]] = m.kind
    <3>1. f = e /\ Len(ll) >= Len(l) /\ \A n \in 1..Len(l) : ll[n] = l[n]
      BY <2>1, <2>3 DEF Lengthens
    <3>2. m.row[2] <= Len(l) /\ l[m.row[2]] = m.kind
      BY <1>1, <2>3, <3>1 DEF MessageText
    <3>3. QED
      BY <2>1, <3>1, <3>2
  <2>4. QED
    BY <1>1, <2>1, <2>2, <2>3 DEF MessageText
<1>2. CASE m.type = "page"
  <2>1. PageText(m, f, ll)
    BY <1>2, StaysPageText DEF MessageText
  <2>2. QED
    BY <1>2, <2>1 DEF MessageText
<1>3. QED
  BY <1>1, <1>2 DEF MessageText

\* A message is the same but for how much longer the app waits for it.
SameText(m, n) ==
    /\ m.type = n.type
    /\ m.type = "row" => m.row = n.row /\ m.kind = n.kind
    /\ m.type = "page" =>
           /\ m.epoch = n.epoch /\ m.start = n.start /\ m.end = n.end /\ m.entries = n.entries
           /\ m.reset = n.reset /\ m.hasNewer = n.hasNewer
           /\ m.to.dir = n.to.dir /\ m.to.at = n.to.at

\* A message that is the same tells the same.
LEMMA SameTextOK ==
    ASSUME NEW m, NEW n, SameText(m, n), NEW e, NEW l, MessageText(n, e, l)
    PROVE  MessageText(m, e, l)
<1>1. CASE m.type = "row"
  BY <1>1 DEF SameText, MessageText
<1>2. CASE m.type = "page"
  <2>1. PageRange(m)
    BY <1>2 DEF SameText, MessageText, PageRange
  <2>2. PageText(n, e, l)
    BY <1>2 DEF SameText, MessageText
  <2>3. m.epoch = n.epoch /\ m.start = n.start /\ m.end = n.end /\ m.entries = n.entries
    BY <1>2 DEF SameText
  <2>4. PageText(m, e, l)
    BY <2>2, <2>3, Zenon DEF PageText
  <2>5. QED
    BY <1>2, <2>1, <2>4 DEF MessageText
<1>3. QED
  BY <1>1, <1>2 DEF MessageText

\* Where the places come from.
LEMMA BeforesOf ==
    ASSUME NEW rs, NEW ms, NEW S, ms \in Seq(S), NEW B,
           B = {r.at : r \in {q \in rs \cup {ms[i].to : i \in {j \in DOMAIN ms : ms[j].type = "page"}} :
                                  q.dir = "before"}}
    PROVE  \A at : at \in B <=>
               \/ \E r \in rs : r.dir = "before" /\ at = r.at
               \/ \E i \in 1..Len(ms) :
                      ms[i].type = "page" /\ ms[i].to.dir = "before" /\ at = ms[i].to.at
<1> DEFINE U == {ms[i].to : i \in {j \in DOMAIN ms : ms[j].type = "page"}}
<1>1. DOMAIN ms = 1..Len(ms)
  OBVIOUS
<1>2. \A q : q \in U <=> \E i \in 1..Len(ms) : ms[i].type = "page" /\ q = ms[i].to
  BY <1>1
<1> HIDE DEF U
<1>3. B = {r.at : r \in {q \in rs \cup U : q.dir = "before"}}
  BY DEF U
<1>4. QED
  BY <1>2, <1>3

\* Every message under way is one that was, or is new; the page of it answers
\* what was asked.
Carries(m) ==
    /\ m.type = "page" => m.to \in requests \/ \E j \in 1..Len(toApp) : SameText(m, toApp[j])
    /\ MessageText(m, epoch', log')
       \/ MessageText(m, epoch, log)
       \/ \E j \in 1..Len(toApp) : SameText(m, toApp[j])

\* The rows displayed stay displayed while the log goes on.
LEMMA StaysCovered ==
    ASSUME SyncInv, ViewText, LogOK', Lengthens(epoch, log, epoch', log'),
           UNCHANGED <<cursor, tail, head>>, mishaps \subseteq mishaps'
    PROVE  Covered'
<1> SUFFICES ASSUME cursor # None, cursor.epoch = epoch', "moved" \notin mishaps',
                    NEW n \in cursor.start..cursor.end, log'[n] = "message"
             PROVE  Holds(tail, << <<epoch', n>> >>)
  BY DEF Covered
<1>1. cursor \in Cursor /\ InLog(End) /\ epoch \in Nat /\ Len(log) \in Nat
  BY LogLength DEF ViewText, CursorText, SyncInv, CursorInLog
<1>2. cursor.epoch <= epoch /\ (cursor.epoch = epoch => cursor.end <= Len(log))
  BY <1>1 DEF InLog, End
<1>3. epoch' = epoch /\ \A k \in 1..Len(log) : log'[k] = log[k]
  BY <1>1, <1>2 DEF Lengthens, Cursor
<1>4. n \in 1..Len(log)
  BY <1>1, <1>2, <1>3 DEF Cursor
<1>5. log[n] = "message"
  BY <1>3, <1>4
<1>6. QED
  BY <1>3, <1>5 DEF ViewText, Covered

\* What was in the log still is.
LEMMA StaysInText ==
    ASSUME LogOK, LogOK', Lengthens(epoch, log, epoch', log'), NEW p, InLog(p), p[1] \in Nat,
           p[2] \in Nat
    PROVE  InLog(p)'
<1>1. epoch \in Nat /\ Len(log) \in Nat /\ epoch' \in Nat /\ Len(log') \in Nat
  BY DEF LogOK
<1>2. QED
  BY <1>1 DEF InLog, Lengthens

\* The app's own steps that ask, and the daemon's.
LEMMA TextStays ==
    ASSUME SyncInv, SyncInv', ViewText, LogOK', Lengthens(epoch, log, epoch', log'),
           UNCHANGED <<cursor, tail, head>>, mishaps \subseteq mishaps',
           \A i \in 1..Len(toApp') : Carries(toApp'[i]),
           AskedText',
           \A r \in requests' : r.dir = "before" =>
               r.at \in Befores \/ (cursor # None /\ r.at = <<cursor.epoch, cursor.start>>)
    PROVE  ViewText'
<1>1. LogOK /\ LogOK' /\ MaxRows \in Nat
  BY LogLength DEF ViewText
<1>2. epoch \in Nat /\ Len(log) \in Nat /\ epoch' \in Nat /\ Len(log') \in Nat
  BY <1>1 DEF LogOK
<1>3. CursorText' /\ Shown' \in Views
  BY DEF ViewText, CursorText, Shown
<1>4. SentText'
  <2> SUFFICES ASSUME NEW i \in 1..Len(toApp')
               PROVE  MessageText(toApp'[i], epoch', log')
    BY DEF SentText
  <2>1. PICK m : m = toApp'[i]
    OBVIOUS
  <2>2. PICK e, f, l, ll : e = epoch /\ f = epoch' /\ l = log /\ ll = log'
    OBVIOUS
  <2>3. MessageText(m, e, l) => MessageText(m, f, ll)
    <3>1. Lengthens(e, l, f, ll)
      BY <2>2
    <3>2. QED
      BY <1>1, <1>2, <2>2, <3>1, StaysText
  <2>4. Carries(m)
    BY <2>1
  <2>5. CASE MessageText(m, epoch', log')
    BY <2>1, <2>5 DEF MessageText, PageText
  <2>6. CASE MessageText(m, epoch, log)
    <3>1. MessageText(m, e, l)
      BY <2>2, <2>6
    <3>2. QED
      BY <2>1, <2>2, <2>3, <3>1
  <2>7. CASE \E j \in 1..Len(toApp) : SameText(m, toApp[j])
    <3>1. PICK j \in 1..Len(toApp) : SameText(m, toApp[j])
      BY <2>7
    <3>2. PICK n : n = toApp[j]
      OBVIOUS
    <3>3. MessageText(n, e, l)
      BY <2>2, <3>2 DEF ViewText, SentText
    <3>4. MessageText(m, e, l)
      BY <3>1, <3>2, <3>3, SameTextOK
    <3>5. QED
      BY <2>1, <2>2, <2>3, <3>4
  <2>8. QED
    BY <2>4, <2>5, <2>6, <2>7 DEF Carries
<1>5. AllBehind'
  <2> SUFFICES ASSUME "moved" \notin mishaps', NEW at \in Befores'
               PROVE  Behind(at)'
    BY DEF AllBehind
  <2>1. Behind(at) => Behind(at)'
    BY DEF Behind
  <2>2. ASSUME at \in Befores
        PROVE  Behind(at)
    BY <2>2 DEF ViewText, AllBehind
  <2>3. at \in Befores \/ (cursor # None /\ at = <<cursor.epoch, cursor.start>>)
    <3>1. PICK S, T : toApp \in Seq(S) /\ toApp' \in Seq(T)
      BY DEF SyncInv, SentShapes
    <3>2. CASE \E r \in requests' : r.dir = "before" /\ at = r.at
      BY <3>2
    <3>3. CASE \E i \in 1..Len(toApp') : /\ toApp'[i].type = "page"
                                         /\ toApp'[i].to.dir = "before" /\ at = toApp'[i].to.at
      <4>1. PICK i \in 1..Len(toApp') : /\ toApp'[i].type = "page"
                                         /\ toApp'[i].to.dir = "before" /\ at = toApp'[i].to.at
        BY <3>3
      <4>2. PICK m : m = toApp'[i]
        OBVIOUS
      <4>3. m.to \in requests \/ \E j \in 1..Len(toApp) : SameText(m, toApp[j])
        BY <4>1, <4>2 DEF Carries
      <4>4. CASE m.to \in requests
        <5>1. \E r \in requests : r.dir = "before" /\ at = r.at
          BY <4>1, <4>2, <4>4
        <5>2. QED
          BY <3>1, <5>1, BeforesOf DEF Befores, Under
      <4>5. CASE \E j \in 1..Len(toApp) : SameText(m, toApp[j])
        <5>1. PICK j \in 1..Len(toApp) : SameText(m, toApp[j])
          BY <4>5
        <5>2. toApp[j].type = "page" /\ toApp[j].to.dir = "before" /\ at = toApp[j].to.at
          BY <4>1, <4>2, <5>1 DEF SameText
        <5>3. QED
          BY <3>1, <5>2, BeforesOf DEF Befores, Under
      <4>6. QED
        BY <4>3, <4>4, <4>5
    <3>4. at \in Befores' <=>
               \/ \E r \in requests' : r.dir = "before" /\ at = r.at
               \/ \E i \in 1..Len(toApp') :
                      toApp'[i].type = "page" /\ toApp'[i].to.dir = "before" /\ at = toApp'[i].to.at
      BY <3>1, BeforesOf DEF Befores, Under
    <3>5. QED
      BY <3>2, <3>3, <3>4
  <2>4. CASE cursor # None /\ at = <<cursor.epoch, cursor.start>>
    <3>1. cursor \in Cursor
      BY <2>4 DEF ViewText, CursorText
    <3>2. Behind(at)
      BY <2>4, <3>1 DEF Behind, Cursor
    <3>3. QED
      BY <2>1, <3>2
  <2>5. QED
    BY <2>1, <2>2, <2>3, <2>4
<1>6. Covered'
  BY StaysCovered
<1>7. QED
  BY <1>3, <1>4, <1>5, <1>6 DEF ViewText

-----------------------------------------------------------------------------
(* The daemon sends *)

\* Every message is the same as itself.
LEMMA SameTextSelf == \A m : SameText(m, m)
BY DEF SameText

\* What was under way may still be ...
LEMMA KeptCarries ==
    ASSUME NEW j \in 1..Len(toApp)
    PROVE  Carries(toApp[j])
<1>1. SameText(toApp[j], toApp[j])
  BY SameTextSelf
<1>2. QED
  BY <1>1 DEF Carries

\* ... and what is left of it when the first has arrived.
LEMMA TailCarries ==
    ASSUME SyncInv, toApp # <<>>, toApp' = Tail(toApp)
    PROVE  \A i \in 1..Len(toApp') : Carries(toApp'[i])
<1>1. PICK S : toApp \in Seq(S)
  BY DEF SyncInv, SentShapes
<1>2. \A i \in 1..Len(toApp') : toApp'[i] = toApp[i + 1] /\ i + 1 \in 1..Len(toApp)
  BY <1>1
<1>3. QED
  BY <1>2, KeptCarries

\* Messages that are not pages.
WordsOK(ms) ==
    /\ \E T : ms \in Seq(T)
    /\ \A i \in 1..Len(ms) : ms[i].type # "page" /\ MessageText(ms[i], epoch', log')

\* Messages the daemon sends, no page among them, come after those there were.
LEMMA SendCarries ==
    ASSUME SyncInv, NEW ms, WordsOK(ms), Send(ms)
    PROVE  \A i \in 1..Len(toApp') : Carries(toApp'[i])
<1>1. PICK S : toApp \in Seq(S)
  BY DEF SyncInv, SentShapes
<1>2. PICK T : ms \in Seq(T)
  BY DEF WordsOK
<1>3. CASE toApp' = toApp
  BY <1>3, KeptCarries
<1>4. CASE toApp' = toApp \o ms
  <2> SUFFICES ASSUME NEW i \in 1..Len(toApp')
               PROVE  Carries(toApp'[i])
    OBVIOUS
  <2>0. toApp \in Seq(S \cup T) /\ ms \in Seq(S \cup T)
    BY <1>1, <1>2
  <2>1. /\ Len(toApp') = Len(toApp) + Len(ms) /\ Len(toApp) \in Nat /\ Len(ms) \in Nat
        /\ i <= Len(toApp) => toApp'[i] = toApp[i]
        /\ i > Len(toApp) => toApp'[i] = ms[i - Len(toApp)]
    BY <2>0, <1>4
  <2>2. CASE i <= Len(toApp)
    <3>1. i \in 1..Len(toApp) /\ toApp'[i] = toApp[i]
      BY <2>1, <2>2
    <3>2. QED
      BY <3>1, KeptCarries
  <2>3. CASE i > Len(toApp)
    <3>1. PICK k \in 1..Len(ms) : toApp'[i] = ms[k]
      BY <2>1, <2>3
    <3>2. PICK m : m = ms[k]
      OBVIOUS
    <3>3. m.type # "page" /\ MessageText(m, epoch', log')
      BY <3>2 DEF WordsOK
    <3>4. Carries(m)
      BY <3>3 DEF Carries
    <3>5. QED
      BY <3>1, <3>2, <3>4
  <2>4. QED
    BY <2>1, <2>2, <2>3
<1>5. QED
  BY <1>3, <1>4 DEF Send

\* Rows the daemon sends are rows of the log.
LEMMA RowEventsText ==
    ASSUME LogOK', NEW first \in Nat, first >= 1, NEW ms,
           NEW rows, rows = log', ms = RowEvents(epoch', rows, first, Len(log')), first <= Len(log') + 1
    PROVE  WordsOK(ms)
<1> DEFINE n == Len(log') + 1 - first
           R(i) == [type |-> "row", row |-> <<epoch', first + i - 1>>, kind |-> rows[first + i - 1]]
<1>1. /\ epoch' \in 1..MaxEpochs /\ Len(log') \in Nat /\ Len(log') <= MaxRows /\ MaxRows \in Nat
      /\ rows \in Seq(Kinds) /\ Len(rows) = Len(log') /\ Len(unread') \in Nat /\ MaxEpochs \in Nat
  BY BoundsAssumption DEF LogOK
<1>2. ms = [i \in 1..n |-> R(i)] /\ n \in Nat
  BY <1>1 DEF RowEvents
<1>3. (\E T : ms \in Seq(T)) /\ Len(ms) = n
  <2> DEFINE T == {R(i) : i \in 1..n}
  <2>1. \A i \in 1..n : R(i) \in T
    OBVIOUS
  <2> HIDE DEF R, T
  <2>2. ms \in [1..n -> T]
    BY <1>2, <2>1
  <2>3. ms \in Seq(T) /\ Len(ms) = n
    BY <1>2, <2>2
  <2>4. QED
    BY <2>3
<1>4. ASSUME NEW i \in 1..Len(ms)
      PROVE  ms[i].type # "page" /\ MessageText(ms[i], epoch', log')
  <2>1. PICK m : m = ms[i]
    OBVIOUS
  <2>2. PICK k : k = first + i - 1
    OBVIOUS
  <2>3. m.type = "row" /\ m.row = <<epoch', k>> /\ m.kind = rows[k] /\ k \in 1..Len(log')
    BY <1>1, <1>2, <1>3, <2>1, <2>2
  <2>4. m.row \in RowIds /\ m.kind \in Kinds /\ m.row[1] = epoch' /\ m.row[2] = k
    <3>1. m.kind \in Kinds
      <4>1. rows \in Seq(Kinds) /\ k \in 1..Len(rows)
        BY <1>1, <2>3
      <4>2. rows[k] \in Kinds
        BY ONLY <4>1
      <4>3. QED
        BY <2>3, <4>2
    <3>2. PICK e : e = epoch'
      OBVIOUS
    <3>3. m.row = <<e, k>> /\ e \in 1..MaxEpochs /\ k \in 1..MaxRows
      BY <1>1, <2>3, <3>2
    <3>4. m.row \in (1..MaxEpochs) \X (1..MaxRows) /\ m.row[1] = e /\ m.row[2] = k
      BY <3>3
    <3>5. QED
      BY <3>1, <3>2, <3>4 DEF RowIds
  <2>5. MessageText(m, epoch', log')
    BY <1>1, <2>3, <2>4 DEF MessageText
  <2>6. QED
    BY <2>1, <2>3, <2>5
<1>5. \A i \in 1..Len(ms) : ms[i].type # "page" /\ MessageText(ms[i], epoch', log')
  BY <1>4 DEF MessageText, PageText
<1>6. QED
  BY <1>3, <1>5 DEF WordsOK

\* A word without rows.
LEMMA WordText ==
    ASSUME NEW type \in {"end", "redone"}
    PROVE  WordsOK(<<[type |-> type]>>) /\ WordsOK(<<>>)
<1> PICK m : m = [type |-> type]
  OBVIOUS
<1>1. m.type # "page" /\ m.type # "row"
  OBVIOUS
<1>2. MessageText(m, epoch', log')
  BY <1>1 DEF MessageText
<1>3. PICK ms : ms = <<m>>
  OBVIOUS
<1>4. ms \in Seq({m}) /\ \A i \in 1..Len(ms) : ms[i] = m
  BY <1>3
<1>5. \A i \in 1..Len(ms) : ms[i].type # "page" /\ MessageText(ms[i], epoch', log')
  BY <1>1, <1>2, <1>4 DEF MessageText
<1>6. WordsOK(ms)
  BY <1>4, <1>5 DEF WordsOK
<1>7. WordsOK(<<>>)
  BY DEF WordsOK
<1>8. QED
  BY <1>3, <1>6, <1>7

\* Messages sent one after the other.
LEMMA ConcatWords ==
    ASSUME NEW ms, NEW ns, WordsOK(ms), WordsOK(ns)
    PROVE  WordsOK(ms \o ns)
<1>1. PICK S, T : ms \in Seq(S) /\ ns \in Seq(T)
  BY DEF WordsOK
<1>2. ms \in Seq(S \cup T) /\ ns \in Seq(S \cup T)
  BY <1>1
<1>3. PICK all : all = ms \o ns
  OBVIOUS
<1>4. all \in Seq(S \cup T) /\ Len(all) = Len(ms) + Len(ns) /\ Len(ms) \in Nat /\ Len(ns) \in Nat
  BY <1>2, <1>3
<1>5. ASSUME NEW i \in 1..Len(all)
      PROVE  all[i].type # "page" /\ MessageText(all[i], epoch', log')
  <2>1. CASE i <= Len(ms)
    <3>1. all[i] = ms[i] /\ i \in 1..Len(ms)
      BY <1>2, <1>3, <1>4, <2>1
    <3>2. QED
      BY <3>1 DEF WordsOK, MessageText, PageText
  <2>2. CASE i > Len(ms)
    <3>1. all[i] = ns[i - Len(ms)] /\ i - Len(ms) \in 1..Len(ns)
      BY <1>2, <1>3, <1>4, <2>2
    <3>2. QED
      BY <3>1 DEF WordsOK, MessageText, PageText
  <2>3. QED
    BY <1>4, <2>1, <2>2
<1>6. QED
  BY <1>3, <1>4, <1>5 DEF WordsOK

\* The answer to a rewind or reload.
LEMMA AnswersWords ==
    ASSUME NEW answer \in Answered
    PROVE  WordsOK(answer)
<1>1. WordsOK(<<>>) /\ WordsOK(<<[type |-> "redone"]>>)
  BY WordText
<1>2. CASE answer = <<>>
  <2>1. WordsOK(<<>>)
    BY <1>1
  <2>2. QED
    BY <1>2, <2>1 DEF WordsOK
<1>3. CASE answer = <<[type |-> "redone"]>>
  <2>1. PICK ms : ms = <<[type |-> "redone"]>>
    OBVIOUS
  <2>2. WordsOK(ms)
    BY <1>1, <2>1
  <2>3. QED
    BY <1>3, <2>1, <2>2
<1>4. QED
  BY <1>2, <1>3 DEF Answered

\* What is asked stays asked.
LEMMA AskedStays ==
    ASSUME ViewText, LogOK', Lengthens(epoch, log, epoch', log'), requests' \subseteq requests
    PROVE  /\ AskedText'
           /\ \A r \in requests' : r.dir = "before" => r.at \in Befores
<1>1. ASSUME NEW r \in requests'
      PROVE  r \in Request /\ (r.at # None => InLog(r.at)')
  <2>1. r \in Request /\ (r.at # None => InLog(r.at))
    BY DEF ViewText, AskedText
  <2>2. CASE r.at # None
    <3>1. r.at \in RowIds
      BY <2>1, <2>2 DEF Request
    <3>2. PICK p \in RowIds : p = r.at
      BY <3>1
    <3>3. p[1] \in Nat /\ p[2] \in Nat
      BY DEF RowIds
    <3>4. InLog(p)'
      BY <2>1, <2>2, <3>2, <3>3, StaysInText DEF ViewText
    <3>5. QED
      BY <2>1, <3>2, <3>4 DEF InLog
  <2>3. QED
    BY <2>1, <2>2
<1>2. AskedText'
  BY <1>1 DEF AskedText, InLog
<1>3. QED
  BY <1>2 DEF Befores

\* The daemon goes on, and sends no page.
LEMMA DaemonText ==
    ASSUME SyncInv, SyncInv', ViewText, LogOK', Lengthens(epoch, log, epoch', log'),
           UNCHANGED <<cursor, tail, head, requests>>, mishaps \subseteq mishaps',
           NEW ms, WordsOK(ms), Send(ms)
    PROVE  ViewText'
<1>1. \A i \in 1..Len(toApp') : Carries(toApp'[i])
  BY SendCarries
<1>2. /\ AskedText'
      /\ \A r \in requests' : r.dir = "before" => r.at \in Befores
  BY AskedStays
<1>3. QED
  BY <1>1, <1>2, TextStays

\* The log stays as it is.
LEMMA SameLog ==
    ASSUME LogOK, UNCHANGED <<epoch, log, unread>>
    PROVE  LogOK' /\ Lengthens(epoch, log, epoch', log')
<1>1. Len(log) \in Nat
  BY LogLength
<1>2. QED
  BY <1>1 DEF LogOK, Lengthens

\* Mishaps are not forgotten.
LEMMA Happening ==
    ASSUME NEW mishap, NEW really, Happens(mishap, really)
    PROVE  mishaps \subseteq mishaps'
BY DEF Happens

\* Every step of the daemon keeps the invariant.
LEMMA CommitText ==
    ASSUME SyncInv, SyncInv', ViewText, NEW kind \in Kinds, Commit(kind)
    PROVE  ViewText'
<1>1. /\ log' = Append(log, kind) /\ Send(RowEvents(epoch, log', Len(log'), Len(log')))
      /\ Len(log) + Len(unread) < MaxRows
      /\ UNCHANGED <<epoch, unread, requests, cursor, tail, head>>
      /\ mishaps \subseteq mishaps'
  BY Happening DEF Commit, app, view
<1>2. LogOK /\ Len(log) \in Nat /\ Len(unread) \in Nat /\ MaxRows \in Nat
  BY LogLength DEF ViewText
<1>3. /\ log' \in Seq(Kinds) /\ Len(log') = Len(log) + 1
      /\ \A n \in 1..Len(log) : log'[n] = log[n]
  BY <1>1, <1>2 DEF LogOK
<1>4. LogOK' /\ Lengthens(epoch, log, epoch', log')
  BY <1>1, <1>2, <1>3 DEF LogOK, Lengthens
<1>5. PICK rows, first : rows = log' /\ first = Len(log')
  OBVIOUS
<1>6. PICK ms : ms = RowEvents(epoch', rows, first, Len(log'))
  OBVIOUS
<1>7. first \in Nat /\ first >= 1 /\ first <= Len(log') + 1
  BY <1>2, <1>3, <1>5
<1>8. WordsOK(ms)
  BY <1>4, <1>5, <1>6, <1>7, RowEventsText
<1>9. Send(ms)
  BY <1>1, <1>5, <1>6
<1>10. QED
  BY <1>1, <1>4, <1>8, <1>9, DaemonText

LEMMA TurnEndsText ==
    ASSUME SyncInv, SyncInv', ViewText, TurnEnds
    PROVE  ViewText'
<1>1. UNCHANGED <<epoch, log, unread, requests, cursor, tail, head>> /\ mishaps \subseteq mishaps'
  BY DEF TurnEnds, app, view, bounds
<1>2. PICK ms : ms = <<[type |-> "end"]>>
  OBVIOUS
<1>3. WordsOK(ms) /\ Send(ms)
  BY <1>2, WordText DEF TurnEnds
<1>4. QED
  BY <1>1, <1>3, SameLog, DaemonText DEF ViewText

LEMMA RewindText ==
    ASSUME SyncInv, SyncInv', ViewText, NEW n \in 0..Len(log), Rewind(n)
    PROVE  ViewText'
<1>1. /\ epoch < MaxEpochs /\ epoch' = epoch + 1 /\ log' = SubSeq(log, 1, n) /\ unread = <<>>
      /\ UNCHANGED <<unread, requests, cursor, tail, head>> /\ mishaps \subseteq mishaps'
  BY DEF Rewind, app, view, bounds
<1>2. PICK answer \in Answered : Send(RowEvents(epoch', log', 1, n) \o answer)
  BY DEF Rewind
<1>3. /\ LogOK /\ Len(log) \in Nat /\ MaxRows \in Nat /\ Len(log) <= MaxRows
      /\ log \in Seq(Kinds) /\ MaxEpochs \in Nat /\ epoch \in Nat /\ epoch >= 1
  BY LogLength DEF ViewText, LogOK
<1>4. log' \in Seq(Kinds) /\ Len(log') = n /\ n \in Nat
  BY <1>1, <1>3
<1>5. LogOK' /\ Lengthens(epoch, log, epoch', log')
  BY <1>1, <1>3, <1>4 DEF LogOK, Lengthens
<1>6. PICK rows : rows = log'
  OBVIOUS
<1>7. PICK ms : ms = RowEvents(epoch', rows, 1, n)
  OBVIOUS
<1>8. WordsOK(ms)
  BY <1>4, <1>5, <1>6, <1>7, RowEventsText
<1>9. PICK all : all = ms \o answer
  OBVIOUS
<1>10. WordsOK(all)
  BY <1>8, <1>9, AnswersWords, ConcatWords
<1>11. Send(all)
  BY <1>2, <1>6, <1>7, <1>9
<1>12. QED
  BY <1>1, <1>5, <1>10, <1>11, DaemonText

LEMMA HydrateText ==
    ASSUME SyncInv, SyncInv', ViewText, Hydrate
    PROVE  ViewText'
<1>1. /\ unread # <<>> /\ log' = Append(log, Head(unread)) /\ unread' = Tail(unread)
      /\ UNCHANGED <<epoch, requests, cursor, tail, head>> /\ mishaps \subseteq mishaps'
  BY DEF Hydrate, app, view, bounds
<1>2. PICK ms : ms \in Answered /\ Send(ms)
  BY DEF Hydrate, Answered
<1>3. LogOK /\ Len(log) \in Nat /\ Len(unread) \in Nat /\ MaxRows \in Nat
  BY LogLength DEF ViewText
<1>4. Head(unread) \in Kinds /\ unread' \in Seq(Kinds) /\ Len(unread') = Len(unread) - 1
  BY <1>1, <1>3 DEF LogOK
<1>5. /\ log' \in Seq(Kinds) /\ Len(log') = Len(log) + 1
      /\ \A n \in 1..Len(log) : log'[n] = log[n]
  BY <1>1, <1>3, <1>4 DEF LogOK
<1>6. LogOK' /\ Lengthens(epoch, log, epoch', log')
  BY <1>1, <1>3, <1>4, <1>5 DEF LogOK, Lengthens
<1>7. QED
  BY <1>1, <1>2, <1>6, AnswersWords, DaemonText

LEMMA ReloadText ==
    ASSUME SyncInv, SyncInv', ViewText, Reload
    PROVE  ViewText'
<1>1. /\ epoch < MaxEpochs /\ epoch' = epoch + 1 /\ log' = <<>> /\ unread' = log /\ unread = <<>>
      /\ UNCHANGED <<requests, toApp, cursor, tail, head>> /\ mishaps \subseteq mishaps'
  BY DEF Reload, app, view, bounds
<1>2. /\ LogOK /\ Len(log) \in Nat /\ MaxRows \in Nat /\ Len(log) <= MaxRows
      /\ log \in Seq(Kinds) /\ MaxEpochs \in Nat /\ epoch \in Nat /\ epoch >= 1
  BY LogLength DEF ViewText, LogOK
<1>3. LogOK' /\ Lengthens(epoch, log, epoch', log')
  BY <1>1, <1>2 DEF LogOK, Lengthens
<1>4. \A i \in 1..Len(toApp') : Carries(toApp'[i])
  BY <1>1, KeptCarries
<1>5. /\ AskedText'
      /\ \A r \in requests' : r.dir = "before" => r.at \in Befores
  BY <1>1, <1>3, AskedStays
<1>6. QED
  BY <1>1, <1>3, <1>4, <1>5, TextStays

LEMMA ServeText ==
    ASSUME SyncInv, SyncInv', ViewText, NEW r \in requests, Serve(r)
    PROVE  ViewText'
<1>1. /\ requests' = requests \ {r} /\ toApp' = Append(toApp, Answer(r))
      /\ UNCHANGED <<epoch, log, unread, cursor, tail, head>> /\ mishaps \subseteq mishaps'
  BY Happening DEF Serve, app, view, daemon
<1>2. LogOK' /\ Lengthens(epoch, log, epoch', log')
  BY <1>1, SameLog DEF ViewText
<1>3. PICK p : p = Answer(r)
  OBVIOUS
<1>4. Shapes /\ RequestOK(r) /\ (r.at # None => InLog(r.at)) /\ LogOK
  BY DEF SyncInv, Shapes, ViewText, AskedText
<1>5. PageText(p, epoch, log) /\ PageRange(p) /\ p.to = r /\ p.type = "page"
  BY <1>3, <1>4, AnswerText, AnswerShape
<1>6. MessageText(p, epoch, log)
  BY <1>5 DEF MessageText
<1>7. Carries(p)
  BY <1>5, <1>6 DEF Carries
<1>8. PICK S : toApp \in Seq(S)
  BY DEF SyncInv, SentShapes
<1>9. toApp \in Seq(S \cup {p}) /\ toApp' = Append(toApp, p)
  BY <1>1, <1>3, <1>8
<1>10. /\ Len(toApp') = Len(toApp) + 1 /\ Len(toApp) \in Nat
       /\ toApp'[Len(toApp) + 1] = p /\ \A i \in 1..Len(toApp) : toApp'[i] = toApp[i]
  BY <1>9
<1>11. ASSUME NEW i \in 1..Len(toApp')
       PROVE  Carries(toApp'[i])
  <2>1. CASE i \in 1..Len(toApp)
    <3>1. toApp'[i] = toApp[i]
      BY <1>10, <2>1
    <3>2. QED
      BY <2>1, <3>1, KeptCarries
  <2>2. CASE i \notin 1..Len(toApp)
    <3>1. toApp'[i] = p
      BY <1>10, <2>2
    <3>2. QED
      BY <1>7, <3>1
  <2>3. QED
    BY <2>1, <2>2
<1>12. /\ AskedText'
       /\ \A q \in requests' : q.dir = "before" => q.at \in Befores
  BY <1>1, <1>2, AskedStays
<1>13. QED
  BY <1>1, <1>2, <1>11, <1>12, TextStays

-----------------------------------------------------------------------------
(* The app asks, and gives up *)

\* A request the app makes now.
NewRequest(r) ==
    /\ r \in Request /\ (r.at # None => InLog(r.at))
    /\ r.dir = "before" => cursor # None /\ r.at = <<cursor.epoch, cursor.start>>

\* What is asked keeps the invariant.
LEMMA AskText ==
    ASSUME SyncInv, SyncInv', ViewText,
           UNCHANGED <<epoch, log, unread, cursor, tail, head>>, mishaps \subseteq mishaps',
           \A i \in 1..Len(toApp') : Carries(toApp'[i]),
           NEW new, requests' \subseteq requests \cup new, \A r \in new : NewRequest(r)
    PROVE  ViewText'
<1>1. LogOK' /\ Lengthens(epoch, log, epoch', log')
  BY SameLog DEF ViewText
<1>2. ASSUME NEW r \in requests'
      PROVE  /\ r \in Request /\ (r.at # None => InLog(r.at))
             /\ r.dir = "before" =>
                    r.at \in Befores \/ (cursor # None /\ r.at = <<cursor.epoch, cursor.start>>)
  <2>1. CASE r \in requests
    BY <2>1 DEF ViewText, AskedText, Befores
  <2>2. CASE r \in new
    BY <2>2 DEF NewRequest
  <2>3. QED
    BY <2>1, <2>2
<1>3. AskedText'
  BY <1>2 DEF AskedText, InLog
<1>4. QED
  BY <1>1, <1>2, <1>3, TextStays

\* The places of the cursor and of pages are rows.
LEMMA EndText ==
    ASSUME SyncInv, ViewText, cursor # None
    PROVE  /\ End \in RowIds /\ InLog(End)
           /\ <<cursor.epoch, cursor.start>> \in RowIds /\ InLog(<<cursor.epoch, cursor.start>>)
<1>1. PICK c : c = cursor
  OBVIOUS
<1>2. c \in Cursor /\ c.start <= c.end
  BY <1>1 DEF ViewText, CursorText
<1>3. /\ c.epoch \in 1..MaxEpochs /\ c.start \in 1..MaxRows /\ c.end \in 1..MaxRows
      /\ End = <<c.epoch, c.end>>
  BY <1>1, <1>2 DEF Cursor, End
<1>4. <<c.epoch, c.end>> \in RowIds /\ <<c.epoch, c.start>> \in RowIds
  BY <1>3 DEF RowIds
<1>5. InLog(<<c.epoch, c.end>>)
  BY <1>1, <1>3 DEF SyncInv, CursorInLog
<1>6. /\ c.epoch <= epoch /\ (c.epoch = epoch => c.end <= Len(log))
  BY <1>5 DEF InLog
<1>7. InLog(<<c.epoch, c.start>>)
  <2>1. Len(log) \in Nat
    BY LogLength DEF ViewText
  <2>2. c.epoch = epoch => c.start <= Len(log)
    BY <1>2, <1>3, <1>6, <2>1
  <2>3. QED
    BY <1>6, <2>2 DEF InLog
<1>8. QED
  BY <1>1, <1>3, <1>4, <1>5, <1>7

\* A request for the tail, or from a place in the log, is one.
LEMMA NewRequestOK ==
    ASSUME NEW why \in {"init", "catchup", "older", "redo", "resume"},
           NEW dir \in {"tail", "after", "before"}, NEW at \in RowIds \cup {None},
           at # None => InLog(at),
           dir = "before" => cursor # None /\ at = <<cursor.epoch, cursor.start>>
    PROVE  NewRequest(Ask(why, dir, at))
<1> PICK r : r = Ask(why, dir, at)
  OBVIOUS
<1>1. r \in Request /\ r.dir = dir /\ r.at = at
  BY DEF Ask, Request
<1>2. QED
  BY <1>1 DEF NewRequest

\* So are those to catch up.
LEMMA NewCatchUps ==
    ASSUME NEW places, \A at \in places : at \in RowIds /\ InLog(at)
    PROVE  \A r \in CatchUps(places) : NewRequest(r)
BY NewRequestOK DEF CatchUps

\* Every step by which the app asks or gives up keeps the invariant.
LEMMA OpenText ==
    ASSUME SyncInv, SyncInv', ViewText, Open
    PROVE  ViewText'
<1>1. /\ requests' = requests \cup {InitialRequest}
      /\ UNCHANGED <<epoch, log, unread, toApp, cursor, tail, head>> /\ mishaps \subseteq mishaps'
  BY DEF Open, daemon, view, bounds
<1>2. NewRequest(InitialRequest)
  <2>1. CASE applied /\ cursor # None
    <3>1. PICK at : at = End
      OBVIOUS
    <3>2. NewRequest(Ask("init", "after", at))
      BY <2>1, <3>1, EndText, NewRequestOK
    <3>3. InitialRequest = Ask("init", "after", at)
      BY <2>1, <3>1 DEF InitialRequest
    <3>4. QED
      BY <3>2, <3>3
  <2>2. CASE ~(applied /\ cursor # None)
    <3>1. NewRequest(Ask("init", "tail", None))
      BY NewRequestOK
    <3>2. QED
      BY <2>2, <3>1 DEF InitialRequest
  <2>3. QED
    BY <2>1, <2>2
<1>3. PICK new : new = {InitialRequest}
  OBVIOUS
<1>4. requests' \subseteq requests \cup new /\ \A r \in new : NewRequest(r)
  BY <1>1, <1>2, <1>3
<1>5. \A i \in 1..Len(toApp') : Carries(toApp'[i])
  BY <1>1, KeptCarries
<1>6. QED
  BY <1>1, <1>4, <1>5, AskText

LEMMA ResumeText ==
    ASSUME SyncInv, SyncInv', ViewText, Resume
    PROVE  ViewText'
<1>1. PICK new : new = IF cursor = None THEN {Ask("resume", "tail", None)} ELSE CatchUps({End})
  OBVIOUS
<1>2. /\ requests' = requests \cup new
      /\ UNCHANGED <<epoch, log, unread, toApp, cursor, tail, head>> /\ mishaps \subseteq mishaps'
  BY <1>1 DEF Resume, daemon, view
<1>3. \A r \in new : NewRequest(r)
  <2>1. NewRequest(Ask("resume", "tail", None))
    BY NewRequestOK
  <2>2. CASE cursor # None
    <3>1. PICK places : places = {End}
      OBVIOUS
    <3>2. \A at \in places : at \in RowIds /\ InLog(at)
      BY <2>2, <3>1, EndText
    <3>3. \A r \in CatchUps(places) : NewRequest(r)
      BY <3>2, NewCatchUps
    <3>4. QED
      BY <1>1, <2>2, <3>1, <3>3
  <2>3. QED
    BY <1>1, <2>1, <2>2
<1>4. \A i \in 1..Len(toApp') : Carries(toApp'[i])
  BY <1>2, KeptCarries
<1>5. QED
  BY <1>2, <1>3, <1>4, AskText

LEMMA LoadOlderText ==
    ASSUME SyncInv, SyncInv', ViewText, LoadOlder
    PROVE  ViewText'
<1>1. /\ requests' = requests \cup {Ask("older", "before", <<cursor.epoch, cursor.start>>)}
      /\ cursor # None
      /\ UNCHANGED <<epoch, log, unread, toApp, cursor, tail, head>> /\ mishaps \subseteq mishaps'
  BY DEF LoadOlder, daemon, view, bounds
<1>2. PICK at : at = <<cursor.epoch, cursor.start>>
  OBVIOUS
<1>3. NewRequest(Ask("older", "before", at))
  BY <1>1, <1>2, EndText, NewRequestOK
<1>4. PICK new : new = {Ask("older", "before", at)}
  OBVIOUS
<1>5. requests' \subseteq requests \cup new /\ \A r \in new : NewRequest(r)
  BY <1>1, <1>2, <1>3, <1>4
<1>6. \A i \in 1..Len(toApp') : Carries(toApp'[i])
  BY <1>1, KeptCarries
<1>7. QED
  BY <1>1, <1>5, <1>6, AskText

LEMMA DisconnectText ==
    ASSUME SyncInv, SyncInv', ViewText, Disconnect
    PROVE  ViewText'
<1>1. /\ requests' = {} /\ toApp' = <<>>
      /\ UNCHANGED <<epoch, log, unread, cursor, tail, head>> /\ mishaps \subseteq mishaps'
  BY DEF Disconnect, daemon, view
<1>2. \A i \in 1..Len(toApp') : Carries(toApp'[i])
  BY <1>1
<1>3. PICK new : new = {}
  OBVIOUS
<1>4. requests' \subseteq requests \cup new /\ \A r \in new : NewRequest(r)
  BY <1>1, <1>3
<1>5. QED
  BY <1>1, <1>2, <1>4, AskText

\* Nothing the display depends on changes.
LEMMA NothingText ==
    ASSUME SyncInv, SyncInv', ViewText,
           UNCHANGED <<epoch, log, unread, requests, toApp, cursor, tail, head>>,
           mishaps \subseteq mishaps'
    PROVE  ViewText'
<1>1. \A i \in 1..Len(toApp') : Carries(toApp'[i])
  BY KeptCarries
<1>2. PICK new : new = {}
  OBVIOUS
<1>3. requests' \subseteq requests \cup new /\ \A r \in new : NewRequest(r)
  BY <1>2
<1>4. QED
  BY <1>1, <1>3, AskText

LEMMA TimesOutText ==
    ASSUME SyncInv, SyncInv', ViewText, NEW r \in Awaited, TimesOut(r)
    PROVE  ViewText'
<1> DEFINE given(q) == IF q = r THEN [q EXCEPT !.late = TRUE] ELSE q
           M(i) == IF toApp[i].type = "page" THEN [toApp[i] EXCEPT !.to = given(@)] ELSE toApp[i]
<1>1. /\ requests' = {given(q) : q \in requests}
      /\ toApp' = [i \in DOMAIN toApp |-> M(i)]
      /\ UNCHANGED <<epoch, log, unread, cursor, tail, head>> /\ mishaps \subseteq mishaps'
  BY Happening DEF TimesOut, daemon, view
<1>2. LogOK' /\ Lengthens(epoch, log, epoch', log')
  BY <1>1, SameLog DEF ViewText
<1>3. PICK S : toApp \in Seq(S)
  BY DEF SyncInv, SentShapes
<1>4. /\ DOMAIN toApp = 1..Len(toApp) /\ Len(toApp) \in Nat
      /\ \A i \in 1..Len(toApp) : MessageOK(toApp[i])
  BY <1>3 DEF SyncInv, SentShapes
<1>5. DOMAIN toApp' = 1..Len(toApp')
  <2>1. PICK S2 : toApp' \in Seq(S2)
    BY DEF SyncInv, SentShapes
  <2>2. QED
    BY <2>1
<1>6. ASSUME NEW i \in 1..Len(toApp')
      PROVE  Carries(toApp'[i])
  <2>1. i \in 1..Len(toApp) /\ toApp'[i] = M(i) /\ MessageOK(toApp[i])
    BY <1>1, <1>4, <1>5
  <2>2. PICK m, n : m = toApp[i] /\ n = toApp'[i]
    OBVIOUS
  <2>3. CASE m.type = "page"
    <3>1. PICK q : q = given(m.to)
      OBVIOUS
    <3>2. m \in Pages(m.entries) /\ m.to \in Requests
      BY <2>1, <2>2, <2>3 DEF MessageOK, PageOK, Pages
    <3>3. q.dir = m.to.dir /\ q.at = m.to.at
      BY <3>1, <3>2 DEF Requests
    <3>4. n = [m EXCEPT !.to = q]
      BY <2>1, <2>2, <2>3, <3>1
    <3>5. /\ n.type = m.type /\ n.to = q /\ n.epoch = m.epoch /\ n.start = m.start /\ n.end = m.end
          /\ n.entries = m.entries /\ n.reset = m.reset /\ n.hasNewer = m.hasNewer
      BY <3>2, <3>4 DEF Pages
    <3>6. SameText(n, m)
      BY <2>3, <3>3, <3>5 DEF SameText
    <3>7. QED
      BY <2>1, <2>2, <3>6 DEF Carries
  <2>4. CASE m.type # "page"
    <3>1. n = m
      BY <2>1, <2>2, <2>4
    <3>2. SameText(n, m)
      BY <3>1, SameTextSelf
    <3>3. QED
      BY <2>1, <2>2, <3>2 DEF Carries
  <2>5. QED
    BY <2>3, <2>4
<1>7. ASSUME NEW q \in requests'
      PROVE  /\ q \in Request /\ (q.at # None => InLog(q.at))
             /\ q.dir = "before" => q.at \in Befores
  <2>1. PICK o \in requests : q = given(o)
    BY <1>1
  <2>2. o \in Request /\ (o.at # None => InLog(o.at))
    BY DEF ViewText, AskedText
  <2>3. q \in Request /\ q.dir = o.dir /\ q.at = o.at
    BY <2>1, <2>2 DEF Request
  <2>4. o.dir = "before" => o.at \in Befores
    BY DEF Befores
  <2>5. QED
    BY <2>2, <2>3, <2>4
<1>8. AskedText'
  BY <1>1, <1>7 DEF AskedText, InLog
<1>9. QED
  BY <1>1, <1>2, <1>6, <1>7, <1>8, TextStays

LEMMA ConnectText ==
    ASSUME SyncInv, SyncInv', ViewText, Connect
    PROVE  ViewText'
<1>1. /\ UNCHANGED <<epoch, log, unread, requests, toApp, cursor, tail, head>>
      /\ mishaps \subseteq mishaps'
  BY DEF Connect, daemon, view, bounds
<1>2. QED
  BY <1>1, NothingText

-----------------------------------------------------------------------------
(* The app receives *)

\* What is shown.
LEMMA ShowOK ==
    ASSUME NEW v, v \in Views, Show(v)
    PROVE  Shown' \in Views /\ tail' = v.tail
BY DEF Show, Shown, Views

\* The first message that arrives.
LEMMA FirstText ==
    ASSUME SyncInv, ViewText, toApp # <<>>
    PROVE  MessageText(Head(toApp), epoch, log)
<1>1. PICK S : toApp \in Seq(S)
  BY DEF SyncInv, SentShapes
<1>2. PICK m : m = toApp[1]
  OBVIOUS
<1>3. 1 \in 1..Len(toApp) /\ Head(toApp) = m
  BY <1>1, <1>2
<1>4. MessageText(m, epoch, log)
  BY <1>2, <1>3 DEF ViewText, SentText
<1>5. QED
  BY <1>3, <1>4

\* What does not depend on the message.
LEMMA ReceivedText ==
    ASSUME SyncInv, SyncInv', ViewText, toApp # <<>>, toApp' = Tail(toApp),
           UNCHANGED <<epoch, log, unread>>,
           NEW new, requests' \subseteq requests \cup new,
           \A r \in new : NewRequest(r) /\ r.dir # "before"
    PROVE  LogOK' /\ SentText' /\ AskedText' /\ Befores' \subseteq Befores
<1>1. LogOK'
  BY SameLog DEF ViewText
<1>2. PICK S : toApp \in Seq(S)
  BY DEF SyncInv, SentShapes
<1>3. toApp' \in Seq(S) /\ \A i \in 1..Len(toApp') : i + 1 \in 1..Len(toApp) /\ toApp'[i] = toApp[i + 1]
  BY <1>2
<1>4. SentText'
  <2> SUFFICES ASSUME NEW i \in 1..Len(toApp')
               PROVE  MessageText(toApp'[i], epoch', log')
    BY DEF SentText
  <2>1. PICK m : m = toApp'[i]
    OBVIOUS
  <2>2. PICK j \in 1..Len(toApp) : m = toApp[j]
    BY <1>3, <2>1
  <2>3. PICK n : n = toApp[j]
    OBVIOUS
  <2>4. MessageText(n, epoch, log)
    BY <2>3 DEF ViewText, SentText
  <2>5. MessageText(m, epoch, log)
    BY <2>2, <2>3, <2>4
  <2>6. QED
    BY <2>1, <2>5
<1>5. ASSUME NEW r \in requests'
      PROVE  r \in Request /\ (r.at # None => InLog(r.at))
  <2>1. CASE r \in requests
    BY <2>1 DEF ViewText, AskedText
  <2>2. CASE r \in new
    BY <2>2 DEF NewRequest
  <2>3. QED
    BY <2>1, <2>2
<1>6. AskedText'
  BY <1>5 DEF AskedText, InLog
<1>7. Befores' \subseteq Befores
  <2> SUFFICES ASSUME NEW at \in Befores'
               PROVE  at \in Befores
    OBVIOUS
  <2>1. CASE \E r \in requests' : r.dir = "before" /\ at = r.at
    <3>1. \E r \in requests : r.dir = "before" /\ at = r.at
      BY <2>1
    <3>2. QED
      BY <1>2, <3>1, BeforesOf DEF Befores, Under
  <2>2. CASE \E i \in 1..Len(toApp') :
                 toApp'[i].type = "page" /\ toApp'[i].to.dir = "before" /\ at = toApp'[i].to.at
    <3>1. PICK i \in 1..Len(toApp') :
              toApp'[i].type = "page" /\ toApp'[i].to.dir = "before" /\ at = toApp'[i].to.at
      BY <2>2
    <3>2. \E j \in 1..Len(toApp) : toApp[j].type = "page" /\ toApp[j].to.dir = "before" /\ at = toApp[j].to.at
      BY <1>3, <3>1
    <3>3. QED
      BY <1>2, <3>2, BeforesOf DEF Befores, Under
  <2>3. QED
    BY <1>3, <2>1, <2>2, BeforesOf DEF Befores, Under
<1>8. QED
  BY <1>1, <1>4, <1>6, <1>7

\* Who catches up asks for no older rows.
LEMMA CatchUpDirs == \A places : \A r \in CatchUps(places) : r.dir # "before"
BY DEF CatchUps, Ask

\* They are places.
LEMMA BeforesPlaces ==
    ASSUME SyncInv
    PROVE  Befores \subseteq Places
<1> SUFFICES ASSUME NEW at \in Befores
             PROVE  at \in Places
  OBVIOUS
<1>1. PICK S : toApp \in Seq(S)
  BY DEF SyncInv, SentShapes
<1>2. CASE \E r \in requests : r.dir = "before" /\ at = r.at
  BY <1>2 DEF SyncInv, Shapes, RequestOK
<1>3. CASE \E i \in 1..Len(toApp) :
               toApp[i].type = "page" /\ toApp[i].to.dir = "before" /\ at = toApp[i].to.at
  <2>1. PICK i \in 1..Len(toApp) :
            toApp[i].type = "page" /\ toApp[i].to.dir = "before" /\ at = toApp[i].to.at
    BY <1>3
  <2>2. RequestOK(toApp[i].to)
    BY <2>1 DEF SyncInv, SentShapes, MessageOK, PageOK
  <2>3. QED
    BY <2>1, <2>2 DEF RequestOK
<1>4. QED
  BY <1>1, <1>2, <1>3, BeforesOf DEF Befores, Under

\* A row is taken.
LEMMA RowTakenText ==
    ASSUME SyncInv, SyncInv', ViewText, NEW m, m = Head(toApp), NEW decision,
           decision = Decision(m.row), decision \notin {"drop", "gap"}, RowArrives
    PROVE  ViewText'
<1>1. PICK start, base :
          /\ start = IF decision = "accept" THEN cursor.start ELSE m.row[2]
          /\ base = IF decision = "restart" THEN [tail |-> <<>>, head |-> <<>>] ELSE Shown
  OBVIOUS
<1>2. /\ cursor' = [epoch |-> m.row[1], start |-> start, end |-> m.row[2]]
      /\ Show(Applied(base, m.kind, <<m.row>>))
      /\ toApp # <<>> /\ m.type = "row" /\ toApp' = Tail(toApp)
      /\ UNCHANGED <<epoch, log, unread, requests, mishaps>>
  BY <1>1 DEF RowArrives, Delivered, daemon, bounds
<1>3. PICK new : new = {}
  OBVIOUS
<1>4. LogOK' /\ SentText' /\ AskedText' /\ Befores' \subseteq Befores
  <2>1. requests' \subseteq requests \cup new /\ \A r \in new : NewRequest(r) /\ r.dir # "before"
    BY <1>2, <1>3
  <2>2. QED
    BY <1>2, <2>1, ReceivedText
<1>5. MessageText(m, epoch, log)
  BY <1>2, FirstText
<1>6. PICK e, k : m.row = <<e, k>> /\ e \in 1..MaxEpochs /\ k \in 1..MaxRows
  BY <1>2, <1>5 DEF MessageText, RowIds
<1>7. /\ m.row \in RowIds /\ m.kind \in Kinds /\ e <= epoch
      /\ e = epoch => k <= Len(log) /\ log[k] = m.kind
  BY <1>2, <1>5, <1>6 DEF MessageText
<1>8. /\ Shapes /\ m.row \in Positive \X Positive
      /\ cursor # None => Precedes(End, m)
      /\ Place(m) = m.row
  BY <1>2, FirstMessage DEF SyncInv, MessageOK, Forward, Place
<1>9. base \in Views /\ (decision # "restart" => base.tail = tail)
  <2>1. [tail |-> <<>>, head |-> <<>>] \in Views
    BY DEF Views
  <2>2. Shown \in Views /\ Shown.tail = tail
    BY DEF ViewText, Shown
  <2>3. QED
    BY <1>1, <2>1, <2>2
<1>10. PICK text : text = <<m.row>>
  OBVIOUS
<1>11. text \in Seq(RowIds)
  BY <1>7, <1>10
<1>12. PICK v : v = Applied(base, m.kind, text)
  OBVIOUS
<1>13. v \in Views /\ Grown(base.tail, v.tail, m.kind, text)
  BY <1>7, <1>9, <1>11, <1>12, AppliedOK
<1>14. Shown' \in Views /\ tail' = v.tail
  BY <1>2, <1>10, <1>12, <1>13, ShowOK
<1>15. /\ \A t : Holds(base.tail, t) => Holds(tail', t)
       /\ m.kind = "message" => Holds(tail', text)
  BY <1>13, <1>14, GrownHolds
<1>16. \/ cursor = None /\ decision = "init"
       \/ cursor # None /\ decision = "restart" /\ e # cursor.epoch
       \/ /\ cursor # None /\ decision = "accept" /\ e = cursor.epoch /\ k = cursor.end + 1
  BY <1>6, <1>8, DecisionShape
<1>17. start \in 1..MaxRows /\ start <= k
  <2>1. CASE decision = "accept"
    <3>1. cursor \in Cursor /\ cursor.start <= cursor.end /\ start = cursor.start
      BY <1>1, <1>16, <2>1 DEF ViewText, CursorText
    <3>2. QED
      BY <1>6, <1>16, <2>1, <3>1 DEF Cursor
  <2>2. CASE decision # "accept"
    BY <1>1, <1>6, <2>2
  <2>3. QED
    BY <2>1, <2>2
<1>18. PICK c : c = [epoch |-> e, start |-> start, end |-> k]
  OBVIOUS
<1>19. cursor' = c /\ c \in Cursor /\ c.epoch = e /\ c.start = start /\ c.end = k
  BY <1>2, <1>6, <1>17, <1>18 DEF Cursor
<1>20. c # None
  <2>1. c \in [epoch: Nat, start: Nat, end: Nat]
    BY <1>6, <1>17, <1>18
  <2>2. QED
    BY <2>1, NoneAssumption
<1>21. CursorText'
  BY <1>17, <1>19 DEF CursorText
<1>22. AllBehind'
  <2> SUFFICES ASSUME "moved" \notin mishaps', NEW at \in Befores'
               PROVE  Behind(at)'
    BY DEF AllBehind
  <2>1. Behind(at)
    BY <1>2, <1>4 DEF ViewText, AllBehind
  <2>2. CASE decision = "accept"
    BY <1>1, <1>16, <1>19, <1>20, <2>1, <2>2 DEF Behind
  <2>3. CASE decision = "restart"
    <3>1. cursor # None /\ cursor \in Cursor
      BY <2>1 DEF Behind, ViewText, CursorText
    <3>2. cursor.epoch <= e /\ cursor.epoch # e /\ cursor.epoch \in Nat
      BY <1>6, <1>8, <1>16, <2>3, <3>1 DEF Precedes, End, Cursor
    <3>4. at[1] < e
      <4>1. at[1] < cursor.epoch \/ at[1] = cursor.epoch
        BY <2>1 DEF Behind
      <4>2. CASE at[1] = cursor.epoch
        BY <1>6, <3>2, <4>2
      <4>3. CASE at[1] < cursor.epoch
        <5>1. at[1] \in Nat
          BY <1>4, BeforesPlaces DEF Places, Positive
        <5>2. QED
          BY <1>6, <3>2, <4>3, <5>1
      <4>4. QED
        BY <4>1, <4>2, <4>3
    <3>5. QED
      BY <1>19, <1>20, <3>4 DEF Behind
  <2>4. CASE decision = "init"
    BY <1>16, <2>1, <2>4 DEF Behind
  <2>5. QED
    BY <1>16, <2>2, <2>3, <2>4
<1>23. Covered'
  <2> SUFFICES ASSUME cursor'.epoch = epoch', "moved" \notin mishaps',
                      NEW n \in cursor'.start..cursor'.end, log'[n] = "message"
               PROVE  Holds(tail', << <<epoch', n>> >>)
    BY DEF Covered
  <2>1. e = epoch /\ n \in start..k /\ log[n] = "message" /\ "moved" \notin mishaps
    BY <1>2, <1>19
  <2>2. CASE n = k
    <3>1. m.kind = "message" /\ text = << <<epoch, n>> >>
      BY <1>6, <1>7, <1>10, <2>1, <2>2
    <3>2. QED
      BY <1>2, <1>15, <3>1
  <2>3. CASE n # k
    <3>1. decision = "accept" /\ start = cursor.start
      BY <1>1, <1>6, <1>16, <2>1, <2>3
    <3>2. cursor # None /\ cursor.epoch = epoch /\ k = cursor.end + 1 /\ cursor \in Cursor
      BY <1>16, <2>1, <3>1 DEF ViewText, CursorText
    <3>3. n \in cursor.start..cursor.end
      BY <1>6, <2>1, <2>3, <3>1, <3>2 DEF Cursor
    <3>4. Holds(tail, << <<epoch, n>> >>)
      BY <2>1, <3>2, <3>3 DEF ViewText, Covered
    <3>5. base.tail = tail
      BY <1>9, <3>1
    <3>6. QED
      BY <1>2, <1>15, <3>4, <3>5
  <2>4. QED
    BY <2>2, <2>3
<1>24. QED
  BY <1>4, <1>14, <1>21, <1>22, <1>23 DEF ViewText

\* Messages that stay are held.
LEMMA SameHolds ==
    ASSUME NEW old, NEW new, SameMessages(old, new)
    PROVE  \A t : Holds(old, t) => Holds(new, t)
<1>1. Grown(old, new, "assistant", <<>>)
  BY DEF Grown
<1>2. QED
  BY <1>1, GrownHolds

\* Whatever arrives keeps the invariant.
LEMMA RowArrivesText ==
    ASSUME SyncInv, SyncInv', ViewText, RowArrives
    PROVE  ViewText'
<1>1. PICK m, decision : m = Head(toApp) /\ decision = Decision(m.row)
  OBVIOUS
<1>2. CASE decision \notin {"drop", "gap"}
  BY <1>1, <1>2, RowTakenText
<1>3. CASE decision \in {"drop", "gap"}
  <2>1. /\ CatchUp(IF decision = "gap" THEN {End} ELSE {})
        /\ toApp # <<>> /\ m.type = "row" /\ toApp' = Tail(toApp)
        /\ UNCHANGED <<epoch, log, unread, cursor, tail, head>> /\ mishaps \subseteq mishaps'
    BY <1>1, <1>3 DEF RowArrives, Delivered, daemon, bounds, view
  <2>2. PICK places : places = IF decision = "gap" THEN {End} ELSE {}
    OBVIOUS
  <2>3. m.row \in Positive \X Positive /\ Shapes
    BY <1>1, <2>1, FirstMessage DEF SyncInv, MessageOK
  <2>4. cursor # None
    BY <1>1, <1>3, <2>3, DecisionShape
  <2>5. \A at \in places : at \in RowIds /\ InLog(at)
    BY <2>2, <2>4, EndText
  <2>6. PICK new : new = CatchUps(places)
    OBVIOUS
  <2>7. requests' \subseteq requests \cup new /\ \A r \in new : NewRequest(r)
    BY <2>1, <2>2, <2>5, <2>6, NewCatchUps DEF CatchUp
  <2>8. \A i \in 1..Len(toApp') : Carries(toApp'[i])
    BY <2>1, TailCarries
  <2>9. QED
    BY <2>1, <2>7, <2>8, AskText
<1>4. QED
  BY <1>2, <1>3

LEMMA RedoneArrivesText ==
    ASSUME SyncInv, SyncInv', ViewText, RedoneArrives
    PROVE  ViewText'
<1>1. PICK at : at = IF cursor = None THEN None ELSE End
  OBVIOUS
<1>2. PICK new : new = {Ask("redo", "tail", at)}
  OBVIOUS
<1>3. /\ toApp # <<>> /\ toApp' = Tail(toApp) /\ requests' = requests \cup new
      /\ UNCHANGED <<epoch, log, unread, cursor, tail, head>> /\ mishaps \subseteq mishaps'
  BY <1>1, <1>2 DEF RedoneArrives, Delivered, daemon, bounds, view
<1>4. at \in RowIds \cup {None} /\ (at # None => InLog(at))
  BY <1>1, EndText
<1>5. \A r \in new : NewRequest(r)
  BY <1>2, <1>4, NewRequestOK
<1>6. \A i \in 1..Len(toApp') : Carries(toApp'[i])
  BY <1>3, TailCarries
<1>7. QED
  BY <1>3, <1>5, <1>6, AskText

LEMMA EndArrivesText ==
    ASSUME SyncInv, SyncInv', ViewText, EndArrives
    PROVE  ViewText'
<1>1. PICK v : v = IF head = <<>> THEN Shown ELSE Flushed(Shown)
  OBVIOUS
<1>2. PICK new : new = CatchUps(EndOf(cursor))
  OBVIOUS
<1>3. /\ toApp # <<>> /\ toApp' = Tail(toApp) /\ requests' = requests \cup new /\ Show(v)
      /\ UNCHANGED <<epoch, log, unread, cursor, mishaps>>
  BY <1>1, <1>2 DEF EndArrives, Delivered, CatchUp, daemon, bounds
<1>4. \A r \in new : NewRequest(r) /\ r.dir # "before"
  <2>1. EndOf(cursor) = IF cursor = None THEN {} ELSE {End}
    BY DEF EndOf, End
  <2>2. PICK places : places = EndOf(cursor)
    OBVIOUS
  <2>3. \A at \in places : at \in RowIds /\ InLog(at)
    BY <2>1, <2>2, EndText
  <2>4. QED
    BY <1>2, <2>2, <2>3, NewCatchUps, CatchUpDirs
<1>5. LogOK' /\ SentText' /\ AskedText' /\ Befores' \subseteq Befores
  BY <1>3, <1>4, ReceivedText
<1>6. v \in Views /\ SameMessages(tail, v.tail)
  <2>1. Shown \in Views /\ Shown.tail = tail
    BY DEF ViewText, Shown
  <2>2. PICK w : w = Shown
    OBVIOUS
  <2>3. Flushed(w) \in Views /\ SameMessages(w.tail, Flushed(w).tail)
    BY <2>1, <2>2, FlushedOK
  <2>4. QED
    BY <1>1, <2>1, <2>2, <2>3, SameSelf
<1>7. Shown' \in Views /\ tail' = v.tail
  BY <1>3, <1>6, ShowOK
<1>8. \A t : Holds(tail, t) => Holds(tail', t)
  BY <1>6, <1>7, SameHolds
<1>9. CursorText'
  BY <1>3 DEF ViewText, CursorText
<1>10. AllBehind'
  <2> SUFFICES ASSUME "moved" \notin mishaps', NEW at \in Befores'
               PROVE  Behind(at)'
    BY DEF AllBehind
  <2>1. Behind(at)
    BY <1>3, <1>5 DEF ViewText, AllBehind
  <2>2. QED
    BY <1>3, <2>1 DEF Behind
<1>11. Covered'
  <2>1. Covered
    BY DEF ViewText
  <2>2. QED
    BY <1>3, <1>8, <2>1 DEF Covered
<1>12. QED
  BY <1>5, <1>7, <1>9, <1>10, <1>11 DEF ViewText

\* A page takes the place of the view.
LEMMA ReplaceText ==
    ASSUME LogOK, NEW p, PageText(p, epoch, log), Shown \in Views, ReplacePath(p),
           UNCHANGED <<epoch, log>>, "moved" \notin mishaps' => Befores' = {}
    PROVE  CursorText' /\ Shown' \in Views /\ AllBehind' /\ Covered'
<1>1. PICK w, v : w = Shown /\ v = Replaced(w, p.entries)
  OBVIOUS
<1>2. p.entries \in Seq(EntryShape)
  BY DEF PageText
<1>3. v \in Views /\ Taken(<<>>, v.tail, p.entries)
  BY <1>1, <1>2, ReplacedOK
<1>4. Show(v) /\ (p.start = 0 => cursor' = None)
      /\ (p.start # 0 => cursor' = [epoch |-> p.epoch, start |-> p.start, end |-> p.end])
  BY <1>1 DEF ReplacePath
<1>5. Shown' \in Views /\ tail' = v.tail
  BY <1>3, <1>4, ShowOK
<1>6. AllBehind'
  BY DEF AllBehind
<1>7. CASE p.start = 0
  BY <1>4, <1>5, <1>6, <1>7 DEF CursorText, Covered
<1>8. CASE p.start # 0
  <2>1. /\ p.epoch \in 1..epoch /\ p.start \in 0..MaxRows /\ p.end \in 0..MaxRows
        /\ p.start <= p.end /\ epoch \in 1..MaxEpochs /\ MaxRows \in Nat /\ MaxEpochs \in Nat
    BY BoundsAssumption DEF PageText, LogOK
  <2>2. PICK c : c = [epoch |-> p.epoch, start |-> p.start, end |-> p.end]
    OBVIOUS
  <2>3. cursor' = c /\ c \in Cursor /\ c.epoch = p.epoch /\ c.start = p.start /\ c.end = p.end
    BY <1>4, <1>8, <2>1, <2>2 DEF Cursor
  <2>4. CursorText'
    BY <2>1, <2>3 DEF CursorText
  <2>5. Covered'
    <3> SUFFICES ASSUME cursor'.epoch = epoch', NEW n \in cursor'.start..cursor'.end,
                        log'[n] = "message"
                 PROVE  Holds(tail', << <<epoch', n>> >>)
      BY DEF Covered
    <3>1. p.epoch = epoch /\ n \in p.start..p.end /\ n > 0 /\ log[n] = "message"
      BY <1>8, <2>1, <2>3
    <3>2. PICK k \in Nat : Word(p.entries, epoch, k, n)
      BY <3>1 DEF PageText
    <3>3. k \in 1..Len(p.entries) /\ p.entries[k].kind = "message"
          /\ p.entries[k].text = << <<epoch, n>> >>
      BY <3>2 DEF Word
    <3>4. Holds(v.tail, << <<epoch, n>> >>)
      BY <1>3, <3>3 DEF Taken
    <3>5. QED
      BY <1>5, <3>4
  <2>6. QED
    BY <1>5, <1>6, <2>4, <2>5
<1>9. QED
  BY <1>7, <1>8

\* What the view shows after a page has been put before or after it.
LEMMA TakenCovers ==
    ASSUME LogOK, NEW p, PageText(p, epoch, log), NEW new, Taken(tail, new, p.entries),
           p.epoch = epoch, NEW n \in p.start..p.end, n > 0, log[n] = "message"
    PROVE  Holds(new, << <<epoch, n>> >>)
<1>1. PICK k \in Nat : Word(p.entries, epoch, k, n)
  BY DEF PageText
<1>2. k \in 1..Len(p.entries) /\ p.entries[k].kind = "message"
      /\ p.entries[k].text = << <<epoch, n>> >>
  BY <1>1 DEF Word
<1>3. QED
  BY <1>2 DEF Taken

\* A page goes before the view, after it, or nowhere.
LEMMA IncrementalText ==
    ASSUME ViewText, NEW p, PageText(p, epoch, log), PageRange(p), ~p.reset,
           p.to.dir = "before" => p.to.at \in Befores,
           IncrementalPath(p), UNCHANGED <<epoch, log>>, Befores' \subseteq Befores,
           Befores \subseteq Places, mishaps \subseteq mishaps'
    PROVE  CursorText' /\ Shown' \in Views /\ AllBehind' /\ Covered'
<1>0. PICK w : w = Shown
  OBVIOUS
<1>1. /\ p.epoch \in 1..epoch /\ p.start \in 0..MaxRows /\ p.end \in 0..MaxRows
      /\ p.start <= p.end /\ epoch \in 1..MaxEpochs /\ MaxRows \in Nat /\ MaxEpochs \in Nat
      /\ (p.start = 0 <=> p.end = 0) /\ (p.entries # <<>> => p.start > 0)
      /\ p.entries \in Seq(EntryShape) /\ LogOK /\ w \in Views /\ w.tail = tail
      /\ cursor # None => cursor \in Cursor /\ cursor.start <= cursor.end
  BY <1>0, BoundsAssumption DEF PageText, LogOK, ViewText, CursorText, Shown
<1>2. ASSUME "moved" \notin mishaps', NEW at \in Befores'
      PROVE  "moved" \notin mishaps /\ Behind(at) /\ at \in Places
  BY <1>2 DEF ViewText, AllBehind
<1>3. CASE /\ p.entries # <<>> /\ Older(p)
           /\ cursor' = [cursor EXCEPT !.start = p.start]
           /\ Show(Prepended(Shown, p.entries))
  <2>1. PICK v : v = Prepended(w, p.entries)
    OBVIOUS
  <2>2. v \in Views /\ Taken(tail, v.tail, p.entries)
    BY <1>1, <1>3, <2>1, PrependedOK
  <2>3. Shown' \in Views /\ tail' = v.tail
    BY <1>0, <1>3, <2>1, <2>2, ShowOK
  <2>4. PICK old : old = cursor
    OBVIOUS
  <2>5. /\ p.to.dir = "before" /\ cursor # None /\ p.epoch = old.epoch /\ p.end < old.start
        /\ old \in Cursor /\ old.start <= old.end
    BY <1>1, <1>3, <2>4 DEF Older, InEpoch
  <2>6. PICK c : c = [old EXCEPT !.start = p.start]
    OBVIOUS
  <2>7. /\ cursor' = c /\ c \in Cursor /\ c.epoch = old.epoch /\ c.start = p.start /\ c.end = old.end
        /\ p.start \in 1..MaxRows
    BY <1>1, <1>3, <2>4, <2>5, <2>6 DEF Cursor
  <2>8. c # None
    <3>1. c \in [epoch: Nat, start: Nat, end: Nat]
      BY <2>7 DEF Cursor
    <3>2. QED
      BY <3>1, NoneAssumption
  <2>9. CursorText'
    BY <1>1, <2>5, <2>7 DEF CursorText, Cursor
  <2>10. AllBehind'
    <3> SUFFICES ASSUME "moved" \notin mishaps', NEW at \in Befores'
                 PROVE  Behind(at)'
      BY DEF AllBehind
    <3>1. Behind(at) /\ at[2] \in Nat
      BY <1>2 DEF Places
    <3>2. at[1] < old.epoch \/ (at[1] = old.epoch /\ at[2] >= old.start)
      BY <2>4, <3>1 DEF Behind
    <3>3. at[1] < c.epoch \/ (at[1] = c.epoch /\ at[2] >= c.start)
      BY <1>1, <2>5, <2>7, <3>1, <3>2 DEF Cursor
    <3>4. QED
      BY <2>7, <2>8, <3>3 DEF Behind
  <2>11. Covered'
    <3> SUFFICES ASSUME cursor'.epoch = epoch', "moved" \notin mishaps',
                        NEW n \in cursor'.start..cursor'.end, log'[n] = "message"
                 PROVE  Holds(tail', << <<epoch', n>> >>)
      BY DEF Covered
    <3>1. /\ p.epoch = epoch /\ old.epoch = epoch /\ n \in p.start..old.end /\ log[n] = "message"
          /\ "moved" \notin mishaps
      BY <2>5, <2>7
    <3>2. p.end >= old.start - 1
      <4>1. Behind(p.to.at)
        BY <2>5, <3>1 DEF ViewText, AllBehind
      <4>2. p.epoch = p.to.at[1] /\ p.end = p.to.at[2] - 1
        BY <1>1, <1>3, <2>5, <2>7 DEF PageRange
      <4>3. p.to.at[2] >= old.start
        BY <1>1, <2>4, <2>5, <4>1, <4>2 DEF Behind, Cursor
      <4>4. p.to.at \in Places
        BY <2>5
      <4>5. QED
        BY <2>5, <4>2, <4>3, <4>4 DEF Places, Cursor
    <3>3. CASE n <= p.end
      <4>1. n \in p.start..p.end /\ n > 0
        BY <1>1, <2>7, <3>1, <3>3
      <4>2. QED
        BY <1>1, <2>2, <2>3, <3>1, <4>1, TakenCovers
    <3>4. CASE n > p.end
      <4>1. n \in old.start..old.end
        BY <1>1, <2>5, <3>1, <3>2, <3>4 DEF Cursor
      <4>2. Holds(tail, << <<epoch, n>> >>)
        BY <2>4, <2>5, <3>1, <4>1 DEF ViewText, Covered
      <4>3. QED
        BY <2>2, <2>3, <4>2 DEF Taken
    <3>5. QED
      BY <1>1, <3>1, <3>3, <3>4
  <2>12. QED
    BY <2>3, <2>9, <2>10, <2>11
<1>4. CASE /\ p.entries # <<>> /\ Newer(p)
           /\ cursor' = [epoch |-> p.epoch, start |-> IF cursor = None THEN p.start ELSE cursor.start,
                         end |-> p.end]
           /\ Show(Extended(Shown, p.entries))
  <2>1. PICK v : v = Extended(w, p.entries)
    OBVIOUS
  <2>2. v \in Views /\ Taken(tail, v.tail, p.entries)
    BY <1>1, <2>1, ExtendedOK
  <2>3. Shown' \in Views /\ tail' = v.tail
    BY <1>0, <1>4, <2>1, <2>2, ShowOK
  <2>4. PICK old, start : old = cursor /\ start = IF cursor = None THEN p.start ELSE cursor.start
    OBVIOUS
  <2>5. cursor # None =>
            /\ p.epoch = old.epoch /\ p.end > old.end /\ p.start <= old.end + 1
            /\ old \in Cursor /\ old.start <= old.end /\ start = old.start
    BY <1>1, <1>4, <2>4 DEF Newer, InEpoch
  <2>6. start \in 1..MaxRows /\ start <= p.end /\ p.end \in 1..MaxRows
    BY <1>1, <1>4, <2>4, <2>5 DEF Cursor
  <2>7. PICK c : c = [epoch |-> p.epoch, start |-> start, end |-> p.end]
    OBVIOUS
  <2>8. cursor' = c /\ c \in Cursor /\ c.epoch = p.epoch /\ c.start = start /\ c.end = p.end
    BY <1>1, <1>4, <2>4, <2>6, <2>7 DEF Cursor
  <2>9. c # None
    <3>1. c \in [epoch: Nat, start: Nat, end: Nat]
      BY <2>8 DEF Cursor
    <3>2. QED
      BY <3>1, NoneAssumption
  <2>10. CursorText'
    BY <2>6, <2>8 DEF CursorText
  <2>11. AllBehind'
    <3> SUFFICES ASSUME "moved" \notin mishaps', NEW at \in Befores'
                 PROVE  Behind(at)'
      BY DEF AllBehind
    <3>1. Behind(at)
      BY <1>2
    <3>2. QED
      BY <2>4, <2>5, <2>8, <2>9, <3>1 DEF Behind
  <2>12. Covered'
    <3> SUFFICES ASSUME cursor'.epoch = epoch', "moved" \notin mishaps',
                        NEW n \in cursor'.start..cursor'.end, log'[n] = "message"
                 PROVE  Holds(tail', << <<epoch', n>> >>)
      BY DEF Covered
    <3>1. /\ p.epoch = epoch /\ n \in start..p.end /\ log[n] = "message"
          /\ "moved" \notin mishaps /\ n > 0 /\ n \in Nat
      BY <2>6, <2>8
    <3>2. CASE n >= p.start
      <4>1. n \in p.start..p.end
        BY <1>1, <3>1, <3>2
      <4>2. QED
        BY <1>1, <2>2, <2>3, <3>1, <4>1, TakenCovers
    <3>3. CASE n < p.start
      <4>1. cursor # None /\ n \in old.start..old.end /\ old.epoch = epoch
        BY <1>1, <2>4, <2>5, <3>1, <3>3 DEF Cursor
      <4>2. Holds(tail, << <<epoch, n>> >>)
        BY <2>4, <3>1, <4>1 DEF ViewText, Covered
      <4>3. QED
        BY <2>2, <2>3, <4>2 DEF Taken
    <3>4. QED
      BY <1>1, <3>1, <3>2, <3>3
  <2>13. QED
    BY <2>3, <2>10, <2>11, <2>12
<1>5. CASE UNCHANGED <<cursor, view>>
  <2>1. UNCHANGED <<cursor, tail, head>>
    BY <1>5 DEF view
  <2>2. CursorText' /\ Shown' \in Views
    BY <2>1 DEF ViewText, CursorText, Shown
  <2>3. AllBehind'
    <3> SUFFICES ASSUME "moved" \notin mishaps', NEW at \in Befores'
                 PROVE  Behind(at)'
      BY DEF AllBehind
    <3>1. Behind(at)
      BY <1>2
    <3>2. QED
      BY <2>1, <3>1 DEF Behind
  <2>4. Covered'
    <3>1. Covered
      BY DEF ViewText
    <3>2. QED
      BY <2>1, <3>1 DEF Covered
  <2>5. QED
    BY <2>2, <2>3, <2>4
<1>6. QED
  BY <1>3, <1>4, <1>5 DEF IncrementalPath

LEMMA PageArrivesText ==
    ASSUME SyncInv, SyncInv', ViewText, PageArrives
    PROVE  ViewText'
<1>1. PICK p : p = Head(toApp)
  OBVIOUS
<1> DEFINE replaces == p.reset \/ (p.to.dir = "tail" /\ init # None)
           complete == p.to.dir # "after" \/ ~p.hasNewer
           behind == IF replaces THEN (IF p.reset \/ p.end = 0 THEN {} ELSE {<<p.epoch, p.end>>})
                     ELSE IF Ahead(p) THEN {End} ELSE {}
           places == behind \cup IF ~complete /\ p.end > 0 THEN {<<p.epoch, p.end>>} ELSE {}
<1>2. /\ toApp # <<>> /\ p.type = "page" /\ toApp' = Tail(toApp)
      /\ UNCHANGED <<epoch, log, unread>>
  BY <1>1 DEF PageArrives, Delivered, daemon
<1>3. /\ requests' = requests \cup CatchUps(places)
      /\ IF replaces THEN ReplacePath(p) ELSE IncrementalPath(p)
      /\ Happens("moved", replaces /\ \E q \in requests \cup Under : q.dir = "before")
  BY <1>1 DEF PageArrives
<1>4. MessageText(p, epoch, log)
  BY <1>1, <1>2, FirstText
<1>5. PageText(p, epoch, log) /\ PageRange(p) /\ LogOK /\ Shown \in Views
  BY <1>2, <1>4 DEF MessageText, ViewText
<1>6. ASSUME NEW at \in places
      PROVE  at \in RowIds /\ InLog(at)
  <2>1. \/ at = <<p.epoch, p.end>> /\ p.end # 0
        \/ at = End /\ cursor # None
    <3>1. p.end > 0 => p.end # 0
      BY <1>5 DEF PageText
    <3> HIDE DEF replaces, complete
    <3>2. QED
      BY <1>6, <3>1 DEF Ahead, InEpoch
  <2>2. CASE at = End /\ cursor # None
    BY <2>2, EndText
  <2>3. CASE at = <<p.epoch, p.end>> /\ p.end # 0
    <3>1. p.epoch \in 1..epoch /\ p.end \in 1..MaxRows /\ epoch \in 1..MaxEpochs /\ MaxEpochs \in Nat
          /\ (p.epoch = epoch => p.end <= Len(log))
      BY <1>5, <2>3, BoundsAssumption DEF PageText, LogOK
    <3>2. QED
      BY <2>3, <3>1 DEF RowIds, InLog
  <2>4. QED
    BY <2>1, <2>2, <2>3
<1> HIDE DEF places
<1>7. PICK new : new = CatchUps(places)
  OBVIOUS
<1>8. requests' \subseteq requests \cup new /\ \A r \in new : NewRequest(r) /\ r.dir # "before"
  BY <1>3, <1>6, <1>7, NewCatchUps, CatchUpDirs
<1>9. LogOK' /\ SentText' /\ AskedText' /\ Befores' \subseteq Befores
  BY <1>2, <1>8, ReceivedText
<1>10. mishaps \subseteq mishaps'
  BY <1>3, Happening
<1>11. p.to.dir = "before" => p.to.at \in Befores
  <2>1. PICK S : toApp \in Seq(S)
    BY DEF SyncInv, SentShapes
  <2>2. 1 \in 1..Len(toApp) /\ toApp[1] = p
    BY <1>1, <1>2, <2>1
  <2>3. QED
    BY <1>2, <2>1, <2>2, BeforesOf DEF Befores, Under
<1>12. CASE replaces
  <2>1. ReplacePath(p)
    BY <1>3, <1>12
  <2>2. "moved" \notin mishaps' => Befores' = {}
    <3> HAVE "moved" \notin mishaps'
    <3>1. ~\E q \in requests \cup Under : q.dir = "before"
      BY <1>3, <1>12 DEF Happens
    <3>2. Befores = {}
      BY <3>1 DEF Befores
    <3>3. QED
      BY <1>9, <3>2
  <2>3. CursorText' /\ Shown' \in Views /\ AllBehind' /\ Covered'
    BY <1>2, <1>5, <2>1, <2>2, ReplaceText
  <2>4. QED
    BY <1>9, <2>3 DEF ViewText
<1>13. CASE ~replaces
  <2>1. IncrementalPath(p) /\ ~p.reset
    BY <1>3, <1>13
  <2>2. CursorText' /\ Shown' \in Views /\ AllBehind' /\ Covered'
    BY <1>2, <1>5, <1>9, <1>10, <1>11, <2>1, BeforesPlaces, IncrementalText
  <2>3. QED
    BY <1>9, <2>2 DEF ViewText
<1>14. QED
  BY <1>12, <1>13

-----------------------------------------------------------------------------
(* All steps *)

\* The rest of the app's state.
Flags ==
    /\ init \in {None, "tail", "after"} /\ catching \subseteq RowIds
    /\ turn \in BOOLEAN /\ up \in BOOLEAN /\ hasOlder \in BOOLEAN /\ applied \in BOOLEAN
    /\ synced \in BOOLEAN /\ older \in BOOLEAN /\ told \in BOOLEAN
    /\ mishaps \subseteq {"mixed", "missed", "moved"}

\* The rest of the state keeps its shape in every step.
LEMMA HappenFlags ==
    ASSUME mishaps \subseteq {"mixed", "missed", "moved"}, NEW mishap \in {"mixed", "missed", "moved"},
           NEW really, Happens(mishap, really)
    PROVE  mishaps' \subseteq {"mixed", "missed", "moved"}
BY DEF Happens

LEMMA CatchUpFlags ==
    ASSUME SyncInv, ViewText, Flags, NEW places, CatchUp(places), \A at \in places : at \in RowIds
    PROVE  catching' \subseteq RowIds
BY DEF CatchUp, Flags

LEMMA SettledFlags ==
    ASSUME Flags, NEW r, NEW keys, keys \subseteq RowIds, Settled(r, keys)
    PROVE  catching' \subseteq RowIds /\ older' \in BOOLEAN
BY DEF Settled, Flags

LEMMA EndOfRows ==
    ASSUME SyncInv, ViewText
    PROVE  EndOf(cursor) \subseteq RowIds
<1>1. EndOf(cursor) = IF cursor = None THEN {} ELSE {End}
  BY DEF EndOf, End
<1>2. QED
  BY <1>1, EndText

LEMMA DaemonFlags ==
    ASSUME Flags, \/ \E kind \in Kinds : Commit(kind)
                  \/ TurnEnds \/ Reload \/ Hydrate
                  \/ \E n \in 0..Len(log) : Rewind(n)
                  \/ \E r \in requests : Serve(r)
    PROVE  Flags'
<1>1. ASSUME NEW kind \in Kinds, Commit(kind)
      PROVE  Flags'
  BY <1>1, HappenFlags DEF Commit, Flags, app, asking
<1>2. CASE TurnEnds
  BY <1>2 DEF TurnEnds, Flags, app, asking, bounds
<1>3. CASE Reload
  BY <1>3 DEF Reload, Flags, app, asking, bounds
<1>4. CASE Hydrate
  BY <1>4 DEF Hydrate, Flags, app, asking, bounds
<1>5. ASSUME NEW n \in 0..Len(log), Rewind(n)
      PROVE  Flags'
  BY <1>5 DEF Rewind, Flags, app, asking, bounds
<1>6. ASSUME NEW r \in requests, Serve(r)
      PROVE  Flags'
  BY <1>6, HappenFlags DEF Serve, Flags, app, asking, daemon
<1>7. QED
  BY <1>1, <1>2, <1>3, <1>4, <1>5, <1>6

LEMMA AppFlags ==
    ASSUME SyncInv, ViewText, Flags,
           Open \/ Resume \/ LoadOlder \/ Disconnect \/ Connect \/ \E r \in Awaited : TimesOut(r)
    PROVE  Flags'
<1>1. CASE Open
  BY <1>1 DEF Open, Flags, InitialRequest, Ask, daemon, bounds
<1>2. CASE Resume
  BY <1>2, EndOfRows DEF Resume, Flags, daemon
<1>3. CASE LoadOlder
  BY <1>3 DEF LoadOlder, Flags, daemon, bounds
<1>4. CASE Disconnect
  BY <1>4 DEF Disconnect, Flags, daemon
<1>5. CASE Connect
  BY <1>5 DEF Connect, Flags, daemon, asking, bounds
<1>6. ASSUME NEW r \in Awaited, TimesOut(r)
      PROVE  Flags'
  <2>1. catching' \subseteq RowIds /\ older' \in BOOLEAN
    BY <1>6, SettledFlags DEF TimesOut, Flags
  <2>2. mishaps' \subseteq {"mixed", "missed", "moved"}
    BY <1>6, HappenFlags DEF TimesOut, Flags
  <2>3. QED
    BY <1>6, <2>1, <2>2 DEF TimesOut, Flags, daemon
<1>7. QED
  BY <1>1, <1>2, <1>3, <1>4, <1>5, <1>6

LEMMA ReceiveFlags ==
    ASSUME SyncInv, ViewText, Flags, Receive
    PROVE  Flags'
<1>1. CASE RowArrives
  <2>1. catching' \subseteq RowIds
    <3>1. PICK m, decision : m = Head(toApp) /\ decision = Decision(m.row)
      OBVIOUS
    <3>2. CASE decision \in {"drop", "gap"}
      <4>1. CatchUp(IF decision = "gap" THEN {End} ELSE {}) /\ toApp # <<>> /\ m.type = "row"
        BY <1>1, <3>1, <3>2 DEF RowArrives, Delivered
      <4>2. PICK places : places = IF decision = "gap" THEN {End} ELSE {}
        OBVIOUS
      <4>3. m.row \in Positive \X Positive /\ Shapes
        BY <3>1, <4>1, FirstMessage DEF SyncInv, MessageOK
      <4>4. cursor # None
        BY <3>1, <3>2, <4>3, DecisionShape
      <4>5. \A at \in places : at \in RowIds
        BY <4>2, <4>4, EndText
      <4>6. QED
        BY <4>1, <4>2, <4>5, CatchUpFlags
    <3>3. CASE decision \notin {"drop", "gap"}
      BY <1>1, <3>1, <3>3 DEF RowArrives, Flags
    <3>4. QED
      BY <3>2, <3>3
  <2>2. QED
    BY <1>1, <2>1 DEF RowArrives, Flags, daemon, bounds
<1>2. CASE EndArrives
  <2>1. catching' \subseteq RowIds
    BY <1>2, EndOfRows DEF EndArrives, CatchUp, Flags
  <2>2. QED
    BY <1>2, <2>1 DEF EndArrives, Flags, daemon, bounds
<1>3. CASE RedoneArrives
  BY <1>3 DEF RedoneArrives, Flags, daemon, bounds, asking
<1>4. CASE PageArrives
  <2>1. PICK p : p = Head(toApp)
    OBVIOUS
  <2> DEFINE replaces == p.reset \/ (p.to.dir = "tail" /\ init # None)
             complete == p.to.dir # "after" \/ ~p.hasNewer
             resolves == init # None /\ (p.reset \/ (complete /\ p.to.dir = init))
             behind == IF replaces THEN (IF p.reset \/ p.end = 0 THEN {} ELSE {<<p.epoch, p.end>>})
                       ELSE IF Ahead(p) THEN {End} ELSE {}
             places == behind \cup IF ~complete /\ p.end > 0 THEN {<<p.epoch, p.end>>} ELSE {}
             moves == replaces /\ \E q \in requests \cup Under : q.dir = "before"
  <2>2. /\ toApp # <<>> /\ p.type = "page"
        /\ hasOlder' = p.hasOlder
        /\ applied' = (applied \/ (complete /\ p.to.dir # "before"))
        /\ synced' = (synced \/ resolves)
        /\ init' = IF resolves THEN None ELSE init
        /\ Settled(p.to, catching \cup places)
        /\ Happens("moved", moves)
        /\ UNCHANGED <<turn, up, told>>
    BY <1>4, <2>1 DEF PageArrives, Delivered, daemon
  <2>3. p.hasOlder \in BOOLEAN
    BY <2>1, <2>2, FirstMessage DEF MessageOK, PageOK, Pages
  <2>4. PageText(p, epoch, log) /\ LogOK
    BY <2>1, <2>2, FirstText DEF MessageText, ViewText
  <2>5. places \subseteq RowIds
    <3>1. p.end \in 0..MaxRows /\ <<p.epoch, p.end>> \in (1..MaxEpochs) \X (0..MaxRows)
      <4>1. /\ p.epoch \in 1..epoch /\ epoch \in 1..MaxEpochs /\ MaxEpochs \in Nat
            /\ p.end \in 0..MaxRows
        BY <2>4, BoundsAssumption DEF PageText, LogOK
      <4>2. QED
        BY <4>1
    <3>2. p.end # 0 => <<p.epoch, p.end>> \in RowIds
      BY <3>1, BoundsAssumption DEF RowIds
    <3>3. Ahead(p) => End \in RowIds
      BY EndText DEF Ahead, InEpoch
    <3>4. p.end > 0 => p.end # 0
      BY <3>1
    <3> HIDE DEF replaces, complete, resolves, moves
    <3>5. QED
      BY <3>2, <3>3, <3>4
  <2> HIDE DEF replaces, complete, resolves, places, moves
  <2>6. catching' \subseteq RowIds /\ older' \in BOOLEAN
    BY <2>2, <2>5, SettledFlags DEF Flags
  <2>7. mishaps' \subseteq {"mixed", "missed", "moved"}
    BY <2>2, HappenFlags DEF Flags
  <2>8. hasOlder' \in BOOLEAN /\ init' \in {None, "tail", "after"}
    BY <2>2, <2>3 DEF Flags
  <2>9. applied' \in BOOLEAN /\ synced' \in BOOLEAN
    BY <2>2, Zenon
  <2>10. QED
    BY <2>2, <2>6, <2>7, <2>8, <2>9 DEF Flags
<1>5. QED
  BY <1>1, <1>2, <1>3, <1>4 DEF Receive

\* Every step keeps the invariant of the view, ...
LEMMA ViewNext ==
    ASSUME SyncInv, SyncInv', ViewText, [Next]_vars
    PROVE  ViewText'
<1>1. ASSUME NEW kind \in Kinds, Commit(kind)
      PROVE  ViewText'
  BY <1>1, CommitText
<1>2. ASSUME NEW n \in 0..Len(log), Rewind(n)
      PROVE  ViewText'
  BY <1>2, RewindText
<1>3. ASSUME NEW r \in requests, Serve(r)
      PROVE  ViewText'
  BY <1>3, ServeText
<1>4. ASSUME NEW r \in Awaited, TimesOut(r)
      PROVE  ViewText'
  BY <1>4, TimesOutText
<1>5. CASE Receive
  BY <1>5, RowArrivesText, EndArrivesText, RedoneArrivesText, PageArrivesText DEF Receive
<1>6. CASE UNCHANGED vars
  <2>1. /\ UNCHANGED <<epoch, log, unread, requests, toApp, cursor, tail, head>>
        /\ mishaps \subseteq mishaps'
    BY <1>6 DEF vars, daemon, app, view, bounds
  <2>2. QED
    BY <2>1, NothingText
<1>7. QED
  BY <1>1, <1>2, <1>3, <1>4, <1>5, <1>6, TurnEndsText, ReloadText, ResumeText, LoadOlderText,
     DisconnectText, HydrateText, ConnectText, OpenText DEF Next, Proceed

\* ... and the shape of the rest.
LEMMA FlagsNext ==
    ASSUME SyncInv, ViewText, Flags, [Next]_vars
    PROVE  Flags'
<1>1. CASE UNCHANGED vars
  BY <1>1 DEF vars, daemon, app, asking, bounds, Flags
<1>2. CASE Next
  BY <1>2, DaemonFlags, AppFlags, ReceiveFlags DEF Next, Proceed
<1>3. QED
  BY <1>1, <1>2

\* Both hold at first.
LEMMA ViewInit ==
    ASSUME Init, 1 \in 1..MaxEpochs
    PROVE  ViewText /\ Flags
<1>1. /\ epoch = 1 /\ log = <<>> /\ unread = <<>> /\ requests = {} /\ toApp = <<>> /\ cursor = None
      /\ tail = <<>> /\ head = <<>> /\ mishaps = {}
  BY DEF Init
<1>2. MaxRows \in Nat
  BY BoundsAssumption
<1>3. LogOK
  BY <1>1, <1>2 DEF LogOK
<1>4. CursorText /\ Covered
  BY <1>1 DEF CursorText, Covered
<1>5. Shown \in Views
  BY <1>1 DEF Shown, Views
<1>6. SentText /\ AskedText
  BY <1>1 DEF SentText, AskedText
<1>7. AllBehind
  <2>1. Under = {}
    BY <1>1 DEF Under
  <2>2. Befores = {}
    BY <1>1, <2>1 DEF Befores
  <2>3. QED
    BY <2>2 DEF AllBehind
<1>8. Flags
  BY DEF Init, Flags
<1>9. QED
  BY <1>3, <1>4, <1>5, <1>6, <1>7, <1>8 DEF ViewText

\* The inductive invariant.
ViewInv == SyncInv /\ ViewText /\ Flags

\* It holds at first, and every step keeps it.
LEMMA ViewInductive ==
    /\ Init => ViewInv
    /\ ViewInv /\ [Next]_vars => ViewInv'
<1>1. 1 \in 1..MaxEpochs
  BY BoundsAssumption, EpochAssumption
<1>2. Init => ViewInv
  BY <1>1, SyncInit, ViewInit DEF ViewInv
<1>3. ASSUME ViewInv, [Next]_vars
      PROVE  ViewInv'
  <2>1. SyncInv /\ ViewText /\ Flags
    BY <1>3 DEF ViewInv
  <2>2. SyncInv'
    BY <1>3, <2>1, SyncNext
  <2>3. ViewText' /\ Flags'
    BY <1>3, <2>1, <2>2, ViewNext, FlagsNext
  <2>4. QED
    BY <2>2, <2>3 DEF ViewInv
<1>4. QED
  BY <1>2, <1>3

\* It implies what the runs check.
LEMMA ViewTypes ==
    ASSUME ViewInv
    PROVE  TypeOK
<1>1. SyncInv /\ ViewText /\ Flags /\ LogOK
  BY DEF ViewInv, ViewText
<1>2. Len(log) <= MaxRows
  BY <1>1, LogLength
<1>3. cursor \in Cursor \cup {None} /\ requests \subseteq Request
  BY <1>1 DEF ViewText, CursorText, AskedText
<1>4. tail \in Seq(Items) /\ head \in Seq(Items)
  BY <1>1, PlainItemsOK DEF ViewText, Views, Shown
<1>5. QED
  BY <1>1, <1>2, <1>3, <1>4 DEF TypeOK, LogOK, Flags

LEMMA ViewMissesNone ==
    ASSUME ViewInv
    PROVE  NoMessageMissing
<1> SUFFICES ASSUME cursor # None, cursor.epoch = epoch, "moved" \notin mishaps,
                    NEW n \in cursor.start..cursor.end, log[n] = "message"
             PROVE  Contains(Displayed, <<epoch, n>>)
  BY DEF NoMessageMissing
<1>1. tail \in Seq(Items) /\ head \in Seq(PlainItems)
  BY DEF ViewInv, ViewText, Views, Shown
<1>2. PICK row : row = <<epoch, n>>
  OBVIOUS
<1>3. Holds(tail, <<row>>)
  BY <1>2 DEF ViewInv, ViewText, Covered
<1>4. QED
  BY <1>1, <1>2, <1>3, DisplayedOK

\* The state has its shape, for every kind of row, page size and bound.
THEOREM SyncTypes == Spec => []TypeOK
<1>1. /\ Init => ViewInv
      /\ ViewInv /\ [Next]_vars => ViewInv'
  BY ViewInductive
<1>2. ViewInv => TypeOK
  BY ViewTypes
<1>3. QED
  BY <1>1, <1>2, PTL DEF Spec

\* No message the cursor has passed is missing from the display, however live
\* rows, gaps, catch-up pages, older pages and page resets follow each other, and
\* whatever is lost or given up on the way.
THEOREM NoMessageIsMissing == Spec => []NoMessageMissing
<1>1. /\ Init => ViewInv
      /\ ViewInv /\ [Next]_vars => ViewInv'
  BY ViewInductive
<1>2. ViewInv => NoMessageMissing
  BY ViewMissesNone
<1>3. QED
  BY <1>1, <1>2, PTL DEF Spec

-----------------------------------------------------------------------------
(* Messages in order *)

\* The messages of these items are of rows lo..hi of an epoch, in their order.
InOrder(items, e, lo, hi) ==
    /\ \A i \in Nat : Message(items, i) => \E n \in lo..hi : items[i].text = << <<e, n>> >>
    /\ \A i, j \in Nat : i < j /\ Message(items, i) /\ Message(items, j) =>
           items[i].text[1][2] < items[j].text[1][2]

\* Where there are no messages they are in any order.
LEMMA NoneInOrder ==
    ASSUME NEW items, \A i \in Nat : ~Message(items, i), NEW e, NEW lo, NEW hi
    PROVE  InOrder(items, e, lo, hi)
BY DEF InOrder

\* Messages that stay stay in order, also among more rows.
LEMMA SameOrder ==
    ASSUME NEW old, NEW new, SameMessages(old, new), NEW e, NEW lo \in Nat, NEW hi \in Nat,
           InOrder(old, e, lo, hi)
    PROVE  InOrder(new, e, lo, hi)
<1>1. \A i \in Nat : /\ Message(new, i) <=> Message(old, i)
                     /\ Message(new, i) => new[i].text = old[i].text
  BY DEF SameMessages
<1>2. QED
  BY <1>1, Zenon DEF InOrder

\* The order does not depend on how many rows there are.
LEMMA WiderOrder ==
    ASSUME NEW items, NEW e, NEW lo \in Nat, NEW hi \in Nat, InOrder(items, e, lo, hi),
           NEW from \in Nat, NEW to \in Nat, from <= lo, hi <= to
    PROVE  InOrder(items, e, from, to)
<1>1. \A n \in lo..hi : n \in from..to
  OBVIOUS
<1>2. QED
  BY <1>1 DEF InOrder

\* One message more, of a later row.
LEMMA GrownOrder ==
    ASSUME NEW old, NEW new, NEW kind, NEW text, Grown(old, new, kind, text),
           NEW e, NEW lo \in Nat, NEW hi \in Nat, InOrder(old, e, lo, hi),
           NEW n \in Nat, n > hi, n >= lo, kind = "message" => text = << <<e, n>> >>
    PROVE  InOrder(new, e, lo, n)
<1>1. CASE kind # "message"
  <2>1. InOrder(new, e, lo, hi)
    BY <1>1, SameOrder DEF Grown
  <2>2. QED
    BY <2>1, WiderOrder
<1>2. CASE kind = "message"
  <2>1. PICK j \in Nat :
            /\ Message(new, j) /\ new[j].text = text
            /\ \A i \in Nat :
                  /\ Message(new, i) <=> i = j \/ Message(old, i)
                  /\ Message(old, i) => i < j /\ new[i].text = old[i].text
    BY <1>2 DEF Grown, OneMore
  <2>2. new[j].text = << <<e, n>> >> /\ new[j].text[1][2] = n
    BY <1>2, <2>1
  <2>3. ASSUME NEW i \in Nat, Message(new, i)
        PROVE  \E m \in lo..n : new[i].text = << <<e, m>> >>
    <3>1. CASE i = j
      BY <2>2, <3>1
    <3>2. CASE Message(old, i)
      <4>1. PICK m \in lo..hi : old[i].text = << <<e, m>> >>
        BY <3>2 DEF InOrder
      <4>2. m \in lo..n
        BY <4>1
      <4>3. QED
        BY <2>1, <3>2, <4>1, <4>2
    <3>3. QED
      BY <2>1, <2>3, <3>1, <3>2
  <2>4. ASSUME NEW i \in Nat, NEW k \in Nat, i < k, Message(new, i), Message(new, k)
        PROVE  new[i].text[1][2] < new[k].text[1][2]
    <3>1. Message(old, i)
      BY <2>1, <2>4
    <3>2. new[i].text = old[i].text
      BY <2>1, <3>1
    <3>3. CASE k = j
      <4>1. PICK m \in lo..hi : old[i].text = << <<e, m>> >>
        BY <3>1 DEF InOrder
      <4>2. new[i].text[1][2] = m /\ m < n
        BY <3>2, <4>1
      <4>3. QED
        BY <2>2, <3>3, <4>2
    <3>4. CASE Message(old, k)
      <4>1. old[i].text[1][2] < old[k].text[1][2]
        BY <2>4, <3>1, <3>4 DEF InOrder
      <4>2. new[k].text = old[k].text
        BY <2>1, <3>4
      <4>3. QED
        BY <3>2, <4>1, <4>2
    <3>5. QED
      BY <2>1, <2>4, <3>3, <3>4
  <2>5. QED
    BY <2>3, <2>4 DEF InOrder
<1>3. QED
  BY <1>1, <1>2

\* The messages of a page are of rows first..last of its epoch, in their order.
WordsInOrder(entries, e, first, last) ==
    /\ \A k \in 1..Len(entries) : entries[k].kind = "message" =>
           \E n \in first..last : Word(entries, e, k, n)
    /\ \A k, i \in 1..Len(entries) : \A m, n \in first..last :
           k < i /\ Word(entries, e, k, m) /\ Word(entries, e, i, n) => m < n

\* Items that take in a page of later rows.
LEMMA FilledOrder ==
    ASSUME NEW S, NEW entries \in Seq(S), NEW old, NEW new, Filled(old, new, entries),
           NEW e, NEW lo \in Nat, NEW hi \in Nat, InOrder(old, e, lo, hi),
           NEW first \in Nat, NEW last \in Nat, hi < first, hi <= last, lo <= first,
           WordsInOrder(entries, e, first, last)
    PROVE  InOrder(new, e, lo, last)
<1>1. PICK n \in Nat : n = Len(entries)
  OBVIOUS
<1>2. PICK h : h[0] = old /\ h[n] = new /\ Grows(h, n, entries)
  BY <1>1 DEF Filled
<1> DEFINE Of(k, text) ==
               \/ \E m \in lo..hi : text = << <<e, m>> >>
               \/ \E a \in 1..k : \E m \in first..last : Word(entries, e, a, m) /\ text = << <<e, m>> >>
           Right(k) == /\ \A i \in Nat : Message(h[k], i) => Of(k, h[k][i].text)
                       /\ \A i, j \in Nat : i < j /\ Message(h[k], i) /\ Message(h[k], j) =>
                              h[k][i].text[1][2] < h[k][j].text[1][2]
           T == {k \in 0..n : Right(k)}
<1>3. 0 \in T
  BY <1>2 DEF InOrder
<1> HIDE DEF Right
<1>4. ASSUME NEW k \in 0..n - 1, k \in T
      PROVE  k + 1 \in T
  <2>0. Right(k)
    BY <1>4
  <2>1. k \in Nat /\ k + 1 \in 0..n /\ k + 1 \in 1..n
    BY <1>1
  <2>2. PICK a, b, kind, text : a = h[k] /\ b = h[k + 1] /\ kind = entries[k + 1].kind
                                /\ text = entries[k + 1].text
    OBVIOUS
  <2>3. Grown(a, b, kind, text)
    BY <1>2, <2>2 DEF Grows
  <2>4. \A t : Of(k, t) => Of(k + 1, t)
    BY <2>1
  <2>5. /\ \A i \in Nat : Message(a, i) => Of(k, a[i].text)
        /\ \A i, j \in Nat : i < j /\ Message(a, i) /\ Message(a, j) =>
               a[i].text[1][2] < a[j].text[1][2]
    BY <2>0, <2>2 DEF Right
  <2> HIDE DEF Of
  <2>6. ASSUME kind # "message"
        PROVE  /\ \A i \in Nat : Message(b, i) => Of(k + 1, b[i].text)
               /\ \A i, j \in Nat : i < j /\ Message(b, i) /\ Message(b, j) =>
                      b[i].text[1][2] < b[j].text[1][2]
    <3>1. \A i \in Nat : /\ Message(b, i) <=> Message(a, i)
                         /\ Message(b, i) => b[i].text = a[i].text
      BY <2>3, <2>6 DEF Grown, SameMessages
    <3>2. QED
      BY <2>4, <2>5, <3>1, Zenon
  <2>7. ASSUME kind = "message"
        PROVE  /\ \A i \in Nat : Message(b, i) => Of(k + 1, b[i].text)
               /\ \A i, j \in Nat : i < j /\ Message(b, i) /\ Message(b, j) =>
                      b[i].text[1][2] < b[j].text[1][2]
    <3>1. PICK m \in first..last : Word(entries, e, k + 1, m)
      BY <1>1, <2>1, <2>2, <2>7 DEF WordsInOrder
    <3>2. text = << <<e, m>> >>
      BY <2>2, <3>1 DEF Word
    <3>3. PICK c \in Nat :
              /\ Message(b, c) /\ b[c].text = text
              /\ \A i \in Nat :
                    /\ Message(b, i) <=> i = c \/ Message(a, i)
                    /\ Message(a, i) => i < c /\ b[i].text = a[i].text
      BY <2>3, <2>7 DEF Grown, OneMore
    <3>4. Of(k + 1, text)
      BY <2>1, <3>1, <3>2 DEF Of
    <3>5. \A i \in Nat : Message(b, i) => Of(k + 1, b[i].text)
      BY <2>4, <2>5, <3>3, <3>4
    <3>6. \A t : Of(k, t) => t[1][2] < m
      <4> SUFFICES ASSUME NEW t, Of(k, t)
                   PROVE  t[1][2] < m
        OBVIOUS
      <4>1. CASE \E d \in lo..hi : t = << <<e, d>> >>
        BY <3>1, <4>1
      <4>2. ASSUME NEW x \in 1..k, NEW d \in first..last, Word(entries, e, x, d), t = << <<e, d>> >>
            PROVE  t[1][2] < m
        <5>1. x \in 1..Len(entries) /\ k + 1 \in 1..Len(entries) /\ x < k + 1
          BY <1>1, <2>1
        <5>2. d < m
          BY <3>1, <4>2, <5>1 DEF WordsInOrder
        <5>3. QED
          BY <4>2, <5>2
      <4>3. QED
        BY <4>1, <4>2 DEF Of
    <3>7. ASSUME NEW i \in Nat, NEW j \in Nat, i < j, Message(b, i), Message(b, j)
          PROVE  b[i].text[1][2] < b[j].text[1][2]
      <4>1. Message(a, i) /\ b[i].text = a[i].text
        BY <3>3, <3>7
      <4>2. CASE j = c
        <5>1. b[j].text[1][2] = m
          BY <3>2, <3>3, <4>2
        <5>2. a[i].text[1][2] < m
          BY <2>5, <3>6, <4>1
        <5>3. QED
          BY <4>1, <5>1, <5>2
      <4>3. CASE Message(a, j)
        <5>1. b[j].text = a[j].text
          BY <3>3, <4>3
        <5>2. QED
          BY <2>5, <3>7, <4>1, <4>3, <5>1
      <4>4. QED
        BY <3>3, <3>7, <4>2, <4>3
    <3>8. QED
      BY <3>5, <3>7
  <2>8. Right(k + 1)
    BY <2>2, <2>6, <2>7 DEF Right
  <2>9. QED
    BY <2>1, <2>8
<1> HIDE DEF T
<1>5. n \in T
  <2>1. \A k \in 0..n : k \in T
    BY <1>3, <1>4, StepByStep, Zenon
  <2>2. QED
    BY <1>1, <2>1
<1>6. Right(n)
  BY <1>5 DEF T
<1>7. ASSUME NEW i \in Nat, Message(new, i)
      PROVE  \E m \in lo..last : new[i].text = << <<e, m>> >>
  <2>1. Of(n, new[i].text)
    BY <1>2, <1>6, <1>7 DEF Right
  <2>2. \A m \in lo..hi : m \in lo..last
    OBVIOUS
  <2>3. \A m \in first..last : m \in lo..last
    OBVIOUS
  <2>4. QED
    BY <2>1, <2>2, <2>3
<1>8. QED
  BY <1>2, <1>6, <1>7 DEF InOrder, Right

\* The elements of two sequences put together.
IsJoined(c, a, b) ==
    /\ Len(a) \in Nat /\ Len(b) \in Nat /\ Len(c) = Len(a) + Len(b)
    /\ \A i \in 1..Len(a) : c[i] = a[i]
    /\ \A i \in 1..Len(b) : c[Len(a) + i] = b[i]
    /\ \A i \in 1..Len(c) : i \in 1..Len(a) \/ \E x \in 1..Len(b) : i = Len(a) + x

\* They are these.
LEMMA Joined ==
    ASSUME NEW S, NEW a \in Seq(S), NEW b \in Seq(S)
    PROVE  IsJoined(a \o b, a, b)
<1>0. PICK c : c = a \o b
  OBVIOUS
<1>1. Len(a) \in Nat /\ Len(b) \in Nat /\ Len(c) = Len(a) + Len(b)
  BY <1>0
<1>2. \A i \in 1..Len(a) : c[i] = a[i]
  BY <1>0
<1>3. \A i \in 1..Len(b) : c[Len(a) + i] = b[i]
  BY <1>0
<1>4. ASSUME NEW i \in 1..Len(c), i \notin 1..Len(a)
      PROVE  \E x \in 1..Len(b) : i = Len(a) + x
  <2>1. i - Len(a) \in 1..Len(b) /\ i = Len(a) + (i - Len(a))
    BY <1>1, <1>4
  <2>2. QED
    BY <2>1
<1>5. IsJoined(c, a, b)
  BY <1>1, <1>2, <1>3, <1>4 DEF IsJoined
<1>6. QED
  BY <1>0, <1>5

\* The messages of a page are in order.
LEMMA PageOrder ==
    ASSUME NEW p, NEW e, NEW l, PageText(p, e, l)
    PROVE  /\ p.entries \in Seq(EntryShape)
           /\ p.start > 0 => WordsInOrder(p.entries, p.epoch, p.start, p.end)
<1>1. MaxRows \in Nat
  BY BoundsAssumption
<1>2. /\ p.start \in 0..MaxRows /\ p.end \in 0..MaxRows /\ p.entries \in Seq(EntryShape)
      /\ \A k \in 1..Len(p.entries) : p.entries[k].kind = "message" =>
             \E n \in p.start..p.end : Word(p.entries, p.epoch, k, n)
      /\ \A k, i \in 1..Len(p.entries) : \A m, n \in 1..MaxRows :
             k < i /\ Word(p.entries, p.epoch, k, m) /\ Word(p.entries, p.epoch, i, n) => m < n
  BY DEF PageText
<1>3. ASSUME p.start > 0
      PROVE  WordsInOrder(p.entries, p.epoch, p.start, p.end)
  <2>1. \A n \in p.start..p.end : n \in 1..MaxRows
    BY <1>1, <1>2, <1>3
  <2>2. QED
    BY <1>2, <2>1 DEF WordsInOrder
<1>4. QED
  BY <1>2, <1>3

\* Messages before others, all of earlier rows.
LEMMA JoinedOrder ==
    ASSUME NEW a \in Seq(Items), NEW b \in Seq(Items), NEW e,
           NEW lo \in Nat, NEW m \in Nat, NEW n \in Nat, NEW hi \in Nat,
           InOrder(a, e, lo, m), InOrder(b, e, n, hi), lo <= n, m < n, m <= hi
    PROVE  InOrder(a \o b, e, lo, hi)
<1>1. PICK c : c = a \o b
  OBVIOUS
<1>2. /\ Len(a) \in Nat /\ Len(b) \in Nat /\ Len(c) = Len(a) + Len(b)
      /\ \A i \in 1..Len(a) : c[i] = a[i]
      /\ \A i \in Nat : i \in Len(a) + 1..Len(c) => c[i] = b[i - Len(a)] /\ i - Len(a) \in 1..Len(b)
  <2>0. IsJoined(c, a, b)
    BY <1>1, Joined
  <2>1. Len(a) \in Nat /\ Len(b) \in Nat /\ Len(c) = Len(a) + Len(b)
    BY <2>0 DEF IsJoined
  <2>2. \A i \in Nat : i \in Len(a) + 1..Len(c) => i - Len(a) \in 1..Len(b) /\ Len(a) + (i - Len(a)) = i
    BY <2>1
  <2>3. \A i \in 1..Len(a) : c[i] = a[i]
    BY <2>0 DEF IsJoined
  <2>4. \A x \in 1..Len(b) : c[Len(a) + x] = b[x]
    BY <2>0 DEF IsJoined
  <2>5. \A i \in Nat : i \in Len(a) + 1..Len(c) => c[i] = b[i - Len(a)] /\ i - Len(a) \in 1..Len(b)
    <3> SUFFICES ASSUME NEW i \in Nat, i \in Len(a) + 1..Len(c)
                 PROVE  c[i] = b[i - Len(a)] /\ i - Len(a) \in 1..Len(b)
      OBVIOUS
    <3>1. PICK x \in 1..Len(b) : x = i - Len(a) /\ Len(a) + x = i
      BY <2>2
    <3>2. QED
      BY <2>4, <3>1
  <2>6. QED
    BY <2>1, <2>3, <2>5
<1>3. ASSUME NEW i \in Nat, Message(c, i)
      PROVE  \/ Message(a, i) /\ c[i] = a[i]
             \/ i > Len(a) /\ i - Len(a) \in Nat /\ Message(b, i - Len(a)) /\ c[i] = b[i - Len(a)]
  <2>1. CASE i \in 1..Len(a)
    BY <1>2, <1>3, <2>1 DEF Message
  <2>2. CASE i \in Len(a) + 1..Len(c)
    BY <1>2, <1>3, <2>2 DEF Message
  <2>3. QED
    BY <1>2, <1>3, <2>1, <2>2 DEF Message
<1>4. ASSUME NEW i \in Nat, Message(c, i)
      PROVE  \E k \in lo..hi : c[i].text = << <<e, k>> >>
  <2>1. CASE Message(a, i) /\ c[i] = a[i]
    <3>1. PICK k \in lo..m : a[i].text = << <<e, k>> >>
      BY <2>1 DEF InOrder
    <3>2. k \in lo..hi
      BY <3>1
    <3>3. QED
      BY <2>1, <3>1, <3>2
  <2>2. CASE i - Len(a) \in Nat /\ Message(b, i - Len(a)) /\ c[i] = b[i - Len(a)]
    <3>1. PICK k \in n..hi : b[i - Len(a)].text = << <<e, k>> >>
      BY <2>2 DEF InOrder
    <3>2. k \in lo..hi
      BY <3>1
    <3>3. QED
      BY <2>2, <3>1, <3>2
  <2>3. QED
    BY <1>3, <1>4, <2>1, <2>2
<1>5. ASSUME NEW i \in Nat, NEW j \in Nat, i < j, Message(c, i), Message(c, j)
      PROVE  c[i].text[1][2] < c[j].text[1][2]
  <2>1. CASE Message(a, j) /\ c[j] = a[j]
    <3>1. Message(a, i) /\ c[i] = a[i]
      BY <1>2, <1>3, <1>5, <2>1 DEF Message
    <3>2. QED
      BY <1>5, <2>1, <3>1 DEF InOrder
  <2>2. CASE j > Len(a) /\ j - Len(a) \in Nat /\ Message(b, j - Len(a)) /\ c[j] = b[j - Len(a)]
    <3>1. CASE Message(a, i) /\ c[i] = a[i]
      <4>1. PICK k \in lo..m : a[i].text = << <<e, k>> >>
        BY <3>1 DEF InOrder
      <4>2. PICK d \in n..hi : b[j - Len(a)].text = << <<e, d>> >>
        BY <2>2 DEF InOrder
      <4>3. c[i].text[1][2] = k /\ c[j].text[1][2] = d
        BY <2>2, <3>1, <4>1, <4>2
      <4>4. QED
        BY <4>1, <4>2, <4>3
    <3>2. CASE i > Len(a) /\ i - Len(a) \in Nat /\ Message(b, i - Len(a)) /\ c[i] = b[i - Len(a)]
      <4>1. PICK x, y \in Nat : x = i - Len(a) /\ y = j - Len(a)
        BY <2>2, <3>2
      <4>2. x < y /\ Message(b, x) /\ Message(b, y) /\ c[i] = b[x] /\ c[j] = b[y]
        BY <1>2, <1>5, <2>2, <3>2, <4>1
      <4>3. QED
        BY <4>1, <4>2 DEF InOrder
    <3>3. QED
      BY <1>3, <1>5, <3>1, <3>2
  <2>3. QED
    BY <1>3, <1>5, <2>1, <2>2
<1>6. QED
  BY <1>1, <1>4, <1>5 DEF InOrder

\* Without the first item they are still in order.
LEMMA TailOrder ==
    ASSUME NEW items \in Seq(Items), items # <<>>, NEW e, NEW lo \in Nat, NEW hi \in Nat,
           InOrder(items, e, lo, hi)
    PROVE  InOrder(Tail(items), e, lo, hi)
<1>1. PICK n \in Nat : n = Len(items)
  OBVIOUS
<1>2. PICK r : r = Tail(items)
  OBVIOUS
<1>3. n > 0 /\ Len(r) = n - 1 /\ \A i \in 1..n - 1 : r[i] = items[i + 1]
  BY <1>1, <1>2
<1>4. \A i \in Nat : Message(r, i) => i + 1 \in Nat /\ Message(items, i + 1) /\ r[i] = items[i + 1]
  BY <1>1, <1>3 DEF Message
<1>5. ASSUME NEW i \in Nat, NEW j \in Nat, i < j, Message(r, i), Message(r, j)
      PROVE  r[i].text[1][2] < r[j].text[1][2]
  <2>1. PICK x, y \in Nat : x = i + 1 /\ y = j + 1
    OBVIOUS
  <2>2. x < y /\ Message(items, x) /\ Message(items, y) /\ r[i] = items[x] /\ r[j] = items[y]
    BY <1>4, <1>5, <2>1
  <2>3. QED
    BY <2>2 DEF InOrder
<1>6. \A i \in Nat : Message(r, i) => \E m \in lo..hi : r[i].text = << <<e, m>> >>
  BY <1>4 DEF InOrder
<1>7. QED
  BY <1>2, <1>5, <1>6 DEF InOrder

\* A page after the view.
LEMMA ExtendedOrder ==
    ASSUME NEW v \in Views, NEW p, NEW f, NEW l, PageText(p, f, l), p.start > 0,
           NEW lo \in Nat, NEW hi \in Nat, InOrder(v.tail, p.epoch, lo, hi),
           hi < p.start, lo <= p.start
    PROVE  InOrder(Extended(v, p.entries).tail, p.epoch, lo, p.end)
<1>1. /\ p.entries \in Seq(EntryShape) /\ WordsInOrder(p.entries, p.epoch, p.start, p.end)
      /\ p.start \in Nat /\ p.end \in Nat /\ p.start <= p.end
  <2>1. p.start \in Nat /\ p.end \in Nat /\ p.start <= p.end
    BY BoundsAssumption DEF PageText
  <2>2. p.entries \in Seq(EntryShape) /\ WordsInOrder(p.entries, p.epoch, p.start, p.end)
    BY PageOrder
  <2>3. QED
    BY <2>1, <2>2
<1>2. PICK new, entries, e, first, last :
          /\ new = Extended(v, p.entries).tail /\ entries = p.entries /\ e = p.epoch
          /\ first = p.start /\ last = p.end
  OBVIOUS
<1>3. Filled(v.tail, new, entries)
  BY <1>1, <1>2, ExtendedOK
<1>4. hi <= last
  BY <1>1, <1>2
<1>5. InOrder(new, e, lo, last)
  BY <1>1, <1>2, <1>3, <1>4, FilledOrder
<1>6. QED
  BY <1>2, <1>5

\* A page by itself.
LEMMA HydratedOrder ==
    ASSUME NEW p, NEW f, NEW l, PageText(p, f, l), p.start > 0
    PROVE  InOrder(Hydrated(<<>>, p.entries), p.epoch, p.start, p.end)
<1>1. /\ p.entries \in Seq(EntryShape) /\ WordsInOrder(p.entries, p.epoch, p.start, p.end)
      /\ p.start \in Nat /\ p.end \in Nat /\ p.start <= p.end
  <2>1. p.start \in Nat /\ p.end \in Nat /\ p.start <= p.end
    BY BoundsAssumption DEF PageText
  <2>2. p.entries \in Seq(EntryShape) /\ WordsInOrder(p.entries, p.epoch, p.start, p.end)
    BY PageOrder
  <2>3. QED
    BY <2>1, <2>2
<1>2. PICK none, new, entries, e, first, last :
          /\ none = <<>> /\ new = Hydrated(<<>>, p.entries) /\ entries = p.entries /\ e = p.epoch
          /\ first = p.start /\ last = p.end
  OBVIOUS
<1>3. Filled(none, new, entries)
  BY <1>1, <1>2, EmptyHolds, HydratedOK
<1>4. \A i \in Nat : ~Message(none, i)
  BY <1>2 DEF Message
<1>5. PICK hi \in Nat : hi = first - 1
  BY <1>1, <1>2
<1>6. InOrder(none, e, first, hi)
  BY <1>4, NoneInOrder
<1>7. InOrder(new, e, first, last)
  BY <1>1, <1>2, <1>3, <1>5, <1>6, FilledOrder
<1>8. QED
  BY <1>2, <1>7

\* A page before the view.
LEMMA PrependedOrder ==
    ASSUME NEW v \in Views, NEW p, NEW f, NEW l, PageText(p, f, l), p.start > 0, p.entries # <<>>,
           NEW lo \in Nat, NEW hi \in Nat, InOrder(v.tail, p.epoch, lo, hi),
           p.end < lo, lo <= hi
    PROVE  InOrder(Prepended(v, p.entries).tail, p.epoch, p.start, hi)
<1>1. /\ p.entries \in Seq(EntryShape) /\ p.start \in Nat /\ p.end \in Nat /\ p.start <= p.end
  BY PageOrder, BoundsAssumption DEF PageText
<1>2. PICK new, entries, e : new = Hydrated(<<>>, p.entries) /\ entries = p.entries /\ e = p.epoch
  OBVIOUS
<1>3. new \in Seq(Items) /\ new # <<>> /\ InOrder(new, e, p.start, p.end)
  BY <1>1, <1>2, EmptyHolds, HydratedOK, HydratedOrder
<1>4. v.tail \in Seq(Items) /\ InOrder(v.tail, e, lo, hi)
  BY <1>2 DEF Views
<1>5. p.start <= lo /\ p.end <= hi
  BY <1>1
<1>6. CASE v.tail # <<>> /\ Last(new).kind = "assistant" /\ Head(v.tail).kind = "assistant"
  <2>1. PICK merged : merged = [Last(new) EXCEPT !.text = @ \o Head(v.tail).text]
    OBVIOUS
  <2>2. /\ Front(new) \in Seq(Items) /\ Last(new) \in PlainItems
        /\ SameMessages(new, Front(new))
    BY <1>3, <1>6, FrontSame
  <2>3. Tail(v.tail) \in Seq(Items) /\ InOrder(Tail(v.tail), e, lo, hi)
    BY <1>4, <1>6, TailOrder
  <2>4. merged \in PlainItems
    <3>1. Last(new) \in [kind: PlainKinds, id: Seq(RowIds) \X Nat, text: Seq(RowIds)]
      BY <2>2 DEF PlainItems
    <3>2. Head(v.tail) \in Items
      BY <1>4, <1>6
    <3>3. Head(v.tail).text \in Seq(RowIds)
      BY <3>2 DEF Items
    <3>4. Last(new).text \o Head(v.tail).text \in Seq(RowIds)
      BY <3>1, <3>3
    <3>5. QED
      BY <2>1, <3>1, <3>4 DEF PlainItems
  <2>5. PICK a, b : a = Front(new) \o <<merged>> /\ b = Tail(v.tail)
    OBVIOUS
  <2>6. a \in Seq(Items) /\ SameMessages(Front(new), a)
    <3>1. <<merged>> \in Seq(PlainItems)
      BY <2>4
    <3>2. QED
      BY <2>2, <2>5, <3>1, PlainAfter
  <2>7. SameMessages(new, a)
    BY <2>2, <2>6, SameTrans
  <2>8. InOrder(a, e, p.start, p.end)
    BY <1>1, <1>3, <2>7, SameOrder
  <2>9. Append(Front(new), merged) = a
    BY <2>2, <2>5
  <2>10. Prepended(v, p.entries) = [v EXCEPT !.tail = a \o b]
    BY <1>2, <1>6, <2>1, <2>5, <2>9 DEF Prepended
  <2>11. InOrder(a \o b, e, p.start, hi)
    BY <1>1, <1>5, <2>3, <2>5, <2>6, <2>8, JoinedOrder
  <2>12. [v EXCEPT !.tail = a \o b].tail = a \o b
    BY DEF Views
  <2>13. QED
    BY <1>2, <2>10, <2>11, <2>12
<1>7. CASE ~(v.tail # <<>> /\ Last(new).kind = "assistant" /\ Head(v.tail).kind = "assistant")
  <2>1. Prepended(v, p.entries) = [v EXCEPT !.tail = new \o v.tail]
    BY <1>2, <1>7 DEF Prepended
  <2>2. InOrder(new \o v.tail, e, p.start, hi)
    BY <1>1, <1>3, <1>4, <1>5, JoinedOrder
  <2>3. [v EXCEPT !.tail = new \o v.tail].tail = new \o v.tail
    BY DEF Views
  <2>4. QED
    BY <1>2, <2>1, <2>2, <2>3
<1>8. QED
  BY <1>6, <1>7

\* A page in place of the view.
LEMMA ReplacedSame ==
    ASSUME NEW v \in Views, NEW entries \in Seq(EntryShape)
    PROVE  SameMessages(Hydrated(<<>>, entries), Replaced(v, entries).tail)
<1>1. PICK new : new = Hydrated(<<>>, entries)
  OBVIOUS
<1>2. new \in Seq(Items)
  BY <1>1, EmptyHolds, HydratedOK
<1> DEFINE endsOpen == new # <<>> /\ Last(new).kind = "assistant"
<1>3. CASE ~IsLive(v)
  BY <1>1, <1>3, SameSelf DEF Replaced
<1>4. CASE IsLive(v) /\ ~endsOpen
  BY <1>1, <1>4, SameSelf DEF Replaced
<1>5. CASE IsLive(v) /\ endsOpen
  <2>1. SameMessages(new, Front(new))
    BY <1>2, <1>5, FrontSame
  <2>2. Replaced(v, entries) = IF IsPrefix(Last(new).text, Last(v.head).text)
              THEN [tail |-> Front(new),
                    head |-> <<[Last(v.head) EXCEPT !.text = Last(new).text]>>]
              ELSE [tail |-> new, head |-> <<>>]
    BY <1>1, <1>5 DEF Replaced
  <2>3. Replaced(v, entries).tail = Front(new) \/ Replaced(v, entries).tail = new
    BY <2>2
  <2>4. QED
    BY <1>1, <2>1, <2>3, SameSelf
<1>6. QED
  BY <1>3, <1>4, <1>5

\* A page that replaces the view shows its rows in order, ...
LEMMA ReplacedOrder ==
    ASSUME NEW v \in Views, NEW p, NEW f, NEW l, PageText(p, f, l), p.start > 0
    PROVE  InOrder(Replaced(v, p.entries).tail, p.epoch, p.start, p.end)
<1>1. p.entries \in Seq(EntryShape) /\ p.start \in Nat /\ p.end \in Nat
  BY BoundsAssumption DEF PageText
<1>2. InOrder(Hydrated(<<>>, p.entries), p.epoch, p.start, p.end)
  BY HydratedOrder
<1>3. SameMessages(Hydrated(<<>>, p.entries), Replaced(v, p.entries).tail)
  BY <1>1, ReplacedSame
<1>4. PICK old, new, e : old = Hydrated(<<>>, p.entries) /\ new = Replaced(v, p.entries).tail
                         /\ e = p.epoch
  OBVIOUS
<1>5. InOrder(new, e, p.start, p.end)
  BY <1>1, <1>2, <1>3, <1>4, SameOrder
<1>6. QED
  BY <1>4, <1>5

\* A page without rows leaves no message.
LEMMA ReplacedNone ==
    ASSUME NEW v \in Views
    PROVE  \A i \in Nat : ~Message(Replaced(v, <<>>).tail, i)
<1>1. PICK entries : entries = <<>>
  OBVIOUS
<1>2. entries \in Seq(EntryShape) /\ Len(entries) = 0
  BY <1>1
<1>3. PICK new : new = Hydrated(<<>>, entries)
  OBVIOUS
<1>4. Filled(<<>>, new, entries)
  BY <1>2, <1>3, EmptyHolds, HydratedOK
<1>5. new = <<>>
  BY <1>2, <1>4 DEF Filled
<1>6. SameMessages(new, Replaced(v, entries).tail)
  BY <1>2, <1>3, ReplacedSame
<1>7. \A i \in Nat : ~Message(new, i)
  BY <1>5 DEF Message
<1>8. QED
  BY <1>1, <1>6, <1>7 DEF SameMessages

-----------------------------------------------------------------------------
(* What tells of rows *)

\* A message is the row.
Says(m, e, n) == m.type = "row" /\ m.row = <<e, n>>

\* It is of no use to a reader who has not passed the row.
Needs(m, e, n) ==
    /\ Forward(m) /\ Place(m)[1] = e /\ n > 0
    /\ n < Place(m)[2] \/ (n = Place(m)[2] /\ m.type = "page")

\* After message k a reader at place p passes every row by a live event: each row
\* is said before another message needs it, ...
Announced(ms, k, p) ==
    \A i, n \in Nat : k < i /\ i <= Len(ms) /\ n > p[2] /\ Needs(ms[i], p[1], n) =>
        \E j \in Nat : k < j /\ j < i /\ Says(ms[j], p[1], n)

\* ... up to the end of the log.
Announces(ms, k, p, len) ==
    \A n \in Nat : p[2] < n /\ n <= len =>
        \E j \in Nat : k < j /\ j <= Len(ms) /\ Says(ms[j], p[1], n)

\* So a reader at place p is up to date with a log of so many rows in epoch f.
Live(ms, k, p, f, len) == Announced(ms, k, p) /\ (p[1] = f => Announces(ms, k, p, len))

\* Messages sent when the log has len rows in epoch f: a row is said before it is
\* needed, ...
TellsInOrder(ms, f, len) ==
    \A i, e, n \in Nat : 0 < i /\ i <= Len(ms) /\ Needs(ms[i], e, n) =>
        (e = f /\ n <= len) \/ \E j \in Nat : 0 < j /\ j < i /\ Says(ms[j], e, n)

\* ... and those the log gets, if its epoch goes on, are said.
TellsAll(ms, f, len, g, m) ==
    f = g => \A n \in Nat : len < n /\ n <= m =>
                 \E j \in Nat : 0 < j /\ j <= Len(ms) /\ Says(ms[j], f, n)

\* Such messages keep a reader up to date.
LEMMA SentLive ==
    ASSUME NEW S, NEW T \in Seq(S), NEW ms \in Seq(S), NEW k \in 0..Len(T),
           NEW p \in Nat \X Nat, NEW f \in Nat, NEW g \in Nat, NEW len \in Nat, NEW m \in Nat,
           Live(T, k, p, f, len), p[1] <= f, f <= g,
           TellsInOrder(ms, f, len), p[1] = g => TellsAll(ms, f, len, g, m)
    PROVE  Live(T \o ms, k, p, g, m)
<1>1. PICK c : c = T \o ms
  OBVIOUS
<1>2. /\ Len(T) \in Nat /\ Len(ms) \in Nat /\ Len(c) = Len(T) + Len(ms)
      /\ \A i \in 1..Len(T) : c[i] = T[i]
      /\ \A i \in 1..Len(ms) : c[Len(T) + i] = ms[i]
      /\ \A i \in 1..Len(c) : i \in 1..Len(T) \/ \E x \in 1..Len(ms) : i = Len(T) + x
  <2>1. IsJoined(c, T, ms)
    BY <1>1, Joined
  <2>2. QED
    BY <2>1, Zenon DEF IsJoined
<1>3. ASSUME NEW n \in Nat, NEW j \in Nat, k < j, j <= Len(T), Says(T[j], p[1], n)
      PROVE  j <= Len(c) /\ Says(c[j], p[1], n)
  <2>1. j \in 1..Len(T)
    BY <1>2, <1>3
  <2>2. c[j] = T[j]
    BY <1>2, <2>1
  <2>3. QED
    BY <1>2, <1>3, <2>2
<1>4. ASSUME NEW n \in Nat, NEW j \in Nat, 0 < j, j <= Len(ms), Says(ms[j], p[1], n)
      PROVE  /\ Len(T) + j \in Nat /\ k < Len(T) + j /\ Len(T) + j <= Len(c)
             /\ Says(c[Len(T) + j], p[1], n)
  <2>1. j \in 1..Len(ms)
    BY <1>2, <1>4
  <2>2. c[Len(T) + j] = ms[j]
    BY <1>2, <2>1
  <2>3. QED
    BY <1>2, <1>4, <2>2
<1>5. ASSUME NEW i \in Nat, NEW n \in Nat, k < i, i <= Len(c), n > p[2], Needs(c[i], p[1], n)
      PROVE  \E j \in Nat : k < j /\ j < i /\ Says(c[j], p[1], n)
  <2>1. CASE i \in 1..Len(T)
    <3>1. Needs(T[i], p[1], n)
      BY <1>2, <1>5, <2>1
    <3>2. i <= Len(T)
      BY <2>1
    <3>3. PICK j \in Nat : k < j /\ j < i /\ Says(T[j], p[1], n)
      BY <1>5, <3>1, <3>2 DEF Live, Announced
    <3>4. j <= Len(T)
      BY <1>2, <3>2, <3>3
    <3>5. QED
      BY <1>3, <3>3, <3>4
  <2>2. ASSUME NEW x \in 1..Len(ms), i = Len(T) + x
        PROVE  \E j \in Nat : k < j /\ j < i /\ Says(c[j], p[1], n)
    <3>1. Needs(ms[x], p[1], n) /\ x \in Nat /\ 0 < x /\ x <= Len(ms)
      BY <1>2, <1>5, <2>2
    <3>2. (p[1] = f /\ n <= len) \/ \E j \in Nat : 0 < j /\ j < x /\ Says(ms[j], p[1], n)
      BY <3>1 DEF TellsInOrder
    <3>3. CASE p[1] = f /\ n <= len
      <4>1. PICK j \in Nat : k < j /\ j <= Len(T) /\ Says(T[j], p[1], n)
        BY <1>5, <3>3 DEF Live, Announces
      <4>2. Says(c[j], p[1], n)
        BY <1>3, <4>1
      <4>3. j < i
        BY <1>2, <2>2, <4>1
      <4>4. QED
        BY <4>1, <4>2, <4>3
    <3>4. ASSUME NEW j \in Nat, 0 < j, j < x, Says(ms[j], p[1], n)
          PROVE  \E d \in Nat : k < d /\ d < i /\ Says(c[d], p[1], n)
      <4>1. j <= Len(ms)
        BY <1>2, <3>4
      <4>2. /\ Len(T) + j \in Nat /\ k < Len(T) + j /\ Says(c[Len(T) + j], p[1], n)
        BY <1>4, <3>4, <4>1
      <4>3. Len(T) + j < i
        BY <1>2, <2>2, <3>4
      <4>4. QED
        BY <4>2, <4>3
    <3>5. QED
      BY <3>2, <3>3, <3>4
  <2>3. i \in 1..Len(c)
    BY <1>2, <1>5
  <2>4. QED
    BY <1>2, <2>1, <2>2, <2>3
<1>6. ASSUME p[1] = g, NEW n \in Nat, p[2] < n, n <= m
      PROVE  \E j \in Nat : k < j /\ j <= Len(c) /\ Says(c[j], p[1], n)
  <2>0. PICK e \in Nat : e = p[1]
    OBVIOUS
  <2>1. e <= f /\ e = g
    BY <1>6, <2>0
  <2>7. f \in Nat /\ g \in Nat /\ f <= g /\ e \in Nat
    OBVIOUS
  <2>5. e = f /\ f = g
    BY ONLY <2>1, <2>7
  <2>6. p[1] = f /\ f = g
    BY <2>0, <2>5
  <2>2. CASE n <= len
    <3>1. PICK j \in Nat : k < j /\ j <= Len(T) /\ Says(T[j], p[1], n)
      BY <1>6, <2>6, <2>2 DEF Live, Announces
    <3>2. QED
      BY <1>3, <3>1
  <2>3. CASE n > len
    <3>1. PICK j \in Nat : 0 < j /\ j <= Len(ms) /\ Says(ms[j], p[1], n)
      BY <1>6, <2>6, <2>3 DEF TellsAll
    <3>2. QED
      BY <1>4, <3>1
  <2>4. QED
    BY <2>2, <2>3
<1>7. QED
  BY <1>1, <1>5, <1>6 DEF Live, Announced, Announces

\* A reader who is up to date after some of the messages sent is so after them.
LEMMA NewLive ==
    ASSUME NEW S, NEW T \in Seq(S), NEW ms \in Seq(S), NEW i \in 1..Len(ms),
           NEW p \in Nat \X Nat, NEW g \in Nat, NEW m \in Nat, Live(ms, i, p, g, m)
    PROVE  Live(T \o ms, Len(T) + i, p, g, m)
<1>1. PICK c : c = T \o ms
  OBVIOUS
<1>2. /\ Len(T) \in Nat /\ Len(ms) \in Nat /\ Len(c) = Len(T) + Len(ms)
      /\ \A x \in 1..Len(ms) : c[Len(T) + x] = ms[x]
  <2>1. IsJoined(c, T, ms)
    BY <1>1, Joined
  <2>2. QED
    BY <2>1, Zenon DEF IsJoined
<1>3. ASSUME NEW n \in Nat, NEW j \in Nat, i < j, j <= Len(ms), Says(ms[j], p[1], n)
      PROVE  /\ Len(T) + j \in Nat /\ Len(T) + i < Len(T) + j /\ Len(T) + j <= Len(c)
             /\ Says(c[Len(T) + j], p[1], n)
  <2>1. j \in 1..Len(ms)
    BY <1>2, <1>3
  <2>2. c[Len(T) + j] = ms[j]
    BY <1>2, <2>1
  <2>3. QED
    BY <1>2, <1>3, <2>2
<1>4. ASSUME NEW a \in Nat, NEW n \in Nat, Len(T) + i < a, a <= Len(c), n > p[2], Needs(c[a], p[1], n)
      PROVE  \E j \in Nat : Len(T) + i < j /\ j < a /\ Says(c[j], p[1], n)
  <2>1. PICK x \in 1..Len(ms) : a = Len(T) + x /\ i < x
    <3>1. a - Len(T) \in 1..Len(ms) /\ a = Len(T) + (a - Len(T)) /\ i < a - Len(T)
      BY <1>2, <1>4
    <3>2. QED
      BY <3>1
  <2>2. Needs(ms[x], p[1], n) /\ x \in Nat /\ x <= Len(ms)
    BY <1>2, <1>4, <2>1
  <2>3. PICK j \in Nat : i < j /\ j < x /\ Says(ms[j], p[1], n)
    BY <1>4, <2>1, <2>2 DEF Live, Announced
  <2>4. j <= Len(ms)
    <3>1. PICK d \in Nat : d = Len(ms)
      BY <1>2
    <3>2. j < x /\ x <= d
      BY <2>2, <2>3, <3>1
    <3>3. QED
      BY <2>2, <3>1, <3>2
  <2>5. Len(T) + j \in Nat /\ Len(T) + i < Len(T) + j /\ Says(c[Len(T) + j], p[1], n)
    BY <1>3, <2>3, <2>4
  <2>6. Len(T) + j < a
    BY <1>2, <2>1, <2>3
  <2>7. QED
    BY <2>5, <2>6
<1>5. ASSUME p[1] = g, NEW n \in Nat, p[2] < n, n <= m
      PROVE  \E j \in Nat : Len(T) + i < j /\ j <= Len(c) /\ Says(c[j], p[1], n)
  <2>1. PICK j \in Nat : i < j /\ j <= Len(ms) /\ Says(ms[j], p[1], n)
    BY <1>5 DEF Live, Announces
  <2>2. QED
    BY <1>3, <2>1
<1>6. QED
  BY <1>1, <1>4, <1>5 DEF Live, Announced, Announces

\* When the first message has arrived, the others are one place on.
LEMMA ShiftLive ==
    ASSUME NEW S, NEW T \in Seq(S), T # <<>>, NEW k \in 1..Len(T),
           NEW p, NEW f, NEW len, Live(T, k, p, f, len)
    PROVE  Live(Tail(T), k - 1, p, f, len)
<1>1. PICK c : c = Tail(T)
  OBVIOUS
<1>2. /\ Len(T) \in Nat /\ Len(T) >= 1 /\ Len(c) = Len(T) - 1
      /\ \A i \in 1..Len(T) - 1 : c[i] = T[i + 1]
  BY <1>1
<1>3. ASSUME NEW n \in Nat, NEW j \in Nat, k < j, j <= Len(T), Says(T[j], p[1], n)
      PROVE  /\ j - 1 \in Nat /\ k - 1 < j - 1 /\ j - 1 <= Len(c) /\ Says(c[j - 1], p[1], n)
  <2>1. j - 1 \in 1..Len(T) - 1 /\ (j - 1) + 1 = j
    BY <1>2, <1>3
  <2>2. c[j - 1] = T[j]
    BY <1>2, <2>1
  <2>3. QED
    BY <1>2, <1>3, <2>1, <2>2
<1>4. ASSUME NEW a \in Nat, NEW n \in Nat, k - 1 < a, a <= Len(c), n > p[2], Needs(c[a], p[1], n)
      PROVE  \E j \in Nat : k - 1 < j /\ j < a /\ Says(c[j], p[1], n)
  <2>1. a \in 1..Len(T) - 1 /\ a + 1 \in Nat /\ k < a + 1 /\ a + 1 <= Len(T)
    BY <1>2, <1>4
  <2>2. Needs(T[a + 1], p[1], n)
    BY <1>2, <1>4, <2>1
  <2>3. PICK j \in Nat : k < j /\ j < a + 1 /\ Says(T[j], p[1], n)
    BY <1>4, <2>1, <2>2 DEF Live, Announced
  <2>4. j <= Len(T)
    BY <1>2, <2>1, <2>3
  <2>5. j - 1 \in Nat /\ k - 1 < j - 1 /\ Says(c[j - 1], p[1], n)
    BY <1>3, <2>3, <2>4
  <2>6. j - 1 < a
    BY <2>3
  <2>7. QED
    BY <2>5, <2>6
<1>5. ASSUME p[1] = f, NEW n \in Nat, p[2] < n, n <= len
      PROVE  \E j \in Nat : k - 1 < j /\ j <= Len(c) /\ Says(c[j], p[1], n)
  <2>1. PICK j \in Nat : k < j /\ j <= Len(T) /\ Says(T[j], p[1], n)
    BY <1>5 DEF Live, Announces
  <2>2. QED
    BY <1>3, <2>1
<1>6. QED
  BY <1>1, <1>4, <1>5 DEF Live, Announced, Announces

\* Nor does it matter if it is no row the reader has not passed.
LEMMA DropLive ==
    ASSUME NEW S, NEW T \in Seq(S), T # <<>>, NEW p, NEW f, NEW len, Live(T, 0, p, f, len),
           \A n \in Nat : n > p[2] => ~Says(Head(T), p[1], n)
    PROVE  Live(Tail(T), 0, p, f, len)
<1>1. PICK c : c = Tail(T)
  OBVIOUS
<1>2. /\ Len(T) \in Nat /\ Len(T) >= 1 /\ Len(c) = Len(T) - 1 /\ Head(T) = T[1]
      /\ \A i \in 1..Len(T) - 1 : c[i] = T[i + 1]
  BY <1>1
<1>3. ASSUME NEW n \in Nat, n > p[2], NEW j \in Nat, 0 < j, j <= Len(T), Says(T[j], p[1], n)
      PROVE  /\ j - 1 \in Nat /\ 0 < j - 1 /\ j - 1 <= Len(c) /\ Says(c[j - 1], p[1], n)
  <2>0. j # 1
    BY <1>2, <1>3
  <2>1. j - 1 \in 1..Len(T) - 1 /\ (j - 1) + 1 = j
    BY <1>2, <1>3, <2>0
  <2>2. c[j - 1] = T[j]
    BY <1>2, <2>1
  <2>3. QED
    BY <1>2, <1>3, <2>1, <2>2
<1>4. ASSUME NEW a \in Nat, NEW n \in Nat, 0 < a, a <= Len(c), n > p[2], Needs(c[a], p[1], n)
      PROVE  \E j \in Nat : 0 < j /\ j < a /\ Says(c[j], p[1], n)
  <2>1. a \in 1..Len(T) - 1 /\ a + 1 \in Nat /\ 0 < a + 1 /\ a + 1 <= Len(T)
    BY <1>2, <1>4
  <2>2. Needs(T[a + 1], p[1], n)
    BY <1>2, <1>4, <2>1
  <2>3. PICK j \in Nat : 0 < j /\ j < a + 1 /\ Says(T[j], p[1], n)
    BY <1>4, <2>1, <2>2 DEF Live, Announced
  <2>4. j <= Len(T)
    BY <1>2, <2>1, <2>3
  <2>5. j - 1 \in Nat /\ 0 < j - 1 /\ Says(c[j - 1], p[1], n)
    BY <1>3, <1>4, <2>3, <2>4
  <2>6. j - 1 < a
    BY <2>3
  <2>7. QED
    BY <2>5, <2>6
<1>5. ASSUME p[1] = f, NEW n \in Nat, p[2] < n, n <= len
      PROVE  \E j \in Nat : 0 < j /\ j <= Len(c) /\ Says(c[j], p[1], n)
  <2>1. PICK j \in Nat : 0 < j /\ j <= Len(T) /\ Says(T[j], p[1], n)
    BY <1>5 DEF Live, Announces
  <2>2. QED
    BY <1>3, <1>5, <2>1
<1>6. QED
  BY <1>1, <1>4, <1>5 DEF Live, Announced, Announces

\* A reader who is up to date needs no row that comes before the first message.
LEMMA HeadNeeds ==
    ASSUME NEW S, NEW T \in Seq(S), T # <<>>, NEW p, NEW f, NEW len, Live(T, 0, p, f, len)
    PROVE  \A n \in Nat : n > p[2] => ~Needs(Head(T), p[1], n)
<1> SUFFICES ASSUME NEW n \in Nat, n > p[2], Needs(Head(T), p[1], n)
             PROVE  FALSE
  OBVIOUS
<1>1. Head(T) = T[1] /\ 1 <= Len(T)
  OBVIOUS
<1>2. \E j \in Nat : 0 < j /\ j < 1 /\ Says(T[j], p[1], n)
  BY <1>1 DEF Live, Announced
<1>3. QED
  BY <1>2

\* A message that is the same says and needs the same.
LEMMA SameLive ==
    ASSUME NEW T, NEW U, Len(T) \in Nat, Len(U) = Len(T), \A i \in 1..Len(T) : SameText(U[i], T[i]),
           NEW k \in Nat, NEW p, NEW f, NEW len, Live(T, k, p, f, len)
    PROVE  Live(U, k, p, f, len)
<1>1. ASSUME NEW m, NEW n, SameText(m, n)
      PROVE  /\ \A e, x : Says(m, e, x) <=> Says(n, e, x)
             /\ \A e, x : Needs(m, e, x) <=> Needs(n, e, x)
  <2>1. Forward(m) <=> Forward(n)
    BY <1>1 DEF SameText, Forward, IsTail
  <2>2. Forward(n) => Place(m) = Place(n)
    BY <1>1 DEF SameText, Forward, Place
  <2>3. m.type = n.type /\ (m.type = "row" => m.row = n.row)
    BY <1>1 DEF SameText
  <2>4. QED
    BY <2>1, <2>2, <2>3 DEF Says, Needs
<1>2. \A i \in Nat : k < i /\ i <= Len(T) => i \in 1..Len(T)
  OBVIOUS
<1>3. \A i, n \in Nat : k < i /\ i <= Len(T) =>
          (Says(U[i], p[1], n) <=> Says(T[i], p[1], n)) /\ (Needs(U[i], p[1], n) <=> Needs(T[i], p[1], n))
  BY <1>1, <1>2
<1>4. Announced(U, k, p)
  <2> SUFFICES ASSUME NEW i \in Nat, NEW n \in Nat, k < i, i <= Len(U), n > p[2], Needs(U[i], p[1], n)
               PROVE  \E j \in Nat : k < j /\ j < i /\ Says(U[j], p[1], n)
    BY DEF Announced
  <2>1. PICK j \in Nat : k < j /\ j < i /\ Says(T[j], p[1], n)
    BY <1>3 DEF Live, Announced
  <2>2. j <= Len(T)
    BY <2>1
  <2>3. QED
    BY <1>3, <2>1, <2>2
<1>5. p[1] = f => Announces(U, k, p, len)
  BY <1>3 DEF Live, Announces
<1>6. QED
  BY <1>4, <1>5 DEF Live

-----------------------------------------------------------------------------
(* The order of the messages.  A tail page that is taken as a whole would show *)
(* rows again that the view has.  It is not taken where the app is up to date  *)
(* by live events; where it is not, because the connection was lost, it has    *)
(* asked only for what comes after the cursor, or for a tail that replaces the *)
(* view.                                                                       *)

\* Nothing has happened that lets a tail page be taken after rows it shows.
Fine == "mixed" \notin mishaps /\ "missed" \notin mishaps

\* What puts the reader up to date.
Anchor(m) ==
    \/ m.type = "row"
    \/ /\ m.type = "page" /\ m.end > 0
       /\ IsTail(m) \/ (m.to.dir = "after" /\ ~m.hasNewer)

AllLive ==
    Fine => \A i \in 1..Len(toApp) :
                Anchor(toApp[i]) => Live(toApp, i, Place(toApp[i]), epoch, Len(log))

\* A request, answered or not, whose answer has not arrived.
IsAsked(r) ==
    \/ r \in requests
    \/ \E i \in 1..Len(toApp) : toApp[i].type = "page" /\ toApp[i].to = r

\* No request is from a place beyond the cursor, or, if there is none, within
\* the epochs of what is under way.
AskedBehind ==
    \A r : IsAsked(r) /\ r.at # None =>
        IF cursor # None THEN r.at[1] <= cursor.epoch
        ELSE /\ r.at[1] < epoch
             /\ \A i \in 1..Len(toApp) : Forward(toApp[i]) => r.at[1] < Place(toApp[i])[1]

\* A request to initialize is for the tail, or after it has been applied.
InitAfter ==
    \A r : IsAsked(r) /\ r.why = "init" /\ r.dir # "tail" => r.dir = "after" /\ applied

\* While the history is read, the app knows earlier epochs only.
Quiet ==
    Fine /\ unread # <<>> =>
        /\ cursor # None => cursor.epoch < epoch
        /\ \A i \in 1..Len(toApp) : Forward(toApp[i]) => Place(toApp[i])[1] < epoch

Down == ~up => requests = {} /\ toApp = <<>>

\* A page that is not the last has entries.
Fuller ==
    \A i \in 1..Len(toApp) :
        toApp[i].type = "page" /\ ~IsTail(toApp[i]) /\ toApp[i].to.dir = "after" /\ toApp[i].hasNewer =>
            toApp[i].entries # <<>>

Multiple(x) == \E j \in Nat : x = j * PageSize

\* The rows after a place begin where a page after the cursor does, whole pages
\* earlier at most.
Aligned(r) ==
    r.dir = "after" /\ r.at[1] = cursor.epoch =>
        r.at[2] <= cursor.end /\ Multiple(cursor.end - r.at[2])

\* A tail asked for other than to initialize is of another epoch.
Foreign(r) == r.dir = "tail" /\ r.why # "init" => r.at # None /\ r.at[1] < epoch
ForeignPage(m) ==
    m.type = "page" /\ ~m.reset /\ m.to.dir = "tail" /\ m.to.why # "init" => m.epoch # cursor.epoch

\* The initialization waits for the tail.
TailAwaited ==
    (\E r : IsAsked(r) /\ r.why = "init" /\ r.dir = "tail") =>
        /\ init = "tail"
        /\ \A q : IsAsked(q) /\ q.why = "init" /\ q.dir = "after" => q.late

\* The app is not up to date, and whatever it has asked for is a page that goes
\* on from its cursor, or replaces the view.
Lagging ==
    /\ \A r : IsAsked(r) => Aligned(r)
    /\ \A i \in 1..Len(toApp) : toApp[i].type = "redone" => cursor.epoch < epoch
    /\ TailAwaited
    /\ \A r \in requests : Foreign(r)
    /\ \A i \in 1..Len(toApp) : ForeignPage(toApp[i])

LiveOrLagging ==
    Fine /\ cursor # None => Live(toApp, 0, End, epoch, Len(log)) \/ Lagging

\* The messages of the tail are of the rows of the cursor, in their order.
OnceText ==
    Fine =>
        /\ cursor = None => \A i \in Nat : ~Message(tail, i)
        /\ cursor # None => InOrder(tail, cursor.epoch, cursor.start, cursor.end)

OnceInv == /\ AllLive /\ AskedBehind /\ InitAfter /\ Quiet /\ Down /\ Fuller
           /\ LiveOrLagging /\ OnceText

\* What is asked was asked before, perhaps not late then.
SameAsk(q, r) == q.why = r.why /\ q.dir = r.dir /\ q.at = r.at /\ (q.late => r.late)

\* The shapes the proofs of the steps need.
OnceTypes ==
    /\ epoch \in Nat /\ Len(log) \in Nat /\ \E S : toApp \in Seq(S)
    /\ Len(toApp) \in Nat
    /\ \A i \in 1..Len(toApp) :
          /\ MessageOK(toApp[i]) /\ MessageText(toApp[i], epoch, log)
          /\ Forward(toApp[i]) =>
                Place(toApp[i]) \in Positive \X Nat /\ Place(toApp[i])[1] <= epoch
          /\ toApp[i].type = "page" => RequestOK(toApp[i].to)
    /\ \A r \in requests : RequestOK(r)
    /\ cursor # None =>
          /\ cursor \in Cursor /\ cursor.start <= cursor.end
          /\ End \in Positive \X Positive /\ End[1] = cursor.epoch
          /\ End[2] = cursor.end /\ cursor.epoch <= epoch
          /\ cursor.epoch \in Nat /\ cursor.start \in Nat /\ cursor.end \in Nat

\* The view invariant gives them.
LEMMA OnceShapes == ViewInv => OnceTypes
<1> SUFFICES ASSUME ViewInv
             PROVE  OnceTypes
  OBVIOUS
<1>1. SyncInv /\ ViewText
  BY DEF ViewInv
<1>2. epoch \in Nat /\ Len(log) \in Nat
  BY <1>1, LogLength DEF ViewText
<1>3. \E S : toApp \in Seq(S)
  BY <1>1 DEF SyncInv, SentShapes
<1>4. Len(toApp) \in Nat
  BY <1>3
<1>5. ASSUME NEW i \in 1..Len(toApp)
      PROVE  /\ MessageOK(toApp[i]) /\ MessageText(toApp[i], epoch, log)
             /\ Forward(toApp[i]) =>
                   Place(toApp[i]) \in Positive \X Nat /\ Place(toApp[i])[1] <= epoch
             /\ toApp[i].type = "page" => RequestOK(toApp[i].to)
  <2>1. MessageOK(toApp[i]) /\ MessageText(toApp[i], epoch, log)
    BY <1>1 DEF SyncInv, SentShapes, ViewText, SentText
  <2>2. PICK m : m = toApp[i]
    OBVIOUS
  <2>3. Forward(m) => Place(m) \in Positive \X Nat
    BY <2>1, <2>2, Placed
  <2>4. Forward(m) => Place(m)[1] <= epoch
    BY <1>1, <2>2 DEF SyncInv, SentInLog, InLog
  <2>5. m.type = "page" => RequestOK(m.to)
    BY <2>1, <2>2 DEF MessageOK, PageOK
  <2>6. QED
    BY <2>1, <2>2, <2>3, <2>4, <2>5
<1>6. \A r \in requests : RequestOK(r)
  BY <1>1 DEF SyncInv, Shapes
<1>7. ASSUME cursor # None
      PROVE  /\ cursor \in Cursor /\ cursor.start <= cursor.end
             /\ End \in Positive \X Positive /\ End[1] = cursor.epoch
             /\ End[2] = cursor.end /\ cursor.epoch <= epoch
             /\ cursor.epoch \in Nat /\ cursor.start \in Nat /\ cursor.end \in Nat
  <2>1. cursor \in Cursor /\ cursor.start <= cursor.end
    BY <1>1, <1>7 DEF ViewText, CursorText
  <2>2. End \in Positive \X Positive /\ End[1] = cursor.epoch /\ End[2] = cursor.end
    BY <1>1, <1>7, EndPlace DEF SyncInv
  <2>3. cursor.epoch <= epoch
    BY <1>1, <1>7, <2>2 DEF SyncInv, CursorInLog, InLog
  <2>4. cursor.epoch \in Nat /\ cursor.start \in Nat /\ cursor.end \in Nat
    BY <2>1, BoundsAssumption DEF Cursor
  <2>5. QED
    BY <2>1, <2>2, <2>3, <2>4
<1>8. QED
  BY <1>2, <1>3, <1>4, <1>5, <1>6, <1>7 DEF OnceTypes

\* So after a step.
LEMMA NextShapes == ViewInv' => OnceTypes'
BY OnceShapes, PTL

\* A message of a step that was under way before it, but for its lateness.
Stays(m) ==
    \E j \in 1..Len(toApp) :
        SameText(m, toApp[j]) /\ (m.type = "page" => SameAsk(toApp[j].to, m.to))

\* A message the daemon sends in a step.
Sent(m) ==
    /\ Forward(m) => Place(m)[1] = epoch'
    /\ Fine' /\ m.type = "redone" /\ cursor # None => cursor.epoch < epoch'
    /\ m.type = "page" =>
          /\ m.to \in requests /\ m.epoch = epoch
          /\ m.to.at # None /\ m.to.at[1] # epoch => m.reset
          /\ ~IsTail(m) /\ m.to.dir = "after" /\ m.hasNewer => m.entries # <<>>

\* A request the app makes in a step, while it lags behind.
Goes(r) ==
    /\ Aligned(r) /\ Foreign(r)
    /\ r.why = "init" /\ r.dir = "tail" =>
          /\ init' = "tail"
          /\ \A q : IsAsked(q)' /\ q.why = "init" /\ q.dir = "after" => q.late
    /\ r.why = "init" /\ r.dir = "after" =>
          \A q : IsAsked(q) => ~(q.why = "init" /\ q.dir = "tail")

\* An app that lags behind goes on to do so, as long as its cursor stays and its
\* requests are of these kinds.
LEMMA LaggingStays ==
    ASSUME ViewInv, ViewInv', Fine', Lagging, cursor # None, cursor' # None,
           cursor'.epoch = cursor.epoch, cursor'.end = cursor.end, epoch' >= epoch,
           \A r \in requests' : (\E q \in requests : SameAsk(q, r)) \/ Goes(r),
           \A i \in 1..Len(toApp') : Stays(toApp'[i]) \/ Sent(toApp'[i]),
           init' = init \/ \A q : IsAsked(q) => ~(q.why = "init" /\ q.dir = "tail")
    PROVE  Lagging'
<1>0. OnceTypes /\ OnceTypes'
  BY OnceShapes, NextShapes
<1>1. ASSUME NEW r, IsAsked(r)'
      PROVE  (\E q : IsAsked(q) /\ SameAsk(q, r)) \/ Goes(r)
  <2>1. CASE r \in requests'
    BY <2>1 DEF IsAsked
  <2>2. ASSUME NEW i \in 1..Len(toApp'), toApp'[i].type = "page", toApp'[i].to = r
        PROVE  \E q : IsAsked(q) /\ SameAsk(q, r)
    <3>1. PICK m : m = toApp'[i]
      OBVIOUS
    <3>2. ASSUME NEW j \in 1..Len(toApp), SameText(m, toApp[j]), SameAsk(toApp[j].to, m.to)
          PROVE  \E q : IsAsked(q) /\ SameAsk(q, r)
      <4>1. toApp[j].type = "page"
        BY <2>2, <3>1, <3>2 DEF SameText
      <4>2. IsAsked(toApp[j].to)
        BY <4>1 DEF IsAsked
      <4>3. QED
        BY <2>2, <3>1, <3>2, <4>2
    <3>3. CASE Sent(m)
      <4>1. m.to \in requests
        BY <2>2, <3>1, <3>3 DEF Sent
      <4>2. QED
        BY <2>2, <3>1, <4>1 DEF IsAsked, SameAsk
    <3>4. QED
      BY <2>2, <3>1, <3>2, <3>3 DEF Stays
  <2>3. QED
    BY <1>1, <2>1, <2>2 DEF IsAsked
<1>2. ASSUME NEW r, IsAsked(r)'
      PROVE  Aligned(r)'
  <2>1. CASE Goes(r)
    BY <2>1 DEF Goes, Aligned
  <2>2. ASSUME NEW q, IsAsked(q), SameAsk(q, r)
        PROVE  Aligned(r)'
    <3>1. Aligned(q)
      BY <2>2 DEF Lagging
    <3>2. QED
      BY <2>2, <3>1 DEF Aligned, SameAsk
  <2>3. QED
    BY <1>1, <1>2, <2>1, <2>2
<1>3. ASSUME NEW i \in 1..Len(toApp'), toApp'[i].type = "redone"
      PROVE  cursor'.epoch < epoch'
  <2>1. PICK m : m = toApp'[i]
    OBVIOUS
  <2>2. ASSUME NEW j \in 1..Len(toApp), SameText(m, toApp[j])
        PROVE  cursor'.epoch < epoch'
    <3>1. toApp[j].type = "redone"
      BY <1>3, <2>1, <2>2 DEF SameText
    <3>2. cursor.epoch < epoch
      BY <3>1 DEF Lagging
    <3>3. cursor.epoch \in Nat /\ epoch \in Nat /\ epoch' \in Nat
      BY <1>0 DEF OnceTypes
    <3>4. QED
      BY <3>2, <3>3
  <2>3. CASE Sent(m)
    BY <1>3, <2>1, <2>3 DEF Sent
  <2>4. QED
    BY <2>1, <2>2, <2>3 DEF Stays
<1>4. TailAwaited'
  <2> SUFFICES ASSUME NEW r, IsAsked(r)', r.why = "init", r.dir = "tail"
               PROVE  init' = "tail" /\ \A q : IsAsked(q)' /\ q.why = "init" /\ q.dir = "after" => q.late
    BY DEF TailAwaited
  <2>0. CASE Goes(r)
    BY <2>0 DEF Goes
  <2> SUFFICES ASSUME ~Goes(r)
               PROVE  init' = "tail" /\ \A q : IsAsked(q)' /\ q.why = "init" /\ q.dir = "after" => q.late
    BY <2>0
  <2>1. PICK s : IsAsked(s) /\ s.why = "init" /\ s.dir = "tail"
    BY <1>1 DEF SameAsk
  <2>2. /\ init = "tail"
        /\ \A q : IsAsked(q) /\ q.why = "init" /\ q.dir = "after" => q.late
    BY <2>1 DEF Lagging, TailAwaited
  <2>3. init' = "tail"
    BY <2>1, <2>2
  <2>4. ASSUME NEW q, IsAsked(q)', q.why = "init", q.dir = "after"
        PROVE  q.late
    <3>1. ~Goes(q)
      BY <2>1, <2>4 DEF Goes
    <3>2. PICK o : IsAsked(o) /\ SameAsk(o, q)
      BY <1>1, <2>4, <3>1
    <3>3. QED
      BY <2>2, <2>4, <3>2 DEF SameAsk
  <2>5. QED
    BY <2>3, <2>4
<1>5. ASSUME NEW r \in requests'
      PROVE  Foreign(r)'
  <2>0. epoch \in Nat /\ epoch' \in Nat /\ RequestOK(r)
    BY <1>0 DEF OnceTypes
  <2>1. Foreign(r)
    <3>1. CASE Goes(r)
      BY <3>1 DEF Goes
    <3>2. ASSUME NEW q \in requests, SameAsk(q, r)
          PROVE  Foreign(r)
      <4>1. Foreign(q)
        BY DEF Lagging
      <4>2. QED
        BY <3>2, <4>1 DEF Foreign, SameAsk
    <3>3. QED
      BY <3>1, <3>2
  <2>2. r.at # None => r.at[1] \in Nat
    BY <2>0 DEF RequestOK, Requests, Places, Positive
  <2>3. QED
    BY <2>0, <2>1, <2>2 DEF Foreign
<1>6. ASSUME NEW i \in 1..Len(toApp')
      PROVE  ForeignPage(toApp[i])'
  <2>1. PICK m : m = toApp'[i]
    OBVIOUS
  <2>2. ASSUME NEW j \in 1..Len(toApp), SameText(m, toApp[j]), m.type = "page" => SameAsk(toApp[j].to, m.to)
        PROVE  ForeignPage(m)'
    <3>1. ForeignPage(toApp[j])
      BY DEF Lagging
    <3>2. QED
      BY <2>2, <3>1 DEF ForeignPage, SameText, SameAsk
  <2>3. CASE Sent(m)
    <3> SUFFICES ASSUME m.type = "page", ~m.reset, m.to.dir = "tail", m.to.why # "init"
                 PROVE  FALSE
      BY <2>1 DEF ForeignPage
    <3>1. m.to \in requests /\ (m.to.at # None /\ m.to.at[1] # epoch => m.reset)
      BY <2>3 DEF Sent
    <3>2. m.to.at # None /\ m.to.at[1] < epoch
      BY <3>1 DEF Lagging, Foreign
    <3>3. m.to.at[1] \in Nat /\ epoch \in Nat
      BY <1>0, <3>1, <3>2 DEF OnceTypes, RequestOK, Requests, Places, Positive
    <3>4. QED
      BY <3>1, <3>2, <3>3
  <2>4. ForeignPage(m)'
    BY <2>1, <2>2, <2>3 DEF Stays
  <2>5. QED
    BY <2>1, <2>4
<1>7. QED
  BY <1>2, <1>3, <1>4, <1>5, <1>6 DEF Lagging

\* An app that asks for nothing, and has nothing on its way, lags behind.
LEMMA NothingLags ==
    ASSUME requests' = {}, toApp' = <<>>
    PROVE  Lagging' /\ \A r : ~IsAsked(r)'
<1>1. Len(toApp') = 0
  OBVIOUS
<1>2. \A r : ~IsAsked(r)'
  BY <1>1 DEF IsAsked
<1>3. QED
  BY <1>1, <1>2 DEF Lagging, TailAwaited

-----------------------------------------------------------------------------
(* The daemon, in order *)

\* Every row is of some entry.
LEMMA SpanAt ==
    ASSUME Len(log) \in Nat, NEW n \in 1..Len(log)
    PROVE  \E s \in Projected(1, Len(log)) : s[1] <= n /\ n <= s[2]
<1> PICK len \in Nat : len = Len(log)
  OBVIOUS
<1> DEFINE Begins == {k \in 0..n : k >= 1 /\ (k = 1 \/ ~Joins(k))}
           Ends == {k \in Nat : n <= k /\ k <= len /\ (k = len \/ ~Joins(k + 1))}
<1>1. n \in Nat /\ n >= 1 /\ n <= len /\ 1 \in Begins /\ len \in Ends
  OBVIOUS
<1>2. PICK b \in Begins : \A k \in Begins : k <= b
  BY <1>1, Greatest
<1>3. PICK d \in Ends : \A k \in Ends : d <= k
  BY <1>1, Least
<1>4. /\ b \in 1..len /\ d \in 1..len /\ b <= n /\ n <= d
      /\ b = 1 \/ ~Joins(b)
      /\ d = len \/ ~Joins(d + 1)
  BY <1>1
<1>5. ASSUME NEW k \in b + 1..d
      PROVE  Joins(k)
  <2>1. k \in Nat /\ k > b /\ k <= d
    BY <1>4
  <2>2. CASE k <= n
    <3>1. k \notin Begins
      BY <1>2, <1>4, <2>1
    <3>2. QED
      BY <1>1, <1>4, <2>1, <2>2, <3>1
  <2>3. CASE k > n
    <3>1. k - 1 \in Nat /\ n <= k - 1 /\ k - 1 < d /\ (k - 1) + 1 = k /\ k - 1 <= len
      BY <1>1, <1>4, <2>1, <2>3
    <3>2. k - 1 \notin Ends
      <4> HIDE DEF Ends
      <4>1. d \in Nat
        BY <1>4
      <4>2. ASSUME k - 1 \in Ends
            PROVE  FALSE
        <5>1. d <= k - 1
          BY <1>3, <4>2
        <5>2. QED
          BY <3>1, <4>1, <5>1
      <4>3. QED
        BY <4>2
    <3>3. QED
      BY <1>4, <3>1, <3>2
  <2>4. QED
    BY <1>1, <2>1, <2>2, <2>3
<1>6. <<b, d>> \in Projected(1, len)
  BY <1>1, <1>4, <1>5 DEF Projected
<1>7. QED
  BY <1>4, <1>6

\* Where there are spans there are entries.
LEMMA SomeEntries ==
    ASSUME LogOK, NEW spans, SpansOK(spans), spans # {}
    PROVE  Entries(spans) # <<>>
<1>1. Len(log) \in Nat
  BY LogLength
<1>2. PICK n \in Nat : n = Len(log)
  BY <1>1
<1>3. spans \subseteq (1..n) \X (1..n)
  BY <1>2 DEF SpansOK, SpanOK
<1>4. IsFiniteSet((1..n) \X (1..n))
  <2>1. IsFiniteSet(1..n)
    BY <1>2, FS_Interval
  <2>2. QED
    BY <2>1, FS_Product
<1>5. IsFiniteSet(spans)
  BY <1>3, <1>4, FS_Subset
<1>6. /\ \A s \in spans : s[1] \in Nat
      /\ \A s, t \in spans : s[1] = t[1] => s = t
  BY <1>2, <1>3 DEF SpansOK
<1>7. PICK c \in Nat : c = Cardinality(spans) /\ c # 0
  BY <1>5, FS_CardinalityType, FS_EmptySet
<1>8. PICK E : E = Entries(spans)
  OBVIOUS
<1>9. Len(E) = c
  BY <1>7, <1>8 DEF Entries
<1>10. QED
  BY <1>7, <1>8, <1>9

\* What else the answer to a request is: it replaces the view if the request is
\* from another epoch; rows after a place, unless they are the last, have entries.
LEMMA AnswerOnce ==
    ASSUME LogOK, Shapes, NEW r, RequestOK(r), r.at # None => InLog(r.at), NEW p, p = Answer(r)
    PROVE  /\ r.at # None /\ r.at[1] # epoch => p.reset
           /\ ~IsTail(p) /\ p.to.dir = "after" =>
                 /\ p.hasNewer => p.entries # <<>>
                 /\ ~p.hasNewer /\ p.end > 0 => p.end = Len(log)
<1>1. /\ r \in Requests /\ (r.dir # "tail" => r.at \in Places)
      /\ Len(log) \in Nat /\ PageSize \in Nat \ {0}
  BY PageAssumption, LogLength DEF RequestOK
<1>2. p.to = r
  BY AnswerText
<1>3. CASE r.at # None /\ r.at[1] # epoch
  <2>1. p = TailPage(r, TRUE)
    BY <1>3 DEF Answer
  <2>2. PICK reset : reset = TRUE
    OBVIOUS
  <2>3. p.reset = reset
    BY <2>1, <2>2, TailPageText
  <2>4. QED
    BY <2>2, <2>3 DEF IsTail
<1>4. CASE ~(r.at # None /\ r.at[1] # epoch) /\ r.dir # "after"
  BY <1>2, <1>4
<1>5. CASE ~(r.at # None /\ r.at[1] # epoch) /\ r.dir = "after"
  <2>1. r.at \in Places /\ r.at # None /\ r.at[1] = epoch
    BY <1>1, <1>5, PlaceNotNone
  <2>2. PICK n \in Nat : n = r.at[2] /\ n <= Len(log)
    BY <2>1 DEF Places, InLog
  <2> DEFINE hi == Min({Len(log), n + PageSize})
  <2>3. p = RangePage(r, n + 1, hi)
    BY <1>5, <2>2 DEF Answer
  <2>4. hi \in Nat /\ hi <= Len(log)
    BY <1>1, <2>2, MinPair
  <2> HIDE DEF hi
  <2>5. n + 1 \in Positive /\ hi \in Int
    BY <2>4 DEF Positive
  <2>6. /\ p.end > 0 => p.start = n + 1 /\ p.end = hi /\ (p.hasNewer <=> hi < Len(log))
        /\ p.end = 0 => ~p.hasNewer
    BY <2>3, <2>4, <2>5, RangePageText
  <2>7. PageText(p, epoch, log)
    BY <2>3, <2>4, <2>5, RangePageText
  <2>8. p.end \in Nat
    BY <2>7, BoundsAssumption DEF PageText
  <2>9. ~p.hasNewer /\ p.end > 0 => p.end = Len(log)
    BY <1>1, <2>4, <2>6
  <2>10. ASSUME p.hasNewer
         PROVE  p.entries # <<>>
    <3>1. CASE n + 1 > hi
      <4>1. PICK reset : reset = FALSE
        OBVIOUS
      <4>2. p = EmptyPage(r, reset)
        BY <2>3, <3>1, <4>1 DEF RangePage
      <4>3. ~p.hasNewer
        BY <4>2, EmptyPageText
      <4>4. QED
        BY <2>10, <4>3
    <3>2. CASE ~(n + 1 > hi)
      <4>1. /\ n + 1 \in Nat /\ hi \in Nat /\ n + 1 \in 1..Len(log) /\ hi \in 1..Len(log)
            /\ n + 1 <= hi /\ 1 \in 1..Len(log) /\ Len(log) \in 1..Len(log)
        BY <1>1, <2>4, <3>2
      <4> DEFINE all == IF UseFull(n + 1, hi) THEN Projected(1, Len(log)) ELSE Projected(n + 1, hi)
                 of == {s \in all : s[1] <= hi /\ s[2] >= n + 1}
      <4>2. SpansOK(Projected(1, Len(log))) /\ SpansOK(Projected(n + 1, hi))
        BY <1>1, <4>1, ProjectedOK
      <4>3. PICK s \in Projected(1, Len(log)) : s[1] <= n + 1 /\ n + 1 <= s[2]
        BY <1>1, <4>1, SpanAt
      <4>4. SpanOK(s)
        BY <4>2, <4>3 DEF SpansOK
      <4>5. s[1] \in Nat /\ s[2] \in Nat
        BY <1>1, <4>4 DEF SpanOK
      <4>6. s[1] <= hi /\ s[2] >= n + 1
        BY <4>1, <4>3, <4>5
      <4>7. PICK t : t \in Projected(n + 1, hi)
        BY <4>1, LastProjected
      <4>8. t[1] <= hi /\ t[2] >= n + 1
        BY <4>1, <4>7 DEF Projected
      <4>9. SpansOK(all) /\ of # {}
        BY <4>2, <4>3, <4>6, <4>7, <4>8
      <4> HIDE DEF all
      <4>10. SpansOK(of)
        BY <4>9, SomeSpans
      <4>11. PICK ho, hn : p = Page(r, FALSE, of, n + 1, hi, ho, hn)
        BY <2>3, <3>2, Zenon DEF RangePage, all
      <4> HIDE DEF of
      <4>12. p.entries = Entries(of)
        BY <4>11 DEF Page
      <4>13. QED
        BY <4>9, <4>10, <4>12, SomeEntries
    <3>3. QED
      BY <3>1, <3>2
  <2>11. QED
    BY <2>1, <2>9, <2>10
<1>6. QED
  BY <1>3, <1>4, <1>5

\* What the daemon may send in a step: every row is said before it is needed, and
\* no row is left out.
Telling(ms) ==
    /\ TellsInOrder(ms, epoch, Len(log))
    /\ unread = <<>> => TellsAll(ms, epoch, Len(log), epoch', Len(log'))
    /\ unread # <<>> => epoch' = epoch
    /\ \A i \in 1..Len(ms) : Anchor(ms[i]) => Live(ms, i, Place(ms[i]), epoch', Len(log'))

\* A step of the daemon keeps the invariant if that is what it sends.
LEMMA DaemonOnce ==
    ASSUME ViewInv, ViewInv', OnceInv, UNCHANGED <<cursor, tail, head, init, applied, up>>,
           GoesOn, mishaps \subseteq mishaps', requests' \subseteq requests,
           NEW S, NEW ms \in Seq(S), toApp' = IF up THEN toApp \o ms ELSE toApp,
           Fine' => Telling(ms), \A i \in 1..Len(ms) : Sent(ms[i]),
           Fine' /\ unread' # <<>> =>
               /\ epoch' > epoch \/ (epoch' = epoch /\ unread # <<>>)
               /\ \A i \in 1..Len(ms) : ~Forward(ms[i])
    PROVE  OnceInv'
<1>1. OnceTypes /\ OnceTypes'
  BY OnceShapes, NextShapes
<1>2. Fine' => Fine
  BY DEF Fine
<1>3. PICK U : toApp \in Seq(U) /\ ms \in Seq(U)
  <2>1. PICK V : toApp \in Seq(V)
    BY <1>1 DEF OnceTypes
  <2>2. toApp \in Seq(V \cup S) /\ ms \in Seq(V \cup S)
    BY <2>1
  <2>3. QED
    BY <2>2
<1>4. PICK T, c : T = toApp /\ c = toApp' /\ T \in Seq(U)
  BY <1>3
<1>5. PICK f, g, len, m \in Nat :
          /\ f = epoch /\ g = epoch' /\ len = Len(log) /\ m = Len(log') /\ f <= g
  BY <1>1 DEF OnceTypes, GoesOn
<1>6. Len(T) \in Nat /\ Len(ms) \in Nat
  BY <1>3, <1>4
<1>7. ASSUME up
      PROVE  /\ c = T \o ms /\ Len(c) = Len(T) + Len(ms)
             /\ \A i \in 1..Len(T) : c[i] = T[i]
             /\ \A i \in 1..Len(ms) : c[Len(T) + i] = ms[i]
             /\ \A i \in 1..Len(c) : i \in 1..Len(T) \/ \E x \in 1..Len(ms) : i = Len(T) + x
  <2>1. c = T \o ms
    BY <1>4, <1>7
  <2>2. IsJoined(c, T, ms)
    BY <1>3, <1>4, <2>1, Joined
  <2>3. QED
    BY <2>1, <2>2, Zenon DEF IsJoined
<1>8. ASSUME NEW i \in 1..Len(c)
      PROVE  \/ i \in 1..Len(T) /\ c[i] = T[i]
             \/ \E x \in 1..Len(ms) : up /\ i = Len(T) + x /\ c[i] = ms[x]
  <2>1. CASE up
    <3>1. CASE i \in 1..Len(T)
      BY <1>7, <2>1, <3>1
    <3>2. ASSUME NEW x \in 1..Len(ms), i = Len(T) + x
          PROVE  \E y \in 1..Len(ms) : up /\ i = Len(T) + y /\ c[i] = ms[y]
      BY <1>7, <2>1, <3>2
    <3>3. QED
      BY <1>7, <2>1, <3>1, <3>2
  <2>2. CASE ~up
    BY <1>4, <2>2
  <2>3. QED
    BY <2>1, <2>2
<1>9. ASSUME NEW i \in 1..Len(c)
      PROVE  Stays(c[i]) \/ Sent(c[i])
  <2>1. CASE i \in 1..Len(T) /\ c[i] = T[i]
    BY <1>4, <2>1, SameTextSelf DEF Stays, SameAsk
  <2>2. CASE \E x \in 1..Len(ms) : up /\ i = Len(T) + x /\ c[i] = ms[x]
    BY <2>2
  <2>3. QED
    BY <1>8, <2>1, <2>2
<1>10. ASSUME NEW r, IsAsked(r)'
       PROVE  IsAsked(r)
  <2>1. CASE r \in requests'
    BY <2>1 DEF IsAsked
  <2>2. ASSUME NEW i \in 1..Len(c), c[i].type = "page", c[i].to = r
        PROVE  IsAsked(r)
    <3>1. CASE i \in 1..Len(T) /\ c[i] = T[i]
      BY <1>4, <2>2, <3>1 DEF IsAsked
    <3>2. ASSUME NEW x \in 1..Len(ms), c[i] = ms[x]
          PROVE  IsAsked(r)
      BY <2>2, <3>2 DEF IsAsked, Sent
    <3>3. QED
      BY <1>8, <3>1, <3>2
  <2>3. QED
    BY <1>4, <1>10, <2>1, <2>2 DEF IsAsked
<1>11. ASSUME up, Fine', NEW k \in 0..Len(T), NEW p \in Nat \X Nat, Live(T, k, p, f, len),
              p[1] <= f, unread # <<>> => p[1] < f
       PROVE  Live(c, k, p, g, m)
  <2>1. TellsInOrder(ms, f, len) /\ (unread = <<>> => TellsAll(ms, f, len, g, m))
        /\ (unread # <<>> => g = f)
    BY <1>5, <1>11 DEF Telling
  <2>2. p[1] = g => TellsAll(ms, f, len, g, m)
    <3>1. CASE unread = <<>>
      BY <2>1, <3>1
    <3>2. CASE unread # <<>>
      <4>1. PICK e \in Nat : e = p[1]
        OBVIOUS
      <4>2. e < f /\ g = f
        BY <1>11, <2>1, <3>2, <4>1
      <4>3. e # g
        BY <4>2
      <4>4. QED
        BY <4>1, <4>3
    <3>3. QED
      BY <3>1, <3>2
  <2>3. Live(T \o ms, k, p, g, m)
    BY <1>3, <1>4, <1>5, <1>11, <2>1, <2>2, SentLive
  <2>4. QED
    BY <1>7, <1>11, <2>3
<1>12. AllLive'
  <2> SUFFICES ASSUME Fine', NEW i \in 1..Len(c), Anchor(c[i])
               PROVE  Live(c, i, Place(c[i]), g, m)
    BY <1>4, <1>5 DEF AllLive
  <2>1. i \in 1..Len(c) /\ Forward(c[i])
    BY DEF Anchor, Forward
  <2>2. Place(c[i]) \in Positive \X Nat
    BY <1>1, <1>4, <2>1 DEF OnceTypes
  <2>3. PICK p \in Nat \X Nat : p = Place(c[i])
    BY <2>2 DEF Positive
  <2>4. CASE ~up
    <3>1. c = <<>>
      BY <1>4, <2>4 DEF OnceInv, Down
    <3>2. QED
      BY <2>1, <3>1
  <2>5. CASE up /\ i \in 1..Len(T) /\ c[i] = T[i]
    <3>1. Live(T, i, p, f, len)
      BY <1>2, <1>4, <1>5, <2>3, <2>5 DEF OnceInv, AllLive
    <3>2. p[1] <= f
      BY <1>1, <1>4, <1>5, <2>1, <2>3, <2>5 DEF OnceTypes
    <3>3. unread # <<>> => p[1] < f
      BY <1>2, <1>4, <1>5, <2>1, <2>3, <2>5 DEF OnceInv, Quiet
    <3>4. i \in 0..Len(T)
      BY <1>6, <2>5
    <3>5. Live(c, i, p, g, m)
      BY <1>11, <2>5, <3>1, <3>2, <3>3, <3>4
    <3>6. QED
      BY <2>3, <3>5
  <2>6. ASSUME NEW x \in 1..Len(ms), up, i = Len(T) + x, c[i] = ms[x]
        PROVE  Live(c, i, Place(c[i]), g, m)
    <3>1. Live(ms, x, p, g, m)
      BY <1>5, <2>3, <2>6 DEF Telling
    <3>2. Live(T \o ms, Len(T) + x, p, g, m)
      BY <1>3, <1>4, <1>5, <3>1, NewLive
    <3>3. QED
      BY <1>7, <2>3, <2>6, <3>2
  <2>7. QED
    BY <1>8, <2>4, <2>5, <2>6
<1>13. AskedBehind'
  <2> SUFFICES ASSUME NEW r, IsAsked(r)', r.at # None
               PROVE  IF cursor # None THEN r.at[1] <= cursor.epoch
                      ELSE /\ r.at[1] < g
                           /\ \A i \in 1..Len(c) : Forward(c[i]) => r.at[1] < Place(c[i])[1]
    BY <1>4, <1>5 DEF AskedBehind
  <2>1. IF cursor # None THEN r.at[1] <= cursor.epoch
        ELSE /\ r.at[1] < f
             /\ \A i \in 1..Len(T) : Forward(T[i]) => r.at[1] < Place(T[i])[1]
    BY <1>4, <1>5, <1>10 DEF OnceInv, AskedBehind
  <2>2. CASE cursor # None
    BY <2>1, <2>2
  <2>3. CASE cursor = None
    <3>1. PICK e : e = r.at[1]
      OBVIOUS
    <3>2. RequestOK(r)
      BY <1>1, <1>10 DEF OnceTypes, IsAsked
    <3>3. e \in Nat
      BY <3>1, <3>2 DEF RequestOK, Requests, Places, Positive
    <3>4. e < g
      <4>1. e < f
        BY <2>1, <2>3, <3>1
      <4>2. f \in Nat /\ g \in Nat /\ f <= g
        BY <1>5
      <4>3. QED
        BY ONLY <3>3, <4>1, <4>2
    <3>5. ASSUME NEW i \in 1..Len(c), Forward(c[i])
          PROVE  e < Place(c[i])[1]
      <4>1. CASE i \in 1..Len(T) /\ c[i] = T[i]
        BY <2>1, <2>3, <3>1, <3>5, <4>1
      <4>2. ASSUME NEW x \in 1..Len(ms), c[i] = ms[x]
            PROVE  e < Place(c[i])[1]
        BY <1>5, <3>4, <3>5, <4>2 DEF Sent
      <4>3. QED
        BY <1>8, <4>1, <4>2
    <3>6. QED
      BY <2>3, <3>1, <3>4, <3>5
  <2>4. QED
    BY <2>2, <2>3
<1>14. InitAfter' /\ OnceText'
  BY <1>2, <1>10 DEF OnceInv, InitAfter, OnceText
<1>15. Down'
  BY DEF OnceInv, Down
<1>16. Fuller'
  <2> SUFFICES ASSUME NEW i \in 1..Len(c), c[i].type = "page", ~IsTail(c[i]), c[i].to.dir = "after",
                      c[i].hasNewer
               PROVE  c[i].entries # <<>>
    BY <1>4 DEF Fuller
  <2>1. CASE i \in 1..Len(T) /\ c[i] = T[i]
    BY <1>4, <2>1 DEF OnceInv, Fuller
  <2>2. ASSUME NEW x \in 1..Len(ms), c[i] = ms[x]
        PROVE  c[i].entries # <<>>
    BY <2>2 DEF Sent
  <2>3. QED
    BY <1>8, <2>1, <2>2
<1>17. LiveOrLagging'
  <2> SUFFICES ASSUME Fine', cursor # None
               PROVE  Live(c, 0, End, g, m) \/ Lagging'
    BY <1>4, <1>5 DEF LiveOrLagging, End
  <2>1. CASE ~up
    <3>1. requests' = {} /\ toApp' = <<>>
      BY <2>1 DEF OnceInv, Down
    <3>2. QED
      BY <3>1, NothingLags
  <2>2. CASE up /\ Live(T, 0, End, f, len)
    <3>1. PICK p \in Nat \X Nat : p = End
      BY <1>1 DEF OnceTypes, Positive
    <3>2. p[1] <= f /\ p[1] = cursor.epoch
      BY <1>1, <1>5, <3>1 DEF OnceTypes
    <3>3. unread # <<>> => p[1] < f
      BY <1>2, <1>5, <3>2 DEF OnceInv, Quiet
    <3>4. 0 \in 0..Len(T)
      BY <1>6
    <3>5. Live(c, 0, p, g, m)
      BY <1>11, <2>2, <3>1, <3>2, <3>3, <3>4
    <3>6. QED
      BY <3>1, <3>5
  <2>3. CASE Lagging
    <3>1. \A r \in requests' : \E q \in requests : SameAsk(q, r)
      BY DEF SameAsk
    <3>2. \A i \in 1..Len(toApp') : Stays(toApp'[i]) \/ Sent(toApp'[i])
      BY <1>4, <1>9
    <3>3. cursor' # None /\ cursor'.epoch = cursor.epoch /\ cursor'.end = cursor.end /\ epoch' >= epoch
          /\ init' = init
      BY DEF GoesOn
    <3>4. Lagging'
      BY <2>3, <3>1, <3>2, <3>3, LaggingStays
    <3>5. QED
      BY <3>4
  <2>4. Live(T, 0, End, f, len) \/ Lagging
    BY <1>2, <1>4, <1>5 DEF OnceInv, LiveOrLagging
  <2>5. QED
    BY <2>1, <2>2, <2>3, <2>4
<1>18. Quiet'
  <2> SUFFICES ASSUME Fine', unread' # <<>>
               PROVE  /\ cursor # None => cursor.epoch < g
                      /\ \A i \in 1..Len(c) : Forward(c[i]) => Place(c[i])[1] < g
    BY <1>4, <1>5 DEF Quiet
  <2>1. (g > f \/ (g = f /\ unread # <<>>)) /\ \A i \in 1..Len(ms) : ~Forward(ms[i])
    BY <1>5
  <2>2. /\ cursor # None => cursor.epoch \in Nat /\ cursor.epoch <= f
        /\ \A i \in 1..Len(T) : Forward(T[i]) => Place(T[i])[1] \in Nat /\ Place(T[i])[1] <= f
    BY <1>1, <1>4, <1>5 DEF OnceTypes, Positive
  <2>3. unread # <<>> =>
            /\ cursor # None => cursor.epoch < f
            /\ \A i \in 1..Len(T) : Forward(T[i]) => Place(T[i])[1] < f
    BY <1>2, <1>4, <1>5 DEF OnceInv, Quiet
  <2>4. \A e \in Nat : e <= f /\ (unread # <<>> => e < f) => e < g
    BY <1>5, <2>1
  <2>5. cursor # None => cursor.epoch < g
    BY <2>2, <2>3, <2>4
  <2>6. ASSUME NEW i \in 1..Len(c), Forward(c[i])
        PROVE  Place(c[i])[1] < g
    <3>1. CASE i \in 1..Len(T) /\ c[i] = T[i]
      BY <2>2, <2>3, <2>4, <2>6, <3>1
    <3>2. QED
      BY <1>8, <2>1, <2>6, <3>1
  <2>7. QED
    BY <2>5, <2>6
<1>19. QED
  BY <1>12, <1>13, <1>14, <1>15, <1>16, <1>17, <1>18 DEF OnceInv

\* Rows first..last of epoch e, and after them what tells of no rows.
RowsOnly(ms, e, first, last) ==
    /\ Len(ms) \in Nat /\ Len(ms) >= last + 1 - first
    /\ \A i \in Nat : 0 < i /\ i <= last + 1 - first =>
           ms[i].type = "row" /\ ms[i].row = <<e, first + i - 1>>
    /\ \A i \in Nat : last + 1 - first < i /\ i <= Len(ms) => ~Forward(ms[i])

\* Rows that follow each other, from the first or from where the log was, tell all.
LEMMA RowsTell ==
    ASSUME NEW e \in Nat, NEW first \in Nat, NEW last \in Nat, first >= 1, first <= last + 1,
           NEW ms, RowsOnly(ms, e, first, last),
           NEW f \in Nat, NEW len \in Nat, (f = e /\ len = first - 1) \/ (f # e /\ first = 1)
    PROVE  /\ TellsInOrder(ms, f, len) /\ TellsAll(ms, f, len, e, last)
           /\ \A i \in 1..Len(ms) : Anchor(ms[i]) => Live(ms, i, Place(ms[i]), e, last)
<1>1. PICK L \in Nat : L = last + 1 - first
  OBVIOUS
<1>2. /\ Len(ms) \in Nat /\ Len(ms) >= L
      /\ \A i \in Nat : 0 < i /\ i <= L => ms[i].type = "row" /\ ms[i].row = <<e, first + i - 1>>
      /\ \A i \in Nat : L < i /\ i <= Len(ms) => ~Forward(ms[i])
  BY <1>1 DEF RowsOnly
<1>3. ASSUME NEW i \in Nat, 0 < i, i <= L
      PROVE  /\ Place(ms[i]) = <<e, first + i - 1>>
             /\ \A d, n \in Nat : Needs(ms[i], d, n) => d = e /\ n > 0 /\ n < first + i - 1
  <2>1. PICK m : m = ms[i]
    OBVIOUS
  <2>2. m.type = "row" /\ m.row = <<e, first + i - 1>>
    BY <1>2, <1>3, <2>1
  <2>3. Place(m) = <<e, first + i - 1>>
    BY <2>2 DEF Place
  <2>4. \A d, n \in Nat : Needs(m, d, n) => d = e /\ n > 0 /\ n < first + i - 1
    BY <2>2, <2>3 DEF Needs
  <2>5. QED
    BY <2>1, <2>3, <2>4
<1>4. ASSUME NEW n \in Nat, first <= n, n <= last
      PROVE  /\ n + 1 - first \in Nat /\ 0 < n + 1 - first /\ n + 1 - first <= L
             /\ Says(ms[n + 1 - first], e, n)
  <2>1. PICK j \in Nat : j = n + 1 - first
    BY <1>4
  <2>2. 0 < j /\ j <= L /\ first + j - 1 = n
    BY <1>1, <1>4, <2>1
  <2>3. ms[j].type = "row" /\ ms[j].row = <<e, n>>
    BY <1>2, <2>2
  <2>4. Says(ms[j], e, n)
    BY <2>3 DEF Says
  <2>5. QED
    BY <2>1, <2>2, <2>4
<1>5. ASSUME NEW i \in Nat, NEW d \in Nat, NEW n \in Nat, 0 < i, i <= Len(ms), Needs(ms[i], d, n)
      PROVE  i <= L /\ d = e /\ n > 0 /\ n < first + i - 1
  <2>1. i <= L
    BY <1>2, <1>5 DEF Needs
  <2>2. QED
    BY <1>3, <1>5, <2>1
<1>6. TellsInOrder(ms, f, len)
  <2> SUFFICES ASSUME NEW i \in Nat, NEW d \in Nat, NEW n \in Nat, 0 < i, i <= Len(ms), Needs(ms[i], d, n)
               PROVE  (d = f /\ n <= len) \/ \E j \in Nat : 0 < j /\ j < i /\ Says(ms[j], d, n)
    BY DEF TellsInOrder
  <2>1. i <= L /\ d = e /\ n > 0 /\ n < first + i - 1
    BY <1>5
  <2>2. CASE n < first
    BY <2>1, <2>2
  <2>3. CASE n >= first
    <3>1. n <= last /\ n + 1 - first < i
      BY <1>1, <2>1, <2>3
    <3>2. QED
      BY <1>4, <2>1, <2>3, <3>1
  <2>4. QED
    BY <2>2, <2>3
<1>7. TellsAll(ms, f, len, e, last)
  <2> SUFFICES ASSUME f = e, NEW n \in Nat, len < n, n <= last
               PROVE  \E j \in Nat : 0 < j /\ j <= Len(ms) /\ Says(ms[j], f, n)
    BY DEF TellsAll
  <2>1. first <= n
    OBVIOUS
  <2>2. PICK j \in Nat : 0 < j /\ j <= L /\ Says(ms[j], e, n)
    BY <1>4, <2>1
  <2>3. QED
    BY <1>2, <2>2
<1>8. ASSUME NEW i \in 1..Len(ms), Anchor(ms[i])
      PROVE  Live(ms, i, Place(ms[i]), e, last)
  <2>1. i \in Nat /\ 0 < i /\ i <= L
    BY <1>2, <1>8 DEF Anchor, Forward
  <2>2. PICK p : p = <<e, first + i - 1>> /\ p = Place(ms[i]) /\ p[1] = e /\ p[2] = first + i - 1
    BY <1>3, <2>1
  <2>3. Announced(ms, i, p)
    <3> SUFFICES ASSUME NEW a \in Nat, NEW n \in Nat, i < a, a <= Len(ms), n > p[2], Needs(ms[a], e, n)
                 PROVE  \E j \in Nat : i < j /\ j < a /\ Says(ms[j], e, n)
      BY <2>2 DEF Announced
    <3>1. a <= L /\ n < first + a - 1
      BY <1>5, <2>1
    <3>2. first <= n /\ n <= last /\ i < n + 1 - first /\ n + 1 - first < a
      BY <1>1, <2>1, <2>2, <3>1
    <3>3. QED
      BY <1>4, <3>2
  <2>4. Announces(ms, i, p, last)
    <3> SUFFICES ASSUME NEW n \in Nat, p[2] < n, n <= last
                 PROVE  \E j \in Nat : i < j /\ j <= Len(ms) /\ Says(ms[j], e, n)
      BY <2>2 DEF Announces
    <3>1. first <= n /\ i < n + 1 - first
      BY <2>1, <2>2
    <3>2. n + 1 - first \in Nat /\ n + 1 - first <= L /\ Says(ms[n + 1 - first], e, n)
      BY <1>4, <3>1
    <3>3. QED
      BY <1>2, <3>1, <3>2
  <2>5. QED
    BY <2>2, <2>3, <2>4 DEF Live
<1>9. QED
  BY <1>6, <1>7, <1>8

\* RowEvents makes such rows.
RowsMade(ms, e, first, last) ==
    /\ \E S : ms \in Seq(S)
    /\ Len(ms) = last + 1 - first
    /\ \A i \in 1..Len(ms) : ms[i].type = "row" /\ ms[i].row = <<e, first + i - 1>>

\* Such are the events of rows, ...
LEMMA RowEventsOnly ==
    ASSUME NEW e, NEW rows, NEW first \in Nat, NEW last \in Nat, first >= 1, first <= last + 1
    PROVE  RowsMade(RowEvents(e, rows, first, last), e, first, last)
<1> DEFINE n == last + 1 - first
           R(i) == [type |-> "row", row |-> <<e, first + i - 1>>, kind |-> rows[first + i - 1]]
           S == {R(i) : i \in 1..n}
<1>0. PICK ms : ms = RowEvents(e, rows, first, last)
  OBVIOUS
<1>1. ms = [i \in 1..n |-> R(i)] /\ n \in Nat
  BY <1>0 DEF RowEvents
<1>2. \A i \in 1..n : R(i) \in S
  OBVIOUS
<1>3. \A i \in 1..n : R(i).type = "row" /\ R(i).row = <<e, first + i - 1>>
  OBVIOUS
<1> HIDE DEF R, S
<1>4. ms \in [1..n -> S]
  BY <1>1, <1>2
<1>5. ms \in Seq(S) /\ Len(ms) = n
  BY <1>1, <1>4
<1>6. \A i \in 1..n : ms[i].type = "row" /\ ms[i].row = <<e, first + i - 1>>
  BY <1>1, <1>3
<1>7. RowsMade(ms, e, first, last)
  BY <1>5, <1>6 DEF RowsMade
<1>8. QED
  BY <1>0, <1>7

\* What follows them in a broadcast tells of no rows.
LEMMA AnswersSilent ==
    ASSUME NEW answer \in Answered
    PROVE  /\ \E S : answer \in Seq(S)
           /\ \A i \in 1..Len(answer) : ~Forward(answer[i]) /\ answer[i].type = "redone"
<1>1. CASE answer = <<>>
  BY <1>1
<1>2. CASE answer = <<[type |-> "redone"]>>
  <2>1. PICK m : m = [type |-> "redone"]
    OBVIOUS
  <2>2. answer \in Seq({m}) /\ Len(answer) = 1 /\ answer[1] = m
    BY <1>2, <2>1
  <2>3. m.type = "redone"
    BY <2>1
  <2>4. ~Forward(m)
    BY <2>3 DEF Forward
  <2>5. QED
    BY <2>2, <2>3, <2>4
<1>3. QED
  BY <1>1, <1>2 DEF Answered

\* Messages that tell of no rows.
Silent(ms) == Len(ms) \in Nat /\ \A i \in 1..Len(ms) : ~Forward(ms[i])

\* They leave out no row and bring nobody up to date.
LEMMA SilentTells ==
    ASSUME NEW ms, Silent(ms)
    PROVE  /\ \A f, len : TellsInOrder(ms, f, len)
           /\ \A i \in 1..Len(ms) : ~Anchor(ms[i])
<1>1. \A i \in Nat : 0 < i /\ i <= Len(ms) => ~Forward(ms[i])
  BY DEF Silent
<1>2. \A f, len : TellsInOrder(ms, f, len)
  BY <1>1 DEF TellsInOrder, Needs
<1>3. \A i \in 1..Len(ms) : ~Anchor(ms[i])
  BY DEF Silent, Anchor, Forward
<1>4. QED
  BY <1>2, <1>3

\* Every step of the daemon keeps the invariant.
LEMMA CommitOnce ==
    ASSUME ViewInv, ViewInv', OnceInv, NEW kind \in Kinds, Commit(kind)
    PROVE  OnceInv'
<1>1. /\ log' = Append(log, kind)
      /\ UNCHANGED <<epoch, unread, up, requests, cursor, tail, head, init, applied>>
      /\ mishaps \subseteq mishaps'
      /\ unread # <<>> => ~Fine'
  BY DEF Commit, Happens, Fine, app, view, asking
<1>2. PICK rows : rows = log'
  OBVIOUS
<1>3. PICK e, n \in Nat : e = epoch /\ n = Len(log)
  BY OnceShapes DEF OnceTypes
<1>4. Len(log') = n + 1
  <2>1. log \in Seq(Kinds)
    BY DEF ViewInv, ViewText, LogOK
  <2>2. QED
    BY <1>1, <1>3, <2>1
<1>5. PICK ms : ms = RowEvents(e, rows, n + 1, n + 1)
  OBVIOUS
<1>6. PICK S : /\ ms \in Seq(S) /\ Len(ms) = 1
               /\ \A i \in 1..Len(ms) : ms[i].type = "row" /\ ms[i].row = <<e, n + 1 + i - 1>>
  <2>1. PICK k \in Nat : k = n + 1 /\ k >= 1 /\ k <= k + 1
    BY <1>3
  <2>2. RowsMade(ms, e, k, k)
    BY <1>5, <2>1, RowEventsOnly
  <2>3. k + 1 - k = 1
    BY <2>1
  <2>4. QED
    BY <2>1, <2>2, <2>3 DEF RowsMade
<1>7. toApp' = IF up THEN toApp \o ms ELSE toApp
  BY <1>1, <1>2, <1>3, <1>4, <1>5 DEF Commit, Send
<1>8. RowsOnly(ms, e, n + 1, n + 1)
  <2>1. \A i \in Nat : 0 < i /\ i <= n + 1 + 1 - (n + 1) => i \in 1..Len(ms)
    BY <1>6
  <2>2. QED
    BY <1>6, <2>1 DEF RowsOnly
<1>9. Fine' => Telling(ms)
  <2>1. /\ TellsInOrder(ms, e, n) /\ TellsAll(ms, e, n, e, n + 1)
        /\ \A i \in 1..Len(ms) : Anchor(ms[i]) => Live(ms, i, Place(ms[i]), e, n + 1)
    BY <1>3, <1>8, RowsTell
  <2>2. QED
    BY <1>1, <1>3, <1>4, <2>1 DEF Telling
<1>10. \A i \in 1..Len(ms) : Sent(ms[i])
  BY <1>1, <1>3, <1>6 DEF Sent, Place
<1>11. GoesOn
  BY <1>1, <1>3, <1>4 DEF GoesOn
<1>12. Fine' => unread' = <<>>
  BY <1>1
<1>13. requests' \subseteq requests
  BY <1>1
<1>14. UNCHANGED <<cursor, tail, head, init, applied, up>>
  BY <1>1
<1>15. QED
  BY <1>1, <1>6, <1>7, <1>9, <1>10, <1>11, <1>12, <1>13, <1>14, DaemonOnce

\* A turn ends.
LEMMA TurnEndsOnce ==
    ASSUME ViewInv, ViewInv', OnceInv, TurnEnds
    PROVE  OnceInv'
<1>1. /\ UNCHANGED <<epoch, log, unread, up, requests, cursor, tail, head, init, applied>>
      /\ mishaps \subseteq mishaps'
  BY DEF TurnEnds, app, view, asking, bounds
<1>2. PICK m : m = [type |-> "end"]
  OBVIOUS
<1>3. PICK ms : ms = <<m>> /\ Send(ms)
  BY <1>2 DEF TurnEnds
<1>4. ms \in Seq({m}) /\ Len(ms) = 1 /\ ms[1] = m /\ m.type = "end"
  BY <1>2, <1>3
<1>5. ~Forward(m) /\ Sent(m)
  BY <1>4 DEF Forward, Sent
<1>6. \A i \in 1..Len(ms) : ~Forward(ms[i]) /\ Sent(ms[i])
  BY <1>4, <1>5
<1>7. PICK e, n \in Nat : e = epoch /\ n = Len(log)
  BY OnceShapes DEF OnceTypes
<1>8. /\ TellsInOrder(ms, e, n) /\ TellsAll(ms, e, n, e, n)
      /\ \A i \in 1..Len(ms) : ~Anchor(ms[i])
  <2>1. Silent(ms)
    BY <1>4, <1>6 DEF Silent
  <2>2. TellsAll(ms, e, n, e, n)
    BY <1>7 DEF TellsAll
  <2>3. QED
    BY <2>1, <2>2, SilentTells
<1>9. Telling(ms)
  BY <1>1, <1>7, <1>8 DEF Telling
<1>10. toApp' = IF up THEN toApp \o ms ELSE toApp
  BY <1>3 DEF Send
<1>11. GoesOn
  BY <1>1, <1>7 DEF GoesOn
<1>12. requests' \subseteq requests /\ UNCHANGED <<cursor, tail, head, init, applied, up>>
  BY <1>1
<1>13. epoch' = epoch /\ (unread' # <<>> => unread # <<>>)
  BY <1>1
<1>14. QED
  BY <1>1, <1>4, <1>6, <1>9, <1>10, <1>11, <1>12, <1>13, DaemonOnce

\* The agent is rewound.
LEMMA RewindOnce ==
    ASSUME ViewInv, ViewInv', OnceInv, NEW n \in 0..Len(log), Rewind(n)
    PROVE  OnceInv'
<1>1. /\ epoch' = epoch + 1 /\ log' = SubSeq(log, 1, n) /\ unread = <<>> /\ unread' = <<>>
      /\ UNCHANGED <<up, requests, cursor, tail, head, init, applied>>
      /\ mishaps \subseteq mishaps'
  BY DEF Rewind, app, view, asking, bounds
<1>2. PICK answer \in Answered : Send(RowEvents(epoch', log', 1, n) \o answer)
  BY DEF Rewind
<1>3. PICK f, len \in Nat : f = epoch /\ len = Len(log)
  BY OnceShapes DEF OnceTypes
<1>4. PICK e \in Nat : e = epoch' /\ e = f + 1
  BY <1>1, <1>3
<1>5. n \in Nat /\ Len(log') = n
  <2>1. log \in Seq(Kinds)
    BY DEF ViewInv, ViewText, LogOK
  <2>2. QED
    BY <1>1, <1>3, <2>1
<1>6. PICK rows, rs : rows = log' /\ rs = RowEvents(e, rows, 1, n)
  OBVIOUS
<1>7. /\ \E S : rs \in Seq(S)
      /\ Len(rs) = n
      /\ \A i \in 1..Len(rs) : rs[i].type = "row" /\ rs[i].row = <<e, 1 + i - 1>>
  <2>1. 1 <= n + 1
    BY <1>5
  <2>2. RowsMade(rs, e, 1, n)
    BY <1>5, <1>6, <2>1, RowEventsOnly
  <2>3. n + 1 - 1 = n
    BY <1>5
  <2>4. QED
    BY <2>2, <2>3 DEF RowsMade
<1>8. /\ \E S : answer \in Seq(S)
      /\ \A i \in 1..Len(answer) : ~Forward(answer[i]) /\ answer[i].type = "redone"
  BY AnswersSilent
<1>9. PICK S : rs \in Seq(S) /\ answer \in Seq(S)
  <2>1. PICK A : rs \in Seq(A)
    BY <1>7
  <2>2. PICK B : answer \in Seq(B)
    BY <1>8
  <2>3. rs \in Seq(A \cup B) /\ answer \in Seq(A \cup B)
    BY <2>1, <2>2
  <2>4. QED
    BY <2>3
<1>10. PICK ms : ms = rs \o answer /\ ms \in Seq(S)
  <2>1. rs \o answer \in Seq(S)
    BY <1>9
  <2>2. QED
    BY <2>1
<1>11. IsJoined(ms, rs, answer)
  BY <1>9, <1>10, Joined
<1>12. /\ Len(rs) \in Nat /\ Len(answer) \in Nat /\ Len(ms) = Len(rs) + Len(answer)
       /\ \A i \in 1..Len(rs) : ms[i] = rs[i]
       /\ \A i \in 1..Len(answer) : ms[Len(rs) + i] = answer[i]
       /\ \A i \in 1..Len(ms) : i \in 1..Len(rs) \/ \E x \in 1..Len(answer) : i = Len(rs) + x
  BY <1>11, Zenon DEF IsJoined
<1>13. ASSUME NEW i \in 1..Len(ms)
       PROVE  \/ i <= n /\ ms[i].type = "row" /\ ms[i].row = <<e, i>>
              \/ i > n /\ ~Forward(ms[i]) /\ ms[i].type = "redone"
  <2>1. CASE i \in 1..Len(rs)
    <3>1. ms[i] = rs[i] /\ i <= n
      BY <1>7, <1>12, <2>1
    <3>2. rs[i].type = "row" /\ rs[i].row = <<e, 1 + i - 1>> /\ 1 + i - 1 = i
      BY <1>7, <2>1
    <3>3. QED
      BY <3>1, <3>2
  <2>2. ASSUME NEW x \in 1..Len(answer), i = Len(rs) + x
        PROVE  i > n /\ ~Forward(ms[i]) /\ ms[i].type = "redone"
    <3>1. ms[i] = answer[x]
      BY <1>12, <2>2
    <3>2. i > n
      BY <1>7, <1>12, <2>2
    <3>3. QED
      BY <1>8, <3>1, <3>2
  <2>3. QED
    BY <1>12, <2>1, <2>2
<1>14. RowsOnly(ms, e, 1, n)
  <2>1. Len(ms) \in Nat /\ Len(ms) >= n
    BY <1>7, <1>12
  <2>2. \A i \in Nat : 0 < i /\ i <= n => ms[i].type = "row" /\ ms[i].row = <<e, i>>
    BY <1>5, <1>13, <2>1
  <2>3. \A i \in Nat : n < i /\ i <= Len(ms) => ~Forward(ms[i])
    BY <1>5, <1>13, <2>1
  <2>4. n + 1 - 1 = n /\ \A i \in Nat : 1 + i - 1 = i
    BY <1>5
  <2>5. QED
    BY <1>5, <2>1, <2>2, <2>3, <2>4 DEF RowsOnly
<1>15. Telling(ms)
  <2>1. f # e
    BY <1>4
  <2>2. /\ TellsInOrder(ms, f, len) /\ TellsAll(ms, f, len, e, n)
        /\ \A i \in 1..Len(ms) : Anchor(ms[i]) => Live(ms, i, Place(ms[i]), e, n)
    BY <1>3, <1>4, <1>5, <1>14, <2>1, RowsTell
  <2>3. QED
    BY <1>1, <1>3, <1>4, <1>5, <2>2 DEF Telling
<1>16. ASSUME NEW i \in 1..Len(ms)
       PROVE  Sent(ms[i])
  <2>1. CASE ms[i].type = "row" /\ ms[i].row = <<e, i>>
    BY <1>4, <2>1 DEF Sent, Place
  <2>2. CASE ~Forward(ms[i]) /\ ms[i].type = "redone"
    <3>1. cursor # None => cursor.epoch \in Nat /\ cursor.epoch <= f
      BY <1>3, OnceShapes DEF OnceTypes
    <3>2. cursor # None => cursor.epoch < e
      BY <1>4, <3>1
    <3>3. QED
      BY <1>4, <2>2, <3>2 DEF Sent
  <2>3. QED
    BY <1>13, <2>1, <2>2
<1>17. toApp' = IF up THEN toApp \o ms ELSE toApp
  BY <1>2, <1>4, <1>6, <1>10 DEF Send
<1>18. GoesOn
  BY <1>3, <1>4 DEF GoesOn
<1>19. requests' \subseteq requests /\ UNCHANGED <<cursor, tail, head, init, applied, up>>
  BY <1>1
<1>20. QED
  BY <1>1, <1>10, <1>15, <1>16, <1>17, <1>18, <1>19, DaemonOnce

\* The agent is reloaded.
LEMMA ReloadOnce ==
    ASSUME ViewInv, ViewInv', OnceInv, Reload
    PROVE  OnceInv'
<1>1. /\ epoch' = epoch + 1 /\ unread = <<>> /\ log' = <<>>
      /\ UNCHANGED <<up, toApp, requests, cursor, tail, head, init, applied>>
      /\ mishaps \subseteq mishaps'
  BY DEF Reload, app, view, asking, bounds
<1>2. PICK f, len \in Nat : f = epoch /\ len = Len(log)
  BY OnceShapes DEF OnceTypes
<1>3. PICK e, m \in Nat : e = epoch' /\ e = f + 1 /\ m = Len(log')
  BY <1>1, <1>2
<1>4. PICK ms : ms = <<>>
  OBVIOUS
<1>13. ms \in Seq(Nat) /\ Len(ms) = 0
  BY <1>4
<1>5. /\ TellsInOrder(ms, f, len)
      /\ \A i \in 1..Len(ms) : ~Anchor(ms[i])
  <2>1. Silent(ms)
    BY <1>13 DEF Silent
  <2>2. QED
    BY <2>1, SilentTells
<1>6. TellsAll(ms, f, len, e, m)
  BY <1>3 DEF TellsAll
<1>7. Telling(ms)
  BY <1>1, <1>2, <1>3, <1>5, <1>6 DEF Telling
<1>8. \A i \in 1..Len(ms) : ~Forward(ms[i]) /\ Sent(ms[i])
  BY <1>13
<1>9. toApp' = IF up THEN toApp \o ms ELSE toApp
  <2>1. toApp \o <<>> = toApp
    <3>1. PICK S : toApp \in Seq(S)
      BY OnceShapes DEF OnceTypes
    <3>2. QED
      BY <3>1
  <2>2. QED
    BY <1>1, <1>4, <2>1
<1>10. GoesOn /\ epoch' > epoch
  BY <1>2, <1>3 DEF GoesOn
<1>11. requests' \subseteq requests /\ UNCHANGED <<cursor, tail, head, init, applied, up>>
  BY <1>1
<1>12. QED
  BY <1>1, <1>13, <1>7, <1>8, <1>9, <1>10, <1>11, DaemonOnce

\* A row of the history is read.
LEMMA HydrateOnce ==
    ASSUME ViewInv, ViewInv', OnceInv, Hydrate
    PROVE  OnceInv'
<1>1. /\ unread # <<>> /\ log' = Append(log, Head(unread))
      /\ UNCHANGED <<epoch, up, requests, cursor, tail, head, init, applied, mishaps>>
  BY DEF Hydrate, app, view, asking, bounds
<1>2. PICK ms \in Answered : Send(ms)
  BY DEF Hydrate, Answered
<1>3. PICK S : ms \in Seq(S)
  BY AnswersSilent
<1>4. \A i \in 1..Len(ms) : ~Forward(ms[i]) /\ ms[i].type = "redone"
  BY AnswersSilent
<1>5. PICK f, len \in Nat : f = epoch /\ len = Len(log)
  BY OnceShapes DEF OnceTypes
<1>6. /\ TellsInOrder(ms, f, len)
      /\ \A i \in 1..Len(ms) : ~Anchor(ms[i])
  <2>1. Len(ms) \in Nat
    BY <1>3
  <2>2. Silent(ms)
    BY <1>4, <2>1 DEF Silent
  <2>3. QED
    BY <2>2, SilentTells
<1>7. Telling(ms)
  BY <1>1, <1>5, <1>6 DEF Telling
<1>8. Fine' /\ cursor # None => cursor.epoch < epoch'
  BY <1>1 DEF OnceInv, Quiet, Fine
<1>9. \A i \in 1..Len(ms) : Sent(ms[i])
  BY <1>4, <1>8 DEF Sent
<1>10. toApp' = IF up THEN toApp \o ms ELSE toApp
  BY <1>2 DEF Send
<1>11. Len(log') = len + 1 /\ GoesOn
  <2>1. log \in Seq(Kinds) /\ Head(unread) \in Kinds
    BY <1>1 DEF ViewInv, ViewText, LogOK
  <2>2. Len(log') = len + 1
    BY <1>1, <1>5, <2>1
  <2>3. QED
    BY <1>1, <1>5, <2>2 DEF GoesOn
<1>12. requests' \subseteq requests /\ UNCHANGED <<cursor, tail, head, init, applied, up>>
  BY <1>1
<1>13. epoch' = epoch /\ unread # <<>> /\ mishaps \subseteq mishaps'
  BY <1>1
<1>14. QED
  BY <1>3, <1>4, <1>7, <1>9, <1>10, <1>11, <1>12, <1>13, DaemonOnce

\* The daemon answers a request.
LEMMA ServeOnce ==
    ASSUME ViewInv, ViewInv', OnceInv, NEW r \in requests, Serve(r)
    PROVE  OnceInv'
<1>1. /\ requests' = requests \ {r} /\ toApp' = Append(toApp, Answer(r))
      /\ UNCHANGED <<epoch, log, unread, up, cursor, tail, head, init, applied>>
      /\ mishaps \subseteq mishaps' /\ (unread # <<>> => ~Fine')
  BY DEF Serve, Happens, Fine, app, view, daemon, asking
<1>2. PICK p : p = Answer(r)
  OBVIOUS
<1>3. Shapes /\ RequestOK(r) /\ (r.at # None => InLog(r.at)) /\ LogOK
  BY DEF ViewInv, SyncInv, Shapes, ViewText, AskedText
<1>4. p.to = r /\ p.type = "page" /\ p.epoch = epoch
  BY <1>2, <1>3, AnswerText, AnswerShape
<1>5. /\ Forward(p) => p.end <= Len(log)
      /\ TailPaged(p) => p.end = Len(log)
  BY <1>2, <1>3, AnswerShape
<1>6. /\ r.at # None /\ r.at[1] # epoch => p.reset
      /\ ~IsTail(p) /\ p.to.dir = "after" =>
             /\ p.hasNewer => p.entries # <<>>
             /\ ~p.hasNewer /\ p.end > 0 => p.end = Len(log)
  BY <1>2, <1>3, AnswerOnce
<1>7. p.end \in Nat
  <2>1. PageText(p, epoch, log)
    BY <1>2, <1>3, AnswerText
  <2>2. QED
    BY <2>1, BoundsAssumption DEF PageText
<1>8. PICK e, len \in Nat : e = epoch /\ len = Len(log)
  BY OnceShapes DEF OnceTypes
<1>9. Place(p) = <<e, p.end>>
  BY <1>4, <1>8 DEF Place
<1>10. PICK ms : ms = <<p>>
  OBVIOUS
<1>11. ms \in Seq({p}) /\ Len(ms) = 1 /\ ms[1] = p
  BY <1>10
<1>12. TellsInOrder(ms, e, len)
  <2> SUFFICES ASSUME NEW i \in Nat, NEW d \in Nat, NEW n \in Nat, 0 < i, i <= Len(ms), Needs(ms[i], d, n)
               PROVE  d = e /\ n <= len
    BY DEF TellsInOrder
  <2>1. Needs(p, d, n)
    BY <1>11
  <2>2. Forward(p) /\ d = e /\ n <= p.end
    BY <1>7, <1>9, <2>1 DEF Needs
  <2>3. p.end <= len
    BY <1>5, <1>8, <2>2
  <2>4. QED
    BY <1>7, <2>2, <2>3
<1>13. TellsAll(ms, e, len, e, len)
  BY <1>8 DEF TellsAll
<1>14. ASSUME NEW i \in 1..Len(ms), Anchor(ms[i])
       PROVE  Live(ms, i, Place(ms[i]), e, len)
  <2>1. i = 1 /\ ms[i] = p /\ Anchor(p)
    BY <1>11, <1>14
  <2>2. p.end = len
    BY <1>4, <1>5, <1>6, <1>8, <2>1 DEF Anchor, TailPaged
  <2>3. PICK q : q = Place(p) /\ q[1] = e /\ q[2] = len
    BY <1>9, <2>2
  <2>4. Announced(ms, 1, q)
    BY <1>11 DEF Announced
  <2>5. Announces(ms, 1, q, len)
    BY <1>8, <2>3 DEF Announces
  <2>6. QED
    BY <2>1, <2>3, <2>4, <2>5 DEF Live
<1>15. Fine' => Telling(ms)
  BY <1>1, <1>8, <1>12, <1>13, <1>14 DEF Telling
<1>16. Sent(p)
  BY <1>1, <1>4, <1>6, <1>8, <1>9 DEF Sent
<1>17. \A i \in 1..Len(ms) : Sent(ms[i])
  BY <1>11, <1>16
<1>18. up
  <2>1. requests # {}
    OBVIOUS
  <2>2. QED
    BY <2>1 DEF OnceInv, Down
<1>19. toApp' = IF up THEN toApp \o ms ELSE toApp
  <2>1. PICK S : toApp \in Seq(S)
    BY OnceShapes DEF OnceTypes
  <2>2. toApp \in Seq(S \cup {p})
    BY <2>1
  <2>3. Append(toApp, p) = toApp \o <<p>>
    BY <2>2
  <2>4. QED
    BY <1>1, <1>2, <1>10, <1>18, <2>3
<1>20. GoesOn
  BY <1>1, <1>8 DEF GoesOn
<1>21. requests' \subseteq requests /\ UNCHANGED <<cursor, tail, head, init, applied, up>>
  BY <1>1
<1>22. Fine' => unread' = <<>>
  BY <1>1
<1>23. QED
  BY <1>1, <1>11, <1>15, <1>17, <1>19, <1>20, <1>21, <1>22, DaemonOnce

-----------------------------------------------------------------------------
(* The app asks, and gives up *)

\* A step of the app that asks, and leaves what is displayed and what is under
\* way as it is.
LEMMA AskedOnce ==
    ASSUME ViewInv, ViewInv', OnceInv,
           UNCHANGED <<epoch, log, unread, toApp, cursor, tail, head, applied, mishaps>>,
           up \/ requests' = requests, up' \/ (requests' = {} /\ toApp = <<>>),
           \A r \in requests' : r \in requests \/
               /\ r.at # None => cursor # None /\ r.at[1] <= cursor.epoch
               /\ r.why = "init" /\ r.dir # "tail" => r.dir = "after" /\ applied
               /\ cursor # None /\ Lagging => Goes(r),
           Lagging => init' = init \/ \A q : IsAsked(q) => ~(q.why = "init" /\ q.dir = "tail")
    PROVE  OnceInv'
<1>1. AllLive' /\ Quiet' /\ Fuller' /\ OnceText' /\ (Fine' <=> Fine)
  BY DEF OnceInv, AllLive, Quiet, Fuller, OnceText, Fine
<1>2. \A r : IsAsked(r)' => IsAsked(r) \/ r \in requests'
  BY DEF IsAsked
<1>3. AskedBehind'
  <2> SUFFICES ASSUME NEW r, IsAsked(r)', r.at # None
               PROVE  IF cursor # None THEN r.at[1] <= cursor.epoch
                      ELSE /\ r.at[1] < epoch
                           /\ \A i \in 1..Len(toApp) : Forward(toApp[i]) => r.at[1] < Place(toApp[i])[1]
    BY DEF AskedBehind
  <2>1. CASE IsAsked(r)
    BY <2>1 DEF OnceInv, AskedBehind
  <2>2. CASE r \in requests' /\ r \notin requests
    BY <2>2
  <2>3. QED
    BY <1>2, <2>1, <2>2 DEF IsAsked
<1>4. InitAfter'
  <2> SUFFICES ASSUME NEW r, IsAsked(r)', r.why = "init", r.dir # "tail"
               PROVE  r.dir = "after" /\ applied
    BY DEF InitAfter
  <2>1. CASE IsAsked(r)
    BY <2>1 DEF OnceInv, InitAfter
  <2>2. CASE r \in requests' /\ r \notin requests
    BY <2>2
  <2>3. QED
    BY <1>2, <2>1, <2>2 DEF IsAsked
<1>5. Down'
  BY DEF Down
<1>6. LiveOrLagging'
  <2> SUFFICES ASSUME Fine', cursor # None
               PROVE  Live(toApp, 0, End, epoch, Len(log)) \/ Lagging'
    BY DEF LiveOrLagging, End
  <2>1. CASE Lagging
    <3>1. \A r \in requests' : (\E q \in requests : SameAsk(q, r)) \/ Goes(r)
      BY <2>1 DEF SameAsk
    <3>2. \A i \in 1..Len(toApp') : Stays(toApp'[i]) \/ Sent(toApp'[i])
      BY SameTextSelf DEF Stays, SameAsk
    <3>3. cursor' # None /\ cursor'.epoch = cursor.epoch /\ cursor'.end = cursor.end /\ epoch' >= epoch
      BY OnceShapes DEF OnceTypes
    <3>4. Lagging'
      BY <2>1, <3>1, <3>2, <3>3, LaggingStays
    <3>5. QED
      BY <3>4
  <2>2. QED
    BY <1>1, <2>1 DEF OnceInv, LiveOrLagging
<1>7. QED
  BY <1>1, <1>3, <1>4, <1>5, <1>6 DEF OnceInv

\* What is asked from the cursor goes on from it.
LEMMA EndGoes ==
    ASSUME ViewInv, cursor # None, NEW why, NEW dir, dir # "tail", NEW r, r = Ask(why, dir, End),
           why = "init" => \A q : IsAsked(q) => ~(q.why = "init" /\ q.dir = "tail")
    PROVE  r.at[1] <= cursor.epoch /\ Goes(r)
<1>1. /\ cursor.end \in Nat /\ cursor.epoch \in Nat
      /\ r.at[1] = cursor.epoch /\ r.at[2] = cursor.end /\ r.why = why /\ r.dir = dir
  BY OnceShapes DEF OnceTypes, Ask
<1>2. Multiple(0)
  BY PageAssumption DEF Multiple
<1>3. cursor.end - r.at[2] = 0
  BY <1>1
<1>4. Aligned(r) /\ Foreign(r)
  BY <1>1, <1>2, <1>3 DEF Aligned, Foreign
<1>5. QED
  BY <1>1, <1>4 DEF Goes

\* Every step by which the app asks keeps the invariant.
LEMMA OpenOnce ==
    ASSUME ViewInv, ViewInv', OnceInv, Open
    PROVE  OnceInv'
<1>1. /\ up /\ up' /\ init = None
      /\ UNCHANGED <<epoch, log, unread, toApp, cursor, tail, head, applied, mishaps>>
  BY DEF Open, daemon, view, bounds
<1>2. PICK r : r = InitialRequest
  OBVIOUS
<1>3. requests' = requests \cup {r} /\ init' = r.dir
  BY <1>2 DEF Open
<1>4. Lagging => \A q : IsAsked(q) => ~(q.why = "init" /\ q.dir = "tail")
  BY <1>1, NoneAssumption DEF Lagging, TailAwaited
<1>5. CASE applied /\ cursor # None
  <2>1. r = Ask("init", "after", End)
    BY <1>2, <1>5 DEF InitialRequest
  <2>2. r.at = End /\ r.why = "init" /\ r.dir = "after"
    BY <2>1 DEF Ask
  <2>3. r.at[1] <= cursor.epoch
    BY <1>5, <2>2, OnceShapes DEF OnceTypes
  <2>4. Lagging => Goes(r)
    BY <1>4, <1>5, <2>1, EndGoes
  <2>5. QED
    BY <1>1, <1>3, <1>4, <1>5, <2>2, <2>3, <2>4, AskedOnce
<1>6. CASE ~(applied /\ cursor # None)
  <2>1. r = Ask("init", "tail", None)
    BY <1>2, <1>6 DEF InitialRequest
  <2>2. r.at = None /\ r.why = "init" /\ r.dir = "tail"
    BY <2>1 DEF Ask
  <2>3. ASSUME cursor # None
        PROVE  Goes(r)
    <3>1. ASSUME NEW q, IsAsked(q)', q.why = "init", q.dir = "after"
          PROVE  q.late
      <4>1. IsAsked(q)
        BY <1>1, <1>3, <2>2, <3>1 DEF IsAsked
      <4>2. applied
        BY <3>1, <4>1 DEF OnceInv, InitAfter
      <4>3. QED
        BY <1>6, <2>3, <4>2
    <3>2. QED
      BY <1>3, <2>2, <3>1 DEF Goes, Aligned, Foreign
  <2>4. QED
    BY <1>1, <1>3, <1>4, <2>2, <2>3, AskedOnce
<1>7. QED
  BY <1>5, <1>6

\* The app comes back to the foreground.
LEMMA ResumeOnce ==
    ASSUME ViewInv, ViewInv', OnceInv, Resume
    PROVE  OnceInv'
<1>1. /\ up /\ up' /\ init' = init
      /\ UNCHANGED <<epoch, log, unread, toApp, cursor, tail, head, applied, mishaps>>
  BY DEF Resume, daemon, view
<1>2. CASE cursor = None
  <2>1. PICK r : r = Ask("resume", "tail", None)
    OBVIOUS
  <2>2. requests' = requests \cup {r}
    BY <1>2, <2>1 DEF Resume
  <2>3. r.at = None /\ r.why = "resume" /\ r.dir = "tail"
    BY <2>1 DEF Ask
  <2>4. QED
    BY <1>1, <1>2, <2>2, <2>3, AskedOnce
<1>3. CASE cursor # None
  <2>1. requests' = requests \cup CatchUps({End})
    BY <1>3 DEF Resume
  <2>2. ASSUME NEW r \in CatchUps({End})
        PROVE  r.at[1] <= cursor.epoch /\ r.why = "catchup" /\ r.dir = "after" /\ Goes(r)
    <3>1. r = Ask("catchup", "after", End)
      BY DEF CatchUps
    <3>2. r.why = "catchup" /\ r.dir = "after"
      BY <3>1 DEF Ask
    <3>3. r.at[1] <= cursor.epoch /\ Goes(r)
      BY <1>3, <3>1, EndGoes
    <3>4. QED
      BY <3>2, <3>3
  <2>3. QED
    BY <1>1, <1>3, <2>1, <2>2, AskedOnce
<1>4. QED
  BY <1>2, <1>3

\* The user scrolls up.
LEMMA LoadOlderOnce ==
    ASSUME ViewInv, ViewInv', OnceInv, LoadOlder
    PROVE  OnceInv'
<1>1. /\ up /\ up' /\ init' = init /\ cursor # None
      /\ UNCHANGED <<epoch, log, unread, toApp, cursor, tail, head, applied, mishaps>>
  BY DEF LoadOlder, daemon, view, bounds
<1>2. PICK r : r = Ask("older", "before", <<cursor.epoch, cursor.start>>)
  OBVIOUS
<1>3. requests' = requests \cup {r}
  BY <1>2 DEF LoadOlder
<1>4. r.at[1] = cursor.epoch /\ r.why = "older" /\ r.dir = "before"
  BY <1>2 DEF Ask
<1>5. r.at[1] <= cursor.epoch
  BY <1>1, <1>4, OnceShapes DEF OnceTypes
<1>6. Goes(r)
  BY <1>4 DEF Goes, Aligned, Foreign
<1>7. QED
  BY <1>1, <1>3, <1>4, <1>5, <1>6, AskedOnce

\* The connection is there again.
LEMMA ConnectOnce ==
    ASSUME ViewInv, ViewInv', OnceInv, Connect
    PROVE  OnceInv'
<1>1. /\ ~up /\ up' /\ init' = init
      /\ UNCHANGED <<epoch, log, unread, requests, toApp, cursor, tail, head, applied, mishaps>>
  BY DEF Connect, daemon, view, asking, bounds
<1>2. QED
  BY <1>1, AskedOnce

\* A connection that is lost leaves the app behind, with nothing asked.
LEMMA DisconnectOnce ==
    ASSUME ViewInv, ViewInv', OnceInv, Disconnect
    PROVE  OnceInv'
<1>1. /\ requests' = {} /\ toApp' = <<>>
      /\ UNCHANGED <<epoch, log, unread, cursor, tail, head, applied, mishaps>>
  BY DEF Disconnect, daemon, view
<1>2. Lagging' /\ \A r : ~IsAsked(r)'
  BY <1>1, NothingLags
<1>3. Len(toApp') = 0
  BY <1>1
<1>4. AllLive' /\ Fuller'
  BY <1>3 DEF AllLive, Fuller
<1>5. AskedBehind' /\ InitAfter'
  BY <1>2 DEF AskedBehind, InitAfter
<1>6. Quiet'
  BY <1>1, <1>3 DEF OnceInv, Quiet, Fine
<1>7. OnceText'
  BY <1>1 DEF OnceInv, OnceText, Fine
<1>8. QED
  BY <1>1, <1>2, <1>4, <1>5, <1>6, <1>7 DEF OnceInv, Down, LiveOrLagging

\* Messages that are the same but for the patience of the app move the cursor to
\* the same place.
LEMMA SameForward ==
    ASSUME NEW m, NEW n, SameText(m, n)
    PROVE  /\ Forward(m) <=> Forward(n)
           /\ Forward(m) => Place(m) = Place(n)
           /\ Anchor(m) <=> Anchor(n)
           /\ Anchor(m) => Forward(m)
<1>1. CASE m.type = "page"
  <2>1. IsTail(m) <=> IsTail(n)
    BY <1>1 DEF SameText, IsTail
  <2>2. m.type = n.type /\ m.type # "row" /\ n.type # "row"
    BY <1>1 DEF SameText
  <2>3. m.epoch = n.epoch /\ m.end = n.end /\ m.to.dir = n.to.dir /\ m.hasNewer = n.hasNewer
    BY <1>1 DEF SameText
  <2>4. QED
    BY <1>1, <2>1, <2>2, <2>3 DEF Forward, Place, Anchor
<1>2. CASE m.type # "page"
  BY <1>2 DEF SameText, Forward, Place, Anchor
<1>3. QED
  BY <1>1, <1>2

\* What is left when the app gives up a request.
GivesUp ==
    /\ Len(toApp') = Len(toApp)
    /\ \A i \in 1..Len(toApp) :
           /\ SameText(toApp'[i], toApp[i])
           /\ toApp'[i].type = "page" => SameAsk(toApp[i].to, toApp'[i].to)
    /\ \A r \in requests' : \E q \in requests : SameAsk(q, r)

\* So does a request that is given up.
LEMMA TimesOutSame ==
    ASSUME ViewInv, NEW r, TimesOut(r)
    PROVE  GivesUp
<1> DEFINE given(q) == IF q = r THEN [q EXCEPT !.late = TRUE] ELSE q
           M(i) == IF toApp[i].type = "page" THEN [toApp[i] EXCEPT !.to = given(@)] ELSE toApp[i]
<1>1. /\ requests' = {given(q) : q \in requests}
      /\ toApp' = [i \in DOMAIN toApp |-> M(i)]
  BY DEF TimesOut
<1>2. PICK S : toApp \in Seq(S)
  BY OnceShapes DEF OnceTypes
<1>3. /\ DOMAIN toApp = 1..Len(toApp) /\ Len(toApp) \in Nat
      /\ \A i \in 1..Len(toApp) : MessageOK(toApp[i])
  BY <1>2, OnceShapes DEF OnceTypes
<1>4. Len(toApp') = Len(toApp)
  <2> DEFINE T == {M(i) : i \in 1..Len(toApp)}
  <2>1. \A i \in 1..Len(toApp) : M(i) \in T
    OBVIOUS
  <2> HIDE DEF M, T
  <2>2. toApp' \in [1..Len(toApp) -> T]
    BY <1>1, <1>3, <2>1
  <2>3. QED
    BY <1>3, <2>2
<1>5. ASSUME NEW q \in Requests
      PROVE  SameAsk(q, given(q))
  <2>1. PICK g : g = given(q)
    OBVIOUS
  <2>2. /\ g.why = q.why /\ g.dir = q.dir /\ g.at = q.at
        /\ g.late = IF q = r THEN TRUE ELSE q.late
    BY <2>1 DEF Requests
  <2>3. QED
    BY <2>1, <2>2 DEF SameAsk
<1>6. ASSUME NEW i \in 1..Len(toApp)
      PROVE  /\ SameText(toApp'[i], toApp[i])
             /\ toApp'[i].type = "page" => SameAsk(toApp[i].to, toApp'[i].to)
  <2>1. toApp'[i] = M(i) /\ MessageOK(toApp[i])
    BY <1>1, <1>3
  <2>2. PICK m, n : m = toApp[i] /\ n = toApp'[i]
    OBVIOUS
  <2>3. CASE m.type = "page"
    <3>1. PICK q : q = given(m.to)
      OBVIOUS
    <3>2. m \in Pages(m.entries) /\ m.to \in Requests
      BY <2>1, <2>2, <2>3 DEF MessageOK, PageOK, Pages
    <3>3. SameAsk(m.to, q)
      BY <1>5, <3>1, <3>2
    <3>4. n = [m EXCEPT !.to = q]
      BY <2>1, <2>2, <2>3, <3>1
    <3>5. /\ n.type = m.type /\ n.to = q /\ n.epoch = m.epoch /\ n.start = m.start /\ n.end = m.end
          /\ n.entries = m.entries /\ n.reset = m.reset /\ n.hasNewer = m.hasNewer
      BY <3>2, <3>4 DEF Pages
    <3>6. SameText(n, m)
      BY <2>3, <3>3, <3>5 DEF SameText, SameAsk
    <3>7. QED
      BY <2>2, <3>3, <3>5, <3>6
  <2>4. CASE m.type # "page"
    <3>1. n = m
      BY <2>1, <2>2, <2>4
    <3>2. SameText(n, m)
      BY <3>1, SameTextSelf
    <3>3. QED
      BY <2>2, <2>4, <3>1, <3>2
  <2>5. QED
    BY <2>3, <2>4
<1>7. ASSUME NEW o \in requests'
      PROVE  \E q \in requests : SameAsk(q, o)
  <2>1. PICK q \in requests : o = given(q)
    BY <1>1
  <2>2. q \in Requests
    BY OnceShapes DEF OnceTypes, RequestOK
  <2>3. SameAsk(q, o)
    BY <1>5, <2>1, <2>2
  <2>4. QED
    BY <2>3
<1>8. QED
  BY <1>4, <1>6, <1>7 DEF GivesUp

\* A request given up stays asked, and its answer on its way; only if it is for
\* the tail may a tail come after it that does not replace the view.
LEMMA TimesOutOnce ==
    ASSUME ViewInv, ViewInv', OnceInv, NEW r \in Awaited, TimesOut(r)
    PROVE  OnceInv'
<1>1. /\ UNCHANGED <<epoch, log, unread, cursor, tail, head, applied, up>>
      /\ mishaps \subseteq mishaps' /\ (Fine' => Fine /\ r.dir # "tail") /\ ~r.late
      /\ init' = IF r.why = "init" THEN None ELSE init
  BY DEF TimesOut, Happens, Fine, daemon, view
<1>2. GivesUp
  BY TimesOutSame
<1>3. Len(toApp) \in Nat /\ Len(toApp') = Len(toApp)
  BY <1>2, OnceShapes DEF OnceTypes, GivesUp
<1>4. ASSUME NEW i \in 1..Len(toApp)
      PROVE  /\ Forward(toApp'[i]) <=> Forward(toApp[i])
             /\ Forward(toApp'[i]) => Place(toApp'[i]) = Place(toApp[i])
             /\ Anchor(toApp'[i]) <=> Anchor(toApp[i])
             /\ Anchor(toApp'[i]) => Forward(toApp'[i])
  BY <1>2, SameForward DEF GivesUp
<1>5. ASSUME NEW q, IsAsked(q)'
      PROVE  \E o : IsAsked(o) /\ SameAsk(o, q)
  <2>1. CASE q \in requests'
    BY <1>2, <2>1 DEF IsAsked, GivesUp
  <2>2. ASSUME NEW i \in 1..Len(toApp'), toApp'[i].type = "page", toApp'[i].to = q
        PROVE  \E o : IsAsked(o) /\ SameAsk(o, q)
    <3>1. i \in 1..Len(toApp) /\ SameText(toApp'[i], toApp[i]) /\ SameAsk(toApp[i].to, q)
      BY <1>2, <1>3, <2>2 DEF GivesUp
    <3>2. toApp[i].type = "page"
      BY <2>2, <3>1 DEF SameText
    <3>3. IsAsked(toApp[i].to)
      BY <3>1, <3>2 DEF IsAsked
    <3>4. QED
      BY <3>1, <3>3
  <2>3. QED
    BY <1>5, <2>1, <2>2 DEF IsAsked
<1>6. ASSUME NEW k \in Nat, NEW p, Live(toApp, k, p, epoch, Len(log))
      PROVE  Live(toApp', k, p, epoch, Len(log))
  <2>1. PICK f, len, T, U : f = epoch /\ len = Len(log) /\ T = toApp /\ U = toApp'
    OBVIOUS
  <2>2. Len(U) = Len(T) /\ Len(T) \in Nat /\ \A i \in 1..Len(T) : SameText(U[i], T[i])
    BY <1>2, <1>3, <2>1 DEF GivesUp
  <2>3. Live(T, k, p, f, len)
    BY <1>6, <2>1
  <2>4. Live(U, k, p, f, len)
    BY <2>2, <2>3, SameLive
  <2>5. QED
    BY <2>1, <2>4
<1>7. AllLive'
  <2> SUFFICES ASSUME Fine', NEW i \in 1..Len(toApp'), Anchor(toApp'[i])
               PROVE  Live(toApp', i, Place(toApp'[i]), epoch', Len(log'))
    BY DEF AllLive
  <2>1. /\ i \in 1..Len(toApp) /\ i \in Nat /\ Anchor(toApp[i])
        /\ Place(toApp'[i]) = Place(toApp[i])
    BY <1>3, <1>4
  <2>2. Live(toApp, i, Place(toApp[i]), epoch, Len(log))
    BY <1>1, <2>1 DEF OnceInv, AllLive
  <2>3. QED
    BY <1>1, <1>6, <2>1, <2>2
<1>8. AskedBehind'
  <2> SUFFICES ASSUME NEW q, IsAsked(q)', q.at # None
               PROVE  IF cursor' # None THEN q.at[1] <= cursor'.epoch
                      ELSE /\ q.at[1] < epoch'
                           /\ \A i \in 1..Len(toApp') : Forward(toApp'[i]) => q.at[1] < Place(toApp'[i])[1]
    BY DEF AskedBehind
  <2>1. PICK o : IsAsked(o) /\ SameAsk(o, q)
    BY <1>5
  <2>2. o.at = q.at
    BY <2>1 DEF SameAsk
  <2>3. CASE cursor # None
    BY <1>1, <2>1, <2>2, <2>3 DEF OnceInv, AskedBehind
  <2>4. CASE cursor = None
    <3>1. /\ q.at[1] < epoch
          /\ \A i \in 1..Len(toApp) : Forward(toApp[i]) => q.at[1] < Place(toApp[i])[1]
      BY <2>1, <2>2, <2>4 DEF OnceInv, AskedBehind
    <3>2. QED
      BY <1>1, <1>3, <1>4, <2>4, <3>1
  <2>5. QED
    BY <2>3, <2>4
<1>9. InitAfter'
  BY <1>1, <1>5 DEF OnceInv, InitAfter, SameAsk
<1>10. Quiet'
  <2> SUFFICES ASSUME Fine', unread # <<>>
               PROVE  /\ cursor # None => cursor.epoch < epoch
                      /\ \A i \in 1..Len(toApp') : Forward(toApp'[i]) => Place(toApp'[i])[1] < epoch
    BY <1>1 DEF Quiet
  <2>1. /\ cursor # None => cursor.epoch < epoch
        /\ \A i \in 1..Len(toApp) : Forward(toApp[i]) => Place(toApp[i])[1] < epoch
    BY <1>1 DEF OnceInv, Quiet
  <2>2. QED
    BY <1>3, <1>4, <2>1
<1>11. Down'
  <2> SUFFICES ASSUME ~up
               PROVE  requests' = {} /\ toApp' = <<>>
    BY <1>1 DEF Down
  <2>1. requests = {} /\ toApp = <<>>
    BY DEF OnceInv, Down
  <2>2. r \in requests \cup Under
    BY DEF Awaited
  <2>3. Under = {}
    BY <2>1 DEF Under
  <2>4. QED
    BY <2>1, <2>2, <2>3
<1>12. Fuller'
  <2> SUFFICES ASSUME NEW i \in 1..Len(toApp'), toApp'[i].type = "page", ~IsTail(toApp'[i]),
                      toApp'[i].to.dir = "after", toApp'[i].hasNewer
               PROVE  toApp'[i].entries # <<>>
    BY DEF Fuller
  <2>1. PICK m, n : n = toApp'[i] /\ m = toApp[i]
    OBVIOUS
  <2>2. SameText(n, m) /\ i \in 1..Len(toApp)
    BY <1>2, <1>3, <2>1 DEF GivesUp
  <2>3. m.type = "page" /\ ~IsTail(m) /\ m.to.dir = "after" /\ m.hasNewer /\ n.entries = m.entries
    BY <2>1, <2>2 DEF SameText, IsTail
  <2>4. QED
    BY <2>1, <2>2, <2>3 DEF OnceInv, Fuller
<1>13. OnceText'
  BY <1>1 DEF OnceInv, OnceText
<1>14. LiveOrLagging'
  <2> SUFFICES ASSUME Fine', cursor # None
               PROVE  Live(toApp', 0, End, epoch, Len(log)) \/ Lagging'
    BY <1>1 DEF LiveOrLagging, End
  <2>1. CASE Live(toApp, 0, End, epoch, Len(log))
    BY <1>6, <2>1
  <2>2. CASE Lagging
    <3>1. IsAsked(r)
      <4>1. r \in requests \cup Under
        BY DEF Awaited
      <4>2. PICK S : toApp \in Seq(S)
        BY OnceShapes DEF OnceTypes
      <4>3. DOMAIN toApp = 1..Len(toApp)
        BY <4>2
      <4>4. QED
        BY <4>1, <4>3 DEF IsAsked, Under
    <3>2. init' = init \/ \A q : IsAsked(q) => ~(q.why = "init" /\ q.dir = "tail")
      <4>1. SUFFICES ASSUME r.why = "init", NEW q, IsAsked(q), q.why = "init", q.dir = "tail"
                     PROVE  FALSE
        BY <1>1
      <4>2. r.dir = "after"
        BY <1>1, <3>1, <4>1 DEF OnceInv, InitAfter
      <4>3. r.late
        BY <2>2, <3>1, <4>1, <4>2 DEF Lagging, TailAwaited
      <4>4. QED
        BY <1>1, <4>3
    <3>3. \A q \in requests' : \E o \in requests : SameAsk(o, q)
      BY <1>2 DEF GivesUp
    <3>4. \A i \in 1..Len(toApp') : Stays(toApp'[i])
      BY <1>2, <1>3 DEF GivesUp, Stays
    <3>5. cursor' # None /\ cursor'.epoch = cursor.epoch /\ cursor'.end = cursor.end /\ epoch' >= epoch
      BY <1>1, <2>2, OnceShapes DEF OnceTypes
    <3>6. Lagging'
      BY <2>2, <3>2, <3>3, <3>4, <3>5, LaggingStays
    <3>7. QED
      BY <3>6
  <2>3. QED
    BY <1>1, <2>1, <2>2 DEF OnceInv, LiveOrLagging
<1>15. QED
  BY <1>7, <1>8, <1>9, <1>10, <1>11, <1>12, <1>13, <1>14 DEF OnceInv

-----------------------------------------------------------------------------
(* The app receives *)

\* The first message arrives.
Arrives ==
    /\ toApp # <<>> /\ toApp' = Tail(toApp)
    /\ UNCHANGED <<epoch, log, unread, up>> /\ mishaps \subseteq mishaps'

\* What is left of the messages under way.
OneLess ==
    /\ Head(toApp) = toApp[1] /\ 1 \in 1..Len(toApp)
    /\ Len(toApp') \in Nat /\ Len(toApp) \in Nat /\ Len(toApp') = Len(toApp) - 1
    /\ \A i \in 1..Len(toApp') : toApp'[i] = toApp[i + 1] /\ i + 1 \in 2..Len(toApp)

\* What arrives was the first.
LEMMA ArrivesLess ==
    ASSUME ViewInv, Arrives
    PROVE  OneLess
<1>1. PICK S : toApp \in Seq(S)
  BY OnceShapes DEF OnceTypes
<1>2. PICK T : T = toApp
  OBVIOUS
<1>3. T \in Seq(S) /\ T # <<>> /\ toApp' = Tail(T)
  BY <1>1, <1>2 DEF Arrives
<1>4. /\ Head(T) = T[1] /\ 1 \in 1..Len(T) /\ Len(T) \in Nat
      /\ Len(Tail(T)) = Len(T) - 1 /\ Len(Tail(T)) \in Nat
      /\ \A i \in 1..Len(Tail(T)) : Tail(T)[i] = T[i + 1] /\ i + 1 \in 2..Len(T)
  BY <1>3
<1>5. QED
  BY <1>2, <1>3, <1>4 DEF OneLess

\* Every step in which the app receives keeps what is said of the messages.
LEMMA ReceivedOnce ==
    ASSUME ViewInv, ViewInv', OnceInv, Arrives, CursorGoes(Head(toApp)),
           cursor # None /\ cursor' = None => TailPaged(Head(toApp)) /\ Place(Head(toApp))[2] = 0,
           applied => applied',
           \A r \in requests' : r \in requests \/
               /\ r.why # "init"
               /\ r.at # None => cursor' # None /\ r.at[1] <= cursor'.epoch
    PROVE  AllLive' /\ AskedBehind' /\ InitAfter' /\ Quiet' /\ Down' /\ Fuller'
<1>1. OneLess /\ OnceTypes /\ OnceTypes'
  BY ArrivesLess, OnceShapes, NextShapes
<1>2. Fine' => Fine
  BY DEF Arrives, Fine
<1>3. PICK m : m = Head(toApp)
  OBVIOUS
<1>4. /\ m = toApp[1] /\ Len(toApp) \in Nat /\ Len(toApp') = Len(toApp) - 1
      /\ \A i \in 1..Len(toApp') : toApp'[i] = toApp[i + 1] /\ i + 1 \in 1..Len(toApp) /\ 1 < i + 1
      /\ 1 \in 1..Len(toApp)
  BY <1>1, <1>3 DEF OneLess
<1>5. SyncInv
  BY DEF ViewInv
<1>6. ASSUME Forward(m)
      PROVE  /\ Place(m) \in Positive \X Nat /\ Place(m)[1] <= epoch /\ Place(m)[1] \in Nat
             /\ cursor # None => cursor.epoch <= Place(m)[1]
             /\ \A i \in 1..Len(toApp') : Forward(toApp'[i]) => Place(m)[1] <= Place(toApp'[i])[1]
  <2>1. Place(m) \in Positive \X Nat /\ Place(m)[1] <= epoch
    BY <1>1, <1>4, <1>6 DEF OnceTypes
  <2>2. cursor # None => Precedes(End, m)
    BY <1>4, <1>5, <1>6 DEF SyncInv, CursorBehind
  <2>3. cursor # None => cursor.epoch <= Place(m)[1]
    BY <1>1, <2>2 DEF Precedes, OnceTypes
  <2>4. ASSUME NEW i \in 1..Len(toApp'), Forward(toApp'[i])
        PROVE  Place(m)[1] <= Place(toApp'[i])[1]
    <3>1. Precedes(Place(toApp[1]), toApp[i + 1])
      BY <1>4, <1>5, <1>6, <2>4 DEF SyncInv, SentInOrder
    <3>2. QED
      BY <1>4, <3>1 DEF Precedes
  <2>5. QED
    BY <2>1, <2>3, <2>4 DEF Positive
<1>7. ASSUME NEW r, IsAsked(r)'
      PROVE  IsAsked(r) \/ (r \in requests' /\ r \notin requests)
  <2>1. ASSUME NEW i \in 1..Len(toApp'), toApp'[i].type = "page", toApp'[i].to = r
        PROVE  IsAsked(r)
    BY <1>4, <2>1 DEF IsAsked
  <2>2. QED
    BY <1>7, <2>1 DEF IsAsked
<1>8. ASSUME cursor' # None
      PROVE  \/ cursor # None /\ cursor'.epoch = cursor.epoch
             \/ Forward(m) /\ cursor'.epoch = Place(m)[1]
  <2>1. End'[1] = cursor'.epoch /\ (cursor # None => End[1] = cursor.epoch)
    BY <1>1, <1>8 DEF OnceTypes
  <2>2. QED
    BY <1>3, <1>8, <2>1 DEF CursorGoes
<1>9. AllLive'
  <2> SUFFICES ASSUME Fine', NEW i \in 1..Len(toApp'), Anchor(toApp'[i])
               PROVE  Live(toApp', i, Place(toApp'[i]), epoch', Len(log'))
    BY DEF AllLive
  <2>1. PICK n, k : n = toApp'[i] /\ k = i + 1
    OBVIOUS
  <2>2. n = toApp[k] /\ k \in 1..Len(toApp) /\ k - 1 = i
    BY <1>4, <2>1
  <2>3. Live(toApp, k, Place(n), epoch, Len(log))
    BY <1>2, <2>1, <2>2 DEF OnceInv, AllLive
  <2>4. PICK S : toApp \in Seq(S)
    BY <1>1 DEF OnceTypes
  <2>5. PICK T, p, f, len : T = toApp /\ p = Place(n) /\ f = epoch /\ len = Len(log)
    OBVIOUS
  <2>6. T \in Seq(S) /\ T # <<>> /\ k \in 1..Len(T) /\ Live(T, k, p, f, len)
    BY <2>2, <2>3, <2>4, <2>5 DEF Arrives
  <2>7. Live(Tail(T), k - 1, p, f, len)
    BY <2>6, ShiftLive
  <2>8. toApp' = Tail(T) /\ epoch' = f /\ Len(log') = len /\ Place(toApp'[i]) = p
    BY <2>1, <2>5 DEF Arrives
  <2>9. QED
    BY <2>2, <2>7, <2>8
<1>10. AskedBehind'
  <2> SUFFICES ASSUME NEW r, IsAsked(r)', r.at # None
               PROVE  IF cursor' # None THEN r.at[1] <= cursor'.epoch
                      ELSE /\ r.at[1] < epoch'
                           /\ \A i \in 1..Len(toApp') : Forward(toApp'[i]) => r.at[1] < Place(toApp'[i])[1]
    BY DEF AskedBehind
  <2>1. CASE r \in requests' /\ r \notin requests
    BY <2>1
  <2>2. CASE IsAsked(r)
    <3>1. r.at[1] \in Nat
      <4>1. RequestOK(r)
        BY <1>1, <2>2 DEF IsAsked, OnceTypes
      <4>2. QED
        BY <4>1 DEF RequestOK, Requests, Places, Positive
    <3>2. IF cursor # None THEN r.at[1] <= cursor.epoch
          ELSE /\ r.at[1] < epoch
               /\ \A i \in 1..Len(toApp) : Forward(toApp[i]) => r.at[1] < Place(toApp[i])[1]
      BY <2>2 DEF OnceInv, AskedBehind
    <3>3. CASE cursor # None /\ cursor' # None
      <4>1. r.at[1] <= cursor.epoch /\ cursor.epoch \in Nat /\ cursor'.epoch \in Nat
        BY <1>1, <3>2, <3>3 DEF OnceTypes
      <4>2. cursor.epoch <= cursor'.epoch
        BY <1>6, <1>8, <3>3, <4>1
      <4>3. QED
        BY <3>1, <3>3, <4>1, <4>2
    <3>4. CASE cursor = None /\ cursor' # None
      <4>1. Forward(m) /\ cursor'.epoch = Place(m)[1]
        BY <1>8, <3>4
      <4>2. r.at[1] < Place(m)[1] /\ Place(m)[1] \in Nat
        BY <1>4, <1>6, <3>2, <3>4, <4>1
      <4>3. QED
        BY <3>1, <3>4, <4>1, <4>2
    <3>5. CASE cursor = None /\ cursor' = None
      BY <1>4, <3>2, <3>5 DEF Arrives
    <3>6. CASE cursor # None /\ cursor' = None
      <4>1. TailPaged(m) /\ Place(m)[2] = 0 /\ Forward(m)
        BY <1>3, <3>6 DEF TailPaged, Forward
      <4>2. AtMost(End, Place(m))
        BY <1>4, <1>5, <3>6, <4>1 DEF SyncInv, CursorBehind, Precedes
      <4>3. /\ End[1] = cursor.epoch /\ cursor.epoch \in Nat /\ End[2] \in Nat /\ End[2] > 0
        BY <1>1, <3>6 DEF OnceTypes, Positive
      <4>4. cursor.epoch < Place(m)[1]
        BY <4>1, <4>2, <4>3 DEF AtMost
      <4>5. r.at[1] < Place(m)[1] /\ Place(m)[1] \in Nat /\ Place(m)[1] <= epoch
        BY <1>6, <3>1, <3>2, <3>6, <4>1, <4>3, <4>4
      <4>6. r.at[1] < epoch
        BY <1>1, <3>1, <4>5 DEF OnceTypes
      <4>7. ASSUME NEW i \in 1..Len(toApp'), Forward(toApp'[i])
            PROVE  r.at[1] < Place(toApp'[i])[1]
        <5>1. Place(m)[1] <= Place(toApp'[i])[1]
          BY <1>6, <4>1, <4>7
        <5>2. Place(toApp'[i])[1] \in Nat
          BY <1>1, <4>7 DEF OnceTypes, Positive
        <5>3. QED
          BY <3>1, <4>5, <5>1, <5>2
      <4>8. QED
        BY <3>6, <4>6, <4>7 DEF Arrives
    <3>7. QED
      BY <3>3, <3>4, <3>5, <3>6
  <2>3. QED
    BY <1>7, <2>1, <2>2
<1>11. InitAfter'
  <2> SUFFICES ASSUME NEW r, IsAsked(r)', r.why = "init", r.dir # "tail"
               PROVE  r.dir = "after" /\ applied'
    BY DEF InitAfter
  <2>1. IsAsked(r)
    BY <1>7
  <2>2. QED
    BY <2>1 DEF OnceInv, InitAfter
<1>12. Quiet'
  <2> SUFFICES ASSUME Fine', unread # <<>>
               PROVE  /\ cursor' # None => cursor'.epoch < epoch
                      /\ \A i \in 1..Len(toApp') : Forward(toApp'[i]) => Place(toApp'[i])[1] < epoch
    BY DEF Quiet, Arrives
  <2>1. /\ cursor # None => cursor.epoch < epoch
        /\ \A i \in 1..Len(toApp) : Forward(toApp[i]) => Place(toApp[i])[1] < epoch
    BY <1>2 DEF OnceInv, Quiet
  <2>2. QED
    BY <1>4, <1>8, <2>1
<1>13. Down'
  BY DEF OnceInv, Down, Arrives
<1>14. Fuller'
  BY <1>4 DEF OnceInv, Fuller
<1>15. QED
  BY <1>9, <1>10, <1>11, <1>12, <1>13, <1>14

\* A row, or a page that goes to the end of the log, brings the app up to date.
LEMMA AnchorReceives ==
    ASSUME ViewInv, ViewInv', OnceInv, Arrives, Fine', Anchor(Head(toApp)), cursor' # None,
           End' = Place(Head(toApp))
    PROVE  Live(toApp', 0, End', epoch', Len(log'))
<1>1. OneLess
  BY ArrivesLess
<1>2. Fine
  BY DEF Arrives, Fine
<1>3. PICK m : m = Head(toApp)
  OBVIOUS
<1>4. m = toApp[1] /\ 1 \in 1..Len(toApp)
  BY <1>1, <1>3 DEF OneLess
<1>5. Live(toApp, 1, Place(m), epoch, Len(log))
  BY <1>2, <1>3, <1>4 DEF OnceInv, AllLive
<1>6. PICK S : toApp \in Seq(S)
  BY OnceShapes DEF OnceTypes
<1>7. PICK T, p, f, len : T = toApp /\ p = Place(m) /\ f = epoch /\ len = Len(log)
  OBVIOUS
<1>8. T \in Seq(S) /\ T # <<>> /\ 1 \in 1..Len(T) /\ Live(T, 1, p, f, len)
  BY <1>4, <1>5, <1>6, <1>7 DEF Arrives
<1>9. Live(Tail(T), 1 - 1, p, f, len)
  BY <1>8, ShiftLive
<1>10. toApp' = Tail(T) /\ epoch' = f /\ Len(log') = len /\ End' = p /\ 1 - 1 = 0
  BY <1>3, <1>7 DEF Arrives
<1>11. QED
  BY <1>9, <1>10

\* What says no later row leaves it up to date.
LEMMA LiveReceives ==
    ASSUME ViewInv, Arrives, Live(toApp, 0, End, epoch, Len(log)), End' = End,
           \A n \in Nat : n > End[2] => ~Says(Head(toApp), End[1], n)
    PROVE  Live(toApp', 0, End', epoch', Len(log'))
<1>1. PICK S : toApp \in Seq(S)
  BY OnceShapes DEF OnceTypes
<1>2. PICK T, p, f, len : T = toApp /\ p = End /\ f = epoch /\ len = Len(log)
  OBVIOUS
<1>3. /\ T \in Seq(S) /\ T # <<>> /\ Live(T, 0, p, f, len)
      /\ \A n \in Nat : n > p[2] => ~Says(Head(T), p[1], n)
  BY <1>1, <1>2 DEF Arrives
<1>4. Live(Tail(T), 0, p, f, len)
  BY <1>3, DropLive
<1>5. toApp' = Tail(T) /\ epoch' = f /\ Len(log') = len /\ End' = p
  BY <1>2 DEF Arrives
<1>6. QED
  BY <1>4, <1>5

\* Nothing that an app that is up to date receives is of rows beyond the next.
LEMMA LiveNeeds ==
    ASSUME ViewInv, Arrives, Live(toApp, 0, End, epoch, Len(log))
    PROVE  \A n \in Nat : n > End[2] => ~Needs(Head(toApp), End[1], n)
<1>1. PICK S : toApp \in Seq(S)
  BY OnceShapes DEF OnceTypes
<1>2. PICK T, p, f, len : T = toApp /\ p = End /\ f = epoch /\ len = Len(log)
  OBVIOUS
<1>3. T \in Seq(S) /\ T # <<>> /\ Live(T, 0, p, f, len)
  BY <1>1, <1>2 DEF Arrives
<1>4. \A n \in Nat : n > p[2] => ~Needs(Head(T), p[1], n)
  BY <1>3, HeadNeeds
<1>5. QED
  BY <1>2, <1>4

\* What is under way was so before.
LEMMA ArrivesStays ==
    ASSUME ViewInv, Arrives
    PROVE  \A i \in 1..Len(toApp') : Stays(toApp'[i])
<1> SUFFICES ASSUME NEW i \in 1..Len(toApp')
             PROVE  Stays(toApp'[i])
  OBVIOUS
<1>1. OneLess
  BY ArrivesLess
<1>2. PICK j \in 1..Len(toApp) : toApp'[i] = toApp[j]
  BY <1>1 DEF OneLess
<1>3. SameText(toApp[j], toApp[j]) /\ SameAsk(toApp[j].to, toApp[j].to)
  BY SameTextSelf DEF SameAsk
<1>4. QED
  BY <1>2, <1>3 DEF Stays

\* An app that lags behind and does not get on goes on to lag behind.
LEMMA LaggingReceives ==
    ASSUME ViewInv, ViewInv', Arrives, Fine', Lagging, cursor # None, cursor' # None,
           End' = End, \A r \in requests' : r \in requests \/ Goes(r),
           init' = init \/ \A q : IsAsked(q) => ~(q.why = "init" /\ q.dir = "tail")
    PROVE  Lagging'
<1>1. \A i \in 1..Len(toApp') : Stays(toApp'[i])
  BY ArrivesStays
<1>2. OnceTypes /\ OnceTypes'
  BY OnceShapes, NextShapes
<1>3. cursor'.epoch = cursor.epoch /\ cursor'.end = cursor.end /\ epoch' >= epoch
  BY <1>2 DEF OnceTypes, Arrives
<1>4. \A r \in requests' : (\E q \in requests : SameAsk(q, r)) \/ Goes(r)
  BY DEF SameAsk
<1>5. QED
  BY <1>1, <1>3, <1>4, LaggingStays

\* An app that stays where it is stays up to date, or lags behind.
LEMMA StaysLagging ==
    ASSUME ViewInv, ViewInv', OnceInv, Arrives, cursor # None, cursor' # None, End' = End,
           Fine' /\ Live(toApp, 0, End, epoch, Len(log)) =>
               \A n \in Nat : n > End[2] => ~Says(Head(toApp), End[1], n),
           Fine' /\ Lagging =>
               /\ \A r \in requests' : r \in requests \/ Goes(r)
               /\ init' = init \/ \A q : IsAsked(q) => ~(q.why = "init" /\ q.dir = "tail")
    PROVE  LiveOrLagging'
<1> SUFFICES ASSUME Fine'
             PROVE  Live(toApp', 0, End', epoch', Len(log')) \/ Lagging'
  BY DEF LiveOrLagging
<1>1. Fine
  BY DEF Arrives, Fine
<1>2. CASE Live(toApp, 0, End, epoch, Len(log))
  BY <1>2, LiveReceives
<1>3. CASE Lagging
  BY <1>3, LaggingReceives
<1>4. QED
  BY <1>1, <1>2, <1>3 DEF OnceInv, LiveOrLagging

\* The cursor of what is taken.
LEMMA CursorBecomes ==
    ASSUME NEW e \in Positive, NEW start \in Nat, NEW end \in Positive,
           cursor' = [epoch |-> e, start |-> start, end |-> end]
    PROVE  /\ cursor' # None /\ cursor'.epoch = e /\ cursor'.start = start /\ cursor'.end = end
           /\ End' = <<e, end>>
<1>1. cursor' # None /\ End' = <<e, end>>
  BY CursorTaken
<1>2. QED
  BY <1>1

\* A row that is taken.
LEMMA RowTakenOnce ==
    ASSUME ViewInv, ViewInv', OnceInv, NEW m, m = Head(toApp), NEW decision,
           decision = Decision(m.row), decision \notin {"drop", "gap"}, RowArrives
    PROVE  OnceInv'
<1>1. PICK start, base :
          /\ start = IF decision = "accept" THEN cursor.start ELSE m.row[2]
          /\ base = IF decision = "restart" THEN [tail |-> <<>>, head |-> <<>>] ELSE Shown
  OBVIOUS
<1>2. /\ cursor' = [epoch |-> m.row[1], start |-> start, end |-> m.row[2]]
      /\ Show(Applied(base, m.kind, <<m.row>>))
      /\ m.type = "row" /\ toApp # <<>>
      /\ UNCHANGED <<requests, applied, mishaps>>
  BY <1>1 DEF RowArrives, Delivered, bounds
<1>3. Arrives
  BY DEF RowArrives, Delivered, Arrives, daemon, bounds
<1>4. SyncInv /\ ViewText /\ Shapes /\ OnceTypes
  BY OnceShapes DEF ViewInv, SyncInv
<1>5. MessageText(m, epoch, log)
  BY <1>2, <1>4, FirstText
<1>6. PICK e, k : m.row = <<e, k>> /\ e \in 1..MaxEpochs /\ k \in 1..MaxRows
  BY <1>2, <1>5 DEF MessageText, RowIds
<1>7. /\ m.row \in RowIds /\ m.kind \in Kinds
      /\ e \in Nat /\ k \in Nat /\ e > 0 /\ k > 0 /\ e \in Positive /\ k \in Positive
  BY <1>2, <1>5, <1>6 DEF MessageText, Positive
<1>8. \/ cursor = None /\ decision = "init"
      \/ cursor # None /\ decision = "restart" /\ e # cursor.epoch
      \/ /\ cursor # None /\ decision = "accept" /\ e = cursor.epoch /\ k = cursor.end + 1
  <2>1. m.row \in Positive \X Positive
    BY <1>6, <1>7
  <2>2. QED
    BY <1>4, <1>6, <2>1, DecisionShape
<1>9. start \in Nat
  BY <1>1, <1>4, <1>6, <1>7, <1>8 DEF OnceTypes
<1>10. /\ cursor' # None /\ cursor'.epoch = e /\ cursor'.start = start /\ cursor'.end = k
       /\ End' = m.row
  <2>1. cursor' = [epoch |-> e, start |-> start, end |-> k]
    BY <1>2, <1>6
  <2>2. QED
    BY <1>6, <1>7, <1>9, <2>1, CursorBecomes
<1>11. Anchor(m) /\ Forward(m) /\ Place(m) = m.row
  BY <1>2 DEF Anchor, Forward, Place
<1>12. CursorGoes(m)
  BY <1>10, <1>11 DEF CursorGoes
<1>13. AllLive' /\ AskedBehind' /\ InitAfter' /\ Quiet' /\ Down' /\ Fuller'
  BY <1>2, <1>3, <1>10, <1>12, ReceivedOnce
<1>14. LiveOrLagging'
  BY <1>3, <1>10, <1>11, AnchorReceives DEF LiveOrLagging
<1>15. OnceText'
  <2> SUFFICES ASSUME Fine'
               PROVE  InOrder(tail', e, start, k)
    BY <1>10 DEF OnceText
  <2>1. Fine
    BY <1>3 DEF Arrives, Fine
  <2>2. base \in Views /\ (decision # "restart" => base.tail = tail)
        /\ (decision = "restart" => base.tail = <<>>)
    <3>1. [tail |-> <<>>, head |-> <<>>] \in Views
      BY DEF Views
    <3>2. Shown \in Views /\ Shown.tail = tail
      BY <1>4 DEF ViewText, Shown
    <3>3. QED
      BY <1>1, <3>1, <3>2
  <2>3. PICK text : text = <<m.row>>
    OBVIOUS
  <2>4. text \in Seq(RowIds) /\ text = << <<e, k>> >>
    BY <1>6, <1>7, <2>3
  <2>5. PICK v : v = Applied(base, m.kind, text)
    OBVIOUS
  <2>6. v \in Views /\ Grown(base.tail, v.tail, m.kind, text)
    BY <1>7, <2>2, <2>4, <2>5, AppliedOK
  <2>7. tail' = v.tail
    BY <1>2, <2>3, <2>5, <2>6, ShowOK
  <2>8. PICK old, new, kind : old = base.tail /\ new = v.tail /\ kind = m.kind
    OBVIOUS
  <2>9. Grown(old, new, kind, text)
    BY <2>6, <2>8
  <2>10. CASE decision = "accept"
    <3>1. PICK lo, hi : lo = cursor.start /\ hi = cursor.end
      OBVIOUS
    <3>2. lo \in Nat /\ hi \in Nat /\ k = hi + 1 /\ lo <= hi /\ e = cursor.epoch
      BY <1>4, <1>8, <2>10, <3>1 DEF OnceTypes
    <3>3. InOrder(old, e, lo, hi)
      BY <1>8, <2>1, <2>2, <2>8, <2>10, <3>1 DEF OnceInv, OnceText
    <3>4. k > hi /\ k >= lo
      BY <1>7, <3>2
    <3>5. InOrder(new, e, lo, k)
      BY <1>7, <2>4, <2>9, <3>2, <3>3, <3>4, GrownOrder
    <3>6. QED
      BY <1>1, <2>7, <2>8, <2>10, <3>1, <3>5
  <2>11. CASE decision # "accept"
    <3>1. \A i \in Nat : ~Message(old, i)
      <4>1. CASE decision = "restart"
        <5>1. old = <<>>
          BY <2>2, <2>8, <4>1
        <5>2. QED
          BY <5>1 DEF Message
      <4>2. CASE decision = "init"
        BY <1>8, <2>1, <2>2, <2>8, <4>2 DEF OnceInv, OnceText
      <4>3. QED
        BY <1>8, <2>11, <4>1, <4>2
    <3>2. PICK hi \in Nat : k = hi + 1
      <4>1. k - 1 \in Nat /\ k = (k - 1) + 1
        BY <1>7
      <4>2. QED
        BY <4>1
    <3>3. InOrder(old, e, k, hi)
      BY <3>1, NoneInOrder
    <3>4. InOrder(new, e, k, k)
      <4>1. k > hi /\ k >= k
        BY <1>7, <3>2
      <4>2. QED
        BY <1>7, <2>4, <2>9, <3>2, <3>3, <4>1, GrownOrder
    <3>5. QED
      BY <1>1, <1>6, <2>7, <2>8, <2>11, <3>4
  <2>12. QED
    BY <2>10, <2>11
<1>16. QED
  BY <1>13, <1>14, <1>15 DEF OnceInv

\* A row arrives.  An app that is up to date drops only rows that it has, and
\* finds no gap.
LEMMA RowArrivesOnce ==
    ASSUME ViewInv, ViewInv', OnceInv, RowArrives
    PROVE  OnceInv'
<1>1. PICK m : m = Head(toApp)
  OBVIOUS
<1>2. PICK decision : decision = Decision(m.row)
  OBVIOUS
<1>3. CASE decision \notin {"drop", "gap"}
  BY <1>1, <1>2, <1>3, RowTakenOnce
<1>4. CASE decision \in {"drop", "gap"}
  <2>1. m.type = "row" /\ toApp # <<>> /\ UNCHANGED <<applied, mishaps, init>>
    BY <1>1 DEF RowArrives, Delivered, bounds
  <2>2. Arrives
    BY DEF RowArrives, Delivered, Arrives, daemon, bounds
  <2>3. PICK places : places = IF decision = "gap" THEN {End} ELSE {}
    OBVIOUS
  <2>4. CatchUp(places) /\ UNCHANGED <<cursor, tail, head>>
    BY <1>1, <1>2, <1>4, <2>3 DEF RowArrives, view
  <2>5. Shapes /\ OnceTypes /\ MessageOK(m) /\ Place(m) = m.row /\ Forward(m)
    BY <1>1, <2>1, OnceShapes, FirstMessage DEF ViewInv, SyncInv, Place, Forward
  <2>6. m.row \in Positive \X Positive
    BY <2>1, <2>5 DEF MessageOK
  <2>7. cursor # None
    BY <1>2, <1>4, <2>5, <2>6, DecisionShape
  <2>8. End' = End /\ CursorGoes(m)
    BY <2>4, <2>7 DEF End, CursorGoes
  <2>9. requests' = requests \cup CatchUps(places)
    BY <2>4 DEF CatchUp
  <2>10. ASSUME NEW r \in CatchUps(places)
         PROVE  r.why # "init" /\ r.at[1] <= cursor.epoch /\ Goes(r)
    <3>1. r = Ask("catchup", "after", End)
      BY <2>3 DEF CatchUps
    <3>2. r.why = "catchup"
      BY <3>1 DEF Ask
    <3>3. r.at[1] <= cursor.epoch /\ Goes(r)
      BY <2>7, <3>1, EndGoes
    <3>4. QED
      BY <3>2, <3>3
  <2>11. AllLive' /\ AskedBehind' /\ InitAfter' /\ Quiet' /\ Down' /\ Fuller'
    BY <1>1, <2>1, <2>2, <2>4, <2>7, <2>8, <2>9, <2>10, ReceivedOnce
  <2>12. OnceText'
    BY <2>1, <2>4 DEF OnceInv, OnceText, Fine
  <2>13. ASSUME Live(toApp, 0, End, epoch, Len(log)), NEW n \in Nat, n > End[2], Says(m, End[1], n)
         PROVE  FALSE
    <3>1. m.row[1] = cursor.epoch /\ m.row[2] = n /\ End[2] = cursor.end /\ cursor.end \in Nat
      BY <2>5, <2>7, <2>13 DEF Says, OnceTypes
    <3>2. n # cursor.end + 1
      <4>1. n = cursor.end + 1 => Decision(m.row) = "accept"
        BY <2>7, <3>1 DEF Decision, InEpoch
      <4>2. QED
        BY <1>2, <1>4, <4>1
    <3>3. cursor.end + 1 < n /\ cursor.end + 1 \in Nat /\ cursor.end + 1 > 0 /\ cursor.end + 1 > End[2]
      BY <2>13, <3>1, <3>2
    <3>4. Needs(m, End[1], cursor.end + 1)
      BY <2>5, <2>7, <3>1, <3>3 DEF Needs, OnceTypes
    <3>5. QED
      BY <1>1, <2>2, <2>13, <3>3, <3>4, LiveNeeds
  <2>14. LiveOrLagging'
    BY <1>1, <2>1, <2>2, <2>4, <2>7, <2>8, <2>9, <2>10, <2>13, StaysLagging
  <2>15. QED
    BY <2>11, <2>12, <2>14 DEF OnceInv
<1>5. QED
  BY <1>3, <1>4

\* The end of a turn arrives: the head joins the tail, and its items are no
\* messages.
LEMMA EndArrivesOnce ==
    ASSUME ViewInv, ViewInv', OnceInv, EndArrives
    PROVE  OnceInv'
<1>1. PICK m : m = Head(toApp)
  OBVIOUS
<1>2. /\ m.type = "end" /\ UNCHANGED <<cursor, applied, mishaps, init>>
      /\ requests' = requests \cup CatchUps(EndOf(cursor))
      /\ Show(IF head = <<>> THEN Shown ELSE Flushed(Shown))
  BY <1>1 DEF EndArrives, Delivered, CatchUp, bounds
<1>3. Arrives
  BY DEF EndArrives, Delivered, Arrives, daemon, bounds
<1>4. cursor = None => CursorGoes(m) /\ cursor' = None
  BY <1>2 DEF CursorGoes
<1>5. cursor # None => CursorGoes(m) /\ End' = End /\ cursor' # None
  BY <1>2 DEF CursorGoes, End
<1>6. ASSUME NEW r \in CatchUps(EndOf(cursor))
      PROVE  cursor # None /\ r.why # "init" /\ r.at[1] <= cursor.epoch /\ Goes(r)
  <2>1. cursor # None /\ r = Ask("catchup", "after", End)
    BY DEF CatchUps, EndOf, End
  <2>2. r.why = "catchup"
    BY <2>1 DEF Ask
  <2>3. r.at[1] <= cursor.epoch /\ Goes(r)
    BY <2>1, EndGoes
  <2>4. QED
    BY <2>1, <2>2, <2>3
<1>7. AllLive' /\ AskedBehind' /\ InitAfter' /\ Quiet' /\ Down' /\ Fuller'
  BY <1>1, <1>2, <1>3, <1>4, <1>5, <1>6, ReceivedOnce
<1>8. LiveOrLagging'
  <2>1. CASE cursor = None
    BY <1>2, <2>1 DEF LiveOrLagging
  <2>2. CASE cursor # None
    <3>1. \A n : ~Says(Head(toApp), End[1], n)
      BY <1>1, <1>2 DEF Says
    <3>2. QED
      BY <1>2, <1>3, <1>5, <1>6, <2>2, <3>1, StaysLagging
  <2>3. QED
    BY <2>1, <2>2
<1>9. OnceText'
  <2> SUFFICES ASSUME Fine'
               PROVE  /\ cursor = None => \A i \in Nat : ~Message(tail', i)
                      /\ cursor # None => InOrder(tail', cursor.epoch, cursor.start, cursor.end)
    BY <1>2 DEF OnceText
  <2>1. Fine
    BY <1>2 DEF Fine
  <2>2. PICK w : w = Shown
    OBVIOUS
  <2>3. w \in Views /\ w.tail = tail /\ w.head = head
    BY <2>2 DEF ViewInv, ViewText, Shown
  <2>4. SameMessages(tail, tail')
    <3>1. CASE head = <<>>
      <4>1. tail' = tail
        BY <1>2, <2>3, <3>1, <2>2 DEF Show
      <4>2. QED
        BY <4>1, SameSelf
    <3>2. CASE head # <<>>
      <4>1. tail' = Flushed(w).tail
        BY <1>2, <2>2, <3>2 DEF Show
      <4>2. SameMessages(w.tail, Flushed(w).tail)
        BY <2>3, FlushedOK
      <4>3. QED
        BY <2>3, <4>1, <4>2
    <3>3. QED
      BY <3>1, <3>2
  <2>5. CASE cursor = None
    <3>1. \A i \in Nat : ~Message(tail, i)
      BY <2>1, <2>5 DEF OnceInv, OnceText
    <3>2. QED
      BY <2>4, <2>5, <3>1 DEF SameMessages
  <2>6. CASE cursor # None
    <3>1. PICK e, lo, hi : e = cursor.epoch /\ lo = cursor.start /\ hi = cursor.end
      OBVIOUS
    <3>2. lo \in Nat /\ hi \in Nat /\ InOrder(tail, e, lo, hi)
      BY <2>1, <2>6, <3>1, OnceShapes DEF OnceInv, OnceText, OnceTypes
    <3>3. PICK old, new : old = tail /\ new = tail'
      OBVIOUS
    <3>4. InOrder(new, e, lo, hi)
      BY <2>4, <3>2, <3>3, SameOrder
    <3>5. QED
      BY <2>6, <3>1, <3>3, <3>4
  <2>7. QED
    BY <2>5, <2>6
<1>10. QED
  BY <1>7, <1>8, <1>9 DEF OnceInv

\* The app hears that its own rewind or reload has succeeded.
LEMMA RedoneArrivesOnce ==
    ASSUME ViewInv, ViewInv', OnceInv, RedoneArrives
    PROVE  OnceInv'
<1>1. PICK m : m = Head(toApp)
  OBVIOUS
<1>2. PICK at : at = IF cursor = None THEN None ELSE End
  OBVIOUS
<1>3. PICK r : r = Ask("redo", "tail", at)
  OBVIOUS
<1>4. /\ m.type = "redone" /\ UNCHANGED <<cursor, applied, mishaps, init, tail, head>>
      /\ requests' = requests \cup {r}
  BY <1>1, <1>2, <1>3 DEF RedoneArrives, Delivered, view, asking, bounds
<1>5. Arrives
  BY DEF RedoneArrives, Delivered, Arrives, daemon, bounds
<1>6. cursor = None => CursorGoes(m) /\ cursor' = None
  BY <1>4 DEF CursorGoes
<1>7. cursor # None => CursorGoes(m) /\ End' = End /\ cursor' # None
  BY <1>4 DEF CursorGoes, End
<1>8. r.why = "redo" /\ r.dir = "tail" /\ r.at = at
  BY <1>3 DEF Ask
<1>9. cursor # None => r.at = End /\ r.at # None /\ r.at[1] = cursor.epoch /\ r.at[1] <= cursor.epoch
  <2> HAVE cursor # None
  <2>1. End \in Places
    BY EndOK DEF ViewInv, SyncInv
  <2>2. QED
    BY <1>2, <1>8, <2>1, PlaceNotNone, OnceShapes DEF OnceTypes
<1>10. cursor = None => r.at = None
  BY <1>2, <1>8
<1>11. AllLive' /\ AskedBehind' /\ InitAfter' /\ Quiet' /\ Down' /\ Fuller'
  BY <1>1, <1>4, <1>5, <1>6, <1>7, <1>8, <1>9, <1>10, ReceivedOnce
<1>12. LiveOrLagging'
  <2>1. CASE cursor = None
    BY <1>4, <2>1 DEF LiveOrLagging
  <2>2. CASE cursor # None
    <3>1. \A n : ~Says(Head(toApp), End[1], n)
      BY <1>1, <1>4 DEF Says
    <3>2. ASSUME Lagging
          PROVE  Goes(r)
      <4>1. cursor.epoch < epoch
        <5>1. Head(toApp) = toApp[1] /\ 1 \in 1..Len(toApp)
          BY <1>5, ArrivesLess DEF OneLess
        <5>2. QED
          BY <1>1, <1>4, <3>2, <5>1 DEF Lagging
      <4>2. QED
        BY <1>8, <1>9, <2>2, <4>1 DEF Goes, Aligned, Foreign
    <3>3. QED
      BY <1>4, <1>5, <1>7, <2>2, <3>1, <3>2, StaysLagging
  <2>3. QED
    BY <2>1, <2>2
<1>13. OnceText'
  BY <1>4 DEF OnceInv, OnceText, Fine
<1>14. QED
  BY <1>11, <1>12, <1>13 DEF OnceInv

-----------------------------------------------------------------------------
(* A page arrives, in order *)

\* A page arrives, as PageArrives has it.
Replaces(p) == p.reset \/ (p.to.dir = "tail" /\ init # None)
Complete(p) == p.to.dir # "after" \/ ~p.hasNewer
Resolves(p) == init # None /\ (p.reset \/ (Complete(p) /\ p.to.dir = init))
PlacesBehind(p) ==
    IF Replaces(p) THEN (IF p.reset \/ p.end = 0 THEN {} ELSE {<<p.epoch, p.end>>})
    ELSE IF Ahead(p) THEN {End} ELSE {}
PlacesLeft(p) ==
    PlacesBehind(p) \cup IF ~Complete(p) /\ p.end > 0 THEN {<<p.epoch, p.end>>} ELSE {}

PageStep(p) ==
    /\ IF Replaces(p) THEN ReplacePath(p) ELSE IncrementalPath(p)
    /\ applied' = (applied \/ (Complete(p) /\ p.to.dir # "before"))
    /\ init' = IF Resolves(p) THEN None ELSE init
    /\ requests' = requests \cup CatchUps(PlacesLeft(p))

\* A page that arrives does these.
LEMMA PageSteps ==
    ASSUME PageArrives, NEW p, p = Head(toApp)
    PROVE  Arrives /\ p.type = "page" /\ PageStep(p)
<1>1. Arrives
  BY Happening DEF PageArrives, Delivered, Arrives, daemon
<1>2. p.type = "page"
  BY DEF PageArrives, Delivered
<1>3. PageStep(p)
  BY DEF PageArrives, PageStep, Replaces, Complete, Resolves, PlacesBehind, PlacesLeft
<1>4. QED
  BY <1>1, <1>2, <1>3

\* What is known of the page that arrives.
FirstPage(p) ==
    /\ p = Head(toApp) /\ p.type = "page" /\ toApp # <<>>
    /\ PageText(p, epoch, log) /\ PageRange(p) /\ RequestOK(p.to) /\ IsAsked(p.to)
    /\ p.to.dir \in {"tail", "after", "before"}
    /\ Place(p) = <<p.epoch, p.end>> /\ (Forward(p) <=> IsTail(p) \/ p.to.dir = "after")
    /\ p.epoch \in Positive /\ p.epoch \in Nat /\ p.start \in Nat /\ p.end \in Nat
    /\ p.start = 0 <=> p.end = 0
    /\ p.start <= p.end
    /\ p.entries # <<>> => p.start > 0 /\ p.end > 0
    /\ ~IsTail(p) /\ p.to.dir = "after" /\ p.hasNewer => p.entries # <<>>
    /\ p.to.at # None =>
          /\ cursor # None => p.to.at[1] <= cursor.epoch
          /\ cursor = None /\ Forward(p) => p.to.at[1] < p.epoch
    /\ p.to.at # None => p.to.at[1] \in Nat /\ p.to.at[2] \in Nat
    /\ p.to.dir = "after" => p.to.at # None

\* The page that arrives first is one of these.
LEMMA FirstPageOK ==
    ASSUME ViewInv, OnceInv, toApp # <<>>, NEW p, p = Head(toApp), p.type = "page"
    PROVE  FirstPage(p)
<1>1. SyncInv /\ ViewText /\ OnceTypes
  BY OnceShapes DEF ViewInv
<1>2. PICK S : toApp \in Seq(S)
  BY <1>1 DEF OnceTypes
<1>3. p = toApp[1] /\ 1 \in 1..Len(toApp)
  BY <1>2
<1>4. MessageOK(p) /\ MessageText(p, epoch, log) /\ RequestOK(p.to)
  BY <1>1, <1>3 DEF OnceTypes
<1>5. PageText(p, epoch, log) /\ PageRange(p)
  BY <1>4 DEF MessageText
<1>6. IsAsked(p.to)
  BY <1>3 DEF IsAsked
<1>7. /\ p \in Pages(p.entries) /\ PageOK(p)
  BY <1>4 DEF MessageOK, PageOK
<1>8. /\ p.epoch \in Positive /\ p.epoch \in Nat /\ p.start \in Nat /\ p.end \in Nat
  BY <1>7 DEF Pages, Positive
<1>9. /\ p.start = 0 <=> p.end = 0
      /\ p.start <= p.end
      /\ p.entries # <<>> => p.start > 0 /\ p.end > 0
  BY <1>5, <1>7 DEF PageText, PageOK
<1>10. p.to.dir \in {"tail", "after", "before"} /\ p.to.at \in Places \cup {None}
  BY <1>4 DEF RequestOK, Requests
<1>11. Place(p) = <<p.epoch, p.end>> /\ (Forward(p) <=> IsTail(p) \/ p.to.dir = "after")
  BY DEF Place, Forward
<1>12. ~IsTail(p) /\ p.to.dir = "after" /\ p.hasNewer => p.entries # <<>>
  BY <1>3 DEF OnceInv, Fuller
<1>13. p.to.at # None =>
          /\ cursor # None => p.to.at[1] <= cursor.epoch
          /\ cursor = None /\ Forward(p) => p.to.at[1] < p.epoch
  <2> HAVE p.to.at # None
  <2>1. IF cursor # None THEN p.to.at[1] <= cursor.epoch
        ELSE \A i \in 1..Len(toApp) : Forward(toApp[i]) => p.to.at[1] < Place(toApp[i])[1]
    BY <1>6 DEF OnceInv, AskedBehind
  <2>2. Place(p)[1] = p.epoch
    BY <1>11
  <2>3. QED
    BY <1>3, <2>1, <2>2
<1>14. p.to.at # None => p.to.at[1] \in Nat /\ p.to.at[2] \in Nat
  BY <1>10 DEF Places, Positive
<1>15. p.to.dir = "after" => p.to.at # None
  BY <1>4, PlaceNotNone DEF RequestOK
<1>16. QED
  BY <1>4, <1>5, <1>6, <1>8, <1>9, <1>10, <1>11, <1>12, <1>13, <1>14, <1>15 DEF FirstPage

\* A page that replaces the view brings the app up to date.
LEMMA ReplacesOnce ==
    ASSUME ViewInv, ViewInv', OnceInv, Arrives, NEW p, FirstPage(p), Replaces(p), ReplacePath(p)
    PROVE  /\ cursor' = None => p.end = 0
           /\ cursor' # None => p.end > 0 /\ End' = Place(p) /\ cursor'.epoch = p.epoch
           /\ LiveOrLagging' /\ OnceText'
<1>1. /\ p.type = "page" /\ IsTail(p) /\ PageText(p, epoch, log) /\ Place(p) = <<p.epoch, p.end>>
      /\ p.epoch \in Positive /\ p.start \in Nat /\ p.end \in Nat /\ p.start <= p.end
      /\ p.start = 0 <=> p.end = 0
      /\ p.entries # <<>> => p.start > 0
  BY DEF FirstPage, Replaces, IsTail
<1>2. PICK w, v : w = Shown /\ v = Replaced(w, p.entries)
  OBVIOUS
<1>3. w \in Views /\ p.entries \in Seq(EntryShape)
  BY <1>1, <1>2, PageOrder DEF ViewInv, ViewText
<1>4. v \in Views
  BY <1>2, <1>3, ReplacedOK
<1>5. tail' = v.tail
  <2>1. Show(v)
    BY <1>2 DEF ReplacePath
  <2>2. QED
    BY <1>4, <2>1, ShowOK
<1>6. CASE p.start = 0
  <2>1. cursor' = None /\ p.entries = <<>> /\ p.end = 0
    BY <1>1, <1>6 DEF ReplacePath
  <2>2. \A i \in Nat : ~Message(Replaced(w, <<>>).tail, i)
    BY <1>3, ReplacedNone
  <2>3. \A i \in Nat : ~Message(tail', i)
    BY <1>2, <1>5, <2>1, <2>2
  <2>4. QED
    BY <2>1, <2>3 DEF OnceText, LiveOrLagging
<1>7. CASE p.start # 0
  <2>1. /\ cursor' = [epoch |-> p.epoch, start |-> p.start, end |-> p.end]
        /\ p.end > 0 /\ p.end \in Positive
    BY <1>1, <1>7 DEF ReplacePath, Positive
  <2>2. /\ cursor' # None /\ cursor'.epoch = p.epoch /\ cursor'.start = p.start
        /\ cursor'.end = p.end /\ End' = Place(p)
    BY <1>1, <2>1, CursorBecomes
  <2>3. Anchor(p)
    BY <1>1, <2>1 DEF Anchor
  <2>4. LiveOrLagging'
    BY <2>2, <2>3, AnchorReceives DEF FirstPage, LiveOrLagging
  <2>5. InOrder(v.tail, p.epoch, p.start, p.end)
    <3>1. PICK f, l : f = epoch /\ l = log
      OBVIOUS
    <3>2. PageText(p, f, l) /\ p.start > 0
      BY <1>1, <1>7, <3>1
    <3>3. InOrder(Replaced(w, p.entries).tail, p.epoch, p.start, p.end)
      BY <1>3, <3>2, ReplacedOrder
    <3>4. QED
      BY <1>2, <3>3
  <2>6. OnceText'
    BY <1>5, <2>2, <2>5 DEF OnceText
  <2>7. QED
    BY <2>1, <2>2, <2>4, <2>6
<1>8. QED
  BY <1>6, <1>7

\* Whole pages.
LEMMA Multiples ==
    ASSUME NEW x \in Nat, Multiple(x)
    PROVE  /\ Multiple(0) /\ Multiple(x + PageSize)
           /\ x > 0 => x >= PageSize /\ x - PageSize \in Nat /\ Multiple(x - PageSize)
<1>1. PICK j \in Nat : x = j * PageSize
  BY DEF Multiple
<1>2. PICK s \in Nat : s = PageSize /\ s > 0
  BY PageAssumption
<1>3. Multiple(0)
  BY <1>2 DEF Multiple
<1>4. x + s = (j + 1) * s /\ j + 1 \in Nat
  BY <1>1, <1>2
<1>5. Multiple(x + PageSize)
  BY <1>2, <1>4 DEF Multiple
<1>6. ASSUME x > 0
      PROVE  x >= PageSize /\ x - PageSize \in Nat /\ Multiple(x - PageSize)
  <2>1. j # 0
    BY <1>1, <1>2, <1>6
  <2>2. PICK i \in Nat : j = i + 1
    <3>1. j - 1 \in Nat /\ j = (j - 1) + 1
      BY <2>1
    <3>2. QED
      BY <3>1
  <2>3. x = i * s + s
    BY <1>1, <1>2, <2>2
  <2>4. i * s \in Nat
    BY <1>2
  <2>5. PICK y \in Nat : y = i * s
    BY <2>4
  <2>6. x - s = y /\ x >= s
    BY <1>2, <2>3, <2>5
  <2>7. QED
    BY <1>2, <2>5, <2>6 DEF Multiple
<1>7. QED
  BY <1>3, <1>5, <1>6

\* What is asked from the cursor, whole pages back, and answered by what goes on
\* from it, was asked from the cursor.
LEMMA MultipleStarts ==
    ASSUME NEW at \in Nat, NEW end \in Nat, NEW last \in Nat, at <= end, Multiple(end - at),
           end < last, last <= at + PageSize
    PROVE  at = end
<1>1. PICK x \in Nat : x = end - at
  OBVIOUS
<1>2. x > 0 => x >= PageSize
  BY <1>1, Multiples
<1>3. PICK s \in Nat : s = PageSize
  BY PageAssumption
<1>4. x > 0 => end >= at + s
  BY <1>1, <1>2, <1>3
<1>5. QED
  BY <1>1, <1>3, <1>4

\* Rows that an app takes whole go on from its cursor.  An app that is up to date
\* needs none, and one that lags behind has asked for no others.
LEMMA NewerNext ==
    ASSUME ViewInv, OnceInv, Fine, NEW p, FirstPage(p), ~Replaces(p), Newer(p), p.entries # <<>>,
           cursor # None
    PROVE  /\ Lagging /\ p.to.dir = "after"
           /\ p.to.at[1] = cursor.epoch /\ p.to.at[2] = cursor.end
           /\ p.start = cursor.end + 1 /\ p.epoch = cursor.epoch
<1>1. OnceTypes
  BY OnceShapes
<1>2. /\ p = Head(toApp) /\ p.type = "page" /\ PageRange(p) /\ IsAsked(p.to)
      /\ p.to.dir \in {"tail", "after", "before"}
      /\ Place(p) = <<p.epoch, p.end>> /\ (Forward(p) <=> IsTail(p) \/ p.to.dir = "after")
      /\ p.end \in Nat /\ p.end > 0 /\ p.start \in Nat
      /\ p.to.dir = "after" => p.to.at # None /\ p.to.at[2] \in Nat
      /\ toApp # <<>>
  BY DEF FirstPage
<1>3. ~p.reset /\ p.to.dir # "before" /\ p.epoch = cursor.epoch /\ p.end > cursor.end
  BY DEF Replaces, Newer, InEpoch
<1>4. Forward(p)
  BY <1>2, <1>3 DEF IsTail
<1>5. ~Live(toApp, 0, End, epoch, Len(log))
  <2> SUFFICES ASSUME Live(toApp, 0, End, epoch, Len(log))
               PROVE  FALSE
    OBVIOUS
  <2>1. PICK S : toApp \in Seq(S)
    BY <1>1 DEF OnceTypes
  <2>2. PICK T, q, f, len : T = toApp /\ q = End /\ f = epoch /\ len = Len(log)
    OBVIOUS
  <2>3. \A n \in Nat : n > q[2] => ~Needs(Head(T), q[1], n)
    BY <1>2, <2>1, <2>2, HeadNeeds
  <2>4. q[1] = cursor.epoch /\ q[2] = cursor.end
    BY <1>1, <2>2 DEF OnceTypes
  <2>5. Needs(p, q[1], p.end)
    BY <1>2, <1>3, <1>4, <2>4 DEF Needs
  <2>6. QED
    BY <1>2, <1>3, <2>2, <2>3, <2>4, <2>5
<1>6. Lagging
  BY <1>5 DEF OnceInv, LiveOrLagging
<1>7. p.to.dir # "tail"
  <2> SUFFICES ASSUME p.to.dir = "tail"
               PROVE  FALSE
    OBVIOUS
  <2>1. init = None
    BY DEF Replaces
  <2>2. p.to.why = "init" => init = "tail"
    BY <1>2, <1>6 DEF Lagging, TailAwaited
  <2>3. p.to.why # "init"
    BY <2>1, <2>2, NoneAssumption
  <2>4. p = toApp[1] /\ 1 \in 1..Len(toApp)
    <3>1. PICK S : toApp \in Seq(S)
      BY <1>1 DEF OnceTypes
    <3>2. QED
      BY <1>2, <3>1
  <2>5. ForeignPage(p)
    BY <1>6, <2>4 DEF Lagging
  <2>6. QED
    BY <1>2, <1>3, <2>3, <2>5 DEF ForeignPage
<1>8. p.to.dir = "after"
  BY <1>2, <1>3, <1>7
<1>9. /\ p.epoch = p.to.at[1] /\ p.start = p.to.at[2] + 1 /\ p.end <= p.to.at[2] + PageSize
  BY <1>2, <1>3, <1>8 DEF PageRange
<1>10. p.to.at[2] <= cursor.end /\ Multiple(cursor.end - p.to.at[2])
  <2>1. Aligned(p.to)
    BY <1>2, <1>6 DEF Lagging
  <2>2. QED
    BY <1>3, <1>8, <1>9, <2>1 DEF Aligned
<1>11. PICK at, end, last : at = p.to.at[2] /\ end = cursor.end /\ last = p.end
  OBVIOUS
<1>12. at \in Nat /\ end \in Nat /\ last \in Nat
  BY <1>1, <1>2, <1>8, <1>11 DEF OnceTypes
<1>13. at = end
  BY <1>3, <1>9, <1>10, <1>11, <1>12, MultipleStarts
<1>14. QED
  BY <1>3, <1>6, <1>8, <1>9, <1>11, <1>13

\* Where there is no cursor, nothing is asked from a place that could be answered
\* by rows after it.
LEMMA NothingAfter ==
    ASSUME NEW p, FirstPage(p), ~p.reset, p.to.dir = "after", p.end > 0
    PROVE  cursor # None /\ p.epoch <= cursor.epoch
<1>1. p.epoch = p.to.at[1]
  BY DEF FirstPage, PageRange
<1>2. p.epoch \in Nat /\ p.to.at # None /\ Forward(p)
  BY DEF FirstPage
<1>3. /\ cursor # None => p.to.at[1] <= cursor.epoch
      /\ cursor = None => p.to.at[1] < p.epoch
  BY <1>2 DEF FirstPage
<1>4. QED
  BY <1>1, <1>2, <1>3

\* An app that lags behind goes on by a whole page.
LEMMA LaggingMoves ==
    ASSUME ViewInv, ViewInv', Arrives, Lagging, cursor # None, cursor' # None,
           cursor'.epoch = cursor.epoch, cursor'.end = cursor.end + PageSize,
           \A r \in requests' : r \in requests \/ r = Ask("catchup", "after", End'),
           init' = init
    PROVE  Lagging'
<1>1. OnceTypes /\ OnceTypes' /\ OneLess
  BY OnceShapes, NextShapes, ArrivesLess
<1>2. PICK new : new = Ask("catchup", "after", End')
  OBVIOUS
<1>3. new.why = "catchup" /\ new.dir = "after" /\ new.at = End'
  BY <1>2 DEF Ask
<1>4. /\ cursor.end \in Nat /\ cursor'.end \in Nat /\ cursor.epoch \in Nat
      /\ End'[1] = cursor'.epoch /\ End'[2] = cursor'.end
      /\ PageSize \in Nat
  BY <1>1, PageAssumption DEF OnceTypes
<1>5. ASSUME NEW r, IsAsked(r)'
      PROVE  IsAsked(r) \/ r = new
  <2>1. ASSUME NEW i \in 1..Len(toApp'), toApp'[i].type = "page", toApp'[i].to = r
        PROVE  IsAsked(r)
    <3>1. PICK j \in 1..Len(toApp) : toApp'[i] = toApp[j]
      BY <1>1 DEF OneLess
    <3>2. QED
      BY <2>1, <3>1 DEF IsAsked
  <2>2. CASE r \in requests'
    BY <1>2, <2>2 DEF IsAsked
  <2>3. QED
    BY <1>5, <2>1, <2>2 DEF IsAsked
<1>6. ASSUME NEW r, IsAsked(r)'
      PROVE  Aligned(r)'
  <2> SUFFICES ASSUME r.dir = "after", r.at[1] = cursor'.epoch
               PROVE  r.at[2] <= cursor'.end /\ Multiple(cursor'.end - r.at[2])
    BY DEF Aligned
  <2>1. CASE r = new
    <3>1. r.at[2] = cursor'.end /\ cursor'.end - cursor'.end = 0 /\ Multiple(0)
      BY <1>3, <1>4, <2>1 DEF Multiple
    <3>2. QED
      BY <1>4, <3>1
  <2>2. CASE IsAsked(r)
    <3>1. Aligned(r)
      BY <2>2 DEF Lagging
    <3>2. r.at[2] <= cursor.end /\ Multiple(cursor.end - r.at[2])
      BY <3>1 DEF Aligned
    <3>3. r.at[2] \in Nat
      <4>1. RequestOK(r)
        BY <1>1, <2>2 DEF IsAsked, OnceTypes
      <4>2. QED
        BY <4>1 DEF RequestOK, Requests, Places
    <3>4. PICK x \in Nat : x = cursor.end - r.at[2]
      BY <1>4, <3>2, <3>3
    <3>5. Multiple(x + PageSize)
      BY <3>2, <3>4, Multiples
    <3>6. cursor'.end - r.at[2] = x + PageSize
      BY <1>4, <3>3, <3>4
    <3>7. r.at[2] <= cursor'.end
      BY <1>4, <3>2, <3>3
    <3>8. QED
      BY <3>5, <3>6, <3>7
  <2>3. QED
    BY <1>5, <1>6, <2>1, <2>2
<1>7. \A i \in 1..Len(toApp') : toApp'[i].type = "redone" => cursor'.epoch < epoch'
  BY <1>1 DEF Lagging, OneLess, Arrives
<1>8. TailAwaited'
  <2> SUFFICES ASSUME NEW r, IsAsked(r)', r.why = "init", r.dir = "tail"
               PROVE  init' = "tail" /\ \A q : IsAsked(q)' /\ q.why = "init" /\ q.dir = "after" => q.late
    BY DEF TailAwaited
  <2>1. IsAsked(r)
    BY <1>3, <1>5
  <2>2. init = "tail" /\ \A q : IsAsked(q) /\ q.why = "init" /\ q.dir = "after" => q.late
    BY <2>1 DEF Lagging, TailAwaited
  <2>3. QED
    BY <1>3, <1>5, <2>2
<1>9. ASSUME NEW r \in requests'
      PROVE  Foreign(r)'
  <2>1. CASE r = new
    BY <1>3, <2>1 DEF Foreign
  <2>2. CASE r \in requests
    BY <2>2 DEF Lagging, Foreign, Arrives
  <2>3. QED
    BY <1>2, <2>1, <2>2
<1>10. ASSUME NEW i \in 1..Len(toApp')
       PROVE  ForeignPage(toApp[i])'
  <2>1. PICK j \in 1..Len(toApp) : toApp'[i] = toApp[j]
    BY <1>1 DEF OneLess
  <2>2. PICK m : m = toApp[j]
    OBVIOUS
  <2>3. ForeignPage(m)
    BY <2>2 DEF Lagging
  <2>4. ForeignPage(m)'
    BY <2>3 DEF ForeignPage
  <2>5. QED
    BY <2>1, <2>2, <2>4
<1>11. QED
  BY <1>6, <1>7, <1>8, <1>9, <1>10 DEF Lagging

\* A page goes after the view, ...
PageAfter(p) ==
    /\ p.entries # <<>> /\ Newer(p) /\ cursor' # None
    /\ cursor'.epoch = p.epoch /\ cursor'.end = p.end /\ End' = Place(p)
    /\ cursor'.start = IF cursor = None THEN p.start ELSE cursor.start
    /\ tail' = Extended(Shown, p.entries).tail

\* ... before it, ...
PageBefore(p) ==
    /\ p.entries # <<>> /\ Older(p) /\ cursor # None /\ cursor' # None
    /\ cursor'.epoch = cursor.epoch /\ cursor'.end = cursor.end /\ End' = End
    /\ cursor'.start = p.start
    /\ tail' = Prepended(Shown, p.entries).tail

\* ... or nowhere.
PageKept(p) ==
    /\ p.entries = <<>> \/ ~(Older(p) \/ Newer(p))
    /\ UNCHANGED <<cursor, tail, head>>

\* One of these is where it goes.
LEMMA PageGoes ==
    ASSUME ViewInv, NEW p, FirstPage(p), IncrementalPath(p)
    PROVE  PageAfter(p) \/ PageBefore(p) \/ PageKept(p)
<1>1. /\ p.epoch \in Positive /\ p.start \in Nat /\ p.end \in Nat /\ Place(p) = <<p.epoch, p.end>>
      /\ p.entries # <<>> => p.end > 0 /\ p.end \in Positive
      /\ p.entries \in Seq(EntryShape)
  BY PageOrder DEF FirstPage, Positive
<1>2. OnceTypes /\ Shapes
  BY OnceShapes DEF ViewInv, SyncInv
<1>3. PICK w : w = Shown
  OBVIOUS
<1>4. w \in Views
  BY <1>3 DEF ViewInv, ViewText
<1>5. CASE /\ p.entries # <<>> /\ Newer(p)
           /\ cursor' = [epoch |-> p.epoch,
                         start |-> IF cursor = None THEN p.start ELSE cursor.start, end |-> p.end]
           /\ Show(Extended(Shown, p.entries))
  <2>1. PICK start \in Nat : start = IF cursor = None THEN p.start ELSE cursor.start
    BY <1>1, <1>2 DEF OnceTypes
  <2>2. cursor' = [epoch |-> p.epoch, start |-> start, end |-> p.end]
    BY <1>5, <2>1
  <2>3. /\ cursor' # None /\ cursor'.epoch = p.epoch /\ cursor'.start = start
        /\ cursor'.end = p.end /\ End' = <<p.epoch, p.end>>
    BY <1>1, <1>5, <2>1, <2>2, CursorBecomes
  <2>4. PICK v : v = Extended(w, p.entries)
    OBVIOUS
  <2>5. v \in Views
    BY <1>1, <1>4, <2>4, ExtendedOK
  <2>6. tail' = v.tail
    BY <1>3, <1>5, <2>4, <2>5, ShowOK
  <2>7. PageAfter(p)
    BY <1>1, <1>3, <1>5, <2>1, <2>3, <2>4, <2>6 DEF PageAfter
  <2>8. QED
    BY <2>7
<1>6. CASE /\ p.entries # <<>> /\ Older(p)
           /\ cursor' = [cursor EXCEPT !.start = p.start]
           /\ Show(Prepended(Shown, p.entries))
  <2>1. cursor # None
    BY <1>6 DEF Older, InEpoch
  <2>2. cursor \in Cursors
    BY <1>2, <2>1, EndPlace
  <2>3. cursor' = [epoch |-> cursor.epoch, start |-> p.start, end |-> cursor.end]
    BY <1>6, <2>2 DEF Cursors
  <2>4. PICK e, end : e = cursor.epoch /\ end = cursor.end /\ e \in Positive /\ end \in Positive
    BY <2>2 DEF Cursors
  <2>5. /\ cursor' # None /\ cursor'.epoch = e /\ cursor'.start = p.start
        /\ cursor'.end = end /\ End' = <<e, end>>
    BY <1>1, <2>3, <2>4, CursorBecomes
  <2>6. End' = End
    BY <2>4, <2>5 DEF End
  <2>7. PICK v : v = Prepended(w, p.entries)
    OBVIOUS
  <2>8. v \in Views
    BY <1>1, <1>4, <1>6, <2>7, PrependedOK
  <2>9. tail' = v.tail
    BY <1>3, <1>6, <2>7, <2>8, ShowOK
  <2>10. PageBefore(p)
    BY <1>3, <1>6, <2>1, <2>4, <2>5, <2>6, <2>7, <2>9 DEF PageBefore
  <2>11. QED
    BY <2>10
<1>7. CASE (p.entries = <<>> \/ ~(Older(p) \/ Newer(p))) /\ UNCHANGED <<cursor, view>>
  BY <1>7 DEF PageKept, view
<1>8. QED
  BY <1>5, <1>6, <1>7 DEF IncrementalPath

\* The messages of a page that goes after the view come after its messages, ...
LEMMA AfterOrder ==
    ASSUME ViewInv, OnceInv, Fine, NEW p, FirstPage(p), ~Replaces(p), PageAfter(p)
    PROVE  InOrder(tail', cursor'.epoch, cursor'.start, cursor'.end)
<1>1. PICK w, f, l : w = Shown /\ f = epoch /\ l = log
  OBVIOUS
<1>2. w \in Views /\ w.tail = tail
  BY <1>1 DEF ViewInv, ViewText, Shown
<1>3. PageText(p, f, l) /\ p.start > 0 /\ p.start \in Nat /\ p.end \in Nat
  BY <1>1 DEF FirstPage, PageAfter
<1>4. tail' = Extended(w, p.entries).tail /\ cursor'.epoch = p.epoch /\ cursor'.end = p.end
  BY <1>1 DEF PageAfter
<1>5. CASE cursor = None
  <2>1. \A i \in Nat : ~Message(w.tail, i)
    BY <1>2, <1>5 DEF OnceInv, OnceText
  <2>2. PICK hi \in Nat : p.start = hi + 1
    <3>1. p.start - 1 \in Nat /\ p.start = (p.start - 1) + 1
      BY <1>3
    <3>2. QED
      BY <3>1
  <2>3. PICK lo \in Nat : lo = p.start
    BY <1>3
  <2>4. InOrder(w.tail, p.epoch, lo, hi)
    BY <2>1, NoneInOrder
  <2>5. hi < p.start /\ lo <= p.start
    BY <2>2, <2>3
  <2>6. InOrder(Extended(w, p.entries).tail, p.epoch, lo, p.end)
    BY <1>2, <1>3, <2>4, <2>5, ExtendedOrder
  <2>7. cursor'.start = lo
    BY <1>5, <2>3 DEF PageAfter
  <2>8. QED
    BY <1>4, <2>6, <2>7
<1>6. CASE cursor # None
  <2>1. p.start = cursor.end + 1 /\ p.epoch = cursor.epoch
    BY <1>6, NewerNext DEF PageAfter
  <2>2. PICK lo, hi : lo = cursor.start /\ hi = cursor.end
    OBVIOUS
  <2>3. lo \in Nat /\ hi \in Nat /\ lo <= hi
    BY <1>6, <2>2, OnceShapes DEF OnceTypes
  <2>4. InOrder(w.tail, p.epoch, lo, hi)
    BY <1>2, <1>6, <2>1, <2>2 DEF OnceInv, OnceText
  <2>5. hi < p.start /\ lo <= p.start
    BY <2>1, <2>2, <2>3
  <2>6. InOrder(Extended(w, p.entries).tail, p.epoch, lo, p.end)
    BY <1>2, <1>3, <2>3, <2>4, <2>5, ExtendedOrder
  <2>7. cursor'.start = lo
    BY <1>6, <2>2 DEF PageAfter
  <2>8. QED
    BY <1>4, <2>6, <2>7
<1>7. QED
  BY <1>5, <1>6

\* ... and those of a page that goes before it before them.
LEMMA BeforeOrder ==
    ASSUME ViewInv, OnceInv, Fine, NEW p, FirstPage(p), PageBefore(p)
    PROVE  InOrder(tail', cursor'.epoch, cursor'.start, cursor'.end)
<1>1. PICK w, f, l : w = Shown /\ f = epoch /\ l = log
  OBVIOUS
<1>2. w \in Views /\ w.tail = tail
  BY <1>1 DEF ViewInv, ViewText, Shown
<1>3. PageText(p, f, l) /\ p.start > 0 /\ p.start \in Nat /\ p.end \in Nat /\ p.entries # <<>>
  BY <1>1 DEF FirstPage, PageBefore
<1>4. /\ tail' = Prepended(w, p.entries).tail /\ cursor # None /\ cursor'.epoch = cursor.epoch
      /\ cursor'.end = cursor.end /\ cursor'.start = p.start
      /\ p.epoch = cursor.epoch /\ p.end < cursor.start
  BY <1>1 DEF PageBefore, Older, InEpoch
<1>5. PICK lo, hi : lo = cursor.start /\ hi = cursor.end
  OBVIOUS
<1>6. lo \in Nat /\ hi \in Nat /\ lo <= hi
  BY <1>4, <1>5, OnceShapes DEF OnceTypes
<1>7. InOrder(w.tail, p.epoch, lo, hi)
  BY <1>2, <1>4, <1>5 DEF OnceInv, OnceText
<1>8. InOrder(Prepended(w, p.entries).tail, p.epoch, p.start, hi)
  BY <1>2, <1>3, <1>4, <1>5, <1>6, <1>7, PrependedOrder
<1>9. QED
  BY <1>4, <1>5, <1>8

\* The places the app asks from when a page has arrived that does not replace the
\* view.
LEMMA PlacesAsked ==
    ASSUME NEW p, ~Replaces(p), NEW r \in CatchUps(PlacesLeft(p))
    PROVE  /\ r.why = "catchup" /\ r.dir = "after" /\ r = Ask("catchup", "after", r.at)
           /\ \/ r.at = End /\ Ahead(p)
              \/ r.at = <<p.epoch, p.end>> /\ p.to.dir = "after" /\ p.hasNewer /\ p.end > 0
<1>1. PICK at \in PlacesLeft(p) : r = Ask("catchup", "after", at)
  BY DEF CatchUps
<1>2. r.why = "catchup" /\ r.dir = "after" /\ r.at = at
  BY <1>1 DEF Ask
<1>3. \/ at = End /\ Ahead(p)
      \/ at = <<p.epoch, p.end>> /\ p.to.dir = "after" /\ p.hasNewer /\ p.end > 0
  BY DEF PlacesLeft, PlacesBehind, Complete
<1>4. QED
  BY <1>1, <1>2, <1>3

\* A page that goes after the view brings the app up to date, unless there are
\* newer rows: it asks for these.
LEMMA AfterLive ==
    ASSUME ViewInv, ViewInv', OnceInv, Arrives, NEW p, FirstPage(p), ~Replaces(p), PageStep(p),
           PageAfter(p)
    PROVE  LiveOrLagging'
<1> SUFFICES ASSUME Fine'
             PROVE  Live(toApp', 0, End', epoch', Len(log')) \/ Lagging'
  BY DEF LiveOrLagging
<1>1. Fine
  BY DEF Arrives, Fine
<1>2. /\ p = Head(toApp) /\ p.type = "page" /\ p.end > 0 /\ PageRange(p) /\ ~p.reset
      /\ p.to.dir \in {"tail", "after"} /\ p.end \in Nat
      /\ cursor' # None /\ End' = Place(p) /\ Place(p) = <<p.epoch, p.end>>
      /\ cursor'.epoch = p.epoch /\ cursor'.end = p.end
  BY DEF FirstPage, PageAfter, Newer, Replaces
<1>3. CASE p.to.dir = "tail" \/ ~p.hasNewer
  <2>1. Anchor(p)
    BY <1>2, <1>3 DEF Anchor, IsTail
  <2>2. QED
    BY <1>2, <2>1, AnchorReceives
<1>4. CASE p.to.dir = "after" /\ p.hasNewer
  <2>1. cursor # None
    BY <1>2, <1>4, NothingAfter
  <2>2. /\ Lagging /\ p.to.at[2] = cursor.end /\ p.start = cursor.end + 1
        /\ p.epoch = cursor.epoch
    BY <1>1, <2>1, NewerNext DEF PageAfter
  <2>3. p.end = cursor.end + PageSize
    BY <1>2, <1>4, <2>2 DEF PageRange
  <2>4. cursor.end \in Nat /\ p.start <= cursor.end + 1
    BY <2>1, <2>2, OnceShapes DEF OnceTypes
  <2>5. ~Ahead(p)
    BY <2>2, <2>4 DEF Ahead
  <2>6. \A r \in requests' : r \in requests \/ r = Ask("catchup", "after", End')
    <3>1. ASSUME NEW r \in CatchUps(PlacesLeft(p))
          PROVE  r = Ask("catchup", "after", End')
      <4>1. r = Ask("catchup", "after", r.at) /\ r.at = <<p.epoch, p.end>>
        BY <2>5, PlacesAsked
      <4>2. QED
        BY <1>2, <4>1
    <3>2. QED
      BY <3>1 DEF PageStep
  <2>7. init' = init
    <3>1. ~Resolves(p)
      BY <1>2, <1>4 DEF Resolves, Complete
    <3>2. QED
      BY <3>1 DEF PageStep
  <2>8. Lagging'
    BY <1>2, <2>1, <2>2, <2>3, <2>6, <2>7, LaggingMoves
  <2>9. QED
    BY <2>8
<1>5. QED
  BY <1>2, <1>3, <1>4

\* A page that does not move the end of the cursor leaves an app that lags behind
\* with requests that go on from the cursor.
LEMMA KeptGoes ==
    ASSUME ViewInv, OnceInv, Lagging, cursor # None, NEW p, FirstPage(p), ~Replaces(p),
           p.entries = <<>> \/ ~Newer(p), NEW r \in CatchUps(PlacesLeft(p))
    PROVE  Goes(r)
<1>1. r = Ask("catchup", "after", r.at) /\ r.why = "catchup" /\ r.dir = "after"
  BY PlacesAsked
<1>2. CASE r.at = End
  BY <1>1, <1>2, EndGoes
<1>3. CASE r.at = <<p.epoch, p.end>> /\ p.to.dir = "after" /\ p.hasNewer /\ p.end > 0
  <2>1. /\ ~p.reset /\ PageRange(p) /\ IsAsked(p.to) /\ p.to.at # None /\ p.to.at[2] \in Nat
        /\ p.end \in Nat /\ p.start \in Nat /\ p.entries # <<>>
    BY <1>3 DEF FirstPage, Replaces, IsTail
  <2>2. p.epoch = p.to.at[1] /\ p.start = p.to.at[2] + 1 /\ p.end = p.to.at[2] + PageSize
    BY <1>3, <2>1 DEF PageRange
  <2>3. cursor.end \in Nat
    BY OnceShapes DEF OnceTypes
  <2>4. ASSUME p.epoch = cursor.epoch
        PROVE  p.end <= cursor.end /\ Multiple(cursor.end - p.end)
    <3>1. p.to.at[2] <= cursor.end /\ Multiple(cursor.end - p.to.at[2])
      <4>1. Aligned(p.to)
        BY <2>1 DEF Lagging
      <4>2. QED
        BY <1>3, <2>2, <2>4, <4>1 DEF Aligned
    <3>a. PICK from \in Nat, end \in Nat, last \in Nat, first \in Nat, size \in Nat :
                 /\ from = p.to.at[2] /\ end = cursor.end /\ last = p.end /\ first = p.start
                 /\ size = PageSize
      BY <2>1, <2>3, PageAssumption
    <3>b. first = from + 1 /\ last = from + size /\ from <= end
      BY <2>2, <3>1, <3>a
    <3>2. p.start <= cursor.end + 1
      <4>1. first <= end + 1
        BY <3>b
      <4>2. QED
        BY <4>1, <3>a
    <3>3. ~(p.end > cursor.end)
      BY <1>3, <2>1, <2>4, <3>2 DEF Newer, InEpoch
    <3>4. PICK x \in Nat : x = cursor.end - p.to.at[2]
      BY <2>1, <2>3, <3>1
    <3>5. PICK s \in Nat : s = PageSize /\ s > 0
      BY PageAssumption
    <3>c. x = end - from /\ size > 0 /\ last <= end
      <4>1. ~(last > end)
        BY <3>3, <3>a
      <4>2. QED
        BY <4>1, <3>4, <3>5, <3>a
    <3>6. x > 0
      BY <3>b, <3>c
    <3>7. x - PageSize \in Nat /\ Multiple(x - PageSize)
      BY <3>1, <3>4, <3>6, Multiples
    <3>8. cursor.end - p.end = x - PageSize
      <4>1. end - last = x - size
        BY <3>b, <3>c
      <4>2. QED
        BY <4>1, <3>a
    <3>9. QED
      BY <2>1, <2>3, <3>3, <3>7, <3>8
  <2>5. r.at[1] = p.epoch /\ r.at[2] = p.end
    BY <1>3
  <2>6. Aligned(r)
    BY <2>4, <2>5 DEF Aligned
  <2>7. QED
    BY <1>1, <2>6 DEF Goes, Foreign
<1>4. QED
  BY <1>2, <1>3, PlacesAsked

\* So the app stays up to date, or goes on to lag behind.
LEMMA KeptLagging ==
    ASSUME ViewInv, ViewInv', OnceInv, Arrives, NEW p, FirstPage(p), ~Replaces(p), PageStep(p),
           p.entries = <<>> \/ ~Newer(p), cursor # None, cursor' # None, End' = End
    PROVE  LiveOrLagging'
<1>1. \A n : ~Says(Head(toApp), End[1], n)
  BY DEF FirstPage, Says
<1>2. ASSUME Lagging
      PROVE  /\ \A r \in requests' : r \in requests \/ Goes(r)
             /\ init' = init \/ \A q : IsAsked(q) => ~(q.why = "init" /\ q.dir = "tail")
  <2>1. \A r \in requests' : r \in requests \/ Goes(r)
    BY <1>2, KeptGoes DEF PageStep
  <2>2. ASSUME init' # init, NEW q, IsAsked(q), q.why = "init", q.dir = "tail"
        PROVE  FALSE
    <3>1. Resolves(p)
      BY <2>2 DEF PageStep
    <3>2. init # None /\ p.to.dir = init
      BY <3>1 DEF Resolves, Replaces
    <3>3. init = "tail"
      BY <1>2, <2>2 DEF Lagging, TailAwaited
    <3>4. QED
      BY <3>2, <3>3 DEF Replaces
  <2>3. QED
    BY <2>1, <2>2
<1>3. QED
  BY <1>1, <1>2, StaysLagging

\* Whatever page arrives keeps the invariant.
LEMMA PageArrivesOnce ==
    ASSUME ViewInv, ViewInv', OnceInv, PageArrives
    PROVE  OnceInv'
<1>1. PICK p : p = Head(toApp)
  OBVIOUS
<1>2. Arrives /\ p.type = "page" /\ PageStep(p)
  BY <1>1, PageSteps
<1>3. FirstPage(p)
  BY <1>1, <1>2, FirstPageOK DEF Arrives
<1>4. SyncInv /\ MessageOK(p) /\ (Forward(p) => InLog(Place(p)))
      /\ (cursor # None /\ Forward(p) => Precedes(End, p)) /\ UNCHANGED <<epoch, log>>
  BY <1>1, <1>2, FirstMessage DEF ViewInv, Arrives
<1>5. applied => applied'
  BY <1>2 DEF PageStep
<1>6. OnceTypes /\ OnceTypes'
  BY OnceShapes, NextShapes
<1>7. CASE Replaces(p)
  <2>1. ReplacePath(p)
    BY <1>2, <1>7 DEF PageStep
  <2>2. /\ cursor' = None => p.end = 0
        /\ cursor' # None => p.end > 0 /\ End' = Place(p) /\ cursor'.epoch = p.epoch
        /\ LiveOrLagging' /\ OnceText'
    BY <1>2, <1>3, <1>7, <2>1, ReplacesOnce
  <2>3. TailPaged(p) /\ Forward(p) /\ Place(p)[2] = p.end
    BY <1>2, <1>7 DEF TailPaged, IsTail, Replaces, Forward, Place
  <2>4. CursorGoes(p)
    BY <1>2, <2>2, <2>3 DEF CursorGoes
  <2>5. ASSUME NEW r \in CatchUps(PlacesLeft(p))
        PROVE  r.why # "init" /\ cursor' # None /\ r.at[1] <= cursor'.epoch
    <3>1. PICK at \in PlacesLeft(p) : r = Ask("catchup", "after", at)
      BY DEF CatchUps
    <3>2. r.why = "catchup" /\ r.at = at
      BY <3>1 DEF Ask
    <3>3. at = <<p.epoch, p.end>> /\ p.end # 0
      <4>1. p.end > 0 => p.end # 0
        OBVIOUS
      <4>2. QED
        BY <1>7, <4>1 DEF PlacesLeft, PlacesBehind
    <3>4. cursor' # None /\ cursor'.epoch = p.epoch
      BY <2>2, <3>3
    <3>5. QED
      BY <1>3, <3>2, <3>3, <3>4 DEF FirstPage
  <2>6. AllLive' /\ AskedBehind' /\ InitAfter' /\ Quiet' /\ Down' /\ Fuller'
    BY <1>1, <1>2, <1>5, <2>2, <2>3, <2>4, <2>5, ReceivedOnce DEF PageStep
  <2>7. QED
    BY <2>2, <2>6 DEF OnceInv
<1>8. CASE ~Replaces(p)
  <2>1. IncrementalPath(p)
    BY <1>2, <1>8 DEF PageStep
  <2>2. PageAfter(p) \/ PageBefore(p) \/ PageKept(p)
    BY <1>3, <2>1, PageGoes
  <2>3. CursorGoes(p)
    BY <1>2, <1>4, <2>1, IncrementalPathOK
  <2>4. cursor # None => cursor' # None
    BY <2>2 DEF PageAfter, PageBefore, PageKept
  <2>5. cursor # None => cursor.epoch <= cursor'.epoch
    <3> HAVE cursor # None
    <3>1. CASE PageAfter(p)
      <4>1. PICK e \in Nat : e = cursor.epoch
        BY <1>6 DEF OnceTypes
      <4>2. p.epoch = e /\ cursor'.epoch = p.epoch
        BY <3>1, <4>1 DEF PageAfter, Newer, InEpoch
      <4>3. QED
        BY <4>1, <4>2
    <3>2. CASE PageBefore(p) \/ PageKept(p)
      BY <1>6, <3>2 DEF PageBefore, PageKept, OnceTypes
    <3>3. QED
      BY <2>2, <3>1, <3>2
  <2>6. ASSUME NEW r \in CatchUps(PlacesLeft(p))
        PROVE  r.why # "init" /\ cursor' # None /\ r.at[1] <= cursor'.epoch
    <3>1. /\ r.why = "catchup"
          /\ \/ r.at = End /\ Ahead(p)
             \/ r.at = <<p.epoch, p.end>> /\ p.to.dir = "after" /\ p.hasNewer /\ p.end > 0
      BY <1>8, PlacesAsked
    <3>2. cursor # None /\ r.at[1] <= cursor.epoch /\ r.at[1] \in Nat
      <4>1. CASE r.at = End /\ Ahead(p)
        BY <1>6, <4>1 DEF Ahead, InEpoch, OnceTypes
      <4>2. CASE r.at = <<p.epoch, p.end>> /\ p.to.dir = "after" /\ p.hasNewer /\ p.end > 0
        <5>1. cursor # None /\ p.epoch <= cursor.epoch
          BY <1>3, <1>8, <4>2, NothingAfter DEF Replaces
        <5>2. QED
          BY <1>3, <4>2, <5>1 DEF FirstPage
      <4>3. QED
        BY <3>1, <4>1, <4>2
    <3>3. cursor' # None /\ cursor.epoch <= cursor'.epoch /\ cursor.epoch \in Nat /\ cursor'.epoch \in Nat
      BY <1>6, <2>4, <2>5, <3>2 DEF OnceTypes
    <3>4. QED
      BY <3>1, <3>2, <3>3
  <2>7. AllLive' /\ AskedBehind' /\ InitAfter' /\ Quiet' /\ Down' /\ Fuller'
    BY <1>1, <1>2, <1>5, <2>3, <2>4, <2>6, ReceivedOnce DEF PageStep
  <2>8. Fine' => Fine
    BY <1>2 DEF Arrives, Fine
  <2>9. CASE PageAfter(p)
    <3>1. OnceText'
      BY <1>3, <1>8, <2>8, <2>9, AfterOrder DEF OnceText, PageAfter
    <3>2. LiveOrLagging'
      BY <1>2, <1>3, <1>8, <2>9, AfterLive
    <3>3. QED
      BY <2>7, <3>1, <3>2 DEF OnceInv
  <2>10. CASE PageBefore(p)
    <3>1. OnceText'
      BY <1>3, <2>8, <2>10, BeforeOrder DEF OnceText, PageBefore
    <3>2. ~Newer(p) /\ cursor # None /\ cursor' # None /\ End' = End
      BY <2>10 DEF PageBefore, Older, Newer
    <3>3. LiveOrLagging'
      BY <1>2, <1>3, <1>8, <3>2, KeptLagging
    <3>4. QED
      BY <2>7, <3>1, <3>3 DEF OnceInv
  <2>11. CASE PageKept(p)
    <3>1. OnceText'
      BY <2>8, <2>11 DEF OnceInv, OnceText, PageKept
    <3>2. CASE cursor = None
      BY <2>7, <2>11, <3>1, <3>2 DEF OnceInv, LiveOrLagging, PageKept
    <3>3. CASE cursor # None
      <4>1. cursor' # None /\ End' = End /\ (p.entries = <<>> \/ ~Newer(p))
        BY <2>11, <3>3 DEF PageKept, End
      <4>2. LiveOrLagging'
        BY <1>2, <1>3, <1>8, <3>3, <4>1, KeptLagging
      <4>3. QED
        BY <2>7, <3>1, <4>2 DEF OnceInv
    <3>4. QED
      BY <3>2, <3>3
  <2>12. QED
    BY <2>2, <2>9, <2>10, <2>11
<1>9. QED
  BY <1>7, <1>8

-----------------------------------------------------------------------------
(* The order of the messages, in every state *)

\* It holds at first, ...
LEMMA OnceInit ==
    ASSUME Init
    PROVE  OnceInv
<1>1. /\ unread = <<>> /\ up = TRUE /\ requests = {} /\ toApp = <<>> /\ cursor = None /\ tail = <<>>
  BY DEF Init
<1>2. Len(toApp) = 0 /\ 1..Len(toApp) = {}
  BY <1>1
<1>3. \A r : ~IsAsked(r)
  BY <1>1, <1>2 DEF IsAsked
<1>4. \A i \in Nat : ~Message(tail, i)
  BY <1>1 DEF Message
<1>5. AllLive /\ AskedBehind /\ InitAfter /\ Fuller
  BY <1>2, <1>3 DEF AllLive, AskedBehind, InitAfter, Fuller
<1>6. Quiet /\ Down /\ LiveOrLagging /\ OnceText
  BY <1>1, <1>4 DEF Quiet, Down, LiveOrLagging, OnceText
<1>7. QED
  BY <1>5, <1>6 DEF OnceInv

\* ... and every step keeps it.
LEMMA OnceNext ==
    ASSUME ViewInv, ViewInv', OnceInv, [Next]_vars
    PROVE  OnceInv'
<1>1. ASSUME NEW kind \in Kinds, Commit(kind) PROVE OnceInv'
  BY <1>1, CommitOnce
<1>2. CASE TurnEnds
  BY <1>2, TurnEndsOnce
<1>3. ASSUME NEW n \in 0..Len(log), Rewind(n) PROVE OnceInv'
  BY <1>3, RewindOnce
<1>4. CASE Reload
  BY <1>4, ReloadOnce
<1>5. CASE Resume
  BY <1>5, ResumeOnce
<1>6. CASE LoadOlder
  BY <1>6, LoadOlderOnce
<1>7. ASSUME NEW r \in Awaited, TimesOut(r) PROVE OnceInv'
  BY <1>7, TimesOutOnce
<1>8. CASE Disconnect
  BY <1>8, DisconnectOnce
<1>9. CASE Hydrate
  BY <1>9, HydrateOnce
<1>10. ASSUME NEW r \in requests, Serve(r) PROVE OnceInv'
  BY <1>10, ServeOnce
<1>11. CASE Receive
  BY <1>11, RowArrivesOnce, EndArrivesOnce, RedoneArrivesOnce, PageArrivesOnce DEF Receive
<1>12. CASE Connect
  BY <1>12, ConnectOnce
<1>13. CASE Open
  BY <1>13, OpenOnce
<1>14. CASE UNCHANGED vars
  <2>1. /\ UNCHANGED <<epoch, log, unread, toApp, cursor, tail, head, applied, mishaps>>
        /\ requests' = requests /\ init' = init /\ up' = up
    BY <1>14 DEF vars, daemon, app, view, asking, bounds
  <2>2. up \in BOOLEAN
    BY DEF ViewInv, Flags
  <2>3. up' \/ (requests' = {} /\ toApp = <<>>)
    BY <2>1, <2>2 DEF OnceInv, Down
  <2>4. QED
    BY <2>1, <2>3, AskedOnce
<1>15. QED
  BY <1>1, <1>2, <1>3, <1>4, <1>5, <1>6, <1>7, <1>8, <1>9, <1>10, <1>11, <1>12, <1>13, <1>14
     DEF Next, Proceed

\* The messages of the display are those of the tail, and these are of the rows
\* of the cursor, in their order.
LEMMA ViewRepeatsNone ==
    ASSUME ViewInv, OnceInv
    PROVE  MessagesOnce
<1>1. PICK shown : shown = tail \o head
  OBVIOUS
<1>2. tail \in Seq(Items) /\ head \in Seq(PlainItems)
  BY DEF ViewInv, ViewText, Views, Shown
<1>3. shown \in Seq(Items) /\ SameMessages(tail, shown)
  BY <1>1, <1>2, PlainAfter
<1>4. DOMAIN shown = 1..Len(shown) /\ Len(shown) \in Nat
  BY <1>3
<1>5. ASSUME NEW i \in DOMAIN shown, shown[i].kind = "message"
      PROVE  i \in Nat /\ Message(tail, i) /\ shown[i].text = tail[i].text
  BY <1>3, <1>4, <1>5 DEF SameMessages, Message
<1>6. ASSUME Fine
      PROVE  /\ \A i \in DOMAIN shown : shown[i].kind = "message" =>
                    cursor # None /\ shown[i].text[1][1] = cursor.epoch
             /\ \A i, j \in DOMAIN shown :
                    shown[i].kind = "message" /\ shown[j].kind = "message" /\ i < j =>
                        shown[i].text[1][2] < shown[j].text[1][2]
  <2>1. ASSUME NEW i \in DOMAIN shown, shown[i].kind = "message"
        PROVE  cursor # None /\ shown[i].text[1][1] = cursor.epoch
    <3>1. cursor # None
      BY <1>5, <1>6, <2>1 DEF OnceInv, OnceText
    <3>2. PICK n \in cursor.start..cursor.end : tail[i].text = << <<cursor.epoch, n>> >>
      BY <1>5, <1>6, <2>1, <3>1 DEF OnceInv, OnceText, InOrder
    <3>3. QED
      BY <1>5, <2>1, <3>1, <3>2
  <2>2. ASSUME NEW i \in DOMAIN shown, NEW j \in DOMAIN shown,
               shown[i].kind = "message", shown[j].kind = "message", i < j
        PROVE  shown[i].text[1][2] < shown[j].text[1][2]
    <3>1. cursor # None
      BY <2>1, <2>2
    <3>2. i \in Nat /\ j \in Nat /\ Message(tail, i) /\ Message(tail, j)
          /\ shown[i].text = tail[i].text /\ shown[j].text = tail[j].text
      BY <1>5, <2>2
    <3>3. tail[i].text[1][2] < tail[j].text[1][2]
      BY <1>6, <2>2, <3>1, <3>2 DEF OnceInv, OnceText, InOrder
    <3>4. QED
      BY <3>2, <3>3
  <2>3. QED
    BY <2>1, <2>2
<1>7. mishaps \cap {"mixed", "missed"} = {} => Fine
  BY DEF Fine
<1>8. QED
  BY <1>1, <1>6, <1>7 DEF MessagesOnce

\* No message of the timeline is displayed twice, or out of its order, and none of
\* an epoch other than the cursor's, however live rows, gaps, catch-up pages, older
\* pages, retries and page resets overlap, for every page size and every bound, as
\* long as no page was mixed into the view and no turn's end went by unheard.
THEOREM MessagesAreOnce == Spec => []MessagesOnce
<1>1. /\ Init => ViewInv
      /\ ViewInv /\ [Next]_vars => ViewInv'
  BY ViewInductive
<1>2. Init => OnceInv
  BY OnceInit
<1>3. ViewInv /\ ViewInv' /\ OnceInv /\ [Next]_vars => OnceInv'
  BY OnceNext
<1>4. ViewInv /\ OnceInv => MessagesOnce
  BY ViewRepeatsNone
<1>5. QED
  BY <1>1, <1>2, <1>3, <1>4, PTL DEF Spec
=============================================================================
