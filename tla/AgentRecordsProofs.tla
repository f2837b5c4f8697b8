------------------------- MODULE AgentRecordsProofs -------------------------
(***************************************************************************)
(* Proofs about AgentRecords, for every number of calls, of states of the  *)
(* agent, of failing writes and of restarts.                               *)
(***************************************************************************)
EXTENDS AgentRecords, FiniteSetTheorems, TLAPS

-----------------------------------------------------------------------------
(* The inductive invariant *)

Unlinking == \E c \in Callers : call[c].at = "unlinking"

\* A write that has begun is that of the first record of the chain, and no
\* write begins that is chained to one that has failed.
Chained == head # "queued" => queue # <<>> /\ ~broken

\* Before the agent is created there is nothing of it.
Pristine ==
    ver = 0 =>
        /\ ~live /\ cache = None /\ queue = <<>> /\ snaps = <<>> /\ ~gone
        /\ \A p \in Places : disk[p] = None
        /\ \A c \in Callers : call[c].at = "new"

\* A call has one snapshot that waits, and waits for it.
SnapsOwned ==
    /\ \A i \in DOMAIN snaps : \A c \in Callers :
         snaps[i].by = c /\ c # None => call[c].at \in {"snapping", "closing"}
    /\ \A i, j \in DOMAIN snaps : snaps[i].by = snaps[j].by /\ snaps[i].by # None => i = j

\* An agent is deleted while it is marked, and its files are removed when no
\* write is under way.
Marks(c) ==
    /\ call[c].kind = "delete" /\ Busy(c) => deleting
    /\ call[c].at \in {"removing", "unlinking"} => call[c].kind = "delete"
    /\ call[c].at = "removing" /\ call[c].ahead = 0 => head = "queued"
    /\ call[c].at = "unlinking" => head = "queued"

DeletesMark == \A c \in Callers : Marks(c)

\* The files known of are those there are.
Files == known = {p \in Places : disk[p] # None}

\* A restart would load what was written last.
Loadable ==
    ~Unlinking => written = IF disk["project"] # None THEN disk["project"] ELSE disk["root"]

\* The cache is only behind while a write is ending.
Served ==
    /\ head = "renamed" => written = Head(queue) /\ disk["project"] = written
    /\ head # "renamed" /\ ~Unlinking => cache = written

\* After a removal nothing is written: the agent is marked, or nothing of it is left.
GoneForGood ==
    gone =>
        /\ cache = None /\ written = None /\ head = "queued" /\ \A p \in Places : disk[p] = None
        /\ \/ deleting
           \/ /\ ~live /\ queue = <<>> /\ snaps = <<>>
              /\ \A c \in Callers : call[c].at \in {"new", "done"}

\* While an archive lasts every record there is, or is to be, is archived.
AllArchived ==
    word = "archived" =>
        /\ ~deleting
        /\ cache # None /\ cache.archived /\ written # None /\ written.archived
        /\ \A i \in DOMAIN queue : queue[i].archived

Inv ==
    /\ TypeOK /\ Chained /\ Pristine /\ SnapsOwned /\ DeletesMark /\ Files /\ Loadable
    /\ Served /\ GoneForGood /\ AllArchived

-----------------------------------------------------------------------------
(* Lemmas about sequences and helpers *)

Ats == {"new", "waiting", "titling", "snapping", "snapped", "archiving", "archived",
        "leaving", "closing", "closed", "storing", "unarchiving", "removing",
        "unlinking", "done"}

\* Snapshots that nobody awaits are added at the end.
LEMMA SnapsAdded ==
    ASSUME NEW s \in Seq(Snapshot), NEW e \in Seq(Snapshot),
           \A i \in DOMAIN e : e[i].by = None
    PROVE  /\ s \o e \in Seq(Snapshot)
           /\ \A i \in DOMAIN (s \o e) : \/ (s \o e)[i].by = None
                                         \/ i \in DOMAIN s /\ (s \o e)[i] = s[i]
<1>1. s \o e \in Seq(Snapshot)
  OBVIOUS
<1>2. /\ Len(s) \in Nat /\ Len(e) \in Nat /\ DOMAIN s = 1..Len(s) /\ DOMAIN e = 1..Len(e)
      /\ DOMAIN (s \o e) = 1..(Len(s) + Len(e))
  OBVIOUS
<1>3. ASSUME NEW i \in 1..(Len(s) + Len(e))
      PROVE  \/ (s \o e)[i].by = None
             \/ i \in 1..Len(s) /\ (s \o e)[i] = s[i]
  <2>1. CASE i <= Len(s)
    BY <1>2, <2>1
  <2>2. CASE i > Len(s)
    <3>1. i - Len(s) \in 1..Len(e) /\ (s \o e)[i] = e[i - Len(s)]
      BY <1>2, <2>2
    <3>2. QED
      BY <1>2, <3>1
  <2>3. QED
    BY <1>2, <2>1, <2>2
<1>4. QED
  BY <1>1, <1>2, <1>3

\* What emitState adds is awaited by nobody.
LEMMA EmittedDoes ==
    ASSUME queue \in Seq(Record), NEW own \in BOOLEAN, NEW v \in Nat
    PROVE  Emitted(own, v) \in Seq(Snapshot) /\ \A i \in DOMAIN Emitted(own, v) : Emitted(own, v)[i].by = None
<1>1. PICK a, b : /\ a = [ahead |-> Len(queue), by |-> None, ver |-> None]
                  /\ b = [ahead |-> Len(queue), by |-> None, ver |-> v]
  OBVIOUS
<1>2. Len(queue) \in Nat
  OBVIOUS
<1>3. a \in Snapshot /\ a.by = None /\ b \in Snapshot /\ b.by = None
  BY <1>1, <1>2 DEF Snapshot
<1>4. PICK x, y : x = (IF own THEN <<a>> ELSE <<>>) /\ y = <<b>>
  OBVIOUS
<1>5. Emitted(own, v) = x \o y
  BY <1>1, <1>4 DEF Emitted
<1>6. /\ x \in Seq(Snapshot) /\ \A i \in DOMAIN x : x[i].by = None
      /\ y \in Seq(Snapshot) /\ \A i \in DOMAIN y : y[i].by = None
  BY <1>3, <1>4
<1>7. QED
  BY <1>5, <1>6, SnapsAdded

\* A call goes on.
LEMMA AwaitsDoes ==
    ASSUME TypeOK, NEW c \in Callers, NEW at \in Ats, NEW n \in Nat, Awaits(c, at, n)
    PROVE  /\ call' \in [Callers -> Call]
           /\ call'[c].at = at /\ call'[c].kind = call[c].kind /\ call'[c].ahead = n
           /\ \A d \in Callers \ {c} : call'[d] = call[d]
<1> DEFINE w == [call[c] EXCEPT !.at = at, !.ahead = n, !.failed = FALSE]
<1>1. call[c] \in Call /\ call \in [Callers -> Call]
  BY DEF TypeOK
<1>2. w \in Call /\ w.at = at /\ w.kind = call[c].kind /\ w.ahead = n
  BY <1>1 DEF Call, Ats
<1>3. call' = [call EXCEPT ![c] = w]
  BY DEF Awaits
<1>4. QED
  BY <1>1, <1>2, <1>3

\* A call is made.
LEMMA StartsDoes ==
    ASSUME TypeOK, NEW c \in Callers, NEW kind \in Kinds, NEW at \in Ats, NEW n \in Nat,
           Starts(c, kind, at, n)
    PROVE  /\ call' \in [Callers -> Call] /\ call[c].at = "new"
           /\ call'[c].at = at /\ call'[c].kind = kind /\ call'[c].ahead = n
           /\ \A d \in Callers \ {c} : call'[d] = call[d]
<1> DEFINE w == [NewCall EXCEPT !.at = at, !.kind = kind, !.ahead = n]
<1>1. call \in [Callers -> Call] /\ call[c].at = "new"
  BY DEF TypeOK, Starts
<1>2. w \in Call /\ w.at = at /\ w.kind = kind /\ w.ahead = n
  BY DEF Call, NewCall, Ats
<1>3. call' = [call EXCEPT ![c] = w]
  BY DEF Starts
<1>4. QED
  BY <1>1, <1>2, <1>3

\* The state of the agent that is persisted is one it has had.
LEMMA ObjectVerNat == ASSUME TypeOK, ver # 0 PROVE ObjectVer \in Nat
  BY DEF ObjectVer, TypeOK

\* The agent changes, if it is loaded.
LEMMA NotifiedDoes ==
    ASSUME TypeOK, ver # 0, Notified
    PROVE  /\ ver' \in Nat /\ ver' # 0 /\ snaps' \in Seq(Snapshot)
           /\ \A i \in DOMAIN snaps' : snaps'[i].by = None \/ (i \in DOMAIN snaps /\ snaps'[i] = snaps[i])
<1>1. CASE live
  <2>1. /\ queue \in Seq(Record) /\ snaps \in Seq(Snapshot) /\ ver + 1 \in Nat /\ ver + 1 # 0
        /\ ver' = ver + 1 /\ snaps' = snaps \o Emitted(TRUE, ver + 1)
    <3>1. ver' = ver + 1 /\ snaps' = snaps \o Emitted(TRUE, ver + 1)
      BY <1>1 DEF Notified
    <3>2. ver \in Nat /\ queue \in Seq(Record) /\ snaps \in Seq(Snapshot)
      BY DEF TypeOK
    <3>3. QED
      BY <3>1, <3>2
  <2>2. /\ Emitted(TRUE, ver + 1) \in Seq(Snapshot)
        /\ \A i \in DOMAIN Emitted(TRUE, ver + 1) : Emitted(TRUE, ver + 1)[i].by = None
    BY <2>1, EmittedDoes
  <2>3. QED
    BY <2>1, <2>2, SnapsAdded
<1>2. CASE ~live
  BY <1>2 DEF TypeOK, Notified
<1>3. QED
  BY <1>1, <1>2

\* The snapshots keep their calls when a call that has none goes on.
LEMMA SnapsKept ==
    ASSUME Inv, NEW c \in Callers, call[c].at \notin {"snapping", "closing"},
           \A d \in Callers \ {c} : call'[d] = call[d],
           \A i \in DOMAIN snaps' : snaps'[i].by = None \/ (i \in DOMAIN snaps /\ snaps'[i] = snaps[i])
    PROVE  SnapsOwned'
<1>1. \A i \in DOMAIN snaps : snaps[i].by = c => c = None
  BY DEF Inv, SnapsOwned
<1>2. QED
  BY <1>1 DEF Inv, SnapsOwned

\* A call that has no snapshot asks for one.
LEMMA SnapAppended ==
    ASSUME Inv, NEW c \in Callers, call[c].at \notin {"snapping", "closing"},
           \A d \in Callers \ {c} : call'[d] = call[d],
           call'[c].at \in {"snapping", "closing"},
           NEW v \in Nat \cup {None},
           snaps' = Append(snaps, [ahead |-> Len(queue), by |-> c, ver |-> v])
    PROVE  snaps' \in Seq(Snapshot) /\ SnapsOwned'
<1>1. PICK e : e = [ahead |-> Len(queue), by |-> c, ver |-> v]
  OBVIOUS
<1>2. queue \in Seq(Record) /\ snaps \in Seq(Snapshot)
  BY DEF Inv, TypeOK
<1>3. Len(queue) \in Nat
  BY <1>2
<1>4. e \in Snapshot /\ e.by = c
  BY <1>1, <1>3 DEF Snapshot
<1>5. snaps' = Append(snaps, e)
  BY <1>1
<1>6. /\ snaps' \in Seq(Snapshot) /\ Len(snaps) \in Nat /\ DOMAIN snaps = 1..Len(snaps)
      /\ DOMAIN snaps' = 1..(Len(snaps) + 1)
      /\ \A i \in 1..Len(snaps) : snaps'[i] = snaps[i]
      /\ snaps'[Len(snaps) + 1] = e
  BY <1>2, <1>4, <1>5
<1>7. \A i \in DOMAIN snaps' : i \in DOMAIN snaps \/ (i = Len(snaps) + 1 /\ snaps'[i].by = c)
  BY <1>4, <1>6
<1>8. \A i \in DOMAIN snaps : snaps[i].by = c => c = None
  BY DEF Inv, SnapsOwned
<1>9. SnapsOwned'
  BY <1>6, <1>7, <1>8 DEF Inv, SnapsOwned
<1>10. QED
  BY <1>6, <1>9

\* A record is chained.
LEMMA EnqueueDoes ==
    ASSUME TypeOK, NEW rec \in Record, Enqueue(rec)
    PROVE  /\ queue' \in Seq(Record) /\ queue' # <<>> /\ Len(queue) + 1 \in Nat
           /\ Head(queue) = Head(queue') \/ queue = <<>>
           /\ \A i \in DOMAIN queue' : queue'[i] = rec \/ (i \in DOMAIN queue /\ queue'[i] = queue[i])
           /\ UNCHANGED <<head, broken>>
<1>1. queue \in Seq(Record) /\ queue' = Append(queue, rec) /\ UNCHANGED <<head, broken>>
  BY DEF TypeOK, Enqueue
<1>2. /\ Len(queue) \in Nat /\ DOMAIN queue = 1..Len(queue) /\ queue' \in Seq(Record)
      /\ Len(queue') = Len(queue) + 1 /\ DOMAIN queue' = 1..(Len(queue) + 1)
      /\ \A i \in 1..Len(queue) : queue'[i] = queue[i]
      /\ queue'[Len(queue) + 1] = rec
  BY <1>1
<1>3. \A i \in DOMAIN queue' : queue'[i] = rec \/ (i \in DOMAIN queue /\ queue'[i] = queue[i])
  BY <1>2
<1>4. queue' # <<>>
  BY <1>2
<1>5. Head(queue) = Head(queue') \/ queue = <<>>
  BY <1>1, <1>2
<1>6. QED
  BY <1>1, <1>2, <1>3, <1>4, <1>5

\* A step of calls that leaves the files, the cache and the write that is
\* under way alone.
LEMMA InvCalls ==
    ASSUME Inv, UNCHANGED <<disk, known, path, cache, head, broken, written, gone>>,
           TypeOK', SnapsOwned', AllArchived', ver' # 0,
           queue' = queue \/ (queue' # <<>> /\ (Head(queue) = Head(queue') \/ queue = <<>>)),
           deleting => deleting', deleting \/ ~gone,
           \A c \in Callers : call'[c] = call[c] \/ (call[c].at # "unlinking" /\ Marks(c)')
    PROVE  Inv'
<1> USE DEF Inv
<1>1. Chained'
  BY DEF Chained
<1>2. Pristine' /\ Files'
  BY DEF Pristine, Files
<1>3. DeletesMark'
  BY DEF DeletesMark, Marks, Busy
<1>4. Unlinking => Unlinking'
  BY DEF Unlinking
<1>5. Loadable' /\ Served'
  BY <1>4 DEF Loadable, Served, Chained
<1>6. GoneForGood'
  <2>1. gone' => deleting'
    OBVIOUS
  <2>2. QED
    BY <2>1 DEF GoneForGood
<1>7. QED
  BY <1>1, <1>2, <1>3, <1>5, <1>6

-----------------------------------------------------------------------------
(* Lemmas about the steps *)

\* The initial state satisfies the invariant.
LEMMA InvInit == Init => Inv
<1> SUFFICES ASSUME Init PROVE Inv
  OBVIOUS
<1> DEFINE rec == [ver |-> 1, archived |-> FALSE]
<1>1. rec \in Record /\ rec # None
  <2>1. rec \in Record
    BY DEF Record
  <2>2. QED
    BY <2>1, NoneAssumption
<1> HIDE DEF rec
<1>2. PICK places \in {{}, {"root"}, {"project"}} :
        /\ ver = Cardinality(places)
        /\ disk = [p \in Places |-> IF p \in places THEN rec ELSE None]
        /\ known = places
        /\ path = IF places = {} THEN None ELSE CHOOSE p \in places : TRUE
        /\ cache = IF places = {} THEN None ELSE rec
        /\ written = cache
  BY DEF Init, rec
<1>3. ver \in Nat /\ (ver = 0 <=> places = {}) /\ path \in places \cup {None}
  <2>1. Cardinality({}) = 0 /\ Cardinality({"root"}) = 1 /\ Cardinality({"project"}) = 1
    BY FS_EmptySet, FS_Singleton
  <2>2. places # {} => (CHOOSE p \in places : TRUE) \in places
    OBVIOUS
  <2>3. QED
    BY <1>2, <2>1, <2>2
<1>4. /\ live = FALSE /\ loaded = FALSE /\ deleting = FALSE /\ broken = FALSE /\ gone = FALSE
      /\ queue = <<>> /\ head = "queued" /\ snaps = <<>> /\ word = "none"
      /\ faults = 0 /\ crashes = 0 /\ call = [c \in Callers |-> NewCall]
  BY DEF Init
<1>5. \A c \in Callers : call[c] = NewCall /\ NewCall \in Call /\ NewCall.at = "new"
  BY <1>4 DEF NewCall, Call
<1>6. TypeOK
  <2>1. disk \in [Places -> Record \cup {None}] /\ {cache, written} \subseteq Record \cup {None}
    BY <1>1, <1>2
  <2>2. known \subseteq Places /\ path \in Places \cup {None}
    BY <1>2, <1>3 DEF Places
  <2>3. queue \in Seq(Record) /\ snaps \in Seq(Snapshot) /\ call \in [Callers -> Call]
    BY <1>4, <1>5
  <2>4. {live, loaded, deleting, broken, gone} \subseteq BOOLEAN
    BY <1>4, Zenon
  <2>5. {ver, faults, crashes} \subseteq Nat
    BY <1>3, <1>4
  <2>6. QED
    BY <1>4, <2>1, <2>2, <2>3, <2>4, <2>5 DEF TypeOK
<1>7. Chained /\ SnapsOwned /\ GoneForGood /\ AllArchived
  BY <1>4 DEF Chained, SnapsOwned, GoneForGood, AllArchived
<1>8. Pristine
  BY <1>2, <1>3, <1>4, <1>5 DEF Pristine
<1>9. DeletesMark
  BY <1>5 DEF DeletesMark, Marks, Busy
<1>10. Files /\ Loadable /\ Served
  BY <1>1, <1>2, <1>4 DEF Files, Loadable, Served, Places
<1>11. QED
  BY <1>6, <1>7, <1>8, <1>9, <1>10 DEF Inv

\* The agent is loaded, or changes.
LEMMA InvRegisterChange ==
    ASSUME Inv, Register \/ Change
    PROVE  Inv'
<1>1. /\ ver \in Nat /\ ver' = ver + 1 /\ ver + 1 \in Nat /\ ver + 1 # 0
      /\ snaps' = snaps \o Emitted(TRUE, ver + 1)
      /\ live' \in BOOLEAN /\ loaded' \in BOOLEAN
      /\ queue \in Seq(Record) /\ snaps \in Seq(Snapshot)
      /\ call' = call /\ UNCHANGED <<store, chain, past>>
  <2>1. ver \in Nat /\ queue \in Seq(Record) /\ snaps \in Seq(Snapshot)
    BY DEF Inv, TypeOK
  <2>2. loaded \in BOOLEAN
    BY DEF Inv, TypeOK
  <2>3. live' \in BOOLEAN /\ loaded' \in BOOLEAN
    <3>1. CASE Register
      BY <3>1, Zenon DEF Register
    <3>2. CASE Change
      BY <2>2, <3>2 DEF Change
    <3>3. QED
      BY <3>1, <3>2
  <2>4. /\ ver' = ver + 1 /\ snaps' = snaps \o Emitted(TRUE, ver + 1)
        /\ call' = call /\ UNCHANGED <<store, chain, past>>
    BY DEF Register, Change
  <2>5. QED
    BY <2>1, <2>3, <2>4
<1>2. /\ Emitted(TRUE, ver + 1) \in Seq(Snapshot)
      /\ \A i \in DOMAIN Emitted(TRUE, ver + 1) : Emitted(TRUE, ver + 1)[i].by = None
  BY <1>1, EmittedDoes
<1>3. /\ snaps' \in Seq(Snapshot)
      /\ \A i \in DOMAIN snaps' : snaps'[i].by = None \/ (i \in DOMAIN snaps /\ snaps'[i] = snaps[i])
  BY <1>1, <1>2, SnapsAdded
<1>4. TypeOK'
  BY <1>1, <1>3 DEF Inv, TypeOK, store, chain, past
<1>5. SnapsOwned'
  <2>1. SnapsOwned /\ call' = call
    BY <1>1 DEF Inv
  <2>2. QED
    BY <1>3, <2>1 DEF SnapsOwned
<1>6. AllArchived'
  BY <1>1 DEF Inv, AllArchived, store, chain, past
<1>7. deleting \/ ~gone
  <2>1. CASE Register
    BY <2>1 DEF Register, Inv, GoneForGood, Pristine
  <2>2. CASE Change
    BY <2>2 DEF Change, Inv, GoneForGood
  <2>3. QED
    BY <2>1, <2>2
<1>8. QED
  BY <1>1, <1>4, <1>5, <1>6, <1>7, InvCalls DEF store, chain, past

\* A call or a snapshot that is under way is of an agent there has been, and
\* that is being deleted if it is gone.
LEMMA UnderWay ==
    ASSUME Inv, live \/ cache # None \/ snaps # <<>> \/ \E c \in Callers : Busy(c)
    PROVE  ver # 0 /\ ver \in Nat /\ (deleting \/ ~gone)
  BY DEF Inv, TypeOK, Pristine, GoneForGood, Busy

\* When an archive is said to be done, every record there is is archived.
LEMMA SaidArchived ==
    ASSUME Inv, ArchiveSaid
    PROVE  /\ ~deleting /\ cache # None /\ cache.archived /\ written # None /\ written.archived
           /\ queue = <<>>
<1>1. ~deleting /\ cache # None /\ cache.archived /\ queue = <<>>
  BY DEF ArchiveSaid
<1>2. head = "queued"
  BY <1>1 DEF Inv, Chained
<1>3. ~Unlinking
  BY <1>1 DEF Inv, DeletesMark, Marks, Busy, Unlinking
<1>4. cache = written
  BY <1>2, <1>3 DEF Inv, Served
<1>5. QED
  BY <1>1, <1>4

\* A call that has no snapshot waiting and is not removing files goes on; it may
\* chain a record, and say that an archive is done.
LEMMA InvGoes ==
    ASSUME Inv, NEW c \in Callers, call[c].at \notin {"snapping", "closing", "unlinking"},
           call' \in [Callers -> Call], \A d \in Callers \ {c} : call'[d] = call[d], Marks(c)',
           live' \in BOOLEAN, loaded' = loaded, ver' \in Nat, ver' # 0,
           snaps' \in Seq(Snapshot), SnapsOwned',
           NEW rec \in Record,
           UNCHANGED chain \/ (Enqueue(rec) /\ (word' = "archived" => rec.archived)),
           word' \in {"none", "archived"},
           word' = "archived" => ~deleting' /\ (word = "archived" \/ (ArchiveSaid /\ UNCHANGED chain)),
           deleting' \in BOOLEAN, deleting => deleting', deleting \/ ~gone,
           UNCHANGED <<disk, known, path, cache, written, gone, faults, crashes>>
    PROVE  Inv'
<1> USE DEF Inv
<1>1. /\ queue' \in Seq(Record) /\ UNCHANGED <<head, broken>>
      /\ queue' = queue \/ (queue' # <<>> /\ (Head(queue) = Head(queue') \/ queue = <<>>))
      /\ \A i \in DOMAIN queue' :
           \/ queue'[i] = rec /\ (word' = "archived" => rec.archived)
           \/ i \in DOMAIN queue /\ queue'[i] = queue[i]
  <2>1. CASE UNCHANGED chain
    BY <2>1 DEF chain, TypeOK
  <2>2. CASE Enqueue(rec) /\ (word' = "archived" => rec.archived)
    BY <2>2, EnqueueDoes
  <2>3. QED
    BY <2>1, <2>2
<1>2. TypeOK'
  <2>1. {live', loaded', deleting', broken', gone'} \subseteq BOOLEAN
    <3>1. {loaded, broken, gone} \subseteq BOOLEAN
      BY DEF TypeOK
    <3>2. QED
      BY <1>1, <3>1
  <2>2. {ver', faults', crashes'} \subseteq Nat
    BY DEF TypeOK
  <2>3. QED
    BY <1>1, <2>1, <2>2 DEF TypeOK
<1>3. AllArchived'
  <2> SUFFICES ASSUME word' = "archived" PROVE AllArchived'
    BY DEF AllArchived
  <2>1. CASE word = "archived"
    BY <1>1, <2>1 DEF AllArchived
  <2>2. CASE ArchiveSaid /\ UNCHANGED chain
    <3>1. /\ cache # None /\ cache.archived /\ written # None /\ written.archived
          /\ queue = <<>> /\ queue' = queue
      BY <2>2, SaidArchived DEF chain
    <3>2. QED
      BY <3>1 DEF AllArchived
  <2>3. QED
    BY <2>1, <2>2
<1>4. \A d \in Callers : call'[d] = call[d] \/ (call[d].at # "unlinking" /\ Marks(d)')
  OBVIOUS
<1>5. QED
  BY <1>1, <1>2, <1>3, <1>4, InvCalls


LEMMA AnyRecord == \E rec \in Record : TRUE
<1>1. [ver |-> 0, archived |-> FALSE] \in Record
  BY DEF Record
<1>2. QED
  BY <1>1

\* The record that is read and chained again is archived while an archive lasts.
LEMMA CachedRecord ==
    ASSUME Inv, cache # None
    PROVE  cache \in Record /\ (word = "archived" => cache.archived)
  BY DEF Inv, TypeOK, AllArchived

\* What a step that changes neither the files nor what has been said leaves.
LEMMA Kept ==
    ASSUME Inv, UNCHANGED <<store, past>>
    PROVE  /\ UNCHANGED <<disk, known, path, cache, deleting, written, word, gone, faults, crashes>>
           /\ deleting' \in BOOLEAN /\ word' \in {"none", "archived"}
           /\ deleting => deleting'
           /\ word' = "archived" => word = "archived" /\ ~deleting'
  BY DEF Inv, TypeOK, AllArchived, store, past

\* The snapshots are left alone.
LEMMA SnapsLeft ==
    ASSUME Inv, NEW c \in Callers, call[c].at \notin {"snapping", "closing"},
           \A d \in Callers \ {c} : call'[d] = call[d], snaps' = snaps
    PROVE  snaps' \in Seq(Snapshot) /\ SnapsOwned'
<1>1. snaps' \in Seq(Snapshot)
  BY DEF Inv, TypeOK
<1>2. QED
  BY <1>1, SnapsKept

\* A title: it waits, reads and chains the record, and emits the agent.
LEMMA InvTitle ==
    ASSUME Inv, NEW c \in Callers, Title(c) \/ TitleReads(c) \/ Titled(c)
    PROVE  Inv'
<1>1. call[c].at \in {"new", "waiting", "titling"} /\ (live \/ Busy(c))
  BY DEF Title, TitleReads, Titled, Starts, Ready, Busy
<1>2. ver # 0 /\ ver \in Nat /\ (deleting \/ ~gone)
  BY <1>1, UnderWay
<1>3. /\ TypeOK /\ Len(queue) \in Nat /\ Len(queue) + 1 \in Nat /\ live \in BOOLEAN
      /\ queue \in Seq(Record) /\ snaps \in Seq(Snapshot) /\ (cache # None => cache \in Record)
  BY DEF Inv, TypeOK
<1>4. UNCHANGED <<live, loaded, ver, store, past>>
  BY DEF Title, TitleReads, Titled
<1>5. PICK any \in Record : TRUE
  BY AnyRecord
<1>6. CASE Title(c)
  <2>1. Starts(c, "title", "waiting", Len(queue)) /\ "title" \in Kinds
        /\ UNCHANGED chain /\ snaps' = snaps
    BY <1>6 DEF Title, Starts
  <2>2. /\ call' \in [Callers -> Call] /\ call'[c].at = "waiting" /\ call'[c].kind = "title"
        /\ \A d \in Callers \ {c} : call'[d] = call[d]
    BY <1>3, <2>1, StartsDoes DEF Ats
  <2>3. Marks(c)' /\ snaps' \in Seq(Snapshot) /\ SnapsOwned'
    BY <1>1, <2>1, <2>2, SnapsLeft DEF Marks
  <2>4. QED
    BY <1>1, <1>2, <1>3, <1>4, <1>5, <2>1, <2>2, <2>3, Kept, InvGoes
<1>7. CASE TitleReads(c)
  <2>1. snaps' = snaps /\ call[c].at = "waiting"
    BY <1>7 DEF TitleReads, Ready
  <2>2. PICK rec \in Record : UNCHANGED chain \/ (Enqueue(rec) /\ (word' = "archived" => rec.archived))
    BY <1>4, <1>5, <1>7, CachedRecord DEF TitleReads, past
  <2>3. /\ call' \in [Callers -> Call] /\ call'[c].at \in {"done", "titling"}
        /\ \A d \in Callers \ {c} : call'[d] = call[d]
        /\ call'[c].kind = call[c].kind
    BY <1>3, <1>7, AwaitsDoes DEF TitleReads, Ends, Ats
  <2>4. Marks(c)' /\ snaps' \in Seq(Snapshot) /\ SnapsOwned'
    <3>1. (call[c].kind = "delete" => deleting) /\ deleting' = deleting
      BY <2>1, <1>4 DEF Inv, DeletesMark, Marks, Busy, store
    <3>2. QED
      BY <1>1, <2>1, <2>3, <3>1, SnapsLeft DEF Marks
  <2>5. QED
    BY <1>1, <1>2, <1>3, <1>4, <2>2, <2>3, <2>4, Kept, InvGoes
<1>8. CASE Titled(c)
  <2>1. UNCHANGED chain /\ call[c].at = "titling"
    BY <1>8 DEF Titled, Ready
  <2>2. /\ call' \in [Callers -> Call] /\ call'[c].at = "done"
        /\ \A d \in Callers \ {c} : call'[d] = call[d]
    BY <1>3, <1>8, AwaitsDoes DEF Titled, Ends, Ats
  <2>3. /\ snaps' \in Seq(Snapshot)
        /\ \A i \in DOMAIN snaps' : snaps'[i].by = None \/ (i \in DOMAIN snaps /\ snaps'[i] = snaps[i])
    <3>1. snaps' = snaps \/ snaps' = snaps \o Emitted(FALSE, ObjectVer)
      BY <1>8 DEF Titled
    <3>2. /\ Emitted(FALSE, ObjectVer) \in Seq(Snapshot)
          /\ \A i \in DOMAIN Emitted(FALSE, ObjectVer) : Emitted(FALSE, ObjectVer)[i].by = None
      BY <1>2, <1>3, ObjectVerNat, EmittedDoes
    <3>3. CASE snaps' = snaps
      BY <1>3, <3>3
    <3>4. CASE snaps' = snaps \o Emitted(FALSE, ObjectVer)
      BY <1>3, <3>2, <3>4, SnapsAdded
    <3>5. QED
      BY <3>1, <3>3, <3>4
  <2>4. Marks(c)' /\ SnapsOwned'
    BY <1>1, <2>2, <2>3, SnapsKept DEF Marks, Busy
  <2>5. QED
    BY <1>1, <1>2, <1>3, <1>4, <1>5, <2>1, <2>2, <2>3, <2>4, Kept, InvGoes
<1>9. QED
  BY <1>6, <1>7, <1>8

\* A call waits, or is over: it chains nothing and takes no snapshot.
LEMMA InvWaits ==
    ASSUME Inv, NEW c \in Callers, call[c].at \notin {"new", "snapping", "closing", "unlinking"},
           NEW at \in {"done", "archived", "leaving", "removing", "unlinking"}, NEW n \in Nat,
           Awaits(c, at, n), Busy(c),
           at \in {"removing", "unlinking"} => call[c].kind = "delete",
           at = "unlinking" \/ (at = "removing" /\ n = 0) => head = "queued",
           live' \in BOOLEAN, ver' \in Nat, ver' # 0,
           snaps' = snaps \/ Notified,
           UNCHANGED <<loaded, store, chain, past>>
    PROVE  Inv'
<1>1. ver # 0 /\ (deleting \/ ~gone) /\ TypeOK
  BY UnderWay DEF Inv
<1>2. /\ call' \in [Callers -> Call] /\ call'[c].at = at /\ call'[c].kind = call[c].kind
      /\ call'[c].ahead = n /\ \A d \in Callers \ {c} : call'[d] = call[d]
  BY <1>1, AwaitsDoes DEF Ats
<1>3. snaps' \in Seq(Snapshot) /\ SnapsOwned'
  <2>1. CASE snaps' = snaps
    BY <1>2, <2>1, SnapsLeft
  <2>2. CASE Notified
    BY <1>1, <1>2, <2>2, NotifiedDoes, SnapsKept
  <2>3. QED
    BY <2>1, <2>2
<1>4. /\ UNCHANGED <<disk, known, path, cache, deleting, written, word, gone, faults, crashes>>
      /\ deleting' \in BOOLEAN /\ word' \in {"none", "archived"} /\ (deleting => deleting')
      /\ (word' = "archived" => word = "archived" /\ ~deleting')
  BY Kept
<1>5. Marks(c)'
  <2>1. call[c].kind = "delete" => deleting
    BY DEF Inv, DeletesMark, Marks
  <2>2. head' = head
    BY DEF chain
  <2>3. QED
    BY <1>2, <1>4, <2>1, <2>2 DEF Marks
<1>6. PICK any \in Record : TRUE
  BY AnyRecord
<1>7. QED
  BY <1>1, <1>2, <1>3, <1>4, <1>5, <1>6, InvGoes

\* The steps of a call that only wait.
LEMMA InvWaitSteps ==
    ASSUME Inv, NEW c \in Callers,
           ArchiveNotifies(c) \/ Close(c) \/ Remove(c)
    PROVE  Inv'
<1>1. /\ call[c].at \in {"archiving", "archived", "removing"} /\ Busy(c)
      /\ UNCHANGED <<loaded, store, chain, past>>
  BY DEF ArchiveNotifies, Close, Remove, Ready, Busy
<1>2. ver # 0 /\ ver \in Nat
  BY <1>1, UnderWay
<1>3. /\ live \in BOOLEAN /\ Len(queue) \in Nat /\ (Len(queue) = 0 => head = "queued")
      /\ (call[c].at = "removing" => call[c].kind = "delete")
  <2>1. queue \in Seq(Record) /\ live \in BOOLEAN
    BY DEF Inv, TypeOK
  <2>2. Len(queue) = 0 => queue = <<>>
    BY <2>1
  <2>3. QED
    BY <2>1, <2>2 DEF Inv, Chained, DeletesMark, Marks
<1>4. CASE ArchiveNotifies(c)
  <2>1. live' = live
    BY <1>4 DEF ArchiveNotifies
  <2>2. /\ Awaits(c, "done", 0) \/ Awaits(c, "archived", 0)
        /\ (snaps' = snaps /\ ver' = ver) \/ Notified
    BY <1>4 DEF ArchiveNotifies, Ends
  <2>3. ver' \in Nat /\ ver' # 0
    BY <1>2, <2>2, NotifiedDoes DEF Inv
  <2>4. QED
    BY <1>1, <1>3, <2>1, <2>2, <2>3, InvWaits
<1>5. CASE Close(c)
  <2>1. snaps' = snaps
    BY <1>5 DEF Close
  <2>2. CASE live
    <3>1. live' = FALSE /\ ver' = ver + 1 /\ Awaits(c, "leaving", 0)
      BY <1>5, <2>2 DEF Close
    <3>2. live' \in BOOLEAN
      BY <3>1, Zenon
    <3>3. ver' \in Nat /\ ver' # 0
      BY <1>2, <3>1
    <3>4. QED
      BY <1>1, <2>1, <3>1, <3>2, <3>3, InvWaits
  <2>3. CASE ~live
    <3>1. /\ live' = live /\ ver' = ver
          /\ \/ call[c].kind = "delete" /\ Awaits(c, "removing", Len(queue))
             \/ Awaits(c, "done", 0)
      BY <1>5, <2>3 DEF Close, Ends
    <3>2. QED
      BY <1>1, <1>2, <1>3, <2>1, <3>1, InvWaits
  <2>4. QED
    BY <2>2, <2>3
<1>6. CASE Remove(c)
  <2>1. /\ live' = live /\ ver' = ver /\ snaps' = snaps
        /\ call[c].at = "removing" /\ call[c].ahead = 0
        /\ Awaits(c, "done", 0) \/ Awaits(c, "unlinking", 0)
    BY <1>6 DEF Remove, Ready, Ends
  <2>2. head = "queued"
    BY <2>1 DEF Inv, DeletesMark, Marks
  <2>3. QED
    BY <1>1, <1>2, <1>3, <2>1, <2>2, InvWaits
<1>7. QED
  BY <1>4, <1>5, <1>6

\* The steps of a call that chain a record.
LEMMA InvChains ==
    ASSUME Inv, NEW c \in Callers,
           ArchiveMarks(c) \/ ArchiveStored(c) \/ Unarchive(c)
    PROVE  Inv'
<1>1. /\ call[c].at \in {"new", "snapped"} /\ (cache # None \/ Busy(c))
      /\ UNCHANGED <<live, loaded, ver, store, snaps, written, gone, faults, crashes>>
  BY DEF ArchiveMarks, ArchiveStored, Unarchive, Starts, Ready, Busy, past
<1>2. ver # 0 /\ ver \in Nat /\ (deleting \/ ~gone)
  BY <1>1, UnderWay
<1>3. /\ TypeOK /\ Len(queue) + 1 \in Nat /\ live \in BOOLEAN /\ deleting \in BOOLEAN
      /\ (word = "archived" => ~deleting) /\ word \in {"none", "archived"}
      /\ (cache # None => cache \in Record)
  <2>1. queue \in Seq(Record)
    BY DEF Inv, TypeOK
  <2>2. Len(queue) + 1 \in Nat
    BY <2>1
  <2>3. QED
    BY <2>2 DEF Inv, TypeOK, AllArchived
<1>4. PICK any \in Record : TRUE
  BY AnyRecord
<1>5. (word' = word \/ word' = "none")
  BY DEF ArchiveMarks, ArchiveStored, Unarchive, past
<1>6. PICK rec \in Record : UNCHANGED chain \/ (Enqueue(rec) /\ (word' = "archived" => rec.archived))
  <2>1. cache # None => /\ [cache EXCEPT !.archived = TRUE] \in Record
                        /\ [cache EXCEPT !.archived = TRUE].archived
                        /\ [cache EXCEPT !.archived = FALSE] \in Record
    BY <1>3 DEF Record
  <2>2. CASE ArchiveMarks(c)
    BY <1>4, <2>1, <2>2 DEF ArchiveMarks
  <2>3. CASE ArchiveStored(c)
    BY <2>1, <2>3 DEF ArchiveStored
  <2>4. CASE Unarchive(c)
    BY <2>1, <2>4 DEF Unarchive
  <2>5. QED
    BY <2>2, <2>3, <2>4
<1>7. /\ call' \in [Callers -> Call] /\ call'[c].at \in {"done", "archiving", "storing", "unarchiving"}
      /\ (call'[c].kind = "delete" => call[c].at = "snapped" /\ call[c].kind = "delete")
      /\ \A d \in Callers \ {c} : call'[d] = call[d]
  <2>1. CASE ArchiveMarks(c)
    <3>1. Awaits(c, "done", 0) \/ Awaits(c, "archiving", Len(queue) + 1)
      BY <2>1 DEF ArchiveMarks, Ends
    <3>2. call[c].at = "snapped"
      BY <2>1 DEF ArchiveMarks, Ready
    <3>3. QED
      BY <1>3, <3>1, <3>2, AwaitsDoes DEF Ats
  <2>2. CASE ArchiveStored(c)
    <3>1. Starts(c, "archive", "storing", Len(queue) + 1) /\ "archive" \in Kinds
      BY <2>2 DEF ArchiveStored, Starts
    <3>2. QED
      BY <1>3, <3>1, StartsDoes DEF Ats
  <2>3. CASE Unarchive(c)
    <3>1. Starts(c, "unarchive", "unarchiving", Len(queue) + 1) /\ "unarchive" \in Kinds
      BY <2>3 DEF Unarchive, Starts
    <3>2. QED
      BY <1>3, <3>1, StartsDoes DEF Ats
  <2>4. QED
    BY <2>1, <2>2, <2>3
<1>8. Marks(c)' /\ snaps' \in Seq(Snapshot) /\ SnapsOwned'
  <2>1. call'[c].kind = "delete" => deleting
    BY <1>7 DEF Inv, DeletesMark, Marks, Busy
  <2>2. deleting' = deleting
    BY <1>1 DEF store
  <2>3. QED
    BY <1>1, <1>7, <2>1, <2>2, SnapsLeft DEF Marks
<1>9. UNCHANGED <<disk, known, path, cache, deleting, written, gone, faults, crashes>>
  BY <1>1 DEF store
<1>10. QED
  BY <1>1, <1>2, <1>3, <1>5, <1>6, <1>7, <1>8, <1>9, InvGoes

\* The steps of a call that take a snapshot.
LEMMA InvSnaps ==
    ASSUME Inv, NEW c \in Callers, Archive(c) \/ Closed(c)
    PROVE  Inv'
<1>1. /\ call[c].at \in {"new", "leaving"} /\ (live \/ Busy(c))
      /\ UNCHANGED <<live, loaded, ver, store, chain, past>>
  BY DEF Archive, Closed, Starts, Ready, Busy
<1>2. ver # 0 /\ ver \in Nat /\ (deleting \/ ~gone)
  BY <1>1, UnderWay
<1>3. TypeOK /\ live \in BOOLEAN
  BY DEF Inv, TypeOK
<1>4. PICK v \in Nat \cup {None} : snaps' = Append(snaps, [ahead |-> Len(queue), by |-> c, ver |-> v])
  BY <1>2 DEF Archive, Closed
<1>5. /\ call' \in [Callers -> Call] /\ call'[c].at \in {"snapping", "closing"}
      /\ (call'[c].kind = "delete" => call[c].at = "leaving" /\ call[c].kind = "delete")
      /\ \A d \in Callers \ {c} : call'[d] = call[d]
  <2>1. CASE Archive(c)
    <3>1. Starts(c, "archive", "snapping", 0) /\ "archive" \in Kinds
      BY <2>1 DEF Archive, Starts
    <3>2. QED
      BY <1>3, <3>1, StartsDoes DEF Ats
  <2>2. CASE Closed(c)
    <3>1. Awaits(c, "closing", 0) /\ call[c].at = "leaving"
      BY <2>2 DEF Closed, Ready
    <3>2. QED
      BY <1>3, <3>1, AwaitsDoes DEF Ats
  <2>3. QED
    BY <2>1, <2>2
<1>6. snaps' \in Seq(Snapshot) /\ SnapsOwned'
  BY <1>1, <1>4, <1>5, SnapAppended
<1>7. Marks(c)'
  <2>1. call'[c].kind = "delete" => deleting
    BY <1>5 DEF Inv, DeletesMark, Marks, Busy
  <2>2. deleting' = deleting
    BY <1>1 DEF store
  <2>3. QED
    BY <1>5, <2>1, <2>2 DEF Marks
<1>8. PICK any \in Record : TRUE
  BY AnyRecord
<1>9. QED
  BY <1>1, <1>2, <1>3, <1>5, <1>6, <1>7, <1>8, Kept, InvGoes

\* The end of a call, which may say that an archive is done.
LEMMA InvEnds ==
    ASSUME Inv, NEW c \in Callers, CloseEnds(c) \/ StoredArchived(c) \/ Unarchived(c)
    PROVE  Inv'
<1>1. /\ call[c].at \in {"closed", "storing", "unarchiving"} /\ Busy(c) /\ call[c].ahead = 0
      /\ UNCHANGED <<live, loaded, store, chain, written, gone, faults, crashes>>
  BY DEF CloseEnds, StoredArchived, Unarchived, Ready, Busy, past
<1>2. ver # 0 /\ ver \in Nat /\ (deleting \/ ~gone)
  BY <1>1, UnderWay
<1>3. /\ TypeOK /\ live \in BOOLEAN /\ deleting \in BOOLEAN /\ word \in {"none", "archived"}
      /\ (word = "archived" => ~deleting)
  BY DEF Inv, TypeOK, AllArchived
<1>4. CASE CloseEnds(c) /\ call[c].kind = "delete"
  <2>1. /\ Awaits(c, "removing", Len(queue)) /\ UNCHANGED <<ver, snaps, word>>
    BY <1>4 DEF CloseEnds
  <2>2. Len(queue) \in Nat /\ (Len(queue) = 0 => head = "queued")
    <3>1. queue \in Seq(Record)
      BY DEF Inv, TypeOK
    <3>2. Len(queue) \in Nat /\ (Len(queue) = 0 => queue = <<>>)
      BY <3>1
    <3>3. QED
      BY <3>2 DEF Inv, Chained
  <2>3. UNCHANGED past
    BY <1>1, <2>1 DEF past
  <2>4. QED
    BY <1>1, <1>2, <1>3, <1>4, <2>1, <2>2, <2>3, InvWaits
<1>5. CASE ~(CloseEnds(c) /\ call[c].kind = "delete")
  <2>1. /\ call' \in [Callers -> Call] /\ call'[c].at = "done"
        /\ \A d \in Callers \ {c} : call'[d] = call[d]
    <3>1. call' = [call EXCEPT ![c].at = "done"] \/ Awaits(c, "done", 0)
      BY <1>5 DEF CloseEnds, StoredArchived, Unarchived, Ends
    <3>2. CASE call' = [call EXCEPT ![c].at = "done"]
      BY <1>3, <3>2 DEF TypeOK, Call
    <3>3. CASE Awaits(c, "done", 0)
      BY <1>3, <3>3, AwaitsDoes DEF Ats
    <3>4. QED
      BY <3>1, <3>2, <3>3
  <2>2. (snaps' = snaps /\ ver' = ver) \/ Notified
    BY DEF CloseEnds, StoredArchived, Unarchived
  <2>3. ver' \in Nat /\ ver' # 0 /\ snaps' \in Seq(Snapshot) /\ SnapsOwned'
    <3>1. CASE snaps' = snaps /\ ver' = ver
      BY <1>1, <1>2, <2>1, <3>1, SnapsLeft
    <3>2. CASE Notified
      BY <1>1, <1>2, <1>3, <2>1, <3>2, NotifiedDoes, SnapsKept
    <3>3. QED
      BY <2>2, <3>1, <3>2
  <2>4. Marks(c)'
    BY <2>1 DEF Marks, Busy
  <2>5. word' = word \/ (word' = "archived" /\ ArchiveSaid)
    BY DEF CloseEnds, StoredArchived, Unarchived, past
  <2>6. ArchiveSaid => ~deleting
    BY DEF ArchiveSaid
  <2>7. UNCHANGED <<disk, known, path, cache, deleting>>
    BY <1>1 DEF store
  <2>8. PICK any \in Record : TRUE
    BY AnyRecord
  <2>9. QED
    BY <1>1, <1>2, <1>3, <2>1, <2>3, <2>4, <2>5, <2>6, <2>7, <2>8, InvGoes
<1>6. QED
  BY <1>4, <1>5

\* An agent is marked as being deleted.
LEMMA InvDelete ==
    ASSUME Inv, NEW c \in Callers, Delete(c)
    PROVE  Inv'
<1>1. /\ live \/ cache # None
      /\ Starts(c, "delete", "archived", 0) /\ "delete" \in Kinds
      /\ deleting' = TRUE /\ word' = "none" /\ UNCHANGED chain /\ snaps' = snaps
      /\ UNCHANGED <<live, loaded, ver, disk, known, path, cache, written, gone, faults, crashes>>
  BY DEF Delete, Starts
<1>2. ver # 0 /\ ver \in Nat /\ (deleting \/ ~gone) /\ TypeOK /\ live \in BOOLEAN
  BY <1>1, UnderWay DEF Inv, TypeOK
<1>3. /\ call' \in [Callers -> Call] /\ call[c].at = "new" /\ call'[c].at = "archived"
      /\ \A d \in Callers \ {c} : call'[d] = call[d]
  BY <1>1, <1>2, StartsDoes DEF Ats
<1>4. Marks(c)' /\ snaps' \in Seq(Snapshot) /\ SnapsOwned'
  BY <1>1, <1>3, SnapsLeft DEF Marks
<1>5. deleting' \in BOOLEAN
  BY <1>1, Zenon
<1>6. PICK any \in Record : TRUE
  BY AnyRecord
<1>7. QED
  BY <1>1, <1>2, <1>3, <1>4, <1>5, <1>6, InvGoes

\* The first snapshot that waits chains its record.
LEMMA InvApplySnapshot == ASSUME Inv, ApplySnapshot PROVE Inv'
<1>1. /\ snaps # <<>> /\ snaps' = Tail(snaps) /\ Enqueue(SnapshotRecord(Head(snaps)))
      /\ UNCHANGED <<live, loaded, ver, store, past>>
  BY DEF ApplySnapshot
<1>2. ver # 0 /\ ver \in Nat /\ (deleting \/ ~gone) /\ TypeOK
  BY <1>1, UnderWay DEF Inv
<1>3. /\ snaps \in Seq(Snapshot) /\ queue \in Seq(Record)
      /\ cache \in Record \cup {None}
  BY <1>2 DEF TypeOK
<1>4. /\ Head(snaps) \in Snapshot /\ Head(snaps) = snaps[1] /\ snaps' \in Seq(Snapshot)
      /\ Len(snaps) \in Nat /\ DOMAIN snaps = 1..Len(snaps) /\ 1 \in DOMAIN snaps
      /\ DOMAIN snaps' = 1..(Len(snaps) - 1)
      /\ \A i \in DOMAIN snaps' : snaps'[i] = snaps[i + 1] /\ i + 1 \in DOMAIN snaps
      /\ Len(queue) + 1 \in Nat
  BY <1>1, <1>3
<1>5. PICK rec : rec = SnapshotRecord(Head(snaps))
  OBVIOUS
<1>6. rec \in Record /\ (word = "archived" => rec.archived)
  <2>1. (IF Head(snaps).ver # None THEN Head(snaps).ver ELSE ObjectVer) \in Nat
    BY <1>2, <1>4, ObjectVerNat DEF Snapshot
  <2>2. (cache # None /\ cache.archived) \in BOOLEAN
    OBVIOUS
  <2>3. word = "archived" => cache # None /\ cache.archived
    BY DEF Inv, AllArchived
  <2>4. QED
    BY <1>5, <2>1, <2>2, <2>3 DEF SnapshotRecord, Record
<1>7. /\ queue' \in Seq(Record) /\ queue' # <<>> /\ (Head(queue) = Head(queue') \/ queue = <<>>)
      /\ \A i \in DOMAIN queue' : queue'[i] = rec \/ (i \in DOMAIN queue /\ queue'[i] = queue[i])
      /\ UNCHANGED <<head, broken>>
  BY <1>1, <1>2, <1>5, <1>6, EnqueueDoes
<1>8. PICK b : b = Head(snaps).by
  OBVIOUS
<1>9. /\ call' \in [Callers -> Call]
      /\ \A d \in Callers : call'[d] = call[d] \/ (d = b /\ b # None)
      /\ \A d \in Callers : d = b /\ b # None =>
           /\ call[d].at \in {"snapping", "closing"} /\ call'[d].at \in {"snapped", "closed"}
           /\ call'[d].kind = call[d].kind
  <2>1. CASE b = None
    BY <1>2, <1>8, <2>1 DEF ApplySnapshot, TypeOK
  <2>2. CASE b # None
    <3>1. b \in Callers
      BY <1>4, <1>8, <2>2 DEF Snapshot
    <3>2. call[b].at \in {"snapping", "closing"}
      BY <1>4, <1>8, <2>2, <3>1 DEF Inv, SnapsOwned
    <3>3. Awaits(b, "snapped", Len(queue) + 1) \/ Awaits(b, "closed", Len(queue) + 1)
      BY <1>8, <2>2 DEF ApplySnapshot
    <3>4. /\ call' \in [Callers -> Call] /\ call'[b].at \in {"snapped", "closed"}
          /\ call'[b].kind = call[b].kind /\ \A d \in Callers \ {b} : call'[d] = call[d]
      BY <1>2, <1>4, <3>1, <3>3, AwaitsDoes DEF Ats
    <3>5. QED
      BY <2>2, <3>1, <3>2, <3>4
  <2>3. QED
    BY <2>1, <2>2
<1>10. SnapsOwned'
  <2>1. \A i \in DOMAIN snaps' : snaps'[i].by = b => b = None
    BY <1>4, <1>8 DEF Inv, SnapsOwned
  <2>2. \A i \in DOMAIN snaps' : \A d \in Callers :
          snaps'[i].by = d /\ d # None => call'[d].at \in {"snapping", "closing"}
    BY <1>4, <1>9, <2>1 DEF Inv, SnapsOwned
  <2>3. \A i, j \in DOMAIN snaps' : snaps'[i].by = snaps'[j].by /\ snaps'[i].by # None => i = j
    BY <1>4 DEF Inv, SnapsOwned
  <2>4. QED
    BY <2>2, <2>3 DEF SnapsOwned
<1>11. /\ UNCHANGED <<disk, known, path, cache, deleting, written, word, gone, faults, crashes>>
       /\ (word' = "archived" => word = "archived")
  BY <1>1, Kept
<1>12. TypeOK'
  BY <1>1, <1>2, <1>4, <1>7, <1>9, <1>11 DEF TypeOK
<1>13. AllArchived'
  BY <1>6, <1>7, <1>11 DEF Inv, AllArchived
<1>14. \A d \in Callers : call'[d] = call[d] \/ (call[d].at # "unlinking" /\ Marks(d)')
  <2>1. \A d \in Callers : d = b /\ b # None => (call[d].kind = "delete" => deleting)
    BY <1>9 DEF Inv, DeletesMark, Marks, Busy
  <2>2. QED
    BY <1>9, <1>11, <2>1 DEF Marks
<1>15. QED
  BY <1>1, <1>2, <1>7, <1>10, <1>11, <1>12, <1>13, <1>14, InvCalls

\* A write is settled: the chain is shorter, and what awaits it counts down.
LEMMA SettleDoes ==
    ASSUME Inv, queue # <<>>, NEW ok \in BOOLEAN, Settle(ok)
    PROVE  /\ queue' \in Seq(Record) /\ head' = "queued" /\ broken' \in BOOLEAN
           /\ \A i \in DOMAIN queue' : i + 1 \in DOMAIN queue /\ queue'[i] = queue[i + 1]
           /\ snaps' \in Seq(Snapshot) /\ (snaps = <<>> => snaps' = <<>>) /\ SnapsOwned'
           /\ call' \in [Callers -> Call]
           /\ \A c \in Callers : call'[c].at = call[c].at /\ call'[c].kind = call[c].kind
<1>1. /\ queue \in Seq(Record) /\ queue # <<>> /\ queue' = Tail(queue) /\ head' = "queued"
      /\ broken' = (~ok /\ Len(queue) > 1)
  BY DEF Inv, TypeOK, Settle
<1>2. \A n \in Nat : OneLess(n) \in Nat
  BY DEF OneLess
<1>3. /\ queue' \in Seq(Record)
      /\ \A i \in DOMAIN queue' : i + 1 \in DOMAIN queue /\ queue'[i] = queue[i + 1]
  <2>1. /\ queue' \in Seq(Record) /\ Len(queue) \in Nat /\ DOMAIN queue = 1..Len(queue)
        /\ DOMAIN queue' = 1..(Len(queue) - 1)
        /\ \A i \in DOMAIN queue' : queue'[i] = queue[i + 1]
    BY <1>1
  <2>2. QED
    BY <2>1
<1>4. broken' \in BOOLEAN
  BY <1>1
<1>5. /\ snaps \in Seq(Snapshot)
      /\ snaps' = [i \in DOMAIN snaps |-> [snaps[i] EXCEPT !.ahead = OneLess(@)]]
  BY DEF Inv, TypeOK, Settle
<1>6. /\ Len(snaps) \in Nat /\ DOMAIN snaps = 1..Len(snaps) /\ DOMAIN snaps' = DOMAIN snaps
      /\ \A i \in DOMAIN snaps : snaps'[i] \in Snapshot /\ snaps'[i].by = snaps[i].by
  <2>1. Len(snaps) \in Nat /\ DOMAIN snaps = 1..Len(snaps) /\ \A i \in DOMAIN snaps : snaps[i] \in Snapshot
    BY <1>5
  <2>2. \A x \in Snapshot : /\ [x EXCEPT !.ahead = OneLess(@)] \in Snapshot
                            /\ [x EXCEPT !.ahead = OneLess(@)].by = x.by
    BY <1>2 DEF Snapshot
  <2>3. DOMAIN snaps' = DOMAIN snaps
    BY <1>5
  <2>4. ASSUME NEW i \in DOMAIN snaps
        PROVE  snaps'[i] \in Snapshot /\ snaps'[i].by = snaps[i].by
    <3>1. PICK x \in Snapshot : x = snaps[i]
      BY <2>1
    <3>2. snaps'[i] = [x EXCEPT !.ahead = OneLess(@)]
      BY <1>5, <3>1
    <3>3. QED
      BY <2>2, <3>1, <3>2
  <2>5. QED
    BY <2>1, <2>3, <2>4
<1>7. snaps' \in Seq(Snapshot) /\ (snaps = <<>> => snaps' = <<>>)
  <2>1. snaps' \in [1..Len(snaps) -> Snapshot]
    BY <1>5, <1>6
  <2>2. snaps' \in Seq(Snapshot)
    BY <1>6, <2>1
  <2>3. snaps = <<>> => snaps' = <<>>
    BY <1>6, <2>2
  <2>4. QED
    BY <2>2, <2>3
<1>8. \A c \in Callers : /\ call'[c] \in Call /\ call'[c].at = call[c].at
                         /\ call'[c].kind = call[c].kind
  <2> TAKE c \in Callers
  <2>1. call[c] \in Call /\ OneLess(call[c].ahead) \in Nat
    BY <1>2 DEF Inv, TypeOK, Call
  <2>2. PICK f \in BOOLEAN : f = IF call[c].ahead = 1 THEN ~ok ELSE call[c].failed
    BY <2>1 DEF Call
  <2>3. call'[c] = [call[c] EXCEPT !.ahead = OneLess(call[c].ahead), !.failed = f]
    BY <2>2 DEF Settle
  <2>4. QED
    BY <2>1, <2>3 DEF Call
<1>9. call' \in [Callers -> Call]
  BY <1>8 DEF Settle
<1>10. SnapsOwned'
  BY <1>6, <1>8 DEF Inv, SnapsOwned
<1>11. QED
  BY <1>1, <1>3, <1>4, <1>7, <1>8, <1>9, <1>10

\* A write that is dropped, fails or is rejected leaves everything as it was.
LEMMA InvSettles ==
    ASSUME Inv, queue # <<>>, NEW ok \in BOOLEAN, Settle(ok), head # "renamed",
           UNCHANGED <<live, loaded, ver, store, written, word, gone, crashes>>, faults' \in Nat
    PROVE  Inv'
<1> USE DEF Inv
<1>1. /\ queue' \in Seq(Record) /\ head' = "queued" /\ broken' \in BOOLEAN
      /\ \A i \in DOMAIN queue' : i + 1 \in DOMAIN queue /\ queue'[i] = queue[i + 1]
      /\ snaps' \in Seq(Snapshot) /\ (snaps = <<>> => snaps' = <<>>) /\ SnapsOwned'
      /\ call' \in [Callers -> Call]
      /\ \A c \in Callers : call'[c].at = call[c].at /\ call'[c].kind = call[c].kind
  BY SettleDoes
<1>2. UNCHANGED <<disk, known, path, cache, deleting>>
  BY DEF store
<1>3. TypeOK'
  <2>1. {live', loaded', deleting', broken', gone'} \subseteq BOOLEAN
    <3>1. {live, loaded, deleting, gone} \subseteq BOOLEAN
      BY DEF TypeOK
    <3>2. QED
      BY <1>1, <1>2, <3>1
  <2>2. QED
    BY <1>1, <1>2, <2>1 DEF TypeOK
<1>4. Chained' /\ Files'
  BY <1>1, <1>2 DEF Chained, Files
<1>5. Pristine' /\ ~(ver = 0)
  BY DEF Pristine
<1>6. DeletesMark'
  BY <1>1, <1>2 DEF DeletesMark, Marks, Busy
<1>7. Unlinking' <=> Unlinking
  BY <1>1 DEF Unlinking
<1>8. Loadable' /\ Served'
  BY <1>1, <1>2, <1>7 DEF Loadable, Served
<1>9. GoneForGood'
  BY <1>1, <1>2 DEF GoneForGood
<1>10. AllArchived'
  BY <1>1, <1>2 DEF AllArchived
<1>11. QED
  BY <1>1, <1>3, <1>4, <1>5, <1>6, <1>8, <1>9, <1>10

\* A write begins, unless the agent is being deleted.
LEMMA InvWriteBegins == ASSUME Inv, WriteBegins PROVE Inv'
<1>1. /\ queue # <<>> /\ head = "queued" /\ ~broken
      /\ UNCHANGED <<live, loaded, ver, store, past>>
  BY DEF WriteBegins
<1>2. CASE deleting
  <2>1. Settle(TRUE) /\ faults' \in Nat /\ UNCHANGED <<written, word, gone, crashes>>
    BY <1>1, <1>2 DEF WriteBegins, past, Inv, TypeOK
  <2>2. QED
    BY <1>1, <2>1, InvSettles
<1>3. CASE ~deleting
  <2>1. /\ head' = "begun" /\ UNCHANGED <<queue, broken, snaps, call>>
        /\ UNCHANGED <<disk, known, path, cache, deleting, written, word, gone, faults, crashes>>
    BY <1>1, <1>3 DEF WriteBegins, store, past
  <2>2. TypeOK'
    BY <1>1, <2>1 DEF Inv, TypeOK
  <2>3. Chained' /\ Pristine' /\ SnapsOwned' /\ Files' /\ AllArchived'
    BY <1>1, <2>1 DEF Inv, Chained, Pristine, SnapsOwned, Files, AllArchived
  <2>4. \A c \in Callers : call[c].at \notin {"removing", "unlinking"}
    BY <1>3 DEF Inv, DeletesMark, Marks, Busy
  <2>5. DeletesMark'
    BY <1>3, <2>1, <2>4 DEF Inv, DeletesMark, Marks, Busy
  <2>6. Loadable' /\ Served'
    BY <1>1, <2>1 DEF Inv, Loadable, Served, Unlinking
  <2>7. GoneForGood'
    BY <1>1, <1>3, <2>1 DEF Inv, GoneForGood
  <2>8. QED
    BY <2>2, <2>3, <2>5, <2>6, <2>7 DEF Inv
<1>4. QED
  BY <1>2, <1>3

\* The record is written: from here on it is what would be loaded.
LEMMA InvWriteRenames == ASSUME Inv, WriteRenames PROVE Inv'
<1> USE DEF Inv
<1>1. /\ head = "begun" /\ head' = "renamed" /\ queue # <<>> /\ ~broken
      /\ disk' = [disk EXCEPT !["project"] = Head(queue)] /\ known' = known \cup {"project"}
      /\ written' = Head(queue)
      /\ UNCHANGED <<live, loaded, ver, path, cache, deleting, queue, broken, snaps, call,
                     word, gone, faults, crashes>>
  BY DEF WriteRenames, Chained
<1>2. Head(queue) \in Record /\ Head(queue) # None /\ Head(queue) = queue[1] /\ 1 \in DOMAIN queue
  <2>1. queue \in Seq(Record)
    BY DEF TypeOK
  <2>2. QED
    BY <1>1, <2>1, NoneAssumption
<1>3. disk \in [Places -> Record \cup {None}] /\ "project" \in Places /\ "root" \in Places
  BY DEF TypeOK, Places
<1>4. disk'["project"] = Head(queue) /\ disk'["root"] = disk["root"]
  BY <1>1, <1>3
<1>5. TypeOK'
  BY <1>1, <1>2, <1>3 DEF TypeOK
<1>6. Chained' /\ Pristine' /\ SnapsOwned'
  BY <1>1 DEF Chained, Pristine, SnapsOwned
<1>7. Files'
  BY <1>1, <1>2, <1>3 DEF Files
<1>8. DeletesMark' /\ ~Unlinking
  BY <1>1 DEF DeletesMark, Marks, Busy, Unlinking
<1>9. Loadable' /\ Served'
  BY <1>1, <1>2, <1>4 DEF Loadable, Served
<1>10. GoneForGood'
  BY <1>1 DEF GoneForGood
<1>11. AllArchived'
  BY <1>1, <1>2 DEF AllArchived
<1>12. QED
  BY <1>5, <1>6, <1>7, <1>8, <1>9, <1>10, <1>11

\* The move ends: the record that was written is cached.
LEMMA InvWriteEnds == ASSUME Inv, WriteEnds PROVE Inv'
<1> USE DEF Inv
<1>1. /\ head = "renamed" /\ queue # <<>> /\ Settle(TRUE)
      /\ disk' = IF path = "root" THEN [disk EXCEPT !["root"] = None] ELSE disk
      /\ known' = IF path = "root" THEN known \ {"root"} ELSE known
      /\ path' = "project" /\ cache' = Head(queue)
      /\ UNCHANGED <<live, loaded, ver, deleting, written, word, gone, faults, crashes>>
  BY DEF WriteEnds, Chained, past
<1>2. written = Head(queue) /\ disk["project"] = written
  BY <1>1 DEF Served
<1>3. written \in Record /\ written # None
  <2>1. queue \in Seq(Record)
    BY DEF TypeOK
  <2>2. Head(queue) \in Record
    BY <1>1, <2>1
  <2>3. QED
    BY <1>2, <2>2, NoneAssumption
<1>4. disk \in [Places -> Record \cup {None}] /\ Places = {"root", "project"}
  BY DEF TypeOK, Places
<1>5. /\ disk' \in [Places -> Record \cup {None}] /\ disk'["project"] = written
      /\ (path = "root" => disk'["root"] = None) /\ (path # "root" => disk' = disk)
  BY <1>1, <1>2, <1>4
<1>6. /\ queue' \in Seq(Record) /\ head' = "queued" /\ broken' \in BOOLEAN
      /\ \A i \in DOMAIN queue' : i + 1 \in DOMAIN queue /\ queue'[i] = queue[i + 1]
      /\ snaps' \in Seq(Snapshot) /\ SnapsOwned' /\ call' \in [Callers -> Call]
      /\ \A c \in Callers : call'[c].at = call[c].at /\ call'[c].kind = call[c].kind
  BY <1>1, SettleDoes
<1>7. TypeOK'
  <2>1. {live', loaded', deleting', broken', gone'} \subseteq BOOLEAN
    BY <1>1, <1>6 DEF TypeOK
  <2>2. known' \subseteq Places /\ path' \in Places /\ {cache', written'} \subseteq Record
    BY <1>1, <1>2, <1>3, <1>4 DEF TypeOK
  <2>3. {ver', faults', crashes'} \subseteq Nat /\ word' \in {"none", "archived"}
    BY <1>1 DEF TypeOK
  <2>4. QED
    BY <1>5, <1>6, <2>1, <2>2, <2>3 DEF TypeOK
<1>8. Chained' /\ Pristine'
  BY <1>1, <1>6 DEF Chained, Pristine
<1>9. DeletesMark'
  BY <1>1, <1>6 DEF DeletesMark, Marks, Busy
<1>10. Files'
  <2>1. CASE path = "root"
    BY <1>1, <1>2, <1>3, <1>4, <1>5, <2>1 DEF Files
  <2>2. CASE path # "root"
    BY <1>1, <1>5, <2>2 DEF Files
  <2>3. QED
    BY <2>1, <2>2
<1>11. Loadable' /\ Served'
  BY <1>1, <1>2, <1>3, <1>5, <1>6 DEF Loadable, Served
<1>12. GoneForGood'
  BY <1>1 DEF GoneForGood
<1>13. AllArchived'
  BY <1>1, <1>2, <1>6 DEF AllArchived
<1>14. QED
  BY <1>6, <1>7, <1>8, <1>9, <1>10, <1>11, <1>12, <1>13

\* A write fails, and those that are chained to it.
LEMMA InvWriteFails == ASSUME Inv, WriteFails \/ WriteRejected PROVE Inv'
<1>1. faults \in Nat
  BY DEF Inv, TypeOK
<1>2. /\ queue # <<>> /\ head # "renamed" /\ Settle(FALSE)
      /\ UNCHANGED <<live, loaded, ver, store, written, word, gone, crashes>>
      /\ faults' = faults \/ faults' = faults + 1
  BY DEF WriteFails, WriteRejected, Inv, Chained, past
<1>3. faults' \in Nat
  BY <1>1, <1>2
<1>4. QED
  BY <1>2, <1>3, InvSettles

\* The files are removed, and then the agent is forgotten.
LEMMA InvUnlink == ASSUME Inv, NEW c \in Callers, Unlink(c) PROVE Inv'
<1> USE DEF Inv
<1>1. /\ call[c].at = "unlinking"
      /\ UNCHANGED <<live, loaded, ver, deleting, queue, head, broken, snaps, word, faults, crashes>>
  BY DEF Unlink, Ready, chain
<1>2. deleting /\ head = "queued" /\ ver # 0 /\ word # "archived"
  BY <1>1 DEF DeletesMark, Marks, Busy, Pristine, AllArchived
<1>3. /\ {live, loaded, deleting, broken, gone} \subseteq BOOLEAN
      /\ {ver, faults, crashes} \subseteq Nat /\ disk \in [Places -> Record \cup {None}]
      /\ known \subseteq Places /\ queue \in Seq(Record) /\ snaps \in Seq(Snapshot)
      /\ call \in [Callers -> Call] /\ word \in {"none", "archived"}
  BY DEF TypeOK
<1>4. Chained' /\ Pristine' /\ AllArchived'
  BY <1>1, <1>2 DEF Chained, Pristine, AllArchived
<1>5. CASE \E p \in known :
             /\ disk' = [disk EXCEPT ![p] = None] /\ known' = known \ {p}
             /\ UNCHANGED <<path, cache, written, gone, call>>
  <2>1. PICK p \in known :
          /\ disk' = [disk EXCEPT ![p] = None] /\ known' = known \ {p}
          /\ UNCHANGED <<path, cache, written, gone, call>>
    BY <1>5
  <2>2. p \in Places /\ disk[p] # None
    BY DEF Files
  <2>3. TypeOK'
    BY <1>1, <1>3, <2>1, <2>2 DEF TypeOK
  <2>4. SnapsOwned' /\ DeletesMark'
    BY <1>1, <2>1 DEF SnapsOwned, DeletesMark, Marks, Busy
  <2>5. Files'
    BY <1>3, <2>1, <2>2 DEF Files
  <2>6. Loadable' /\ Served' /\ GoneForGood'
    BY <1>1, <1>2, <2>1, <2>2 DEF Loadable, Served, GoneForGood, Unlinking
  <2>7. QED
    BY <1>4, <2>3, <2>4, <2>5, <2>6
<1>6. CASE /\ known = {} /\ Ends(c)
           /\ cache' = None /\ path' = None /\ written' = None /\ gone' = TRUE
           /\ UNCHANGED <<disk, known>>
  <2>1. /\ call' \in [Callers -> Call] /\ call'[c].at = "done"
        /\ \A d \in Callers \ {c} : call'[d] = call[d]
    BY <1>6, AwaitsDoes DEF Ends, Ats
  <2>2. \A p \in Places : disk[p] = None
    BY <1>6 DEF Files
  <2>3. gone' \in BOOLEAN
    BY <1>6, Zenon
  <2>4. TypeOK'
    BY <1>1, <1>3, <1>6, <2>1, <2>3 DEF TypeOK
  <2>5. SnapsOwned'
    BY <1>1, <2>1 DEF SnapsOwned
  <2>6. DeletesMark'
    BY <1>1, <2>1 DEF DeletesMark, Marks, Busy
  <2>7. Files'
    BY <1>6 DEF Files
  <2>8. Loadable' /\ Served' /\ GoneForGood'
    BY <1>1, <1>2, <1>6, <2>2 DEF Loadable, Served, GoneForGood, Places
  <2>9. QED
    BY <1>4, <2>4, <2>5, <2>6, <2>7, <2>8
<1>7. QED
  BY <1>5, <1>6 DEF Unlink

\* What a restart loads is what was written last.
LEMMA InvRestart == ASSUME Inv, Restart PROVE Inv'
<1> USE DEF Inv
<1>1. /\ crashes' = crashes + 1
      /\ live' = FALSE /\ loaded' = FALSE /\ deleting' = FALSE
      /\ queue' = <<>> /\ head' = "queued" /\ broken' = FALSE /\ snaps' = <<>>
      /\ known' = {p \in Places : disk[p] # None}
      /\ path' = IF known' = {} THEN None ELSE LoadedFrom(disk)
      /\ cache' = IF known' = {} THEN None ELSE disk[LoadedFrom(disk)]
      /\ written' = IF Unlinking THEN cache' ELSE written
      /\ UNCHANGED <<ver, disk, word, gone, faults>>
  BY DEF Restart, Unlinking
<1>2. PICK found : found = IF disk["project"] # None THEN disk["project"] ELSE disk["root"]
  OBVIOUS
<1>3. disk \in [Places -> Record \cup {None}] /\ Places = {"root", "project"}
  BY DEF TypeOK, Places
<1>4. cache' = found /\ found \in Record \cup {None} /\ path' \in Places \cup {None}
  BY <1>1, <1>2, <1>3 DEF LoadedFrom
<1>5. written' = found
  BY <1>1, <1>2, <1>4 DEF Loadable
<1>6. /\ call' \in [Callers -> Call]
      /\ \A c \in Callers : /\ call'[c].at \in {"new", "done"}
                            /\ call[c].at = "new" => call'[c] = call[c]
  <2>1. ASSUME NEW c \in Callers
        PROVE  /\ call'[c] \in Call /\ call'[c].at \in {"new", "done"}
               /\ call[c].at = "new" => call'[c] = call[c]
    <3>1. call[c] \in Call
      BY DEF TypeOK
    <3>2. call'[c] = IF call[c].at = "new" THEN call[c]
                     ELSE [call[c] EXCEPT !.at = "done", !.ahead = 0]
      BY DEF Restart
    <3>3. PICK w : w = call[c]
      OBVIOUS
    <3>4. [w EXCEPT !.at = "done", !.ahead = 0] \in Call
      BY <3>1, <3>3 DEF Call
    <3>5. [w EXCEPT !.at = "done", !.ahead = 0].at = "done"
      BY <3>1, <3>3 DEF Call
    <3>6. QED
      BY <3>1, <3>2, <3>3, <3>4, <3>5
  <2>2. call' \in [Callers -> Call]
    BY <2>1 DEF Restart
  <2>3. QED
    BY <2>1, <2>2
<1>7. TypeOK'
  <2>1. {live', loaded', deleting', broken', gone'} \subseteq BOOLEAN
    <3>1. gone \in BOOLEAN
      BY DEF TypeOK
    <3>2. QED
      BY <1>1, <3>1, Zenon
  <2>2. {ver', faults', crashes'} \subseteq Nat /\ word' \in {"none", "archived"}
    BY <1>1 DEF TypeOK
  <2>3. queue' \in Seq(Record) /\ snaps' \in Seq(Snapshot) /\ known' \subseteq Places
    BY <1>1
  <2>4. QED
    BY <1>1, <1>3, <1>4, <1>5, <1>6, <2>1, <2>2, <2>3 DEF TypeOK
<1>8. Chained' /\ SnapsOwned' /\ Files' /\ DeletesMark'
  BY <1>1, <1>6 DEF Chained, SnapsOwned, Files, DeletesMark, Marks, Busy
<1>9. Pristine'
  <2>1. ver = 0 => cache' = None
    BY <1>2, <1>3, <1>4 DEF Pristine
  <2>2. QED
    BY <1>1, <1>6, <2>1 DEF Pristine
<1>10. Loadable' /\ Served'
  BY <1>1, <1>2, <1>4, <1>5 DEF Loadable, Served
<1>11. GoneForGood'
  <2>1. gone => cache' = None /\ written' = None
    BY <1>2, <1>3, <1>4, <1>5 DEF GoneForGood
  <2>2. QED
    BY <1>1, <1>6, <2>1 DEF GoneForGood
<1>12. AllArchived'
  <2>1. word = "archived" => ~Unlinking
    BY DEF AllArchived, DeletesMark, Marks, Busy, Unlinking
  <2>2. word = "archived" => found # None /\ found.archived
    BY <1>2, <2>1 DEF AllArchived, Loadable
  <2>3. QED
    BY <1>1, <1>4, <1>5, <2>2 DEF AllArchived
<1>13. QED
  BY <1>7, <1>8, <1>9, <1>10, <1>11, <1>12

-----------------------------------------------------------------------------
(* Theorems *)

\* Every step keeps the invariant.
LEMMA InvNext == Inv /\ [Next]_vars => Inv'
<1> SUFFICES ASSUME Inv, [Next]_vars PROVE Inv'
  OBVIOUS
<1>1. CASE Register \/ Change
  BY <1>1, InvRegisterChange
<1>2. CASE ApplySnapshot
  BY <1>2, InvApplySnapshot
<1>3. CASE WriteBegins
  BY <1>3, InvWriteBegins
<1>4. CASE WriteRenames
  BY <1>4, InvWriteRenames
<1>5. CASE WriteEnds
  BY <1>5, InvWriteEnds
<1>6. CASE WriteFails \/ WriteRejected
  BY <1>6, InvWriteFails
<1>7. ASSUME NEW c \in Callers,
             Title(c) \/ Archive(c) \/ ArchiveStored(c) \/ Unarchive(c) \/ Delete(c)
      PROVE  Inv'
  BY <1>7, InvTitle, InvSnaps, InvChains, InvDelete
<1>8. ASSUME NEW c \in Callers, Step(c) PROVE Inv'
  <2>1. CASE TitleReads(c) \/ Titled(c)
    BY <2>1, InvTitle
  <2>2. CASE ArchiveMarks(c)
    BY <2>2, InvChains
  <2>3. CASE ArchiveNotifies(c) \/ Close(c) \/ Remove(c)
    BY <2>3, InvWaitSteps
  <2>4. CASE Closed(c)
    BY <2>4, InvSnaps
  <2>5. CASE CloseEnds(c) \/ StoredArchived(c) \/ Unarchived(c)
    BY <2>5, InvEnds
  <2>6. CASE Unlink(c)
    BY <2>6, InvUnlink
  <2>7. QED
    BY <1>8, <2>1, <2>2, <2>3, <2>4, <2>5, <2>6 DEF Step
<1>9. CASE Restart
  BY <1>9, InvRestart
<1>10. CASE UNCHANGED vars
  BY <1>10 DEF vars, store, chain, past, Inv, TypeOK, Chained, Pristine, SnapsOwned, DeletesMark,
               Marks, Busy, Files, Loadable, Served, GoneForGood, AllArchived, Unlinking
<1>11. QED
  BY <1>1, <1>2, <1>3, <1>4, <1>5, <1>6, <1>7, <1>8, <1>9, <1>10 DEF Next

\* The invariant holds of every behaviour of the record.
THEOREM RecordsInvariant == Spec => []Inv
<1>1. Init => Inv
  BY InvInit
<1>2. Inv /\ [Next]_vars => Inv'
  BY InvNext
<1>3. QED
  BY <1>1, <1>2, PTL DEF Spec

\* The record, its files and the calls on it keep their shape (AgentStorage).
THEOREM RecordTypes == Spec => []TypeOK
<1>1. Inv => TypeOK
  BY DEF Inv
<1>2. QED
  BY <1>1, RecordsInvariant, PTL

\* The record served is the one written last, whatever fails and wherever the
\* daemon stops (writeRecord, scanDisk).
THEOREM LastWrittenServed == Spec => []ServesLastWritten
<1>1. Inv => ServesLastWritten
  BY DEF Inv, Served, ServesLastWritten, Unlinking
<1>2. QED
  BY <1>1, RecordsInvariant, PTL

\* A removed agent does not come back, and an archived one stays archived until
\* it is unarchived or deleted (remove, applySnapshot, markRecordArchived).
THEOREM WordsLast == Spec => []WordLasts
<1>1. Inv => WordLasts
  BY DEF Inv, GoneForGood, AllArchived, WordLasts, RemovedStaysGone, ArchiveLasts
<1>2. QED
  BY <1>1, RecordsInvariant, PTL

-----------------------------------------------------------------------------
(* The record of a loaded agent *)

NoneFailed == faults = 0 => ~broken /\ \A c \in Callers : ~call[c].failed

\* Calls whose record may be of an older state: each then emits the present one.
Rewrites == {"titling", "archiving", "storing", "unarchiving"}

\* The last snapshot that waits, or else the last record, is of the present
\* state, unless a call is going to take one.
Current ==
    live /\ ~deleting /\ faults = 0 =>
        IF snaps # <<>> THEN snaps[Len(snaps)].ver \in {None, ver}
        ELSE \/ \E c \in Callers : call[c].at \in Rewrites
             \/ IF queue # <<>> THEN queue[Len(queue)].ver = ver
                ELSE cache # None /\ cache.ver = ver

\* What is added comes last.
LEMMA AddedLast ==
    ASSUME NEW s \in Seq(Snapshot), NEW e \in Seq(Snapshot), e # <<>>
    PROVE  s \o e # <<>> /\ (s \o e)[Len(s \o e)] = e[Len(e)]
<1>1. Len(s) \in Nat /\ Len(e) \in Nat /\ Len(e) # 0
  OBVIOUS
<1>2. PICK r : r = s \o e
  OBVIOUS
<1>3. r \in Seq(Snapshot) /\ Len(r) = Len(s) + Len(e)
  BY <1>2
<1>4. r[Len(s) + Len(e)] = e[Len(e)]
  BY <1>1, <1>2
<1>5. QED
  BY <1>1, <1>2, <1>3, <1>4

\* What emitState adds ends with the state it is given.
LEMMA EmittedEnds ==
    ASSUME queue \in Seq(Record), NEW own \in BOOLEAN, NEW v \in Nat
    PROVE  /\ Emitted(own, v) \in Seq(Snapshot) /\ Emitted(own, v) # <<>>
           /\ Emitted(own, v)[Len(Emitted(own, v))].ver = v
<1>1. PICK a, b : /\ a = [ahead |-> Len(queue), by |-> None, ver |-> None]
                  /\ b = [ahead |-> Len(queue), by |-> None, ver |-> v]
  OBVIOUS
<1>2. PICK x, y : x = (IF own THEN <<a>> ELSE <<>>) /\ y = <<b>>
  OBVIOUS
<1>3. Emitted(own, v) = x \o y /\ b.ver = v
  BY <1>1, <1>2 DEF Emitted
<1>4. a \in Snapshot /\ b \in Snapshot
  <2>1. Len(queue) \in Nat
    OBVIOUS
  <2>2. QED
    BY <1>1, <2>1 DEF Snapshot
<1>5. /\ x \in Seq(Snapshot) /\ y \in Seq(Snapshot) /\ y # <<>> /\ y[Len(y)] = b
      /\ x \o y \in Seq(Snapshot)
  BY <1>2, <1>4
<1>6. QED
  BY <1>3, <1>5, AddedLast

\* A call goes on, is made or is over without a failure.
LEMMA GoesUnfailed ==
    ASSUME TypeOK, NoneFailed, UNCHANGED <<faults, broken>>, NEW c \in Callers,
           \/ \E at, n : Awaits(c, at, n)
           \/ \E kind, at, n : Starts(c, kind, at, n)
           \/ call' = [call EXCEPT ![c].at = "done"]
           \/ call' = call
    PROVE  NoneFailed'
<1>1. \A d \in Callers : call[d] \in Call /\ d \in DOMAIN call
  BY DEF TypeOK
<1>2. \A d \in Callers : call'[d].failed => call[d].failed
  <2>1. CASE \E at, n : Awaits(c, at, n)
    BY <1>1, <2>1 DEF Awaits, Call
  <2>2. CASE \E kind, at, n : Starts(c, kind, at, n)
    BY <1>1, <2>2 DEF Starts, NewCall
  <2>3. CASE call' = [call EXCEPT ![c].at = "done"]
    BY <1>1, <2>3 DEF Call
  <2>4. CASE call' = call
    BY <2>4
  <2>5. QED
    BY <2>1, <2>2, <2>3, <2>4
<1>3. QED
  BY <1>2 DEF NoneFailed

\* A write that is settled without a failure fails no call.
LEMMA SettledUnfailed ==
    ASSUME TypeOK, NoneFailed, faults' = faults, Settle(TRUE)
    PROVE  NoneFailed'
<1>1. broken' = FALSE
  BY DEF Settle
<1>2. ASSUME NEW c \in Callers, faults = 0 PROVE ~call'[c].failed
  <2>1. call[c] \in Call /\ ~call[c].failed
    BY <1>2 DEF TypeOK, NoneFailed
  <2>2. PICK w, n : w = call[c] /\ n = OneLess(call[c].ahead)
    OBVIOUS
  <2>3. call'[c] = [w EXCEPT !.ahead = n, !.failed = IF w.ahead = 1 THEN ~TRUE ELSE w.failed]
    BY <2>2 DEF Settle
  <2>4. QED
    BY <2>1, <2>2, <2>3 DEF Call
<1>3. QED
  BY <1>1, <1>2 DEF NoneFailed

\* While no write has failed, no call has.
LEMMA NoneFailedNext == ASSUME Inv, NoneFailed, [Next]_vars PROVE NoneFailed'
<1> USE DEF Inv
<1>1. CASE Register \/ Change \/ WriteRenames \/ UNCHANGED vars
  <2>1. UNCHANGED <<faults, broken, call>>
    BY <1>1 DEF Register, Change, WriteRenames, vars, past, chain
  <2>2. QED
    BY <2>1 DEF NoneFailed
<1>2. CASE ApplySnapshot
  <2>1. UNCHANGED <<faults, broken>>
    BY <1>2 DEF ApplySnapshot, Enqueue, past
  <2>2. CASE Head(snaps).by = None
    <3>1. call' = call
      BY <1>2, <2>2 DEF ApplySnapshot
    <3>2. QED
      BY <2>1, <3>1 DEF NoneFailed
  <2>3. CASE Head(snaps).by # None
    <3>1. Head(snaps).by \in Callers
      <4>1. snaps \in Seq(Snapshot) /\ snaps # <<>>
        BY <1>2 DEF ApplySnapshot, TypeOK
      <4>2. Head(snaps) \in Snapshot
        BY <4>1
      <4>3. QED
        BY <2>3, <4>2 DEF Snapshot
    <3>2. \E at, n : Awaits(Head(snaps).by, at, n)
      BY <1>2, <2>3 DEF ApplySnapshot
    <3>3. QED
      BY <2>1, <3>1, <3>2, GoesUnfailed
  <2>4. QED
    BY <2>2, <2>3
<1>3. CASE WriteBegins
  <2>1. CASE deleting
    BY <1>3, <2>1, SettledUnfailed DEF WriteBegins, past
  <2>2. CASE ~deleting
    BY <1>3, <2>2 DEF WriteBegins, past, NoneFailed
  <2>3. QED
    BY <2>1, <2>2
<1>4. CASE WriteEnds
  BY <1>4, SettledUnfailed DEF WriteEnds, past
<1>5. CASE WriteFails
  BY <1>5 DEF WriteFails, TypeOK, NoneFailed
<1>6. CASE WriteRejected
  BY <1>6 DEF WriteRejected, NoneFailed, past
<1>7. ASSUME NEW c \in Callers,
             Title(c) \/ Archive(c) \/ ArchiveStored(c) \/ Unarchive(c) \/ Delete(c)
      PROVE  NoneFailed'
  <2>1. UNCHANGED <<faults, broken>>
    BY <1>7 DEF Title, Archive, ArchiveStored, Unarchive, Delete, Enqueue, past, chain
  <2>2. \E kind, at, n : Starts(c, kind, at, n)
    BY <1>7 DEF Title, Archive, ArchiveStored, Unarchive, Delete
  <2>3. QED
    BY <2>1, <2>2, GoesUnfailed
<1>8. ASSUME NEW c \in Callers, Step(c) PROVE NoneFailed'
  <2>1. UNCHANGED <<faults, broken>>
    BY <1>8 DEF Step, TitleReads, Titled, ArchiveMarks, ArchiveNotifies, Close, Closed, CloseEnds,
                StoredArchived, Unarchived, Remove, Unlink, Enqueue, past, chain
  <2>2. (\E at, n : Awaits(c, at, n)) \/ call' = [call EXCEPT ![c].at = "done"] \/ call' = call
    BY <1>8 DEF Step, TitleReads, Titled, ArchiveMarks, ArchiveNotifies, Close, Closed, CloseEnds,
                StoredArchived, Unarchived, Remove, Unlink, Ends
  <2>3. QED
    BY <2>1, <2>2, GoesUnfailed
<1>9. CASE Restart
  <2>1. broken' = FALSE /\ faults' = faults
    BY <1>9 DEF Restart
  <2>2. \A c \in Callers : call'[c].failed => call[c].failed
    <3> TAKE c \in Callers
    <3>1. call[c] \in Call
      BY DEF TypeOK
    <3>2. PICK w : w = call[c]
      OBVIOUS
    <3>3. call'[c] = IF w.at = "new" THEN w ELSE [w EXCEPT !.at = "done", !.ahead = 0]
      BY <1>9, <3>2 DEF Restart
    <3>4. [w EXCEPT !.at = "done", !.ahead = 0].failed = w.failed
      BY <3>1, <3>2 DEF Call
    <3>5. QED
      BY <3>2, <3>3, <3>4
  <2>3. QED
    BY <2>1, <2>2 DEF NoneFailed
<1>10. QED
  BY <1>1, <1>2, <1>3, <1>4, <1>5, <1>6, <1>7, <1>8, <1>9 DEF Next

\* The present state is emitted, or a snapshot of it asked for.
LEMMA CurrentEmits ==
    ASSUME snaps' # <<>>, snaps'[Len(snaps')].ver \in {None, ver'}
    PROVE  Current'
  BY DEF Current

\* A call goes on that does not rewrite the record, or begins to.
LEMMA CurrentGoes ==
    ASSUME Current, NEW c \in Callers, \A d \in Callers \ {c} : call'[d] = call[d],
           UNCHANGED <<live, ver, deleting, faults, snaps>>,
           \/ call[c].at \notin Rewrites /\ UNCHANGED <<queue, cache>>
           \/ call'[c].at \in Rewrites
    PROVE  Current'
  BY DEF Current

\* Agent c is loaded or not: what a notification leaves is current.
LEMMA CurrentNotified ==
    ASSUME Inv, Current, ver # 0, Notified, UNCHANGED live
    PROVE  Current'
<1>1. CASE live
  <2>1. ver \in Nat /\ queue \in Seq(Record) /\ snaps \in Seq(Snapshot)
    BY DEF Inv, TypeOK
  <2>2. ver' = ver + 1 /\ snaps' = snaps \o Emitted(TRUE, ver + 1)
    BY <1>1 DEF Notified
  <2>3. ver + 1 \in Nat
    BY <2>1
  <2>4. /\ Emitted(TRUE, ver + 1) \in Seq(Snapshot) /\ Emitted(TRUE, ver + 1) # <<>>
        /\ Emitted(TRUE, ver + 1)[Len(Emitted(TRUE, ver + 1))].ver = ver + 1
    BY <2>1, <2>3, EmittedEnds
  <2>5. QED
    BY <2>1, <2>2, <2>4, AddedLast, CurrentEmits
<1>2. CASE ~live
  BY <1>2 DEF Current
<1>3. QED
  BY <1>1, <1>2

\* The last snapshot that waits chains a record of the present state.
LEMMA CurrentApplies == ASSUME Inv, Current, ApplySnapshot PROVE Current'
<1> SUFFICES ASSUME live, ~deleting, faults = 0 PROVE Current'
  BY DEF Current, ApplySnapshot, store, past
<1>1. /\ snaps # <<>> /\ snaps' = Tail(snaps)
      /\ queue' = Append(queue, SnapshotRecord(Head(snaps)))
      /\ UNCHANGED <<live, ver, deleting, faults>>
  BY DEF ApplySnapshot, Enqueue, store, past
<1>2. snaps \in Seq(Snapshot) /\ queue \in Seq(Record)
  BY DEF Inv, TypeOK
<1>3. snaps[Len(snaps)].ver \in {None, ver}
  BY <1>1 DEF Current
<1>4. /\ Len(snaps) \in Nat /\ Len(snaps) # 0 /\ Len(snaps') = Len(snaps) - 1
      /\ \A i \in 1..(Len(snaps) - 1) : snaps'[i] = snaps[i + 1]
      /\ Head(snaps) = snaps[1]
  BY <1>1, <1>2
<1>5. CASE snaps' # <<>>
  <2>1. Len(snaps') # 0
    <3>1. snaps' \in Seq(Snapshot)
      BY <1>1, <1>2
    <3>2. QED
      BY <1>5, <3>1
  <2>2. snaps'[Len(snaps')] = snaps[Len(snaps)]
    BY <1>4, <2>1
  <2>3. QED
    BY <1>1, <1>3, <1>5, <2>2, CurrentEmits
<1>6. CASE snaps' = <<>>
  <2>1. Len(snaps) = 1
    BY <1>4, <1>6
  <2>2. PICK rec : rec = SnapshotRecord(Head(snaps))
    OBVIOUS
  <2>3. rec.ver = ver
    BY <1>3, <1>4, <2>1, <2>2, NoneAssumption DEF SnapshotRecord, ObjectVer
  <2>4. queue' = Append(queue, rec)
    BY <1>1, <2>2
  <2>5. queue' # <<>> /\ queue'[Len(queue')] = rec
    BY <1>2, <2>4
  <2>6. QED
    BY <1>1, <1>6, <2>3, <2>5 DEF Current
<1>7. QED
  BY <1>5, <1>6

\* The last record that is written is the one that is cached.
LEMMA CurrentSettles == ASSUME Inv, Current, WriteEnds PROVE Current'
<1> SUFFICES ASSUME live, ~deleting, faults = 0 PROVE Current'
  BY DEF Current, WriteEnds, past
<1>1. /\ head = "renamed" /\ queue # <<>> /\ Settle(TRUE) /\ cache' = Head(queue)
      /\ UNCHANGED <<live, ver, deleting, faults>>
  BY DEF WriteEnds, Inv, Chained, past
<1>2. snaps \in Seq(Snapshot) /\ queue \in Seq(Record)
  BY DEF Inv, TypeOK
<1>3. /\ queue' = Tail(queue)
      /\ snaps' = [i \in DOMAIN snaps |-> [snaps[i] EXCEPT !.ahead = OneLess(@)]]
      /\ \A c \in Callers : call'[c].at = call[c].at
  <2>1. \A c \in Callers : call'[c].at = call[c].at
    BY <1>1, SettleDoes
  <2>2. QED
    BY <1>1, <2>1 DEF Settle
<1>4. CASE snaps # <<>>
  <2>1. Len(snaps) \in DOMAIN snaps /\ Len(snaps) \in Nat /\ DOMAIN snaps = 1..Len(snaps)
    BY <1>2, <1>4
  <2>2. PICK n, x : n = Len(snaps) /\ x = snaps[n]
    OBVIOUS
  <2>3. x \in Snapshot /\ x.ver \in {None, ver}
    <3>1. snaps[Len(snaps)].ver \in {None, ver}
      BY <1>4 DEF Current
    <3>2. snaps[Len(snaps)] \in Snapshot
      BY <1>2, <2>1
    <3>3. QED
      BY <2>2, <3>1, <3>2
  <2>4. snaps'[n] = [x EXCEPT !.ahead = OneLess(@)]
    BY <1>3, <2>1, <2>2
  <2>5. snaps'[n].ver = x.ver
    BY <2>3, <2>4 DEF Snapshot
  <2>6. snaps' \in Seq(Snapshot) /\ DOMAIN snaps' = 1..n
    <3>1. snaps' \in Seq(Snapshot)
      BY <1>1, SettleDoes
    <3>2. DOMAIN snaps' = DOMAIN snaps
      BY <1>3
    <3>3. QED
      BY <2>1, <2>2, <3>1, <3>2
  <2>7. Len(snaps') = n /\ snaps' # <<>>
    BY <2>1, <2>2, <2>6
  <2>8. QED
    BY <1>1, <2>3, <2>5, <2>7, CurrentEmits
<1>5. CASE snaps = <<>>
  <2>1. snaps' = <<>>
    BY <1>1, <1>5, SettleDoes
  <2>2. CASE \E c \in Callers : call[c].at \in Rewrites
    <3>1. \E c \in Callers : call'[c].at \in Rewrites
      BY <1>3, <2>2
    <3>2. QED
      BY <2>1, <3>1 DEF Current
  <2>3. CASE queue[Len(queue)].ver = ver
    <3>1. /\ Len(queue) \in Nat /\ Len(queue) # 0 /\ Head(queue) = queue[1]
          /\ queue' \in Seq(Record) /\ Len(queue') = Len(queue) - 1
          /\ \A i \in 1..(Len(queue) - 1) : queue'[i] = queue[i + 1]
          /\ Head(queue) \in Record
      BY <1>1, <1>2, <1>3
    <3>2. CASE queue' # <<>>
      <4>1. Len(queue') # 0
        BY <3>1, <3>2
      <4>2. queue'[Len(queue')] = queue[Len(queue)]
        BY <3>1, <4>1
      <4>3. QED
        BY <1>1, <2>1, <2>3, <3>2, <4>2 DEF Current
    <3>3. CASE queue' = <<>>
      <4>1. Len(queue) = 1
        BY <3>1, <3>3
      <4>2. cache'.ver = ver /\ cache' # None
        BY <1>1, <2>3, <3>1, <4>1, NoneAssumption
      <4>3. QED
        BY <1>1, <2>1, <3>3, <4>2 DEF Current
    <3>4. QED
      BY <3>2, <3>3
  <2>4. QED
    BY <1>1, <1>5, <2>2, <2>3 DEF Current
<1>6. QED
  BY <1>4, <1>5

\* Every step keeps the record of a loaded agent, or what is to be written of
\* it, current.
LEMMA CurrentNext == ASSUME Inv, NoneFailed, Current, [Next]_vars PROVE Current'
<1>1. /\ queue \in Seq(Record) /\ snaps \in Seq(Snapshot) /\ ver \in Nat /\ ver + 1 \in Nat
      /\ call \in [Callers -> Call] /\ TypeOK /\ faults \in Nat
  BY DEF Inv, TypeOK
<1>2. CASE Register \/ Change
  <2>1. snaps' = snaps \o Emitted(TRUE, ver + 1) /\ ver' = ver + 1
    BY <1>2 DEF Register, Change
  <2>2. /\ Emitted(TRUE, ver + 1) \in Seq(Snapshot) /\ Emitted(TRUE, ver + 1) # <<>>
        /\ Emitted(TRUE, ver + 1)[Len(Emitted(TRUE, ver + 1))].ver = ver + 1
    BY <1>1, EmittedEnds
  <2>3. QED
    BY <1>1, <2>1, <2>2, AddedLast, CurrentEmits
<1>3. CASE ApplySnapshot
  BY <1>3, CurrentApplies
<1>4. CASE WriteEnds
  BY <1>4, CurrentSettles
<1>5. CASE WriteBegins
  BY <1>5 DEF WriteBegins, Current, store, past
<1>6. CASE WriteRenames
  BY <1>6 DEF WriteRenames, Current
<1>7. CASE WriteFails \/ WriteRejected
  <2>1. CASE WriteFails
    <3>1. faults' = faults + 1
      BY <2>1 DEF WriteFails
    <3>2. faults' # 0
      BY <1>1, <3>1
    <3>3. QED
      BY <3>2 DEF Current
  <2>2. CASE WriteRejected
    BY <2>2 DEF WriteRejected, NoneFailed, Current, past
  <2>3. QED
    BY <1>7, <2>1, <2>2
<1>8. ASSUME NEW c \in Callers, Title(c) \/ ArchiveStored(c) \/ Unarchive(c) PROVE Current'
  <2>1. UNCHANGED <<live, ver, deleting, faults, snaps>>
    BY <1>8 DEF Title, ArchiveStored, Unarchive, store, past
  <2>2. call[c].at = "new" /\ \A d \in Callers \ {c} : call'[d] = call[d]
    BY <1>1, <1>8 DEF Title, ArchiveStored, Unarchive, Starts
  <2>3. CASE Title(c)
    BY <2>1, <2>2, <2>3, CurrentGoes DEF Title, Rewrites, store, chain
  <2>4. CASE ArchiveStored(c) \/ Unarchive(c)
    <3>1. \E kind : \E at \in {"storing", "unarchiving"} :
             call' = [call EXCEPT ![c] = [NewCall EXCEPT !.at = at, !.kind = kind, !.ahead = Len(queue) + 1]]
      BY <2>4 DEF ArchiveStored, Unarchive, Starts
    <3>2. call'[c].at \in Rewrites
      BY <1>1, <3>1 DEF NewCall, Rewrites
    <3>3. QED
      BY <2>1, <2>2, <3>2, CurrentGoes
  <2>5. QED
    BY <1>8, <2>3, <2>4
<1>9. ASSUME NEW c \in Callers, Archive(c) \/ Closed(c) PROVE Current'
  <2>1. PICK v \in {None, ver} : snaps' = Append(snaps, [ahead |-> Len(queue), by |-> c, ver |-> v])
    BY <1>9 DEF Archive, Closed
  <2>2. PICK e : e = [ahead |-> Len(queue), by |-> c, ver |-> v]
    OBVIOUS
  <2>3. snaps' = Append(snaps, e) /\ e.ver = v
    BY <2>1, <2>2
  <2>4. snaps' # <<>> /\ snaps'[Len(snaps')] = e
    BY <1>1, <2>3
  <2>5. ver' = ver
    BY <1>9 DEF Archive, Closed
  <2>6. QED
    BY <2>1, <2>3, <2>4, <2>5, CurrentEmits
<1>10. ASSUME NEW c \in Callers, Delete(c) \/ Unlink(c) PROVE Current'
  <2>1. deleting'
    BY <1>10 DEF Delete, Unlink, Ready, Inv, DeletesMark, Marks, Busy
  <2>2. QED
    BY <2>1 DEF Current
<1>11. ASSUME NEW c \in Callers, TitleReads(c) \/ ArchiveMarks(c) PROVE Current'
  <2>1. /\ UNCHANGED <<live, ver, deleting, faults, snaps>>
        /\ \/ Ends(c) /\ UNCHANGED <<queue, cache>>
           \/ \E n : Awaits(c, "titling", n) \/ Awaits(c, "archiving", n)
        /\ call[c].at \notin Rewrites
    BY <1>11 DEF TitleReads, ArchiveMarks, Ready, Rewrites, store, past, chain
  <2>2. \A d \in Callers \ {c} : call'[d] = call[d]
    BY <1>1, <2>1 DEF Ends, Awaits
  <2>3. (\E n : Awaits(c, "titling", n) \/ Awaits(c, "archiving", n)) => call'[c].at \in Rewrites
    BY <1>1 DEF Awaits, Rewrites, Call
  <2>4. QED
    BY <2>1, <2>2, <2>3, CurrentGoes
<1>12. ASSUME NEW c \in Callers, Titled(c) PROVE Current'
  <2> SUFFICES ASSUME live, faults = 0 PROVE Current'
    BY <1>12 DEF Titled, Current, past
  <2>1. snaps' = snaps \o Emitted(FALSE, ver) /\ ver' = ver
    BY <1>12 DEF Titled, NoneFailed, ObjectVer
  <2>2. /\ Emitted(FALSE, ver) \in Seq(Snapshot) /\ Emitted(FALSE, ver) # <<>>
        /\ Emitted(FALSE, ver)[Len(Emitted(FALSE, ver))].ver = ver
    BY <1>1, EmittedEnds
  <2>3. QED
    BY <1>1, <2>1, <2>2, AddedLast, CurrentEmits
<1>13. ASSUME NEW c \in Callers, ArchiveNotifies(c) \/ StoredArchived(c) \/ Unarchived(c)
       PROVE  Current'
  <2> SUFFICES ASSUME faults = 0 PROVE Current'
    BY <1>13 DEF ArchiveNotifies, StoredArchived, Unarchived, Current, past
  <2>1. Notified /\ UNCHANGED live /\ Busy(c)
    BY <1>13 DEF ArchiveNotifies, StoredArchived, Unarchived, NoneFailed, Ready, Busy
  <2>2. ver # 0
    BY <2>1, UnderWay
  <2>3. QED
    BY <2>1, <2>2, CurrentNotified
<1>14. ASSUME NEW c \in Callers, Close(c) \/ CloseEnds(c) \/ Remove(c) PROVE Current'
  <2>1. CASE live' = FALSE
    BY <2>1 DEF Current
  <2>2. CASE ~(live' = FALSE)
    <3>1. UNCHANGED <<live, ver, deleting, faults, snaps, queue, cache>> /\ call[c].at \notin Rewrites
      BY <1>14, <2>2 DEF Close, CloseEnds, Remove, Ready, Rewrites, store, past, chain
    <3>2. (\E at, n : Awaits(c, at, n)) \/ call' = [call EXCEPT ![c].at = "done"]
      BY <1>14, <2>2 DEF Close, CloseEnds, Remove, Ends
    <3>3. \A d \in Callers \ {c} : call'[d] = call[d]
      BY <1>1, <3>2 DEF Awaits
    <3>4. QED
      BY <3>1, <3>3, CurrentGoes
  <2>3. QED
    BY <2>1, <2>2
<1>15. CASE Restart
  BY <1>15 DEF Restart, Current
<1>16. CASE UNCHANGED vars
  BY <1>16 DEF vars, store, chain, past, Current
<1>17. QED
  BY <1>2, <1>3, <1>4, <1>5, <1>6, <1>7, <1>8, <1>9, <1>10, <1>11, <1>12, <1>13, <1>14, <1>15,
     <1>16 DEF Next, Step

\* When nothing is under way and no write has failed, the record of a loaded
\* agent is that of its present state (emitState, applySnapshot, setGeneratedTitle).
THEOREM RecordIsCurrent == Spec => []LiveIsCurrent
<1>1. Init => NoneFailed /\ Current
  BY DEF Init, NoneFailed, Current, NewCall
<1>2. Inv /\ NoneFailed /\ Current /\ [Next]_vars => NoneFailed' /\ Current'
  BY NoneFailedNext, CurrentNext
<1>3. Current => LiveIsCurrent
  BY DEF Current, LiveIsCurrent, Quiet, Busy, Rewrites
<1>4. QED
  BY <1>1, <1>2, <1>3, RecordsInvariant, PTL DEF Spec
=============================================================================
