-------------------------- MODULE SchedulesProofs --------------------------
(***************************************************************************)
(* Proofs about Schedules, for every number of schedules, ticks and calls, *)
(* every limit and expiry, and every bound on time, runs and restarts.     *)
(***************************************************************************)
EXTENDS Schedules, TLAPS

-----------------------------------------------------------------------------
(* The inductive invariant *)

\* What a caller holds at each step.
Shape(c) ==
    /\ work[c].at \in {"new", "idle"} => work[c].id = None /\ work[c].kind = "none"
    /\ work[c].at \notin {"new", "idle"} => work[c].id \in Ids
    /\ work[c].at \in {"called"} \cup Puts <=> work[c].copy # None
    /\ work[c].at = "called" => work[c].copy \in Schedule
    /\ work[c].at \in {"saving", "runner", "ending", "failing", "failed"} <=> work[c].run # 0
    /\ work[c].at = "new" \/ work[c].kind \in Kinds => c \in Users
    /\ work[c].kind = "pause" =>
         work[c].at = "putting" /\ (work[c].copy = Torn \/ work[c].copy.status = "paused")

Shapes == \A c \in Callers : Shape(c)

\* A schedule is marked as running while one caller has its run, the last one,
\* or after its run was given up.
Marked ==
    /\ \A c \in Callers : Running(c) => work[c].id \in running /\ work[c].run = fired[work[c].id]
    /\ \A s \in running : s \in stuck \/ \E c \in Callers : Running(c) /\ work[c].id = s
    /\ stuck \subseteq running /\ \A c \in Callers : Running(c) => work[c].id \notin stuck
    /\ \A c, d \in Callers : Running(c) /\ Running(d) /\ work[c].id = work[d].id => c = d

\* While start looks at what a restart has left nothing else is under way.
Recovering ==
    recovering # {} =>
        /\ running = {} /\ stuck = {}
        /\ \A c \in Callers : work[c].at \in {"new", "idle"}
        /\ \A t \in Ticks : \A s \in Ids : list[t][s] = None
        /\ \A s \in recovering : file[s] # None

\* A schedule of which there is a copy, or a word, has been created.
Known ==
    /\ \A s \in Ids : file[s] # None \/ word[s] # "none" => s <= made
    /\ \A c \in Callers : work[c].id # None => work[c].id <= made
    /\ \A t \in Ticks : \A s \in Ids : list[t][s] # None => s <= made

\* A copy of schedule s, in the store, in the list of a tick or about to be
\* put, respects the cadence, knows no run that has not begun nor the end of
\* one that has not ended, and is not active once s is paused for good.
Good(s, f) ==
    /\ f.status = "active" => f.next # 0
    /\ f.status = "paused" => f.next = 0
    /\ \A r \in RunIds : r > fired[s] => f.runs[r] = "none"
    /\ \A c \in Callers : work[c].at \in {"saving", "runner"} /\ work[c].id = s =>
         f.runs[work[c].run] # "ended"
    /\ word[s] = "paused" => f.status # "active"

Copies ==
    /\ \A s \in Ids : file[s] \in Schedule => Good(s, file[s])
    /\ \A c \in Callers : work[c].copy \in Schedule => Good(work[c].id, work[c].copy)
    /\ \A t \in Ticks : \A s \in Ids : list[t][s] # None => Good(s, list[t][s])

\* No copy is left of a schedule that was deleted for good.
Forgotten ==
    \A s \in Ids : word[s] = "deleted" => file[s] = None /\ \A c \in Callers : ~Holds(c, s)

Inv == TypeOK /\ Shapes /\ Marked /\ Recovering /\ Known /\ Copies /\ Forgotten

-----------------------------------------------------------------------------
(* Lemmas about what is computed of a schedule *)

\* A time that computeNextRunAt returns is in the future.
LEMMA NextLater ==
    ASSUME now \in Nat, NEW next \in Nat
    PROVE  NextAfter(next) \in Nat /\ NextAfter(next) # 0
  BY DEF NextAfter

\* A completed schedule keeps its runs.
LEMMA CompleteCopy ==
    ASSUME NEW f \in Schedule
    PROVE  /\ Complete(f) \in Schedule /\ Complete(f).runs = f.runs
           /\ Complete(f).status = "completed"
  BY DEF Complete, Schedule

\* What finishRun puts respects the cadence when what it has read does, does
\* not make a schedule active, and knows no other run.
LEMMA FinishedCopy ==
    ASSUME now \in Nat, NEW f \in Schedule, NEW run \in RunIds, NEW manual,
           NEW h, h = Finished(f, run, manual)
    PROVE  /\ h \in Schedule
           /\ (f.status = "active" => f.next # 0) => (h.status = "active" => h.next # 0)
           /\ (f.status = "paused" => f.next = 0) => (h.status = "paused" => h.next = 0)
           /\ h.status = "active" => f.status = "active"
           /\ \A r \in RunIds : f.runs[r] = "none" => h.runs[r] = "none"
<1> DEFINE g == [f EXCEPT !.runs[run] = IF @ = "none" THEN "none" ELSE "ended"]
<1>1. /\ g \in Schedule /\ g.status = f.status /\ g.next = f.next
      /\ \A r \in RunIds : f.runs[r] = "none" => g.runs[r] = "none"
  BY DEF Schedule
<1>2. NextAfter(f.next) \in Nat /\ NextAfter(f.next) # 0
  BY NextLater DEF Schedule
<1>3. h = IF manual THEN g
          ELSE IF ShouldComplete(g) THEN Complete(g)
          ELSE IF g.status = "paused" THEN [g EXCEPT !.next = 0]
          ELSE [g EXCEPT !.next = NextAfter(f.next)]
  BY DEF Finished
<1> HIDE DEF g
<1>4. CASE h = g
  BY <1>1, <1>4
<1>5. CASE h = Complete(g)
  <2>1. h \in Schedule /\ h.status = "completed" /\ h.runs = g.runs
    BY <1>1, <1>5, CompleteCopy
  <2>2. QED
    BY <1>1, <2>1
<1>6. CASE g.status = "paused" /\ h = [g EXCEPT !.next = 0]
  <2>1. h \in Schedule /\ h.status = "paused" /\ h.next = 0 /\ h.runs = g.runs
    BY <1>1, <1>6 DEF Schedule
  <2>2. QED
    BY <1>1, <2>1
<1>7. CASE g.status # "paused" /\ h = [g EXCEPT !.next = NextAfter(f.next)]
  <2>1. /\ h \in Schedule /\ h.status = g.status /\ h.next = NextAfter(f.next)
        /\ h.runs = g.runs
    BY <1>1, <1>2, <1>7 DEF Schedule
  <2>2. QED
    BY <1>1, <1>2, <1>7, <2>1
<1>8. QED
  BY <1>3, <1>4, <1>5, <1>6, <1>7

\* What a tick makes of an active schedule is that, or completed.
LEMMA JudgedCopy ==
    ASSUME NEW f \in Schedule
    PROVE  /\ Judged(f) \in Schedule /\ Judged(f).runs = f.runs
           /\ Judged(f) = f \/ Judged(f).status = "completed"
  BY CompleteCopy DEF Judged

-----------------------------------------------------------------------------
(* Lemmas about the steps *)

\* The initial state satisfies the invariant.
LEMMA InvInit == Init => Inv
<1> SUFFICES ASSUME Init PROVE Inv
  OBVIOUS
<1>1. \A s \in Ids : /\ file[s] \in Schedule \cup {None}
                     /\ file[s] # None => /\ s <= made /\ file[s].status = "paused"
                                          /\ file[s].next = 0
                                          /\ \A r \in RunIds : file[s].runs[r] = "none"
  BY TermsAssumption DEF Init, Fresh, Schedule
<1>2. TypeOK
  <2>1. file \in [Ids -> Schedule \cup {None, Torn}]
    BY <1>1 DEF Init
  <2>2. work \in [Callers -> Work]
    BY DEF Init, Work, Rest
  <2>3. list \in [Ticks -> [Ids -> Schedule \cup {None}]]
    BY DEF Init, Unlisted
  <2>4. fired \in [Ids -> 0..MaxFires]
    BY BoundsAssumption DEF Init
  <2>5. QED
    BY <2>1, <2>2, <2>3, <2>4 DEF Init, TypeOK
<1>3. Shapes
  BY KindsAssumption DEF Init, Shapes, Shape, Puts, Rest, AllKinds
<1>4. Marked /\ Recovering /\ Known /\ Copies /\ Forgotten
  <2>1. \A c \in Callers : /\ work[c].at \in {"new", "idle"} /\ work[c].id = None
                           /\ work[c].copy = None /\ work[c].run = 0
    BY DEF Init, Rest
  <2>2. \A t \in Ticks : \A s \in Ids : list[t][s] = None
    BY DEF Init, Unlisted
  <2>3. \A s \in Ids : word[s] = "none" /\ fired[s] = 0
    BY DEF Init
  <2>4. running = {} /\ recovering = {} /\ stuck = {}
    BY DEF Init
  <2>5. QED
    BY <1>1, <2>1, <2>2, <2>3, <2>4, NoneAssumption
       DEF Marked, Running, Recovering, Known, Copies, Good, Forgotten
<1>5. QED
  BY <1>2, <1>3, <1>4 DEF Inv

\* What a call that holds a copy f of s is doing.
Calls(w, at, kind, s, f) ==
    /\ w \in Work /\ w.at = at /\ w.kind = kind /\ w.id = s /\ w.run = 0 /\ w.copy = f

LEMMA CallRecord ==
    ASSUME NEW at \in {"called", "putting"}, NEW kind \in Kinds, NEW s \in Ids,
           NEW f \in Schedule
    PROVE  Calls([Rest EXCEPT !.at = at, !.kind = kind, !.id = s, !.copy = f], at, kind, s, f)
  BY DEF Calls, Rest, Work

\* A call that is made has read the schedule, and holds a copy of it that is as
\* good: pause, resume, update and runOnce.
LEMMA InvReads ==
    ASSUME Inv, Up, NEW u \in Users, NEW s \in Ids, NEW kind \in Kinds, NEW f \in Schedule,
           NEW at \in {"called", "putting"}, NEW w, Calls(w, at, kind, s, f),
           work[u].at = "new", Stored(s), work' = [work EXCEPT ![u] = w],
           word' = word \/ word' = [word EXCEPT ![s] = "none"],
           UNCHANGED <<now, file, recovering, running, stuck, list, made, fired, crashes, faults>>,
           f.runs = file[s].runs,
           f.status = "active" => f.next # 0, f.status = "paused" => f.next = 0,
           word'[s] = "paused" => f.status # "active",
           kind = "pause" => at = "putting" /\ f.status = "paused"
    PROVE  Inv'
<1> USE DEF Inv
<1>1. /\ w \in Work /\ w.at = at /\ w.kind = kind /\ w.id = s /\ w.run = 0 /\ w.copy = f
  BY DEF Calls
<1>2. /\ u \in Callers /\ work'[u] = w
      /\ w.at = at /\ w.kind = kind /\ w.id = s /\ w.run = 0 /\ w.copy = f
      /\ \A c \in Callers \ {u} : work'[c] = work[c]
      /\ work[u].copy = None /\ work[u].run = 0 /\ file[s] \in Schedule /\ file[s] # None
  BY <1>1 DEF Callers, TypeOK, Shapes, Shape, Puts, Stored
<1>3. TypeOK'
  BY <1>1, <1>2 DEF TypeOK
<1>4. Shapes'
  BY <1>2, NoneAssumption DEF Shapes, Shape, Puts
<1>5. Marked'
  BY <1>2 DEF Marked, Running
<1>6. Recovering'
  BY DEF Recovering, Up
<1>7. /\ \A r \in Ids : word'[r] = word[r] \/ word'[r] = "none"
      /\ word'[s] = "paused" => word[s] = "paused"
  BY DEF TypeOK
<1>8. Known'
  BY <1>2, <1>7 DEF Known
<1>9. Copies'
  <2>1. Good(s, f)'
    BY <1>2, <1>7 DEF Copies, Good
  <2>2. \A r \in Ids, g \in Schedule : Good(r, g) => Good(r, g)'
    BY <1>2, <1>7 DEF Good
  <2>3. QED
    BY <1>2, <2>1, <2>2, NoneAssumption DEF Copies, Shapes, Shape, Puts, TypeOK, Work
<1>10. Forgotten'
  BY <1>2, <1>7 DEF Forgotten, Holds
<1>11. QED
  BY <1>3, <1>4, <1>5, <1>6, <1>8, <1>9, <1>10

\* A run of s begins with a copy that caller c has or has taken from its list.
LEMMA InvStarts ==
    ASSUME Inv, NEW c \in Callers, NEW s \in Ids, NEW f \in Schedule, StartRun(c, s, f),
           s \notin running, s <= made, recovering = {}, Good(s, f), word[s] # "deleted",
           \/ work[c].at = "idle"
           \/ work[c].at = "called" /\ work[c].id = s /\ work[c].kind # "pause",
           list' \in [Ticks -> [Ids -> Schedule \cup {None}]],
           \A t \in Ticks, r \in Ids : list'[t][r] = None \/ list'[t][r] = list[t][r],
           UNCHANGED <<now, file, recovering, stuck, made, word, crashes, faults>>
    PROVE  Inv'
<1> USE DEF Inv
<1>n. PICK n : n = fired[s] + 1
  OBVIOUS
<1>g. PICK g : g = [f EXCEPT !.runs[n] = "running"]
  OBVIOUS
<1>1. /\ fired[s] \in Nat /\ n \in RunIds /\ n # 0 /\ MaxFires \in Nat
      /\ fired' = [fired EXCEPT ![s] = n] /\ running' = running \cup {s}
  BY <1>n, BoundsAssumption DEF StartRun, TypeOK, RunIds
<1>2. /\ g \in Schedule /\ g.status = f.status /\ g.next = f.next
      /\ g.runs[n] = "running" /\ \A r \in RunIds : r # n => g.runs[r] = f.runs[r]
  BY <1>g, <1>1 DEF Schedule
<1>3. /\ work'[c] \in Work /\ work'[c].at = "saving" /\ work'[c].id = s
      /\ work'[c].run = n /\ work'[c].copy = g /\ work'[c].kind = work[c].kind
      /\ work' = [work EXCEPT ![c] = work'[c]]
  <2>1. work[c] \in Work /\ work \in [Callers -> Work]
    BY DEF TypeOK
  <2> DEFINE w == [work[c] EXCEPT !.at = "saving", !.id = s, !.run = n, !.copy = g]
  <2>2. work' = [work EXCEPT ![c] = w]
    BY <1>n, <1>g DEF StartRun
  <2>3. /\ w \in Work /\ w.at = "saving" /\ w.id = s /\ w.run = n /\ w.copy = g
        /\ w.kind = work[c].kind
    BY <1>1, <1>2, <2>1 DEF Work
  <2>4. QED
    BY <2>1, <2>2, <2>3
<1>4. \A d \in Callers \ {c} : work'[d] = work[d]
  BY <1>3 DEF TypeOK
<1>5. TypeOK'
  <2>1. work' \in [Callers -> Work] /\ fired' \in [Ids -> 0..MaxFires]
    BY <1>1, <1>3 DEF TypeOK, RunIds
  <2>2. running' \subseteq Ids /\ stuck' \subseteq Ids
    BY <1>1 DEF TypeOK
  <2>3. QED
    BY <2>1, <2>2 DEF TypeOK
<1>6. Shapes'
  BY <1>2, <1>3, <1>4, <1>1, NoneAssumption, KindsAssumption DEF Shapes, Shape, Puts, AllKinds
<1>7. \A d \in Callers : Running(d) => work[d].id # s
  BY DEF Marked
<1>8. ~Running(c) /\ Running(c)' /\ \A d \in Callers \ {c} : Running(d)' <=> Running(d)
  BY <1>1, <1>3, <1>4 DEF Running, Shapes, Shape, Puts
<1>9. Marked'
  <2>1. \A d \in Callers \ {c} : Running(d)' => work'[d].id \in running
                                             /\ work'[d].run = fired'[work'[d].id]
    BY <1>1, <1>4, <1>7, <1>8 DEF Marked, TypeOK, Work, Running, Shapes, Shape, Puts
  <2>2. work'[c].run = fired'[work'[c].id]
    BY <1>1, <1>3 DEF TypeOK
  <2>3. QED
    BY <1>1, <1>3, <1>4, <1>7, <1>8, <2>1, <2>2 DEF Marked
<1>10. Recovering'
  BY DEF Recovering
<1>11. Known'
  BY <1>3, <1>4 DEF Known
<1>12. Copies'
  <2>1. \A r \in Ids, h \in Schedule : Good(r, h) => Good(r, h)'
    <3> SUFFICES ASSUME NEW r \in Ids, NEW h \in Schedule, Good(r, h) PROVE Good(r, h)'
      OBVIOUS
    <3>1. \A q \in RunIds : q > fired'[r] => h.runs[q] = "none"
      BY <1>n, <1>1 DEF Good, TypeOK, RunIds
    <3>2. \A d \in Callers : work'[d].at \in {"saving", "runner"} /\ work'[d].id = r =>
             h.runs[work'[d].run] # "ended"
      BY <1>n, <1>1, <1>3, <1>4 DEF Good, TypeOK
    <3>3. QED
      BY <3>1, <3>2 DEF Good
  <2>2. Good(s, g)'
    <3>1. \A q \in RunIds : q > fired'[s] => g.runs[q] = "none"
      BY <1>n, <1>1, <1>2 DEF Good, TypeOK, RunIds
    <3>2. \A d \in Callers : work'[d].at \in {"saving", "runner"} /\ work'[d].id = s =>
             g.runs[work'[d].run] # "ended"
      BY <1>2, <1>3, <1>4, <1>7 DEF Running, Shapes, Shape, Puts
    <3>3. QED
      BY <1>2, <3>1, <3>2 DEF Good
  <2>3. \A d \in Callers \ {c} : (work[d].copy \in Schedule => Good(work[d].id, work[d].copy))'
    BY <1>4, <2>1, NoneAssumption DEF Copies, Shapes, Shape, Puts, TypeOK, Work
  <2>4. /\ \A r \in Ids : (file[r] \in Schedule => Good(r, file[r]))'
        /\ \A t \in Ticks : \A r \in Ids : (list[t][r] # None => Good(r, list[t][r]))'
    BY <2>1 DEF Copies, TypeOK
  <2>5. QED
    BY <1>3, <2>2, <2>3, <2>4 DEF Copies
<1>13. Forgotten'
  BY <1>3, <1>4 DEF Forgotten, Holds
<1>14. QED
  BY <1>5, <1>6, <1>9, <1>10, <1>11, <1>12, <1>13

\* What a caller may leave in the file of s: what is there, what it was to put
\* or what is neither.
MayLeave(c, s, f) == f = file[s] \/ (work[c].copy # None /\ f \in {work[c].copy, Torn})

\* Another caller is where it was; what it is putting may be mixed.
Kept(d) ==
    /\ work'[d].at = work[d].at /\ work'[d].kind = work[d].kind
    /\ work'[d].id = work[d].id /\ work'[d].run = work[d].run
    /\ work'[d].copy = work[d].copy \/ (work'[d].copy = Torn /\ work[d].at \in Puts)

\* Caller c goes on with w, and the others may be mixed.
Goes(c, w) ==
    \E mixed \in SUBSET {d \in Callers \ {c} : work[d].at \in Puts} :
      work' = [d \in Callers |-> IF d = c THEN w
                                 ELSE IF d \in mixed THEN [work[d] EXCEPT !.copy = Torn]
                                 ELSE work[d]]

\* What the others keep when a caller goes on.
LEMMA GoesKeeps ==
    ASSUME work \in [Callers -> Work], NEW c \in Callers, NEW w \in Work, Goes(c, w)
    PROVE  /\ work' \in [Callers -> Work] /\ work'[c] = w
           /\ \A d \in Callers \ {c} : Kept(d)
<1>1. PICK mixed \in SUBSET {d \in Callers \ {c} : work[d].at \in Puts} :
        work' = [d \in Callers |-> IF d = c THEN w
                                   ELSE IF d \in mixed THEN [work[d] EXCEPT !.copy = Torn]
                                   ELSE work[d]]
  BY DEF Goes
<1>2. ASSUME NEW d \in Callers \ {c}
      PROVE  Kept(d) /\ work'[d] \in Work
  <2>1. work[d] \in Work
    OBVIOUS
  <2>2. CASE d \in mixed
    <3>1. work'[d] = [work[d] EXCEPT !.copy = Torn] /\ work[d].at \in Puts
      BY <1>1, <2>2
    <3>2. QED
      BY <2>1, <3>1 DEF Kept, Work
  <2>3. CASE d \notin mixed
    BY <1>1, <2>1, <2>3 DEF Kept
  <2>4. QED
    BY <2>2, <2>3
<1>3. work'[c] = w
  BY <1>1
<1>4. work' \in [Callers -> Work]
  BY <1>1, <1>2, <1>3
<1>5. QED
  BY <1>2, <1>3, <1>4

\* A caller may go on while the others stay as they are.
LEMMA RestGoes ==
    ASSUME work \in [Callers -> Work], NEW c \in Callers, NEW w, work' = [work EXCEPT ![c] = w]
    PROVE  Goes(c, w)
<1>1. work' = [d \in Callers |-> IF d = c THEN w
                                 ELSE IF d \in {} THEN [work[d] EXCEPT !.copy = Torn]
                                 ELSE work[d]]
  OBVIOUS
<1>2. QED
  BY <1>1, {} \in SUBSET {d \in Callers \ {c} : work[d].at \in Puts} DEF Goes

\* A put that is over, as Leaves has it, in the terms of these lemmas.
LEMMA LeavesGoes ==
    ASSUME NEW c \in Callers, NEW f, NEW w, Leaves(c, f, w)
    PROVE  Goes(c, w) /\ file' = [file EXCEPT ![work[c].id] = f]
  BY DEF Leaves, Goes, Writes

\* A caller is done: it may have left its file otherwise, ends its run if it
\* has one, or gives it up, and what is left of its list may be dropped.  A pause
\* that was alone is for good.
LEMMA InvRests ==
    ASSUME Inv, NEW c \in Callers, NEW s \in Ids, NEW f \in Schedule \cup {None, Torn},
           work[c].at \notin {"new", "idle"}, work[c].id = s, MayLeave(c, s, f),
           Goes(c, Rest),
           \/ running' = (IF work[c].run # 0 THEN running \ {s} ELSE running) /\ stuck' = stuck
           \/ running' = running /\ stuck' = stuck \cup {s} /\ work[c].run # 0,
           file' = [file EXCEPT ![s] = f],
           \/ word' = word
           \/ /\ word' = [word EXCEPT ![s] = "paused"] /\ Alone(c, s) /\ c \notin Ticks
              /\ f = Torn \/ (f \in Schedule /\ f.status = "paused"),
           list' \in [Ticks -> [Ids -> Schedule \cup {None}]],
           \A t \in Ticks, r \in Ids : list'[t][r] = None \/ list'[t][r] = list[t][r],
           faults' \in {faults, faults + 1},
           UNCHANGED <<now, recovering, made, fired, crashes>>
    PROVE  Inv'
<1> USE DEF Inv
<1>1. /\ work'[c].at = "idle" /\ work'[c].kind = "none" /\ work'[c].id = None
      /\ work'[c].run = 0 /\ work'[c].copy = None /\ work' \in [Callers -> Work]
      /\ \A d \in Callers \ {c} : Kept(d)
  <2>1. Rest \in Work
    BY DEF Rest, Work
  <2>2. QED
    BY <2>1, GoesKeeps DEF Rest, TypeOK
<1>2. TypeOK'
  <2>1. file' \in [Ids -> Schedule \cup {None, Torn}]
        /\ running' \subseteq Ids /\ stuck' \subseteq Ids /\ faults' \in Nat
    BY DEF TypeOK
  <2>2. word' \in [Ids -> {"none", "paused", "deleted"}]
    BY DEF TypeOK
  <2>3. QED
    BY <1>1, <2>1, <2>2 DEF TypeOK
<1>3. Shapes'
  BY <1>1, KindsAssumption, NoneAssumption DEF Shapes, Shape, AllKinds, Kept, Puts
<1>4. Marked'
  <2>1. \A d \in Callers : Running(d)' => d # c /\ Running(d)
    BY <1>1 DEF Running, Kept
  <2>2. \A d \in Callers \ {c} : Running(d) => Running(d)' /\ (work[d].id # s \/ ~Running(c))
    BY <1>1 DEF Marked, Running, Kept
  <2>3. \A d \in Callers \ {c} : /\ Running(d)' <=> Running(d)
                                 /\ work'[d].id = work[d].id /\ work'[d].run = work[d].run
    BY <1>1 DEF Running, Kept
  <2>4. Running(c) <=> work[c].run # 0
    BY DEF Running
  <2>5. QED
    BY <2>1, <2>2, <2>3, <2>4 DEF Marked
<1>5. recovering' = {} /\ Recovering'
  BY DEF Recovering
<1>6. s <= made /\ (f \in Schedule => Good(s, f))
  BY NoneAssumption DEF Known, Copies, MayLeave
<1>7. Known'
  <2>1. \A r \in Ids : file'[r] # None \/ word'[r] # "none" => r <= made
    BY <1>6 DEF Known, TypeOK
  <2>2. QED
    BY <1>1, <2>1 DEF Known, Kept
<1>8. Copies'
  <2>1. \A r \in Ids, g \in Schedule : (Good(r, g) /\ (word'[r] = word[r] \/ g.status # "active"))
                                      => Good(r, g)'
    BY <1>1 DEF Good, Kept
  <2>2. \A r \in Ids : word'[r] = word[r] \/ r = s
    BY DEF TypeOK
  <2>3. \A r \in Ids : (file[r] \in Schedule => Good(r, file[r]))'
    BY <1>2, <1>6, <2>1, <2>2, NoneAssumption DEF Copies, TypeOK
  <2>4. \A d \in Callers : (work[d].copy \in Schedule => Good(work[d].id, work[d].copy))'
    <3> SUFFICES ASSUME NEW d \in Callers, work'[d].copy \in Schedule
                 PROVE  Good(work[d].id, work[d].copy)'
      OBVIOUS
    <3>1. /\ d # c /\ work'[d].copy = work[d].copy /\ work'[d].id = work[d].id
          /\ Good(work[d].id, work[d].copy)
      BY <1>1, NoneAssumption DEF Kept, Copies
    <3>2. work[d].id \in Ids /\ work[d].copy # None /\ work[d].copy \in Schedule
      BY <3>1, NoneAssumption DEF Shapes, Shape, Puts
    <3>3. word'[work[d].id] = word[work[d].id]
      BY <2>2, <3>1, <3>2 DEF Alone, Holds
    <3>4. QED
      BY <2>1, <3>1, <3>2, <3>3
  <2>5. \A t \in Ticks : \A r \in Ids : (list[t][r] # None => Good(r, list[t][r]))'
    BY <2>1, <2>2 DEF Copies, TypeOK, Alone, Holds, Callers
  <2>6. QED
    BY <2>3, <2>4, <2>5 DEF Copies
<1>9. Forgotten'
  <2>1. word[s] = "deleted" => f = None
    BY DEF Forgotten, Holds, MayLeave
  <2>2. \A r \in Ids : word'[r] = "deleted" => word[r] = "deleted"
    BY DEF TypeOK
  <2>3. \A d \in Callers, r \in Ids : Holds(d, r)' => Holds(d, r)
    BY <1>1 DEF Holds, Kept, Callers, Shapes, Shape, Puts
  <2>4. QED
    BY <2>1, <2>2, <2>3 DEF Forgotten, TypeOK
<1>10. QED
  BY <1>2, <1>3, <1>4, <1>5, <1>7, <1>8, <1>9

\* runOnce goes on, or throws.
LEMMA InvRunOnceGoes ==
    ASSUME Inv, NEW u \in Users, RunOnceGoes(u)
    PROVE  Inv'
<1>1. /\ u \in Callers /\ work[u].at = "called" /\ work[u].id \in Ids
      /\ work[u].copy \in Schedule /\ work[u].run = 0 /\ work[u].kind # "pause"
      /\ list \in [Ticks -> [Ids -> Schedule \cup {None}]]
  BY DEF RunOnceGoes, Inv, TypeOK, Shapes, Shape, Puts, Callers, Work
<1>2. CASE Free(u, work[u].id)
  <2>1. recovering = {} /\ work[u].id <= made /\ word[work[u].id] # "deleted"
    BY <1>1, NoneAssumption DEF Inv, Recovering, Known, Forgotten, Holds
  <2>2. Good(work[u].id, work[u].copy)
    BY <1>1, NoneAssumption DEF Inv, Copies
  <2>3. /\ StartRun(u, work[u].id, work[u].copy) /\ work[u].id \notin running
        /\ UNCHANGED <<now, file, recovering, stuck, list, made, word, crashes, faults>>
    BY <1>2 DEF RunOnceGoes, Free
  <2>4. QED
    BY <1>1, <2>1, <2>2, <2>3, InvStarts
<1>3. CASE ~Free(u, work[u].id)
  <2>1. /\ work' = [work EXCEPT ![u] = Rest] /\ running' = running /\ file' = file
        /\ word' = word /\ list' = list
        /\ UNCHANGED <<now, file, recovering, running, stuck, list, made, fired, word, crashes, faults>>
    BY <1>3 DEF RunOnceGoes
  <2>2. /\ Goes(u, Rest) /\ file' = [file EXCEPT ![work[u].id] = file[work[u].id]]
        /\ file[work[u].id] \in Schedule \cup {None, Torn}
        /\ MayLeave(u, work[u].id, file[work[u].id])
    BY <1>1, <2>1, RestGoes DEF Inv, TypeOK, MayLeave
  <2>3. /\ list' \in [Ticks -> [Ids -> Schedule \cup {None}]]
        /\ \A t \in Ticks, r \in Ids : list'[t][r] = None \/ list'[t][r] = list[t][r]
    BY <1>1, <2>1
  <2>4. QED
    BY <1>1, <2>1, <2>2, <2>3, InvRests
<1>4. QED
  BY <1>2, <1>3

\* What is left of the list of a caller that throws.
LEMMA AbandonedList ==
    ASSUME list \in [Ticks -> [Ids -> Schedule \cup {None}]], NEW c \in Callers,
           list' = Abandoned(c) \/ list' = list
    PROVE  /\ list' \in [Ticks -> [Ids -> Schedule \cup {None}]]
           /\ \A t \in Ticks, r \in Ids : list'[t][r] = None \/ list'[t][r] = list[t][r]
  BY DEF Abandoned, Unlisted

\* A put is done.
LEMMA InvPutDone ==
    ASSUME Inv, NEW c \in Callers, PutDone(c)
    PROVE  Inv'
<1>1. /\ work[c].at \in Puts \ {"saving"} /\ work[c].id \in Ids /\ work[c].copy # None
      /\ work[c].copy \in Schedule \cup {None, Torn}
      /\ list \in [Ticks -> [Ids -> Schedule \cup {None}]]
  BY DEF PutDone, Inv, TypeOK, Shapes, Shape, Work, Puts
<1>2. /\ running' = IF work[c].run # 0 THEN running \ {work[c].id} ELSE running
      /\ word' = IF work[c].kind = "pause" /\ Alone(c, work[c].id)
                 THEN [word EXCEPT ![work[c].id] = "paused"] ELSE word
      /\ UNCHANGED <<now, recovering, stuck, list, made, fired, crashes, faults>>
  BY DEF PutDone
<1>3. Goes(c, Rest) /\ file' = [file EXCEPT ![work[c].id] = work[c].copy]
  BY LeavesGoes DEF PutDone
<1>4. work[c].kind = "pause" =>
        /\ work[c].copy = Torn \/ (work[c].copy \in Schedule /\ work[c].copy.status = "paused")
        /\ c \notin Ticks
  <2>1. work[c].kind = "pause" => work[c].kind \in Kinds
    BY DEF Inv, TypeOK, Work
  <2>2. QED
    BY <1>1, <2>1, CallersAssumption DEF Inv, Shapes, Shape, Puts
<1>5. MayLeave(c, work[c].id, work[c].copy)
  BY <1>1 DEF MayLeave
<1>6. /\ list' \in [Ticks -> [Ids -> Schedule \cup {None}]]
      /\ \A t \in Ticks, r \in Ids : list'[t][r] = None \/ list'[t][r] = list[t][r]
  BY <1>1, <1>2
<1>7. QED
  <2>1. /\ work[c].at \notin {"new", "idle"} /\ faults' \in {faults, faults + 1}
        /\ \/ word' = word
           \/ /\ word' = [word EXCEPT ![work[c].id] = "paused"] /\ Alone(c, work[c].id)
              /\ work[c].kind = "pause"
    BY <1>1, <1>2 DEF Puts
  <2>2. UNCHANGED <<now, recovering, made, fired, crashes>>
    BY <1>2
  <2>3. QED
    BY <1>1, <1>2, <1>3, <1>4, <1>5, <1>6, <2>1, <2>2, InvRests

\* A put of a run is over, one way or the other, and the run goes on: the entry
\* is written, or finishRun is to be called again.
LEMMA InvGoesOn ==
    ASSUME Inv, NEW c \in Callers, work[c].at \in Puts, NEW at \in {"runner", "failing"},
           at = "runner" <=> work[c].at = "saving", work[c].run # 0,
           NEW f \in Schedule \cup {None, Torn}, MayLeave(c, work[c].id, f),
           Goes(c, [work[c] EXCEPT !.at = at, !.copy = None]),
           file' = [file EXCEPT ![work[c].id] = f],
           faults' \in {faults, faults + 1},
           UNCHANGED <<now, recovering, running, stuck, list, made, fired, word, crashes>>
    PROVE  Inv'
<1> USE DEF Inv
<1>n. PICK n : n = work[c].run
  OBVIOUS
<1>s. PICK s : s = work[c].id
  OBVIOUS
<1>1. /\ s \in Ids /\ n # 0 /\ file' = [file EXCEPT ![s] = f] /\ MayLeave(c, s, f)
      /\ work[c].copy # None
  BY <1>n, <1>s DEF TypeOK, Shapes, Shape, Work, Puts
<1>2. /\ work'[c].at = at /\ work'[c].kind = work[c].kind /\ work'[c].id = s
      /\ work'[c].run = n /\ work'[c].copy = None
      /\ work' \in [Callers -> Work] /\ \A d \in Callers \ {c} : Kept(d)
  <2>1. PICK w : w = [work[c] EXCEPT !.at = at, !.copy = None]
    OBVIOUS
  <2>2. /\ w \in Work /\ w.at = at /\ w.kind = work[c].kind /\ w.id = s
        /\ w.run = n /\ w.copy = None
    BY <1>n, <1>s, <2>1 DEF TypeOK, Work
  <2>3. Goes(c, w) /\ work \in [Callers -> Work]
    BY <2>1 DEF TypeOK
  <2>4. QED
    BY <2>2, <2>3, GoesKeeps
<1>3. TypeOK'
  <2>1. file' \in [Ids -> Schedule \cup {None, Torn}]
    BY <1>1 DEF TypeOK
  <2>f. faults' \in Nat
    BY DEF TypeOK
  <2>2. QED
    BY <1>2, <2>1, <2>f DEF TypeOK
<1>4. Shapes'
  <2>1. work[c].kind # "pause"
    BY DEF Shapes, Shape, Puts
  <2>2. QED
    BY <1>n, <1>s, <1>1, <1>2, <2>1, NoneAssumption DEF Shapes, Shape, Kept, Puts
<1>5. \A d \in Callers : (Running(d)' <=> Running(d)) /\ work'[d].id = work[d].id
                         /\ work'[d].run = work[d].run
  BY <1>n, <1>s, <1>2 DEF Running, Kept
<1>6. Marked'
  <2>1. running' = running /\ fired' = fired /\ stuck' = stuck
    OBVIOUS
  <2>2. \A d \in Callers : Running(d)' =>
          work'[d].id \in running' /\ work'[d].run = fired'[work'[d].id]
    BY <1>5, <2>1 DEF Marked
  <2>3. /\ \A r \in running' : r \in stuck' \/ \E d \in Callers : Running(d)' /\ work'[d].id = r
        /\ stuck' \subseteq running' /\ \A d \in Callers : Running(d)' => work'[d].id \notin stuck'
    BY <1>5, <2>1 DEF Marked
  <2>4. \A d, e \in Callers : Running(d)' /\ Running(e)' /\ work'[d].id = work'[e].id => d = e
    BY <1>5, <2>1 DEF Marked
  <2>5. QED
    BY <2>2, <2>3, <2>4 DEF Marked
<1>7. Recovering' /\ Known' /\ s <= made /\ (f \in Schedule => Good(s, f))
  <2>1. s <= made /\ (f \in Schedule => Good(s, f)) /\ recovering = {}
    BY <1>s, <1>1, NoneAssumption DEF Known, Copies, Recovering, MayLeave, Puts
  <2>2. QED
    BY <1>1, <1>2, <2>1 DEF Recovering, Known, TypeOK, Kept
<1>8. Copies'
  <2>1. \A d \in Callers : work'[d].at \in {"saving", "runner"} =>
                               work[d].at \in {"saving", "runner"}
    BY <1>1, <1>2 DEF Kept
  <2>2. \A r \in Ids, g \in Schedule : Good(r, g) => Good(r, g)'
    BY <1>1, <1>5, <2>1 DEF Good
  <2>3. \A r \in Ids : (file[r] \in Schedule => Good(r, file[r]))'
    BY <1>1, <1>7, <2>2 DEF Copies, TypeOK
  <2>4. \A d \in Callers : (work[d].copy \in Schedule => Good(work[d].id, work[d].copy))'
    <3> SUFFICES ASSUME NEW d \in Callers, work'[d].copy \in Schedule
                 PROVE  Good(work[d].id, work[d].copy)'
      OBVIOUS
    <3>1. /\ d # c /\ work'[d].copy = work[d].copy /\ work'[d].id = work[d].id
          /\ Good(work[d].id, work[d].copy)
      BY <1>2, NoneAssumption DEF Kept, Copies
    <3>2. work[d].id \in Ids /\ work[d].copy \in Schedule
      BY <3>1, NoneAssumption DEF Shapes, Shape, Puts
    <3>3. QED
      BY <2>2, <3>1, <3>2
  <2>5. \A t \in Ticks : \A r \in Ids : (list[t][r] # None => Good(r, list[t][r]))'
    BY <1>1, <2>2 DEF Copies, TypeOK
  <2>6. QED
    BY <2>3, <2>4, <2>5 DEF Copies
<1>9. Forgotten'
  <2>1. word[s] # "deleted"
    BY <1>s, <1>1 DEF Forgotten, Holds
  <2>2. \A d \in Callers, r \in Ids : Holds(d, r)' => Holds(d, r)
    BY <1>2 DEF Holds, Kept, Shapes, Shape, Puts
  <2>3. QED
    BY <1>1, <2>1, <2>2 DEF Forgotten, TypeOK
<1>10. QED
  BY <1>3, <1>4, <1>6, <1>7, <1>8, <1>9

\* The entry of a run is written.
LEMMA InvSaved ==
    ASSUME Inv, NEW c \in Callers, Saved(c)
    PROVE  Inv'
<1>1. /\ work[c].at = "saving" /\ work[c].at \in Puts /\ work[c].run # 0
      /\ work[c].copy \in Schedule \cup {None, Torn} /\ work[c].copy # None
      /\ UNCHANGED <<now, recovering, running, stuck, list, made, fired, word, crashes, faults>>
  BY DEF Saved, Inv, TypeOK, Shapes, Shape, Work, Puts
<1>2. /\ Goes(c, [work[c] EXCEPT !.at = "runner", !.copy = None])
      /\ file' = [file EXCEPT ![work[c].id] = work[c].copy]
      /\ MayLeave(c, work[c].id, work[c].copy)
  BY <1>1, LeavesGoes DEF Saved, MayLeave
<1>3. QED
  BY <1>1, <1>2, InvGoesOn

\* A put is rejected.
LEMMA InvPutFails ==
    ASSUME Inv, NEW c \in Callers, PutFails(c)
    PROVE  Inv'
<1>s. PICK s : s = work[c].id
  OBVIOUS
<1>1. /\ work[c].at \in Puts /\ s \in Ids /\ work[c].copy # None /\ faults' = faults + 1
      /\ work[c].copy \in Schedule \cup {None, Torn} /\ file[s] \in Schedule \cup {None, Torn}
      /\ list \in [Ticks -> [Ids -> Schedule \cup {None}]]
      /\ work[c].run # 0 <=> work[c].at # "putting"
      /\ UNCHANGED <<now, recovering, made, fired, word, crashes>>
  BY <1>s DEF PutFails, Inv, TypeOK, Shapes, Shape, Work, Puts
<1>2. PICK f \in {file[s], Torn, work[c].copy} :
        Leaves(c, f, IF work[c].at = "ending" THEN [work[c] EXCEPT !.at = "failing", !.copy = None]
                     ELSE Rest)
  BY <1>s DEF PutFails
<1>3. f \in Schedule \cup {None, Torn} /\ MayLeave(c, s, f)
  BY <1>1, <1>2 DEF MayLeave
<1>4. /\ stuck' = IF work[c].at = "saving" THEN stuck \cup {s} ELSE stuck
      /\ running' = IF work[c].at = "failed" THEN running \ {s} ELSE running
      /\ list' = IF work[c].at = "ending" THEN list ELSE Abandoned(c)
  BY <1>s DEF PutFails
<1>5. /\ list' \in [Ticks -> [Ids -> Schedule \cup {None}]]
      /\ \A t \in Ticks, r \in Ids : list'[t][r] = None \/ list'[t][r] = list[t][r]
  BY <1>1, <1>4, AbandonedList
<1>6. CASE work[c].at = "ending"
  <2>1. /\ Goes(c, [work[c] EXCEPT !.at = "failing", !.copy = None])
        /\ file' = [file EXCEPT ![work[c].id] = f]
    BY <1>2, <1>6, LeavesGoes
  <2>2. QED
    BY <1>s, <1>1, <1>3, <1>4, <1>6, <2>1, InvGoesOn
<1>7. CASE work[c].at # "ending"
  <2>1. Goes(c, Rest) /\ file' = [file EXCEPT ![s] = f]
    BY <1>s, <1>2, <1>7, LeavesGoes
  <2>2. /\ work[c].at \notin {"new", "idle"}
        /\ \/ running' = (IF work[c].run # 0 THEN running \ {s} ELSE running) /\ stuck' = stuck
           \/ running' = running /\ stuck' = stuck \cup {s} /\ work[c].run # 0
    BY <1>1, <1>4, <1>7 DEF Puts
  <2>3. QED
    BY <1>s, <1>1, <1>3, <1>5, <2>1, <2>2, InvRests
<1>8. QED
  BY <1>6, <1>7

\* A run ends, and what has become of its schedule is to be put.
LEMMA InvFinishes ==
    ASSUME Inv, NEW c \in Callers, work[c].at \in {"runner", "failing"},
           NEW at \in {"ending", "failed", "failing"}, NEW s \in Ids, work[c].id = s,
           NEW f \in Schedule \cup {None}, f # None <=> at \in {"ending", "failed"},
           f # None => /\ Stored(s)
                       /\ f = Finished(file[s], work[c].run, work[c].kind = "runOnce"),
           work' = [work EXCEPT ![c].at = at, ![c].copy = f],
           UNCHANGED <<now, file, recovering, running, stuck, list, made, fired, word, crashes, faults>>
    PROVE  Inv'
<1> USE DEF Inv
<1>1. /\ work[c].run # 0 /\ work[c].run \in RunIds /\ work[c].copy = None
      /\ work[c].kind # "pause"
  BY DEF Shapes, Shape, TypeOK, Work, Puts
<1>2. /\ work'[c].at = at /\ work'[c].kind = work[c].kind /\ work'[c].id = s
      /\ work'[c].run = work[c].run /\ work'[c].copy = f
      /\ work' \in [Callers -> Work] /\ \A d \in Callers \ {c} : work'[d] = work[d]
  <2>1. work[c] \in Work
    BY DEF TypeOK
  <2> DEFINE w == [work[c] EXCEPT !.at = at, !.copy = f]
  <2>2. work' = [work EXCEPT ![c] = w]
    OBVIOUS
  <2>3. /\ w \in Work /\ w.at = at /\ w.kind = work[c].kind /\ w.id = s
        /\ w.run = work[c].run /\ w.copy = f
    BY <2>1 DEF Work
  <2>4. QED
    BY <2>2, <2>3 DEF TypeOK
<1>3. TypeOK'
  BY <1>2 DEF TypeOK
<1>4. Shapes'
  BY <1>1, <1>2 DEF Shapes, Shape, Puts
<1>5. \A d \in Callers : (Running(d)' <=> Running(d)) /\ work'[d].id = work[d].id
                         /\ work'[d].run = work[d].run
  BY <1>2 DEF Running
<1>6. Marked'
  <2>1. running' = running /\ fired' = fired /\ stuck' = stuck
    OBVIOUS
  <2>2. \A d \in Callers : Running(d)' => work'[d].id \in running' /\ work'[d].run = fired'[work'[d].id]
    BY <1>5, <2>1 DEF Marked
  <2>3. /\ \A r \in running' : r \in stuck' \/ \E d \in Callers : Running(d)' /\ work'[d].id = r
        /\ stuck' \subseteq running' /\ \A d \in Callers : Running(d)' => work'[d].id \notin stuck'
    BY <1>5, <2>1 DEF Marked
  <2>4. \A d, e \in Callers : Running(d)' /\ Running(e)' /\ work'[d].id = work'[e].id => d = e
    BY <1>5, <2>1 DEF Marked
  <2>5. QED
    BY <2>2, <2>3, <2>4 DEF Marked
<1>7. recovering = {} /\ Recovering' /\ Known'
  BY <1>2 DEF Recovering, Known
<1>8. Copies'
  <2>1. \A d \in Callers : work'[d].at \in {"saving", "runner"} =>
                               work[d].at \in {"saving", "runner"}
    BY <1>2
  <2>u. fired' = fired /\ word' = word
    OBVIOUS
  <2>2. \A r \in Ids, g \in Schedule : Good(r, g) => Good(r, g)'
    BY <1>5, <2>1, <2>u DEF Good
  <2>3. f # None => Good(s, f)'
    <3> SUFFICES ASSUME f # None PROVE Good(s, f)'
      OBVIOUS
    <3>1. /\ now \in Nat /\ file[s] \in Schedule /\ Good(s, file[s])
          /\ f = Finished(file[s], work[c].run, work[c].kind = "runOnce")
      BY DEF TypeOK, Copies, Stored
    <3>2. /\ f.status = "active" => f.next # 0 /\ file[s].status = "active"
          /\ f.status = "paused" => f.next = 0
          /\ \A r \in RunIds : file[s].runs[r] = "none" => f.runs[r] = "none"
      BY <1>1, <3>1, FinishedCopy DEF Good
    <3>3. \A d \in Callers : work'[d].id = s => work'[d].at \notin {"saving", "runner"}
      BY <1>1, <1>2 DEF Marked, Running, Shapes, Shape, Puts
    <3>4. QED
      BY <3>1, <3>2, <3>3 DEF Good
  <2>4. \A d \in Callers : (work[d].copy \in Schedule => Good(work[d].id, work[d].copy))'
    BY <1>2, <2>2, <2>3, NoneAssumption DEF Copies, Shapes, Shape, Puts, TypeOK, Work
  <2>5. /\ \A r \in Ids : (file[r] \in Schedule => Good(r, file[r]))'
        /\ \A t \in Ticks : \A r \in Ids : (list[t][r] # None => Good(r, list[t][r]))'
    BY <2>2 DEF Copies, TypeOK
  <2>6. QED
    BY <2>4, <2>5 DEF Copies
<1>9. Forgotten'
  <2>1. f # None => word[s] # "deleted"
    BY DEF Forgotten, Stored
  <2>2. QED
    BY <1>2, <2>1 DEF Forgotten, Holds
<1>10. QED
  BY <1>3, <1>4, <1>6, <1>7, <1>8, <1>9

\* finishRun, of a schedule that can be read or cannot.
LEMMA InvFinishRun ==
    ASSUME Inv, NEW c \in Callers, FinishRun(c)
    PROVE  Inv'
<1>1. /\ work[c].at \in {"runner", "failing"} /\ work[c].id \in Ids /\ work[c].run \in RunIds
      /\ work[c].copy = None /\ work[c].run # 0 /\ now \in Nat
      /\ file \in [Ids -> Schedule \cup {None, Torn}]
      /\ list \in [Ticks -> [Ids -> Schedule \cup {None}]]
      /\ UNCHANGED <<now, file, recovering, stuck, made, fired, word, crashes, faults>>
  BY DEF FinishRun, Inv, TypeOK, Shapes, Shape, Work, Puts
<1>2. CASE Ends(c)
  <2>1. PICK f : f = Finished(file[work[c].id], work[c].run, work[c].kind = "runOnce")
    OBVIOUS
  <2>2. file[work[c].id] \in Schedule /\ Stored(work[c].id)
    BY <1>1, <1>2 DEF Ends, Stored
  <2>3. f \in Schedule /\ f # None
    BY <1>1, <2>1, <2>2, FinishedCopy, NoneAssumption
  <2>4. PICK at \in {"ending", "failed"} : work' = [work EXCEPT ![c].at = at, ![c].copy = f]
    BY <1>1, <1>2, <2>1 DEF Ends
  <2>5. UNCHANGED <<running, list>>
    BY <1>2 DEF Ends
  <2>6. QED
    BY <1>1, <2>1, <2>2, <2>3, <2>4, <2>5, InvFinishes
<1>3. CASE /\ work[c].at = "runner"
           /\ work' = [work EXCEPT ![c].at = "failing"]
           /\ UNCHANGED <<running, list>>
  <2>1. work' = [work EXCEPT ![c].at = "failing", ![c].copy = None]
    BY <1>1, <1>3 DEF Inv, TypeOK, Work
  <2>2. QED
    BY <1>1, <1>3, <2>1, InvFinishes
<1>4. CASE work[c].at = "failing" /\ Thrown(c)
  <2>1. /\ list' \in [Ticks -> [Ids -> Schedule \cup {None}]]
        /\ \A t \in Ticks, r \in Ids : list'[t][r] = None \/ list'[t][r] = list[t][r]
    BY <1>1, <1>4, AbandonedList DEF Thrown
  <2>2. /\ Goes(c, Rest)
        /\ running' = IF work[c].run # 0 THEN running \ {work[c].id} ELSE running
        /\ file' = [file EXCEPT ![work[c].id] = file[work[c].id]] /\ word' = word
    BY <1>1, <1>4, RestGoes DEF Thrown, Inv, TypeOK
  <2>3. file[work[c].id] \in Schedule \cup {None, Torn} /\ MayLeave(c, work[c].id, file[work[c].id])
    BY <1>1 DEF MayLeave
  <2>4. QED
    BY <1>1, <1>4, <2>1, <2>2, <2>3, InvRests
<1>5. QED
  BY <1>2, <1>3, <1>4 DEF FinishRun

\* The calls of users that put a schedule, and runOnce.
LEMMA InvUserCalls ==
    ASSUME Inv, NEW u \in Users, NEW s \in Ids,
           Pause(u, s) \/ Resume(u, s) \/ Update(u, s) \/ RunOnce(u, s)
    PROVE  Inv'
<1>1. PICK g : g = file[s]
  OBVIOUS
<1>2. /\ Stored(s) /\ g \in Schedule /\ g # None /\ Good(s, g)
      /\ now \in Nat /\ now + 1 \in Nat /\ now + 1 # 0
  <2>1. Stored(s)
    BY DEF Pause, Resume, Update, RunOnce
  <2>2. file[s] \in Schedule /\ file[s] # None /\ now \in Nat
    BY <2>1 DEF Inv, TypeOK, Stored
  <2>3. Good(s, file[s])
    BY <2>2 DEF Inv, Copies
  <2>4. QED
    BY <1>1, <2>1, <2>2, <2>3
<1>3. CASE Pause(u, s)
  <2>1. PICK f : f = [g EXCEPT !.status = "paused", !.next = 0]
    OBVIOUS
  <2>2. f \in Schedule /\ f.runs = g.runs /\ f.status = "paused" /\ f.next = 0
    BY <1>2, <2>1 DEF Schedule
  <2>w. PICK w : w = [Rest EXCEPT !.at = "putting", !.kind = "pause", !.id = s, !.copy = f]
    OBVIOUS
  <2>3. /\ Up /\ work[u].at = "new" /\ "pause" \in Kinds /\ word' = word
        /\ work' = [work EXCEPT ![u] = w]
        /\ UNCHANGED <<now, file, recovering, running, stuck, list, made, fired, crashes, faults>>
    BY <1>1, <1>3, <2>1, <2>w DEF Pause, Put
  <2>4. Calls(w, "putting", "pause", s, f)
    BY <2>2, <2>3, <2>w, CallRecord
  <2>5. QED
    BY <1>1, <1>2, <2>2, <2>3, <2>4, InvReads
<1>4. CASE Resume(u, s)
  <2>1. PICK f : f = [g EXCEPT !.status = "active", !.next = now + 1]
    OBVIOUS
  <2>2. f \in Schedule /\ f.runs = g.runs /\ f.status = "active" /\ f.next # 0
    BY <1>2, <2>1 DEF Schedule
  <2>w. PICK w : w = [Rest EXCEPT !.at = "putting", !.kind = "resume", !.id = s, !.copy = f]
    OBVIOUS
  <2>3. /\ Up /\ work[u].at = "new" /\ "resume" \in Kinds
        /\ word' = [word EXCEPT ![s] = "none"]
        /\ work' = [work EXCEPT ![u] = w]
        /\ UNCHANGED <<now, file, recovering, running, stuck, list, made, fired, crashes, faults>>
    BY <1>1, <1>4, <2>1, <2>w DEF Resume, Put
  <2>4. word'[s] = "none"
    BY <2>3 DEF Inv, TypeOK
  <2>5. Calls(w, "putting", "resume", s, f)
    BY <2>2, <2>3, <2>w, CallRecord
  <2>6. QED
    BY <1>1, <1>2, <2>2, <2>3, <2>4, <2>5, InvReads
<1>5. CASE Update(u, s)
  <2>1. PICK max \in Limits, expires \in Expiries, cadence \in BOOLEAN :
          LET f == [file[s] EXCEPT !.max = max, !.expires = expires]
          IN Put(u, "update", s, IF cadence THEN Rescheduled(f) ELSE f)
    BY <1>5 DEF Update
  <2>2. PICK h : h = [g EXCEPT !.max = max, !.expires = expires]
    OBVIOUS
  <2>3. PICK f : f = IF cadence THEN Rescheduled(h) ELSE h
    OBVIOUS
  <2>4. h \in Schedule /\ h.runs = g.runs /\ h.status = g.status /\ h.next = g.next
    BY <1>2, <2>2, TermsAssumption DEF Schedule
  <2>5. /\ f \in Schedule /\ f.runs = h.runs /\ f.status = h.status
        /\ f.next = h.next \/ f.next = IF h.status = "active" THEN now + 1 ELSE 0
    BY <1>2, <2>3, <2>4 DEF Rescheduled, Schedule
  <2>w. PICK w : w = [Rest EXCEPT !.at = "putting", !.kind = "update", !.id = s, !.copy = f]
    OBVIOUS
  <2>6. /\ Up /\ work[u].at = "new" /\ "update" \in Kinds /\ word' = word
        /\ work' = [work EXCEPT ![u] = w]
        /\ UNCHANGED <<now, file, recovering, running, stuck, list, made, fired, crashes, faults>>
    BY <1>1, <1>5, <2>1, <2>2, <2>3, <2>w DEF Update, Put
  <2>7. /\ f.status = "active" => f.next # 0 /\ word[s] # "paused"
        /\ f.status = "paused" => f.next = 0
    BY <1>2, <2>4, <2>5 DEF Good
  <2>8. Calls(w, "putting", "update", s, f)
    BY <2>5, <2>6, <2>w, CallRecord
  <2>9. QED
    BY <1>1, <1>2, <2>4, <2>5, <2>6, <2>7, <2>8, InvReads
<1>6. CASE RunOnce(u, s)
  <2>w. PICK w : w = [Rest EXCEPT !.at = "called", !.kind = "runOnce", !.id = s, !.copy = g]
    OBVIOUS
  <2>1. /\ Up /\ work[u].at = "new" /\ "runOnce" \in Kinds /\ word' = word
        /\ work' = [work EXCEPT ![u] = w]
        /\ UNCHANGED <<now, file, recovering, running, stuck, list, made, fired, crashes, faults>>
    BY <1>1, <1>6, <2>w DEF RunOnce
  <2>2. /\ g.status = "active" => g.next # 0 /\ word[s] # "paused"
        /\ g.status = "paused" => g.next = 0
    BY <1>2 DEF Good
  <2>3. Calls(w, "called", "runOnce", s, g)
    BY <1>2, <2>1, <2>w, CallRecord
  <2>4. QED
    BY <1>1, <1>2, <2>1, <2>2, <2>3, InvReads
<1>7. QED
  BY <1>3, <1>4, <1>5, <1>6

\* A schedule is created.
LEMMA InvCreate ==
    ASSUME Inv, NEW s \in Ids, Create(s)
    PROVE  Inv'
<1> USE DEF Inv
<1>1. PICK next \in {now, now + 1}, max \in Limits, expires \in Expiries :
        file' = [file EXCEPT ![s] = Fresh("active", next, max, expires)]
  BY DEF Create
<1>2. PICK f : f = Fresh("active", next, max, expires)
  OBVIOUS
<1>3. /\ f \in Schedule /\ f.status = "active" /\ f.next = next
      /\ \A r \in RunIds : f.runs[r] = "none"
  BY <1>1, <1>2, TermsAssumption DEF Fresh, Schedule, TypeOK
<1>4. /\ file' = [file EXCEPT ![s] = f] /\ made' = s /\ s = made + 1 /\ recovering = {}
      /\ made \in Nat
      /\ UNCHANGED <<now, recovering, running, stuck, list, work, fired, word, crashes, faults>>
  BY <1>1, <1>2 DEF Create, Up, TypeOK
<1>5. \A r \in Ids : r \in Nat /\ (r <= made => r <= made' /\ r # s)
  BY <1>4, BoundsAssumption DEF Ids
<1>6. TypeOK' /\ Shapes' /\ Marked' /\ Recovering'
  BY <1>3, <1>4, BoundsAssumption DEF TypeOK, Shapes, Shape, Puts, Marked, Running, Recovering, Ids
<1>7. Known'
  <2>1. \A c \in Callers : work[c].id # None => work[c].id \in Ids
    BY DEF TypeOK, Work
  <2>2. \A r \in Ids : file'[r] # None \/ word'[r] # "none" => r <= made'
    BY <1>4, <1>5 DEF Known, TypeOK
  <2>3. QED
    BY <1>4, <1>5, <2>1, <2>2 DEF Known
<1>8. next # 0
  BY <1>4 DEF TypeOK
<1>9. Copies'
  <2>1. \A r \in Ids, g \in Schedule : Good(r, g) => Good(r, g)'
    BY <1>4 DEF Good
  <2>2. Good(s, f)'
    <3>1. \A c \in Callers : work[c].at \in {"saving", "runner"} => work[c].run \in RunIds
      BY DEF Shapes, Shape, Puts, TypeOK, Work
    <3>2. word[s] = "none"
      BY <1>5, <1>4 DEF Known, TypeOK
    <3>3. QED
      BY <1>3, <1>4, <1>8, <3>1, <3>2 DEF Good
  <2>3. \A r \in Ids : (file[r] \in Schedule => Good(r, file[r]))'
    BY <1>3, <1>4, <2>1, <2>2 DEF Copies, TypeOK
  <2>4. \A c \in Callers : (work[c].copy \in Schedule => Good(work[c].id, work[c].copy))'
    BY <1>4, <2>1, NoneAssumption DEF Copies, Shapes, Shape, Puts, TypeOK, Work
  <2>5. \A t \in Ticks : \A r \in Ids : (list[t][r] # None => Good(r, list[t][r]))'
    BY <1>4, <2>1 DEF Copies, TypeOK
  <2>6. QED
    BY <2>3, <2>4, <2>5 DEF Copies
<1>10. Forgotten'
  BY <1>4, <1>5 DEF Forgotten, Holds, Known, TypeOK
<1>11. QED
  BY <1>6, <1>7, <1>9, <1>10

\* A schedule is created in part.
LEMMA InvCreateFails ==
    ASSUME Inv, NEW s \in Ids, CreateFails(s)
    PROVE  Inv'
<1> USE DEF Inv
<1>1. /\ file' = [file EXCEPT ![s] = Torn] /\ made' = s /\ s = made + 1 /\ recovering = {}
      /\ made \in Nat /\ faults' = faults + 1 /\ faults \in Nat
      /\ UNCHANGED <<now, recovering, running, stuck, list, work, fired, word, crashes>>
  BY DEF CreateFails, Up, TypeOK
<1>2. \A r \in Ids : r \in Nat /\ (r <= made => r <= made' /\ r # s)
  BY <1>1, BoundsAssumption DEF Ids
<1>3. TypeOK' /\ Shapes' /\ Marked' /\ Recovering'
  BY <1>1, BoundsAssumption DEF TypeOK, Shapes, Shape, Puts, Marked, Running, Recovering, Ids
<1>4. Known'
  <2>1. \A c \in Callers : work[c].id # None => work[c].id \in Ids
    BY DEF TypeOK, Work
  <2>2. \A r \in Ids : file'[r] # None \/ word'[r] # "none" => r <= made'
    BY <1>1, <1>2 DEF Known, TypeOK
  <2>3. QED
    BY <1>1, <1>2, <2>1, <2>2 DEF Known
<1>5. Copies'
  <2>1. \A r \in Ids, g \in Schedule : Good(r, g) => Good(r, g)'
    BY <1>1 DEF Good
  <2>2. \A r \in Ids : (file[r] \in Schedule => Good(r, file[r]))'
    BY <1>1, <2>1, NoneAssumption DEF Copies, TypeOK
  <2>3. \A c \in Callers : (work[c].copy \in Schedule => Good(work[c].id, work[c].copy))'
    BY <1>1, <2>1, NoneAssumption DEF Copies, Shapes, Shape, Puts, TypeOK, Work
  <2>l. list' = list /\ list \in [Ticks -> [Ids -> Schedule \cup {None}]]
    BY <1>1 DEF TypeOK
  <2>4. \A t \in Ticks : \A r \in Ids : (list[t][r] # None => Good(r, list[t][r]))'
    BY <2>1, <2>l DEF Copies
  <2>5. QED
    BY <2>2, <2>3, <2>4 DEF Copies
<1>6. Forgotten'
  BY <1>1, <1>2 DEF Forgotten, Holds, Known, TypeOK
<1>7. QED
  BY <1>3, <1>4, <1>5, <1>6

\* A schedule is deleted, for good if nobody else has a copy.
LEMMA InvDelete ==
    ASSUME Inv, NEW u \in Users, NEW s \in Ids, Delete(u, s)
    PROVE  Inv'
<1> USE DEF Inv
<1>1. /\ u \in Callers /\ u \notin Ticks /\ work[u].at = "new" /\ recovering = {}
      /\ file[s] # None /\ file' = [file EXCEPT ![s] = None]
      /\ word' = [word EXCEPT ![s] = IF Alone(u, s) THEN "deleted" ELSE @]
      /\ work' = [work EXCEPT ![u] = Rest]
      /\ UNCHANGED <<now, recovering, running, stuck, list, made, fired, crashes, faults>>
  BY CallersAssumption DEF Delete, Up, Callers
<1>2. /\ work'[u].at = "idle" /\ work'[u].kind = "none" /\ work'[u].id = None
      /\ work'[u].run = 0 /\ work'[u].copy = None /\ work'[u] \in Work
      /\ \A d \in Callers \ {u} : work'[d] = work[d]
  BY <1>1 DEF TypeOK, Rest, Work
<1>3. work[u].run = 0 /\ work[u].copy = None
  BY <1>1 DEF Shapes, Shape, Puts
<1>4. TypeOK'
  <2>1. work' \in [Callers -> Work] /\ file' \in [Ids -> Schedule \cup {None, Torn}]
    BY <1>1, <1>2 DEF TypeOK
  <2>2. word' \in [Ids -> {"none", "paused", "deleted"}]
    BY <1>1 DEF TypeOK
  <2>3. QED
    BY <1>1, <2>1, <2>2 DEF TypeOK
<1>5. Shapes'
  BY <1>1, <1>2, KindsAssumption DEF Shapes, Shape, Puts, AllKinds
<1>6. Marked'
  BY <1>1, <1>2, <1>3 DEF Marked, Running
<1>7. Recovering'
  BY <1>1 DEF Recovering
<1>8. s <= made /\ \A r \in Ids : word'[r] # "none" => word[r] # "none" \/ r = s
  BY <1>1 DEF Known, TypeOK
<1>9. Known'
  BY <1>1, <1>2, <1>8 DEF Known, TypeOK
<1>10. Copies'
  <2>1. \A r \in Ids : word'[r] = "paused" => word[r] = "paused"
    BY <1>1 DEF TypeOK
  <2>2. \A r \in Ids, g \in Schedule : Good(r, g) => Good(r, g)'
    BY <1>1, <1>2, <2>1 DEF Good
  <2>3. \A r \in Ids : (file[r] \in Schedule => Good(r, file[r]))'
    BY <1>1, <2>2, NoneAssumption DEF Copies, TypeOK
  <2>4. \A d \in Callers : (work[d].copy \in Schedule => Good(work[d].id, work[d].copy))'
    BY <1>2, <2>2, NoneAssumption DEF Copies, Shapes, Shape, Puts, TypeOK, Work
  <2>5. \A t \in Ticks : \A r \in Ids : (list[t][r] # None => Good(r, list[t][r]))'
    BY <1>1, <2>2 DEF Copies, TypeOK
  <2>6. QED
    BY <2>3, <2>4, <2>5 DEF Copies
<1>11. Forgotten'
  <2>1. Alone(u, s) => \A d \in Callers : (~Holds(d, s))'
    BY <1>1, <1>2 DEF Alone, Holds
  <2>2. \A r \in Ids : word'[r] = "deleted" => word[r] = "deleted" \/ (r = s /\ Alone(u, s))
    BY <1>1 DEF TypeOK
  <2>3. \A r \in Ids : word[r] = "deleted" => file'[r] = None /\ \A d \in Callers : (~Holds(d, r))'
    BY <1>1, <1>2 DEF Forgotten, Holds, TypeOK
  <2>4. QED
    BY <1>1, <2>1, <2>2, <2>3 DEF Forgotten, TypeOK
<1>12. QED
  BY <1>4, <1>5, <1>6, <1>7, <1>9, <1>10, <1>11

\* A tick reads the schedules.
LEMMA InvTick ==
    ASSUME Inv, NEW t \in Ticks, Tick(t)
    PROVE  Inv'
<1> USE DEF Inv
<1>1. /\ recovering = {}
      /\ list' = [list EXCEPT ![t] = [s \in Ids |-> IF Acts(file[s]) THEN Judged(file[s]) ELSE None]]
      /\ UNCHANGED <<now, file, recovering, running, stuck, work, made, fired, word, crashes, faults>>
  BY DEF Tick, Up
<1>r. \A s \in Ids : file[s] # Torn
  BY DEF Tick, Readable
<1>2. \A s \in Ids : list'[t][s] # None =>
        /\ list'[t][s] \in Schedule /\ file[s] # None /\ file[s] \in Schedule
        /\ list'[t][s].runs = file[s].runs
        /\ list'[t][s] = file[s] \/ list'[t][s].status = "completed"
  BY <1>1, <1>r, JudgedCopy DEF Acts, TypeOK
<1>3. \A r \in Ticks \ {t} : list'[r] = list[r]
  BY <1>1 DEF TypeOK
<1>4. list' \in [Ticks -> [Ids -> Schedule \cup {None}]]
  <2> DEFINE l == [s \in Ids |-> IF Acts(file[s]) THEN Judged(file[s]) ELSE None]
  <2>1. l \in [Ids -> Schedule \cup {None}]
    BY <1>r, JudgedCopy DEF Acts, TypeOK
  <2> HIDE DEF l
  <2>2. QED
    BY <1>1, <2>1 DEF TypeOK, l
<1>5. TypeOK' /\ Shapes' /\ Marked' /\ Recovering'
  BY <1>1, <1>4 DEF TypeOK, Shapes, Shape, Puts, Marked, Running, Recovering
<1>6. Known'
  BY <1>1, <1>2, <1>3 DEF Known
<1>7. Copies'
  <2>1. \A r \in Ids, g \in Schedule : Good(r, g) => Good(r, g)'
    BY <1>1 DEF Good
  <2>2. \A s \in Ids : (list[t][s] # None => Good(s, list[t][s]))'
    BY <1>1, <1>2 DEF Copies, Good
  <2>3. \A s \in Ids : (file[s] \in Schedule => Good(s, file[s]))'
    BY <1>1, <2>1 DEF Copies
  <2>4. \A c \in Callers : (work[c].copy \in Schedule => Good(work[c].id, work[c].copy))'
    <3> SUFFICES ASSUME NEW c \in Callers, work[c].copy \in Schedule
                 PROVE  Good(work[c].id, work[c].copy)'
      BY <1>1
    <3>1. Good(work[c].id, work[c].copy) /\ work[c].id \in Ids
      BY NoneAssumption DEF Copies, TypeOK, Shapes, Shape, Puts, Work
    <3>2. QED
      BY <1>1, <2>1, <3>1
  <2>5. \A r \in Ticks \ {t} : \A s \in Ids : (list[r][s] # None => Good(s, list[r][s]))'
    <3> SUFFICES ASSUME NEW r \in Ticks \ {t}, NEW s \in Ids, list[r][s] # None
                 PROVE  Good(s, list[r][s])'
      BY <1>3
    <3>1. Good(s, list[r][s]) /\ list[r][s] \in Schedule
      BY DEF Copies, TypeOK
    <3>2. QED
      BY <1>3, <2>1, <3>1
  <2>6. QED
    BY <2>2, <2>3, <2>4, <2>5 DEF Copies
<1>8. Forgotten'
  <2>1. \A s \in Ids : word[s] = "deleted" => list'[t][s] = None
    BY <1>2 DEF Forgotten
  <2>2. QED
    BY <1>1, <1>3, <2>1 DEF Forgotten, Holds
<1>9. QED
  BY <1>5, <1>6, <1>7, <1>8

\* A tick is to put a schedule of its list that it has completed.
LEMMA InvTickPuts ==
    ASSUME Inv, NEW t \in Ticks, NEW s \in Ids, NEW f \in Schedule, f = list[t][s], f # None,
           work[t].at = "idle", NEW w, Calls(w, "putting", "none", s, f),
           work' = [work EXCEPT ![t] = w],
           list' \in [Ticks -> [Ids -> Schedule \cup {None}]],
           \A r \in Ticks, q \in Ids : list'[r][q] = None \/ list'[r][q] = list[r][q],
           UNCHANGED <<now, file, recovering, running, stuck, made, fired, word, crashes, faults>>
    PROVE  Inv'
<1> USE DEF Inv
<1>1. /\ t \in Callers /\ work'[t] = w /\ \A c \in Callers \ {t} : work'[c] = work[c]
      /\ w \in Work /\ w.at = "putting" /\ w.kind = "none" /\ w.id = s /\ w.run = 0 /\ w.copy = f
      /\ work[t].run = 0
  BY DEF Calls, Callers, TypeOK, Shapes, Shape, Puts
<1>2. TypeOK'
  BY <1>1 DEF TypeOK
<1>3. Shapes'
  BY <1>1, KindsAssumption, NoneAssumption DEF Shapes, Shape, Puts, AllKinds
<1>4. Marked'
  BY <1>1 DEF Marked, Running
<1>5. recovering = {} /\ Recovering'
  BY DEF Recovering
<1>6. s <= made /\ Good(s, f) /\ word[s] # "deleted"
  BY <1>1 DEF Known, Copies, Forgotten, Holds
<1>7. Known'
  BY <1>1, <1>6 DEF Known
<1>8. Copies'
  <2>1. \A r \in Ids, g \in Schedule : Good(r, g) => Good(r, g)'
    BY <1>1 DEF Good
  <2>2. \A r \in Ids : (file[r] \in Schedule => Good(r, file[r]))'
    BY <2>1 DEF Copies, TypeOK
  <2>3. \A c \in Callers : (work[c].copy \in Schedule => Good(work[c].id, work[c].copy))'
    BY <1>1, <1>6, <2>1, NoneAssumption DEF Copies, Shapes, Shape, Puts, TypeOK, Work
  <2>4. \A r \in Ticks : \A q \in Ids : (list[r][q] # None => Good(q, list[r][q]))'
    BY <2>1 DEF Copies, TypeOK
  <2>5. QED
    BY <2>2, <2>3, <2>4 DEF Copies
<1>9. Forgotten'
  BY <1>1, <1>6 DEF Forgotten, Holds
<1>10. QED
  BY <1>2, <1>3, <1>4, <1>5, <1>7, <1>8, <1>9

\* A tick goes on, or ends.
LEMMA InvTickGoes ==
    ASSUME Inv, NEW t \in Ticks, TickGoes(t)
    PROVE  Inv'
<1>1. /\ t \in Callers /\ work[t].at = "idle" /\ list[t] # Unlisted
      /\ list \in [Ticks -> [Ids -> Schedule \cup {None}]]
      /\ UNCHANGED <<now, file, recovering, stuck, made, word, crashes, faults>>
  BY DEF TickGoes, Inv, TypeOK, Callers
<1>2. recovering = {}
  <2>1. PICK s \in Ids : list[t][s] # None
    BY <1>1 DEF Unlisted
  <2>2. QED
    BY <2>1 DEF Inv, Recovering
<1>3. CASE list' = Abandoned(t) /\ UNCHANGED <<running, fired, work>>
  <2>1. /\ list' \in [Ticks -> [Ids -> Schedule \cup {None}]]
        /\ \A r \in Ticks, q \in Ids : list'[r][q] = None \/ list'[r][q] = list[r][q]
    BY <1>1, <1>3 DEF Abandoned, Unlisted
  <2>2. TypeOK' /\ Shapes' /\ Marked'
    BY <1>1, <1>3, <2>1 DEF Inv, TypeOK, Shapes, Shape, Puts, Marked, Running
  <2>3. Recovering' /\ Known' /\ Forgotten'
    BY <1>1, <1>2, <1>3, <2>1 DEF Inv, Recovering, Known, Forgotten, Holds
  <2>4. Copies'
    <3>1. \A r \in Ids, g \in Schedule : Good(r, g) => Good(r, g)'
      BY <1>1, <1>3 DEF Good
    <3>2. \A r \in Ids : (file[r] \in Schedule => Good(r, file[r]))'
      BY <1>1, <3>1 DEF Inv, Copies, TypeOK
    <3>3. \A c \in Callers : (work[c].copy \in Schedule => Good(work[c].id, work[c].copy))'
      BY <1>3, <3>1, NoneAssumption DEF Inv, Copies, Shapes, Shape, Puts, TypeOK, Work
    <3>4. \A r \in Ticks : \A q \in Ids : (list[r][q] # None => Good(q, list[r][q]))'
      BY <1>1, <2>1, <3>1 DEF Inv, Copies
    <3>5. QED
      BY <3>2, <3>3, <3>4 DEF Copies
  <2>5. QED
    BY <2>2, <2>3, <2>4 DEF Inv
<1>4. ASSUME NEW s \in Ids, list[t][s] # None, Free(t, s),
             list' = [list EXCEPT ![t] = [r \in Ids |-> IF r <= s THEN None ELSE @[r]]],
             IF list[t][s].status = "completed"
             THEN /\ work' = [work EXCEPT ![t] = [Rest EXCEPT !.at = "putting",
                                !.id = s, !.copy = list[t][s]]]
                  /\ UNCHANGED <<running, fired>>
             ELSE StartRun(t, s, list[t][s])
      PROVE  Inv'
  <2>1. PICK f : f = list[t][s]
    OBVIOUS
  <2>2. /\ f \in Schedule /\ f # None /\ s <= made /\ Good(s, f) /\ word[s] # "deleted"
        /\ s \notin running
    BY <1>1, <1>4, <2>1 DEF Inv, Known, Copies, Forgotten, Holds, Free
  <2>3. /\ list' \in [Ticks -> [Ids -> Schedule \cup {None}]]
        /\ \A r \in Ticks, q \in Ids : list'[r][q] = None \/ list'[r][q] = list[r][q]
    <3> DEFINE l == [r \in Ids |-> IF r <= s THEN None ELSE list[t][r]]
    <3>1. l \in [Ids -> Schedule \cup {None}] /\ \A q \in Ids : l[q] = None \/ l[q] = list[t][q]
      BY <1>1
    <3>2. list' = [list EXCEPT ![t] = l]
      BY <1>4
    <3> HIDE DEF l
    <3>3. QED
      BY <1>1, <3>1, <3>2
  <2>4. CASE f.status = "completed"
    <3>1. PICK w : w = [Rest EXCEPT !.at = "putting", !.id = s, !.copy = f]
      OBVIOUS
    <3>2. work' = [work EXCEPT ![t] = w] /\ UNCHANGED <<running, fired>>
      BY <1>4, <2>1, <2>4, <3>1
    <3>3. Calls(w, "putting", "none", s, f)
      BY <2>2, <3>1 DEF Calls, Rest, Work
    <3>4. QED
      BY <1>1, <2>1, <2>2, <2>3, <3>2, <3>3, InvTickPuts
  <2>5. CASE f.status # "completed"
    <3>1. StartRun(t, s, f)
      BY <1>4, <2>1, <2>5
    <3>2. QED
      BY <1>1, <1>2, <2>2, <2>3, <3>1, InvStarts
  <2>6. QED
    BY <2>4, <2>5
<1>5. QED
  BY <1>3, <1>4 DEF TickGoes

\* The daemon stops and starts: nothing is under way but what is recorded.
LEMMA InvCrash == ASSUME Inv, Crash PROVE Inv'
<1> USE DEF Inv
<1>1. /\ recovering' = {s \in Ids : file[s] # None}
      /\ running' = {} /\ list' = [t \in Ticks |-> Unlisted]
      /\ crashes \in Nat /\ crashes' = crashes + 1
      /\ stuck' = {} /\ UNCHANGED <<now, file, made, fired, word, faults>>
  BY DEF Crash, TypeOK
<1>2. Rest \in Work /\ Rest.at = "idle" /\ Rest.kind = "none" /\ Rest.id = None
      /\ Rest.run = 0 /\ Rest.copy = None
  BY DEF Rest, Work
<1>3. work' \in [Callers -> Work]
  BY <1>2 DEF Crash, TypeOK
<1>4. \A c \in Callers : /\ work'[c].at \in {"new", "idle"} /\ work'[c].kind = "none"
                         /\ work'[c].id = None /\ work'[c].run = 0 /\ work'[c].copy = None
                         /\ work'[c].at = "new" => c \in Users
  BY <1>2 DEF Crash, Shapes, Shape, Puts
<1>5. \A t \in Ticks : \A s \in Ids : list'[t][s] = None
  BY <1>1 DEF Unlisted
<1>6. TypeOK'
  BY <1>1, <1>3 DEF TypeOK, Unlisted
<1>7. Shapes'
  BY <1>4, KindsAssumption DEF Shapes, Shape, Puts, AllKinds
<1>8. Marked' /\ Recovering'
  BY <1>1, <1>4, <1>5 DEF Marked, Running, Recovering
<1>9. Known'
  BY <1>1, <1>4, <1>5 DEF Known
<1>10. Copies'
  BY <1>1, <1>4, <1>5, NoneAssumption DEF Copies, Good
<1>11. Forgotten'
  BY <1>1, <1>4, <1>5 DEF Forgotten, Holds
<1>12. QED
  BY <1>6, <1>7, <1>8, <1>9, <1>10, <1>11

\* What start makes of a schedule is as good.
LEMMA RecoveredCopy ==
    ASSUME now \in Nat, NEW g \in Schedule, NEW f, f = Recovered(g)
    PROVE  /\ f \in Schedule /\ f.status = g.status
           /\ \A r \in RunIds : g.runs[r] = "none" => f.runs[r] = "none"
           /\ f.next = g.next \/ (g.status = "active" /\ f.next # 0)
<1> DEFINE runs == [r \in RunIds |-> IF r \in Interrupted(g) THEN "ended" ELSE g.runs[r]]
           next == IF g.status = "active" /\ g.next # 0 /\ g.next <= now
                   THEN NextAfter(g.next) ELSE g.next
<1>1. /\ runs \in [RunIds -> {"none", "running", "ended"}]
      /\ \A r \in RunIds : g.runs[r] = "none" => runs[r] = "none"
  BY DEF Interrupted, Schedule
<1>2. next \in Nat /\ (next = g.next \/ (g.status = "active" /\ next # 0))
  BY NextLater DEF Schedule
<1>3. f = [g EXCEPT !.runs = runs, !.next = next]
  BY DEF Recovered, Schedule
<1> HIDE DEF runs, next
<1>4. f \in Schedule /\ f.status = g.status /\ f.runs = runs /\ f.next = next
  BY <1>1, <1>2, <1>3 DEF Schedule
<1>5. QED
  BY <1>1, <1>2, <1>4

\* start leaves f of a schedule it looks at, and has the schedules "left" still
\* to look at.
LEMMA InvRecovers ==
    ASSUME Inv, NEW s \in Ids, s \in recovering, file[s] \in Schedule,
           NEW f \in {file[s], Torn, Recovered(file[s])}, file' = [file EXCEPT ![s] = f],
           NEW left \in SUBSET Ids, recovering' = left, \A r \in left : file[r] # None,
           faults' \in {faults, faults + 1},
           UNCHANGED <<now, running, stuck, list, work, made, fired, word, crashes>>
    PROVE  Inv'
<1> USE DEF Inv
<1>1. /\ Good(s, file[s]) /\ now \in Nat /\ file[s] # None /\ running = {} /\ stuck = {}
      /\ \A c \in Callers : work[c].at \in {"new", "idle"} /\ work[c].copy = None
  BY NoneAssumption DEF Recovering, TypeOK, Copies, Shapes, Shape, Puts
<1>2. /\ f \in Schedule \cup {Torn} /\ f # None
      /\ f \in Schedule => /\ f.status = file[s].status
                           /\ \A r \in RunIds : file[s].runs[r] = "none" => f.runs[r] = "none"
                           /\ f.next = file[s].next \/ (file[s].status = "active" /\ f.next # 0)
  <2>1. CASE f = Recovered(file[s])
    BY <1>1, <2>1, RecoveredCopy, NoneAssumption
  <2>2. CASE f = Torn
    BY <2>2, NoneAssumption
  <2>3. CASE f = file[s]
    BY <1>1, <2>3
  <2>4. QED
    BY <2>1, <2>2, <2>3
<1>3. TypeOK' /\ Shapes' /\ Marked'
  BY <1>2 DEF TypeOK, Shapes, Shape, Puts, Marked, Running
<1>4. Recovering'
  BY <1>1, <1>2 DEF Recovering, TypeOK
<1>5. Known'
  BY <1>1, <1>2 DEF Known, TypeOK
<1>6. Copies'
  <2>1. \A r \in Ids, g \in Schedule : Good(r, g) => Good(r, g)'
    BY DEF Good
  <2>2. f \in Schedule => Good(s, f)'
    BY <1>1, <1>2 DEF Good
  <2>3. QED
    BY <1>1, <1>2, <2>1, <2>2, NoneAssumption DEF Copies, TypeOK, Shapes, Shape, Puts, Work
<1>7. Forgotten'
  BY <1>1 DEF Forgotten, Holds, TypeOK
<1>8. QED
  BY <1>3, <1>4, <1>5, <1>6, <1>7

\* start looks at a schedule, and its put may be rejected.
LEMMA InvRecover ==
    ASSUME Inv, NEW s \in Ids, Recover(s) \/ RecoverFails(s)
    PROVE  Inv'
<1>1. /\ s \in recovering /\ file[s] # Torn
      /\ UNCHANGED <<now, running, stuck, list, work, made, fired, word, crashes>>
      /\ faults' \in {faults, faults + 1} /\ faults \in Nat
  BY DEF Inv, TypeOK, Recover, RecoverFails, Readable
<1>2. file[s] \in Schedule
  BY <1>1 DEF Inv, Recovering, TypeOK
<1>3. PICK f \in {file[s], Torn, Recovered(file[s])} : file' = [file EXCEPT ![s] = f]
  BY DEF Recover, RecoverFails
<1>4. PICK left : left = recovering'
  OBVIOUS
<1>5. left \in SUBSET Ids /\ \A r \in left : file[r] # None
  BY <1>4 DEF Recover, RecoverFails, Inv, Recovering, TypeOK
<1>6. QED
  BY <1>1, <1>2, <1>3, <1>4, <1>5, InvRecovers

\* Every step preserves the invariant.
LEMMA InvNext == Inv /\ [Next]_vars => Inv'
<1> SUFFICES ASSUME Inv, [Next]_vars PROVE Inv'
  OBVIOUS
<1>1. ASSUME NEW s \in Ids, Create(s) \/ CreateFails(s) \/ Recover(s) \/ RecoverFails(s)
      PROVE  Inv'
  BY <1>1, InvCreate, InvCreateFails, InvRecover
<1>2. ASSUME NEW u \in Users, NEW s \in Ids,
             Pause(u, s) \/ Resume(u, s) \/ Update(u, s) \/ Delete(u, s) \/ RunOnce(u, s)
      PROVE  Inv'
  BY <1>2, InvUserCalls, InvDelete
<1>3. ASSUME NEW u \in Users, RunOnceGoes(u) PROVE Inv'
  BY <1>3, InvRunOnceGoes
<1>4. ASSUME NEW t \in Ticks, Tick(t) \/ TickGoes(t) PROVE Inv'
  BY <1>4, InvTick, InvTickGoes
<1>5. ASSUME NEW c \in Callers, Step(c) \/ PutFails(c) PROVE Inv'
  BY <1>5, InvSaved, InvFinishRun, InvPutDone, InvPutFails DEF Step
<1>6. CASE Crash
  BY <1>6, InvCrash
<1>7. CASE TimePasses
  <2>1. /\ now' = now + 1
        /\ UNCHANGED <<file, recovering, running, stuck, list, work, made, fired, word, crashes, faults>>
    BY <1>7 DEF TimePasses
  <2>2. TypeOK'
    BY <2>1 DEF Inv, TypeOK
  <2>3. QED
    BY <2>1, <2>2 DEF Inv, Shapes, Shape, Puts, Marked, Running, Recovering, Known, Copies, Good,
                      Forgotten, Holds
<1>8. CASE UNCHANGED vars
  BY <1>8 DEF vars, Inv, TypeOK, Shapes, Shape, Puts, Marked, Running, Recovering, Known, Copies,
              Good, Forgotten, Holds
<1>9. QED
  BY <1>1, <1>2, <1>3, <1>4, <1>5, <1>6, <1>7, <1>8 DEF Next

-----------------------------------------------------------------------------
(* Theorems *)

\* The marks are those of the runs in progress, and all copies of a schedule,
\* however old, agree on the runs that have not begun or not ended, keep its
\* cadence, and none contradicts a word that was given for good.
THEOREM SchedulesInvariant == Spec => []Inv
<1>1. QED
  BY InvInit, InvNext, PTL DEF Spec

\* The stored schedules and the calls in progress keep their shape, in
\* ScheduleService and ScheduleStore.
THEOREM ScheduleTypes == Spec => []TypeOK
<1>1. Inv => TypeOK
  BY DEF Inv
<1>2. QED
  BY <1>1, SchedulesInvariant, PTL

\* However many ticks overlap, whatever the users call, and whichever puts are
\* rejected or mixed, runSchedule is under way at most once for a schedule, and
\* its entry does not end before it has.  runningScheduleIds has the schedules
\* that run and, until a restart, those whose run was given up because the put
\* of its entry was rejected, outside the try block; and no others.
THEOREM RunsAreSingle == Spec => []OneRunAtATime
<1>1. Inv => OneRunAtATime
  <2> SUFFICES ASSUME Inv PROVE OneRunAtATime
    OBVIOUS
  <2>1. running = stuck \cup {work[c].id : c \in {d \in Callers : Running(d)}}
    BY DEF Inv, Marked
  <2>2. /\ \A c \in Callers : Running(c) => work[c].id \notin stuck
        /\ \A c, d \in Callers : Running(c) /\ Running(d) /\ work[c].id = work[d].id => c = d
    BY DEF Inv, Marked
  <2>3. \A c \in Callers : work[c].at \in {"saving", "runner"} /\ Stored(work[c].id) =>
          file[work[c].id].runs[work[c].run] # "ended"
    <3> SUFFICES ASSUME NEW c \in Callers, work[c].at \in {"saving", "runner"},
                        Stored(work[c].id)
                 PROVE  file[work[c].id].runs[work[c].run] # "ended"
      OBVIOUS
    <3>1. work[c].id \in Ids /\ file[work[c].id] \in Schedule
      BY DEF Inv, TypeOK, Shapes, Shape, Puts, Stored
    <3>2. QED
      BY <3>1 DEF Inv, Copies, Good
  <2>4. QED
    BY <2>1, <2>2, <2>3 DEF OneRunAtATime
<1>2. QED
  BY <1>1, SchedulesInvariant, PTL

\* No put, of whichever call, of the end of a run or of a restart, leaves an
\* active schedule without a next run, or a paused one with one.
THEOREM ActiveIsScheduled == Spec => []ScheduledIfActive
<1>1. Inv => ScheduledIfActive
  BY DEF Inv, TypeOK, Stored, Copies, Good, ScheduledIfActive
<1>2. QED
  BY <1>1, SchedulesInvariant, PTL

\* A pause or a delete that met no other operation's copy is not undone by the
\* copies that are read and put later.
THEOREM WordIsKept == Spec => []UserWordHolds
<1>1. Inv => UserWordHolds
  BY DEF Inv, TypeOK, Stored, Copies, Good, Forgotten, UserWordHolds
<1>2. QED
  BY <1>1, SchedulesInvariant, PTL
=============================================================================
