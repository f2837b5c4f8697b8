----------------------------- MODULE Schedules -----------------------------
(***************************************************************************)
(* Recurring prompts: ScheduleService (server/schedule/service.ts) over    *)
(* ScheduleStore (server/schedule/store.ts), which keeps one file per      *)
(* schedule and has no lock.                                               *)
(*                                                                         *)
(* Every operation reads a schedule, awaits, and later puts the whole      *)
(* schedule it has computed from what it read: a copy may be old by the    *)
(* time it is put.  A timer calls tick every second whether or not the     *)
(* earlier ticks are over, and a tick awaits the runs it starts one after  *)
(* another, each from the list it read at its beginning.  The daemon may   *)
(* stop at any step.                                                       *)
(*                                                                         *)
(* A put is a writeFile over the file itself: it may be rejected, may be   *)
(* met half-written by a read, and two that overlap may leave a mix.  A    *)
(* put that the daemon's stop cuts short is one that fails before it.      *)
(*                                                                         *)
(* Time is counted in periods of the cadence; ids are in the order of      *)
(* createdAt, in which list returns them.                                  *)
(***************************************************************************)
EXTENDS Naturals, FiniteSets

CONSTANTS
    Ticks,          \* ticks that may overlap
    Users,          \* calls of pause, resume, update and runOnce
    Kinds,          \* the kinds of call that are made
    Limits,         \* values of maxRuns; 0 is none
    Expiries,       \* values of expiresAt; 0 is none
    None,
    Torn,           \* what is in a file that cannot be parsed
    MaxSchedules,   \* bound: schedules created
    MaxTime,        \* bound: the last instant
    MaxFires,       \* bound: runs of one schedule
    MaxCrashes,     \* bound: restarts of the daemon
    MaxFaults       \* bound: puts that are rejected

AllKinds == {"pause", "resume", "update", "delete", "runOnce"}

ASSUME KindsAssumption == Kinds \subseteq AllKinds
ASSUME TermsAssumption == Limits \subseteq Nat /\ Expiries \subseteq Nat
ASSUME CallersAssumption == Ticks \cap Users = {}
ASSUME BoundsAssumption == {MaxSchedules, MaxTime, MaxFires, MaxCrashes, MaxFaults} \subseteq Nat

VARIABLES
    now,        \* the clock
    file,       \* the store: the schedule of each id, None, or Torn
    recovering, \* schedules recoverInterruptedRuns has still to look at
    running,    \* runningScheduleIds
    stuck,      \* ids whose run was given up between the mark and the try block
    list,       \* the schedules each tick has still to look at, as it read them
    work,       \* what each tick or call is waiting for
    made,       \* schedules created so far
    fired,      \* the runs of each schedule so far; they number run ids
    word,       \* what was last asked of a schedule with nothing else under way
    crashes,
    faults      \* puts that were rejected

vars == <<now, file, recovering, running, stuck, list, work, made, fired, word, crashes, faults>>

Ids == 1..MaxSchedules
Callers == Ticks \cup Users
RunIds == 1..MaxFires

\* StoredSchedule: what the cadence and the run history decide on.  A run is
\* "ended" when it is recorded as succeeded or failed.
Schedule == [status: {"active", "paused", "completed"}, next: Nat, max: Nat,
             expires: Nat, runs: [RunIds -> {"none", "running", "ended"}]]

ASSUME NoneAssumption == None \notin Schedule \cup Ids \cup {Torn} /\ Torn \notin Schedule

\* "called": runOnce has read the schedule; "saving": the put of the entry of
\* a run that starts; "runner": the run itself; "ending": the put of finishRun;
\* "failing", "failed": its second call, from the catch block, and the put of
\* that; "putting": any other put.
Work == [at: {"new", "idle", "called", "saving", "runner", "ending", "failing", "failed", "putting"},
         kind: Kinds \cup {"none"}, id: Ids \cup {None}, run: RunIds \cup {0},
         copy: Schedule \cup {None, Torn}]

Puts == {"saving", "ending", "failed", "putting"}

Rest == [at |-> "idle", kind |-> "none", id |-> None, run |-> 0, copy |-> None]
Unlisted == [s \in Ids |-> None]

Up == recovering = {}

\* A schedule as it may be found when the daemon starts.
Fresh(status, next, max, expires) ==
    [status |-> status, next |-> next, max |-> max, expires |-> expires,
     runs |-> [r \in RunIds |-> "none"]]

\* The store may hold a schedule that was paused before.
Init ==
    /\ now = 1
    /\ made \in 0..1 /\ made <= MaxSchedules
    /\ \E max \in Limits, expires \in Expiries :
         file = [s \in Ids |-> IF s <= made THEN Fresh("paused", 0, max, expires) ELSE None]
    /\ recovering = {} /\ running = {} /\ stuck = {}
    /\ list = [t \in Ticks |-> Unlisted]
    /\ work = [c \in Callers |-> IF c \in Users THEN [Rest EXCEPT !.at = "new"] ELSE Rest]
    /\ fired = [s \in Ids |-> 0]
    /\ word = [s \in Ids |-> "none"]
    /\ crashes = 0 /\ faults = 0

-----------------------------------------------------------------------------
(* Helpers *)

\* countCompletedRuns
Completed(f) == Cardinality({r \in RunIds : f.runs[r] = "ended"})

\* shouldCompleteSchedule
ShouldComplete(f) ==
    \/ f.expires # 0 /\ f.expires <= now
    \/ f.max # 0 /\ Completed(f) >= f.max

\* completeSchedule
Complete(f) == [f EXCEPT !.status = "completed", !.next = 0]

\* computeNextRunAt, and the loop around it that skips what has passed.
NextAfter(next) == IF next > now THEN next + 1 ELSE now + 1

\* A caller that may yet put a schedule it has read before.
Holds(c, s) ==
    \/ work[c].id = s /\ work[c].copy # None
    \/ c \in Ticks /\ list[c][s] # None

Alone(c, s) == \A d \in Callers \ {c} : ~Holds(d, s)

\* get finds a schedule; list finds no file that cannot be parsed.
Stored(s) == file[s] \notin {None, Torn}
Readable == \A s \in Ids : file[s] # Torn

Writes(c, s) == work[c].at \in Puts /\ work[c].id = s

\* inspect may throw: the file is not there, is torn, or is being written.
Unreadable(s) == ~Stored(s) \/ \E c \in Callers : Writes(c, s)

\* The put of c is over, has left f in the file, and c goes on with w.  What a
\* put of the same file that is open meanwhile leaves may be a mix of the two.
Leaves(c, f, w) ==
    /\ file' = [file EXCEPT ![work[c].id] = f]
    /\ \E mixed \in SUBSET {d \in Callers \ {c} : Writes(d, work[c].id)} :
         work' = [d \in Callers |-> IF d = c THEN w
                                    ELSE IF d \in mixed THEN [work[d] EXCEPT !.copy = Torn]
                                    ELSE work[d]]

-----------------------------------------------------------------------------
(* The calls of users.  Calls that throw or return before they change        *)
(* anything are left out, those that meet a half-written file among them,    *)
(* but for runOnce, which does so late.                                      *)

\* create: the first run is due at once with runOnCreate.
Create(s) ==
    /\ Up /\ s = made + 1 /\ made' = s
    /\ \E next \in {now, now + 1}, max \in Limits, expires \in Expiries :
         file' = [file EXCEPT ![s] = Fresh("active", next, max, expires)]
    /\ UNCHANGED <<now, recovering, running, stuck, list, work, fired, word, crashes, faults>>

\* create, whose put is rejected and leaves part of the file.
CreateFails(s) ==
    /\ Up /\ s = made + 1 /\ made' = s
    /\ faults < MaxFaults /\ faults' = faults + 1
    /\ file' = [file EXCEPT ![s] = Torn]
    /\ UNCHANGED <<now, recovering, running, stuck, list, work, fired, word, crashes>>

\* A call u of the given kind has read s and awaits the put of f.
Put(u, kind, s, f) ==
    /\ Up /\ work[u].at = "new" /\ kind \in Kinds
    /\ work' = [work EXCEPT ![u] =
                  [Rest EXCEPT !.at = "putting", !.kind = kind, !.id = s, !.copy = f]]
    /\ UNCHANGED <<now, file, recovering, running, stuck, list, made, fired, crashes, faults>>

Pause(u, s) ==
    /\ Stored(s) /\ file[s].status = "active"
    /\ Put(u, "pause", s, [file[s] EXCEPT !.status = "paused", !.next = 0])
    /\ UNCHANGED word

Resume(u, s) ==
    /\ Stored(s) /\ file[s].status = "paused"
    /\ Put(u, "resume", s, [file[s] EXCEPT !.status = "active", !.next = now + 1])
    /\ word' = [word EXCEPT ![s] = "none"]

\* Mutant: the cadence of a paused schedule sets its next run as well.
RescheduledAlways(f) == [f EXCEPT !.next = now + 1]

\* What update makes of nextRunAt when the cadence changes.
Rescheduled(f) == [f EXCEPT !.next = IF f.status = "active" THEN now + 1 ELSE 0]

Update(u, s) ==
    /\ Stored(s)
    /\ \E max \in Limits, expires \in Expiries, cadence \in BOOLEAN :
         LET f == [file[s] EXCEPT !.max = max, !.expires = expires]
         IN Put(u, "update", s, IF cadence THEN Rescheduled(f) ELSE f)
    /\ UNCHANGED word

\* delete, and each of the deletes of deleteForAgent.  A torn file is removed
\* like any other.
Delete(u, s) ==
    /\ Up /\ work[u].at = "new" /\ "delete" \in Kinds /\ file[s] # None
    /\ file' = [file EXCEPT ![s] = None]
    /\ word' = [word EXCEPT ![s] = IF Alone(u, s) THEN "deleted" ELSE @]
    /\ work' = [work EXCEPT ![u] = Rest]
    /\ UNCHANGED <<now, recovering, running, stuck, list, made, fired, crashes, faults>>

\* runOnce, up to the check of what it has read.
RunOnce(u, s) ==
    /\ Up /\ work[u].at = "new" /\ "runOnce" \in Kinds
    /\ Stored(s) /\ file[s].status # "completed"
    /\ work' = [work EXCEPT ![u] =
                  [Rest EXCEPT !.at = "called", !.kind = "runOnce", !.id = s, !.copy = file[s]]]
    /\ UNCHANGED <<now, file, recovering, running, stuck, list, made, fired, word, crashes, faults>>

-----------------------------------------------------------------------------
(* Runs *)

\* Mutant: only the tick looks at runningScheduleIds.
FreeForTicks(c, s) == c \in Users \/ s \notin running

\* The check of runningScheduleIds, with no await before the schedule is added.
Free(c, s) == s \notin running

\* Mutant: the run has the number of the run after it.
StartRunAhead(c, s, f) ==
    /\ fired[s] < MaxFires
    /\ running' = running \cup {s}
    /\ fired' = [fired EXCEPT ![s] = @ + 1]
    /\ work' = [work EXCEPT ![c] =
                  [@ EXCEPT !.at = "saving", !.id = s, !.run = fired[s] + 2,
                            !.copy = [f EXCEPT !.runs[fired[s] + 1] = "running"]]]

\* runSchedule, up to the put of the schedule with its new entry.
StartRun(c, s, f) ==
    /\ fired[s] < MaxFires
    /\ running' = running \cup {s}
    /\ fired' = [fired EXCEPT ![s] = @ + 1]
    /\ work' = [work EXCEPT ![c] =
                  [@ EXCEPT !.at = "saving", !.id = s, !.run = fired[s] + 1,
                            !.copy = [f EXCEPT !.runs[fired[s] + 1] = "running"]]]

\* runOnce goes on, or throws because the schedule is running.
RunOnceGoes(u) ==
    /\ work[u].at = "called"
    /\ IF Free(u, work[u].id)
       THEN StartRun(u, work[u].id, work[u].copy)
       ELSE /\ work' = [work EXCEPT ![u] = Rest]
            /\ UNCHANGED <<running, fired>>
    /\ UNCHANGED <<now, file, recovering, stuck, list, made, word, crashes, faults>>

\* The entry is written, and the runner is called.
Saved(c) ==
    /\ work[c].at = "saving"
    /\ Leaves(c, work[c].copy, [work[c] EXCEPT !.at = "runner", !.copy = None])
    /\ UNCHANGED <<now, recovering, running, stuck, list, made, fired, word, crashes, faults>>

\* Mutant: the end of a run makes the schedule due again whatever its status.
FinishedActive(f, run, manual) ==
    LET g == [f EXCEPT !.runs[run] = IF @ = "none" THEN "none" ELSE "ended"]
    IN IF manual THEN g
       ELSE IF ShouldComplete(g) THEN Complete(g)
       ELSE [g EXCEPT !.status = "active", !.next = NextAfter(f.next)]

\* What finishRun makes of the schedule: a manual run does not advance it.
Finished(f, run, manual) ==
    LET g == [f EXCEPT !.runs[run] = IF @ = "none" THEN "none" ELSE "ended"]
    IN IF manual THEN g
       ELSE IF ShouldComplete(g) THEN Complete(g)
       ELSE IF g.status = "paused" THEN [g EXCEPT !.next = 0]
       ELSE [g EXCEPT !.next = NextAfter(f.next)]

\* The rest of a tick that throws is dropped.
Abandoned(c) == IF c \in Ticks THEN [list EXCEPT ![c] = Unlisted] ELSE list

\* runSchedule throws; its finally block frees the schedule.
Thrown(c) ==
    /\ running' = running \ {work[c].id}
    /\ work' = [work EXCEPT ![c] = Rest]
    /\ list' = Abandoned(c)

\* finishRun reads the schedule, and awaits the put of what it makes of it.
Ends(c) ==
    /\ Stored(work[c].id)
    /\ work' = [work EXCEPT ![c].at = IF @ = "runner" THEN "ending" ELSE "failed",
                  ![c].copy = Finished(file[work[c].id], work[c].run, work[c].kind = "runOnce")]
    /\ UNCHANGED <<running, list>>

\* Mutant: a run whose schedule cannot be read keeps looking for it.
FinishRunWaits(c) ==
    /\ work[c].at = "runner" /\ Ends(c)
    /\ UNCHANGED <<now, file, recovering, stuck, made, fired, word, crashes, faults>>

\* The run is over and finishRun reads the schedule.  If that throws the catch
\* block calls it again, which may throw in turn.
FinishRun(c) ==
    /\ work[c].at \in {"runner", "failing"}
    /\ \/ Ends(c)
       \/ /\ work[c].at = "runner" /\ Unreadable(work[c].id)
          /\ work' = [work EXCEPT ![c].at = "failing"]
          /\ UNCHANGED <<running, list>>
       \/ /\ work[c].at = "failing" /\ Unreadable(work[c].id)
          /\ Thrown(c)
    /\ UNCHANGED <<now, file, recovering, stuck, made, fired, word, crashes, faults>>

\* A put is done.  That of finishRun ends the run.
PutDone(c) ==
    /\ work[c].at \in Puts \ {"saving"}
    /\ Leaves(c, work[c].copy, Rest)
    /\ LET s == work[c].id IN
       /\ running' = IF work[c].run # 0 THEN running \ {s} ELSE running
       /\ word' = IF work[c].kind = "pause" /\ Alone(c, s)
                  THEN [word EXCEPT ![s] = "paused"] ELSE word
    /\ UNCHANGED <<now, recovering, stuck, list, made, fired, crashes, faults>>

\* A put is rejected, and has left the file as it was, torn, or written.  The
\* put that starts a run is outside the try block: the run is given up and the
\* schedule stays marked.  The first put of finishRun is made again by the
\* catch block; whatever else awaits a put throws.
PutFails(c) ==
    /\ work[c].at \in Puts /\ faults < MaxFaults /\ faults' = faults + 1
    /\ LET s == work[c].id
           at == work[c].at
       IN
       /\ \E f \in {file[s], Torn, work[c].copy} :
            Leaves(c, f, IF at = "ending" THEN [work[c] EXCEPT !.at = "failing", !.copy = None]
                         ELSE Rest)
       /\ stuck' = IF at = "saving" THEN stuck \cup {s} ELSE stuck
       /\ running' = IF at = "failed" THEN running \ {s} ELSE running
       /\ list' = IF at = "ending" THEN list ELSE Abandoned(c)
    /\ UNCHANGED <<now, recovering, made, fired, word, crashes>>

-----------------------------------------------------------------------------
(* The daemon *)

\* What a tick makes of a schedule with the time of its beginning.
Judged(f) == IF ShouldComplete(f) THEN Complete(f) ELSE f

\* A tick acts only on these, whatever happens after it has read them.
Acts(f) == f # None /\ f.status = "active" /\ f.next # 0 /\ (ShouldComplete(f) \/ f.next <= now)

\* tick, up to the list.  A list that meets a file that is torn, half-written
\* or being deleted throws, which leaves the tick idle.
Tick(t) ==
    /\ Up /\ work[t].at = "idle" /\ list[t] = Unlisted /\ Readable
    /\ \E s \in Ids : Acts(file[s])
    /\ list' = [list EXCEPT ![t] = [s \in Ids |-> IF Acts(file[s]) THEN Judged(file[s]) ELSE None]]
    /\ UNCHANGED <<now, file, recovering, running, stuck, work, made, fired, word, crashes, faults>>

\* The loop of tick goes on to the first schedule that is not running, or ends.
\* (At the bound on its runs a schedule is passed over.)
TickGoes(t) ==
    /\ work[t].at = "idle" /\ list[t] # Unlisted
    /\ LET left == {s \in Ids : list[t][s] # None /\ Free(t, s)
                               /\ (list[t][s].status = "completed" \/ fired[s] < MaxFires)}
       IN
       \/ /\ left = {}
          /\ list' = Abandoned(t)
          /\ UNCHANGED <<running, fired, work>>
       \/ \E s \in left :
            /\ \A r \in left : s <= r
            /\ list' = [list EXCEPT ![t] = [r \in Ids |-> IF r <= s THEN None ELSE @[r]]]
            /\ IF list[t][s].status = "completed"
               THEN /\ work' = [work EXCEPT ![t] = [Rest EXCEPT !.at = "putting",
                                  !.id = s, !.copy = list[t][s]]]
                    /\ UNCHANGED <<running, fired>>
               ELSE StartRun(t, s, list[t][s])
    /\ UNCHANGED <<now, file, recovering, stuck, made, word, crashes, faults>>

\* The daemon stops, and with it the runs; start lists the schedules.
Crash ==
    /\ crashes < MaxCrashes /\ crashes' = crashes + 1
    /\ recovering' = {s \in Ids : file[s] # None}
    /\ running' = {} /\ stuck' = {} /\ list' = [t \in Ticks |-> Unlisted]
    /\ work' = [c \in Callers |-> IF work[c].at = "new" THEN work[c] ELSE Rest]
    /\ UNCHANGED <<now, file, made, fired, word, faults>>

\* The entry that recoverInterruptedRuns marks as failed: the first one that
\* is recorded as running.
Interrupted(f) ==
    {r \in RunIds : f.runs[r] = "running" /\ \A q \in 1..(r - 1) : f.runs[q] # "running"}

\* What recoverInterruptedRuns makes of a schedule.
Recovered(f) ==
    [f EXCEPT !.runs = [r \in RunIds |-> IF r \in Interrupted(f) THEN "ended" ELSE @[r]],
              !.next = IF f.status = "active" /\ @ # 0 /\ @ <= now THEN NextAfter(@) ELSE @]

\* recoverInterruptedRuns of one schedule; the ticks start after the last one.
\* If a file cannot be parsed the list at its beginning throws, and the daemon
\* does not start.
Recover(s) ==
    /\ s \in recovering /\ Readable /\ recovering' = recovering \ {s}
    /\ file' = [file EXCEPT ![s] = Recovered(@)]
    /\ UNCHANGED <<now, running, stuck, list, work, made, fired, word, crashes, faults>>

\* Its put is rejected: the daemon does not start, and is started again.
RecoverFails(s) ==
    /\ s \in recovering /\ Readable /\ Recovered(file[s]) # file[s]
    /\ faults < MaxFaults /\ faults' = faults + 1
    /\ \E f \in {file[s], Torn, Recovered(file[s])} : file' = [file EXCEPT ![s] = f]
    /\ recovering' = {r \in Ids : file[r] # None}
    /\ UNCHANGED <<now, running, stuck, list, work, made, fired, word, crashes>>

TimePasses ==
    /\ now < MaxTime /\ now' = now + 1
    /\ UNCHANGED <<file, recovering, running, stuck, list, work, made, fired, word, crashes, faults>>

-----------------------------------------------------------------------------
\* What a caller awaits goes on.
Step(c) == Saved(c) \/ FinishRun(c) \/ PutDone(c)

Next ==
    \/ \E s \in Ids : Create(s) \/ CreateFails(s) \/ Recover(s) \/ RecoverFails(s)
    \/ \E u \in Users : \E s \in Ids :
         Pause(u, s) \/ Resume(u, s) \/ Update(u, s) \/ Delete(u, s) \/ RunOnce(u, s)
    \/ \E u \in Users : RunOnceGoes(u)
    \/ \E t \in Ticks : Tick(t) \/ TickGoes(t)
    \/ \E c \in Callers : Step(c) \/ PutFails(c)
    \/ Crash \/ TimePasses

Spec == Init /\ [][Next]_vars

\* The timer keeps calling tick, which sooner or later lists between two
\* writes; what is awaited settles, puts one way or the other, and runs end.
FairSpec ==
    /\ Spec
    /\ \A c \in Callers : WF_vars(Step(c))
    /\ \A u \in Users : WF_vars(RunOnceGoes(u))
    /\ \A t \in Ticks : WF_vars(Tick(t)) /\ WF_vars(TickGoes(t))
    /\ \A s \in Ids : WF_vars(Recover(s))

-----------------------------------------------------------------------------
(* Properties *)

\* The stored schedules and the calls in progress keep their shape.
TypeOK ==
    /\ now \in Nat \ {0} /\ {made, crashes, faults} \subseteq Nat
    /\ file \in [Ids -> Schedule \cup {None, Torn}]
    /\ recovering \subseteq Ids /\ running \subseteq Ids /\ stuck \subseteq Ids
    /\ list \in [Ticks -> [Ids -> Schedule \cup {None}]]
    /\ work \in [Callers -> Work]
    /\ fired \in [Ids -> 0..MaxFires]
    /\ word \in [Ids -> {"none", "paused", "deleted"}]

Running(c) == work[c].run # 0

\* A schedule runs once at a time, whoever starts it, however old the list of
\* a tick is, and the run is not recorded as ended before it has.  It is marked
\* as running exactly while it runs, but for one whose run was given up when
\* the put of its entry was rejected: that mark has no run and nothing ends it
\* until the daemon is restarted.
OneRunAtATime ==
    /\ running = stuck \cup {work[c].id : c \in {d \in Callers : Running(d)}}
    /\ \A c \in Callers : Running(c) => work[c].id \notin stuck
    /\ \A c, d \in Callers : Running(c) /\ Running(d) /\ work[c].id = work[d].id => c = d
    /\ \A c \in Callers : work[c].at \in {"saving", "runner"} /\ Stored(work[c].id) =>
         file[work[c].id].runs[work[c].run] # "ended"

\* No schedule is active and forgotten, and none that is paused has a time at
\* which it would run.  (A completed one may: a run that ends after an update
\* has raised maxRuns gives it one.)
ScheduledIfActive ==
    \A s \in Ids : Stored(s) =>
        /\ file[s].status = "active" => file[s].next # 0
        /\ file[s].status = "paused" => file[s].next = 0

\* A pause or a delete that meets no operation with an older copy is kept: no
\* run that was in progress, no update, no restart makes the schedule active
\* again, or brings it back.
UserWordHolds ==
    \A s \in Ids :
        /\ word[s] = "paused" => ~Stored(s) \/ file[s].status # "active"
        /\ word[s] = "deleted" => file[s] = None

Due(s) == Stored(s) /\ file[s].status = "active" /\ file[s].next <= now

\* The service catches up: whatever is due, deleted under its run, cut off by a
\* restart, or met half-written, it comes back to a state in which no schedule
\* is due and no run is marked, but for those a rejected put has left marked,
\* which no tick looks at any more.  While a file is torn nothing of this is
\* so: list throws, and no schedule runs until that one is deleted.
CatchesUp ==
    []<>(\/ ~Readable
         \/ Up /\ running = stuck /\ \A s \in Ids \ stuck : Due(s) => fired[s] = MaxFires)
=============================================================================
