----------------------------- MODULE LoopsProofs -----------------------------
(***************************************************************************)
(* Proofs about Loops, for every number of loops and of calls that stop    *)
(* them, whatever the loops are asked for, and every number of failing     *)
(* writes and of restarts.                                                 *)
(***************************************************************************)
EXTENDS Loops, TLAPS

-----------------------------------------------------------------------------
(* The inductive invariant *)

Places == Saving \cup Waiting \cup Gone
Awaiters == Loops \cup Stops \cup {"log", "init"}

\* The agents that may be open at each await of an executor.
Held(at) ==
    {"unclosed"} \cup
    IF at \in {"made", "working", "worked", "closing"} THEN {"worker"}
    ELSE IF at \in {"madeVerifier", "verifying", "verified", "closingVerifier"} THEN {"verifier"}
    ELSE {}

\* Where the executor is once the worker has completed.
Verification == {"checking", "checked", "makingVerifier", "madeVerifier", "verifying", "verified",
                 "closingVerifier"}

\* A record that tells of a success has what it takes.
Sound(r) ==
    r # None /\ r.status = "succeeded" => r.outcome = "completed" /\ r.last = "succeeded"

\* How the place, the checks left and the last verdict of an executor, the
\* record and the open agents of its loop agree, after so many failed writes.
Agree(at, left, verdict, r, agents, hurts) ==
    /\ Sound(r)
    /\ at \notin Gone => r # None /\ r.status # "succeeded"
    /\ at = "failing" => r.status # "running"
    /\ at \in {"new", "over", "lost"} => r = None \/ r.status # "running"
    /\ at \in Verification => r.outcome = "completed"
    /\ at \in {"checking", "checked"} => left > 0
    /\ at = "over" /\ r # None /\ r.status = "succeeded" => verdict = "passed"
    /\ hurts = 0 => agents \subseteq Held(at)

LoopsAgree ==
    \A l \in Loops :
        Agree(exec[l].at, exec[l].left, exec[l].verdict, loops[l], open[l], failures)

Member(q, w) == \E i \in DOMAIN q : q[i] = w
Once(q) == \A i, j \in DOMAIN q : q[i] \in Loops /\ q[j] = q[i] => i = j

\* An executor that awaits a write, and no other, is in the queue, once.
Queued ==
    /\ writing # None => queue # <<>>
    /\ Once(queue)
    /\ \A l \in Loops : Member(queue, l) => exec[l].at \in Saving

\* A call that is under way has found its loop.
Found ==
    \A s \in Stops : stop[s].at \notin {"new", "done", "lost"} =>
        stop[s].loop \in Loops /\ loops[stop[s].loop] # None

\* What is written, or being written, is sound.
Stored ==
    \A l \in Loops :
        /\ file # Torn => Sound(file[l])
        /\ writing # None => Sound(writing[l])

Inv == TypeOK /\ LoopsAgree /\ Queued /\ Found /\ Stored

-----------------------------------------------------------------------------
(* Lemmas about the queue and about records *)

LEMMA TailOnce ==
    ASSUME NEW q \in Seq(Awaiters), q # <<>>, Once(q)
    PROVE  /\ Tail(q) \in Seq(Awaiters) /\ Once(Tail(q)) /\ Head(q) \in Awaiters /\ Member(q, Head(q))
           /\ \A w : Member(Tail(q), w) => Member(q, w)
           /\ Head(q) \in Loops => ~Member(Tail(q), Head(q))
<1>1. /\ Len(q) \in Nat /\ Len(q) # 0 /\ DOMAIN q = 1..Len(q) /\ Head(q) = q[1]
      /\ Tail(q) \in Seq(Awaiters) /\ DOMAIN Tail(q) = 1..(Len(q) - 1)
      /\ \A i \in 1..(Len(q) - 1) : Tail(q)[i] = q[i + 1]
      /\ Head(q) \in Awaiters
  OBVIOUS
<1>2. 1 \in DOMAIN q /\ \A i \in DOMAIN Tail(q) : i + 1 \in DOMAIN q /\ Tail(q)[i] = q[i + 1]
  BY <1>1
<1>3. Once(Tail(q))
  BY <1>1, <1>2 DEF Once
<1>4. \A w : Member(Tail(q), w) => Member(q, w)
  BY <1>2 DEF Member
<1>5. ASSUME Head(q) \in Loops, Member(Tail(q), Head(q)) PROVE FALSE
  <2>1. PICK i \in DOMAIN Tail(q) : Tail(q)[i] = Head(q)
    BY <1>5 DEF Member
  <2>2. i + 1 = 1
    BY <1>1, <1>2, <1>5, <2>1 DEF Once
  <2>3. QED
    BY <1>1, <2>2
<1>6. Member(q, Head(q))
  BY <1>1, <1>2 DEF Member
<1>7. QED
  BY <1>1, <1>3, <1>4, <1>5, <1>6

LEMMA AppendOnce ==
    ASSUME NEW q \in Seq(Awaiters), Once(q), NEW w \in Awaiters, w \in Loops => ~Member(q, w)
    PROVE  /\ Append(q, w) \in Seq(Awaiters) /\ Append(q, w) # <<>> /\ Once(Append(q, w))
           /\ \A v : Member(Append(q, w), v) => v = w \/ Member(q, v)
<1>1. PICK p : p = Append(q, w)
  OBVIOUS
<1>2. /\ Len(q) \in Nat /\ DOMAIN q = 1..Len(q) /\ DOMAIN p = 1..(Len(q) + 1)
      /\ \A i \in 1..Len(q) : p[i] = q[i]
      /\ p[Len(q) + 1] = w /\ p \in Seq(Awaiters)
  BY <1>1
<1>3. \A i \in DOMAIN p : \/ i \in DOMAIN q /\ p[i] = q[i]
                          \/ i = Len(q) + 1 /\ p[i] = w
  BY <1>2
<1>4. \A v : Member(p, v) => v = w \/ Member(q, v)
  BY <1>3 DEF Member
<1>5. Once(p)
  BY <1>3 DEF Once, Member
<1>6. p # <<>>
  BY <1>2
<1>7. QED
  BY <1>1, <1>2, <1>4, <1>5, <1>6

\* finishLoop keeps what the last iteration was.
LEMMA FinishDoes ==
    ASSUME NEW r \in Record, NEW status \in Statuses
    PROVE  /\ Finish(r, status) \in Record /\ Finish(r, status).status = status
           /\ Finish(r, status).outcome = r.outcome /\ Finish(r, status).last = r.last
           /\ Finish(r, status) # None
<1>1. PICK w : w = Inactive(r)
  OBVIOUS
<1>2. w \in Record /\ w.outcome = r.outcome /\ w.last = r.last
  BY <1>1 DEF Inactive, Record
<1>3. [w EXCEPT !.status = status] \in Record
  BY <1>2 DEF Record
<1>4. Finish(r, status) = [w EXCEPT !.status = status]
  BY <1>1 DEF Finish
<1>5. QED
  BY <1>2, <1>3, <1>4, NoneAssumption DEF Record

LEMMA InactiveDoes ==
    ASSUME NEW r \in Record
    PROVE  /\ Inactive(r) \in Record /\ Inactive(r).status = r.status
           /\ Inactive(r).outcome = r.outcome /\ Inactive(r).last = r.last
  BY DEF Inactive, Record

\* What a restart makes of a record runs no more, and is sound if it was.
LEMMA RecoveredDoes ==
    ASSUME NEW r \in Record \cup {None}, Sound(r)
    PROVE  /\ Recovered(r) \in Record \cup {None} /\ Sound(Recovered(r))
           /\ Recovered(r) = None \/ Recovered(r).status # "running"
<1>1. CASE r = None \/ r.status # "running"
  BY <1>1 DEF Recovered
<1>2. CASE ~(r = None \/ r.status # "running")
  <2>1. PICK w : w = Inactive(r)
    OBVIOUS
  <2>2. w \in Record
    BY <1>2, <2>1, InactiveDoes
  <2>3. PICK a : a = IF w.last = "running" THEN "stopped" ELSE w.last
    OBVIOUS
  <2>4. Recovered(r) = [w EXCEPT !.status = "stopped", !.asked = TRUE, !.last = a]
    BY <1>2, <2>1, <2>3 DEF Recovered
  <2>5. a \in Statuses \cup {"none"}
    BY <2>2, <2>3 DEF Record, Statuses
  <2>6. Recovered(r) \in Record /\ Recovered(r).status = "stopped"
    BY <2>2, <2>4, <2>5 DEF Record, Statuses
  <2>7. QED
    BY <2>6 DEF Sound
<1>3. QED
  BY <1>1, <1>2

-----------------------------------------------------------------------------
(* Lemmas about the steps of an executor *)

\* The initial state satisfies the invariant.
LEMMA InvInit == Init => Inv
<1> SUFFICES ASSUME Init PROVE Inv
  OBVIOUS
<1>1. \A l \in Loops : /\ loops[l] = None /\ exec[l].at = "new" /\ open[l] = {}
                       /\ exec[l] \in Executor /\ exec[l].at \in Gone
  BY DEF Init, Executor, Gone, Verdicts
<1>2. TypeOK
  <2>1. terms \in [Loops -> Terms] /\ loops \in [Loops -> Record \cup {None}] /\ file = loops
        /\ writing = None /\ since \in [Loops -> 0..2] /\ open \in [Loops -> SUBSET Agents]
    BY DEF Init
  <2>2. queue \in Seq(Awaiters) /\ phase = "up" /\ failures = 0 /\ crashes = 0
    BY DEF Init
  <2>3. exec \in [Loops -> Executor]
    BY <1>1 DEF Init
  <2>4. aborted \in [Loops -> BOOLEAN] /\ canceled \in [Loops -> BOOLEAN]
    BY Zenon DEF Init
  <2>5. stop \in [Stops -> Call]
    BY DEF Init, Call
  <2>6. QED
    BY <2>1, <2>2, <2>3, <2>4, <2>5 DEF TypeOK, Agents, Awaiters
<1>3. LoopsAgree
  BY <1>1 DEF LoopsAgree, Agree, Sound, Gone, Verification
<1>4. queue = <<>> /\ writing = None /\ DOMAIN queue = {}
  BY DEF Init
<1>5. Queued
  BY <1>4 DEF Queued, Once, Member
<1>6. Found
  BY DEF Init, Found
<1>7. Stored
  BY <1>1 DEF Init, Stored, Sound
<1>8. QED
  BY <1>2, <1>3, <1>5, <1>6, <1>7 DEF Inv

\* What a step of executor l leaves alone, and does to the file.
Steps(l) ==
    /\ exec[l].at \in Saving => queue # <<>> /\ Head(queue) = l /\ writing' = None
    /\ exec[l].at \notin Saving => writing' = writing
    /\ file' = file \/ file' = Torn \/ (writing # None /\ file' = writing)
    /\ UNCHANGED <<terms, stop, crashes>>
    /\ phase' \in {"starting", "up", "crashing"}
    /\ failures' \in Nat /\ (failures' = 0 => failures = 0)

\* What it may change besides the record and the queue.
Sides(l) ==
    /\ aborted' \in [Loops -> BOOLEAN] /\ canceled' \in [Loops -> BOOLEAN]
    /\ since' \in [Loops -> 0..2]
    /\ open' \in [Loops -> SUBSET Agents] /\ \A d \in Loops \ {l} : open'[d] = open[d]

\* A step of an executor that leaves its loop in agreement keeps the invariant.
LEMMA ExecutorGoes ==
    ASSUME Inv, NEW l \in Loops, NEW e \in Executor, NEW r \in Record,
           Goes(l, e, r), Steps(l), Sides(l), Agree(e.at, e.left, e.verdict, r, open'[l], failures')
    PROVE  Inv'
<1>1. /\ exec \in [Loops -> Executor] /\ loops \in [Loops -> Record \cup {None}]
      /\ queue \in Seq(Awaiters) /\ Once(queue)
      /\ exec' = [exec EXCEPT ![l] = e] /\ loops' = [loops EXCEPT ![l] = r]
  BY DEF Inv, TypeOK, Awaiters, Queued, Goes
<1>2. /\ exec'[l] = e /\ loops'[l] = r /\ r # None
      /\ \A d \in Loops \ {l} : exec'[d] = exec[d] /\ loops'[d] = loops[d]
      /\ exec' \in [Loops -> Executor] /\ loops' \in [Loops -> Record \cup {None}]
  BY <1>1, NoneAssumption
<1>3. PICK rest : rest = IF exec[l].at \in Saving THEN Tail(queue) ELSE queue
  OBVIOUS
<1>4. /\ rest \in Seq(Awaiters) /\ Once(rest) /\ ~Member(rest, l)
      /\ \A w : Member(rest, w) => Member(queue, w)
  <2>1. CASE exec[l].at \in Saving
    BY <1>1, <1>3, <2>1, TailOnce DEF Steps
  <2>2. CASE exec[l].at \notin Saving
    BY <1>1, <1>3, <2>2 DEF Inv, Queued
  <2>3. QED
    BY <2>1, <2>2
<1>5. queue' = IF e.at \in Saving THEN Append(rest, l) ELSE rest
  BY <1>3 DEF Goes
<1>6. /\ queue' \in Seq(Awaiters) /\ Once(queue')
      /\ \A w : Member(queue', w) => (w = l /\ e.at \in Saving) \/ (w # l /\ Member(queue, w))
  <2>1. CASE e.at \in Saving
    BY <1>4, <1>5, <2>1, AppendOnce DEF Awaiters
  <2>2. CASE e.at \notin Saving
    BY <1>4, <1>5, <2>2
  <2>3. QED
    BY <2>1, <2>2
<1>7. Queued'
  <2>1. writing' # None => queue' # <<>>
    <3>1. CASE exec[l].at \in Saving
      BY <3>1 DEF Steps
    <3>2. CASE exec[l].at \notin Saving
      <4>1. writing' # None => rest # <<>>
        BY <1>3, <3>2 DEF Steps, Inv, Queued
      <4>2. e.at \in Saving => queue' # <<>>
        BY <1>4, <1>5, AppendOnce DEF Awaiters
      <4>3. QED
        BY <1>5, <4>1, <4>2
    <3>3. QED
      BY <3>1, <3>2
  <2>2. \A d \in Loops : Member(queue', d) => exec'[d].at \in Saving
    BY <1>2, <1>6 DEF Inv, Queued
  <2>3. QED
    BY <1>6, <2>1, <2>2 DEF Queued
<1>8. TypeOK'
  <2>1. terms' \in [Loops -> Terms] /\ stop' \in [Stops -> Call] /\ {failures', crashes'} \subseteq Nat
    BY DEF Steps, Inv, TypeOK
  <2>2. /\ file' \in [Loops -> Record \cup {None}] \cup {Torn}
        /\ writing' \in [Loops -> Record \cup {None}] \cup {None}
    BY DEF Steps, Inv, TypeOK
  <2>3. {aborted', canceled'} \subseteq [Loops -> BOOLEAN]
    BY DEF Sides
  <2>4. QED
    BY <1>2, <1>6, <2>1, <2>2, <2>3 DEF TypeOK, Sides, Steps, Agents, Awaiters
<1>9. LoopsAgree'
  <2>1. \A d \in Loops \ {l} :
          Agree(exec'[d].at, exec'[d].left, exec'[d].verdict, loops'[d], open'[d], failures')
    BY <1>2 DEF Inv, LoopsAgree, Agree, Steps, Sides
  <2>2. Agree(exec'[l].at, exec'[l].left, exec'[l].verdict, loops'[l], open'[l], failures')
    BY <1>2
  <2>3. QED
    BY <2>1, <2>2 DEF LoopsAgree
<1>10. Found'
  BY <1>2 DEF Inv, Found, Steps
<1>11. Stored'
  BY DEF Inv, Stored, Steps
<1>12. QED
  BY <1>7, <1>8, <1>9, <1>10, <1>11 DEF Inv

\* The executor goes on to another place and keeps the rest.
LEMMA ExecutorTo ==
    ASSUME Inv, NEW l \in Loops, NEW at \in Places, NEW r \in Record,
           To(l, at, r), Steps(l), Sides(l),
           Agree(at, exec[l].left, exec[l].verdict, r, open'[l], failures')
    PROVE  Inv'
<1>1. exec[l] \in Executor
  BY DEF Inv, TypeOK
<1>2. PICK e : e = [exec[l] EXCEPT !.at = at]
  OBVIOUS
<1>3. e \in Executor /\ e.at = at /\ e.left = exec[l].left /\ e.verdict = exec[l].verdict
  BY <1>1, <1>2 DEF Executor, Places
<1>4. Goes(l, e, r)
  BY <1>2 DEF To
<1>5. QED
  BY <1>3, <1>4, ExecutorGoes

\* The loop fails, or is stopped: nothing of it is open.
LEMMA ExecutorFails ==
    ASSUME Inv, NEW l \in Loops, NEW r \in Record, NEW status \in {"failed", "stopped"},
           Fails(l, r, status), Steps(l), Sides(l), failures' = 0 => open'[l] \subseteq {"unclosed"}
    PROVE  Inv'
<1>1. PICK f : f = Finish(r, status)
  OBVIOUS
<1>2. f \in Record /\ f.status = status /\ f # None
  BY <1>1, FinishDoes DEF Statuses
<1>3. Agree("failing", exec[l].left, exec[l].verdict, f, open'[l], failures')
  BY <1>2 DEF Agree, Sound, Gone, Verification, Held
<1>4. To(l, "failing", f)
  BY <1>1 DEF Fails
<1>5. QED
  BY <1>2, <1>3, <1>4, ExecutorTo DEF Places, Saving

\* The loop ends, without success or with what it takes.
LEMMA ExecutorEnds ==
    ASSUME Inv, NEW l \in Loops, NEW r \in Record, NEW status \in {"failed", "succeeded"},
           Ends(l, r, status), Steps(l), Sides(l), failures' = 0 => open'[l] \subseteq {"unclosed"},
           status = "succeeded" =>
             r.outcome = "completed" /\ r.last = "succeeded" /\ exec[l].verdict = "passed"
    PROVE  Inv'
<1>1. PICK f : f = Finish(r, status)
  OBVIOUS
<1>2. f \in Record /\ f.status = status /\ f # None /\ f.outcome = r.outcome /\ f.last = r.last
  BY <1>1, FinishDoes DEF Statuses
<1>3. Agree("over", exec[l].left, exec[l].verdict, f, open'[l], failures')
  BY <1>2 DEF Agree, Sound, Gone, Verification, Held
<1>4. To(l, "over", f)
  BY <1>1 DEF Ends
<1>5. QED
  BY <1>2, <1>3, <1>4, ExecutorTo DEF Places, Gone

LEMMA ExecutorSucceeds ==
    ASSUME Inv, NEW l \in Loops, NEW r \in Record, Succeeds(l, r), Steps(l), Sides(l),
           failures' = 0 => open'[l] \subseteq {"unclosed"}, r.outcome = "completed", exec[l].verdict = "passed"
    PROVE  Inv'
<1>1. PICK w : w = [r EXCEPT !.last = "succeeded"]
  OBVIOUS
<1>2. w \in Record /\ w.outcome = "completed" /\ w.last = "succeeded"
  BY <1>1 DEF Record, Statuses
<1>3. Ends(l, w, "succeeded")
  BY <1>1 DEF Succeeds
<1>4. QED
  BY <1>2, <1>3, ExecutorEnds

\* The iteration is over and the loop goes on.
LEMMA ExecutorSettles ==
    ASSUME Inv, NEW l \in Loops, NEW r \in Record, r.status # "succeeded",
           Settles(l, Rejected(r)), Steps(l), Sides(l), failures' = 0 => open'[l] \subseteq {"unclosed"}
    PROVE  Inv'
<1>1. PICK w, v : w = Rejected(r) /\ v = Inactive(w)
  OBVIOUS
<1>2. w \in Record /\ w.status = r.status
  <2>1. PICK a : a = IF r.last = "running" THEN "failed" ELSE r.last
    OBVIOUS
  <2>2. w = [r EXCEPT !.last = a] /\ a \in Statuses \cup {"none"}
    BY <1>1, <2>1 DEF Rejected, Record, Statuses
  <2>3. QED
    BY <2>2 DEF Record
<1>3. v \in Record /\ v.status # "succeeded" /\ v # None
  BY <1>1, <1>2, InactiveDoes, NoneAssumption
<1>4. Agree("settled", exec[l].left, exec[l].verdict, v, open'[l], failures')
  BY <1>3 DEF Agree, Sound, Gone, Verification, Held
<1>5. To(l, "settled", v)
  BY <1>1 DEF Settles
<1>6. QED
  BY <1>3, <1>4, <1>5, ExecutorTo DEF Places, Saving

\* An iteration begins, or the loop ends before it.
LEMMA ExecutorIterates ==
    ASSUME Inv, NEW l \in Loops, NextIteration(l, loops[l]), loops[l] \in Record,
           loops[l].status # "succeeded", Steps(l),
           UNCHANGED <<aborted, canceled, open, failures>>, failures = 0 => open[l] \subseteq {"unclosed"}
    PROVE  Inv'
<1>1. /\ exec[l] \in Executor /\ since \in [Loops -> 0..2] /\ open \in [Loops -> SUBSET Agents]
      /\ aborted \in [Loops -> BOOLEAN] /\ canceled \in [Loops -> BOOLEAN] /\ terms[l] \in Terms
  BY DEF Inv, TypeOK, Agents
<1>2. CASE Fails(l, loops[l], "stopped") /\ UNCHANGED since
  <2>1. Sides(l)
    BY <1>1, <1>2 DEF Sides
  <2>2. QED
    BY <1>2, <2>1, ExecutorFails
<1>3. CASE Ends(l, loops[l], "failed") /\ UNCHANGED since
  <2>1. Sides(l)
    BY <1>1, <1>3 DEF Sides
  <2>2. QED
    BY <1>3, <2>1, ExecutorEnds
<1>4. CASE Begins(l, loops[l])
  <2>1. PICK n : n = IF since[l] < 2 /\ Asked(l) THEN since[l] + 1 ELSE since[l]
    OBVIOUS
  <2>2. n \in 0..2
    BY <1>1, <2>1
  <2>3. since' = [since EXCEPT ![l] = n]
    BY <1>4, <2>1 DEF Begins
  <2>4. Sides(l)
    BY <1>1, <2>2, <2>3 DEF Sides
  <2>5. PICK i : i = IF terms[l].limit = 0 THEN 1 ELSE exec[l].index + 1
    OBVIOUS
  <2>6. i \in Nat
    BY <1>1, <2>5 DEF Executor
  <2>7. PICK e : e = [exec[l] EXCEPT !.at = "begun", !.index = i, !.verdict = "none"]
    OBVIOUS
  <2>8. e \in Executor /\ e.at = "begun"
    BY <1>1, <2>6, <2>7 DEF Executor, Saving, Verdicts
  <2>9. PICK r : r = [loops[l] EXCEPT !.last = "running", !.active = TRUE, !.outcome = "none"]
    OBVIOUS
  <2>10. r \in Record /\ r.status # "succeeded" /\ r # None
    <3>1. r \in Record /\ r.status = loops[l].status
      BY <2>9 DEF Record, Statuses, Outcomes
    <3>2. QED
      BY <3>1, NoneAssumption
  <2>11. Agree("begun", e.left, e.verdict, r, open'[l], failures')
    BY <2>10 DEF Agree, Sound, Gone, Verification, Held
  <2>12. Goes(l, e, r)
    BY <1>4, <2>5, <2>7, <2>9 DEF Begins
  <2>13. QED
    BY <2>4, <2>8, <2>10, <2>11, <2>12, ExecutorGoes
<1>5. QED
  BY <1>2, <1>3, <1>4 DEF NextIteration

\* The next check, the verifier, or success.
LEMMA ExecutorVerifies ==
    ASSUME Inv, NEW l \in Loops, NEW r \in Record, NEW left \in Nat, Verifies(l, r, left),
           r.status # "succeeded", r.outcome = "completed", Steps(l), Sides(l),
           failures' = 0 => open'[l] \subseteq {"unclosed"},
           left = 0 /\ ~terms[l].prompt => exec[l].verdict = "passed"
    PROVE  Inv'
<1>1. r # None /\ exec[l] \in Executor
  BY NoneAssumption DEF Inv, TypeOK
<1>2. CASE Fails(l, r, "stopped")
  BY <1>2, ExecutorFails
<1>3. CASE left > 0 /\ Goes(l, [exec[l] EXCEPT !.at = "checking", !.left = left], r)
  <2>1. PICK e : e = [exec[l] EXCEPT !.at = "checking", !.left = left]
    OBVIOUS
  <2>2. e \in Executor /\ e.at = "checking" /\ e.left = left
    BY <1>1, <2>1 DEF Executor, Waiting
  <2>3. Agree("checking", e.left, e.verdict, r, open'[l], failures')
    BY <1>1, <1>3, <2>2 DEF Agree, Sound, Gone, Held
  <2>4. QED
    BY <1>3, <2>1, <2>2, <2>3, ExecutorGoes
<1>4. CASE To(l, "makingVerifier", r)
  <2>1. Agree("makingVerifier", exec[l].left, exec[l].verdict, r, open'[l], failures')
    BY <1>1 DEF Agree, Sound, Gone, Held
  <2>2. QED
    BY <1>4, <2>1, ExecutorTo DEF Places, Waiting
<1>5. CASE left = 0 /\ ~terms[l].prompt /\ Succeeds(l, r)
  BY <1>5, ExecutorSucceeds
<1>6. QED
  BY <1>2, <1>3, <1>4, <1>5 DEF Verifies

\* A step that awaits a write goes on when it has ended.
LEMMA AtSteps ==
    ASSUME Inv, NEW l \in Loops, NEW at \in Places \ Gone, At(l, at)
    PROVE  /\ Steps(l) /\ exec[l].at = at /\ exec[l] \in Executor /\ failures' = failures
           /\ loops[l] \in Record /\ loops[l] # None /\ loops[l].status # "succeeded"
           /\ Agree(at, exec[l].left, exec[l].verdict, loops[l], open[l], failures)
<1>1. exec[l].at = at /\ Resumes(l) /\ UNCHANGED <<terms, stop, phase, failures, crashes>>
  BY DEF At
<1>2. Steps(l)
  <2>1. failures' \in Nat /\ phase' \in {"starting", "up", "crashing"}
    BY <1>1 DEF Inv, TypeOK
  <2>2. CASE exec[l].at \in Saving
    BY <1>1, <2>1, <2>2 DEF Resumes, Written, Steps, Inv, Queued
  <2>3. CASE exec[l].at \notin Saving
    BY <1>1, <2>1, <2>3 DEF Resumes, Steps
  <2>4. QED
    BY <2>2, <2>3
<1>3. Agree(at, exec[l].left, exec[l].verdict, loops[l], open[l], failures)
  BY <1>1 DEF Inv, LoopsAgree
<1>4. loops[l] # None /\ loops[l].status # "succeeded"
  BY <1>3 DEF Agree
<1>5. loops[l] \in Record /\ exec[l] \in Executor
  BY <1>4 DEF Inv, TypeOK
<1>6. QED
  BY <1>1, <1>2, <1>3, <1>4, <1>5

\* Signals, counts and agents are left alone, but for a cancellation that is over.
LEMMA SidesLeft ==
    ASSUME Inv, NEW l \in Loops, UNCHANGED <<aborted, open, since>>,
           canceled' = canceled \/ canceled' = [canceled EXCEPT ![l] = FALSE]
    PROVE  Sides(l)
<1>1. /\ aborted \in [Loops -> BOOLEAN] /\ canceled \in [Loops -> BOOLEAN]
      /\ since \in [Loops -> 0..2] /\ open \in [Loops -> SUBSET Agents]
  BY DEF Inv, TypeOK, Agents
<1>2. canceled' \in [Loops -> BOOLEAN]
  <2>1. CASE canceled' = canceled
    BY <1>1, <2>1
  <2>2. CASE canceled' = [canceled EXCEPT ![l] = FALSE]
    BY <1>1, <2>2
  <2>3. QED
    BY <2>1, <2>2
<1>3. QED
  BY <1>1, <1>2 DEF Sides

\* An agent is opened or closed.
LEMMA SidesOpen ==
    ASSUME Inv, NEW l \in Loops, UNCHANGED <<aborted, canceled, since>>, NEW agents \in SUBSET Agents,
           open' = [open EXCEPT ![l] = agents]
    PROVE  Sides(l) /\ open'[l] = agents
<1>1. /\ aborted \in [Loops -> BOOLEAN] /\ canceled \in [Loops -> BOOLEAN]
      /\ since \in [Loops -> 0..2] /\ open \in [Loops -> SUBSET Agents]
  BY DEF Inv, TypeOK, Agents
<1>2. QED
  BY <1>1 DEF Sides

-----------------------------------------------------------------------------
(* The steps of an executor *)

\* The loop is created.
LEMMA InvRun == ASSUME Inv, NEW l \in Loops, Run(l) PROVE Inv'
<1>1. PICK r : r = [status |-> "running", asked |-> FALSE, active |-> FALSE, worker |-> FALSE,
                    verifier |-> FALSE, last |-> "none", outcome |-> "none"]
  OBVIOUS
<1>2. r \in Record /\ r.status = "running"
  BY <1>1 DEF Record, Statuses, Outcomes
<1>3. /\ exec[l].at = "new" /\ To(l, "creating", r)
      /\ UNCHANGED <<terms, file, writing, aborted, canceled, open, stop, since, phase, failures,
                     crashes>>
  BY <1>1 DEF Run
<1>4. Steps(l) /\ Sides(l)
  BY <1>3, SidesLeft DEF Steps, Saving, Inv, TypeOK
<1>5. failures = 0 => open[l] \subseteq {"unclosed"}
  BY <1>3 DEF Inv, LoopsAgree, Agree, Held
<1>6. Agree("creating", exec[l].left, exec[l].verdict, r, open'[l], failures')
  BY <1>2, <1>3, <1>5, NoneAssumption DEF Agree, Sound, Gone, Verification, Held
<1>7. QED
  BY <1>2, <1>3, <1>4, <1>6, ExecutorTo DEF Places, Saving

LEMMA InvIterate == ASSUME Inv, NEW l \in Loops, Iterate(l) PROVE Inv'
<1>1. PICK at \in {"creating", "asleep", "deaf", "settled"} : At(l, at)
  BY DEF Iterate
<1>2. at \in Places \ Gone
  BY DEF Places, Saving, Waiting, Gone
<1>3. /\ Steps(l) /\ loops[l] \in Record /\ loops[l].status # "succeeded" /\ failures' = failures
      /\ Agree(at, exec[l].left, exec[l].verdict, loops[l], open[l], failures)
  BY <1>1, <1>2, AtSteps
<1>4. failures = 0 => open[l] \subseteq {"unclosed"}
  BY <1>1, <1>3 DEF Agree, Held
<1>5. QED
  BY <1>3, <1>4, ExecutorIterates DEF Iterate

\* The steps that only go to another place.
LEMMA InvMoves ==
    ASSUME Inv, NEW l \in Loops,
           Doze(l) \/ Sleep(l) \/ MakeWorker(l) \/ RunWorker(l) \/ CloseWorker(l) \/ CloseVerifier(l)
           \/ Failed(l)
    PROVE  Inv'
<1>1. PICK at \in {"settled", "dozing", "begun", "made", "worked", "verified", "failing"},
           to \in {"dozing", "asleep", "deaf", "making", "working", "closing", "closingVerifier",
                   "over"} :
        /\ At(l, at) /\ To(l, to, loops[l]) /\ UNCHANGED <<aborted, canceled, open, since>>
        /\ (at = "failing") <=> (to = "over")
        /\ Held(to) = Held(at) /\ (to \in Verification => at \in Verification)
  <2>1. CASE Doze(l)
    <3>1. Held("dozing") = Held("settled")
      BY DEF Held
    <3>2. At(l, "settled") /\ To(l, "dozing", loops[l])
          /\ UNCHANGED <<aborted, canceled, open, since>>
      BY <2>1 DEF Doze
    <3>3. QED
      BY <3>1, <3>2 DEF Verification
  <2>2. CASE Sleep(l)
    <3>1. Held("asleep") = Held("dozing") /\ Held("deaf") = Held("dozing")
      BY DEF Held
    <3>2. At(l, "dozing") /\ (To(l, "asleep", loops[l]) \/ To(l, "deaf", loops[l]))
          /\ UNCHANGED <<aborted, canceled, open, since>>
      BY <2>2 DEF Sleep
    <3>3. QED
      BY <3>1, <3>2 DEF Verification
  <2>3. CASE MakeWorker(l)
    <3>1. Held("begun") = Held("making")
      BY DEF Held
    <3>2. QED
      BY <2>3, <3>1 DEF MakeWorker, Verification
  <2>4. CASE RunWorker(l)
    <3>1. Held("made") = Held("working")
      BY DEF Held
    <3>2. QED
      BY <2>4, <3>1 DEF RunWorker, Verification
  <2>5. CASE CloseWorker(l)
    <3>1. Held("worked") = Held("closing")
      BY DEF Held
    <3>2. QED
      BY <2>5, <3>1 DEF CloseWorker, Verification
  <2>6. CASE CloseVerifier(l)
    <3>1. Held("verified") = Held("closingVerifier") /\ "verified" \in Verification
      BY DEF Held, Verification
    <3>2. QED
      BY <2>6, <3>1 DEF CloseVerifier
  <2>7. CASE Failed(l)
    <3>1. Held("failing") = Held("over")
      BY DEF Held
    <3>2. QED
      BY <2>7, <3>1 DEF Failed, Verification
  <2>8. QED
    BY <2>1, <2>2, <2>3, <2>4, <2>5, <2>6, <2>7
<1>2. at \in Places \ Gone /\ to \in Places
  BY DEF Places, Saving, Waiting, Gone
<1>3. /\ Steps(l) /\ loops[l] \in Record /\ loops[l].status # "succeeded" /\ failures' = failures
      /\ loops[l] # None
      /\ Agree(at, exec[l].left, exec[l].verdict, loops[l], open[l], failures)
  BY <1>1, <1>2, AtSteps
<1>4. Sides(l)
  BY <1>1, SidesLeft
<1>5. Agree(to, exec[l].left, exec[l].verdict, loops[l], open'[l], failures')
  BY <1>1, <1>3 DEF Agree
<1>6. QED
  BY <1>1, <1>2, <1>3, <1>4, <1>5, ExecutorTo

LEMMA InvWakeAborted == ASSUME Inv, NEW l \in Loops, WakeAborted(l) PROVE Inv'
<1>1. At(l, "asleep") /\ Fails(l, loops[l], "stopped") /\ UNCHANGED <<aborted, canceled, open, since>>
  BY DEF WakeAborted
<1>2. "asleep" \in Places \ Gone
  BY DEF Places, Waiting, Gone
<1>3. /\ Steps(l) /\ loops[l] \in Record /\ failures' = failures
      /\ Agree("asleep", exec[l].left, exec[l].verdict, loops[l], open[l], failures)
  BY <1>1, <1>2, AtSteps
<1>4. failures' = 0 => open'[l] \subseteq {"unclosed"}
  BY <1>1, <1>3 DEF Agree, Held
<1>5. QED
  BY <1>1, <1>3, <1>4, SidesLeft, ExecutorFails

\* An agent is created, or createAgent throws.
LEMMA InvMade ==
    ASSUME Inv, NEW l \in Loops, WorkerMade(l) \/ VerifierMade(l)
    PROVE  Inv'
<1>1. PICK at \in {"making", "makingVerifier"}, to \in {"made", "madeVerifier"},
           agent \in Agents, r \in {[loops[l] EXCEPT !.worker = TRUE], [loops[l] EXCEPT !.verifier = TRUE]} :
        /\ At(l, at) /\ UNCHANGED <<aborted, canceled, since>>
        /\ Held(at) = {"unclosed"} /\ Held(to) = {"unclosed", agent} /\ (to \in Verification => at \in Verification)
        /\ \/ To(l, to, r) /\ open' = [open EXCEPT ![l] = open[l] \cup {agent}]
           \/ Fails(l, loops[l], "failed") /\ UNCHANGED open
  <2>1. CASE WorkerMade(l)
    <3>1. Held("making") = {"unclosed"} /\ Held("made") = {"unclosed", "worker"} /\ "worker" \in Agents
      BY DEF Held, Agents
    <3>2. QED
      BY <2>1, <3>1 DEF WorkerMade, Verification
  <2>2. CASE VerifierMade(l)
    <3>1. /\ Held("makingVerifier") = {"unclosed"} /\ Held("madeVerifier") = {"unclosed", "verifier"}
          /\ "verifier" \in Agents /\ "makingVerifier" \in Verification
      BY DEF Held, Agents, Verification
    <3>2. QED
      BY <2>2, <3>1 DEF VerifierMade
  <2>3. QED
    BY <2>1, <2>2
<1>2. at \in Places \ Gone /\ to \in Places \ Gone /\ to # "failing" /\ to \notin {"checking", "checked"}
  BY DEF Places, Saving, Waiting, Gone
<1>3. /\ Steps(l) /\ loops[l] \in Record /\ loops[l].status # "succeeded" /\ failures' = failures
      /\ loops[l] # None
      /\ Agree(at, exec[l].left, exec[l].verdict, loops[l], open[l], failures)
  BY <1>1, <1>2, AtSteps
<1>4. failures = 0 => open[l] \subseteq {"unclosed"}
  BY <1>1, <1>3 DEF Agree
<1>5. CASE Fails(l, loops[l], "failed") /\ UNCHANGED open
  BY <1>1, <1>3, <1>4, <1>5, SidesLeft, ExecutorFails
<1>6. CASE To(l, to, r) /\ open' = [open EXCEPT ![l] = open[l] \cup {agent}]
  <2>1. open[l] \cup {agent} \in SUBSET Agents
    BY DEF Inv, TypeOK, Agents
  <2>2. Sides(l) /\ open'[l] = open[l] \cup {agent}
    BY <1>1, <1>6, <2>1, SidesOpen
  <2>3. r \in Record /\ r.status = loops[l].status /\ r.outcome = loops[l].outcome
    BY <1>3 DEF Record
  <2>4. failures' = 0 => open'[l] \subseteq Held(to)
    BY <1>1, <1>3, <1>4, <2>2
  <2>5. Agree(to, exec[l].left, exec[l].verdict, r, open'[l], failures')
    <3>1. Sound(r) /\ r # None /\ r.status # "succeeded"
      BY <1>3, <2>3, NoneAssumption DEF Sound
    <3>2. to \in Verification => r.outcome = "completed"
      BY <1>1, <1>3, <2>3 DEF Agree
    <3>3. QED
      BY <1>2, <2>4, <3>1, <3>2 DEF Agree, Gone
  <2>6. QED
    BY <1>2, <1>3, <1>6, <2>2, <2>3, <2>5, ExecutorTo
<1>7. QED
  BY <1>1, <1>5, <1>6

\* runAgent of the worker returns or throws.
LEMMA InvWorkerEnds ==
    ASSUME Inv, NEW l \in Loops, NEW outcome \in Outcomes, WorkerEnds(l, outcome) PROVE Inv'
<1>1. PICK a : a = IF outcome = "canceled" THEN "stopped" ELSE loops[l].last
  OBVIOUS
<1>2. PICK r : r = [loops[l] EXCEPT !.outcome = outcome, !.worker = FALSE, !.last = a]
  OBVIOUS
<1>3. /\ At(l, "working") /\ To(l, "worked", r) /\ UNCHANGED <<aborted, open, since>>
      /\ canceled' = [canceled EXCEPT ![l] = FALSE]
  BY <1>1, <1>2 DEF WorkerEnds
<1>4. "working" \in Places \ Gone /\ "worked" \in Places \ Gone
  BY DEF Places, Saving, Waiting, Gone
<1>5. /\ Steps(l) /\ loops[l] \in Record /\ loops[l].status # "succeeded" /\ failures' = failures
      /\ Agree("working", exec[l].left, exec[l].verdict, loops[l], open[l], failures)
  BY <1>3, <1>4, AtSteps
<1>6. r \in Record /\ r.status = loops[l].status
  <2>1. a \in Statuses \cup {"none"}
    BY <1>1, <1>5 DEF Record, Statuses
  <2>2. QED
    BY <1>2, <1>5, <2>1 DEF Record
<1>7. failures' = 0 => open'[l] \subseteq Held("worked")
  BY <1>3, <1>5 DEF Agree, Held
<1>8. Agree("worked", exec[l].left, exec[l].verdict, r, open'[l], failures')
  BY <1>5, <1>6, <1>7, NoneAssumption DEF Agree, Sound, Gone, Verification
<1>9. QED
  BY <1>3, <1>4, <1>5, <1>6, <1>8, SidesLeft, ExecutorTo

\* The worker is closed, and its work is rejected or verified.
LEMMA InvWorkerClosed == ASSUME Inv, NEW l \in Loops, WorkerClosed(l) PROVE Inv'
<1>1. PICK agents \in {open[l] \ {"worker"}, (open[l] \ {"worker"}) \cup {"unclosed"}} :
        /\ At(l, "closing") /\ open' = [open EXCEPT ![l] = agents]
        /\ UNCHANGED <<aborted, canceled, since>>
  BY DEF WorkerClosed, Closed
<1>2. "closing" \in Places \ Gone
  BY DEF Places, Waiting, Gone
<1>3. /\ Steps(l) /\ loops[l] \in Record /\ loops[l].status # "succeeded" /\ failures' = failures
      /\ Agree("closing", exec[l].left, exec[l].verdict, loops[l], open[l], failures)
  BY <1>1, <1>2, AtSteps
<1>4. Sides(l) /\ open'[l] = agents
  <2>1. open[l] \in SUBSET Agents
    BY DEF Inv, TypeOK
  <2>2. agents \in SUBSET Agents
    BY <1>1, <2>1 DEF Agents
  <2>3. QED
    BY <1>1, <2>2, SidesOpen
<1>5. failures' = 0 => open'[l] \subseteq {"unclosed"}
  BY <1>1, <1>3, <1>4 DEF Agree, Held
<1>6. PICK a : a = IF loops[l].last = "running" THEN "stopped" ELSE loops[l].last
  OBVIOUS
<1>7. PICK r : r = [loops[l] EXCEPT !.last = a]
  OBVIOUS
<1>8. r \in Record
  BY <1>3, <1>6, <1>7 DEF Record, Statuses
<1>9. \/ Fails(l, r, "stopped")
      \/ Settles(l, Rejected(loops[l]))
      \/ loops[l].outcome = "completed" /\ Verifies(l, loops[l], terms[l].checks)
  BY <1>6, <1>7 DEF WorkerClosed, Passed
<1>10. CASE Fails(l, r, "stopped")
  BY <1>3, <1>4, <1>5, <1>8, <1>10, ExecutorFails
<1>11. CASE Settles(l, Rejected(loops[l]))
  BY <1>3, <1>4, <1>5, <1>11, ExecutorSettles
<1>12. CASE loops[l].outcome = "completed" /\ Verifies(l, loops[l], terms[l].checks)
  <2>1. terms[l] \in Terms
    BY DEF Inv, TypeOK
  <2>2. terms[l].checks \in Nat /\ (terms[l].checks = 0 => terms[l].prompt)
    BY <2>1, TermsAssumption
  <2>3. QED
    BY <1>3, <1>4, <1>5, <1>12, <2>2, ExecutorVerifies
<1>13. QED
  BY <1>9, <1>10, <1>11, <1>12

LEMMA InvChecked == ASSUME Inv, NEW l \in Loops, Checked(l) PROVE Inv'
<1>1. At(l, "checked") /\ UNCHANGED <<aborted, canceled, open, since>>
  BY DEF Checked
<1>2. "checked" \in Places \ Gone
  BY DEF Places, Saving, Gone
<1>3. /\ Steps(l) /\ loops[l] \in Record /\ loops[l].status # "succeeded" /\ failures' = failures
      /\ exec[l] \in Executor
      /\ Agree("checked", exec[l].left, exec[l].verdict, loops[l], open[l], failures)
  BY <1>1, <1>2, AtSteps
<1>4. failures' = 0 => open'[l] \subseteq {"unclosed"}
  BY <1>1, <1>3 DEF Agree, Held
<1>5. Sides(l)
  BY <1>1, SidesLeft
<1>6. CASE exec[l].verdict = "passed" /\ Verifies(l, loops[l], exec[l].left - 1)
  <2>1. exec[l].left - 1 \in Nat /\ loops[l].outcome = "completed"
    BY <1>3 DEF Agree, Verification, Executor
  <2>2. QED
    BY <1>3, <1>4, <1>5, <1>6, <2>1, ExecutorVerifies
<1>7. CASE Settles(l, Rejected(loops[l]))
  BY <1>3, <1>4, <1>5, <1>7, ExecutorSettles
<1>8. QED
  BY <1>6, <1>7 DEF Checked

\* The verifier is closed, and the loop ends or goes on.
LEMMA InvVerifierClosed == ASSUME Inv, NEW l \in Loops, VerifierClosed(l) PROVE Inv'
<1>1. PICK agents \in {open[l] \ {"verifier"}, (open[l] \ {"verifier"}) \cup {"unclosed"}} :
        /\ At(l, "closingVerifier") /\ open' = [open EXCEPT ![l] = agents]
        /\ UNCHANGED <<aborted, canceled, since>>
  BY DEF VerifierClosed, Closed
<1>2. "closingVerifier" \in Places \ Gone
  BY DEF Places, Waiting, Gone
<1>3. /\ Steps(l) /\ loops[l] \in Record /\ loops[l].status # "succeeded" /\ failures' = failures
      /\ Agree("closingVerifier", exec[l].left, exec[l].verdict, loops[l], open[l], failures)
  BY <1>1, <1>2, AtSteps
<1>4. Sides(l) /\ open'[l] = agents
  <2>1. open[l] \in SUBSET Agents
    BY DEF Inv, TypeOK
  <2>2. agents \in SUBSET Agents
    BY <1>1, <2>1 DEF Agents
  <2>3. QED
    BY <1>1, <2>2, SidesOpen
<1>5. failures' = 0 => open'[l] \subseteq {"unclosed"}
  BY <1>1, <1>3, <1>4 DEF Agree, Held
<1>6. loops[l].outcome = "completed"
  BY <1>3 DEF Agree, Verification
<1>7. CASE exec[l].verdict = "passed" /\ Succeeds(l, loops[l])
  BY <1>3, <1>4, <1>5, <1>6, <1>7, ExecutorSucceeds
<1>8. CASE Settles(l, Rejected(loops[l]))
  BY <1>3, <1>4, <1>5, <1>8, ExecutorSettles
<1>9. CASE Fails(l, loops[l], "failed")
  BY <1>3, <1>4, <1>5, <1>9, ExecutorFails
<1>10. QED
  BY <1>7, <1>8, <1>9 DEF VerifierClosed

\* The steps that set more of the executor than its place.
LEMMA InvTurns ==
    ASSUME Inv, NEW l \in Loops,
           CheckEnds(l) \/ RunVerifier(l) \/ VerifierAnswers(l) \/ VerifierRetries(l)
    PROVE  Inv'
<1>1. exec[l] \in Executor /\ loops[l] \in Record \cup {None}
  BY DEF Inv, TypeOK
<1>2. PICK at \in {"checking", "madeVerifier", "verifying"},
           e \in Executor, r \in {loops[l], [loops[l] EXCEPT !.verifier = FALSE]} :
        /\ At(l, at) /\ Goes(l, e, r) /\ UNCHANGED <<aborted, open, since>>
        /\ canceled' = canceled \/ canceled' = [canceled EXCEPT ![l] = FALSE]
        /\ e.at \in {"checked", "verifying", "verified"} /\ Held(e.at) = Held(at)
        /\ e.at = "checked" => at = "checking" /\ e.left = exec[l].left
  <2>1. CASE CheckEnds(l)
    <3>1. PICK verdict \in {"passed", "rejected"} :
            Goes(l, [exec[l] EXCEPT !.at = "checked", !.verdict = verdict], loops[l])
      BY <2>1 DEF CheckEnds
    <3>2. PICK e : e = [exec[l] EXCEPT !.at = "checked", !.verdict = verdict]
      OBVIOUS
    <3>3. e \in Executor /\ e.at = "checked" /\ e.left = exec[l].left
      BY <1>1, <3>2 DEF Executor, Saving, Verdicts
    <3>4. Held("checked") = Held("checking")
      BY DEF Held
    <3>5. At(l, "checking") /\ UNCHANGED <<aborted, canceled, open, since>>
      BY <2>1 DEF CheckEnds
    <3>6. Goes(l, e, loops[l])
      BY <3>1, <3>2
    <3>7. QED
      BY <3>3, <3>4, <3>5, <3>6
  <2>2. CASE RunVerifier(l)
    <3>1. PICK e : e = [exec[l] EXCEPT !.at = "verifying", !.retries = 0]
      OBVIOUS
    <3>2. e \in Executor /\ e.at = "verifying"
      BY <1>1, <3>1 DEF Executor, Waiting
    <3>3. Held("verifying") = Held("madeVerifier")
      BY DEF Held
    <3>4. /\ At(l, "madeVerifier") /\ Goes(l, e, loops[l])
          /\ UNCHANGED <<aborted, canceled, open, since>>
      BY <2>2, <3>1 DEF RunVerifier
    <3>5. QED
      BY <3>2, <3>3, <3>4
  <2>3. CASE VerifierAnswers(l)
    <3>1. PICK verdict \in Verdicts \ {"none"} :
            Goes(l, [exec[l] EXCEPT !.at = "verified", !.verdict = verdict],
                 [loops[l] EXCEPT !.verifier = FALSE])
      BY <2>3 DEF VerifierAnswers
    <3>2. PICK e : e = [exec[l] EXCEPT !.at = "verified", !.verdict = verdict]
      OBVIOUS
    <3>3. e \in Executor /\ e.at = "verified"
      BY <1>1, <3>2 DEF Executor, Saving
    <3>4. Held("verified") = Held("verifying")
      BY DEF Held
    <3>5. /\ At(l, "verifying") /\ UNCHANGED <<aborted, open, since>>
          /\ canceled' = [canceled EXCEPT ![l] = FALSE]
      BY <2>3 DEF VerifierAnswers
    <3>6. Goes(l, e, [loops[l] EXCEPT !.verifier = FALSE])
      BY <3>1, <3>2
    <3>7. QED
      BY <3>3, <3>4, <3>5, <3>6
  <2>4. CASE VerifierRetries(l)
    <3>1. PICK e : e = [exec[l] EXCEPT !.retries = exec[l].retries + 1]
      OBVIOUS
    <3>2. /\ At(l, "verifying") /\ Goes(l, e, loops[l]) /\ UNCHANGED <<aborted, open, since>>
          /\ canceled' = [canceled EXCEPT ![l] = FALSE] /\ exec[l].at = "verifying"
      BY <2>4, <3>1 DEF VerifierRetries, At
    <3>3. e \in Executor /\ e.at = "verifying"
      BY <1>1, <3>1, <3>2 DEF Executor
    <3>4. QED
      BY <3>2, <3>3
  <2>5. QED
    BY <2>1, <2>2, <2>3, <2>4
<1>3. at \in Places \ Gone /\ at \in Verification
  BY DEF Places, Saving, Waiting, Gone, Verification
<1>4. /\ Steps(l) /\ loops[l] \in Record /\ loops[l].status # "succeeded" /\ failures' = failures
      /\ Agree(at, exec[l].left, exec[l].verdict, loops[l], open[l], failures)
  BY <1>2, <1>3, AtSteps
<1>5. r \in Record /\ r.status # "succeeded" /\ r.outcome = "completed" /\ r # None
  <2>1. r \in Record /\ r.status = loops[l].status /\ r.outcome = loops[l].outcome
    BY <1>4 DEF Record
  <2>2. loops[l].outcome = "completed"
    BY <1>3, <1>4 DEF Agree
  <2>3. QED
    BY <1>4, <2>1, <2>2, NoneAssumption
<1>6. e.at = "checked" => e.left > 0
  BY <1>2, <1>4 DEF Agree
<1>7. failures' = 0 => open'[l] \subseteq Held(e.at)
  BY <1>2, <1>4 DEF Agree
<1>8. Agree(e.at, e.left, e.verdict, r, open'[l], failures')
  BY <1>2, <1>5, <1>6, <1>7 DEF Agree, Sound
<1>9. Sides(l)
  BY <1>2, SidesLeft
<1>10. QED
  BY <1>2, <1>4, <1>5, <1>8, <1>9, ExecutorGoes

-----------------------------------------------------------------------------
(* Failing writes, the calls of stopLoop, and restarts *)

\* The write an executor awaits fails.
LEMMA InvExecutorHurt ==
    ASSUME Inv, WriteFails, NEW l \in Loops, Head(queue) = l, ExecutorHurt(l)
    PROVE  Inv'
<1>1. /\ writing # None /\ writing' = None /\ failures' = failures + 1 /\ file' \in {file, Torn}
      /\ UNCHANGED <<terms, aborted, canceled, open, since, crashes, stop>>
      /\ failures \in Nat /\ phase \in {"starting", "up", "crashing"}
  BY DEF WriteFails, ExecutorHurt, Inv, TypeOK
<1>2. queue # <<>> /\ exec[l].at \in Saving
  <2>1. queue # <<>> /\ queue \in Seq(Awaiters) /\ Once(queue)
    BY <1>1 DEF Inv, Queued, TypeOK, Awaiters
  <2>2. Member(queue, l)
    BY <2>1, TailOnce
  <2>3. QED
    BY <2>1, <2>2 DEF Inv, Queued
<1>3. failures' \in Nat /\ failures' # 0
  BY <1>1
<1>4. Steps(l)
  BY <1>1, <1>2, <1>3 DEF Steps, ExecutorHurt
<1>5. Sides(l)
  BY <1>1, SidesLeft
<1>6. /\ Agree(exec[l].at, exec[l].left, exec[l].verdict, loops[l], open[l], failures)
      /\ exec[l].at \notin Gone
  BY <1>2 DEF Inv, LoopsAgree, Saving, Gone
<1>7. loops[l] # None /\ loops[l].status # "succeeded" /\ loops[l] \in Record
  BY <1>6 DEF Agree, Inv, TypeOK
<1>8. CASE exec[l].at = "creating" /\ To(l, "refused", loops[l])
  <2>1. Agree("refused", exec[l].left, exec[l].verdict, loops[l], open'[l], failures')
    BY <1>3, <1>7 DEF Agree, Sound, Gone, Verification
  <2>2. QED
    BY <1>4, <1>5, <1>7, <1>8, <2>1, ExecutorTo DEF Places, Gone
<1>9. CASE exec[l].at = "failing" /\ To(l, "over", loops[l])
  <2>1. Agree("over", exec[l].left, exec[l].verdict, loops[l], open'[l], failures')
    BY <1>3, <1>6, <1>7, <1>9 DEF Agree, Sound, Gone, Verification
  <2>2. QED
    BY <1>4, <1>5, <1>7, <1>9, <2>1, ExecutorTo DEF Places, Gone
<1>10. CASE Fails(l, loops[l], "failed")
  BY <1>3, <1>4, <1>5, <1>7, <1>10, ExecutorFails
<1>11. QED
  BY <1>8, <1>9, <1>10 DEF ExecutorHurt

\* A call touches a record: what its iterations were is kept, and its status
\* changes to "stopped" only.
Touched(r, w) ==
    \/ w = r
    \/ /\ r \in Record /\ w \in Record
       /\ w.outcome = r.outcome /\ w.last = r.last /\ w.status \in {r.status, "stopped"}

\* A step of no executor.
Serves ==
    /\ UNCHANGED <<terms, exec, open, crashes>>
    /\ aborted' \in [Loops -> BOOLEAN] /\ canceled' \in [Loops -> BOOLEAN]
    /\ since' \in [Loops -> 0..2] /\ stop' \in [Stops -> Call]
    /\ phase' \in {"starting", "up", "crashing"}
    /\ failures' \in Nat /\ (failures' = 0 => failures = 0)
    /\ file' = file \/ file' = Torn \/ (writing # None /\ file' = writing)
    /\ writing' \in {writing, None, loops}
    /\ loops' \in [Loops -> Record \cup {None}]
    /\ \A l \in Loops : Touched(loops[l], loops'[l])

\* Its queue is in order, and no executor has entered it.
QueueKept(q) ==
    /\ q \in Seq(Awaiters) /\ Once(q)
    /\ \A l \in Loops : Member(q, l) => Member(queue, l)

LEMMA InvServes ==
    ASSUME Inv, Serves, QueueKept(queue'), writing' # None => queue' # <<>>, Found'
    PROVE  Inv'
<1>1. TypeOK'
  BY DEF Inv, TypeOK, Serves, QueueKept, Agents, Awaiters
<1>2. LoopsAgree'
  <2>1. SUFFICES ASSUME NEW l \in Loops
                 PROVE  Agree(exec'[l].at, exec'[l].left, exec'[l].verdict, loops'[l], open'[l], failures')
    BY DEF LoopsAgree
  <2>2. /\ Agree(exec[l].at, exec[l].left, exec[l].verdict, loops[l], open[l], failures)
        /\ exec'[l] = exec[l] /\ open'[l] = open[l] /\ (failures' = 0 => failures = 0)
        /\ Touched(loops[l], loops'[l])
    BY DEF Inv, LoopsAgree, Serves
  <2>3. CASE loops'[l] = loops[l]
    BY <2>2, <2>3 DEF Agree
  <2>4. CASE loops'[l] # loops[l]
    BY <2>2, <2>4, NoneAssumption DEF Agree, Sound, Touched
  <2>5. QED
    BY <2>3, <2>4
<1>3. Queued'
  BY DEF Inv, Queued, Serves, QueueKept
<1>4. Stored'
  <2>1. \A l \in Loops : Sound(loops[l])
    BY DEF Inv, LoopsAgree, Agree
  <2>2. QED
    BY <2>1 DEF Inv, Stored, Serves
<1>5. QED
  BY <1>1, <1>2, <1>3, <1>4 DEF Inv

\* The queues of these steps.
LEMMA QueueDoes ==
    ASSUME Inv
    PROVE  /\ QueueKept(queue)
           /\ queue # <<>> => QueueKept(Tail(queue)) /\ Head(queue) \in Awaiters
           /\ \A w \in Awaiters \ Loops :
                /\ QueueKept(Append(queue, w)) /\ Append(queue, w) # <<>>
                /\ queue # <<>> => QueueKept(Append(Tail(queue), w))
<1>1. queue \in Seq(Awaiters) /\ Once(queue)
  BY DEF Inv, TypeOK, Queued, Awaiters
<1>2. QueueKept(queue)
  BY <1>1 DEF QueueKept
<1>3. queue # <<>> => QueueKept(Tail(queue)) /\ Head(queue) \in Awaiters
  BY <1>1, TailOnce DEF QueueKept
<1>4. ASSUME NEW w \in Awaiters \ Loops
      PROVE  /\ QueueKept(Append(queue, w)) /\ Append(queue, w) # <<>>
             /\ queue # <<>> => QueueKept(Append(Tail(queue), w))
  <2>1. QueueKept(Append(queue, w)) /\ Append(queue, w) # <<>>
    BY <1>1, AppendOnce DEF QueueKept
  <2>2. ASSUME queue # <<>> PROVE QueueKept(Append(Tail(queue), w))
    <3>1. PICK q : q = Tail(queue)
      OBVIOUS
    <3>2. q \in Seq(Awaiters) /\ Once(q) /\ \A l \in Loops : Member(q, l) => Member(queue, l)
      BY <1>3, <2>2, <3>1 DEF QueueKept
    <3>3. QueueKept(Append(q, w))
      BY <3>2, AppendOnce DEF QueueKept
    <3>4. QED
      BY <3>1, <3>3
  <2>3. QED
    BY <2>1, <2>2
<1>5. QED
  BY <1>2, <1>3, <1>4

\* What most of these steps leave as it is.
LEMMA Kept ==
    ASSUME Inv
    PROVE  /\ aborted \in [Loops -> BOOLEAN] /\ canceled \in [Loops -> BOOLEAN]
           /\ since \in [Loops -> 0..2] /\ stop \in [Stops -> Call]
           /\ phase \in {"starting", "up", "crashing"} /\ failures \in Nat
           /\ loops \in [Loops -> Record \cup {None}]
           /\ \A l \in Loops : Touched(loops[l], loops[l])
  BY DEF Inv, TypeOK, Touched

\* Writes begin, and those nobody awaits are asked for and end.
LEMMA InvLogs ==
    ASSUME Inv, BeginWrite \/ LogWritten \/ \E l \in Loops : StreamLog(l)
    PROVE  Inv'
<1> USE Kept, QueueDoes
<1>1. "log" \in Awaiters \ Loops /\ "init" \in Awaiters \ Loops
  BY NamesAssumption DEF Awaiters
<1>2. CASE BeginWrite
  <2>1. Serves /\ QueueKept(queue') /\ queue' # <<>>
    BY <1>2 DEF BeginWrite, Serves
  <2>2. Found'
    BY <1>2 DEF BeginWrite, Inv, Found
  <2>3. QED
    BY <2>1, <2>2, InvServes
<1>3. CASE LogWritten
  <2>1. queue # <<>> /\ writing' = None
    BY <1>3 DEF LogWritten, Written, Inv, Queued
  <2>2. Serves
    BY <1>3 DEF LogWritten, Written, Serves
  <2>3. QueueKept(queue')
    BY <1>3, <2>1 DEF LogWritten
  <2>4. Found'
    BY <1>3 DEF LogWritten, Inv, Found
  <2>5. QED
    BY <2>1, <2>2, <2>3, <2>4, InvServes
<1>4. CASE \E l \in Loops : StreamLog(l)
  <2>1. /\ queue' = Append(queue, "log")
        /\ UNCHANGED <<terms, loops, file, writing, exec, aborted, canceled, open, stop, since,
                       phase, failures, crashes>>
    BY <1>4 DEF StreamLog
  <2>2. Serves /\ QueueKept(queue') /\ queue' # <<>>
    BY <1>1, <2>1 DEF Serves
  <2>3. Found'
    BY <2>1 DEF Inv, Found
  <2>4. QED
    BY <2>2, <2>3, InvServes
<1>5. QED
  BY <1>2, <1>3, <1>4

\* A step of call s leaves every call with its loop.
LEMMA CallGoes ==
    ASSUME Inv, NEW s \in Stops, NEW c \in Call, stop' = [stop EXCEPT ![s] = c],
           \A l \in Loops : loops[l] # None => loops'[l] # None,
           c.at \notin {"new", "done", "lost"} => c.loop \in Loops /\ loops'[c.loop] # None
    PROVE  Found' /\ stop' \in [Stops -> Call]
<1>1. stop \in [Stops -> Call]
  BY DEF Inv, TypeOK
<1>2. stop'[s] = c /\ \A z \in Stops \ {s} : stop'[z] = stop[z]
  BY <1>1
<1>3. QED
  BY <1>1, <1>2 DEF Inv, Found

LEMMA CallsAwait == ASSUME NEW s \in Stops PROVE s \in Awaiters \ Loops
  BY NamesAssumption DEF Awaiters

\* A stop is asked for.
LEMMA InvStop == ASSUME Inv, NEW s \in Stops, NEW l \in Loops, Stop(s, l) PROVE Inv'
<1> USE Kept, QueueDoes
<1>1. loops[l] \in Record /\ loops[l] # None /\ stop[s] \in Call /\ loops \in [Loops -> Record \cup {None}]
  BY DEF Stop
<1>2. PICK r : r = [loops[l] EXCEPT !.asked = TRUE]
  OBVIOUS
<1>3. r \in Record /\ Touched(loops[l], r) /\ loops' = [loops EXCEPT ![l] = r]
  <2>1. r \in Record /\ r.status = loops[l].status /\ r.outcome = loops[l].outcome /\ r.last = loops[l].last
    BY <1>1, <1>2 DEF Record
  <2>2. loops' = [loops EXCEPT ![l] = r]
    BY <1>2 DEF Stop
  <2>3. QED
    BY <1>1, <2>1, <2>2 DEF Touched
<1>4. /\ loops' \in [Loops -> Record \cup {None}] /\ \A d \in Loops : Touched(loops[d], loops'[d])
      /\ loops'[l] # None /\ \A d \in Loops : loops[d] # None => loops'[d] # None
  BY <1>1, <1>3, NoneAssumption
<1>5. PICK h \in BOOLEAN : h = Running(l)
  BY Zenon DEF Running
<1>6. PICK c : c = [stop[s] EXCEPT !.at = "asked", !.loop = l, !.heard = h]
  OBVIOUS
<1>7. c \in Call /\ c.loop = l
  BY <1>1, <1>6 DEF Call
<1>8. stop' = [stop EXCEPT ![s] = c]
  BY <1>5, <1>6 DEF Stop
<1>9. Found' /\ stop' \in [Stops -> Call]
  BY <1>4, <1>7, <1>8, CallGoes
<1>10. /\ since' = [since EXCEPT ![l] = 0] /\ queue' = Append(queue, s)
       /\ UNCHANGED <<terms, file, writing, exec, aborted, canceled, open, phase, failures, crashes>>
  BY DEF Stop
<1>11. since' \in [Loops -> 0..2]
  BY <1>10
<1>12. Serves
  BY <1>4, <1>9, <1>10, <1>11 DEF Serves
<1>13. QueueKept(queue') /\ queue' # <<>>
  BY <1>10, CallsAwait
<1>14. QED
  BY <1>9, <1>12, <1>13, InvServes

\* A call of stopLoop goes on: it cancels, waits, and answers.
LEMMA InvStopGoes ==
    ASSUME Inv, NEW s \in Stops, Signal(s) \/ Canceled(s) \/ Stopped(s) \/ Marked(s)
    PROVE  Inv'
<1> USE Kept, QueueDoes
<1>1. PICK l : l = stop[s].loop
  OBVIOUS
<1>2. /\ stop[s] \in Call
      /\ stop[s].at \in {"asked", "cancelingWorker", "cancelingVerifier", "awaiting", "marking"}
      /\ l \in Loops /\ loops[l] \in Record /\ loops[l] # None
  <2>1. /\ stop[s] \in Call
        /\ stop[s].at \in {"asked", "cancelingWorker", "cancelingVerifier", "awaiting", "marking"}
    BY DEF Signal, Canceled, Stopped, Marked
  <2>2. l \in Loops /\ loops[l] # None
    BY <1>1, <2>1 DEF Inv, Found
  <2>3. QED
    BY <2>1, <2>2
<1>3. UNCHANGED <<terms, loops, exec, open, since, phase, failures, crashes>>
  BY DEF Signal, Canceled, Stopped, Marked
<1>4. PICK c \in Call : c.loop = l /\ stop' = [stop EXCEPT ![s] = c]
  <2>1. \A at \in {"cancelingWorker", "cancelingVerifier", "awaiting"} :
          [stop[s] EXCEPT !.at = at] \in Call /\ [stop[s] EXCEPT !.at = at].loop = l
    BY <1>1, <1>2 DEF Call
  <2>2. PICK told : told = loops[l].status
    OBVIOUS
  <2>3. /\ [stop[s] EXCEPT !.at = "done", !.told = told] \in Call
        /\ [stop[s] EXCEPT !.at = "done", !.told = told].loop = l
    BY <1>1, <1>2, <2>2 DEF Call, Record
  <2>4. CASE Signal(s)
    <3>1. \/ stop' = [stop EXCEPT ![s] = [stop[s] EXCEPT !.at = "cancelingWorker"]]
          \/ stop' = [stop EXCEPT ![s] = [stop[s] EXCEPT !.at = "cancelingVerifier"]]
          \/ stop' = [stop EXCEPT ![s] = [stop[s] EXCEPT !.at = "awaiting"]]
      BY <2>4, <1>1 DEF Signal, Cancels, CancelsVerifier
    <3>2. QED
      BY <2>1, <3>1
  <2>5. CASE Canceled(s)
    <3>1. \/ stop' = [stop EXCEPT ![s] = [stop[s] EXCEPT !.at = "cancelingVerifier"]]
          \/ stop' = [stop EXCEPT ![s] = [stop[s] EXCEPT !.at = "awaiting"]]
      BY <2>5, <1>1 DEF Canceled, Cancels, CancelsVerifier
    <3>2. QED
      BY <2>1, <3>1
  <2>6. CASE Stopped(s) \/ Marked(s)
    <3>1. stop' = [stop EXCEPT ![s] = [stop[s] EXCEPT !.at = "done", !.told = told]]
      BY <2>6, <2>2, <1>1 DEF Stopped, Marked
    <3>2. QED
      BY <2>3, <3>1
  <2>7. QED
    BY <2>4, <2>5, <2>6
<1>5. Found' /\ stop' \in [Stops -> Call]
  BY <1>2, <1>3, <1>4, CallGoes
<1>6. aborted' \in [Loops -> BOOLEAN]
  <2>1. aborted' = aborted \/ aborted' = [aborted EXCEPT ![l] = TRUE]
    BY <1>1 DEF Signal, Canceled, Stopped, Marked
  <2>2. QED
    BY <2>1
<1>7. canceled' \in [Loops -> BOOLEAN]
  <2>1. \/ canceled' = canceled
        \/ Cancels(s, l, "cancelingWorker") \/ Cancels(s, l, "cancelingVerifier")
    BY <1>1 DEF Signal, Canceled, Stopped, Marked, CancelsVerifier
  <2>2. \A at \in {"cancelingWorker", "cancelingVerifier"} :
          Cancels(s, l, at) => canceled' \in [Loops -> BOOLEAN]
    <3>1. SUFFICES ASSUME NEW at \in {"cancelingWorker", "cancelingVerifier"}, Cancels(s, l, at)
                   PROVE  canceled' \in [Loops -> BOOLEAN]
      OBVIOUS
    <3>2. canceled' = canceled \/ canceled' = [canceled EXCEPT ![l] = TRUE]
      BY <3>1 DEF Cancels
    <3>3. QED
      BY <3>2
  <2>3. QED
    BY <2>1, <2>2
<1>8. \/ UNCHANGED <<file, queue, writing>>
      \/ Written(s) /\ queue' = Tail(queue)
  BY DEF Signal, Canceled, Stopped, Marked
<1>9. Serves
  BY <1>3, <1>5, <1>6, <1>7, <1>8 DEF Serves, Written
<1>10. QueueKept(queue') /\ (writing' # None => queue' # <<>>)
  <2>1. CASE UNCHANGED <<file, queue, writing>>
    BY <2>1 DEF Inv, Queued
  <2>2. CASE Written(s) /\ queue' = Tail(queue)
    BY <2>2 DEF Written, Inv, Queued
  <2>3. QED
    BY <1>8, <2>1, <2>2
<1>11. QED
  BY <1>5, <1>9, <1>10, InvServes

\* A loop that was not yet in the running map is marked as stopped.
LEMMA InvMark == ASSUME Inv, NEW s \in Stops, Mark(s) PROVE Inv'
<1> USE Kept, QueueDoes
<1>1. PICK l : l = stop[s].loop
  OBVIOUS
<1>2. /\ stop[s] \in Call /\ stop[s].at = "asked" /\ loops \in [Loops -> Record \cup {None}]
      /\ Written(s) /\ UNCHANGED <<terms, exec, aborted, canceled, open, since, phase, failures, crashes>>
      /\ queue' = Append(Tail(queue), s)
  BY DEF Mark
<1>3. l \in Loops /\ loops[l] \in Record
  BY <1>1, <1>2 DEF Inv, Found
<1>4. PICK r : r = [loops[l] EXCEPT !.status = "stopped"]
  OBVIOUS
<1>5. r \in Record /\ Touched(loops[l], r) /\ loops' = [loops EXCEPT ![l] = r]
  <2>1. /\ r \in Record /\ r.status = "stopped" /\ r.outcome = loops[l].outcome
        /\ r.last = loops[l].last
    BY <1>3, <1>4 DEF Record, Statuses
  <2>2. loops' = [loops EXCEPT ![l] = r]
    BY <1>1, <1>4 DEF Mark
  <2>3. QED
    BY <1>3, <2>1, <2>2 DEF Touched
<1>6. /\ loops' \in [Loops -> Record \cup {None}] /\ \A d \in Loops : Touched(loops[d], loops'[d])
      /\ loops'[l] # None /\ \A d \in Loops : loops[d] # None => loops'[d] # None
  BY <1>2, <1>3, <1>5, NoneAssumption
<1>7. PICK c : c = [stop[s] EXCEPT !.at = "marking"]
  OBVIOUS
<1>8. c \in Call /\ c.loop = l /\ stop' = [stop EXCEPT ![s] = c]
  BY <1>1, <1>2, <1>7 DEF Mark, Call
<1>9. Found' /\ stop' \in [Stops -> Call]
  BY <1>3, <1>6, <1>8, CallGoes
<1>10. Serves
  BY <1>2, <1>6, <1>9 DEF Serves, Written
<1>11. QueueKept(queue') /\ writing' = None
  BY <1>2, CallsAwait DEF Written, Inv, Queued
<1>12. QED
  BY <1>9, <1>10, <1>11, InvServes

LEMMA InvWriteFails == ASSUME Inv, WriteFails PROVE Inv'
<1> USE Kept, QueueDoes
<1>1. CASE \E l \in Loops : Head(queue) = l /\ ExecutorHurt(l)
  BY <1>1, InvExecutorHurt
<1>2. CASE ~\E l \in Loops : Head(queue) = l /\ ExecutorHurt(l)
  <2>1. /\ writing # None /\ writing' = None /\ failures' = failures + 1 /\ file' \in {file, Torn}
        /\ UNCHANGED <<terms, aborted, canceled, open, since, crashes>>
    BY DEF WriteFails
  <2>2. failures' \in Nat /\ failures' # 0
    BY <2>1
  <2>3. /\ queue' = Tail(queue) /\ UNCHANGED <<loops, exec>> /\ phase' \in {"starting", "up", "crashing"}
        /\ UNCHANGED stop \/ \E s \in Stops : StopHurt(s)
    BY <1>2 DEF WriteFails, StopHurt
  <2>4. Found' /\ stop' \in [Stops -> Call]
    <3>1. CASE UNCHANGED stop
      BY <2>3, <3>1 DEF Inv, Found
    <3>2. ASSUME NEW s \in Stops, StopHurt(s) PROVE Found' /\ stop' \in [Stops -> Call]
      <4>1. PICK c : c = [stop[s] EXCEPT !.at = "done", !.told = "error"]
        OBVIOUS
      <4>2. c \in Call /\ c.at = "done" /\ stop' = [stop EXCEPT ![s] = c]
        BY <3>2, <4>1 DEF StopHurt, Call
      <4>3. QED
        BY <2>3, <4>2, CallGoes
    <3>3. QED
      BY <2>3, <3>1, <3>2
  <2>5. Serves
    BY <2>1, <2>2, <2>3, <2>4 DEF Serves
  <2>6. QueueKept(queue')
    BY <2>1, <2>3 DEF Inv, Queued
  <2>7. QED
    BY <2>1, <2>4, <2>5, <2>6, InvServes
<1>3. QED
  BY <1>1, <1>2

\* The process ends, and initialize reads what is stored.
LEMMA InvCrash == ASSUME Inv, Crash PROVE Inv'
<1>1. PICK content : content \in (IF writing = None THEN {file} ELSE {file, Torn, writing})
                     /\ content = file'
  BY DEF Crash
<1>2. /\ content \in [Loops -> Record \cup {None}] \cup {Torn}
      /\ content # Torn => \A l \in Loops : Sound(content[l])
  BY <1>1 DEF Inv, TypeOK, Stored
<1>3. \A l \in Loops : /\ loops'[l] \in Record \cup {None} /\ Sound(loops'[l])
                       /\ loops'[l] = None \/ loops'[l].status # "running"
  <2>1. SUFFICES ASSUME NEW l \in Loops
                 PROVE  /\ loops'[l] \in Record \cup {None} /\ Sound(loops'[l])
                        /\ loops'[l] = None \/ loops'[l].status # "running"
    OBVIOUS
  <2>2. loops'[l] = IF content = Torn THEN None ELSE Recovered(content[l])
    BY <1>1 DEF Crash
  <2>3. CASE content = Torn
    BY <2>2, <2>3 DEF Sound
  <2>4. CASE content # Torn
    <3>1. content[l] \in Record \cup {None} /\ Sound(content[l])
      BY <1>2, <2>4
    <3>2. QED
      BY <2>2, <2>4, <3>1, RecoveredDoes
  <2>5. QED
    BY <2>3, <2>4
<1>4. \A l \in Loops : exec'[l] \in Executor /\ exec'[l].at \in {"new", "lost"}
  <2>1. SUFFICES ASSUME NEW l \in Loops PROVE exec'[l] \in Executor /\ exec'[l].at \in {"new", "lost"}
    OBVIOUS
  <2>2. PICK at \in {"new", "lost"} : at = IF exec[l].at = "new" THEN exec[l].at ELSE "lost"
    OBVIOUS
  <2>3. exec'[l] = [exec[l] EXCEPT !.at = at, !.index = 0, !.left = 0, !.retries = 0, !.verdict = "none"]
    BY <2>2 DEF Crash
  <2>4. exec[l] \in Executor
    BY DEF Inv, TypeOK
  <2>5. PICK e, v : e = exec[l] /\ v = exec'[l]
    OBVIOUS
  <2>6. v = [e EXCEPT !.at = at, !.index = 0, !.left = 0, !.retries = 0, !.verdict = "none"]
    BY <2>3, <2>5
  <2>7. e \in Executor /\ at \in Gone /\ "none" \in Verdicts
    BY <2>4, <2>5 DEF Gone, Verdicts
  <2>8. v \in Executor /\ v.at = at
    BY <2>6, <2>7 DEF Executor
  <2>9. QED
    BY <2>5, <2>8
<1>5. \A s \in Stops : stop'[s] \in Call /\ stop'[s].at \in {"new", "done", "lost"}
  <2>1. SUFFICES ASSUME NEW s \in Stops PROVE stop'[s] \in Call /\ stop'[s].at \in {"new", "done", "lost"}
    OBVIOUS
  <2>2. /\ stop[s] \in Call
        /\ stop'[s] = IF stop[s].at \in {"new", "done"} THEN stop[s] ELSE [stop[s] EXCEPT !.at = "lost"]
    BY DEF Crash, Inv, TypeOK
  <2>3. [stop[s] EXCEPT !.at = "lost"] \in Call /\ [stop[s] EXCEPT !.at = "lost"].at = "lost"
    BY <2>2 DEF Call
  <2>4. QED
    BY <2>2, <2>3
<1>6. /\ writing' = None /\ queue' = <<"init">> /\ open' = [l \in Loops |-> {}]
      /\ UNCHANGED <<terms, failures>> /\ phase' = "starting" /\ since' = [l \in Loops |-> 0]
      /\ aborted' = [l \in Loops |-> FALSE] /\ canceled' = aborted'
  BY DEF Crash
<1>7. queue' \in Seq(Awaiters) /\ Once(queue') /\ \A l \in Loops : ~Member(queue', l)
  <2>1. PICK q : q = <<"init">>
    OBVIOUS
  <2>2. q \in Seq(Awaiters) /\ DOMAIN q = {1} /\ q[1] = "init" /\ "init" \notin Loops
    BY <2>1, NamesAssumption DEF Awaiters
  <2>3. Once(q) /\ \A l \in Loops : ~Member(q, l)
    BY <2>2 DEF Once, Member
  <2>4. QED
    BY <1>6, <2>1, <2>2, <2>3
<1>8. TypeOK'
  <2>1. exec' \in [Loops -> Executor] /\ loops' \in [Loops -> Record \cup {None}]
    BY <1>3, <1>4 DEF Crash
  <2>2. stop' \in [Stops -> Call]
    BY <1>5 DEF Crash
  <2>3. aborted' \in [Loops -> BOOLEAN] /\ canceled' \in [Loops -> BOOLEAN]
    BY <1>6, Zenon
  <2>4. open' \in [Loops -> SUBSET Agents] /\ since' \in [Loops -> 0..2]
    BY <1>6
  <2>5. crashes' \in Nat
    <3>1. crashes \in Nat /\ (crashes' = crashes \/ crashes' = crashes + 1)
      BY DEF Crash, Inv, TypeOK
    <3>2. QED
      BY <3>1
  <2>6. QED
    BY <1>1, <1>2, <1>6, <1>7, <2>1, <2>2, <2>3, <2>4, <2>5 DEF TypeOK, Inv, Agents, Awaiters
<1>9. LoopsAgree'
  BY <1>3, <1>4, <1>6 DEF LoopsAgree, Agree, Gone, Verification
<1>10. Queued'
  BY <1>6, <1>7 DEF Queued
<1>11. Found'
  BY <1>5 DEF Found
<1>12. Stored'
  BY <1>1, <1>2, <1>6 DEF Stored
<1>13. QED
  BY <1>8, <1>9, <1>10, <1>11, <1>12 DEF Inv

-----------------------------------------------------------------------------
(* The theorems *)

LEMMA InvNext == Inv /\ [Next]_vars => Inv'
<1> SUFFICES ASSUME Inv, [Next]_vars PROVE Inv'
  OBVIOUS
<1>1. ASSUME NEW l \in Loops, Works(l) PROVE Inv'
  BY <1>1, InvIterate, InvMoves, InvWakeAborted, InvMade, InvWorkerClosed, InvChecked, InvTurns,
     InvVerifierClosed DEF Works
<1>2. ASSUME NEW l \in Loops, Run(l) \/ RunEnds(l) \/ CheckEnds(l) PROVE Inv'
  BY <1>2, InvRun, InvWorkerEnds, InvTurns DEF RunEnds
<1>3. ASSUME NEW s \in Stops, StopGoes(s) PROVE Inv'
  BY <1>3, InvStopGoes, InvMark DEF StopGoes
<1>4. ASSUME UNCHANGED vars PROVE Inv'
  BY <1>4 DEF vars, Inv, TypeOK, LoopsAgree, Queued, Found, Stored
<1>5. QED
  BY <1>1, <1>2, <1>3, <1>4, InvLogs, InvStop, InvWriteFails, InvCrash DEF Next

\* However the executors, the calls of stopLoop, the writes of loops.json and
\* the restarts of LoopService interleave, each record agrees with the place
\* of its executor, its open agents and the write it awaits, and what is
\* stored tells of no success that was not reached.
THEOREM LoopsInvariant == Spec => []Inv
  BY InvInit, InvNext, PTL DEF Spec

\* The records, the queue of writes and the calls of LoopService keep their
\* shape.
THEOREM LoopTypes == Spec => []TypeOK
<1>1. Inv => TypeOK
  BY DEF Inv
<1>2. QED
  BY <1>1, LoopsInvariant, PTL

\* However executeLoop ends, by itself, by stopLoop, an error, a failing
\* persist or a restart: a record tells of success only if the last worker
\* completed and what was asked last to verify its work consented; a record
\* that shows as running is being run, unless its creation could not be
\* written; and unless a write has failed, only those agents are left open whose
\* archiveAgent or closeAgent threw.
THEOREM LoopsEndInOrder == Spec => []EndsInOrder
<1>1. Inv => EndsInOrder
  <2> SUFFICES ASSUME Inv PROVE EndsInOrder
    OBVIOUS
  <2>1. \A l \in Loops :
          Agree(exec[l].at, exec[l].left, exec[l].verdict, loops[l], open[l], failures)
    BY DEF Inv, LoopsAgree
  <2>2. SuccessIsVerified
    BY <2>1 DEF SuccessIsVerified, Agree, Sound
  <2>3. RunningIsRun
    BY <2>1 DEF RunningIsRun, Agree, AtWork, Gone
  <2>4. AgentsClosed
    BY <2>1 DEF AgentsClosed, Agree, Held, AtWork, Gone
  <2>5. QED
    BY <2>2, <2>3, <2>4 DEF EndsInOrder
<1>2. QED
  BY <1>1, LoopsInvariant, PTL


-----------------------------------------------------------------------------
(* What holds of a stop.  The queue of writes is in order, so an iteration    *)
(* that begins while the request of a stop is in it awaits its own write      *)
(* behind it: the signal comes before the iteration goes on.  And once a      *)
(* record shows an outcome, no copy of it that is written, or being written,  *)
(* shows another one, but a copy from the time when the loop was running.     *)

Before(q, v, w) == \E i, j \in DOMAIN q : i < j /\ q[i] = v /\ q[j] = w

\* The records of l outside of memory.
Copies(l) ==
    (IF file = Torn THEN {} ELSE {file[l]}) \cup (IF writing = None THEN {} ELSE {writing[l]})

Show(l, statuses) == \A c \in Copies(l) : c = None \/ c.status \in statuses

Early == {"running", "stopped"}

Signalled == {"cancelingWorker", "cancelingVerifier", "awaiting"}

\* A call that is under way, and has found the loop running.
Live(s) == stop[s].heard /\ stop[s].at \notin {"new", "done", "lost"}

\* A call that has found it not yet, or no longer, running.
Missed(l) == \E s \in Stops : stop[s].at # "new" /\ stop[s].loop = l /\ ~stop[s].heard

CallAgrees(s) ==
    /\ stop[s].at = "asked" => Member(queue, s)
    /\ stop[s].at \in {"new", "marking"} => ~stop[s].heard
    /\ stop[s].at \in Signalled => stop[s].heard /\ aborted[stop[s].loop]
    /\ stop[s].at = "done" /\ stop[s].heard /\ stop[s].told # "error" => stop[s].loop \in Loops

HeardAgrees(s, l) ==
    stop[s].loop = l /\ Live(s) =>
        /\ exec[l].at \notin {"new", "creating", "refused", "lost"}
        /\ Show(l, Early \cup {loops[l].status})

UnheardAgrees(s, l) ==
    stop[s].loop = l /\ stop[s].at = "asked" /\ ~stop[s].heard =>
        \/ exec[l].at = "creating"
        \/ exec[l].at = "begun" /\ Before(queue, s, l)
        \/ exec[l].at \in {"over", "refused"} /\ \A z \in Stops : stop[z].loop = l => ~Live(z)

\* What a call has told stays so.
DoneAgrees(s, l) ==
    stop[s].loop = l /\ stop[s].at = "done" /\ stop[s].heard /\ stop[s].told # "error" =>
        /\ exec[l].at \in Gone \ {"new"}
        /\ loops[l] = None \/ loops[l].status \in {stop[s].told, "stopped"}
        /\ Show(l, Early \cup {stop[s].told})

LoopAgrees(l) ==
    /\ exec[l].at = "new" => loops[l] = None /\ Copies(l) \subseteq {None}
    /\ exec[l].at \in {"new", "creating"} => ~aborted[l]
    /\ exec[l].at \notin Gone \cup {"failing"} => loops[l].status \in Early /\ Show(l, Early)
    /\ exec[l].at \notin {"new", "creating"} /\ loops[l] # None /\ failures = 0 => None \notin Copies(l)
    /\ loops[l] # None => Missed(l) \/ Show(l, Early \cup {loops[l].status})
    /\ exec[l].at = "creating" /\ writing # None /\ Head(queue) = l => writing[l] # None

\* An iteration that began after a stop was asked awaits its write behind it.
SinceAgrees(l) ==
    /\ since[l] <= 1
    /\ since[l] = 1 /\ ~aborted[l] =>
         \A s \in Stops : stop[s].loop = l /\ Live(s) => Before(queue, s, l)

StopInv ==
    /\ \A s \in Stops : CallAgrees(s)
    /\ \A s \in Stops, l \in Loops :
         HeardAgrees(s, l) /\ UnheardAgrees(s, l) /\ DoneAgrees(s, l)
    /\ \A l \in Loops : LoopAgrees(l) /\ SinceAgrees(l)

-----------------------------------------------------------------------------
(* The queue *)

\* Who is not w stays in the queue, in its place.
Holds(w) ==
    /\ \A v : v # w /\ Member(queue, v) => Member(queue', v)
    /\ \A v, u : v # w /\ u # w /\ Before(queue, v, u) => Before(queue', v, u)
    /\ writing' # None => Head(queue') = Head(queue)

LEMMA TailHolds ==
    ASSUME NEW q \in Seq(Awaiters), q # <<>>
    PROVE  /\ \A v : v # Head(q) /\ Member(q, v) => Member(Tail(q), v)
           /\ \A v, u : v # Head(q) /\ Before(q, v, u) => Before(Tail(q), v, u)
<1>1. PICK t : t = Tail(q)
  OBVIOUS
<1>2. /\ Len(q) \in Nat /\ Len(q) # 0 /\ DOMAIN q = 1..Len(q) /\ Head(q) = q[1]
      /\ t \in Seq(Awaiters) /\ DOMAIN t = 1..(Len(q) - 1)
      /\ \A i \in 1..(Len(q) - 1) : t[i] = q[i + 1]
  BY <1>1
<1>3. \A i \in DOMAIN q : i # 1 => i - 1 \in DOMAIN t /\ t[i - 1] = q[i]
  BY <1>2
<1>4. ASSUME NEW v, v # Head(q), Member(q, v) PROVE Member(t, v)
  <2>1. PICK i \in DOMAIN q : q[i] = v
    BY <1>4 DEF Member
  <2>2. i # 1
    BY <1>2, <1>4, <2>1
  <2>3. QED
    BY <1>3, <2>1, <2>2 DEF Member
<1>5. ASSUME NEW v, NEW u, v # Head(q), Before(q, v, u) PROVE Before(t, v, u)
  <2>1. PICK i \in DOMAIN q, j \in DOMAIN q : i < j /\ q[i] = v /\ q[j] = u
    BY <1>5 DEF Before
  <2>2. i # 1 /\ j # 1 /\ i - 1 < j - 1
    BY <1>2, <1>5, <2>1
  <2>3. QED
    BY <1>3, <2>1, <2>2 DEF Before
<1>6. QED
  BY <1>1, <1>4, <1>5

LEMMA AppendHolds ==
    ASSUME NEW q \in Seq(Awaiters), NEW w \in Awaiters
    PROVE  /\ Member(Append(q, w), w)
           /\ \A v : Member(q, v) => Member(Append(q, w), v) /\ Before(Append(q, w), v, w)
           /\ \A v, u : Before(q, v, u) => Before(Append(q, w), v, u)
           /\ q # <<>> => Head(Append(q, w)) = Head(q)
<1>1. PICK p : p = Append(q, w)
  OBVIOUS
<1>2. /\ Len(q) \in Nat /\ DOMAIN q = 1..Len(q) /\ DOMAIN p = 1..(Len(q) + 1)
      /\ \A i \in 1..Len(q) : p[i] = q[i]
      /\ p[Len(q) + 1] = w
      /\ q # <<>> => Head(p) = Head(q)
  BY <1>1
<1>3. Len(q) + 1 \in DOMAIN p /\ \A i \in DOMAIN q : i \in DOMAIN p /\ p[i] = q[i] /\ i < Len(q) + 1
  BY <1>2
<1>4. \A v : Member(q, v) => Member(p, v) /\ Before(p, v, w)
  BY <1>2, <1>3 DEF Member, Before
<1>5. \A v, u : Before(q, v, u) => Before(p, v, u)
  BY <1>3 DEF Before
<1>6. QED
  BY <1>1, <1>2, <1>3, <1>4, <1>5 DEF Member

\* An executor that comes first in the queue is behind nobody.
LEMMA FirstBehindNone ==
    ASSUME NEW q \in Seq(Awaiters), q # <<>>, Once(q), Head(q) \in Loops
    PROVE  \A v : ~Before(q, v, Head(q))
<1> SUFFICES ASSUME NEW v, Before(q, v, Head(q)) PROVE FALSE
  OBVIOUS
<1>1. Len(q) \in Nat /\ Len(q) # 0 /\ DOMAIN q = 1..Len(q) /\ Head(q) = q[1] /\ 1 \in DOMAIN q
  OBVIOUS
<1>2. PICK i \in DOMAIN q, j \in DOMAIN q : i < j /\ q[j] = Head(q)
  BY DEF Before
<1>3. j = 1
  BY <1>1, <1>2 DEF Once
<1>4. QED
  BY <1>1, <1>2, <1>3

LEMMA QueueIs ==
    ASSUME Inv
    PROVE  /\ queue \in Seq(Awaiters) /\ Once(queue)
           /\ writing # None => queue # <<>>
           /\ \A l \in Loops : Member(queue, l) => exec[l].at \in Saving
           /\ \A v, w : Before(queue, v, w) => Member(queue, w)
           /\ queue # <<>> => Member(queue, Head(queue))
<1>1. queue \in Seq(Awaiters) /\ Once(queue)
  BY DEF Inv, TypeOK, Queued, Awaiters
<1>2. queue # <<>> => Member(queue, Head(queue))
  BY <1>1, TailOnce
<1>3. QED
  BY <1>1, <1>2 DEF Inv, Queued, Before, Member

\* An executor that goes on has nobody before it.
LEMMA GoesAlone ==
    ASSUME Inv, NEW l \in Loops, exec[l].at \in Saving => queue # <<>> /\ Head(queue) = l
    PROVE  \A v : ~Before(queue, v, l)
BY QueueIs, FirstBehindNone

-----------------------------------------------------------------------------
(* What a step of an executor does, seen from the calls and the copies *)

Rest(l) == IF exec[l].at \in Saving THEN Tail(queue) ELSE queue

\* The executor of l goes to a place, and its record shows a status.
Shows(l, at, status) ==
    /\ exec'[l].at = at /\ loops'[l] # None /\ loops'[l].status = status
    /\ \A d \in Loops \ {l} : exec'[d] = exec[d] /\ loops'[d] = loops[d]
    /\ queue' = IF at \in Saving THEN Append(Rest(l), l) ELSE Rest(l)

\* Where an executor is that has neither ended nor is about to.
Busy == Places \ (Gone \cup {"creating", "failing"})

\* It goes on, or ends.
Proceeds(l) ==
    \/ \E at \in Busy : Shows(l, at, loops[l].status)
    \/ \E at \in {"failing", "over"}, status \in Statuses : Shows(l, at, status)

\* The loop has been created, or could not be written.
Starts(l) ==
    \/ Shows(l, "begun", loops[l].status)
    \/ Shows(l, "refused", loops[l].status)
    \/ Shows(l, "over", "failed")
    \/ aborted[l] /\ Shows(l, "failing", "stopped")

Fate(l) ==
    \/ exec[l].at = "creating" /\ Starts(l)
    \/ exec[l].at = "failing" /\ Shows(l, "over", loops[l].status)
    \/ exec[l].at \in Busy /\ Proceeds(l)

\* The write it awaits has ended, well or not.
Frees(l) ==
    IF exec[l].at \in Saving
    THEN /\ queue # <<>> /\ Head(queue) = l /\ writing # None /\ writing' = None
         /\ file' = writing \/ (failures' # 0 /\ file' \in {file, Torn})
    ELSE UNCHANGED <<file, writing>>

Counts(l) ==
    \/ UNCHANGED since
    \/ /\ since' = [since EXCEPT ![l] = IF since[l] < 2 /\ Asked(l) THEN since[l] + 1 ELSE since[l]]
       /\ exec'[l].at = "begun" /\ ~aborted[l]

Turn(l) ==
    /\ UNCHANGED <<stop, aborted>> /\ (failures' = 0 => failures = 0)
    /\ Fate(l) /\ Frees(l) /\ Counts(l)

LEMMA GoesShows ==
    ASSUME Inv, NEW l \in Loops, NEW e, NEW r \in Record, Goes(l, e, r)
    PROVE  Shows(l, e.at, r.status)
<1>1. /\ exec \in [Loops -> Executor] /\ loops \in [Loops -> Record \cup {None}]
      /\ exec' = [exec EXCEPT ![l] = e] /\ loops' = [loops EXCEPT ![l] = r]
  BY DEF Inv, TypeOK, Goes
<1>2. /\ exec'[l] = e /\ loops'[l] = r /\ r # None
      /\ \A d \in Loops \ {l} : exec'[d] = exec[d] /\ loops'[d] = loops[d]
  BY <1>1, NoneAssumption
<1>3. queue' = IF e.at \in Saving THEN Append(Rest(l), l) ELSE Rest(l)
  BY DEF Goes, Rest
<1>4. QED
  BY <1>2, <1>3 DEF Shows

LEMMA ToShows ==
    ASSUME Inv, NEW l \in Loops, NEW at, NEW r \in Record, To(l, at, r)
    PROVE  Shows(l, at, r.status)
<1>1. PICK e : e = [exec[l] EXCEPT !.at = at]
  OBVIOUS
<1>2. exec[l] \in Executor
  BY DEF Inv, TypeOK
<1>3. e.at = at
  BY <1>1, <1>2 DEF Executor
<1>4. Goes(l, e, r)
  BY <1>1 DEF To
<1>5. QED
  BY <1>3, <1>4, GoesShows

LEMMA FailsShows ==
    ASSUME Inv, NEW l \in Loops, NEW r \in Record, NEW status \in Statuses, Fails(l, r, status)
    PROVE  Shows(l, "failing", status)
<1>1. Finish(r, status) \in Record /\ Finish(r, status).status = status
  BY FinishDoes
<1>2. To(l, "failing", Finish(r, status))
  BY DEF Fails
<1>3. QED
  BY <1>1, <1>2, ToShows

LEMMA EndsShows ==
    ASSUME Inv, NEW l \in Loops, NEW r \in Record, NEW status \in Statuses, Ends(l, r, status)
    PROVE  Shows(l, "over", status)
<1>1. Finish(r, status) \in Record /\ Finish(r, status).status = status
  BY FinishDoes
<1>2. To(l, "over", Finish(r, status))
  BY DEF Ends
<1>3. QED
  BY <1>1, <1>2, ToShows

LEMMA SucceedsShows ==
    ASSUME Inv, NEW l \in Loops, NEW r \in Record, Succeeds(l, r)
    PROVE  Shows(l, "over", "succeeded")
<1>1. PICK w : w = [r EXCEPT !.last = "succeeded"]
  OBVIOUS
<1>2. w \in Record /\ "succeeded" \in Statuses
  BY <1>1 DEF Record, Statuses
<1>3. Ends(l, w, "succeeded")
  BY <1>1 DEF Succeeds
<1>4. QED
  BY <1>2, <1>3, EndsShows

LEMMA SettlesShows ==
    ASSUME Inv, NEW l \in Loops, NEW r \in Record, Settles(l, Rejected(r))
    PROVE  Shows(l, "settled", r.status)
<1>1. PICK w, v : w = Rejected(r) /\ v = Inactive(w)
  OBVIOUS
<1>2. w \in Record /\ w.status = r.status
  <2>1. PICK a : a = IF r.last = "running" THEN "failed" ELSE r.last
    OBVIOUS
  <2>2. w = [r EXCEPT !.last = a] /\ a \in Statuses \cup {"none"}
    BY <1>1, <2>1 DEF Rejected, Record, Statuses
  <2>3. QED
    BY <2>2 DEF Record
<1>3. v \in Record /\ v.status = r.status
  BY <1>1, <1>2, InactiveDoes
<1>4. To(l, "settled", v)
  BY <1>1 DEF Settles
<1>5. QED
  BY <1>3, <1>4, ToShows

LEMMA BeginsShows ==
    ASSUME Inv, NEW l \in Loops, loops[l] \in Record, Begins(l, loops[l])
    PROVE  Shows(l, "begun", loops[l].status)
<1>1. PICK i : i = IF terms[l].limit = 0 THEN 1 ELSE exec[l].index + 1
  OBVIOUS
<1>2. PICK e : e = [exec[l] EXCEPT !.at = "begun", !.index = i, !.verdict = "none"]
  OBVIOUS
<1>3. PICK r : r = [loops[l] EXCEPT !.last = "running", !.active = TRUE, !.outcome = "none"]
  OBVIOUS
<1>4. e.at = "begun"
  BY <1>2 DEF Inv, TypeOK, Executor
<1>5. r \in Record /\ r.status = loops[l].status
  BY <1>3 DEF Record, Statuses, Outcomes
<1>6. Goes(l, e, r)
  BY <1>1, <1>2, <1>3 DEF Begins
<1>7. QED
  BY <1>4, <1>5, <1>6, GoesShows

LEMMA VerifiesShows ==
    ASSUME Inv, NEW l \in Loops, loops[l] \in Record, NEW left, Verifies(l, loops[l], left)
    PROVE  Proceeds(l)
<1>1. CASE Fails(l, loops[l], "stopped")
  BY <1>1, FailsShows DEF Proceeds, Statuses
<1>2. CASE Goes(l, [exec[l] EXCEPT !.at = "checking", !.left = left], loops[l])
  <2>1. PICK e : e = [exec[l] EXCEPT !.at = "checking", !.left = left]
    OBVIOUS
  <2>2. e.at = "checking" /\ "checking" \in Busy
    BY <2>1 DEF Inv, TypeOK, Executor, Busy, Places, Saving, Waiting, Gone
  <2>3. Goes(l, e, loops[l])
    BY <1>2, <2>1
  <2>4. QED
    BY <2>2, <2>3, GoesShows DEF Proceeds
<1>3. CASE To(l, "makingVerifier", loops[l])
  <2>1. "makingVerifier" \in Busy
    BY DEF Busy, Places, Saving, Waiting, Gone
  <2>2. QED
    BY <1>3, <2>1, ToShows DEF Proceeds
<1>4. CASE Succeeds(l, loops[l])
  BY <1>4, SucceedsShows DEF Proceeds, Statuses
<1>5. QED
  BY <1>1, <1>2, <1>3, <1>4 DEF Verifies

LEMMA BusyPlaces ==
    /\ {"begun", "made", "worked", "checked", "madeVerifier", "verified", "settled", "dozing",
        "making", "working", "closing", "checking", "makingVerifier", "verifying",
        "closingVerifier", "asleep", "deaf"} \subseteq Busy
    /\ Busy \subseteq Places \ Gone
  BY DEF Busy, Places, Saving, Waiting, Gone

LEMMA AtFrees ==
    ASSUME Inv, NEW l \in Loops, NEW at \in Busy \cup {"creating", "failing"}, At(l, at)
    PROVE  /\ exec[l].at = at /\ Frees(l) /\ loops[l] \in Record /\ loops[l] # None
           /\ UNCHANGED <<stop, failures>>
<1>1. at \in Places \ Gone
  BY DEF Busy, Places, Saving, Waiting, Gone
<1>2. Steps(l) /\ exec[l].at = at /\ loops[l] \in Record /\ loops[l] # None
  BY <1>1, AtSteps
<1>3. Resumes(l) /\ UNCHANGED <<stop, failures>>
  BY DEF At
<1>4. Frees(l)
  BY <1>2, <1>3 DEF Steps, Resumes, Written, Frees
<1>5. QED
  BY <1>2, <1>3, <1>4

LEMMA IterateTurns ==
    ASSUME Inv, NEW l \in Loops, Iterate(l)
    PROVE  Turn(l)
<1>1. PICK at \in {"creating", "asleep", "deaf", "settled"} : At(l, at)
  BY DEF Iterate
<1>2. at \in Busy \cup {"creating", "failing"} /\ "begun" \in Busy
  BY BusyPlaces
<1>3. /\ exec[l].at = at /\ Frees(l) /\ loops[l] \in Record
      /\ UNCHANGED <<stop, failures, aborted>>
  BY <1>1, <1>2, AtFrees DEF Iterate
<1>4. CASE aborted[l] /\ Fails(l, loops[l], "stopped") /\ UNCHANGED since
  <2>1. Shows(l, "failing", "stopped")
    BY <1>3, <1>4, FailsShows DEF Statuses
  <2>2. QED
    BY <1>2, <1>3, <1>4, <2>1 DEF Turn, Fate, Starts, Proceeds, Counts, Statuses
<1>5. CASE Ends(l, loops[l], "failed") /\ UNCHANGED since
  <2>1. Shows(l, "over", "failed")
    BY <1>3, <1>5, EndsShows DEF Statuses
  <2>2. QED
    BY <1>2, <1>3, <1>5, <2>1 DEF Turn, Fate, Starts, Proceeds, Counts, Statuses
<1>6. CASE ~aborted[l] /\ Begins(l, loops[l])
  <2>1. Shows(l, "begun", loops[l].status)
    BY <1>3, <1>6, BeginsShows
  <2>2. Counts(l)
    BY <1>6, <2>1 DEF Begins, Counts, Shows
  <2>3. QED
    BY <1>2, <1>3, <2>1, <2>2 DEF Turn, Fate, Starts, Proceeds
<1>7. NextIteration(l, loops[l])
  BY DEF Iterate
<1>8. QED
  BY <1>4, <1>5, <1>6, <1>7 DEF NextIteration

\* The steps that only go to another place.
LEMMA MovesTurn ==
    ASSUME Inv, NEW l \in Loops,
           Doze(l) \/ Sleep(l) \/ MakeWorker(l) \/ RunWorker(l) \/ CloseWorker(l) \/ CloseVerifier(l)
           \/ Failed(l)
    PROVE  Turn(l)
<1>1. PICK at \in {"settled", "dozing", "begun", "made", "worked", "verified", "failing"},
           to \in {"dozing", "asleep", "deaf", "making", "working", "closing", "closingVerifier",
                   "over"} :
        /\ At(l, at) /\ To(l, to, loops[l]) /\ UNCHANGED <<aborted, since>>
        /\ (at = "failing") <=> (to = "over")
  BY DEF Doze, Sleep, MakeWorker, RunWorker, CloseWorker, CloseVerifier, Failed
<1>2. /\ at \in Busy \cup {"creating", "failing"} /\ (at # "failing" => at \in Busy /\ to \in Busy)
  BY <1>1, BusyPlaces
<1>3. exec[l].at = at /\ Frees(l) /\ loops[l] \in Record /\ UNCHANGED <<stop, failures>>
  BY <1>1, <1>2, AtFrees
<1>4. Shows(l, to, loops[l].status)
  BY <1>1, <1>3, ToShows
<1>5. QED
  BY <1>1, <1>2, <1>3, <1>4 DEF Turn, Fate, Proceeds, Counts

LEMMA WakeTurns ==
    ASSUME Inv, NEW l \in Loops, WakeAborted(l)
    PROVE  Turn(l)
<1>1. At(l, "asleep") /\ Fails(l, loops[l], "stopped") /\ UNCHANGED <<aborted, since>>
  BY DEF WakeAborted
<1>2. "asleep" \in Busy
  BY BusyPlaces
<1>3. exec[l].at = "asleep" /\ Frees(l) /\ loops[l] \in Record /\ UNCHANGED <<stop, failures>>
  BY <1>1, <1>2, AtFrees
<1>4. Shows(l, "failing", "stopped")
  BY <1>1, <1>3, FailsShows DEF Statuses
<1>5. QED
  BY <1>1, <1>2, <1>3, <1>4 DEF Turn, Fate, Proceeds, Counts, Statuses

LEMMA MadeTurns ==
    ASSUME Inv, NEW l \in Loops, WorkerMade(l) \/ VerifierMade(l)
    PROVE  Turn(l)
<1>1. PICK at \in {"making", "makingVerifier"}, to \in {"made", "madeVerifier"},
           r \in {[loops[l] EXCEPT !.worker = TRUE], [loops[l] EXCEPT !.verifier = TRUE]} :
        /\ At(l, at) /\ UNCHANGED <<aborted, since>>
        /\ To(l, to, r) \/ Fails(l, loops[l], "failed")
  BY DEF WorkerMade, VerifierMade
<1>2. at \in Busy /\ to \in Busy
  BY BusyPlaces
<1>3. exec[l].at = at /\ Frees(l) /\ loops[l] \in Record /\ UNCHANGED <<stop, failures>>
  BY <1>1, <1>2, AtFrees
<1>4. CASE To(l, to, r)
  <2>1. r \in Record /\ r.status = loops[l].status
    BY <1>3 DEF Record
  <2>2. Shows(l, to, loops[l].status)
    BY <1>4, <2>1, ToShows
  <2>3. QED
    BY <1>1, <1>2, <1>3, <2>2 DEF Turn, Fate, Proceeds, Counts
<1>5. CASE Fails(l, loops[l], "failed")
  <2>1. Shows(l, "failing", "failed")
    BY <1>3, <1>5, FailsShows DEF Statuses
  <2>2. QED
    BY <1>1, <1>2, <1>3, <2>1 DEF Turn, Fate, Proceeds, Counts, Statuses
<1>6. QED
  BY <1>1, <1>4, <1>5

LEMMA WorkerEndsTurns ==
    ASSUME Inv, NEW l \in Loops, NEW outcome, WorkerEnds(l, outcome)
    PROVE  Turn(l)
<1>1. PICK a : a = IF outcome = "canceled" THEN "stopped" ELSE loops[l].last
  OBVIOUS
<1>2. PICK r : r = [loops[l] EXCEPT !.outcome = outcome, !.worker = FALSE, !.last = a]
  OBVIOUS
<1>3. /\ At(l, "working") /\ To(l, "worked", r) /\ UNCHANGED <<aborted, since>>
      /\ outcome \in Outcomes
  BY <1>1, <1>2 DEF WorkerEnds
<1>4. "working" \in Busy /\ "worked" \in Busy
  BY BusyPlaces
<1>5. exec[l].at = "working" /\ Frees(l) /\ loops[l] \in Record /\ UNCHANGED <<stop, failures>>
  BY <1>3, <1>4, AtFrees
<1>6. r \in Record /\ r.status = loops[l].status
  <2>1. a \in Statuses \cup {"none"}
    BY <1>1, <1>5 DEF Record, Statuses
  <2>2. QED
    BY <1>2, <1>3, <1>5, <2>1 DEF Record
<1>7. Shows(l, "worked", loops[l].status)
  BY <1>3, <1>6, ToShows
<1>8. QED
  BY <1>3, <1>4, <1>5, <1>7 DEF Turn, Fate, Proceeds, Counts

LEMMA ClosedTurns ==
    ASSUME Inv, NEW l \in Loops, WorkerClosed(l) \/ VerifierClosed(l) \/ Checked(l)
    PROVE  Turn(l)
<1>1. PICK at \in {"closing", "closingVerifier", "checked"} : At(l, at) /\ UNCHANGED <<aborted, since>>
  BY DEF WorkerClosed, VerifierClosed, Checked
<1>2. at \in Busy /\ "settled" \in Busy
  BY BusyPlaces
<1>3. exec[l].at = at /\ Frees(l) /\ loops[l] \in Record /\ UNCHANGED <<stop, failures>>
  BY <1>1, <1>2, AtFrees
<1>4. PICK a : a = IF loops[l].last = "running" THEN "stopped" ELSE loops[l].last
  OBVIOUS
<1>5. PICK r : r = [loops[l] EXCEPT !.last = a]
  OBVIOUS
<1>6. r \in Record
  BY <1>3, <1>4, <1>5 DEF Record, Statuses
<1>7. \/ Fails(l, r, "stopped") \/ Fails(l, loops[l], "failed")
      \/ Settles(l, Rejected(loops[l])) \/ Succeeds(l, loops[l])
      \/ \E left : Verifies(l, loops[l], left)
  BY <1>4, <1>5 DEF WorkerClosed, VerifierClosed, Checked
<1>8. Proceeds(l)
  <2>1. CASE Fails(l, r, "stopped")
    BY <1>6, <2>1, FailsShows DEF Proceeds, Statuses
  <2>2. CASE Fails(l, loops[l], "failed")
    BY <1>3, <2>2, FailsShows DEF Proceeds, Statuses
  <2>3. CASE Settles(l, Rejected(loops[l]))
    BY <1>2, <1>3, <2>3, SettlesShows DEF Proceeds
  <2>4. CASE Succeeds(l, loops[l])
    BY <1>3, <2>4, SucceedsShows DEF Proceeds, Statuses
  <2>5. QED
    BY <1>3, <1>7, <2>1, <2>2, <2>3, <2>4, VerifiesShows
<1>9. QED
  BY <1>1, <1>2, <1>3, <1>8 DEF Turn, Fate, Counts

\* The steps that set more of the executor than its place.
LEMMA TurnsTurn ==
    ASSUME Inv, NEW l \in Loops,
           CheckEnds(l) \/ RunVerifier(l) \/ VerifierAnswers(l) \/ VerifierRetries(l)
    PROVE  Turn(l)
<1>1. exec[l] \in Executor
  BY DEF Inv, TypeOK
<1>2. PICK e : \E at \in {"checking", "madeVerifier", "verifying"},
                r \in {loops[l], [loops[l] EXCEPT !.verifier = FALSE]} :
        /\ At(l, at) /\ Goes(l, e, r) /\ UNCHANGED <<aborted, since>>
        /\ e.at \in {"checked", "verifying", "verified"}
  <2>1. CASE CheckEnds(l)
    <3>1. PICK verdict : Goes(l, [exec[l] EXCEPT !.at = "checked", !.verdict = verdict], loops[l])
      BY <2>1 DEF CheckEnds
    <3>2. PICK e : e = [exec[l] EXCEPT !.at = "checked", !.verdict = verdict]
      OBVIOUS
    <3>3. /\ e.at = "checked" /\ Goes(l, e, loops[l])
          /\ At(l, "checking") /\ UNCHANGED <<aborted, since>>
      BY <1>1, <2>1, <3>1, <3>2 DEF CheckEnds, Executor
    <3>4. QED
      BY <3>3
  <2>2. CASE RunVerifier(l)
    <3>1. PICK e : e = [exec[l] EXCEPT !.at = "verifying", !.retries = 0]
      OBVIOUS
    <3>2. /\ e.at = "verifying" /\ Goes(l, e, loops[l])
          /\ At(l, "madeVerifier") /\ UNCHANGED <<aborted, since>>
      BY <1>1, <2>2, <3>1 DEF RunVerifier, Executor
    <3>3. QED
      BY <3>2
  <2>3. CASE VerifierAnswers(l)
    <3>1. PICK verdict :
            Goes(l, [exec[l] EXCEPT !.at = "verified", !.verdict = verdict],
                 [loops[l] EXCEPT !.verifier = FALSE])
      BY <2>3 DEF VerifierAnswers
    <3>2. PICK e, r : /\ e = [exec[l] EXCEPT !.at = "verified", !.verdict = verdict]
                      /\ r = [loops[l] EXCEPT !.verifier = FALSE]
      OBVIOUS
    <3>3. /\ e.at = "verified" /\ Goes(l, e, r)
          /\ At(l, "verifying") /\ UNCHANGED <<aborted, since>>
      BY <1>1, <2>3, <3>1, <3>2 DEF VerifierAnswers, Executor
    <3>4. QED
      BY <3>2, <3>3
  <2>4. CASE VerifierRetries(l)
    <3>1. PICK e : e = [exec[l] EXCEPT !.retries = @ + 1]
      OBVIOUS
    <3>2. /\ At(l, "verifying") /\ exec[l].at = "verifying" /\ UNCHANGED <<aborted, since>>
          /\ Goes(l, e, loops[l])
      BY <2>4, <3>1 DEF VerifierRetries, At
    <3>3. e.at = "verifying"
      BY <1>1, <3>1, <3>2 DEF Executor
    <3>4. QED
      BY <3>2, <3>3
  <2>5. QED
    BY <2>1, <2>2, <2>3, <2>4
<1>3. PICK at \in {"checking", "madeVerifier", "verifying"},
           r \in {loops[l], [loops[l] EXCEPT !.verifier = FALSE]} :
        /\ At(l, at) /\ Goes(l, e, r) /\ UNCHANGED <<aborted, since>>
        /\ e.at \in {"checked", "verifying", "verified"}
  BY <1>2
<1>4. at \in Busy /\ e.at \in Busy
  BY <1>3, BusyPlaces
<1>5. exec[l].at = at /\ Frees(l) /\ loops[l] \in Record /\ UNCHANGED <<stop, failures>>
  BY <1>3, <1>4, AtFrees
<1>6. r \in Record /\ r.status = loops[l].status
  BY <1>5, <1>3 DEF Record
<1>7. Shows(l, e.at, loops[l].status)
  BY <1>3, <1>6, GoesShows
<1>8. QED
  BY <1>3, <1>4, <1>5, <1>7 DEF Turn, Fate, Proceeds, Counts

\* The write an executor awaits fails.
LEMMA HurtTurns ==
    ASSUME Inv, WriteFails, NEW l \in Loops, Head(queue) = l, ExecutorHurt(l)
    PROVE  Turn(l)
<1>1. /\ writing # None /\ writing' = None /\ failures' = failures + 1 /\ file' \in {file, Torn}
      /\ UNCHANGED <<aborted, since, stop>> /\ failures \in Nat
  BY DEF WriteFails, ExecutorHurt, Inv, TypeOK
<1>2. queue # <<>> /\ exec[l].at \in Saving
  BY <1>1, QueueIs
<1>3. failures' # 0
  BY <1>1
<1>4. Frees(l)
  BY <1>1, <1>2, <1>3 DEF Frees
<1>5. Agree(exec[l].at, exec[l].left, exec[l].verdict, loops[l], open[l], failures)
  BY DEF Inv, LoopsAgree
<1>6. loops[l] \in Record
  BY <1>2, <1>5 DEF Agree, Saving, Gone, Inv, TypeOK
<1>7. exec[l].at \in Busy \cup {"creating", "failing"}
  BY <1>2, BusyPlaces DEF Saving
<1>8. Fate(l)
  <2>1. CASE exec[l].at = "creating" /\ To(l, "refused", loops[l])
    BY <1>6, <2>1, ToShows DEF Fate, Starts
  <2>2. CASE exec[l].at = "failing" /\ To(l, "over", loops[l])
    BY <1>6, <2>2, ToShows DEF Fate
  <2>3. CASE exec[l].at \notin {"creating", "failing"} /\ Fails(l, loops[l], "failed")
    BY <1>6, <1>7, <2>3, FailsShows DEF Fate, Proceeds, Statuses
  <2>4. QED
    BY <2>1, <2>2, <2>3 DEF ExecutorHurt
<1>9. QED
  BY <1>1, <1>3, <1>4, <1>8 DEF Turn, Counts

-----------------------------------------------------------------------------
(* What a step leaves in agreement *)

\* No new copy of a record is made.
Sheds ==
    /\ \A l \in Loops : Copies(l)' \subseteq Copies(l)
    /\ writing' # None => writing' = writing
    /\ failures' = 0 => failures = 0

\* What may become of a call z in a step that serves w.
Went(z, w) ==
    \/ stop'[z] = stop[z] /\ (z = w => stop[z].at # "asked")
    \/ /\ stop'[z].loop = stop[z].loop /\ stop'[z].heard = stop[z].heard
       /\ \/ Live(z) /\ stop'[z].at \in Signalled /\ aborted'[stop[z].loop]
          \/ ~stop[z].heard /\ stop'[z].at \in {"marking", "done"}
          \/ stop'[z].at = "done" /\ stop'[z].told = "error"
          \/ /\ Live(z) /\ exec[stop[z].loop].at \in Gone
             /\ stop'[z].at = "done" /\ stop'[z].told = loops[stop[z].loop].status
    \/ /\ stop[z].at = "new" /\ stop'[z].at = "asked" /\ Member(queue', z)
       /\ since'[stop'[z].loop] = 0
       /\ IF stop'[z].heard THEN exec[stop'[z].loop].at \notin Gone \cup {"creating", "failing"}
                            ELSE exec[stop'[z].loop].at \in {"creating", "refused"}

\* The loop is where it was, and shows what it showed.
Stays(l) ==
    /\ exec'[l] = exec[l] /\ since'[l] \in {since[l], 0}
    /\ (loops'[l] = None) <=> (loops[l] = None)
    /\ loops'[l].status = loops[l].status

\* The signal of a loop is given once it is in the running map, and stays.
Tells(w) ==
    /\ Holds(w) /\ Sheds /\ \A z \in Stops : Went(z, w)
    /\ \A l \in Loops : /\ aborted[l] => aborted'[l]
                        /\ aborted'[l] => aborted[l] \/ exec[l].at \notin {"new", "creating"}

LoopInv(l) ==
    /\ \A s \in Stops : HeardAgrees(s, l) /\ UnheardAgrees(s, l) /\ DoneAgrees(s, l)
    /\ LoopAgrees(l) /\ SinceAgrees(l)

LEMMA CallsStay ==
    ASSUME Inv, StopInv, NEW w, Tells(w), NEW s \in Stops
    PROVE  CallAgrees(s)'
<1>1. CallAgrees(s) /\ Went(s, w) /\ Holds(w)
  BY DEF StopInv, Tells
<1>2. stop[s].at \notin {"new", "done", "lost"} => stop[s].loop \in Loops
  BY DEF Inv, Found
<1>3. CASE stop'[s] = stop[s] /\ (s = w => stop[s].at # "asked")
  <2>1. stop[s].at \in Signalled => aborted'[stop[s].loop]
    BY <1>1, <1>2 DEF CallAgrees, Tells, Signalled
  <2>2. stop[s].at = "asked" => Member(queue', s)
    BY <1>1, <1>3 DEF CallAgrees, Holds
  <2>3. QED
    BY <1>1, <1>3, <2>1, <2>2 DEF CallAgrees
<1>4. CASE /\ stop'[s].loop = stop[s].loop /\ stop'[s].heard = stop[s].heard
           /\ Live(s) /\ stop'[s].at \in Signalled /\ aborted'[stop[s].loop]
  BY <1>4 DEF CallAgrees, Signalled, Live
<1>5. CASE stop'[s].heard = stop[s].heard /\ ~stop[s].heard /\ stop'[s].at \in {"marking", "done"}
  BY <1>5 DEF CallAgrees, Signalled
<1>6. CASE stop'[s].at = "done" /\ stop'[s].told = "error"
  BY <1>6 DEF CallAgrees, Signalled
<1>7. CASE stop'[s].loop = stop[s].loop /\ Live(s) /\ stop'[s].at = "done"
  BY <1>2, <1>7 DEF CallAgrees, Signalled, Live
<1>8. CASE stop'[s].at = "asked" /\ Member(queue', s)
  BY <1>8 DEF CallAgrees, Signalled
<1>9. QED
  BY <1>1, <1>3, <1>4, <1>5, <1>6, <1>7, <1>8 DEF Went

\* A call that is live after the step was so before it, or has just found the
\* loop at work.
LEMMA LiveBefore ==
    ASSUME StopInv, NEW w, Tells(w), NEW z \in Stops, Live(z)'
    PROVE  \/ Live(z) /\ stop'[z].loop = stop[z].loop
           \/ /\ exec[stop'[z].loop].at \notin Gone \cup {"creating", "failing"}
              /\ since'[stop'[z].loop] = 0
<1>1. Went(z, w) /\ CallAgrees(z)
  BY DEF Tells, StopInv
<1>2. stop'[z].heard /\ stop'[z].at \notin {"new", "done", "lost"}
  BY DEF Live
<1>3. stop'[z].at = "marking" => stop'[z].heard = stop[z].heard \/ stop'[z] = stop[z]
  BY <1>1 DEF Went, Signalled
<1>4. QED
  BY <1>1, <1>2 DEF Went, Live, CallAgrees, Signalled

LEMMA LoopStays ==
    ASSUME Inv, StopInv, NEW w, Tells(w), NEW l \in Loops, l # w, Stays(l)
    PROVE  LoopInv(l)'
<1>1. Holds(w) /\ Sheds /\ LoopInv(l)
  BY DEF Tells, StopInv, LoopInv
<1>2. Copies(l)' \subseteq Copies(l) /\ exec'[l] = exec[l]
  BY <1>1 DEF Sheds, Stays
<1>3. LoopAgrees(l) /\ SinceAgrees(l)
  BY <1>1 DEF LoopInv
<1>4. ASSUME NEW s \in Stops PROVE HeardAgrees(s, l)'
  <2> SUFFICES ASSUME stop'[s].loop = l, Live(s)'
               PROVE  /\ exec'[l].at \notin {"new", "creating", "refused", "lost"}
                      /\ Show(l, Early \cup {loops[l].status})'
    BY DEF HeardAgrees
  <2>1. CASE Live(s) /\ stop'[s].loop = stop[s].loop
    <3>1. HeardAgrees(s, l)
      BY <1>1 DEF LoopInv
    <3>2. QED
      BY <1>2, <2>1, <3>1 DEF HeardAgrees, Show, Stays
  <2>2. CASE exec[stop'[s].loop].at \notin Gone \cup {"creating", "failing"}
    BY <1>2, <1>3, <2>2 DEF LoopAgrees, Show, Gone
  <2>3. QED
    BY <2>1, <2>2, LiveBefore
<1>5. ASSUME NEW s \in Stops PROVE UnheardAgrees(s, l)'
  <2> SUFFICES ASSUME stop'[s].loop = l, stop'[s].at = "asked", ~stop'[s].heard
               PROVE  \/ exec'[l].at = "creating"
                      \/ exec'[l].at = "begun" /\ Before(queue', s, l)
                      \/ exec'[l].at \in {"over", "refused"} /\ \A z \in Stops : stop'[z].loop = l => ~Live(z)'
    BY DEF UnheardAgrees
  <2>1. ASSUME exec[l].at \in {"over", "refused"}, \A z \in Stops : stop[z].loop = l => ~Live(z)
        PROVE  \A z \in Stops : stop'[z].loop = l => ~Live(z)'
    <3>1. SUFFICES ASSUME NEW z \in Stops, stop'[z].loop = l, Live(z)' PROVE FALSE
      OBVIOUS
    <3>2. QED
      BY <2>1, <3>1, LiveBefore DEF Gone
  <2>2. Went(s, w) /\ UnheardAgrees(s, l)
    BY <1>1 DEF Tells, LoopInv
  <2>3. CASE stop'[s] = stop[s] /\ s # w
    <3>1. Before(queue, s, l) => Before(queue', s, l)
      BY <1>1, <2>3 DEF Holds
    <3>2. QED
      BY <1>2, <2>1, <2>2, <2>3, <3>1 DEF UnheardAgrees
  <2>4. CASE exec[l].at \in {"creating", "refused"}
    <3>1. ASSUME exec[l].at = "refused", NEW z \in Stops, stop[z].loop = l, Live(z) PROVE FALSE
      BY <1>1, <3>1 DEF LoopInv, HeardAgrees
    <3>2. QED
      BY <1>2, <2>1, <2>4, <3>1
  <2>5. QED
    BY <2>2, <2>3, <2>4 DEF Went, Signalled
<1>6. ASSUME NEW s \in Stops PROVE DoneAgrees(s, l)'
  <2> SUFFICES ASSUME stop'[s].loop = l, stop'[s].at = "done", stop'[s].heard, stop'[s].told # "error"
               PROVE  /\ exec'[l].at \in Gone \ {"new"}
                      /\ loops'[l] = None \/ loops'[l].status \in {stop'[s].told, "stopped"}
                      /\ Show(l, Early \cup {stop[s].told})'
    BY DEF DoneAgrees
  <2>1. Went(s, w) /\ DoneAgrees(s, l) /\ HeardAgrees(s, l)
    BY <1>1 DEF Tells, LoopInv
  <2>2. CASE stop'[s] = stop[s]
    BY <1>2, <2>1, <2>2 DEF DoneAgrees, Show, Stays
  <2>3. CASE /\ stop[s].loop = l /\ Live(s) /\ exec[l].at \in Gone
             /\ stop'[s].told = loops[l].status
    <3>1. exec[l].at # "new" /\ Show(l, Early \cup {loops[l].status})
      BY <2>1, <2>3 DEF HeardAgrees
    <3>2. QED
      BY <1>2, <2>3, <3>1 DEF Show, Stays
  <2>4. QED
    BY <2>1, <2>2, <2>3 DEF Went, Signalled
<1>7. LoopAgrees(l)'
  <2>1. Missed(l) => Missed(l)'
    <3>1. SUFFICES ASSUME NEW s \in Stops, stop[s].at # "new", stop[s].loop = l, ~stop[s].heard
                   PROVE  Missed(l)'
      BY DEF Missed
    <3>2. Went(s, w)
      BY DEF Tells
    <3>3. stop'[s].at # "new" /\ stop'[s].loop = l /\ ~stop'[s].heard
      BY <3>1, <3>2 DEF Went, Signalled, Live
    <3>4. QED
      BY <3>3 DEF Missed
  <2>2. exec'[l].at \in {"new", "creating"} => ~aborted'[l]
    BY <1>2, <1>3 DEF Tells, LoopAgrees
  <2>3. /\ exec'[l].at = "new" => loops'[l] = None /\ Copies(l)' \subseteq {None}
        /\ exec'[l].at \notin Gone \cup {"failing"} => loops'[l].status \in Early /\ Show(l, Early)'
        /\ exec'[l].at \notin {"new", "creating"} /\ loops'[l] # None /\ failures' = 0
             => None \notin Copies(l)'
    BY <1>1, <1>2, <1>3 DEF LoopAgrees, Show, Stays, Sheds
  <2>4. loops'[l] # None => Missed(l)' \/ Show(l, Early \cup {loops[l].status})'
    BY <1>2, <1>3, <2>1 DEF LoopAgrees, Show, Stays
  <2>5. exec'[l].at = "creating" /\ writing' # None /\ Head(queue') = l => writing'[l] # None
    BY <1>1, <1>2, <1>3 DEF LoopAgrees, Holds, Sheds
  <2>6. QED
    BY <2>2, <2>3, <2>4, <2>5 DEF LoopAgrees
<1>8. SinceAgrees(l)'
  <2>1. since'[l] <= 1
    BY <1>3 DEF SinceAgrees, Stays
  <2>2. ASSUME since'[l] = 1, ~aborted'[l], NEW s \in Stops, stop'[s].loop = l, Live(s)'
        PROVE  Before(queue', s, l)
    <3>1. Live(s) /\ stop[s].loop = l
      BY <2>2, LiveBefore
    <3>2. since[l] = 1 /\ ~aborted[l]
      BY <2>2 DEF Stays, Tells
    <3>3. Before(queue, s, l)
      BY <1>3, <3>1, <3>2 DEF SinceAgrees
    <3>4. CallAgrees(s) /\ Went(s, w) /\ HeardAgrees(s, l)
      BY <1>1 DEF StopInv, Tells, LoopInv
    <3>5. stop[s].at \notin Signalled /\ stop[s].at # "marking" /\ stop[s].at # "new"
      BY <3>1, <3>2, <3>4 DEF CallAgrees, Live
    <3>6. stop[s].at = "asked"
      <4>1. stop[s] \in Call
        BY DEF Inv, TypeOK
      <4>2. QED
        BY <3>1, <3>5, <4>1 DEF Live, Call, Signalled
    <3>7. s # w
      BY <2>2, <3>1, <3>4, <3>6 DEF Went, Live
    <3>8. QED
      BY <1>1, <3>3, <3>7 DEF Holds
  <2>3. QED
    BY <2>1, <2>2 DEF SinceAgrees
<1>9. QED
  BY <1>4, <1>5, <1>6, <1>7, <1>8 DEF LoopInv

\* A step that leaves every loop where it was.
LEMMA AllStay ==
    ASSUME Inv, StopInv, NEW w, w \notin Loops, Tells(w), \A l \in Loops : Stays(l)
    PROVE  StopInv'
<1>1. \A s \in Stops : CallAgrees(s)'
  BY CallsStay
<1>2. \A l \in Loops : LoopInv(l)'
  BY LoopStays
<1>3. QED
  BY <1>1, <1>2 DEF StopInv, LoopInv

-----------------------------------------------------------------------------
(* The steps of an executor *)

LEMMA FreesSheds ==
    ASSUME Inv, NEW l \in Loops, Frees(l), failures' = 0 => failures = 0
    PROVE  Sheds /\ (exec[l].at \in Saving => writing' = None)
<1>1. CASE exec[l].at \in Saving
  <2>1. writing # None /\ writing' = None /\ (file' = writing \/ file' \in {file, Torn})
    BY <1>1 DEF Frees
  <2>2. \A d \in Loops : Copies(d)' \subseteq Copies(d)
    BY <2>1 DEF Copies
  <2>3. QED
    BY <2>1, <2>2 DEF Sheds
<1>2. CASE exec[l].at \notin Saving
  BY <1>2 DEF Frees, Sheds, Copies
<1>3. QED
  BY <1>1, <1>2

\* The rest of the queue holds its order, and what comes last is behind it.
LEMMA ShowsHolds ==
    ASSUME Inv, NEW l \in Loops, NEW at, NEW status, Shows(l, at, status), Frees(l)
    PROVE  /\ Holds(l)
           /\ at \in Saving => \A v : v # l /\ Member(queue, v) => Before(queue', v, l)
<1>1. PICK q : q = Rest(l)
  OBVIOUS
<1>2. queue \in Seq(Awaiters) /\ Once(queue) /\ l \in Awaiters /\ (writing # None => queue # <<>>)
  BY QueueIs DEF Awaiters
<1>3. /\ q \in Seq(Awaiters)
      /\ \A v : v # l /\ Member(queue, v) => Member(q, v)
      /\ \A v, u : v # l /\ Before(queue, v, u) => Before(q, v, u)
      /\ writing' # None => q # <<>> /\ Head(q) = Head(queue)
  <2>1. CASE exec[l].at \in Saving
    <3>1. queue # <<>> /\ Head(queue) = l /\ writing' = None /\ q = Tail(queue)
      BY <1>1, <2>1 DEF Frees, Rest
    <3>2. QED
      BY <1>2, <3>1, TailHolds, TailOnce
  <2>2. CASE exec[l].at \notin Saving
    BY <1>1, <1>2, <2>2 DEF Frees, Rest
  <2>3. QED
    BY <2>1, <2>2
<1>4. queue' = IF at \in Saving THEN Append(q, l) ELSE q
  BY <1>1 DEF Shows
<1>5. CASE at \in Saving
  BY <1>2, <1>3, <1>4, <1>5, AppendHolds DEF Holds
<1>6. CASE at \notin Saving
  BY <1>3, <1>4, <1>6 DEF Holds
<1>7. QED
  BY <1>5, <1>6

\* Where a step of an executor leads, and from where.
LEMMA FateIs ==
    ASSUME Inv, StopInv, NEW l \in Loops, Turn(l)
    PROVE  \E at \in Places \ {"new", "creating", "lost"}, status \in Statuses :
             /\ Shows(l, at, status)
             /\ at \in Busy => status = loops[l].status
             /\ at = "refused" => exec[l].at = "creating"
             /\ exec[l].at = "creating" => at \in {"begun", "refused", "over"}
             /\ exec[l].at = "failing" => at = "over" /\ status = loops[l].status
             /\ exec[l].at \notin {"creating", "failing"} => exec[l].at \in Busy
<1>1. /\ "begun" \in Busy /\ Busy \subseteq Places \ {"new", "creating", "lost", "failing", "refused"}
      /\ {"refused", "failing", "over"} \subseteq Places \ (Busy \cup {"new", "creating", "lost"})
      /\ {"creating", "failing"} \cap Busy = {}
      /\ {"stopped", "failed"} \subseteq Statuses
  BY DEF Busy, Places, Saving, Waiting, Gone, Statuses
<1>2. exec[l].at = "creating" => ~aborted[l]
  BY DEF StopInv, LoopAgrees
<1>3. exec[l].at \in Busy \cup {"creating", "failing"} /\ loops[l] \in Record
  <2>1. exec[l].at \in Busy \cup {"creating", "failing"}
    BY DEF Turn, Fate
  <2>2. Agree(exec[l].at, exec[l].left, exec[l].verdict, loops[l], open[l], failures)
    BY DEF Inv, LoopsAgree
  <2>3. exec[l].at \notin Gone
    BY <2>1 DEF Busy, Gone
  <2>4. QED
    BY <2>1, <2>2, <2>3 DEF Agree, Inv, TypeOK
<1>4. loops[l].status \in Statuses
  BY <1>3 DEF Record
<1>5. CASE exec[l].at = "creating" /\ Starts(l)
  BY <1>1, <1>2, <1>4, <1>5 DEF Starts
<1>6. CASE exec[l].at = "failing" /\ Shows(l, "over", loops[l].status)
  BY <1>1, <1>4, <1>6
<1>7. CASE exec[l].at \in Busy /\ Proceeds(l)
  BY <1>1, <1>4, <1>7 DEF Proceeds
<1>8. QED
  BY <1>5, <1>6, <1>7 DEF Turn, Fate

LEMMA StopTurn == ASSUME Inv, StopInv, NEW l \in Loops, Turn(l) PROVE StopInv'
<1>1. PICK at \in Places \ {"new", "creating", "lost"}, status \in Statuses :
        /\ Shows(l, at, status)
        /\ at \in Busy => status = loops[l].status
        /\ at = "refused" => exec[l].at = "creating"
        /\ exec[l].at = "creating" => at \in {"begun", "refused", "over"}
        /\ exec[l].at = "failing" => at = "over" /\ status = loops[l].status
        /\ exec[l].at \notin {"creating", "failing"} => exec[l].at \in Busy
  BY FateIs
<1>2. /\ UNCHANGED <<stop, aborted>> /\ (failures' = 0 => failures = 0)
      /\ Frees(l) /\ Counts(l) /\ Stops \cap Loops = {}
  BY NamesAssumption DEF Turn
<1>3. Sheds /\ Holds(l) /\ (at \in Saving => \A v : v # l /\ Member(queue, v) => Before(queue', v, l))
  BY <1>1, <1>2, FreesSheds, ShowsHolds
<1>4. Tells(l)
  BY <1>2, <1>3 DEF Tells, Went
<1>5. \A s \in Stops : CallAgrees(s)'
  BY <1>4, CallsStay
<1>6. since \in [Loops -> 0..2]
  BY DEF Inv, TypeOK
<1>7. ASSUME NEW d \in Loops, d # l PROVE LoopInv(d)'
  <2>1. exec'[d] = exec[d] /\ loops'[d] = loops[d]
    BY <1>1, <1>7 DEF Shows
  <2>2. since'[d] = since[d]
    BY <1>2, <1>6, <1>7 DEF Counts
  <2>3. QED
    BY <1>4, <1>7, <2>1, <2>2, LoopStays DEF Stays
<1>8. LoopInv(l)'
  <2>1. exec'[l].at = at /\ loops'[l] # None /\ loops'[l].status = status
    BY <1>1 DEF Shows
  <2>2. Copies(l)' \subseteq Copies(l)
    BY <1>3 DEF Sheds
  <2>3. LoopAgrees(l) /\ SinceAgrees(l)
    BY DEF StopInv
  <2>4. \A s \in Stops : HeardAgrees(s, l) /\ UnheardAgrees(s, l) /\ DoneAgrees(s, l) /\ CallAgrees(s)
    BY DEF StopInv
  <2>5. exec[l].at \in Saving => queue # <<>> /\ Head(queue) = l
    BY <1>2 DEF Frees
  <2>6. \A v : ~Before(queue, v, l)
    BY <2>5, GoesAlone
  <2>7. exec[l].at \in Busy => exec[l].at \notin Gone \cup {"failing", "creating"}
    BY DEF Busy
  <2>8. exec[l].at \in Busy \cup {"creating"} => loops[l].status \in Early /\ Show(l, Early)
    BY <2>3, <2>7 DEF LoopAgrees, Gone
  <2>9. exec[l].at \notin Gone
    BY <1>1, <2>7 DEF Gone
  <2>10. loops[l] # None
    <3>1. Agree(exec[l].at, exec[l].left, exec[l].verdict, loops[l], open[l], failures)
      BY DEF Inv, LoopsAgree
    <3>2. QED
      BY <2>9, <3>1 DEF Agree
  <2>11. /\ exec[l].at # "failing" => Show(l, Early)'
         /\ exec[l].at = "failing" => at = "over" /\ status = loops[l].status
    BY <1>1, <2>2, <2>8 DEF Show
  <2>12. LoopAgrees(l)'
    <3>1. at \notin Gone \cup {"failing"} => status \in Early /\ Show(l, Early)'
      <4>1. at \notin Gone \cup {"failing"} => at \in Busy
        BY <1>1 DEF Busy
      <4>2. QED
        BY <1>1, <2>8, <2>11, <4>1 DEF Gone
    <3>2. failures' = 0 => None \notin Copies(l)'
      <4>1. CASE exec[l].at = "creating"
        <5>1. exec[l].at \in Saving
          BY <4>1 DEF Saving
        <5>2. writing # None /\ Head(queue) = l /\ writing[l] # None
          BY <1>2, <2>3, <4>1, <5>1 DEF Frees, LoopAgrees
        <5>3. failures' = 0 => Copies(l)' \subseteq {writing[l]}
          BY <1>2, <5>1 DEF Frees, Copies
        <5>4. QED
          BY <5>2, <5>3
      <4>2. CASE exec[l].at # "creating"
        <5>1. exec[l].at # "new"
          BY <2>9 DEF Gone
        <5>2. QED
          BY <1>2, <2>2, <2>3, <2>10, <4>2, <5>1 DEF LoopAgrees
      <4>3. QED
        BY <4>1, <4>2
    <3>3. Missed(l)' \/ Show(l, Early \cup {loops[l].status})'
      <4>1. CASE exec[l].at # "failing"
        BY <2>11, <4>1 DEF Show
      <4>2. CASE exec[l].at = "failing"
        BY <1>2, <2>1, <2>2, <2>3, <2>10, <2>11, <4>2 DEF LoopAgrees, Missed, Show
      <4>3. QED
        BY <4>1, <4>2
    <3>4. at \notin {"new", "creating"}
      BY <1>1
    <3>5. QED
      BY <2>1, <3>1, <3>2, <3>3, <3>4 DEF LoopAgrees
  <2>13. ASSUME NEW s \in Stops PROVE HeardAgrees(s, l)'
    <3> SUFFICES ASSUME stop'[s].loop = l, Live(s)'
                 PROVE  /\ exec'[l].at \notin {"new", "creating", "refused", "lost"}
                        /\ Show(l, Early \cup {loops[l].status})'
      BY DEF HeardAgrees
    <3>1. stop[s].loop = l /\ Live(s)
      BY <1>2 DEF Live
    <3>2. exec[l].at # "creating" /\ Show(l, Early \cup {loops[l].status})
      BY <2>4, <3>1 DEF HeardAgrees
    <3>3. Show(l, Early \cup {loops[l].status})'
      BY <2>1, <2>2, <2>11, <3>2 DEF Show
    <3>4. QED
      BY <1>1, <2>1, <3>2, <3>3
  <2>14. ASSUME NEW s \in Stops PROVE UnheardAgrees(s, l)'
    <3> SUFFICES ASSUME stop[s].loop = l, stop[s].at = "asked", ~stop[s].heard
                 PROVE  UnheardAgrees(s, l)'
      BY <1>2 DEF UnheardAgrees
    <3>1. exec[l].at = "creating"
      BY <2>4, <2>6, <2>9 DEF UnheardAgrees, Gone
    <3>2. \A z \in Stops : stop[z].loop = l => ~Live(z)
      BY <2>4, <3>1 DEF HeardAgrees
    <3>3. \A z \in Stops : stop'[z].loop = l => ~Live(z)'
      BY <1>2, <3>2 DEF Live
    <3>4. at = "begun" => Before(queue', s, l)
      <4>1. "begun" \in Saving /\ s # l
        BY <1>2 DEF Saving
      <4>2. QED
        BY <1>3, <2>4, <4>1 DEF CallAgrees
    <3>5. QED
      BY <1>1, <2>1, <3>1, <3>3, <3>4 DEF UnheardAgrees
  <2>15. ASSUME NEW s \in Stops PROVE DoneAgrees(s, l)'
    BY <1>2, <2>4, <2>9 DEF DoneAgrees
  <2>16. SinceAgrees(l)'
    <3>1. \A s \in Stops : stop[s].loop = l /\ Live(s) => since[l] # 1 \/ aborted[l]
      BY <2>3, <2>6 DEF SinceAgrees
    <3>2. since'[l] = since[l] \/ (since'[l] = since[l] + 1 /\ Asked(l) /\ at = "begun" /\ ~aborted[l])
      BY <1>2, <1>6, <2>1 DEF Counts
    <3>3. CASE since'[l] = since[l]
      BY <1>2, <2>3, <3>1, <3>3 DEF SinceAgrees, Live
    <3>4. CASE since'[l] = since[l] + 1 /\ Asked(l) /\ at = "begun" /\ ~aborted[l]
      <4>1. PICK s \in Stops : stop[s].loop = l /\ Live(s)
        BY <2>4, <3>4 DEF Asked, Live, CallAgrees
      <4>2. since[l] = 0
        BY <1>6, <2>3, <3>1, <3>4, <4>1 DEF SinceAgrees
      <4>3. ASSUME NEW z \in Stops, stop[z].loop = l, Live(z) PROVE Before(queue', z, l)
        <5>1. stop[z].at \notin Signalled /\ stop[z].at # "marking" /\ stop[z].at # "new"
          BY <2>4, <3>4, <4>3 DEF CallAgrees, Live
        <5>2. stop[z].at = "asked"
          <6>1. stop[z] \in Call
            BY DEF Inv, TypeOK
          <6>2. QED
            BY <4>3, <5>1, <6>1 DEF Live, Call, Signalled
        <5>3. "begun" \in Saving /\ z # l
          BY <1>2 DEF Saving
        <5>4. QED
          BY <1>3, <2>4, <3>4, <5>2, <5>3 DEF CallAgrees
      <4>4. QED
        BY <1>2, <3>4, <4>2, <4>3 DEF SinceAgrees, Live
    <3>5. QED
      BY <3>2, <3>3, <3>4
  <2>17. QED
    BY <2>12, <2>13, <2>14, <2>15, <2>16 DEF LoopInv
<1>9. QED
  BY <1>5, <1>7, <1>8 DEF StopInv, LoopInv

LEMMA StopRun == ASSUME Inv, StopInv, NEW l \in Loops, Run(l) PROVE StopInv'
<1>1. PICK r : r = [status |-> "running", asked |-> FALSE, active |-> FALSE, worker |-> FALSE,
                    verifier |-> FALSE, last |-> "none", outcome |-> "none"]
  OBVIOUS
<1>2. r \in Record /\ r.status = "running" /\ To(l, "creating", r) /\ exec[l].at = "new"
  BY <1>1 DEF Run, Record, Statuses, Outcomes
<1>3. Shows(l, "creating", "running")
  BY <1>2, ToShows
<1>4. /\ exec'[l].at = "creating" /\ loops'[l].status = "running" /\ queue' = Append(queue, l)
      /\ \A d \in Loops \ {l} : exec'[d] = exec[d] /\ loops'[d] = loops[d]
  BY <1>2, <1>3 DEF Shows, Rest, Saving
<1>5. UNCHANGED <<file, writing, aborted, stop, since, failures>>
  BY DEF Run
<1>6. queue \in Seq(Awaiters) /\ l \in Awaiters /\ (writing # None => queue # <<>>)
  BY QueueIs DEF Awaiters
<1>7. Holds(l)
  BY <1>4, <1>5, <1>6, AppendHolds DEF Holds
<1>8. Sheds
  BY <1>5 DEF Sheds, Copies
<1>9. Tells(l)
  BY <1>5, <1>7, <1>8, NamesAssumption DEF Tells, Went
<1>10. \A s \in Stops : CallAgrees(s)'
  BY <1>9, CallsStay
<1>11. ASSUME NEW d \in Loops, d # l PROVE LoopInv(d)'
  BY <1>4, <1>5, <1>9, <1>11, LoopStays DEF Stays
<1>12. LoopInv(l)'
  <2>1. LoopAgrees(l) /\ SinceAgrees(l)
    BY DEF StopInv
  <2>2. \A s \in Stops : HeardAgrees(s, l) /\ DoneAgrees(s, l)
    BY DEF StopInv
  <2>3. \A s \in Stops : stop[s].loop = l => ~Live(s)
    BY <1>2, <2>2 DEF HeardAgrees
  <2>4. \A s \in Stops : stop'[s].loop = l => ~Live(s)'
    BY <1>5, <2>3 DEF Live
  <2>5. Copies(l)' \subseteq {None} /\ ~aborted'[l]
    BY <1>2, <1>5, <1>8, <2>1 DEF LoopAgrees, Sheds
  <2>6. writing' # None => Head(queue') # l
    <3>1. writing # None => Head(queue) # l
      BY <1>2, QueueIs DEF Saving
    <3>2. QED
      BY <1>4, <1>5, <1>6, <3>1, AppendHolds
  <2>7. LoopAgrees(l)'
    BY <1>4, <2>5, <2>6 DEF LoopAgrees, Show, Early
  <2>8. SinceAgrees(l)'
    BY <1>5, <2>1, <2>4 DEF SinceAgrees
  <2>9. \A s \in Stops : HeardAgrees(s, l)' /\ UnheardAgrees(s, l)'
    BY <1>4, <2>4 DEF HeardAgrees, UnheardAgrees
  <2>10. \A s \in Stops : DoneAgrees(s, l)'
    BY <1>2, <1>5, <2>2 DEF DoneAgrees
  <2>11. QED
    BY <2>7, <2>8, <2>9, <2>10 DEF LoopInv
<1>13. QED
  BY <1>10, <1>11, <1>12 DEF StopInv, LoopInv

-----------------------------------------------------------------------------
(* The calls of stopLoop *)

\* The queue when its first write has ended, or another one is asked for.
LEMMA ServedHolds ==
    ASSUME Inv, writing # None, writing' = None, queue' = Tail(queue)
    PROVE  Holds(Head(queue))
<1>1. queue \in Seq(Awaiters) /\ queue # <<>>
  BY QueueIs
<1>2. QED
  BY <1>1, TailHolds DEF Holds

LEMMA ServedSheds ==
    ASSUME Inv, writing # None, writing' = None, file' = writing \/ file' \in {file, Torn},
           failures' = 0 => failures = 0
    PROVE  Sheds
  BY DEF Sheds, Copies

LEMMA LongerHolds ==
    ASSUME Inv, NEW w \in Awaiters, NEW v, UNCHANGED writing, queue' = Append(queue, w)
    PROVE  Holds(v) /\ Member(queue', w)
<1>1. queue \in Seq(Awaiters) /\ (writing # None => queue # <<>>)
  BY QueueIs
<1>2. QED
  BY <1>1, AppendHolds DEF Holds

LEMMA SameSheds ==
    ASSUME UNCHANGED <<file, writing, failures>>
    PROVE  Sheds
  BY DEF Sheds, Copies

LEMMA NamesDiffer == "log" \notin Loops \cup Stops /\ "init" \notin Loops \cup Stops
                     /\ Stops \cap Loops = {}
  BY NamesAssumption

LEMMA StopStop == ASSUME Inv, StopInv, NEW s \in Stops, NEW l \in Loops, Stop(s, l) PROVE StopInv'
<1>1. /\ stop[s].at = "new" /\ loops[l] # None /\ loops[l].status = "running"
      /\ UNCHANGED <<file, writing, exec, aborted, failures>> /\ queue' = Append(queue, s)
      /\ since' = [since EXCEPT ![l] = 0]
  BY DEF Stop
<1>2. stop[s] \in Call /\ loops[l] \in Record /\ since \in [Loops -> 0..2]
      /\ loops \in [Loops -> Record \cup {None}] /\ stop \in [Stops -> Call]
  BY <1>1 DEF Inv, TypeOK
<1>3. PICK b \in BOOLEAN : b = Running(l)
  BY Zenon DEF Running, AtWork
<1>4. PICK c : c = [stop[s] EXCEPT !.at = "asked", !.loop = l, !.heard = b]
  OBVIOUS
<1>5. c.at = "asked" /\ c.loop = l /\ c.heard = b
  BY <1>2, <1>4 DEF Call
<1>6. stop' = [stop EXCEPT ![s] = c]
  BY <1>3, <1>4 DEF Stop
<1>7. stop'[s] = c /\ \A z \in Stops \ {s} : stop'[z] = stop[z]
  BY <1>2, <1>6
<1>8. PICK r : r = [loops[l] EXCEPT !.asked = TRUE]
  OBVIOUS
<1>9. r \in Record /\ r.status = loops[l].status /\ loops' = [loops EXCEPT ![l] = r]
  BY <1>2, <1>8 DEF Stop, Record
<1>10. s \in Awaiters /\ "log" \notin Stops \cup Loops
  BY NamesDiffer DEF Awaiters
<1>11. Holds("log") /\ Member(queue', s) /\ Sheds
  BY <1>1, <1>10, LongerHolds, SameSheds
<1>12. Agree(exec[l].at, exec[l].left, exec[l].verdict, loops[l], open[l], failures)
  BY DEF Inv, LoopsAgree
<1>13. CASE b
  <2>1. exec[l].at \notin Gone \cup {"creating", "failing"}
    BY <1>1, <1>3, <1>12, <1>13 DEF Running, AtWork, Agree
  <2>2. Went(s, "log")
    BY <1>1, <1>2, <1>5, <1>7, <1>11, <1>13, <2>1 DEF Went
  <2>3. Tells("log")
    BY <1>1, <1>7, <1>10, <1>11, <2>2 DEF Tells, Went
  <2>4. \A d \in Loops : Stays(d)
    BY <1>1, <1>2, <1>9, NoneAssumption DEF Stays
  <2>5. QED
    BY <1>10, <2>3, <2>4, AllStay
<1>14. CASE ~b
  <2>1. exec[l].at \in {"creating", "refused"}
    BY <1>1, <1>3, <1>12, <1>14 DEF Running, AtWork, Agree, Gone
  <2>2. Went(s, "log")
    BY <1>1, <1>2, <1>5, <1>7, <1>11, <1>14, <2>1 DEF Went
  <2>3. Tells("log")
    BY <1>1, <1>7, <1>10, <1>11, <2>2 DEF Tells, Went
  <2>4. \A d \in Loops : Stays(d)
    BY <1>1, <1>2, <1>9, NoneAssumption DEF Stays
  <2>5. QED
    BY <1>10, <2>3, <2>4, AllStay
<1>15. QED
  BY <1>13, <1>14

\* One call goes on, the others and the loops stay.
LEMMA CallMoves ==
    ASSUME Inv, NEW s \in Stops, NEW c, stop' = [stop EXCEPT ![s] = c]
    PROVE  stop'[s] = c /\ \A z \in Stops \ {s} : stop'[z] = stop[z]
  BY DEF Inv, TypeOK

\* The call goes on to wait for a cancellation, or for the executor.
LEMMA SignalMoves ==
    ASSUME Inv, NEW s \in Stops, Signal(s) \/ Canceled(s)
    PROVE  /\ stop'[s].at \in Signalled
           /\ stop'[s].loop = stop[s].loop /\ stop'[s].heard = stop[s].heard
           /\ \A z \in Stops \ {s} : stop'[z] = stop[z]
<1>1. PICK at \in Signalled : stop' = [stop EXCEPT ![s].at = at]
  BY DEF Signal, Canceled, CancelsVerifier, Cancels, Signalled
<1>2. PICK c : c = [stop[s] EXCEPT !.at = at]
  OBVIOUS
<1>3. stop[s] \in Call
  BY DEF Inv, TypeOK
<1>4. c.at = at /\ c.loop = stop[s].loop /\ c.heard = stop[s].heard /\ stop' = [stop EXCEPT ![s] = c]
  BY <1>1, <1>2, <1>3 DEF Call
<1>5. QED
  BY <1>4, CallMoves

LEMMA StopSignal == ASSUME Inv, StopInv, NEW s \in Stops, Signal(s) PROVE StopInv'
<1>1. PICK l : l = stop[s].loop
  OBVIOUS
<1>2. /\ stop[s].at = "asked" /\ stop[s].heard /\ Written(s) /\ queue' = Tail(queue)
      /\ aborted' = [aborted EXCEPT ![l] = TRUE] /\ UNCHANGED <<loops, exec, since, failures>>
  BY <1>1 DEF Signal
<1>3. Holds(s) /\ Sheds
  BY <1>2, ServedHolds, ServedSheds DEF Written
<1>4. Live(s) /\ l \in Loops
  BY <1>1, <1>2 DEF Live, Inv, Found
<1>5. exec[l].at \notin {"new", "creating"}
  <2>1. HeardAgrees(s, l)
    BY <1>4 DEF StopInv
  <2>2. QED
    BY <1>1, <1>4, <2>1 DEF HeardAgrees
<1>6. aborted \in [Loops -> BOOLEAN]
  BY DEF Inv, TypeOK
<1>7. aborted'[l] /\ \A d \in Loops \ {l} : aborted'[d] = aborted[d]
  BY <1>2, <1>4, <1>6
<1>8. \A z \in Stops : Went(z, s)
  BY <1>1, <1>4, <1>7, SignalMoves DEF Went
<1>9. Tells(s)
  BY <1>3, <1>5, <1>7, <1>8 DEF Tells
<1>10. \A d \in Loops : Stays(d)
  BY <1>2 DEF Stays
<1>11. QED
  BY <1>9, <1>10, AllStay, NamesDiffer

\* The steps of a call that changes nothing but what has become of it.
LEMMA CallSettles ==
    ASSUME Inv, StopInv, NEW w \in Stops \cup {"log", "init"}, Holds(w), Sheds,
           UNCHANGED <<loops, exec, since, aborted>>, \A z \in Stops : Went(z, w)
    PROVE  StopInv'
<1>1. Tells(w) /\ w \notin Loops
  BY NamesDiffer DEF Tells
<1>2. \A l \in Loops : Stays(l)
  BY DEF Stays
<1>3. QED
  BY <1>1, <1>2, AllStay

LEMMA StopCanceled == ASSUME Inv, StopInv, NEW s \in Stops, Canceled(s) PROVE StopInv'
<1>1. UNCHANGED <<loops, file, queue, writing, exec, aborted, since, failures>>
      /\ stop[s].at \in Signalled
  BY DEF Canceled, Signalled
<1>2. stop[s].heard /\ aborted[stop[s].loop]
  BY <1>1 DEF StopInv, CallAgrees
<1>3. Live(s) /\ aborted'[stop[s].loop]
  BY <1>1, <1>2 DEF Live, Signalled
<1>4. \A z \in Stops : Went(z, "log")
  BY <1>3, SignalMoves, NamesDiffer DEF Went
<1>5. Holds("log") /\ Sheds
  BY <1>1, SameSheds DEF Holds
<1>6. QED
  BY <1>1, <1>4, <1>5, CallSettles

LEMMA StopStopped == ASSUME Inv, StopInv, NEW s \in Stops, Stopped(s) PROVE StopInv'
<1>1. /\ UNCHANGED <<loops, file, queue, writing, exec, aborted, since, failures>>
      /\ stop[s].at = "awaiting" /\ stop[s] \in Call /\ exec[stop[s].loop].at \in Gone
  BY DEF Stopped, AtWork, Inv, TypeOK
<1>2. PICK c : c = [stop[s] EXCEPT !.at = "done", !.told = loops[stop[s].loop].status]
  OBVIOUS
<1>3. /\ c.at = "done" /\ c.told = loops[stop[s].loop].status
      /\ c.loop = stop[s].loop /\ c.heard = stop[s].heard
  BY <1>1, <1>2 DEF Call
<1>4. stop' = [stop EXCEPT ![s] = c]
  BY <1>2 DEF Stopped
<1>5. Live(s)
  BY <1>1 DEF StopInv, CallAgrees, Signalled, Live
<1>6. \A z \in Stops : Went(z, "log")
  BY <1>1, <1>3, <1>4, <1>5, CallMoves, NamesDiffer DEF Went
<1>7. Holds("log") /\ Sheds
  BY <1>1, SameSheds DEF Holds
<1>8. QED
  BY <1>1, <1>6, <1>7, CallSettles

LEMMA StopMarked == ASSUME Inv, StopInv, NEW s \in Stops, Marked(s) PROVE StopInv'
<1>1. /\ UNCHANGED <<loops, exec, aborted, since, failures>> /\ Written(s) /\ queue' = Tail(queue)
      /\ stop[s].at = "marking" /\ stop[s] \in Call
  BY DEF Marked, Inv, TypeOK
<1>2. PICK c : c = [stop[s] EXCEPT !.at = "done", !.told = loops[stop[s].loop].status]
  OBVIOUS
<1>3. c.at = "done" /\ c.loop = stop[s].loop /\ c.heard = stop[s].heard
  BY <1>1, <1>2 DEF Call
<1>4. stop' = [stop EXCEPT ![s] = c]
  BY <1>2 DEF Marked
<1>5. ~stop[s].heard
  BY <1>1 DEF StopInv, CallAgrees
<1>6. \A z \in Stops : Went(z, s)
  BY <1>1, <1>3, <1>4, <1>5, CallMoves DEF Went
<1>7. Holds(s) /\ Sheds
  BY <1>1, ServedHolds, ServedSheds DEF Written
<1>8. QED
  BY <1>1, <1>6, <1>7, CallSettles

LEMMA StopLogs ==
    ASSUME Inv, StopInv, LogWritten \/ \E l \in Loops : StreamLog(l)
    PROVE  StopInv'
<1>1. UNCHANGED <<loops, exec, aborted, since, stop, failures>>
  BY DEF LogWritten, StreamLog
<1>2. CASE LogWritten
  <2>1. PICK w \in {"log", "init"} : Written(w) /\ queue' = Tail(queue)
    BY <1>2 DEF LogWritten
  <2>2. Holds(w) /\ Sheds
    BY <1>1, <2>1, ServedHolds, ServedSheds DEF Written
  <2>3. \A z \in Stops : Went(z, w)
    BY <1>1, NamesDiffer DEF Went
  <2>4. QED
    BY <1>1, <2>2, <2>3, CallSettles
<1>3. CASE \E l \in Loops : StreamLog(l)
  <2>1. queue' = Append(queue, "log") /\ UNCHANGED <<file, writing>> /\ "log" \in Awaiters
    BY <1>3 DEF StreamLog, Awaiters
  <2>2. Holds("log") /\ Sheds
    BY <1>1, <2>1, LongerHolds, SameSheds
  <2>3. \A z \in Stops : Went(z, "log")
    BY <1>1, NamesDiffer DEF Went
  <2>4. QED
    BY <1>1, <2>2, <2>3, CallSettles
<1>4. QED
  BY <1>2, <1>3

\* A loop that had not been found running is marked as stopped: it is being
\* created, or begins its first iteration, or nobody else stops it.
LEMMA StopMark == ASSUME Inv, StopInv, NEW s \in Stops, Mark(s) PROVE StopInv'
<1>1. PICK l : l = stop[s].loop
  OBVIOUS
<1>2. /\ stop[s] \in Call /\ stop[s].at = "asked" /\ ~stop[s].heard /\ Written(s)
      /\ UNCHANGED <<exec, aborted, since, failures>> /\ queue' = Append(Tail(queue), s)
  BY DEF Mark, Inv, TypeOK
<1>3. l \in Loops /\ loops[l] \in Record
  BY <1>1, <1>2 DEF Inv, Found, TypeOK
<1>4. PICK r : r = [loops[l] EXCEPT !.status = "stopped"]
  OBVIOUS
<1>5. r.status = "stopped" /\ r \in Record /\ loops' = [loops EXCEPT ![l] = r]
  BY <1>1, <1>3, <1>4 DEF Mark, Record, Statuses
<1>6. /\ loops'[l].status = "stopped" /\ loops'[l] # None /\ loops[l] # None
      /\ \A d \in Loops \ {l} : loops'[d] = loops[d]
  BY <1>3, <1>5, NoneAssumption DEF Inv, TypeOK
<1>7. PICK c : c = [stop[s] EXCEPT !.at = "marking"]
  OBVIOUS
<1>8. c.at = "marking" /\ c.loop = l /\ c.heard = stop[s].heard /\ stop' = [stop EXCEPT ![s] = c]
  BY <1>1, <1>2, <1>7 DEF Mark, Call
<1>9. stop'[s] = c /\ \A z \in Stops \ {s} : stop'[z] = stop[z]
  BY <1>8, CallMoves
<1>10. Holds(s)
  <2>1. queue \in Seq(Awaiters) /\ queue # <<>> /\ writing' = None /\ Head(queue) = s
    BY <1>2, QueueIs DEF Written
  <2>2. Tail(queue) \in Seq(Awaiters) /\ s \in Awaiters
    BY <2>1 DEF Awaiters
  <2>3. QED
    BY <1>2, <2>1, <2>2, TailHolds, AppendHolds DEF Holds
<1>11. Sheds
  BY <1>2, ServedSheds DEF Written
<1>12. \A z \in Stops : Went(z, s)
  BY <1>1, <1>2, <1>8, <1>9 DEF Went
<1>13. Tells(s)
  BY <1>2, <1>10, <1>11, <1>12 DEF Tells
<1>14. \A z \in Stops : CallAgrees(z)'
  BY <1>13, CallsStay
<1>15. ASSUME NEW d \in Loops, d # l PROVE LoopInv(d)'
  <2>1. Stays(d) /\ d # s
    BY <1>2, <1>6, <1>15, NamesDiffer DEF Stays
  <2>2. QED
    BY <1>13, <2>1, LoopStays
<1>16. LoopInv(l)'
  <2>1. LoopAgrees(l) /\ SinceAgrees(l) /\ exec'[l] = exec[l] /\ Copies(l)' \subseteq Copies(l)
    BY <1>2, <1>3, <1>11 DEF StopInv, Sheds
  <2>2. \A z \in Stops : HeardAgrees(z, l) /\ UnheardAgrees(z, l) /\ DoneAgrees(z, l)
    BY <1>3 DEF StopInv
  <2>3. \A z \in Stops : Live(z)' /\ stop'[z].loop = l => z # s /\ Live(z) /\ stop[z].loop = l
    BY <1>2, <1>8, <1>9 DEF Live
  <2>4. \/ exec[l].at = "creating"
        \/ exec[l].at = "begun"
        \/ exec[l].at \in {"over", "refused"} /\ \A z \in Stops : stop[z].loop = l => ~Live(z)
    BY <1>1, <1>2, <2>2 DEF UnheardAgrees
  <2>5. Missed(l)'
    BY <1>2, <1>8, <1>9 DEF Missed
  <2>6. LoopAgrees(l)'
    <3>1. exec[l].at # "new" /\ (exec[l].at \in {"new", "creating"} => ~aborted'[l])
      BY <1>2, <2>1, <2>4 DEF LoopAgrees
    <3>2. exec[l].at \notin Gone \cup {"failing"} => loops'[l].status \in Early /\ Show(l, Early)'
      BY <1>6, <2>1 DEF LoopAgrees, Show, Early
    <3>3. exec[l].at \notin {"new", "creating"} /\ failures' = 0 => None \notin Copies(l)'
      BY <1>2, <1>6, <2>1 DEF LoopAgrees
    <3>4. writing' = None
      BY <1>2 DEF Written
    <3>5. QED
      BY <2>1, <2>5, <3>1, <3>2, <3>3, <3>4 DEF LoopAgrees
  <2>7. ASSUME NEW z \in Stops PROVE HeardAgrees(z, l)'
    <3> SUFFICES ASSUME stop'[z].loop = l, Live(z)'
                 PROVE  /\ exec'[l].at \notin {"new", "creating", "refused", "lost"}
                        /\ Show(l, Early \cup {loops[l].status})'
      BY DEF HeardAgrees
    <3>1. Live(z) /\ stop[z].loop = l /\ exec[l].at \notin {"new", "creating", "refused", "lost"}
      BY <2>2, <2>3 DEF HeardAgrees
    <3>2. exec[l].at = "begun"
      BY <2>4, <3>1
    <3>3. Show(l, Early)
      BY <2>1, <3>2 DEF LoopAgrees, Gone
    <3>4. QED
      BY <2>1, <3>1, <3>3 DEF Show
  <2>8. ASSUME NEW z \in Stops PROVE UnheardAgrees(z, l)'
    <3> SUFFICES ASSUME stop'[z].loop = l, stop'[z].at = "asked", ~stop'[z].heard
                 PROVE  UnheardAgrees(z, l)'
      BY DEF UnheardAgrees
    <3>1. z # s /\ stop[z] = stop'[z]
      BY <1>8, <1>9
    <3>2. Before(queue, z, l) => Before(queue', z, l)
      BY <1>3, <1>10, <3>1, NamesDiffer DEF Holds
    <3>3. QED
      BY <2>1, <2>2, <2>3, <3>1, <3>2 DEF UnheardAgrees
  <2>9. ASSUME NEW z \in Stops PROVE DoneAgrees(z, l)'
    <3> SUFFICES ASSUME stop'[z].loop = l, stop'[z].at = "done", stop'[z].heard, stop'[z].told # "error"
                 PROVE  DoneAgrees(z, l)'
      BY DEF DoneAgrees
    <3>1. z # s /\ stop[z] = stop'[z]
      BY <1>8, <1>9
    <3>2. QED
      BY <1>6, <2>1, <2>2, <3>1 DEF DoneAgrees, Show
  <2>10. SinceAgrees(l)'
    <3>1. ASSUME NEW z \in Stops, z # s, Before(queue, z, l) PROVE Before(queue', z, l)
      BY <1>3, <1>10, <3>1, NamesDiffer DEF Holds
    <3>2. QED
      BY <1>2, <2>1, <2>3, <3>1 DEF SinceAgrees
  <2>11. QED
    BY <2>6, <2>7, <2>8, <2>9, <2>10 DEF LoopInv
<1>17. QED
  BY <1>14, <1>15, <1>16 DEF StopInv, LoopInv

-----------------------------------------------------------------------------
(* Writes, and restarts *)

LEMMA StopWriteFails == ASSUME Inv, StopInv, WriteFails PROVE StopInv'
<1>1. CASE \E l \in Loops : Head(queue) = l /\ ExecutorHurt(l)
  BY <1>1, HurtTurns, StopTurn
<1>2. CASE ~\E l \in Loops : Head(queue) = l /\ ExecutorHurt(l)
  <2>1. /\ writing # None /\ writing' = None /\ failures' = failures + 1 /\ file' \in {file, Torn}
        /\ UNCHANGED <<aborted, since>> /\ failures \in Nat
    BY DEF WriteFails, Inv, TypeOK
  <2>2. failures' # 0
    BY <2>1
  <2>3. /\ queue' = Tail(queue) /\ UNCHANGED <<loops, exec>>
        /\ \/ \E s \in Stops : Head(queue) = s /\ StopHurt(s)
           \/ Head(queue) \in {"log", "init"} /\ UNCHANGED stop
    BY <1>2 DEF WriteFails, StopHurt
  <2>4. Sheds
    BY <2>1, <2>2, ServedSheds
  <2>5. Holds(Head(queue))
    BY <2>1, <2>3, ServedHolds
  <2>6. ASSUME NEW s \in Stops, Head(queue) = s, StopHurt(s) PROVE StopInv'
    <3>1. PICK c : c = [stop[s] EXCEPT !.at = "done", !.told = "error"]
      OBVIOUS
    <3>2. stop[s] \in Call
      BY DEF Inv, TypeOK
    <3>3. c.at = "done" /\ c.told = "error" /\ c.loop = stop[s].loop /\ c.heard = stop[s].heard
      BY <3>1, <3>2 DEF Call
    <3>4. stop' = [stop EXCEPT ![s] = c]
      BY <2>6, <3>1 DEF StopHurt
    <3>5. \A z \in Stops : Went(z, s)
      BY <3>3, <3>4, CallMoves DEF Went
    <3>6. QED
      BY <2>1, <2>3, <2>4, <2>5, <2>6, <3>5, CallSettles
  <2>7. CASE Head(queue) \in {"log", "init"} /\ UNCHANGED stop
    <3>1. PICK w \in {"log", "init"} : w = Head(queue)
      BY <2>7
    <3>2. \A z \in Stops : Went(z, w)
      BY <2>7, NamesDiffer DEF Went
    <3>3. QED
      BY <2>1, <2>3, <2>4, <2>5, <3>1, <3>2, CallSettles
  <2>8. QED
    BY <2>3, <2>6, <2>7
<1>3. QED
  BY <1>1, <1>2

\* The write takes the records as they are.
LEMMA StopBeginWrite == ASSUME Inv, StopInv, BeginWrite PROVE StopInv'
<1>1. writing = None /\ writing' = loops
      /\ UNCHANGED <<loops, file, queue, exec, aborted, stop, since, failures>>
  BY DEF BeginWrite
<1>2. \A s \in Stops : CallAgrees(s)'
  BY <1>1 DEF StopInv, CallAgrees
<1>3. ASSUME NEW l \in Loops PROVE LoopInv(l)'
  <2>1. LoopAgrees(l) /\ SinceAgrees(l)
        /\ \A s \in Stops : HeardAgrees(s, l) /\ UnheardAgrees(s, l) /\ DoneAgrees(s, l)
    BY DEF StopInv
  <2>2. Copies(l)' \subseteq Copies(l) \cup {loops[l]}
    BY <1>1 DEF Copies
  <2>3. Agree(exec[l].at, exec[l].left, exec[l].verdict, loops[l], open[l], failures)
    BY DEF Inv, LoopsAgree
  <2>4. LoopAgrees(l)'
    <3>1. exec[l].at = "new" => loops[l] = None /\ Copies(l)' \subseteq {None}
      BY <2>1, <2>2 DEF LoopAgrees
    <3>2. exec[l].at \notin Gone \cup {"failing"} => loops[l].status \in Early /\ Show(l, Early)'
      BY <2>1, <2>2 DEF LoopAgrees, Show
    <3>3. exec[l].at \notin {"new", "creating"} /\ loops[l] # None /\ failures = 0 => None \notin Copies(l)'
      BY <2>1, <2>2 DEF LoopAgrees
    <3>4. loops[l] # None => Missed(l) \/ Show(l, Early \cup {loops[l].status})'
      BY <1>1, <2>1, <2>2 DEF LoopAgrees, Show
    <3>5. exec[l].at = "creating" => loops[l] # None
      BY <2>3 DEF Agree, Gone
    <3>6. Missed(l)' <=> Missed(l)
      BY <1>1 DEF Missed
    <3>7. QED
      BY <1>1, <2>1, <3>1, <3>2, <3>3, <3>4, <3>5, <3>6 DEF LoopAgrees
  <2>5. SinceAgrees(l)'
    BY <1>1, <2>1 DEF SinceAgrees, Live
  <2>6. ASSUME NEW s \in Stops PROVE HeardAgrees(s, l)' /\ DoneAgrees(s, l)'
    <3>1. HeardAgrees(s, l)'
      BY <1>1, <2>1, <2>2 DEF HeardAgrees, Show, Live
    <3>2. DoneAgrees(s, l)'
      <4> SUFFICES ASSUME stop[s].loop = l, stop[s].at = "done", stop[s].heard, stop[s].told # "error"
                   PROVE  DoneAgrees(s, l)'
        BY <1>1 DEF DoneAgrees
      <4>1. /\ exec[l].at \in Gone \ {"new"} /\ Show(l, Early \cup {stop[s].told})
            /\ loops[l] = None \/ loops[l].status \in Early \cup {stop[s].told}
        BY <2>1 DEF DoneAgrees, Early
      <4>2. Show(l, Early \cup {stop[s].told})'
        BY <1>1, <2>2, <4>1 DEF Show
      <4>3. QED
        BY <1>1, <2>1, <4>2 DEF DoneAgrees
    <3>3. QED
      BY <3>1, <3>2
  <2>7. ASSUME NEW s \in Stops PROVE UnheardAgrees(s, l)'
    BY <1>1, <2>1 DEF UnheardAgrees, Live
  <2>8. QED
    BY <2>4, <2>5, <2>6, <2>7 DEF LoopInv
<1>4. QED
  BY <1>2, <1>3 DEF StopInv, LoopInv

\* What a restart makes of a record tells what the record told, or that the
\* loop was stopped.
LEMMA RecoveredTells ==
    ASSUME NEW r \in Record \cup {None}
    PROVE  /\ Recovered(r) = None <=> r = None
           /\ r # None => /\ Recovered(r).status \in {r.status, "stopped"}
                          /\ Recovered(r).status # "running"
                          /\ r.status # "running" => Recovered(r) = r
<1>1. CASE r = None \/ r.status # "running"
  BY <1>1 DEF Recovered
<1>2. CASE ~(r = None \/ r.status # "running")
  <2>1. PICK w : w = Inactive(r)
    OBVIOUS
  <2>2. w \in Record
    BY <1>2, <2>1, InactiveDoes
  <2>3. PICK a : a = IF w.last = "running" THEN "stopped" ELSE w.last
    OBVIOUS
  <2>4. Recovered(r) = [w EXCEPT !.status = "stopped", !.asked = TRUE, !.last = a]
    BY <1>2, <2>1, <2>3 DEF Recovered
  <2>5. a \in Statuses \cup {"none"}
    BY <2>2, <2>3 DEF Record, Statuses
  <2>6. Recovered(r) \in Record /\ Recovered(r).status = "stopped"
    BY <2>2, <2>4, <2>5 DEF Record, Statuses
  <2>7. QED
    BY <1>2, <2>6, NoneAssumption
<1>3. QED
  BY <1>1, <1>2

\* What initialize reads is one of the copies there were.
LEMMA CrashReads ==
    ASSUME Inv, Crash, NEW l \in Loops
    PROVE  /\ file' = Torn => loops'[l] = None /\ Copies(l)' = {}
           /\ file' # Torn => /\ file'[l] \in Copies(l) /\ file'[l] \in Record \cup {None}
                              /\ loops'[l] = Recovered(file'[l]) /\ Copies(l)' = {file'[l]}
<1>1. PICK content : content \in (IF writing = None THEN {file} ELSE {file, Torn, writing})
                     /\ content = file'
  BY DEF Crash
<1>2. writing' = None
  BY DEF Crash
<1>3. loops'[l] = IF content = Torn THEN None ELSE Recovered(content[l])
  BY <1>1 DEF Crash
<1>4. Copies(l)' = IF content = Torn THEN {} ELSE {content[l]}
  BY <1>1, <1>2 DEF Copies
<1>5. content # Torn => content[l] \in Copies(l) /\ content[l] \in Record \cup {None}
  BY <1>1 DEF Copies, Inv, TypeOK
<1>6. QED
  BY <1>1, <1>3, <1>4, <1>5

LEMMA StopCrash == ASSUME Inv, StopInv, Crash PROVE StopInv'
<1>1. ASSUME NEW s \in Stops
      PROVE  /\ stop'[s].at \in {"new", "done", "lost"}
             /\ stop'[s].at \in {"new", "done"} => stop'[s] = stop[s]
  <2>1. /\ stop[s] \in Call
        /\ stop'[s] = IF stop[s].at \in {"new", "done"} THEN stop[s] ELSE [stop[s] EXCEPT !.at = "lost"]
    BY DEF Crash, Inv, TypeOK
  <2>2. [stop[s] EXCEPT !.at = "lost"].at = "lost"
    BY <2>1 DEF Call
  <2>3. QED
    BY <2>1, <2>2
<1>2. ASSUME NEW l \in Loops
      PROVE  exec'[l].at = IF exec[l].at = "new" THEN "new" ELSE "lost"
  <2>1. PICK at : at = IF exec[l].at = "new" THEN exec[l].at ELSE "lost"
    OBVIOUS
  <2>2. exec'[l] = [exec[l] EXCEPT !.at = at, !.index = 0, !.left = 0, !.retries = 0, !.verdict = "none"]
    BY <2>1 DEF Crash
  <2>3. exec[l] \in Executor
    BY DEF Inv, TypeOK
  <2>4. PICK e, v : e = exec[l] /\ v = exec'[l]
    OBVIOUS
  <2>5. v.at = at
    BY <2>2, <2>3, <2>4 DEF Executor
  <2>6. QED
    BY <2>1, <2>4, <2>5
<1>3. \A l \in Loops : ~aborted'[l] /\ since'[l] = 0
  BY DEF Crash
<1>4. UNCHANGED failures /\ writing' = None
  BY DEF Crash
<1>5. \A s \in Stops : CallAgrees(s)'
  BY <1>1 DEF StopInv, CallAgrees, Signalled
<1>6. \A s \in Stops : ~Live(s)'
  BY <1>1 DEF Live
<1>7. ASSUME NEW l \in Loops PROVE LoopInv(l)'
  <2>1. LoopAgrees(l) /\ \A s \in Stops : DoneAgrees(s, l)
    BY <1>7 DEF StopInv
  <2>2. LoopAgrees(l)'
    <3>1. exec'[l].at = "new" => loops'[l] = None /\ Copies(l)' \subseteq {None}
      BY <1>2, <2>1, CrashReads, RecoveredTells DEF LoopAgrees
    <3>2. loops'[l] # None => None \notin Copies(l)' /\ Show(l, Early \cup {loops[l].status})'
      BY CrashReads, RecoveredTells DEF Show, Early
    <3>3. exec'[l].at \in Gone
      BY <1>2 DEF Gone
    <3>4. QED
      BY <1>2, <1>3, <1>4, <3>1, <3>2, <3>3 DEF LoopAgrees
  <2>3. SinceAgrees(l)'
    BY <1>3 DEF SinceAgrees
  <2>4. ASSUME NEW s \in Stops PROVE HeardAgrees(s, l)' /\ UnheardAgrees(s, l)'
    BY <1>1, <1>6 DEF HeardAgrees, UnheardAgrees
  <2>5. ASSUME NEW s \in Stops PROVE DoneAgrees(s, l)'
    <3> SUFFICES ASSUME stop'[s].loop = l, stop'[s].at = "done", stop'[s].heard, stop'[s].told # "error"
                 PROVE  /\ exec'[l].at \in Gone \ {"new"}
                        /\ loops'[l] = None \/ loops'[l].status \in {stop'[s].told, "stopped"}
                        /\ Show(l, Early \cup {stop[s].told})'
      BY DEF DoneAgrees
    <3>1. stop'[s] = stop[s]
      BY <1>1
    <3>2. exec[l].at # "new" /\ Show(l, Early \cup {stop[s].told})
      BY <2>1, <3>1 DEF DoneAgrees
    <3>3. exec'[l].at \in Gone \ {"new"}
      BY <1>2, <3>2 DEF Gone
    <3>4. CASE file' = Torn
      BY <3>3, <3>4, CrashReads DEF Show
    <3>5. CASE file' # Torn
      <4>1. file'[l] = None \/ file'[l].status \in Early \cup {stop[s].told}
        BY <3>2, <3>5, CrashReads DEF Show
      <4>2. QED
        BY <3>1, <3>3, <3>5, <4>1, CrashReads, RecoveredTells DEF Show, Early
    <3>6. QED
      BY <3>4, <3>5
  <2>6. QED
    BY <2>2, <2>3, <2>4, <2>5 DEF LoopInv
<1>8. QED
  BY <1>5, <1>7 DEF StopInv, LoopInv

LEMMA StopInit == Init => StopInv
<1> SUFFICES ASSUME Init PROVE StopInv
  OBVIOUS
<1>1. \A s \in Stops : stop[s].at = "new" /\ ~stop[s].heard
  BY DEF Init
<1>2. \A l \in Loops : exec[l].at = "new" /\ ~aborted[l] /\ since[l] = 0 /\ loops[l] = None /\ file[l] = None
  BY DEF Init
<1>3. writing = None
  BY DEF Init
<1>4. \A s \in Stops : CallAgrees(s) /\ ~Live(s)
  BY <1>1 DEF CallAgrees, Live, Signalled
<1>5. ASSUME NEW l \in Loops PROVE LoopInv(l)
  <2>1. Copies(l) \subseteq {None}
    BY <1>2, <1>3 DEF Copies
  <2>2. LoopAgrees(l) /\ SinceAgrees(l)
    BY <1>2, <2>1 DEF LoopAgrees, SinceAgrees, Gone
  <2>3. \A s \in Stops : HeardAgrees(s, l) /\ UnheardAgrees(s, l) /\ DoneAgrees(s, l)
    BY <1>1, <1>4 DEF HeardAgrees, UnheardAgrees, DoneAgrees
  <2>4. QED
    BY <2>2, <2>3 DEF LoopInv
<1>6. QED
  BY <1>4, <1>5 DEF StopInv, LoopInv

LEMMA StopNext == Inv /\ StopInv /\ [Next]_vars => StopInv'
<1> SUFFICES ASSUME Inv, StopInv, [Next]_vars PROVE StopInv'
  OBVIOUS
<1>1. ASSUME NEW l \in Loops, Works(l) \/ RunEnds(l) \/ CheckEnds(l) PROVE StopInv'
  BY <1>1, StopTurn, IterateTurns, MovesTurn, WakeTurns, MadeTurns, WorkerEndsTurns, ClosedTurns,
     TurnsTurn DEF Works, RunEnds
<1>2. ASSUME NEW s \in Stops, StopGoes(s) PROVE StopInv'
  BY <1>2, StopSignal, StopCanceled, StopStopped, StopMark, StopMarked DEF StopGoes
<1>3. ASSUME UNCHANGED vars PROVE StopInv'
  <2>1. UNCHANGED <<loops, file, queue, writing, exec, aborted, stop, since, failures>>
    BY <1>3 DEF vars
  <2>2. Holds("log") /\ Sheds
    BY <2>1, SameSheds DEF Holds
  <2>3. \A z \in Stops : Went(z, "log")
    BY <2>1, NamesDiffer DEF Went
  <2>4. QED
    BY <2>1, <2>2, <2>3, CallSettles
<1>4. QED
  BY <1>1, <1>2, <1>3, StopRun, StopStop, StopLogs, StopWriteFails, StopBeginWrite, StopCrash DEF Next

\* However calls of stopLoop, executors, the writes of loops.json and restarts
\* interleave: a call that found its loop running is ahead, in the queue of
\* writes, of any iteration that began after it; and what is stored of a loop
\* tells the outcome its record tells, or that of an earlier time.
THEOREM StopInvariant == Spec => [](Inv /\ StopInv)
  BY InvInit, InvNext, StopInit, StopNext, PTL DEF Spec

\* Once stopLoop has returned for a loop it found running, nothing of the loop
\* runs any more, and no restart, no write that was on its way and no other
\* call makes it run or tell another outcome than the one returned, but that
\* it was stopped.
THEOREM StopsAreFinal == Spec => []StopHolds
<1>1. Inv /\ StopInv => StopHolds
  <2> SUFFICES ASSUME StopInv, NEW s \in Stops,
                      stop[s].at = "done", stop[s].heard, stop[s].told # "error"
               PROVE  /\ ~AtWork(stop[s].loop)
                      /\ \/ loops[stop[s].loop] = None
                         \/ loops[stop[s].loop].status \in {stop[s].told, "stopped"}
    BY DEF StopHolds
  <2>1. stop[s].loop \in Loops
    BY DEF StopInv, CallAgrees
  <2>2. DoneAgrees(s, stop[s].loop)
    BY <2>1 DEF StopInv
  <2>3. QED
    BY <2>2 DEF DoneAgrees, AtWork
<1>2. QED
  BY <1>1, StopInvariant, PTL

\* Only the head of the for loop begins an iteration, of a loop that is not told
\* to stop.
LEMMA BeginsUnasked ==
    ASSUME Inv, [Next]_vars, NEW l \in Loops, exec'[l].at = "begun", exec[l].at # "begun"
    PROVE  exec[l].at \notin Gone /\ ~aborted[l]
<1>1. exec \in [Loops -> Executor]
  BY DEF Inv, TypeOK
<1>2. ASSUME NEW d \in Loops, NEW e, NEW r, Goes(d, e, r), l # d \/ e.at # "begun" PROVE FALSE
  <2>1. exec' = [exec EXCEPT ![d] = e]
    BY <1>2 DEF Goes
  <2>2. exec'[l] = IF l = d THEN e ELSE exec[l]
    BY <1>1, <2>1
  <2>3. QED
    BY <1>2, <2>2
<1>3. ASSUME NEW d \in Loops, NEW at, NEW r, To(d, at, r), at # "begun" PROVE FALSE
  <2>1. [exec[d] EXCEPT !.at = at].at = at
    BY <1>1 DEF Executor
  <2>2. QED
    BY <1>2, <1>3, <2>1 DEF To
<1>4. ASSUME NEW d \in Loops, NEW r, NEW status, Fails(d, r, status) \/ Ends(d, r, status) PROVE FALSE
  BY <1>3, <1>4 DEF Fails, Ends
<1>5. ASSUME NEW d \in Loops, Iterate(d) PROVE exec[l].at \notin Gone /\ ~aborted[l]
  <2>1. ~aborted[d] /\ Begins(d, loops[d])
    BY <1>4, <1>5 DEF Iterate, NextIteration
  <2>2. l = d
    BY <1>2, <2>1 DEF Begins
  <2>3. exec[d].at \in {"creating", "asleep", "deaf", "settled"}
    BY <1>5 DEF Iterate, At
  <2>4. QED
    BY <2>1, <2>2, <2>3 DEF Gone
<1>6. ASSUME NEW d \in Loops, NEW r, NEW left, Verifies(d, r, left) PROVE FALSE
  <2>1. CASE Goes(d, [exec[d] EXCEPT !.at = "checking", !.left = left], r)
    <3>1. [exec[d] EXCEPT !.at = "checking", !.left = left].at = "checking"
      BY <1>1 DEF Executor
    <3>2. QED
      BY <1>2, <2>1, <3>1
  <2>2. QED
    BY <1>3, <1>4, <1>6, <2>1 DEF Verifies, Succeeds
<1>7. ASSUME NEW d \in Loops,
             \/ Run(d) \/ Doze(d) \/ Sleep(d) \/ WakeAborted(d) \/ MakeWorker(d) \/ WorkerMade(d)
             \/ RunWorker(d) \/ CloseWorker(d) \/ CloseVerifier(d) \/ VerifierMade(d) \/ Failed(d)
      PROVE  FALSE
  BY <1>3, <1>4, <1>7 DEF Run, Doze, Sleep, WakeAborted, MakeWorker, WorkerMade, RunWorker,
                          CloseWorker, CloseVerifier, VerifierMade, Failed
<1>8. ASSUME NEW d \in Loops, NEW outcome, WorkerEnds(d, outcome) PROVE FALSE
  BY <1>3, <1>8 DEF WorkerEnds
<1>9. ASSUME NEW d \in Loops, WorkerClosed(d) \/ VerifierClosed(d) \/ Checked(d) PROVE FALSE
  BY <1>3, <1>4, <1>6, <1>9 DEF WorkerClosed, VerifierClosed, Checked, Settles, Succeeds
<1>10. ASSUME NEW d \in Loops, CheckEnds(d) \/ RunVerifier(d) \/ VerifierAnswers(d) \/ VerifierRetries(d)
       PROVE  FALSE
  <2>1. \A verdict : /\ [exec[d] EXCEPT !.at = "checked", !.verdict = verdict].at = "checked"
                     /\ [exec[d] EXCEPT !.at = "verified", !.verdict = verdict].at = "verified"
    BY <1>1 DEF Executor
  <2>2. [exec[d] EXCEPT !.at = "verifying", !.retries = 0].at = "verifying"
    BY <1>1 DEF Executor
  <2>3. ASSUME VerifierRetries(d) PROVE FALSE
    <3>1. PICK e : e = [exec[d] EXCEPT !.retries = exec[d].retries + 1]
      OBVIOUS
    <3>2. Goes(d, e, loops[d]) /\ exec[d].at = "verifying" /\ e.at = exec[d].at
      BY <1>1, <2>3, <3>1 DEF VerifierRetries, At, Executor
    <3>3. QED
      BY <1>2, <3>2
  <2>4. QED
    BY <1>2, <1>10, <2>1, <2>2, <2>3 DEF CheckEnds, RunVerifier, VerifierAnswers
<1>11. ASSUME exec' = exec PROVE FALSE
  BY <1>11
<1>12. ASSUME WriteFails PROVE FALSE
  <2>1. CASE \E d \in Loops : ExecutorHurt(d)
    BY <1>3, <1>4, <2>1 DEF ExecutorHurt
  <2>2. QED
    BY <1>11, <1>12, <2>1 DEF WriteFails, StopHurt
<1>13. ASSUME Crash PROVE FALSE
  <2>1. \A e \in Executor :
          [e EXCEPT !.at = IF e.at = "new" THEN e.at ELSE "lost", !.index = 0, !.left = 0,
                    !.retries = 0, !.verdict = "none"].at \in {"new", "lost"}
    BY DEF Executor
  <2>2. exec'[l].at \in {"new", "lost"}
    BY <1>1, <1>13, <2>1 DEF Crash
  <2>3. QED
    BY <2>2
<1>14. ASSUME NEW s \in Stops, StopGoes(s) PROVE FALSE
  BY <1>11, <1>14 DEF StopGoes, Signal, Canceled, Stopped, Mark, Marked
<1>15. ASSUME \/ BeginWrite \/ LogWritten \/ UNCHANGED vars
              \/ \E d \in Loops : StreamLog(d) \/ \E s \in Stops : Stop(s, d)
       PROVE  FALSE
  BY <1>11, <1>15 DEF BeginWrite, LogWritten, vars, StreamLog, Stop
<1>16. QED
  BY <1>5, <1>7, <1>8, <1>9, <1>10, <1>12, <1>13, <1>14, <1>15 DEF Next, Works, RunEnds

\* At most one more iteration of a loop begins after stopLoop was asked to
\* stop it, while the request is being written; and none once it is written,
\* for then the signal is set that the head of the for loop looks at.
THEOREM StopsAreSoon == Spec => StopsSoon
<1>1. ASSUME Inv, StopInv, StopInv', [Next]_vars,
             NEW l \in Loops, exec'[l].at = "begun", exec[l].at # "begun"
      PROVE  /\ since'[l] <= 1
             /\ \A s \in Stops : stop[s].loop = l /\ stop[s].heard =>
                    stop[s].at \in {"asked", "lost"} \/ stop[s].told = "error"
  <2>1. since'[l] <= 1
    BY <1>1 DEF StopInv, SinceAgrees
  <2>2. exec[l].at \notin Gone /\ ~aborted[l]
    BY <1>1, BeginsUnasked
  <2>3. ASSUME NEW s \in Stops, stop[s].loop = l, stop[s].heard, stop[s].told # "error"
        PROVE  stop[s].at \in {"asked", "lost"}
    <3>1. stop[s] \in Call
      BY <1>1 DEF Inv, TypeOK
    <3>2. CallAgrees(s) /\ DoneAgrees(s, l)
      BY <1>1 DEF StopInv
    <3>3. stop[s].at \notin {"new", "marking"} \cup Signalled
      BY <2>2, <2>3, <3>2 DEF CallAgrees
    <3>4. stop[s].at # "done"
      BY <2>2, <2>3, <3>2 DEF DoneAgrees
    <3>5. QED
      BY <3>1, <3>3, <3>4 DEF Call, Signalled
  <2>4. QED
    BY <2>1, <2>3
<1>2. Inv /\ StopInv /\ StopInv' /\ [Next]_vars =>
        \A l \in Loops : exec'[l].at = "begun" /\ exec[l].at # "begun" =>
          /\ since'[l] <= 1
          /\ \A s \in Stops : stop[s].loop = l /\ stop[s].heard =>
                 stop[s].at \in {"asked", "lost"} \/ stop[s].told = "error"
  BY <1>1
<1>3. QED
  BY <1>2, StopInvariant, PTL DEF Spec, StopsSoon

\* As long as no write has failed, initialize finds every loop whose creation
\* runLoop has awaited, unless the process ended in the middle of a write: no
\* loop runs, and none tells an outcome it had not reached, but that it was
\* stopped.
THEOREM RestartsAreHonest == Spec => RestartIsHonest
<1>1. ASSUME Inv, StopInv, Crash, file' # Torn, failures = 0,
             NEW l \in Loops, exec[l].at \notin {"new", "creating"}, loops[l] # None
      PROVE  /\ loops'[l] # None
             /\ loops'[l].status # "running"
             /\ Unheard(l) \/ loops'[l].status \in {loops[l].status, "stopped"}
  <2>1. LoopAgrees(l)
    BY <1>1 DEF StopInv
  <2>2. file'[l] \in Copies(l) /\ file'[l] \in Record \cup {None} /\ loops'[l] = Recovered(file'[l])
    BY <1>1, CrashReads
  <2>3. file'[l] # None
    BY <1>1, <2>1, <2>2 DEF LoopAgrees
  <2>4. Missed(l) => Unheard(l)
    BY DEF Missed, Unheard
  <2>5. Unheard(l) \/ file'[l].status \in Early \cup {loops[l].status}
    BY <1>1, <2>1, <2>2, <2>3, <2>4 DEF LoopAgrees, Show
  <2>6. QED
    BY <2>2, <2>3, <2>5, RecoveredTells DEF Early
<1>2. ASSUME Inv, [Next]_vars, phase' = "starting", phase # "starting" \/ crashes' # crashes
      PROVE  Crash
  <2>1. CASE Next
    <3>1. SUFFICES ASSUME ~Crash PROVE phase' # "starting" \/ (phase = "starting" /\ crashes' = crashes)
      BY <1>2
    <3>2. ASSUME NEW l \in Loops, Works(l) \/ RunEnds(l) \/ CheckEnds(l)
          PROVE  UNCHANGED <<phase, crashes>>
      BY <3>2 DEF Works, RunEnds, CheckEnds, Iterate, Doze, Sleep, WakeAborted, MakeWorker, WorkerMade,
                  RunWorker, CloseWorker, WorkerClosed, Checked, VerifierMade, RunVerifier, CloseVerifier,
                  VerifierClosed, Failed, WorkerEnds, VerifierAnswers, VerifierRetries, At
    <3>3. ASSUME NEW l \in Loops, Run(l) \/ StreamLog(l) \/ \E s \in Stops : Stop(s, l)
          PROVE  UNCHANGED <<phase, crashes>>
      BY <3>3 DEF Run, StreamLog, Stop
    <3>4. ASSUME NEW s \in Stops, StopGoes(s) PROVE UNCHANGED <<phase, crashes>>
      BY <3>4 DEF StopGoes, Signal, Canceled, Stopped, Mark, Marked
    <3>5. ASSUME BeginWrite \/ LogWritten \/ WriteFails
          PROVE  crashes' = crashes /\ phase' \in {phase, "up", "crashing"}
      BY <3>5 DEF BeginWrite, LogWritten, WriteFails, ExecutorHurt, StopHurt
    <3>6. QED
      BY <2>1, <3>1, <3>2, <3>3, <3>4, <3>5 DEF Next
  <2>2. CASE UNCHANGED vars
    BY <1>2, <2>2 DEF vars
  <2>3. QED
    BY <1>2, <2>1, <2>2
<1>3. Inv /\ StopInv /\ [Next]_vars =>
        (phase' = "starting" /\ (phase # "starting" \/ crashes' # crashes) /\ file' # Torn /\ failures = 0 =>
           \A l \in Loops : exec[l].at \notin {"new", "creating"} /\ loops[l] # None =>
             /\ loops'[l] # None
             /\ loops'[l].status # "running"
             /\ Unheard(l) \/ loops'[l].status \in {loops[l].status, "stopped"})
  BY <1>1, <1>2
<1>4. QED
  BY <1>3, StopInvariant, PTL DEF Spec, RestartIsHonest
=============================================================================
