------------------------------- MODULE Loops -------------------------------
(***************************************************************************)
(* Loops: LoopService (server/loop-service.ts) runs a worker agent again   *)
(* and again until shell checks and a verifier agent accept its work.      *)
(*                                                                         *)
(* executeLoop is one asynchronous function per loop, the executor here:   *)
(* an action is what it does synchronously between two awaits.  Most of    *)
(* its awaits are of persist, which queues a write of all loops into one   *)
(* file: a write takes the records as they are when it begins, and is not  *)
(* atomic.  When a write ends, the caller that awaits it goes on before    *)
(* the next one begins.  Any write may fail, and the daemon may stop at    *)
(* any step.                                                               *)
(*                                                                         *)
(* External: the agents (module AgentRuns), the shell commands of the      *)
(* checks, the file system.  Of an iteration only the last is kept; the    *)
(* logs are not.                                                           *)
(***************************************************************************)
EXTENDS Naturals, Sequences

CONSTANTS
    Loops, Stops,   \* loops, and calls of stopLoop
    None, Torn,     \* no record; a file that cannot be parsed
    Terms,          \* what a loop may be asked for, see TermsAssumption
    MaxRetries,     \* maxRetries of the verifier's answer
    MaxFailures,    \* bound: writes that fail
    MaxCrashes      \* bound: stops of the daemon from outside

\* limit: maxIterations, 0 for none; checks: verifyChecks; prompt: verifyPrompt
\* is given; timed: maxTimeMs is given; sleeps: sleepMs > 0.
ASSUME TermsAssumption ==
    /\ Terms \subseteq [limit: Nat, checks: Nat, prompt: BOOLEAN, timed: BOOLEAN, sleeps: BOOLEAN]
    /\ \A t \in Terms : t.prompt \/ t.checks > 0
ASSUME BoundsAssumption == {MaxRetries, MaxFailures, MaxCrashes} \subseteq Nat
ASSUME NamesAssumption == Loops \cap Stops = {} /\ {"log", "init"} \cap (Loops \cup Stops) = {}

VARIABLES
    terms,      \* what each loop was asked for
    loops,      \* the records in memory
    file,       \* loops.json
    queue,      \* persistQueue: who awaits a write; a loop stands for its executor
    writing,    \* the records the first write of the queue has taken, or None
    exec,       \* the executor of each loop
    aborted,    \* signal.aborted of each loop
    canceled,   \* the run in progress of each loop was made to end
    open,       \* the agents of each loop that are open, see Agents
    stop,       \* the calls of stopLoop
    since,      \* iterations begun since the last stop was asked, up to two
    phase,      \* "crashing": a rejection nobody handles will end the process
    failures, crashes

vars == <<terms, loops, file, queue, writing, exec, aborted, canceled, open,
          stop, since, phase, failures, crashes>>

Statuses == {"running", "succeeded", "failed", "stopped"}
Outcomes == {"none", "completed", "failed", "canceled"}
Verdicts == {"none", "passed", "rejected", "threw"}

\* The worker and the verifier in use, and those whose closing threw.
Agents == {"worker", "verifier", "unclosed"}

\* LoopRecord: asked is stopRequestedAt; active, worker and verifier say
\* whether activeIteration and the ids of the active agents are set; last is
\* the status of the last iteration and outcome its workerOutcome.
Record == [status: Statuses, asked: BOOLEAN, active: BOOLEAN, worker: BOOLEAN,
           verifier: BOOLEAN, last: Statuses \cup {"none"}, outcome: Outcomes]

ASSUME NoneAssumption == None \notin Record

\* Where the executor awaits a write, and where it awaits something else.
Saving == {"creating", "begun", "made", "worked", "checked", "madeVerifier", "verified",
           "settled", "dozing", "failing"}
Waiting == {"making", "working", "closing", "checking", "makingVerifier", "verifying",
            "closingVerifier", "asleep", "deaf"}
Gone == {"new", "refused", "over", "lost"}

\* index: the iteration; left: the checks still to run; retries: of the
\* verifier; verdict: of the check or the verifier that ended last.
Executor == [at: Saving \cup Waiting \cup Gone, index: Nat, left: Nat, retries: Nat,
             verdict: Verdicts]

\* heard: the call found the loop in the running map; told: what it returned.
Call == [at: {"new", "asked", "marking", "cancelingWorker", "cancelingVerifier", "awaiting",
              "done", "lost"},
         loop: Loops \cup {None}, heard: BOOLEAN, told: Statuses \cup {"none", "error"}]

AtWork(l) == exec[l].at \notin Gone
Running(l) == AtWork(l) /\ exec[l].at # "creating"

Init ==
    /\ terms \in [Loops -> Terms]
    /\ loops = [l \in Loops |-> None] /\ file = loops
    /\ queue = <<>> /\ writing = None
    /\ exec = [l \in Loops |->
                 [at |-> "new", index |-> 0, left |-> 0, retries |-> 0, verdict |-> "none"]]
    /\ aborted = [l \in Loops |-> FALSE] /\ canceled = aborted
    /\ open = [l \in Loops |-> {}]
    /\ stop = [s \in Stops |-> [at |-> "new", loop |-> None, heard |-> FALSE, told |-> "none"]]
    /\ since = [l \in Loops |-> 0]
    /\ phase = "up" /\ failures = 0 /\ crashes = 0

-----------------------------------------------------------------------------
(* persist *)

\* Mutant: a loop is written when it has ended.
BeginWriteEnded ==
    /\ queue # <<>> /\ writing = None
    /\ writing' = [l \in Loops |-> IF loops[l] # None /\ loops[l].status = "running"
                                   THEN file[l] ELSE loops[l]]
    /\ UNCHANGED <<terms, loops, file, queue, exec, aborted, canceled, open, stop, since,
                   phase, failures, crashes>>

\* The directory is there, and the write takes the records.
BeginWrite ==
    /\ queue # <<>> /\ writing = None
    /\ writing' = loops
    /\ UNCHANGED <<terms, loops, file, queue, exec, aborted, canceled, open, stop, since,
                   phase, failures, crashes>>

\* The write w awaits has ended well.
Written(w) ==
    /\ writing # None /\ Head(queue) = w
    /\ file' = writing /\ writing' = None

\* The executor of l, wherever it is, goes on.
Resumes(l) == IF exec[l].at \in Saving THEN Written(l) ELSE UNCHANGED <<file, writing>>

\* It goes on with record r until its next await, e.at.
Goes(l, e, r) ==
    LET rest == IF exec[l].at \in Saving THEN Tail(queue) ELSE queue
    IN /\ exec' = [exec EXCEPT ![l] = e]
       /\ loops' = [loops EXCEPT ![l] = r]
       /\ queue' = IF e.at \in Saving THEN Append(rest, l) ELSE rest

To(l, at, r) == Goes(l, [exec[l] EXCEPT !.at = at], r)

-----------------------------------------------------------------------------
(* What the executor does between two awaits *)

Inactive(r) == [r EXCEPT !.active = FALSE, !.worker = FALSE, !.verifier = FALSE]

\* finishLoop
Finish(r, status) == [Inactive(r) EXCEPT !.status = status]

\* handleExecuteLoopError: it looks for the active iteration after finishLoop
\* has reset it, finds none, and leaves the iteration as it is.
Fails(l, r, status) == To(l, "failing", Finish(r, status))

\* executeLoop returns after finishLoop: this is not written.
Ends(l, r, status) == To(l, "over", Finish(r, status))

\* A stop that found l running is under way.
Asked(l) == \E s \in Stops : stop[s].loop = l /\ stop[s].heard /\ stop[s].at \notin {"done", "lost"}

Begins(l, r) ==
    /\ Goes(l, [exec[l] EXCEPT !.at = "begun", !.index = IF terms[l].limit = 0 THEN 1 ELSE @ + 1,
                               !.verdict = "none"],
            [r EXCEPT !.last = "running", !.active = TRUE, !.outcome = "none"])
    /\ since' = [since EXCEPT ![l] = IF @ < 2 /\ Asked(l) THEN @ + 1 ELSE @]

\* Mutant: the head of the for loop does not look at the signal.
NextIterationDeaf(l, r) ==
    \/ /\ \/ terms[l].limit # 0 /\ exec[l].index = terms[l].limit
          \/ terms[l].timed
       /\ Ends(l, r, "failed") /\ UNCHANGED since
    \/ /\ terms[l].limit = 0 \/ exec[l].index < terms[l].limit
       /\ Begins(l, r)

\* The head of the for loop.  Date.now() may be past the deadline at any time.
NextIteration(l, r) ==
    \/ /\ aborted[l]
       /\ Fails(l, r, "stopped") /\ UNCHANGED since
    \/ /\ ~aborted[l]
       /\ \/ terms[l].limit # 0 /\ exec[l].index = terms[l].limit
          \/ terms[l].timed
       /\ Ends(l, r, "failed") /\ UNCHANGED since
    \/ /\ ~aborted[l]
       /\ terms[l].limit = 0 \/ exec[l].index < terms[l].limit
       /\ Begins(l, r)

\* The iteration is over and the loop goes on.
Settles(l, r) == To(l, "settled", Inactive(r))

Rejected(r) == [r EXCEPT !.last = IF @ = "running" THEN "failed" ELSE @]

Succeeds(l, r) == Ends(l, [r EXCEPT !.last = "succeeded"], "succeeded")

\* Mutant: the number of checks left is decreased twice.
VerifiesTwice(l, r, left) ==
    \/ left # 0 /\ aborted[l] /\ Fails(l, r, "stopped")
    \/ left # 0 /\ ~aborted[l] /\ Goes(l, [exec[l] EXCEPT !.at = "checking", !.left = left - 1], r)
    \/ left = 0 /\ terms[l].prompt /\ To(l, "makingVerifier", r)
    \/ left = 0 /\ ~terms[l].prompt /\ Succeeds(l, r)

\* runVerification with some checks left.
Verifies(l, r, left) ==
    \/ left > 0 /\ aborted[l] /\ Fails(l, r, "stopped")
    \/ left > 0 /\ ~aborted[l] /\ Goes(l, [exec[l] EXCEPT !.at = "checking", !.left = left], r)
    \/ left = 0 /\ terms[l].prompt /\ To(l, "makingVerifier", r)
    \/ left = 0 /\ ~terms[l].prompt /\ Succeeds(l, r)

-----------------------------------------------------------------------------
(* The executor *)

Up == phase # "starting"

\* runLoop, up to its first persist.
Run(l) ==
    /\ Up /\ exec[l].at = "new"
    /\ To(l, "creating", [status |-> "running", asked |-> FALSE, active |-> FALSE,
                          worker |-> FALSE, verifier |-> FALSE, last |-> "none",
                          outcome |-> "none"])
    /\ UNCHANGED <<terms, file, writing, aborted, canceled, open, stop, since, phase,
                   failures, crashes>>

\* A step at the given place: everything but what Goes and NextIteration set.
At(l, at) ==
    /\ Up /\ exec[l].at = at /\ Resumes(l)
    /\ UNCHANGED <<terms, stop, phase, failures, crashes>>

\* The loop is in the file, and starts; an iteration is over, without or after
\* its sleep.
Iterate(l) ==
    /\ \/ At(l, "creating") \/ At(l, "asleep") \/ At(l, "deaf")
       \/ At(l, "settled") /\ ~terms[l].sleeps
    /\ NextIteration(l, loops[l])
    /\ UNCHANGED <<aborted, canceled, open>>

Doze(l) ==
    /\ At(l, "settled") /\ terms[l].sleeps
    /\ To(l, "dozing", loops[l])
    /\ UNCHANGED <<aborted, canceled, open, since>>

\* sleepWithAbort listens for an abort that is still to come.
Sleep(l) ==
    /\ At(l, "dozing")
    /\ To(l, IF aborted[l] THEN "deaf" ELSE "asleep", loops[l])
    /\ UNCHANGED <<aborted, canceled, open, since>>

WakeAborted(l) ==
    /\ At(l, "asleep") /\ aborted[l]
    /\ Fails(l, loops[l], "stopped")
    /\ UNCHANGED <<aborted, canceled, open, since>>

MakeWorker(l) ==
    /\ At(l, "begun")
    /\ To(l, "making", loops[l])
    /\ UNCHANGED <<aborted, canceled, open, since>>

\* createAgent of the worker resolves, or throws out of the iteration.
WorkerMade(l) ==
    /\ At(l, "making")
    /\ \/ /\ To(l, "made", [loops[l] EXCEPT !.worker = TRUE])
          /\ open' = [open EXCEPT ![l] = @ \cup {"worker"}]
       \/ Fails(l, loops[l], "failed") /\ UNCHANGED open
    /\ UNCHANGED <<aborted, canceled, since>>

RunWorker(l) ==
    /\ At(l, "made")
    /\ To(l, "working", loops[l])
    /\ UNCHANGED <<aborted, canceled, open, since>>

\* Mutant: the worker is asked again when its run was canceled.
WorkerEndsRetried(l, outcome) ==
    /\ At(l, "working") /\ outcome \in Outcomes \ {"none"}
    /\ To(l, IF outcome = "canceled" THEN "working" ELSE "worked",
          [loops[l] EXCEPT !.outcome = outcome, !.worker = outcome = "canceled"])
    /\ canceled' = [canceled EXCEPT ![l] = FALSE]
    /\ UNCHANGED <<aborted, open, since>>

\* runAgent of the worker returns or throws, canceled or not.
WorkerEnds(l, outcome) ==
    /\ At(l, "working") /\ outcome \in Outcomes \ {"none"}
    /\ To(l, "worked", [loops[l] EXCEPT !.outcome = outcome, !.worker = FALSE,
                                        !.last = IF outcome = "canceled" THEN "stopped" ELSE @])
    /\ canceled' = [canceled EXCEPT ![l] = FALSE]
    /\ UNCHANGED <<aborted, open, since>>

CloseWorker(l) ==
    /\ At(l, "worked")
    /\ To(l, "closing", loops[l])
    /\ UNCHANGED <<aborted, canceled, open, since>>

\* What runWorkerIteration returns.
Passed(r) == r.outcome = "completed"

\* archiveAgent or closeAgent has returned.  Or it has thrown, which nobody is
\* told of, and the agent may be open for as long as the daemon runs.
Closed(l, agent) ==
    \/ open' = [open EXCEPT ![l] = @ \ {agent}]
    \/ open' = [open EXCEPT ![l] = (@ \ {agent}) \cup {"unclosed"}]

\* The rest of the finally block, and executeLoop up to the first check.
WorkerClosed(l) ==
    /\ At(l, "closing")
    /\ Closed(l, "worker")
    /\ LET r == loops[l]
       IN \/ /\ aborted[l]
             /\ Fails(l, [r EXCEPT !.last = IF @ = "running" THEN "stopped" ELSE @], "stopped")
          \/ /\ ~aborted[l] /\ ~Passed(r)
             /\ Settles(l, Rejected(r))
          \/ /\ ~aborted[l] /\ Passed(r)
             /\ Verifies(l, r, terms[l].checks)
    /\ UNCHANGED <<aborted, canceled, since>>

\* runVerifyCheck: nothing aborts the command or limits its time.
CheckEnds(l) ==
    /\ At(l, "checking")
    /\ \E verdict \in {"passed", "rejected"} :
         Goes(l, [exec[l] EXCEPT !.at = "checked", !.verdict = verdict], loops[l])
    /\ UNCHANGED <<aborted, canceled, open, since>>

Checked(l) ==
    /\ At(l, "checked")
    /\ \/ exec[l].verdict = "passed" /\ Verifies(l, loops[l], exec[l].left - 1)
       \/ exec[l].verdict = "rejected" /\ Settles(l, Rejected(loops[l]))
    /\ UNCHANGED <<aborted, canceled, open, since>>

VerifierMade(l) ==
    /\ At(l, "makingVerifier")
    /\ \/ /\ To(l, "madeVerifier", [loops[l] EXCEPT !.verifier = TRUE])
          /\ open' = [open EXCEPT ![l] = @ \cup {"verifier"}]
       \/ Fails(l, loops[l], "failed") /\ UNCHANGED open
    /\ UNCHANGED <<aborted, canceled, since>>

RunVerifier(l) ==
    /\ At(l, "madeVerifier")
    /\ Goes(l, [exec[l] EXCEPT !.at = "verifying", !.retries = 0], loops[l])
    /\ UNCHANGED <<aborted, canceled, open, since>>

\* A run of the verifier ends, canceled or not, with an answer that can be
\* read, or it throws, or getStructuredAgentResponse gives up.
VerifierAnswers(l) ==
    /\ At(l, "verifying")
    /\ \E verdict \in Verdicts \ {"none"} :
         Goes(l, [exec[l] EXCEPT !.at = "verified", !.verdict = verdict],
              [loops[l] EXCEPT !.verifier = FALSE])
    /\ canceled' = [canceled EXCEPT ![l] = FALSE]
    /\ UNCHANGED <<aborted, open, since>>

\* It ends with an answer that cannot be read, and is asked again.
VerifierRetries(l) ==
    /\ At(l, "verifying") /\ exec[l].retries < MaxRetries
    /\ Goes(l, [exec[l] EXCEPT !.retries = @ + 1], loops[l])
    /\ canceled' = [canceled EXCEPT ![l] = FALSE]
    /\ UNCHANGED <<aborted, open, since>>

CloseVerifier(l) ==
    /\ At(l, "verified")
    /\ To(l, "closingVerifier", loops[l])
    /\ UNCHANGED <<aborted, canceled, open, since>>

\* runVerification returns or throws; the abort signal is not looked at.
VerifierClosed(l) ==
    /\ At(l, "closingVerifier")
    /\ Closed(l, "verifier")
    /\ \/ exec[l].verdict = "passed" /\ Succeeds(l, loops[l])
       \/ exec[l].verdict = "rejected" /\ Settles(l, Rejected(loops[l]))
       \/ exec[l].verdict = "threw" /\ Fails(l, loops[l], "failed")
    /\ UNCHANGED <<aborted, canceled, since>>

\* The error is written and the promise of executeLoop settles.
Failed(l) ==
    /\ At(l, "failing")
    /\ To(l, "over", loops[l])
    /\ UNCHANGED <<aborted, canceled, open, since>>

\* An event of a run is logged, and the write that follows awaited by nobody.
\* One of them in the queue is enough: more would write the same.
StreamLog(l) ==
    /\ Up /\ exec[l].at \in {"working", "verifying"}
    /\ \A i \in DOMAIN queue : queue[i] # "log"
    /\ queue' = Append(queue, "log")
    /\ UNCHANGED <<terms, loops, file, writing, exec, aborted, canceled, open, stop, since,
                   phase, failures, crashes>>

\* A write nobody awaits ends, or initialize's.
LogWritten ==
    /\ \/ Written("log") /\ UNCHANGED phase
       \/ Written("init") /\ phase' = "up"
    /\ queue' = Tail(queue)
    /\ UNCHANGED <<terms, loops, exec, aborted, canceled, open, stop, since, failures, crashes>>

-----------------------------------------------------------------------------
(* stopLoop.  Of a loop that does not run it returns at once, and changes    *)
(* nothing: left out.                                                        *)

Stop(s, l) ==
    /\ Up /\ stop[s].at = "new" /\ loops[l] # None /\ loops[l].status = "running"
    /\ stop' = [stop EXCEPT ![s] = [@ EXCEPT !.at = "asked", !.loop = l, !.heard = Running(l)]]
    /\ since' = [since EXCEPT ![l] = 0]
    /\ loops' = [loops EXCEPT ![l].asked = TRUE]
    /\ queue' = Append(queue, s)
    /\ UNCHANGED <<terms, file, writing, exec, aborted, canceled, open, phase, failures, crashes>>

\* cancelAgentRun of the agent whose id the record shows.  A turn it finds in
\* the foreground it interrupts, and ends itself after two seconds.  A run that
\* has not begun it knows nothing of, and one that is still in startTurn it
\* interrupts, waits for, and leaves: nothing makes that run end.
Cancels(s, l, at) ==
    /\ stop' = [stop EXCEPT ![s].at = at]
    /\ \/ UNCHANGED canceled
       \/ /\ exec[l].at = IF at = "cancelingWorker" THEN "working" ELSE "verifying"
          /\ canceled' = [canceled EXCEPT ![l] = TRUE]

CancelsVerifier(s, l) ==
    \/ loops[l].verifier /\ Cancels(s, l, "cancelingVerifier")
    \/ ~loops[l].verifier /\ stop' = [stop EXCEPT ![s].at = "awaiting"] /\ UNCHANGED canceled

\* The request is written: the signal, and the first cancellation.
Signal(s) ==
    LET l == stop[s].loop IN
    /\ stop[s].at = "asked" /\ stop[s].heard /\ Written(s)
    /\ aborted' = [aborted EXCEPT ![l] = TRUE]
    /\ \/ loops[l].worker /\ Cancels(s, l, "cancelingWorker")
       \/ ~loops[l].worker /\ CancelsVerifier(s, l)
    /\ queue' = Tail(queue)
    /\ UNCHANGED <<terms, loops, exec, open, since, phase, failures, crashes>>

\* cancelAgentRun returns; it may give up before the run has ended.
Canceled(s) ==
    LET l == stop[s].loop IN
    /\ \/ stop[s].at = "cancelingWorker" /\ CancelsVerifier(s, l)
       \/ /\ stop[s].at = "cancelingVerifier"
          /\ stop' = [stop EXCEPT ![s].at = "awaiting"] /\ UNCHANGED canceled
    /\ UNCHANGED <<terms, loops, file, queue, writing, exec, aborted, open, since, phase,
                   failures, crashes>>

\* Mutant: the call does not await the executor.
StoppedAtOnce(s) ==
    LET l == stop[s].loop IN
    /\ stop[s].at = "awaiting"
    /\ stop' = [stop EXCEPT ![s].at = "done", ![s].told = loops[l].status]
    /\ UNCHANGED <<terms, loops, file, queue, writing, exec, aborted, canceled, open, since,
                   phase, failures, crashes>>

\* The promise of executeLoop has settled.
Stopped(s) ==
    LET l == stop[s].loop IN
    /\ stop[s].at = "awaiting" /\ ~AtWork(l)
    /\ stop' = [stop EXCEPT ![s].at = "done", ![s].told = loops[l].status]
    /\ UNCHANGED <<terms, loops, file, queue, writing, exec, aborted, canceled, open, since,
                   phase, failures, crashes>>

\* The loop was not in the running map when the call looked.
Mark(s) ==
    LET l == stop[s].loop IN
    /\ stop[s].at = "asked" /\ ~stop[s].heard /\ Written(s)
    /\ loops' = [loops EXCEPT ![l].status = "stopped"]
    /\ stop' = [stop EXCEPT ![s].at = "marking"]
    /\ queue' = Append(Tail(queue), s)
    /\ UNCHANGED <<terms, exec, aborted, canceled, open, since, phase, failures, crashes>>

Marked(s) ==
    /\ stop[s].at = "marking" /\ Written(s)
    /\ stop' = [stop EXCEPT ![s].at = "done", ![s].told = loops[stop[s].loop].status]
    /\ queue' = Tail(queue)
    /\ UNCHANGED <<terms, loops, exec, aborted, canceled, open, since, phase, failures, crashes>>

-----------------------------------------------------------------------------
(* Failing writes, and restarts *)

\* The persist of an executor throws: runLoop gives up and leaves the record;
\* executeLoop fails; and when the write of the failure fails, its promise is
\* rejected, which somebody must be awaiting.
ExecutorHurt(l) ==
    /\ \/ exec[l].at = "creating" /\ To(l, "refused", loops[l]) /\ UNCHANGED phase
       \/ /\ exec[l].at = "failing" /\ To(l, "over", loops[l])
          /\ phase' = IF \E s \in Stops : stop[s].loop = l /\ stop[s].at = "awaiting"
                      THEN phase ELSE "crashing"
       \/ /\ exec[l].at \notin {"creating", "failing"}
          /\ Fails(l, loops[l], "failed") /\ UNCHANGED phase
    /\ UNCHANGED stop

\* stopLoop throws, before it has signalled or after it has marked.
StopHurt(s) ==
    /\ stop' = [stop EXCEPT ![s].at = "done", ![s].told = "error"]
    /\ queue' = Tail(queue)
    /\ UNCHANGED <<loops, exec, phase>>

WriteFails ==
    /\ writing # None /\ failures < MaxFailures /\ failures' = failures + 1
    /\ file' \in {file, Torn} /\ writing' = None
    /\ \/ \E l \in Loops : Head(queue) = l /\ ExecutorHurt(l)
       \/ \E s \in Stops : Head(queue) = s /\ StopHurt(s)
       \/ /\ Head(queue) \in {"log", "init"} /\ queue' = Tail(queue)
          /\ phase' = IF Head(queue) = "log" THEN "crashing" ELSE phase
          /\ UNCHANGED <<loops, exec, stop>>
    /\ UNCHANGED <<terms, aborted, canceled, open, since, crashes>>

\* Mutant: a loop that was being stopped is not looked after.
RecoveredUnasked(r) ==
    IF r = None \/ r.status # "running" \/ r.asked THEN r
    ELSE [Inactive(r) EXCEPT !.status = "stopped", !.asked = TRUE,
                             !.last = IF @ = "running" THEN "stopped" ELSE @]

\* What initialize makes of a record.
Recovered(r) ==
    IF r = None \/ r.status # "running" THEN r
    ELSE [Inactive(r) EXCEPT !.status = "stopped", !.asked = TRUE,
                             !.last = IF @ = "running" THEN "stopped" ELSE @]

\* The process will end by itself: nobody handles a rejection, or initialize
\* has thrown.
Doomed == phase = "crashing" \/ (phase = "starting" /\ queue = <<>>)

\* The process ends, possibly in the middle of a write, and initialize reads
\* the file and queues a write of what it found; when that is nothing it can
\* parse, of no loops.
Crash ==
    /\ \/ Doomed /\ UNCHANGED crashes
       \/ ~Doomed /\ crashes < MaxCrashes /\ crashes' = crashes + 1
    /\ file' \in IF writing = None THEN {file} ELSE {file, Torn, writing}
    /\ loops' = [l \in Loops |-> IF file' = Torn THEN None ELSE Recovered(file'[l])]
    /\ phase' = "starting" /\ queue' = <<"init">> /\ writing' = None
    /\ exec' = [l \in Loops |-> [exec[l] EXCEPT !.at = IF @ = "new" THEN @ ELSE "lost",
                                                !.index = 0, !.left = 0, !.retries = 0,
                                                !.verdict = "none"]]
    /\ aborted' = [l \in Loops |-> FALSE] /\ canceled' = aborted'
    /\ open' = [l \in Loops |-> {}] /\ since' = [l \in Loops |-> 0]
    /\ stop' = [s \in Stops |-> IF stop[s].at \in {"new", "done"} THEN stop[s]
                                ELSE [stop[s] EXCEPT !.at = "lost"]]
    /\ UNCHANGED <<terms, failures>>

-----------------------------------------------------------------------------
\* What the service does by itself; the agents' runs and the commands are not
\* among it.
Works(l) ==
    \/ Iterate(l) \/ Doze(l) \/ Sleep(l) \/ WakeAborted(l)
    \/ MakeWorker(l) \/ WorkerMade(l) \/ RunWorker(l) \/ CloseWorker(l) \/ WorkerClosed(l)
    \/ Checked(l) \/ VerifierMade(l) \/ RunVerifier(l) \/ CloseVerifier(l) \/ VerifierClosed(l)
    \/ Failed(l)

RunEnds(l) ==
    (\E outcome \in Outcomes : WorkerEnds(l, outcome)) \/ VerifierAnswers(l) \/ VerifierRetries(l)

StopGoes(s) == Signal(s) \/ Canceled(s) \/ Stopped(s) \/ Mark(s) \/ Marked(s)

Next ==
    \/ \E l \in Loops : Run(l) \/ Works(l) \/ RunEnds(l) \/ CheckEnds(l) \/ StreamLog(l)
    \/ \E s \in Stops : StopGoes(s) \/ \E l \in Loops : Stop(s, l)
    \/ BeginWrite \/ LogWritten \/ WriteFails \/ Crash

Spec == Init /\ [][Next]_vars

\* Writes end, agents are created, closing one returns or throws, and a turn
\* that cancelAgentRun found in the foreground ends (AgentRuns, CancelFrees).
FairSpec ==
    /\ Spec
    /\ WF_vars(BeginWrite) /\ WF_vars(LogWritten) /\ WF_vars(Doomed /\ Crash)
    /\ \A l \in Loops : WF_vars(Works(l)) /\ WF_vars(canceled[l] /\ RunEnds(l))
    /\ \A s \in Stops : WF_vars(StopGoes(s))

-----------------------------------------------------------------------------
(* Properties *)

\* The records, the queue and the calls keep their shape.
TypeOK ==
    /\ terms \in [Loops -> Terms]
    /\ loops \in [Loops -> Record \cup {None}]
    /\ file \in [Loops -> Record \cup {None}] \cup {Torn}
    /\ queue \in Seq(Loops \cup Stops \cup {"log", "init"})
    /\ writing \in [Loops -> Record \cup {None}] \cup {None}
    /\ exec \in [Loops -> Executor]
    /\ {aborted, canceled} \subseteq [Loops -> BOOLEAN]
    /\ open \in [Loops -> SUBSET Agents]
    /\ stop \in [Stops -> Call]
    /\ since \in [Loops -> 0..2]
    /\ phase \in {"starting", "up", "crashing"}
    /\ {failures, crashes} \subseteq Nat

Ended(l) == loops[l] # None /\ loops[l].status # "running"

\* A stop that found the loop running, once it has returned, is the end of it:
\* nothing of the loop runs any more, and no restart, no write that was on its
\* way and no other call makes it run or tell another outcome.  (A loop that
\* is stopped before runLoop has registered it is marked as stopped, and runs
\* nevertheless.)
StopHolds ==
    \A s \in Stops : stop[s].at = "done" /\ stop[s].heard /\ stop[s].told # "error" =>
        LET l == stop[s].loop
        IN /\ ~AtWork(l)
           /\ loops[l] = None \/ loops[l].status \in {stop[s].told, "stopped"}

\* At most one more iteration begins after a stop was asked, while the request
\* is being written; and none once it is written and the loop signalled.
\* (When the write fails the call throws, and the loop goes on; a call that the
\* end of the daemon cuts off leaves no loop that runs, see RestartIsHonest.)
StopsSoon ==
    [][\A l \in Loops : exec'[l].at = "begun" /\ exec[l].at # "begun" =>
         /\ since'[l] <= 1
         /\ \A s \in Stops : stop[s].loop = l /\ stop[s].heard =>
                stop[s].at \in {"asked", "lost"} \/ stop[s].told = "error"]_vars

\* Success takes the completed work of the last worker, and the consent of the
\* check or verifier that came last; never that of an earlier iteration.
SuccessIsVerified ==
    \A l \in Loops : loops[l] # None /\ loops[l].status = "succeeded" =>
        /\ loops[l].outcome = "completed" /\ loops[l].last = "succeeded"
        /\ exec[l].at = "over" => exec[l].verdict = "passed"

\* A loop that shows as running is being run; only a loop whose creation could
\* not be written shows as running for ever.
RunningIsRun ==
    \A l \in Loops : loops[l] # None /\ loops[l].status = "running" =>
        AtWork(l) \/ exec[l].at = "refused"

\* When nothing is running any more, the closing of every agent was tried, and
\* only those stay open for which it threw; unless a write has failed, for then
\* the finally block does not reach the closing of its agent.
AgentsClosed ==
    failures = 0 => \A l \in Loops : ~AtWork(l) => open[l] \subseteq {"unclosed"}

\* A stop that found no executor of the loop.
Unheard(l) == \E s \in Stops : stop[s].loop = l /\ ~stop[s].heard

\* However a loop ends, by itself, by a stop, an error, a failing write or a
\* restart, what is left of it is in order.
EndsInOrder == SuccessIsVerified /\ RunningIsRun /\ AgentsClosed

\* What a restart finds: every loop runLoop has returned, none of them
\* running, none with an outcome it had not, but that it may be "stopped"
\* (success is not written when it is reached).  The file is lost only if the
\* process ended in the middle of a write, or a write had failed.
RestartIsHonest ==
    [][phase' = "starting" /\ (phase # "starting" \/ crashes' # crashes)
       /\ file' # Torn /\ failures = 0 =>
         \A l \in Loops : exec[l].at \notin {"new", "creating"} /\ loops[l] # None =>
             /\ loops'[l] # None
             /\ loops'[l].status # "running"
             /\ Unheard(l) \/ loops'[l].status \in {loops[l].status, "stopped"}]_vars

Over(s) == stop[s].at \in {"done", "lost"}

\* A stop that found the worker's turn in the foreground returns, whatever
\* other runs do; and if the agents' runs and the commands end by themselves
\* every stop does, though the loop has no limit.  (A stop that comes while the
\* turn is being started has nothing that ends it, and may never return.)
StopReturns ==
    /\ \A s \in Stops : stop[s].at = "cancelingWorker" /\ canceled[stop[s].loop] ~> Over(s)
    /\ (\A l \in Loops : WF_vars(RunEnds(l)) /\ WF_vars(CheckEnds(l)))
         => \A s \in Stops : stop[s].at = "asked" ~> Over(s)
=============================================================================
