------------------------------ MODULE AgentRuns ------------------------------
(***************************************************************************)
(* The run lifecycle of one agent in the daemon: AgentManager              *)
(* (server/agent/agent-manager.ts) with ForegroundRunState                 *)
(* (server/agent/foreground-run-state.ts).                                 *)
(*                                                                         *)
(* JavaScript is single threaded: a call runs without interruption up to   *)
(* its next "await".  An action below is one such segment, so everything   *)
(* between two awaits is atomic and everything else interleaves.  Each     *)
(* public call is an operation o \in Ops, performed at most once; its      *)
(* identity also names what it allocates: its PendingForegroundRun token,  *)
(* the turn its startTurn() yields, its stream waiter, and the             *)
(* ManagedAgent object it registers.  Calls that throw before they change  *)
(* anything are left out.                                                  *)
(***************************************************************************)
EXTENDS Integers, Sequences

CONSTANTS
    Ops,        \* calls made on the agent
    Kinds,      \* the kinds of call that may be made, a subset of AllKinds
    Perms,      \* permission requests the provider may raise
    First,      \* the ManagedAgent object that exists initially
    AutoTurn,   \* the turn id of the provider's autonomous turns
    None,
    MaxAuto,    \* bound: autonomous turns the provider starts
    Quirks      \* what the provider may do, a subset of AllQuirks

AllKinds == {"run", "replace", "cancel", "rewind", "close", "reload", "open",
             "respond"}

\* "early_end": a turn may end before startTurn has returned its id.
\* "late_start": turn_started may come after startTurn has returned.
\* "silent_drop": a permission request may be given up without an event.
AllQuirks == {"early_end", "late_start", "silent_drop"}

ASSUME KindsAssumption == Kinds \subseteq AllKinds /\ Quirks \subseteq AllQuirks
ASSUME NamesAssumption ==
    /\ First \notin Ops /\ AutoTurn \notin Ops /\ None \notin Ops
    /\ None # First /\ None # AutoTurn
    /\ Perms \cap (Ops \cup {AutoTurn, None}) = {}
ASSUME BoundsAssumption == MaxAuto \in Nat

Objs == Ops \cup {First}
Lifecycles == {"initializing", "idle", "running", "error"}
Attentions == {"none", "finished", "error"}
TerminalTypes == {"completed", "failed", "canceled"}

VARIABLES
    cur,        \* agents.get(agentId): the registered object, or None
    objs,       \* every ManagedAgent object, registered or not
    prevStatus, \* previousStatuses.get(agentId)
    pending,    \* pendingRuns.get(agentId): the operation holding the run slot
    settled,    \* the PendingForegroundRuns that are settled
    wsettled,   \* the stream waiters that are settled
    ends,       \* the turn streams whose next pass ends them
    pc,         \* where each operation is
    op,         \* what each operation is and the values it has captured
    queue,      \* sessionEventTails: provider events not yet dispatched
    busy,       \* the provider event being dispatched, or NoEvent
    forced,     \* turns whose synthetic turn_canceled has still to be notified
    sturn,      \* provider: the foreground turn of each operation
    sauto,      \* provider: whether a session has an autonomous turn
    autos,      \* provider: autonomous turns it may still start
    sperms,     \* provider: the permission requests each session waits on
    asked,      \* provider: the permission requests raised so far
    dropped     \* provider: those it gave up and the manager is not told of

slot == <<pending, settled>>
streams == <<wsettled, ends>>
events == <<queue, busy, forced>>
provider == <<sturn, sauto, autos, sperms, asked, dropped>>
vars == <<cur, objs, prevStatus, slot, streams, pc, op, events, provider>>

\* ManagedAgent.  Finalized turn ids are kept for good: the code forgets the
\* oldest of more than 50.
Agent == [lifecycle: Lifecycles, active: Ops \cup {None}, replacing: BOOLEAN,
          err: BOOLEAN, perms: SUBSET Perms, inFlight: SUBSET Perms,
          buffered: SUBSET Perms, finalized: SUBSET Ops, waiters: SUBSET Ops,
          subscribed: BOOLEAN, attention: Attentions]

\* What an operation has captured: the object ("const agent = ..."), in
\* cancelAgentRun the pending run and the foreground turn, in
\* respondToPermission the request, in reloadAgentSession what it preserves.
Call == [kind: AllKinds \cup {"none"}, obj: Objs \cup {None},
         run: Ops \cup {None}, turn: Ops \cup {None}, perm: Perms \cup {None},
         saved: [err: BOOLEAN, attention: Attentions]]

\* The provider events that reach the run lifecycle; "turn" is the turn an
\* event is tagged with, or the permission request it is about.
Event == [type: TerminalTypes \cup {"started"}, turn: Ops \cup {AutoTurn}] \cup
         [type: {"permission_requested", "permission_resolved"}, turn: Perms]

NoEvent == [phase |-> "none"]

NewAgent(saved) ==
    [lifecycle |-> "initializing", active |-> None, replacing |-> FALSE,
     err |-> saved.err, perms |-> {}, inFlight |-> {}, buffered |-> {},
     finalized |-> {}, waiters |-> {}, subscribed |-> FALSE,
     attention |-> saved.attention]

Nothing == [err |-> FALSE, attention |-> "none"]

Init ==
    /\ cur = First
    /\ objs = [g \in Objs |->
                IF g = First
                THEN [NewAgent(Nothing) EXCEPT !.lifecycle = "idle",
                                               !.subscribed = TRUE]
                ELSE NewAgent(Nothing)]
    /\ prevStatus = "idle"
    /\ pending = None /\ settled = {} /\ wsettled = {} /\ ends = {}
    /\ pc = [o \in Ops |-> "idle"]
    /\ op = [o \in Ops |-> [kind |-> "none", obj |-> None, run |-> None,
                            turn |-> None, perm |-> None, saved |-> Nothing]]
    /\ queue = <<>> /\ busy = NoEvent /\ forced = {}
    /\ sturn = [o \in Ops |-> "none"]
    /\ sauto = [g \in Objs |-> FALSE] /\ autos = MaxAuto
    /\ sperms = [g \in Objs |-> {}] /\ asked = {} /\ dropped = {}

-----------------------------------------------------------------------------
(* Helpers *)

\* Mutant: attention as a level signal.
AttendLevel(a, prev) ==
    IF a.attention # "none" THEN a
    ELSE IF a.lifecycle = "idle" THEN [a EXCEPT !.attention = "finished"]
    ELSE IF a.lifecycle = "error" THEN [a EXCEPT !.attention = "error"]
    ELSE a

\* checkAndSetAttention: attention is an edge-triggered unread mark.
Attend(a, prev) ==
    IF a.attention # "none" THEN a
    ELSE IF prev = "running" /\ a.lifecycle = "idle"
         THEN [a EXCEPT !.attention = "finished"]
    ELSE IF prev # "error" /\ a.lifecycle = "error"
         THEN [a EXCEPT !.attention = "error"]
    ELSE a

\* The object g becomes a, and emitState is called on it when emit holds.
Store(g, a, emit) ==
    /\ objs' = [objs EXCEPT ![g] = IF emit THEN Attend(a, prevStatus) ELSE a]
    /\ prevStatus' = IF emit THEN a.lifecycle ELSE prevStatus

\* finalizeForegroundTurn; it holds the agent busy for a replacement.
HoldsBusy(a) == a.replacing /\ ~a.err

\* Mutant: the foreground turn is not reset.
FinalizedKeepsTurn(a, turns) ==
    [a EXCEPT !.finalized = @ \cup turns,
              !.lifecycle = IF HoldsBusy(a) THEN "running"
                            ELSE IF a.err THEN "error" ELSE "idle"]

Finalized(a, turns) ==
    [a EXCEPT !.active = None, !.finalized = @ \cup turns,
              !.lifecycle = IF HoldsBusy(a) THEN "running"
                            ELSE IF a.err THEN "error" ELSE "idle"]

\* Mutants: the entry stays in the map; the token is not compared.
SettleKeepsEntry(o) ==
    /\ pending' = pending
    /\ settled' = IF pending = o THEN settled \cup {o} ELSE settled

SettleAnyToken(o) ==
    /\ pending' = None
    /\ settled' = settled \cup ({pending} \ {None})

\* settlePendingRun(agentId, token)
SettleRun(o) ==
    /\ pending' = IF pending = o THEN None ELSE pending
    /\ settled' = IF pending = o THEN settled \cup {o} ELSE settled

\* Mutant: settles an entry that is not there.
SettleUnchecked == pending' = None /\ settled' = settled \cup {pending}

\* settlePendingRun(agentId)
SettleAnyRun ==
    /\ pending' = None
    /\ settled' = settled \cup ({pending} \ {None})

Goto(o, label) == pc' = [pc EXCEPT ![o] = label]

\* Mutant: the filter on settled waiters is inverted.
MatchingSettled(a, turn) == {o \in a.waiters \cap wsettled : o = turn}

\* getMatchingWaiters
Matching(a, turn) == {o \in a.waiters \ wsettled : o = turn}

HasInFlightRun ==
    \/ objs[cur].lifecycle = "running"
    \/ objs[cur].active # None
    \/ pending # None

\* Promise continuations run before any timer fires and before any I/O of the
\* daemon completes: none may be left then.
Waits(o) ==
    LET t == op[o].turn
        a == objs[op[o].obj]
    IN \/ t # None /\ (t \notin wsettled \/ (t \notin a.waiters /\ a.active = t))
       \/ op[o].run # None /\ op[o].run \notin settled

Continues(o) ==
    \/ pc[o] \in {"failing", "resume", "catch"}
    \/ pc[o] = "streaming" /\ o \in ends
    \/ pc[o] = "waiting" /\ ~Waits(o)
    \/ pc[o] = "stale" /\ op[o].run \in settled

MicrotasksDone ==
    /\ busy = NoEvent /\ queue = <<>> /\ forced = {}
    /\ \A o \in Ops : ~Continues(o)

-----------------------------------------------------------------------------
(* The provider session, as the manager sees it *)

OpenTurn(g) == \E o \in Ops : op[o].obj = g /\ sturn[o] \in {"open", "announced"}

\* Every provider adapter refuses a foreground turn while another one is open;
\* one that accepts it first completes an autonomous turn in progress.
SessionStartTurn(o, g) ==
    /\ UNCHANGED <<autos, sperms, asked, dropped, busy, forced>>
    /\ IF OpenTurn(g)
       THEN UNCHANGED <<sturn, sauto, queue>>
       ELSE /\ sturn' = [sturn EXCEPT ![o] = "open"]
            /\ sauto' = [sauto EXCEPT ![g] = FALSE]
            /\ queue' = IF sauto[g] /\ objs[g].subscribed
                        THEN Append(queue, [type |-> "completed", turn |-> AutoTurn])
                        ELSE queue

\* enqueueSessionEvent: a subscribed session appends to the agent's event chain.
Enqueue(g, type, turn) ==
    /\ queue' = IF objs[g].subscribed
                THEN Append(queue, [type |-> type, turn |-> turn]) ELSE queue
    /\ UNCHANGED <<cur, objs, prevStatus, slot, streams, pc, op, busy, forced>>

SessionAnnounces(o) ==
    /\ sturn[o] = "open"
    /\ "late_start" \in Quirks \/ pc[o] = "starting"
    /\ sturn' = [sturn EXCEPT ![o] = "announced"]
    /\ Enqueue(op[o].obj, "started", o)
    /\ UNCHANGED <<sauto, autos, sperms, asked, dropped>>

\* A request that is open when a turn completes outlives it.  Otherwise it is
\* given up with the turn, of whose end the manager takes no notice when it has
\* ended the turn itself.
SessionEnds(o, outcome) ==
    /\ sturn[o] \in {"open", "announced"}
    /\ "early_end" \in Quirks \/ pc[o] # "starting"
    /\ sturn' = [sturn EXCEPT ![o] = "ended"]
    /\ IF outcome = "completed" THEN UNCHANGED <<sperms, dropped>>
       ELSE /\ sperms' = [sperms EXCEPT ![op[o].obj] = {}]
            /\ dropped' = dropped \cup {p \in Perms : /\ p \in sperms[op[o].obj]
                                                     /\ o \in objs[op[o].obj].finalized}
    /\ Enqueue(op[o].obj, outcome, o)
    /\ UNCHANGED <<sauto, autos, asked>>

SessionAutoStarts ==
    /\ cur # None /\ autos > 0 /\ ~sauto[cur] /\ ~OpenTurn(cur)
    /\ sauto' = [sauto EXCEPT ![cur] = TRUE]
    /\ autos' = autos - 1
    /\ Enqueue(cur, "started", AutoTurn)
    /\ UNCHANGED <<sturn, sperms, asked, dropped>>

SessionAutoEnds(g, outcome) ==
    /\ sauto[g]
    /\ sauto' = [sauto EXCEPT ![g] = FALSE]
    /\ Enqueue(g, outcome, AutoTurn)
    /\ UNCHANGED <<sturn, autos, sperms, asked, dropped>>

SessionAsks(o, p) ==
    /\ sturn[o] = "announced" /\ p \notin asked
    /\ asked' = asked \cup {p}
    /\ sperms' = [sperms EXCEPT ![op[o].obj] = @ \cup {p}]
    /\ Enqueue(op[o].obj, "permission_requested", p)
    /\ UNCHANGED <<sturn, sauto, autos, dropped>>

\* The session takes the answer of respondToPermission and says so.
SessionResolves(g, p) ==
    /\ p \in sperms[g]
    /\ sperms' = [sperms EXCEPT ![g] = @ \ {p}]
    /\ Enqueue(g, "permission_resolved", p)
    /\ UNCHANGED <<sturn, sauto, autos, asked, dropped>>

\* Claude's abort handler removes the request and says nothing; when the signal
\* was aborted before, right after SessionAsks.
SessionDrops(g, p) ==
    /\ "silent_drop" \in Quirks /\ p \in sperms[g]
    /\ sperms' = [sperms EXCEPT ![g] = @ \ {p}]
    /\ dropped' = dropped \cup {p}
    /\ UNCHANGED <<cur, objs, prevStatus, slot, streams, pc, op, events,
                   sturn, sauto, autos, asked>>

-----------------------------------------------------------------------------
(* streamAgent *)

\* Mutant: only a turn that has started makes the agent busy.
SlotFreeIfNoTurn == cur # None /\ objs[cur].active = None

\* streamAgent throws "already has an active run" otherwise.
SlotFree == cur # None /\ objs[cur].active = None /\ pending = None

StreamAgent(o, k) ==
    /\ SlotFree
    /\ objs' = [objs EXCEPT ![cur].replacing = FALSE, ![cur].err = FALSE]
    /\ pending' = o
    /\ pc' = [pc EXCEPT ![o] = "starting"]
    /\ op' = [op EXCEPT ![o].kind = k, ![o].obj = cur]
    /\ SessionStartTurn(o, cur)
    /\ UNCHANGED <<cur, prevStatus, settled, streams>>

Run(o) == pc[o] = "idle" /\ "run" \in Kinds /\ StreamAgent(o, "run")

\* session.startTurn resolves: the turn becomes the agent's foreground turn.
StartResolves(o) ==
    LET g == op[o].obj IN
    /\ pc[o] = "starting" /\ sturn[o] # "none"
    /\ Store(g, [objs[g] EXCEPT !.active = o, !.lifecycle = "running",
                                !.waiters = @ \cup {o}], TRUE)
    /\ Goto(o, "streaming")
    /\ UNCHANGED <<cur, slot, streams, op, events, provider>>

\* session.startTurn rejects: the failure is handled as a turn_failed event
\* without a turn id, up to the await of the last timeline item.
StartThrows(o) ==
    LET g == op[o].obj IN
    /\ pc[o] = "starting" /\ sturn[o] \in {"none", "open"}
    /\ sturn' = [sturn EXCEPT ![o] = IF @ = "none" THEN "none" ELSE "ended"]
    /\ objs' = [objs EXCEPT ![g].lifecycle = "error", ![g].err = TRUE]
    /\ Goto(o, "failing")
    /\ UNCHANGED <<cur, prevStatus, slot, streams, op, events, sauto, autos,
                   sperms, asked, dropped>>

\* ... the rest of the handler, then finalizeForegroundTurn and the slot.
StartFailed(o) ==
    LET g == op[o].obj
        reported == Attend([objs[g] EXCEPT !.perms = {}], prevStatus)
        final == Finalized(reported, {})
        hold == HoldsBusy(reported)
    IN
    /\ pc[o] = "failing"
    /\ objs' = [objs EXCEPT ![g] = IF hold THEN final
                                   ELSE Attend(final, reported.lifecycle)]
    /\ prevStatus' = IF hold THEN reported.lifecycle ELSE final.lifecycle
    /\ SettleRun(o)
    /\ Goto(o, IF op[o].kind = "replace" THEN "catch" ELSE "done")
    /\ UNCHANGED <<cur, streams, op, events, provider>>

\* The forwarder leaves its loop: the finally block of streamAgent.
Drain(o) ==
    LET g == op[o].obj IN
    /\ pc[o] = "streaming" /\ o \in ends
    /\ objs' = [objs EXCEPT ![g].waiters = @ \ {o}]
    /\ wsettled' = wsettled \cup {o}
    /\ SettleRun(o)
    /\ Goto(o, IF objs[g].active = None THEN "refresh" ELSE "done")
    /\ UNCHANGED <<cur, prevStatus, ends, op, events, provider>>

\* refreshRuntimeInfo at the end of a run: emits when the info has changed.
Refresh(o) ==
    /\ pc[o] = "refresh"
    /\ \E changed \in BOOLEAN : Store(op[o].obj, objs[op[o].obj], changed)
    /\ Goto(o, "done")
    /\ UNCHANGED <<cur, slot, streams, op, events, provider>>

-----------------------------------------------------------------------------
(* cancelAgentRun, and replaceAgentRun, which begins with it *)

\* Up to the await of session.interrupt().
BeginCancel(o, k) ==
    /\ op' = [op EXCEPT ![o].kind = k, ![o].obj = cur, ![o].run = pending,
                        ![o].turn = objs[cur].active]
    /\ Goto(o, "interrupting")
    /\ UNCHANGED <<cur, slot, streams, events, provider>>

Cancel(o) ==
    /\ pc[o] = "idle" /\ "cancel" \in Kinds /\ cur # None /\ HasInFlightRun
    /\ BeginCancel(o, "cancel")
    /\ UNCHANGED <<objs, prevStatus>>

\* A plain streamAgent unless a run is in flight.
Replace(o) ==
    /\ pc[o] = "idle" /\ "replace" \in Kinds /\ cur # None
    /\ \/ ~HasInFlightRun /\ StreamAgent(o, "run")
       \/ /\ HasInFlightRun
          /\ Store(cur, [objs[cur] EXCEPT !.replacing = TRUE,
                                          !.lifecycle = "running"], TRUE)
          /\ BeginCancel(o, "replace")

\* interruptSession returns: done, failed or timed out.
Interrupted(o) ==
    /\ pc[o] = "interrupting"
    /\ Goto(o, "waiting")
    /\ UNCHANGED <<cur, objs, prevStatus, slot, streams, op, events, provider>>

\* The tail of cancelAgentRun: leftover permissions are denied and cleared.
Cleared(a) == [a EXCEPT !.perms = {}]

AfterCancel(o) == Goto(o, IF op[o].kind = "cancel" THEN "done" ELSE "resume")

\* Mutants: there is no timer; a stuck turn is not force-canceled.
WaitsForever(o) == ~Waits(o)

NeverStuck(o) == FALSE

\* The wait is over, or its timer has fired.
WaitOver(o) == ~Waits(o) \/ MicrotasksDone

\* The turn to cancel is still the foreground turn.
Stuck(o) == op[o].turn # None /\ objs[op[o].obj].active = op[o].turn

\* A stuck turn is force-canceled: a synthetic turn_canceled is dispatched and,
\* unless the slot is empty, its holder is awaited without a timeout.
AfterWait(o) ==
    LET g == op[o].obj
        t == op[o].turn
        a == objs[g]
        canceled == [a EXCEPT !.err = FALSE, !.perms = {}]
    IN
    /\ pc[o] = "waiting" /\ WaitOver(o)
    /\ IF Stuck(o) THEN Store(g, Finalized(canceled, {t}), ~a.replacing)
                   ELSE Store(g, Cleared(a), a.perms # {})
    /\ forced' = forced \cup (IF Stuck(o) THEN Matching(a, t) ELSE {})
    /\ IF Stuck(o) /\ pending # None
       THEN Goto(o, "stale") /\ op' = [op EXCEPT ![o].run = pending]
       ELSE AfterCancel(o) /\ UNCHANGED op
    /\ UNCHANGED <<cur, slot, streams, queue, busy, provider>>

StaleSettled(o) ==
    LET g == op[o].obj IN
    /\ pc[o] = "stale" /\ op[o].run \in settled
    /\ Store(g, Cleared(objs[g]), objs[g].perms # {})
    /\ AfterCancel(o)
    /\ UNCHANGED <<cur, slot, streams, op, events, provider>>

\* replaceAgentRun goes on with streamAgent, which may reject.
ReplaceResumes(o) ==
    /\ pc[o] = "resume" /\ op[o].kind = "replace"
    /\ \/ StreamAgent(o, "replace")
       \/ /\ ~SlotFree
          /\ Goto(o, "catch")
          /\ UNCHANGED <<cur, objs, prevStatus, slot, streams, op, events, provider>>

\* Mutant: only rethrows.
CatchRethrows(o) ==
    /\ pc[o] = "catch"
    /\ Goto(o, "done")
    /\ UNCHANGED <<cur, objs, prevStatus, slot, streams, op, events, provider>>

\* The catch block of replaceAgentRun, on whatever object is registered now.
ReplaceCatch(o) ==
    /\ pc[o] = "catch"
    /\ IF cur = None THEN UNCHANGED <<objs, prevStatus>>
       ELSE LET a == [objs[cur] EXCEPT !.replacing = FALSE]
                drop == a.active = None /\ a.lifecycle = "running"
            IN Store(cur, IF drop THEN [a EXCEPT !.lifecycle = "idle"] ELSE a, drop)
    /\ Goto(o, "done")
    /\ UNCHANGED <<cur, slot, streams, op, events, provider>>

-----------------------------------------------------------------------------
(* rewind *)

\* createPendingRun overwrites whatever run holds the slot.
TakeLock(o) ==
    /\ pending' = o
    /\ Goto(o, "rewinding")
    /\ UNCHANGED <<cur, objs, prevStatus, settled, streams, events, provider>>

Rewind(o) ==
    /\ pc[o] = "idle" /\ "rewind" \in Kinds /\ cur # None
    /\ IF objs[cur].active # None \/ pending # None
       THEN BeginCancel(o, "rewind") /\ UNCHANGED <<objs, prevStatus>>
       ELSE TakeLock(o) /\ op' = [op EXCEPT ![o].kind = "rewind", ![o].obj = cur]

RewindResumes(o) ==
    /\ pc[o] = "resume" /\ op[o].kind = "rewind"
    /\ TakeLock(o)
    /\ UNCHANGED op

\* The provider has rewound (the hydrated history is emitted) or has failed.
Rewound(o) ==
    /\ pc[o] = "rewinding" /\ MicrotasksDone
    /\ \E ok \in BOOLEAN : Store(op[o].obj, objs[op[o].obj], ok)
    /\ SettleRun(o)
    /\ Goto(o, "done")
    /\ UNCHANGED <<cur, streams, op, events, provider>>

-----------------------------------------------------------------------------
(* closeAgent *)

\* prepareAgentForClosure: every waiter receives a turn_canceled.
Close(o) ==
    LET waiters == objs[cur].waiters IN
    /\ pc[o] = "idle" /\ "close" \in Kinds /\ cur # None
    /\ op' = [op EXCEPT ![o].kind = "close"]
    /\ cur' = None /\ prevStatus' = "none"
    /\ objs' = [objs EXCEPT ![cur].subscribed = FALSE, ![cur].waiters = {}]
    /\ ends' = ends \cup waiters /\ wsettled' = wsettled \cup waiters
    /\ SettleAnyRun
    /\ Goto(o, "closing")
    /\ UNCHANGED <<events, provider>>

\* The session has closed: the closed snapshot is emitted.
Closed(o) ==
    /\ pc[o] = "closing" /\ MicrotasksDone
    /\ prevStatus' = "closed"
    /\ Goto(o, "done")
    /\ UNCHANGED <<cur, objs, slot, streams, op, events, provider>>

-----------------------------------------------------------------------------
(* reloadAgentSession, ensureAgentLoaded and registerSession *)

\* The object whose session is to be replaced, and what is preserved of it.
BeginReload(o) ==
    /\ op' = [op EXCEPT ![o].kind = "reload", ![o].obj = cur,
                        ![o].saved = [err |-> objs[cur].err,
                                      attention |-> objs[cur].attention]]
    /\ Goto(o, "resuming")
    /\ UNCHANGED <<cur, objs, prevStatus, slot, streams, events, provider>>

Reload(o) ==
    /\ pc[o] = "idle" /\ "reload" \in Kinds /\ cur # None
    /\ IF HasInFlightRun THEN BeginCancel(o, "reload") /\ UNCHANGED <<objs, prevStatus>>
                         ELSE BeginReload(o)

ReloadResumes(o) ==
    /\ pc[o] = "resume" /\ op[o].kind = "reload"
    /\ IF cur # None THEN BeginReload(o)
       ELSE /\ Goto(o, "done")
            /\ UNCHANGED <<cur, objs, prevStatus, slot, streams, op, events, provider>>

\* The new session exists (or could not be made): the agent entry is removed,
\* whichever object it holds; clearAgent settles waiters without waking them.
Swap(o) ==
    LET g == op[o].obj IN
    /\ pc[o] = "resuming" /\ MicrotasksDone
    /\ \/ /\ Goto(o, "done")
          /\ UNCHANGED <<cur, objs, slot, wsettled>>
       \/ /\ cur' = None
          /\ objs' = [objs EXCEPT ![g].subscribed = FALSE, ![g].waiters = {}]
          /\ wsettled' = wsettled \cup objs[g].waiters
          /\ SettleAnyRun
          /\ Goto(o, "closingOld")
    /\ UNCHANGED <<prevStatus, ends, op, events, provider>>

\* closeReloadedSession returns (or times out); registerSession begins and
\* throws if another object has been registered meanwhile.
OldClosed(o) ==
    /\ pc[o] = "closingOld" /\ MicrotasksDone
    /\ Goto(o, IF cur = None THEN "registering" ELSE "done")
    /\ UNCHANGED <<cur, objs, prevStatus, slot, streams, op, events, provider>>

\* ensureAgentLoaded for an agent that is not in memory; loads are shared.
\* The action is registerSession's check, once the session is resumed.
Open(o) ==
    /\ pc[o] = "idle" /\ "open" \in Kinds /\ cur = None
    /\ \A p \in Ops : op[p].kind = "open" => pc[p] = "done"
    /\ op' = [op EXCEPT ![o].kind = "open"]
    /\ Goto(o, "registering")
    /\ UNCHANGED <<cur, objs, prevStatus, slot, streams, events, provider>>

\* agents.set, after the awaits that followed the check.
Register(o) ==
    /\ pc[o] = "registering"
    /\ cur' = o
    /\ objs' = [objs EXCEPT ![o] = NewAgent(op[o].saved)]
    /\ prevStatus' = "initializing"
    /\ op' = [op EXCEPT ![o].obj = o]
    /\ Goto(o, "initializing")
    /\ UNCHANGED <<slot, streams, events, provider>>

\* refreshSessionState has finished: the lifecycle is set to idle.
RegisterIdle(o) ==
    /\ pc[o] = "initializing" /\ MicrotasksDone
    /\ objs' = [objs EXCEPT ![o].lifecycle = "idle", ![o].perms = sperms[o]]
    /\ Goto(o, "subscribing")
    /\ UNCHANGED <<cur, prevStatus, slot, streams, op, events, provider>>

RegisterSubscribe(o) ==
    /\ pc[o] = "subscribing" /\ MicrotasksDone
    /\ Store(o, [objs[o] EXCEPT !.subscribed = TRUE], TRUE)
    /\ Goto(o, "done")
    /\ UNCHANGED <<cur, slot, streams, op, events, provider>>

-----------------------------------------------------------------------------
(* respondToPermission *)

Respond(o, p) ==
    /\ pc[o] = "idle" /\ "respond" \in Kinds /\ cur # None
    /\ p \in objs[cur].perms
    /\ op' = [op EXCEPT ![o].kind = "respond", ![o].obj = cur, ![o].perm = p]
    /\ objs' = [objs EXCEPT ![cur].inFlight = @ \cup {p}]
    /\ Goto(o, "responding")
    /\ UNCHANGED <<cur, prevStatus, slot, streams, events, provider>>

\* session.respondToPermission resolves, or rejects (the finally block).
Responded(o) ==
    LET g == op[o].obj
        p == op[o].perm
    IN
    /\ pc[o] = "responding"
    /\ \/ /\ p \notin sperms[g]
          /\ objs' = [objs EXCEPT ![g].perms = @ \ {p}]
          /\ Goto(o, "refreshing")
       \/ /\ objs' = [objs EXCEPT ![g].inFlight = @ \ {p}, ![g].buffered = @ \ {p}]
          /\ Goto(o, "done")
    /\ UNCHANGED <<cur, prevStatus, slot, streams, op, events, provider>>

\* refreshSessionState reloads the permissions from the session.
Refreshed(o) ==
    /\ pc[o] = "refreshing"
    /\ objs' = [objs EXCEPT ![op[o].obj].perms = sperms[op[o].obj]]
    /\ Goto(o, "persisting")
    /\ UNCHANGED <<cur, prevStatus, slot, streams, op, events, provider>>

\* The snapshot is stored: emit, and release a buffered permission_resolved.
Persisted(o) ==
    LET g == op[o].obj
        p == op[o].perm
    IN
    /\ pc[o] = "persisting" /\ MicrotasksDone
    /\ Store(g, [objs[g] EXCEPT !.inFlight = @ \ {p}, !.buffered = @ \ {p}], TRUE)
    /\ Goto(o, "done")
    /\ UNCHANGED <<cur, slot, streams, op, events, provider>>

-----------------------------------------------------------------------------
(* The session event chain: dispatchSessionEvent and handleStreamEvent *)

\* Mutant: late terminal events are handled like any other.
NeverStale(a, e) == FALSE

\* A terminal event of a turn that has been finalized is ignored.
Stale(a, e) == e.type \in TerminalTypes /\ e.turn \in a.finalized

\* The next event is of this type and is dispatched to the registered object.
Receives(type) ==
    /\ busy = NoEvent /\ queue # <<>> /\ Head(queue).type = type
    /\ cur # None /\ ~Stale(objs[cur], Head(queue))
    /\ queue' = Tail(queue)
    /\ UNCHANGED <<cur, slot, streams, pc, op, forced, provider>>

Foreground == objs[cur].active = Head(queue).turn

\* The dispatch goes on; the waiters to notify were chosen before the handling.
Dispatching(phase) ==
    busy' = [phase |-> phase, e |-> Head(queue), g |-> cur, fg |-> Foreground,
             to |-> Matching(objs[cur], Head(queue).turn)]

EventDropped ==
    /\ busy = NoEvent /\ queue # <<>>
    /\ cur # None => Stale(objs[cur], Head(queue))
    /\ queue' = Tail(queue)
    /\ UNCHANGED <<cur, objs, prevStatus, slot, streams, pc, op, busy, forced, provider>>

\* The end of a terminal event's handling: finalizeForegroundTurn if it is the
\* foreground turn's; otherwise its handler emits when "emit" holds.
Terminate(g, a, fg, turn, emit) ==
    IF fg THEN Store(g, Finalized(a, {turn}), ~HoldsBusy(a))
          ELSE Store(g, a, emit)

TurnStarted ==
    /\ Receives("started")
    /\ Store(cur, IF Foreground THEN objs[cur]
                  ELSE [objs[cur] EXCEPT !.lifecycle = "running"], ~Foreground)
    /\ Dispatching("notify")

\* The end of a turn other than the foreground turn makes the agent idle.
BackgroundEnds(a) == ~Foreground /\ ~a.replacing

TurnCompleted ==
    LET a == objs[cur]
        drop == BackgroundEnds(a) /\ a.lifecycle # "idle"
    IN
    /\ Receives("completed")
    /\ Terminate(cur, [a EXCEPT !.err = FALSE,
                                !.lifecycle = IF drop THEN "idle" ELSE @],
                 Foreground, Head(queue).turn, drop)
    /\ Dispatching("notify")

TurnCanceled ==
    LET a == objs[cur] IN
    /\ Receives("canceled")
    /\ Terminate(cur, [a EXCEPT !.err = FALSE, !.perms = {},
                                !.lifecycle = IF BackgroundEnds(a) THEN "idle" ELSE @],
                 Foreground, Head(queue).turn, TRUE)
    /\ Dispatching("notify")

\* Up to the await of the last timeline item.
TurnFailed ==
    LET a == objs[cur] IN
    /\ Receives("failed")
    /\ Store(cur, [a EXCEPT !.err = TRUE,
                            !.lifecycle = IF Foreground THEN @ ELSE "error"], FALSE)
    /\ Dispatching("append")

FailureAppended ==
    /\ busy.phase = "append"
    /\ Terminate(busy.g, [objs[busy.g] EXCEPT !.perms = {}], busy.fg,
                 busy.e.turn, TRUE)
    /\ busy' = [busy EXCEPT !.phase = "notify"]
    /\ UNCHANGED <<cur, slot, streams, pc, op, queue, forced, provider>>

PermissionRequested ==
    /\ Receives("permission_requested")
    /\ Store(cur, [objs[cur] EXCEPT !.perms = @ \cup {Head(queue).turn}], TRUE)
    /\ UNCHANGED busy

\* While it is being answered, the resolution is buffered instead of emitted.
PermissionResolved ==
    LET p == Head(queue).turn
        a == objs[cur]
        held == p \in a.inFlight
    IN
    /\ Receives("permission_resolved")
    /\ Store(cur, [a EXCEPT !.perms = @ \ {p},
                            !.buffered = IF held THEN @ \cup {p} ELSE @], ~held)
    /\ UNCHANGED busy

\* notifyWaiters: an event wakes the stream, which ends on a terminal event or
\* when it finds its waiter settled.
Notify ==
    LET terminal == busy.e.type \in TerminalTypes IN
    /\ busy.phase = "notify"
    /\ ends' = ends \cup {o \in busy.to : terminal \/ o \in wsettled}
    /\ wsettled' = IF terminal THEN wsettled \cup busy.to ELSE wsettled
    /\ busy' = NoEvent
    /\ UNCHANGED <<cur, objs, prevStatus, slot, pc, op, queue, forced, provider>>

\* The same for the synthetic turn_canceled of a forced cancel.
NotifyForced(o) ==
    /\ o \in forced
    /\ forced' = forced \ {o}
    /\ ends' = ends \cup {o} /\ wsettled' = wsettled \cup {o}
    /\ UNCHANGED <<cur, objs, prevStatus, slot, pc, op, queue, busy, provider>>

-----------------------------------------------------------------------------
(* Other emissions *)

\* A usage, mode or model event, or a refresh, emits the current state.
StateEmitted ==
    /\ cur # None
    /\ Store(cur, objs[cur], TRUE)
    /\ UNCHANGED <<cur, slot, streams, pc, op, events, provider>>

ClearAttention ==
    /\ cur # None /\ objs[cur].attention # "none"
    /\ Store(cur, [objs[cur] EXCEPT !.attention = "none"], FALSE)
    /\ UNCHANGED <<cur, slot, streams, pc, op, events, provider>>

-----------------------------------------------------------------------------
Begin(o) ==
    \/ Run(o) \/ Replace(o) \/ Cancel(o) \/ Rewind(o) \/ Close(o) \/ Reload(o)
    \/ Open(o)
    \/ \E p \in Perms : Respond(o, p)

\* What the daemon itself does next for a call that has begun.
Step(o) ==
    \/ StartFailed(o) \/ Drain(o) \/ Refresh(o)
    \/ Interrupted(o) \/ AfterWait(o) \/ StaleSettled(o)
    \/ ReplaceResumes(o) \/ ReplaceCatch(o) \/ RewindResumes(o) \/ ReloadResumes(o)
    \/ Closed(o) \/ OldClosed(o)
    \/ Register(o) \/ RegisterIdle(o) \/ RegisterSubscribe(o)
    \/ Refreshed(o) \/ Persisted(o) \/ NotifyForced(o)

\* Answers of the provider to calls of the daemon.
Answer(o) ==
    \/ StartResolves(o) \/ StartThrows(o) \/ Rewound(o) \/ Swap(o) \/ Responded(o)

Chain ==
    \/ EventDropped \/ TurnStarted \/ TurnCompleted \/ TurnCanceled \/ TurnFailed
    \/ FailureAppended \/ PermissionRequested \/ PermissionResolved \/ Notify

Session ==
    \/ SessionAutoStarts
    \/ \E o \in Ops : SessionAnnounces(o)
    \/ \E o \in Ops, outcome \in TerminalTypes : SessionEnds(o, outcome)
    \/ \E g \in Objs, outcome \in TerminalTypes : SessionAutoEnds(g, outcome)
    \/ \E o \in Ops, p \in Perms : SessionAsks(o, p)
    \/ \E g \in Objs, p \in Perms : SessionResolves(g, p) \/ SessionDrops(g, p)

Next ==
    \/ \E o \in Ops : Begin(o) \/ Step(o) \/ Answer(o)
    \/ Chain \/ Session \/ StateEmitted \/ ClearAttention

Spec == Init /\ [][Next]_vars

\* The daemon takes its own steps, its timers fire, and the provider's calls
\* return; it need not end any turn.
FairSpec ==
    /\ Spec
    /\ WF_vars(Chain)
    /\ \A o \in Ops : WF_vars(Step(o)) /\ WF_vars(Answer(o))

-----------------------------------------------------------------------------
(* Properties *)

Labels == {"idle", "starting", "failing", "streaming", "refresh",
           "interrupting", "waiting", "stale", "resume", "catch", "rewinding",
           "closing", "resuming", "closingOld", "registering", "initializing",
           "subscribing", "responding", "refreshing", "persisting", "done"}

Dispatch == [phase: {"append", "notify"}, e: Event, g: Objs, fg: BOOLEAN,
             to: SUBSET Ops]

\* The state of the manager, of its calls and of the provider session keeps
\* the shape that agent-manager.ts declares for it.
TypeOK ==
    /\ cur \in Objs \cup {None}
    /\ objs \in [Objs -> Agent]
    /\ prevStatus \in Lifecycles \cup {"closed", "none"}
    /\ pending \in Ops \cup {None} /\ settled \subseteq Ops
    /\ wsettled \subseteq Ops /\ ends \subseteq Ops
    /\ pc \in [Ops -> Labels] /\ op \in [Ops -> Call]
    /\ queue \in Seq(Event) /\ busy \in Dispatch \cup {NoEvent}
    /\ forced \subseteq Ops
    /\ sturn \in [Ops -> {"none", "open", "announced", "ended"}]
    /\ sauto \in [Objs -> BOOLEAN] /\ autos \in 0..MaxAuto
    /\ sperms \in [Objs -> SUBSET Perms] /\ asked \subseteq Perms /\ dropped \subseteq Perms

\* streamAgent has called startTurn and has not left its finally block.
Running(o) == pc[o] \in {"starting", "failing", "streaming"}

\* The slot (pendingRuns) never leaks: whoever holds it is a call that is
\* still running and that will release it.
SlotHeld ==
    pending # None => /\ pending \notin settled
                      /\ Running(pending) \/ pc[pending] = "rewinding"

\* Runs exclude each other: a run on the registered object holds the slot, so
\* at most one prompt is being started or streamed on its session.
RunOwnsSlot == \A o \in Ops : Running(o) /\ op[o].obj = cur => pending = o

\* The foreground turn is always being forwarded: its stream exists, is
\* registered as a waiter on the same object, and has not been torn down, so
\* the turn's events and its end reach whoever sent the prompt.
TurnForwarded ==
    cur # None /\ objs[cur].active # None =>
        LET t == objs[cur].active
        IN pc[t] = "streaming" /\ op[t].obj = cur /\ t \in objs[cur].waiters

\* An agent that shows as anything but running has no foreground turn.
IdleMeansFree ==
    cur # None /\ objs[cur].lifecycle # "running" => objs[cur].active = None

\* cancelAgentRun keeps its word: once it has returned, the turn that was the
\* foreground turn when it was called is not, by the provider's own event or
\* by force.
CancelEffective ==
    \A o \in Ops : pc[o] = "done" /\ op[o].kind = "cancel" /\ op[o].turn # None =>
        objs[op[o].obj].active # op[o].turn

\* Nothing is left to do: every call has returned, every event has been
\* dispatched and the provider has no open turn.
AtRest ==
    /\ \A o \in Ops : pc[o] \in {"idle", "done"}
    /\ queue = <<>> /\ busy = NoEvent /\ forced = {}
    /\ cur # None => ~OpenTurn(cur) /\ ~sauto[cur]

\* An agent at rest does not look busy: no order of prompts, replacements,
\* cancellations and provider events leaves a turn, a held slot, a "running"
\* lifecycle or a pending replacement behind.  Nor does it ask for anything that
\* has been answered, or has ended with its turn: a permission request stays on
\* display only while the provider waits on it, or if the provider gave it up
\* and the manager was not told, or took no notice (then it does stay there).
RestIsIdle ==
    AtRest =>
        /\ pending = None
        /\ cur # None => /\ objs[cur].active = None
                         /\ objs[cur].lifecycle # "running"
                         /\ ~objs[cur].replacing
                         /\ objs[cur].perms \subseteq sperms[cur] \cup dropped

\* The agent is only announced as finished (the unread mark and notification
\* of checkAndSetAttention) when it is: no turn is active and no prompt is
\* being started.
FinishedIsTrue ==
    [][\A g \in Objs :
         g = cur /\ objs[g].attention # "finished" /\ objs'[g].attention = "finished" =>
            /\ objs'[g].active = None
            /\ pending' # None => pc'[pending'] \notin {"starting", "rewinding"}]_vars

\* cancelAgentRun always returns, though the provider may never answer the
\* interrupt and never end the turn.
CancelReturns ==
    \A o \in Ops : op[o].kind = "cancel" ~> pc[o] = "done"

\* Every prompt's stream ends when its provider ends every turn.
RunsEnd ==
    (\A o \in Ops : WF_vars(\E outcome \in TerminalTypes : SessionEnds(o, outcome)))
        => \A o \in Ops : pc[o] = "streaming" ~> pc[o] = "done"

\* The run slot keeps its promise (module RunSlot).
Slot == INSTANCE RunSlot WITH
    holder <- pending,
    turn <- IF cur = None THEN None ELSE objs[cur].active,
    over <- settled

SlotSpec == Slot!Spec

=============================================================================
