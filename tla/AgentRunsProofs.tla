--------------------------- MODULE AgentRunsProofs ---------------------------
(***************************************************************************)
(* Proofs about AgentRuns, for every set of calls, permission requests and *)
(* provider quirks.                                                        *)
(***************************************************************************)
EXTENDS AgentRuns, TLAPS

-----------------------------------------------------------------------------
(* What the helpers of AgentRuns do to an agent object *)

\* An object after its attention mark may have been raised.
Marked(b, a) == \E m \in Attentions : b = [a EXCEPT !.attention = m]

\* checkAndSetAttention changes nothing but the mark.
LEMMA AttendMarks ==
    ASSUME NEW a \in Agent, NEW prev
    PROVE  Marked(Attend(a, prev), a)
<1>1. a = [a EXCEPT !.attention = a.attention] /\ a.attention \in Attentions
  BY DEF Agent
<1>2. QED
  BY <1>1 DEF Marked, Attend, Attentions

\* Marking an agent keeps it an agent.
LEMMA MarkedAgent ==
    ASSUME NEW a \in Agent, NEW b, Marked(b, a)
    PROVE  b \in Agent /\ b.active = a.active /\ b.waiters = a.waiters
BY DEF Marked, Agent

\* finalizeForegroundTurn leaves an agent without a foreground turn.
LEMMA FinalizedAgent ==
    ASSUME NEW a \in Agent, NEW turns \in SUBSET Ops
    PROVE  /\ Finalized(a, turns) \in Agent
           /\ Finalized(a, turns).active = None
           /\ Finalized(a, turns).waiters = a.waiters
BY DEF Finalized, Agent, Lifecycles

\* The object a session is registered as is an agent.
LEMMA NewAgentType ==
    ASSUME NEW saved \in [err: BOOLEAN, attention: Attentions]
    PROVE  NewAgent(saved) \in Agent /\ NewAgent(saved).active = None
                                     /\ NewAgent(saved).waiters = {}
BY DEF NewAgent, Agent, Lifecycles

\* What storing an object does: only its entry changes, to a marked copy.
LEMMA StoreEffect ==
    ASSUME NEW g \in Objs, NEW a \in Agent, NEW emit, Store(g, a, emit),
           objs \in [Objs -> Agent], prevStatus \in Lifecycles \cup {"closed", "none"}
    PROVE  /\ \E b \in Agent : /\ objs' = [objs EXCEPT ![g] = b]
                               /\ b.active = a.active /\ b.waiters = a.waiters
           /\ prevStatus' \in Lifecycles \cup {"closed", "none"}
<1>1. a.lifecycle \in Lifecycles
  BY DEF Agent
<1>2. PICK b : /\ objs' = [objs EXCEPT ![g] = b]
               /\ b = a \/ b = Attend(a, prevStatus)
  BY DEF Store
<1>3. b \in Agent /\ b.active = a.active /\ b.waiters = a.waiters
  BY <1>2, AttendMarks, MarkedAgent
<1>4. QED
  BY <1>1, <1>2, <1>3 DEF Store

\* The part of TypeOK that Store touches.
ObjsTyped == /\ objs \in [Objs -> Agent]
             /\ prevStatus \in Lifecycles \cup {"closed", "none"}

\* Storing an object keeps the shape of the objects.
LEMMA StoreType ==
    ASSUME NEW g \in Objs, NEW a \in Agent, NEW emit, Store(g, a, emit), TypeOK
    PROVE  ObjsTyped'
BY StoreEffect DEF TypeOK, ObjsTyped

-----------------------------------------------------------------------------
(* Type correctness *)

\* A call that is under way has captured a registered object.
Captured ==
    \A o \in Ops : pc[o] \notin {"idle", "closing", "registering", "done"} =>
        op[o].obj \in Objs

\* An event dispatched as the foreground turn's is tagged with a turn.
ForegroundTyped == busy # NoEvent /\ busy.fg => busy.e.turn \in Ops

TypeInv == TypeOK /\ Captured /\ ForegroundTyped

\* The initial state has its type and knows no calls yet.
LEMMA TypeInit == Init => TypeInv
<1> SUFFICES ASSUME Init PROVE TypeInv
  OBVIOUS
<1>1. NewAgent(Nothing) \in Agent
  BY NewAgentType DEF Nothing, Attentions
<1>2. [NewAgent(Nothing) EXCEPT !.lifecycle = "idle", !.subscribed = TRUE] \in Agent
  BY <1>1 DEF Agent, Lifecycles
<1>3. objs \in [Objs -> Agent]
  BY <1>1, <1>2 DEF Init
<1>4. op \in [Ops -> Call] /\ pc \in [Ops -> Labels]
  BY DEF Init, Call, AllKinds, Nothing, Attentions, Labels
<1>5. TypeOK
  BY <1>3, <1>4, BoundsAssumption DEF Init, TypeOK, Objs, Lifecycles
<1>6. Captured /\ ForegroundTyped
  BY DEF Init, Captured, ForegroundTyped
<1>7. QED
  BY <1>5, <1>6 DEF TypeInv

\* Queueing an event keeps the queue a sequence of events.
LEMMA AppendType ==
    ASSUME NEW S, NEW q \in Seq(S), NEW e \in S
    PROVE  Append(q, e) \in Seq(S)
OBVIOUS

\* What the session emits is an event.
LEMMA EventType ==
    /\ \A type \in TerminalTypes \cup {"started"}, turn \in Ops \cup {AutoTurn} :
         [type |-> type, turn |-> turn] \in Event
    /\ \A type \in {"permission_requested", "permission_resolved"}, p \in Perms :
         [type |-> type, turn |-> p] \in Event
BY DEF Event

\* streamAgent up to the await of startTurn.
LEMMA TypeStreamAgent ==
    ASSUME TypeInv, NEW o \in Ops, NEW k \in AllKinds, StreamAgent(o, k)
    PROVE  TypeInv'
<1>1. TypeOK /\ Captured /\ ForegroundTyped
  BY DEF TypeInv
<1>2. cur \in Objs /\ objs[cur] \in Agent
  BY <1>1 DEF StreamAgent, SlotFree, TypeOK
<1>3. [objs[cur] EXCEPT !.replacing = FALSE, !.err = FALSE] \in Agent
  BY <1>2 DEF Agent
<1>4. objs' = [objs EXCEPT ![cur] = [objs[cur] EXCEPT !.replacing = FALSE, !.err = FALSE]]
  BY <1>1, <1>2 DEF StreamAgent, TypeOK
<1>5. ObjsTyped'
  BY <1>1, <1>3, <1>4 DEF StreamAgent, TypeOK, ObjsTyped
<1>6. /\ queue' \in Seq(Event) /\ sauto' \in [Objs -> BOOLEAN]
      /\ sturn' \in [Ops -> {"none", "open", "announced", "ended"}]
  <2>1. [type |-> "completed", turn |-> AutoTurn] \in Event
    BY EventType DEF TerminalTypes
  <2>2. SessionStartTurn(o, cur)
    BY DEF StreamAgent
  <2>3. sturn' = sturn \/ sturn' = [sturn EXCEPT ![o] = "open"]
    BY <2>2 DEF SessionStartTurn
  <2>4. sauto' = sauto \/ sauto' = [sauto EXCEPT ![cur] = FALSE]
    BY <2>2 DEF SessionStartTurn
  <2>5. queue' = queue
          \/ queue' = Append(queue, [type |-> "completed", turn |-> AutoTurn])
    BY <2>2 DEF SessionStartTurn
  <2>6. queue' \in Seq(Event)
    BY <1>1, <2>1, <2>5, AppendType DEF TypeOK
  <2>7. sturn' \in [Ops -> {"none", "open", "announced", "ended"}]
    BY <1>1, <2>3 DEF TypeOK
  <2>8. sauto' \in [Objs -> BOOLEAN]
    BY <1>1, <2>4 DEF TypeOK
  <2>9. QED
    BY <2>6, <2>7, <2>8
<1>7. op' \in [Ops -> Call] /\ pc' \in [Ops -> Labels]
  <2>1. op' = [op EXCEPT ![o] = [op[o] EXCEPT !.kind = k, !.obj = cur]]
    BY <1>1 DEF StreamAgent, TypeOK
  <2>2. op[o] \in Call
    BY <1>1 DEF TypeOK
  <2>3. [op[o] EXCEPT !.kind = k, !.obj = cur] \in Call
    BY <1>2, <2>2 DEF Call
  <2>4. QED
    BY <1>1, <2>1, <2>3 DEF StreamAgent, TypeOK, Labels
<1>8. TypeOK'
  BY <1>1, <1>5, <1>6, <1>7 DEF StreamAgent, SessionStartTurn, TypeOK, ObjsTyped, streams
<1>9. Captured' /\ ForegroundTyped'
  BY <1>1, <1>2 DEF StreamAgent, SessionStartTurn, TypeOK, Captured, ForegroundTyped
<1>10. QED
  BY <1>8, <1>9 DEF TypeInv

\* cancelAgentRun up to the await of the interrupt.
LEMMA TypeBeginCancel ==
    ASSUME TypeInv, ObjsTyped', NEW o \in Ops, NEW k \in AllKinds, cur # None,
           BeginCancel(o, k)
    PROVE  TypeInv'
<1>1. TypeOK /\ Captured /\ ForegroundTyped
  BY DEF TypeInv
<1>2. cur \in Objs /\ objs[cur] \in Agent
  BY <1>1 DEF TypeOK
<1>3. op' \in [Ops -> Call] /\ pc' \in [Ops -> Labels]
  <2> DEFINE c == [op[o] EXCEPT !.kind = k, !.obj = cur, !.run = pending,
                                !.turn = objs[cur].active]
  <2>1. op' = [op EXCEPT ![o] = c]
    BY <1>1 DEF BeginCancel, TypeOK
  <2>2. objs[cur].active \in Ops \cup {None} /\ pending \in Ops \cup {None}
    BY <1>1, <1>2 DEF TypeOK, Agent
  <2>3. op[o] \in Call
    BY <1>1 DEF TypeOK
  <2>4. c \in Call
    BY <1>2, <2>2, <2>3 DEF Call
  <2>5. QED
    BY <1>1, <2>1, <2>4 DEF BeginCancel, Goto, TypeOK, Labels
<1>4. TypeOK'
  BY <1>1, <1>3 DEF BeginCancel, TypeOK, ObjsTyped, slot, streams, events, provider
<1>5. Captured' /\ ForegroundTyped'
  BY <1>1, <1>2 DEF BeginCancel, Goto, TypeOK, Captured, ForegroundTyped, events
<1>6. QED
  BY <1>4, <1>5 DEF TypeInv

\* reloadAgentSession up to the await of the new session.
LEMMA TypeBeginReload ==
    ASSUME TypeInv, NEW o \in Ops, cur # None, BeginReload(o)
    PROVE  TypeInv'
<1>1. TypeOK /\ Captured /\ ForegroundTyped
  BY DEF TypeInv
<1>2. cur \in Objs /\ objs[cur] \in Agent
  BY <1>1 DEF TypeOK
<1>3. [err |-> objs[cur].err, attention |-> objs[cur].attention]
        \in [err: BOOLEAN, attention: Attentions]
  BY <1>2 DEF Agent
<1>4. op' \in [Ops -> Call] /\ pc' \in [Ops -> Labels]
  <2> DEFINE saved == [err |-> objs[cur].err, attention |-> objs[cur].attention]
             c == [op[o] EXCEPT !.kind = "reload", !.obj = cur, !.saved = saved]
  <2>1. op' = [op EXCEPT ![o] = c]
    BY <1>1 DEF BeginReload, TypeOK
  <2>2. op[o] \in Call
    BY <1>1 DEF TypeOK
  <2>3. c \in Call
    BY <1>2, <1>3, <2>2 DEF Call, AllKinds
  <2>4. QED
    BY <1>1, <2>1, <2>3 DEF BeginReload, Goto, TypeOK, Labels
<1>5. TypeOK'
  BY <1>1, <1>4 DEF BeginReload, TypeOK, slot, streams, events, provider
<1>6. Captured' /\ ForegroundTyped'
  BY <1>1, <1>2 DEF BeginReload, Goto, TypeOK, Captured, ForegroundTyped, events
<1>7. QED
  BY <1>5, <1>6 DEF TypeInv

\* What a call does first.
LEMMA TypeBegin ==
    ASSUME TypeInv, NEW o \in Ops, Begin(o)
    PROVE  TypeInv'
<1>1. TypeOK /\ Captured /\ ForegroundTyped
  BY DEF TypeInv
<1>2. cur # None => cur \in Objs /\ objs[cur] \in Agent
  BY <1>1 DEF TypeOK
<1>3. ObjsTyped
  BY <1>1 DEF TypeOK, ObjsTyped
<1>4. CASE Run(o)
  BY <1>4, TypeStreamAgent DEF Run, AllKinds
<1>5. CASE Cancel(o)
  <2>1. ObjsTyped'
    BY <1>3, <1>5 DEF Cancel, ObjsTyped
  <2>2. QED
    BY <1>5, <2>1, TypeBeginCancel DEF Cancel, AllKinds
<1>6. CASE Replace(o)
  <2>1. CASE StreamAgent(o, "run")
    BY <2>1, TypeStreamAgent DEF AllKinds
  <2>2. CASE HasInFlightRun /\ BeginCancel(o, "replace")
             /\ Store(cur, [objs[cur] EXCEPT !.replacing = TRUE,
                                             !.lifecycle = "running"], TRUE)
    <3>1. cur # None /\ cur \in Objs
      BY <1>2, <1>6 DEF Replace
    <3>2. [objs[cur] EXCEPT !.replacing = TRUE, !.lifecycle = "running"] \in Agent
      BY <1>2, <3>1 DEF Agent, Lifecycles
    <3>3. ObjsTyped'
      BY <1>1, <2>2, <3>1, <3>2, StoreType
    <3>4. QED
      BY <2>2, <3>1, <3>3, TypeBeginCancel DEF AllKinds
  <2>3. QED
    BY <1>6, <2>1, <2>2 DEF Replace
<1>7. CASE Rewind(o)
  <2>1. CASE BeginCancel(o, "rewind") /\ UNCHANGED <<objs, prevStatus>>
    BY <1>3, <1>7, <2>1, TypeBeginCancel DEF Rewind, ObjsTyped, AllKinds
  <2>2. CASE /\ TakeLock(o)
             /\ op' = [op EXCEPT ![o].kind = "rewind", ![o].obj = cur]
    <3>1. op' \in [Ops -> Call] /\ cur \in Objs
      <4>1. op[o] \in Call /\ cur \in Objs
        BY <1>1, <1>2, <1>7 DEF Rewind, TypeOK
      <4>2. [op[o] EXCEPT !.kind = "rewind", !.obj = cur] \in Call
        BY <4>1 DEF Call, AllKinds
      <4>3. op' = [op EXCEPT ![o] = [op[o] EXCEPT !.kind = "rewind", !.obj = cur]]
        BY <1>1, <2>2 DEF TypeOK
      <4>4. QED
        BY <1>1, <4>1, <4>2, <4>3 DEF TypeOK
    <3>2. TypeOK'
      BY <1>1, <2>2, <3>1 DEF TakeLock, Goto, TypeOK, Labels, streams, events, provider
    <3>3. Captured' /\ ForegroundTyped'
      BY <1>1, <2>2, <3>1 DEF TakeLock, Goto, TypeOK, Captured, ForegroundTyped, events
    <3>4. QED
      BY <3>2, <3>3 DEF TypeInv
  <2>3. QED
    BY <1>7, <2>1, <2>2 DEF Rewind
<1>8. CASE Close(o)
  <2>1. cur \in Objs /\ objs[cur].waiters \subseteq Ops
    BY <1>2, <1>8 DEF Close, Agent
  <2>2. objs' = [objs EXCEPT ![cur] = [objs[cur] EXCEPT !.subscribed = FALSE, !.waiters = {}]]
    BY <1>1, <1>8, <2>1 DEF Close, TypeOK
  <2>3. [objs[cur] EXCEPT !.subscribed = FALSE, !.waiters = {}] \in Agent
    BY <1>2, <1>8, <2>1 DEF Close, Agent
  <2>4. objs' \in [Objs -> Agent]
    BY <1>1, <2>1, <2>2, <2>3 DEF TypeOK
  <2>5. op' \in [Ops -> Call] /\ pc' \in [Ops -> Labels]
    <3>1. op[o] \in Call
      BY <1>1 DEF TypeOK
    <3>2. [op[o] EXCEPT !.kind = "close"] \in Call
      BY <3>1 DEF Call, AllKinds
    <3>3. op' = [op EXCEPT ![o] = [op[o] EXCEPT !.kind = "close"]]
      BY <1>1, <1>8 DEF Close, TypeOK
    <3>4. QED
      BY <1>1, <1>8, <3>2, <3>3 DEF Close, Goto, TypeOK, Labels
  <2>6. TypeOK'
    BY <1>1, <1>8, <2>1, <2>4, <2>5 DEF Close, SettleAnyRun, TypeOK, events, provider
  <2>7. Captured' /\ ForegroundTyped'
    BY <1>1, <1>8 DEF Close, Goto, TypeOK, Captured, ForegroundTyped, events
  <2>8. QED
    BY <2>6, <2>7 DEF TypeInv
<1>9. CASE Reload(o)
  <2>1. CASE BeginCancel(o, "reload") /\ UNCHANGED <<objs, prevStatus>>
    BY <1>3, <1>9, <2>1, TypeBeginCancel DEF Reload, ObjsTyped, AllKinds
  <2>2. CASE BeginReload(o)
    BY <1>9, <2>2, TypeBeginReload DEF Reload
  <2>3. QED
    BY <1>9, <2>1, <2>2 DEF Reload
<1>10. CASE Open(o)
  <2>1. op' \in [Ops -> Call] /\ pc' \in [Ops -> Labels]
    <3>1. op[o] \in Call
      BY <1>1 DEF TypeOK
    <3>2. [op[o] EXCEPT !.kind = "open"] \in Call
      BY <3>1 DEF Call, AllKinds
    <3>3. op' = [op EXCEPT ![o] = [op[o] EXCEPT !.kind = "open"]]
      BY <1>1, <1>10 DEF Open, TypeOK
    <3>4. QED
      BY <1>1, <1>10, <3>2, <3>3 DEF Open, Goto, TypeOK, Labels
  <2>2. TypeOK'
    BY <1>1, <1>10, <2>1 DEF Open, TypeOK, slot, streams, events, provider
  <2>3. Captured' /\ ForegroundTyped'
    BY <1>1, <1>10 DEF Open, Goto, TypeOK, Captured, ForegroundTyped, events
  <2>4. QED
    BY <2>2, <2>3 DEF TypeInv
<1>11. CASE \E p \in Perms : Respond(o, p)
  <2>1. PICK p \in Perms : Respond(o, p)
    BY <1>11
  <2>2. cur \in Objs /\ objs[cur] \in Agent
    BY <1>2, <2>1 DEF Respond
  <2>3. objs' = [objs EXCEPT ![cur] = [objs[cur] EXCEPT !.inFlight = @ \cup {p}]]
    BY <1>1, <2>1, <2>2 DEF Respond, TypeOK
  <2>4. [objs[cur] EXCEPT !.inFlight = @ \cup {p}] \in Agent
    BY <2>2 DEF Agent
  <2>5. objs' \in [Objs -> Agent]
    BY <1>1, <2>3, <2>4 DEF TypeOK
  <2>6. op' \in [Ops -> Call] /\ pc' \in [Ops -> Labels]
    <3>1. op[o] \in Call
      BY <1>1 DEF TypeOK
    <3>2. [op[o] EXCEPT !.kind = "respond", !.obj = cur, !.perm = p] \in Call
      BY <3>1, <2>2 DEF Call, AllKinds
    <3>3. op' = [op EXCEPT ![o] = [op[o] EXCEPT !.kind = "respond", !.obj = cur, !.perm = p]]
      BY <1>1, <2>1 DEF Respond, TypeOK
    <3>4. QED
      BY <1>1, <2>1, <3>2, <3>3 DEF Respond, Goto, TypeOK, Labels
  <2>7. TypeOK'
    BY <1>1, <2>1, <2>5, <2>6 DEF Respond, TypeOK, slot, streams, events, provider
  <2>8. Captured' /\ ForegroundTyped'
    BY <1>1, <2>1, <2>2 DEF Respond, Goto, TypeOK, Captured, ForegroundTyped, events
  <2>9. QED
    BY <2>7, <2>8 DEF TypeInv
<1>12. QED
  BY <1>4, <1>5, <1>6, <1>7, <1>8, <1>9, <1>10, <1>11 DEF Begin

\* The part of TypeOK that the slot and the streams are.
FlagsTyped == /\ pending \in Ops \cup {None} /\ settled \subseteq Ops
              /\ wsettled \subseteq Ops /\ ends \subseteq Ops /\ forced \subseteq Ops

\* A call goes on; objects, slot and streams may change.
LEMMA TypeMove ==
    ASSUME TypeInv, ObjsTyped', FlagsTyped', NEW o \in Ops, NEW l \in Labels,
           Goto(o, l), pc[o] \notin {"idle", "closing", "registering", "done"},
           UNCHANGED <<cur, op, queue, busy, provider>>
    PROVE  TypeInv'
<1>1. TypeOK /\ Captured /\ ForegroundTyped
  BY DEF TypeInv
<1>2. pc' \in [Ops -> Labels]
  BY <1>1 DEF Goto, TypeOK
<1>3. TypeOK'
  BY <1>1, <1>2 DEF TypeOK, ObjsTyped, FlagsTyped, provider
<1>4. Captured' /\ ForegroundTyped'
  BY <1>1 DEF Goto, TypeOK, Captured, ForegroundTyped
<1>5. QED
  BY <1>3, <1>4 DEF TypeInv

\* The object of a call that goes on.
LEMMA CapturedObject ==
    ASSUME TypeInv, NEW o \in Ops, pc[o] \notin {"idle", "closing", "registering", "done"}
    PROVE  op[o].obj \in Objs /\ objs[op[o].obj] \in Agent
BY DEF TypeInv, TypeOK, Captured

\* Settling a run gives the slot back or leaves it alone.
LEMMA SettleRunTyped ==
    ASSUME TypeOK, NEW o \in Ops, SettleRun(o)
    PROVE  pending' \in Ops \cup {None} /\ settled' \subseteq Ops
BY DEF SettleRun, TypeOK

\* The steps of a prompt's run.
LEMMA TypeRunSteps ==
    ASSUME TypeInv, NEW o \in Ops,
           StartFailed(o) \/ Drain(o) \/ Refresh(o) \/ StartResolves(o)
    PROVE  TypeInv'
<1> DEFINE g == op[o].obj
<1>1. TypeOK
  BY DEF TypeInv
<1>2. /\ pc[o] \notin {"idle", "closing", "registering", "done"}
      /\ g \in Objs /\ objs[g] \in Agent
  BY CapturedObject DEF StartFailed, Drain, Refresh, StartResolves
<1>3. prevStatus \in Lifecycles \cup {"closed", "none"}
  BY <1>1 DEF TypeOK
<1>4. CASE StartFailed(o)
  <2> DEFINE cleared == [objs[g] EXCEPT !.perms = {}]
             reported == Attend(cleared, prevStatus)
             final == Finalized(reported, {})
  <2>1. cleared \in Agent
    BY <1>2 DEF Agent
  <2>2. reported \in Agent
    BY <2>1, AttendMarks, MarkedAgent
  <2>3. final \in Agent
    BY <2>2, FinalizedAgent
  <2>4. Attend(final, reported.lifecycle) \in Agent
    BY <2>3, AttendMarks, MarkedAgent
  <2> HIDE DEF reported, final
  <2>5. /\ \/ objs' = [objs EXCEPT ![g] = final]
           \/ objs' = [objs EXCEPT ![g] = Attend(final, reported.lifecycle)]
        /\ prevStatus' \in {reported.lifecycle, final.lifecycle}
    BY <1>4 DEF StartFailed, reported, final
  <2>6. ObjsTyped'
    <3>1. reported.lifecycle \in Lifecycles /\ final.lifecycle \in Lifecycles
      BY <2>2, <2>3 DEF Agent
    <3>2. QED
      BY <1>1, <2>3, <2>4, <2>5, <3>1 DEF TypeOK, ObjsTyped
  <2>7. FlagsTyped'
    <3>1. SettleRun(o) /\ UNCHANGED <<streams, forced>>
      BY <1>4 DEF StartFailed, events
    <3>2. QED
      BY <1>1, <3>1, SettleRunTyped DEF TypeOK, FlagsTyped, streams
  <2>8. QED
    BY <1>2, <1>4, <2>6, <2>7, TypeMove DEF StartFailed, events, Labels
<1>5. CASE Drain(o)
  <2>1. [objs[g] EXCEPT !.waiters = @ \ {o}] \in Agent
    BY <1>2 DEF Agent
  <2>2. objs' = [objs EXCEPT ![g] = [objs[g] EXCEPT !.waiters = @ \ {o}]]
    BY <1>1, <1>2, <1>5 DEF Drain, TypeOK
  <2>3. ObjsTyped'
    BY <1>1, <1>5, <2>1, <2>2 DEF Drain, TypeOK, ObjsTyped
  <2>4. FlagsTyped'
    BY <1>1, <1>5, SettleRunTyped DEF Drain, TypeOK, FlagsTyped, events
  <2>5. QED
    BY <1>2, <1>5, <2>3, <2>4, TypeMove DEF Drain, events, Labels
<1>6. CASE Refresh(o)
  <2>1. PICK changed \in BOOLEAN : Store(g, objs[g], changed)
    BY <1>6 DEF Refresh
  <2>2. ObjsTyped'
    BY <1>1, <1>2, <2>1, StoreType
  <2>3. FlagsTyped'
    BY <1>1, <1>6 DEF Refresh, TypeOK, FlagsTyped, slot, streams, events
  <2>4. QED
    BY <1>2, <1>6, <2>2, <2>3, TypeMove DEF Refresh, events, Labels
<1>7. CASE StartResolves(o)
  <2> DEFINE a == [objs[g] EXCEPT !.active = o, !.lifecycle = "running",
                                  !.waiters = @ \cup {o}]
  <2>1. a \in Agent
    BY <1>2 DEF Agent, Lifecycles
  <2>2. Store(g, a, TRUE)
    BY <1>7 DEF StartResolves
  <2>3. ObjsTyped'
    BY <1>1, <1>2, <2>1, <2>2, StoreType
  <2>4. FlagsTyped'
    BY <1>1, <1>7 DEF StartResolves, TypeOK, FlagsTyped, slot, streams, events
  <2>5. QED
    BY <1>2, <1>7, <2>3, <2>4, TypeMove DEF StartResolves, events, Labels
<1>8. QED
  BY <1>4, <1>5, <1>6, <1>7

\* startTurn throws: the catch block of streamAgent.
LEMMA TypeStartThrows ==
    ASSUME TypeInv, NEW o \in Ops, StartThrows(o)
    PROVE  TypeInv'
<1> DEFINE g == op[o].obj
           a == [objs[g] EXCEPT !.lifecycle = "error", !.err = TRUE]
<1>1. TypeOK /\ Captured /\ ForegroundTyped
  BY DEF TypeInv
<1>2. g \in Objs /\ objs[g] \in Agent
  BY CapturedObject DEF StartThrows
<1>3. a \in Agent
  BY <1>2 DEF Agent, Lifecycles
<1>4. objs' = [objs EXCEPT ![g] = a]
  BY <1>1, <1>2 DEF StartThrows, TypeOK
<1>5. objs' \in [Objs -> Agent]
  BY <1>1, <1>3, <1>4 DEF TypeOK
<1>6. /\ sturn' \in [Ops -> {"none", "open", "announced", "ended"}]
      /\ pc' \in [Ops -> Labels]
  BY <1>1 DEF StartThrows, Goto, TypeOK, Labels
<1>7. TypeOK'
  BY <1>1, <1>5, <1>6 DEF StartThrows, TypeOK, slot, streams, events
<1>8. Captured' /\ ForegroundTyped'
  BY <1>1, <1>2 DEF StartThrows, Goto, TypeOK, Captured, ForegroundTyped, events
<1>9. QED
  BY <1>7, <1>8 DEF TypeInv

\* The steps of a cancellation.
LEMMA TypeCancelSteps ==
    ASSUME TypeInv, NEW o \in Ops, Interrupted(o) \/ AfterWait(o) \/ StaleSettled(o)
    PROVE  TypeInv'
<1> DEFINE g == op[o].obj
           t == op[o].turn
           a == objs[g]
<1>1. TypeOK /\ Captured /\ ForegroundTyped
  BY DEF TypeInv
<1>2. /\ pc[o] \notin {"idle", "closing", "registering", "done"}
      /\ g \in Objs /\ a \in Agent
  BY CapturedObject DEF Interrupted, AfterWait, StaleSettled
<1>3. Cleared(a) \in Agent
  BY <1>2 DEF Cleared, Agent
<1>4. CASE Interrupted(o)
  BY <1>1, <1>2, <1>4, TypeMove
     DEF Interrupted, TypeOK, ObjsTyped, FlagsTyped, slot, streams, events, Labels
<1>5. CASE StaleSettled(o)
  <2>1. ObjsTyped'
    BY <1>1, <1>2, <1>3, <1>5, StoreType DEF StaleSettled
  <2>2. FlagsTyped'
    BY <1>1, <1>5 DEF StaleSettled, TypeOK, FlagsTyped, slot, streams, events
  <2>3. QED
    BY <1>2, <1>5, <2>1, <2>2, TypeMove DEF StaleSettled, AfterCancel, events, Labels
<1>6. CASE AfterWait(o)
  <2> DEFINE canceled == [a EXCEPT !.err = FALSE, !.perms = {}]
  <2>1. canceled \in Agent
    BY <1>2 DEF Agent
  <2>2. op[o] \in Call
    BY <1>1 DEF TypeOK
  <2>3. Stuck(o) => Finalized(canceled, {t}) \in Agent
    BY <2>1, <2>2, FinalizedAgent DEF Stuck, Call
  <2>4. \/ Stuck(o) /\ Store(g, Finalized(canceled, {t}), ~a.replacing)
        \/ Store(g, Cleared(a), a.perms # {})
    BY <1>6 DEF AfterWait
  <2>5. ObjsTyped'
    BY <1>1, <1>2, <1>3, <2>3, <2>4, StoreType
  <2>6. forced' \subseteq Ops
    BY <1>1, <1>2, <1>6 DEF AfterWait, Matching, TypeOK, Agent
  <2>7. FlagsTyped'
    BY <1>1, <1>6, <2>6 DEF AfterWait, TypeOK, FlagsTyped, slot, streams
  <2>8. CASE AfterCancel(o) /\ UNCHANGED op
    BY <1>2, <1>6, <2>5, <2>7, <2>8, TypeMove DEF AfterWait, AfterCancel, Labels
  <2>9. CASE Goto(o, "stale") /\ op' = [op EXCEPT ![o].run = pending]
    <3>1. [op[o] EXCEPT !.run = pending] \in Call /\ [op[o] EXCEPT !.run = pending].obj \in Objs
      BY <1>1, <1>2, <2>2 DEF TypeOK, Call
    <3>2. op' = [op EXCEPT ![o] = [op[o] EXCEPT !.run = pending]]
      BY <1>1, <2>9 DEF TypeOK
    <3>3. op' \in [Ops -> Call] /\ pc' \in [Ops -> Labels]
      BY <1>1, <2>9, <3>1, <3>2 DEF Goto, TypeOK, Labels
    <3>4. TypeOK'
      BY <1>1, <1>6, <2>5, <2>7, <3>3 DEF AfterWait, TypeOK, ObjsTyped, FlagsTyped, provider
    <3>5. Captured' /\ ForegroundTyped'
      BY <1>1, <1>6, <2>9, <3>1, <3>2 DEF AfterWait, Goto, TypeOK, Captured, ForegroundTyped
    <3>6. QED
      BY <3>4, <3>5 DEF TypeInv
  <2>10. QED
    BY <1>6, <2>8, <2>9 DEF AfterWait
<1>7. QED
  BY <1>4, <1>5, <1>6

\* The steps of a replacement and of a rewind after their cancellation.
LEMMA TypeResumes ==
    ASSUME TypeInv, NEW o \in Ops,
           ReplaceResumes(o) \/ ReplaceCatch(o) \/ RewindResumes(o) \/ Rewound(o)
    PROVE  TypeInv'
<1> DEFINE g == op[o].obj
<1>1. TypeOK /\ ObjsTyped
  BY DEF TypeInv, TypeOK, ObjsTyped
<1>2. /\ pc[o] \notin {"idle", "closing", "registering", "done"}
      /\ g \in Objs /\ objs[g] \in Agent
  BY CapturedObject DEF ReplaceResumes, ReplaceCatch, RewindResumes, Rewound
<1>3. CASE ReplaceResumes(o)
  <2>1. CASE StreamAgent(o, "replace")
    BY <2>1, TypeStreamAgent DEF AllKinds
  <2>2. CASE /\ Goto(o, "catch")
             /\ UNCHANGED <<cur, objs, prevStatus, slot, streams, op, events, provider>>
    <3>1. ObjsTyped' /\ FlagsTyped'
      BY <1>1, <2>2 DEF TypeOK, ObjsTyped, FlagsTyped, slot, streams, events
    <3>2. QED
      BY <1>2, <2>2, <3>1, TypeMove DEF events, Labels
  <2>3. QED
    BY <1>3, <2>1, <2>2 DEF ReplaceResumes
<1>4. CASE ReplaceCatch(o)
  <2> DEFINE a == [objs[cur] EXCEPT !.replacing = FALSE]
             drop == a.active = None /\ a.lifecycle = "running"
  <2>1. ObjsTyped'
    <3>1. CASE cur = None
      BY <1>1, <1>4, <3>1 DEF ReplaceCatch, ObjsTyped
    <3>2. CASE cur # None
      <4>1. cur \in Objs /\ objs[cur] \in Agent
        BY <1>1, <3>2 DEF TypeOK
      <4>2. a \in Agent /\ [a EXCEPT !.lifecycle = "idle"] \in Agent
        BY <4>1 DEF Agent, Lifecycles
      <4>3. \/ Store(cur, [a EXCEPT !.lifecycle = "idle"], drop)
            \/ Store(cur, a, drop)
        BY <1>4, <3>2 DEF ReplaceCatch
      <4>4. QED
        BY <1>1, <4>1, <4>2, <4>3, StoreType
    <3>3. QED
      BY <3>1, <3>2
  <2>2. FlagsTyped'
    BY <1>1, <1>4 DEF ReplaceCatch, TypeOK, FlagsTyped, slot, streams, events
  <2>3. QED
    BY <1>2, <1>4, <2>1, <2>2, TypeMove DEF ReplaceCatch, events, Labels
<1>5. CASE RewindResumes(o)
  <2>1. ObjsTyped' /\ FlagsTyped'
    BY <1>1, <1>5 DEF RewindResumes, TakeLock, TypeOK, ObjsTyped, FlagsTyped, streams, events
  <2>2. QED
    BY <1>2, <1>5, <2>1, TypeMove DEF RewindResumes, TakeLock, events, Labels
<1>6. CASE Rewound(o)
  <2>1. PICK ok \in BOOLEAN : Store(g, objs[g], ok)
    BY <1>6 DEF Rewound
  <2>2. ObjsTyped'
    BY <1>1, <1>2, <2>1, StoreType
  <2>3. FlagsTyped'
    BY <1>1, <1>6, SettleRunTyped DEF Rewound, TypeOK, FlagsTyped, streams, events
  <2>4. QED
    BY <1>2, <1>6, <2>2, <2>3, TypeMove DEF Rewound, events, Labels
<1>7. QED
  BY <1>3, <1>4, <1>5, <1>6

\* The steps of closeAgent, reloadAgentSession and registerSession.
LEMMA TypeRegistration ==
    ASSUME TypeInv, NEW o \in Ops,
           \/ ReloadResumes(o) \/ Swap(o) \/ Closed(o) \/ OldClosed(o)
           \/ Register(o) \/ RegisterIdle(o) \/ RegisterSubscribe(o)
    PROVE  TypeInv'
<1> DEFINE g == op[o].obj
<1>1. TypeOK /\ Captured /\ ForegroundTyped /\ ObjsTyped /\ FlagsTyped
  BY DEF TypeInv, TypeOK, ObjsTyped, FlagsTyped
<1>2. pc[o] \notin {"idle", "closing", "registering", "done"} =>
        g \in Objs /\ objs[g] \in Agent
  BY CapturedObject
<1>3. CASE ReloadResumes(o)
  <2>1. CASE cur # None /\ BeginReload(o)
    BY <2>1, TypeBeginReload
  <2>2. CASE /\ Goto(o, "done")
             /\ UNCHANGED <<cur, objs, prevStatus, slot, streams, op, events, provider>>
    <3>1. ObjsTyped' /\ FlagsTyped'
      BY <1>1, <2>2 DEF ObjsTyped, FlagsTyped, slot, streams, events
    <3>2. QED
      BY <1>3, <2>2, <3>1, TypeMove DEF ReloadResumes, events, Labels
  <2>3. QED
    BY <1>3, <2>1, <2>2 DEF ReloadResumes
<1>4. CASE Swap(o)
  <2>1. pc[o] = "resuming" /\ g \in Objs /\ objs[g] \in Agent
    BY <1>2, <1>4 DEF Swap
  <2>2. CASE Goto(o, "done") /\ UNCHANGED <<cur, objs, slot, wsettled>>
    <3>1. ObjsTyped' /\ FlagsTyped'
      BY <1>1, <1>4, <2>2 DEF Swap, ObjsTyped, FlagsTyped, slot, events
    <3>2. QED
      BY <1>4, <2>1, <2>2, <3>1, TypeMove DEF Swap, events, Labels
  <2>3. CASE /\ cur' = None
             /\ objs' = [objs EXCEPT ![g].subscribed = FALSE, ![g].waiters = {}]
             /\ wsettled' = wsettled \cup objs[g].waiters
             /\ SettleAnyRun
             /\ Goto(o, "closingOld")
    <3>1. [objs[g] EXCEPT !.subscribed = FALSE, !.waiters = {}] \in Agent
          /\ objs[g].waiters \subseteq Ops
      BY <2>1 DEF Agent
    <3>2. objs' = [objs EXCEPT ![g] = [objs[g] EXCEPT !.subscribed = FALSE, !.waiters = {}]]
      BY <1>1, <2>1, <2>3 DEF TypeOK
    <3>3. objs' \in [Objs -> Agent] /\ pc' \in [Ops -> Labels]
      BY <1>1, <2>3, <3>1, <3>2 DEF TypeOK, Goto, Labels
    <3>4. TypeOK'
      BY <1>1, <1>4, <2>3, <3>1, <3>3 DEF Swap, SettleAnyRun, TypeOK, events, provider
    <3>5. Captured' /\ ForegroundTyped'
      BY <1>1, <1>4, <2>1, <2>3 DEF Swap, Goto, TypeOK, Captured, ForegroundTyped, events
    <3>6. QED
      BY <3>4, <3>5 DEF TypeInv
  <2>4. QED
    BY <1>4, <2>2, <2>3 DEF Swap
<1>5. CASE Closed(o)
  <2>1. TypeOK'
    BY <1>1, <1>5 DEF Closed, Goto, TypeOK, Labels, slot, streams, events, provider
  <2>2. Captured' /\ ForegroundTyped'
    BY <1>1, <1>5 DEF Closed, Goto, TypeOK, Captured, ForegroundTyped, events
  <2>3. QED
    BY <2>1, <2>2 DEF TypeInv
<1>6. CASE OldClosed(o)
  <2>1. ObjsTyped' /\ FlagsTyped'
    BY <1>1, <1>6 DEF OldClosed, ObjsTyped, FlagsTyped, slot, streams, events
  <2>2. QED
    BY <1>6, <2>1, TypeMove DEF OldClosed, events, Labels
<1>7. CASE Register(o)
  <2>1. op[o] \in Call /\ o \in Objs
    BY <1>1 DEF TypeOK, Objs
  <2>2. op[o].saved \in [err: BOOLEAN, attention: Attentions]
    BY <2>1 DEF Call
  <2>3. NewAgent(op[o].saved) \in Agent
    BY <2>2, NewAgentType
  <2>4. [op[o] EXCEPT !.obj = o] \in Call
    BY <2>1 DEF Call
  <2>5. op' = [op EXCEPT ![o] = [op[o] EXCEPT !.obj = o]]
    BY <1>1, <1>7 DEF Register, TypeOK
  <2>6. /\ objs' \in [Objs -> Agent] /\ op' \in [Ops -> Call]
        /\ pc' \in [Ops -> Labels] /\ prevStatus' \in Lifecycles
    BY <1>1, <1>7, <2>3, <2>4, <2>5 DEF Register, Goto, TypeOK, Labels, Lifecycles
  <2>7. TypeOK'
    BY <1>1, <1>7, <2>1, <2>6 DEF Register, TypeOK, slot, streams, events, provider
  <2>8. Captured' /\ ForegroundTyped'
    BY <1>1, <1>7, <2>1, <2>5 DEF Register, Goto, TypeOK, Call, Captured, ForegroundTyped, events
  <2>9. QED
    BY <2>7, <2>8 DEF TypeInv
<1>8. CASE RegisterIdle(o)
  <2>1. o \in Objs /\ objs[o] \in Agent /\ sperms[o] \subseteq Perms
    BY <1>1 DEF TypeOK, Objs
  <2>2. [objs[o] EXCEPT !.lifecycle = "idle", !.perms = sperms[o]] \in Agent
    BY <2>1 DEF Agent, Lifecycles
  <2>3. objs' = [objs EXCEPT ![o] = [objs[o] EXCEPT !.lifecycle = "idle", !.perms = sperms[o]]]
    BY <1>1, <1>8, <2>1 DEF RegisterIdle, TypeOK
  <2>4. ObjsTyped' /\ FlagsTyped'
    BY <1>1, <1>8, <2>2, <2>3 DEF RegisterIdle, TypeOK, ObjsTyped, FlagsTyped, slot, streams, events
  <2>5. QED
    BY <1>8, <2>4, TypeMove DEF RegisterIdle, events, Labels
<1>9. CASE RegisterSubscribe(o)
  <2>1. o \in Objs /\ objs[o] \in Agent
    BY <1>1 DEF TypeOK, Objs
  <2>2. [objs[o] EXCEPT !.subscribed = TRUE] \in Agent
    BY <2>1 DEF Agent
  <2>3. ObjsTyped'
    BY <1>1, <1>9, <2>1, <2>2, StoreType DEF RegisterSubscribe
  <2>4. FlagsTyped'
    BY <1>1, <1>9 DEF RegisterSubscribe, FlagsTyped, slot, streams, events
  <2>5. QED
    BY <1>9, <2>3, <2>4, TypeMove DEF RegisterSubscribe, events, Labels
<1>10. QED
  BY <1>3, <1>4, <1>5, <1>6, <1>7, <1>8, <1>9

\* The steps of respondToPermission.
LEMMA TypeResponse ==
    ASSUME TypeInv, NEW o \in Ops, Responded(o) \/ Refreshed(o) \/ Persisted(o)
    PROVE  TypeInv'
<1> DEFINE g == op[o].obj
           p == op[o].perm
           a == objs[g]
<1>1. TypeOK /\ ObjsTyped /\ FlagsTyped
  BY DEF TypeInv, TypeOK, ObjsTyped, FlagsTyped
<1>2. /\ pc[o] \notin {"idle", "closing", "registering", "done"}
      /\ g \in Objs /\ a \in Agent
  BY CapturedObject DEF Responded, Refreshed, Persisted
<1>3. sperms[g] \subseteq Perms
  BY <1>1, <1>2 DEF TypeOK
<1>4. FlagsTyped'
  BY <1>1 DEF Responded, Refreshed, Persisted, FlagsTyped, slot, streams, events
<1>5. /\ [a EXCEPT !.perms = @ \ {p}] \in Agent
      /\ [a EXCEPT !.inFlight = @ \ {p}, !.buffered = @ \ {p}] \in Agent
      /\ [a EXCEPT !.perms = sperms[g]] \in Agent
  BY <1>2, <1>3 DEF Agent
<1>6. CASE Responded(o)
  <2>1. \/ objs' = [objs EXCEPT ![g] = [a EXCEPT !.perms = @ \ {p}]]
        \/ objs' = [objs EXCEPT ![g] = [a EXCEPT !.inFlight = @ \ {p}, !.buffered = @ \ {p}]]
    BY <1>1, <1>2, <1>6 DEF Responded, TypeOK
  <2>2. ObjsTyped'
    BY <1>1, <1>5, <1>6, <2>1 DEF Responded, ObjsTyped
  <2>3. QED
    BY <1>2, <1>4, <1>6, <2>2, TypeMove DEF Responded, events, Labels
<1>7. CASE Refreshed(o)
  <2>1. objs' = [objs EXCEPT ![g] = [a EXCEPT !.perms = sperms[g]]]
    BY <1>1, <1>2, <1>7 DEF Refreshed, TypeOK
  <2>2. ObjsTyped'
    BY <1>1, <1>5, <1>7, <2>1 DEF Refreshed, ObjsTyped
  <2>3. QED
    BY <1>2, <1>4, <1>7, <2>2, TypeMove DEF Refreshed, events, Labels
<1>8. CASE Persisted(o)
  <2>1. ObjsTyped'
    BY <1>1, <1>2, <1>5, <1>8, StoreType DEF Persisted
  <2>2. QED
    BY <1>2, <1>4, <1>8, <2>1, TypeMove DEF Persisted, events, Labels
<1>9. QED
  BY <1>6, <1>7, <1>8

\* The tag of an event is a turn or a permission request, as its type says.
LEMMA EventTag ==
    ASSUME NEW e \in Event
    PROVE  /\ e.type \in TerminalTypes \cup {"started"} => e.turn \in Ops \cup {AutoTurn}
           /\ e.type \in {"permission_requested", "permission_resolved"} => e.turn \in Perms
BY DEF Event, TerminalTypes

\* The event that is received, and the object it is dispatched to.
LEMMA Received ==
    ASSUME TypeInv, NEW type, Receives(type)
    PROVE  /\ Head(queue) \in Event /\ Head(queue).type = type
           /\ cur \in Objs /\ cur # None /\ objs[cur] \in Agent
           /\ type \in TerminalTypes \cup {"started"} =>
                /\ Head(queue).turn \in Ops \cup {AutoTurn}
                /\ Foreground => Head(queue).turn \in Ops
<1>1. TypeOK /\ queue \in Seq(Event) /\ queue # <<>>
  BY DEF TypeInv, TypeOK, Receives
<1>2. Head(queue) \in Event
  BY <1>1
<1>3. Head(queue).type = type /\ cur \in Objs /\ cur # None /\ objs[cur] \in Agent
  BY <1>1 DEF Receives, TypeOK
<1>4. objs[cur].active \in Ops \cup {None}
  BY <1>3 DEF Agent
<1>5. QED
  BY <1>2, <1>3, <1>4, EventTag, NamesAssumption DEF Foreground

\* The first event of the queue goes to the object it is dispatched to.
LEMMA TypeReceive ==
    ASSUME TypeInv, NEW type, Receives(type), ObjsTyped',
           busy' \in Dispatch \cup {NoEvent}, ForegroundTyped'
    PROVE  TypeInv'
<1>1. TypeOK /\ Captured
  BY DEF TypeInv
<1>2. queue' \in Seq(Event)
  <2>1. queue \in Seq(Event) /\ queue # <<>> /\ queue' = Tail(queue)
    BY <1>1 DEF TypeOK, Receives
  <2>2. QED
    BY <2>1
<1>3. TypeOK'
  BY <1>1, <1>2 DEF Receives, TypeOK, ObjsTyped, slot, streams, provider
<1>4. Captured'
  BY <1>1 DEF Receives, Captured
<1>5. QED
  BY <1>3, <1>4 DEF TypeInv

\* The chain is free, or at a step of the handling of an event.
LEMMA TypeDispatching ==
    ASSUME TypeInv, NEW type \in TerminalTypes \cup {"started"}, Receives(type),
           NEW phase \in {"append", "notify"}, Dispatching(phase)
    PROVE  busy' \in Dispatch /\ ForegroundTyped'
<1> DEFINE e == Head(queue)
           to == Matching(objs[cur], e.turn)
<1>1. /\ e \in Event /\ cur \in Objs /\ objs[cur] \in Agent
      /\ Foreground => e.turn \in Ops
  BY Received
<1>2. to \subseteq Ops
  BY <1>1 DEF Matching, Agent
<1>3. busy' = [phase |-> phase, e |-> e, g |-> cur, fg |-> Foreground, to |-> to]
  BY DEF Dispatching
<1>4. Foreground \in BOOLEAN
  BY DEF Foreground
<1> HIDE DEF e, to
<1>5. busy' \in Dispatch
  BY <1>1, <1>2, <1>3, <1>4 DEF Dispatch
<1>6. busy'.fg = Foreground /\ busy'.e = e
  BY <1>3
<1>7. ForegroundTyped'
  BY <1>1, <1>6 DEF ForegroundTyped
<1>8. QED
  BY <1>5, <1>7

\* Ending a turn, with and without foreground turn.
LEMMA TypeTerminate ==
    ASSUME TypeOK, NEW g \in Objs, NEW a \in Agent, NEW fg, NEW turn, NEW emit,
           fg => turn \in Ops, Terminate(g, a, fg, turn, emit)
    PROVE  ObjsTyped'
<1>1. CASE fg
  BY <1>1, FinalizedAgent, StoreType DEF Terminate
<1>2. CASE ~fg
  BY <1>2, StoreType DEF Terminate
<1>3. QED
  BY <1>1, <1>2

\* The event chain.
LEMMA TypeChain ==
    ASSUME TypeInv, Chain
    PROVE  TypeInv'
<1> DEFINE e == Head(queue)
           a == objs[cur]
<1>1. TypeOK /\ Captured /\ ForegroundTyped /\ ObjsTyped
  BY DEF TypeInv, TypeOK, ObjsTyped
<1>2. CASE EventDropped
  <2>1. queue \in Seq(Event) /\ queue # <<>> /\ queue' = Tail(queue)
    BY <1>1, <1>2 DEF TypeOK, EventDropped
  <2>2. queue' \in Seq(Event)
    BY <2>1
  <2>3. TypeOK' /\ Captured' /\ ForegroundTyped'
    BY <1>1, <1>2, <2>2 DEF EventDropped, TypeOK, Captured, ForegroundTyped, slot, streams, provider
  <2>4. QED
    BY <2>3 DEF TypeInv
<1>3. CASE TurnStarted
  <2>1. Receives("started") /\ cur \in Objs /\ a \in Agent
    BY <1>3, Received DEF TurnStarted
  <2>2. [a EXCEPT !.lifecycle = "running"] \in Agent
    BY <2>1 DEF Agent, Lifecycles
  <2>3. \/ Store(cur, a, ~Foreground)
        \/ Store(cur, [a EXCEPT !.lifecycle = "running"], ~Foreground)
    BY <1>3 DEF TurnStarted
  <2>4. ObjsTyped'
    BY <1>1, <2>1, <2>2, <2>3, StoreType
  <2>5. busy' \in Dispatch /\ ForegroundTyped'
    BY <1>3, <2>1, TypeDispatching DEF TurnStarted
  <2>6. QED
    BY <2>1, <2>4, <2>5, TypeReceive
<1>4. CASE TurnCompleted
  <2> DEFINE drop == BackgroundEnds(a) /\ a.lifecycle # "idle"
             b == [a EXCEPT !.err = FALSE,
                            !.lifecycle = IF drop THEN "idle" ELSE @]
  <2>1. Receives("completed") /\ cur \in Objs /\ a \in Agent
        /\ (Foreground => e.turn \in Ops)
    BY <1>4, Received DEF TurnCompleted, TerminalTypes
  <2>2. b \in Agent
    BY <2>1 DEF Agent, Lifecycles
  <2>3. Terminate(cur, b, Foreground, e.turn, drop)
    BY <1>4 DEF TurnCompleted
  <2>4. ObjsTyped'
    BY <1>1, <2>1, <2>2, <2>3, TypeTerminate
  <2>5. busy' \in Dispatch /\ ForegroundTyped'
    BY <1>4, <2>1, TypeDispatching DEF TurnCompleted, TerminalTypes
  <2>6. QED
    BY <2>1, <2>4, <2>5, TypeReceive
<1>5. CASE TurnCanceled
  <2> DEFINE b == [a EXCEPT !.err = FALSE, !.perms = {},
                            !.lifecycle = IF BackgroundEnds(a) THEN "idle" ELSE @]
  <2>1. Receives("canceled") /\ cur \in Objs /\ a \in Agent
        /\ (Foreground => e.turn \in Ops)
    BY <1>5, Received DEF TurnCanceled, TerminalTypes
  <2>2. b \in Agent
    BY <2>1 DEF Agent, Lifecycles
  <2>3. Terminate(cur, b, Foreground, e.turn, TRUE)
    BY <1>5 DEF TurnCanceled
  <2>4. ObjsTyped'
    BY <1>1, <2>1, <2>2, <2>3, TypeTerminate
  <2>5. busy' \in Dispatch /\ ForegroundTyped'
    BY <1>5, <2>1, TypeDispatching DEF TurnCanceled, TerminalTypes
  <2>6. QED
    BY <2>1, <2>4, <2>5, TypeReceive
<1>6. CASE TurnFailed
  <2> DEFINE b == [a EXCEPT !.err = TRUE, !.lifecycle = IF Foreground THEN @ ELSE "error"]
  <2>1. Receives("failed") /\ cur \in Objs /\ a \in Agent
    BY <1>6, Received DEF TurnFailed
  <2>2. b \in Agent
    BY <2>1 DEF Agent, Lifecycles
  <2>3. Store(cur, b, FALSE)
    BY <1>6 DEF TurnFailed
  <2>4. ObjsTyped'
    BY <1>1, <2>1, <2>2, <2>3, StoreType
  <2>5. busy' \in Dispatch /\ ForegroundTyped'
    BY <1>6, <2>1, TypeDispatching DEF TurnFailed, TerminalTypes
  <2>6. QED
    BY <2>1, <2>4, <2>5, TypeReceive
<1>7. CASE FailureAppended
  <2> DEFINE g == busy.g
             b == [objs[g] EXCEPT !.perms = {}]
  <2>1. busy \in Dispatch
    BY <1>1, <1>7 DEF FailureAppended, TypeOK, NoEvent
  <2>2. g \in Objs /\ objs[g] \in Agent /\ (busy.fg => busy.e.turn \in Ops)
    BY <1>1, <1>7, <2>1 DEF FailureAppended, TypeOK, Dispatch, ForegroundTyped, NoEvent
  <2>3. b \in Agent
    BY <2>2 DEF Agent
  <2>4. Terminate(g, b, busy.fg, busy.e.turn, TRUE)
    BY <1>7 DEF FailureAppended
  <2>5. ObjsTyped'
    BY <1>1, <2>2, <2>3, <2>4, TypeTerminate
  <2>6. busy' \in Dispatch /\ ForegroundTyped'
    BY <1>7, <2>1, <2>2 DEF FailureAppended, Dispatch, ForegroundTyped
  <2>7. TypeOK' /\ Captured'
    BY <1>1, <1>7, <2>5, <2>6 DEF FailureAppended, TypeOK, Captured, ObjsTyped, slot, streams, provider
  <2>8. QED
    BY <2>6, <2>7 DEF TypeInv
<1>8. CASE PermissionRequested
  <2>1. /\ Receives("permission_requested") /\ cur \in Objs /\ a \in Agent
        /\ e \in Event /\ e.type = "permission_requested"
    BY <1>8, Received DEF PermissionRequested
  <2>2. e.turn \in Perms
    BY <2>1, EventTag
  <2>3. [a EXCEPT !.perms = @ \cup {e.turn}] \in Agent
    BY <2>1, <2>2 DEF Agent
  <2>4. Store(cur, [a EXCEPT !.perms = @ \cup {e.turn}], TRUE)
    BY <1>8 DEF PermissionRequested
  <2>5. ObjsTyped'
    BY <1>1, <2>1, <2>3, <2>4, StoreType
  <2>6. busy' \in Dispatch \cup {NoEvent} /\ ForegroundTyped'
    BY <1>1, <1>8 DEF PermissionRequested, TypeOK, ForegroundTyped
  <2>7. QED
    BY <2>1, <2>5, <2>6, TypeReceive
<1>9. CASE PermissionResolved
  <2> DEFINE p == e.turn
             held == p \in a.inFlight
             b == [a EXCEPT !.perms = @ \ {p}, !.buffered = IF held THEN @ \cup {p} ELSE @]
  <2>1. /\ Receives("permission_resolved") /\ cur \in Objs /\ a \in Agent
        /\ e \in Event /\ e.type = "permission_resolved"
    BY <1>9, Received DEF PermissionResolved
  <2>2. p \in Perms
    BY <2>1, EventTag
  <2>3. b \in Agent
    BY <2>1, <2>2 DEF Agent
  <2>4. Store(cur, b, ~held)
    BY <1>9 DEF PermissionResolved
  <2>5. ObjsTyped'
    BY <1>1, <2>1, <2>3, <2>4, StoreType
  <2>6. busy' \in Dispatch \cup {NoEvent} /\ ForegroundTyped'
    BY <1>1, <1>9 DEF PermissionResolved, TypeOK, ForegroundTyped
  <2>7. QED
    BY <2>1, <2>5, <2>6, TypeReceive
<1>10. CASE Notify
  <2>1. busy \in Dispatch /\ busy' = NoEvent
    BY <1>1, <1>10 DEF Notify, TypeOK, NoEvent
  <2>2. ends' \subseteq Ops /\ wsettled' \subseteq Ops
    BY <1>1, <1>10, <2>1 DEF Notify, TypeOK, Dispatch
  <2>3. TypeOK' /\ Captured' /\ ForegroundTyped'
    BY <1>1, <1>10, <2>1, <2>2 DEF Notify, TypeOK, Captured, ForegroundTyped, slot, provider
  <2>4. QED
    BY <2>3 DEF TypeInv
<1>11. QED
  BY <1>2, <1>3, <1>4, <1>5, <1>6, <1>7, <1>8, <1>9, <1>10 DEF Chain

\* A forced cancellation notifies the waiters of its turn.
LEMMA TypeNotifyForced ==
    ASSUME TypeInv, NEW o \in Ops, NotifyForced(o)
    PROVE  TypeInv'
BY DEF TypeInv, NotifyForced, TypeOK, Captured, ForegroundTyped, slot, provider

\* An event the session emits is queued, or lost when nobody is subscribed.
LEMMA TypeEnqueue ==
    ASSUME TypeInv, NEW g, NEW type, NEW turn, [type |-> type, turn |-> turn] \in Event,
           Enqueue(g, type, turn),
           sturn' \in [Ops -> {"none", "open", "announced", "ended"}],
           sauto' \in [Objs -> BOOLEAN], autos' \in 0..MaxAuto,
           sperms' \in [Objs -> SUBSET Perms], asked' \subseteq Perms,
           dropped' \subseteq Perms
    PROVE  TypeInv'
<1>1. TypeOK /\ Captured /\ ForegroundTyped
  BY DEF TypeInv
<1>2. queue \in Seq(Event) /\ Append(queue, [type |-> type, turn |-> turn]) \in Seq(Event)
  <2>1. queue \in Seq(Event)
    BY <1>1 DEF TypeOK
  <2>2. QED
    BY <2>1, AppendType
<1>3. queue' \in Seq(Event)
  BY <1>2 DEF Enqueue
<1>4. TypeOK'
  BY <1>1, <1>3 DEF Enqueue, TypeOK, slot, streams
<1>5. Captured' /\ ForegroundTyped'
  BY <1>1 DEF Enqueue, Captured, ForegroundTyped
<1>6. QED
  BY <1>4, <1>5 DEF TypeInv

\* The provider session.
LEMMA TypeSession ==
    ASSUME TypeInv, Session
    PROVE  TypeInv'
<1>1. TypeOK
  BY DEF TypeInv
<1>2. CASE SessionAutoStarts
  <2>1. [type |-> "started", turn |-> AutoTurn] \in Event
    BY EventType
  <2>2. autos' \in 0..MaxAuto /\ sauto' \in [Objs -> BOOLEAN]
    BY <1>1, <1>2, BoundsAssumption DEF SessionAutoStarts, TypeOK
  <2>3. QED
    BY <1>1, <1>2, <2>1, <2>2, TypeEnqueue DEF SessionAutoStarts, TypeOK
<1>3. ASSUME NEW o \in Ops, SessionAnnounces(o)
      PROVE  TypeInv'
  <2>1. [type |-> "started", turn |-> o] \in Event
    BY EventType
  <2>2. sturn' \in [Ops -> {"none", "open", "announced", "ended"}]
    BY <1>1, <1>3 DEF SessionAnnounces, TypeOK
  <2>3. QED
    BY <1>1, <1>3, <2>1, <2>2, TypeEnqueue DEF SessionAnnounces, TypeOK
<1>4. ASSUME NEW o \in Ops, NEW outcome \in TerminalTypes, SessionEnds(o, outcome)
      PROVE  TypeInv'
  <2>1. [type |-> outcome, turn |-> o] \in Event
    BY EventType
  <2>2. sturn' \in [Ops -> {"none", "open", "announced", "ended"}]
    BY <1>1, <1>4 DEF SessionEnds, TypeOK
  <2>3. sperms' \in [Objs -> SUBSET Perms] /\ dropped' \subseteq Perms
    BY <1>1, <1>4 DEF SessionEnds, TypeOK
  <2>4. QED
    BY <1>1, <1>4, <2>1, <2>2, <2>3, TypeEnqueue DEF SessionEnds, TypeOK
<1>5. ASSUME NEW g \in Objs, NEW outcome \in TerminalTypes, SessionAutoEnds(g, outcome)
      PROVE  TypeInv'
  <2>1. [type |-> outcome, turn |-> AutoTurn] \in Event
    BY EventType
  <2>2. sauto' \in [Objs -> BOOLEAN]
    BY <1>1, <1>5 DEF SessionAutoEnds, TypeOK
  <2>3. QED
    BY <1>1, <1>5, <2>1, <2>2, TypeEnqueue DEF SessionAutoEnds, TypeOK
<1>6. ASSUME NEW o \in Ops, NEW p \in Perms, SessionAsks(o, p)
      PROVE  TypeInv'
  <2>1. [type |-> "permission_requested", turn |-> p] \in Event
    BY EventType
  <2>2. sperms' \in [Objs -> SUBSET Perms] /\ asked' \subseteq Perms
    BY <1>1, <1>6 DEF SessionAsks, TypeOK
  <2>3. QED
    BY <1>1, <1>6, <2>1, <2>2, TypeEnqueue DEF SessionAsks, TypeOK
<1>7. ASSUME NEW g \in Objs, NEW p \in Perms, SessionResolves(g, p)
      PROVE  TypeInv'
  <2>1. [type |-> "permission_resolved", turn |-> p] \in Event
    BY EventType
  <2>2. sperms' \in [Objs -> SUBSET Perms]
    BY <1>1, <1>7 DEF SessionResolves, TypeOK
  <2>3. QED
    BY <1>1, <1>7, <2>1, <2>2, TypeEnqueue DEF SessionResolves, TypeOK
<1>8. ASSUME NEW g \in Objs, NEW p \in Perms, SessionDrops(g, p)
      PROVE  TypeInv'
  <2>1. sperms' \in [Objs -> SUBSET Perms] /\ dropped' \subseteq Perms
    BY <1>1, <1>8 DEF SessionDrops, TypeOK
  <2>2. TypeOK'
    BY <1>1, <1>8, <2>1 DEF SessionDrops, TypeOK, slot, streams, events
  <2>3. Captured' /\ ForegroundTyped'
    BY <1>8 DEF SessionDrops, TypeInv, Captured, ForegroundTyped, events
  <2>4. QED
    BY <2>2, <2>3 DEF TypeInv
<1>9. QED
  BY <1>2, <1>3, <1>4, <1>5, <1>6, <1>7, <1>8 DEF Session

\* The deferred work of an emission: checkAndSetAttention.
LEMMA TypeEmission ==
    ASSUME TypeInv, StateEmitted \/ ClearAttention
    PROVE  TypeInv'
<1>1. TypeOK /\ Captured /\ ForegroundTyped
  BY DEF TypeInv
<1>2. cur \in Objs /\ objs[cur] \in Agent
  BY <1>1 DEF StateEmitted, ClearAttention, TypeOK
<1>3. [objs[cur] EXCEPT !.attention = "none"] \in Agent
  BY <1>2 DEF Agent, Attentions
<1>4. ObjsTyped'
  BY <1>1, <1>2, <1>3, StoreType DEF StateEmitted, ClearAttention
<1>5. UNCHANGED <<cur, slot, streams, pc, op, events, provider>>
  BY DEF StateEmitted, ClearAttention
<1>6. TypeOK' /\ Captured' /\ ForegroundTyped'
  BY <1>1, <1>4, <1>5
     DEF TypeOK, ObjsTyped, Captured, ForegroundTyped, slot, streams, events, provider
<1>7. QED
  BY <1>6 DEF TypeInv

\* Every step of the specification keeps the types.
LEMMA TypeNext ==
    ASSUME TypeInv, [Next]_vars
    PROVE  TypeInv'
<1>1. ASSUME NEW o \in Ops, Step(o)
      PROVE  TypeInv'
  BY <1>1, TypeRunSteps, TypeCancelSteps, TypeResumes, TypeRegistration,
     TypeResponse, TypeNotifyForced DEF Step
<1>2. ASSUME NEW o \in Ops, Answer(o)
      PROVE  TypeInv'
  BY <1>2, TypeRunSteps, TypeStartThrows, TypeResumes, TypeRegistration,
     TypeResponse DEF Answer
<1>3. CASE UNCHANGED vars
  BY <1>3 DEF TypeInv, TypeOK, Captured, ForegroundTyped, vars, slot, streams,
              events, provider
<1>4. QED
  BY <1>1, <1>2, <1>3, TypeBegin, TypeChain, TypeSession, TypeEmission DEF Next

\* The state has its type in every reachable state, and each call that holds an
\* object holds one that was registered; for every value of the constants.
THEOREM TypeInvariant == Spec => []TypeInv
<1>1. Init => TypeInv
  BY TypeInit
<1>2. TypeInv /\ [Next]_vars => TypeInv'
  BY TypeNext
<1>3. QED
  BY <1>1, <1>2, PTL DEF Spec

\* Type correctness: the manager's state, its calls and the provider session
\* keep the shape that agent-manager.ts declares.
THEOREM TypeCorrect == Spec => []TypeOK
<1>1. TypeInv => TypeOK
  BY DEF TypeInv
<1>2. QED
  BY <1>1, TypeInvariant, PTL

-----------------------------------------------------------------------------
(* The run slot.  The invariant below is inductive when rewind is left out:  *)
(* rewind overwrites the slot of a run that is still starting.               *)

NoRewind == \A o \in Ops : op[o].kind # "rewind" /\ pc[o] # "rewinding"

\* The slot is held by a run that has not given it up.
HolderRuns == pending # None => Running(pending) /\ pending \notin settled

\* Only a call that has been a run has given the slot up.
SettledRan == \A o \in settled :
    pc[o] \in {"starting", "failing", "streaming", "refresh", "catch", "done"}

\* An object that is registered, or that a call has captured, has been made by
\* a call that has registered it.
ObjectsRegistered == \A g \in Ops :
    cur = g \/ (\E p \in Ops : op[p].obj = g) =>
        pc[g] \in {"initializing", "subscribing", "done"}

\* A waiter waits on the object its call runs on.
WaitersOfObject == \A g \in Objs : \A o \in objs[g].waiters : op[o].obj = g

\* A run that has been a waiter, or is treated as one, has had its stream.
StreamLabels == {"streaming", "refresh", "done"}

Streamed ==
    /\ \A o \in wsettled \cup ends \cup forced : pc[o] \in StreamLabels
    /\ \A g \in Objs : \A o \in objs[g].waiters : pc[o] \in StreamLabels
    /\ busy # NoEvent => \A o \in busy.to : pc[o] \in StreamLabels

\* The turn of o is not the foreground turn of the registered object.
Over(o) == cur # None /\ op[o].obj = cur => objs[cur].active # o

\* A stream is told to end only after its turn has been finalized.
EndedNotActive == \A o \in wsettled \cup ends \cup forced : Over(o)

\* The same for the waiters that the event being dispatched is about to end,
\* unless its handling has still to finalize the turn.
NotifiedNotActive ==
    busy # NoEvent /\ busy.e.type \in TerminalTypes =>
        \A o \in busy.to : /\ op[o].obj = busy.g
                           /\ (busy.phase = "append" /\ busy.fg) \/ Over(o)

SlotInv ==
    /\ TypeInv /\ NoRewind /\ HolderRuns /\ SettledRan /\ RunOwnsSlot
    /\ ObjectsRegistered /\ WaitersOfObject /\ Streamed /\ TurnForwarded
    /\ EndedNotActive /\ NotifiedNotActive

\* The step changes no slot, no stream and no foreground turn.
SameObjects ==
    \A g \in Objs : /\ objs'[g].active = objs[g].active
                    /\ objs'[g].waiters = objs[g].waiters

Quiet == SameObjects /\ UNCHANGED <<cur, slot, streams, forced, busy>>

\* What a call may do in a quiet step.
Onward(o) ==
    /\ \A p \in Ops \ {o} : pc'[p] = pc[p] /\ op'[p] = op[p]
    /\ {pc[o], pc'[o]} \cap {"starting", "failing", "streaming", "rewinding"} = {}
    /\ pc[o] # "done"
    /\ pc[o] \in {"refresh", "catch", "subscribing"} => pc'[o] = "done"
    /\ pc[o] = "initializing" => pc'[o] = "subscribing"
    /\ op'[o].kind # "rewind"
    /\ \/ op'[o].obj = op[o].obj
       \/ op'[o].obj = cur /\ pc[o] \in {"idle", "resume"}

\* A step that leaves slot, turns and waiters alone stutters in RunSlot.
LEMMA QuietView ==
    ASSUME TypeInv, Quiet
    PROVE  UNCHANGED Slot!vars
<1>1. cur # None => cur \in Objs
  BY DEF TypeInv, TypeOK
<1>2. QED
  BY <1>1 DEF Quiet, SameObjects, slot, Slot!vars

\* A step that leaves slot, turns and waiters alone keeps the invariant.
LEMMA QuietStep ==
    ASSUME SlotInv, TypeInv', NEW o \in Ops, Quiet, Onward(o)
    PROVE  SlotInv' /\ UNCHANGED Slot!vars
<1>1. /\ TypeOK /\ NoRewind /\ HolderRuns /\ SettledRan /\ RunOwnsSlot
      /\ ObjectsRegistered /\ WaitersOfObject /\ Streamed /\ TurnForwarded
      /\ EndedNotActive /\ NotifiedNotActive /\ Captured /\ TypeOK' /\ Captured'
  BY DEF SlotInv, TypeInv
<1>2. /\ cur' = cur /\ pending' = pending /\ settled' = settled
      /\ wsettled' = wsettled /\ ends' = ends /\ forced' = forced /\ busy' = busy
      /\ SameObjects
  BY DEF Quiet, slot, streams
<1>3. cur \in Objs \cup {None} /\ pending \in Ops \cup {None}
      /\ settled \subseteq Ops /\ wsettled \cup ends \cup forced \subseteq Ops
      /\ (busy # NoEvent => busy.to \subseteq Ops /\ busy.g \in Objs)
      /\ (cur # None => objs[cur].active \in Ops \cup {None})
      /\ \A g \in Objs : objs[g].waiters \subseteq Ops
  BY <1>1 DEF TypeOK, Dispatch, Agent
<1>4. \A p \in Ops : pc[p] \in {"starting", "failing", "streaming"} => p # o
  BY DEF Onward
<1>5. \A p \in Ops : pc[p] \in StreamLabels =>
        pc'[p] \in StreamLabels /\ op'[p].obj = op[p].obj
  BY DEF Onward, StreamLabels
<1>6. NoRewind'
  BY <1>1 DEF NoRewind, Onward
<1>7. HolderRuns'
  BY <1>1, <1>2, <1>3, <1>4 DEF HolderRuns, Running, Onward
<1>8. SettledRan'
  BY <1>1, <1>2, <1>3 DEF SettledRan, Onward
<1>9. RunOwnsSlot'
  BY <1>1, <1>2, <1>4 DEF RunOwnsSlot, Running, Onward
<1>10. ObjectsRegistered'
  BY <1>1, <1>2 DEF ObjectsRegistered, Onward
<1>11. WaitersOfObject'
  BY <1>1, <1>2, <1>3, <1>5 DEF WaitersOfObject, SameObjects, Streamed
<1>12. Streamed'
  BY <1>1, <1>2, <1>3, <1>5 DEF Streamed, SameObjects
<1>13. TurnForwarded'
  BY <1>1, <1>2, <1>3, <1>5 DEF TurnForwarded, SameObjects, Onward
<1>14. EndedNotActive'
  BY <1>1, <1>2, <1>3, <1>5 DEF EndedNotActive, Over, SameObjects, Streamed
<1>15. NotifiedNotActive'
  BY <1>1, <1>2, <1>3, <1>5 DEF NotifiedNotActive, Over, SameObjects, Streamed
<1>16. QED
  BY <1>6, <1>7, <1>8, <1>9, <1>10, <1>11, <1>12, <1>13, <1>14, <1>15, QuietView
     DEF SlotInv

\* A quiet step of the provider session, of the chain or of an emission.
LEMMA QuietElsewhere ==
    ASSUME SlotInv, TypeInv', Quiet, UNCHANGED <<pc, op>>
    PROVE  SlotInv' /\ UNCHANGED Slot!vars
<1>1. TypeOK
  BY DEF SlotInv, TypeInv
<1>2. /\ cur' = cur /\ pending' = pending /\ settled' = settled
      /\ wsettled' = wsettled /\ ends' = ends /\ forced' = forced /\ busy' = busy
  BY DEF Quiet, slot, streams
<1>3. cur \in Objs \cup {None} /\ SameObjects
  BY <1>1 DEF TypeOK, Quiet
<1>4. NoRewind' /\ HolderRuns' /\ SettledRan' /\ RunOwnsSlot' /\ ObjectsRegistered'
  BY <1>2 DEF SlotInv, NoRewind, HolderRuns, SettledRan, RunOwnsSlot, Running, ObjectsRegistered
<1>5. WaitersOfObject' /\ Streamed' /\ TurnForwarded'
  BY <1>2, <1>3 DEF SlotInv, WaitersOfObject, Streamed, TurnForwarded, SameObjects
<1>6. EndedNotActive' /\ NotifiedNotActive'
  BY <1>2, <1>3 DEF SlotInv, EndedNotActive, NotifiedNotActive, Over, SameObjects
<1>7. QED
  BY <1>4, <1>5, <1>6, QuietView DEF SlotInv

\* What Store does to the foreground turn and the waiters of every object.
LEMMA StoreView ==
    ASSUME TypeInv, NEW g \in Objs, NEW a \in Agent, NEW emit, Store(g, a, emit)
    PROVE  /\ objs'[g].active = a.active /\ objs'[g].waiters = a.waiters
           /\ \A h \in Objs \ {g} : objs'[h] = objs[h]
<1>1. objs \in [Objs -> Agent] /\ prevStatus \in Lifecycles \cup {"closed", "none"}
  BY DEF TypeInv, TypeOK
<1>2. QED
  BY <1>1, StoreEffect

\* A stored object with the same turn and waiters changes no turn or waiter.
LEMMA StoreSame ==
    ASSUME TypeInv, NEW g \in Objs, NEW a \in Agent, NEW emit, Store(g, a, emit),
           a.active = objs[g].active, a.waiters = objs[g].waiters
    PROVE  SameObjects
BY StoreView DEF SameObjects

-----------------------------------------------------------------------------
(* The slot, action by action *)

\* A prompt takes the slot: RunSlot's Claim.
LEMMA SlotStreamAgent ==
    ASSUME SlotInv, TypeInv', NEW o \in Ops, NEW k \in {"run", "replace"},
           pc[o] \in {"idle", "resume"}, StreamAgent(o, k)
    PROVE  SlotInv' /\ Slot!Claim(o)
<1>1. /\ TypeOK /\ NoRewind /\ HolderRuns /\ SettledRan /\ RunOwnsSlot
      /\ ObjectsRegistered /\ WaitersOfObject /\ Streamed /\ TurnForwarded
      /\ EndedNotActive /\ NotifiedNotActive
  BY DEF SlotInv, TypeInv
<1>2. /\ cur' = cur /\ cur \in Objs /\ cur # None /\ objs[cur].active = None
      /\ pending = None /\ pending' = o /\ settled' = settled
      /\ wsettled' = wsettled /\ ends' = ends /\ forced' = forced /\ busy' = busy
  BY <1>1 DEF StreamAgent, SlotFree, SessionStartTurn, streams, TypeOK
<1>3. SameObjects
  <2>1. objs' = [objs EXCEPT ![cur] = [objs[cur] EXCEPT !.replacing = FALSE, !.err = FALSE]]
    BY <1>1, <1>2 DEF StreamAgent, TypeOK
  <2>2. objs[cur] \in Agent
    BY <1>1, <1>2 DEF TypeOK
  <2>3. [objs[cur] EXCEPT !.replacing = FALSE, !.err = FALSE].active = objs[cur].active
        /\ [objs[cur] EXCEPT !.replacing = FALSE, !.err = FALSE].waiters = objs[cur].waiters
    BY <2>2 DEF Agent
  <2>4. QED
    BY <1>1, <2>1, <2>3 DEF SameObjects, TypeOK
<1>4. /\ pc'[o] = "starting" /\ op'[o].kind = k /\ op'[o].obj = cur
      /\ \A p \in Ops \ {o} : pc'[p] = pc[p] /\ op'[p] = op[p]
  <2>1. op[o] \in Call
    BY <1>1 DEF TypeOK
  <2>2. op' = [op EXCEPT ![o] = [op[o] EXCEPT !.kind = k, !.obj = cur]]
    BY <1>1 DEF StreamAgent, TypeOK
  <2>3. [op[o] EXCEPT !.kind = k, !.obj = cur].kind = k
        /\ [op[o] EXCEPT !.kind = k, !.obj = cur].obj = cur
    BY <2>1 DEF Call
  <2>4. QED
    BY <1>1, <2>2, <2>3 DEF StreamAgent, TypeOK
<1>5. /\ settled \subseteq Ops /\ wsettled \cup ends \cup forced \subseteq Ops
      /\ (busy # NoEvent => busy.to \subseteq Ops)
      /\ \A g \in Objs : objs[g].waiters \subseteq Ops
  BY <1>1 DEF TypeOK, Dispatch, Agent
<1>6. o \notin settled
  BY <1>1 DEF SettledRan
<1>7. NoRewind' /\ SettledRan' /\ HolderRuns'
  BY <1>1, <1>2, <1>4, <1>5, <1>6 DEF NoRewind, SettledRan, HolderRuns, Running
<1>8. \A p \in Ops : ~(Running(p) /\ op[p].obj = cur)
  BY <1>1, <1>2, NamesAssumption DEF RunOwnsSlot
<1>9. RunOwnsSlot'
  BY <1>2, <1>4, <1>8 DEF RunOwnsSlot, Running
<1>10. ObjectsRegistered'
  BY <1>1, <1>2, <1>4 DEF ObjectsRegistered
<1>11. WaitersOfObject' /\ Streamed'
  BY <1>1, <1>2, <1>3, <1>4, <1>5 DEF WaitersOfObject, Streamed, SameObjects, StreamLabels
<1>12. TurnForwarded'
  BY <1>2, <1>3 DEF TurnForwarded, SameObjects
<1>13. EndedNotActive' /\ NotifiedNotActive'
  BY <1>1, <1>2, <1>3, <1>4, <1>5, NamesAssumption
     DEF EndedNotActive, NotifiedNotActive, Over, SameObjects, Streamed, StreamLabels
<1>14. Slot!Claim(o)
  BY <1>2, <1>3, <1>6 DEF Slot!Claim, SameObjects
<1>15. QED
  BY <1>7, <1>9, <1>10, <1>11, <1>12, <1>13, <1>14 DEF SlotInv

\* Facts that every action of a run starts from.
LEMMA SlotFacts ==
    ASSUME SlotInv
    PROVE  /\ TypeOK /\ Captured /\ ForegroundTyped
           /\ NoRewind /\ HolderRuns /\ SettledRan /\ RunOwnsSlot
           /\ ObjectsRegistered /\ WaitersOfObject /\ Streamed /\ TurnForwarded
           /\ EndedNotActive /\ NotifiedNotActive
           /\ cur \in Objs \cup {None} /\ pending \in Ops \cup {None}
           /\ settled \subseteq Ops /\ wsettled \cup ends \cup forced \subseteq Ops
           /\ wsettled \subseteq Ops /\ ends \subseteq Ops /\ forced \subseteq Ops
           /\ busy # NoEvent => busy \in Dispatch /\ busy.to \subseteq Ops /\ busy.g \in Objs
           /\ cur # None => cur \in Objs /\ objs[cur].active \in Ops \cup {None}
           /\ \A g \in Objs : objs[g].waiters \subseteq Ops
           /\ None \notin Ops
BY NamesAssumption DEF SlotInv, TypeInv, TypeOK, Dispatch, Agent

\* While a run on the registered object has not reached its stream, there is no
\* foreground turn.
LEMMA NoTurnWhileStarting ==
    ASSUME SlotInv, NEW o \in Ops, pending = o \/ op[o].obj = cur,
           pc[o] \in {"starting", "failing"}
    PROVE  cur # None => objs[cur].active = None
BY SlotFacts DEF RunOwnsSlot, TurnForwarded, Running

\* The turn becomes the foreground turn: Activate, or a stutter for a run on an
\* object that is no longer registered.
LEMMA SlotStartResolves ==
    ASSUME SlotInv, TypeInv', NEW o \in Ops, StartResolves(o)
    PROVE  SlotInv' /\ (Slot!Activate(o) \/ UNCHANGED Slot!vars)
<1> DEFINE g == op[o].obj
           a == [objs[g] EXCEPT !.active = o, !.lifecycle = "running",
                                !.waiters = @ \cup {o}]
<1>1. /\ cur' = cur /\ pending' = pending /\ settled' = settled
      /\ wsettled' = wsettled /\ ends' = ends /\ forced' = forced /\ busy' = busy
      /\ op' = op
  BY DEF StartResolves, slot, streams, events
<1>2. pc[o] = "starting" /\ pc'[o] = "streaming"
      /\ \A p \in Ops \ {o} : pc'[p] = pc[p]
  BY SlotFacts DEF StartResolves, Goto, TypeOK
<1>3. g \in Objs /\ objs[g] \in Agent
  BY <1>2, CapturedObject DEF SlotInv
<1>4. /\ objs'[g].active = o /\ objs'[g].waiters = objs[g].waiters \cup {o}
      /\ \A h \in Objs \ {g} : objs'[h] = objs[h]
  <2>1. a \in Agent /\ a.active = o /\ a.waiters = objs[g].waiters \cup {o}
    BY <1>3 DEF Agent, Lifecycles
  <2>2. Store(g, a, TRUE)
    BY DEF StartResolves
  <2>3. QED
    BY <1>3, <2>1, <2>2, StoreView DEF SlotInv
<1>5. NoRewind' /\ HolderRuns' /\ SettledRan' /\ RunOwnsSlot' /\ ObjectsRegistered'
  BY <1>1, <1>2, SlotFacts
     DEF NoRewind, HolderRuns, SettledRan, RunOwnsSlot, Running, ObjectsRegistered
<1>6. WaitersOfObject'
  BY <1>1, <1>4, SlotFacts DEF WaitersOfObject
<1>7. \A p \in Ops : pc[p] \in StreamLabels => p # o /\ pc'[p] \in StreamLabels
  BY <1>2 DEF StreamLabels
<1>8. pc'[o] \in StreamLabels
  BY <1>2 DEF StreamLabels
<1>9. Streamed'
  BY <1>1, <1>3, <1>4, <1>7, <1>8, SlotFacts DEF Streamed
<1>10. TurnForwarded'
  BY <1>1, <1>2, <1>3, <1>4, SlotFacts DEF TurnForwarded
<1>11. EndedNotActive' /\ NotifiedNotActive'
  BY <1>1, <1>4, <1>7, SlotFacts DEF EndedNotActive, NotifiedNotActive, Over, Streamed
<1>12. CASE g = cur
  <2>1. cur # None /\ pending = o /\ objs[cur].active = None
    BY <1>2, <1>3, <1>12, SlotFacts, NoTurnWhileStarting, NamesAssumption
       DEF RunOwnsSlot, Running, Objs
  <2>2. Slot!Activate(o)
    BY <1>1, <1>4, <1>12, <2>1 DEF Slot!Activate
  <2>3. QED
    BY <1>5, <1>6, <1>9, <1>10, <1>11, <2>2 DEF SlotInv
<1>13. CASE g # cur
  BY <1>1, <1>4, <1>5, <1>6, <1>9, <1>10, <1>11, <1>13, SlotFacts DEF SlotInv, Slot!vars
<1>14. QED
  BY <1>12, <1>13

\* startTurn throws: RunSlot's End, or a stutter when the slot is another's.
LEMMA SlotStartThrows ==
    ASSUME SlotInv, TypeInv', NEW o \in Ops, StartThrows(o)
    PROVE  SlotInv' /\ UNCHANGED Slot!vars
<1> DEFINE g == op[o].obj
           a == [objs[g] EXCEPT !.lifecycle = "error", !.err = TRUE]
<1>1. /\ cur' = cur /\ pending' = pending /\ settled' = settled
      /\ wsettled' = wsettled /\ ends' = ends /\ forced' = forced /\ busy' = busy
      /\ op' = op
  BY DEF StartThrows, slot, streams, events
<1>2. pc[o] = "starting" /\ pc'[o] = "failing"
      /\ \A p \in Ops \ {o} : pc'[p] = pc[p]
  BY SlotFacts DEF StartThrows, Goto, TypeOK
<1>3. g \in Objs /\ objs[g] \in Agent
  BY <1>2, CapturedObject DEF SlotInv
<1>4. SameObjects
  <2>1. objs' = [objs EXCEPT ![g] = a]
    BY <1>3, SlotFacts DEF StartThrows, TypeOK
  <2>2. a.active = objs[g].active /\ a.waiters = objs[g].waiters
    BY <1>3 DEF Agent
  <2>3. QED
    BY <2>1, <2>2, SlotFacts DEF SameObjects, TypeOK
<1>5. NoRewind' /\ HolderRuns' /\ SettledRan' /\ RunOwnsSlot' /\ ObjectsRegistered'
  BY <1>1, <1>2, SlotFacts
     DEF NoRewind, HolderRuns, SettledRan, RunOwnsSlot, Running, ObjectsRegistered
<1>6. \A p \in Ops : pc[p] \in StreamLabels => p # o /\ pc'[p] \in StreamLabels
  BY <1>2 DEF StreamLabels
<1>7. WaitersOfObject' /\ Streamed'
  BY <1>1, <1>4, <1>6, SlotFacts DEF WaitersOfObject, Streamed, SameObjects
<1>8. TurnForwarded'
  BY <1>1, <1>2, <1>4, SlotFacts DEF TurnForwarded, SameObjects
<1>9. EndedNotActive' /\ NotifiedNotActive'
  BY <1>1, <1>4, SlotFacts DEF EndedNotActive, NotifiedNotActive, Over, SameObjects
<1>10. UNCHANGED Slot!vars
  BY <1>1, <1>4, SlotFacts DEF SameObjects, Slot!vars
<1>11. QED
  BY <1>5, <1>7, <1>8, <1>9, <1>10 DEF SlotInv

\* The end of a run, however it ends: Release, or a stutter when its slot has
\* been given up already.  Its turn is not the foreground turn any more.
LEMMA SlotRunEnds ==
    ASSUME SlotInv, TypeInv', NEW o \in Ops, NEW l \in {"refresh", "catch", "done"},
           pc[o] \in {"failing", "streaming"},
           pc[o] = "streaming" => o \in ends /\ l # "catch",
           Goto(o, l), SettleRun(o), cur' = cur, op' = op, ends' = ends,
           wsettled' = wsettled \/ (wsettled' = wsettled \cup {o} /\ o \in ends),
           forced' = forced, busy' = busy,
           \A g \in Objs : /\ objs'[g].waiters \subseteq objs[g].waiters
                           /\ o \notin ends => objs'[g].waiters = objs[g].waiters
                           /\ objs[g].waiters \ {o} \subseteq objs'[g].waiters,
           \A g \in Objs : \/ objs'[g].active = objs[g].active
                           \/ g = op[o].obj /\ pc[o] = "failing" /\ objs'[g].active = None
    PROVE  SlotInv' /\ (Slot!Release \/ UNCHANGED Slot!vars)
<1>1. pc'[o] = l /\ \A p \in Ops \ {o} : pc'[p] = pc[p]
  BY SlotFacts DEF Goto, TypeOK
<1>2. (Running(o) /\ o \notin settled) \/ pending # o
  BY SlotFacts DEF HolderRuns
<1>3. \A g \in Objs : objs'[g].active \in {objs[g].active, None}
  OBVIOUS
<1>4. cur # None => objs[cur].active # o
  BY <1>1, SlotFacts DEF TurnForwarded, EndedNotActive, Over
<1>5. NoRewind' /\ ObjectsRegistered'
  BY <1>1, SlotFacts DEF NoRewind, ObjectsRegistered
<1>6. HolderRuns'
  BY <1>1, SlotFacts DEF HolderRuns, SettleRun, Running
<1>7. SettledRan'
  BY <1>1, SlotFacts DEF SettledRan, SettleRun
<1>8. RunOwnsSlot'
  BY <1>1, SlotFacts DEF RunOwnsSlot, SettleRun, Running
<1>9. WaitersOfObject'
  BY SlotFacts DEF WaitersOfObject
<1>10. \A p \in Ops : pc[p] \in StreamLabels => pc'[p] \in StreamLabels
  BY <1>1 DEF StreamLabels
<1>11. Streamed'
  BY <1>1, <1>10, SlotFacts DEF Streamed
<1>12. TurnForwarded'
  BY <1>1, <1>3, <1>4, SlotFacts DEF TurnForwarded
<1>13. EndedNotActive'
  BY <1>3, SlotFacts DEF EndedNotActive, Over
<1>14. NotifiedNotActive'
  BY <1>3, SlotFacts DEF NotifiedNotActive, Over
<1>15. CASE pending # o
  <2>1. pending' = pending /\ settled' = settled
    BY <1>15 DEF SettleRun
  <2>2. cur # None => objs'[cur].active = objs[cur].active
    <3>1. CASE pc[o] = "failing" /\ op[o].obj = cur
      BY <3>1, NoTurnWhileStarting, SlotFacts
    <3>2. CASE ~(pc[o] = "failing" /\ op[o].obj = cur)
      BY <3>2, SlotFacts
    <3>3. QED
      BY <3>1, <3>2
  <2>3. UNCHANGED Slot!vars
    BY <2>1, <2>2 DEF Slot!vars
  <2>4. QED
    BY <1>5, <1>6, <1>7, <1>8, <1>9, <1>11, <1>12, <1>13, <1>14, <2>3 DEF SlotInv
<1>16. CASE pending = o
  <2>1. pending # None /\ pending' = None /\ settled' = settled \cup {pending}
    BY <1>16, SlotFacts DEF SettleRun
  <2>2. cur # None => objs[cur].active = None
    BY <1>4, <1>16, SlotFacts DEF TurnForwarded, RunOwnsSlot, Running
  <2>3. Slot!Release
    BY <1>3, <2>1, <2>2, SlotFacts DEF Slot!Release
  <2>4. QED
    BY <1>5, <1>6, <1>7, <1>8, <1>9, <1>11, <1>12, <1>13, <1>14, <2>3 DEF SlotInv
<1>17. QED
  BY <1>15, <1>16

\* The failure of startTurn is recorded: the run is over already.
LEMMA SlotStartFailed ==
    ASSUME SlotInv, TypeInv', NEW o \in Ops, StartFailed(o)
    PROVE  SlotInv' /\ (Slot!Release \/ UNCHANGED Slot!vars)
<1> DEFINE g == op[o].obj
           cleared == [objs[g] EXCEPT !.perms = {}]
           reported == Attend(cleared, prevStatus)
           final == Finalized(reported, {})
           l == IF op[o].kind = "replace" THEN "catch" ELSE "done"
<1>1. pc[o] = "failing" /\ Goto(o, l) /\ SettleRun(o)
  BY DEF StartFailed
<1>2. g \in Objs /\ objs[g] \in Agent
  BY <1>1, CapturedObject DEF SlotInv
<1>3. cleared \in Agent /\ cleared.waiters = objs[g].waiters
  BY <1>2 DEF Agent
<1>4. reported \in Agent /\ reported.waiters = objs[g].waiters
  BY <1>3, AttendMarks, MarkedAgent
<1>5. final \in Agent /\ final.active = None /\ final.waiters = objs[g].waiters
  BY <1>4, FinalizedAgent
<1>6. LET b == Attend(final, reported.lifecycle)
      IN  b \in Agent /\ b.active = None /\ b.waiters = objs[g].waiters
  BY <1>5, AttendMarks, MarkedAgent
<1>7. \/ objs' = [objs EXCEPT ![g] = final]
      \/ objs' = [objs EXCEPT ![g] = Attend(final, reported.lifecycle)]
  BY DEF StartFailed
<1> HIDE DEF final, reported
<1>8. /\ objs'[g].active = None /\ objs'[g].waiters = objs[g].waiters
      /\ \A h \in Objs \ {g} : objs'[h] = objs[h]
  BY <1>2, <1>5, <1>6, <1>7, SlotFacts DEF TypeOK
<1>9. /\ cur' = cur /\ op' = op /\ ends' = ends /\ wsettled' = wsettled
      /\ forced' = forced /\ busy' = busy
  BY DEF StartFailed, streams, events
<1>10. QED
  BY <1>1, <1>2, <1>8, <1>9, SlotRunEnds

\* The stream takes an event from its queue: the slot is not touched.
LEMMA SlotDrain ==
    ASSUME SlotInv, TypeInv', NEW o \in Ops, Drain(o)
    PROVE  SlotInv' /\ (Slot!Release \/ UNCHANGED Slot!vars)
<1> DEFINE g == op[o].obj
           a == [objs[g] EXCEPT !.waiters = @ \ {o}]
           l == IF objs[g].active = None THEN "refresh" ELSE "done"
<1>1. pc[o] = "streaming" /\ o \in ends /\ Goto(o, l) /\ SettleRun(o)
  BY DEF Drain
<1>2. g \in Objs /\ objs[g] \in Agent
  BY <1>1, CapturedObject DEF SlotInv
<1>3. a.active = objs[g].active /\ a.waiters = objs[g].waiters \ {o}
  BY <1>2 DEF Agent
<1>4. objs' = [objs EXCEPT ![g] = a]
  BY <1>2, SlotFacts DEF Drain, TypeOK
<1>5. /\ objs'[g].active = objs[g].active /\ objs'[g].waiters = objs[g].waiters \ {o}
      /\ \A h \in Objs \ {g} : objs'[h] = objs[h]
  BY <1>2, <1>3, <1>4, SlotFacts DEF TypeOK
<1>6. /\ cur' = cur /\ op' = op /\ ends' = ends /\ wsettled' = wsettled \cup {o}
      /\ forced' = forced /\ busy' = busy
  BY DEF Drain, events
<1>7. QED
  BY <1>1, <1>2, <1>5, <1>6, SlotRunEnds

\* A stuck turn is force-canceled: End, or a stutter.
LEMMA SlotForceCancel ==
    ASSUME SlotInv, TypeInv', NEW o \in Ops, Onward(o), NEW g \in Objs, NEW t \in Ops,
           UNCHANGED <<cur, slot, streams, busy>>, g = op[o].obj,
           forced' = forced \cup Matching(objs[g], t),
           objs[g].active = t, objs'[g].active = None, objs'[g].waiters = objs[g].waiters,
           \A h \in Objs \ {g} : objs'[h] = objs[h]
    PROVE  SlotInv' /\ (Slot!End \/ UNCHANGED Slot!vars)
<1>1. /\ cur' = cur /\ pending' = pending /\ settled' = settled
      /\ wsettled' = wsettled /\ ends' = ends /\ busy' = busy
  BY DEF slot, streams
<1>2. \A h \in Objs : /\ objs'[h].waiters = objs[h].waiters
                      /\ objs'[h].active \in {objs[h].active, None}
  OBVIOUS
<1>3. Matching(objs[g], t) \subseteq {t} \cap objs[g].waiters
  BY DEF Matching
<1>4. \A p \in Ops : pc[p] \in {"starting", "failing", "streaming"} => p # o
  BY DEF Onward
<1>5. \A p \in Ops : pc[p] \in StreamLabels =>
        pc'[p] \in StreamLabels /\ op'[p].obj = op[p].obj
  BY DEF Onward, StreamLabels
<1>6. NoRewind'
  BY SlotFacts DEF NoRewind, Onward
<1>7. HolderRuns' /\ SettledRan'
  BY <1>1, <1>4, SlotFacts DEF HolderRuns, SettledRan, Running, Onward
<1>8. RunOwnsSlot'
  BY <1>1, <1>4, SlotFacts DEF RunOwnsSlot, Running, Onward
<1>9. ObjectsRegistered'
  BY <1>1, SlotFacts DEF ObjectsRegistered, Onward
<1>10. WaitersOfObject'
  BY <1>2, <1>5, SlotFacts DEF WaitersOfObject, Streamed
<1>11. Streamed'
  <2>1. \A p \in Matching(objs[g], t) : pc[p] \in StreamLabels /\ p \in Ops
    BY <1>3, SlotFacts DEF Streamed
  <2>2. QED
    BY <1>1, <1>2, <1>5, <2>1, SlotFacts DEF Streamed
<1>12. TurnForwarded'
  BY <1>1, <1>2, <1>5, SlotFacts DEF TurnForwarded, Onward
<1>13. EndedNotActive'
  <2>1. \A p \in Matching(objs[g], t) : p \in Ops /\ op[p].obj = g /\ pc[p] \in StreamLabels
    BY <1>3, SlotFacts DEF WaitersOfObject, Streamed
  <2>2. \A p \in Matching(objs[g], t) : Over(p)'
    BY <1>1, <1>5, <2>1, SlotFacts DEF Over
  <2>3. \A p \in wsettled \cup ends \cup forced : Over(p)'
    BY <1>1, <1>2, <1>5, SlotFacts DEF EndedNotActive, Over, Streamed
  <2>4. QED
    BY <1>1, <2>2, <2>3 DEF EndedNotActive
<1>14. NotifiedNotActive'
  BY <1>1, <1>2, <1>5, SlotFacts DEF NotifiedNotActive, Over, Streamed
<1>15. Slot!End \/ UNCHANGED Slot!vars
  BY <1>1, <1>2, SlotFacts DEF Slot!End, Slot!vars
<1>16. QED
  BY <1>6, <1>7, <1>8, <1>9, <1>10, <1>11, <1>12, <1>13, <1>14, <1>15 DEF SlotInv

\* cancelAgentRun goes on after its wait: End for a stuck turn, else a stutter.
LEMMA SlotAfterWait ==
    ASSUME SlotInv, TypeInv', NEW o \in Ops, AfterWait(o)
    PROVE  SlotInv' /\ (Slot!End \/ UNCHANGED Slot!vars)
<1> DEFINE g == op[o].obj
           t == op[o].turn
           a == objs[g]
           canceled == [a EXCEPT !.err = FALSE, !.perms = {}]
<1>1. pc[o] = "waiting" /\ g \in Objs /\ a \in Agent
  BY CapturedObject DEF SlotInv, AfterWait
<1>2. Onward(o)
  <2>1. \/ op' = op
        \/ op' = [op EXCEPT ![o].run = pending]
    BY DEF AfterWait
  <2>2. op[o] \in Call /\ op[o].kind # "rewind"
    BY SlotFacts DEF TypeOK, NoRewind
  <2>3. [op[o] EXCEPT !.run = pending].obj = g
        /\ [op[o] EXCEPT !.run = pending].kind = op[o].kind
    BY <2>2 DEF Call
  <2>4. op'[o].obj = g /\ op'[o].kind = op[o].kind
        /\ \A p \in Ops \ {o} : op'[p] = op[p]
    BY <2>1, <2>3, SlotFacts DEF TypeOK
  <2>5. pc'[o] \in {"stale", "done", "resume"} /\ \A p \in Ops \ {o} : pc'[p] = pc[p]
    BY SlotFacts DEF AfterWait, AfterCancel, Goto, TypeOK
  <2>6. QED
    BY <1>1, <2>2, <2>4, <2>5 DEF Onward
<1>3. CASE Stuck(o)
  <2>1. t \in Ops /\ a.active = t
    BY <1>1, <1>3 DEF Stuck, Agent
  <2>2. canceled \in Agent /\ canceled.waiters = a.waiters
    BY <1>1 DEF Agent
  <2>3. Store(g, Finalized(canceled, {t}), ~a.replacing)
    BY <1>3 DEF AfterWait
  <2>4. /\ objs'[g].active = None /\ objs'[g].waiters = a.waiters
        /\ \A h \in Objs \ {g} : objs'[h] = objs[h]
    <3> DEFINE f == Finalized(canceled, {t})
    <3>1. f \in Agent /\ f.active = None /\ f.waiters = a.waiters
      BY <2>1, <2>2, FinalizedAgent
    <3> HIDE DEF f
    <3>2. Store(g, f, ~a.replacing)
      BY <2>3 DEF f
    <3>3. QED
      BY <1>1, <3>1, <3>2, StoreView DEF SlotInv
  <2>5. UNCHANGED <<cur, slot, streams, busy>> /\ forced' = forced \cup Matching(a, t)
    BY <1>3 DEF AfterWait
  <2>6. QED
    BY <1>1, <1>2, <2>1, <2>4, <2>5, SlotForceCancel
<1>4. CASE ~Stuck(o)
  <2>1. Cleared(a) \in Agent /\ Cleared(a).active = a.active /\ Cleared(a).waiters = a.waiters
    BY <1>1 DEF Cleared, Agent
  <2>2. SameObjects
    BY <1>1, <1>4, <2>1, StoreSame DEF AfterWait, SlotInv
  <2>3. Quiet
    BY <1>4, <2>2 DEF AfterWait, Quiet
  <2>4. QED
    BY <1>2, <2>3, QuietStep
<1>5. QED
  BY <1>3, <1>4

\* The waiters of a force-canceled turn are told: the slot is not touched.
LEMMA SlotNotifyForced ==
    ASSUME SlotInv, TypeInv', NEW o \in Ops, NotifyForced(o)
    PROVE  SlotInv' /\ UNCHANGED Slot!vars
<1>1. /\ UNCHANGED <<cur, objs, pending, settled, pc, op, busy>>
      /\ o \in forced /\ forced' = forced \ {o}
      /\ ends' = ends \cup {o} /\ wsettled' = wsettled \cup {o}
  BY DEF NotifyForced, slot
<1>2. NoRewind' /\ HolderRuns' /\ SettledRan' /\ RunOwnsSlot' /\ ObjectsRegistered'
      /\ WaitersOfObject' /\ TurnForwarded' /\ NotifiedNotActive'
  BY <1>1, SlotFacts DEF NoRewind, HolderRuns, SettledRan, RunOwnsSlot, Running,
     ObjectsRegistered, WaitersOfObject, TurnForwarded, NotifiedNotActive, Over
<1>3. Streamed' /\ EndedNotActive'
  BY <1>1, SlotFacts DEF Streamed, EndedNotActive, Over
<1>4. UNCHANGED Slot!vars
  BY <1>1 DEF Slot!vars
<1>5. QED
  BY <1>2, <1>3, <1>4 DEF SlotInv

\* closeAgent and reloadAgentSession unregister the agent: Release, or a
\* stutter when no run holds the slot.
LEMMA SlotUnregister ==
    ASSUME SlotInv, TypeInv', NEW o \in Ops, NEW g \in Objs, cur' = None, SettleAnyRun,
           Onward(o), forced' = forced, busy' = busy,
           objs'[g].active = objs[g].active, objs'[g].waiters = {},
           \A h \in Objs \ {g} : objs'[h] = objs[h],
           wsettled' = wsettled \cup objs[g].waiters,
           ends' = ends \/ ends' = ends \cup objs[g].waiters
    PROVE  SlotInv' /\ (Slot!Release \/ UNCHANGED Slot!vars)
<1>1. /\ pending' = None /\ settled' = settled \cup ({pending} \ {None})
  BY DEF SettleAnyRun
<1>2. \A p \in Ops : pc[p] \in {"starting", "failing", "streaming"} => p # o
  BY DEF Onward
<1>3. \A p \in Ops : pc[p] \in StreamLabels =>
        pc'[p] \in StreamLabels /\ op'[p].obj = op[p].obj
  BY DEF Onward, StreamLabels
<1>4. NoRewind'
  BY SlotFacts DEF NoRewind, Onward
<1>5. HolderRuns' /\ TurnForwarded' /\ EndedNotActive'
  BY <1>1 DEF HolderRuns, TurnForwarded, EndedNotActive, Over
<1>6. SettledRan'
  BY <1>1, <1>2, SlotFacts DEF SettledRan, HolderRuns, Running, Onward
<1>7. RunOwnsSlot'
  <2>1. \A p \in Ops : Running(p)' => op'[p].obj \in Objs
    BY DEF TypeInv, Captured, Running
  <2>2. None \notin Objs
    BY NamesAssumption DEF Objs
  <2>3. QED
    BY <2>1, <2>2 DEF RunOwnsSlot
<1>8. ObjectsRegistered'
  BY SlotFacts, NamesAssumption DEF ObjectsRegistered, Onward
<1>9. WaitersOfObject'
  BY <1>3, SlotFacts DEF WaitersOfObject, Streamed
<1>10. Streamed'
  BY <1>3, SlotFacts DEF Streamed
<1>11. NotifiedNotActive'
  BY <1>3, SlotFacts DEF NotifiedNotActive, Over, Streamed
<1>12. Slot!Release \/ UNCHANGED Slot!vars
  <2>1. CASE pending = None
    <3>1. cur # None => objs[cur].active = None
      BY <2>1, SlotFacts DEF TurnForwarded, RunOwnsSlot, Running
    <3>2. settled' = settled
      BY <1>1, <2>1
    <3>3. QED
      BY <1>1, <2>1, <3>1, <3>2 DEF Slot!vars
  <2>2. CASE pending # None
    BY <1>1, <2>2 DEF Slot!Release
  <2>3. QED
    BY <2>1, <2>2
<1>13. QED
  BY <1>4, <1>5, <1>6, <1>7, <1>8, <1>9, <1>10, <1>11, <1>12 DEF SlotInv

\* closeAgent unregisters the agent: End, or a stutter.
LEMMA SlotClose ==
    ASSUME SlotInv, TypeInv', NEW o \in Ops, Close(o)
    PROVE  SlotInv' /\ (Slot!Release \/ UNCHANGED Slot!vars)
<1> DEFINE a == [objs[cur] EXCEPT !.subscribed = FALSE, !.waiters = {}]
<1>1. cur \in Objs /\ objs[cur] \in Agent
  BY SlotFacts DEF Close, TypeOK
<1>2. a.active = objs[cur].active /\ a.waiters = {}
  BY <1>1 DEF Agent
<1>3. objs' = [objs EXCEPT ![cur] = a]
  BY <1>1, SlotFacts DEF Close, TypeOK
<1>4. /\ objs'[cur].active = objs[cur].active /\ objs'[cur].waiters = {}
      /\ \A h \in Objs \ {cur} : objs'[h] = objs[h]
  BY <1>1, <1>2, <1>3, SlotFacts DEF TypeOK
<1>5. Onward(o)
  <2>1. op[o] \in Call /\ op' = [op EXCEPT ![o] = [op[o] EXCEPT !.kind = "close"]]
    BY SlotFacts DEF Close, TypeOK
  <2>2. [op[o] EXCEPT !.kind = "close"].kind = "close"
        /\ [op[o] EXCEPT !.kind = "close"].obj = op[o].obj
    BY <2>1 DEF Call
  <2>3. op'[o].kind = "close" /\ op'[o].obj = op[o].obj
        /\ \A p \in Ops \ {o} : op'[p] = op[p]
    BY <2>1, <2>2, SlotFacts DEF TypeOK
  <2>4. pc[o] = "idle" /\ pc'[o] = "closing" /\ \A p \in Ops \ {o} : pc'[p] = pc[p]
    BY SlotFacts DEF Close, Goto, TypeOK
  <2>5. QED
    BY <2>3, <2>4 DEF Onward
<1>6. /\ cur' = None /\ SettleAnyRun /\ forced' = forced /\ busy' = busy
      /\ wsettled' = wsettled \cup objs[cur].waiters
      /\ ends' = ends \cup objs[cur].waiters
  BY DEF Close, events
<1>7. QED
  BY <1>1, <1>4, <1>5, <1>6, SlotUnregister

\* reloadAgentSession replaces the session: End, or a stutter.
LEMMA SlotSwap ==
    ASSUME SlotInv, TypeInv', NEW o \in Ops, Swap(o)
    PROVE  SlotInv' /\ (Slot!Release \/ UNCHANGED Slot!vars)
<1> DEFINE g == op[o].obj
           a == [objs[g] EXCEPT !.subscribed = FALSE, !.waiters = {}]
<1>1. pc[o] = "resuming" /\ g \in Objs /\ objs[g] \in Agent
  BY CapturedObject DEF SlotInv, Swap
<1>2. Onward(o)
  <2>1. op' = op /\ pc'[o] \in {"done", "closingOld"} /\ \A p \in Ops \ {o} : pc'[p] = pc[p]
    BY SlotFacts DEF Swap, Goto, TypeOK
  <2>2. op[o].kind # "rewind"
    BY SlotFacts DEF NoRewind
  <2>3. QED
    BY <1>1, <2>1, <2>2 DEF Onward
<1>3. CASE UNCHANGED <<cur, objs, slot, wsettled>>
  <2>1. Quiet
    BY <1>3 DEF Swap, Quiet, SameObjects, streams, events
  <2>2. QED
    BY <1>2, <2>1, QuietStep
<1>4. CASE /\ cur' = None
           /\ objs' = [objs EXCEPT ![g].subscribed = FALSE, ![g].waiters = {}]
           /\ wsettled' = wsettled \cup objs[g].waiters
           /\ SettleAnyRun
  <2>1. a.active = objs[g].active /\ a.waiters = {}
    BY <1>1 DEF Agent
  <2>2. objs' = [objs EXCEPT ![g] = a]
    BY <1>1, <1>4, SlotFacts DEF TypeOK
  <2>3. /\ objs'[g].active = objs[g].active /\ objs'[g].waiters = {}
        /\ \A h \in Objs \ {g} : objs'[h] = objs[h]
    BY <1>1, <2>1, <2>2, SlotFacts DEF TypeOK
  <2>4. ends' = ends /\ forced' = forced /\ busy' = busy
    BY DEF Swap, events
  <2>5. QED
    BY <1>1, <1>2, <1>4, <2>3, <2>4, SlotUnregister
<1>5. QED
  BY <1>3, <1>4 DEF Swap

\* A new object is registered, possibly over another one: End, or a stutter.
LEMMA SlotRegister ==
    ASSUME SlotInv, TypeInv', NEW o \in Ops, Register(o)
    PROVE  SlotInv' /\ (Slot!End \/ UNCHANGED Slot!vars)
<1>1. /\ pending' = pending /\ settled' = settled /\ wsettled' = wsettled
      /\ ends' = ends /\ forced' = forced /\ busy' = busy /\ cur' = o
  BY DEF Register, slot, streams, events
<1>2. o \in Objs /\ o # None
  BY NamesAssumption DEF Objs
<1>3. op'[o].obj = o /\ op'[o].kind = op[o].kind /\ \A p \in Ops \ {o} : op'[p] = op[p]
  <2>1. op[o] \in Call /\ op' = [op EXCEPT ![o] = [op[o] EXCEPT !.obj = o]]
    BY SlotFacts DEF Register, TypeOK
  <2>2. [op[o] EXCEPT !.obj = o].obj = o /\ [op[o] EXCEPT !.obj = o].kind = op[o].kind
    BY <2>1 DEF Call
  <2>3. QED
    BY <2>1, <2>2, SlotFacts DEF TypeOK
<1>4. pc[o] = "registering" /\ pc'[o] = "initializing"
      /\ \A p \in Ops \ {o} : pc'[p] = pc[p]
  BY SlotFacts DEF Register, Goto, TypeOK
<1>5. /\ objs'[o].active = None /\ objs'[o].waiters = {}
      /\ \A h \in Objs \ {o} : objs'[h] = objs[h]
  <2>1. op[o].saved \in [err: BOOLEAN, attention: Attentions]
    BY SlotFacts DEF TypeOK, Call
  <2>2. QED
    BY <1>2, <2>1, SlotFacts, NewAgentType DEF Register, TypeOK
<1>6. \A p \in Ops : op[p].obj # o
  BY <1>4, SlotFacts DEF ObjectsRegistered
<1>7. \A p \in Ops : pc[p] \in StreamLabels => p # o
  BY <1>4 DEF StreamLabels
<1>8. NoRewind' /\ HolderRuns' /\ SettledRan'
  BY <1>1, <1>3, <1>4, SlotFacts DEF NoRewind, HolderRuns, SettledRan, Running
<1>9. RunOwnsSlot'
  BY <1>1, <1>3, <1>4, <1>6 DEF RunOwnsSlot, Running
<1>10. ObjectsRegistered'
  BY <1>1, <1>3, <1>4, SlotFacts DEF ObjectsRegistered
<1>11. WaitersOfObject'
  BY <1>3, <1>5, <1>7, SlotFacts DEF WaitersOfObject, Streamed
<1>12. Streamed'
  BY <1>1, <1>4, <1>5, <1>7, SlotFacts DEF Streamed
<1>13. TurnForwarded' /\ EndedNotActive'
  BY <1>1, <1>5, SlotFacts DEF TurnForwarded, EndedNotActive, Over
<1>14. NotifiedNotActive'
  BY <1>1, <1>3, <1>5, <1>7, SlotFacts DEF NotifiedNotActive, Over, Streamed
<1>15. Slot!End \/ UNCHANGED Slot!vars
  BY <1>1, <1>2, <1>5 DEF Slot!End, Slot!vars
<1>16. QED
  BY <1>8, <1>9, <1>10, <1>11, <1>12, <1>13, <1>14, <1>15 DEF SlotInv

\* An event is dispatched: End when it ends the foreground turn, else a stutter.
LEMMA SlotDispatch ==
    ASSUME SlotInv, TypeInv', NEW type \in TerminalTypes \cup {"started"}, Receives(type),
           NEW phase \in {"append", "notify"}, Dispatching(phase),
           \A g \in Objs : /\ objs'[g].waiters = objs[g].waiters
                           /\ objs'[g].active \in {objs[g].active, None},
           type \in TerminalTypes /\ phase = "notify" /\ Foreground => objs'[cur].active = None
    PROVE  SlotInv' /\ (Slot!End \/ UNCHANGED Slot!vars)
<1> DEFINE e == Head(queue)
           to == Matching(objs[cur], e.turn)
<1>1. e \in Event /\ e.type = type /\ cur \in Objs /\ cur # None /\ objs[cur] \in Agent
  BY Received DEF SlotInv
<1>2. UNCHANGED <<cur, pending, settled, wsettled, ends, forced, pc, op>>
  BY DEF Receives, slot, streams
<1>3. busy' = [phase |-> phase, e |-> e, g |-> cur, fg |-> Foreground, to |-> to]
  BY DEF Dispatching
<1>4. to \subseteq {e.turn} \cap objs[cur].waiters
  BY DEF Matching
<1> HIDE DEF e, to
<1>5. busy'.to = to /\ busy'.g = cur /\ busy'.e = e /\ busy'.phase = phase
      /\ (busy'.fg <=> Foreground)
  BY <1>3
<1>6. Foreground <=> objs[cur].active = e.turn
  BY DEF Foreground, e
<1>7. \A p \in to : p \in Ops /\ op[p].obj = cur /\ pc[p] \in StreamLabels
  BY <1>1, <1>4, SlotFacts DEF WaitersOfObject, Streamed
<1>8. NoRewind' /\ HolderRuns' /\ SettledRan' /\ RunOwnsSlot' /\ ObjectsRegistered'
  BY <1>2, SlotFacts
     DEF NoRewind, HolderRuns, SettledRan, RunOwnsSlot, Running, ObjectsRegistered
<1>9. WaitersOfObject' /\ TurnForwarded' /\ EndedNotActive'
  BY <1>2, SlotFacts DEF WaitersOfObject, TurnForwarded, EndedNotActive, Over
<1>10. Streamed'
  BY <1>2, <1>5, <1>7, SlotFacts DEF Streamed
<1>11. NotifiedNotActive'
  <2>1. SUFFICES ASSUME e.type \in TerminalTypes, NEW p \in to
                 PROVE  /\ op'[p].obj = cur
                        /\ (phase = "append" /\ Foreground) \/ Over(p)'
    BY <1>5 DEF NotifiedNotActive
  <2>2. op'[p].obj = cur /\ p = e.turn /\ p # None
    BY <1>2, <1>4, <1>7, <2>1, SlotFacts
  <2>3. CASE Foreground
    BY <1>1, <1>2, <2>1, <2>2, <2>3 DEF Over
  <2>4. CASE ~Foreground
    BY <1>1, <1>2, <1>6, <2>2, <2>4 DEF Over
  <2>5. QED
    BY <2>2, <2>3, <2>4
<1>12. Slot!End \/ UNCHANGED Slot!vars
  BY <1>1, <1>2 DEF Slot!End, Slot!vars
<1>13. QED
  BY <1>8, <1>9, <1>10, <1>11, <1>12 DEF SlotInv

\* What the end of a terminal event's handling does to the foreground turn.
LEMMA TerminateView ==
    ASSUME TypeInv, NEW g \in Objs, NEW a \in Agent, NEW fg, NEW turn, NEW emit,
           fg => turn \in Ops, Terminate(g, a, fg, turn, emit),
           a.active = objs[g].active, a.waiters = objs[g].waiters
    PROVE  /\ \A h \in Objs : /\ objs'[h].waiters = objs[h].waiters
                              /\ objs'[h].active \in {objs[h].active, None}
           /\ fg => objs'[g].active = None
           /\ \A h \in Objs \ {g} : objs'[h] = objs[h]
<1>1. CASE fg
  <2> DEFINE f == Finalized(a, {turn})
  <2>1. f \in Agent /\ f.active = None /\ f.waiters = a.waiters
    BY <1>1, FinalizedAgent
  <2> HIDE DEF f
  <2>2. Store(g, f, ~HoldsBusy(a))
    BY <1>1 DEF Terminate, f
  <2>3. QED
    BY <1>1, <2>1, <2>2, StoreView
<1>2. CASE ~fg
  <2>1. Store(g, a, emit)
    BY <1>2 DEF Terminate
  <2>2. QED
    BY <1>2, <2>1, StoreView
<1>3. QED
  BY <1>1, <1>2

\* The rest of the handling of turn_failed, after the append it awaits.
LEMMA SlotFailureAppended ==
    ASSUME SlotInv, TypeInv', FailureAppended
    PROVE  SlotInv' /\ (Slot!End \/ UNCHANGED Slot!vars)
<1> DEFINE g == busy.g
           b == [objs[g] EXCEPT !.perms = {}]
<1>1. busy \in Dispatch /\ busy # NoEvent /\ busy.phase = "append"
  BY SlotFacts DEF FailureAppended, NoEvent
<1>2. g \in Objs /\ objs[g] \in Agent /\ (busy.fg => busy.e.turn \in Ops)
  BY <1>1, SlotFacts DEF TypeOK, Dispatch, ForegroundTyped
<1>3. b \in Agent /\ b.active = objs[g].active /\ b.waiters = objs[g].waiters
  BY <1>2 DEF Agent
<1>4. Terminate(g, b, busy.fg, busy.e.turn, TRUE)
  BY DEF FailureAppended
<1>5. /\ \A h \in Objs : /\ objs'[h].waiters = objs[h].waiters
                         /\ objs'[h].active \in {objs[h].active, None}
      /\ busy.fg => objs'[g].active = None
  BY <1>2, <1>3, <1>4, TerminateView DEF SlotInv
<1>6. UNCHANGED <<cur, pending, settled, wsettled, ends, forced, pc, op>>
  BY DEF FailureAppended, slot, streams
<1>7. busy'.to = busy.to /\ busy'.g = busy.g /\ busy'.e = busy.e /\ busy'.phase = "notify"
  BY <1>1 DEF FailureAppended, Dispatch
<1>8. NoRewind' /\ HolderRuns' /\ SettledRan' /\ RunOwnsSlot' /\ ObjectsRegistered'
  BY <1>6, SlotFacts
     DEF NoRewind, HolderRuns, SettledRan, RunOwnsSlot, Running, ObjectsRegistered
<1>9. WaitersOfObject' /\ TurnForwarded' /\ EndedNotActive'
  BY <1>5, <1>6, SlotFacts DEF WaitersOfObject, TurnForwarded, EndedNotActive, Over
<1>10. Streamed'
  BY <1>1, <1>5, <1>6, <1>7, SlotFacts DEF Streamed
<1>11. NotifiedNotActive'
  BY <1>1, <1>5, <1>6, <1>7, SlotFacts DEF NotifiedNotActive, Over
<1>12. Slot!End \/ UNCHANGED Slot!vars
  BY <1>5, <1>6, SlotFacts DEF Slot!End, Slot!vars
<1>13. QED
  BY <1>8, <1>9, <1>10, <1>11, <1>12 DEF SlotInv

\* The waiters of an event are told: the slot is not touched.
LEMMA SlotNotify ==
    ASSUME SlotInv, TypeInv', Notify
    PROVE  SlotInv' /\ UNCHANGED Slot!vars
<1>1. busy \in Dispatch /\ busy # NoEvent /\ busy.phase = "notify" /\ busy' = NoEvent
  BY SlotFacts DEF Notify, NoEvent
<1>2. UNCHANGED <<cur, objs, pending, settled, forced, pc, op>>
  BY DEF Notify, slot
<1>3. /\ ends' \subseteq ends \cup busy.to
      /\ wsettled' \subseteq wsettled \cup busy.to
      /\ busy.e.type \notin TerminalTypes =>
           ends' \subseteq ends \cup wsettled /\ wsettled' = wsettled
  BY DEF Notify
<1>4. NoRewind' /\ HolderRuns' /\ SettledRan' /\ RunOwnsSlot' /\ ObjectsRegistered'
      /\ WaitersOfObject' /\ TurnForwarded'
  BY <1>2, SlotFacts DEF NoRewind, HolderRuns, SettledRan, RunOwnsSlot, Running,
     ObjectsRegistered, WaitersOfObject, TurnForwarded
<1>5. Streamed' /\ NotifiedNotActive'
  BY <1>1, <1>2, <1>3, SlotFacts DEF Streamed, NotifiedNotActive
<1>6. EndedNotActive'
  <2>1. \A p \in wsettled' \cup ends' \cup forced' : Over(p)
    BY <1>1, <1>2, <1>3, SlotFacts DEF EndedNotActive, NotifiedNotActive
  <2>2. QED
    BY <1>2, <2>1 DEF EndedNotActive, Over
<1>7. UNCHANGED Slot!vars
  BY <1>2 DEF Slot!vars
<1>8. QED
  BY <1>4, <1>5, <1>6, <1>7 DEF SlotInv

\* Every step of AgentRuns is a step of RunSlot or a stutter.
Implements == Slot!Next \/ UNCHANGED Slot!vars

\* The steps of the event chain.
LEMMA SlotChain ==
    ASSUME SlotInv, TypeInv', Chain
    PROVE  SlotInv' /\ Implements
<1> DEFINE e == Head(queue)
           a == objs[cur]
<1>1. TypeInv /\ TypeOK
  BY SlotFacts DEF SlotInv
<1>2. CASE EventDropped
  <2>1. Quiet /\ UNCHANGED <<pc, op>>
    BY <1>2 DEF EventDropped, Quiet, SameObjects
  <2>2. QED
    BY <2>1, QuietElsewhere DEF Implements
<1>3. CASE TurnStarted
  <2>1. Receives("started") /\ cur \in Objs /\ a \in Agent
    BY <1>1, <1>3, Received DEF TurnStarted
  <2> DEFINE b == IF Foreground THEN a ELSE [a EXCEPT !.lifecycle = "running"]
  <2>2. b \in Agent /\ b.active = a.active /\ b.waiters = a.waiters
    BY <2>1 DEF Agent, Lifecycles
  <2>3. Store(cur, b, ~Foreground)
    BY <1>3 DEF TurnStarted
  <2> HIDE DEF b
  <2>4. SameObjects
    BY <1>1, <2>1, <2>2, <2>3, StoreSame
  <2>5. "started" \notin TerminalTypes
    BY DEF TerminalTypes
  <2>6. QED
    BY <1>3, <2>1, <2>4, <2>5, SlotDispatch DEF TurnStarted, SameObjects, Implements, Slot!Next
<1>4. CASE TurnCompleted
  <2> DEFINE drop == BackgroundEnds(a) /\ a.lifecycle # "idle"
             b == [a EXCEPT !.err = FALSE,
                            !.lifecycle = IF drop THEN "idle" ELSE @]
  <2>1. Receives("completed") /\ cur \in Objs /\ a \in Agent
        /\ (Foreground => e.turn \in Ops)
    BY <1>1, <1>4, Received DEF TurnCompleted, TerminalTypes
  <2>2. b \in Agent /\ b.active = a.active /\ b.waiters = a.waiters
    BY <2>1 DEF Agent, Lifecycles
  <2>3. Terminate(cur, b, Foreground, e.turn, drop)
    BY <1>4 DEF TurnCompleted
  <2> HIDE DEF b
  <2>4. /\ \A h \in Objs : /\ objs'[h].waiters = objs[h].waiters
                           /\ objs'[h].active \in {objs[h].active, None}
        /\ Foreground => objs'[cur].active = None
    BY <1>1, <2>1, <2>2, <2>3, TerminateView
  <2>5. QED
    BY <1>4, <2>1, <2>4, SlotDispatch DEF TurnCompleted, TerminalTypes, Implements, Slot!Next
<1>5. CASE TurnCanceled
  <2> DEFINE b == [a EXCEPT !.err = FALSE, !.perms = {},
                            !.lifecycle = IF BackgroundEnds(a) THEN "idle" ELSE @]
  <2>1. Receives("canceled") /\ cur \in Objs /\ a \in Agent
        /\ (Foreground => e.turn \in Ops)
    BY <1>1, <1>5, Received DEF TurnCanceled, TerminalTypes
  <2>2. b \in Agent /\ b.active = a.active /\ b.waiters = a.waiters
    BY <2>1 DEF Agent, Lifecycles
  <2>3. Terminate(cur, b, Foreground, e.turn, TRUE)
    BY <1>5 DEF TurnCanceled
  <2> HIDE DEF b
  <2>4. /\ \A h \in Objs : /\ objs'[h].waiters = objs[h].waiters
                           /\ objs'[h].active \in {objs[h].active, None}
        /\ Foreground => objs'[cur].active = None
    BY <1>1, <2>1, <2>2, <2>3, TerminateView
  <2>5. QED
    BY <1>5, <2>1, <2>4, SlotDispatch DEF TurnCanceled, TerminalTypes, Implements, Slot!Next
<1>6. CASE TurnFailed
  <2> DEFINE b == [a EXCEPT !.err = TRUE, !.lifecycle = IF Foreground THEN @ ELSE "error"]
  <2>1. Receives("failed") /\ cur \in Objs /\ a \in Agent
    BY <1>1, <1>6, Received DEF TurnFailed
  <2>2. b \in Agent /\ b.active = a.active /\ b.waiters = a.waiters
    BY <2>1 DEF Agent, Lifecycles
  <2>3. Store(cur, b, FALSE)
    BY <1>6 DEF TurnFailed
  <2> HIDE DEF b
  <2>4. SameObjects
    BY <1>1, <2>1, <2>2, <2>3, StoreSame
  <2>5. QED
    BY <1>6, <2>1, <2>4, SlotDispatch
       DEF TurnFailed, TerminalTypes, SameObjects, Implements, Slot!Next
<1>7. CASE FailureAppended
  BY <1>7, SlotFailureAppended DEF Implements, Slot!Next
<1>8. CASE PermissionRequested
  <2> DEFINE b == [a EXCEPT !.perms = @ \cup {e.turn}]
  <2>1. /\ Receives("permission_requested") /\ cur \in Objs /\ a \in Agent
        /\ e \in Event /\ e.type = "permission_requested"
    BY <1>1, <1>8, Received DEF PermissionRequested
  <2>2. e.turn \in Perms
    BY <2>1, EventTag
  <2>3. b \in Agent /\ b.active = a.active /\ b.waiters = a.waiters
    BY <2>1, <2>2 DEF Agent
  <2>4. Store(cur, b, TRUE)
    BY <1>8 DEF PermissionRequested
  <2> HIDE DEF b
  <2>5. Quiet /\ UNCHANGED <<pc, op>>
    BY <1>1, <1>8, <2>1, <2>3, <2>4, StoreSame DEF PermissionRequested, Receives, Quiet
  <2>6. QED
    BY <2>5, QuietElsewhere DEF Implements
<1>9. CASE PermissionResolved
  <2> DEFINE p == e.turn
             held == p \in a.inFlight
             b == [a EXCEPT !.perms = @ \ {p}, !.buffered = IF held THEN @ \cup {p} ELSE @]
  <2>1. /\ Receives("permission_resolved") /\ cur \in Objs /\ a \in Agent
        /\ e \in Event /\ e.type = "permission_resolved"
    BY <1>1, <1>9, Received DEF PermissionResolved
  <2>2. p \in Perms
    BY <2>1, EventTag
  <2>3. b \in Agent /\ b.active = a.active /\ b.waiters = a.waiters
    BY <2>1, <2>2 DEF Agent
  <2>4. Store(cur, b, ~held)
    BY <1>9 DEF PermissionResolved
  <2> HIDE DEF b
  <2>5. Quiet /\ UNCHANGED <<pc, op>>
    BY <1>1, <1>9, <2>1, <2>3, <2>4, StoreSame DEF PermissionResolved, Receives, Quiet
  <2>6. QED
    BY <2>5, QuietElsewhere DEF Implements
<1>10. CASE Notify
  BY <1>10, SlotNotify DEF Implements
<1>11. QED
  BY <1>2, <1>3, <1>4, <1>5, <1>6, <1>7, <1>8, <1>9, <1>10 DEF Chain

\* What the session does and what emissions defer leaves the slot alone.
LEMMA SlotElsewhere ==
    ASSUME SlotInv, TypeInv', Session \/ StateEmitted \/ ClearAttention
    PROVE  SlotInv' /\ Implements
<1>1. TypeInv /\ TypeOK
  BY SlotFacts DEF SlotInv
<1>2. CASE Session
  <2>1. UNCHANGED <<cur, objs, slot, streams, pc, op, busy, forced>>
    BY <1>2 DEF Session, SessionAutoStarts, SessionAnnounces, SessionEnds,
                SessionAutoEnds, SessionAsks, SessionResolves, SessionDrops, Enqueue, events
  <2>2. QED
    BY <2>1, QuietElsewhere DEF Quiet, SameObjects, Implements
<1>3. CASE StateEmitted \/ ClearAttention
  <2> DEFINE b == [objs[cur] EXCEPT !.attention = "none"]
  <2>1. cur \in Objs /\ objs[cur] \in Agent
    BY <1>1, <1>3 DEF StateEmitted, ClearAttention, TypeOK
  <2>2. b \in Agent /\ b.active = objs[cur].active /\ b.waiters = objs[cur].waiters
    BY <2>1 DEF Agent, Attentions
  <2>3. Store(cur, objs[cur], TRUE) \/ Store(cur, b, FALSE)
    BY <1>3 DEF StateEmitted, ClearAttention
  <2> HIDE DEF b
  <2>4. SameObjects
    BY <1>1, <2>1, <2>2, <2>3, StoreSame
  <2>5. Quiet /\ UNCHANGED <<pc, op>>
    BY <1>3, <2>4 DEF StateEmitted, ClearAttention, Quiet, events
  <2>6. QED
    BY <2>5, QuietElsewhere DEF Implements
<1>4. QED
  BY <1>2, <1>3

\* A call that begins, or resumes after its cancellation.
LEMMA OnwardBegins ==
    ASSUME SlotInv, NEW o \in Ops, NEW c, op' = [op EXCEPT ![o] = c], c.kind # "rewind",
           c.obj \in {op[o].obj, cur}, pc[o] \in {"idle", "resume"},
           NEW l \in Labels \ {"starting", "failing", "streaming", "rewinding"}, Goto(o, l)
    PROVE  Onward(o)
BY SlotFacts DEF Onward, Goto, TypeOK

\* A call that goes on.
LEMMA OnwardMoves ==
    ASSUME SlotInv, NEW o \in Ops, op' = op, NEW l, Goto(o, l),
           {pc[o], l} \cap {"starting", "failing", "streaming", "rewinding"} = {},
           pc[o] # "done",
           pc[o] \in {"refresh", "catch", "subscribing"} => l = "done",
           pc[o] = "initializing" => l = "subscribing"
    PROVE  Onward(o)
BY SlotFacts DEF Onward, Goto, TypeOK, NoRewind

\* Beginning a cancellation leaves slot, turns and waiters alone.
LEMMA QuietBeginCancel ==
    ASSUME SlotInv, TypeInv', NEW o \in Ops, NEW k \in {"cancel", "replace", "reload"},
           pc[o] = "idle", BeginCancel(o, k), SameObjects
    PROVE  SlotInv' /\ Implements
<1> DEFINE c == [op[o] EXCEPT !.kind = k, !.obj = cur, !.run = pending,
                              !.turn = objs[cur].active]
<1>1. op[o] \in Call /\ op' = [op EXCEPT ![o] = c]
  BY SlotFacts DEF BeginCancel, TypeOK
<1>2. c.kind = k /\ c.obj = cur
  BY <1>1 DEF Call
<1>3. Goto(o, "interrupting")
  BY DEF BeginCancel
<1> HIDE DEF c
<1>4. Onward(o)
  BY <1>1, <1>2, <1>3, OnwardBegins DEF Labels
<1>5. Quiet
  BY DEF BeginCancel, Quiet, events
<1>6. QED
  BY <1>4, <1>5, QuietStep DEF Implements

\* Beginning a reload leaves slot, turns and waiters alone.
LEMMA QuietBeginReload ==
    ASSUME SlotInv, TypeInv', NEW o \in Ops, pc[o] \in {"idle", "resume"}, BeginReload(o)
    PROVE  SlotInv' /\ Implements
<1> DEFINE saved == [err |-> objs[cur].err, attention |-> objs[cur].attention]
           c == [op[o] EXCEPT !.kind = "reload", !.obj = cur, !.saved = saved]
<1>1. op[o] \in Call /\ op' = [op EXCEPT ![o] = c]
  BY SlotFacts DEF BeginReload, TypeOK
<1>2. c.kind = "reload" /\ c.obj = cur
  BY <1>1 DEF Call
<1>3. Goto(o, "resuming")
  BY DEF BeginReload
<1> HIDE DEF c
<1>4. Onward(o)
  BY <1>1, <1>2, <1>3, OnwardBegins DEF Labels
<1>5. Quiet
  BY DEF BeginReload, Quiet, SameObjects, events
<1>6. QED
  BY <1>4, <1>5, QuietStep DEF Implements

\* What a call does first: a prompt claims the slot, every other one stutters.
LEMMA SlotBegin ==
    ASSUME SlotInv, TypeInv', "rewind" \notin Kinds, NEW o \in Ops, Begin(o)
    PROVE  SlotInv' /\ Implements
<1>1. TypeInv /\ TypeOK
  BY SlotFacts DEF SlotInv
<1>2. CASE Run(o)
  BY <1>2, SlotStreamAgent DEF Run, Implements, Slot!Next
<1>3. CASE Cancel(o)
  <2>1. pc[o] = "idle" /\ BeginCancel(o, "cancel") /\ SameObjects
    BY <1>3 DEF Cancel, SameObjects
  <2>2. QED
    BY <2>1, QuietBeginCancel
<1>4. CASE Replace(o)
  <2>1. CASE StreamAgent(o, "run")
    BY <1>4, <2>1, SlotStreamAgent DEF Replace, Implements, Slot!Next
  <2>2. CASE BeginCancel(o, "replace")
             /\ Store(cur, [objs[cur] EXCEPT !.replacing = TRUE,
                                             !.lifecycle = "running"], TRUE)
    <3> DEFINE b == [objs[cur] EXCEPT !.replacing = TRUE, !.lifecycle = "running"]
    <3>1. pc[o] = "idle" /\ cur \in Objs /\ objs[cur] \in Agent
      BY <1>1, <1>4 DEF Replace, TypeOK
    <3>2. b \in Agent /\ b.active = objs[cur].active /\ b.waiters = objs[cur].waiters
      BY <3>1 DEF Agent, Lifecycles
    <3> HIDE DEF b
    <3>3. Store(cur, b, TRUE)
      BY <2>2 DEF b
    <3>4. SameObjects
      BY <1>1, <3>1, <3>2, <3>3, StoreSame
    <3>5. QED
      BY <2>2, <3>1, <3>4, QuietBeginCancel
  <2>3. QED
    BY <1>4, <2>1, <2>2 DEF Replace
<1>5. CASE Rewind(o)
  BY <1>5 DEF Rewind
<1>6. CASE Close(o)
  BY <1>6, SlotClose DEF Implements, Slot!Next
<1>7. CASE Reload(o)
  <2>1. CASE BeginCancel(o, "reload") /\ UNCHANGED <<objs, prevStatus>>
    BY <1>7, <2>1, QuietBeginCancel DEF Reload, SameObjects
  <2>2. CASE BeginReload(o)
    BY <1>7, <2>2, QuietBeginReload DEF Reload
  <2>3. QED
    BY <1>7, <2>1, <2>2 DEF Reload
<1>8. CASE Open(o)
  <2> DEFINE c == [op[o] EXCEPT !.kind = "open"]
  <2>1. op[o] \in Call /\ op' = [op EXCEPT ![o] = c]
    BY <1>1, <1>8 DEF Open, TypeOK
  <2>2. c.kind = "open" /\ c.obj = op[o].obj
    BY <2>1 DEF Call
  <2>3. pc[o] = "idle" /\ Goto(o, "registering") /\ Quiet
    BY <1>8 DEF Open, Quiet, SameObjects, events
  <2> HIDE DEF c
  <2>4. QED
    BY <2>1, <2>2, <2>3, OnwardBegins, QuietStep DEF Labels, Implements
<1>9. ASSUME NEW p \in Perms, Respond(o, p)
      PROVE  SlotInv' /\ Implements
  <2> DEFINE c == [op[o] EXCEPT !.kind = "respond", !.obj = cur, !.perm = p]
             b == [objs[cur] EXCEPT !.inFlight = @ \cup {p}]
  <2>1. op[o] \in Call /\ op' = [op EXCEPT ![o] = c] /\ cur \in Objs /\ objs[cur] \in Agent
    BY <1>1, <1>9 DEF Respond, TypeOK
  <2>2. c.kind = "respond" /\ c.obj = cur
    BY <2>1 DEF Call
  <2>3. b.active = objs[cur].active /\ b.waiters = objs[cur].waiters
    BY <2>1 DEF Agent
  <2>4. objs' = [objs EXCEPT ![cur] = b]
    BY <1>1, <1>9, <2>1 DEF Respond, TypeOK
  <2>5. SameObjects
    BY <1>1, <2>3, <2>4 DEF SameObjects, TypeOK
  <2>6. pc[o] = "idle" /\ Goto(o, "responding") /\ Quiet
    BY <1>9, <2>5 DEF Respond, Quiet, events
  <2> HIDE DEF c
  <2>7. QED
    BY <2>1, <2>2, <2>6, OnwardBegins, QuietStep DEF Labels, Implements
<1>10. QED
  BY <1>2, <1>3, <1>4, <1>5, <1>6, <1>7, <1>8, <1>9 DEF Begin

\* The steps that only emit, refresh or move on.
LEMMA SlotQuietSteps ==
    ASSUME SlotInv, TypeInv', NEW o \in Ops,
           \/ Refresh(o) \/ Interrupted(o) \/ StaleSettled(o) \/ ReplaceCatch(o)
           \/ Closed(o) \/ OldClosed(o) \/ RegisterIdle(o) \/ RegisterSubscribe(o)
           \/ Responded(o) \/ Refreshed(o) \/ Persisted(o)
    PROVE  SlotInv' /\ Implements
<1> DEFINE g == op[o].obj
           p == op[o].perm
           a == objs[g]
<1>1. TypeInv /\ TypeOK
  BY SlotFacts DEF SlotInv
<1>2. pc[o] \notin {"idle", "closing", "registering", "done"} => g \in Objs /\ a \in Agent
  BY <1>1, CapturedObject
<1>3. SUFFICES Quiet /\ Onward(o)
  BY QuietStep DEF Implements
<1>4. CASE Interrupted(o) \/ Closed(o) \/ OldClosed(o)
  <2>1. Quiet
    BY <1>4 DEF Interrupted, Closed, OldClosed, Quiet, SameObjects, events
  <2>2. Onward(o)
    BY <1>4, OnwardMoves DEF Interrupted, Closed, OldClosed
  <2>3. QED
    BY <2>1, <2>2
<1>5. CASE Refresh(o)
  <2>1. PICK changed \in BOOLEAN : Store(g, a, changed)
    BY <1>5 DEF Refresh
  <2>2. SameObjects
    BY <1>1, <1>2, <1>5, <2>1, StoreSame DEF Refresh
  <2>3. QED
    BY <1>5, <2>2, OnwardMoves DEF Refresh, Quiet, events
<1>6. CASE StaleSettled(o)
  <2>1. Cleared(a) \in Agent /\ Cleared(a).active = a.active /\ Cleared(a).waiters = a.waiters
    BY <1>2, <1>6 DEF StaleSettled, Cleared, Agent
  <2>2. SameObjects
    BY <1>1, <1>2, <1>6, <2>1, StoreSame DEF StaleSettled
  <2>3. QED
    BY <1>6, <2>2, OnwardMoves DEF StaleSettled, AfterCancel, Quiet, events
<1>7. CASE ReplaceCatch(o)
  <2> DEFINE b == [objs[cur] EXCEPT !.replacing = FALSE]
             drop == b.active = None /\ b.lifecycle = "running"
             d == IF drop THEN [b EXCEPT !.lifecycle = "idle"] ELSE b
  <2>1. SameObjects
    <3>1. CASE cur = None
      BY <1>7, <3>1 DEF ReplaceCatch, SameObjects
    <3>2. CASE cur # None
      <4>1. cur \in Objs /\ objs[cur] \in Agent
        BY <1>1, <3>2 DEF TypeOK
      <4>2. d \in Agent /\ d.active = objs[cur].active /\ d.waiters = objs[cur].waiters
        BY <4>1 DEF Agent, Lifecycles
      <4>3. Store(cur, d, drop)
        BY <1>7, <3>2 DEF ReplaceCatch
      <4> HIDE DEF d
      <4>4. QED
        BY <1>1, <4>1, <4>2, <4>3, StoreSame
    <3>3. QED
      BY <3>1, <3>2
  <2>2. QED
    BY <1>7, <2>1, OnwardMoves DEF ReplaceCatch, Quiet, events
<1>8. CASE RegisterIdle(o)
  <2> DEFINE b == [objs[o] EXCEPT !.lifecycle = "idle", !.perms = sperms[o]]
  <2>1. o \in Objs /\ objs[o] \in Agent
    BY <1>1 DEF TypeOK, Objs
  <2>2. b.active = objs[o].active /\ b.waiters = objs[o].waiters
    BY <2>1 DEF Agent
  <2>3. objs' = [objs EXCEPT ![o] = b]
    BY <1>1, <1>8, <2>1 DEF RegisterIdle, TypeOK
  <2>4. SameObjects
    BY <1>1, <2>2, <2>3 DEF SameObjects, TypeOK
  <2>5. QED
    BY <1>8, <2>4, OnwardMoves DEF RegisterIdle, Quiet, events
<1>9. CASE RegisterSubscribe(o)
  <2> DEFINE b == [objs[o] EXCEPT !.subscribed = TRUE]
  <2>1. o \in Objs /\ objs[o] \in Agent
    BY <1>1 DEF TypeOK, Objs
  <2>2. b \in Agent /\ b.active = objs[o].active /\ b.waiters = objs[o].waiters
    BY <2>1 DEF Agent
  <2>3. Store(o, b, TRUE)
    BY <1>9 DEF RegisterSubscribe
  <2>4. SameObjects
    BY <1>1, <2>1, <2>2, <2>3, StoreSame
  <2>5. QED
    BY <1>9, <2>4, OnwardMoves DEF RegisterSubscribe, Quiet, events
<1>10. CASE Responded(o) \/ Refreshed(o)
  <2>1. g \in Objs /\ a \in Agent
    BY <1>2, <1>10 DEF Responded, Refreshed
  <2>2. \/ objs' = [objs EXCEPT ![g] = [a EXCEPT !.perms = @ \ {p}]]
        \/ objs' = [objs EXCEPT ![g] = [a EXCEPT !.inFlight = @ \ {p}, !.buffered = @ \ {p}]]
        \/ objs' = [objs EXCEPT ![g] = [a EXCEPT !.perms = sperms[g]]]
    BY <1>1, <1>10, <2>1 DEF Responded, Refreshed, TypeOK
  <2>3. PICK b : /\ objs' = [objs EXCEPT ![g] = b]
                 /\ b.active = a.active /\ b.waiters = a.waiters
    BY <2>1, <2>2 DEF Agent
  <2>4. SameObjects
    BY <1>1, <2>3 DEF SameObjects, TypeOK
  <2>5. QED
    BY <1>10, <2>4, OnwardMoves DEF Responded, Refreshed, Quiet, events
<1>11. CASE Persisted(o)
  <2> DEFINE b == [a EXCEPT !.inFlight = @ \ {p}, !.buffered = @ \ {p}]
  <2>1. g \in Objs /\ a \in Agent
    BY <1>2, <1>11 DEF Persisted
  <2>2. b \in Agent /\ b.active = a.active /\ b.waiters = a.waiters
    BY <2>1 DEF Agent
  <2>3. Store(g, b, TRUE)
    BY <1>11 DEF Persisted
  <2>4. SameObjects
    BY <1>1, <2>1, <2>2, <2>3, StoreSame
  <2>5. QED
    BY <1>11, <2>4, OnwardMoves DEF Persisted, Quiet, events
<1>12. QED
  BY <1>4, <1>5, <1>6, <1>7, <1>8, <1>9, <1>10, <1>11

\* The steps of a call after its first.
LEMMA SlotSteps ==
    ASSUME SlotInv, TypeInv', NEW o \in Ops, Step(o) \/ Answer(o)
    PROVE  SlotInv' /\ Implements
<1>1. NoRewind
  BY SlotFacts
<1>2. CASE ReplaceResumes(o)
  <2>1. CASE StreamAgent(o, "replace")
    BY <1>2, <2>1, SlotStreamAgent DEF ReplaceResumes, Implements, Slot!Next
  <2>2. CASE /\ Goto(o, "catch")
             /\ UNCHANGED <<cur, objs, prevStatus, slot, streams, op, events, provider>>
    <3>1. Quiet
      BY <2>2 DEF Quiet, SameObjects, events
    <3>2. Onward(o)
      BY <1>2, <2>2, OnwardMoves DEF ReplaceResumes
    <3>3. QED
      BY <3>1, <3>2, QuietStep DEF Implements
  <2>3. QED
    BY <1>2, <2>1, <2>2 DEF ReplaceResumes
<1>3. CASE ReloadResumes(o)
  <2>1. CASE BeginReload(o)
    BY <1>3, <2>1, QuietBeginReload DEF ReloadResumes
  <2>2. CASE /\ Goto(o, "done")
             /\ UNCHANGED <<cur, objs, prevStatus, slot, streams, op, events, provider>>
    <3>1. Quiet
      BY <2>2 DEF Quiet, SameObjects, events
    <3>2. Onward(o)
      BY <1>3, <2>2, OnwardMoves DEF ReloadResumes
    <3>3. QED
      BY <3>1, <3>2, QuietStep DEF Implements
  <2>3. QED
    BY <1>3, <2>1, <2>2 DEF ReloadResumes
<1>4. CASE RewindResumes(o) \/ Rewound(o)
  BY <1>1, <1>4 DEF NoRewind, RewindResumes, Rewound
<1>5. CASE StartFailed(o) \/ Drain(o) \/ Swap(o)
  BY <1>5, SlotStartFailed, SlotDrain, SlotSwap DEF Implements, Slot!Next
<1>6. CASE AfterWait(o) \/ Register(o) \/ NotifyForced(o)
  BY <1>6, SlotAfterWait, SlotRegister, SlotNotifyForced DEF Implements, Slot!Next
<1>7. CASE StartResolves(o) \/ StartThrows(o)
  BY <1>7, SlotStartResolves, SlotStartThrows DEF Implements, Slot!Next
<1>8. QED
  BY <1>2, <1>3, <1>4, <1>5, <1>6, <1>7, SlotQuietSteps DEF Step, Answer

\* Every step keeps the invariant and is a step or a stutter of RunSlot.
LEMMA SlotNext ==
    ASSUME SlotInv, "rewind" \notin Kinds, [Next]_vars
    PROVE  SlotInv' /\ Implements
<1>1. TypeInv'
  BY TypeNext DEF SlotInv
<1>2. CASE UNCHANGED vars
  <2>1. Quiet /\ UNCHANGED <<pc, op>>
    BY <1>2 DEF vars, slot, streams, events, Quiet, SameObjects
  <2>2. QED
    BY <1>1, <2>1, QuietElsewhere DEF Implements
<1>3. QED
  BY <1>1, <1>2, SlotBegin, SlotSteps, SlotChain, SlotElsewhere DEF Next

\* The initial state satisfies the invariant and is RunSlot's.
LEMMA SlotInit == Init => SlotInv /\ Slot!Init
<1> SUFFICES ASSUME Init PROVE SlotInv /\ Slot!Init
  OBVIOUS
<1>1. \A g \in Objs : objs[g].active = None /\ objs[g].waiters = {}
  BY DEF Init, NewAgent
<1>2. cur = First /\ First \in Objs /\ First \notin Ops /\ First # None
  BY NamesAssumption DEF Init, Objs
<1>3. \A o \in Ops : pc[o] = "idle" /\ op[o].kind = "none" /\ op[o].obj = None
  BY DEF Init
<1>4. busy = NoEvent /\ pending = None /\ settled = {} /\ wsettled = {} /\ ends = {}
      /\ forced = {}
  BY DEF Init
<1>5. NoRewind /\ HolderRuns /\ SettledRan /\ RunOwnsSlot
  BY <1>3, <1>4 DEF NoRewind, HolderRuns, SettledRan, RunOwnsSlot, Running
<1>6. ObjectsRegistered
  BY <1>2, <1>3, NamesAssumption DEF ObjectsRegistered
<1>7. WaitersOfObject /\ Streamed /\ TurnForwarded /\ EndedNotActive /\ NotifiedNotActive
  BY <1>1, <1>2, <1>4
     DEF WaitersOfObject, Streamed, TurnForwarded, EndedNotActive, NotifiedNotActive
<1>8. Slot!Init
  BY <1>1, <1>2, <1>4 DEF Slot!Init
<1>9. QED
  BY <1>5, <1>6, <1>7, <1>8, TypeInit DEF SlotInv

-----------------------------------------------------------------------------
(* The theorems.  They hold for every set of calls and requests, every number *)
(* of autonomous turns and every provider quirk, as long as rewind is not     *)
(* called.                                                                    *)

\* In every reachable state the holder of the slot is a run of the registered
\* object, forwarded turns are the holder's, and no ended turn is active.
THEOREM SlotInvariant ==
    ASSUME "rewind" \notin Kinds
    PROVE  Spec => []SlotInv
<1>1. Init => SlotInv
  BY SlotInit
<1>2. SlotInv /\ [Next]_vars => SlotInv'
  BY SlotNext
<1>3. QED
  BY <1>1, <1>2, PTL DEF Spec

\* Runs exclude each other: at most one prompt is being started or streamed on
\* the registered session, and it holds the slot.
THEOREM RunsExclude ==
    ASSUME "rewind" \notin Kinds
    PROVE  Spec => []RunOwnsSlot
<1>1. SlotInv => RunOwnsSlot
  BY DEF SlotInv
<1>2. QED
  BY <1>1, SlotInvariant, PTL

\* The foreground turn is always being forwarded to whoever sent its prompt.
THEOREM TurnsForwarded ==
    ASSUME "rewind" \notin Kinds
    PROVE  Spec => []TurnForwarded
<1>1. SlotInv => TurnForwarded
  BY DEF SlotInv
<1>2. QED
  BY <1>1, SlotInvariant, PTL

\* The slot never leaks: its holder is a run that will give it up.
THEOREM SlotNeverLeaks ==
    ASSUME "rewind" \notin Kinds
    PROVE  Spec => []SlotHeld
<1>1. SlotInv => SlotHeld
  BY DEF SlotInv, HolderRuns, SlotHeld
<1>2. QED
  BY <1>1, SlotInvariant, PTL

\* AgentRuns implements RunSlot: one holder at a time, only the holder's turn
\* in the foreground, the slot given up once and for all, and no turn left
\* behind by its holder.
THEOREM ImplementsRunSlot ==
    ASSUME "rewind" \notin Kinds
    PROVE  Spec => SlotSpec
<1>1. Init => Slot!Init
  BY SlotInit
<1>2. SlotInv /\ [Next]_vars => [Slot!Next]_(Slot!vars)
  BY SlotNext DEF Implements
<1>3. QED
  BY <1>1, <1>2, SlotInvariant, PTL DEF Spec, SlotSpec, Slot!Spec
=============================================================================
