-------------------------- MODULE AgentCancelProofs --------------------------
(***************************************************************************)
(* cancelAgentRun keeps its word, proved for every set of calls (rewind    *)
(* included), permission requests and provider quirks.                     *)
(***************************************************************************)
EXTENDS AgentRunsProofs

-----------------------------------------------------------------------------
(* The invariant.  A turn becomes the foreground turn once, as its stream    *)
(* begins; so a turn that a cancellation has found in the foreground and     *)
(* that has left it never comes back, on this object or on another.          *)

TurnsStream ==
    \A g \in Objs : objs[g].active # None => pc[objs[g].active] \in StreamLabels

CapturedTurnsStream ==
    \A o \in Ops : op[o].turn # None =>
        pc[op[o].turn] \in StreamLabels /\ op[o].obj \in Objs

CancelLabels == {"interrupting", "waiting", "stale", "done"}

CancelsOnly == \A o \in Ops : op[o].kind = "cancel" => pc[o] \in CancelLabels

\* Past its wait a cancellation has removed its turn.
CanceledGone ==
    \A o \in Ops : op[o].kind = "cancel" /\ op[o].turn # None /\ pc[o] \in {"stale", "done"} =>
        objs[op[o].obj].active # op[o].turn

CancelInv == TypeInv /\ TurnsStream /\ CapturedTurnsStream /\ CancelsOnly /\ CanceledGone

\* No turn becomes the foreground turn.
Narrowed == \A g \in Objs : objs'[g].active \in {objs[g].active, None}

\* The foreground turns of a step that does not store an object.
LEMMA NarrowedSame ==
    ASSUME objs' = objs
    PROVE  Narrowed
BY DEF Narrowed

\* The foreground turns of a step that stores an object.
LEMMA NarrowedStore ==
    ASSUME TypeInv, NEW g \in Objs, NEW a \in Agent, NEW emit, Store(g, a, emit),
           a.active \in {objs[g].active, None}
    PROVE  Narrowed
<1>1. objs'[g].active = a.active /\ \A h \in Objs \ {g} : objs'[h] = objs[h]
  BY StoreView
<1>2. QED
  BY <1>1 DEF Narrowed

\* The same when the object is assigned without emitState.
LEMMA NarrowedAssign ==
    ASSUME TypeInv, NEW g \in Objs, NEW a, objs' = [objs EXCEPT ![g] = a],
           a.active \in {objs[g].active, None}
    PROVE  Narrowed
BY DEF Narrowed, TypeInv, TypeOK

\* A turn that streams goes on to have streamed.
Streams(o, l) == pc[o] \in StreamLabels => l \in StreamLabels

\* A call goes on, and no turn or its own becomes the foreground turn.
LEMMA CancelMoves ==
    ASSUME CancelInv, TypeInv', NEW o \in Ops, NEW l, Goto(o, l), Streams(o, l),
           \A p \in Ops \ {o} : op'[p] = op[p],
           \A g \in Objs : \/ objs'[g].active \in {objs[g].active, None}
                           \/ objs'[g].active = o /\ pc[o] = "starting" /\ l = "streaming",
           \/ op'[o].turn \in {op[o].turn, None}
           \/ cur # None /\ op'[o].turn = objs[cur].active,
           op'[o].turn # None => op'[o].obj \in Objs,
           op'[o].kind = "cancel" => l \in CancelLabels,
           op'[o].kind = "cancel" /\ op'[o].turn # None /\ l \in {"stale", "done"} =>
               objs'[op'[o].obj].active # op'[o].turn
    PROVE  CancelInv'
<1>1. /\ TypeOK /\ TurnsStream /\ CapturedTurnsStream /\ CancelsOnly /\ CanceledGone
      /\ TypeOK' /\ Captured'
  BY DEF CancelInv, TypeInv
<1>2. pc'[o] = l /\ \A p \in Ops \ {o} : pc'[p] = pc[p]
  BY <1>1 DEF Goto, TypeOK
<1>3. \A t \in Ops : pc[t] \in StreamLabels => pc'[t] \in StreamLabels
  BY <1>2 DEF Streams
<1>4. /\ \A g \in Objs : objs[g] \in Agent /\ objs'[g] \in Agent
      /\ \A p \in Ops : op[p] \in Call /\ op'[p] \in Call
  BY <1>1 DEF TypeOK
<1>5. /\ \A g \in Objs : objs[g].active \in Ops \cup {None}
      /\ \A p \in Ops : /\ op[p].turn \in Ops \cup {None}
                        /\ op[p].obj \in Objs \cup {None}
  BY <1>4 DEF Agent, Call
<1>6. TurnsStream'
  <2> SUFFICES ASSUME NEW g \in Objs, objs'[g].active # None
               PROVE  pc'[objs'[g].active] \in StreamLabels
    BY DEF TurnsStream
  <2>1. CASE objs'[g].active = objs[g].active
    BY <1>1, <1>3, <1>5, <2>1 DEF TurnsStream
  <2>2. CASE objs'[g].active = o /\ l = "streaming"
    BY <1>2, <2>2 DEF StreamLabels
  <2>3. QED
    BY <2>1, <2>2
<1>7. CapturedTurnsStream'
  <2> SUFFICES ASSUME NEW p \in Ops, op'[p].turn # None
               PROVE  pc'[op'[p].turn] \in StreamLabels /\ op'[p].obj \in Objs
    BY DEF CapturedTurnsStream
  <2>1. CASE op'[p].turn = op[p].turn
    BY <1>1, <1>2, <1>3, <1>5, <2>1 DEF CapturedTurnsStream
  <2>2. CASE p = o /\ cur # None /\ op'[p].turn = objs[cur].active
    <3>1. cur \in Objs
      BY <1>1, <2>2 DEF TypeOK
    <3>2. QED
      BY <1>1, <1>3, <1>5, <2>2, <3>1 DEF TurnsStream
  <2>3. QED
    BY <2>1, <2>2
<1>8. CancelsOnly'
  BY <1>1, <1>2 DEF CancelsOnly
<1>9. CanceledGone'
  <2> SUFFICES ASSUME NEW p \in Ops, op'[p].kind = "cancel", op'[p].turn # None,
                      pc'[p] \in {"stale", "done"}
               PROVE  objs'[op'[p].obj].active # op'[p].turn
    BY DEF CanceledGone
  <2>1. CASE p = o
    BY <1>2, <2>1
  <2>2. CASE p # o
    <3>1. op'[p] = op[p] /\ pc'[p] = pc[p]
      BY <1>2, <2>2
    <3>2. objs[op[p].obj].active # op[p].turn
      BY <1>1, <3>1 DEF CanceledGone
    <3>3. pc[op[p].turn] \in StreamLabels /\ op[p].obj \in Objs
      BY <1>1, <1>5, <3>1 DEF CapturedTurnsStream
    <3>4. QED
      BY <3>1, <3>2, <3>3 DEF StreamLabels
  <2>3. QED
    BY <2>1, <2>2
<1>10. QED
  BY <1>6, <1>7, <1>8, <1>9 DEF CancelInv

\* A step of the session chain or of the provider moves no call.
LEMMA CancelElsewhere ==
    ASSUME CancelInv, TypeInv', UNCHANGED <<pc, op>>, Narrowed
    PROVE  CancelInv'
<1>1. /\ TypeOK /\ TurnsStream /\ CapturedTurnsStream /\ CancelsOnly /\ CanceledGone
  BY DEF CancelInv, TypeInv
<1>2. TurnsStream'
  BY <1>1 DEF TurnsStream, Narrowed
<1>3. CapturedTurnsStream' /\ CancelsOnly'
  BY <1>1 DEF CapturedTurnsStream, CancelsOnly
<1>4. CanceledGone'
  BY <1>1 DEF CanceledGone, CapturedTurnsStream, Narrowed
<1>5. QED
  BY <1>2, <1>3, <1>4 DEF CancelInv

\* A call of another kind, or one that has captured no turn, goes on.
LEMMA OtherMoves ==
    ASSUME CancelInv, TypeInv', NEW o \in Ops, NEW l, Goto(o, l), Streams(o, l), Narrowed,
           pc[o] \notin CancelLabels, op' = op
    PROVE  CancelInv'
<1>1. op[o].kind # "cancel"
  BY DEF CancelInv, CancelsOnly
<1>2. op[o].turn # None => op[o].obj \in Objs
  BY DEF CancelInv, CapturedTurnsStream
<1>3. QED
  BY <1>1, <1>2, CancelMoves DEF Narrowed

\* A call begins, or begins its second part, as something other than a cancel.
LEMMA OtherBegins ==
    ASSUME CancelInv, TypeInv', NEW o \in Ops, NEW l, Goto(o, l), Streams(o, l), Narrowed,
           NEW c, op' = [op EXCEPT ![o] = c], c.kind # "cancel",
           \/ c.turn = op[o].turn
           \/ cur # None /\ c.turn = objs[cur].active,
           c.turn # None => c.obj \in Objs
    PROVE  CancelInv'
<1>1. op'[o] = c /\ \A p \in Ops \ {o} : op'[p] = op[p]
  BY DEF CancelInv, TypeInv, TypeOK
<1>2. QED
  BY <1>1, CancelMoves DEF Narrowed

-----------------------------------------------------------------------------
(* Action by action *)

\* streamAgent up to the await of startTurn.
LEMMA CancelStreamAgent ==
    ASSUME CancelInv, TypeInv', NEW o \in Ops, NEW k \in {"run", "replace"},
           pc[o] \in {"idle", "resume"}, StreamAgent(o, k)
    PROVE  CancelInv'
<1>1. TypeInv /\ TypeOK
  BY DEF CancelInv, TypeInv
<1>2. cur \in Objs /\ objs[cur] \in Agent
  BY <1>1 DEF StreamAgent, SlotFree, TypeOK
<1>3. Narrowed
  <2>1. objs' = [objs EXCEPT ![cur] = [objs[cur] EXCEPT !.replacing = FALSE, !.err = FALSE]]
    BY <1>1, <1>2 DEF StreamAgent, TypeOK
  <2>2. [objs[cur] EXCEPT !.replacing = FALSE, !.err = FALSE].active = objs[cur].active
    BY <1>2 DEF Agent
  <2>3. QED
    BY <1>1, <1>2, <2>1, <2>2, NarrowedAssign
<1>4. op[o] \in Call /\ op' = [op EXCEPT ![o] = [op[o] EXCEPT !.kind = k, !.obj = cur]]
  BY <1>1 DEF StreamAgent, TypeOK
<1>5. PICK c : c = [op[o] EXCEPT !.kind = k, !.obj = cur]
  OBVIOUS
<1>6. c.kind = k /\ c.obj = cur /\ c.turn = op[o].turn
  BY <1>4, <1>5 DEF Call
<1>7. Goto(o, "starting") /\ Streams(o, "starting")
  BY DEF StreamAgent, Goto, Streams, StreamLabels
<1>8. QED
  BY <1>2, <1>3, <1>4, <1>5, <1>6, <1>7, OtherBegins

\* cancelAgentRun up to the await of the interrupt.
LEMMA CancelBeginCancel ==
    ASSUME CancelInv, TypeInv', NEW o \in Ops, NEW k \in AllKinds, pc[o] = "idle",
           cur # None, BeginCancel(o, k), Narrowed
    PROVE  CancelInv'
<1>1. TypeOK
  BY DEF CancelInv, TypeInv
<1>2. cur \in Objs
  BY <1>1 DEF TypeOK
<1>3. PICK c : c = [op[o] EXCEPT !.kind = k, !.obj = cur, !.run = pending,
                                 !.turn = objs[cur].active]
  OBVIOUS
<1>4. c.obj = cur /\ c.turn = objs[cur].active
  BY <1>1, <1>3 DEF TypeOK, Call
<1>5. op' = [op EXCEPT ![o] = c]
  BY <1>1, <1>3 DEF BeginCancel, TypeOK
<1>6. op'[o] = c /\ \A p \in Ops \ {o} : op'[p] = op[p]
  BY <1>1, <1>5 DEF TypeOK
<1>7. Goto(o, "interrupting") /\ Streams(o, "interrupting")
  BY DEF BeginCancel, Streams, StreamLabels
<1>8. QED
  BY <1>2, <1>4, <1>6, <1>7, CancelMoves DEF Narrowed, CancelLabels

\* reloadAgentSession up to the await of the new session.
LEMMA CancelBeginReload ==
    ASSUME CancelInv, TypeInv', NEW o \in Ops, pc[o] \in {"idle", "resume"}, cur # None,
           BeginReload(o)
    PROVE  CancelInv'
<1>1. TypeOK
  BY DEF CancelInv, TypeInv
<1>2. cur \in Objs /\ Narrowed
  BY <1>1, NarrowedSame DEF TypeOK, BeginReload
<1>3. PICK c : c = [op[o] EXCEPT !.kind = "reload", !.obj = cur,
                                 !.saved = [err |-> objs[cur].err,
                                            attention |-> objs[cur].attention]]
  OBVIOUS
<1>4. c.kind = "reload" /\ c.obj = cur /\ c.turn = op[o].turn
  BY <1>1, <1>3 DEF TypeOK, Call
<1>5. op' = [op EXCEPT ![o] = c]
  BY <1>1, <1>3 DEF BeginReload, TypeOK
<1>6. Goto(o, "resuming") /\ Streams(o, "resuming")
  BY DEF BeginReload, Streams, StreamLabels
<1>7. QED
  BY <1>2, <1>4, <1>5, <1>6, OtherBegins

\* What a call does first.
LEMMA CancelBegin ==
    ASSUME CancelInv, TypeInv', NEW o \in Ops, Begin(o)
    PROVE  CancelInv'
<1>1. TypeInv /\ TypeOK
  BY DEF CancelInv, TypeInv
<1>2. /\ op[o] \in Call /\ (op[o].turn # None => op[o].obj \in Objs)
      /\ cur # None => cur \in Objs /\ objs[cur] \in Agent
  BY <1>1 DEF TypeOK, CancelInv, CapturedTurnsStream
<1>3. CASE Run(o)
  BY <1>3, CancelStreamAgent DEF Run
<1>4. CASE Cancel(o)
  BY <1>4, NarrowedSame, CancelBeginCancel DEF Cancel, AllKinds
<1>5. CASE Replace(o)
  <2>1. CASE StreamAgent(o, "run")
    BY <1>5, <2>1, CancelStreamAgent DEF Replace
  <2>2. CASE BeginCancel(o, "replace")
             /\ Store(cur, [objs[cur] EXCEPT !.replacing = TRUE,
                                             !.lifecycle = "running"], TRUE)
    <3>1. cur # None /\ cur \in Objs /\ objs[cur] \in Agent /\ pc[o] = "idle"
      BY <1>2, <1>5 DEF Replace
    <3>2. PICK a : a = [objs[cur] EXCEPT !.replacing = TRUE, !.lifecycle = "running"]
      OBVIOUS
    <3>3. a \in Agent /\ a.active = objs[cur].active
      BY <3>1, <3>2 DEF Agent, Lifecycles
    <3>4. Narrowed
      BY <1>1, <2>2, <3>1, <3>2, <3>3, NarrowedStore
    <3>5. QED
      BY <2>2, <3>1, <3>4, CancelBeginCancel DEF AllKinds
  <2>3. QED
    BY <1>5, <2>1, <2>2 DEF Replace
<1>6. CASE Rewind(o)
  <2>1. CASE BeginCancel(o, "rewind") /\ UNCHANGED objs
    BY <1>6, <2>1, NarrowedSame, CancelBeginCancel DEF Rewind, AllKinds
  <2>2. CASE TakeLock(o) /\ op' = [op EXCEPT ![o].kind = "rewind", ![o].obj = cur]
    <3>1. PICK c : c = [op[o] EXCEPT !.kind = "rewind", !.obj = cur]
      OBVIOUS
    <3>2. /\ c.kind = "rewind" /\ c.obj = cur /\ c.turn = op[o].turn
          /\ op' = [op EXCEPT ![o] = c]
      BY <1>1, <1>2, <2>2, <3>1 DEF Call, TypeOK
    <3>3. Goto(o, "rewinding") /\ Streams(o, "rewinding") /\ Narrowed
      BY <1>6, <2>2, NarrowedSame DEF Rewind, TakeLock, Streams, StreamLabels
    <3>4. QED
      BY <1>2, <1>6, <3>2, <3>3, OtherBegins DEF Rewind
  <2>3. QED
    BY <1>6, <2>1, <2>2 DEF Rewind
<1>7. CASE Close(o)
  <2>1. PICK c : c = [op[o] EXCEPT !.kind = "close"]
    OBVIOUS
  <2>2. /\ c.kind = "close" /\ c.obj = op[o].obj /\ c.turn = op[o].turn
        /\ op' = [op EXCEPT ![o] = c]
    BY <1>1, <1>2, <1>7, <2>1 DEF Close, Call, TypeOK
  <2>3. PICK a : a = [objs[cur] EXCEPT !.subscribed = FALSE, !.waiters = {}]
    OBVIOUS
  <2>4. a.active = objs[cur].active /\ objs' = [objs EXCEPT ![cur] = a]
    BY <1>1, <1>2, <1>7, <2>3 DEF Close, Agent, TypeOK
  <2>5. Goto(o, "closing") /\ Streams(o, "closing") /\ Narrowed
    BY <1>1, <1>2, <1>7, <2>4, NarrowedAssign DEF Close, Streams, StreamLabels
  <2>6. QED
    BY <1>2, <2>2, <2>5, OtherBegins
<1>8. CASE Reload(o)
  BY <1>8, NarrowedSame, CancelBeginCancel, CancelBeginReload DEF Reload, AllKinds
<1>9. CASE Open(o)
  <2>1. PICK c : c = [op[o] EXCEPT !.kind = "open"]
    OBVIOUS
  <2>2. /\ c.kind = "open" /\ c.obj = op[o].obj /\ c.turn = op[o].turn
        /\ op' = [op EXCEPT ![o] = c]
    BY <1>1, <1>2, <1>9, <2>1 DEF Open, Call, TypeOK
  <2>3. Goto(o, "registering") /\ Streams(o, "registering") /\ Narrowed
    BY <1>9, NarrowedSame DEF Open, Streams, StreamLabels
  <2>4. QED
    BY <1>2, <2>2, <2>3, OtherBegins
<1>10. CASE \E p \in Perms : Respond(o, p)
  <2>1. PICK p \in Perms : Respond(o, p)
    BY <1>10
  <2>2. PICK c : c = [op[o] EXCEPT !.kind = "respond", !.obj = cur, !.perm = p]
    OBVIOUS
  <2>3. /\ c.kind = "respond" /\ c.obj = cur /\ c.turn = op[o].turn
        /\ op' = [op EXCEPT ![o] = c]
    BY <1>1, <1>2, <2>1, <2>2 DEF Respond, Call, TypeOK
  <2>4. PICK a : a = [objs[cur] EXCEPT !.inFlight = @ \cup {p}]
    OBVIOUS
  <2>5. a.active = objs[cur].active /\ objs' = [objs EXCEPT ![cur] = a]
    BY <1>1, <1>2, <2>1, <2>4 DEF Respond, Agent, TypeOK
  <2>6. Goto(o, "responding") /\ Streams(o, "responding") /\ Narrowed
    BY <1>1, <1>2, <2>1, <2>5, NarrowedAssign DEF Respond, Streams, StreamLabels
  <2>7. cur \in Objs
    BY <1>2, <2>1 DEF Respond
  <2>8. QED
    BY <2>3, <2>6, <2>7, OtherBegins
<1>11. QED
  BY <1>3, <1>4, <1>5, <1>6, <1>7, <1>8, <1>9, <1>10 DEF Begin

\* startTurn resolves: the only step that gives the agent a foreground turn.
LEMMA CancelStartResolves ==
    ASSUME CancelInv, TypeInv', NEW o \in Ops, StartResolves(o)
    PROVE  CancelInv'
<1>1. TypeInv /\ pc[o] = "starting" /\ Goto(o, "streaming") /\ op' = op
  BY DEF CancelInv, StartResolves
<1>2. op[o].obj \in Objs /\ objs[op[o].obj] \in Agent
  BY <1>1, CapturedObject
<1>3. PICK a : a = [objs[op[o].obj] EXCEPT !.active = o, !.lifecycle = "running",
                                           !.waiters = @ \cup {o}]
  OBVIOUS
<1>4. a \in Agent /\ a.active = o
  BY <1>2, <1>3 DEF Agent, Lifecycles
<1>5. Store(op[o].obj, a, TRUE)
  BY <1>3 DEF StartResolves
<1>6. /\ objs'[op[o].obj].active = o
      /\ \A h \in Objs \ {op[o].obj} : objs'[h] = objs[h]
  BY <1>1, <1>2, <1>4, <1>5, StoreView
<1>7. op[o].kind # "cancel"
  BY <1>1 DEF CancelInv, CancelsOnly, CancelLabels
<1>8. Streams(o, "streaming")
  BY DEF Streams, StreamLabels
<1>9. \A g \in Objs : \/ objs'[g].active \in {objs[g].active, None}
                      \/ objs'[g].active = o
  BY <1>6
<1>10. QED
  BY <1>1, <1>2, <1>7, <1>8, <1>9, CancelMoves

\* The wait is over: the turn has left the foreground, or is forced out of it.
LEMMA CancelAfterWait ==
    ASSUME CancelInv, TypeInv', NEW o \in Ops, AfterWait(o)
    PROVE  CancelInv'
<1> DEFINE g == op[o].obj
           t == op[o].turn
           canceled == [objs[g] EXCEPT !.err = FALSE, !.perms = {}]
<1>1. TypeInv /\ TypeOK /\ pc[o] = "waiting"
  BY DEF CancelInv, TypeInv, AfterWait
<1>2. g \in Objs /\ objs[g] \in Agent /\ op[o] \in Call
  BY <1>1, CapturedObject DEF TypeOK
<1>3. PICK l : Goto(o, l) /\ l \in {"stale", "done", "resume"}
                          /\ (op[o].kind = "cancel" => l \in {"stale", "done"})
  BY DEF AfterWait, AfterCancel
<1>4. /\ op'[o].kind = op[o].kind /\ op'[o].obj = g /\ op'[o].turn = t
      /\ \A p \in Ops \ {o} : op'[p] = op[p]
  BY <1>1, <1>2 DEF AfterWait, TypeOK, Call
<1>5. PICK a : /\ a = IF Stuck(o) THEN Finalized(canceled, {t}) ELSE Cleared(objs[g])
  OBVIOUS
<1>6. a \in Agent /\ (Stuck(o) => a.active = None)
                  /\ (~Stuck(o) => a.active = objs[g].active)
  <2>1. CASE Stuck(o)
    <3>1. canceled \in Agent /\ {t} \in SUBSET Ops
      BY <1>2, <2>1 DEF Stuck, Agent, Call
    <3>2. QED
      BY <1>5, <2>1, <3>1, FinalizedAgent
  <2>2. CASE ~Stuck(o)
    BY <1>2, <1>5, <2>2 DEF Cleared, Agent
  <2>3. QED
    BY <2>1, <2>2
<1>7. \E emit : Store(g, a, emit)
  <2>1. \/ Stuck(o) /\ Store(g, Finalized(canceled, {t}), ~objs[g].replacing)
        \/ ~Stuck(o) /\ Store(g, Cleared(objs[g]), objs[g].perms # {})
    BY DEF AfterWait
  <2>2. QED
    BY <1>5, <2>1
<1>8. Narrowed /\ objs'[g].active = a.active
  BY <1>1, <1>2, <1>6, <1>7, NarrowedStore, StoreView
<1>9. t # None => objs'[g].active # t
  BY <1>6, <1>8 DEF Stuck
<1>10. Streams(o, l) /\ (op[o].kind = "cancel" => l \in CancelLabels)
  BY <1>1, <1>3 DEF Streams, StreamLabels, CancelLabels
<1>11. QED
  BY <1>2, <1>3, <1>4, <1>8, <1>9, <1>10, CancelMoves DEF Narrowed

\* The interrupt returns; the holder of a force-canceled turn has settled.
LEMMA CancelQuietSteps ==
    ASSUME CancelInv, TypeInv', NEW o \in Ops, Interrupted(o) \/ StaleSettled(o)
    PROVE  CancelInv'
<1>1. TypeInv /\ TypeOK /\ op' = op
  BY DEF CancelInv, TypeInv, Interrupted, StaleSettled
<1>2. op[o].obj \in Objs /\ objs[op[o].obj] \in Agent
  BY <1>1, CapturedObject DEF Interrupted, StaleSettled
<1>3. CASE Interrupted(o)
  <2>1. Goto(o, "waiting") /\ Streams(o, "waiting") /\ Narrowed
    BY <1>3, NarrowedSame DEF Interrupted, Streams, StreamLabels
  <2>2. QED
    BY <1>1, <1>2, <2>1, CancelMoves DEF Narrowed, CancelLabels
<1>4. CASE StaleSettled(o)
  <2>1. PICK a : a = Cleared(objs[op[o].obj])
    OBVIOUS
  <2>2. a \in Agent /\ a.active = objs[op[o].obj].active
    BY <1>2, <2>1 DEF Cleared, Agent
  <2>3. Narrowed
    BY <1>1, <1>2, <1>4, <2>1, <2>2, NarrowedStore DEF StaleSettled
  <2>4. PICK l : /\ Goto(o, l) /\ l \in {"done", "resume"}
                 /\ op[o].kind = "cancel" => l = "done"
    BY <1>4 DEF StaleSettled, AfterCancel
  <2>5. /\ Streams(o, l) /\ pc[o] = "stale"
        /\ op[o].kind = "cancel" => l \in CancelLabels
    BY <1>4, <2>4 DEF StaleSettled, Streams, StreamLabels, CancelLabels
  <2>6. op[o].kind = "cancel" /\ op[o].turn # None => objs'[op[o].obj].active # op[o].turn
    BY <1>2, <2>3, <2>5 DEF CancelInv, CanceledGone, Narrowed
  <2>7. QED
    BY <1>1, <1>2, <2>3, <2>4, <2>5, <2>6, CancelMoves DEF Narrowed
<1>5. QED
  BY <1>3, <1>4

\* The other steps of a run, a replacement or a rewind.
LEMMA CancelRunSteps ==
    ASSUME CancelInv, TypeInv', NEW o \in Ops,
           \/ StartThrows(o) \/ StartFailed(o) \/ Drain(o) \/ Refresh(o)
           \/ ReplaceCatch(o) \/ Rewound(o)
    PROVE  CancelInv'
<1> DEFINE g == op[o].obj
<1>1. TypeInv /\ TypeOK /\ op' = op
  BY DEF CancelInv, TypeInv, StartThrows, StartFailed, Drain, Refresh, ReplaceCatch, Rewound
<1>2. g \in Objs /\ objs[g] \in Agent
  BY <1>1, CapturedObject DEF StartThrows, StartFailed, Drain, Refresh, ReplaceCatch, Rewound
<1>3. pc[o] \notin CancelLabels
  BY DEF StartThrows, StartFailed, Drain, Refresh, ReplaceCatch, Rewound, CancelLabels
<1>4. Narrowed
  <2>1. CASE StartThrows(o)
    <3>1. PICK a : a = [objs[g] EXCEPT !.lifecycle = "error", !.err = TRUE]
      OBVIOUS
    <3>2. a.active = objs[g].active /\ objs' = [objs EXCEPT ![g] = a]
      BY <1>1, <1>2, <2>1, <3>1 DEF StartThrows, Agent, TypeOK
    <3>3. QED
      BY <1>1, <1>2, <3>2, NarrowedAssign
  <2>2. CASE StartFailed(o)
    <3> DEFINE cleared == [objs[g] EXCEPT !.perms = {}]
               reported == Attend(cleared, prevStatus)
               final == Finalized(reported, {})
    <3>1. reported \in Agent
      BY <1>2, AttendMarks, MarkedAgent DEF Agent
    <3>2. final \in Agent /\ final.active = None
      BY <3>1, FinalizedAgent
    <3>3. Attend(final, reported.lifecycle).active = None
      BY <3>2, AttendMarks, MarkedAgent
    <3> HIDE DEF reported, final
    <3>4. PICK a : a.active = None /\ objs' = [objs EXCEPT ![g] = a]
      BY <2>2, <3>2, <3>3 DEF StartFailed, reported, final
    <3>5. QED
      BY <1>1, <1>2, <3>4, NarrowedAssign
  <2>3. CASE Drain(o)
    <3>1. PICK a : a = [objs[g] EXCEPT !.waiters = @ \ {o}]
      OBVIOUS
    <3>2. a.active = objs[g].active /\ objs' = [objs EXCEPT ![g] = a]
      BY <1>1, <1>2, <2>3, <3>1 DEF Drain, Agent, TypeOK
    <3>3. QED
      BY <1>1, <1>2, <3>2, NarrowedAssign
  <2>4. CASE Refresh(o) \/ Rewound(o)
    <3>1. \E emit : Store(g, objs[g], emit)
      BY <2>4 DEF Refresh, Rewound
    <3>2. QED
      BY <1>1, <1>2, <3>1, NarrowedStore
  <2>5. CASE ReplaceCatch(o)
    <3> DEFINE b == [objs[cur] EXCEPT !.replacing = FALSE]
               drop == b.active = None /\ b.lifecycle = "running"
               d == IF drop THEN [b EXCEPT !.lifecycle = "idle"] ELSE b
    <3>1. CASE cur = None
      BY <2>5, <3>1, NarrowedSame DEF ReplaceCatch
    <3>2. CASE cur # None
      <4>1. cur \in Objs /\ objs[cur] \in Agent
        BY <1>1, <3>2 DEF TypeOK
      <4>2. d \in Agent /\ d.active = objs[cur].active
        BY <4>1 DEF Agent, Lifecycles
      <4>3. Store(cur, d, drop)
        BY <2>5, <3>2 DEF ReplaceCatch
      <4> HIDE DEF d
      <4>4. QED
        BY <1>1, <4>1, <4>2, <4>3, NarrowedStore
    <3>3. QED
      BY <3>1, <3>2
  <2>6. QED
    BY <2>1, <2>2, <2>3, <2>4, <2>5
<1>5. PICK l : Goto(o, l) /\ Streams(o, l)
  BY DEF StartThrows, StartFailed, Drain, Refresh, ReplaceCatch, Rewound,
         Streams, StreamLabels
<1>6. QED
  BY <1>1, <1>3, <1>4, <1>5, OtherMoves

\* The steps of a reload, of opening and closing, and of an answered request.
LEMMA CancelSessionSteps ==
    ASSUME CancelInv, TypeInv', NEW o \in Ops,
           \/ Closed(o) \/ OldClosed(o) \/ Swap(o) \/ RegisterIdle(o)
           \/ RegisterSubscribe(o) \/ Responded(o) \/ Refreshed(o) \/ Persisted(o)
    PROVE  CancelInv'
<1> DEFINE g == op[o].obj
           p == op[o].perm
           a == objs[g]
<1>1. TypeInv /\ TypeOK /\ op' = op
  BY DEF CancelInv, TypeInv, Closed, OldClosed, Swap, RegisterIdle, RegisterSubscribe,
         Responded, Refreshed, Persisted
<1>2. pc[o] \notin {"idle", "closing", "registering", "done"} => g \in Objs /\ a \in Agent
  BY <1>1, CapturedObject
<1>3. o \in Objs /\ objs[o] \in Agent
  BY <1>1 DEF TypeOK, Objs
<1>4. pc[o] \notin CancelLabels
  BY DEF Closed, OldClosed, Swap, RegisterIdle, RegisterSubscribe, Responded, Refreshed,
         Persisted, CancelLabels
<1>5. Narrowed
  <2>1. CASE Closed(o) \/ OldClosed(o)
    BY <2>1, NarrowedSame DEF Closed, OldClosed
  <2>2. CASE Swap(o)
    <3>1. PICK b : b = [a EXCEPT !.subscribed = FALSE, !.waiters = {}]
      OBVIOUS
    <3>2. /\ g \in Objs /\ b.active = a.active
          /\ objs' = objs \/ objs' = [objs EXCEPT ![g] = b]
      BY <1>1, <1>2, <2>2, <3>1 DEF Swap, Agent, TypeOK
    <3>3. QED
      BY <1>1, <3>2, NarrowedAssign, NarrowedSame
  <2>3. CASE RegisterIdle(o)
    <3>1. PICK b : b = [objs[o] EXCEPT !.lifecycle = "idle", !.perms = sperms[o]]
      OBVIOUS
    <3>2. b.active = objs[o].active /\ objs' = [objs EXCEPT ![o] = b]
      BY <1>1, <1>3, <2>3, <3>1 DEF RegisterIdle, Agent, TypeOK
    <3>3. QED
      BY <1>1, <1>3, <3>2, NarrowedAssign
  <2>4. CASE RegisterSubscribe(o)
    <3>1. PICK b : b = [objs[o] EXCEPT !.subscribed = TRUE]
      OBVIOUS
    <3>2. b \in Agent /\ b.active = objs[o].active /\ Store(o, b, TRUE)
      BY <1>3, <2>4, <3>1 DEF RegisterSubscribe, Agent
    <3>3. QED
      BY <1>1, <1>3, <3>2, NarrowedStore
  <2>5. CASE Responded(o) \/ Refreshed(o)
    <3>1. g \in Objs /\ a \in Agent
      BY <1>2, <2>5 DEF Responded, Refreshed
    <3>2. \/ objs' = [objs EXCEPT ![g] = [a EXCEPT !.perms = @ \ {p}]]
          \/ objs' = [objs EXCEPT ![g] = [a EXCEPT !.inFlight = @ \ {p}, !.buffered = @ \ {p}]]
          \/ objs' = [objs EXCEPT ![g] = [a EXCEPT !.perms = sperms[g]]]
      BY <1>1, <2>5, <3>1 DEF Responded, Refreshed, TypeOK
    <3>3. PICK b : objs' = [objs EXCEPT ![g] = b] /\ b.active = a.active
      BY <3>1, <3>2 DEF Agent
    <3>4. QED
      BY <1>1, <3>1, <3>3, NarrowedAssign
  <2>6. CASE Persisted(o)
    <3>1. PICK b : b = [a EXCEPT !.inFlight = @ \ {p}, !.buffered = @ \ {p}]
      OBVIOUS
    <3>2. g \in Objs /\ b \in Agent /\ b.active = a.active /\ Store(g, b, TRUE)
      BY <1>2, <2>6, <3>1 DEF Persisted, Agent
    <3>3. QED
      BY <1>1, <3>2, NarrowedStore
  <2>7. QED
    BY <2>1, <2>2, <2>3, <2>4, <2>5, <2>6
<1>6. PICK l : Goto(o, l) /\ Streams(o, l)
  BY DEF Closed, OldClosed, Swap, RegisterIdle, RegisterSubscribe, Responded, Refreshed,
         Persisted, Streams, StreamLabels
<1>7. QED
  BY <1>1, <1>4, <1>5, <1>6, OtherMoves

\* A session is registered: its object has no foreground turn.
LEMMA CancelRegister ==
    ASSUME CancelInv, TypeInv', NEW o \in Ops, Register(o)
    PROVE  CancelInv'
<1>1. TypeInv /\ TypeOK /\ op[o] \in Call /\ pc[o] = "registering" /\ o \in Objs
  BY DEF CancelInv, TypeInv, TypeOK, Register, Objs
<1>2. NewAgent(op[o].saved).active = None
  BY DEF NewAgent
<1>3. objs' = [objs EXCEPT ![o] = NewAgent(op[o].saved)] /\ Goto(o, "initializing")
  BY DEF Register
<1>4. Narrowed
  BY <1>1, <1>2, <1>3, NarrowedAssign
<1>5. PICK c : c = [op[o] EXCEPT !.obj = o]
  OBVIOUS
<1>6. /\ op' = [op EXCEPT ![o] = c] /\ c.kind = op[o].kind /\ c.turn = op[o].turn
      /\ c.obj = o
  BY <1>1, <1>5 DEF Register, Call, TypeOK
<1>7. op[o].kind # "cancel"
  BY <1>1 DEF CancelInv, CancelsOnly, CancelLabels
<1>8. Streams(o, "initializing")
  BY <1>1 DEF Streams, StreamLabels
<1>9. QED
  BY <1>1, <1>3, <1>4, <1>6, <1>7, <1>8, OtherBegins

\* The second part of a replacement, a rewind or a reload.
LEMMA CancelResumes ==
    ASSUME CancelInv, TypeInv', NEW o \in Ops,
           ReplaceResumes(o) \/ RewindResumes(o) \/ ReloadResumes(o)
    PROVE  CancelInv'
<1>1. pc[o] = "resume" /\ pc[o] \notin CancelLabels
  BY DEF ReplaceResumes, RewindResumes, ReloadResumes, CancelLabels
<1>2. ASSUME NEW l, Goto(o, l), objs' = objs, op' = op
      PROVE  CancelInv'
  BY <1>1, <1>2, NarrowedSame, OtherMoves DEF Streams, StreamLabels
<1>3. CASE ReplaceResumes(o)
  BY <1>1, <1>2, <1>3, CancelStreamAgent DEF ReplaceResumes
<1>4. CASE RewindResumes(o)
  BY <1>2, <1>4 DEF RewindResumes, TakeLock
<1>5. CASE ReloadResumes(o)
  BY <1>1, <1>2, <1>5, CancelBeginReload DEF ReloadResumes
<1>6. QED
  BY <1>3, <1>4, <1>5

\* The end of a terminal event's handling never gives the agent a turn.
LEMMA NarrowedTerminate ==
    ASSUME TypeInv, NEW g \in Objs, NEW a \in Agent, NEW fg, NEW turn, NEW emit,
           fg => turn \in Ops, Terminate(g, a, fg, turn, emit),
           a.active = objs[g].active, a.waiters = objs[g].waiters
    PROVE  Narrowed
BY TerminateView DEF Narrowed

\* The session event chain.
LEMMA CancelChain ==
    ASSUME CancelInv, TypeInv', Chain
    PROVE  CancelInv'
<1> DEFINE e == Head(queue)
           a == objs[cur]
<1>1. TypeInv /\ TypeOK
  BY DEF CancelInv, TypeInv
<1>2. SUFFICES UNCHANGED <<pc, op>> /\ Narrowed
  BY CancelElsewhere
<1>3. UNCHANGED <<pc, op>>
  BY DEF Chain, EventDropped, TurnStarted, TurnCompleted, TurnCanceled, TurnFailed,
         FailureAppended, PermissionRequested, PermissionResolved, Notify, Receives
<1>4. CASE EventDropped \/ Notify
  BY <1>3, <1>4, NarrowedSame DEF EventDropped, Notify
<1>5. CASE TurnStarted
  <2>1. cur \in Objs /\ a \in Agent
    BY <1>1, <1>5, Received DEF TurnStarted
  <2>2. PICK b : b = IF Foreground THEN a ELSE [a EXCEPT !.lifecycle = "running"]
    OBVIOUS
  <2>3. b \in Agent /\ b.active = a.active /\ Store(cur, b, ~Foreground)
    BY <1>5, <2>1, <2>2 DEF TurnStarted, Agent, Lifecycles
  <2>4. QED
    BY <1>1, <1>3, <2>1, <2>3, NarrowedStore
<1>6. CASE TurnCompleted
  <2> DEFINE drop == BackgroundEnds(a) /\ a.lifecycle # "idle"
  <2>1. cur \in Objs /\ a \in Agent /\ (Foreground => e.turn \in Ops)
    BY <1>1, <1>6, Received DEF TurnCompleted, TerminalTypes
  <2>2. PICK b : b = [a EXCEPT !.err = FALSE, !.lifecycle = IF drop THEN "idle" ELSE @]
    OBVIOUS
  <2>3. b \in Agent /\ b.active = a.active /\ b.waiters = a.waiters
    BY <2>1, <2>2 DEF Agent, Lifecycles
  <2>4. Terminate(cur, b, Foreground, e.turn, drop)
    BY <1>6, <2>2 DEF TurnCompleted
  <2>5. QED
    BY <1>1, <1>3, <2>1, <2>3, <2>4, NarrowedTerminate
<1>7. CASE TurnCanceled
  <2>1. cur \in Objs /\ a \in Agent /\ (Foreground => e.turn \in Ops)
    BY <1>1, <1>7, Received DEF TurnCanceled, TerminalTypes
  <2>2. PICK b : b = [a EXCEPT !.err = FALSE, !.perms = {},
                               !.lifecycle = IF BackgroundEnds(a) THEN "idle" ELSE @]
    OBVIOUS
  <2>3. b \in Agent /\ b.active = a.active /\ b.waiters = a.waiters
    BY <2>1, <2>2 DEF Agent, Lifecycles
  <2>4. Terminate(cur, b, Foreground, e.turn, TRUE)
    BY <1>7, <2>2 DEF TurnCanceled
  <2>5. QED
    BY <1>1, <1>3, <2>1, <2>3, <2>4, NarrowedTerminate
<1>8. CASE TurnFailed
  <2>1. cur \in Objs /\ a \in Agent
    BY <1>1, <1>8, Received DEF TurnFailed
  <2>2. PICK b : b = [a EXCEPT !.err = TRUE, !.lifecycle = IF Foreground THEN @ ELSE "error"]
    OBVIOUS
  <2>3. b \in Agent /\ b.active = a.active /\ Store(cur, b, FALSE)
    BY <1>8, <2>1, <2>2 DEF TurnFailed, Agent, Lifecycles
  <2>4. QED
    BY <1>1, <1>3, <2>1, <2>3, NarrowedStore
<1>9. CASE FailureAppended
  <2>1. busy \in Dispatch /\ busy # NoEvent
    BY <1>1, <1>9 DEF FailureAppended, NoEvent, TypeOK
  <2>2. busy.g \in Objs /\ objs[busy.g] \in Agent /\ (busy.fg => busy.e.turn \in Ops)
    BY <1>1, <2>1 DEF TypeInv, TypeOK, Dispatch, ForegroundTyped
  <2>3. PICK b : b = [objs[busy.g] EXCEPT !.perms = {}]
    OBVIOUS
  <2>4. b \in Agent /\ b.active = objs[busy.g].active /\ b.waiters = objs[busy.g].waiters
    BY <2>2, <2>3 DEF Agent
  <2>5. Terminate(busy.g, b, busy.fg, busy.e.turn, TRUE)
    BY <1>9, <2>3 DEF FailureAppended
  <2>6. QED
    BY <1>1, <1>3, <2>2, <2>4, <2>5, NarrowedTerminate
<1>10. CASE PermissionRequested
  <2>1. /\ cur \in Objs /\ a \in Agent
        /\ e \in Event /\ e.type = "permission_requested"
    BY <1>1, <1>10, Received DEF PermissionRequested
  <2>2. PICK b : b = [a EXCEPT !.perms = @ \cup {e.turn}]
    OBVIOUS
  <2>3. b \in Agent /\ b.active = a.active
    BY <2>1, <2>2, EventTag DEF Agent
  <2>4. Store(cur, b, TRUE)
    BY <1>10, <2>2 DEF PermissionRequested
  <2>5. QED
    BY <1>1, <1>3, <2>1, <2>3, <2>4, NarrowedStore
<1>11. CASE PermissionResolved
  <2> DEFINE p == e.turn
             held == p \in a.inFlight
  <2>1. /\ cur \in Objs /\ a \in Agent
        /\ e \in Event /\ e.type = "permission_resolved"
    BY <1>1, <1>11, Received DEF PermissionResolved
  <2>2. PICK b : b = [a EXCEPT !.perms = @ \ {p},
                               !.buffered = IF held THEN @ \cup {p} ELSE @]
    OBVIOUS
  <2>3. b \in Agent /\ b.active = a.active
    BY <2>1, <2>2, EventTag DEF Agent
  <2>4. Store(cur, b, ~held)
    BY <1>11, <2>2 DEF PermissionResolved
  <2>5. QED
    BY <1>1, <1>3, <2>1, <2>3, <2>4, NarrowedStore
<1>12. QED
  BY <1>4, <1>5, <1>6, <1>7, <1>8, <1>9, <1>10, <1>11 DEF Chain

\* The session, and emissions of the current state.
LEMMA CancelApart ==
    ASSUME CancelInv, TypeInv', Session \/ StateEmitted \/ ClearAttention
    PROVE  CancelInv'
<1>1. TypeInv /\ TypeOK
  BY DEF CancelInv, TypeInv
<1>2. CASE Session
  <2>1. UNCHANGED <<objs, pc, op>>
    BY <1>2 DEF Session, SessionAutoStarts, SessionAnnounces, SessionEnds,
                SessionAutoEnds, SessionAsks, SessionResolves, SessionDrops, Enqueue
  <2>2. QED
    BY <2>1, NarrowedSame, CancelElsewhere
<1>3. CASE StateEmitted \/ ClearAttention
  <2>1. cur \in Objs /\ objs[cur] \in Agent
    BY <1>1, <1>3 DEF StateEmitted, ClearAttention, TypeOK
  <2>2. PICK b : b = [objs[cur] EXCEPT !.attention = "none"]
    OBVIOUS
  <2>3. b \in Agent /\ b.active = objs[cur].active
    BY <2>1, <2>2 DEF Agent, Attentions
  <2>4. Store(cur, objs[cur], TRUE) \/ Store(cur, b, FALSE)
    BY <1>3, <2>2 DEF StateEmitted, ClearAttention
  <2>5. Narrowed
    BY <1>1, <2>1, <2>3, <2>4, NarrowedStore
  <2>6. QED
    BY <1>3, <2>5, CancelElsewhere DEF StateEmitted, ClearAttention
<1>4. QED
  BY <1>2, <1>3

\* Every step keeps the invariant.
LEMMA CancelNext ==
    ASSUME CancelInv, [Next]_vars
    PROVE  CancelInv'
<1>1. TypeInv'
  BY TypeNext DEF CancelInv
<1>2. CASE UNCHANGED vars
  BY <1>1, <1>2, NarrowedSame, CancelElsewhere DEF vars
<1>3. ASSUME NEW o \in Ops, Step(o) \/ Answer(o)
      PROVE  CancelInv'
  <2>1. CASE NotifyForced(o)
    BY <1>1, <2>1, NarrowedSame, CancelElsewhere DEF NotifyForced
  <2>2. CASE AfterWait(o) \/ Register(o) \/ StartResolves(o)
    BY <1>1, <2>2, CancelAfterWait, CancelRegister, CancelStartResolves
  <2>3. QED
    BY <1>1, <1>3, <2>1, <2>2, CancelQuietSteps, CancelRunSteps, CancelSessionSteps,
       CancelResumes DEF Step, Answer
<1>4. QED
  BY <1>1, <1>2, <1>3, CancelBegin, CancelChain, CancelApart DEF Next

\* No call has been made and no turn is active.
LEMMA CancelInit == Init => CancelInv
<1> SUFFICES ASSUME Init PROVE CancelInv
  OBVIOUS
<1>1. \A g \in Objs : objs[g].active = None
  BY DEF Init, NewAgent
<1>2. \A o \in Ops : op[o].kind = "none" /\ op[o].turn = None
  BY DEF Init
<1>3. QED
  BY <1>1, <1>2, TypeInit
     DEF CancelInv, TurnsStream, CapturedTurnsStream, CancelsOnly, CanceledGone

-----------------------------------------------------------------------------
(* The theorems *)

\* A foreground turn has had its stream, a cancellation's turn too, and past
\* its wait the two differ.
THEOREM CancelInvariant == Spec => []CancelInv
<1>1. Init => CancelInv
  BY CancelInit
<1>2. CancelInv /\ [Next]_vars => CancelInv'
  BY CancelNext
<1>3. QED
  BY <1>1, <1>2, PTL DEF Spec

\* cancelAgentRun keeps its word: once it has returned, the turn it found in
\* the foreground is not the foreground turn, and never will be again.
THEOREM CancelsTakeEffect == Spec => []CancelEffective
<1>1. CancelInv => CancelEffective
  BY DEF CancelInv, CanceledGone, CancelEffective
<1>2. QED
  BY <1>1, CancelInvariant, PTL

=============================================================================
