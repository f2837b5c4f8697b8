--------------------------- MODULE AgentIdleProofs ---------------------------
(***************************************************************************)
(* An agent that looks idle is idle (IdlesAreFree): proved for callers     *)
(* that neither open, reload nor rewind, and for a provider without        *)
(* autonomous turns.  It is announced as finished only when it is          *)
(* (FinishesAreTrue): also without replacements, and when no turn ends     *)
(* before startTurn returns.  When nothing is under way it is idle, and no *)
(* request for permission is on display but those the provider waits on or *)
(* gave up unnoticed (RestsIdle).  The README says what happens otherwise. *)
(***************************************************************************)
EXTENDS AgentRunsProofs

-----------------------------------------------------------------------------
(* The invariant: the order of what happens to a turn *)

OddKinds == {"open", "reload", "rewind"}

OddLabels == {"rewinding", "resuming", "closingOld", "registering", "initializing",
              "subscribing"}

\* There is one object, until it is closed.
OneObject ==
    /\ cur \in {None, First}
    /\ \A o \in Ops : /\ op[o].obj \in {None, First}
                      /\ op[o].kind \notin OddKinds
                      /\ pc[o] \notin OddLabels

NoAuto == autos = 0 /\ \A g \in Objs : ~sauto[g]

\* The events that wait to be dispatched.
Chained == {queue[i] : i \in DOMAIN queue}

\* The end of o is still to come: it has not happened, or not been dispatched.
Ending(o) ==
    \/ sturn[o] \in {"open", "announced"}
    \/ \E e \in Chained : e.type \in TerminalTypes /\ e.turn = o

EndsTold ==
    \A e \in Chained : e.type \in TerminalTypes =>
        e.turn \in Ops /\ sturn[e.turn] = "ended"

TurnsBegun ==
    \A o \in Ops : sturn[o] # "none" =>
        /\ op[o].obj = First
        /\ pc[o] \in {"starting", "failing", "streaming", "refresh", "catch", "done"}

\* Somebody waits for an end that is still to come, unless it was forced.
EndsAwaited ==
    \A o \in Ops : Ending(o) =>
        o \in objs[First].finalized \/ pc[o] \in {"starting", "streaming"}

\* A stream is that of the foreground turn or of one that has been finalized.
Forwards(o) == o \in objs[First].waiters \/ (pc[o] = "streaming" /\ op[o].obj = First)

Forwarded ==
    \A o \in Ops : Forwards(o) =>
        o \in objs[First].finalized \/ objs[First].active = o

EndedFinal == ends \cup wsettled \cup forced \subseteq objs[First].finalized

\* Those who are about to be told of an end have been finalized, or will be
\* when the end of the foreground turn has been appended to the timeline.
Appending == busy.phase = "append" /\ busy.fg

NotifyFinal ==
    busy # NoEvent =>
        /\ busy.g = First
        /\ busy.phase = "append" => busy.e.type \in TerminalTypes
        /\ busy.e.type \in TerminalTypes =>
             IF Appending
             THEN /\ busy.to \subseteq objs[First].finalized \cup {busy.e.turn}
                  /\ objs[First].active = busy.e.turn
             ELSE busy.to \subseteq objs[First].finalized

IdleIsFree == objs[First].lifecycle # "running" => objs[First].active = None

Tidy == /\ EndsTold /\ TurnsBegun /\ EndsAwaited /\ Forwarded /\ EndedFinal
        /\ NotifyFinal /\ IdleIsFree

IdleInv == SlotInv /\ OneObject /\ NoAuto /\ (cur # None => Tidy)

-----------------------------------------------------------------------------
(* Objects and events *)

\* What the invariant knows of an object is unchanged.
Kept(b, a) ==
    /\ b.active = a.active /\ b.waiters = a.waiters /\ b.finalized = a.finalized
    /\ b.lifecycle = a.lifecycle /\ b.replacing = a.replacing /\ b.err = a.err

LEMMA MarkedKept ==
    ASSUME NEW a \in Agent, NEW b, Marked(b, a)
    PROVE  Kept(b, a)
BY DEF Marked, Agent, Kept

\* What is stored is the object, with another mark at most.
LEMMA StoreKept ==
    ASSUME TypeInv, NEW g \in Objs, NEW a \in Agent, NEW emit, Store(g, a, emit)
    PROVE  Kept(objs'[g], a) /\ \A h \in Objs \ {g} : objs'[h] = objs[h]
<1>1. objs \in [Objs -> Agent]
  BY DEF TypeInv, TypeOK
<1>2. PICK b : objs' = [objs EXCEPT ![g] = b] /\ (b = a \/ b = Attend(a, prevStatus))
  BY DEF Store
<1>3. Kept(b, a)
  <2>1. CASE b = a
    BY <2>1 DEF Kept
  <2>2. CASE b = Attend(a, prevStatus)
    BY <2>2, AttendMarks, MarkedKept
  <2>3. QED
    BY <1>2, <2>1, <2>2
<1>4. QED
  BY <1>1, <1>2, <1>3

LEMMA FinalizedFields ==
    ASSUME NEW a \in Agent, NEW turns \in SUBSET Ops, NEW f, f = Finalized(a, turns)
    PROVE  /\ f \in Agent /\ f.active = None /\ f.waiters = a.waiters
           /\ f.finalized = a.finalized \cup turns
           /\ f.replacing = a.replacing /\ f.err = a.err
           /\ f.lifecycle = IF HoldsBusy(a) THEN "running"
                            ELSE IF a.err THEN "error" ELSE "idle"
BY DEF Finalized, Agent, Lifecycles

\* What the chain holds after an event has left or joined it.
LEMMA ChainTail ==
    ASSUME TypeInv, queue # <<>>
    PROVE  /\ Head(queue) \in Chained
           /\ queue' = Tail(queue) => Chained' \subseteq Chained
<1>1. queue \in Seq(Event)
  BY DEF TypeInv, TypeOK
<1>2. Len(queue) \in Nat \ {0} /\ DOMAIN queue = 1..Len(queue) /\ Head(queue) = queue[1]
  BY <1>1
<1>3. Head(queue) \in Chained
  BY <1>2 DEF Chained
<1>4. ASSUME queue' = Tail(queue), NEW e \in Chained'
      PROVE  e \in Chained
  <2>1. PICK i \in DOMAIN Tail(queue) : e = Tail(queue)[i]
    BY <1>4 DEF Chained
  <2>2. DOMAIN Tail(queue) = 1..(Len(queue) - 1)
    BY <1>1, <1>2
  <2>3. i \in Nat /\ i + 1 \in 1..Len(queue) /\ Tail(queue)[i] = queue[i + 1]
    BY <1>1, <1>2, <2>1, <2>2
  <2>4. QED
    BY <1>2, <2>1, <2>3 DEF Chained
<1>5. QED
  BY <1>3, <1>4

LEMMA ChainAppend ==
    ASSUME TypeInv, NEW x, queue' = Append(queue, x)
    PROVE  Chained' \subseteq Chained \cup {x}
<1>1. queue \in Seq(Event)
  BY DEF TypeInv, TypeOK
<1>2. Len(queue) \in Nat /\ DOMAIN queue = 1..Len(queue)
  BY <1>1
<1>3. SUFFICES ASSUME NEW i \in DOMAIN Append(queue, x)
               PROVE  Append(queue, x)[i] \in Chained \cup {x}
  BY DEF Chained
<1>4. DOMAIN Append(queue, x) = 1..(Len(queue) + 1)
  BY <1>1, <1>2
<1>5. CASE i = Len(queue) + 1
  BY <1>1, <1>2, <1>5
<1>6. CASE i \in 1..Len(queue)
  <2>1. Append(queue, x)[i] = queue[i]
    BY <1>1, <1>2, <1>6
  <2>2. QED
    BY <1>2, <1>6, <2>1 DEF Chained
<1>7. QED
  BY <1>2, <1>3, <1>4, <1>5, <1>6

\* Facts that every step starts from.
LEMMA IdleFacts ==
    ASSUME IdleInv
    PROVE  /\ SlotInv /\ TypeInv /\ TypeOK /\ OneObject /\ NoAuto /\ (cur # None => Tidy)
           /\ First \in Objs /\ First # None /\ First \notin Ops /\ None \notin Ops
           /\ None \notin Objs
           /\ cur # None => cur = First
           /\ objs[First] \in Agent /\ objs[First].active \in Ops \cup {None}
           /\ objs[First].waiters \subseteq Ops /\ objs[First].finalized \subseteq Ops
           /\ objs[First].err \in BOOLEAN /\ objs[First].replacing \in BOOLEAN
           /\ Chained \subseteq Event
           /\ \A o \in Ops : op[o] \in Call
           /\ \A o \in Ops : op[o].obj \in {None, First}
<1>1. /\ SlotInv /\ TypeInv /\ TypeOK /\ OneObject /\ NoAuto /\ (cur # None => Tidy)
  BY DEF IdleInv, SlotInv, TypeInv
<1>2. /\ First \in Objs /\ First # None /\ First \notin Ops /\ None \notin Ops
      /\ None \notin Objs
  BY NamesAssumption DEF Objs
<1>3. objs[First] \in Agent
  BY <1>1, <1>2 DEF TypeOK
<1>4. /\ objs[First].active \in Ops \cup {None}
      /\ objs[First].waiters \subseteq Ops /\ objs[First].finalized \subseteq Ops
      /\ objs[First].err \in BOOLEAN /\ objs[First].replacing \in BOOLEAN
  BY <1>3 DEF Agent
<1>5. Chained \subseteq Event
  BY <1>1 DEF TypeOK, Chained
<1>6. \A o \in Ops : op[o] \in Call
  BY <1>1 DEF TypeOK
<1>7. QED
  BY <1>1, <1>2, <1>3, <1>4, <1>5, <1>6 DEF OneObject

-----------------------------------------------------------------------------
(* Steps of which the invariant sees little *)

\* The object keeps its turn, its waiters and its finalized turns.
Calm ==
    /\ objs'[First].active = objs[First].active
    /\ objs'[First].waiters = objs[First].waiters
    /\ objs'[First].finalized = objs[First].finalized
    /\ IdleIsFree'

\* Nothing happens to the provider but what changes no turn.
NoTurns == Chained' \subseteq Chained /\ UNCHANGED <<sturn, autos, sauto>>

\* A call moves on, outside of its run.
LEMMA IdleMoves ==
    ASSUME IdleInv, SlotInv', NEW o \in Ops, Onward(o), pc'[o] \notin OddLabels,
           op'[o].kind \notin OddKinds, NoTurns, cur' = cur,
           UNCHANGED <<streams, busy, forced>>, cur # None => Calm
    PROVE  IdleInv'
<1>1. OneObject' /\ NoAuto'
  <2>1. \A p \in Ops : op'[p].obj \in {None, First} /\ op'[p].kind \notin OddKinds
    BY IdleFacts DEF Onward, OneObject
  <2>2. \A p \in Ops : pc'[p] \notin OddLabels
    BY IdleFacts DEF Onward, OneObject
  <2>3. QED
    BY <2>1, <2>2, IdleFacts DEF OneObject, NoAuto, NoTurns
<1>2. SUFFICES ASSUME cur # None
               PROVE  Tidy'
  BY <1>1 DEF IdleInv
<1>3. Tidy /\ Calm
  BY <1>2, IdleFacts
<1>4. \A p \in Ops : Ending(p)' => Ending(p)
  BY DEF Ending, NoTurns
<1>5. EndsTold'
  BY <1>3 DEF Tidy, EndsTold, NoTurns
<1>6. TurnsBegun'
  BY <1>3 DEF Tidy, TurnsBegun, NoTurns, Onward
<1>7. EndsAwaited'
  BY <1>3, <1>4 DEF Tidy, EndsAwaited, Calm, Onward
<1>8. Forwarded'
  BY <1>3 DEF Tidy, Forwarded, Forwards, Calm, Onward
<1>9. EndedFinal' /\ IdleIsFree'
  BY <1>3 DEF Tidy, EndedFinal, Calm, streams
<1>10. NotifyFinal'
  BY <1>3 DEF Tidy, NotifyFinal, Appending, Calm
<1>11. QED
  BY <1>5, <1>6, <1>7, <1>8, <1>9, <1>10 DEF Tidy

\* A step of the provider, of the chain or of an emission moves no call.
LEMMA IdleElsewhere ==
    ASSUME IdleInv, SlotInv', UNCHANGED <<cur, pc, op, streams, busy, forced>>, NoAuto',
           cur # None => Calm /\ EndsTold',
           \A o \in Ops : Ending(o)' => Ending(o),
           \A o \in Ops : sturn'[o] # "none" => sturn[o] # "none"
    PROVE  IdleInv'
<1>1. OneObject'
  BY IdleFacts DEF OneObject
<1>2. SUFFICES ASSUME cur # None
               PROVE  Tidy'
  BY <1>1 DEF IdleInv
<1>3. Tidy /\ Calm /\ EndsTold'
  BY <1>2, IdleFacts
<1>4. TurnsBegun'
  BY <1>3 DEF Tidy, TurnsBegun
<1>5. EndsAwaited'
  BY <1>3 DEF Tidy, EndsAwaited, Calm
<1>6. Forwarded'
  BY <1>3 DEF Tidy, Forwarded, Forwards, Calm
<1>7. EndedFinal' /\ IdleIsFree'
  BY <1>3 DEF Tidy, EndedFinal, Calm, streams
<1>8. NotifyFinal'
  BY <1>3 DEF Tidy, NotifyFinal, Appending, Calm
<1>9. QED
  BY <1>3, <1>4, <1>5, <1>6, <1>7, <1>8 DEF Tidy

\* A step that stores an object of the same turn, waiters and finalized turns.
LEMMA CalmStore ==
    ASSUME IdleInv, NEW g \in Objs, NEW a \in Agent, NEW emit, Store(g, a, emit),
           cur # None, g = First,
           a.active = objs[g].active, a.waiters = objs[g].waiters,
           a.finalized = objs[g].finalized,
           a.lifecycle # "running" => a.active = None
    PROVE  Calm
<1>1. Kept(objs'[First], a)
  BY StoreKept, IdleFacts
<1>2. QED
  BY <1>1 DEF Kept, Calm, IdleIsFree

\* The same when the object is assigned without emitState.
LEMMA CalmAssign ==
    ASSUME IdleInv, NEW a, objs' = [objs EXCEPT ![First] = a], cur # None,
           a.active = objs[First].active, a.waiters = objs[First].waiters,
           a.finalized = objs[First].finalized, a.lifecycle = objs[First].lifecycle
    PROVE  Calm
<1>1. objs'[First] = a
  BY IdleFacts DEF TypeOK
<1>2. IdleIsFree
  BY IdleFacts DEF Tidy
<1>3. QED
  BY <1>1, <1>2 DEF Calm, IdleIsFree

LEMMA CalmSame ==
    ASSUME IdleInv, cur # None, objs' = objs
    PROVE  Calm
BY IdleFacts DEF Calm, IdleIsFree, Tidy

\* What moves on with nothing of the provider.
LEMMA NoTurnsSame ==
    ASSUME UNCHANGED <<queue, sturn, autos, sauto>>
    PROVE  NoTurns
BY DEF NoTurns, Chained

-----------------------------------------------------------------------------
(* Action by action: the calls *)

\* A prompt takes the slot and calls startTurn.
LEMMA IdleStreamAgent ==
    ASSUME IdleInv, SlotInv', NEW o \in Ops, NEW k \in {"run", "replace"},
           pc[o] \in {"idle", "resume"}, StreamAgent(o, k)
    PROVE  IdleInv'
<1>1. /\ cur' = cur /\ cur = First /\ objs[First].active = None
      /\ wsettled' = wsettled /\ ends' = ends /\ forced' = forced /\ busy' = busy
      /\ autos' = autos
  BY IdleFacts DEF StreamAgent, SlotFree, SessionStartTurn, streams
<1>2. Tidy
  BY <1>1, IdleFacts
<1>3. /\ pc'[o] = "starting" /\ op'[o].kind = k /\ op'[o].obj = First
      /\ \A p \in Ops \ {o} : pc'[p] = pc[p] /\ op'[p] = op[p]
  <2>1. PICK c : c = [op[o] EXCEPT !.kind = k, !.obj = First]
    OBVIOUS
  <2>2. TypeOK /\ op[o] \in Call
    BY IdleFacts
  <2>3. op' = [op EXCEPT ![o] = c] /\ c.kind = k /\ c.obj = First
    BY <1>1, <2>1, <2>2 DEF StreamAgent, TypeOK, Call
  <2>4. QED
    BY <2>2, <2>3 DEF StreamAgent, TypeOK
<1>4. sturn[o] = "none"
  BY <1>2, IdleFacts DEF Tidy, TurnsBegun
<1>5. /\ \A p \in Ops \ {o} : sturn'[p] = sturn[p]
      /\ sauto' \in [Objs -> BOOLEAN] /\ (\A g \in Objs : ~sauto'[g]) /\ queue' = queue
  BY <1>1, IdleFacts DEF StreamAgent, SessionStartTurn, NoAuto, TypeOK
<1>6. Chained' = Chained
  BY <1>5 DEF Chained
<1>7. /\ objs'[First].active = None /\ objs'[First].waiters = objs[First].waiters
      /\ objs'[First].finalized = objs[First].finalized
  <2>1. PICK b : b = [objs[First] EXCEPT !.replacing = FALSE, !.err = FALSE]
    OBVIOUS
  <2>2. objs' = [objs EXCEPT ![First] = b]
    BY <1>1, <2>1, IdleFacts DEF StreamAgent, TypeOK
  <2>3. objs'[First] = b
    BY <2>2, IdleFacts DEF TypeOK
  <2>4. QED
    BY <1>1, <2>1, <2>3, IdleFacts DEF Agent
<1>8. OneObject' /\ NoAuto'
  <2>1. k \notin OddKinds /\ "starting" \notin OddLabels
    BY DEF OddKinds, OddLabels
  <2>2. QED
    BY <1>1, <1>3, <1>5, <2>1, IdleFacts DEF OneObject, NoAuto
<1>9. EndsTold'
  BY <1>2, <1>4, <1>5, <1>6 DEF Tidy, EndsTold
<1>10. TurnsBegun'
  BY <1>2, <1>3, <1>5 DEF Tidy, TurnsBegun
<1>11. EndsAwaited'
  BY <1>2, <1>3, <1>5, <1>6, <1>7 DEF Tidy, EndsAwaited, Ending
<1>12. Forwarded'
  BY <1>1, <1>2, <1>3, <1>7 DEF Tidy, Forwarded, Forwards
<1>13. EndedFinal' /\ IdleIsFree'
  BY <1>1, <1>2, <1>7 DEF Tidy, EndedFinal, IdleIsFree
<1>14. NotifyFinal'
  BY <1>1, <1>2, <1>7 DEF Tidy, NotifyFinal, Appending
<1>15. QED
  BY <1>8, <1>9, <1>10, <1>11, <1>12, <1>13, <1>14 DEF IdleInv, Tidy

\* cancelAgentRun, or replaceAgentRun with it, up to the await of the interrupt.
LEMMA IdleBeginCancel ==
    ASSUME IdleInv, SlotInv', NEW o \in Ops, NEW k \in {"cancel", "replace"},
           pc[o] = "idle", cur # None, BeginCancel(o, k), Calm
    PROVE  IdleInv'
<1>1. PICK c : c = [op[o] EXCEPT !.kind = k, !.obj = cur, !.run = pending,
                                 !.turn = objs[cur].active]
  OBVIOUS
<1>2. op' = [op EXCEPT ![o] = c] /\ c.kind = k /\ c.obj = cur
  <2>1. TypeOK /\ op[o] \in Call
    BY IdleFacts
  <2>2. QED
    BY <1>1, <2>1 DEF BeginCancel, TypeOK, Call
<1>3. Goto(o, "interrupting")
  BY DEF BeginCancel
<1>4. Onward(o)
  BY <1>2, <1>3, OnwardBegins, IdleFacts DEF Labels
<1>5. pc'[o] \notin OddLabels /\ op'[o].kind \notin OddKinds
  BY <1>2, <1>3, IdleFacts DEF Goto, TypeOK, OddLabels, OddKinds
<1>6. NoTurns /\ cur' = cur /\ UNCHANGED <<streams, busy, forced>>
  BY NoTurnsSame DEF BeginCancel, events, provider
<1>7. QED
  BY <1>4, <1>5, <1>6, IdleMoves

\* respondToPermission up to the await of the provider.
LEMMA IdleRespond ==
    ASSUME IdleInv, SlotInv', NEW o \in Ops, NEW p \in Perms, Respond(o, p)
    PROVE  IdleInv'
<1>1. cur # None /\ cur = First /\ pc[o] = "idle"
  BY IdleFacts DEF Respond
<1>2. PICK c : c = [op[o] EXCEPT !.kind = "respond", !.obj = cur, !.perm = p]
  OBVIOUS
<1>3. op' = [op EXCEPT ![o] = c] /\ c.kind = "respond" /\ c.obj = cur
  <2>1. TypeOK /\ op[o] \in Call
    BY IdleFacts
  <2>2. QED
    BY <1>2, <2>1 DEF Respond, TypeOK, Call
<1>4. Goto(o, "responding")
  BY DEF Respond
<1>5. Onward(o)
  BY <1>1, <1>3, <1>4, OnwardBegins, IdleFacts DEF Labels
<1>6. pc'[o] \notin OddLabels /\ op'[o].kind \notin OddKinds
  BY <1>3, <1>4, IdleFacts DEF Goto, TypeOK, OddLabels, OddKinds
<1>7. NoTurns /\ cur' = cur /\ UNCHANGED <<streams, busy, forced>>
  BY NoTurnsSame DEF Respond, events, provider
<1>8. Calm
  <2>1. PICK b : b = [objs[First] EXCEPT !.inFlight = @ \cup {p}]
    OBVIOUS
  <2>2. objs' = [objs EXCEPT ![First] = b]
    BY <1>1, <2>1, IdleFacts DEF Respond, TypeOK
  <2>3. /\ b.active = objs[First].active /\ b.waiters = objs[First].waiters
        /\ b.finalized = objs[First].finalized /\ b.lifecycle = objs[First].lifecycle
    BY <2>1, IdleFacts DEF Agent
  <2>4. QED
    BY <1>1, <2>2, <2>3, CalmAssign
<1>9. QED
  BY <1>5, <1>6, <1>7, <1>8, IdleMoves

\* What a call does first.
LEMMA IdleBegin ==
    ASSUME IdleInv, SlotInv', Kinds \cap OddKinds = {}, NEW o \in Ops, Begin(o)
    PROVE  IdleInv'
<1>1. CASE Run(o)
  BY <1>1, IdleStreamAgent DEF Run
<1>2. CASE Cancel(o)
  BY <1>2, CalmSame, IdleBeginCancel DEF Cancel
<1>3. CASE Replace(o)
  <2>1. CASE StreamAgent(o, "run")
    BY <1>3, <2>1, IdleStreamAgent DEF Replace
  <2>2. CASE BeginCancel(o, "replace")
             /\ Store(cur, [objs[cur] EXCEPT !.replacing = TRUE,
                                             !.lifecycle = "running"], TRUE)
    <3>1. cur # None /\ cur = First /\ pc[o] = "idle"
      BY <1>3, IdleFacts DEF Replace
    <3>2. PICK a : a = [objs[cur] EXCEPT !.replacing = TRUE, !.lifecycle = "running"]
      OBVIOUS
    <3>3. /\ a \in Agent /\ a.active = objs[cur].active /\ a.waiters = objs[cur].waiters
          /\ a.finalized = objs[cur].finalized /\ a.lifecycle = "running"
      BY <3>1, <3>2, IdleFacts DEF Agent, Lifecycles
    <3>4. Calm
      BY <2>2, <3>1, <3>2, <3>3, CalmStore, IdleFacts
    <3>5. QED
      BY <2>2, <3>1, <3>4, IdleBeginCancel
  <2>3. QED
    BY <1>3, <2>1, <2>2 DEF Replace
<1>4. CASE Rewind(o) \/ Reload(o) \/ Open(o)
  BY <1>4 DEF Rewind, Reload, Open, OddKinds
<1>5. CASE Close(o)
  <2>1. cur' = None /\ Goto(o, "closing") /\ UNCHANGED <<autos, sauto>>
    BY <1>5 DEF Close, provider
  <2>2. PICK c : c = [op[o] EXCEPT !.kind = "close"]
    OBVIOUS
  <2>3. op' = [op EXCEPT ![o] = c] /\ c.kind = "close" /\ c.obj = op[o].obj
    BY <1>5, <2>2, IdleFacts DEF Close, TypeOK, Call
  <2>4. \A p \in Ops : op'[p].obj \in {None, First} /\ op'[p].kind \notin OddKinds
    BY <2>3, IdleFacts DEF OneObject, TypeOK, OddKinds
  <2>5. \A p \in Ops : pc'[p] \notin OddLabels
    BY <2>1, IdleFacts DEF OneObject, Goto, TypeOK, OddLabels
  <2>6. QED
    BY <2>1, <2>4, <2>5, IdleFacts DEF IdleInv, OneObject, NoAuto
<1>6. CASE \E p \in Perms : Respond(o, p)
  BY <1>6, IdleRespond
<1>7. QED
  BY <1>1, <1>2, <1>3, <1>4, <1>5, <1>6 DEF Begin

\* The object that a call has captured.
LEMMA CapturedFirst ==
    ASSUME IdleInv, NEW o \in Ops, pc[o] \notin {"idle", "closing", "registering", "done"}
    PROVE  op[o].obj = First
<1>1. op[o].obj \in Objs
  BY CapturedObject, IdleFacts
<1>2. QED
  BY <1>1, IdleFacts

\* A call that only moves on, whatever it stores.
LEMMA IdleGoes ==
    ASSUME IdleInv, SlotInv', NEW o \in Ops, NEW l, Goto(o, l), op' = op,
           {pc[o], l} \cap {"starting", "failing", "streaming", "rewinding"} = {},
           pc[o] \notin {"done", "subscribing", "initializing"},
           pc[o] \in {"refresh", "catch"} => l = "done",
           l \notin OddLabels, UNCHANGED <<cur, slot, streams, events, provider>>,
           cur # None => Calm
    PROVE  IdleInv'
<1>1. Onward(o)
  BY OnwardMoves, IdleFacts
<1>2. pc'[o] \notin OddLabels /\ op'[o].kind \notin OddKinds
  BY IdleFacts DEF Goto, TypeOK, OneObject
<1>3. NoTurns /\ UNCHANGED <<streams, busy, forced>>
  BY NoTurnsSame DEF events, provider
<1>4. QED
  BY <1>1, <1>2, <1>3, IdleMoves

\* The steps that only emit, refresh or move on.
LEMMA IdleQuietSteps ==
    ASSUME IdleInv, SlotInv', NEW o \in Ops,
           \/ Refresh(o) \/ Interrupted(o) \/ StaleSettled(o) \/ ReplaceCatch(o)
           \/ Closed(o) \/ Responded(o) \/ Refreshed(o) \/ Persisted(o)
    PROVE  IdleInv'
<1> DEFINE p == op[o].perm
           a == objs[First]
<1>1. a \in Agent /\ First \in Objs /\ TypeOK /\ TypeInv
  BY IdleFacts
<1>2. pc[o] \notin {"idle", "closing", "registering", "done"} => op[o].obj = First
  BY CapturedFirst
<1>3. cur # None => IdleIsFree
  BY IdleFacts DEF Tidy
<1>4. CASE Interrupted(o) \/ Closed(o)
  BY <1>4, CalmSame, IdleGoes DEF Interrupted, Closed, OddLabels
<1>5. CASE Refresh(o)
  <2>1. PICK changed \in BOOLEAN : Store(First, a, changed)
    BY <1>2, <1>5 DEF Refresh
  <2>2. cur # None => Calm
    BY <1>1, <1>3, <2>1, CalmStore DEF IdleIsFree
  <2>3. QED
    BY <1>5, <2>2, IdleGoes DEF Refresh, OddLabels
<1>6. CASE StaleSettled(o)
  <2>1. PICK b : b = Cleared(a)
    OBVIOUS
  <2>2. /\ b \in Agent /\ b.active = a.active /\ b.waiters = a.waiters
        /\ b.finalized = a.finalized /\ b.lifecycle = a.lifecycle
    BY <1>1, <2>1 DEF Cleared, Agent
  <2>3. PICK emit : Store(First, b, emit)
    BY <1>2, <1>6, <2>1 DEF StaleSettled
  <2>4. cur # None => Calm
    BY <1>1, <1>3, <2>2, <2>3, CalmStore DEF IdleIsFree
  <2>5. QED
    BY <1>6, <2>4, IdleGoes DEF StaleSettled, AfterCancel, OddLabels
<1>7. CASE ReplaceCatch(o)
  <2> DEFINE b == [objs[cur] EXCEPT !.replacing = FALSE]
             drop == b.active = None /\ b.lifecycle = "running"
  <2>1. ASSUME cur # None
        PROVE  Calm
    <3>1. cur = First
      BY <2>1, IdleFacts
    <3>2. PICK d : d = IF drop THEN [b EXCEPT !.lifecycle = "idle"] ELSE b
      OBVIOUS
    <3>3. /\ d \in Agent /\ d.active = a.active /\ d.waiters = a.waiters
          /\ d.finalized = a.finalized
          /\ d.lifecycle = a.lifecycle \/ d.active = None
      BY <1>1, <3>1, <3>2 DEF Agent, Lifecycles
    <3>4. Store(First, d, drop)
      BY <1>7, <2>1, <3>1, <3>2 DEF ReplaceCatch
    <3>5. QED
      BY <1>1, <1>3, <2>1, <3>3, <3>4, CalmStore DEF IdleIsFree
  <2>2. Goto(o, "done") /\ pc[o] = "catch" /\ op' = op
        /\ UNCHANGED <<cur, slot, streams, events, provider>>
    BY <1>7 DEF ReplaceCatch
  <2>3. QED
    BY <2>1, <2>2, IdleGoes DEF OddLabels
<1>8. CASE Responded(o) \/ Refreshed(o)
  <2>1. op[o].obj = First
    BY <1>2, <1>8 DEF Responded, Refreshed
  <2>2. \/ objs' = [objs EXCEPT ![First] = [a EXCEPT !.perms = @ \ {p}]]
        \/ objs' = [objs EXCEPT ![First] = [a EXCEPT !.inFlight = @ \ {p}, !.buffered = @ \ {p}]]
        \/ objs' = [objs EXCEPT ![First] = [a EXCEPT !.perms = sperms[First]]]
    BY <1>1, <1>8, <2>1 DEF Responded, Refreshed, TypeOK
  <2>3. PICK b : /\ objs' = [objs EXCEPT ![First] = b]
                 /\ b.active = a.active /\ b.waiters = a.waiters
                 /\ b.finalized = a.finalized /\ b.lifecycle = a.lifecycle
    BY <1>1, <2>2 DEF Agent
  <2>4. cur # None => Calm
    BY <2>3, CalmAssign
  <2>5. PICK l : Goto(o, l) /\ l \in {"refreshing", "persisting", "done"}
    BY <1>8 DEF Responded, Refreshed
  <2>6. pc[o] \in {"responding", "refreshing"} /\ op' = op
        /\ UNCHANGED <<cur, slot, streams, events, provider>>
    BY <1>8 DEF Responded, Refreshed
  <2>7. QED
    BY <2>4, <2>5, <2>6, IdleGoes DEF OddLabels
<1>9. CASE Persisted(o)
  <2>1. PICK b : b = [a EXCEPT !.inFlight = @ \ {p}, !.buffered = @ \ {p}]
    OBVIOUS
  <2>2. /\ b \in Agent /\ b.active = a.active /\ b.waiters = a.waiters
        /\ b.finalized = a.finalized /\ b.lifecycle = a.lifecycle
    BY <1>1, <2>1 DEF Agent
  <2>3. Store(First, b, TRUE)
    BY <1>2, <1>9, <2>1 DEF Persisted
  <2>4. cur # None => Calm
    BY <1>1, <1>3, <2>2, <2>3, CalmStore DEF IdleIsFree
  <2>5. QED
    BY <1>9, <2>4, IdleGoes DEF Persisted, OddLabels
<1>10. QED
  BY <1>4, <1>5, <1>6, <1>7, <1>8, <1>9

\* replaceAgentRun goes on.
LEMMA IdleReplaceResumes ==
    ASSUME IdleInv, SlotInv', NEW o \in Ops, ReplaceResumes(o)
    PROVE  IdleInv'
<1>1. CASE StreamAgent(o, "replace")
  BY <1>1, IdleStreamAgent DEF ReplaceResumes
<1>2. CASE /\ Goto(o, "catch")
           /\ UNCHANGED <<cur, objs, prevStatus, slot, streams, op, events, provider>>
  <2>1. pc[o] = "resume" /\ (cur # None => Calm)
    BY <1>2, CalmSame DEF ReplaceResumes
  <2>2. QED
    BY <1>2, <2>1, IdleGoes DEF OddLabels
<1>3. QED
  BY <1>1, <1>2 DEF ReplaceResumes

-----------------------------------------------------------------------------
(* Action by action: a run from startTurn to the end of its stream *)

\* A call moves on: what is left to prove is about the registered object.
LEMMA IdleCall ==
    ASSUME IdleInv, SlotInv', NEW o \in Ops, NEW l, Goto(o, l), l \notin OddLabels,
           \A p \in Ops : op'[p].obj = op[p].obj /\ op'[p].kind = op[p].kind,
           UNCHANGED <<cur, autos, sauto>>, cur # None => Tidy'
    PROVE  IdleInv'
<1>1. \A p \in Ops : pc'[p] \notin OddLabels
  BY IdleFacts DEF OneObject, Goto, TypeOK
<1>2. OneObject' /\ NoAuto'
  BY <1>1, IdleFacts DEF OneObject, NoAuto
<1>3. QED
  BY <1>2 DEF IdleInv

\* session.startTurn resolves: the turn becomes the foreground turn.
LEMMA IdleStartResolves ==
    ASSUME IdleInv, SlotInv', NEW o \in Ops, StartResolves(o)
    PROVE  IdleInv'
<1>1. /\ pc[o] = "starting" /\ Goto(o, "streaming")
      /\ UNCHANGED <<cur, slot, streams, op, events, provider>>
  BY DEF StartResolves
<1>2. SUFFICES ASSUME cur # None
               PROVE  Tidy'
  BY <1>1, IdleCall DEF OddLabels, provider
<1>3. Tidy /\ cur = First /\ op[o].obj = First /\ objs[First] \in Agent
  BY <1>1, <1>2, IdleFacts, CapturedFirst
<1>4. objs[First].active = None
  BY <1>1, <1>3, NoTurnWhileStarting, IdleFacts
<1>5. /\ objs'[First].active = o /\ objs'[First].lifecycle = "running"
      /\ objs'[First].waiters = objs[First].waiters \cup {o}
      /\ objs'[First].finalized = objs[First].finalized
  <2>1. PICK a : a = [objs[First] EXCEPT !.active = o, !.lifecycle = "running",
                                         !.waiters = @ \cup {o}]
    OBVIOUS
  <2>2. /\ a \in Agent /\ a.active = o /\ a.lifecycle = "running"
        /\ a.waiters = objs[First].waiters \cup {o}
        /\ a.finalized = objs[First].finalized
    BY <1>3, <2>1 DEF Agent, Lifecycles
  <2>3. Store(First, a, TRUE)
    BY <1>3, <2>1 DEF StartResolves
  <2>4. Kept(objs'[First], a)
    BY <2>2, <2>3, StoreKept, IdleFacts
  <2>5. QED
    BY <2>2, <2>4 DEF Kept
<1>6. pc'[o] = "streaming" /\ \A p \in Ops \ {o} : pc'[p] = pc[p]
  BY <1>1, IdleFacts DEF Goto, TypeOK
<1>7. op' = op /\ sturn' = sturn /\ Chained' = Chained /\ busy' = busy /\ forced' = forced
      /\ ends' = ends /\ wsettled' = wsettled
  BY <1>1 DEF provider, events, streams, Chained
<1>8. EndsTold'
  BY <1>3, <1>7 DEF Tidy, EndsTold
<1>9. TurnsBegun'
  BY <1>3, <1>6, <1>7 DEF Tidy, TurnsBegun
<1>10. EndsAwaited'
  BY <1>3, <1>5, <1>6, <1>7 DEF Tidy, EndsAwaited, Ending
<1>11. Forwarded'
  BY <1>3, <1>4, <1>5, <1>6, <1>7, IdleFacts DEF Tidy, Forwarded, Forwards
<1>12. EndedFinal' /\ IdleIsFree'
  BY <1>3, <1>5, <1>7 DEF Tidy, EndedFinal, IdleIsFree
<1>13. NotifyFinal'
  <2>1. busy # NoEvent /\ Appending => busy.e.type \notin TerminalTypes
    <3>1. SUFFICES ASSUME busy # NoEvent, Appending, busy.e.type \in TerminalTypes
                   PROVE  FALSE
      OBVIOUS
    <3>2. busy.e.turn = None
      BY <1>3, <1>4, <3>1 DEF Tidy, NotifyFinal
    <3>3. busy.e.turn \in Ops
      BY <3>1, SlotFacts, IdleFacts DEF ForegroundTyped, Appending
    <3>4. QED
      BY <3>2, <3>3, IdleFacts
  <2>2. QED
    BY <1>3, <1>5, <1>7, <2>1 DEF Tidy, NotifyFinal, Appending
<1>14. QED
  BY <1>8, <1>9, <1>10, <1>11, <1>12, <1>13 DEF Tidy

\* session.startTurn rejects.
LEMMA IdleStartThrows ==
    ASSUME IdleInv, SlotInv', NEW o \in Ops, StartThrows(o)
    PROVE  IdleInv'
<1>1. /\ pc[o] = "starting" /\ Goto(o, "failing") /\ sturn[o] \in {"none", "open"}
      /\ UNCHANGED <<cur, prevStatus, slot, streams, op, events, sauto, autos>>
  BY DEF StartThrows
<1>2. SUFFICES ASSUME cur # None
               PROVE  Tidy'
  BY <1>1, IdleCall DEF OddLabels
<1>3. Tidy /\ cur = First /\ op[o].obj = First /\ objs[First] \in Agent
  BY <1>1, <1>2, IdleFacts, CapturedFirst
<1>4. objs[First].active = None
  BY <1>1, <1>3, NoTurnWhileStarting, IdleFacts
<1>5. /\ objs'[First].active = None /\ objs'[First].waiters = objs[First].waiters
      /\ objs'[First].finalized = objs[First].finalized
  <2>1. PICK a : a = [objs[First] EXCEPT !.lifecycle = "error", !.err = TRUE]
    OBVIOUS
  <2>2. /\ a.active = None /\ a.waiters = objs[First].waiters
        /\ a.finalized = objs[First].finalized
    BY <1>3, <1>4, <2>1 DEF Agent
  <2>3. objs' = [objs EXCEPT ![First] = a]
    BY <1>3, <2>1, IdleFacts DEF StartThrows, TypeOK
  <2>4. QED
    BY <2>2, <2>3, IdleFacts DEF TypeOK
<1>6. pc'[o] = "failing" /\ \A p \in Ops \ {o} : pc'[p] = pc[p]
  BY <1>1, IdleFacts DEF Goto, TypeOK
<1>7. op' = op /\ Chained' = Chained /\ busy' = busy /\ forced' = forced
      /\ ends' = ends /\ wsettled' = wsettled
  BY <1>1 DEF events, streams, Chained
<1>8. /\ sturn'[o] \in {"none", "ended"} /\ \A p \in Ops \ {o} : sturn'[p] = sturn[p]
      /\ sturn[o] = "none" => sturn'[o] = "none"
  BY <1>1, IdleFacts DEF StartThrows, TypeOK
<1>9. \A e \in Chained : e.type \in TerminalTypes => e.turn \in Ops \ {o}
  BY <1>1, <1>3 DEF Tidy, EndsTold
<1>10. EndsTold'
  BY <1>3, <1>7, <1>8, <1>9 DEF Tidy, EndsTold
<1>11. TurnsBegun'
  BY <1>3, <1>6, <1>7, <1>8 DEF Tidy, TurnsBegun
<1>12. EndsAwaited'
  BY <1>3, <1>5, <1>6, <1>7, <1>8, <1>9 DEF Tidy, EndsAwaited, Ending
<1>13. Forwarded'
  BY <1>3, <1>4, <1>5, <1>6, <1>7 DEF Tidy, Forwarded, Forwards
<1>14. EndedFinal' /\ IdleIsFree'
  BY <1>3, <1>5, <1>7 DEF Tidy, EndedFinal, IdleIsFree
<1>15. NotifyFinal'
  BY <1>3, <1>4, <1>5, <1>7 DEF Tidy, NotifyFinal, Appending
<1>16. QED
  BY <1>10, <1>11, <1>12, <1>13, <1>14, <1>15 DEF Tidy

\* ... and its failure has been handled.
LEMMA IdleStartFailed ==
    ASSUME IdleInv, SlotInv', NEW o \in Ops, StartFailed(o)
    PROVE  IdleInv'
<1>1. PICK l : /\ pc[o] = "failing" /\ Goto(o, l) /\ l \in {"catch", "done"}
               /\ UNCHANGED <<cur, streams, op, events, provider>>
  BY DEF StartFailed
<1>2. SUFFICES ASSUME cur # None
               PROVE  Tidy'
  BY <1>1, IdleCall DEF OddLabels, provider
<1>3. Tidy /\ cur = First /\ op[o].obj = First /\ objs[First] \in Agent
  BY <1>1, <1>2, IdleFacts, CapturedFirst
<1>4. objs[First].active = None
  BY <1>1, <1>3, NoTurnWhileStarting, IdleFacts
<1>5. /\ objs'[First].active = None /\ objs'[First].waiters = objs[First].waiters
      /\ objs'[First].finalized = objs[First].finalized
  <2>1. PICK c : c = [objs[First] EXCEPT !.perms = {}]
    OBVIOUS
  <2>2. c \in Agent /\ Kept(c, objs[First])
    BY <1>3, <2>1 DEF Agent, Kept
  <2>3. PICK r : r = Attend(c, prevStatus)
    OBVIOUS
  <2>4. r \in Agent /\ Kept(r, c)
    BY <2>2, <2>3, AttendMarks, MarkedAgent, MarkedKept
  <2>5. PICK f : f = Finalized(r, {})
    OBVIOUS
  <2>6. /\ f \in Agent /\ f.active = None /\ f.waiters = r.waiters
        /\ f.finalized = r.finalized
    <3>1. {} \in SUBSET Ops
      OBVIOUS
    <3>2. f.finalized = r.finalized \cup {}
      BY <2>4, <2>5, <3>1, FinalizedFields
    <3>3. QED
      BY <2>4, <2>5, <3>1, <3>2, FinalizedFields
  <2>7. PICK b : objs' = [objs EXCEPT ![First] = b] /\ (b = f \/ b = Attend(f, r.lifecycle))
    BY <1>3, <2>1, <2>3, <2>5 DEF StartFailed
  <2>8. Kept(b, f)
    BY <2>6, <2>7, AttendMarks, MarkedKept DEF Kept
  <2>9. objs'[First] = b
    BY <2>7, IdleFacts DEF TypeOK
  <2>10. QED
    BY <2>2, <2>4, <2>6, <2>8, <2>9 DEF Kept
<1>6. pc'[o] \in {"catch", "done"} /\ \A p \in Ops \ {o} : pc'[p] = pc[p]
  BY <1>1, IdleFacts DEF Goto, TypeOK
<1>7. op' = op /\ sturn' = sturn /\ Chained' = Chained /\ busy' = busy /\ forced' = forced
      /\ ends' = ends /\ wsettled' = wsettled
  BY <1>1 DEF provider, events, streams, Chained
<1>8. EndsTold'
  BY <1>3, <1>7 DEF Tidy, EndsTold
<1>9. TurnsBegun'
  BY <1>3, <1>6, <1>7 DEF Tidy, TurnsBegun
<1>10. EndsAwaited'
  BY <1>1, <1>3, <1>5, <1>6, <1>7 DEF Tidy, EndsAwaited, Ending
<1>11. Forwarded'
  BY <1>3, <1>4, <1>5, <1>6, <1>7 DEF Tidy, Forwarded, Forwards
<1>12. EndedFinal' /\ IdleIsFree'
  BY <1>3, <1>5, <1>7 DEF Tidy, EndedFinal, IdleIsFree
<1>13. NotifyFinal'
  BY <1>3, <1>4, <1>5, <1>7 DEF Tidy, NotifyFinal, Appending
<1>14. QED
  BY <1>8, <1>9, <1>10, <1>11, <1>12, <1>13 DEF Tidy

\* The stream ends: the finally block of streamAgent.
LEMMA IdleDrain ==
    ASSUME IdleInv, SlotInv', NEW o \in Ops, Drain(o)
    PROVE  IdleInv'
<1>1. PICK l : /\ pc[o] = "streaming" /\ Goto(o, l) /\ l \in {"refresh", "done"}
               /\ o \in ends /\ wsettled' = wsettled \cup {o}
               /\ UNCHANGED <<cur, prevStatus, ends, op, events, provider>>
  BY DEF Drain
<1>2. SUFFICES ASSUME cur # None
               PROVE  Tidy'
  BY <1>1, IdleCall DEF OddLabels, provider
<1>3. Tidy /\ cur = First /\ op[o].obj = First /\ objs[First] \in Agent
  BY <1>1, <1>2, IdleFacts, CapturedFirst
<1>4. o \in objs[First].finalized
  BY <1>1, <1>3 DEF Tidy, EndedFinal
<1>5. /\ objs'[First].active = objs[First].active
      /\ objs'[First].waiters = objs[First].waiters \ {o}
      /\ objs'[First].finalized = objs[First].finalized
      /\ objs'[First].lifecycle = objs[First].lifecycle
  <2>1. PICK a : a = [objs[First] EXCEPT !.waiters = @ \ {o}]
    OBVIOUS
  <2>2. objs' = [objs EXCEPT ![First] = a]
    BY <1>3, <2>1, IdleFacts DEF Drain, TypeOK
  <2>3. objs'[First] = a
    BY <2>2, IdleFacts DEF TypeOK
  <2>4. QED
    BY <1>3, <2>1, <2>3 DEF Agent
<1>6. pc'[o] \in {"refresh", "done"} /\ \A p \in Ops \ {o} : pc'[p] = pc[p]
  BY <1>1, IdleFacts DEF Goto, TypeOK
<1>7. op' = op /\ sturn' = sturn /\ Chained' = Chained /\ busy' = busy /\ forced' = forced
  BY <1>1 DEF provider, events, Chained
<1>8. EndsTold'
  BY <1>3, <1>7 DEF Tidy, EndsTold
<1>9. TurnsBegun'
  BY <1>3, <1>6, <1>7 DEF Tidy, TurnsBegun
<1>10. EndsAwaited'
  BY <1>3, <1>4, <1>5, <1>6, <1>7 DEF Tidy, EndsAwaited, Ending
<1>11. Forwarded'
  BY <1>3, <1>5, <1>6, <1>7 DEF Tidy, Forwarded, Forwards
<1>12. EndedFinal' /\ IdleIsFree'
  BY <1>1, <1>3, <1>4, <1>5, <1>7 DEF Tidy, EndedFinal, IdleIsFree
<1>13. NotifyFinal'
  BY <1>3, <1>5, <1>7 DEF Tidy, NotifyFinal, Appending
<1>14. QED
  BY <1>8, <1>9, <1>10, <1>11, <1>12, <1>13 DEF Tidy

-----------------------------------------------------------------------------
(* Action by action: cancellations and the chain *)

\* A turn is force-canceled only when no event is left to be dispatched.
LEMMA StuckIsQuiet ==
    ASSUME IdleInv, cur # None, NEW o \in Ops, pc[o] = "waiting", WaitOver(o), Stuck(o)
    PROVE  queue = <<>> /\ busy = NoEvent
<1>1. op[o].obj = First /\ cur = First
  BY CapturedFirst, IdleFacts
<1>2. PICK t : t = op[o].turn
  OBVIOUS
<1>3. t # None /\ objs[First].active = t
  BY <1>1, <1>2 DEF Stuck
<1>4. op[t].obj = cur /\ t \in objs[First].waiters
  BY <1>1, <1>3, SlotFacts, IdleFacts DEF TurnForwarded
<1>5. t \notin wsettled
  BY <1>1, <1>3, <1>4, SlotFacts, IdleFacts DEF EndedNotActive, Over
<1>6. Waits(o)
  BY <1>1, <1>2, <1>3, <1>5 DEF Waits
<1>7. QED
  BY <1>6 DEF WaitOver, MicrotasksDone

\* The wait of a cancellation is over.
LEMMA IdleAfterWait ==
    ASSUME IdleInv, SlotInv', NEW o \in Ops, AfterWait(o)
    PROVE  IdleInv'
<1>1. pc[o] = "waiting" /\ op[o].obj = First
  BY CapturedFirst DEF AfterWait
<1>2. PICK a : a = objs[First]
  OBVIOUS
<1>3. a \in Agent /\ First \in Objs /\ TypeOK
  BY <1>2, IdleFacts
<1>4. CASE ~Stuck(o)
  <2>1. PICK b : b = Cleared(a)
    OBVIOUS
  <2>2. /\ b \in Agent /\ b.active = a.active /\ b.waiters = a.waiters
        /\ b.finalized = a.finalized /\ b.lifecycle = a.lifecycle
    BY <1>3, <2>1 DEF Cleared, Agent
  <2>3. PICK emit : Store(First, b, emit)
    BY <1>1, <1>2, <1>4, <2>1 DEF AfterWait
  <2>4. cur # None => IdleIsFree
    BY IdleFacts DEF Tidy
  <2>5. cur # None => Calm
    BY <1>2, <1>3, <2>2, <2>3, <2>4, CalmStore DEF IdleIsFree
  <2>6. AfterCancel(o) /\ UNCHANGED <<cur, slot, streams, queue, busy, provider>>
        /\ op' = op /\ forced' = forced
    BY <1>4 DEF AfterWait
  <2>7. PICK l : Goto(o, l) /\ l \in {"done", "resume"}
    BY <2>6 DEF AfterCancel
  <2>8. QED
    BY <1>1, <2>5, <2>6, <2>7, IdleGoes DEF OddLabels, events
<1>5. CASE Stuck(o)
  <2>1. PICK t : t = op[o].turn
    OBVIOUS
  <2>2. t \in Ops /\ a.active = t
    BY <1>1, <1>2, <1>5, <2>1, IdleFacts DEF Stuck
  <2>3. PICK l : Goto(o, l) /\ l \in {"stale", "done", "resume"}
    BY DEF AfterWait, AfterCancel
  <2>4. UNCHANGED <<cur, slot, streams, queue, busy, provider>>
    BY DEF AfterWait
  <2>5. forced' \subseteq forced \cup {t}
    BY <2>1 DEF AfterWait, Matching
  <2>6. \A p \in Ops : op'[p].obj = op[p].obj /\ op'[p].kind = op[p].kind
    <3>1. CASE op' = op
      BY <3>1
    <3>2. CASE op' = [op EXCEPT ![o].run = pending]
      <4>1. PICK c : c = [op[o] EXCEPT !.run = pending]
        OBVIOUS
      <4>2. op[o] \in Call
        BY IdleFacts
      <4>3. op' = [op EXCEPT ![o] = c] /\ c.obj = op[o].obj /\ c.kind = op[o].kind
        BY <1>3, <3>2, <4>1, <4>2 DEF TypeOK, Call
      <4>4. QED
        BY <1>3, <4>3 DEF TypeOK
    <3>3. QED
      BY <3>1, <3>2 DEF AfterWait
  <2>7. SUFFICES ASSUME cur # None
                 PROVE  Tidy'
    BY <2>3, <2>4, <2>6, IdleCall DEF OddLabels, provider
  <2>8. Tidy /\ cur = First /\ busy = NoEvent
    BY <1>1, <1>5, <2>7, StuckIsQuiet, IdleFacts DEF AfterWait
  <2>9. /\ objs'[First].active = None /\ objs'[First].waiters = a.waiters
        /\ objs'[First].finalized = a.finalized \cup {t}
    <3>1. PICK c : c = [a EXCEPT !.err = FALSE, !.perms = {}]
      OBVIOUS
    <3>2. c \in Agent /\ c.waiters = a.waiters /\ c.finalized = a.finalized
      BY <1>3, <3>1 DEF Agent
    <3>3. PICK f : f = Finalized(c, {t})
      OBVIOUS
    <3>4. /\ f \in Agent /\ f.active = None /\ f.waiters = a.waiters
          /\ f.finalized = a.finalized \cup {t}
      BY <2>2, <3>2, <3>3, FinalizedFields
    <3>5. PICK emit : Store(First, f, emit)
      BY <1>1, <1>2, <1>5, <2>1, <3>1, <3>3 DEF AfterWait
    <3>6. Kept(objs'[First], f)
      BY <3>4, <3>5, StoreKept, IdleFacts
    <3>7. QED
      BY <3>4, <3>6 DEF Kept
  <2>10. pc'[o] \in {"stale", "done", "resume"} /\ \A p \in Ops \ {o} : pc'[p] = pc[p]
    BY <1>3, <2>3 DEF Goto, TypeOK
  <2>11. sturn' = sturn /\ Chained' = Chained /\ busy' = busy
         /\ ends' = ends /\ wsettled' = wsettled
    BY <2>4 DEF provider, streams, Chained
  <2>12. EndsTold'
    BY <2>8, <2>11 DEF Tidy, EndsTold
  <2>13. TurnsBegun'
    BY <1>1, <2>6, <2>8, <2>10, <2>11 DEF Tidy, TurnsBegun
  <2>14. EndsAwaited'
    BY <1>1, <1>2, <2>8, <2>9, <2>10, <2>11 DEF Tidy, EndsAwaited, Ending
  <2>15. Forwarded'
    BY <1>1, <1>2, <2>2, <2>6, <2>8, <2>9, <2>10 DEF Tidy, Forwarded, Forwards
  <2>16. EndedFinal' /\ IdleIsFree'
    BY <1>2, <2>5, <2>8, <2>9, <2>11 DEF Tidy, EndedFinal, IdleIsFree
  <2>17. NotifyFinal'
    BY <2>8, <2>11 DEF NotifyFinal
  <2>18. QED
    BY <2>12, <2>13, <2>14, <2>15, <2>16, <2>17 DEF Tidy
<1>6. QED
  BY <1>4, <1>5

\* The streams that an event or a forced cancel has ended are told.
LEMMA IdleTold ==
    ASSUME IdleInv, SlotInv',
           UNCHANGED <<cur, objs, prevStatus, slot, pc, op, queue, provider>>,
           cur # None => (ends \cup wsettled \cup forced)' \subseteq objs[First].finalized,
           busy' \in {busy, NoEvent}
    PROVE  IdleInv'
<1>1. OneObject' /\ NoAuto'
  BY IdleFacts DEF OneObject, NoAuto, provider
<1>2. SUFFICES ASSUME cur # None
               PROVE  Tidy'
  BY <1>1 DEF IdleInv
<1>3. Tidy
  BY <1>2, IdleFacts
<1>4. sturn' = sturn /\ Chained' = Chained
  BY DEF provider, Chained
<1>5. EndsTold' /\ TurnsBegun' /\ EndsAwaited' /\ Forwarded' /\ IdleIsFree'
  BY <1>3, <1>4
     DEF Tidy, EndsTold, TurnsBegun, EndsAwaited, Ending, Forwarded, Forwards, IdleIsFree
<1>6. EndedFinal'
  BY <1>2 DEF EndedFinal
<1>7. NotifyFinal'
  BY <1>3 DEF Tidy, NotifyFinal, Appending
<1>8. QED
  BY <1>5, <1>6, <1>7 DEF Tidy

LEMMA IdleNotifies ==
    ASSUME IdleInv, SlotInv', Notify \/ \E o \in Ops : NotifyForced(o)
    PROVE  IdleInv'
<1>1. CASE Notify
  <2>1. busy # NoEvent /\ ~Appending
    BY <1>1 DEF Notify, NoEvent, Appending
  <2>2. cur # None => Tidy
    BY IdleFacts
  <2>3. /\ ends' \subseteq ends \cup busy.to
        /\ wsettled' \subseteq wsettled \cup busy.to
        /\ busy.e.type \notin TerminalTypes =>
             ends' \subseteq ends \cup wsettled /\ wsettled' = wsettled
        /\ forced' = forced /\ busy' = NoEvent
    BY <1>1 DEF Notify
  <2>4. cur # None => (ends \cup wsettled \cup forced)' \subseteq objs[First].finalized
    BY <2>1, <2>2, <2>3 DEF Tidy, NotifyFinal, EndedFinal
  <2>5. QED
    BY <1>1, <2>3, <2>4, IdleTold DEF Notify
<1>2. CASE \E o \in Ops : NotifyForced(o)
  <2>1. PICK o \in Ops : NotifyForced(o)
    BY <1>2
  <2>2. cur # None => Tidy
    BY IdleFacts
  <2>3. cur # None => (ends \cup wsettled \cup forced)' \subseteq objs[First].finalized
    BY <2>1, <2>2 DEF Tidy, EndedFinal, NotifyForced
  <2>4. QED
    BY <2>1, <2>3, IdleTold DEF NotifyForced
<1>3. QED
  BY <1>1, <1>2

\* The next event is dispatched.
LEMMA IdleReceived ==
    ASSUME IdleInv, NEW type, Receives(type)
    PROVE  /\ cur # None /\ cur = First /\ Tidy /\ busy = NoEvent
           /\ Head(queue) \in Chained /\ Head(queue).type = type
           /\ type \in TerminalTypes =>
                /\ Head(queue).turn \in Ops
                /\ Head(queue).turn \notin objs[First].finalized
           /\ UNCHANGED <<cur, slot, streams, pc, op, forced, provider>>
           /\ Chained' \subseteq Chained
<1>1. /\ cur # None /\ busy = NoEvent /\ queue # <<>> /\ Head(queue).type = type
      /\ ~Stale(objs[cur], Head(queue)) /\ queue' = Tail(queue)
      /\ UNCHANGED <<cur, slot, streams, pc, op, forced, provider>>
  BY DEF Receives
<1>2. cur = First /\ Tidy /\ TypeInv
  BY <1>1, IdleFacts
<1>3. Head(queue) \in Chained /\ Chained' \subseteq Chained
  BY <1>1, <1>2, ChainTail
<1>4. type \in TerminalTypes => Head(queue).turn \notin objs[First].finalized
  BY <1>1, <1>2 DEF Stale
<1>5. type \in TerminalTypes => Head(queue).turn \in Ops
  BY <1>1, <1>2, <1>3 DEF Tidy, EndsTold
<1>6. QED
  BY <1>1, <1>2, <1>3, <1>4, <1>5

\* The end of a turn that is not the foreground turn comes before it could be:
\* there is no other foreground turn, and nobody to be told.
LEMMA BackgroundFree ==
    ASSUME IdleInv, NEW type \in TerminalTypes, Receives(type), ~Foreground
    PROVE  objs[First].active = None /\ Head(queue).turn \notin objs[First].waiters
<1>1. PICK t : t = Head(queue).turn
  OBVIOUS
<1>2. /\ cur = First /\ Tidy /\ t \in Ops /\ t \notin objs[First].finalized
      /\ Head(queue) \in Chained /\ Head(queue).type \in TerminalTypes
      /\ objs[First].active # t
  BY <1>1, IdleReceived DEF Foreground
<1>3. sturn[t] = "ended" /\ Ending(t)
  BY <1>1, <1>2 DEF Tidy, EndsTold, Ending
<1>4. pc[t] \in {"starting", "streaming"} /\ op[t].obj = cur
  BY <1>2, <1>3 DEF Tidy, EndsAwaited, TurnsBegun
<1>5. pending = t
  BY <1>2, <1>4, SlotFacts, IdleFacts DEF RunOwnsSlot, Running
<1>6. ASSUME objs[First].active # None
      PROVE  FALSE
  <2>1. PICK s : s = objs[First].active
    OBVIOUS
  <2>2. s \in Ops /\ pc[s] = "streaming" /\ op[s].obj = cur
    BY <1>2, <1>6, <2>1, SlotFacts, IdleFacts DEF TurnForwarded
  <2>3. pending = s
    BY <2>2, SlotFacts, IdleFacts DEF RunOwnsSlot, Running
  <2>4. QED
    BY <1>2, <1>5, <2>1, <2>3
<1>7. t \notin objs[First].waiters
  BY <1>2 DEF Tidy, Forwarded, Forwards
<1>8. QED
  BY <1>1, <1>6, <1>7

\* The event has been handled, up to an await.
LEMMA IdleDispatch ==
    ASSUME IdleInv, SlotInv', NEW type \in TerminalTypes \cup {"started"}, Receives(type),
           NEW phase \in {"append", "notify"}, Dispatching(phase),
           phase = "append" => type \in TerminalTypes, IdleIsFree',
           objs'[First].waiters = objs[First].waiters,
           IF type \in TerminalTypes /\ phase = "notify" /\ Foreground
           THEN /\ objs'[First].active = None
                /\ objs'[First].finalized = objs[First].finalized \cup {Head(queue).turn}
           ELSE /\ objs'[First].active = objs[First].active
                /\ objs'[First].finalized = objs[First].finalized
    PROVE  IdleInv'
<1>1. /\ cur # None /\ cur = First /\ Tidy /\ busy = NoEvent
      /\ Head(queue) \in Chained /\ Head(queue).type = type
      /\ UNCHANGED <<cur, slot, streams, pc, op, forced, provider>>
      /\ Chained' \subseteq Chained
  BY IdleReceived
<1>2. PICK t, to : t = Head(queue).turn /\ to = Matching(objs[First], t)
  OBVIOUS
<1>3. busy' = [phase |-> phase, e |-> Head(queue), g |-> First, fg |-> Foreground, to |-> to]
  BY <1>1, <1>2 DEF Dispatching
<1>4. /\ busy'.to = to /\ busy'.g = First /\ busy'.e = Head(queue) /\ busy'.phase = phase
      /\ (busy'.fg <=> Foreground)
  BY <1>3
<1>5. to \subseteq {t} \cap objs[First].waiters
  BY <1>2 DEF Matching
<1>6. OneObject' /\ NoAuto'
  BY <1>1, IdleFacts DEF OneObject, NoAuto, provider
<1>7. sturn' = sturn /\ ends' = ends /\ wsettled' = wsettled
  BY <1>1 DEF provider, streams
<1>8. EndsTold'
  BY <1>1, <1>7 DEF Tidy, EndsTold
<1>9. TurnsBegun'
  BY <1>1, <1>7 DEF Tidy, TurnsBegun
<1>10. objs[First].finalized \subseteq objs'[First].finalized
  OBVIOUS
<1>11. EndsAwaited'
  <2>1. \A o \in Ops : Ending(o)' => Ending(o)
    BY <1>1, <1>7 DEF Ending
  <2>2. QED
    BY <1>1, <1>10, <2>1 DEF Tidy, EndsAwaited
<1>12. Foreground <=> objs[First].active = t
  BY <1>1, <1>2 DEF Foreground
<1>13. Forwarded'
  BY <1>1, <1>2, <1>12 DEF Tidy, Forwarded, Forwards
<1>14. EndedFinal'
  BY <1>1, <1>7, <1>10 DEF Tidy, EndedFinal
<1>15. NotifyFinal'
  <2>1. SUFFICES ASSUME type \in TerminalTypes
                 PROVE  IF phase = "append" /\ Foreground
                        THEN /\ to \subseteq objs'[First].finalized \cup {t}
                             /\ objs'[First].active = t
                        ELSE to \subseteq objs'[First].finalized
    BY <1>1, <1>2, <1>4 DEF NotifyFinal, Appending
  <2>2. CASE Foreground
    BY <1>2, <1>5, <1>12, <2>1, <2>2
  <2>3. CASE ~Foreground
    <3>1. t \notin objs[First].waiters
      BY <1>2, <2>1, <2>3, BackgroundFree
    <3>2. to = {}
      BY <1>5, <3>1
    <3>3. QED
      BY <2>3, <3>2
  <2>4. QED
    BY <2>2, <2>3
<1>16. QED
  BY <1>6, <1>8, <1>9, <1>11, <1>13, <1>14, <1>15 DEF IdleInv, Tidy

\* What the end of a terminal event's handling does to the object.
LEMMA TerminateFields ==
    ASSUME TypeInv, NEW g \in Objs, NEW a \in Agent, NEW fg, NEW turn, NEW emit,
           fg => turn \in Ops, Terminate(g, a, fg, turn, emit)
    PROVE  /\ objs'[g].waiters = a.waiters
           /\ fg => objs'[g].active = None /\ objs'[g].finalized = a.finalized \cup {turn}
           /\ ~fg => Kept(objs'[g], a)
<1>1. CASE fg
  <2>1. PICK f : f = Finalized(a, {turn})
    OBVIOUS
  <2>2. /\ f \in Agent /\ f.active = None /\ f.waiters = a.waiters
        /\ f.finalized = a.finalized \cup {turn}
    BY <1>1, <2>1, FinalizedFields
  <2>3. Kept(objs'[g], f)
    BY <1>1, <2>1, <2>2, StoreKept DEF Terminate
  <2>4. QED
    BY <1>1, <2>2, <2>3 DEF Kept
<1>2. CASE ~fg
  BY <1>2, StoreKept DEF Terminate, Kept
<1>3. QED
  BY <1>1, <1>2

\* The failure of a turn has been appended to the timeline.
LEMMA IdleFailureAppended ==
    ASSUME IdleInv, SlotInv', FailureAppended
    PROVE  IdleInv'
<1>1. /\ busy.phase = "append" /\ busy # NoEvent
      /\ UNCHANGED <<cur, slot, streams, pc, op, queue, forced, provider>>
  BY DEF FailureAppended, NoEvent
<1>2. OneObject' /\ NoAuto'
  BY <1>1, IdleFacts DEF OneObject, NoAuto, provider
<1>3. SUFFICES ASSUME cur # None
               PROVE  Tidy'
  BY <1>1, <1>2 DEF IdleInv
<1>4. Tidy /\ busy.g = First /\ busy.e.type \in TerminalTypes /\ busy \in Dispatch
  BY <1>1, <1>3, IdleFacts, SlotFacts DEF Tidy, NotifyFinal
<1>5. PICK b : b = [objs[First] EXCEPT !.perms = {}]
  OBVIOUS
<1>6. b \in Agent /\ Kept(b, objs[First])
  BY <1>5, IdleFacts DEF Agent, Kept
<1>7. Terminate(First, b, busy.fg, busy.e.turn, TRUE)
  BY <1>4, <1>5 DEF FailureAppended
<1>8. busy.fg => busy.e.turn \in Ops
  BY <1>1, SlotFacts, IdleFacts DEF ForegroundTyped
<1>9. /\ objs'[First].waiters = objs[First].waiters
      /\ busy.fg => /\ objs'[First].active = None
                    /\ objs'[First].finalized = objs[First].finalized \cup {busy.e.turn}
      /\ ~busy.fg => Kept(objs'[First], objs[First])
  <2>1. First \in Objs /\ TypeInv
    BY IdleFacts
  <2>2. /\ objs'[First].waiters = b.waiters
        /\ busy.fg => /\ objs'[First].active = None
                      /\ objs'[First].finalized = b.finalized \cup {busy.e.turn}
        /\ ~busy.fg => Kept(objs'[First], b)
    <3>1. CASE busy.fg
      <4>1. PICK turn : turn = busy.e.turn
        OBVIOUS
      <4>2. Terminate(First, b, TRUE, turn, TRUE)
        BY <1>7, <3>1, <4>1 DEF Terminate
      <4>3. turn \in Ops
        BY <1>8, <3>1, <4>1
      <4>4. /\ objs'[First].waiters = b.waiters
            /\ objs'[First].active = None
            /\ objs'[First].finalized = b.finalized \cup {turn}
        BY <1>6, <2>1, <4>2, <4>3, TerminateFields
      <4>5. QED
        BY <3>1, <4>1, <4>4
    <3>2. CASE ~busy.fg
      <4>1. Store(First, b, TRUE)
        BY <1>7, <3>2 DEF Terminate
      <4>2. Kept(objs'[First], b)
        BY <1>6, <2>1, <4>1, StoreKept
      <4>3. QED
        BY <3>2, <4>2 DEF Kept
    <3>3. QED
      BY <3>1, <3>2
  <2>3. QED
    BY <1>6, <2>2 DEF Kept
<1>10. /\ busy'.to = busy.to /\ busy'.g = busy.g /\ busy'.e = busy.e
       /\ busy'.phase = "notify"
  BY <1>1, <1>4 DEF FailureAppended, Dispatch
<1>11. sturn' = sturn /\ Chained' = Chained /\ ends' = ends /\ wsettled' = wsettled
  BY <1>1 DEF provider, streams, Chained
<1>12. objs[First].finalized \subseteq objs'[First].finalized
  BY <1>9 DEF Kept
<1>13. EndsTold' /\ TurnsBegun'
  BY <1>1, <1>4, <1>11 DEF Tidy, EndsTold, TurnsBegun
<1>14. EndsAwaited'
  BY <1>1, <1>4, <1>11, <1>12 DEF Tidy, EndsAwaited, Ending
<1>15. busy.fg => objs[First].active = busy.e.turn /\ busy.to \subseteq objs'[First].finalized
  BY <1>1, <1>4, <1>9 DEF Tidy, NotifyFinal, Appending
<1>16. Forwarded'
  BY <1>1, <1>4, <1>9, <1>15 DEF Tidy, Forwarded, Forwards, Kept
<1>17. EndedFinal' /\ IdleIsFree'
  BY <1>1, <1>4, <1>9, <1>11, <1>12 DEF Tidy, EndedFinal, IdleIsFree, Kept
<1>18. NotifyFinal'
  <2>1. busy.to \subseteq objs'[First].finalized
    BY <1>1, <1>4, <1>12, <1>15 DEF Tidy, NotifyFinal, Appending
  <2>2. QED
    BY <1>4, <1>10, <2>1 DEF NotifyFinal, Appending
<1>19. QED
  BY <1>13, <1>14, <1>16, <1>17, <1>18 DEF Tidy

\* The end of a turn that is handled without an await.
LEMMA IdleTerminates ==
    ASSUME IdleInv, SlotInv', NEW type \in TerminalTypes, Receives(type),
           Dispatching("notify"), NEW b \in Agent, NEW emit,
           Terminate(cur, b, Foreground, Head(queue).turn, emit),
           b.active = objs[First].active, b.waiters = objs[First].waiters,
           b.finalized = objs[First].finalized
    PROVE  IdleInv'
<1>1. cur = First /\ Head(queue).turn \in Ops
  BY IdleReceived
<1>2. /\ objs'[First].waiters = objs[First].waiters
      /\ Foreground =>
           /\ objs'[First].active = None
           /\ objs'[First].finalized = objs[First].finalized \cup {Head(queue).turn}
      /\ ~Foreground => Kept(objs'[First], b)
  BY <1>1, TerminateFields, IdleFacts
<1>3. ~Foreground => objs[First].active = None
  BY BackgroundFree
<1>4. IdleIsFree'
  BY <1>2, <1>3 DEF IdleIsFree, Kept
<1>5. QED
  BY <1>2, <1>4, IdleDispatch DEF Kept

\* The steps of the event chain.
LEMMA IdleChain ==
    ASSUME IdleInv, SlotInv', Chain
    PROVE  IdleInv'
<1> DEFINE a == objs[cur]
<1>1. CASE EventDropped
  <2>1. queue # <<>> /\ queue' = Tail(queue)
        /\ UNCHANGED <<cur, objs, prevStatus, slot, streams, pc, op, busy, forced, provider>>
    BY <1>1 DEF EventDropped
  <2>2. Chained' \subseteq Chained
    BY <2>1, ChainTail, IdleFacts
  <2>3. cur # None => Calm /\ EndsTold'
    BY <2>1, <2>2, CalmSame, IdleFacts DEF Tidy, EndsTold, provider
  <2>4. QED
    BY <2>1, <2>2, <2>3, IdleElsewhere, IdleFacts DEF Ending, NoAuto, provider
<1>2. CASE TurnStarted
  <2>1. Receives("started") /\ cur = First /\ cur # None /\ Tidy
    BY <1>2, IdleReceived DEF TurnStarted
  <2>2. PICK b : b = IF Foreground THEN a ELSE [a EXCEPT !.lifecycle = "running"]
    OBVIOUS
  <2>3. /\ b \in Agent /\ b.active = a.active /\ b.waiters = a.waiters
        /\ b.finalized = a.finalized /\ b.lifecycle \in {a.lifecycle, "running"}
    BY <2>1, <2>2, IdleFacts DEF Agent, Lifecycles
  <2>4. Store(First, b, ~Foreground)
    BY <1>2, <2>1, <2>2 DEF TurnStarted
  <2>5. Kept(objs'[First], b)
    BY <2>3, <2>4, StoreKept, IdleFacts
  <2>6. IdleIsFree'
    BY <2>1, <2>3, <2>5 DEF Tidy, IdleIsFree, Kept
  <2>7. "started" \notin TerminalTypes /\ Dispatching("notify")
    BY <1>2 DEF TerminalTypes, TurnStarted
  <2>8. QED
    BY <2>1, <2>3, <2>5, <2>6, <2>7, IdleDispatch DEF Kept
<1>3. CASE TurnCompleted
  <2> DEFINE drop == BackgroundEnds(a) /\ a.lifecycle # "idle"
  <2>1. Receives("completed") /\ cur = First /\ "completed" \in TerminalTypes
    BY <1>3, IdleReceived DEF TurnCompleted, TerminalTypes
  <2>2. PICK b : b = [a EXCEPT !.err = FALSE, !.lifecycle = IF drop THEN "idle" ELSE @]
    OBVIOUS
  <2>3. /\ b \in Agent /\ b.active = a.active /\ b.waiters = a.waiters
        /\ b.finalized = a.finalized
    BY <2>1, <2>2, IdleFacts DEF Agent, Lifecycles
  <2>4. Terminate(cur, b, Foreground, Head(queue).turn, drop) /\ Dispatching("notify")
    BY <1>3, <2>2 DEF TurnCompleted
  <2>5. QED
    BY <2>1, <2>3, <2>4, IdleTerminates
<1>4. CASE TurnCanceled
  <2>1. Receives("canceled") /\ cur = First /\ "canceled" \in TerminalTypes
    BY <1>4, IdleReceived DEF TurnCanceled, TerminalTypes
  <2>2. PICK b : b = [a EXCEPT !.err = FALSE, !.perms = {},
                               !.lifecycle = IF BackgroundEnds(a) THEN "idle" ELSE @]
    OBVIOUS
  <2>3. /\ b \in Agent /\ b.active = a.active /\ b.waiters = a.waiters
        /\ b.finalized = a.finalized
    BY <2>1, <2>2, IdleFacts DEF Agent, Lifecycles
  <2>4. Terminate(cur, b, Foreground, Head(queue).turn, TRUE) /\ Dispatching("notify")
    BY <1>4, <2>2 DEF TurnCanceled
  <2>5. QED
    BY <2>1, <2>3, <2>4, IdleTerminates
<1>5. CASE TurnFailed
  <2>1. /\ Receives("failed") /\ cur = First /\ cur # None /\ Tidy
        /\ "failed" \in TerminalTypes
    BY <1>5, IdleReceived DEF TurnFailed, TerminalTypes
  <2>2. PICK b : b = [a EXCEPT !.err = TRUE,
                               !.lifecycle = IF Foreground THEN @ ELSE "error"]
    OBVIOUS
  <2>3. /\ b \in Agent /\ b.active = a.active /\ b.waiters = a.waiters
        /\ b.finalized = a.finalized /\ (Foreground => b.lifecycle = a.lifecycle)
    BY <2>1, <2>2, IdleFacts DEF Agent, Lifecycles
  <2>4. Store(First, b, FALSE) /\ Dispatching("append")
    BY <1>5, <2>1, <2>2 DEF TurnFailed
  <2>5. Kept(objs'[First], b)
    BY <2>3, <2>4, StoreKept, IdleFacts
  <2>6. ~Foreground => objs[First].active = None
    BY <2>1, BackgroundFree
  <2>7. IdleIsFree'
    BY <2>1, <2>3, <2>5, <2>6 DEF Tidy, IdleIsFree, Kept
  <2>8. QED
    BY <2>1, <2>3, <2>4, <2>5, <2>7, IdleDispatch DEF Kept
<1>6. CASE PermissionRequested \/ PermissionResolved
  <2>1. PICK type : Receives(type) /\ busy' = busy
    BY <1>6 DEF PermissionRequested, PermissionResolved
  <2>2. /\ cur = First /\ cur # None /\ Tidy /\ Chained' \subseteq Chained
        /\ UNCHANGED <<cur, slot, streams, pc, op, forced, provider>>
    BY <2>1, IdleReceived
  <2>3. PICK b, emit : /\ Store(First, b, emit)
                       /\ b \in Agent /\ b.active = a.active /\ b.waiters = a.waiters
                       /\ b.finalized = a.finalized /\ b.lifecycle = a.lifecycle
    <3> DEFINE p == Head(queue).turn
               held == p \in a.inFlight
               c == [a EXCEPT !.perms = @ \cup {p}]
               d == [a EXCEPT !.perms = @ \ {p}, !.buffered = IF held THEN @ \cup {p} ELSE @]
    <3>1. Store(First, c, TRUE) \/ Store(First, d, ~held)
      BY <1>6, <2>2 DEF PermissionRequested, PermissionResolved
    <3>2. a \in Agent
      BY <2>2, IdleFacts
    <3>3. p \in Perms
      <4>1. Head(queue).type \in {"permission_requested", "permission_resolved"}
        BY <1>6 DEF PermissionRequested, PermissionResolved, Receives
      <4>2. Head(queue) \in Event
        BY <2>1, Received, IdleFacts
      <4>3. QED
        BY <4>1, <4>2, EventTag
    <3>4. /\ c \in Agent /\ c.active = a.active /\ c.waiters = a.waiters
          /\ c.finalized = a.finalized /\ c.lifecycle = a.lifecycle
      BY <3>2, <3>3 DEF Agent
    <3>5. /\ d \in Agent /\ d.active = a.active /\ d.waiters = a.waiters
          /\ d.finalized = a.finalized /\ d.lifecycle = a.lifecycle
      BY <3>2, <3>3 DEF Agent
    <3> HIDE DEF c, d
    <3>6. QED
      BY <3>1, <3>4, <3>5
  <2>4. Calm
    BY <2>2, <2>3, CalmStore, IdleFacts DEF Tidy, IdleIsFree
  <2>5. EndsTold'
    BY <2>2 DEF Tidy, EndsTold, provider
  <2>6. QED
    BY <2>1, <2>2, <2>4, <2>5, IdleElsewhere, IdleFacts DEF Ending, NoAuto, provider
<1>7. QED
  BY <1>1, <1>2, <1>3, <1>4, <1>5, <1>6, IdleFailureAppended, IdleNotifies DEF Chain

-----------------------------------------------------------------------------
(* The provider and the rest *)

\* An event of the provider joins the chain, or nobody is subscribed to it.
LEMMA IdleEnqueue ==
    ASSUME IdleInv, NEW g, NEW type, NEW turn, Enqueue(g, type, turn)
    PROVE  /\ UNCHANGED <<cur, objs, prevStatus, slot, streams, pc, op, busy, forced>>
           /\ Chained' \subseteq Chained \cup {[type |-> type, turn |-> turn]}
           /\ cur # None => Calm
<1>1. UNCHANGED <<cur, objs, prevStatus, slot, streams, pc, op, busy, forced>>
  BY DEF Enqueue
<1>2. queue' = queue \/ queue' = Append(queue, [type |-> type, turn |-> turn])
  BY DEF Enqueue
<1>3. queue' = queue => Chained' = Chained
  BY DEF Chained
<1>4. QED
  BY <1>1, <1>2, <1>3, ChainAppend, CalmSame, IdleFacts

LEMMA IdleSession ==
    ASSUME IdleInv, SlotInv', Session
    PROVE  IdleInv'
<1>1. TypeOK /\ NoAuto /\ (cur # None => Tidy)
  BY IdleFacts
<1>2. CASE SessionAutoStarts \/ \E g \in Objs, out \in TerminalTypes : SessionAutoEnds(g, out)
  BY <1>1, <1>2 DEF SessionAutoStarts, SessionAutoEnds, NoAuto
<1>3. ASSUME NEW o \in Ops, SessionAnnounces(o)
      PROVE  IdleInv'
  <2>1. PICK e : e = [type |-> "started", turn |-> o]
    OBVIOUS
  <2>2. e.type \notin TerminalTypes
    BY <2>1 DEF TerminalTypes
  <2>3. /\ sturn[o] = "open" /\ sturn'[o] = "announced"
        /\ \A p \in Ops \ {o} : sturn'[p] = sturn[p]
        /\ UNCHANGED <<sauto, autos>>
    BY <1>1, <1>3 DEF SessionAnnounces, TypeOK
  <2>4. /\ UNCHANGED <<cur, pc, op, streams, busy, forced>>
        /\ Chained' \subseteq Chained \cup {e} /\ (cur # None => Calm)
    BY <1>3, <2>1, IdleEnqueue DEF SessionAnnounces
  <2>5. \A p \in Ops : Ending(p)' => Ending(p)
    BY <2>2, <2>3, <2>4 DEF Ending
  <2>6. cur # None => EndsTold'
    BY <1>1, <2>2, <2>3, <2>4 DEF Tidy, EndsTold
  <2>7. NoAuto'
    BY <1>1, <2>3 DEF NoAuto
  <2>8. QED
    BY <2>3, <2>4, <2>5, <2>6, <2>7, IdleElsewhere
<1>4. ASSUME NEW o \in Ops, NEW outcome \in TerminalTypes, SessionEnds(o, outcome)
      PROVE  IdleInv'
  <2>1. PICK e : e = [type |-> outcome, turn |-> o]
    OBVIOUS
  <2>2. e.turn = o
    BY <2>1
  <2>3. /\ sturn[o] \in {"open", "announced"} /\ sturn'[o] = "ended"
        /\ \A p \in Ops \ {o} : sturn'[p] = sturn[p]
        /\ UNCHANGED <<sauto, autos>>
    BY <1>1, <1>4 DEF SessionEnds, TypeOK
  <2>4. /\ UNCHANGED <<cur, pc, op, streams, busy, forced>>
        /\ Chained' \subseteq Chained \cup {e} /\ (cur # None => Calm)
    BY <1>4, <2>1, IdleEnqueue DEF SessionEnds
  <2>5. \A p \in Ops : Ending(p)' => Ending(p)
    BY <2>2, <2>3, <2>4 DEF Ending
  <2>6. cur # None => EndsTold'
    BY <1>1, <2>2, <2>3, <2>4 DEF Tidy, EndsTold
  <2>7. NoAuto'
    BY <1>1, <2>3 DEF NoAuto
  <2>8. QED
    BY <2>3, <2>4, <2>5, <2>6, <2>7, IdleElsewhere
<1>5. CASE \/ \E o \in Ops, p \in Perms : SessionAsks(o, p)
           \/ \E g \in Objs, p \in Perms : SessionResolves(g, p)
  <2>1. PICK g, type, p : /\ Enqueue(g, type, p) /\ UNCHANGED <<sturn, sauto, autos>>
                          /\ type \notin TerminalTypes
    BY <1>5 DEF SessionAsks, SessionResolves, TerminalTypes
  <2>2. PICK e : e = [type |-> type, turn |-> p]
    OBVIOUS
  <2>3. e.type \notin TerminalTypes
    BY <2>1, <2>2
  <2>4. /\ UNCHANGED <<cur, pc, op, streams, busy, forced>>
        /\ Chained' \subseteq Chained \cup {e} /\ (cur # None => Calm)
    BY <2>1, <2>2, IdleEnqueue
  <2>5. \A o \in Ops : Ending(o)' => Ending(o)
    BY <2>1, <2>3, <2>4 DEF Ending
  <2>6. cur # None => EndsTold'
    BY <1>1, <2>1, <2>3, <2>4 DEF Tidy, EndsTold
  <2>7. NoAuto'
    BY <1>1, <2>1 DEF NoAuto
  <2>8. QED
    BY <2>1, <2>4, <2>5, <2>6, <2>7, IdleElsewhere
<1>6. CASE \E g \in Objs, p \in Perms : SessionDrops(g, p)
  <2>1. UNCHANGED <<cur, objs, pc, op, streams, queue, busy, forced, sturn, sauto, autos>>
    BY <1>6 DEF SessionDrops, events
  <2>2. cur # None => Calm
    BY <2>1, CalmSame
  <2>3. Chained' = Chained
    BY <2>1 DEF Chained
  <2>4. \A o \in Ops : Ending(o)' => Ending(o)
    BY <2>1, <2>3 DEF Ending
  <2>5. cur # None => EndsTold'
    BY <1>1, <2>1, <2>3 DEF Tidy, EndsTold
  <2>6. NoAuto'
    BY <1>1, <2>1 DEF NoAuto
  <2>7. QED
    BY <2>1, <2>2, <2>4, <2>5, <2>6, IdleElsewhere
<1>7. QED
  BY <1>2, <1>3, <1>4, <1>5, <1>6 DEF Session

\* Emissions, and the mark that is cleared.
LEMMA IdleEmission ==
    ASSUME IdleInv, SlotInv', StateEmitted \/ ClearAttention
    PROVE  IdleInv'
<1>1. /\ cur # None /\ UNCHANGED <<cur, slot, streams, pc, op, events, provider>>
  BY DEF StateEmitted, ClearAttention
<1>2. cur = First /\ Tidy /\ NoAuto /\ objs[First] \in Agent /\ First \in Objs
  BY <1>1, IdleFacts
<1>3. PICK b, emit : /\ Store(First, b, emit) /\ b \in Agent
                     /\ b.active = objs[First].active /\ b.waiters = objs[First].waiters
                     /\ b.finalized = objs[First].finalized
                     /\ b.lifecycle = objs[First].lifecycle
  <2>1. PICK c : c = [objs[First] EXCEPT !.attention = "none"]
    OBVIOUS
  <2>2. /\ c \in Agent /\ c.active = objs[First].active /\ c.waiters = objs[First].waiters
        /\ c.finalized = objs[First].finalized /\ c.lifecycle = objs[First].lifecycle
    BY <1>2, <2>1 DEF Agent, Attentions
  <2>3. Store(First, objs[First], TRUE) \/ Store(First, c, FALSE)
    BY <1>2, <2>1 DEF StateEmitted, ClearAttention
  <2>4. QED
    BY <1>2, <2>2, <2>3
<1>4. Calm
  BY <1>1, <1>2, <1>3, CalmStore DEF Tidy, IdleIsFree
<1>5. sturn' = sturn /\ Chained' = Chained /\ NoAuto' /\ UNCHANGED <<busy, forced>>
  BY <1>1, <1>2 DEF provider, events, Chained, NoAuto
<1>6. EndsTold' /\ \A o \in Ops : Ending(o)' => Ending(o)
  BY <1>2, <1>5 DEF Tidy, EndsTold, Ending
<1>7. QED
  BY <1>1, <1>4, <1>5, <1>6, IdleElsewhere

\* Every step keeps the invariant.
LEMMA IdleNext ==
    ASSUME IdleInv, Kinds \cap OddKinds = {}, [Next]_vars
    PROVE  IdleInv'
<1>1. SlotInv'
  BY SlotNext, IdleFacts DEF OddKinds
<1>2. ASSUME NEW o \in Ops, Step(o) \/ Answer(o)
      PROVE  IdleInv'
  <2>1. op[o].kind \notin OddKinds /\ pc[o] \notin OddLabels
    BY IdleFacts DEF OneObject
  <2>2. ~(\/ RewindResumes(o) \/ ReloadResumes(o) \/ OldClosed(o) \/ RegisterIdle(o)
          \/ RegisterSubscribe(o) \/ Rewound(o) \/ Swap(o) \/ Register(o))
    BY <2>1 DEF OddKinds, OddLabels, RewindResumes, ReloadResumes, OldClosed,
                RegisterIdle, RegisterSubscribe, Rewound, Swap, Register
  <2>3. QED
    BY <1>1, <1>2, <2>2, IdleStartResolves, IdleStartThrows, IdleStartFailed, IdleDrain,
       IdleQuietSteps, IdleReplaceResumes, IdleAfterWait, IdleNotifies
       DEF Step, Answer
<1>3. CASE UNCHANGED vars
  <2>1. /\ UNCHANGED <<cur, pc, op, streams, busy, forced>> /\ objs' = objs
        /\ sturn' = sturn /\ Chained' = Chained /\ UNCHANGED <<autos, sauto>>
    BY <1>3 DEF vars, events, provider, Chained
  <2>2. cur # None => Calm /\ EndsTold'
    BY <2>1, CalmSame, IdleFacts DEF Tidy, EndsTold
  <2>3. QED
    BY <1>1, <2>1, <2>2, IdleElsewhere, IdleFacts DEF Ending, NoAuto
<1>4. QED
  BY <1>1, <1>2, <1>3, IdleBegin, IdleChain, IdleSession, IdleEmission DEF Next

LEMMA IdleInit ==
    ASSUME Init, MaxAuto = 0
    PROVE  IdleInv
<1>1. SlotInv
  BY SlotInit
<1>2. First # None /\ First \in Objs
  BY NamesAssumption DEF Objs
<1>3. /\ cur = First /\ autos = 0 /\ ends = {} /\ wsettled = {} /\ forced = {}
      /\ busy = NoEvent /\ queue = <<>>
      /\ \A g \in Objs : ~sauto[g]
      /\ \A o \in Ops : /\ pc[o] = "idle" /\ op[o].obj = None /\ op[o].kind = "none"
                        /\ sturn[o] = "none"
  BY DEF Init
<1>4. objs[First].waiters = {} /\ objs[First].active = None
  BY <1>2 DEF Init, NewAgent
<1>5. Chained = {}
  BY <1>3 DEF Chained
<1>6. OneObject /\ NoAuto
  BY <1>3 DEF OneObject, NoAuto, OddKinds, OddLabels
<1>7. EndsTold /\ TurnsBegun /\ EndsAwaited
  BY <1>3, <1>5 DEF EndsTold, TurnsBegun, EndsAwaited, Ending
<1>8. Forwarded /\ EndedFinal /\ NotifyFinal /\ IdleIsFree
  BY <1>3, <1>4 DEF Forwarded, Forwards, EndedFinal, NotifyFinal, IdleIsFree
<1>9. QED
  BY <1>1, <1>6, <1>7, <1>8 DEF IdleInv, Tidy

\* The order of what happens to a turn: it is begun, ends once, is finalized
\* before anybody is told of its end, and its end finds no other turn in the
\* foreground; for every number of calls, permission requests and quirks.
THEOREM IdleInvariant ==
    ASSUME Kinds \cap OddKinds = {}, MaxAuto = 0
    PROVE  Spec => []IdleInv
<1>1. Init => IdleInv
  BY IdleInit
<1>2. IdleInv /\ [Next]_vars => IdleInv'
  BY IdleNext
<1>3. QED
  BY <1>1, <1>2, PTL DEF Spec

\* An agent that does not show as running has no foreground turn, whatever
\* prompts, replacements, cancellations and late ends of turns that were
\* force-canceled come together.
THEOREM IdlesAreFree ==
    ASSUME Kinds \cap OddKinds = {}, MaxAuto = 0
    PROVE  Spec => []IdleMeansFree
<1>1. IdleInv => IdleMeansFree
  BY IdleFacts DEF Tidy, IdleIsFree, IdleMeansFree
<1>2. QED
  BY <1>1, IdleInvariant, PTL

-----------------------------------------------------------------------------
(* The "finished" mark: what is added to the invariant *)

\* A provider that ends no turn before startTurn has returned.
EndsLater == \A o \in Ops : sturn[o] = "ended" => pc[o] # "starting"

\* Whoever was last shown the agent as running is shown its way to idle.
StatusTrue == prevStatus = "running" => objs[First].lifecycle # "idle"

\* The error of a startTurn that was rejected stays until it is reported.
FailureShows == \A o \in Ops : pc[o] = "failing" => objs[First].err

MarkInv == IdleInv /\ EndsLater /\ (cur # None => StatusTrue /\ FailureShows)

Marks == EndsLater' /\ (cur' # None => StatusTrue' /\ FailureShows')

\* What FinishedIsTrue says of a step.
MarkStep ==
    \A g \in Objs :
        g = cur /\ objs[g].attention # "finished" /\ objs'[g].attention = "finished" =>
            /\ objs'[g].active = None
            /\ pending' # None => pc'[pending'] \notin {"starting", "rewinding"}

\* The agent is not marked, and its error is not forgotten.
Undisturbed ==
    /\ objs'[First].attention = "finished" => objs[First].attention = "finished"
    /\ objs[First].err => objs'[First].err
    /\ StatusTrue'

CallsKept ==
    \A o \in Ops :
        /\ pc'[o] = "failing" => pc[o] = "failing"
        /\ pc'[o] = "starting" /\ sturn'[o] = "ended" =>
             pc[o] = "starting" /\ sturn[o] = "ended"

LEMMA MarkFacts ==
    ASSUME MarkInv
    PROVE  /\ IdleInv /\ EndsLater /\ (cur # None => StatusTrue /\ FailureShows)
           /\ objs \in [Objs -> Agent] /\ TypeInv
           /\ objs[First].attention \in Attentions
<1>1. IdleInv
  BY DEF MarkInv
<1>2. objs \in [Objs -> Agent] /\ TypeInv /\ objs[First] \in Agent
  BY <1>1, IdleFacts DEF TypeOK
<1>3. QED
  BY <1>1, <1>2 DEF MarkInv, Agent

LEMMA MarkQuiet ==
    ASSUME MarkInv, cur' \in {cur, None}, CallsKept, cur # None => Undisturbed
    PROVE  Marks /\ MarkStep
<1>1. IdleInv /\ EndsLater /\ (cur # None => StatusTrue /\ FailureShows /\ cur = First)
  BY MarkFacts, IdleFacts
<1>2. EndsLater'
  BY <1>1 DEF EndsLater, CallsKept
<1>3. cur' # None => StatusTrue' /\ FailureShows'
  BY <1>1 DEF FailureShows, CallsKept, Undisturbed
<1>4. MarkStep
  BY <1>1, IdleFacts DEF MarkStep, Undisturbed
<1>5. QED
  BY <1>2, <1>3, <1>4 DEF Marks

\* What a store shows.
LEMMA StoreMark ==
    ASSUME TypeInv, NEW g \in Objs, NEW a \in Agent, NEW emit, Store(g, a, emit)
    PROVE  /\ prevStatus' = IF emit THEN a.lifecycle ELSE prevStatus
           /\ objs'[g].attention = "finished" =>
                \/ a.attention = "finished"
                \/ emit /\ prevStatus = "running" /\ a.lifecycle = "idle"
<1>1. objs \in [Objs -> Agent]
  BY DEF TypeInv, TypeOK
<1>2. prevStatus' = IF emit THEN a.lifecycle ELSE prevStatus
  BY DEF Store
<1>3. PICK b : b = IF emit THEN Attend(a, prevStatus) ELSE a
  OBVIOUS
<1>4. objs'[g] = b
  BY <1>1, <1>3 DEF Store
<1>5. CASE ~emit
  BY <1>2, <1>3, <1>4, <1>5
<1>6. CASE emit
  <2>1. b = Attend(a, prevStatus)
    BY <1>3, <1>6
  <2>2. b.attention = "finished" =>
          a.attention = "finished" \/ (prevStatus = "running" /\ a.lifecycle = "idle")
    BY <2>1 DEF Attend, Agent
  <2>3. QED
    BY <1>2, <1>4, <1>6, <2>2
<1>7. QED
  BY <1>5, <1>6

\* b shows what a does, or less.
Shows(b, a) ==
    /\ b.attention \in {a.attention, "none"}
    /\ b.lifecycle = a.lifecycle \/ b.lifecycle # "idle"
    /\ a.err => b.err

LEMMA MarkStore ==
    ASSUME MarkInv, cur # None, NEW a \in Agent, NEW emit, Store(First, a, emit),
           Shows(a, objs[First])
    PROVE  Undisturbed
<1>1. StatusTrue /\ First \in Objs /\ TypeInv
  BY MarkFacts, IdleFacts
<1>2. Kept(objs'[First], a)
  BY <1>1, StoreKept
<1>3. /\ prevStatus' = IF emit THEN a.lifecycle ELSE prevStatus
      /\ objs'[First].attention = "finished" =>
           \/ a.attention = "finished"
           \/ emit /\ prevStatus = "running" /\ a.lifecycle = "idle"
  BY <1>1, StoreMark
<1>4. objs'[First].attention = "finished" => objs[First].attention = "finished"
  BY <1>1, <1>3 DEF Shows, StatusTrue
<1>5. objs[First].err => objs'[First].err
  BY <1>2 DEF Kept, Shows
<1>6. StatusTrue'
  BY <1>1, <1>2, <1>3 DEF Kept, Shows, StatusTrue
<1>7. QED
  BY <1>4, <1>5, <1>6 DEF Undisturbed

\* The same when the object is assigned without emitState.
LEMMA MarkAssign ==
    ASSUME MarkInv, cur # None, NEW a, objs' = [objs EXCEPT ![First] = a],
           prevStatus' = prevStatus, Shows(a, objs[First])
    PROVE  Undisturbed
<1>1. StatusTrue /\ objs'[First] = a
  BY MarkFacts, IdleFacts
<1>2. StatusTrue'
  BY <1>1 DEF StatusTrue, Shows
<1>3. QED
  BY <1>1, <1>2 DEF Undisturbed, Shows

LEMMA MarkSame ==
    ASSUME MarkInv, cur # None, objs' = objs, prevStatus' = prevStatus
    PROVE  Undisturbed
BY MarkFacts DEF Undisturbed, StatusTrue

\* A call moves on.
LEMMA MarkGoes ==
    ASSUME MarkInv, NEW o \in Ops, NEW l, Goto(o, l), l \notin {"starting", "failing"},
           cur' \in {cur, None}, sturn' = sturn, cur # None => Undisturbed
    PROVE  Marks /\ MarkStep
<1>1. TypeOK
  BY MarkFacts, IdleFacts
<1>2. CallsKept
  BY <1>1 DEF CallsKept, Goto, TypeOK
<1>3. QED
  BY <1>2, MarkQuiet

-----------------------------------------------------------------------------
(* The "finished" mark: action by action *)

\* A prompt takes the slot and calls startTurn: no other is starting.
LEMMA MarkStreamAgent ==
    ASSUME MarkInv, NEW o \in Ops, NEW k, pc[o] \in {"idle", "resume"}, StreamAgent(o, k)
    PROVE  Marks /\ MarkStep
<1>1. /\ cur' = cur /\ cur = First /\ cur # None /\ pending = None
      /\ prevStatus' = prevStatus /\ pc' = [pc EXCEPT ![o] = "starting"]
  BY MarkFacts, IdleFacts DEF StreamAgent, SlotFree
<1>2. TypeOK /\ IdleInv /\ Tidy /\ EndsLater /\ StatusTrue
  BY <1>1, MarkFacts, IdleFacts
<1>3. \A q \in Ops : pc[q] # "failing"
  <2>1. SUFFICES ASSUME NEW q \in Ops, pc[q] = "failing"
                 PROVE  FALSE
    OBVIOUS
  <2>2. op[q].obj = cur
    BY <1>1, <1>2, <2>1, CapturedFirst
  <2>3. pending = q
    BY <1>2, <2>1, <2>2, IdleFacts, SlotFacts DEF RunOwnsSlot, Running
  <2>4. QED
    BY <1>1, <1>2, <2>3, IdleFacts
<1>4. sturn[o] = "none"
  BY <1>2 DEF Tidy, TurnsBegun
<1>5. \A q \in Ops : sturn'[q] = "ended" => sturn[q] = "ended"
  BY <1>2 DEF StreamAgent, SessionStartTurn, TypeOK
<1>6. sturn'[o] # "ended"
  BY <1>2, <1>4 DEF StreamAgent, SessionStartTurn, TypeOK
<1>7. EndsLater'
  BY <1>1, <1>2, <1>5, <1>6 DEF EndsLater, TypeOK
<1>8. objs'[First].lifecycle = objs[First].lifecycle
      /\ objs'[First].attention = objs[First].attention
  <2>1. PICK b : b = [objs[First] EXCEPT !.replacing = FALSE, !.err = FALSE]
    OBVIOUS
  <2>2. objs' = [objs EXCEPT ![First] = b]
    BY <1>1, <1>2, <2>1, IdleFacts DEF StreamAgent, TypeOK
  <2>3. objs'[First] = b
    BY <1>2, <2>2, IdleFacts DEF TypeOK
  <2>4. QED
    BY <1>2, <2>1, <2>3, IdleFacts DEF Agent
<1>9. StatusTrue'
  BY <1>1, <1>2, <1>8 DEF StatusTrue
<1>10. FailureShows'
  BY <1>1, <1>2, <1>3 DEF FailureShows, TypeOK
<1>11. MarkStep
  BY <1>1, <1>8 DEF MarkStep
<1>12. QED
  BY <1>7, <1>9, <1>10, <1>11 DEF Marks

\* What a call does first.
LEMMA MarkBegin ==
    ASSUME MarkInv, Kinds \cap OddKinds = {}, NEW o \in Ops, Begin(o)
    PROVE  Marks /\ MarkStep
<1>1. TypeOK /\ IdleInv /\ First \in Objs /\ (cur # None => cur = First)
      /\ objs[First] \in Agent
  BY MarkFacts, IdleFacts
<1>2. CASE Run(o) \/ (Replace(o) /\ StreamAgent(o, "run"))
  <2>1. StreamAgent(o, "run") /\ pc[o] = "idle"
    BY <1>2 DEF Run, Replace
  <2>2. QED
    BY <2>1, MarkStreamAgent
<1>3. CASE Cancel(o)
  <2>1. cur # None /\ Goto(o, "interrupting") /\ UNCHANGED <<cur, sturn, objs, prevStatus>>
    BY <1>3 DEF Cancel, BeginCancel, provider
  <2>2. QED
    BY <2>1, MarkSame, MarkGoes
<1>4. CASE BeginCancel(o, "replace") /\ Replace(o)
           /\ Store(cur, [objs[cur] EXCEPT !.replacing = TRUE, !.lifecycle = "running"], TRUE)
  <2>1. cur # None /\ cur = First /\ Goto(o, "interrupting") /\ UNCHANGED <<cur, sturn>>
    BY <1>1, <1>4 DEF Replace, BeginCancel, provider
  <2>2. PICK a : a = [objs[First] EXCEPT !.replacing = TRUE, !.lifecycle = "running"]
    OBVIOUS
  <2>3. a \in Agent /\ Shows(a, objs[First])
    BY <1>1, <2>2 DEF Agent, Lifecycles, Shows
  <2>4. Store(First, a, TRUE)
    BY <1>4, <2>1, <2>2
  <2>5. Undisturbed
    BY <2>1, <2>3, <2>4, MarkStore
  <2>6. QED
    BY <2>1, <2>5, MarkGoes
<1>5. CASE Close(o)
  <2>1. /\ cur # None /\ cur' = None /\ prevStatus' = "none" /\ Goto(o, "closing")
        /\ sturn' = sturn /\ cur = First
    BY <1>1, <1>5 DEF Close, provider
  <2>2. PICK a : a = [objs[First] EXCEPT !.subscribed = FALSE, !.waiters = {}]
    OBVIOUS
  <2>3. a.attention = objs[First].attention /\ a.err = objs[First].err
    BY <1>1, <2>2 DEF Agent
  <2>4. objs' = [objs EXCEPT ![First] = a]
    BY <1>1, <1>5, <2>1, <2>2 DEF Close, TypeOK
  <2>5. objs'[First] = a
    BY <1>1, <2>4 DEF TypeOK
  <2>6. Undisturbed
    BY <2>1, <2>3, <2>5 DEF Undisturbed, StatusTrue
  <2>7. QED
    BY <2>1, <2>6, MarkGoes
<1>6. CASE \E p \in Perms : Respond(o, p)
  <2>1. PICK p \in Perms : Respond(o, p)
    BY <1>6
  <2>2. cur # None /\ cur = First /\ Goto(o, "responding") /\ UNCHANGED <<cur, sturn, prevStatus>>
    BY <1>1, <2>1 DEF Respond, provider
  <2>3. PICK a : a = [objs[First] EXCEPT !.inFlight = @ \cup {p}]
    OBVIOUS
  <2>4. Shows(a, objs[First])
    BY <1>1, <2>3 DEF Agent, Shows
  <2>5. objs' = [objs EXCEPT ![First] = a]
    BY <1>1, <2>1, <2>2, <2>3 DEF Respond, TypeOK
  <2>6. QED
    BY <2>2, <2>4, <2>5, MarkAssign, MarkGoes
<1>7. ~(Rewind(o) \/ Reload(o) \/ Open(o))
  BY DEF Rewind, Reload, Open, OddKinds
<1>8. QED
  BY <1>2, <1>3, <1>4, <1>5, <1>6, <1>7 DEF Begin, Replace

\* The steps that only emit, refresh or move on.
LEMMA MarkQuietSteps ==
    ASSUME MarkInv, NEW o \in Ops,
           \/ Refresh(o) \/ Interrupted(o) \/ StaleSettled(o)
           \/ Closed(o) \/ Responded(o) \/ Refreshed(o) \/ Persisted(o)
    PROVE  Marks /\ MarkStep
<1> DEFINE p == op[o].perm
           a == objs[First]
<1>1. a \in Agent /\ First \in Objs /\ TypeOK /\ IdleInv
  BY MarkFacts, IdleFacts
<1>2. pc[o] \notin {"idle", "closing", "registering", "done"} => op[o].obj = First
  BY <1>1, CapturedFirst
<1>3. CASE Interrupted(o)
  BY <1>3, MarkSame, MarkGoes DEF Interrupted, provider
<1>4. CASE Closed(o)
  <2>1. /\ Goto(o, "done") /\ UNCHANGED <<cur, sturn>> /\ objs' = objs
        /\ prevStatus' = "closed"
    BY <1>4 DEF Closed, provider
  <2>2. Undisturbed
    BY <2>1 DEF Undisturbed, StatusTrue
  <2>3. QED
    BY <2>1, <2>2, MarkGoes
<1>5. CASE Refresh(o)
  <2>1. PICK changed \in BOOLEAN : Store(First, a, changed)
    BY <1>2, <1>5 DEF Refresh
  <2>2. Goto(o, "done") /\ UNCHANGED <<cur, sturn>>
    BY <1>5 DEF Refresh, provider
  <2>3. Shows(a, a)
    BY DEF Shows
  <2>4. QED
    BY <1>1, <2>1, <2>2, <2>3, MarkStore, MarkGoes
<1>6. CASE StaleSettled(o)
  <2>1. PICK b : b = Cleared(a)
    OBVIOUS
  <2>2. b \in Agent /\ Shows(b, a)
    BY <1>1, <2>1 DEF Cleared, Agent, Shows
  <2>3. PICK emit : Store(First, b, emit)
    BY <1>2, <1>6, <2>1 DEF StaleSettled
  <2>4. PICK l : Goto(o, l) /\ l \in {"done", "resume"} /\ UNCHANGED <<cur, sturn>>
    BY <1>6 DEF StaleSettled, AfterCancel, provider
  <2>5. QED
    BY <2>2, <2>3, <2>4, MarkStore, MarkGoes
<1>7. CASE Responded(o) \/ Refreshed(o)
  <2>1. op[o].obj = First
    BY <1>2, <1>7 DEF Responded, Refreshed
  <2>2. \/ objs' = [objs EXCEPT ![First] = [a EXCEPT !.perms = @ \ {p}]]
        \/ objs' = [objs EXCEPT ![First] = [a EXCEPT !.inFlight = @ \ {p}, !.buffered = @ \ {p}]]
        \/ objs' = [objs EXCEPT ![First] = [a EXCEPT !.perms = sperms[First]]]
    BY <1>1, <1>7, <2>1 DEF Responded, Refreshed, TypeOK
  <2>3. PICK b : objs' = [objs EXCEPT ![First] = b] /\ Shows(b, a)
    BY <1>1, <2>2 DEF Agent, Shows
  <2>4. PICK l : /\ Goto(o, l) /\ l \in {"refreshing", "persisting", "done"}
                 /\ UNCHANGED <<cur, sturn, prevStatus>>
    BY <1>7 DEF Responded, Refreshed, provider
  <2>5. QED
    BY <2>3, <2>4, MarkAssign, MarkGoes
<1>8. CASE Persisted(o)
  <2>1. PICK b : b = [a EXCEPT !.inFlight = @ \ {p}, !.buffered = @ \ {p}]
    OBVIOUS
  <2>2. b \in Agent /\ Shows(b, a)
    BY <1>1, <2>1 DEF Agent, Shows
  <2>3. Store(First, b, TRUE)
    BY <1>2, <1>8, <2>1 DEF Persisted
  <2>4. Goto(o, "done") /\ UNCHANGED <<cur, sturn>>
    BY <1>8 DEF Persisted, provider
  <2>5. QED
    BY <2>2, <2>3, <2>4, MarkStore, MarkGoes
<1>9. QED
  BY <1>3, <1>4, <1>5, <1>6, <1>7, <1>8

\* replaceAgentRun goes on.
LEMMA MarkReplaceResumes ==
    ASSUME MarkInv, NEW o \in Ops, ReplaceResumes(o)
    PROVE  Marks /\ MarkStep
<1>1. CASE StreamAgent(o, "replace")
  BY <1>1, MarkStreamAgent DEF ReplaceResumes
<1>2. CASE /\ Goto(o, "catch")
           /\ UNCHANGED <<cur, objs, prevStatus, slot, streams, op, events, provider>>
  BY <1>2, MarkSame, MarkGoes DEF provider
<1>3. QED
  BY <1>1, <1>2 DEF ReplaceResumes

\* The catch block of replaceAgentRun may mark an agent that is not finished;
\* it leaves the rest in order.
LEMMA MarkCatch ==
    ASSUME MarkInv, NEW o \in Ops, ReplaceCatch(o)
    PROVE  Marks
<1> DEFINE b == [objs[cur] EXCEPT !.replacing = FALSE]
           drop == b.active = None /\ b.lifecycle = "running"
<1>1. /\ TypeOK /\ IdleInv /\ EndsLater /\ TypeInv /\ First \in Objs
      /\ objs[First] \in Agent /\ (cur # None => StatusTrue /\ FailureShows)
  BY MarkFacts, IdleFacts
<1>2. pc[o] = "catch" /\ Goto(o, "done") /\ UNCHANGED <<cur, sturn>>
  BY DEF ReplaceCatch, provider
<1>3. \A p \in Ops : pc'[p] = pc[p] \/ pc'[p] = "done"
  BY <1>1, <1>2 DEF Goto, TypeOK
<1>4. EndsLater'
  BY <1>1, <1>2, <1>3 DEF EndsLater
<1>5. ASSUME cur # None
      PROVE  StatusTrue' /\ FailureShows'
  <2>1. cur = First
    BY <1>1, <1>5, IdleFacts
  <2>2. PICK d : d = IF drop THEN [b EXCEPT !.lifecycle = "idle"] ELSE b
    OBVIOUS
  <2>3. /\ d \in Agent /\ d.err = objs[First].err
        /\ drop => d.lifecycle = "idle"
        /\ ~drop => d.lifecycle = objs[First].lifecycle
    BY <1>1, <2>1, <2>2 DEF Agent, Lifecycles
  <2>4. Store(First, d, drop)
    BY <1>5, <2>1, <2>2 DEF ReplaceCatch
  <2>5. Kept(objs'[First], d) /\ prevStatus' = IF drop THEN d.lifecycle ELSE prevStatus
    BY <1>1, <2>3, <2>4, StoreKept, StoreMark
  <2>6. StatusTrue'
    BY <1>1, <1>5, <2>3, <2>5 DEF Kept, StatusTrue
  <2>7. QED
    BY <1>1, <1>3, <1>5, <2>3, <2>5, <2>6 DEF Kept, FailureShows
<1>6. QED
  BY <1>2, <1>4, <1>5 DEF Marks

\* session.startTurn resolves, or rejects; the stream ends.
LEMMA MarkStartResolves ==
    ASSUME MarkInv, NEW o \in Ops, StartResolves(o)
    PROVE  Marks /\ MarkStep
<1>1. /\ pc[o] = "starting" /\ Goto(o, "streaming") /\ UNCHANGED <<cur, sturn>>
  BY DEF StartResolves, provider
<1>2. objs[First] \in Agent /\ op[o].obj = First
  BY <1>1, MarkFacts, IdleFacts, CapturedFirst
<1>3. PICK a : a = [objs[First] EXCEPT !.active = o, !.lifecycle = "running",
                                       !.waiters = @ \cup {o}]
  OBVIOUS
<1>4. a \in Agent /\ Shows(a, objs[First])
  BY <1>2, <1>3 DEF Agent, Lifecycles, Shows
<1>5. Store(First, a, TRUE)
  BY <1>2, <1>3 DEF StartResolves
<1>6. QED
  BY <1>1, <1>4, <1>5, MarkStore, MarkGoes

LEMMA MarkStartThrows ==
    ASSUME MarkInv, NEW o \in Ops, StartThrows(o)
    PROVE  Marks /\ MarkStep
<1>1. /\ pc[o] = "starting" /\ Goto(o, "failing") /\ UNCHANGED <<cur, prevStatus>>
  BY DEF StartThrows
<1>2. /\ objs[First] \in Agent /\ op[o].obj = First /\ TypeOK /\ First \in Objs
      /\ EndsLater /\ (cur # None => cur = First) /\ None \notin Objs
  BY <1>1, MarkFacts, IdleFacts, CapturedFirst
<1>3. PICK a : a = [objs[First] EXCEPT !.lifecycle = "error", !.err = TRUE]
  OBVIOUS
<1>4. a.lifecycle = "error" /\ a.err = TRUE /\ a.attention = objs[First].attention
  BY <1>2, <1>3 DEF Agent
<1>5. objs' = [objs EXCEPT ![First] = a]
  BY <1>2, <1>3 DEF StartThrows, TypeOK
<1>6. objs'[First] = a
  BY <1>2, <1>5 DEF TypeOK
<1>7. pc'[o] = "failing" /\ \A q \in Ops \ {o} : pc'[q] = pc[q] /\ sturn'[q] = sturn[q]
  BY <1>1, <1>2 DEF Goto, StartThrows, TypeOK
<1>8. EndsLater'
  BY <1>2, <1>7 DEF EndsLater
<1>9. StatusTrue' /\ FailureShows'
  BY <1>4, <1>6 DEF StatusTrue, FailureShows
<1>10. MarkStep
  BY <1>2, <1>4, <1>6 DEF MarkStep
<1>11. QED
  BY <1>8, <1>9, <1>10 DEF Marks

\* A rejected startTurn ends in "error", shown as running before or not.
LEMMA MarkStartFailed ==
    ASSUME MarkInv, NEW o \in Ops, StartFailed(o)
    PROVE  Marks /\ MarkStep
<1>1. PICK l : /\ pc[o] = "failing" /\ Goto(o, l) /\ l \in {"catch", "done"}
               /\ UNCHANGED <<cur, sturn>>
  BY DEF StartFailed, provider
<1>2. objs[First] \in Agent /\ op[o].obj = First /\ TypeOK /\ First \in Objs
  BY <1>1, MarkFacts, IdleFacts, CapturedFirst
<1>3. ASSUME cur # None
      PROVE  Undisturbed
  <2>1. StatusTrue /\ objs[First].err
    BY <1>1, <1>3, MarkFacts DEF FailureShows
  <2>2. PICK c : c = [objs[First] EXCEPT !.perms = {}]
    OBVIOUS
  <2>3. /\ c \in Agent /\ c.lifecycle = objs[First].lifecycle /\ c.err
        /\ c.attention = objs[First].attention
    BY <1>2, <2>1, <2>2 DEF Agent
  <2>4. PICK r : r = Attend(c, prevStatus)
    OBVIOUS
  <2>5. r \in Agent /\ Kept(r, c)
    BY <2>3, <2>4, AttendMarks, MarkedAgent, MarkedKept
  <2>6. r.attention = "finished" => c.attention = "finished"
    BY <2>1, <2>3, <2>4 DEF Attend, Agent, StatusTrue
  <2>7. PICK f : f = Finalized(r, {})
    OBVIOUS
  <2>8. r.err /\ ~HoldsBusy(r)
    BY <2>3, <2>5 DEF Kept, HoldsBusy
  <2>9. f \in Agent /\ f.lifecycle = "error" /\ f.err = r.err
    <3>1. {} \in SUBSET Ops
      OBVIOUS
    <3>2. QED
      BY <2>5, <2>7, <2>8, <3>1, FinalizedFields
  <2>10. f.attention = r.attention
    BY <2>5, <2>7 DEF Finalized, Agent
  <2>11. PICK b : b = Attend(f, r.lifecycle)
    OBVIOUS
  <2>12. objs' = [objs EXCEPT ![First] = b] /\ prevStatus' = f.lifecycle
    BY <1>2, <2>2, <2>4, <2>7, <2>8, <2>11 DEF StartFailed
  <2>13. objs'[First] = b
    BY <1>2, <2>12 DEF TypeOK
  <2>14. Kept(b, f)
    BY <2>9, <2>11, AttendMarks, MarkedKept
  <2>15. b.attention = "finished" => f.attention = "finished"
    BY <2>9, <2>11 DEF Attend, Agent
  <2>16. StatusTrue'
    BY <2>9, <2>12 DEF StatusTrue
  <2>17. b.err
    BY <2>8, <2>9, <2>14 DEF Kept
  <2>18. b.attention = "finished" => objs[First].attention = "finished"
    BY <2>3, <2>6, <2>10, <2>15
  <2>19. QED
    BY <2>13, <2>16, <2>17, <2>18 DEF Undisturbed
<1>4. QED
  BY <1>1, <1>3, MarkGoes

LEMMA MarkDrain ==
    ASSUME MarkInv, NEW o \in Ops, Drain(o)
    PROVE  Marks /\ MarkStep
<1>1. PICK l : /\ pc[o] = "streaming" /\ Goto(o, l) /\ l \in {"refresh", "done"}
               /\ UNCHANGED <<cur, sturn, prevStatus>>
  BY DEF Drain, provider
<1>2. objs[First] \in Agent /\ op[o].obj = First /\ TypeOK
  BY <1>1, MarkFacts, IdleFacts, CapturedFirst
<1>3. PICK a : a = [objs[First] EXCEPT !.waiters = @ \ {o}]
  OBVIOUS
<1>4. Shows(a, objs[First])
  BY <1>2, <1>3 DEF Agent, Shows
<1>5. objs' = [objs EXCEPT ![First] = a]
  BY <1>2, <1>3 DEF Drain, TypeOK
<1>6. QED
  BY <1>1, <1>4, <1>5, MarkAssign, MarkGoes

\* The foreground turn is finalized, and nobody else can have begun one.
LEMMA MarkFinal ==
    ASSUME MarkInv, cur = First, NEW t \in Ops, objs[First].active = t,
           NEW c \in Agent, c.attention = objs[First].attention,
           NEW emit, Store(First, Finalized(c, {t}), emit), emit \/ HoldsBusy(c),
           UNCHANGED <<cur, pending, sturn>>,
           \A q \in Ops : /\ pc[q] = "streaming" => pc'[q] = "streaming"
                          /\ pc'[q] \in {"starting", "failing"} => pc'[q] = pc[q]
    PROVE  Marks /\ MarkStep
<1>1. /\ IdleInv /\ EndsLater /\ TypeInv /\ First \in Objs /\ First # None /\ t # None
      /\ SlotInv
  BY MarkFacts, IdleFacts
<1>2. pc[t] = "streaming" /\ op[t].obj = cur
  BY <1>1, SlotFacts DEF TurnForwarded
<1>3. pending = t
  BY <1>1, <1>2, SlotFacts DEF RunOwnsSlot, Running
<1>4. \A q \in Ops : pc[q] # "failing"
  <2>1. SUFFICES ASSUME NEW q \in Ops, pc[q] = "failing"
                 PROVE  FALSE
    OBVIOUS
  <2>2. op[q].obj = cur
    BY <1>1, <2>1, CapturedFirst
  <2>3. pending = q
    BY <1>1, <2>1, <2>2, SlotFacts DEF RunOwnsSlot, Running
  <2>4. QED
    BY <1>2, <1>3, <2>1, <2>3
<1>5. PICK f : f = Finalized(c, {t})
  OBVIOUS
<1>6. /\ f \in Agent /\ f.active = None
      /\ HoldsBusy(c) => f.lifecycle = "running"
  BY <1>5, FinalizedFields
<1>7. Kept(objs'[First], f) /\ prevStatus' = IF emit THEN f.lifecycle ELSE prevStatus
  BY <1>1, <1>5, <1>6, StoreKept, StoreMark
<1>8. StatusTrue'
  BY <1>6, <1>7 DEF StatusTrue, Kept
<1>9. EndsLater'
  BY <1>1 DEF EndsLater
<1>10. FailureShows'
  BY <1>4 DEF FailureShows
<1>11. MarkStep
  BY <1>1, <1>2, <1>3, <1>6, <1>7 DEF MarkStep, Kept
<1>12. QED
  BY <1>8, <1>9, <1>10, <1>11 DEF Marks

\* The wait of a cancellation is over.
LEMMA MarkAfterWait ==
    ASSUME MarkInv, NEW o \in Ops, AfterWait(o)
    PROVE  Marks /\ MarkStep
<1>1. pc[o] = "waiting" /\ op[o].obj = First /\ UNCHANGED <<cur, slot, sturn>>
  BY MarkFacts, CapturedFirst DEF AfterWait, provider
<1>2. PICK a : a = objs[First]
  OBVIOUS
<1>3. a \in Agent /\ First \in Objs /\ TypeOK /\ First # None
  BY <1>2, MarkFacts, IdleFacts
<1>4. PICK l : Goto(o, l) /\ l \in {"stale", "done", "resume"}
  BY DEF AfterWait, AfterCancel
<1>5. CASE ~Stuck(o)
  <2>1. PICK b : b = Cleared(a)
    OBVIOUS
  <2>2. b \in Agent /\ Shows(b, a)
    BY <1>3, <2>1 DEF Cleared, Agent, Shows
  <2>3. PICK emit : Store(First, b, emit)
    BY <1>1, <1>2, <1>5, <2>1 DEF AfterWait
  <2>4. cur # None => Undisturbed
    BY <1>2, <2>2, <2>3, MarkStore
  <2>5. QED
    BY <1>1, <1>4, <2>4, MarkGoes
<1>6. CASE Stuck(o)
  <2>1. PICK t : t = op[o].turn
    OBVIOUS
  <2>2. t \in Ops /\ a.active = t
    BY <1>1, <1>2, <1>6, <2>1, MarkFacts, IdleFacts DEF Stuck
  <2>3. PICK c : c = [a EXCEPT !.err = FALSE, !.perms = {}]
    OBVIOUS
  <2>4. /\ c \in Agent /\ c.attention = a.attention /\ c.err = FALSE
        /\ c.replacing = a.replacing
    BY <1>3, <2>3 DEF Agent
  <2>5. PICK emit : Store(First, Finalized(c, {t}), emit) /\ emit = ~a.replacing
    BY <1>1, <1>2, <1>6, <2>1, <2>3 DEF AfterWait
  <2>6. emit \/ HoldsBusy(c)
    BY <1>3, <2>4, <2>5 DEF HoldsBusy, Agent
  <2>7. \A q \in Ops : /\ pc[q] = "streaming" => pc'[q] = "streaming"
                       /\ pc'[q] \in {"starting", "failing"} => pc'[q] = pc[q]
    BY <1>1, <1>3, <1>4 DEF Goto, TypeOK
  <2>8. CASE cur = First
    BY <1>1, <1>2, <2>2, <2>4, <2>5, <2>6, <2>7, <2>8, MarkFinal DEF slot
  <2>9. CASE cur = None
    BY <1>1, <1>4, <2>9, MarkGoes
  <2>10. QED
    BY <2>8, <2>9, MarkFacts, IdleFacts
<1>7. QED
  BY <1>5, <1>6

\* The provider ends no turn before startTurn has returned: the end of a turn
\* that is not in the foreground any more is never dispatched.
LEMMA NoBackgroundEnd ==
    ASSUME MarkInv, NEW type \in TerminalTypes, Receives(type)
    PROVE  Foreground /\ objs[First].active = Head(queue).turn
<1>1. PICK t : t = Head(queue).turn
  OBVIOUS
<1>2. /\ cur = First /\ Tidy /\ t \in Ops /\ t \notin objs[First].finalized
      /\ Head(queue) \in Chained /\ Head(queue).type \in TerminalTypes /\ EndsLater
  BY <1>1, MarkFacts, IdleReceived
<1>3. sturn[t] = "ended" /\ Ending(t)
  BY <1>1, <1>2 DEF Tidy, EndsTold, Ending
<1>4. pc[t] = "streaming" /\ op[t].obj = First
  BY <1>2, <1>3 DEF Tidy, EndsAwaited, TurnsBegun, EndsLater
<1>5. objs[First].active = t
  BY <1>2, <1>4 DEF Tidy, Forwarded, Forwards
<1>6. QED
  BY <1>1, <1>2, <1>5 DEF Foreground

\* A turn of the foreground ends, handled without an await.
LEMMA MarkTerminates ==
    ASSUME MarkInv, NEW type \in TerminalTypes, Receives(type),
           NEW c \in Agent, c.attention = objs[First].attention, NEW emit,
           Terminate(cur, c, Foreground, Head(queue).turn, emit)
    PROVE  Marks /\ MarkStep
<1>1. PICK t : t = Head(queue).turn
  OBVIOUS
<1>2. /\ cur = First /\ t \in Ops /\ objs[First].active = t /\ Foreground
      /\ UNCHANGED <<cur, slot, pc, provider>>
  BY <1>1, MarkFacts, IdleReceived, NoBackgroundEnd
<1>3. Store(First, Finalized(c, {t}), ~HoldsBusy(c))
  BY <1>1, <1>2 DEF Terminate
<1>4. PICK emitted : emitted = ~HoldsBusy(c) /\ Store(First, Finalized(c, {t}), emitted)
  BY <1>3
<1>5. pending' = pending /\ sturn' = sturn
  BY <1>2 DEF slot, provider
<1>6. QED
  BY <1>2, <1>4, <1>5, MarkFinal

\* Steps that move no call.
LEMMA MarkElsewhere ==
    ASSUME MarkInv, UNCHANGED <<cur, pc>>, cur # None => Undisturbed,
           \A o \in Ops : sturn'[o] = "ended" => sturn[o] = "ended" \/ pc[o] # "starting"
    PROVE  Marks /\ MarkStep
<1>1. CallsKept
  BY DEF CallsKept
<1>2. QED
  BY <1>1, MarkQuiet

\* The failure of a turn has been appended to the timeline.
LEMMA MarkFailureAppended ==
    ASSUME MarkInv, FailureAppended
    PROVE  Marks /\ MarkStep
<1>1. /\ busy.phase = "append" /\ busy # NoEvent /\ UNCHANGED <<cur, pc>>
      /\ pending' = pending /\ sturn' = sturn
  BY DEF FailureAppended, NoEvent, slot, provider
<1>2. CASE cur = None
  BY <1>1, <1>2, MarkElsewhere
<1>3. CASE cur # None
  <2>1. /\ cur = First /\ First \in Objs /\ objs[First] \in Agent /\ Tidy /\ busy.g = First
        /\ busy.fg => busy.e.turn \in Ops
    BY <1>1, <1>3, MarkFacts, IdleFacts, SlotFacts DEF Tidy, NotifyFinal, ForegroundTyped
  <2>2. PICK b, t : b = [objs[First] EXCEPT !.perms = {}] /\ t = busy.e.turn
    OBVIOUS
  <2>3. b \in Agent /\ Shows(b, objs[First]) /\ b.attention = objs[First].attention
    BY <2>1, <2>2 DEF Agent, Shows
  <2>4. Terminate(First, b, busy.fg, t, TRUE)
    BY <2>1, <2>2 DEF FailureAppended
  <2>5. CASE busy.fg
    <3>1. objs[First].active = t /\ t \in Ops
      BY <1>1, <2>1, <2>2, <2>5 DEF Tidy, NotifyFinal, Appending
    <3>2. PICK emit : emit = ~HoldsBusy(b) /\ Store(First, Finalized(b, {t}), emit)
      BY <2>4, <2>5 DEF Terminate
    <3>3. QED
      BY <1>1, <2>1, <2>3, <3>1, <3>2, MarkFinal
  <2>6. CASE ~busy.fg
    <3>1. Store(First, b, TRUE)
      BY <2>4, <2>6 DEF Terminate
    <3>2. QED
      BY <1>1, <1>3, <2>3, <3>1, MarkStore, MarkElsewhere
  <2>7. QED
    BY <2>5, <2>6
<1>4. QED
  BY <1>2, <1>3

\* The steps of the event chain.
LEMMA MarkChain ==
    ASSUME MarkInv, Chain
    PROVE  Marks /\ MarkStep
<1> DEFINE a == objs[First]
<1>1. a \in Agent /\ IdleInv
  BY MarkFacts, IdleFacts
<1>2. CASE EventDropped \/ Notify
  <2>1. UNCHANGED <<cur, pc, sturn, objs, prevStatus>>
    BY <1>2 DEF EventDropped, Notify, provider
  <2>2. QED
    BY <2>1, MarkSame, MarkElsewhere
<1>3. CASE TurnStarted
  <2>1. Receives("started") /\ cur = First /\ cur # None /\ UNCHANGED <<cur, pc, sturn>>
    BY <1>1, <1>3, IdleReceived DEF TurnStarted, provider
  <2>2. PICK b : b = IF Foreground THEN a ELSE [a EXCEPT !.lifecycle = "running"]
    OBVIOUS
  <2>3. b \in Agent /\ Shows(b, a)
    BY <1>1, <2>2 DEF Agent, Lifecycles, Shows
  <2>4. Store(First, b, ~Foreground)
    BY <1>3, <2>1, <2>2 DEF TurnStarted
  <2>5. QED
    BY <2>1, <2>3, <2>4, MarkStore, MarkElsewhere
<1>4. CASE TurnCompleted
  <2> DEFINE drop == BackgroundEnds(objs[cur]) /\ objs[cur].lifecycle # "idle"
  <2>1. Receives("completed") /\ cur = First /\ "completed" \in TerminalTypes
    BY <1>1, <1>4, IdleReceived DEF TurnCompleted, TerminalTypes
  <2>2. PICK b : b = [a EXCEPT !.err = FALSE, !.lifecycle = IF drop THEN "idle" ELSE @]
    OBVIOUS
  <2>3. b \in Agent /\ b.attention = a.attention
    BY <1>1, <2>2 DEF Agent, Lifecycles
  <2>4. Terminate(cur, b, Foreground, Head(queue).turn, drop)
    BY <1>4, <2>1, <2>2 DEF TurnCompleted
  <2>5. QED
    BY <2>1, <2>3, <2>4, MarkTerminates
<1>5. CASE TurnCanceled
  <2>1. Receives("canceled") /\ cur = First /\ "canceled" \in TerminalTypes
    BY <1>1, <1>5, IdleReceived DEF TurnCanceled, TerminalTypes
  <2>2. PICK b : b = [a EXCEPT !.err = FALSE, !.perms = {},
                               !.lifecycle = IF BackgroundEnds(a) THEN "idle" ELSE @]
    OBVIOUS
  <2>3. b \in Agent /\ b.attention = a.attention
    BY <1>1, <2>2 DEF Agent, Lifecycles
  <2>4. Terminate(cur, b, Foreground, Head(queue).turn, TRUE)
    BY <1>5, <2>1, <2>2 DEF TurnCanceled
  <2>5. QED
    BY <2>1, <2>3, <2>4, MarkTerminates
<1>6. CASE TurnFailed
  <2>1. Receives("failed") /\ cur = First /\ cur # None /\ UNCHANGED <<cur, pc, sturn>>
    BY <1>1, <1>6, IdleReceived DEF TurnFailed, provider
  <2>2. PICK b : b = [a EXCEPT !.err = TRUE,
                               !.lifecycle = IF Foreground THEN @ ELSE "error"]
    OBVIOUS
  <2>3. b \in Agent /\ Shows(b, a)
    BY <1>1, <2>2 DEF Agent, Lifecycles, Shows
  <2>4. Store(First, b, FALSE)
    BY <1>6, <2>1, <2>2 DEF TurnFailed
  <2>5. QED
    BY <2>1, <2>3, <2>4, MarkStore, MarkElsewhere
<1>7. CASE PermissionRequested \/ PermissionResolved
  <2> DEFINE p == Head(queue).turn
             held == p \in a.inFlight
             c == [a EXCEPT !.perms = @ \cup {p}]
             d == [a EXCEPT !.perms = @ \ {p}, !.buffered = IF held THEN @ \cup {p} ELSE @]
  <2>1. PICK type : Receives(type) /\ type \in {"permission_requested", "permission_resolved"}
    BY <1>7 DEF PermissionRequested, PermissionResolved
  <2>2. cur = First /\ cur # None /\ UNCHANGED <<cur, pc, sturn>>
    BY <1>1, <2>1, IdleReceived DEF provider
  <2>3. p \in Perms
    BY <2>1, MarkFacts, Received, EventTag
  <2>4. c \in Agent /\ Shows(c, a)
    BY <1>1, <2>3 DEF Agent, Shows
  <2>5. d \in Agent /\ Shows(d, a)
    BY <1>1, <2>3 DEF Agent, Shows
  <2>6. Store(First, c, TRUE) \/ Store(First, d, ~held)
    BY <1>7, <2>2 DEF PermissionRequested, PermissionResolved
  <2> HIDE DEF c, d
  <2>7. PICK b, emit : Store(First, b, emit) /\ b \in Agent /\ Shows(b, a)
    BY <2>4, <2>5, <2>6
  <2>8. QED
    BY <2>2, <2>7, MarkStore, MarkElsewhere
<1>8. QED
  BY <1>2, <1>3, <1>4, <1>5, <1>6, <1>7, MarkFailureAppended DEF Chain

\* The provider, the emissions and the mark that is cleared.
LEMMA MarkRest ==
    ASSUME MarkInv, "early_end" \notin Quirks, Session \/ StateEmitted \/ ClearAttention
    PROVE  Marks /\ MarkStep
<1>1. TypeOK /\ objs[First] \in Agent /\ (cur # None => cur = First)
  BY MarkFacts, IdleFacts
<1>2. CASE Session
  <2>1. UNCHANGED <<cur, pc, objs, prevStatus>>
    BY <1>2 DEF Session, SessionAutoStarts, SessionAutoEnds, SessionAnnounces, SessionEnds,
                SessionAsks, SessionResolves, SessionDrops, Enqueue
  <2>2. \A o \in Ops : sturn'[o] = "ended" => sturn[o] = "ended" \/ pc[o] # "starting"
    <3>1. CASE sturn' = sturn
      BY <3>1
    <3>2. CASE \E q \in Ops : SessionAnnounces(q)
      BY <1>1, <3>2 DEF SessionAnnounces, TypeOK
    <3>3. CASE \E q \in Ops, outcome \in TerminalTypes : SessionEnds(q, outcome)
      BY <1>1, <3>3 DEF SessionEnds, TypeOK
    <3>4. QED
      BY <1>2, <3>1, <3>2, <3>3
         DEF Session, SessionAutoStarts, SessionAutoEnds, SessionAsks, SessionResolves,
             SessionDrops
  <2>3. QED
    BY <2>1, <2>2, MarkSame, MarkElsewhere
<1>3. CASE StateEmitted \/ ClearAttention
  <2>1. cur # None /\ cur = First /\ UNCHANGED <<cur, pc, sturn>>
    BY <1>1, <1>3 DEF StateEmitted, ClearAttention, provider
  <2>2. PICK c : c = [objs[First] EXCEPT !.attention = "none"]
    OBVIOUS
  <2>3. c \in Agent /\ Shows(c, objs[First]) /\ Shows(objs[First], objs[First])
    BY <1>1, <2>2 DEF Agent, Attentions, Shows
  <2>4. Store(First, objs[First], TRUE) \/ Store(First, c, FALSE)
    BY <1>3, <2>1, <2>2 DEF StateEmitted, ClearAttention
  <2>5. QED
    BY <1>1, <2>1, <2>3, <2>4, MarkStore, MarkElsewhere
<1>4. QED
  BY <1>2, <1>3

\* Every step keeps the invariant, and marks no agent that is not finished,
\* but for the catch block of replaceAgentRun.
LEMMA MarkNext ==
    ASSUME MarkInv, Kinds \cap OddKinds = {}, "early_end" \notin Quirks, [Next]_vars
    PROVE  MarkInv' /\ (MarkStep \/ \E o \in Ops : ReplaceCatch(o))
<1>1. IdleInv /\ IdleInv'
  BY MarkFacts, IdleNext
<1>2. ASSUME NEW o \in Ops, Step(o) \/ Answer(o), ~ReplaceCatch(o)
      PROVE  Marks /\ MarkStep
  <2>1. op[o].kind \notin OddKinds /\ pc[o] \notin OddLabels
    BY <1>1, IdleFacts DEF OneObject
  <2>2. ~(\/ RewindResumes(o) \/ ReloadResumes(o) \/ OldClosed(o) \/ RegisterIdle(o)
          \/ RegisterSubscribe(o) \/ Rewound(o) \/ Swap(o) \/ Register(o))
    BY <2>1 DEF OddKinds, OddLabels, RewindResumes, ReloadResumes, OldClosed,
                RegisterIdle, RegisterSubscribe, Rewound, Swap, Register
  <2>3. CASE NotifyForced(o)
    <3>1. UNCHANGED <<cur, pc, sturn, objs, prevStatus>>
      BY <2>3 DEF NotifyForced, provider
    <3>2. QED
      BY <3>1, MarkSame, MarkElsewhere
  <2>4. QED
    BY <1>2, <2>2, <2>3, MarkStartResolves, MarkStartThrows, MarkStartFailed, MarkDrain,
       MarkQuietSteps, MarkReplaceResumes, MarkAfterWait DEF Step, Answer
<1>3. Marks /\ (MarkStep \/ \E o \in Ops : ReplaceCatch(o))
  <2>1. CASE \E o \in Ops : ReplaceCatch(o)
    BY <2>1, MarkCatch
  <2>2. CASE UNCHANGED vars
    <3>1. UNCHANGED <<cur, pc, sturn, objs, prevStatus>>
      BY <2>2 DEF vars, provider
    <3>2. QED
      BY <3>1, MarkSame, MarkElsewhere
  <2>3. CASE Next /\ ~\E o \in Ops : ReplaceCatch(o)
    BY <1>2, <2>3, MarkBegin, MarkChain, MarkRest DEF Next
  <2>4. QED
    BY <2>1, <2>2, <2>3
<1>4. QED
  BY <1>1, <1>3 DEF Marks, MarkInv

LEMMA MarkInit ==
    ASSUME Init, MaxAuto = 0
    PROVE  MarkInv
<1>1. IdleInv
  BY IdleInit
<1>2. EndsLater /\ StatusTrue /\ FailureShows
  BY DEF Init, EndsLater, StatusTrue, FailureShows
<1>3. QED
  BY <1>1, <1>2 DEF MarkInv

-----------------------------------------------------------------------------
(* Callers that never replace a run *)

NoReplace == \A o \in Ops : op[o].kind # "replace" /\ pc[o] # "catch"

\* A call that is not a replacement moves on.
LEMMA ReplaceMoves ==
    ASSUME TypeOK, NoReplace, NEW o \in Ops, NEW l, Goto(o, l), l # "catch",
           \A p \in Ops : op'[p].kind # "replace"
    PROVE  NoReplace'
BY DEF NoReplace, Goto, TypeOK

LEMMA ReplaceBegin ==
    ASSUME MarkInv, NoReplace, "replace" \notin Kinds, Kinds \cap OddKinds = {},
           NEW o \in Ops, Begin(o)
    PROVE  NoReplace'
<1>1. TypeOK /\ op[o] \in Call
  BY MarkFacts, IdleFacts
<1>2. PICK k, l : Goto(o, l) /\ l # "catch" /\ k # "replace" /\ op'[o].kind = k
  <2>1. CASE Run(o)
    <3>1. PICK c : c = [op[o] EXCEPT !.kind = "run", !.obj = cur]
      OBVIOUS
    <3>2. op' = [op EXCEPT ![o] = c] /\ c.kind = "run" /\ Goto(o, "starting")
      BY <1>1, <2>1, <3>1 DEF Run, StreamAgent, Goto, TypeOK, Call
    <3>3. QED
      BY <1>1, <3>2 DEF TypeOK
  <2>2. CASE Cancel(o)
    <3>1. PICK c : c = [op[o] EXCEPT !.kind = "cancel", !.obj = cur, !.run = pending,
                                     !.turn = objs[cur].active]
      OBVIOUS
    <3>2. op' = [op EXCEPT ![o] = c] /\ c.kind = "cancel" /\ Goto(o, "interrupting")
      BY <1>1, <2>2, <3>1 DEF Cancel, BeginCancel, TypeOK, Call
    <3>3. QED
      BY <1>1, <3>2 DEF TypeOK
  <2>3. CASE Close(o)
    <3>1. PICK c : c = [op[o] EXCEPT !.kind = "close"]
      OBVIOUS
    <3>2. op' = [op EXCEPT ![o] = c] /\ c.kind = "close" /\ Goto(o, "closing")
      BY <1>1, <2>3, <3>1 DEF Close, TypeOK, Call
    <3>3. QED
      BY <1>1, <3>2 DEF TypeOK
  <2>4. CASE \E p \in Perms : Respond(o, p)
    <3>1. PICK p \in Perms : Respond(o, p)
      BY <2>4
    <3>2. PICK c : c = [op[o] EXCEPT !.kind = "respond", !.obj = cur, !.perm = p]
      OBVIOUS
    <3>3. op' = [op EXCEPT ![o] = c] /\ c.kind = "respond" /\ Goto(o, "responding")
      BY <1>1, <3>1, <3>2 DEF Respond, TypeOK, Call
    <3>4. QED
      BY <1>1, <3>3 DEF TypeOK
  <2>5. ~(Replace(o) \/ Rewind(o) \/ Reload(o) \/ Open(o))
    BY DEF Replace, Rewind, Reload, Open, OddKinds
  <2>6. QED
    BY <2>1, <2>2, <2>3, <2>4, <2>5 DEF Begin
<1>3. \A p \in Ops \ {o} : op'[p] = op[p]
  BY <1>1 DEF Begin, Run, Replace, Cancel, Rewind, Close, Reload, Open, Respond,
     StreamAgent, BeginCancel, BeginReload, TypeOK, OddKinds
<1>4. QED
  BY <1>1, <1>2, <1>3, ReplaceMoves DEF NoReplace

LEMMA ReplaceNext ==
    ASSUME MarkInv, NoReplace, "replace" \notin Kinds, Kinds \cap OddKinds = {}, [Next]_vars
    PROVE  NoReplace'
<1>1. TypeOK /\ IdleInv
  BY MarkFacts, IdleFacts
<1>2. ASSUME UNCHANGED <<pc, op>>
      PROVE  NoReplace'
  BY <1>2 DEF NoReplace
<1>3. ASSUME NEW o \in Ops, Step(o) \/ Answer(o)
      PROVE  NoReplace'
  <2>1. /\ op[o].kind \notin OddKinds /\ pc[o] \notin OddLabels
        /\ op[o].kind # "replace" /\ pc[o] # "catch"
    BY <1>1, IdleFacts DEF OneObject, NoReplace
  <2>2. ~(\/ RewindResumes(o) \/ ReloadResumes(o) \/ OldClosed(o) \/ RegisterIdle(o)
          \/ RegisterSubscribe(o) \/ Rewound(o) \/ Swap(o) \/ Register(o)
          \/ ReplaceResumes(o) \/ ReplaceCatch(o))
    BY <2>1 DEF OddKinds, OddLabels, RewindResumes, ReloadResumes, OldClosed, RegisterIdle,
                RegisterSubscribe, Rewound, Swap, Register, ReplaceResumes, ReplaceCatch
  <2>3. CASE NotifyForced(o)
    BY <1>2, <2>3 DEF NotifyForced
  <2>4. CASE AfterWait(o)
    <3>1. PICK l : Goto(o, l) /\ l # "catch"
      BY <2>4 DEF AfterWait, AfterCancel
    <3>2. op' = op \/ op' = [op EXCEPT ![o].run = pending]
      BY <2>4 DEF AfterWait
    <3>3. PICK c : c = [op[o] EXCEPT !.run = pending]
      OBVIOUS
    <3>4. op[o] \in Call
      BY <1>1 DEF TypeOK
    <3>5. c.kind = op[o].kind
      BY <3>3, <3>4 DEF Call
    <3>6. op' = op \/ op' = [op EXCEPT ![o] = c]
      BY <1>1, <3>2, <3>3 DEF TypeOK
    <3>7. \A p \in Ops : op'[p].kind # "replace"
      BY <1>1, <3>5, <3>6 DEF NoReplace, TypeOK
    <3>8. QED
      BY <1>1, <3>1, <3>7, ReplaceMoves
  <2>5. CASE \/ StartFailed(o) \/ Drain(o) \/ Refresh(o) \/ Interrupted(o) \/ StaleSettled(o)
             \/ Closed(o) \/ Refreshed(o) \/ Persisted(o)
             \/ StartResolves(o) \/ StartThrows(o) \/ Responded(o)
    <3>1. op' = op
      BY <2>5 DEF StartFailed, Drain, Refresh, Interrupted, StaleSettled, Closed, Refreshed,
                  Persisted, StartResolves, StartThrows, Responded
    <3>2. PICK l : Goto(o, l) /\ l # "catch"
      <4>1. CASE StartFailed(o)
        BY <2>1, <4>1 DEF StartFailed
      <4>2. CASE StaleSettled(o)
        BY <4>2 DEF StaleSettled, AfterCancel
      <4>3. CASE Drain(o)
        BY <4>3 DEF Drain
      <4>4. CASE Responded(o)
        BY <4>4 DEF Responded
      <4>5. CASE Refresh(o) \/ Interrupted(o) \/ Closed(o)
        BY <4>5 DEF Refresh, Interrupted, Closed
      <4>6. CASE Refreshed(o)
        BY <4>6 DEF Refreshed
      <4>7. CASE Persisted(o)
        BY <4>7 DEF Persisted
      <4>8. CASE StartResolves(o)
        BY <4>8 DEF StartResolves
      <4>9. CASE StartThrows(o)
        BY <4>9 DEF StartThrows
      <4>10. QED
        BY <2>5, <4>1, <4>2, <4>3, <4>4, <4>5, <4>6, <4>7, <4>8, <4>9
    <3>3. QED
      BY <1>1, <3>1, <3>2, ReplaceMoves DEF NoReplace
  <2>6. QED
    BY <1>3, <2>2, <2>3, <2>4, <2>5 DEF Step, Answer
<1>4. CASE Chain \/ Session \/ StateEmitted \/ ClearAttention \/ UNCHANGED vars
  <2>1. CASE Chain
    BY <1>2, <2>1
       DEF Chain, EventDropped, TurnStarted, TurnCompleted, TurnCanceled, TurnFailed, Receives,
           FailureAppended, PermissionRequested, PermissionResolved, Notify
  <2>2. CASE Session
    BY <1>2, <2>2
       DEF Session, SessionAutoStarts, SessionAutoEnds, SessionAnnounces, SessionEnds,
           SessionAsks, SessionResolves, SessionDrops, Enqueue
  <2>3. QED
    BY <1>2, <1>4, <2>1, <2>2 DEF StateEmitted, ClearAttention, vars
<1>5. QED
  BY <1>3, <1>4, ReplaceBegin DEF Next

\* The "finished" mark is raised by the catch block of replaceAgentRun, or when
\* no turn is active and no prompt is being started: by nothing that runs,
\* cancellations, closes and answers do together, whatever the provider's
\* order of events, if it ends no turn before startTurn has returned.
THEOREM FinishedUnlessCaught ==
    ASSUME Kinds \cap OddKinds = {}, MaxAuto = 0, "early_end" \notin Quirks
    PROVE  Spec => [][MarkStep \/ \E o \in Ops : ReplaceCatch(o)]_vars
<1>1. Init => MarkInv
  BY MarkInit
<1>2. MarkInv /\ [Next]_vars => MarkInv'
  BY MarkNext
<1>3. MarkInv /\ [Next]_vars => [MarkStep \/ \E o \in Ops : ReplaceCatch(o)]_vars
  BY MarkNext
<1>4. QED
  BY <1>1, <1>2, <1>3, PTL DEF Spec

\* Without replacements a mark is always true: when an agent is announced as
\* finished, no turn is active and no prompt is being started.
THEOREM FinishesAreTrue ==
    ASSUME Kinds \cap (OddKinds \cup {"replace"}) = {}, MaxAuto = 0,
           "early_end" \notin Quirks
    PROVE  Spec => FinishedIsTrue
<1>1. Init => MarkInv /\ NoReplace
  <2>1. ASSUME Init, NEW o \in Ops
        PROVE  op[o].kind # "replace" /\ pc[o] # "catch"
    <3>1. op[o].kind = "none" /\ pc[o] = "idle"
      BY <2>1 DEF Init
    <3>2. QED
      BY <3>1
  <2>2. QED
    BY <2>1, MarkInit DEF NoReplace
<1>2. MarkInv /\ NoReplace /\ [Next]_vars => (MarkInv /\ NoReplace)'
  BY MarkNext, ReplaceNext
<1>3. MarkInv /\ NoReplace /\ [Next]_vars => [MarkStep]_vars
  BY MarkNext DEF NoReplace, ReplaceCatch
<1>4. Spec => [][MarkStep]_vars
  BY <1>1, <1>2, <1>3, PTL DEF Spec
<1>5. QED
  BY <1>4 DEF FinishedIsTrue, MarkStep


-----------------------------------------------------------------------------
(* At rest: what is added to the invariant *)

\* The end of a turn is the last the provider says of it.
EndsLast ==
    \A i, j \in DOMAIN queue :
        i < j /\ queue[i].type \in TerminalTypes => queue[j].turn # queue[i].turn

AppendLast ==
    busy # NoEvent /\ busy.phase = "append" =>
        /\ busy.e.turn \in Ops /\ sturn[busy.e.turn] = "ended"
        /\ \A e \in Chained : e.turn # busy.e.turn

\* The turn whose start is still to be dispatched is not over for the manager:
\* startTurn has not returned, or it is the foreground turn.
StartedOpen ==
    \A e \in Chained : e.type = "started" =>
        /\ e.turn \in Ops /\ sturn[e.turn] \in {"announced", "ended"}
        /\ pc[e.turn] = "starting" \/ objs[First].active = e.turn

ReplaceLabels == {"interrupting", "waiting", "stale", "resume", "catch"}

\* A replacement is pending while a call is about to make it.
ReplacementRuns ==
    objs[First].replacing =>
        \E o \in Ops : op[o].kind = "replace" /\ pc[o] \in ReplaceLabels

\* What an agent without a foreground turn shows as running for.
Starts(o) == pc[o] = "starting" /\ sturn[o] \in {"announced", "ended"}

Replaces(o) == op[o].kind = "replace" /\ pc[o] \in ReplaceLabels \cup {"starting"}

RunningExplained ==
    objs[First].lifecycle = "running" =>
        objs[First].active # None \/ \E o \in Ops : Replaces(o) \/ Starts(o)

Explained == /\ EndsLast /\ AppendLast /\ StartedOpen
             /\ ReplacementRuns /\ RunningExplained

RestInv == IdleInv /\ (cur # None => Explained)

-----------------------------------------------------------------------------
(* Permission requests *)

\* The requests that the provider waits on, or gave up unnoticed.
Waited == sperms[First] \cup dropped

\* What takes the request p off the display when it is dispatched.  The end of
\* a turn that is over is ignored.
Clears(over, e, p) ==
    \/ e.type = "permission_resolved" /\ e.turn = p
    \/ e.type \in {"failed", "canceled"} /\ e.turn \notin over

\* Any other request on display is about to leave it,
DisplayedCleared ==
    \A p \in objs[First].perms \ Waited :
        \/ \E e \in Chained : Clears(objs[First].finalized, e, p)
        \/ busy # NoEvent /\ busy.phase = "append"

\* or, if it is still to be displayed, what clears it comes later.
RequestedCleared ==
    \A i \in DOMAIN queue :
        queue[i].type = "permission_requested" /\ queue[i].turn \notin Waited =>
            \E j \in DOMAIN queue :
                i < j /\ Clears(objs[First].finalized, queue[j], queue[i].turn)

Asked == objs[First].subscribed /\ DisplayedCleared /\ RequestedCleared

AskInv == RestInv /\ (cur # None => Asked)

LEMMA RestFacts ==
    ASSUME RestInv
    PROVE  /\ IdleInv /\ TypeInv /\ TypeOK /\ OneObject /\ NoAuto
           /\ cur # None => Tidy /\ Explained /\ cur = First
           /\ First \in Objs /\ objs[First] \in Agent /\ Chained \subseteq Event
           /\ objs[First].active \in Ops \cup {None} /\ None \notin Ops
           /\ objs[First].replacing \in BOOLEAN
<1>1. IdleInv /\ (cur # None => Explained)
  BY DEF RestInv
<1>2. QED
  BY <1>1, IdleFacts

\* The first event leaves the chain: what it has said last comes no more.
LEMMA QueueTail ==
    ASSUME TypeInv, queue # <<>>, queue' = Tail(queue)
    PROVE  /\ EndsLast => EndsLast'
           /\ EndsLast /\ Head(queue).type \in TerminalTypes =>
                \A e \in Chained' : e.turn # Head(queue).turn
           /\ Chained' \subseteq Chained /\ Chained \subseteq Chained' \cup {Head(queue)}
<1>1. queue \in Seq(Event)
  BY DEF TypeInv, TypeOK
<1>2. PICK n : n = Len(queue)
  OBVIOUS
<1>3. n \in Nat \ {0} /\ DOMAIN queue = 1..n /\ Head(queue) = queue[1]
  BY <1>1, <1>2
<1>4. /\ DOMAIN queue' = 1..(n - 1)
      /\ \A i \in 1..(n - 1) : queue'[i] = queue[i + 1]
  BY <1>1, <1>2, <1>3
<1>5. Chained' \subseteq Chained
  BY ChainTail
<1>6. ASSUME NEW e \in Chained, e # Head(queue)
      PROVE  e \in Chained'
  <2>1. PICK i \in 1..n : e = queue[i]
    BY <1>3, <1>6 DEF Chained
  <2>2. i # 1 /\ i - 1 \in 1..(n - 1) /\ (i - 1) + 1 = i
    BY <1>3, <1>6, <2>1
  <2>3. queue'[i - 1] = e
    BY <1>4, <2>1, <2>2
  <2>4. QED
    BY <1>4, <2>2, <2>3 DEF Chained
<1>7. ASSUME EndsLast
      PROVE  EndsLast'
  <2>1. SUFFICES ASSUME NEW i \in 1..(n - 1), NEW j \in 1..(n - 1), i < j,
                        queue'[i].type \in TerminalTypes
                 PROVE  queue'[j].turn # queue'[i].turn
    BY <1>4 DEF EndsLast
  <2>2. i + 1 \in 1..n /\ j + 1 \in 1..n /\ i + 1 < j + 1
    BY <1>3, <2>1
  <2>3. QED
    BY <1>3, <1>4, <1>7, <2>1, <2>2 DEF EndsLast
<1>8. ASSUME EndsLast, Head(queue).type \in TerminalTypes, NEW e \in Chained'
      PROVE  e.turn # Head(queue).turn
  <2>1. PICK i \in 1..(n - 1) : e = queue'[i]
    BY <1>4 DEF Chained
  <2>2. i + 1 \in 1..n /\ 1 \in 1..n /\ 1 < i + 1 /\ e = queue[i + 1]
    BY <1>3, <1>4, <2>1
  <2>3. QED
    BY <1>3, <1>8, <2>2 DEF EndsLast
<1>9. QED
  BY <1>5, <1>6, <1>7, <1>8

\* An event joins the chain, of a turn that has not ended in it.
LEMMA QueueAppend ==
    ASSUME TypeInv, EndsLast, NEW x, queue' = Append(queue, x),
           \A e \in Chained : e.type \in TerminalTypes => x.turn # e.turn
    PROVE  EndsLast'
<1>1. queue \in Seq(Event)
  BY DEF TypeInv, TypeOK
<1>2. PICK n : n = Len(queue)
  OBVIOUS
<1>3. n \in Nat /\ DOMAIN queue = 1..n
  BY <1>1, <1>2
<1>4. /\ DOMAIN queue' = 1..(n + 1)
      /\ \A i \in 1..n : queue'[i] = queue[i]
      /\ queue'[n + 1] = x
  BY <1>1, <1>2, <1>3
<1>5. SUFFICES ASSUME NEW i \in 1..(n + 1), NEW j \in 1..(n + 1), i < j,
                      queue'[i].type \in TerminalTypes
               PROVE  queue'[j].turn # queue'[i].turn
  BY <1>4 DEF EndsLast
<1>6. i \in 1..n /\ queue'[i] = queue[i] /\ queue[i] \in Chained
  BY <1>3, <1>4, <1>5 DEF Chained
<1>7. CASE j = n + 1
  BY <1>4, <1>5, <1>6, <1>7
<1>8. CASE j \in 1..n
  BY <1>3, <1>4, <1>5, <1>6, <1>8 DEF EndsLast
<1>9. QED
  BY <1>3, <1>5, <1>7, <1>8

\* The turn o has been announced, and is not over for the manager.
Held(o) ==
    /\ sturn[o] \in {"announced", "ended"}
    /\ pc[o] = "starting" \/ objs[First].active = o

\* Nothing happens to the chain.
LEMMA RestQueue ==
    ASSUME RestInv, cur # None, queue' = queue, busy' = busy,
           \A o \in Ops : sturn[o] = "ended" => sturn'[o] = "ended",
           queue = <<>> \/ \A o \in Ops : Held(o) => Held(o)'
    PROVE  EndsLast' /\ AppendLast' /\ StartedOpen'
<1>1. EndsLast /\ AppendLast /\ StartedOpen
  BY RestFacts DEF Explained
<1>2. Chained' = Chained
  BY DEF Chained
<1>3. EndsLast'
  BY <1>1 DEF EndsLast
<1>4. AppendLast'
  BY <1>1, <1>2 DEF AppendLast
<1>5. queue = <<>> => Chained = {}
  BY DEF Chained
<1>6. StartedOpen'
  BY <1>1, <1>2, <1>5 DEF StartedOpen, Held
<1>7. QED
  BY <1>3, <1>4, <1>6

Pends(o) == op[o].kind = "replace" /\ pc[o] \in ReplaceLabels

\* What the call o leaves of the reasons to be shown as running.
LEMMA RestLife ==
    ASSUME RestInv, cur # None, NEW o \in Ops,
           \A p \in Ops \ {o} : pc'[p] = pc[p] /\ op'[p] = op[p] /\ sturn'[p] = sturn[p],
           objs'[First].replacing => Pends(o)' \/ (objs[First].replacing /\ ~Pends(o)),
           objs'[First].lifecycle = "running" =>
             \/ objs'[First].active # None \/ Replaces(o)' \/ Starts(o)'
             \/ objs'[First].replacing
             \/ /\ objs[First].lifecycle = "running" /\ objs[First].active = None
                /\ ~Replaces(o) /\ ~Starts(o)
    PROVE  ReplacementRuns' /\ RunningExplained'
<1>1. ReplacementRuns /\ RunningExplained
  BY RestFacts DEF Explained
<1>2. ReplacementRuns'
  <2>1. SUFFICES ASSUME objs'[First].replacing
                 PROVE  \E p \in Ops : Pends(p)'
    BY DEF ReplacementRuns, Pends
  <2>2. CASE Pends(o)'
    BY <2>2
  <2>3. CASE objs[First].replacing /\ ~Pends(o)
    <3>1. PICK p \in Ops : Pends(p)
      BY <1>1, <2>3 DEF ReplacementRuns, Pends
    <3>2. p # o /\ Pends(p)'
      BY <2>3, <3>1 DEF Pends
    <3>3. QED
      BY <3>2
  <2>4. QED
    BY <2>1, <2>2, <2>3
<1>3. RunningExplained'
  <2>1. SUFFICES ASSUME objs'[First].lifecycle = "running", objs'[First].active = None
                 PROVE  \E p \in Ops : Replaces(p)' \/ Starts(p)'
    BY DEF RunningExplained
  <2>2. CASE Replaces(o)' \/ Starts(o)'
    BY <2>2
  <2>3. CASE objs'[First].replacing
    BY <1>2, <2>3 DEF ReplacementRuns, Replaces
  <2>4. CASE /\ objs[First].lifecycle = "running" /\ objs[First].active = None
             /\ ~Replaces(o) /\ ~Starts(o)
    <3>1. PICK p \in Ops : Replaces(p) \/ Starts(p)
      BY <1>1, <2>4 DEF RunningExplained
    <3>2. p # o /\ (Replaces(p)' \/ Starts(p)')
      BY <2>4, <3>1 DEF Replaces, Starts
    <3>3. QED
      BY <3>2
  <2>5. QED
    BY <2>1, <2>2, <2>3, <2>4
<1>4. QED
  BY <1>2, <1>3

SameLife ==
    /\ objs'[First].active = objs[First].active
    /\ objs'[First].replacing = objs[First].replacing
    /\ objs'[First].lifecycle = objs[First].lifecycle

\* A call takes a step of its own that tells the provider nothing.
LEMMA RestMoves ==
    ASSUME RestInv, cur # None, NEW o \in Ops, UNCHANGED <<queue, busy, sturn>>,
           \A p \in Ops \ {o} : pc'[p] = pc[p] /\ op'[p] = op[p],
           pc[o] # "starting", SameLife, Pends(o) => Pends(o)'
    PROVE  Explained'
<1>1. \A p \in Ops : Held(p) => Held(p)'
  BY DEF Held, SameLife
<1>2. EndsLast' /\ AppendLast' /\ StartedOpen'
  BY <1>1, RestQueue
<1>3. (Replaces(o) => Pends(o)) /\ ~Starts(o) /\ (Pends(o)' => Replaces(o)')
  BY DEF Replaces, Pends, Starts
<1>4. RunningExplained
  BY RestFacts DEF Explained
<1>5. objs'[First].replacing => Pends(o)' \/ (objs[First].replacing /\ ~Pends(o))
  BY DEF SameLife
<1>6. objs'[First].lifecycle = "running" =>
        \/ objs'[First].active # None \/ Replaces(o)'
        \/ /\ objs[First].lifecycle = "running" /\ objs[First].active = None
           /\ ~Replaces(o) /\ ~Starts(o)
  BY <1>3 DEF SameLife
<1>7. ReplacementRuns' /\ RunningExplained'
  BY <1>5, <1>6, RestLife
<1>8. QED
  BY <1>2, <1>7 DEF Explained

LEMMA RestGoes ==
    ASSUME RestInv, cur # None, NEW o \in Ops, NEW l, Goto(o, l), op' = op,
           UNCHANGED <<queue, busy, sturn>>, pc[o] # "starting", SameLife,
           Pends(o) => l \in ReplaceLabels
    PROVE  Explained'
<1>1. TypeOK
  BY RestFacts
<1>2. pc'[o] = l /\ \A p \in Ops \ {o} : pc'[p] = pc[p]
  BY <1>1 DEF Goto, TypeOK
<1>3. Pends(o) => Pends(o)'
  BY <1>2 DEF Pends
<1>4. QED
  BY <1>2, <1>3, RestMoves

\* What is stored, or assigned, keeps what the invariant is about.
LEMMA LifeStored ==
    ASSUME RestInv, NEW a \in Agent, NEW emit, Store(First, a, emit),
           a.active = objs[First].active, a.replacing = objs[First].replacing,
           a.lifecycle = objs[First].lifecycle
    PROVE  SameLife
<1>1. TypeInv /\ First \in Objs
  BY RestFacts
<1>2. Kept(objs'[First], a)
  BY <1>1, StoreKept
<1>3. QED
  BY <1>2 DEF Kept, SameLife

LEMMA LifeAssigned ==
    ASSUME RestInv, NEW a, objs' = [objs EXCEPT ![First] = a],
           a.active = objs[First].active, a.replacing = objs[First].replacing,
           a.lifecycle = objs[First].lifecycle
    PROVE  SameLife
<1>1. TypeOK /\ First \in Objs
  BY RestFacts
<1>2. objs'[First] = a
  BY <1>1 DEF TypeOK
<1>3. QED
  BY <1>2 DEF SameLife

LEMMA LifeSame ==
    ASSUME objs' = objs
    PROVE  SameLife
BY DEF SameLife

-----------------------------------------------------------------------------
(* At rest: the calls *)

\* A prompt takes the slot and calls startTurn; no replacement is pending then.
LEMMA RestStreamAgent ==
    ASSUME RestInv, NEW o \in Ops, NEW k \in {"run", "replace"}, StreamAgent(o, k),
           pc[o] = "idle" \/ (pc[o] = "resume" /\ k = "replace")
    PROVE  cur # None /\ Explained'
<1>1. /\ cur # None /\ cur = First /\ cur' = cur /\ busy' = busy
      /\ objs[First].active = None /\ pc' = [pc EXCEPT ![o] = "starting"]
  BY RestFacts DEF StreamAgent, SlotFree, SessionStartTurn
<1>2. TypeOK /\ Tidy /\ NoAuto /\ First \in Objs /\ objs[First] \in Agent
  BY <1>1, RestFacts
<1>3. sturn[o] = "none"
  BY <1>2 DEF Tidy, TurnsBegun
<1>4. /\ queue' = queue
      /\ \A p \in Ops \ {o} : sturn'[p] = sturn[p]
      /\ sturn'[o] \in {"none", "open"}
  BY <1>1, <1>2, <1>3 DEF StreamAgent, SessionStartTurn, TypeOK, NoAuto
<1>5. /\ pc'[o] = "starting" /\ op'[o].kind = k
      /\ \A p \in Ops \ {o} : pc'[p] = pc[p] /\ op'[p] = op[p]
  <2>1. PICK c : c = [op[o] EXCEPT !.kind = k, !.obj = First]
    OBVIOUS
  <2>2. op[o] \in Call
    BY <1>2 DEF TypeOK
  <2>3. op' = [op EXCEPT ![o] = c] /\ c.kind = k
    BY <1>1, <1>2, <2>1, <2>2 DEF StreamAgent, TypeOK, Call
  <2>4. QED
    BY <1>1, <1>2, <2>3 DEF TypeOK
<1>6. /\ objs'[First].replacing = FALSE /\ objs'[First].active = None
      /\ objs'[First].lifecycle = objs[First].lifecycle
  <2>1. PICK b : b = [objs[First] EXCEPT !.replacing = FALSE, !.err = FALSE]
    OBVIOUS
  <2>2. objs' = [objs EXCEPT ![First] = b]
    BY <1>1, <1>2, <2>1 DEF StreamAgent, TypeOK
  <2>3. objs'[First] = b
    BY <1>2, <2>2 DEF TypeOK
  <2>4. QED
    BY <1>1, <1>2, <2>1, <2>3 DEF Agent
<1>7. \A p \in Ops : Held(p) => Held(p)'
  BY <1>1, <1>2, <1>3, <1>4, <1>5, <1>6 DEF Held, TypeOK
<1>8. \A p \in Ops : sturn[p] = "ended" => sturn'[p] = "ended"
  BY <1>3, <1>4
<1>9. EndsLast' /\ AppendLast' /\ StartedOpen'
  BY <1>1, <1>4, <1>7, <1>8, RestQueue
<1>10. Replaces(o) \/ Starts(o) => Replaces(o)'
  BY <1>5 DEF Replaces, Starts, ReplaceLabels
<1>11. ReplacementRuns' /\ RunningExplained'
  BY <1>1, <1>4, <1>5, <1>6, <1>10, RestLife
<1>12. QED
  BY <1>1, <1>9, <1>11 DEF Explained

\* What a call does first.
LEMMA RestBegin ==
    ASSUME RestInv, Kinds \cap OddKinds = {}, NEW o \in Ops, Begin(o), cur' # None
    PROVE  Explained'
<1>1. /\ TypeOK /\ First \in Objs /\ (cur # None => cur = First)
      /\ objs[First] \in Agent /\ op[o] \in Call
  BY RestFacts DEF TypeOK
<1>2. CASE Run(o) \/ (Replace(o) /\ StreamAgent(o, "run"))
  <2>1. StreamAgent(o, "run") /\ pc[o] = "idle"
    BY <1>2 DEF Run, Replace
  <2>2. QED
    BY <2>1, RestStreamAgent
<1>3. ASSUME NEW k \in {"cancel", "replace"}, BeginCancel(o, k), pc[o] = "idle"
      PROVE  /\ pc'[o] = "interrupting" /\ op'[o].kind = k
             /\ \A p \in Ops \ {o} : pc'[p] = pc[p] /\ op'[p] = op[p]
             /\ UNCHANGED <<queue, busy, sturn>>
  <2>1. PICK c : c = [op[o] EXCEPT !.kind = k, !.obj = cur, !.run = pending,
                                   !.turn = objs[cur].active]
    OBVIOUS
  <2>2. c.kind = k
    BY <1>1, <2>1 DEF Call
  <2>3. op' = [op EXCEPT ![o] = c]
    BY <1>1, <1>3, <2>1 DEF BeginCancel, TypeOK
  <2>4. QED
    BY <1>1, <1>3, <2>2, <2>3 DEF BeginCancel, Goto, TypeOK, events, provider
<1>4. CASE Cancel(o)
  <2>1. cur # None /\ pc[o] = "idle" /\ objs' = objs /\ BeginCancel(o, "cancel")
    BY <1>4 DEF Cancel
  <2>2. ~Pends(o)
    BY <2>1 DEF Pends, ReplaceLabels
  <2>3. QED
    BY <1>3, <2>1, <2>2, LifeSame, RestMoves
<1>5. CASE BeginCancel(o, "replace") /\ Replace(o)
           /\ Store(cur, [objs[cur] EXCEPT !.replacing = TRUE, !.lifecycle = "running"], TRUE)
  <2>1. cur # None /\ cur = First /\ pc[o] = "idle"
    BY <1>1, <1>5 DEF Replace
  <2>2. PICK a : a = [objs[First] EXCEPT !.replacing = TRUE, !.lifecycle = "running"]
    OBVIOUS
  <2>3. a \in Agent /\ a.active = objs[First].active
    BY <1>1, <2>2 DEF Agent, Lifecycles
  <2>4. Kept(objs'[First], a)
    BY <1>1, <1>5, <2>1, <2>2, <2>3, StoreKept, RestFacts
  <2>5. objs'[First].active = objs[First].active
    BY <2>3, <2>4 DEF Kept
  <2>6. Pends(o)' /\ Replaces(o)'
    BY <1>3, <1>5, <2>1 DEF Pends, Replaces, ReplaceLabels
  <2>7. \A p \in Ops : Held(p) => Held(p)'
    BY <1>3, <1>5, <2>1, <2>5 DEF Held
  <2>8. EndsLast' /\ AppendLast' /\ StartedOpen'
    BY <1>3, <1>5, <2>1, <2>7, RestQueue
  <2>9. ReplacementRuns' /\ RunningExplained'
    BY <1>3, <1>5, <2>1, <2>6, RestLife
  <2>10. QED
    BY <2>8, <2>9 DEF Explained
<1>6. CASE \E p \in Perms : Respond(o, p)
  <2>1. PICK p \in Perms : Respond(o, p)
    BY <1>6
  <2>2. cur # None /\ cur = First /\ pc[o] = "idle" /\ Goto(o, "responding")
        /\ UNCHANGED <<queue, busy, sturn>>
    BY <1>1, <2>1 DEF Respond, provider, events
  <2>3. PICK a : a = [objs[First] EXCEPT !.inFlight = @ \cup {p}]
    OBVIOUS
  <2>4. /\ a.active = objs[First].active /\ a.replacing = objs[First].replacing
        /\ a.lifecycle = objs[First].lifecycle
    BY <1>1, <2>3 DEF Agent
  <2>5. objs' = [objs EXCEPT ![First] = a]
    BY <1>1, <2>1, <2>2, <2>3 DEF Respond, TypeOK
  <2>6. SameLife
    BY <2>4, <2>5, LifeAssigned
  <2>7. \A q \in Ops \ {o} : pc'[q] = pc[q] /\ op'[q] = op[q]
    BY <1>1, <2>1 DEF Respond, Goto, TypeOK
  <2>8. ~Pends(o)
    BY <2>2 DEF Pends, ReplaceLabels
  <2>9. QED
    BY <2>2, <2>6, <2>7, <2>8, RestMoves
<1>7. ~(Rewind(o) \/ Reload(o) \/ Open(o))
  BY DEF Rewind, Reload, Open, OddKinds
<1>8. ~Close(o)
  BY DEF Close
<1>9. QED
  BY <1>2, <1>4, <1>5, <1>6, <1>7, <1>8 DEF Begin, Replace

\* The steps that only emit, refresh, report or move on.
LEMMA RestQuietSteps ==
    ASSUME RestInv, cur # None, NEW o \in Ops,
           \/ Refresh(o) \/ Interrupted(o) \/ StaleSettled(o)
           \/ Closed(o) \/ Responded(o) \/ Refreshed(o) \/ Persisted(o)
    PROVE  Explained'
<1> DEFINE p == op[o].perm
           a == objs[First]
<1>1. a \in Agent /\ First \in Objs /\ TypeOK /\ IdleInv
  BY RestFacts
<1>2. pc[o] \notin {"idle", "closing", "registering", "done"} => op[o].obj = First
  BY <1>1, CapturedFirst
<1>3. CASE Interrupted(o)
  <2>1. /\ Goto(o, "waiting") /\ op' = op /\ UNCHANGED <<queue, busy, sturn>>
        /\ objs' = objs /\ pc[o] = "interrupting"
    BY <1>3 DEF Interrupted, events, provider
  <2>2. QED
    BY <2>1, LifeSame, RestGoes DEF ReplaceLabels
<1>4. CASE Closed(o)
  <2>1. /\ Goto(o, "done") /\ op' = op /\ UNCHANGED <<queue, busy, sturn>>
        /\ objs' = objs /\ pc[o] = "closing"
    BY <1>4 DEF Closed, events, provider
  <2>2. ~Pends(o)
    BY <2>1 DEF Pends, ReplaceLabels
  <2>3. QED
    BY <2>1, <2>2, LifeSame, RestGoes
<1>5. CASE Refresh(o)
  <2>1. PICK changed \in BOOLEAN : Store(First, a, changed)
    BY <1>2, <1>5 DEF Refresh
  <2>2. /\ Goto(o, "done") /\ op' = op /\ UNCHANGED <<queue, busy, sturn>>
        /\ pc[o] = "refresh"
    BY <1>5 DEF Refresh, events, provider
  <2>3. ~Pends(o)
    BY <2>2 DEF Pends, ReplaceLabels
  <2>4. SameLife
    BY <1>1, <2>1, LifeStored
  <2>5. QED
    BY <2>2, <2>3, <2>4, RestGoes
<1>6. CASE StaleSettled(o)
  <2>1. PICK b : b = Cleared(a)
    OBVIOUS
  <2>2. /\ b \in Agent /\ b.active = a.active /\ b.replacing = a.replacing
        /\ b.lifecycle = a.lifecycle
    BY <1>1, <2>1 DEF Cleared, Agent
  <2>3. PICK emit : Store(First, b, emit)
    BY <1>2, <1>6, <2>1 DEF StaleSettled
  <2>4. PICK l : l = IF op[o].kind = "cancel" THEN "done" ELSE "resume"
    OBVIOUS
  <2>5. /\ Goto(o, l) /\ op' = op /\ UNCHANGED <<queue, busy, sturn>> /\ pc[o] = "stale"
    BY <1>6, <2>4 DEF StaleSettled, AfterCancel, events, provider
  <2>6. Pends(o) => l \in ReplaceLabels
    BY <2>4 DEF Pends, ReplaceLabels
  <2>7. SameLife
    BY <2>2, <2>3, LifeStored
  <2>8. QED
    BY <2>5, <2>6, <2>7, RestGoes
<1>7. CASE Responded(o) \/ Refreshed(o)
  <2>1. op[o].obj = First
    BY <1>2, <1>7 DEF Responded, Refreshed
  <2>2. \/ objs' = [objs EXCEPT ![First] = [a EXCEPT !.perms = @ \ {p}]]
        \/ objs' = [objs EXCEPT ![First] = [a EXCEPT !.inFlight = @ \ {p}, !.buffered = @ \ {p}]]
        \/ objs' = [objs EXCEPT ![First] = [a EXCEPT !.perms = sperms[First]]]
    BY <1>1, <1>7, <2>1 DEF Responded, Refreshed, TypeOK
  <2>3. PICK b : /\ objs' = [objs EXCEPT ![First] = b]
                 /\ b.active = a.active /\ b.replacing = a.replacing
                 /\ b.lifecycle = a.lifecycle
    BY <1>1, <2>2 DEF Agent
  <2>4. PICK l : /\ Goto(o, l) /\ op' = op /\ UNCHANGED <<queue, busy, sturn>>
                 /\ pc[o] \in {"responding", "refreshing"}
    BY <1>7 DEF Responded, Refreshed, events, provider
  <2>5. ~Pends(o)
    BY <2>4 DEF Pends, ReplaceLabels
  <2>6. SameLife
    BY <2>3, LifeAssigned
  <2>7. QED
    BY <2>4, <2>5, <2>6, RestGoes
<1>8. CASE Persisted(o)
  <2>1. PICK b : b = [a EXCEPT !.inFlight = @ \ {p}, !.buffered = @ \ {p}]
    OBVIOUS
  <2>2. /\ b \in Agent /\ b.active = a.active /\ b.replacing = a.replacing
        /\ b.lifecycle = a.lifecycle
    BY <1>1, <2>1 DEF Agent
  <2>3. Store(First, b, TRUE)
    BY <1>2, <1>8, <2>1 DEF Persisted
  <2>4. /\ Goto(o, "done") /\ op' = op /\ UNCHANGED <<queue, busy, sturn>>
        /\ pc[o] = "persisting"
    BY <1>8 DEF Persisted, events, provider
  <2>5. ~Pends(o)
    BY <2>4 DEF Pends, ReplaceLabels
  <2>6. SameLife
    BY <2>2, <2>3, LifeStored
  <2>7. QED
    BY <2>4, <2>5, <2>6, RestGoes
<1>9. QED
  BY <1>3, <1>4, <1>5, <1>6, <1>7, <1>8

\* replaceAgentRun goes on, or gives up: it takes the pending mark back, and an
\* agent it has only marked as running is idle again.
LEMMA RestReplaceResumes ==
    ASSUME RestInv, cur # None, NEW o \in Ops, ReplaceResumes(o)
    PROVE  Explained'
<1>1. CASE StreamAgent(o, "replace")
  BY <1>1, RestStreamAgent DEF ReplaceResumes
<1>2. CASE /\ Goto(o, "catch")
           /\ UNCHANGED <<cur, objs, prevStatus, slot, streams, op, events, provider>>
  <2>1. pc[o] = "resume" /\ UNCHANGED <<queue, busy, sturn>>
    BY <1>2 DEF ReplaceResumes, events, provider
  <2>2. QED
    BY <1>2, <2>1, LifeSame, RestGoes DEF ReplaceLabels
<1>3. QED
  BY <1>1, <1>2 DEF ReplaceResumes

LEMMA RestCatch ==
    ASSUME RestInv, cur # None, NEW o \in Ops, ReplaceCatch(o)
    PROVE  Explained'
<1> DEFINE b == [objs[cur] EXCEPT !.replacing = FALSE]
           drop == b.active = None /\ b.lifecycle = "running"
<1>1. TypeOK /\ TypeInv /\ First \in Objs /\ objs[First] \in Agent /\ cur = First
  BY RestFacts
<1>2. pc[o] = "catch" /\ Goto(o, "done") /\ op' = op /\ UNCHANGED <<queue, busy, sturn>>
  BY DEF ReplaceCatch, events, provider
<1>3. pc'[o] = "done" /\ \A p \in Ops \ {o} : pc'[p] = pc[p]
  BY <1>1, <1>2 DEF Goto, TypeOK
<1>4. PICK d : d = IF drop THEN [b EXCEPT !.lifecycle = "idle"] ELSE b
  OBVIOUS
<1>5. /\ d \in Agent /\ d.active = objs[First].active /\ d.replacing = FALSE
      /\ d.lifecycle = "running" => d.active # None
  BY <1>1, <1>4 DEF Agent, Lifecycles
<1>6. Store(First, d, drop)
  BY <1>1, <1>4 DEF ReplaceCatch
<1>7. Kept(objs'[First], d)
  BY <1>1, <1>5, <1>6, StoreKept
<1>8. /\ objs'[First].active = objs[First].active /\ ~objs'[First].replacing
      /\ objs'[First].lifecycle = "running" => objs'[First].active # None
  BY <1>5, <1>7 DEF Kept
<1>9. \A p \in Ops : Held(p) => Held(p)'
  BY <1>2, <1>3, <1>8 DEF Held
<1>10. EndsLast' /\ AppendLast' /\ StartedOpen'
  BY <1>2, <1>9, RestQueue
<1>11. ReplacementRuns' /\ RunningExplained'
  BY <1>2, <1>3, <1>8, RestLife
<1>12. QED
  BY <1>10, <1>11 DEF Explained

LEMMA RestAfterWait ==
    ASSUME RestInv, cur # None, NEW o \in Ops, AfterWait(o)
    PROVE  Explained'
<1>1. /\ pc[o] = "waiting" /\ WaitOver(o) /\ op[o].obj = First
      /\ UNCHANGED <<queue, busy, sturn>>
  BY CapturedFirst, RestFacts DEF AfterWait, provider
<1>2. PICK a : a = objs[First]
  OBVIOUS
<1>3. a \in Agent /\ First \in Objs /\ TypeOK /\ TypeInv /\ IdleInv
  BY <1>2, RestFacts
<1>4. /\ \A p \in Ops \ {o} : pc'[p] = pc[p] /\ op'[p] = op[p]
      /\ Pends(o) => Pends(o)'
  <2>1. CASE Stuck(o) /\ pending # None
    <3>1. PICK c : c = [op[o] EXCEPT !.run = pending]
      OBVIOUS
    <3>2. op[o] \in Call
      BY <1>3 DEF TypeOK
    <3>3. c.kind = op[o].kind
      BY <3>1, <3>2 DEF Call
    <3>4. op' = [op EXCEPT ![o] = c] /\ pc' = [pc EXCEPT ![o] = "stale"]
      BY <1>3, <2>1, <3>1 DEF AfterWait, Goto, TypeOK
    <3>5. op'[o] = c /\ pc'[o] = "stale"
      BY <1>3, <3>4 DEF TypeOK
    <3>6. Pends(o) => Pends(o)'
      BY <3>3, <3>5 DEF Pends, ReplaceLabels
    <3>7. QED
      BY <1>3, <3>4, <3>6 DEF TypeOK
  <2>2. CASE ~(Stuck(o) /\ pending # None)
    <3>1. PICK l : l = IF op[o].kind = "cancel" THEN "done" ELSE "resume"
      OBVIOUS
    <3>2. op' = op /\ pc' = [pc EXCEPT ![o] = l]
      BY <2>2, <3>1 DEF AfterWait, AfterCancel, Goto
    <3>3. pc'[o] = l
      BY <1>3, <3>2 DEF TypeOK
    <3>4. Pends(o) => Pends(o)'
      BY <3>1, <3>2, <3>3 DEF Pends, ReplaceLabels
    <3>5. QED
      BY <1>3, <3>2, <3>4 DEF TypeOK
  <2>3. QED
    BY <2>1, <2>2
<1>5. CASE ~Stuck(o)
  <2>1. PICK b : b = Cleared(a)
    OBVIOUS
  <2>2. /\ b \in Agent /\ b.active = a.active /\ b.replacing = a.replacing
        /\ b.lifecycle = a.lifecycle
    BY <1>3, <2>1 DEF Cleared, Agent
  <2>3. PICK emit : Store(First, b, emit)
    BY <1>1, <1>2, <1>5, <2>1 DEF AfterWait
  <2>4. SameLife
    BY <1>2, <2>2, <2>3, LifeStored
  <2>5. QED
    BY <1>1, <1>4, <2>4, RestMoves
<1>6. CASE Stuck(o)
  <2>1. queue = <<>>
    BY <1>1, <1>3, <1>6, StuckIsQuiet
  <2>2. EndsLast' /\ AppendLast' /\ StartedOpen'
    BY <1>1, <2>1, RestQueue
  <2>3. PICK c : c = [a EXCEPT !.err = FALSE, !.perms = {}]
    OBVIOUS
  <2>4. c \in Agent /\ c.replacing = a.replacing /\ c.err = FALSE
    BY <1>3, <2>3 DEF Agent
  <2>5. PICK t : t = op[o].turn
    OBVIOUS
  <2>6. t \in Ops
    BY <1>3, <1>6, <2>5 DEF Stuck, TypeOK, Call
  <2>7. PICK f : f = Finalized(c, {t})
    OBVIOUS
  <2>8. /\ f \in Agent /\ f.replacing = a.replacing
        /\ f.lifecycle = "running" => f.replacing
    BY <2>4, <2>6, <2>7, FinalizedFields DEF HoldsBusy
  <2>9. PICK emit : Store(First, f, emit)
    BY <1>1, <1>2, <1>6, <2>3, <2>5, <2>7 DEF AfterWait
  <2>10. Kept(objs'[First], f)
    BY <1>3, <2>8, <2>9, StoreKept
  <2>11. /\ objs'[First].replacing = objs[First].replacing
         /\ objs'[First].lifecycle = "running" => objs'[First].replacing
    BY <1>2, <2>8, <2>10 DEF Kept
  <2>12. ReplacementRuns' /\ RunningExplained'
    BY <1>1, <1>4, <2>11, RestLife
  <2>13. QED
    BY <2>2, <2>12 DEF Explained
<1>7. QED
  BY <1>5, <1>6

\* startTurn resolves, or rejects.
LEMMA RestStartResolves ==
    ASSUME RestInv, cur # None, NEW o \in Ops, StartResolves(o)
    PROVE  Explained'
<1>1. /\ pc[o] = "starting" /\ Goto(o, "streaming") /\ op' = op
      /\ UNCHANGED <<queue, busy, sturn>>
  BY DEF StartResolves, events, provider
<1>2. /\ objs[First] \in Agent /\ op[o].obj = First /\ cur = First /\ TypeOK /\ TypeInv
      /\ First \in Objs /\ IdleInv /\ None \notin Ops
  BY <1>1, RestFacts, CapturedFirst
<1>3. PICK a : a = [objs[First] EXCEPT !.active = o, !.lifecycle = "running",
                                       !.waiters = @ \cup {o}]
  OBVIOUS
<1>4. a \in Agent /\ a.active = o /\ a.replacing = objs[First].replacing
  BY <1>2, <1>3 DEF Agent, Lifecycles
<1>5. Store(First, a, TRUE)
  BY <1>2, <1>3 DEF StartResolves
<1>6. objs'[First].active = o /\ objs'[First].replacing = objs[First].replacing
  BY <1>2, <1>4, <1>5, StoreKept DEF Kept
<1>7. objs[First].active = None
  BY <1>1, <1>2, NoTurnWhileStarting, IdleFacts
<1>8. pc'[o] = "streaming" /\ \A p \in Ops \ {o} : pc'[p] = pc[p]
  BY <1>1, <1>2 DEF Goto, TypeOK
<1>9. \A p \in Ops : Held(p) => Held(p)'
  BY <1>1, <1>2, <1>6, <1>7, <1>8 DEF Held
<1>10. EndsLast' /\ AppendLast' /\ StartedOpen'
  BY <1>1, <1>9, RestQueue
<1>11. ~Pends(o) /\ objs'[First].active # None
  BY <1>1, <1>2, <1>6 DEF Pends, ReplaceLabels
<1>12. ReplacementRuns' /\ RunningExplained'
  BY <1>1, <1>6, <1>8, <1>11, RestLife
<1>13. QED
  BY <1>10, <1>12 DEF Explained

LEMMA RestStartThrows ==
    ASSUME RestInv, cur # None, NEW o \in Ops, StartThrows(o)
    PROVE  Explained'
<1>1. /\ pc[o] = "starting" /\ Goto(o, "failing") /\ op' = op
      /\ UNCHANGED <<queue, busy>> /\ sturn[o] \in {"none", "open"}
  BY DEF StartThrows, events
<1>2. /\ objs[First] \in Agent /\ op[o].obj = First /\ cur = First /\ TypeOK
      /\ First \in Objs
  BY <1>1, RestFacts, CapturedFirst
<1>3. PICK a : a = [objs[First] EXCEPT !.lifecycle = "error", !.err = TRUE]
  OBVIOUS
<1>4. /\ a.lifecycle = "error" /\ a.active = objs[First].active
      /\ a.replacing = objs[First].replacing
  BY <1>2, <1>3 DEF Agent
<1>5. objs' = [objs EXCEPT ![First] = a]
  BY <1>2, <1>3 DEF StartThrows, TypeOK
<1>6. objs'[First] = a
  BY <1>2, <1>5 DEF TypeOK
<1>7. pc'[o] = "failing" /\ \A p \in Ops \ {o} : pc'[p] = pc[p] /\ sturn'[p] = sturn[p]
  BY <1>1, <1>2 DEF Goto, TypeOK, StartThrows
<1>8. \A p \in Ops : Held(p) => Held(p)'
  BY <1>1, <1>4, <1>6, <1>7 DEF Held
<1>9. \A p \in Ops : sturn[p] = "ended" => sturn'[p] = "ended"
  BY <1>1, <1>7
<1>10. EndsLast' /\ AppendLast' /\ StartedOpen'
  BY <1>1, <1>8, <1>9, RestQueue
<1>11. ~Pends(o)
  BY <1>1 DEF Pends, ReplaceLabels
<1>12. ReplacementRuns' /\ RunningExplained'
  BY <1>1, <1>4, <1>6, <1>7, <1>11, RestLife
<1>13. QED
  BY <1>10, <1>12 DEF Explained

\* The failure has been reported: the agent shows it, or is held busy for the
\* replacement that is pending.
LEMMA RestStartFailed ==
    ASSUME RestInv, cur # None, NEW o \in Ops, StartFailed(o)
    PROVE  Explained'
<1>1. /\ pc[o] = "failing" /\ op' = op /\ UNCHANGED <<queue, busy, sturn>>
      /\ Goto(o, IF op[o].kind = "replace" THEN "catch" ELSE "done")
  BY DEF StartFailed, events, provider
<1>2. /\ objs[First] \in Agent /\ op[o].obj = First /\ cur = First /\ TypeOK
      /\ First \in Objs /\ IdleInv
  BY <1>1, RestFacts, CapturedFirst
<1>3. objs[First].active = None
  BY <1>1, <1>2, NoTurnWhileStarting, IdleFacts
<1>4. /\ objs'[First].active = None
      /\ objs'[First].replacing = objs[First].replacing
      /\ objs'[First].lifecycle = "running" => objs'[First].replacing
  <2>1. PICK c : c = [objs[First] EXCEPT !.perms = {}]
    OBVIOUS
  <2>2. c \in Agent /\ Kept(c, objs[First])
    BY <1>2, <2>1 DEF Agent, Kept
  <2>3. PICK r : r = Attend(c, prevStatus)
    OBVIOUS
  <2>4. r \in Agent /\ Kept(r, c)
    BY <2>2, <2>3, AttendMarks, MarkedAgent, MarkedKept
  <2>5. PICK f : f = Finalized(r, {})
    OBVIOUS
  <2>6. /\ f \in Agent /\ f.active = None /\ f.replacing = r.replacing
        /\ f.lifecycle = "running" => f.replacing
    <3>1. {} \in SUBSET Ops
      OBVIOUS
    <3>2. QED
      BY <2>4, <2>5, <3>1, FinalizedFields DEF HoldsBusy
  <2>7. PICK b : objs' = [objs EXCEPT ![First] = b] /\ (b = f \/ b = Attend(f, r.lifecycle))
    BY <1>2, <2>1, <2>3, <2>5 DEF StartFailed
  <2>8. Kept(b, f)
    BY <2>6, <2>7, AttendMarks, MarkedKept DEF Kept
  <2>9. objs'[First] = b
    BY <1>2, <2>7 DEF TypeOK
  <2>10. QED
    BY <2>2, <2>4, <2>6, <2>8, <2>9 DEF Kept
<1>5. \A p \in Ops \ {o} : pc'[p] = pc[p]
  BY <1>1, <1>2 DEF Goto, TypeOK
<1>6. \A p \in Ops : Held(p) => Held(p)'
  BY <1>1, <1>2, <1>3, <1>4, <1>5 DEF Held
<1>7. EndsLast' /\ AppendLast' /\ StartedOpen'
  BY <1>1, <1>6, RestQueue
<1>8. ~Pends(o)
  BY <1>1 DEF Pends, ReplaceLabels
<1>9. ReplacementRuns' /\ RunningExplained'
  BY <1>1, <1>4, <1>5, <1>8, RestLife
<1>10. QED
  BY <1>7, <1>9 DEF Explained

LEMMA RestDrain ==
    ASSUME RestInv, cur # None, NEW o \in Ops, Drain(o)
    PROVE  Explained'
<1>1. PICK l : /\ pc[o] = "streaming" /\ Goto(o, l) /\ op' = op
               /\ UNCHANGED <<queue, busy, sturn>>
  BY DEF Drain, events, provider
<1>2. objs[First] \in Agent /\ op[o].obj = First /\ TypeOK
  BY <1>1, RestFacts, CapturedFirst
<1>3. PICK a : a = [objs[First] EXCEPT !.waiters = @ \ {o}]
  OBVIOUS
<1>4. /\ a.active = objs[First].active /\ a.replacing = objs[First].replacing
      /\ a.lifecycle = objs[First].lifecycle
  BY <1>2, <1>3 DEF Agent
<1>5. objs' = [objs EXCEPT ![First] = a]
  BY <1>2, <1>3 DEF Drain, TypeOK
<1>6. SameLife
  BY <1>4, <1>5, LifeAssigned
<1>7. ~Pends(o)
  BY <1>1 DEF Pends, ReplaceLabels
<1>8. QED
  BY <1>1, <1>6, <1>7, RestGoes

-----------------------------------------------------------------------------
(* At rest: the chain, the provider and the rest *)

\* No call takes a step.
LEMMA LifeElsewhere ==
    ASSUME RestInv, cur # None, UNCHANGED <<pc, op>>,
           \A p \in Ops : Starts(p) => Starts(p)',
           objs'[First].replacing => objs[First].replacing,
           objs'[First].lifecycle = "running" =>
             \/ objs'[First].active # None \/ objs'[First].replacing
             \/ \E p \in Ops : Starts(p)
             \/ objs[First].lifecycle = "running" /\ objs[First].active = None
    PROVE  ReplacementRuns' /\ RunningExplained'
<1>1. ReplacementRuns /\ RunningExplained
  BY RestFacts DEF Explained
<1>2. ReplacementRuns'
  BY <1>1 DEF ReplacementRuns
<1>3. objs'[First].replacing => \E p \in Ops : Replaces(p)'
  BY <1>2 DEF ReplacementRuns, Replaces
<1>4. \A p \in Ops : Replaces(p) => Replaces(p)'
  BY DEF Replaces
<1>5. RunningExplained'
  BY <1>1, <1>3, <1>4 DEF RunningExplained
<1>6. QED
  BY <1>2, <1>5

\* Nothing but the mark, the requests, the waiters and the slot changes.
LEMMA RestStays ==
    ASSUME RestInv, cur # None, UNCHANGED <<queue, busy, sturn, pc, op>>, SameLife
    PROVE  Explained'
<1>1. \A p \in Ops : Held(p) => Held(p)'
  BY DEF Held, SameLife
<1>2. EndsLast' /\ AppendLast' /\ StartedOpen'
  BY <1>1, RestQueue
<1>3. \A p \in Ops : Starts(p) => Starts(p)'
  BY DEF Starts
<1>4. ReplacementRuns' /\ RunningExplained'
  BY <1>3, LifeElsewhere DEF SameLife
<1>5. QED
  BY <1>2, <1>4 DEF Explained

LEMMA RestNotifies ==
    ASSUME RestInv, cur # None, Notify \/ \E o \in Ops : NotifyForced(o)
    PROVE  Explained'
<1>1. UNCHANGED <<objs, pc, op, queue, sturn>> /\ busy' \in {busy, NoEvent}
  BY DEF Notify, NotifyForced, provider
<1>2. CASE busy' = busy
  BY <1>1, <1>2, LifeSame, RestStays
<1>3. CASE busy' = NoEvent
  <2>1. Explained
    BY RestFacts
  <2>2. Chained' = Chained
    BY <1>1 DEF Chained
  <2>3. EndsLast' /\ StartedOpen'
    BY <1>1, <2>1, <2>2 DEF Explained, EndsLast, StartedOpen
  <2>4. AppendLast'
    BY <1>3 DEF AppendLast
  <2>5. \A p \in Ops : Starts(p) => Starts(p)'
    BY <1>1 DEF Starts
  <2>6. ReplacementRuns' /\ RunningExplained'
    BY <1>1, <2>1, <2>5 DEF Explained, ReplacementRuns, RunningExplained, Replaces, Starts
  <2>7. QED
    BY <2>3, <2>4, <2>6 DEF Explained
<1>4. QED
  BY <1>1, <1>2, <1>3

LEMMA RestEmission ==
    ASSUME RestInv, StateEmitted \/ ClearAttention
    PROVE  Explained'
<1>1. cur # None /\ UNCHANGED <<queue, busy, sturn, pc, op>>
  BY DEF StateEmitted, ClearAttention, events, provider
<1>2. cur = First /\ objs[First] \in Agent
  BY <1>1, RestFacts
<1>3. PICK c : c = [objs[First] EXCEPT !.attention = "none"]
  OBVIOUS
<1>4. /\ c \in Agent /\ c.active = objs[First].active
      /\ c.replacing = objs[First].replacing /\ c.lifecycle = objs[First].lifecycle
  BY <1>2, <1>3 DEF Agent, Attentions
<1>5. Store(First, objs[First], TRUE) \/ Store(First, c, FALSE)
  BY <1>2, <1>3 DEF StateEmitted, ClearAttention
<1>6. SameLife
  BY <1>2, <1>4, <1>5, LifeStored
<1>7. QED
  BY <1>1, <1>6, RestStays

\* The first event leaves the chain; its turn may be over with it.
LEMMA RestTaken ==
    ASSUME RestInv, cur # None, queue # <<>>, queue' = Tail(queue),
           UNCHANGED <<pc, op, sturn>>,
           busy' # NoEvent /\ busy'.phase = "append" =>
             \/ busy' = busy
             \/ Head(queue).type \in TerminalTypes /\ busy'.e = Head(queue),
           \/ objs'[First].active = objs[First].active
           \/ /\ Head(queue).type \in TerminalTypes
              /\ objs[First].active = Head(queue).turn
    PROVE  EndsLast' /\ AppendLast' /\ StartedOpen'
<1>1. /\ EndsLast /\ AppendLast /\ StartedOpen /\ Tidy /\ TypeInv
  BY RestFacts DEF Explained
<1>2. /\ EndsLast' /\ Chained' \subseteq Chained
      /\ Head(queue).type \in TerminalTypes =>
           \A e \in Chained' : e.turn # Head(queue).turn
  BY <1>1, QueueTail
<1>3. Head(queue) \in Chained
  BY <1>1, ChainTail
<1>4. Head(queue).type \in TerminalTypes =>
        Head(queue).turn \in Ops /\ sturn[Head(queue).turn] = "ended"
  BY <1>1, <1>3 DEF Tidy, EndsTold
<1>5. AppendLast'
  BY <1>1, <1>2, <1>4 DEF AppendLast
<1>6. StartedOpen'
  BY <1>1, <1>2 DEF StartedOpen
<1>7. QED
  BY <1>2, <1>5, <1>6

LEMMA RestReceived ==
    ASSUME RestInv, NEW type, Receives(type)
    PROVE  /\ cur # None /\ cur = First /\ Tidy /\ Explained /\ TypeInv /\ First \in Objs
           /\ objs[First] \in Agent /\ Head(queue) \in Chained /\ Head(queue) \in Event
           /\ queue # <<>> /\ queue' = Tail(queue) /\ Head(queue).type = type
           /\ busy = NoEvent /\ UNCHANGED <<pc, op, sturn, cur>>
<1>1. /\ queue # <<>> /\ queue' = Tail(queue) /\ Head(queue).type = type
      /\ busy = NoEvent /\ UNCHANGED <<pc, op, sturn, cur>> /\ cur # None
  BY DEF Receives, provider
<1>2. Head(queue) \in Chained
  BY <1>1, ChainTail, RestFacts
<1>3. QED
  BY <1>1, <1>2, RestFacts

LEMMA RestTerminates ==
    ASSUME RestInv, NEW type \in TerminalTypes, Receives(type),
           Dispatching("notify"), NEW b \in Agent, NEW emit,
           Terminate(cur, b, Foreground, Head(queue).turn, emit),
           b.active = objs[First].active, b.replacing = objs[First].replacing,
           b.lifecycle \in {"idle", objs[First].lifecycle}
    PROVE  Explained'
<1>1. /\ cur # None /\ cur = First /\ TypeInv /\ First \in Objs /\ IdleInv
      /\ queue # <<>> /\ queue' = Tail(queue) /\ Head(queue).type = type
      /\ UNCHANGED <<pc, op, sturn>> /\ Head(queue).turn \in Ops
  BY RestReceived, RestFacts DEF Tidy, EndsTold
<1>2. busy' # NoEvent /\ busy'.phase # "append"
  BY DEF Dispatching, NoEvent
<1>3. /\ objs'[First].replacing = objs[First].replacing
      /\ \/ objs'[First].active = objs[First].active
         \/ objs[First].active = Head(queue).turn
      /\ objs'[First].lifecycle = "running" =>
           \/ objs'[First].replacing
           \/ objs[First].lifecycle = "running" /\ objs[First].active = None
  <2>1. CASE Foreground
    <3>1. PICK t : t = Head(queue).turn
      OBVIOUS
    <3>2. PICK f : f = Finalized(b, {t})
      OBVIOUS
    <3>3. {t} \in SUBSET Ops
      BY <1>1, <3>1
    <3>4. /\ f \in Agent /\ f.replacing = b.replacing
          /\ f.lifecycle = "running" => f.replacing
      BY <3>2, <3>3, FinalizedFields DEF HoldsBusy
    <3>5. Store(First, f, ~HoldsBusy(b))
      BY <1>1, <2>1, <3>1, <3>2 DEF Terminate
    <3>6. Kept(objs'[First], f)
      BY <1>1, <3>4, <3>5, StoreKept
    <3>7. objs[First].active = Head(queue).turn
      BY <1>1, <2>1 DEF Foreground
    <3>8. QED
      BY <3>4, <3>6, <3>7 DEF Kept
  <2>2. CASE ~Foreground
    <3>1. Store(First, b, emit)
      BY <1>1, <2>2 DEF Terminate
    <3>2. Kept(objs'[First], b)
      BY <1>1, <3>1, StoreKept
    <3>3. objs[First].active = None
      BY <1>1, <2>2, BackgroundFree
    <3>4. QED
      BY <3>2, <3>3 DEF Kept
  <2>3. QED
    BY <2>1, <2>2
<1>4. EndsLast' /\ AppendLast' /\ StartedOpen'
  BY <1>1, <1>2, <1>3, RestTaken
<1>5. \A p \in Ops : Starts(p) => Starts(p)'
  BY <1>1 DEF Starts
<1>6. ReplacementRuns' /\ RunningExplained'
  BY <1>1, <1>3, <1>5, LifeElsewhere
<1>7. QED
  BY <1>4, <1>6 DEF Explained

\* A failure has been appended: it ends the foreground turn, whose start has
\* been dispatched before.
LEMMA RestFailureAppended ==
    ASSUME RestInv, cur # None, FailureAppended
    PROVE  Explained'
<1>1. /\ busy.phase = "append" /\ busy # NoEvent /\ busy' # NoEvent
      /\ busy'.phase # "append" /\ UNCHANGED <<queue, pc, op, sturn>>
  <2>1. busy.phase = "append" /\ busy # NoEvent /\ UNCHANGED <<queue, pc, op, sturn>>
    BY DEF FailureAppended, NoEvent, provider
  <2>2. busy \in Dispatch
    BY <2>1, RestFacts DEF TypeOK
  <2>3. busy'.phase = "notify"
    BY <2>2 DEF FailureAppended, Dispatch
  <2>4. QED
    BY <2>1, <2>3 DEF NoEvent
<1>2. /\ Tidy /\ Explained /\ TypeInv /\ First \in Objs /\ objs[First] \in Agent
  BY RestFacts
<1>3. /\ busy.g = First /\ busy.e.turn \in Ops
      /\ \A e \in Chained : e.turn # busy.e.turn
      /\ busy.fg => objs[First].active = busy.e.turn
  BY <1>1, <1>2 DEF Tidy, NotifyFinal, Appending, Explained, AppendLast
<1>4. PICK b : b = [objs[First] EXCEPT !.perms = {}]
  OBVIOUS
<1>5. /\ b \in Agent /\ b.active = objs[First].active
      /\ b.replacing = objs[First].replacing /\ b.lifecycle = objs[First].lifecycle
  BY <1>2, <1>4 DEF Agent
<1>6. Terminate(First, b, busy.fg, busy.e.turn, TRUE)
  BY <1>3, <1>4 DEF FailureAppended
<1>7. Chained' = Chained
  BY <1>1 DEF Chained
<1>8. EndsLast' /\ AppendLast'
  BY <1>1, <1>2 DEF Explained, EndsLast, AppendLast
<1>9. \A p \in Ops : Starts(p) => Starts(p)'
  BY <1>1 DEF Starts
<1>10. CASE busy.fg
  <2>1. PICK t : t = busy.e.turn
    OBVIOUS
  <2>2. PICK f : f = Finalized(b, {t})
    OBVIOUS
  <2>3. {t} \in SUBSET Ops
    BY <1>3, <2>1
  <2>4. /\ f \in Agent /\ f.replacing = b.replacing
        /\ f.lifecycle = "running" => f.replacing
    BY <1>5, <2>2, <2>3, FinalizedFields DEF HoldsBusy
  <2>5. Store(First, f, ~HoldsBusy(b))
    BY <1>6, <1>10, <2>1, <2>2 DEF Terminate
  <2>6. Kept(objs'[First], f)
    BY <1>2, <2>4, <2>5, StoreKept
  <2>7. ReplacementRuns' /\ RunningExplained'
    BY <1>1, <1>5, <1>9, <2>4, <2>6, LifeElsewhere DEF Kept
  <2>8. StartedOpen'
    BY <1>1, <1>2, <1>3, <1>7, <1>10 DEF Explained, StartedOpen
  <2>9. QED
    BY <1>8, <2>7, <2>8 DEF Explained
<1>11. CASE ~busy.fg
  <2>1. Store(First, b, TRUE)
    BY <1>6, <1>11 DEF Terminate
  <2>2. SameLife
    BY <1>5, <2>1, LifeStored
  <2>3. StartedOpen'
    BY <1>1, <1>2, <1>7, <2>2 DEF Explained, StartedOpen, SameLife
  <2>4. ReplacementRuns' /\ RunningExplained'
    BY <1>1, <1>9, <2>2, LifeElsewhere, <1>2 DEF SameLife, Explained, RunningExplained
  <2>5. QED
    BY <1>8, <2>3, <2>4 DEF Explained
<1>12. QED
  BY <1>10, <1>11

LEMMA RestChain ==
    ASSUME RestInv, cur # None, Chain
    PROVE  Explained'
<1> DEFINE a == objs[cur]
<1>1. CASE EventDropped
  <2>1. queue # <<>> /\ queue' = Tail(queue) /\ UNCHANGED <<objs, busy, sturn, pc, op>>
    BY <1>1 DEF EventDropped, provider
  <2>2. EndsLast' /\ AppendLast' /\ StartedOpen'
    BY <2>1, RestTaken
  <2>3. Explained
    BY RestFacts
  <2>4. ReplacementRuns' /\ RunningExplained'
    BY <2>1, <2>3 DEF Explained, ReplacementRuns, RunningExplained, Replaces, Starts
  <2>5. QED
    BY <2>2, <2>4 DEF Explained
<1>2. CASE TurnStarted
  <2>1. Receives("started") /\ Dispatching("notify")
    BY <1>2 DEF TurnStarted
  <2>2. /\ cur = First /\ Explained /\ TypeInv /\ First \in Objs /\ a \in Agent
        /\ Head(queue) \in Chained /\ queue # <<>> /\ queue' = Tail(queue)
        /\ Head(queue).type = "started" /\ UNCHANGED <<pc, op, sturn>>
    BY <2>1, RestReceived
  <2>3. PICK b : b = IF Foreground THEN a ELSE [a EXCEPT !.lifecycle = "running"]
    OBVIOUS
  <2>4. /\ b \in Agent /\ b.active = a.active /\ b.replacing = a.replacing
    BY <2>2, <2>3 DEF Agent, Lifecycles
  <2>5. Store(First, b, ~Foreground)
    BY <1>2, <2>2, <2>3 DEF TurnStarted
  <2>6. /\ objs'[First].active = objs[First].active
        /\ objs'[First].replacing = objs[First].replacing
    BY <2>2, <2>4, <2>5, StoreKept DEF Kept
  <2>7. busy' # NoEvent /\ busy'.phase # "append"
    BY <2>1 DEF Dispatching, NoEvent
  <2>8. EndsLast' /\ AppendLast' /\ StartedOpen'
    BY <2>2, <2>6, <2>7, RestTaken
  <2>9. PICK t : t = Head(queue).turn
    OBVIOUS
  <2>10. /\ t \in Ops /\ t # None
         /\ Starts(t) \/ objs[First].active = t
    BY <2>2, <2>9, RestFacts DEF Explained, StartedOpen, Starts
  <2>11. objs'[First].active # None \/ \E p \in Ops : Starts(p)
    BY <2>6, <2>10
  <2>12. \A p \in Ops : Starts(p) => Starts(p)'
    BY <2>2 DEF Starts
  <2>13. ReplacementRuns' /\ RunningExplained'
    BY <2>2, <2>6, <2>11, <2>12, LifeElsewhere
  <2>14. QED
    BY <2>8, <2>13 DEF Explained
<1>3. CASE TurnCompleted
  <2> DEFINE drop == BackgroundEnds(a) /\ a.lifecycle # "idle"
  <2>1. Receives("completed") /\ "completed" \in TerminalTypes
    BY <1>3 DEF TurnCompleted, TerminalTypes
  <2>2. cur = First /\ a \in Agent
    BY <2>1, RestReceived
  <2>3. PICK b : b = [a EXCEPT !.err = FALSE, !.lifecycle = IF drop THEN "idle" ELSE @]
    OBVIOUS
  <2>4. /\ b \in Agent /\ b.active = a.active /\ b.replacing = a.replacing
        /\ b.lifecycle \in {"idle", a.lifecycle}
    BY <2>2, <2>3 DEF Agent, Lifecycles
  <2>5. Terminate(cur, b, Foreground, Head(queue).turn, drop) /\ Dispatching("notify")
    BY <1>3, <2>3 DEF TurnCompleted
  <2>6. QED
    BY <2>1, <2>2, <2>4, <2>5, RestTerminates
<1>4. CASE TurnCanceled
  <2>1. Receives("canceled") /\ "canceled" \in TerminalTypes
    BY <1>4 DEF TurnCanceled, TerminalTypes
  <2>2. cur = First /\ a \in Agent
    BY <2>1, RestReceived
  <2>3. PICK b : b = [a EXCEPT !.err = FALSE, !.perms = {},
                               !.lifecycle = IF BackgroundEnds(a) THEN "idle" ELSE @]
    OBVIOUS
  <2>4. /\ b \in Agent /\ b.active = a.active /\ b.replacing = a.replacing
        /\ b.lifecycle \in {"idle", a.lifecycle}
    BY <2>2, <2>3 DEF Agent, Lifecycles
  <2>5. Terminate(cur, b, Foreground, Head(queue).turn, TRUE) /\ Dispatching("notify")
    BY <1>4, <2>3 DEF TurnCanceled
  <2>6. QED
    BY <2>1, <2>2, <2>4, <2>5, RestTerminates
<1>5. CASE TurnFailed
  <2>1. Receives("failed") /\ Dispatching("append") /\ "failed" \in TerminalTypes
    BY <1>5 DEF TurnFailed, TerminalTypes
  <2>2. /\ cur = First /\ TypeInv /\ First \in Objs /\ a \in Agent /\ Tidy
        /\ queue # <<>> /\ queue' = Tail(queue) /\ Head(queue) \in Chained
        /\ Head(queue).type = "failed" /\ UNCHANGED <<pc, op, sturn>>
    BY <2>1, RestReceived
  <2>3. PICK b : b = [a EXCEPT !.err = TRUE,
                               !.lifecycle = IF Foreground THEN @ ELSE "error"]
    OBVIOUS
  <2>4. /\ b \in Agent /\ b.active = a.active /\ b.replacing = a.replacing
        /\ ~Foreground => b.lifecycle = "error"
    BY <2>2, <2>3 DEF Agent, Lifecycles
  <2>5. Store(First, b, FALSE)
    BY <1>5, <2>2, <2>3 DEF TurnFailed
  <2>6. Kept(objs'[First], b)
    BY <2>2, <2>4, <2>5, StoreKept
  <2>7. busy'.e = Head(queue)
    BY <2>1 DEF Dispatching
  <2>8. EndsLast' /\ AppendLast' /\ StartedOpen'
    BY <2>1, <2>2, <2>4, <2>6, <2>7, RestTaken DEF Kept
  <2>9. Foreground => objs[First].active # None
    <3>1. Head(queue).turn \in Ops
      BY <2>1, <2>2 DEF Tidy, EndsTold
    <3>2. QED
      BY <2>2, <3>1, RestFacts DEF Foreground
  <2>10. \A p \in Ops : Starts(p) => Starts(p)'
    BY <2>2 DEF Starts
  <2>11. ReplacementRuns' /\ RunningExplained'
    BY <2>2, <2>4, <2>6, <2>9, <2>10, LifeElsewhere DEF Kept
  <2>12. QED
    BY <2>8, <2>11 DEF Explained
<1>6. CASE PermissionRequested \/ PermissionResolved
  <2>1. PICK type : /\ Receives(type) /\ busy' = busy
                    /\ type \in {"permission_requested", "permission_resolved"}
    BY <1>6 DEF PermissionRequested, PermissionResolved
  <2>2. /\ cur = First /\ TypeInv /\ First \in Objs /\ a \in Agent
        /\ queue # <<>> /\ queue' = Tail(queue) /\ Head(queue) \in Event
        /\ Head(queue).type = type /\ UNCHANGED <<pc, op, sturn>> /\ Explained
    BY <2>1, RestReceived
  <2>3. SameLife
    <3> DEFINE p == Head(queue).turn
               held == p \in a.inFlight
               c == [a EXCEPT !.perms = @ \cup {p}]
               d == [a EXCEPT !.perms = @ \ {p}, !.buffered = IF held THEN @ \cup {p} ELSE @]
    <3>1. Store(First, c, TRUE) \/ Store(First, d, ~held)
      BY <1>6, <2>2 DEF PermissionRequested, PermissionResolved
    <3>2. p \in Perms
      BY <2>1, <2>2, EventTag
    <3>3. /\ c \in Agent /\ c.active = a.active /\ c.replacing = a.replacing
          /\ c.lifecycle = a.lifecycle
      BY <2>2, <3>2 DEF Agent
    <3>4. /\ d \in Agent /\ d.active = a.active /\ d.replacing = a.replacing
          /\ d.lifecycle = a.lifecycle
      BY <2>2, <3>2 DEF Agent
    <3> HIDE DEF c, d
    <3>5. QED
      BY <2>2, <3>1, <3>3, <3>4, LifeStored
  <2>4. EndsLast' /\ AppendLast' /\ StartedOpen'
    BY <2>1, <2>2, <2>3, RestTaken DEF SameLife
  <2>5. \A p \in Ops : Starts(p) => Starts(p)'
    BY <2>2 DEF Starts
  <2>6. ReplacementRuns' /\ RunningExplained'
    BY <2>2, <2>3, <2>5, LifeElsewhere DEF SameLife
  <2>7. QED
    BY <2>4, <2>6 DEF Explained
<1>7. QED
  BY <1>1, <1>2, <1>3, <1>4, <1>5, <1>6, RestFailureAppended, RestNotifies DEF Chain

\* An event of the provider joins the chain, or nobody is subscribed to it.
LEMMA RestEnqueued ==
    ASSUME RestInv, cur # None, NEW g, NEW type, NEW turn, Enqueue(g, type, turn),
           \A p \in Ops : /\ sturn[p] = "ended" => sturn'[p] = "ended"
                          /\ sturn[p] = "announced" => sturn'[p] \in {"announced", "ended"},
           turn \in Ops => sturn[turn] # "ended",
           type = "started" => turn \in Ops /\ Held(turn)'
    PROVE  Explained'
<1>1. UNCHANGED <<objs, pc, op, busy>>
  BY DEF Enqueue
<1>2. /\ Explained /\ Tidy /\ TypeInv
  BY RestFacts
<1>3. PICK x : x = [type |-> type, turn |-> turn]
  OBVIOUS
<1>4. x.type = type /\ x.turn = turn
  BY <1>3
<1>5. queue' = queue \/ queue' = Append(queue, x)
  BY <1>3 DEF Enqueue
<1>6. Chained' \subseteq Chained \cup {x}
  BY <1>2, <1>5, ChainAppend DEF Chained
<1>7. \A e \in Chained : e.type \in TerminalTypes => x.turn # e.turn
  BY <1>2, <1>4 DEF Tidy, EndsTold
<1>8. EndsLast'
  BY <1>2, <1>5, <1>7, QueueAppend DEF Explained, EndsLast
<1>9. AppendLast'
  BY <1>1, <1>2, <1>4, <1>6 DEF Explained, AppendLast
<1>10. StartedOpen'
  BY <1>1, <1>2, <1>4, <1>6 DEF Explained, StartedOpen, Held
<1>11. \A p \in Ops : Starts(p) => Starts(p)'
  BY <1>1 DEF Starts
<1>12. ReplacementRuns' /\ RunningExplained'
  BY <1>1, <1>2, <1>11 DEF Explained, ReplacementRuns, RunningExplained, Replaces
<1>13. QED
  BY <1>8, <1>9, <1>10, <1>12 DEF Explained

\* A provider announces a turn before startTurn has returned.
LEMMA RestSession ==
    ASSUME RestInv, cur # None, "late_start" \notin Quirks, Session
    PROVE  Explained'
<1>1. TypeOK /\ NoAuto
  BY RestFacts
<1>2. CASE SessionAutoStarts \/ \E g \in Objs, out \in TerminalTypes : SessionAutoEnds(g, out)
  BY <1>1, <1>2 DEF SessionAutoStarts, SessionAutoEnds, NoAuto
<1>3. ASSUME NEW o \in Ops, SessionAnnounces(o)
      PROVE  Explained'
  <2>1. /\ sturn[o] = "open" /\ sturn'[o] = "announced" /\ pc[o] = "starting"
        /\ \A p \in Ops \ {o} : sturn'[p] = sturn[p]
    BY <1>1, <1>3 DEF SessionAnnounces, TypeOK
  <2>2. Enqueue(op[o].obj, "started", o)
    BY <1>3 DEF SessionAnnounces
  <2>3. pc' = pc
    BY <2>2 DEF Enqueue
  <2>4. Held(o)'
    BY <2>1, <2>3 DEF Held
  <2>5. QED
    BY <2>1, <2>2, <2>4, RestEnqueued
<1>4. ASSUME NEW o \in Ops, NEW outcome \in TerminalTypes, SessionEnds(o, outcome)
      PROVE  Explained'
  <2>1. /\ sturn[o] \in {"open", "announced"} /\ sturn'[o] = "ended"
        /\ \A p \in Ops \ {o} : sturn'[p] = sturn[p]
    BY <1>1, <1>4 DEF SessionEnds, TypeOK
  <2>2. Enqueue(op[o].obj, outcome, o) /\ outcome # "started"
    BY <1>4 DEF SessionEnds, TerminalTypes
  <2>3. QED
    BY <2>1, <2>2, RestEnqueued
<1>5. CASE \/ \E o \in Ops, p \in Perms : SessionAsks(o, p)
           \/ \E g \in Objs, p \in Perms : SessionResolves(g, p)
  <2>1. PICK g, type, p : /\ Enqueue(g, type, p) /\ sturn' = sturn
                          /\ type # "started" /\ p \in Perms
    BY <1>5 DEF SessionAsks, SessionResolves
  <2>2. p \notin Ops
    BY <2>1, NamesAssumption
  <2>3. QED
    BY <2>1, <2>2, RestEnqueued
<1>6. CASE \E g \in Objs, p \in Perms : SessionDrops(g, p)
  <2>1. UNCHANGED <<queue, busy, sturn, pc, op, objs>>
    BY <1>6 DEF SessionDrops, events
  <2>2. QED
    BY <2>1, LifeSame, RestStays
<1>7. QED
  BY <1>2, <1>3, <1>4, <1>5, <1>6 DEF Session

-----------------------------------------------------------------------------
(* At rest: the theorem *)

LEMMA RestNext ==
    ASSUME RestInv, Kinds \cap OddKinds = {}, "late_start" \notin Quirks, [Next]_vars
    PROVE  RestInv'
<1>1. IdleInv /\ IdleInv'
  BY IdleNext, RestFacts
<1>2. SUFFICES ASSUME cur' # None
               PROVE  Explained'
  BY <1>1 DEF RestInv
<1>3. ASSUME NEW o \in Ops, Step(o) \/ Answer(o)
      PROVE  Explained'
  <2>1. op[o].kind \notin OddKinds /\ pc[o] \notin OddLabels
    BY <1>1, IdleFacts DEF OneObject
  <2>2. ~(\/ RewindResumes(o) \/ ReloadResumes(o) \/ OldClosed(o) \/ RegisterIdle(o)
          \/ RegisterSubscribe(o) \/ Rewound(o) \/ Swap(o) \/ Register(o))
    BY <2>1 DEF OddKinds, OddLabels, RewindResumes, ReloadResumes, OldClosed,
                RegisterIdle, RegisterSubscribe, Rewound, Swap, Register
  <2>3. \/ StartFailed(o) \/ Drain(o) \/ Refresh(o) \/ Interrupted(o) \/ AfterWait(o)
        \/ StaleSettled(o) \/ ReplaceResumes(o) \/ ReplaceCatch(o) \/ Closed(o)
        \/ Refreshed(o) \/ Persisted(o) \/ NotifyForced(o)
        \/ StartResolves(o) \/ StartThrows(o) \/ Responded(o)
    BY <1>3, <2>2 DEF Step, Answer
  <2>4. cur # None
    <3>1. CASE StartFailed(o) \/ Drain(o) \/ Refresh(o) \/ Interrupted(o) \/ AfterWait(o)
      BY <1>2, <3>1 DEF StartFailed, Drain, Refresh, Interrupted, AfterWait
    <3>2. CASE ReplaceResumes(o)
      BY <1>2, <3>2 DEF ReplaceResumes, StreamAgent
    <3>3. CASE StaleSettled(o) \/ ReplaceCatch(o) \/ Closed(o) \/ Refreshed(o) \/ Persisted(o)
      BY <1>2, <3>3 DEF StaleSettled, ReplaceCatch, Closed, Refreshed, Persisted
    <3>4. CASE NotifyForced(o) \/ StartResolves(o) \/ StartThrows(o) \/ Responded(o)
      BY <1>2, <3>4 DEF NotifyForced, StartResolves, StartThrows, Responded
    <3>5. QED
      BY <2>3, <3>1, <3>2, <3>3, <3>4
  <2>5. QED
    BY <2>3, <2>4, RestStartFailed, RestDrain, RestQuietSteps, RestAfterWait,
       RestReplaceResumes, RestCatch, RestNotifies, RestStartResolves, RestStartThrows
<1>4. ASSUME NEW o \in Ops, Begin(o)
      PROVE  Explained'
  BY <1>2, <1>4, RestBegin
<1>5. CASE Chain
  <2>1. cur # None
    BY <1>2, <1>5 DEF Chain, EventDropped, TurnStarted, TurnCompleted, TurnCanceled,
       TurnFailed, Receives, FailureAppended, PermissionRequested, PermissionResolved, Notify
  <2>2. QED
    BY <1>5, <2>1, RestChain
<1>6. CASE Session
  <2>1. cur # None
    BY <1>2, <1>6 DEF Session, SessionAutoStarts, SessionAutoEnds, SessionAnnounces,
       SessionEnds, SessionAsks, SessionResolves, SessionDrops, Enqueue
  <2>2. QED
    BY <1>6, <2>1, RestSession
<1>7. CASE StateEmitted \/ ClearAttention
  BY <1>7, RestEmission
<1>8. CASE UNCHANGED vars
  BY <1>2, <1>8, LifeSame, RestStays DEF vars, events, provider
<1>9. QED
  BY <1>3, <1>4, <1>5, <1>6, <1>7, <1>8 DEF Next

LEMMA RestInit ==
    ASSUME Init, MaxAuto = 0
    PROVE  RestInv
<1>1. IdleInv
  BY IdleInit
<1>2. First \in Objs
  BY DEF Objs
<1>3. queue = <<>> /\ busy = NoEvent /\ Chained = {} /\ DOMAIN queue = {}
  BY DEF Init, Chained
<1>4. objs[First].lifecycle = "idle" /\ objs[First].replacing = FALSE
  <2>1. PICK a : a = NewAgent(Nothing)
    OBVIOUS
  <2>2. objs[First] = [a EXCEPT !.lifecycle = "idle", !.subscribed = TRUE]
    BY <1>2, <2>1 DEF Init
  <2>3. QED
    BY <2>1, <2>2 DEF NewAgent
<1>5. Explained
  BY <1>3, <1>4 DEF Explained, EndsLast, AppendLast, StartedOpen, ReplacementRuns,
                    RunningExplained
<1>6. QED
  BY <1>1, <1>5 DEF RestInv

\* What RestIsIdle says of the lifecycle, the turn, the slot and the pending
\* replacement.
LEMMA RestingIsFree ==
    ASSUME RestInv, AtRest
    PROVE  /\ pending = None
           /\ cur # None => /\ objs[cur].active = None /\ objs[cur].lifecycle # "running"
                            /\ ~objs[cur].replacing
<1>1. \A o \in Ops : pc[o] \in {"idle", "done"}
  BY Zenon DEF AtRest
<1>2. TypeOK /\ SlotInv /\ IdleInv
  BY RestFacts, IdleFacts
<1>3. pending = None
  BY <1>1, <1>2, SlotFacts DEF HolderRuns, TypeOK, Running
<1>4. SUFFICES ASSUME cur # None
               PROVE  /\ objs[First].active = None /\ objs[First].lifecycle # "running"
                      /\ ~objs[First].replacing
  BY <1>3, RestFacts
<1>5. Explained /\ cur = First /\ objs[First].active \in Ops \cup {None}
  BY <1>4, RestFacts
<1>6. objs[First].active = None
  BY <1>1, <1>2, <1>4, <1>5, SlotFacts DEF TurnForwarded
<1>7. ASSUME NEW o \in Ops
      PROVE  ~Replaces(o) /\ ~Starts(o)
  <2>1. pc[o] \in {"idle", "done"}
    BY <1>1
  <2>2. QED
    BY <2>1 DEF Replaces, Starts, ReplaceLabels
<1>8. QED
  BY <1>1, <1>5, <1>6, <1>7 DEF Explained, ReplacementRuns, RunningExplained, Replaces

-----------------------------------------------------------------------------
(* Permission requests: the calls *)

LEMMA AskFacts ==
    ASSUME AskInv
    PROVE  /\ RestInv /\ IdleInv /\ TypeInv /\ TypeOK
           /\ cur # None => Asked /\ Explained /\ Tidy /\ cur = First
           /\ First \in Objs /\ objs[First] \in Agent /\ Chained \subseteq Event
<1>1. RestInv /\ (cur # None => Asked)
  BY DEF AskInv
<1>2. QED
  BY <1>1, RestFacts

\* No more is displayed but what the provider waits on.
AskKept ==
    /\ objs'[First].finalized = objs[First].finalized
    /\ objs'[First].subscribed = objs[First].subscribed
    /\ objs'[First].perms \subseteq objs[First].perms \cup sperms[First]

\* What a store shows of these.
LEMMA StoreAsk ==
    ASSUME TypeInv, NEW g \in Objs, NEW a \in Agent, NEW emit, Store(g, a, emit)
    PROVE  /\ objs'[g].finalized = a.finalized /\ objs'[g].perms = a.perms
           /\ objs'[g].subscribed = a.subscribed
<1>1. objs \in [Objs -> Agent]
  BY DEF TypeInv, TypeOK
<1>2. PICK b : objs' = [objs EXCEPT ![g] = b] /\ (b = a \/ b = Attend(a, prevStatus))
  BY DEF Store
<1>3. b.finalized = a.finalized /\ b.perms = a.perms /\ b.subscribed = a.subscribed
  <2>1. CASE b = Attend(a, prevStatus)
    BY <2>1, AttendMarks DEF Marked, Agent
  <2>2. QED
    BY <1>2, <2>1
<1>4. QED
  BY <1>1, <1>2, <1>3

LEMMA AskStored ==
    ASSUME AskInv, NEW a \in Agent, NEW emit, Store(First, a, emit),
           a.finalized = objs[First].finalized, a.subscribed = objs[First].subscribed,
           a.perms \subseteq objs[First].perms \cup sperms[First]
    PROVE  AskKept
<1>1. TypeInv /\ First \in Objs
  BY AskFacts
<1>2. QED
  BY <1>1, StoreAsk DEF AskKept

LEMMA AskAssigned ==
    ASSUME AskInv, NEW a, objs' = [objs EXCEPT ![First] = a],
           a.finalized = objs[First].finalized, a.subscribed = objs[First].subscribed,
           a.perms \subseteq objs[First].perms \cup sperms[First]
    PROVE  AskKept
<1>1. TypeOK /\ First \in Objs
  BY AskFacts
<1>2. objs'[First] = a
  BY <1>1 DEF TypeOK
<1>3. QED
  BY <1>2 DEF AskKept

\* Nothing happens to the chain and to what the provider waits on.
LEMMA AskCalm ==
    ASSUME AskInv, cur # None, queue' = queue, Waited \subseteq Waited', AskKept,
           busy # NoEvent /\ busy.phase = "append" => busy' = busy
    PROVE  Asked'
<1>1. Asked
  BY AskFacts
<1>2. Chained' = Chained
  BY DEF Chained
<1>3. objs'[First].subscribed
  BY <1>1 DEF Asked, AskKept
<1>4. objs'[First].perms \ Waited' \subseteq objs[First].perms \ Waited
  BY DEF AskKept, Waited
<1>5. DisplayedCleared'
  BY <1>1, <1>2, <1>4 DEF Asked, DisplayedCleared, AskKept
<1>6. RequestedCleared'
  BY <1>1 DEF Asked, RequestedCleared, AskKept
<1>7. QED
  BY <1>3, <1>5, <1>6 DEF Asked

\* The calls leave alone what the provider waits on.
LEMMA WaitedSame ==
    ASSUME UNCHANGED <<sperms, dropped>>
    PROVE  Waited' = Waited
BY DEF Waited

LEMMA AskStreamAgent ==
    ASSUME AskInv, NEW o \in Ops, NEW k, StreamAgent(o, k),
           pc[o] = "idle" \/ pc[o] = "resume"
    PROVE  Asked'
<1>1. TypeOK /\ First \in Objs /\ objs[First] \in Agent /\ (cur # None => cur = First)
  BY AskFacts
<1>2. cur # None /\ cur = First /\ UNCHANGED <<sperms, dropped, busy>>
  BY <1>1 DEF StreamAgent, SlotFree, SessionStartTurn
<1>3. NoAuto
  BY RestFacts, AskFacts
<1>4. queue' = queue
  BY <1>1, <1>2, <1>3 DEF StreamAgent, SessionStartTurn, NoAuto
<1>5. PICK b : b = [objs[First] EXCEPT !.replacing = FALSE, !.err = FALSE]
  OBVIOUS
<1>6. /\ b.finalized = objs[First].finalized /\ b.perms = objs[First].perms
      /\ b.subscribed = objs[First].subscribed
  BY <1>1, <1>5 DEF Agent
<1>7. objs' = [objs EXCEPT ![First] = b]
  BY <1>1, <1>2, <1>5 DEF StreamAgent, TypeOK
<1>8. AskKept
  BY <1>6, <1>7, AskAssigned
<1>9. QED
  BY <1>2, <1>4, <1>8, WaitedSame, AskCalm

LEMMA AskBegin ==
    ASSUME AskInv, Kinds \cap OddKinds = {}, NEW o \in Ops, Begin(o), cur' # None
    PROVE  Asked'
<1>1. ~(Rewind(o) \/ Reload(o) \/ Open(o) \/ Close(o))
  BY DEF Rewind, Reload, Open, Close, OddKinds
<1>2. /\ TypeOK /\ TypeInv /\ First \in Objs /\ objs[First] \in Agent
      /\ cur # None => cur = First
  BY AskFacts
<1>3. CASE Run(o) \/ (Replace(o) /\ StreamAgent(o, "run"))
  <2>1. StreamAgent(o, "run") /\ pc[o] = "idle"
    BY <1>3 DEF Run, Replace
  <2>2. QED
    BY <2>1, AskStreamAgent
<1>4. CASE Cancel(o)
  <2>1. cur # None /\ UNCHANGED <<queue, busy, sperms, dropped, objs>>
    BY <1>4 DEF Cancel, BeginCancel, events, provider
  <2>2. AskKept
    BY <2>1 DEF AskKept
  <2>3. QED
    BY <2>1, <2>2, WaitedSame, AskCalm
<1>5. CASE BeginCancel(o, "replace") /\ Replace(o)
           /\ Store(cur, [objs[cur] EXCEPT !.replacing = TRUE, !.lifecycle = "running"], TRUE)
  <2>1. cur # None /\ cur = First /\ UNCHANGED <<queue, busy, sperms, dropped>>
    BY <1>2, <1>5 DEF Replace, BeginCancel, events, provider
  <2>2. PICK a : a = [objs[First] EXCEPT !.replacing = TRUE, !.lifecycle = "running"]
    OBVIOUS
  <2>3. /\ a \in Agent /\ a.finalized = objs[First].finalized
        /\ a.perms = objs[First].perms /\ a.subscribed = objs[First].subscribed
    BY <1>2, <2>2 DEF Agent, Lifecycles
  <2>4. Store(First, a, TRUE)
    BY <1>5, <2>1, <2>2
  <2>5. AskKept
    BY <2>3, <2>4, AskStored
  <2>6. QED
    BY <2>1, <2>5, WaitedSame, AskCalm
<1>6. CASE \E p \in Perms : Respond(o, p)
  <2>1. PICK p \in Perms : Respond(o, p)
    BY <1>6
  <2>2. cur # None /\ cur = First /\ UNCHANGED <<queue, busy, sperms, dropped>>
    BY <1>2, <2>1 DEF Respond, provider, events
  <2>3. PICK a : a = [objs[First] EXCEPT !.inFlight = @ \cup {p}]
    OBVIOUS
  <2>4. /\ a.finalized = objs[First].finalized /\ a.perms = objs[First].perms
        /\ a.subscribed = objs[First].subscribed
    BY <1>2, <2>3 DEF Agent
  <2>5. objs' = [objs EXCEPT ![First] = a]
    BY <1>2, <2>1, <2>2, <2>3 DEF Respond, TypeOK
  <2>6. AskKept
    BY <2>4, <2>5, AskAssigned
  <2>7. QED
    BY <2>2, <2>6, WaitedSame, AskCalm
<1>7. QED
  BY <1>1, <1>3, <1>4, <1>5, <1>6 DEF Begin, Replace

\* A canceled turn takes the requests off the display; when it is ended by
\* force, no event is left to be dispatched.
LEMMA AskAfterWait ==
    ASSUME AskInv, cur # None, NEW o \in Ops, AfterWait(o)
    PROVE  Asked'
<1>1. /\ pc[o] = "waiting" /\ WaitOver(o) /\ op[o].obj = First
      /\ UNCHANGED <<queue, busy, sperms, dropped>>
  BY CapturedFirst, AskFacts DEF AfterWait, provider
<1>2. PICK a : a = objs[First]
  OBVIOUS
<1>3. a \in Agent /\ First \in Objs /\ TypeOK /\ TypeInv /\ IdleInv /\ Asked
  BY <1>2, AskFacts
<1>4. CASE ~Stuck(o)
  <2>1. PICK b : b = Cleared(a)
    OBVIOUS
  <2>2. /\ b \in Agent /\ b.finalized = a.finalized /\ b.perms = {}
        /\ b.subscribed = a.subscribed
    BY <1>3, <2>1 DEF Cleared, Agent
  <2>3. PICK emit : Store(First, b, emit)
    BY <1>1, <1>2, <1>4, <2>1 DEF AfterWait
  <2>4. AskKept
    BY <1>2, <2>2, <2>3, AskStored
  <2>5. QED
    BY <1>1, <2>4, WaitedSame, AskCalm
<1>5. CASE Stuck(o)
  <2>1. queue = <<>>
    BY <1>1, <1>3, <1>5, StuckIsQuiet
  <2>2. PICK c : c = [a EXCEPT !.err = FALSE, !.perms = {}]
    OBVIOUS
  <2>3. c \in Agent /\ c.perms = {} /\ c.subscribed = a.subscribed
    BY <1>3, <2>2 DEF Agent
  <2>4. PICK t : t = op[o].turn
    OBVIOUS
  <2>5. t \in Ops
    BY <1>3, <1>5, <2>4 DEF Stuck, TypeOK, Call
  <2>6. PICK f : f = Finalized(c, {t})
    OBVIOUS
  <2>7. f \in Agent /\ f.perms = {} /\ f.subscribed = a.subscribed
    BY <2>3, <2>5, <2>6 DEF Finalized, Agent, Lifecycles
  <2>8. PICK emit : Store(First, f, emit)
    BY <1>1, <1>2, <1>5, <2>2, <2>4, <2>6 DEF AfterWait
  <2>9. objs'[First].perms = {} /\ objs'[First].subscribed
    BY <1>2, <1>3, <2>7, <2>8, StoreAsk DEF Asked
  <2>10. queue' = <<>> /\ DOMAIN queue' = {}
    BY <1>1, <2>1
  <2>11. QED
    BY <2>9, <2>10 DEF Asked, DisplayedCleared, RequestedCleared
<1>6. QED
  BY <1>4, <1>5

\* The other steps of a cancellation and of a replacement.
LEMMA AskCancelSteps ==
    ASSUME AskInv, cur # None, NEW o \in Ops,
           Interrupted(o) \/ StaleSettled(o) \/ ReplaceResumes(o) \/ ReplaceCatch(o)
    PROVE  Asked'
<1>1. objs[First] \in Agent /\ First \in Objs /\ TypeOK /\ TypeInv /\ IdleInv /\ cur = First
  BY AskFacts
<1>2. CASE ReplaceResumes(o) /\ StreamAgent(o, "replace")
  <2>1. pc[o] = "resume"
    BY <1>2 DEF ReplaceResumes
  <2>2. QED
    BY <1>2, <2>1, AskStreamAgent
<1>3. CASE Interrupted(o) \/ (ReplaceResumes(o) /\ ~StreamAgent(o, "replace"))
  <2>1. UNCHANGED <<objs, queue, busy, sperms, dropped>>
    BY <1>3 DEF Interrupted, ReplaceResumes, events, provider
  <2>2. AskKept
    BY <2>1 DEF AskKept
  <2>3. QED
    BY <2>1, <2>2, WaitedSame, AskCalm
<1>4. CASE StaleSettled(o)
  <2>1. op[o].obj = First /\ UNCHANGED <<queue, busy, sperms, dropped>>
    BY <1>1, <1>4, CapturedFirst DEF StaleSettled, events, provider
  <2>2. PICK b : b = Cleared(objs[First])
    OBVIOUS
  <2>3. /\ b \in Agent /\ b.finalized = objs[First].finalized /\ b.perms = {}
        /\ b.subscribed = objs[First].subscribed
    BY <1>1, <2>2 DEF Cleared, Agent
  <2>4. PICK emit : Store(First, b, emit)
    BY <1>4, <2>1, <2>2 DEF StaleSettled
  <2>5. AskKept
    BY <2>3, <2>4, AskStored
  <2>6. QED
    BY <2>1, <2>5, WaitedSame, AskCalm
<1>5. CASE ReplaceCatch(o)
  <2> DEFINE b == [objs[cur] EXCEPT !.replacing = FALSE]
             drop == b.active = None /\ b.lifecycle = "running"
  <2>1. UNCHANGED <<queue, busy, sperms, dropped>>
    BY <1>5 DEF ReplaceCatch, events, provider
  <2>2. PICK d : d = IF drop THEN [b EXCEPT !.lifecycle = "idle"] ELSE b
    OBVIOUS
  <2>3. /\ d \in Agent /\ d.finalized = objs[First].finalized
        /\ d.perms = objs[First].perms /\ d.subscribed = objs[First].subscribed
    BY <1>1, <2>2 DEF Agent, Lifecycles
  <2>4. Store(First, d, drop)
    BY <1>1, <1>5, <2>2 DEF ReplaceCatch
  <2>5. AskKept
    BY <2>3, <2>4, AskStored
  <2>6. QED
    BY <2>1, <2>5, WaitedSame, AskCalm
<1>6. QED
  BY <1>2, <1>3, <1>4, <1>5

\* What the calls do next: an answer takes the request off the display, and
\* refreshSessionState shows what the provider waits on.
LEMMA AskSteps ==
    ASSUME AskInv, cur # None, NEW o \in Ops,
           \/ StartFailed(o) \/ Drain(o) \/ Refresh(o) \/ Closed(o) \/ Refreshed(o)
           \/ Persisted(o) \/ NotifyForced(o)
           \/ StartResolves(o) \/ StartThrows(o) \/ Responded(o)
    PROVE  Asked'
<1> DEFINE p == op[o].perm
           a == objs[First]
<1>1. a \in Agent /\ First \in Objs /\ TypeOK /\ TypeInv /\ IdleInv /\ cur = First
  BY AskFacts
<1>2. pc[o] \notin {"idle", "closing", "registering", "done"} => op[o].obj = First
  BY <1>1, CapturedFirst
<1>3. UNCHANGED <<queue, busy, sperms, dropped>>
  <2>1. CASE StartFailed(o) \/ Drain(o) \/ Refresh(o) \/ Closed(o) \/ Refreshed(o)
    BY <2>1 DEF StartFailed, Drain, Refresh, Closed, Refreshed, events, provider
  <2>2. CASE Persisted(o) \/ NotifyForced(o) \/ StartResolves(o) \/ StartThrows(o) \/ Responded(o)
    BY <2>2 DEF Persisted, NotifyForced, StartResolves, StartThrows, Responded, events, provider
  <2>3. QED
    BY <2>1, <2>2
<1>5. SUFFICES AskKept
  BY <1>3, WaitedSame, AskCalm
<1>6. CASE StartFailed(o)
  <2>1. op[o].obj = First
    BY <1>2, <1>6 DEF StartFailed
  <2>2. PICK c : c = [a EXCEPT !.perms = {}]
    OBVIOUS
  <2>3. c \in Agent /\ c.perms = {} /\ c.finalized = a.finalized /\ c.subscribed = a.subscribed
    BY <1>1, <2>2 DEF Agent
  <2>4. PICK r : r = Attend(c, prevStatus)
    OBVIOUS
  <2>5. /\ r \in Agent /\ r.perms = {} /\ r.finalized = a.finalized
        /\ r.subscribed = a.subscribed
    BY <2>3, <2>4, AttendMarks DEF Marked, Agent
  <2>6. PICK f : f = Finalized(r, {})
    OBVIOUS
  <2>7. /\ f \in Agent /\ f.perms = {} /\ f.finalized = a.finalized
        /\ f.subscribed = a.subscribed
    BY <2>5, <2>6 DEF Finalized, Agent, Lifecycles
  <2>8. PICK b : objs' = [objs EXCEPT ![First] = b] /\ (b = f \/ b = Attend(f, r.lifecycle))
    BY <1>6, <2>1, <2>2, <2>4, <2>6 DEF StartFailed
  <2>9. b.perms = {} /\ b.finalized = a.finalized /\ b.subscribed = a.subscribed
    <3>1. CASE b = Attend(f, r.lifecycle)
      BY <2>7, <3>1, AttendMarks DEF Marked, Agent
    <3>2. QED
      BY <2>7, <2>8, <3>1
  <2>10. QED
    BY <2>8, <2>9, AskAssigned
<1>7. CASE Drain(o) \/ StartThrows(o) \/ Responded(o) \/ Refreshed(o)
  <2>1. op[o].obj = First
    BY <1>2, <1>7 DEF Drain, StartThrows, Responded, Refreshed
  <2>2. \/ objs' = [objs EXCEPT ![First] = [a EXCEPT !.waiters = @ \ {o}]]
        \/ objs' = [objs EXCEPT ![First] = [a EXCEPT !.lifecycle = "error", !.err = TRUE]]
        \/ objs' = [objs EXCEPT ![First] = [a EXCEPT !.perms = @ \ {p}]]
        \/ objs' = [objs EXCEPT ![First] = [a EXCEPT !.inFlight = @ \ {p}, !.buffered = @ \ {p}]]
        \/ objs' = [objs EXCEPT ![First] = [a EXCEPT !.perms = sperms[First]]]
    BY <1>1, <1>7, <2>1 DEF Drain, StartThrows, Responded, Refreshed, TypeOK
  <2>3. PICK b : /\ objs' = [objs EXCEPT ![First] = b]
                 /\ b.finalized = a.finalized /\ b.subscribed = a.subscribed
                 /\ b.perms \subseteq a.perms \cup sperms[First]
    BY <1>1, <2>2 DEF Agent
  <2>4. QED
    BY <2>3, AskAssigned
<1>8. CASE Refresh(o)
  <2>1. PICK changed \in BOOLEAN : Store(First, a, changed)
    BY <1>2, <1>8 DEF Refresh
  <2>2. QED
    BY <1>1, <2>1, AskStored
<1>9. CASE Persisted(o)
  <2>1. PICK b : b = [a EXCEPT !.inFlight = @ \ {p}, !.buffered = @ \ {p}]
    OBVIOUS
  <2>2. /\ b \in Agent /\ b.finalized = a.finalized /\ b.subscribed = a.subscribed
        /\ b.perms = a.perms
    BY <1>1, <2>1 DEF Agent
  <2>3. Store(First, b, TRUE)
    BY <1>2, <1>9, <2>1 DEF Persisted
  <2>4. QED
    BY <2>2, <2>3, AskStored
<1>10. CASE StartResolves(o)
  <2>1. PICK b : b = [a EXCEPT !.active = o, !.lifecycle = "running", !.waiters = @ \cup {o}]
    OBVIOUS
  <2>2. /\ b \in Agent /\ b.finalized = a.finalized /\ b.subscribed = a.subscribed
        /\ b.perms = a.perms
    BY <1>1, <2>1 DEF Agent, Lifecycles
  <2>3. Store(First, b, TRUE)
    BY <1>2, <1>10, <2>1 DEF StartResolves
  <2>4. QED
    BY <2>2, <2>3, AskStored
<1>11. CASE Closed(o) \/ NotifyForced(o)
  <2>1. objs' = objs
    BY <1>11 DEF Closed, NotifyForced
  <2>2. QED
    BY <2>1 DEF AskKept
<1>12. QED
  BY <1>6, <1>7, <1>8, <1>9, <1>10, <1>11

-----------------------------------------------------------------------------
(* Permission requests: the chain and the provider *)

\* The first event leaves the chain, and what it clears has left the display.
LEMMA AskTaken ==
    ASSUME AskInv, cur # None, busy = NoEvent, queue # <<>>, queue' = Tail(queue),
           UNCHANGED <<sperms, dropped>>,
           objs'[First].subscribed = objs[First].subscribed,
           \/ objs'[First].finalized = objs[First].finalized
           \/ /\ Head(queue).type \in TerminalTypes
              /\ objs'[First].finalized = objs[First].finalized \cup {Head(queue).turn},
           \/ busy' # NoEvent /\ busy'.phase = "append"
           \/ \A p \in objs'[First].perms :
                \/ p \in objs[First].perms /\ ~Clears(objs[First].finalized, Head(queue), p)
                \/ Head(queue).type = "permission_requested" /\ Head(queue).turn = p
    PROVE  Asked'
<1>1. /\ Asked /\ Explained /\ Tidy /\ TypeInv
  BY AskFacts
<1>2. /\ Chained' \subseteq Chained /\ Chained \subseteq Chained' \cup {Head(queue)}
      /\ Head(queue).type \in TerminalTypes =>
           \A e \in Chained' : e.turn # Head(queue).turn
      /\ Head(queue) \in Chained
  BY <1>1, QueueTail, ChainTail DEF Explained
<1>3. PICK n : n = Len(queue)
  OBVIOUS
<1>4. queue \in Seq(Event)
  BY <1>1 DEF TypeInv, TypeOK
<1>5. /\ n \in Nat \ {0} /\ DOMAIN queue = 1..n /\ Head(queue) = queue[1]
      /\ DOMAIN queue' = 1..(n - 1)
      /\ \A i \in 1..(n - 1) : queue'[i] = queue[i + 1]
  BY <1>3, <1>4
<1>6. objs'[First].subscribed
  BY <1>1 DEF Asked
<1>7. PICK over, over1 : over = objs[First].finalized /\ over1 = objs'[First].finalized
  OBVIOUS
<1>8. Waited' = Waited
  BY WaitedSame
<1>9. \A e \in Chained' : \A p : Clears(over, e, p) => Clears(over1, e, p)
  BY <1>2, <1>7 DEF Clears
<1>10. \A i \in 1..(n - 1) : queue'[i] \in Chained'
  BY <1>5 DEF Chained
<1>11. ASSUME NEW i \in 1..n, NEW p, queue[i].type = "permission_requested",
              queue[i].turn = p, p \notin Waited
       PROVE  \E j \in 1..n : i < j /\ j - 1 \in 1..(n - 1) /\ Clears(over1, queue'[j - 1], p)
  <2>1. PICK j \in 1..n : i < j /\ Clears(over, queue[j], p)
    BY <1>1, <1>5, <1>7, <1>11 DEF Asked, RequestedCleared
  <2>2. j - 1 \in 1..(n - 1) /\ (j - 1) + 1 = j
    BY <1>5, <2>1
  <2>3. queue'[j - 1] = queue[j] /\ queue'[j - 1] \in Chained'
    BY <1>5, <1>10, <2>2
  <2>4. QED
    BY <1>9, <2>1, <2>2, <2>3
<1>12. RequestedCleared'
  <2>1. SUFFICES ASSUME NEW i \in 1..(n - 1), queue'[i].type = "permission_requested",
                        queue'[i].turn \notin Waited
                 PROVE  \E j \in 1..(n - 1) : i < j /\ Clears(over1, queue'[j], queue'[i].turn)
    BY <1>5, <1>7, <1>8 DEF RequestedCleared
  <2>2. i + 1 \in 1..n /\ queue'[i] = queue[i + 1]
    BY <1>5
  <2>3. PICK j \in 1..n : /\ i + 1 < j /\ j - 1 \in 1..(n - 1)
                          /\ Clears(over1, queue'[j - 1], queue'[i].turn)
    BY <1>11, <2>1, <2>2
  <2>4. i < j - 1
    BY <2>3
  <2>5. QED
    BY <2>3, <2>4
<1>13. DisplayedCleared'
  <2>1. SUFFICES ASSUME NEW p \in objs'[First].perms, p \notin Waited,
                        ~(busy' # NoEvent /\ busy'.phase = "append")
                 PROVE  \E e \in Chained' : Clears(over1, e, p)
    BY <1>7, <1>8 DEF DisplayedCleared
  <2>2. CASE p \in objs[First].perms /\ ~Clears(over, Head(queue), p)
    <3>1. PICK e \in Chained : Clears(over, e, p)
      BY <1>1, <1>7, <2>1, <2>2 DEF Asked, DisplayedCleared
    <3>2. e \in Chained'
      BY <1>2, <2>2, <3>1
    <3>3. QED
      BY <1>9, <3>1, <3>2
  <2>3. CASE Head(queue).type = "permission_requested" /\ Head(queue).turn = p
    <3>1. 1 \in 1..n
      BY <1>5
    <3>2. PICK j \in 1..n : j - 1 \in 1..(n - 1) /\ Clears(over1, queue'[j - 1], p)
      BY <1>5, <1>11, <2>1, <2>3, <3>1
    <3>3. queue'[j - 1] \in Chained'
      BY <1>10, <3>2
    <3>4. QED
      BY <3>2, <3>3
  <2>4. QED
    BY <1>7, <2>1, <2>2, <2>3
<1>14. QED
  BY <1>6, <1>12, <1>13 DEF Asked

\* What the end of a terminal event's handling shows.
LEMMA TerminateAsk ==
    ASSUME TypeInv, NEW g \in Objs, NEW a \in Agent, NEW fg, NEW turn, NEW emit,
           fg => turn \in Ops, Terminate(g, a, fg, turn, emit)
    PROVE  /\ objs'[g].perms = a.perms /\ objs'[g].subscribed = a.subscribed
           /\ fg => objs'[g].finalized = a.finalized \cup {turn}
           /\ ~fg => objs'[g].finalized = a.finalized
<1>1. CASE fg
  <2>1. PICK f : f = Finalized(a, {turn})
    OBVIOUS
  <2>2. /\ f \in Agent /\ f.perms = a.perms /\ f.subscribed = a.subscribed
        /\ f.finalized = a.finalized \cup {turn}
    BY <1>1, <2>1 DEF Finalized, Agent, Lifecycles
  <2>3. Store(g, f, ~HoldsBusy(a))
    BY <1>1, <2>1 DEF Terminate
  <2>4. QED
    BY <1>1, <2>2, <2>3, StoreAsk
<1>2. CASE ~fg
  <2>1. Store(g, a, emit)
    BY <1>2 DEF Terminate
  <2>2. QED
    BY <1>2, <2>1, StoreAsk
<1>3. QED
  BY <1>1, <1>2

LEMMA AskChain ==
    ASSUME AskInv, cur # None, Chain
    PROVE  Asked'
<1> DEFINE a == objs[First]
           t == Head(queue).turn
<1>1. /\ a \in Agent /\ First \in Objs /\ TypeOK /\ TypeInv /\ RestInv /\ cur = First
      /\ Asked /\ Explained /\ Tidy
  BY AskFacts
<1>2. CASE EventDropped
  <2>1. /\ busy = NoEvent /\ queue # <<>> /\ queue' = Tail(queue)
        /\ UNCHANGED <<sperms, dropped, objs>> /\ Stale(a, Head(queue))
    BY <1>1, <1>2 DEF EventDropped, provider
  <2>2. \A p : ~Clears(a.finalized, Head(queue), p)
    BY <2>1 DEF Stale, Clears, TerminalTypes
  <2>3. QED
    BY <2>1, <2>2, AskTaken
<1>3. CASE TurnStarted
  <2>1. Receives("started") /\ Dispatching("notify")
    BY <1>3 DEF TurnStarted
  <2>2. PICK b : b = IF Foreground THEN a ELSE [a EXCEPT !.lifecycle = "running"]
    OBVIOUS
  <2>3. /\ b \in Agent /\ b.perms = a.perms /\ b.finalized = a.finalized
        /\ b.subscribed = a.subscribed
    BY <1>1, <2>2 DEF Agent, Lifecycles
  <2>4. Store(First, b, ~Foreground)
    BY <1>1, <1>3, <2>2 DEF TurnStarted
  <2>5. /\ objs'[First].perms = a.perms /\ objs'[First].finalized = a.finalized
        /\ objs'[First].subscribed = a.subscribed
    BY <1>1, <2>3, <2>4, StoreAsk
  <2>6. \A p : ~Clears(a.finalized, Head(queue), p)
    BY <2>1 DEF Receives, Clears
  <2>7. busy = NoEvent /\ queue # <<>> /\ queue' = Tail(queue) /\ UNCHANGED <<sperms, dropped>>
    BY <2>1 DEF Receives, provider
  <2>8. QED
    BY <2>5, <2>6, <2>7, AskTaken
<1>4. ASSUME NEW type \in {"completed", "canceled"}, Receives(type), NEW b \in Agent,
             NEW emit, Terminate(First, b, Foreground, t, emit),
             b.finalized = a.finalized, b.subscribed = a.subscribed,
             b.perms = IF type = "canceled" THEN {} ELSE a.perms
      PROVE  Asked'
  <2>1. /\ busy = NoEvent /\ queue # <<>> /\ queue' = Tail(queue)
        /\ UNCHANGED <<sperms, dropped>> /\ Head(queue).type = type
        /\ Head(queue) \in Chained
    BY <1>1, <1>4, ChainTail DEF Receives, provider
  <2>2. type \in TerminalTypes /\ t \in Ops
    BY <1>1, <2>1 DEF TerminalTypes, Tidy, EndsTold
  <2>3. /\ objs'[First].perms = b.perms /\ objs'[First].subscribed = b.subscribed
        /\ Foreground => objs'[First].finalized = b.finalized \cup {t}
        /\ ~Foreground => objs'[First].finalized = b.finalized
    BY <1>1, <1>4, <2>2, TerminateAsk
  <2>4. type = "completed" => \A p : ~Clears(a.finalized, Head(queue), p)
    BY <2>1 DEF Clears
  <2>5. \A p \in objs'[First].perms : p \in a.perms /\ ~Clears(a.finalized, Head(queue), p)
    BY <1>4, <2>3, <2>4
  <2>6. \/ objs'[First].finalized = a.finalized
        \/ objs'[First].finalized = a.finalized \cup {t}
    BY <1>4, <2>3
  <2>7. QED
    BY <1>4, <2>1, <2>2, <2>3, <2>5, <2>6, AskTaken
<1>5. CASE TurnCompleted
  <2> DEFINE drop == BackgroundEnds(a) /\ a.lifecycle # "idle"
  <2>1. PICK b : b = [a EXCEPT !.err = FALSE, !.lifecycle = IF drop THEN "idle" ELSE @]
    OBVIOUS
  <2>2. /\ b \in Agent /\ b.perms = a.perms /\ b.finalized = a.finalized
        /\ b.subscribed = a.subscribed
    BY <1>1, <2>1 DEF Agent, Lifecycles
  <2>3. Terminate(First, b, Foreground, t, drop) /\ Receives("completed")
    BY <1>1, <1>5, <2>1 DEF TurnCompleted
  <2>4. QED
    BY <1>4, <2>2, <2>3
<1>6. CASE TurnCanceled
  <2>1. PICK b : b = [a EXCEPT !.err = FALSE, !.perms = {},
                               !.lifecycle = IF BackgroundEnds(a) THEN "idle" ELSE @]
    OBVIOUS
  <2>2. /\ b \in Agent /\ b.perms = {} /\ b.finalized = a.finalized
        /\ b.subscribed = a.subscribed
    BY <1>1, <2>1 DEF Agent, Lifecycles
  <2>3. Terminate(First, b, Foreground, t, TRUE) /\ Receives("canceled")
    BY <1>1, <1>6, <2>1 DEF TurnCanceled
  <2>4. QED
    BY <1>4, <2>2, <2>3
<1>7. CASE TurnFailed
  <2>1. Receives("failed") /\ Dispatching("append")
    BY <1>7 DEF TurnFailed
  <2>2. PICK b : b = [a EXCEPT !.err = TRUE,
                               !.lifecycle = IF Foreground THEN @ ELSE "error"]
    OBVIOUS
  <2>3. b \in Agent /\ b.finalized = a.finalized /\ b.subscribed = a.subscribed
    BY <1>1, <2>2 DEF Agent, Lifecycles
  <2>4. Store(First, b, FALSE)
    BY <1>1, <1>7, <2>2 DEF TurnFailed
  <2>5. objs'[First].finalized = a.finalized /\ objs'[First].subscribed = a.subscribed
    BY <1>1, <2>3, <2>4, StoreAsk
  <2>6. busy' # NoEvent /\ busy'.phase = "append"
    BY <2>1 DEF Dispatching, NoEvent
  <2>7. busy = NoEvent /\ queue # <<>> /\ queue' = Tail(queue) /\ UNCHANGED <<sperms, dropped>>
    BY <2>1 DEF Receives, provider
  <2>8. QED
    BY <2>5, <2>6, <2>7, AskTaken
<1>8. CASE FailureAppended
  <2>1. /\ busy.phase = "append" /\ busy # NoEvent /\ UNCHANGED <<queue, sperms, dropped>>
    BY <1>8 DEF FailureAppended, NoEvent, provider
  <2>2. /\ busy.g = First /\ busy.e.turn \in Ops /\ sturn[busy.e.turn] = "ended"
        /\ \A e \in Chained : e.turn # busy.e.turn
    BY <1>1, <2>1 DEF Tidy, NotifyFinal, Explained, AppendLast
  <2>3. PICK b : b = [a EXCEPT !.perms = {}]
    OBVIOUS
  <2>4. /\ b \in Agent /\ b.perms = {} /\ b.finalized = a.finalized
        /\ b.subscribed = a.subscribed
    BY <1>1, <2>3 DEF Agent
  <2>5. Terminate(First, b, busy.fg, busy.e.turn, TRUE)
    BY <1>8, <2>2, <2>3 DEF FailureAppended
  <2>6. /\ objs'[First].perms = {} /\ objs'[First].subscribed = a.subscribed
        /\ objs'[First].finalized \subseteq a.finalized \cup {busy.e.turn}
    <3>1. CASE busy.fg
      <4>1. PICK f : f = Finalized(b, {busy.e.turn})
        OBVIOUS
      <4>2. /\ f \in Agent /\ f.perms = {} /\ f.subscribed = a.subscribed
            /\ f.finalized = a.finalized \cup {busy.e.turn}
        BY <2>2, <2>4, <4>1 DEF Finalized, Agent, Lifecycles
      <4>3. Store(First, f, ~HoldsBusy(b))
        BY <2>5, <3>1, <4>1 DEF Terminate
      <4>4. QED
        BY <1>1, <4>2, <4>3, StoreAsk
    <3>2. CASE ~busy.fg
      <4>1. Store(First, b, TRUE)
        BY <2>5, <3>2 DEF Terminate
      <4>2. QED
        BY <1>1, <2>4, <4>1, StoreAsk
    <3>3. QED
      BY <3>1, <3>2
  <2>7. Chained' = Chained
    BY <2>1 DEF Chained
  <2>8. PICK over, over1 : over = a.finalized /\ over1 = objs'[First].finalized
    OBVIOUS
  <2>9. \A i \in DOMAIN queue : \A p : Clears(over, queue[i], p) => Clears(over1, queue[i], p)
    <3>1. \A i \in DOMAIN queue : queue[i] \in Chained
      BY DEF Chained
    <3>2. QED
      BY <2>2, <2>6, <2>8, <3>1 DEF Clears
  <2>10. RequestedCleared'
    BY <1>1, <2>1, <2>8, <2>9, WaitedSame DEF Asked, RequestedCleared
  <2>11. QED
    BY <1>1, <2>6, <2>10 DEF Asked, DisplayedCleared
<1>9. CASE PermissionRequested
  <2>1. Receives("permission_requested") /\ busy' = busy
    BY <1>9 DEF PermissionRequested
  <2>2. /\ busy = NoEvent /\ queue # <<>> /\ queue' = Tail(queue)
        /\ UNCHANGED <<sperms, dropped>> /\ Head(queue).type = "permission_requested"
        /\ Head(queue) \in Event
    BY <2>1, RestReceived, <1>1 DEF Receives, provider
  <2>3. t \in Perms
    BY <2>2, EventTag
  <2>4. PICK b : b = [a EXCEPT !.perms = @ \cup {t}]
    OBVIOUS
  <2>5. /\ b \in Agent /\ b.perms = a.perms \cup {t} /\ b.finalized = a.finalized
        /\ b.subscribed = a.subscribed
    BY <1>1, <2>3, <2>4 DEF Agent
  <2>6. Store(First, b, TRUE)
    BY <1>1, <1>9, <2>4 DEF PermissionRequested
  <2>7. /\ objs'[First].perms = a.perms \cup {t} /\ objs'[First].finalized = a.finalized
        /\ objs'[First].subscribed = a.subscribed
    BY <1>1, <2>5, <2>6, StoreAsk
  <2>8. \A p : ~Clears(a.finalized, Head(queue), p)
    BY <2>2 DEF Clears
  <2>9. QED
    BY <2>2, <2>7, <2>8, AskTaken
<1>10. CASE PermissionResolved
  <2> DEFINE held == t \in a.inFlight
  <2>1. Receives("permission_resolved") /\ busy' = busy
    BY <1>10 DEF PermissionResolved
  <2>2. /\ busy = NoEvent /\ queue # <<>> /\ queue' = Tail(queue)
        /\ UNCHANGED <<sperms, dropped>> /\ Head(queue).type = "permission_resolved"
        /\ Head(queue) \in Event
    BY <2>1, RestReceived, <1>1 DEF Receives, provider
  <2>3. t \in Perms
    BY <2>2, EventTag
  <2>4. PICK b : b = [a EXCEPT !.perms = @ \ {t}, !.buffered = IF held THEN @ \cup {t} ELSE @]
    OBVIOUS
  <2>5. /\ b \in Agent /\ b.perms = a.perms \ {t} /\ b.finalized = a.finalized
        /\ b.subscribed = a.subscribed
    BY <1>1, <2>3, <2>4 DEF Agent
  <2>6. Store(First, b, ~held)
    BY <1>1, <1>10, <2>4 DEF PermissionResolved
  <2>7. /\ objs'[First].perms = a.perms \ {t} /\ objs'[First].finalized = a.finalized
        /\ objs'[First].subscribed = a.subscribed
    BY <1>1, <2>5, <2>6, StoreAsk
  <2>8. \A p \in a.perms \ {t} : ~Clears(a.finalized, Head(queue), p)
    BY <2>2 DEF Clears
  <2>9. QED
    BY <2>2, <2>7, <2>8, AskTaken
<1>11. CASE Notify
  <2>1. /\ busy.phase = "notify" /\ UNCHANGED <<queue, sperms, dropped, objs>>
    BY <1>11 DEF Notify, provider
  <2>2. AskKept
    BY <2>1 DEF AskKept
  <2>3. QED
    BY <2>1, <2>2, WaitedSame, AskCalm
<1>12. QED
  BY <1>2, <1>3, <1>5, <1>6, <1>7, <1>8, <1>9, <1>10, <1>11 DEF Chain

\* An event of the provider joins the chain, or nobody is subscribed to it.
LEMMA AskEnqueued ==
    ASSUME AskInv, cur # None, UNCHANGED <<objs, busy>>, NEW x,
           queue' = queue \/ queue' = Append(queue, x),
           x.type = "permission_requested" => x.turn \in Waited',
           \A p \in Waited \ Waited' :
               queue' = Append(queue, x) /\ Clears(objs[First].finalized, x, p)
    PROVE  Asked'
<1>1. Asked /\ TypeInv
  BY AskFacts
<1>2. PICK n : n = Len(queue)
  OBVIOUS
<1>3. queue \in Seq(Event)
  BY <1>1 DEF TypeInv, TypeOK
<1>4. n \in Nat /\ DOMAIN queue = 1..n
  BY <1>2, <1>3
<1>5. queue' = Append(queue, x) =>
        /\ DOMAIN queue' = 1..(n + 1) /\ queue'[n + 1] = x
        /\ \A i \in 1..n : queue'[i] = queue[i]
  BY <1>2, <1>3, <1>4
<1>6. /\ DOMAIN queue \subseteq DOMAIN queue'
      /\ \A i \in DOMAIN queue : queue'[i] = queue[i]
      /\ \A i \in DOMAIN queue' : i \in DOMAIN queue \/ queue'[i] = x
  BY <1>4, <1>5
<1>7. Chained \subseteq Chained' /\ Chained' \subseteq Chained \cup {x}
  BY <1>6 DEF Chained
<1>8. objs'[First].subscribed
  BY <1>1 DEF Asked
<1>9. PICK over : over = objs[First].finalized /\ over = objs'[First].finalized
  OBVIOUS
<1>10. queue' = Append(queue, x) => x \in Chained'
  BY <1>4, <1>5 DEF Chained
<1>11. DisplayedCleared'
  <2>1. SUFFICES ASSUME NEW p \in objs[First].perms, p \notin Waited',
                        ~(busy # NoEvent /\ busy.phase = "append")
                 PROVE  \E e \in Chained' : Clears(over, e, p)
    BY <1>9 DEF DisplayedCleared
  <2>2. CASE p \in Waited
    BY <1>9, <1>10, <2>1, <2>2
  <2>3. CASE p \notin Waited
    BY <1>1, <1>7, <1>9, <2>1, <2>3 DEF Asked, DisplayedCleared
  <2>4. QED
    BY <2>2, <2>3
<1>12. RequestedCleared'
  <2>1. SUFFICES ASSUME NEW i \in DOMAIN queue', queue'[i].type = "permission_requested",
                        queue'[i].turn \notin Waited'
                 PROVE  \E j \in DOMAIN queue' : i < j /\ Clears(over, queue'[j], queue'[i].turn)
    BY <1>9 DEF RequestedCleared
  <2>2. i \in 1..n /\ queue'[i] = queue[i]
    BY <1>4, <1>6, <2>1
  <2>3. CASE queue[i].turn \in Waited
    <3>1. queue' = Append(queue, x) /\ Clears(over, x, queue[i].turn)
      BY <1>9, <2>1, <2>2, <2>3
    <3>2. n + 1 \in DOMAIN queue' /\ i < n + 1 /\ queue'[n + 1] = x
      BY <1>4, <1>5, <2>2, <3>1
    <3>3. QED
      BY <2>2, <3>1, <3>2
  <2>4. CASE queue[i].turn \notin Waited
    <3>1. PICK j \in DOMAIN queue : i < j /\ Clears(over, queue[j], queue[i].turn)
      BY <1>1, <1>4, <1>9, <2>1, <2>2, <2>4 DEF Asked, RequestedCleared
    <3>2. j \in DOMAIN queue' /\ queue'[j] = queue[j]
      BY <1>6
    <3>3. QED
      BY <2>2, <3>1, <3>2
  <2>5. QED
    BY <2>3, <2>4
<1>13. QED
  BY <1>8, <1>11, <1>12 DEF Asked

LEMMA AskSession ==
    ASSUME AskInv, cur # None, Session
    PROVE  Asked'
<1>1. /\ TypeOK /\ NoAuto /\ Tidy /\ Asked /\ First \in Objs /\ objs[First].subscribed
  BY AskFacts, RestFacts DEF Asked
<1>2. CASE SessionAutoStarts \/ \E g \in Objs, out \in TerminalTypes : SessionAutoEnds(g, out)
  BY <1>1, <1>2 DEF SessionAutoStarts, SessionAutoEnds, NoAuto
<1>3. \A g, type, turn : Enqueue(g, type, turn) =>
        /\ UNCHANGED <<objs, busy>>
        /\ \/ queue' = queue
           \/ queue' = Append(queue, [type |-> type, turn |-> turn])
        /\ g = First => queue' = Append(queue, [type |-> type, turn |-> turn])
  BY <1>1 DEF Enqueue
<1>4. ASSUME NEW o \in Ops, SessionAnnounces(o)
      PROVE  Asked'
  <2>1. PICK x : x = [type |-> "started", turn |-> o]
    OBVIOUS
  <2>2. x.type = "started" /\ x.type \notin TerminalTypes
    BY <2>1 DEF TerminalTypes
  <2>3. UNCHANGED <<objs, busy>> /\ (queue' = queue \/ queue' = Append(queue, x))
    BY <1>3, <1>4, <2>1 DEF SessionAnnounces
  <2>4. Waited' = Waited
    BY <1>4, WaitedSame DEF SessionAnnounces
  <2>5. QED
    BY <2>2, <2>3, <2>4, AskEnqueued
<1>5. ASSUME NEW o \in Ops, NEW outcome \in TerminalTypes, SessionEnds(o, outcome)
      PROVE  Asked'
  <2>1. PICK x : x = [type |-> outcome, turn |-> o]
    OBVIOUS
  <2>2. x.type = outcome /\ x.turn = o /\ x.type # "permission_requested"
    BY <2>1 DEF TerminalTypes
  <2>3. op[o].obj = First /\ sturn[o] # "ended"
    BY <1>1, <1>5 DEF SessionEnds, Tidy, TurnsBegun
  <2>4. UNCHANGED <<objs, busy>> /\ queue' = Append(queue, x)
    BY <1>3, <1>5, <2>1, <2>3 DEF SessionEnds
  <2>5. CASE outcome = "completed"
    <3>1. Waited' = Waited
      BY <1>5, <2>5, WaitedSame DEF SessionEnds
    <3>2. QED
      BY <2>2, <2>4, <3>1, AskEnqueued
  <2>6. CASE outcome # "completed" /\ o \notin objs[First].finalized
    <3>1. \A p : Clears(objs[First].finalized, x, p)
      BY <2>2, <2>6 DEF Clears, TerminalTypes
    <3>2. QED
      BY <2>2, <2>4, <3>1, AskEnqueued
  <2>7. CASE outcome # "completed" /\ o \in objs[First].finalized
    <3>1. sperms[First] \subseteq Perms
      BY <1>1 DEF TypeOK
    <3>2. dropped' = dropped \cup {p \in Perms : p \in sperms[First]}
      BY <1>5, <2>3, <2>7 DEF SessionEnds
    <3>3. Waited \subseteq Waited'
      BY <3>1, <3>2 DEF Waited
    <3>4. QED
      BY <2>2, <2>4, <3>3, AskEnqueued
  <2>8. QED
    BY <2>5, <2>6, <2>7
<1>6. ASSUME NEW o \in Ops, NEW p \in Perms, SessionAsks(o, p)
      PROVE  Asked'
  <2>1. PICK x : x = [type |-> "permission_requested", turn |-> p]
    OBVIOUS
  <2>2. x.type = "permission_requested" /\ x.turn = p /\ x.type \notin TerminalTypes
    BY <2>1 DEF TerminalTypes
  <2>3. op[o].obj = First
    BY <1>1, <1>6 DEF SessionAsks, Tidy, TurnsBegun
  <2>4. UNCHANGED <<objs, busy>> /\ queue' = Append(queue, x)
    BY <1>3, <1>6, <2>1, <2>3 DEF SessionAsks
  <2>5. Waited' = Waited \cup {p}
    BY <1>1, <1>6, <2>3 DEF SessionAsks, TypeOK, Waited
  <2>6. QED
    BY <2>2, <2>4, <2>5, AskEnqueued
<1>7. ASSUME NEW g \in Objs, NEW p \in Perms, SessionResolves(g, p)
      PROVE  Asked'
  <2>1. PICK x : x = [type |-> "permission_resolved", turn |-> p]
    OBVIOUS
  <2>2. /\ x.type \notin TerminalTypes \cup {"permission_requested"}
        /\ Clears(objs[First].finalized, x, p)
    BY <2>1 DEF TerminalTypes, Clears
  <2>3. /\ UNCHANGED <<objs, busy>> /\ (queue' = queue \/ queue' = Append(queue, x))
        /\ g = First => queue' = Append(queue, x)
    BY <1>3, <1>7, <2>1 DEF SessionResolves
  <2>4. \A q \in Waited \ Waited' : g = First /\ q = p
    BY <1>1, <1>7 DEF SessionResolves, TypeOK, Waited
  <2>5. QED
    BY <2>2, <2>3, <2>4, AskEnqueued
<1>8. ASSUME NEW g \in Objs, NEW p \in Perms, SessionDrops(g, p)
      PROVE  Asked'
  <2>1. UNCHANGED <<queue, busy, objs>>
    BY <1>8 DEF SessionDrops, events
  <2>2. Waited \subseteq Waited'
    BY <1>1, <1>8 DEF SessionDrops, TypeOK, Waited
  <2>3. AskKept
    BY <2>1 DEF AskKept
  <2>4. QED
    BY <2>1, <2>2, <2>3, AskCalm
<1>9. QED
  BY <1>2, <1>4, <1>5, <1>6, <1>7, <1>8 DEF Session

-----------------------------------------------------------------------------
(* Permission requests: the theorem *)

LEMMA AskNext ==
    ASSUME AskInv, Kinds \cap OddKinds = {}, "late_start" \notin Quirks, [Next]_vars
    PROVE  AskInv'
<1>1. RestInv /\ OneObject
  BY AskFacts, RestFacts
<1>2. RestInv'
  BY <1>1, RestNext
<1>3. SUFFICES ASSUME cur' # None
               PROVE  Asked'
  BY <1>2 DEF AskInv
<1>4. ASSUME NEW o \in Ops, Step(o) \/ Answer(o)
      PROVE  Asked'
  <2>1. pc[o] \notin OddLabels /\ op[o].kind \notin OddKinds
    BY <1>1 DEF OneObject
  <2>2. ~(\/ RewindResumes(o) \/ ReloadResumes(o) \/ OldClosed(o) \/ RegisterIdle(o)
          \/ RegisterSubscribe(o) \/ Rewound(o) \/ Swap(o) \/ Register(o))
    BY <2>1 DEF OddKinds, OddLabels, RewindResumes, ReloadResumes, OldClosed,
                RegisterIdle, RegisterSubscribe, Rewound, Swap, Register
  <2>3. \/ StartFailed(o) \/ Drain(o) \/ Refresh(o) \/ Interrupted(o) \/ AfterWait(o)
        \/ StaleSettled(o) \/ ReplaceResumes(o) \/ ReplaceCatch(o) \/ Closed(o)
        \/ Refreshed(o) \/ Persisted(o) \/ NotifyForced(o)
        \/ StartResolves(o) \/ StartThrows(o) \/ Responded(o)
    BY <1>4, <2>2 DEF Step, Answer
  <2>4. cur # None
    <3>1. CASE StartFailed(o) \/ Drain(o) \/ Refresh(o) \/ Interrupted(o) \/ AfterWait(o)
      BY <1>3, <3>1 DEF StartFailed, Drain, Refresh, Interrupted, AfterWait
    <3>2. CASE ReplaceResumes(o)
      BY <1>3, <3>2 DEF ReplaceResumes, StreamAgent
    <3>3. CASE StaleSettled(o) \/ ReplaceCatch(o) \/ Closed(o) \/ Refreshed(o) \/ Persisted(o)
      BY <1>3, <3>3 DEF StaleSettled, ReplaceCatch, Closed, Refreshed, Persisted
    <3>4. CASE NotifyForced(o) \/ StartResolves(o) \/ StartThrows(o) \/ Responded(o)
      BY <1>3, <3>4 DEF NotifyForced, StartResolves, StartThrows, Responded
    <3>5. QED
      BY <2>3, <3>1, <3>2, <3>3, <3>4
  <2>5. QED
    BY <2>3, <2>4, AskAfterWait, AskCancelSteps, AskSteps
<1>5. ASSUME NEW o \in Ops, Begin(o)
      PROVE  Asked'
  BY <1>3, <1>5, AskBegin
<1>6. CASE Chain
  <2>1. cur # None
    BY <1>3, <1>6 DEF Chain, EventDropped, TurnStarted, TurnCompleted, TurnCanceled,
       TurnFailed, Receives, FailureAppended, PermissionRequested, PermissionResolved, Notify
  <2>2. QED
    BY <1>6, <2>1, AskChain
<1>7. CASE Session
  <2>1. cur # None
    BY <1>3, <1>7 DEF Session, SessionAutoStarts, SessionAutoEnds, SessionAnnounces,
       SessionEnds, SessionAsks, SessionResolves, SessionDrops, Enqueue
  <2>2. QED
    BY <1>7, <2>1, AskSession
<1>8. CASE StateEmitted \/ ClearAttention
  <2>1. cur # None /\ UNCHANGED <<queue, busy, sperms, dropped>>
    BY <1>8 DEF StateEmitted, ClearAttention, events, provider
  <2>2. cur = First /\ objs[First] \in Agent
    BY <2>1, AskFacts
  <2>3. PICK c : c = [objs[First] EXCEPT !.attention = "none"]
    OBVIOUS
  <2>4. /\ c \in Agent /\ c.finalized = objs[First].finalized
        /\ c.subscribed = objs[First].subscribed /\ c.perms = objs[First].perms
    BY <2>2, <2>3 DEF Agent, Attentions
  <2>5. Store(First, objs[First], TRUE) \/ Store(First, c, FALSE)
    BY <1>8, <2>2, <2>3 DEF StateEmitted, ClearAttention
  <2>6. AskKept
    BY <2>2, <2>4, <2>5, AskStored
  <2>7. QED
    BY <2>1, <2>6, WaitedSame, AskCalm
<1>9. CASE UNCHANGED vars
  <2>1. cur # None /\ UNCHANGED <<queue, busy, sperms, dropped, objs>>
    BY <1>3, <1>9 DEF vars, events, provider
  <2>2. AskKept
    BY <2>1 DEF AskKept
  <2>3. QED
    BY <2>1, <2>2, WaitedSame, AskCalm
<1>10. QED
  BY <1>4, <1>5, <1>6, <1>7, <1>8, <1>9 DEF Next

LEMMA AskInit ==
    ASSUME Init, MaxAuto = 0
    PROVE  AskInv
<1>1. RestInv
  BY RestInit
<1>2. queue = <<>> /\ DOMAIN queue = {} /\ First \in Objs
  BY DEF Init, Objs
<1>3. objs[First].perms = {} /\ objs[First].subscribed = TRUE
  <2>1. PICK a : a = NewAgent(Nothing)
    OBVIOUS
  <2>2. objs[First] = [a EXCEPT !.lifecycle = "idle", !.subscribed = TRUE]
    BY <1>2, <2>1 DEF Init
  <2>3. QED
    BY <2>1, <2>2 DEF NewAgent
<1>4. Asked
  BY <1>2, <1>3 DEF Asked, DisplayedCleared, RequestedCleared
<1>5. QED
  BY <1>1, <1>4 DEF AskInv

-----------------------------------------------------------------------------
(* At rest: the theorems *)

\* An agent that shows as running does so for a reason that is still there: a
\* foreground turn, a replacement that is being made, or a turn the provider
\* has announced and startTurn has not returned.
THEOREM RestInvariant ==
    ASSUME Kinds \cap OddKinds = {}, MaxAuto = 0, "late_start" \notin Quirks
    PROVE  Spec => []RestInv
<1>1. Init => RestInv
  BY RestInit
<1>2. RestInv /\ [Next]_vars => RestInv'
  BY RestNext
<1>3. QED
  BY <1>1, <1>2, PTL DEF Spec

\* A permission request on display is one the provider waits on, or has given up
\* unnoticed (without an event, or by the end of a turn that had been ended by
\* force), or something that takes it off the display is on its way: whatever
\* prompts, replacements, cancellations, closes and answers do together.
THEOREM AskInvariant ==
    ASSUME Kinds \cap OddKinds = {}, MaxAuto = 0, "late_start" \notin Quirks
    PROVE  Spec => []AskInv
<1>1. Init => AskInv
  BY AskInit
<1>2. AskInv /\ [Next]_vars => AskInv'
  BY AskNext
<1>3. QED
  BY <1>1, <1>2, PTL DEF Spec

\* When every call has returned and every event has been dispatched, the agent
\* is free: no slot held, no foreground turn, not shown as running, no
\* replacement pending, and no permission request on display but those the
\* provider waits on or has given up unnoticed.
THEOREM RestsIdle ==
    ASSUME Kinds \cap OddKinds = {}, MaxAuto = 0, "late_start" \notin Quirks
    PROVE  Spec => []RestIsIdle
<1>1. AskInv => RestIsIdle
  <2>1. SUFFICES ASSUME AskInv, AtRest
                 PROVE  /\ pending = None
                        /\ cur # None => /\ objs[cur].active = None
                                         /\ objs[cur].lifecycle # "running"
                                         /\ ~objs[cur].replacing
                                         /\ objs[cur].perms \subseteq sperms[cur] \cup dropped
    BY DEF RestIsIdle
  <2>2. queue = <<>> /\ busy = NoEvent
    BY Zenon, <2>1 DEF AtRest
  <2>3. Chained = {}
    BY <2>2 DEF Chained
  <2>4. cur # None => objs[cur].perms \subseteq sperms[cur] \cup dropped
    BY <2>1, <2>2, <2>3, AskFacts DEF Asked, DisplayedCleared, Waited
  <2>5. QED
    BY <2>1, <2>4, AskFacts, RestingIsFree
<1>2. QED
  BY <1>1, AskInvariant, PTL
=============================================================================
