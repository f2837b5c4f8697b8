---------------------------- MODULE TimelineSync ----------------------------
(***************************************************************************)
(* The timeline of an agent and the display of it in one app: the rows the *)
(* daemon commits (agent-timeline-store.ts) reach the app as live events   *)
(* and as pages it asks for (session.ts, timeline-projection.ts); the app  *)
(* keeps a cursor and a view of items (session-stream-reducers.ts,         *)
(* types/stream.ts, session-context.tsx, use-agent-initialization.ts).     *)
(*                                                                         *)
(* A row is a number in an epoch and a kind: consecutive rows of assistant *)
(* text, or of a thought, are chunks that the projection and the view put  *)
(* together; a "message" stands by itself.  The text of an item is the     *)
(* sequence of the rows it shows.  Chunks carry no message or turn id and  *)
(* complete no markdown block; tool calls have one row; no optimistic      *)
(* messages; no request is answered by an error.                           *)
(*                                                                         *)
(* The connection keeps the order of what the daemon sends and may be lost *)
(* at any time.  The 48 ms the app buffers live events are part of the way *)
(* to it: it applies them before any page, and before it reconnects.  (Not *)
(* before the answer to its own rewind or reload, which overtakes them;    *)
(* here it does not.)                                                      *)
(***************************************************************************)
EXTENDS Naturals, Sequences, FiniteSets, SequencesExt, FiniteSetsExt

CONSTANTS
    Kinds,       \* the kinds of row the agent makes
    PageSize,    \* TIMELINE_FETCH_PAGE_SIZE
    None,
    MaxRows,     \* bound: rows of an epoch
    MaxEpochs,   \* bound: epochs
    MaxLag,      \* bound: messages under way when the daemon sends more
    MaxUpsets    \* bound: connections lost, requests given up and returns to the app

ASSUME KindsAssumption == Kinds \subseteq {"message", "assistant", "thought"}
ASSUME PageAssumption == PageSize \in Nat \ {0}
ASSUME BoundsAssumption == {MaxRows, MaxEpochs, MaxLag, MaxUpsets} \subseteq Nat
ASSUME EpochAssumption == MaxEpochs > 0
ASSUME NoneAssumption ==
    None \notin [epoch: Nat, start: Nat, end: Nat] \cup (Nat \X Nat) \cup {"tail", "after"}

VARIABLES
    epoch, log,  \* the timeline store: kinds of the rows, by number
    unread,      \* rows of the provider's history yet to be recorded
    turn,        \* the agent is in a turn
    up,          \* the app is connected
    requests,    \* what it has asked for and the daemon has not answered: a set,
                 \* so two identical requests under way are one
    toApp,       \* what the daemon has sent, in order
    cursor,      \* agentTimelineCursor
    tail, head,  \* agentStreamTail, agentStreamHead
    hasOlder,    \* agentTimelineHasOlder
    applied,     \* agentAuthoritativeHistoryApplied
    synced,      \* the agent's history is of the current sync generation
    init,        \* the direction of the initialization under way
    catching,    \* timelineCatchUpInFlight: the cursors being caught up from
    older,       \* agentTimelineOlderFetchInFlight
    told,        \* the newest row was sent to the app: as an event, or
                 \* on a page for a request with a cursor
    mishaps,     \* "mixed": rows were made or sent while the history was being
                 \* read; "missed": a request for the tail was given up;
                 \* "moved": older rows were asked for when the view was replaced
    upsets

daemon == <<epoch, log, unread, turn>>
view == <<tail, head>>
asking == <<init, catching, older>>
app == <<cursor, view, hasOlder, applied, synced, asking>>
bounds == <<mishaps, upsets>>
vars == <<daemon, up, requests, toApp, app, told, bounds>>

RowIds == (1..MaxEpochs) \X (1..MaxRows)
Items == [kind: Kinds, id: Seq(RowIds) \X Nat, text: Seq(RowIds)]
Cursor == [epoch: 1..MaxEpochs, start: 1..MaxRows, end: 1..MaxRows]

\* at: the cursor of the request; late: the app no longer waits for it.
Request == [why: {"init", "catchup", "older", "redo", "resume"},
            dir: {"tail", "after", "before"}, at: RowIds \cup {None}, late: BOOLEAN]

Init ==
    /\ epoch = 1 /\ log = <<>> /\ unread = <<>> /\ turn = FALSE
    /\ up = TRUE /\ requests = {} /\ toApp = <<>>
    /\ cursor = None /\ tail = <<>> /\ head = <<>> /\ hasOlder = FALSE
    /\ applied = FALSE /\ synced = FALSE
    /\ init = None /\ catching = {} /\ older = FALSE
    /\ told = FALSE /\ mishaps = {} /\ upsets = 0

-----------------------------------------------------------------------------
(* The daemon *)

Happens(mishap, really) == mishaps' = IF really THEN mishaps \cup {mishap} ELSE mishaps

Send(messages) ==
    /\ messages # <<>> => Len(toApp) < MaxLag
    /\ toApp' = IF up THEN toApp \o messages ELSE toApp

\* dispatchStream of rows first..last of an epoch
RowEvents(e, rows, first, last) ==
    [i \in 1..(last + 1 - first) |->
        [type |-> "row", row |-> <<e, first + i - 1>>, kind |-> rows[first + i - 1]]]

\* A row is recorded and sent in one step.
Commit(kind) ==
    /\ Len(log) + Len(unread) < MaxRows
    /\ log' = Append(log, kind) /\ turn' = TRUE
    /\ Send(RowEvents(epoch, log', Len(log'), Len(log'))) /\ told' = up
    /\ Happens("mixed", unread # <<>>)
    /\ UNCHANGED <<epoch, unread, up, requests, app, upsets>>

TurnEnds ==
    /\ turn /\ turn' = FALSE
    /\ Send(<<[type |-> "end"]>>)
    /\ UNCHANGED <<epoch, log, unread, up, requests, app, told, bounds>>

\* The app whose rewind or reload is answered fetches the tail.
Answered == {<<>>, <<[type |-> "redone"]>>}

\* Mutant: the rows are initialized in the epoch they had.
RewindInPlace(n) ==
    /\ ~turn /\ unread = <<>>
    /\ log' = SubSeq(log, 1, n)
    /\ Send(RowEvents(epoch, log', 1, n)) /\ told' = (up /\ n > 0)
    /\ UNCHANGED <<epoch, unread, turn, up, requests, app, bounds>>

\* The history, n rows of it left, is recorded and broadcast in one step.
Rewind(n) ==
    /\ epoch < MaxEpochs /\ ~turn /\ unread = <<>>
    /\ epoch' = epoch + 1 /\ log' = SubSeq(log, 1, n)
    /\ \E answer \in Answered : Send(RowEvents(epoch', log', 1, n) \o answer)
    /\ told' = (up /\ n > 0)
    /\ UNCHANGED <<unread, turn, up, requests, app, bounds>>

\* The history is read again, row by row, and not broadcast.
Reload ==
    /\ epoch < MaxEpochs /\ ~turn /\ unread = <<>> /\ log # <<>>
    /\ epoch' = epoch + 1 /\ log' = <<>> /\ unread' = log
    /\ told' = FALSE
    /\ UNCHANGED <<turn, up, requests, toApp, app, bounds>>

Hydrate ==
    /\ unread # <<>>
    /\ log' = Append(log, Head(unread)) /\ unread' = Tail(unread)
    /\ \E answer \in IF unread' = <<>> THEN Answered ELSE {<<>>} : Send(answer)
    /\ told' = FALSE
    /\ UNCHANGED <<epoch, turn, up, requests, app, bounds>>

-----------------------------------------------------------------------------
(* Pages *)

RowsOf(span) == [i \in 1..(span[2] + 1 - span[1]) |-> <<epoch, span[1] + i - 1>>]

Joins(i) == log[i] # "message" /\ log[i] = log[i - 1]

\* projectTimelineRows of rows lo..hi: the first and last row of each entry.
Projected(lo, hi) ==
    {s \in (lo..hi) \X (lo..hi) :
        /\ s[1] <= s[2] /\ (s[1] = lo \/ ~Joins(s[1]))
        /\ \A k \in s[1] + 1..s[2] : Joins(k)
        /\ s[2] = hi \/ ~Joins(s[2] + 1)}

Nth(spans, i) == CHOOSE s \in spans : Cardinality({t \in spans : t[1] <= s[1]}) = i

Entries(spans) ==
    [i \in 1..Cardinality(spans) |->
        LET span == Nth(spans, i) IN [kind |-> log[span[1]], text |-> RowsOf(span)]]

Page(r, reset, spans, start, end, hasOlderRows, hasNewerRows) ==
    [type |-> "page", to |-> r, reset |-> reset, epoch |-> epoch, entries |-> Entries(spans),
     start |-> start, end |-> end, hasOlder |-> hasOlderRows, hasNewer |-> hasNewerRows]

EmptyPage(r, reset) == Page(r, reset, {}, 0, 0, FALSE, FALSE)

\* shouldUseFullTimelineForProjectedPage: an entry may begin before row lo.
UseFull(lo, hi) == lo <= hi /\ lo > 1 /\ log[lo] # "message"

TailFrom == IF Len(log) > PageSize THEN Len(log) + 1 - PageSize ELSE 1

\* selectTimelineWindowByProjectedLimit: the last entries, PageSize at most.
TailPage(r, reset) ==
    LET all == Projected(IF ~reset /\ UseFull(TailFrom, Len(log)) THEN 1 ELSE TailFrom, Len(log))
        last == {s \in all : Cardinality({t \in all : t[1] > s[1]}) < PageSize}
        start == Min({s[1] : s \in last})
    IN IF log = <<>> THEN EmptyPage(r, reset)
       ELSE Page(r, reset, last, start, Len(log), start > 1, FALSE)

\* selectProjectedTimelinePage of rows lo..hi: whole entries, also those that
\* go beyond.
RangePage(r, lo, hi) ==
    LET all == IF UseFull(lo, hi) THEN Projected(1, Len(log)) ELSE Projected(lo, hi)
    IN IF lo > hi THEN EmptyPage(r, FALSE)
       ELSE Page(r, FALSE, {s \in all : s[1] <= hi /\ s[2] >= lo}, lo, hi, lo > 1, hi < Len(log))

\* Mutant: a cursor of an earlier epoch is taken for one of the current one.
AnswerAnyEpoch(r) ==
    CASE r.dir = "tail" -> TailPage(r, FALSE)
      [] r.dir = "after" -> RangePage(r, r.at[2] + 1, Min({Len(log), r.at[2] + PageSize}))
      [] r.dir = "before" -> RangePage(r, 1, Min({Len(log), r.at[2] - 1}))

\* The store's fetch; a cursor of an earlier epoch is answered by the tail.
Answer(r) ==
    IF r.at # None /\ r.at[1] # epoch THEN TailPage(r, TRUE)
    ELSE CASE r.dir = "tail" -> TailPage(r, FALSE)
           [] r.dir = "after" -> RangePage(r, r.at[2] + 1, Min({Len(log), r.at[2] + PageSize}))
           [] r.dir = "before" -> RangePage(r, Max({1, r.at[2] - PageSize}), r.at[2] - 1)

\* Requests may overtake each other while the agent is looked up.
Serve(r) ==
    /\ requests' = requests \ {r}
    /\ Len(toApp) < MaxLag /\ toApp' = Append(toApp, Answer(r))
    /\ told' = (told \/ (log # <<>> /\ r.dir # "before" /\ r.at # None))
    /\ Happens("mixed", unread # <<>>)
    /\ UNCHANGED <<daemon, up, app, upsets>>

-----------------------------------------------------------------------------
(* The view: what is displayed is the tail and then the head *)

Shown == [tail |-> tail, head |-> head]

\* reduceStreamUpdate: chunks go to the last item when it is of their kind.
Reduced(items, kind, text) ==
    IF items # <<>> /\ kind # "message" /\ Last(items).kind = kind
    THEN [items EXCEPT ![Len(items)].text = @ \o text]
    ELSE Append(items, [kind |-> kind, id |-> <<text, Len(items)>>, text |-> text])

Hydrated(items, entries) ==
    FoldLeft(LAMBDA acc, e : Reduced(acc, e.kind, e.text), items, entries)

\* flushHeadToTail
Flushed(v) ==
    LET isNew(h) == \A i \in DOMAIN v.tail : v.tail[i].id # h.id
        new == FoldLeft(LAMBDA acc, h : IF isNew(h) THEN Append(acc, h) ELSE acc, <<>>, v.head)
    IN [tail |-> v.tail \o new, head |-> <<>>]

\* getTailAssistantToResume
Resumed(v) ==
    IF v.head = <<>> /\ v.tail # <<>> /\ Last(v.tail).kind = "assistant"
    THEN [tail |-> Front(v.tail), head |-> <<Last(v.tail)>>]
    ELSE v

\* applyStreamEvent of a row or an entry
Applied(v, kind, text) ==
    LET settled == IF v.head # <<>> /\ (kind = "message" \/ Last(v.head).kind # kind)
                   THEN Flushed(v) ELSE v
        ready == IF kind = "assistant" THEN Resumed(settled) ELSE settled
    IN IF kind = "message" THEN [ready EXCEPT !.tail = Reduced(@, kind, text)]
       ELSE [ready EXCEPT !.head = Reduced(@, kind, text)]

IsLive(v) == v.head # <<>> /\ Last(v.head).kind = "assistant"

\* applyTimelineIncrementalPath: an entry that goes on with the live assistant
\* text takes its place.
EntryApplied(v, e) ==
    IF e.kind = "assistant" /\ IsLive(v) /\ IsPrefix(Last(v.head).text, e.text)
    THEN [v EXCEPT !.head[Len(v.head)].text = e.text]
    ELSE Applied(v, e.kind, e.text)

Extended(v, entries) ==
    IF v.head = <<>> THEN [v EXCEPT !.tail = Hydrated(@, entries)]
    ELSE FoldLeft(EntryApplied, v, entries)

\* mergePrependedCanonicalTail
Prepended(v, entries) ==
    LET new == Hydrated(<<>>, entries) IN
    IF v.tail # <<>> /\ Last(new).kind = "assistant" /\ Head(v.tail).kind = "assistant"
    THEN [v EXCEPT !.tail = Append(Front(new), [Last(new) EXCEPT !.text = @ \o Head(v.tail).text])
                            \o Tail(v.tail)]
    ELSE [v EXCEPT !.tail = new \o @]

\* applyTimelineReplacePath with preserveReplacePathAssistantHead
Replaced(v, entries) ==
    LET new == Hydrated(<<>>, entries)
        endsOpen == new # <<>> /\ Last(new).kind = "assistant"
    IN CASE ~IsLive(v) -> [tail |-> new, head |-> <<>>]
         [] IsLive(v) /\ ~endsOpen -> [tail |-> new, head |-> v.head]
         [] IsLive(v) /\ endsOpen ->
              IF IsPrefix(Last(new).text, Last(v.head).text)
              THEN [tail |-> Front(new),
                    head |-> <<[Last(v.head) EXCEPT !.text = Last(new).text]>>]
              ELSE [tail |-> new, head |-> <<>>]

Show(v) == tail' = v.tail /\ head' = v.head

-----------------------------------------------------------------------------
(* The app asks *)

Ask(why, dir, at) == [why |-> why, dir |-> dir, at |-> at, late |-> FALSE]

\* Requests that have been answered
Under == {toApp[i].to : i \in {j \in DOMAIN toApp : toApp[j].type = "page"}}

\* Requests whose promise is not settled
Awaited == {r \in requests \cup Under : ~r.late}

End == <<cursor.epoch, cursor.end>>
EndOf(c) == IF c = None THEN {} ELSE {<<c.epoch, c.end>>}

\* requestCanonicalCatchUp, from each place of a set, once per place
CatchUps(places) == {Ask("catchup", "after", at) : at \in places \ catching}

\* planInitialAgentTimelineSync
InitialRequest ==
    IF applied /\ cursor # None THEN Ask("init", "after", End) ELSE Ask("init", "tail", None)

\* The panel of the agent is, or is again, in focus: ensureAgentIsInitialized.
Open ==
    /\ up /\ init = None /\ ~(applied /\ synced)
    /\ init' = InitialRequest.dir
    /\ requests' = requests \cup {InitialRequest}
    /\ UNCHANGED <<daemon, up, toApp, cursor, view, hasOlder, applied, synced, catching, older,
                   told, bounds>>

\* handleAppResumed
Resume ==
    /\ up /\ upsets < MaxUpsets /\ upsets' = upsets + 1
    /\ requests' = requests \cup
         IF cursor = None THEN {Ask("resume", "tail", None)} ELSE CatchUps({End})
    /\ catching' = catching \cup EndOf(cursor)
    /\ UNCHANGED <<daemon, up, toApp, cursor, view, hasOlder, applied, synced, init, older, told,
                   mishaps>>

\* loadOlderAgentHistory
LoadOlder ==
    /\ up /\ cursor # None /\ hasOlder /\ ~older
    /\ older' = TRUE
    /\ requests' = requests \cup {Ask("older", "before", <<cursor.epoch, cursor.start>>)}
    /\ UNCHANGED <<daemon, up, toApp, cursor, view, hasOlder, applied, synced, init, catching,
                   told, bounds>>

\* The promise of request r is settled.
Settled(r, keys) ==
    /\ catching' = IF r.why = "catchup" /\ ~r.late THEN keys \ {r.at} ELSE keys
    /\ older' = (older /\ (r.why # "older" \/ r.late))

\* The app gives up a request; its page will still be applied.
TimesOut(r) ==
    LET given(q) == IF q = r THEN [q EXCEPT !.late = TRUE] ELSE q IN
    /\ upsets < MaxUpsets /\ ~r.late
    /\ requests' = {given(q) : q \in requests}
    /\ toApp' = [i \in DOMAIN toApp |->
                    IF toApp[i].type = "page" THEN [toApp[i] EXCEPT !.to = given(@)] ELSE toApp[i]]
    /\ Settled(r, catching)
    /\ init' = IF r.why = "init" THEN None ELSE init
    /\ upsets' = upsets + 1
    /\ Happens("missed", r.dir = "tail")
    /\ UNCHANGED <<daemon, up, cursor, view, hasOlder, applied, synced, told>>

Disconnect ==
    /\ up /\ upsets < MaxUpsets
    /\ up' = FALSE /\ upsets' = upsets + 1
    /\ requests' = {} /\ toApp' = <<>>
    /\ init' = None /\ catching' = {} /\ older' = FALSE
    /\ UNCHANGED <<daemon, cursor, view, hasOlder, applied, synced, told, mishaps>>

\* A new sync generation
Connect ==
    /\ ~up /\ up' = TRUE /\ synced' = FALSE
    /\ UNCHANGED <<daemon, requests, toApp, cursor, view, hasOlder, applied, asking, told, bounds>>

-----------------------------------------------------------------------------
(* The app receives *)

Delivered(type) == toApp # <<>> /\ Head(toApp).type = type /\ toApp' = Tail(toApp)

CatchUp(places) ==
    /\ requests' = requests \cup CatchUps(places)
    /\ catching' = catching \cup places

InEpoch(e) == cursor # None /\ cursor.epoch = e

\* Mutant: a row after a gap is taken.
DecisionTakesGaps(row) ==
    CASE cursor = None -> "init"
      [] cursor # None /\ ~InEpoch(row[1]) -> IF row[2] = 1 THEN "restart" ELSE "drop"
      [] InEpoch(row[1]) -> IF row[2] <= cursor.end THEN "drop" ELSE "accept"

\* classifySessionTimelineSeq, with the way out for the first row of an epoch
Decision(row) ==
    CASE cursor = None -> "init"
      [] cursor # None /\ ~InEpoch(row[1]) -> IF row[2] = 1 THEN "restart" ELSE "drop"
      [] InEpoch(row[1]) /\ row[2] <= cursor.end -> "drop"
      [] InEpoch(row[1]) /\ row[2] = cursor.end + 1 -> "accept"
      [] InEpoch(row[1]) /\ row[2] > cursor.end + 1 -> "gap"

\* processAgentStreamEvent of a row
RowArrives ==
    /\ Delivered("row")
    /\ LET m == Head(toApp)
           decision == Decision(m.row)
           start == IF decision = "accept" THEN cursor.start ELSE m.row[2]
           base == IF decision = "restart" THEN [tail |-> <<>>, head |-> <<>>] ELSE Shown
       IN IF decision \in {"drop", "gap"}
          THEN /\ CatchUp(IF decision = "gap" THEN {End} ELSE {})
               /\ UNCHANGED <<cursor, view>>
          ELSE /\ cursor' = [epoch |-> m.row[1], start |-> start, end |-> m.row[2]]
               /\ Show(Applied(base, m.kind, <<m.row>>))
               /\ UNCHANGED <<requests, catching>>
    /\ UNCHANGED <<daemon, up, hasOlder, applied, synced, init, older, told, bounds>>

\* ... and of the end of the turn
EndArrives ==
    /\ Delivered("end")
    /\ Show(IF head = <<>> THEN Shown ELSE Flushed(Shown))
    /\ CatchUp(EndOf(cursor))
    /\ UNCHANGED <<daemon, up, cursor, hasOlder, applied, synced, init, older, told, bounds>>

\* The app's own rewind or reload has succeeded: fetchAgentTimeline of the tail.
RedoneArrives ==
    /\ Delivered("redone")
    /\ requests' = requests \cup {Ask("redo", "tail", IF cursor = None THEN None ELSE End)}
    /\ UNCHANGED <<daemon, up, cursor, view, hasOlder, applied, synced, asking, told, bounds>>

\* acceptOlderTimelineUnits, acceptIncrementalTimelineUnits: the page goes to the
\* display as a whole ...
Older(p) == p.to.dir = "before" /\ InEpoch(p.epoch) /\ p.end < cursor.start

\* Mutant: a page that ends where the cursor is is taken again.
NewerOrSame(p) ==
    /\ p.to.dir # "before"
    /\ cursor = None \/ (InEpoch(p.epoch) /\ p.end >= cursor.end /\ p.start <= cursor.end + 1)

Newer(p) ==
    /\ p.to.dir # "before"
    /\ cursor = None \/ (InEpoch(p.epoch) /\ p.end > cursor.end /\ p.start <= cursor.end + 1)

\* ... or begins too far on, and the rows between are asked for.
Ahead(p) == p.entries # <<>> /\ p.to.dir # "before" /\ InEpoch(p.epoch) /\ p.start > cursor.end + 1

IncrementalPath(p) ==
    \/ /\ p.entries # <<>> /\ Older(p)
       /\ cursor' = [cursor EXCEPT !.start = p.start]
       /\ Show(Prepended(Shown, p.entries))
    \/ /\ p.entries # <<>> /\ Newer(p)
       /\ cursor' = [epoch |-> p.epoch, start |-> IF cursor = None THEN p.start ELSE cursor.start,
                     end |-> p.end]
       /\ Show(Extended(Shown, p.entries))
    \/ /\ p.entries = <<>> \/ ~(Older(p) \/ Newer(p))
       /\ UNCHANGED <<cursor, view>>

\* Mutant: the cursor of a page without rows is taken.
ReplacePathUnchecked(p) ==
    /\ cursor' = [epoch |-> p.epoch, start |-> p.start, end |-> p.end]
    /\ Show(Replaced(Shown, p.entries))

\* applyTimelineReplacePath
ReplacePath(p) ==
    /\ cursor' = IF p.start = 0 THEN None ELSE [epoch |-> p.epoch, start |-> p.start, end |-> p.end]
    /\ Show(Replaced(Shown, p.entries))

\* applyTimelineResponse
PageArrives ==
    /\ Delivered("page")
    /\ LET p == Head(toApp)
           replaces == p.reset \/ (p.to.dir = "tail" /\ init # None)
           complete == p.to.dir # "after" \/ ~p.hasNewer
           resolves == init # None /\ (p.reset \/ (complete /\ p.to.dir = init))
           behind == IF replaces THEN (IF p.reset \/ p.end = 0 THEN {} ELSE {<<p.epoch, p.end>>})
                     ELSE IF Ahead(p) THEN {End} ELSE {}
           places == behind \cup IF ~complete /\ p.end > 0 THEN {<<p.epoch, p.end>>} ELSE {}
       IN /\ IF replaces THEN ReplacePath(p) ELSE IncrementalPath(p)
          /\ hasOlder' = p.hasOlder
          /\ applied' = (applied \/ (complete /\ p.to.dir # "before"))
          /\ synced' = (synced \/ resolves)
          /\ init' = IF resolves THEN None ELSE init
          /\ requests' = requests \cup CatchUps(places)
          /\ Settled(p.to, catching \cup places)
          /\ Happens("moved", replaces /\ \E q \in requests \cup Under : q.dir = "before")
    /\ UNCHANGED <<daemon, up, told, upsets>>

Receive == RowArrives \/ EndArrives \/ RedoneArrives \/ PageArrives

-----------------------------------------------------------------------------
\* What goes on by itself: the daemon reads and answers, the connection delivers
\* and comes back, the user returns to the panel (agent-panel.tsx tries again
\* when it gets the focus or the sync generation changes).
Proceed ==
    \/ Hydrate
    \/ \E r \in requests : Serve(r)
    \/ Receive
    \/ Connect
    \/ Open

Next ==
    \/ \E kind \in Kinds : Commit(kind)
    \/ TurnEnds
    \/ \E n \in 0..Len(log) : Rewind(n)
    \/ Reload
    \/ Resume
    \/ LoadOlder
    \/ \E r \in Awaited : TimesOut(r)
    \/ Disconnect
    \/ Proceed

Spec == Init /\ [][Next]_vars

\* One condition for all of it: while something of it can happen, something does.
FairSpec == Spec /\ WF_vars(Proceed)

-----------------------------------------------------------------------------
(* Properties *)

\* The state has its shape.
TypeOK ==
    /\ epoch \in 1..MaxEpochs /\ log \in Seq(Kinds) /\ Len(log) <= MaxRows /\ unread \in Seq(Kinds)
    /\ cursor \in Cursor \cup {None} /\ {tail, head} \subseteq Seq(Items)
    /\ requests \subseteq Request /\ init \in {None, "tail", "after"}
    /\ catching \subseteq RowIds /\ {turn, up, hasOlder, applied, synced, older, told} \subseteq BOOLEAN
    /\ mishaps \subseteq {"mixed", "missed", "moved"}

Displayed == FoldLeft(LAMBDA acc, i : acc \o i.text, <<>>, tail \o head)

\* No message the cursor has passed is missing from the display, whatever gaps,
\* page resets and merges of the live head and the tail lie behind it
\* (session-stream-reducers.ts classifySessionTimelineSeq, computeGapCursor).
\* Where the view was replaced while older rows were asked for there may be a
\* hole: acceptOlderTimelineUnits takes any page that ends before the cursor.
NoMessageMissing ==
    (cursor # None /\ cursor.epoch = epoch /\ "moved" \notin mishaps) =>
        \A n \in cursor.start..cursor.end :
            log[n] = "message" => Contains(Displayed, <<epoch, n>>)

\* Messages are displayed in their order, once, and none of an earlier epoch:
\* live events, catch-up pages and older pages overlap, and the reducers' cursor
\* has to tell them apart.  Not so a tail page that arrives when no
\* initialization waits for it: acceptIncrementalTimelineUnits takes it whole.
MessagesOnce ==
    LET shown == tail \o head
        messages == {i \in DOMAIN shown : shown[i].kind = "message"}
        row(i) == shown[i].text[1]
    IN mishaps \cap {"mixed", "missed"} = {} =>
        /\ \A i \in messages : cursor # None /\ row(i)[1] = cursor.epoch
        /\ \A i, j \in messages : i < j => row(i)[2] < row(j)[2]

\* The store and the reducers implement TimelineReader: within an epoch the
\* app's cursor only moves on, to rows that exist, and it starts anew in another
\* epoch only.
Reader == INSTANCE TimelineReader WITH
    length <- Len(log), at <- IF cursor = None THEN <<0, 0>> ELSE <<cursor.epoch, cursor.end>>
ReaderSpec == Reader!Spec

\* When the agent has come to rest and the app stays connected, and word of the
\* newest row was sent, the app gets there: by live events, or by the catch-up of
\* a gap, of a turn's end (requestCanonicalCatchUp) or of a new sync generation.
CaughtUp == cursor # None /\ cursor.epoch = epoch /\ cursor.end = Len(log)
DisplaysWhatIsTold == <>[](up /\ ~turn /\ told) => <>[]CaughtUp

\* Every row displayed is displayed once: docs/architecture.md promises
\* sequence-based deduplication of live events and fetched pages.
EachRowOnce == IsInjective(Displayed)

\* Rows before those displayed can be scrolled to: docs/timeline-sync.md leaves
\* older history to the user, and loadOlderAgentHistory asks only if hasOlder.
OlderReachable ==
    (cursor # None /\ cursor.epoch = epoch /\ cursor.start > 1 /\ requests = {} /\ toApp = <<>>)
        => hasOlder
=============================================================================
