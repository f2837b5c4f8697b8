---------------------------- MODULE AgentRecords ----------------------------
(***************************************************************************)
(* The record of an agent: AgentStorage (server/agent/agent-storage.ts)    *)
(* keeps one file and one cached record per agent, and is written by the   *)
(* snapshots of every state change of a loaded agent and by the calls that *)
(* archive, unarchive, title and delete it (agent-manager.ts,              *)
(* agent-prompt.ts, session.ts).                                           *)
(*                                                                         *)
(* Writes of one agent are chained, so one agent is modelled.  A snapshot  *)
(* waits for the writes queued when it is called, not for those queued     *)
(* while it waits, then reads the cache and queues its own: between the    *)
(* two nothing but other continuations runs, so that is one step.  A write *)
(* may fail, and takes with it those chained to it; the daemon may stop at *)
(* any step.  A record file may be where an older version put it (the root *)
(* of the store) and moves to the directory of its project when written.   *)
(*                                                                         *)
(* An agent is loaded at most once between two starts of the daemon.       *)
(***************************************************************************)
EXTENDS Naturals, Sequences, FiniteSets

CONSTANTS
    Callers,    \* calls on the record
    Kinds,      \* the kinds of call that are made
    None,
    MaxVer,     \* bound: states of the agent
    MaxFaults,  \* bound: writes that fail
    MaxCrashes  \* bound: restarts of the daemon

ASSUME KindsAssumption == Kinds \subseteq {"title", "archive", "unarchive", "delete"}
ASSUME BoundsAssumption == {MaxVer, MaxFaults, MaxCrashes} \subseteq Nat

VARIABLES
    live,       \* the agent is in AgentManager.agents
    loaded,     \* it has been since the daemon started
    ver,        \* its state, the closing of it included
    disk,       \* the record file in each place
    known,      \* pathsById
    path,       \* pathById
    cache,      \* the cached record
    deleting,   \* the agent is marked as being deleted
    queue,      \* the records whose write is chained, pendingWrites
    head,       \* how far the write of the first one is
    broken,     \* a write has failed: those chained to it are rejected
    snaps,      \* snapshots that wait for the writes before them, in call order
    call,       \* what each call is waiting for
    written,    \* the last record written, None when there is none
    word,       \* what was last asked and done with no write left under way
    gone,       \* a remove has succeeded
    faults, crashes

store == <<disk, known, path, cache, deleting>>
chain == <<queue, head, broken>>
past == <<written, word, gone, faults, crashes>>
vars == <<live, loaded, ver, store, chain, snaps, call, past>>

Places == {"root", "project"}
Record == [ver: Nat, archived: BOOLEAN]

ASSUME NoneAssumption == None \notin Record /\ None \notin Nat

\* "waiting", "snapping", "leaving", "closing": see the steps of the calls.
Call == [at: {"new", "waiting", "titling", "snapping", "snapped", "archiving", "archived",
              "leaving", "closing", "closed", "storing", "unarchiving", "removing",
              "unlinking", "done"},
         kind: Kinds \cup {"none"}, ahead: Nat, failed: BOOLEAN]

\* by: the call that takes the snapshot; ver: the copy of the agent it is
\* given, None when it is given the agent itself.
Snapshot == [ahead: Nat, by: Callers \cup {None}, ver: Nat \cup {None}]

NewCall == [at |-> "new", kind |-> "none", ahead |-> 0, failed |-> FALSE]

Init ==
    /\ live = FALSE /\ loaded = FALSE
    /\ \E places \in {{}, {"root"}, {"project"}} :
         LET rec == [ver |-> 1, archived |-> FALSE] IN
         /\ ver = Cardinality(places)
         /\ disk = [p \in Places |-> IF p \in places THEN rec ELSE None]
         /\ known = places
         /\ path = IF places = {} THEN None ELSE CHOOSE p \in places : TRUE
         /\ cache = IF places = {} THEN None ELSE rec
         /\ written = cache
    /\ deleting = FALSE
    /\ queue = <<>> /\ head = "queued" /\ broken = FALSE
    /\ snaps = <<>>
    /\ call = [c \in Callers |-> NewCall]
    /\ word = "none" /\ gone = FALSE /\ faults = 0 /\ crashes = 0

-----------------------------------------------------------------------------
(* Helpers *)

\* The state of the agent as its object has it: closing copies the object.
ObjectVer == IF live THEN ver ELSE ver - 1

\* emitState: the hook of the persistence takes a snapshot of a copy; but for
\* persist: false, the manager takes one of the agent before.
Emitted(own, v) ==
    LET snap(copy) == [ahead |-> Len(queue), by |-> None, ver |-> copy]
    IN (IF own THEN <<snap(None)>> ELSE <<>>) \o <<snap(v)>>

\* notifyAgentState: nothing when the agent is not loaded.
Notified ==
    IF live
    THEN ver' = ver + 1 /\ snaps' = snaps \o Emitted(TRUE, ver + 1)
    ELSE UNCHANGED <<ver, snaps>>

\* Call c goes on at the given point, to wait for n writes.
Awaits(c, at, n) ==
    call' = [call EXCEPT ![c] = [@ EXCEPT !.at = at, !.ahead = n, !.failed = FALSE]]

Ends(c) == Awaits(c, "done", 0)

\* queueRecordWrite
Enqueue(rec) == queue' = Append(queue, rec) /\ UNCHANGED <<head, broken>>

Ready(c, at) == call[c].at = at /\ call[c].ahead = 0

\* What a settled write lets go on does so before anything else happens.
Drained ==
    /\ snaps # <<>> => Head(snaps).ahead # 0
    /\ \A c \in Callers : ~Ready(c, "waiting") /\ ~Ready(c, "snapped")

-----------------------------------------------------------------------------
(* The agent *)

\* An agent is created, once, or loaded from its record.
Register ==
    /\ Drained /\ ~loaded /\ (cache # None \/ ver = 0) /\ ver < MaxVer
    /\ live' = TRUE /\ loaded' = TRUE /\ ver' = ver + 1
    /\ snaps' = snaps \o Emitted(TRUE, ver + 1)
    /\ UNCHANGED <<store, chain, call, past>>

\* A state change, of which there are many.
Change ==
    /\ Drained /\ live /\ ver < MaxVer
    /\ ver' = ver + 1
    /\ snaps' = snaps \o Emitted(TRUE, ver + 1)
    /\ UNCHANGED <<live, loaded, store, chain, call, past>>

\* Mutant: archivedAt is not part of the snapshot and is not kept.
SnapshotRecordPlain(snap) ==
    [ver |-> IF snap.ver # None THEN snap.ver ELSE ObjectVer, archived |-> FALSE]

\* The record applySnapshot makes.
SnapshotRecord(snap) ==
    [ver |-> IF snap.ver # None THEN snap.ver ELSE ObjectVer,
     archived |-> cache # None /\ cache.archived]

\* The next snapshot goes on once the writes it waits for are settled.
ApplySnapshot ==
    /\ snaps # <<>> /\ Head(snaps).ahead = 0
    /\ snaps' = Tail(snaps)
    /\ Enqueue(SnapshotRecord(Head(snaps)))
    /\ LET c == Head(snaps).by IN
       IF c = None THEN UNCHANGED call
       ELSE Awaits(c, IF call[c].at = "snapping" THEN "snapped" ELSE "closed", Len(queue) + 1)
    /\ UNCHANGED <<live, loaded, ver, store, past>>

-----------------------------------------------------------------------------
(* Writes *)

\* Mutant: what waits for nothing is counted as well.
OneLessAlways(n) == n - 1

\* A write less to wait for.
OneLess(n) == IF n = 0 THEN 0 ELSE n - 1

\* The first write is settled, and with it what awaits it.
Settle(ok) ==
    /\ queue' = Tail(queue) /\ head' = "queued"
    /\ broken' = (~ok /\ Len(queue) > 1)
    /\ snaps' = [i \in DOMAIN snaps |-> [snaps[i] EXCEPT !.ahead = OneLess(@)]]
    /\ call' = [c \in Callers |-> [call[c] EXCEPT !.ahead = OneLess(@),
                                      !.failed = IF call[c].ahead = 1 THEN ~ok ELSE @]]

\* Nothing is written of an agent that is being deleted.
WriteBegins ==
    /\ queue # <<>> /\ head = "queued" /\ ~broken
    /\ IF deleting
       THEN Settle(TRUE)
       ELSE head' = "begun" /\ UNCHANGED <<queue, broken, snaps, call>>
    /\ UNCHANGED <<live, loaded, ver, store, past>>

\* The temporary file is renamed.
WriteRenames ==
    /\ Drained /\ head = "begun" /\ head' = "renamed"
    /\ disk' = [disk EXCEPT !["project"] = Head(queue)]
    /\ known' = known \cup {"project"}
    /\ written' = Head(queue)
    /\ UNCHANGED <<live, loaded, ver, path, cache, deleting, queue, broken, snaps, call,
                   word, gone, faults, crashes>>

\* The file in the former place is removed and the record is cached.
WriteEnds ==
    /\ Drained /\ head = "renamed"
    /\ disk' = IF path = "root" THEN [disk EXCEPT !["root"] = None] ELSE disk
    /\ known' = IF path = "root" THEN known \ {"root"} ELSE known
    /\ path' = "project" /\ cache' = Head(queue)
    /\ Settle(TRUE)
    /\ UNCHANGED <<live, loaded, ver, deleting, past>>

WriteFails ==
    /\ Drained /\ head = "begun" /\ faults < MaxFaults
    /\ faults' = faults + 1
    /\ Settle(FALSE)
    /\ UNCHANGED <<live, loaded, ver, store, written, word, gone, crashes>>

\* Mutant: what is chained to a write that failed is never settled.
WriteRejectedNever == FALSE /\ UNCHANGED vars

\* A write chained to one that failed is rejected in turn.
WriteRejected ==
    /\ queue # <<>> /\ broken
    /\ Settle(FALSE)
    /\ UNCHANGED <<live, loaded, ver, store, past>>

-----------------------------------------------------------------------------
(* Calls.  Those that throw before they change anything are left out.        *)

Starts(c, kind, at, n) ==
    /\ Drained /\ call[c].at = "new" /\ kind \in Kinds
    /\ call' = [call EXCEPT ![c] = [NewCall EXCEPT !.at = at, !.kind = kind, !.ahead = n]]

\* setGeneratedTitle: it waits like a snapshot, ...
Title(c) ==
    /\ live /\ Starts(c, "title", "waiting", Len(queue))
    /\ UNCHANGED <<live, loaded, ver, store, chain, snaps, past>>

\* ... reads the record and queues it with the title, ...
TitleReads(c) ==
    /\ Ready(c, "waiting")
    /\ IF cache = None
       THEN Ends(c) /\ UNCHANGED chain
       ELSE Awaits(c, "titling", Len(queue) + 1) /\ Enqueue(cache)
    /\ UNCHANGED <<live, loaded, ver, store, snaps, past>>

\* Mutant: the state is not emitted after the title has been written.
TitledSilently(c) ==
    /\ Ready(c, "titling") /\ Ends(c)
    /\ UNCHANGED <<live, loaded, ver, store, chain, snaps, past>>

\* ... and emits the state of the agent, which only the hook persists.
Titled(c) ==
    /\ Ready(c, "titling") /\ Ends(c)
    /\ snaps' = IF call[c].failed THEN snaps ELSE snaps \o Emitted(FALSE, ObjectVer)
    /\ UNCHANGED <<live, loaded, ver, store, chain, past>>

\* archiveAgent of a loaded agent first persists a snapshot of it.
Archive(c) ==
    /\ live /\ Starts(c, "archive", "snapping", 0)
    /\ snaps' = Append(snaps, [ahead |-> Len(queue), by |-> c, ver |-> None])
    /\ UNCHANGED <<live, loaded, ver, store, chain, past>>

\* markRecordArchived reads the record and queues it as archived.
ArchiveMarks(c) ==
    /\ Ready(c, "snapped")
    /\ IF call[c].failed \/ cache = None
       THEN Ends(c) /\ UNCHANGED chain
       ELSE /\ Awaits(c, "archiving", Len(queue) + 1)
            /\ Enqueue([cache EXCEPT !.archived = TRUE])
    /\ UNCHANGED <<live, loaded, ver, store, snaps, past>>

\* Listeners are told; the agent is closed after the callbacks.
ArchiveNotifies(c) ==
    /\ Ready(c, "archiving")
    /\ IF call[c].failed
       THEN Ends(c) /\ UNCHANGED <<ver, snaps>>
       ELSE Awaits(c, "archived", 0) /\ Notified
    /\ UNCHANGED <<live, loaded, store, chain, past>>

\* closeAgent, up to the close of the session.  It throws when the agent is
\* not loaded any more: an archive fails and a delete goes on.
Close(c) ==
    /\ Ready(c, "archived")
    /\ IF live
       THEN live' = FALSE /\ ver' = ver + 1 /\ Awaits(c, "leaving", 0)
       ELSE /\ UNCHANGED <<live, ver>>
            /\ IF call[c].kind = "delete" THEN Awaits(c, "removing", Len(queue)) ELSE Ends(c)
    /\ UNCHANGED <<loaded, store, chain, snaps, past>>

\* The session is closed; the closed agent is persisted.
Closed(c) ==
    /\ Ready(c, "leaving") /\ Awaits(c, "closing", 0)
    /\ snaps' = Append(snaps, [ahead |-> Len(queue), by |-> c, ver |-> ver])
    /\ UNCHANGED <<live, loaded, ver, store, chain, past>>

\* archiveAgentCommand looks at the record and throws if it is not archived.
ArchiveSaid == cache # None /\ cache.archived /\ queue = <<>> /\ ~deleting

\* The end of an archive, and in a delete the call of remove after the flush,
\* which only makes it wait for longer.
CloseEnds(c) ==
    /\ Ready(c, "closed")
    /\ IF call[c].kind = "delete"
       THEN Awaits(c, "removing", Len(queue)) /\ UNCHANGED word
       ELSE /\ call' = [call EXCEPT ![c].at = "done"]
            /\ word' = IF ~call[c].failed /\ ArchiveSaid THEN "archived" ELSE word
    /\ UNCHANGED <<live, loaded, ver, store, chain, snaps, written, gone, faults, crashes>>

\* archiveStoredAgent: an agent that is not loaded.
ArchiveStored(c) ==
    /\ ~live /\ cache # None /\ ~cache.archived
    /\ Starts(c, "archive", "storing", Len(queue) + 1)
    /\ Enqueue([cache EXCEPT !.archived = TRUE])
    /\ UNCHANGED <<live, loaded, ver, store, snaps, past>>

StoredArchived(c) ==
    /\ Ready(c, "storing") /\ call' = [call EXCEPT ![c].at = "done"]
    /\ IF call[c].failed THEN UNCHANGED <<ver, snaps>> ELSE Notified
    /\ word' = IF ~call[c].failed /\ ArchiveSaid THEN "archived" ELSE word
    /\ UNCHANGED <<live, loaded, store, chain, written, gone, faults, crashes>>

\* unarchiveAgentState
Unarchive(c) ==
    /\ cache # None /\ cache.archived
    /\ Starts(c, "unarchive", "unarchiving", Len(queue) + 1)
    /\ Enqueue([cache EXCEPT !.archived = FALSE])
    /\ word' = "none"
    /\ UNCHANGED <<live, loaded, ver, store, snaps, written, gone, faults, crashes>>

Unarchived(c) ==
    /\ Ready(c, "unarchiving") /\ Ends(c)
    /\ IF call[c].failed THEN UNCHANGED <<ver, snaps>> ELSE Notified
    /\ UNCHANGED <<live, loaded, store, chain, past>>

\* handleDeleteAgentRequest marks the agent, then closes it.
Delete(c) ==
    /\ live \/ cache # None
    /\ Starts(c, "delete", "archived", 0)
    /\ deleting' = TRUE /\ word' = "none"
    /\ UNCHANGED <<live, loaded, ver, disk, known, path, cache, chain, snaps,
                   written, gone, faults, crashes>>

\* remove waits for the writes, and throws if the last one has failed.
Remove(c) ==
    /\ Ready(c, "removing")
    /\ IF call[c].failed THEN Ends(c) ELSE Awaits(c, "unlinking", 0)
    /\ UNCHANGED <<live, loaded, ver, store, chain, snaps, past>>

\* The files known of are removed one by one, then the agent is forgotten.
Unlink(c) ==
    /\ Ready(c, "unlinking")
    /\ \/ \E p \in known :
            /\ disk' = [disk EXCEPT ![p] = None] /\ known' = known \ {p}
            /\ UNCHANGED <<path, cache, written, gone, call>>
       \/ /\ known = {} /\ Ends(c)
          /\ cache' = None /\ path' = None /\ written' = None /\ gone' = TRUE
          /\ UNCHANGED <<disk, known>>
    /\ UNCHANGED <<live, loaded, ver, deleting, chain, snaps, word, faults, crashes>>

Step(c) ==
    \/ TitleReads(c) \/ Titled(c)
    \/ ArchiveMarks(c) \/ ArchiveNotifies(c) \/ Close(c) \/ Closed(c) \/ CloseEnds(c)
    \/ StoredArchived(c) \/ Unarchived(c) \/ Remove(c) \/ Unlink(c)

-----------------------------------------------------------------------------
(* The daemon *)

\* Mutant: the files of the projects come first.
LoadedLegacyLast(files) == IF files["root"] # None THEN "root" ELSE "project"

\* scanDisk reads the root of the store first: what is read last is kept.
LoadedFrom(files) == IF files["project"] # None THEN "project" ELSE "root"

\* The daemon stops and starts again, and loads the records.
Restart ==
    /\ crashes < MaxCrashes /\ crashes' = crashes + 1
    /\ live' = FALSE /\ loaded' = FALSE /\ deleting' = FALSE
    /\ queue' = <<>> /\ head' = "queued" /\ broken' = FALSE /\ snaps' = <<>>
    /\ call' = [c \in Callers |-> IF call[c].at = "new" THEN call[c]
                                   ELSE [call[c] EXCEPT !.at = "done", !.ahead = 0]]
    /\ known' = {p \in Places : disk[p] # None}
    /\ path' = IF known' = {} THEN None ELSE LoadedFrom(disk)
    /\ cache' = IF known' = {} THEN None ELSE disk[LoadedFrom(disk)]
    /\ written' = IF \E c \in Callers : call[c].at = "unlinking" THEN cache' ELSE written
    /\ UNCHANGED <<ver, disk, word, gone, faults>>

Next ==
    \/ Register \/ Change \/ ApplySnapshot
    \/ WriteBegins \/ WriteRenames \/ WriteEnds \/ WriteFails \/ WriteRejected
    \/ \E c \in Callers :
         \/ Title(c) \/ Archive(c) \/ ArchiveStored(c) \/ Unarchive(c) \/ Delete(c)
         \/ Step(c)
    \/ Restart

Spec == Init /\ [][Next]_vars

\* Files are written, and continuations run.
FairSpec ==
    /\ Spec
    /\ WF_vars(ApplySnapshot)
    /\ WF_vars(WriteBegins) /\ WF_vars(WriteRenames) /\ WF_vars(WriteEnds)
    /\ WF_vars(WriteRejected)
    /\ \A c \in Callers : WF_vars(Step(c))

-----------------------------------------------------------------------------
(* Properties *)

Busy(c) == call[c].at \notin {"new", "done"}
Quiet == queue = <<>> /\ snaps = <<>> /\ \A c \in Callers : ~Busy(c)

\* The record, its files and the calls on it keep their shape.
TypeOK ==
    /\ {live, loaded, deleting, broken, gone} \subseteq BOOLEAN
    /\ {ver, faults, crashes} \subseteq Nat
    /\ disk \in [Places -> Record \cup {None}]
    /\ known \subseteq Places /\ path \in Places \cup {None}
    /\ {cache, written} \subseteq Record \cup {None}
    /\ queue \in Seq(Record) /\ head \in {"queued", "begun", "renamed"}
    /\ snaps \in Seq(Snapshot) /\ call \in [Callers -> Call]
    /\ word \in {"none", "archived"}

\* What is served is what was written last, whether writes failed or the
\* daemon stopped in the middle of one or of the move of a file.
ServesLastWritten ==
    head # "renamed" /\ (\A c \in Callers : call[c].at # "unlinking") => cache = written

\* An agent that has been removed does not come back: not by a write that was
\* under way, by a snapshot that was waiting, or by a restart.
RemovedStaysGone == gone => cache = None /\ \A p \in Places : disk[p] = None

\* When nothing is under way and no write has failed the record of a loaded
\* agent is current, although titles and marks rewrite the record they read.
LiveIsCurrent ==
    Quiet /\ live /\ ~deleting /\ faults = 0 => cache # None /\ cache.ver = ver

\* Once an archive is done, and no write that it has overtaken is under way,
\* only an unarchive or a delete undoes it: no snapshot, no loading of the
\* agent, no title, no restart.
ArchiveLasts == word = "archived" => written = None \/ written.archived

\* What a call has done stays done until another call undoes it, whatever was
\* waiting or under way when it returned.
WordLasts == RemovedStaysGone /\ ArchiveLasts

\* An archive of which no write has failed leaves the record archived.
ArchiveHolds ==
    Quiet /\ faults = 0 /\ crashes = 0 =>
        \A c \in Callers : call[c].at = "done" => cache = None \/ cache.archived

\* Calls come to an end, also those whose writes fail or are rejected.
CallsEnd == \A c \in Callers : Busy(c) ~> ~Busy(c)
=============================================================================
