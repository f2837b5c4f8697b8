---------------------------- MODULE CommandBroker ----------------------------
(***************************************************************************)
(* Commands from the control plane to daemons that it cannot reach:        *)
(* DaemonCommandBroker (control/http/daemon-command-broker.ts) keeps them  *)
(* until the daemon's poller (server/control-command-poller.ts) fetches    *)
(* them over HTTP, performs them on the daemon's own API one after         *)
(* another, and reports each result.                                       *)
(*                                                                         *)
(* Every fetch may fail before it reaches the other side or after, and a   *)
(* poll or a report may arrive when its poller has given it up.  Both      *)
(* processes may restart; the broker keeps everything in memory.  A daemon *)
(* that is reconfigured starts another poller, while the old one finishes  *)
(* the poll it is in.                                                      *)
(***************************************************************************)
EXTENDS Naturals, Sequences, FiniteSets

CONSTANTS
    Cmds,           \* command ids
    Nodes,          \* daemons
    Pollers,        \* pollers the daemons create, each at most once
    None,
    MaxCommands,    \* how many commands a poll asks for
    MaxLate         \* bound: requests under way that have been given up

ASSUME NamesAssumption == None \notin Cmds /\ None \notin Nodes
ASSUME LimitAssumption == MaxCommands \in Nat \ {0} /\ MaxLate \in Nat

VARIABLES
    queue,      \* pendingByNodeId: the queue of each node, as a set
    pending,    \* pendingByCommandId
    ticket,     \* the order of the requests, which is that of every queue
    tickets,    \* the number of requests so far
    node,       \* command.nodeId
    answer,     \* the promise of each request
    accepted,   \* commands whose result was answered with "accepted"
    home,       \* the daemon a poller has been created by, or None
    timers,     \* the pollers with a pollTimer
    at,         \* the await at which pollOnce stands; "idle" is polling = false
    batch,      \* the commands of the poll response still to be performed
    cmd,        \* the command being performed or reported
    okay,       \* the result to report: result.ok
    late,       \* requests under way whose poller has given them up
    log         \* the daemons: commands performed on the local API

broker == <<queue, pending, answer>>
asked == <<ticket, tickets, node>>
daemons == <<home, timers>>
poller == <<at, batch, cmd, okay>>
vars == <<broker, asked, accepted, daemons, poller, late, log>>

Init ==
    /\ queue = [n \in Nodes |-> {}] /\ pending = {}
    /\ ticket = [c \in Cmds |-> 0] /\ tickets = 0
    /\ node = [c \in Cmds |-> None]
    /\ answer = [c \in Cmds |-> "none"]
    /\ accepted = {}
    /\ home = [p \in Pollers |-> None] /\ timers = {}
    /\ at = [p \in Pollers |-> "idle"] /\ batch = [p \in Pollers |-> {}]
    /\ cmd = [p \in Pollers |-> None] /\ okay = [p \in Pollers |-> FALSE]
    /\ late = {} /\ log = <<>>

-----------------------------------------------------------------------------
(* DaemonCommandBroker *)

\* request
Request(c, n) ==
    /\ answer[c] = "none"
    /\ tickets' = tickets + 1
    /\ ticket' = [ticket EXCEPT ![c] = tickets + 1]
    /\ node' = [node EXCEPT ![c] = n]
    /\ answer' = [answer EXCEPT ![c] = "waiting"]
    /\ pending' = pending \cup {c}
    /\ queue' = [queue EXCEPT ![n] = @ \cup {c}]
    /\ UNCHANGED <<accepted, daemons, poller, late, log>>

\* Mutant: the entry stays in its queue.
RemoveFromIndexOnly(c) ==
    /\ pending' = pending \ {c}
    /\ UNCHANGED queue

\* removePending
RemovePending(c) ==
    /\ pending' = pending \ {c}
    /\ queue' = [queue EXCEPT ![node[c]] = @ \ {c}]

\* Mutant: a timeout leaves the request in the index.
TimeoutKeepsIndex(c) ==
    /\ c \in pending /\ answer[c] = "waiting"
    /\ answer' = [answer EXCEPT ![c] = "timeout"]
    /\ queue' = [queue EXCEPT ![node[c]] = @ \ {c}]
    /\ UNCHANGED <<pending, asked, accepted, daemons, poller, late, log>>

\* The timer of a request.
Timeout(c) ==
    /\ c \in pending
    /\ answer' = [answer EXCEPT ![c] = "timeout"]
    /\ RemovePending(c)
    /\ UNCHANGED <<asked, accepted, daemons, poller, late, log>>

\* Mutant: the youngest commands are taken.
OldestAreYoungest(S, T) == \A c \in S, d \in T \ S : ticket[c] > ticket[d]

\* S is the front of the queue T.
Oldest(S, T) == \A c \in S, d \in T \ S : ticket[c] < ticket[d]

Limited(n) == IF n < MaxCommands THEN n ELSE MaxCommands

\* Mutant: commands stay queued until their result arrives.
TakenButKept(n, S) ==
    /\ Cardinality(S) = Limited(Cardinality(queue[n]))
    /\ Oldest(S, queue[n])
    /\ UNCHANGED broker

\* Mutant: commands leave the index with their queue.
TakenForGood(n, S) ==
    /\ Cardinality(S) = Limited(Cardinality(queue[n]))
    /\ Oldest(S, queue[n])
    /\ queue' = [queue EXCEPT ![n] = @ \ S]
    /\ pending' = pending \ S
    /\ UNCHANGED answer

\* takePending: S is the front of the queue of node n, and leaves it.
Taken(n, S) ==
    /\ Cardinality(S) = Limited(Cardinality(queue[n]))
    /\ Oldest(S, queue[n])
    /\ queue' = [queue EXCEPT ![n] = @ \ S]
    /\ UNCHANGED <<pending, answer>>

\* A poll reaches the control plane.
TakePending(p) ==
    /\ at[p] = "polling"
    /\ \E S \in SUBSET queue[home[p]] :
         Taken(home[p], S) /\ batch' = [batch EXCEPT ![p] = S]
    /\ at' = [at EXCEPT ![p] = "receiving"]
    /\ UNCHANGED <<asked, accepted, daemons, cmd, okay, late, log>>

\* complete.  A promise is settled once.
Completed(n, c, ok) ==
    IF c \in pending /\ node[c] = n
    THEN /\ RemovePending(c)
         /\ answer' = [answer EXCEPT ![c] =
                         IF @ # "waiting" THEN @ ELSE IF ok THEN "ok" ELSE "failed"]
         /\ accepted' = accepted \cup {c}
    ELSE UNCHANGED <<broker, accepted>>

\* The report of a result reaches the control plane.
Complete(p) ==
    /\ at[p] = "reporting"
    /\ Completed(home[p], cmd[p], okay[p])
    /\ at' = [at EXCEPT ![p] = "confirming"]
    /\ UNCHANGED <<asked, daemons, batch, cmd, okay, late, log>>

\* So does a poll whose response nobody awaits, or such a report.
LatePoll(m) ==
    /\ m \in late /\ m.cmd = None
    /\ \E S \in SUBSET queue[m.node] : Taken(m.node, S)
    /\ late' = late \ {m}
    /\ UNCHANGED <<asked, accepted, daemons, poller, log>>

LateReport(m) ==
    /\ m \in late /\ m.cmd # None
    /\ Completed(m.node, m.cmd, m.ok)
    /\ late' = late \ {m}
    /\ UNCHANGED <<asked, daemons, poller, log>>

\* The control plane restarts, and its callers lose their connections.
ControlRestarts ==
    /\ queue' = [n \in Nodes |-> {}] /\ pending' = {}
    /\ answer' = [c \in Cmds |-> IF answer[c] = "waiting" THEN "gone" ELSE answer[c]]
    /\ UNCHANGED <<asked, accepted, daemons, poller, late, log>>

-----------------------------------------------------------------------------
(* The poller *)

\* pollOnce, up to the fetch, when the timer fires.
Poll(p) ==
    /\ p \in timers /\ at[p] = "idle"
    /\ at' = [at EXCEPT ![p] = "polling"]
    /\ UNCHANGED <<broker, asked, accepted, daemons, batch, cmd, okay, late, log>>

\* The request of a poller that has not yet reached the control plane.
Sent(p) ==
    IF at[p] \in {"polling", "reporting"}
    THEN {[node |-> home[p], cmd |-> cmd[p], ok |-> okay[p]]}
    ELSE {}

\* Requests that are given up may be lost, or be under way.
GivenUp(sent) ==
    \E L \in SUBSET sent :
        late' = late \cup L /\ (L # {} => Cardinality(late') <= MaxLate)

\* Mutant: the flag is not reset when a fetch fails.
PollFailsBusy(p) ==
    /\ at[p] \in {"polling", "receiving", "reporting", "confirming"}
    /\ at' = [at EXCEPT ![p] = "stuck"]
    /\ batch' = [batch EXCEPT ![p] = {}] /\ cmd' = [cmd EXCEPT ![p] = None]
    /\ UNCHANGED <<broker, asked, accepted, daemons, okay, late, log>>

\* Mutant: a poll that fails is tried again at once.
PollFailsRetries(p) ==
    /\ at[p] \in {"polling", "receiving", "reporting", "confirming"}
    /\ GivenUp(Sent(p))
    /\ at' = [at EXCEPT ![p] = "polling"]
    /\ batch' = [batch EXCEPT ![p] = {}] /\ cmd' = [cmd EXCEPT ![p] = None]
    /\ okay' = [okay EXCEPT ![p] = FALSE]
    /\ UNCHANGED <<broker, asked, accepted, daemons, log>>

\* The fetch of a poll or of a report rejects, before it reaches the control
\* plane or after, or the poll is refused: the poll is over, and the commands
\* that are left of its response are dropped.
PollFails(p) ==
    /\ at[p] \in {"polling", "receiving", "reporting", "confirming"}
    /\ GivenUp(Sent(p))
    /\ at' = [at EXCEPT ![p] = "idle"]
    /\ batch' = [batch EXCEPT ![p] = {}] /\ cmd' = [cmd EXCEPT ![p] = None]
    /\ okay' = [okay EXCEPT ![p] = FALSE]
    /\ UNCHANGED <<broker, asked, accepted, daemons, log>>

\* The poll is answered, or a report is, even if only by a refusal: the next
\* command of the response, if there is one.
Proceed(p) ==
    /\ at[p] \in {"receiving", "reporting", "confirming"}
    /\ \/ /\ batch[p] = {}
          /\ at' = [at EXCEPT ![p] = "idle"]
          /\ cmd' = [cmd EXCEPT ![p] = None]
          /\ UNCHANGED batch
       \/ \E c \in batch[p] :
            /\ Oldest({c}, batch[p])
            /\ at' = [at EXCEPT ![p] = "executing"]
            /\ cmd' = [cmd EXCEPT ![p] = c]
            /\ batch' = [batch EXCEPT ![p] = @ \ {c}]
    /\ okay' = [okay EXCEPT ![p] = FALSE]
    /\ UNCHANGED <<broker, asked, accepted, daemons, late, log>>

\* Mutant: the status of the response is not looked at.
ReplyIgnored(ok) == TRUE

\* executeLocalCommand: result.ok is response.ok, or FALSE without a response.
Reply(ok) == ok

\* The command is performed; its response may be lost.
Execute(p) ==
    /\ at[p] = "executing"
    /\ \E ok, lost \in BOOLEAN :
         /\ log' = Append(log, [cmd |-> cmd[p], by |-> p, ok |-> ok])
         /\ okay' = [okay EXCEPT ![p] = ~lost /\ Reply(ok)]
    /\ at' = [at EXCEPT ![p] = "reporting"]
    /\ UNCHANGED <<broker, asked, accepted, daemons, batch, cmd, late>>

\* The daemon's API is not reached.
ExecuteFails(p) ==
    /\ at[p] = "executing"
    /\ okay' = [okay EXCEPT ![p] = FALSE]
    /\ at' = [at EXCEPT ![p] = "reporting"]
    /\ UNCHANGED <<broker, asked, accepted, daemons, batch, cmd, late, log>>

\* bootstrap.ts: the old poller is stopped, a new one is created and polls.
StartPoller(p, n) ==
    /\ home[p] = None
    /\ home' = [home EXCEPT ![p] = n]
    /\ timers' = {q \in timers : home[q] # n} \cup {p}
    /\ at' = [at EXCEPT ![p] = "polling"]
    /\ UNCHANGED <<broker, asked, accepted, batch, cmd, okay, late, log>>

\* bootstrap.ts: the daemon is configured not to poll; the poll in progress goes on.
StopPoller(n) ==
    /\ timers' = {p \in timers : home[p] # n}
    /\ UNCHANGED <<broker, asked, accepted, home, poller, late, log>>

\* The daemon goes down, and its pollers with it.
DaemonStops(n) ==
    LET up(p) == home[p] # n IN
    /\ timers' = {p \in timers : up(p)}
    /\ at' = [p \in Pollers |-> IF up(p) THEN at[p] ELSE "idle"]
    /\ batch' = [p \in Pollers |-> IF up(p) THEN batch[p] ELSE {}]
    /\ cmd' = [p \in Pollers |-> IF up(p) THEN cmd[p] ELSE None]
    /\ okay' = [p \in Pollers |-> up(p) /\ okay[p]]
    /\ GivenUp(UNION {Sent(p) : p \in {q \in Pollers : ~up(q)}})
    /\ UNCHANGED <<broker, asked, accepted, home, log>>

-----------------------------------------------------------------------------
\* What happens to the fetch that a poller awaits.
PollerStep(p) ==
    \/ TakePending(p) \/ Complete(p) \/ PollFails(p) \/ Proceed(p)
    \/ Execute(p) \/ ExecuteFails(p)

Next ==
    \/ \E c \in Cmds : Timeout(c) \/ \E n \in Nodes : Request(c, n)
    \/ \E p \in Pollers :
         PollerStep(p) \/ Poll(p) \/ \E n \in Nodes : StartPoller(p, n)
    \/ \E m \in late : LatePoll(m) \/ LateReport(m)
    \/ ControlRestarts
    \/ \E n \in Nodes : StopPoller(n) \/ DaemonStops(n)

Spec == Init /\ [][Next]_vars

\* Timers fire, and every fetch resolves or rejects.
FairSpec ==
    /\ Spec
    /\ \A c \in Cmds : WF_vars(Timeout(c))
    /\ \A p \in Pollers : WF_vars(PollerStep(p))

-----------------------------------------------------------------------------
(* Properties *)

Ats == {"idle", "polling", "receiving", "executing", "reporting", "confirming"}

\* The maps of the broker, its promises and the state of every poller keep
\* their shape.
TypeOK ==
    /\ queue \in [Nodes -> SUBSET Cmds] /\ pending \subseteq Cmds
    /\ ticket \in [Cmds -> Nat] /\ tickets \in Nat
    /\ node \in [Cmds -> Nodes \cup {None}]
    /\ answer \in [Cmds -> {"none", "waiting", "ok", "failed", "timeout", "gone"}]
    /\ accepted \subseteq Cmds
    /\ home \in [Pollers -> Nodes \cup {None}] /\ timers \subseteq Pollers
    /\ at \in [Pollers -> Ats] /\ batch \in [Pollers -> SUBSET Cmds]
    /\ cmd \in [Pollers -> Cmds \cup {None}] /\ okay \in [Pollers -> BOOLEAN]
    /\ late \subseteq [node : Nodes, cmd : Cmds \cup {None}, ok : BOOLEAN]
    /\ log \in Seq([cmd : Cmds, by : Pollers, ok : BOOLEAN])

\* A command is performed at most once, however polls, reports and restarts of
\* either side interleave and whatever the network loses.
AtMostOnce == \A i, j \in DOMAIN log : log[i].cmd = log[j].cmd => i = j

\* Commands are not handed out for nobody: whatever waits for a poll has a
\* caller that still waits for its answer, and is for that daemon.
QueueAwaited ==
    \A n \in Nodes : \A c \in queue[n] :
        c \in pending /\ answer[c] = "waiting" /\ node[c] = n

\* A daemon is told "accepted" only when its result has become the answer of
\* the caller; a result that comes after the timeout is refused.
AcceptedAnswers == \A c \in accepted : answer[c] \in {"ok", "failed"}

\* One poller performs commands in the order in which they were requested,
\* across its polls and although polls and reports fail in between.
InOrder ==
    \A i, j \in DOMAIN log :
        i < j /\ log[i].by = log[j].by => ticket[log[i].cmd] < ticket[log[j].cmd]

\* No caller is forgotten: whoever still waits is in the index, where a report
\* and the timer find it, whatever became of the command itself.
WaitingIsPending == \A c \in Cmds : answer[c] = "waiting" => c \in pending

\* A poller always comes back to polling: no failure leaves it busy.
PollerReturns == \A p \in Pollers : at[p] # "idle" ~> at[p] = "idle"

\* Callers are served as module RemoteCalls promises.
Calls == INSTANCE RemoteCalls WITH Workers <- Pollers

CallsSpec == Calls!Spec
=============================================================================
