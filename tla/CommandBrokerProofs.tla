------------------------ MODULE CommandBrokerProofs ------------------------
(***************************************************************************)
(* Proofs about CommandBroker, for every number of commands, daemons and   *)
(* pollers, and every limit of a poll.                                     *)
(***************************************************************************)
EXTENDS CommandBroker, TLAPS

-----------------------------------------------------------------------------
(* The inductive invariant *)

Entry == [cmd : Cmds, by : Pollers, ok : BOOLEAN]

Logged(c) == \E i \in DOMAIN log : log[i].cmd = c

\* A poller that is between two polls holds no command; it works for a daemon.
PollersShape ==
    \A p \in Pollers :
        /\ at[p] \in {"idle", "polling"} => batch[p] = {}
        /\ at[p] \in {"idle", "polling", "receiving"} <=> cmd[p] = None
        /\ at[p] # "idle" \/ p \in timers => home[p] \in Nodes
        /\ home[p] = None => \A i \in DOMAIN log : log[i].by # p

\* Whatever is somewhere has been requested.
Requested ==
    /\ \A c \in Cmds : answer[c] = "none" <=> node[c] = None
    /\ \A p \in Pollers : \A c \in batch[p] \cup {cmd[p]} :
         c # None => answer[c] # "none"
    /\ \A i \in DOMAIN log : answer[log[i].cmd] # "none"

\* An entry of the index has a caller that waits.
PendingAwaited == \A c \in pending : answer[c] = "waiting"

\* A command is in one place: in a queue, in the response to one poll, in the
\* hands of one poller, or performed.
QueuesApart ==
    \A n \in Nodes : \A c \in queue[n] :
        ~Logged(c) /\ \A p \in Pollers : c \notin batch[p] /\ cmd[p] # c

BatchesApart ==
    \A p \in Pollers : \A c \in batch[p] :
        ~Logged(c) /\ \A q \in Pollers : cmd[q] # c /\ (p # q => c \notin batch[q])

CommandsApart ==
    \A p \in Pollers :
        /\ at[p] = "executing" => ~Logged(cmd[p])
        /\ \A q \in Pollers : p # q /\ cmd[p] = cmd[q] => cmd[p] = None

\* A success is only reported of a command that was performed with success.
ReportsTrue ==
    \A p \in Pollers : at[p] = "reporting" /\ okay[p] =>
        \E i \in DOMAIN log : log[i].cmd = cmd[p] /\ log[i].ok

\* Nor is it in a report that is still under way.
LateTrue ==
    \A m \in late : m.cmd # None /\ m.ok =>
        \E i \in DOMAIN log : log[i].cmd = m.cmd /\ log[i].ok

Inv ==
    /\ TypeOK /\ PollersShape /\ Requested /\ PendingAwaited /\ QueueAwaited
    /\ QueuesApart /\ BatchesApart /\ CommandsApart /\ ReportsTrue /\ LateTrue
    /\ AtMostOnce /\ AcceptedAnswers

-----------------------------------------------------------------------------
(* Lemmas *)

\* Performing a command adds one entry at the end of the log.
LEMMA AppendEntry ==
    ASSUME NEW l \in Seq(Entry), NEW e \in Entry
    PROVE  /\ Append(l, e) \in Seq(Entry)
           /\ Len(l) + 1 \notin DOMAIN l
           /\ DOMAIN Append(l, e) = DOMAIN l \cup {Len(l) + 1}
           /\ \A i \in DOMAIN l : Append(l, e)[i] = l[i] /\ l[i] \in Entry
           /\ Append(l, e)[Len(l) + 1] = e
<1>1. Len(l) \in Nat /\ DOMAIN l = 1..Len(l) /\ DOMAIN Append(l, e) = 1..(Len(l) + 1)
  OBVIOUS
<1>2. \A i \in 1..Len(l) : Append(l, e)[i] = l[i] /\ l[i] \in Entry
  OBVIOUS
<1>3. Append(l, e)[Len(l) + 1] = e
  OBVIOUS
<1>4. Append(l, e) \in Seq(Entry)
  OBVIOUS
<1>5. 1..(Len(l) + 1) = 1..Len(l) \cup {Len(l) + 1} /\ Len(l) + 1 \notin 1..Len(l)
  BY <1>1
<1>6. QED
  BY <1>1, <1>2, <1>3, <1>4, <1>5

\* Every entry of the log is a command, a poller and an outcome.
LEMMA LogEntries ==
    ASSUME TypeOK
    PROVE  log \in Seq(Entry) /\ \A i \in DOMAIN log : log[i] \in Entry /\ log[i].cmd \in Cmds
<1>1. log \in Seq(Entry)
  BY DEF TypeOK, Entry
<1>2. \A i \in DOMAIN log : log[i] \in Entry
  BY <1>1
<1>3. \A e \in Entry : e.cmd \in Cmds
  BY DEF Entry
<1>4. QED
  BY <1>1, <1>2, <1>3

\* The initial state satisfies the invariant.
LEMMA InvInit == Init => Inv
<1> SUFFICES ASSUME Init PROVE Inv
  OBVIOUS
<1>1. TypeOK
  BY DEF Init, TypeOK, Ats
<1>2. QED
  BY <1>1, NamesAssumption
     DEF Init, Inv, PollersShape, Requested, PendingAwaited, QueueAwaited, QueuesApart,
         BatchesApart, CommandsApart, ReportsTrue, LateTrue, AtMostOnce, AcceptedAnswers,
         Logged

\* A new request is queued.
LEMMA InvRequest ==
    ASSUME Inv, NEW c \in Cmds, NEW n \in Nodes, Request(c, n)
    PROVE  Inv'
<1> USE DEF Inv
<1>1. TypeOK'
  BY DEF TypeOK, Request, daemons, poller
<1>2. c \notin pending /\ \A m \in Nodes : c \notin queue[m]
  BY DEF Request, PendingAwaited, QueueAwaited
<1>3. \A p \in Pollers : c \notin batch[p] /\ cmd[p] # c
  BY NamesAssumption DEF Request, Requested
<1>4. ~Logged(c)
  BY DEF Request, Requested, Logged
<1>5. /\ answer' = [answer EXCEPT ![c] = "waiting"] /\ answer[c] = "none"
      /\ node' = [node EXCEPT ![c] = n] /\ pending' = pending \cup {c}
      /\ queue' = [queue EXCEPT ![n] = @ \cup {c}]
      /\ UNCHANGED <<accepted, home, timers, at, batch, cmd, okay, late, log>>
  BY DEF Request, daemons, poller
<1>6. Requested'
  BY <1>5, NamesAssumption DEF Requested, TypeOK
<1>7. PendingAwaited' /\ QueueAwaited'
  BY <1>1, <1>2, <1>5 DEF PendingAwaited, QueueAwaited, TypeOK
<1>8. QueuesApart'
  BY <1>3, <1>4, <1>5 DEF QueuesApart, Logged, TypeOK
<1>9. PollersShape' /\ BatchesApart' /\ CommandsApart' /\ ReportsTrue' /\ LateTrue'
      /\ AtMostOnce'
  BY <1>5 DEF PollersShape, BatchesApart, CommandsApart, ReportsTrue, LateTrue, AtMostOnce,
              Logged
<1>10. AcceptedAnswers'
  BY <1>5 DEF AcceptedAnswers, TypeOK
<1>11. QED
  BY <1>1, <1>6, <1>7, <1>8, <1>9, <1>10

\* The queues and the index shrink, and callers that waited are told something.
Shrinks ==
    /\ pending' \subseteq pending
    /\ queue' \in [Nodes -> SUBSET Cmds]
    /\ \A n \in Nodes : queue'[n] \subseteq queue[n] /\ queue'[n] \subseteq pending'
    /\ answer' \in [Cmds -> {"none", "waiting", "ok", "failed", "timeout", "gone"}]
    /\ \A c \in Cmds : \/ answer'[c] = answer[c]
                       \/ (answer[c] = "waiting" /\ answer'[c] # "none")
    /\ \A c \in pending' : answer'[c] = answer[c]
    /\ accepted' \subseteq Cmds
    /\ \A c \in accepted' : c \in accepted \/ answer'[c] \in {"ok", "failed"}

\* removePending takes a command out of the index and its queue.
LEMMA Removed ==
    ASSUME Inv, NEW c \in Cmds, RemovePending(c)
    PROVE  /\ pending' = pending \ {c}
           /\ queue' \in [Nodes -> SUBSET Cmds]
           /\ \A n \in Nodes : queue'[n] \subseteq queue[n] /\ queue'[n] \subseteq pending'
<1> USE DEF Inv
<1>1. /\ pending' = pending \ {c}
      /\ queue' = [queue EXCEPT ![node[c]] = @ \ {c}]
  BY DEF RemovePending
<1>2. \A n \in Nodes : queue'[n] \subseteq queue[n] /\ c \notin queue'[n]
  BY <1>1 DEF TypeOK, QueueAwaited
<1>3. queue' \in [Nodes -> SUBSET Cmds]
  BY <1>1, <1>2 DEF TypeOK
<1>4. QED
  BY <1>1, <1>2, <1>3 DEF QueueAwaited

\* A timeout, and a restart of the control plane, shrink.
LEMMA TimeoutShrinks ==
    ASSUME Inv, NEW c \in Cmds, Timeout(c)
    PROVE  Shrinks
<1> USE DEF Inv
<1>1. RemovePending(c) /\ answer' = [answer EXCEPT ![c] = "timeout"] /\ accepted' = accepted
      /\ c \in pending
  BY DEF Timeout
<1>2. answer[c] = "waiting"
  BY <1>1 DEF PendingAwaited
<1>3. QED
  BY <1>1, <1>2, Removed DEF Shrinks, TypeOK

LEMMA RestartShrinks ==
    ASSUME Inv, ControlRestarts
    PROVE  Shrinks
  BY DEF ControlRestarts, Shrinks, Inv, TypeOK

\* takePending shrinks.
LEMMA TakenShrinks ==
    ASSUME Inv, NEW n \in Nodes, NEW S, Taken(n, S), accepted' = accepted
    PROVE  Shrinks
<1> USE DEF Inv
<1>1. queue' = [queue EXCEPT ![n] = @ \ S] /\ UNCHANGED <<pending, answer>>
  BY DEF Taken
<1>2. /\ queue' \in [Nodes -> SUBSET Cmds]
      /\ \A m \in Nodes : queue'[m] \subseteq queue[m]
  BY <1>1 DEF TypeOK
<1>3. QED
  BY <1>1, <1>2 DEF Shrinks, TypeOK, QueueAwaited

\* So does complete.
LEMMA CompletedShrinks ==
    ASSUME Inv, NEW n, NEW c, NEW ok \in BOOLEAN, Completed(n, c, ok)
    PROVE  Shrinks
<1> USE DEF Inv
<1>1. CASE c \in pending /\ node[c] = n
  <2>1. c \in Cmds /\ answer[c] = "waiting"
    BY <1>1 DEF TypeOK, PendingAwaited
  <2>2. RemovePending(c) /\ accepted' = accepted \cup {c}
    BY <1>1 DEF Completed
  <2>3. PICK a \in {"ok", "failed"} : answer' = [answer EXCEPT ![c] = a]
    <3>1. CASE ok
      BY <1>1, <2>1, <3>1 DEF Completed, TypeOK
    <3>2. CASE ~ok
      BY <1>1, <2>1, <3>2 DEF Completed, TypeOK
    <3>3. QED
      BY <3>1, <3>2
  <2>4. QED
    BY <2>1, <2>2, <2>3, Removed DEF Shrinks, TypeOK
<1>2. CASE ~(c \in pending /\ node[c] = n)
  <2>1. UNCHANGED <<queue, pending, answer, accepted>>
    BY <1>2 DEF Completed, broker
  <2>2. QED
    BY <2>1 DEF Shrinks, TypeOK, QueueAwaited
<1>3. QED
  BY <1>1, <1>2

\* Timeouts, restarts and late requests shrink.
LEMMA ForgetsShrink ==
    ASSUME Inv, \/ (\E c \in Cmds : Timeout(c)) \/ ControlRestarts
                \/ \E m \in late : LatePoll(m) \/ LateReport(m)
    PROVE  Shrinks
<1>1. CASE (\E c \in Cmds : Timeout(c)) \/ ControlRestarts
  BY <1>1, TimeoutShrinks, RestartShrinks
<1>2. CASE \E m \in late : LatePoll(m) \/ LateReport(m)
  <2>1. PICK m \in late : LatePoll(m) \/ LateReport(m)
    BY <1>2
  <2>2. m.node \in Nodes /\ m.ok \in BOOLEAN
    BY DEF Inv, TypeOK
  <2>3. CASE LatePoll(m)
    BY <2>2, <2>3, TakenShrinks DEF LatePoll
  <2>4. CASE LateReport(m)
    BY <2>2, <2>4, CompletedShrinks DEF LateReport
  <2>5. QED
    BY <2>1, <2>3, <2>4
<1>3. QED
  BY <1>1, <1>2

\* Shrinking keeps the invariant.
LEMMA InvShrinks ==
    ASSUME Inv, Shrinks, late' \subseteq late,
           UNCHANGED <<ticket, tickets, node, home, timers, batch, cmd, okay, log>>,
           at' \in [Pollers -> Ats],
           \A p \in Pollers : \/ at'[p] = at[p]
                             \/ (at[p] = "reporting" /\ at'[p] = "confirming")
    PROVE  Inv'
<1> USE DEF Inv
<1>1. TypeOK'
  BY DEF TypeOK, Shrinks
<1>2. Requested'
  <2>1. \A i \in DOMAIN log : log[i].cmd \in Cmds
    BY LogEntries
  <2>2. \A p \in Pollers : batch[p] \subseteq Cmds /\ cmd[p] \in Cmds \cup {None}
    BY DEF TypeOK
  <2>3. QED
    BY <2>1, <2>2 DEF Requested, Shrinks
<1>3. PendingAwaited' /\ QueueAwaited'
  BY DEF PendingAwaited, QueueAwaited, Shrinks
<1>4. QueuesApart' /\ BatchesApart'
  BY DEF QueuesApart, BatchesApart, Logged, Shrinks
<1>5. PollersShape' /\ CommandsApart'
  BY DEF PollersShape, CommandsApart, Logged
<1>6. ReportsTrue' /\ LateTrue' /\ AtMostOnce'
  BY DEF ReportsTrue, LateTrue, AtMostOnce
<1>7. AcceptedAnswers'
  BY DEF AcceptedAnswers, Shrinks, TypeOK
<1>8. QED
  BY <1>1, <1>2, <1>3, <1>4, <1>5, <1>6, <1>7

\* Callers give up or are cut off, and requests arrive that nobody awaits.
LEMMA InvForgets ==
    ASSUME Inv, \/ (\E c \in Cmds : Timeout(c)) \/ ControlRestarts
                \/ \E m \in late : LatePoll(m) \/ LateReport(m)
    PROVE  Inv'
<1>1. /\ UNCHANGED <<ticket, tickets, node, home, timers, at, batch, cmd, okay, log>>
      /\ late' \subseteq late
  BY DEF Timeout, ControlRestarts, LatePoll, LateReport, asked, daemons, poller
<1>2. Shrinks
  BY ForgetsShrink
<1>3. at' \in [Pollers -> Ats]
  BY <1>1 DEF Inv, TypeOK
<1>4. QED
  BY <1>1, <1>2, <1>3, InvShrinks

\* The report of a result reaches the control plane.
LEMMA InvComplete ==
    ASSUME Inv, NEW p \in Pollers, Complete(p)
    PROVE  Inv'
<1>1. /\ at[p] = "reporting" /\ at' = [at EXCEPT ![p] = "confirming"]
      /\ UNCHANGED <<ticket, tickets, node, home, timers, batch, cmd, okay, late, log>>
  BY DEF Complete, asked, daemons
<1>2. Shrinks
  <2>1. okay[p] \in BOOLEAN
    BY DEF Inv, TypeOK
  <2>2. QED
    BY <2>1, CompletedShrinks DEF Complete
<1>3. /\ at' \in [Pollers -> Ats]
      /\ \A q \in Pollers : \/ at'[q] = at[q]
                           \/ (at[q] = "reporting" /\ at'[q] = "confirming")
  BY <1>1 DEF Inv, TypeOK, Ats
<1>4. QED
  BY <1>1, <1>2, <1>3, InvShrinks

\* Commands move from a queue into the response to a poll.
LEMMA InvTakePending ==
    ASSUME Inv, NEW p \in Pollers, TakePending(p)
    PROVE  Inv'
<1> USE DEF Inv
<1>1. PICK S \in SUBSET queue[home[p]] :
         /\ queue' = [queue EXCEPT ![home[p]] = @ \ S]
         /\ batch' = [batch EXCEPT ![p] = S]
         /\ UNCHANGED <<pending, answer>>
  BY DEF TakePending, Taken
<1>2. /\ at[p] = "polling" /\ at' = [at EXCEPT ![p] = "receiving"]
      /\ UNCHANGED <<ticket, tickets, node, accepted, home, timers, cmd, okay, late, log>>
  BY DEF TakePending, asked, daemons
<1>3. home[p] \in Nodes
  BY <1>2 DEF PollersShape
<1>4. S \subseteq Cmds
  BY <1>3 DEF TypeOK
<1>5. TypeOK'
  BY <1>1, <1>2, <1>3, <1>4 DEF TypeOK, Ats
<1>6. \A c \in S : /\ answer[c] = "waiting" /\ ~Logged(c)
                   /\ \A q \in Pollers : c \notin batch[q] /\ cmd[q] # c
  BY <1>3 DEF QueueAwaited, QueuesApart
<1>7. PollersShape' /\ Requested'
  BY <1>1, <1>2, <1>6 DEF PollersShape, Requested, TypeOK
<1>8. PendingAwaited' /\ QueueAwaited'
  BY <1>1, <1>2, <1>3 DEF PendingAwaited, QueueAwaited, TypeOK
<1>9. QueuesApart'
  <2> SUFFICES ASSUME NEW n \in Nodes, NEW c \in queue'[n], NEW q \in Pollers
               PROVE  ~Logged(c)' /\ c \notin batch'[q] /\ cmd'[q] # c
    BY DEF QueuesApart
  <2>1. c \in queue[n] /\ (n = home[p] => c \notin S)
    BY <1>1, <1>3 DEF TypeOK
  <2>2. c \notin S
    BY <1>3, <2>1 DEF QueueAwaited
  <2>3. QED
    BY <1>1, <1>2, <2>1, <2>2 DEF QueuesApart, Logged, TypeOK
<1>10. BatchesApart'
  BY <1>1, <1>2, <1>6 DEF BatchesApart, Logged, TypeOK
<1>11. CommandsApart' /\ ReportsTrue' /\ LateTrue' /\ AtMostOnce' /\ AcceptedAnswers'
  BY <1>1, <1>2 DEF CommandsApart, ReportsTrue, LateTrue, AtMostOnce, AcceptedAnswers, Logged,
                    TypeOK
<1>12. QED
  BY <1>5, <1>7, <1>8, <1>9, <1>10, <1>11

\* A poll begins, by the timer of a poller or by the creation of one.
LEMMA InvPoll ==
    ASSUME Inv, NEW p \in Pollers, Poll(p) \/ \E n \in Nodes : StartPoller(p, n)
    PROVE  Inv'
<1> USE DEF Inv
<1>1. /\ at[p] = "idle" /\ at' = [at EXCEPT ![p] = "polling"]
      /\ UNCHANGED <<queue, pending, answer, ticket, tickets, node, accepted, batch, cmd,
                     okay, late, log>>
  BY NamesAssumption DEF Poll, StartPoller, broker, asked, poller, PollersShape
<1>2. /\ home' \in [Pollers -> Nodes \cup {None}] /\ timers' \subseteq timers \cup {p}
      /\ \A q \in Pollers : q # p => home'[q] = home[q]
      /\ home'[p] \in Nodes
  <2>1. CASE Poll(p)
    BY <2>1 DEF Poll, daemons, PollersShape, TypeOK
  <2>2. CASE \E n \in Nodes : StartPoller(p, n)
    <3>1. PICK n \in Nodes : /\ home' = [home EXCEPT ![p] = n]
                             /\ timers' = {q \in timers : home[q] # n} \cup {p}
      BY <2>2 DEF StartPoller
    <3>2. QED
      BY <3>1 DEF TypeOK
  <2>3. QED
    BY <2>1, <2>2
<1>3. TypeOK'
  BY <1>1, <1>2 DEF TypeOK, Ats
<1>4. PollersShape'
  BY <1>1, <1>2, NamesAssumption DEF PollersShape, TypeOK
<1>5. Requested' /\ PendingAwaited' /\ QueueAwaited' /\ QueuesApart' /\ BatchesApart'
      /\ AtMostOnce' /\ AcceptedAnswers'
  BY <1>1 DEF Requested, PendingAwaited, QueueAwaited, QueuesApart, BatchesApart, AtMostOnce,
              AcceptedAnswers, Logged
<1>6. CommandsApart' /\ ReportsTrue' /\ LateTrue'
  BY <1>1 DEF CommandsApart, ReportsTrue, LateTrue, Logged, TypeOK
<1>7. QED
  BY <1>3, <1>4, <1>5, <1>6

\* What a poller has sent is a request of its daemon, and true.
LEMMA SentTrue ==
    ASSUME Inv, NEW p \in Pollers, NEW m \in Sent(p)
    PROVE  /\ m \in [node : Nodes, cmd : Cmds \cup {None}, ok : BOOLEAN]
           /\ m.cmd # None /\ m.ok => \E i \in DOMAIN log : log[i].cmd = m.cmd /\ log[i].ok
<1> USE DEF Inv
<1>1. m = [node |-> home[p], cmd |-> cmd[p], ok |-> okay[p]] /\ at[p] \in {"polling", "reporting"}
  BY DEF Sent
<1>2. home[p] \in Nodes
  BY <1>1 DEF PollersShape
<1>3. cmd[p] \in Cmds \cup {None} /\ okay[p] \in BOOLEAN
  BY DEF TypeOK
<1>4. cmd[p] # None => at[p] = "reporting"
  BY <1>1 DEF PollersShape
<1>5. QED
  BY <1>1, <1>2, <1>3, <1>4 DEF ReportsTrue

\* Pollers drop what they hold, because a fetch failed or the daemon stopped.
LEMMA InvDrops ==
    ASSUME Inv, NEW D \in SUBSET Pollers,
           UNCHANGED <<queue, pending, answer, ticket, tickets, node, accepted, home, log>>,
           timers' \subseteq timers,
           at' = [p \in Pollers |-> IF p \in D THEN "idle" ELSE at[p]],
           batch' = [p \in Pollers |-> IF p \in D THEN {} ELSE batch[p]],
           cmd' = [p \in Pollers |-> IF p \in D THEN None ELSE cmd[p]],
           okay' = [p \in Pollers |-> IF p \in D THEN FALSE ELSE okay[p]],
           \A m \in late' : m \in late \/ \E p \in Pollers : m \in Sent(p)
    PROVE  Inv'
<1> USE DEF Inv
<1>1. \A m \in late' :
        /\ m \in [node : Nodes, cmd : Cmds \cup {None}, ok : BOOLEAN]
        /\ m.cmd # None /\ m.ok => \E i \in DOMAIN log : log[i].cmd = m.cmd /\ log[i].ok
  BY SentTrue DEF TypeOK, LateTrue
<1>2. TypeOK'
  BY <1>1 DEF TypeOK, Ats
<1>3. PollersShape' /\ Requested' /\ PendingAwaited' /\ QueueAwaited'
  BY DEF PollersShape, Requested, PendingAwaited, QueueAwaited
<1>4. QueuesApart' /\ BatchesApart'
  BY NamesAssumption DEF QueuesApart, BatchesApart, Logged, TypeOK
<1>5. CommandsApart' /\ ReportsTrue' /\ AtMostOnce' /\ AcceptedAnswers'
  BY DEF CommandsApart, ReportsTrue, AtMostOnce, AcceptedAnswers, Logged
<1>6. LateTrue'
  BY <1>1 DEF LateTrue
<1>7. QED
  BY <1>2, <1>3, <1>4, <1>5, <1>6

\* The fetch of a poll or of a report rejects.
LEMMA InvPollFails ==
    ASSUME Inv, NEW p \in Pollers, PollFails(p)
    PROVE  Inv'
<1>1. /\ at' = [q \in Pollers |-> IF q \in {p} THEN "idle" ELSE at[q]]
      /\ batch' = [q \in Pollers |-> IF q \in {p} THEN {} ELSE batch[q]]
      /\ cmd' = [q \in Pollers |-> IF q \in {p} THEN None ELSE cmd[q]]
      /\ okay' = [q \in Pollers |-> IF q \in {p} THEN FALSE ELSE okay[q]]
  BY DEF PollFails, Inv, TypeOK
<1>2. /\ UNCHANGED <<queue, pending, answer, ticket, tickets, node, accepted, home, log>>
      /\ timers' \subseteq timers
  BY DEF PollFails, broker, asked, daemons
<1>3. {p} \in SUBSET Pollers
  OBVIOUS
<1>4. \A m \in late' : m \in late \/ \E q \in Pollers : m \in Sent(q)
  BY DEF PollFails, GivenUp
<1>5. QED
  BY <1>1, <1>2, <1>3, <1>4, InvDrops

\* The daemon goes down.
LEMMA InvDaemonStops ==
    ASSUME Inv, NEW n \in Nodes, DaemonStops(n)
    PROVE  Inv'
<1> DEFINE D == {p \in Pollers : home[p] = n}
<1>1. /\ at' = [p \in Pollers |-> IF p \in D THEN "idle" ELSE at[p]]
      /\ batch' = [p \in Pollers |-> IF p \in D THEN {} ELSE batch[p]]
      /\ cmd' = [p \in Pollers |-> IF p \in D THEN None ELSE cmd[p]]
      /\ timers' \subseteq timers
  BY DEF DaemonStops
<1>2. okay' = [p \in Pollers |-> IF p \in D THEN FALSE ELSE okay[p]]
  <2>1. okay' = [p \in Pollers |-> home[p] # n /\ okay[p]]
    BY DEF DaemonStops
  <2>2. \A p \in Pollers : okay[p] \in BOOLEAN
    BY DEF Inv, TypeOK
  <2>3. QED
    BY <2>1, <2>2
<1>3. D \in SUBSET Pollers
  OBVIOUS
<1>4. \A m \in late' : m \in late \/ \E p \in Pollers : m \in Sent(p)
  BY DEF DaemonStops, GivenUp
<1>5. UNCHANGED <<queue, pending, answer, ticket, tickets, node, accepted, home, log>>
  BY DEF DaemonStops, broker, asked
<1>6. QED
  BY <1>1, <1>2, <1>3, <1>4, <1>5, InvDrops

\* Polling is switched off.
LEMMA InvStopPoller ==
    ASSUME Inv, NEW n \in Nodes, StopPoller(n)
    PROVE  Inv'
<1>1. timers' \subseteq timers /\ UNCHANGED <<broker, asked, accepted, home, poller, late, log>>
  BY DEF StopPoller
<1>2. /\ at' = [p \in Pollers |-> IF p \in {} THEN "idle" ELSE at[p]]
      /\ batch' = [p \in Pollers |-> IF p \in {} THEN {} ELSE batch[p]]
      /\ cmd' = [p \in Pollers |-> IF p \in {} THEN None ELSE cmd[p]]
      /\ okay' = [p \in Pollers |-> IF p \in {} THEN FALSE ELSE okay[p]]
  BY <1>1 DEF poller, Inv, TypeOK
<1>3. {} \in SUBSET Pollers
  OBVIOUS
<1>4. \A m \in late' : m \in late
  BY <1>1
<1>5. UNCHANGED <<queue, pending, answer, ticket, tickets, node, accepted, home, log>>
  BY <1>1 DEF broker, asked
<1>6. QED
  BY <1>1, <1>2, <1>3, <1>4, <1>5, InvDrops

\* A poller takes the next command of its response, or is done with it.
LEMMA InvProceed ==
    ASSUME Inv, NEW p \in Pollers, Proceed(p)
    PROVE  Inv'
<1> USE DEF Inv
<1>1. /\ at[p] \in {"receiving", "reporting", "confirming"}
      /\ UNCHANGED <<queue, pending, answer, ticket, tickets, node, accepted, home, timers,
                     late, log>>
      /\ okay' = [okay EXCEPT ![p] = FALSE]
  BY DEF Proceed, broker, asked, daemons
<1>2. PendingAwaited' /\ QueueAwaited' /\ LateTrue' /\ AtMostOnce' /\ AcceptedAnswers'
  BY <1>1 DEF PendingAwaited, QueueAwaited, LateTrue, AtMostOnce, AcceptedAnswers
<1>3. CASE batch[p] = {}
  <2>1. /\ at' = [at EXCEPT ![p] = "idle"] /\ cmd' = [cmd EXCEPT ![p] = None]
        /\ UNCHANGED batch
    BY <1>3 DEF Proceed
  <2>2. TypeOK' /\ PollersShape'
    BY <1>1, <1>3, <2>1 DEF TypeOK, Ats, PollersShape
  <2>3. Requested' /\ QueuesApart' /\ BatchesApart'
    BY <1>1, <2>1, NamesAssumption DEF Requested, QueuesApart, BatchesApart, Logged, TypeOK
  <2>4. CommandsApart' /\ ReportsTrue'
    <3>1. at'[p] = "idle" /\ cmd'[p] = None
      BY <2>1 DEF TypeOK
    <3>2. \A q \in Pollers :
            q # p => at'[q] = at[q] /\ cmd'[q] = cmd[q] /\ okay'[q] = okay[q]
      BY <1>1, <2>1 DEF TypeOK
    <3>3. CommandsApart'
      BY <1>1, <3>1, <3>2 DEF CommandsApart, Logged
    <3>4. QED
      BY <1>1, <3>1, <3>2, <3>3 DEF ReportsTrue
  <2>5. QED
    BY <1>2, <2>2, <2>3, <2>4
<1>4. CASE batch[p] # {}
  <2>1. PICK c \in batch[p] : /\ at' = [at EXCEPT ![p] = "executing"]
                              /\ cmd' = [cmd EXCEPT ![p] = c]
                              /\ batch' = [batch EXCEPT ![p] = @ \ {c}]
    BY <1>4 DEF Proceed
  <2>2. c \in Cmds /\ c # None
    BY NamesAssumption DEF TypeOK
  <2>3. TypeOK'
    BY <1>1, <2>1, <2>2 DEF TypeOK, Ats
  <2>4. PollersShape'
    BY <1>1, <2>1, <2>2 DEF PollersShape, TypeOK
  <2>5. \A q \in Pollers : /\ batch'[q] \subseteq batch[q] /\ c \notin batch'[q]
                           /\ cmd[q] # c
                           /\ q # p => cmd'[q] = cmd[q] /\ at'[q] = at[q]
    BY <2>1 DEF BatchesApart, TypeOK
  <2>6. cmd'[p] = c /\ at'[p] = "executing" /\ ~Logged(c) /\ answer[c] # "none"
    BY <2>1, <2>2 DEF BatchesApart, Requested, TypeOK
  <2>7. Requested'
    BY <1>1, <2>5, <2>6 DEF Requested
  <2>8. \A n \in Nodes : c \notin queue[n]
    BY <2>1 DEF QueuesApart
  <2>9. QueuesApart' /\ BatchesApart'
    BY <1>1, <2>5, <2>6, <2>8 DEF QueuesApart, BatchesApart, Logged
  <2>10. CommandsApart' /\ ReportsTrue'
    <3>1. \A q \in Pollers : okay'[q] => okay[q]
      BY <1>1 DEF TypeOK
    <3>2. QED
      BY <1>1, <2>5, <2>6, <3>1 DEF CommandsApart, ReportsTrue, Logged
  <2>11. QED
    BY <1>2, <2>3, <2>4, <2>7, <2>9, <2>10
<1>5. QED
  BY <1>3, <1>4

\* A command is performed: one entry is added to the log.
LEMMA InvExecute ==
    ASSUME Inv, NEW p \in Pollers, Execute(p)
    PROVE  Inv'
<1> DEFINE c == cmd[p]
           k == Len(log) + 1
<1> USE DEF Inv
<1>1. PICK ok \in BOOLEAN, r \in BOOLEAN :
        /\ log' = Append(log, [cmd |-> c, by |-> p, ok |-> ok])
        /\ okay' = [okay EXCEPT ![p] = r]
        /\ r => ok
  <2>1. PICK ok \in BOOLEAN, lost \in BOOLEAN :
          /\ log' = Append(log, [cmd |-> c, by |-> p, ok |-> ok])
          /\ okay' = [okay EXCEPT ![p] = ~lost /\ ok]
    BY DEF Execute, Reply
  <2>2. (~lost /\ ok) \in BOOLEAN
    OBVIOUS
  <2>3. QED
    BY <2>1, <2>2
<1>2. /\ at[p] = "executing" /\ at' = [at EXCEPT ![p] = "reporting"]
      /\ UNCHANGED <<queue, pending, answer, ticket, tickets, node, accepted, home, timers,
                     batch, cmd, late>>
  BY DEF Execute, broker, asked, daemons
<1>3. c \in Cmds /\ c # None /\ ~Logged(c)
  <2>1. cmd[p] # None
    BY <1>2 DEF PollersShape
  <2>2. cmd[p] \in Cmds
    BY <2>1 DEF TypeOK
  <2>3. ~Logged(cmd[p])
    BY <1>2 DEF CommandsApart
  <2>4. QED
    BY <2>1, <2>2, <2>3
<1> DEFINE e == [cmd |-> c, by |-> p, ok |-> ok]
<1>4. e \in Entry
  BY <1>3 DEF Entry
<1>5. /\ log' \in Seq(Entry) /\ k \notin DOMAIN log /\ DOMAIN log' = DOMAIN log \cup {k}
      /\ \A i \in DOMAIN log : log'[i] = log[i]
      /\ log'[k] = e
  <2>1. log \in Seq(Entry)
    BY LogEntries
  <2>2. QED
    BY <1>1, <1>4, <2>1, AppendEntry
<1> HIDE DEF k, e
<1>6. e.cmd = c /\ e.by = p /\ e.ok = ok
  BY DEF e
<1>7. TypeOK'
  BY <1>1, <1>2, <1>5 DEF TypeOK, Ats, Entry
<1>8. PollersShape'
  BY <1>2, <1>3, <1>5, <1>6, NamesAssumption DEF PollersShape, TypeOK
<1>9. Requested'
  <2>1. answer[c] # "none"
    BY <1>3 DEF Requested
  <2>2. QED
    BY <1>2, <1>5, <1>6, <2>1 DEF Requested
<1>10. \A d : Logged(d)' <=> Logged(d) \/ d = c
  BY <1>5, <1>6 DEF Logged
<1>11. PendingAwaited' /\ QueueAwaited' /\ AcceptedAnswers'
  BY <1>2 DEF PendingAwaited, QueueAwaited, AcceptedAnswers
<1>12. QueuesApart' /\ BatchesApart'
  BY <1>2, <1>10 DEF QueuesApart, BatchesApart
<1>13. CommandsApart'
  <2>1. \A q \in Pollers : q # p => cmd[q] # c /\ at'[q] = at[q]
    BY <1>2, <1>3 DEF CommandsApart, TypeOK
  <2>2. at'[p] = "reporting"
    BY <1>2 DEF TypeOK
  <2>3. QED
    BY <1>2, <1>10, <2>1, <2>2 DEF CommandsApart
<1>14. ReportsTrue'
  <2> SUFFICES ASSUME NEW q \in Pollers, at'[q] = "reporting", okay'[q]
               PROVE  \E i \in DOMAIN log' : log'[i].cmd = cmd'[q] /\ log'[i].ok
    BY DEF ReportsTrue
  <2>1. CASE q = p
    <3>1. ok
      BY <1>1, <2>1 DEF TypeOK
    <3>2. QED
      BY <1>2, <1>5, <1>6, <2>1, <3>1
  <2>2. CASE q # p
    <3>1. at[q] = "reporting" /\ okay[q]
      BY <1>1, <1>2, <2>2 DEF TypeOK
    <3>2. PICK i \in DOMAIN log : log[i].cmd = cmd[q] /\ log[i].ok
      BY <3>1 DEF ReportsTrue
    <3>3. QED
      BY <1>2, <1>5, <3>2
  <2>3. QED
    BY <2>1, <2>2
<1>15. AtMostOnce'
  BY <1>3, <1>5, <1>6 DEF AtMostOnce, Logged
<1>16. LateTrue'
  BY <1>2, <1>5 DEF LateTrue
<1>17. QED
  BY <1>7, <1>8, <1>9, <1>11, <1>12, <1>13, <1>14, <1>15, <1>16

\* The daemon's own API is not reached: the poller reports a failure.
LEMMA InvExecuteFails ==
    ASSUME Inv, NEW p \in Pollers, ExecuteFails(p)
    PROVE  Inv'
<1> USE DEF Inv
<1>1. /\ at[p] = "executing" /\ at' = [at EXCEPT ![p] = "reporting"]
      /\ okay' = [okay EXCEPT ![p] = FALSE]
      /\ UNCHANGED <<queue, pending, answer, ticket, tickets, node, accepted, home, timers,
                     batch, cmd, late, log>>
  BY DEF ExecuteFails, broker, asked, daemons
<1>2. TypeOK'
  BY <1>1 DEF TypeOK, Ats
<1>3. PollersShape' /\ CommandsApart'
  BY <1>1 DEF PollersShape, CommandsApart, Logged, TypeOK
<1>4. ReportsTrue' /\ LateTrue'
  BY <1>1 DEF ReportsTrue, LateTrue, TypeOK
<1>5. Requested' /\ PendingAwaited' /\ QueueAwaited' /\ QueuesApart' /\ BatchesApart'
      /\ AtMostOnce' /\ AcceptedAnswers'
  BY <1>1 DEF Requested, PendingAwaited, QueueAwaited, QueuesApart, BatchesApart, AtMostOnce,
              AcceptedAnswers, Logged
<1>6. QED
  BY <1>2, <1>3, <1>4, <1>5

\* Every step keeps the invariant.
LEMMA InvNext == Inv /\ [Next]_vars => Inv'
<1> SUFFICES ASSUME Inv, [Next]_vars PROVE Inv'
  OBVIOUS
<1>1. CASE \E c \in Cmds : \E n \in Nodes : Request(c, n)
  BY <1>1, InvRequest
<1>2. CASE \/ (\E c \in Cmds : Timeout(c)) \/ ControlRestarts
           \/ \E m \in late : LatePoll(m) \/ LateReport(m)
  BY <1>2, InvForgets
<1>3. CASE \E p \in Pollers : TakePending(p)
  BY <1>3, InvTakePending
<1>4. CASE \E p \in Pollers : Complete(p)
  BY <1>4, InvComplete
<1>5. CASE \E p \in Pollers : PollFails(p)
  BY <1>5, InvPollFails
<1>6. CASE \E p \in Pollers : Proceed(p)
  BY <1>6, InvProceed
<1>7. CASE \E p \in Pollers : Execute(p)
  BY <1>7, InvExecute
<1>8. CASE \E p \in Pollers : ExecuteFails(p)
  BY <1>8, InvExecuteFails
<1>9. CASE \E p \in Pollers : Poll(p) \/ \E n \in Nodes : StartPoller(p, n)
  BY <1>9, InvPoll
<1>10. CASE \E n \in Nodes : StopPoller(n) \/ DaemonStops(n)
  BY <1>10, InvStopPoller, InvDaemonStops
<1>11. CASE UNCHANGED vars
  BY <1>11
     DEF vars, broker, asked, daemons, poller, Inv, TypeOK, PollersShape, Requested,
         PendingAwaited, QueueAwaited, QueuesApart, BatchesApart, CommandsApart,
         ReportsTrue, LateTrue, AtMostOnce, AcceptedAnswers, Logged
<1>12. QED
  BY <1>1, <1>2, <1>3, <1>4, <1>5, <1>6, <1>7, <1>8, <1>9, <1>10, <1>11
     DEF Next, PollerStep

-----------------------------------------------------------------------------
(* The order of the commands of one poller *)

Did(p, c) == \E i \in DOMAIN log : log[i].by = p /\ log[i].cmd = c

\* The last ticket is the highest.
TicketsGiven == \A c \in Cmds : answer[c] # "none" => ticket[c] <= tickets

\* Whatever a poller has ever taken is older than what waits in its queue.
QueueLast ==
    \A p \in Pollers : home[p] # None =>
        \A c \in Cmds, d \in queue[home[p]] :
            c \in batch[p] \/ c = cmd[p] \/ Did(p, c) => ticket[c] < ticket[d]

\* What is left of a response is younger than what the poller has dealt with.
BatchLast ==
    \A p \in Pollers : \A c \in Cmds, d \in batch[p] :
        c = cmd[p] \/ Did(p, c) => ticket[c] < ticket[d]

\* So is the command it performs.
CommandLast ==
    \A p \in Pollers : at[p] = "executing" =>
        \A c \in Cmds : Did(p, c) => ticket[c] < ticket[cmd[p]]

OrderInv == TicketsGiven /\ QueueLast /\ BatchLast /\ CommandLast /\ InOrder

\* In the initial state there is nothing to be ordered.
LEMMA OrderInit == Init => OrderInv
  BY DEF Init, OrderInv, TicketsGiven, QueueLast, BatchLast, CommandLast, InOrder, Did

\* Steps that only take commands away keep the order.
LEMMA OrderShrinks ==
    ASSUME Inv, OrderInv, Inv',
           UNCHANGED <<ticket, tickets, log, home>>,
           \A c \in Cmds : answer[c] = "none" => answer'[c] = "none",
           \A n \in Nodes : queue'[n] \subseteq queue[n],
           \A p \in Pollers : batch'[p] \subseteq batch[p] /\ cmd'[p] \in {cmd[p], None},
           \A p \in Pollers : at'[p] = "executing" => at[p] = "executing" /\ cmd'[p] = cmd[p]
    PROVE  OrderInv'
<1> USE DEF OrderInv
<1>1. \A p \in Pollers, c \in Cmds : Did(p, c)' <=> Did(p, c)
  BY DEF Did
<1>2. \A p \in Pollers, c \in Cmds : c = cmd'[p] => c = cmd[p]
  BY NamesAssumption
<1>3. \A p \in Pollers : home[p] # None => home[p] \in Nodes
  BY DEF Inv, TypeOK
<1>4. TicketsGiven' /\ InOrder'
  BY DEF TicketsGiven, InOrder
<1>5. QueueLast'
  BY <1>1, <1>2, <1>3 DEF QueueLast
<1>6. BatchLast' /\ CommandLast'
  BY <1>1, <1>2 DEF BatchLast, CommandLast
<1>7. QED
  BY <1>4, <1>5, <1>6

\* A new request has the highest ticket.
LEMMA OrderRequest ==
    ASSUME Inv, OrderInv, NEW c \in Cmds, NEW n \in Nodes, Request(c, n)
    PROVE  OrderInv'
<1> USE DEF OrderInv
<1>1. /\ ticket' = [ticket EXCEPT ![c] = tickets + 1] /\ tickets' = tickets + 1
      /\ answer[c] = "none" /\ answer' = [answer EXCEPT ![c] = "waiting"]
      /\ queue' = [queue EXCEPT ![n] = @ \cup {c}]
      /\ UNCHANGED <<home, at, batch, cmd, log>>
  BY DEF Request, daemons, poller
<1>2. tickets \in Nat /\ ticket \in [Cmds -> Nat] /\ ticket' \in [Cmds -> Nat]
  BY <1>1 DEF Inv, TypeOK
<1>3. /\ ticket'[c] = tickets + 1
      /\ \A d \in Cmds : d # c => ticket'[d] = ticket[d]
  BY <1>1, <1>2
<1>4. \A p \in Pollers, d \in Cmds :
        d \in batch[p] \/ d = cmd[p] \/ Did(p, d) => d # c /\ ticket[d] <= tickets
  BY <1>1, NamesAssumption DEF Inv, Requested, Did, TicketsGiven
<1>5. \A p \in Pollers, d \in Cmds : Did(p, d)' <=> Did(p, d)
  BY <1>1 DEF Did
<1>6. TicketsGiven'
  BY <1>1, <1>2, <1>3 DEF TicketsGiven, Inv, TypeOK
<1>7. QueueLast'
  <2> SUFFICES ASSUME NEW p \in Pollers, home[p] # None,
                      NEW e \in Cmds, NEW d \in queue'[home[p]],
                      e \in batch[p] \/ e = cmd[p] \/ Did(p, e)
               PROVE  ticket'[e] < ticket'[d]
    BY <1>1, <1>5 DEF QueueLast
  <2>1. home[p] \in Nodes
    BY DEF Inv, TypeOK
  <2>2. e # c /\ ticket'[e] = ticket[e] /\ ticket[e] <= tickets
    BY <1>3, <1>4
  <2>3. CASE d = c
    BY <1>2, <1>3, <2>2, <2>3
  <2>4. CASE d # c
    <3>1. d \in queue[home[p]] /\ d \in Cmds
      BY <1>1, <2>1, <2>4 DEF Inv, TypeOK
    <3>2. ticket[e] < ticket[d]
      BY <3>1 DEF QueueLast
    <3>3. QED
      BY <1>3, <2>2, <2>4, <3>1, <3>2
  <2>5. QED
    BY <2>3, <2>4
<1>8. BatchLast'
  <2>1. \A p \in Pollers : batch[p] \subseteq Cmds
    BY DEF Inv, TypeOK
  <2>2. QED
    BY <1>1, <1>3, <1>4, <1>5, <2>1 DEF BatchLast
<1>9. CommandLast'
  <2>1. \A p \in Pollers : at[p] = "executing" => cmd[p] \in Cmds
    BY DEF Inv, TypeOK, PollersShape
  <2>2. QED
    BY <1>1, <1>3, <1>4, <1>5, <2>1 DEF CommandLast
<1>10. InOrder'
  <2>1. \A i \in DOMAIN log : log[i].cmd \in Cmds /\ log[i].cmd # c
    BY <1>1, LogEntries DEF Inv, Requested
  <2>2. QED
    BY <1>1, <1>3, <2>1 DEF InOrder
<1>11. QED
  BY <1>6, <1>7, <1>8, <1>9, <1>10

\* A poll takes the oldest commands of its queue.
LEMMA OrderTakePending ==
    ASSUME Inv, OrderInv, NEW p \in Pollers, TakePending(p)
    PROVE  OrderInv'
<1> USE DEF OrderInv
<1>1. PICK S \in SUBSET queue[home[p]] :
         /\ Oldest(S, queue[home[p]])
         /\ queue' = [queue EXCEPT ![home[p]] = @ \ S]
         /\ batch' = [batch EXCEPT ![p] = S]
         /\ UNCHANGED answer
  BY DEF TakePending, Taken
<1>2. /\ at[p] = "polling" /\ at' = [at EXCEPT ![p] = "receiving"]
      /\ UNCHANGED <<ticket, tickets, home, cmd, log>>
  BY DEF TakePending, asked, daemons
<1>3. cmd[p] = None /\ home[p] \in Nodes
  BY <1>2 DEF Inv, PollersShape
<1>4. \A q \in Pollers, c \in Cmds : Did(q, c)' <=> Did(q, c)
  BY <1>2 DEF Did
<1>5. /\ batch'[p] = S /\ S \subseteq queue[home[p]]
      /\ \A q \in Pollers : q # p => batch'[q] = batch[q]
      /\ queue'[home[p]] = queue[home[p]] \ S
      /\ \A n \in Nodes : queue'[n] \subseteq queue[n]
  BY <1>1, <1>3 DEF Inv, TypeOK
<1>6. TicketsGiven' /\ InOrder'
  BY <1>1, <1>2 DEF TicketsGiven, InOrder
<1>7. CommandLast'
  BY <1>2, <1>4 DEF CommandLast, Inv, TypeOK
<1>8. BatchLast'
  <2> SUFFICES ASSUME NEW q \in Pollers, NEW c \in Cmds, NEW d \in batch'[q],
                      c = cmd[q] \/ Did(q, c)
               PROVE  ticket[c] < ticket[d]
    BY <1>2, <1>4 DEF BatchLast
  <2>1. CASE q = p
    BY <1>3, <1>5, <2>1, NamesAssumption DEF QueueLast
  <2>2. CASE q # p
    BY <1>5, <2>2 DEF BatchLast
  <2>3. QED
    BY <2>1, <2>2
<1>9. QueueLast'
  <2> SUFFICES ASSUME NEW q \in Pollers, home[q] # None,
                      NEW c \in Cmds, NEW d \in queue'[home[q]],
                      c \in batch'[q] \/ c = cmd[q] \/ Did(q, c)
               PROVE  ticket[c] < ticket[d]
    BY <1>2, <1>4 DEF QueueLast
  <2>1. home[q] \in Nodes
    BY DEF Inv, TypeOK
  <2>2. d \in queue[home[q]]
    BY <1>5, <2>1
  <2>3. CASE q = p /\ c \in batch'[q]
    BY <1>1, <1>5, <2>3 DEF Oldest
  <2>4. CASE q # p \/ c \notin batch'[q]
    BY <1>5, <2>2, <2>4 DEF QueueLast
  <2>5. QED
    BY <2>3, <2>4
<1>10. QED
  BY <1>6, <1>7, <1>8, <1>9

\* The oldest command of a response is the next to be performed.
LEMMA OrderProceed ==
    ASSUME Inv, OrderInv, Inv', NEW p \in Pollers, Proceed(p)
    PROVE  OrderInv'
<1>1. CASE batch[p] = {} /\ at' = [at EXCEPT ![p] = "idle"] /\ cmd' = [cmd EXCEPT ![p] = None]
           /\ UNCHANGED batch
  <2>1. UNCHANGED <<ticket, tickets, log, home, answer, queue>>
    BY DEF Proceed, broker, asked, daemons
  <2>2. \A q \in Pollers : cmd'[q] \in {cmd[q], None}
    BY <1>1 DEF Inv, TypeOK
  <2>3. \A q \in Pollers : at'[q] = "executing" => at[q] = "executing" /\ cmd'[q] = cmd[q]
    BY <1>1 DEF Inv, TypeOK
  <2>4. QED
    BY <1>1, <2>1, <2>2, <2>3, OrderShrinks
<1>2. ASSUME NEW c \in batch[p],
             Oldest({c}, batch[p]),
             at' = [at EXCEPT ![p] = "executing"],
             cmd' = [cmd EXCEPT ![p] = c],
             batch' = [batch EXCEPT ![p] = @ \ {c}]
      PROVE  OrderInv'
  <2> USE DEF OrderInv
  <2>1. UNCHANGED <<ticket, tickets, log, home, answer, queue>>
    BY DEF Proceed, broker, asked, daemons
  <2>2. c \in Cmds
    BY DEF Inv, TypeOK
  <2>3. /\ cmd'[p] = c /\ batch'[p] = batch[p] \ {c}
        /\ \A q \in Pollers : q # p => cmd'[q] = cmd[q] /\ batch'[q] = batch[q] /\ at'[q] = at[q]
    BY <1>2 DEF Inv, TypeOK
  <2>4. \A q \in Pollers, e \in Cmds : Did(q, e)' <=> Did(q, e)
    BY <2>1 DEF Did
  <2>5. TicketsGiven' /\ InOrder'
    BY <2>1 DEF TicketsGiven, InOrder
  <2>6. QueueLast'
    <3>1. \A q \in Pollers, e \in Cmds :
            (e \in batch'[q] \/ e = cmd'[q]) => (e \in batch[q] \/ e = cmd[q])
      BY <2>3
    <3>2. QED
      BY <2>1, <2>4, <3>1 DEF QueueLast
  <2>7. BatchLast'
    <3> SUFFICES ASSUME NEW q \in Pollers, NEW e \in Cmds, NEW d \in batch'[q],
                        e = cmd'[q] \/ Did(q, e)
                 PROVE  ticket[e] < ticket[d]
      BY <2>1, <2>4 DEF BatchLast
    <3>1. CASE q = p /\ e = c
      BY <1>2, <2>3, <3>1 DEF Oldest
    <3>2. CASE ~(q = p /\ e = c)
      BY <2>3, <3>2 DEF BatchLast
    <3>3. QED
      BY <3>1, <3>2
  <2>8. CommandLast'
    <3> SUFFICES ASSUME NEW q \in Pollers, at'[q] = "executing", NEW e \in Cmds, Did(q, e)
                 PROVE  ticket[e] < ticket[cmd'[q]]
      BY <2>1, <2>4 DEF CommandLast
    <3>1. CASE q = p
      BY <2>3, <3>1 DEF BatchLast
    <3>2. CASE q # p
      BY <2>3, <3>2 DEF CommandLast
    <3>3. QED
      BY <3>1, <3>2
  <2>9. QED
    BY <2>5, <2>6, <2>7, <2>8
<1>3. QED
  BY <1>1, <1>2 DEF Proceed

\* The command that is performed is the youngest of its poller's.
LEMMA OrderExecute ==
    ASSUME Inv, OrderInv, NEW p \in Pollers, Execute(p)
    PROVE  OrderInv'
<1> USE DEF OrderInv
<1> DEFINE k == Len(log) + 1
<1>1. PICK ok \in BOOLEAN : log' = Append(log, [cmd |-> cmd[p], by |-> p, ok |-> ok])
  BY DEF Execute
<1> DEFINE e == [cmd |-> cmd[p], by |-> p, ok |-> ok]
<1>2. /\ at[p] = "executing" /\ at' = [at EXCEPT ![p] = "reporting"]
      /\ UNCHANGED <<answer, ticket, tickets, home, queue, batch, cmd>>
  BY DEF Execute, broker, asked, daemons
<1>3. cmd[p] \in Cmds
  <2>1. cmd[p] # None
    BY <1>2 DEF Inv, PollersShape
  <2>2. QED
    BY <2>1 DEF Inv, TypeOK
<1>4. e \in Entry /\ e.cmd = cmd[p] /\ e.by = p
  BY <1>1, <1>3 DEF Entry
<1>5. /\ k \notin DOMAIN log /\ DOMAIN log' = DOMAIN log \cup {k}
      /\ \A i \in DOMAIN log : log'[i] = log[i]
      /\ log'[k] = e
  <2>1. log \in Seq(Entry)
    BY LogEntries DEF Inv
  <2>2. QED
    BY <1>1, <1>4, <2>1, AppendEntry
<1>6. k \in Nat /\ \A i \in DOMAIN log : i \in Nat /\ i < k
  BY LogEntries DEF Inv
<1> HIDE DEF k, e
<1>7. \A q \in Pollers, c \in Cmds : Did(q, c)' <=> Did(q, c) \/ (q = p /\ c = cmd[p])
  BY <1>4, <1>5 DEF Did
<1>8. TicketsGiven'
  BY <1>2 DEF TicketsGiven
<1>9. QueueLast' /\ BatchLast'
  BY <1>2, <1>7 DEF QueueLast, BatchLast
<1>10. CommandLast'
  BY <1>2, <1>7 DEF CommandLast, Inv, TypeOK
<1>11. InOrder'
  <2> SUFFICES ASSUME NEW i \in DOMAIN log', NEW j \in DOMAIN log',
                      i < j, log'[i].by = log'[j].by
               PROVE  ticket[log'[i].cmd] < ticket[log'[j].cmd]
    BY <1>2 DEF InOrder
  <2>1. i \in DOMAIN log
    BY <1>5, <1>6
  <2>2. CASE j = k
    <3>1. log[i].by = p /\ log[i].cmd \in Cmds
      BY <1>4, <1>5, <2>1, <2>2, LogEntries DEF Inv
    <3>2. Did(p, log[i].cmd)
      BY <2>1, <3>1 DEF Did
    <3>3. QED
      BY <1>2, <1>4, <1>5, <2>1, <2>2, <3>1, <3>2 DEF CommandLast
  <2>3. CASE j # k
    BY <1>5, <2>1, <2>3 DEF InOrder
  <2>4. QED
    BY <2>2, <2>3
<1>12. QED
  BY <1>8, <1>9, <1>10, <1>11

\* A new poller has taken nothing.
LEMMA OrderStartPoller ==
    ASSUME Inv, OrderInv, NEW p \in Pollers, NEW n \in Nodes, StartPoller(p, n)
    PROVE  OrderInv'
<1> USE DEF OrderInv
<1>1. /\ home[p] = None /\ home' = [home EXCEPT ![p] = n]
      /\ at' = [at EXCEPT ![p] = "polling"]
      /\ UNCHANGED <<answer, ticket, tickets, queue, batch, cmd, log>>
  BY DEF StartPoller, broker, asked
<1>2. batch[p] = {} /\ cmd[p] = None /\ \A c \in Cmds : ~Did(p, c)
  BY <1>1, NamesAssumption DEF Inv, PollersShape, Did
<1>3. \A q \in Pollers : q # p => home'[q] = home[q]
  BY <1>1 DEF Inv, TypeOK
<1>4. \A q \in Pollers, c \in Cmds : Did(q, c)' <=> Did(q, c)
  BY <1>1 DEF Did
<1>5. TicketsGiven' /\ InOrder'
  BY <1>1 DEF TicketsGiven, InOrder
<1>6. BatchLast'
  BY <1>1, <1>4 DEF BatchLast
<1>7. CommandLast'
  BY <1>1, <1>4 DEF CommandLast, Inv, TypeOK
<1>8. QueueLast'
  BY <1>1, <1>2, <1>3, <1>4, NamesAssumption DEF QueueLast
<1>9. QED
  BY <1>5, <1>6, <1>7, <1>8

\* Every step keeps the order.
LEMMA OrderNext == Inv /\ OrderInv /\ Inv' /\ [Next]_vars => OrderInv'
<1> SUFFICES ASSUME Inv, OrderInv, Inv', [Next]_vars PROVE OrderInv'
  OBVIOUS
<1> DEFINE Takes ==
      /\ UNCHANGED <<ticket, tickets, log, home>>
      /\ \A c \in Cmds : answer[c] = "none" => answer'[c] = "none"
      /\ \A n \in Nodes : queue'[n] \subseteq queue[n]
      /\ \A p \in Pollers : batch'[p] \subseteq batch[p] /\ cmd'[p] \in {cmd[p], None}
      /\ \A p \in Pollers :
            at'[p] = "executing" => at[p] = "executing" /\ cmd'[p] = cmd[p]
<1>1. Takes => OrderInv'
  BY OrderShrinks
<1>2. CASE \E c \in Cmds : \E n \in Nodes : Request(c, n)
  BY <1>2, OrderRequest
<1>3. ASSUME Shrinks, UNCHANGED <<ticket, tickets, log, home, batch, cmd>>,
             \A p \in Pollers : at'[p] = "executing" => at[p] = "executing"
      PROVE  OrderInv'
  <2>1. Takes
    BY <1>3 DEF Shrinks
  <2>2. QED
    BY <1>1, <2>1
<1>4. CASE \E p \in Pollers : TakePending(p)
  BY <1>4, OrderTakePending
<1>5. CASE \E p \in Pollers : Complete(p)
  <2>1. PICK p \in Pollers : Complete(p)
    BY <1>5
  <2>2. /\ UNCHANGED <<ticket, tickets, log, home, batch, cmd>>
        /\ at' = [at EXCEPT ![p] = "confirming"]
    BY <2>1 DEF Complete, asked, daemons
  <2>3. Shrinks
    <3>1. okay[p] \in BOOLEAN
      BY DEF Inv, TypeOK
    <3>2. QED
      BY <2>1, <3>1, CompletedShrinks DEF Complete
  <2>4. QED
    BY <1>3, <2>2, <2>3 DEF Inv, TypeOK
<1>6. CASE \E p \in Pollers : PollFails(p)
  <2>1. PICK p \in Pollers :
          /\ at' = [at EXCEPT ![p] = "idle"] /\ batch' = [batch EXCEPT ![p] = {}]
          /\ cmd' = [cmd EXCEPT ![p] = None]
    BY <1>6 DEF PollFails
  <2>2. UNCHANGED <<ticket, tickets, log, home, answer, queue>>
    BY <1>6 DEF PollFails, broker, asked, daemons
  <2>3. Takes
    BY <2>1, <2>2 DEF Inv, TypeOK
  <2>4. QED
    BY <1>1, <2>3
<1>7. CASE \E p \in Pollers : Proceed(p)
  BY <1>7, OrderProceed
<1>8. CASE \E p \in Pollers : Execute(p)
  BY <1>8, OrderExecute
<1>9. CASE \E p \in Pollers : ExecuteFails(p) \/ Poll(p)
  <2>1. PICK p \in Pollers, a \in {"reporting", "polling"} : at' = [at EXCEPT ![p] = a]
    BY <1>9 DEF ExecuteFails, Poll
  <2>2. UNCHANGED <<ticket, tickets, log, home, answer, queue, batch, cmd>>
    BY <1>9 DEF ExecuteFails, Poll, broker, asked, daemons
  <2>3. Takes
    BY <2>1, <2>2 DEF Inv, TypeOK
  <2>4. QED
    BY <1>1, <2>3
<1>10. CASE \E p \in Pollers, n \in Nodes : StartPoller(p, n)
  BY <1>10, OrderStartPoller
<1>11. CASE \E n \in Nodes : DaemonStops(n)
  <2>1. UNCHANGED <<ticket, tickets, log, home, answer, queue>>
    BY <1>11 DEF DaemonStops, broker, asked
  <2>2. \A p \in Pollers :
          \/ /\ at'[p] = at[p] /\ batch'[p] = batch[p] /\ cmd'[p] = cmd[p]
          \/ /\ at'[p] = "idle" /\ batch'[p] = {} /\ cmd'[p] = None
    <3>1. PICK n \in Nodes : DaemonStops(n)
      BY <1>11
    <3>2. \A p \in Pollers :
            /\ at'[p] = IF home[p] # n THEN at[p] ELSE "idle"
            /\ batch'[p] = IF home[p] # n THEN batch[p] ELSE {}
            /\ cmd'[p] = IF home[p] # n THEN cmd[p] ELSE None
      BY <3>1 DEF DaemonStops
    <3>3. QED
      BY <3>2
  <2>3. Takes
    BY <2>1, <2>2
  <2>4. QED
    BY <1>1, <2>3
<1>12. CASE UNCHANGED vars \/ \E n \in Nodes : StopPoller(n)
  BY <1>1, <1>12 DEF vars, StopPoller, broker, asked, daemons, poller
<1>13. CASE \/ (\E c \in Cmds : Timeout(c)) \/ ControlRestarts
            \/ \E m \in late : LatePoll(m) \/ LateReport(m)
  <2>1. UNCHANGED <<ticket, tickets, log, home, at, batch, cmd>>
    BY <1>13 DEF Timeout, ControlRestarts, LatePoll, LateReport, asked, daemons, poller
  <2>2. QED
    BY <1>3, <1>13, <2>1, ForgetsShrink
<1>14. QED
  BY <1>2, <1>4, <1>5, <1>6, <1>7, <1>8, <1>9, <1>10, <1>11, <1>12, <1>13
     DEF Next, PollerStep

-----------------------------------------------------------------------------
(* What callers are promised *)

\* complete is an answer, or changes nothing that callers see.
LEMMA CompletedAnswers ==
    ASSUME Inv, NEW n, NEW c, NEW ok \in BOOLEAN, Completed(n, c, ok), UNCHANGED log,
           ok => \E i \in DOMAIN log : log[i].cmd = c /\ log[i].ok
    PROVE  [Calls!Next]_(Calls!vars)
<1>1. CASE c \in pending /\ node[c] = n
  <2>1. c \in Cmds /\ answer[c] = "waiting"
    BY <1>1 DEF Inv, TypeOK, PendingAwaited
  <2>2. CASE ok
    <3>1. answer' = [answer EXCEPT ![c] = "ok"]
      BY <1>1, <2>1, <2>2 DEF Completed
    <3>2. Calls!Succeed(c)
      BY <2>1, <2>2, <3>1 DEF Calls!Succeed
    <3>3. QED
      BY <2>1, <3>2 DEF Calls!Next
  <2>3. CASE ~ok
    <3>1. answer' = [answer EXCEPT ![c] = "failed"]
      BY <1>1, <2>1, <2>3 DEF Completed
    <3>2. Calls!Fail(c)
      BY <2>1, <3>1 DEF Calls!Fail
    <3>3. QED
      BY <2>1, <3>2 DEF Calls!Next
  <2>4. QED
    BY <2>2, <2>3
<1>2. CASE ~(c \in pending /\ node[c] = n)
  BY <1>2 DEF Completed, broker, Calls!vars
<1>3. QED
  BY <1>1, <1>2

\* Every step is one of RemoteCalls, or changes nothing that callers see.
LEMMA CallsStep == Inv /\ Inv' /\ [Next]_vars => [Calls!Next]_(Calls!vars)
<1> SUFFICES ASSUME Inv, Inv', [Next]_vars PROVE [Calls!Next]_(Calls!vars)
  OBVIOUS
<1> USE DEF Inv
<1>1. CASE \E c \in Cmds : \E n \in Nodes : Request(c, n)
  BY <1>1 DEF Request, Calls!Next, Calls!Ask
<1>2. CASE \E c \in Cmds : Timeout(c)
  <2>1. PICK c \in Cmds : Timeout(c)
    BY <1>2
  <2>2. answer[c] = "waiting"
    BY <2>1 DEF Timeout, PendingAwaited
  <2>3. Calls!Fail(c)
    BY <2>1, <2>2 DEF Timeout, Calls!Fail
  <2>4. QED
    BY <2>3 DEF Calls!Next
<1>3. CASE ControlRestarts
  BY <1>3 DEF ControlRestarts, Calls!Next, Calls!Disconnect
<1>4. CASE \E p \in Pollers : Complete(p)
  <2>1. PICK p \in Pollers : Complete(p)
    BY <1>4
  <2>2. okay[p] \in BOOLEAN
    BY DEF TypeOK
  <2>3. okay[p] => \E i \in DOMAIN log : log[i].cmd = cmd[p] /\ log[i].ok
    BY <2>1 DEF Complete, ReportsTrue
  <2>4. QED
    BY <2>1, <2>2, <2>3, CompletedAnswers DEF Complete
<1>5. CASE \E p \in Pollers : Execute(p)
  <2>1. PICK p \in Pollers : Execute(p)
    BY <1>5
  <2> DEFINE c == cmd[p]
  <2>2. at[p] = "executing" /\ UNCHANGED answer
    BY <2>1 DEF Execute, broker
  <2>3. c # None
    BY <2>2 DEF PollersShape
  <2>4. c \in Cmds /\ ~Logged(c)
    BY <2>2, <2>3 DEF TypeOK, CommandsApart
  <2>5. answer[c] # "none"
    BY <2>3 DEF Requested
  <2>6. \E ok \in BOOLEAN : log' = Append(log, [cmd |-> c, by |-> p, ok |-> ok])
    BY <2>1 DEF Execute
  <2>7. Calls!Perform(c)
    BY <2>2, <2>4, <2>5, <2>6 DEF Calls!Perform, Calls!Performed, Logged
  <2>8. QED
    BY <2>4, <2>7 DEF Calls!Next
<1>6. CASE \/ \E p \in Pollers : \/ TakePending(p) \/ PollFails(p) \/ Proceed(p)
                               \/ ExecuteFails(p) \/ Poll(p)
                               \/ \E n \in Nodes : StartPoller(p, n)
           \/ \E n \in Nodes : StopPoller(n) \/ DaemonStops(n)
           \/ UNCHANGED vars
  BY <1>6 DEF StopPoller, TakePending, Taken, PollFails, Proceed, ExecuteFails, Poll, StartPoller, DaemonStops,
              broker, vars, Calls!vars
<1>7. CASE \E m \in late : LatePoll(m) \/ LateReport(m)
  <2>1. PICK m \in late : LatePoll(m) \/ LateReport(m)
    BY <1>7
  <2>2. CASE LatePoll(m)
    BY <2>2 DEF LatePoll, Taken, Calls!vars
  <2>3. CASE LateReport(m)
    <3>1. m.ok \in BOOLEAN
      BY DEF TypeOK
    <3>2. m.ok => \E i \in DOMAIN log : log[i].cmd = m.cmd /\ log[i].ok
      BY <2>3 DEF LateReport, LateTrue
    <3>3. QED
      BY <2>3, <3>1, <3>2, CompletedAnswers DEF LateReport
  <2>4. QED
    BY <2>1, <2>2, <2>3
<1>8. QED
  BY <1>1, <1>2, <1>3, <1>4, <1>5, <1>6, <1>7 DEF Next, PollerStep

-----------------------------------------------------------------------------
(* Callers that wait *)

\* The result of a command leaves the index with the answer it gives.
LEMMA CompletedWaits ==
    ASSUME TypeOK, WaitingIsPending, NEW n, NEW c, NEW ok, Completed(n, c, ok)
    PROVE  WaitingIsPending'
<1>1. CASE c \in pending /\ node[c] = n
  <2>1. c \in Cmds /\ pending' = pending \ {c}
    BY <1>1 DEF TypeOK, Completed, RemovePending
  <2>2. PICK a : /\ a = (IF answer[c] # "waiting" THEN answer[c] ELSE IF ok THEN "ok" ELSE "failed")
                 /\ answer' = [answer EXCEPT ![c] = a]
    BY <1>1 DEF Completed
  <2>3. a # "waiting"
    BY <2>2
  <2>4. \A d \in Cmds : d # c => answer'[d] = answer[d]
    BY <2>2 DEF TypeOK
  <2>5. answer'[c] # "waiting"
    BY <2>1, <2>2, <2>3 DEF TypeOK
  <2>6. QED
    BY <2>1, <2>4, <2>5 DEF WaitingIsPending
<1>2. CASE ~(c \in pending /\ node[c] = n)
  BY <1>2 DEF Completed, broker, WaitingIsPending
<1>3. QED
  BY <1>1, <1>2

\* Whoever starts to wait is put into the index, and whoever leaves it has an answer.
LEMMA WaitsNext == TypeOK /\ WaitingIsPending /\ [Next]_vars => WaitingIsPending'
<1> SUFFICES ASSUME TypeOK, WaitingIsPending, [Next]_vars PROVE WaitingIsPending'
  OBVIOUS
<1>1. ASSUME NEW c \in Cmds, NEW n \in Nodes, Request(c, n) PROVE WaitingIsPending'
  BY <1>1 DEF Request, TypeOK, WaitingIsPending
<1>2. ASSUME NEW c \in Cmds, Timeout(c) PROVE WaitingIsPending'
  BY <1>2 DEF Timeout, RemovePending, TypeOK, WaitingIsPending
<1>3. CASE ControlRestarts
  BY <1>3 DEF ControlRestarts, TypeOK, WaitingIsPending
<1>4. ASSUME NEW p \in Pollers, PollerStep(p) PROVE WaitingIsPending'
  <2>1. CASE Complete(p)
    BY <2>1, CompletedWaits DEF Complete
  <2>2. CASE ~Complete(p)
    <3>1. UNCHANGED <<pending, answer>>
      BY <1>4, <2>2 DEF PollerStep, TakePending, Taken, PollFails, Proceed, Execute, ExecuteFails,
                        broker
    <3>2. QED
      BY <3>1 DEF WaitingIsPending
  <2>3. QED
    BY <2>1, <2>2
<1>5. ASSUME NEW m \in late, LatePoll(m) \/ LateReport(m) PROVE WaitingIsPending'
  <2>1. CASE LatePoll(m)
    BY <2>1 DEF LatePoll, Taken, WaitingIsPending
  <2>2. CASE LateReport(m)
    BY <2>2, CompletedWaits DEF LateReport
  <2>3. QED
    BY <1>5, <2>1, <2>2
<1>6. ASSUME NEW p \in Pollers, Poll(p) \/ \E n \in Nodes : StartPoller(p, n)
      PROVE  WaitingIsPending'
  BY <1>6 DEF Poll, StartPoller, broker, WaitingIsPending
<1>7. ASSUME NEW n \in Nodes, StopPoller(n) \/ DaemonStops(n) PROVE WaitingIsPending'
  BY <1>7 DEF StopPoller, DaemonStops, broker, WaitingIsPending
<1>8. CASE UNCHANGED vars
  BY <1>8 DEF vars, broker, WaitingIsPending
<1>9. QED
  BY <1>1, <1>2, <1>3, <1>4, <1>5, <1>6, <1>7, <1>8 DEF Next

-----------------------------------------------------------------------------
(* The theorems *)

\* In every reachable state each command is in one place only, and the index,
\* the promises and the reports agree.
THEOREM BrokerInvariant == Spec => []Inv
<1>1. QED
  BY InvInit, InvNext, PTL DEF Spec

\* The state keeps its shape.
THEOREM BrokerTypes == Spec => []TypeOK
<1>1. Inv => TypeOK
  BY DEF Inv
<1>2. QED
  BY <1>1, BrokerInvariant, PTL

\* A command is performed at most once, whatever is lost and whoever restarts.
THEOREM PerformedOnce == Spec => []AtMostOnce
<1>1. Inv => AtMostOnce
  BY DEF Inv
<1>2. QED
  BY <1>1, BrokerInvariant, PTL

\* Commands are not handed out for nobody.
THEOREM QueuesAwaited == Spec => []QueueAwaited
<1>1. Inv => QueueAwaited
  BY DEF Inv
<1>2. QED
  BY <1>1, BrokerInvariant, PTL

\* A daemon is told "accepted" only when its result is the caller's answer.
THEOREM AcceptedIsAnswered == Spec => []AcceptedAnswers
<1>1. Inv => AcceptedAnswers
  BY DEF Inv
<1>2. QED
  BY <1>1, BrokerInvariant, PTL

\* One poller performs commands in the order of their requests, across polls
\* that fail and restarts of either side.
THEOREM PollersKeepOrder == Spec => []InOrder
<1>1. OrderInv => InOrder
  BY DEF OrderInv
<1>2. QED
  BY <1>1, OrderInit, OrderNext, BrokerInvariant, PTL DEF Spec

\* Whoever waits is where a report and the timer find it, whatever became of
\* the command: in the index of the broker.
THEOREM WaitersAreKept == Spec => []WaitingIsPending
<1>1. Init => WaitingIsPending
  BY DEF Init, WaitingIsPending
<1>2. QED
  BY <1>1, WaitsNext, BrokerTypes, PTL DEF Spec

\* The broker and the pollers implement RemoteCalls: at most one performance
\* and one answer of each command, and no success that did not happen.
THEOREM ImplementsRemoteCalls == Spec => CallsSpec
<1>1. Init => Calls!Init
  BY DEF Init, Calls!Init
<1>2. QED
  BY <1>1, CallsStep, BrokerInvariant, PTL DEF Spec, CallsSpec, Calls!Spec
=============================================================================
