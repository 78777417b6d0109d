------------------------------- MODULE Relay -------------------------------
(***************************************************************************)
(* The self-hosted relay end to end: administrators queue wakes on the     *)
(* server (RelayServer), OpenWrt clients poll it over an unreliable        *)
(* network, execute what they fetch and report back                        *)
(* (src/internal/selfhost/client.go).  Either process may die and be       *)
(* started again; both keep their whole state in memory.                   *)
(*                                                                         *)
(* A request may fail before or after the server handled it, so a poll is  *)
(* sent, served and received in separate steps, and a report may reach the *)
(* server after the client has stopped waiting for its answer.  A poll     *)
(* only reads, so that the transport retries it is no step of its own.     *)
(* What one command does to the devices is the matter of module Wake; here *)
(* it succeeds or it does not.                                             *)
(***************************************************************************)
EXTENDS RelayServer, Sequences

CONSTANTS Clients,
          ClientToken,        \* the device token each client is given
          NoReply,            \* no answer in flight, no command in hand
          MaxServerRestarts,  \* bound: how often the server process dies
          MaxClientRestarts   \* bound: how often each client process dies

ASSUME ClientAssumption ==
    /\ ClientToken \in [Clients -> Tokens]
    /\ MaxServerRestarts \in Nat /\ MaxClientRestarts \in Nat

\* What the server can answer to a poll.
Replies == [command_id : 0..MaxCommands, command : {"wake", "none"},
            target : Targets \cup {Blank}]

ASSUME ReplyAssumption == NoReply \notin Replies

VARIABLES
  \* each client's Run loop
  pc,       \* idle, polling, waking, reporting or waiting
  lastID,   \* the cursor it polls with
  poll,     \* the reply it is executing, or NoReply
  ok,       \* whether the wake it is executing succeeded
  \* the network
  reply,    \* per client, the answer to its poll in flight, or NoReply
  reports,  \* the reports in flight
  \* history, which no step of the program reads
  epoch,    \* how often the server has restarted
  queued,   \* the wakes it has accepted, in order
  serial,   \* per client, how many wakes were accepted when its poll was served
  life,     \* per client, how often it has restarted
  wakes     \* per client, the commands it has executed, in order

clientVars == <<pc, lastID, poll, ok>>
netVars == <<reply, reports>>
histVars == <<epoch, queued, serial, life, wakes>>
vars == <<serverVars, clientVars, netVars, histVars>>

Accepted == [epoch : 0..MaxServerRestarts, command_id : 1..MaxCommands,
             target : Targets]

Execution == [life : 0..MaxClientRestarts, serial : 1..MaxCommands,
              command_id : 1..MaxCommands, target : Targets, ok : BOOLEAN]

ReportMsg == [client : Clients, wake : Nat,
              command_id : 0..MaxCommands, ok : BOOLEAN]

Init ==
    /\ ServerInit
    /\ pc = [c \in Clients |-> "idle"]
    /\ lastID = [c \in Clients |-> 0]
    /\ poll = [c \in Clients |-> NoReply]
    /\ ok = [c \in Clients |-> FALSE]
    /\ reply = [c \in Clients |-> NoReply]
    /\ reports = {}
    /\ epoch = 0
    /\ queued = <<>>
    /\ serial = [c \in Clients |-> 0]
    /\ life = [c \in Clients |-> 0]
    /\ wakes = [c \in Clients |-> <<>>]

----------------------------------------------------------------------------
\* The server.

\* An accepted wake request; what was asked for goes to the history.
AdminWake(token, t) ==
    /\ Len(queued) < MaxCommands
    /\ HandleWake(token, t)
    /\ queued' = Append(queued, [epoch |-> epoch, command_id |-> commandID',
                                 target |-> normalizeTarget(t)])
    /\ UNCHANGED <<clientVars, netVars, epoch, serial, life, wakes>>

\* handlePoll answers a poll that carries the right token.  Any other poll
\* gets an error status, which its client cannot tell from a lost answer.
ServePoll(c) ==
    /\ pc[c] = "polling" /\ reply[c] = NoReply
    /\ validDeviceToken(ClientToken[c])
    /\ reply' = [reply EXCEPT ![c] = PollResponse(lastID[c])]
    /\ serial' = [serial EXCEPT ![c] = Len(queued)]
    /\ UNCHANGED <<serverVars, clientVars, reports, epoch, queued, life, wakes>>

ReceiveReport(m) ==
    /\ m \in reports
    /\ HandleReport(ClientToken[m.client],
                    [command_id |-> m.command_id, ok |-> m.ok])
    /\ reports' = reports \ {m}
    /\ UNCHANGED <<clientVars, reply, histVars>>

\* The server process dies and its supervisor starts it again.
ServerRestart ==
    /\ epoch < MaxServerRestarts
    /\ Restart
    /\ epoch' = epoch + 1
    /\ UNCHANGED <<clientVars, netVars, queued, serial, life, wakes>>

----------------------------------------------------------------------------
\* The network loses a report, or its server refuses it.
LoseReport(m) ==
    /\ m \in reports
    /\ reports' = reports \ {m}
    /\ UNCHANGED <<serverVars, clientVars, reply, histVars>>

----------------------------------------------------------------------------
\* A client: one round of the loop in Run.

SendPoll(c) ==
    /\ pc[c] = "idle"
    /\ pc' = [pc EXCEPT ![c] = "polling"]
    /\ UNCHANGED <<serverVars, lastID, poll, ok, netVars, histVars>>

\* Run's test of the reply: a wake whose id is above the cursor.
isNewWake(p, last) == p.command = "wake" /\ p.command_id > last

\* Defect: takes commands to come one at a time.
ReceivePoll_ExpectsNext(c) ==
    /\ pc[c] = "polling" /\ reply[c] # NoReply
    /\ IF isNewWake(reply[c], lastID[c]) /\ reply[c].command_id = lastID[c] + 1
         THEN /\ pc' = [pc EXCEPT ![c] = "waking"]
              /\ poll' = [poll EXCEPT ![c] = reply[c]]
         ELSE /\ pc' = [pc EXCEPT ![c] = "idle"]
              /\ UNCHANGED poll
    /\ reply' = [reply EXCEPT ![c] = NoReply]
    /\ UNCHANGED <<serverVars, lastID, ok, reports, histVars>>

ReceivePoll(c) ==
    /\ pc[c] = "polling" /\ reply[c] # NoReply
    /\ IF isNewWake(reply[c], lastID[c])
         THEN /\ pc' = [pc EXCEPT ![c] = "waking"]
              /\ poll' = [poll EXCEPT ![c] = reply[c]]
         ELSE /\ pc' = [pc EXCEPT ![c] = "idle"]
              /\ UNCHANGED poll
    /\ reply' = [reply EXCEPT ![c] = NoReply]
    /\ UNCHANGED <<serverVars, lastID, ok, reports, histVars>>

\* The poll fails: no connection, an error status, or 15 seconds without an
\* answer.  An answer still under way is dropped with its connection.
FailPoll(c) ==
    /\ pc[c] = "polling"
    /\ pc' = [pc EXCEPT ![c] = "idle"]
    /\ reply' = [reply EXCEPT ![c] = NoReply]
    /\ UNCHANGED <<serverVars, lastID, poll, ok, reports, histVars>>

\* handler.Handle on the target of the reply, which succeeds or does not.
Wake(c) ==
    /\ pc[c] = "waking"
    /\ \E success \in BOOLEAN :
         /\ ok' = [ok EXCEPT ![c] = success]
         /\ wakes' = [wakes EXCEPT ![c] = Append(@,
              [life |-> life[c], serial |-> serial[c],
               command_id |-> poll[c].command_id,
               target |-> normalizeTarget(poll[c].target),
               ok |-> success])]
    /\ pc' = [pc EXCEPT ![c] = "reporting"]
    /\ UNCHANGED <<serverVars, lastID, poll, netVars,
                   epoch, queued, serial, life>>

\* Defect: reports the cursor, not the command it has executed.
reportedID_Cursor(c) == lastID[c]

\* The id that Run hands to report.
reportedID(c) == poll[c].command_id

SendReport(c) ==
    /\ pc[c] = "reporting"
    /\ reports' = reports \cup {[client |-> c, wake |-> Len(wakes[c]),
                                 command_id |-> reportedID(c), ok |-> ok[c]]}
    /\ pc' = [pc EXCEPT ![c] = "waiting"]
    /\ UNCHANGED <<serverVars, lastID, poll, ok, reply, histVars>>

\* Defect: moves the cursor only when the report was acknowledged.
cursorAfterReport_OnAck(c, acked) ==
    IF acked THEN poll[c].command_id ELSE lastID[c]

\* Defect: keeps the id it expects next instead of the one it has seen.
cursorAfterReport_Next(c, acked) == poll[c].command_id + 1

\* The cursor moves whether the report was acknowledged or not.
cursorAfterReport(c, acked) == poll[c].command_id

\* report returns, acknowledged or with an error (answer lost, 15 seconds
\* gone), and the loop goes on.
FinishReport(c) ==
    /\ pc[c] = "waiting"
    /\ \E acked \in BOOLEAN :
         lastID' = [lastID EXCEPT ![c] = cursorAfterReport(c, acked)]
    /\ pc' = [pc EXCEPT ![c] = "idle"]
    /\ poll' = [poll EXCEPT ![c] = NoReply]
    /\ ok' = [ok EXCEPT ![c] = FALSE]
    /\ UNCHANGED <<serverVars, netVars, histVars>>

\* The client process dies anywhere in the loop and is started again.
ClientRestart(c) ==
    /\ life[c] < MaxClientRestarts
    /\ life' = [life EXCEPT ![c] = @ + 1]
    /\ pc' = [pc EXCEPT ![c] = "idle"]
    /\ lastID' = [lastID EXCEPT ![c] = 0]
    /\ poll' = [poll EXCEPT ![c] = NoReply]
    /\ ok' = [ok EXCEPT ![c] = FALSE]
    /\ reply' = [reply EXCEPT ![c] = NoReply]
    /\ UNCHANGED <<serverVars, reports, epoch, queued, serial, wakes>>

----------------------------------------------------------------------------
ClientNext(c) ==
    \/ ServePoll(c)
    \/ SendPoll(c)
    \/ ReceivePoll(c)
    \/ FailPoll(c)
    \/ Wake(c)
    \/ SendReport(c)
    \/ FinishReport(c)
    \/ ClientRestart(c)

Next ==
    \/ \E token \in Tokens, t \in RawTargets : AdminWake(token, t)
    \/ \E m \in reports : ReceiveReport(m) \/ LoseReport(m)
    \/ ServerRestart
    \/ \E c \in Clients : ClientNext(c)

Spec == Init /\ [][Next]_vars

\* Each Run loop goes on by itself, each request ends, and a poll that is
\* repeated for ever is answered at last: the network is not cut for good.
\* Nothing is asked of reports, of administrators or of restarts.
Fairness ==
    \A c \in Clients :
        /\ WF_vars(SendPoll(c))
        /\ WF_vars(Wake(c))
        /\ WF_vars(SendReport(c))
        /\ WF_vars(FinishReport(c))
        /\ SF_vars(ServePoll(c))
        /\ SF_vars(ReceivePoll(c))

FairSpec == Spec /\ Fairness

----------------------------------------------------------------------------
(***************************************************************************)
(* Properties.                                                             *)
(***************************************************************************)

\* Every variable keeps its type; in particular no blank or untrimmed target
\* is ever accepted or handed to the command handler.
TypeOK ==
    /\ commandID \in 0..MaxCommands
    /\ target \in Targets \cup {Blank}
    /\ lastReport \in Reports \cup {NoReport}
    /\ pc \in [Clients -> {"idle", "polling", "waking", "reporting", "waiting"}]
    /\ lastID \in [Clients -> 0..MaxCommands]
    /\ poll \in [Clients -> Replies \cup {NoReply}]
    /\ ok \in [Clients -> BOOLEAN]
    /\ reply \in [Clients -> Replies \cup {NoReply}]
    /\ reports \subseteq ReportMsg
    /\ epoch \in 0..MaxServerRestarts
    /\ queued \in Seq(Accepted) /\ Len(queued) <= MaxCommands
    /\ serial \in [Clients -> 0..MaxCommands]
    /\ life \in [Clients -> 0..MaxClientRestarts]
    /\ wakes \in [Clients -> Seq(Execution)]

\* Between two restarts a client executes every command at most once and in
\* the order in which they were accepted, whatever the server forgets and
\* whichever answers come late (the test in Run and its cursor).
OncePerLife ==
    \A c \in Clients : \A i, j \in DOMAIN wakes[c] :
        i < j /\ wakes[c][i].life = wakes[c][j].life =>
            /\ wakes[c][i].serial < wakes[c][j].serial
            /\ wakes[c][i].command_id < wakes[c][j].command_id

\* What a client executes is a wake the server accepted: the id and the target
\* it acts on belong together, also when the answer was composed before a
\* newer wake or before a restart (handlePoll, queueWake).
WokenWasQueued ==
    \A c \in Clients : \A i \in DOMAIN wakes[c] :
        LET w == wakes[c][i]
        IN  /\ w.serial \in DOMAIN queued
            /\ queued[w.serial].command_id = w.command_id
            /\ queued[w.serial].target = w.target

\* A client's cursor is above the server's command id only after the server
\* has lost its state: an earlier incarnation did accept that id.
CursorBehindServer ==
    \A c \in Clients : lastID[c] > commandID =>
        \E k \in DOMAIN queued :
            queued[k].epoch < epoch /\ queued[k].command_id = lastID[c]

\* The report on show is about an execution that took place, with the outcome
\* it had, however late or in whatever order the reports arrive.
ReportIsGenuine ==
    lastReport # NoReport =>
        \E c \in Clients : \E i \in DOMAIN wakes[c] :
            /\ wakes[c][i].command_id = lastReport.command_id
            /\ wakes[c][i].ok = lastReport.ok

----------------------------------------------------------------------------
\* The relay implements WakeChannel.

askedTargets == [k \in 1..Len(queued) |-> queued[k].target]

lastWake(c) == wakes[c][Len(wakes[c])]

\* The last wake of the present life.
cursorOf(c) ==
    IF wakes[c] # <<>> /\ lastWake(c).life = life[c]
      THEN lastWake(c).serial ELSE 0

wokenBy(c) == [i \in 1..Len(wakes[c]) |-> wakes[c][i].target]

Channel == INSTANCE WakeChannel WITH
    asked <- askedTargets,
    cursor <- [c \in Clients |-> cursorOf(c)],
    woken <- [c \in Clients |-> wokenBy(c)]

\* Server, clients and network together never invent, repeat or reorder a
\* wake, as long as a client does not restart.
ImplementsChannel == Channel!Spec

----------------------------------------------------------------------------
\* Liveness.

\* Client c has executed the k-th accepted wake or a later one.
reached(c, k) == \E i \in DOMAIN wakes[c] : wakes[c][i].serial >= k

\* While the server does not restart, each accepted wake is executed by every
\* client or superseded by a later one that is, whatever polls are lost and
\* however often the client restarts.
AcceptedIsReached ==
    \A c \in Clients : \A k \in 1..MaxCommands :
        (Len(queued) >= k /\ epoch = 0) ~> (reached(c, k) \/ epoch > 0)

\* Also after restarts of the server: a wake whose id is above the cursor of a
\* client between two rounds is reached, until the server restarts again.
NewCommandIsReached ==
    \A c \in Clients : \A k \in 1..MaxCommands : \A e \in 0..MaxServerRestarts :
        (/\ pc[c] = "idle" /\ commandID > lastID[c]
         /\ Len(queued) = k /\ epoch = e)
        ~> (reached(c, k) \/ epoch > e)

----------------------------------------------------------------------------
\* What the documents say and the code does not do.

\* "云端会下发一次开机指令" (the index page): one request wakes once.
IssuedOnce ==
    \A c \in Clients : \A i, j \in DOMAIN wakes[c] :
        wakes[c][i].serial = wakes[c][j].serial => i = j

\* "OpenWrt 端轮询到指令后发送 WoL" (the index page): the last wake accepted is
\* fetched and executed, unless the server restarts after accepting it.
LatestIsReached ==
    \A c \in Clients : \A k \in 1..MaxCommands : \A e \in 0..MaxServerRestarts :
        (Len(queued) = k /\ epoch = e /\ queued[k].epoch = e)
        ~> (reached(c, k) \/ epoch > e)
=============================================================================
