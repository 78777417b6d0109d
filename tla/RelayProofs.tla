---------------------------- MODULE RelayProofs ----------------------------
(***************************************************************************)
(* Invariants of Relay, proved for every set of clients and targets and    *)
(* for every bound.  The invariant is built in layers, each proved         *)
(* inductive with the help of the ones before it:                          *)
(*   Server   the server's command is the newest wake it accepted;         *)
(*   Fetch    what a client has fetched is a wake that was accepted;       *)
(*   Log      what a client has executed, and its cursor.                  *)
(***************************************************************************)
EXTENDS Relay, TLAPS

LEMMA NormalizeType ==
  ASSUME NEW t \in RawTargets
  PROVE  normalizeTarget(t) \in Targets
BY TargetAssumption DEF normalizeTarget, Targets

LEMMA NormalizeFixed ==
  ASSUME NEW t \in Targets
  PROVE  normalizeTarget(t) = t
BY TargetAssumption DEF normalizeTarget, Targets

LEMMA TargetsRaw == Targets \subseteq RawTargets /\ Blank \in RawTargets
BY TargetAssumption DEF Targets

LEMMA AppendFacts ==
  ASSUME NEW S, NEW s \in Seq(S), NEW e \in S
  PROVE  /\ Append(s, e) \in Seq(S)
         /\ Len(Append(s, e)) = Len(s) + 1
         /\ DOMAIN Append(s, e) = 1..(Len(s) + 1)
         /\ \A i \in 1..Len(s) : Append(s, e)[i] = s[i]
         /\ Append(s, e)[Len(s) + 1] = e
         /\ Append(s, e) # <<>>
OBVIOUS

----------------------------------------------------------------------------
\* Layer 1: the server.

\* The current command is the newest accepted wake, and the ids accepted since
\* the last restart are not above it.
ServerInv ==
    /\ commandID > 0 =>
         /\ queued # <<>>
         /\ queued[Len(queued)].command_id = commandID
         /\ queued[Len(queued)].target = target
    /\ \A k \in DOMAIN queued :
         /\ queued[k].epoch <= epoch
         /\ queued[k].epoch = epoch => queued[k].command_id <= commandID

ServerTypeOK ==
    /\ commandID \in 0..MaxCommands
    /\ target \in Targets \cup {Blank}
    /\ epoch \in 0..MaxServerRestarts
    /\ queued \in Seq(Accepted) /\ Len(queued) <= MaxCommands

Layer1 == ServerTypeOK /\ ServerInv

THEOREM Layer1Invariant == Spec => []Layer1
<1>1. Init => Layer1
  BY BoundAssumption, ClientAssumption
     DEF Init, ServerInit, Layer1, ServerTypeOK, ServerInv, Accepted
<1>2. Layer1 /\ [Next]_vars => Layer1'
  <2> SUFFICES ASSUME Layer1, [Next]_vars PROVE Layer1'
    OBVIOUS
  <2> USE BoundAssumption, ClientAssumption
  <2>1. ASSUME NEW token \in Tokens, NEW t \in RawTargets, AdminWake(token, t)
        PROVE Layer1'
    <3> DEFINE q == [epoch |-> epoch, command_id |-> commandID + 1,
                     target |-> normalizeTarget(t)]
    <3>1. /\ commandID' = commandID + 1 /\ commandID < MaxCommands
          /\ target' = normalizeTarget(t)
          /\ epoch' = epoch /\ Len(queued) < MaxCommands
          /\ queued' = Append(queued, q)
      BY <2>1 DEF AdminWake, HandleWake, queueWake
    <3>2. normalizeTarget(t) \in Targets
      BY NormalizeType
    <3>3. q \in Accepted
      BY <3>1, <3>2 DEF Accepted, Layer1, ServerTypeOK
    <3>4. /\ queued' \in Seq(Accepted) /\ Len(queued') = Len(queued) + 1
          /\ DOMAIN queued' = 1..(Len(queued) + 1)
          /\ \A i \in 1..Len(queued) : queued'[i] = queued[i]
          /\ queued'[Len(queued) + 1] = q
          /\ queued' # <<>>
      BY <3>1, <3>3, AppendFacts DEF Layer1, ServerTypeOK
    <3>5. ServerTypeOK'
      BY <3>1, <3>2, <3>4 DEF Layer1, ServerTypeOK
    <3>6. /\ queued'[Len(queued')].command_id = commandID'
          /\ queued'[Len(queued')].target = target'
      BY <3>1, <3>4
    <3>7. ASSUME NEW k \in DOMAIN queued'
          PROVE  /\ queued'[k].epoch <= epoch'
                 /\ queued'[k].epoch = epoch'
                      => queued'[k].command_id <= commandID'
      <4>1. CASE k = Len(queued) + 1
        BY <4>1, <3>1, <3>4 DEF Layer1, ServerTypeOK
      <4>2. CASE k \in 1..Len(queued)
        <5>1. queued'[k] = queued[k] /\ k \in DOMAIN queued
          BY <4>2, <3>4 DEF Layer1, ServerTypeOK
        <5>2. queued[k] \in Accepted
          BY <5>1 DEF Layer1, ServerTypeOK
        <5> QED BY <5>1, <5>2, <3>1 DEF Layer1, ServerInv, ServerTypeOK, Accepted
      <4> QED BY <4>1, <4>2, <3>4 DEF Layer1, ServerTypeOK
    <3> QED BY <3>4, <3>5, <3>6, <3>7 DEF Layer1, ServerInv
  <2>2. CASE ServerRestart
    <3>1. /\ commandID' = 0 /\ target' = Blank /\ queued' = queued
          /\ epoch < MaxServerRestarts /\ epoch' = epoch + 1
      BY <2>2 DEF ServerRestart, Restart
    <3>2. ASSUME NEW k \in DOMAIN queued
          PROVE  queued[k].epoch \in Nat /\ queued[k].epoch < epoch'
      <4>1. queued[k] \in Accepted
        BY DEF Layer1, ServerTypeOK
      <4> QED BY <3>1, <4>1 DEF Layer1, ServerInv, ServerTypeOK, Accepted
    <3> QED BY <3>1, <3>2 DEF Layer1, ServerInv, ServerTypeOK
  <2>3. ASSUME UNCHANGED <<commandID, target, epoch, queued>>
        PROVE Layer1'
    BY <2>3 DEF Layer1, ServerTypeOK, ServerInv
  <2>4. ASSUME NEW m \in reports, ReceiveReport(m) \/ LoseReport(m)
        PROVE  UNCHANGED <<commandID, target, epoch, queued>>
    BY <2>4 DEF ReceiveReport, HandleReport, LoseReport, histVars, serverVars
  <2>5. ASSUME NEW c \in Clients, ClientNext(c)
        PROVE  UNCHANGED <<commandID, target, epoch, queued>>
    BY <2>5 DEF ClientNext, ServePoll, SendPoll, ReceivePoll, FailPoll, Wake,
                SendReport, FinishReport, ClientRestart, serverVars, histVars
  <2>6. CASE UNCHANGED vars
    BY <2>3, <2>6 DEF vars, serverVars, histVars
  <2> QED
    BY <2>1, <2>2, <2>3, <2>4, <2>5, <2>6 DEF Next
<1> QED BY <1>1, <1>2, PTL DEF Spec

----------------------------------------------------------------------------
\* Layer 2: types, and what a client has fetched.

\* Reply p, served to c, is the wake that was accepted last at that time.
fetched(c, p) ==
    /\ serial[c] \in DOMAIN queued
    /\ queued[serial[c]].command_id = p.command_id
    /\ queued[serial[c]].target = p.target

FetchOK(c) ==
    /\ reply[c] # NoReply =>
         /\ pc[c] = "polling"
         /\ reply[c].command = "wake" => fetched(c, reply[c])
    /\ pc[c] \in {"waking", "reporting", "waiting"} =>
         /\ poll[c] # NoReply
         /\ isNewWake(poll[c], lastID[c])
         /\ fetched(c, poll[c])

FetchInv == \A c \in Clients : FetchOK(c)

Layer2 == TypeOK /\ FetchInv

\* Accepting a wake leaves what was accepted before it in place.
LEMMA QueuedGrows ==
  ASSUME NEW token \in Tokens, NEW t \in RawTargets,
         Layer1, Layer1', AdminWake(token, t)
  PROVE  /\ Len(queued') = Len(queued) + 1
         /\ \A k \in DOMAIN queued : k \in DOMAIN queued' /\ queued'[k] = queued[k]
<1>1. queued \in Seq(Accepted) /\ queued' \in Seq(Accepted)
  BY DEF Layer1, ServerTypeOK
<1>2. PICK q : queued' = Append(queued, q)
  BY DEF AdminWake
<1> QED BY <1>1, <1>2

LEMMA PollResponseType ==
  ASSUME Layer1, NEW last \in 0..MaxCommands
  PROVE  PollResponse(last) \in Replies
<1>1. commandID \in 0..MaxCommands /\ target \in Targets \cup {Blank}
  BY DEF Layer1, ServerTypeOK
<1> QED BY <1>1, BoundAssumption DEF PollResponse, Replies

LEMMA InitLayer2 == Init => Layer2
<1> SUFFICES ASSUME Init PROVE Layer2
  OBVIOUS
<1>1. TypeOK
  BY BoundAssumption, ClientAssumption, ReplyAssumption
     DEF Init, ServerInit, TypeOK, Accepted, Execution
<1>2. FetchInv
  BY DEF Init, FetchInv, FetchOK
<1> QED BY <1>1, <1>2 DEF Layer2

LEMMA StepLayer2 ==
  ASSUME Layer1, Layer1', Layer2, [Next]_vars
  PROVE  Layer2'
<1> USE BoundAssumption, ClientAssumption, ReplyAssumption
<1>t. TypeOK /\ FetchInv
  BY DEF Layer2
<1>s. /\ commandID' \in 0..MaxCommands
      /\ target' \in Targets \cup {Blank}
      /\ epoch' \in 0..MaxServerRestarts
      /\ queued' \in Seq(Accepted) /\ Len(queued') <= MaxCommands
  BY DEF Layer1, ServerTypeOK
<1>1. ASSUME NEW token \in Tokens, NEW t \in RawTargets, AdminWake(token, t)
      PROVE  Layer2'
  <2>1. UNCHANGED <<clientVars, netVars, serial, life, wakes, lastReport>>
    BY <1>1 DEF AdminWake, HandleWake
  <2>2. TypeOK'
    BY <1>t, <1>s, <2>1 DEF TypeOK, clientVars, netVars
  <2>3. \A k \in DOMAIN queued : k \in DOMAIN queued' /\ queued'[k] = queued[k]
    BY <1>1, QueuedGrows
  <2>4. FetchInv'
    BY <1>t, <2>1, <2>3
       DEF FetchInv, FetchOK, fetched, isNewWake, clientVars, netVars
  <2> QED BY <2>2, <2>4 DEF Layer2
<1>2. ASSUME NEW m \in reports, ReceiveReport(m)
      PROVE  Layer2'
  <2>1. /\ UNCHANGED <<clientVars, reply, histVars>>
        /\ reports' \subseteq reports
        /\ lastReport' = [command_id |-> m.command_id, ok |-> m.ok]
    BY <1>2 DEF ReceiveReport, HandleReport
  <2>2. lastReport' \in Reports
    BY <1>t, <2>1 DEF TypeOK, ReportMsg, Reports
  <2>3. TypeOK'
    BY <1>t, <1>s, <2>1, <2>2 DEF TypeOK, clientVars, histVars
  <2>4. FetchInv'
    BY <1>t, <2>1 DEF FetchInv, FetchOK, fetched, isNewWake, clientVars, histVars
  <2> QED BY <2>3, <2>4 DEF Layer2
<1>3. ASSUME NEW m \in reports, LoseReport(m)
      PROVE  Layer2'
  <2>1. UNCHANGED <<serverVars, clientVars, reply, histVars>> /\ reports' \subseteq reports
    BY <1>3 DEF LoseReport
  <2>2. TypeOK'
    BY <1>t, <1>s, <2>1 DEF TypeOK, serverVars, clientVars, histVars
  <2>3. FetchInv'
    BY <1>t, <2>1 DEF FetchInv, FetchOK, fetched, isNewWake, clientVars, histVars
  <2> QED BY <2>2, <2>3 DEF Layer2
<1>4. CASE ServerRestart
  <2>1. /\ UNCHANGED <<clientVars, netVars, queued, serial, life, wakes>>
        /\ lastReport' = NoReport
    BY <1>4 DEF ServerRestart, Restart
  <2>2. TypeOK'
    BY <1>t, <1>s, <2>1 DEF TypeOK, clientVars, netVars
  <2>3. FetchInv'
    BY <1>t, <2>1 DEF FetchInv, FetchOK, fetched, isNewWake, clientVars, netVars
  <2> QED BY <2>2, <2>3 DEF Layer2
<1>5. ASSUME NEW c \in Clients, ServePoll(c)
      PROVE  Layer2'
  <2> DEFINE p == PollResponse(lastID[c])
  <2>1. /\ pc[c] = "polling"
        /\ reply' = [reply EXCEPT ![c] = p]
        /\ serial' = [serial EXCEPT ![c] = Len(queued)]
        /\ UNCHANGED <<serverVars, clientVars, reports, epoch, queued, life, wakes>>
    BY <1>5 DEF ServePoll
  <2>2. p \in Replies
    BY <1>t, PollResponseType DEF TypeOK
  <2>3. Len(queued) \in 0..MaxCommands
    BY <1>t DEF TypeOK
  <2>4. TypeOK'
    <3> HIDE DEF p
    <3> QED BY <1>t, <1>s, <2>1, <2>2, <2>3 DEF TypeOK, serverVars, clientVars
  <2>5. p.command = "wake" =>
          /\ Len(queued) \in DOMAIN queued
          /\ queued[Len(queued)].command_id = p.command_id
          /\ queued[Len(queued)].target = p.target
    BY <1>t DEF PollResponse, Layer1, ServerInv, ServerTypeOK, TypeOK
  <2>6. ASSUME NEW d \in Clients PROVE FetchOK(d)'
    <3> HIDE DEF p
    <3>1. CASE d = c
      BY <1>t, <2>1, <2>5, <3>1
         DEF FetchInv, FetchOK, fetched, isNewWake, clientVars, TypeOK
    <3>2. CASE d # c
      BY <1>t, <2>1, <3>2
         DEF FetchInv, FetchOK, fetched, isNewWake, clientVars, TypeOK
    <3> QED BY <3>1, <3>2
  <2> QED BY <2>4, <2>6 DEF Layer2, FetchInv
<1>6. ASSUME NEW c \in Clients,
             \/ SendPoll(c)
             \/ ReceivePoll(c)
             \/ FailPoll(c)
             \/ FinishReport(c)
             \/ ClientRestart(c)
      PROVE  Layer2'
  <2>1. UNCHANGED <<serverVars, reports, epoch, queued, serial, wakes>>
    BY <1>6 DEF SendPoll, ReceivePoll, FailPoll, FinishReport, ClientRestart,
                netVars, histVars
  <2>2. TypeOK'
    <3> DEFINE PC == {"idle", "polling", "waking", "reporting", "waiting"}
    <3>0. /\ pc \in [Clients -> PC] /\ lastID \in [Clients -> 0..MaxCommands]
          /\ poll \in [Clients -> Replies \cup {NoReply}]
          /\ ok \in [Clients -> BOOLEAN]
          /\ reply \in [Clients -> Replies \cup {NoReply}]
          /\ life \in [Clients -> 0..MaxClientRestarts]
      BY <1>t DEF TypeOK
    <3>1. SUFFICES
          /\ pc' \in [Clients -> PC] /\ lastID' \in [Clients -> 0..MaxCommands]
          /\ poll' \in [Clients -> Replies \cup {NoReply}]
          /\ ok' \in [Clients -> BOOLEAN]
          /\ reply' \in [Clients -> Replies \cup {NoReply}]
          /\ life' \in [Clients -> 0..MaxClientRestarts]
      BY <1>t, <1>s, <2>1 DEF TypeOK, serverVars
    <3>2. CASE SendPoll(c)
      BY <3>0, <3>2 DEF SendPoll, netVars, histVars
    <3>3. CASE ReceivePoll(c)
      BY <3>0, <3>3 DEF ReceivePoll, histVars
    <3>4. CASE FailPoll(c)
      BY <3>0, <3>4 DEF FailPoll, histVars
    <3>5. CASE FinishReport(c)
      <4>1. poll[c] \in Replies
        BY <1>t, <3>0, <3>5 DEF FinishReport, FetchInv, FetchOK
      <4>2. poll[c].command_id \in 0..MaxCommands
        BY <4>1 DEF Replies
      <4> QED BY <3>0, <3>5, <4>2
              DEF FinishReport, cursorAfterReport, netVars, histVars
    <3>6. CASE ClientRestart(c)
      <4>1. life[c] + 1 \in 0..MaxClientRestarts
        BY <3>0, <3>6 DEF ClientRestart
      <4>2. life' = [life EXCEPT ![c] = life[c] + 1]
        BY <3>6 DEF ClientRestart
      <4>3. life' \in [Clients -> 0..MaxClientRestarts]
        BY <3>0, <4>1, <4>2
      <4> QED BY <3>0, <3>6, <4>3 DEF ClientRestart
    <3> QED BY <1>6, <3>2, <3>3, <3>4, <3>5, <3>6
  <2>3. ASSUME NEW d \in Clients PROVE FetchOK(d)'
    <3>1. CASE d = c
      <4>1. FetchOK(c)
        BY <1>t DEF FetchInv
      <4>2. CASE SendPoll(c) \/ FailPoll(c) \/ FinishReport(c) \/ ClientRestart(c)
        BY <1>t, <2>1, <3>1, <4>1, <4>2 DEF SendPoll, FailPoll,
             FinishReport, ClientRestart, netVars, FetchOK, TypeOK
      <4>3. CASE ReceivePoll(c)
        BY <1>t, <2>1, <3>1, <4>1, <4>3
           DEF ReceivePoll, FetchOK, fetched, isNewWake, TypeOK
      <4> QED BY <1>6, <4>2, <4>3
    <3>2. CASE d # c
      <4>1. /\ pc'[d] = pc[d] /\ lastID'[d] = lastID[d]
            /\ poll'[d] = poll[d] /\ reply'[d] = reply[d]
        BY <1>t, <1>6, <3>2 DEF SendPoll, ReceivePoll, FailPoll,
             FinishReport, ClientRestart, netVars, TypeOK
      <4> QED BY <1>t, <2>1, <4>1 DEF FetchInv, FetchOK, fetched, isNewWake
    <3> QED BY <3>1, <3>2
  <2> QED BY <2>2, <2>3 DEF Layer2, FetchInv
<1>7. ASSUME NEW c \in Clients, Wake(c)
      PROVE  Layer2'
  <2>1. PICK success \in BOOLEAN :
          /\ pc[c] = "waking"
          /\ ok' = [ok EXCEPT ![c] = success]
          /\ wakes' = [wakes EXCEPT ![c] = Append(@,
               [life |-> life[c], serial |-> serial[c],
                command_id |-> poll[c].command_id,
                target |-> normalizeTarget(poll[c].target),
                ok |-> success])]
          /\ pc' = [pc EXCEPT ![c] = "reporting"]
          /\ UNCHANGED <<serverVars, lastID, poll, netVars,
                         epoch, queued, serial, life>>
    BY <1>7 DEF Wake
  <2> DEFINE w == [life |-> life[c], serial |-> serial[c],
                   command_id |-> poll[c].command_id,
                   target |-> normalizeTarget(poll[c].target), ok |-> success]
  <2>2. FetchOK(c)
    BY <1>t DEF FetchInv
  <2>3. w \in Execution
    <3>1. /\ poll[c] \in Replies /\ poll[c].command_id > lastID[c]
          /\ serial[c] \in DOMAIN queued
      BY <1>t, <2>1, <2>2 DEF FetchOK, fetched, isNewWake, TypeOK
    <3>2. normalizeTarget(poll[c].target) \in Targets
      BY <3>1, NormalizeType, TargetsRaw DEF Replies
    <3>3. poll[c].command_id \in 1..MaxCommands
      BY <1>t, <3>1 DEF TypeOK, Replies
    <3>4. serial[c] \in 1..MaxCommands /\ life[c] \in 0..MaxClientRestarts
      BY <1>t, <3>1 DEF TypeOK
    <3> QED BY <3>2, <3>3, <3>4 DEF Execution
  <2>4. wakes' \in [Clients -> Seq(Execution)]
    <3>1. wakes[c] \in Seq(Execution)
      BY <1>t DEF TypeOK
    <3>2. Append(wakes[c], w) \in Seq(Execution)
      BY <2>3, <3>1, AppendFacts
    <3>3. wakes' = [wakes EXCEPT ![c] = Append(wakes[c], w)]
      BY <2>1
    <3> HIDE DEF w
    <3> QED BY <1>t, <3>2, <3>3 DEF TypeOK
  <2>5. TypeOK'
    BY <1>t, <1>s, <2>1, <2>4 DEF TypeOK, serverVars, netVars
  <2>6. ASSUME NEW d \in Clients PROVE FetchOK(d)'
    BY <1>t, <2>1, <2>2
       DEF FetchInv, FetchOK, fetched, isNewWake, netVars, TypeOK
  <2> QED BY <2>5, <2>6 DEF Layer2, FetchInv
<1>8. ASSUME NEW c \in Clients, SendReport(c)
      PROVE  Layer2'
  <2> DEFINE m == [client |-> c, wake |-> Len(wakes[c]),
                   command_id |-> reportedID(c), ok |-> ok[c]]
  <2>1. /\ pc[c] = "reporting"
        /\ reports' = reports \cup {m}
        /\ pc' = [pc EXCEPT ![c] = "waiting"]
        /\ UNCHANGED <<serverVars, lastID, poll, ok, reply, histVars>>
    BY <1>8 DEF SendReport
  <2>2. FetchOK(c)
    BY <1>t DEF FetchInv
  <2>3. m \in ReportMsg
    <3>1. poll[c] \in Replies /\ ok[c] \in BOOLEAN /\ wakes[c] \in Seq(Execution)
      BY <1>t, <2>1, <2>2 DEF FetchOK, TypeOK
    <3>2. reportedID(c) \in 0..MaxCommands /\ Len(wakes[c]) \in Nat
      BY <3>1 DEF reportedID, Replies
    <3> QED BY <3>1, <3>2 DEF ReportMsg
  <2>4. TypeOK'
    <3> HIDE DEF m
    <3> QED BY <1>t, <1>s, <2>1, <2>3 DEF TypeOK, serverVars, histVars
  <2>5. ASSUME NEW d \in Clients PROVE FetchOK(d)'
    BY <1>t, <2>1, <2>2
       DEF FetchInv, FetchOK, fetched, isNewWake, histVars, TypeOK
  <2> QED BY <2>4, <2>5 DEF Layer2, FetchInv
<1>9. CASE UNCHANGED vars
  <2>1. TypeOK'
    BY <1>t, <1>9 DEF TypeOK, vars, serverVars, clientVars, netVars, histVars
  <2>2. FetchInv'
    BY <1>t, <1>9 DEF FetchInv, FetchOK, fetched, isNewWake, vars, serverVars,
                      clientVars, netVars, histVars
  <2> QED BY <2>1, <2>2 DEF Layer2
<1> QED
  BY <1>1, <1>2, <1>3, <1>4, <1>5, <1>6, <1>7, <1>8, <1>9 DEF Next, ClientNext

THEOREM Layer2Invariant == Spec => []Layer2
<1>1. Layer1 /\ Layer1' /\ Layer2 /\ [Next]_vars => Layer2'
  BY StepLayer2
<1> QED BY InitLayer2, Layer1Invariant, <1>1, PTL DEF Spec

\* Every variable of Relay keeps its type; no blank or untrimmed target is
\* ever accepted by queueWake or executed by a client.
THEOREM TypeCorrect == Spec => []TypeOK
<1>1. Layer2 => TypeOK
  BY DEF Layer2
<1> QED BY <1>1, Layer2Invariant, PTL

----------------------------------------------------------------------------
\* Layer 3: what a client has executed, and its cursor.

\* The last wake of c belongs to its present life.
current(c) == wakes[c] # <<>> /\ lastWake(c).life = life[c]

\* The log of c is ordered, and consists of accepted wakes.
Ordered(c) ==
    \A i, j \in DOMAIN wakes[c] : i < j =>
        /\ wakes[c][i].life <= wakes[c][j].life
        /\ wakes[c][i].life = wakes[c][j].life =>
             /\ wakes[c][i].serial < wakes[c][j].serial
             /\ wakes[c][i].command_id < wakes[c][j].command_id

Genuine(c) ==
    \A i \in DOMAIN wakes[c] :
        /\ wakes[c][i].life <= life[c]
        /\ wakes[c][i].serial \in DOMAIN queued
        /\ queued[wakes[c][i].serial].command_id = wakes[c][i].command_id
        /\ queued[wakes[c][i].serial].target = wakes[c][i].target

\* The cursor is the id of the last wake of this life, once its report is
\* done; and what is fetched lies beyond that wake.
CursorOK(c) ==
    /\ lastID[c] > 0 => \E k \in DOMAIN queued : queued[k].command_id = lastID[c]
    /\ pc[c] \in {"idle", "polling", "waking"} =>
         IF current(c) THEN lastWake(c).command_id = lastID[c]
                       ELSE lastID[c] = 0
    /\ pc[c] \in {"reporting", "waiting"} =>
         /\ current(c)
         /\ lastWake(c).command_id = poll[c].command_id
         /\ lastWake(c).ok = ok[c]
    /\ reply[c] # NoReply /\ reply[c].command = "wake" => serial[c] > cursorOf(c)
    /\ pc[c] = "waking" => serial[c] > cursorOf(c)

LogOK(c) == Ordered(c) /\ Genuine(c) /\ CursorOK(c)

Layer3 == \A c \in Clients : LogOK(c)

LEMMA InitLayer3 == Init => Layer3
BY DEF Init, Layer3, LogOK, Ordered, Genuine, CursorOK, current, lastWake, cursorOf

\* A step that leaves client d alone, and only adds to queued, keeps LogOK(d).
LEMMA OthersKeepLog ==
  ASSUME NEW d \in Clients, Layer2, LogOK(d),
         UNCHANGED <<pc[d], lastID[d], poll[d], ok[d], reply[d], serial[d],
                     life[d], wakes[d]>>,
         \A k \in DOMAIN queued : k \in DOMAIN queued' /\ queued'[k] = queued[k]
  PROVE  LogOK(d)'
<1>1. Ordered(d)'
  BY DEF LogOK, Ordered
<1>2. Genuine(d)'
  BY DEF LogOK, Genuine
<1>3. CursorOK(d)'
  BY DEF LogOK, CursorOK, current, lastWake, cursorOf
<1> QED BY <1>1, <1>2, <1>3 DEF LogOK

\* A poll that is answered with a wake is answered with one beyond the cursor:
\* were the newest wake the one under the cursor, its id would be the cursor.
LEMMA ServedIsBeyond ==
  ASSUME Layer1, Layer2, NEW c \in Clients, LogOK(c), pc[c] = "polling",
         PollResponse(lastID[c]).command = "wake"
  PROVE  Len(queued) > cursorOf(c)
<1>1. commandID > lastID[c] /\ commandID > 0
  BY DEF PollResponse, Layer1, ServerTypeOK, Layer2, TypeOK
<1>2. /\ queued # <<>> /\ queued \in Seq(Accepted)
      /\ queued[Len(queued)].command_id = commandID
  BY <1>1 DEF Layer1, ServerInv, ServerTypeOK
<1>3. CASE current(c)
  <2>1. /\ Len(wakes[c]) \in DOMAIN wakes[c]
        /\ cursorOf(c) = lastWake(c).serial
    BY <1>3 DEF current, cursorOf, Layer2, TypeOK
  <2>2. /\ lastWake(c).serial \in DOMAIN queued
        /\ queued[lastWake(c).serial].command_id = lastID[c]
    BY <1>3, <2>1 DEF LogOK, Genuine, CursorOK, lastWake
  <2>3. lastWake(c).serial # Len(queued)
    BY <1>1, <1>2, <2>2 DEF Layer1, ServerTypeOK, Layer2, TypeOK
  <2> QED BY <1>2, <2>1, <2>2, <2>3
<1>4. CASE ~current(c)
  BY <1>2, <1>4 DEF cursorOf, current
<1> QED BY <1>3, <1>4

LEMMA StepLayer3 ==
  ASSUME Layer1, Layer1', Layer2, Layer2', Layer3, [Next]_vars
  PROVE  Layer3'
<1>t. TypeOK /\ FetchInv
  BY DEF Layer2
<1>1. ASSUME NEW token \in Tokens, NEW t \in RawTargets, AdminWake(token, t)
      PROVE  Layer3'
  <2>1. \A k \in DOMAIN queued : k \in DOMAIN queued' /\ queued'[k] = queued[k]
    BY <1>1, QueuedGrows
  <2> QED BY <1>1, <2>1, OthersKeepLog DEF Layer3, AdminWake, clientVars, netVars
<1>2. ASSUME NEW m \in reports, ReceiveReport(m) \/ LoseReport(m)
      PROVE  Layer3'
  <2>1. UNCHANGED <<clientVars, reply, histVars>>
    BY <1>2 DEF ReceiveReport, LoseReport
  <2> QED BY <2>1, OthersKeepLog DEF Layer3, clientVars, histVars
<1>3. CASE ServerRestart
  BY <1>3, OthersKeepLog DEF Layer3, ServerRestart, clientVars, netVars
<1>4. CASE UNCHANGED vars
  BY <1>4, OthersKeepLog DEF Layer3, vars, clientVars, netVars, histVars
<1>5. ASSUME NEW c \in Clients, ClientNext(c)
      PROVE  Layer3'
  <2>0. queued' = queued
    BY <1>5 DEF ClientNext, ServePoll, SendPoll, ReceivePoll, FailPoll, Wake,
                SendReport, FinishReport, ClientRestart, histVars
  <2>1. ASSUME NEW d \in Clients, d # c PROVE LogOK(d)'
    <3>1. UNCHANGED <<pc[d], lastID[d], poll[d], ok[d], reply[d], serial[d],
                      life[d], wakes[d]>>
      BY <1>t, <1>5, <2>1
         DEF ClientNext, ServePoll, SendPoll, ReceivePoll, FailPoll, Wake,
             SendReport, FinishReport, ClientRestart, clientVars, netVars,
             histVars, TypeOK
    <3> QED BY <2>0, <3>1, OthersKeepLog DEF Layer3
  <2>2. LogOK(c) /\ FetchOK(c) /\ FetchOK(c)'
    BY DEF Layer3, Layer2, FetchInv
  <2>3. ASSUME ServePoll(c) PROVE LogOK(c)'
    <3> DEFINE p == PollResponse(lastID[c])
    <3>1. /\ pc[c] = "polling"
          /\ reply'[c] = p /\ serial'[c] = Len(queued)
          /\ UNCHANGED <<pc, lastID, poll, ok, queued, life, wakes>>
      BY <1>t, <2>3 DEF ServePoll, clientVars, TypeOK
    <3>2. p.command = "wake" => Len(queued) > cursorOf(c)
      BY <2>2, <3>1, ServedIsBeyond
    <3>3. Ordered(c)' /\ Genuine(c)'
      BY <2>2, <3>1 DEF LogOK, Ordered, Genuine
    <3>4. CursorOK(c)'
      <4> HIDE DEF p
      <4> QED BY <2>2, <3>1, <3>2 DEF LogOK, CursorOK, current, lastWake, cursorOf
    <3> QED BY <3>3, <3>4 DEF LogOK
  <2>4. ASSUME SendPoll(c) \/ ReceivePoll(c) \/ FailPoll(c) \/ SendReport(c) PROVE LogOK(c)'
    <3>1. UNCHANGED <<lastID, ok, queued, serial, life, wakes>>
      BY <2>4 DEF SendPoll, ReceivePoll, FailPoll, SendReport, histVars
    <3>2. Ordered(c)' /\ Genuine(c)'
      BY <2>2, <3>1 DEF LogOK, Ordered, Genuine
    <3>3. CursorOK(c)'
      <4>1. CASE SendPoll(c)
        BY <1>t, <2>2, <3>1, <4>1 DEF SendPoll, netVars, TypeOK,
             LogOK, CursorOK, current, lastWake, cursorOf
      <4>2. CASE ReceivePoll(c)
        BY <1>t, <2>2, <3>1, <4>2 DEF ReceivePoll, isNewWake, TypeOK,
             LogOK, CursorOK, current, lastWake, cursorOf
      <4>3. CASE FailPoll(c)
        BY <1>t, <2>2, <3>1, <4>3 DEF FailPoll, TypeOK,
             LogOK, CursorOK, current, lastWake, cursorOf
      <4>4. CASE SendReport(c)
        BY <1>t, <2>2, <3>1, <4>4 DEF SendReport, TypeOK,
             LogOK, CursorOK, current, lastWake, cursorOf
      <4> QED BY <2>4, <4>1, <4>2, <4>3, <4>4
    <3> QED BY <3>2, <3>3 DEF LogOK
  <2>5. ASSUME Wake(c) PROVE LogOK(c)'
    <3>1. PICK success \in BOOLEAN :
          /\ pc[c] = "waking"
          /\ ok' = [ok EXCEPT ![c] = success]
          /\ wakes' = [wakes EXCEPT ![c] = Append(@,
               [life |-> life[c], serial |-> serial[c],
                command_id |-> poll[c].command_id,
                target |-> normalizeTarget(poll[c].target),
                ok |-> success])]
          /\ pc' = [pc EXCEPT ![c] = "reporting"]
          /\ UNCHANGED <<lastID, poll, reply, queued, serial, life>>
      BY <2>5 DEF Wake, netVars
    <3> DEFINE w == [life |-> life[c], serial |-> serial[c],
                     command_id |-> poll[c].command_id,
                     target |-> normalizeTarget(poll[c].target),
                     ok |-> success]
               n == Len(wakes[c])
    <3>2. wakes[c] \in Seq(Execution) /\ wakes'[c] = Append(wakes[c], w)
      BY <1>t, <3>1 DEF TypeOK
    <3>3. /\ Len(wakes'[c]) = n + 1 /\ n \in Nat
          /\ DOMAIN wakes[c] = 1..n /\ DOMAIN wakes'[c] = 1..(n + 1)
          /\ \A i \in 1..n : wakes'[c][i] = wakes[c][i]
          /\ wakes'[c][n + 1] = w
      BY <3>2
    <3>4. /\ poll[c] \in Replies /\ poll[c].command_id > lastID[c]
          /\ fetched(c, poll[c]) /\ serial[c] > cursorOf(c)
      BY <1>t, <2>2, <3>1 DEF FetchOK, isNewWake, TypeOK, LogOK, CursorOK
    <3>5. normalizeTarget(poll[c].target) = poll[c].target
      <4>1. queued[serial[c]] \in Accepted
        BY <1>t, <3>4 DEF fetched, TypeOK
      <4>2. poll[c].target \in Targets
        BY <3>4, <4>1 DEF fetched, Accepted
      <4> QED BY <4>2, NormalizeFixed
    <3>6. ASSUME NEW i \in 1..n
          PROVE  /\ wakes[c][i].life <= life[c]
                 /\ wakes[c][i].life = life[c] =>
                      /\ wakes[c][i].serial < serial[c]
                      /\ wakes[c][i].command_id < poll[c].command_id
      <4>1. wakes[c][i] \in Execution /\ wakes[c][n] \in Execution /\ n \in 1..n
        BY <3>2, <3>3
      <4>2. wakes[c][i].life <= life[c] /\ wakes[c][n].life <= life[c]
        BY <2>2, <3>3, <4>1 DEF LogOK, Genuine
      <4>3. ASSUME wakes[c][i].life = life[c]
            PROVE  /\ wakes[c][n].life = life[c]
                   /\ wakes[c][i].serial <= wakes[c][n].serial
                   /\ wakes[c][i].command_id <= wakes[c][n].command_id
        <5>1. CASE i = n
          BY <4>1, <4>3, <5>1 DEF Execution
        <5>2. CASE i < n
          <6>1. /\ wakes[c][i].life <= wakes[c][n].life
                /\ wakes[c][i].life = wakes[c][n].life =>
                     /\ wakes[c][i].serial < wakes[c][n].serial
                     /\ wakes[c][i].command_id < wakes[c][n].command_id
            BY <2>2, <3>3, <4>1, <5>2 DEF LogOK, Ordered
          <6>2. wakes[c][n].life = life[c]
            <7>1. /\ wakes[c][i].life \in Nat /\ wakes[c][n].life \in Nat
                  /\ life[c] \in Nat
              <8>1. life[c] \in 0..MaxClientRestarts
                BY <1>t DEF TypeOK
              <8>2. \A e \in Execution : e.life \in Nat
                BY ClientAssumption DEF Execution
              <8> QED BY <4>1, <8>1, <8>2, ClientAssumption
            <7> HIDE DEF n
            <7> QED BY <4>2, <4>3, <6>1, <7>1
          <6> QED BY <4>1, <4>3, <6>1, <6>2 DEF Execution
        <5> QED BY <3>3, <5>1, <5>2
      <4>4. ASSUME wakes[c][i].life = life[c]
            PROVE  /\ wakes[c][i].serial < serial[c]
                   /\ wakes[c][i].command_id < poll[c].command_id
        <5>1. current(c) /\ lastWake(c) = wakes[c][n]
          BY <3>3, <4>1, <4>3, <4>4 DEF current, lastWake
        <5>2. cursorOf(c) = wakes[c][n].serial
          BY <5>1 DEF cursorOf, current
        <5>3. wakes[c][n].command_id = lastID[c]
          BY <2>2, <3>1, <5>1 DEF LogOK, CursorOK
        <5>4. /\ serial[c] \in Nat /\ poll[c].command_id \in Nat
          BY <1>t, <3>4, BoundAssumption DEF TypeOK, Replies
        <5>5. /\ wakes[c][i].serial \in Nat /\ wakes[c][i].command_id \in Nat
              /\ wakes[c][n].serial \in Nat /\ wakes[c][n].command_id \in Nat
          BY <4>1, BoundAssumption DEF Execution
        <5> QED BY <3>4, <4>3, <4>4, <5>2, <5>3, <5>4, <5>5
      <4> QED BY <4>2, <4>4
    <3>7. Ordered(c)'
      <4> HIDE DEF w
      <4> SUFFICES ASSUME NEW i \in 1..(n + 1), NEW j \in 1..(n + 1), i < j
                   PROVE  /\ wakes'[c][i].life <= wakes'[c][j].life
                          /\ wakes'[c][i].life = wakes'[c][j].life =>
                               /\ wakes'[c][i].serial < wakes'[c][j].serial
                               /\ wakes'[c][i].command_id < wakes'[c][j].command_id
        BY <3>3 DEF Ordered
      <4>1. CASE j \in 1..n
        BY <2>2, <3>3, <4>1 DEF LogOK, Ordered
      <4>2. CASE j = n + 1
        <5>1. i \in 1..n /\ wakes'[c][i] = wakes[c][i] /\ wakes'[c][j] = w
          BY <3>3, <4>2
        <5> QED BY <3>6, <5>1 DEF w
      <4> QED BY <3>3, <4>1, <4>2
    <3>8. Genuine(c)'
      <4> SUFFICES ASSUME NEW i \in 1..(n + 1)
                   PROVE  /\ wakes'[c][i].life <= life[c]
                          /\ wakes'[c][i].serial \in DOMAIN queued
                          /\ queued[wakes'[c][i].serial].command_id
                               = wakes'[c][i].command_id
                          /\ queued[wakes'[c][i].serial].target
                               = wakes'[c][i].target
        BY <3>1, <3>3 DEF Genuine
      <4>1. CASE i \in 1..n
        BY <2>2, <3>3, <4>1 DEF LogOK, Genuine
      <4>2. CASE i = n + 1
        <5>1. wakes'[c][i] = w
          BY <3>3, <4>2
        <5>2. life[c] <= life[c]
          BY <1>t DEF TypeOK
        <5> QED BY <3>4, <3>5, <5>1, <5>2 DEF fetched
      <4> QED BY <3>3, <4>1, <4>2
    <3>9. CursorOK(c)'
      <4>1. current(c)' /\ lastWake(c)' = w
        <5> HIDE DEF w
        <5>1. wakes'[c] # <<>> /\ wakes'[c][Len(wakes'[c])] = w
          BY <3>3
        <5>2. w.life = life'[c]
          BY <3>1 DEF w
        <5> QED BY <5>1, <5>2 DEF current, lastWake
      <4>2. /\ pc'[c] = "reporting" /\ ok'[c] = success
            /\ reply'[c] = NoReply
        BY <1>t, <2>2, <3>1 DEF TypeOK, FetchOK
      <4>3. /\ w.command_id = poll'[c].command_id /\ w.ok = ok'[c]
        BY <3>1, <4>2
      <4> HIDE DEF w
      <4> QED BY <2>2, <3>1, <4>1, <4>2, <4>3 DEF LogOK, CursorOK
    <3> QED BY <3>7, <3>8, <3>9 DEF LogOK
  <2>6. ASSUME FinishReport(c) PROVE LogOK(c)'
    <3>1. /\ pc[c] = "waiting" /\ pc'[c] = "idle"
          /\ lastID'[c] = poll[c].command_id
          /\ UNCHANGED <<reply, queued, serial, life, wakes>>
      BY <1>t, <2>6 DEF FinishReport, cursorAfterReport, netVars, histVars, TypeOK
    <3>2. Ordered(c)' /\ Genuine(c)'
      BY <2>2, <3>1 DEF LogOK, Ordered, Genuine
    <3>3. /\ reply[c] = NoReply /\ fetched(c, poll[c])
      BY <2>2, <3>1 DEF FetchOK
    <3>4. CursorOK(c)'
      BY <2>2, <3>1, <3>3
         DEF LogOK, CursorOK, current, lastWake, cursorOf, fetched
    <3> QED BY <3>2, <3>4 DEF LogOK
  <2>7. ASSUME ClientRestart(c) PROVE LogOK(c)'
    <3>1. /\ life'[c] = life[c] + 1 /\ pc'[c] = "idle" /\ lastID'[c] = 0
          /\ reply'[c] = NoReply
          /\ UNCHANGED <<queued, serial, wakes>>
      BY <1>t, <2>7 DEF ClientRestart, TypeOK
    <3>2. \A i \in DOMAIN wakes[c] : /\ wakes[c][i].life <= life[c]
                                     /\ wakes[c][i].life \in Nat
                                     /\ life[c] \in Nat
      <4> SUFFICES ASSUME NEW i \in DOMAIN wakes[c]
                   PROVE  /\ wakes[c][i].life <= life[c]
                          /\ wakes[c][i].life \in Nat
                          /\ life[c] \in Nat
        OBVIOUS
      <4>1. wakes[c][i] \in Execution /\ life[c] \in 0..MaxClientRestarts
        BY <1>t DEF TypeOK
      <4> QED BY <2>2, <4>1, ClientAssumption DEF Execution, LogOK, Genuine
    <3>3. Ordered(c)'
      BY <2>2, <3>1 DEF LogOK, Ordered
    <3>4. Genuine(c)'
      <4>1. \A i \in DOMAIN wakes[c] : wakes[c][i].life <= life'[c]
        BY <3>1, <3>2
      <4> QED BY <2>2, <3>1, <4>1 DEF LogOK, Genuine
    <3>5. ~current(c)'
      <4>1. wakes[c] # <<>> => Len(wakes[c]) \in DOMAIN wakes[c]
        BY <1>t DEF TypeOK
      <4> QED BY <3>1, <3>2, <4>1 DEF current, lastWake
    <3>6. CursorOK(c)'
      BY <3>1, <3>5 DEF CursorOK
    <3> QED BY <3>3, <3>4, <3>6 DEF LogOK
  <2>8. LogOK(c)'
    BY <1>5, <2>3, <2>4, <2>5, <2>6, <2>7 DEF ClientNext
  <2> QED BY <2>1, <2>8 DEF Layer3
<1> QED BY <1>1, <1>2, <1>3, <1>4, <1>5 DEF Next

THEOREM Layer3Invariant == Spec => []Layer3
<1>1. /\ Layer1 /\ Layer1' /\ Layer2 /\ Layer2' /\ Layer3 /\ [Next]_vars
      => Layer3'
  BY StepLayer3
<1> QED BY InitLayer3, Layer1Invariant, Layer2Invariant, <1>1, PTL DEF Spec

----------------------------------------------------------------------------
\* The safety properties of Relay that follow.

\* In one life a client executes each command at most once and in order.
THEOREM ExecutesOncePerLife == Spec => []OncePerLife
<1>1. Layer3 => OncePerLife
  BY DEF Layer3, LogOK, Ordered, OncePerLife
<1> QED BY <1>1, Layer3Invariant, PTL

\* A client only acts on a pair of id and target that queueWake stored.
THEOREM ExecutesQueued == Spec => []WokenWasQueued
<1>1. Layer3 => WokenWasQueued
  BY DEF Layer3, LogOK, Genuine, WokenWasQueued
<1> QED BY <1>1, Layer3Invariant, PTL

\* A client's cursor runs ahead of the server only after a server restart.
THEOREM CursorNotAhead == Spec => []CursorBehindServer
<1>1. Layer1 /\ Layer2 /\ Layer3 => CursorBehindServer
  <2> SUFFICES ASSUME Layer1, Layer2, Layer3, NEW c \in Clients,
                      lastID[c] > commandID
               PROVE  \E k \in DOMAIN queued : /\ queued[k].epoch < epoch
                                               /\ queued[k].command_id = lastID[c]
    BY DEF CursorBehindServer
  <2>1. commandID \in Nat /\ lastID[c] \in Nat
    BY BoundAssumption DEF Layer2, TypeOK
  <2>2. PICK k \in DOMAIN queued : queued[k].command_id = lastID[c]
    BY <2>1 DEF Layer3, LogOK, CursorOK
  <2>3. queued[k].epoch <= epoch /\ queued[k].epoch # epoch
    BY <2>1, <2>2 DEF Layer1, ServerInv
  <2>4. queued[k].epoch \in Nat /\ epoch \in Nat
    <3>1. queued[k] \in Accepted /\ epoch \in 0..MaxServerRestarts
      BY DEF Layer1, ServerTypeOK
    <3>2. \A e \in Accepted : e.epoch \in Nat
      BY ClientAssumption DEF Accepted
    <3> QED BY <3>1, <3>2, ClientAssumption
  <2> QED BY <2>2, <2>3, <2>4
<1> QED BY <1>1, Layer1Invariant, Layer2Invariant, Layer3Invariant, PTL

----------------------------------------------------------------------------
\* Reports.

ReportsInv == \A m \in reports :
    /\ m.wake \in DOMAIN wakes[m.client]
    /\ wakes[m.client][m.wake].command_id = m.command_id
    /\ wakes[m.client][m.wake].ok = m.ok

Layer4 == ReportsInv /\ ReportIsGenuine

\* No step takes anything out of the log of a client.
LEMMA LogGrows ==
  ASSUME Layer2, Layer2', [Next]_vars, NEW c \in Clients
  PROVE  \A i \in DOMAIN wakes[c] :
           i \in DOMAIN wakes'[c] /\ wakes'[c][i] = wakes[c][i]
<1>1. CASE wakes' = wakes
  BY <1>1
<1>2. ASSUME NEW d \in Clients, Wake(d)
      PROVE  \A i \in DOMAIN wakes[c] :
               i \in DOMAIN wakes'[c] /\ wakes'[c][i] = wakes[c][i]
  <2>1. PICK w : wakes' = [wakes EXCEPT ![d] = Append(wakes[d], w)]
    BY <1>2 DEF Wake
  <2>2. wakes \in [Clients -> Seq(Execution)] /\ wakes' \in [Clients -> Seq(Execution)]
    BY DEF Layer2, TypeOK
  <2>3. CASE c = d
    <3>1. wakes'[c] = Append(wakes[c], w)
      BY <2>1, <2>2, <2>3
    <3>2. wakes[c] \in Seq(Execution) /\ wakes'[c] \in Seq(Execution)
      BY <2>2
    <3> QED BY <3>1, <3>2
  <2>4. CASE c # d
    BY <2>1, <2>2, <2>4
  <2> QED BY <2>3, <2>4
<1>3. wakes' = wakes \/ \E d \in Clients : Wake(d)
  <2>1. ASSUME NEW d \in Clients, ClientNext(d), ~Wake(d) PROVE wakes' = wakes
    BY <2>1 DEF ClientNext, ServePoll, SendPoll, ReceivePoll, FailPoll,
                SendReport, FinishReport, ClientRestart, histVars
  <2>2. ASSUME NEW token \in Tokens, NEW t \in RawTargets, AdminWake(token, t)
        PROVE  wakes' = wakes
    BY <2>2 DEF AdminWake
  <2>3. ASSUME NEW m \in reports, ReceiveReport(m) \/ LoseReport(m)
        PROVE  wakes' = wakes
    BY <2>3 DEF ReceiveReport, LoseReport, histVars
  <2>4. ServerRestart => wakes' = wakes
    BY DEF ServerRestart
  <2>5. UNCHANGED vars => wakes' = wakes
    BY DEF vars, histVars
  <2> QED BY <2>1, <2>2, <2>3, <2>4, <2>5 DEF Next
<1> QED BY <1>1, <1>2, <1>3

LEMMA StepLayer4 ==
  ASSUME Layer2, Layer2', Layer3, Layer4, [Next]_vars
  PROVE  Layer4'
<1>g. \A c \in Clients : \A i \in DOMAIN wakes[c] :
        i \in DOMAIN wakes'[c] /\ wakes'[c][i] = wakes[c][i]
  BY LogGrows
<1>t. \A m \in reports : m.client \in Clients
  BY DEF Layer2, TypeOK, ReportMsg
<1>1. ASSUME reports' \subseteq reports PROVE ReportsInv'
  BY <1>1, <1>g, <1>t DEF Layer4, ReportsInv
<1>2. ASSUME lastReport' = lastReport PROVE ReportIsGenuine'
  BY <1>2, <1>g DEF Layer4, ReportIsGenuine
<1>3. ASSUME NEW m \in reports, ReceiveReport(m) PROVE Layer4'
  <2>1. /\ lastReport' = [command_id |-> m.command_id, ok |-> m.ok]
        /\ reports' \subseteq reports
    BY <1>3 DEF ReceiveReport, HandleReport
  <2>2. /\ m.client \in Clients /\ m.wake \in DOMAIN wakes[m.client]
        /\ wakes[m.client][m.wake].command_id = m.command_id
        /\ wakes[m.client][m.wake].ok = m.ok
    BY <1>t DEF Layer4, ReportsInv
  <2>3. /\ m.wake \in DOMAIN wakes'[m.client]
        /\ wakes'[m.client][m.wake] = wakes[m.client][m.wake]
    BY <1>g, <2>2
  <2>4. ReportIsGenuine'
    BY <2>1, <2>2, <2>3 DEF ReportIsGenuine
  <2> QED BY <1>1, <2>1, <2>4 DEF Layer4
<1>4. ASSUME NEW m \in reports, LoseReport(m) PROVE Layer4'
  BY <1>1, <1>2, <1>4 DEF LoseReport, serverVars, Layer4
<1>5. CASE ServerRestart
  <2>1. ReportIsGenuine'
    BY <1>5 DEF ServerRestart, Restart, ReportIsGenuine
  <2> QED BY <1>1, <1>5, <2>1 DEF ServerRestart, netVars, Layer4
<1>6. ASSUME NEW token \in Tokens, NEW t \in RawTargets, AdminWake(token, t)
      PROVE  Layer4'
  BY <1>1, <1>2, <1>6 DEF AdminWake, HandleWake, netVars, Layer4
<1>7. ASSUME NEW c \in Clients, ClientNext(c), ~SendReport(c) PROVE Layer4'
  <2>1. reports' = reports /\ lastReport' = lastReport
    BY <1>7 DEF ClientNext, ServePoll, SendPoll, ReceivePoll, FailPoll, Wake,
                FinishReport, ClientRestart, serverVars, netVars
  <2> QED BY <1>1, <1>2, <2>1 DEF Layer4
<1>8. ASSUME NEW c \in Clients, SendReport(c) PROVE Layer4'
  <2> DEFINE m == [client |-> c, wake |-> Len(wakes[c]),
                   command_id |-> poll[c].command_id, ok |-> ok[c]]
  <2>1. /\ pc[c] = "reporting" /\ reports' = reports \cup {m}
        /\ lastReport' = lastReport /\ wakes' = wakes
    BY <1>8 DEF SendReport, reportedID, serverVars, histVars
  <2>2. /\ current(c) /\ lastWake(c).command_id = poll[c].command_id
        /\ lastWake(c).ok = ok[c]
    BY <2>1 DEF Layer3, LogOK, CursorOK
  <2>3. Len(wakes[c]) \in DOMAIN wakes[c]
    BY <2>2 DEF current, Layer2, TypeOK
  <2>4. /\ m.wake \in DOMAIN wakes[m.client]
        /\ wakes[m.client][m.wake].command_id = m.command_id
        /\ wakes[m.client][m.wake].ok = m.ok
    BY <2>2, <2>3 DEF lastWake
  <2>5. ReportsInv'
    <3> HIDE DEF m
    <3> QED BY <2>1, <2>4 DEF Layer4, ReportsInv
  <2> QED BY <1>2, <2>1, <2>5 DEF Layer4
<1>9. CASE UNCHANGED vars
  BY <1>1, <1>2, <1>9 DEF vars, serverVars, netVars, Layer4
<1> QED
  BY <1>3, <1>4, <1>5, <1>6, <1>7, <1>8, <1>9 DEF Next

\* The report on the index page is about an execution that took place, with
\* the outcome it had.
THEOREM ReportsGenuine == Spec => []ReportIsGenuine
<1>1. Init => Layer4
  BY DEF Init, ServerInit, Layer4, ReportsInv, ReportIsGenuine
<1>2. Layer2 /\ Layer2' /\ Layer3 /\ Layer4 /\ [Next]_vars => Layer4'
  BY StepLayer4
<1>3. Layer4 => ReportIsGenuine
  BY DEF Layer4
<1> QED BY <1>1, <1>2, <1>3, Layer2Invariant, Layer3Invariant, PTL DEF Spec

----------------------------------------------------------------------------
\* Relay implements WakeChannel.

chanCursor == [c \in Clients |-> cursorOf(c)]
chanWoken == [c \in Clients |-> wokenBy(c)]

\* The log and the life of a client determine its part of the channel.
LEMMA ChannelUnchanged ==
  ASSUME UNCHANGED <<queued, life, wakes>>
  PROVE  UNCHANGED Channel!chanVars
BY DEF Channel!chanVars, askedTargets, cursorOf, wokenBy, lastWake

\* Every step of the relay is a step of the channel or leaves it unchanged.
LEMMA ChannelStep ==
  ASSUME Layer1, Layer1', Layer2, Layer2', Layer3, [Next]_vars
  PROVE  [Channel!Next]_(Channel!chanVars)
<1>1. ASSUME NEW token \in Tokens, NEW t \in RawTargets, AdminWake(token, t)
      PROVE  Channel!Ask(normalizeTarget(t))
  <2>1. PICK q : /\ queued' = Append(queued, q) /\ q.target = normalizeTarget(t)
                 /\ UNCHANGED <<life, wakes>>
    BY <1>1 DEF AdminWake
  <2>2. queued \in Seq(Accepted) /\ queued' \in Seq(Accepted)
    BY DEF Layer1, ServerTypeOK
  <2>3. askedTargets' = Append(askedTargets, normalizeTarget(t))
    BY <2>1, <2>2 DEF askedTargets
  <2> QED BY <2>1, <2>3 DEF Channel!Ask, cursorOf, wokenBy, lastWake
<1>2. ASSUME NEW c \in Clients, Wake(c) PROVE Channel!Execute(c)
  <2>1. PICK success \in BOOLEAN :
          /\ pc[c] = "waking"
          /\ wakes' = [wakes EXCEPT ![c] = Append(@,
               [life |-> life[c], serial |-> serial[c],
                command_id |-> poll[c].command_id,
                target |-> normalizeTarget(poll[c].target),
                ok |-> success])]
          /\ UNCHANGED <<queued, serial, life>>
    BY <1>2 DEF Wake
  <2> DEFINE w == [life |-> life[c], serial |-> serial[c],
                   command_id |-> poll[c].command_id,
                   target |-> normalizeTarget(poll[c].target), ok |-> success]
  <2>2. /\ wakes \in [Clients -> Seq(Execution)]
        /\ wakes[c] \in Seq(Execution) /\ queued \in Seq(Accepted)
    BY DEF Layer2, TypeOK
  <2>3. wakes' = [wakes EXCEPT ![c] = Append(wakes[c], w)]
    BY <2>1
  <2>4. /\ wakes'[c] = Append(wakes[c], w)
        /\ \A d \in Clients : d # c => wakes'[d] = wakes[d]
    BY <2>2, <2>3
  <2>5. wakes'[c] # <<>> /\ wakes'[c][Len(wakes'[c])] = w
    <3>1. /\ Len(wakes'[c]) = Len(wakes[c]) + 1
          /\ wakes'[c][Len(wakes[c]) + 1] = w
      BY <2>2, <2>4
    <3> HIDE DEF w
    <3> QED BY <2>2, <3>1
  <2>6. fetched(c, poll[c]) /\ serial[c] > cursorOf(c)
    BY <2>1 DEF Layer2, FetchInv, FetchOK, Layer3, LogOK, CursorOK
  <2>7. w.target = queued[serial[c]].target
    <3>1. queued[serial[c]] \in Accepted
      BY <2>2, <2>6 DEF fetched
    <3>2. poll[c].target \in Targets /\ poll[c].target = queued[serial[c]].target
      BY <2>6, <3>1 DEF fetched, Accepted
    <3> QED BY <3>2, NormalizeFixed
  <2>8. cursorOf(c)' = serial[c]
    <3>1. w.life = life'[c] /\ w.serial = serial[c]
      BY <2>1
    <3> HIDE DEF w
    <3> QED BY <2>5, <3>1 DEF cursorOf, lastWake
  <2>13. wokenBy(c)' = Append(wokenBy(c), queued[serial[c]].target)
    <3>1. w \in Execution
      <4>1. Len(wakes'[c]) \in DOMAIN wakes'[c] /\ wakes'[c] \in Seq(Execution)
        BY <2>5 DEF Layer2, TypeOK
      <4> HIDE DEF w
      <4> QED BY <2>5, <4>1
    <3> HIDE DEF w
    <3>2. /\ Len(wakes'[c]) = Len(wakes[c]) + 1
          /\ \A i \in 1..Len(wakes[c]) : wakes'[c][i] = wakes[c][i]
          /\ wakes'[c][Len(wakes[c]) + 1] = w
      BY <2>2, <2>4, <3>1, AppendFacts
    <3> QED BY <2>2, <2>7, <3>2 DEF wokenBy
  <2>9. \A d \in Clients : d # c => /\ cursorOf(d)' = cursorOf(d)
                                    /\ wokenBy(d)' = wokenBy(d)
    BY <2>1, <2>4 DEF cursorOf, wokenBy, lastWake
  <2>10. /\ chanCursor' = [chanCursor EXCEPT ![c] = serial[c]]
         /\ chanWoken' = [chanWoken EXCEPT ![c] =
                          Append(wokenBy(c), queued[serial[c]].target)]
    BY <2>8, <2>9, <2>13 DEF chanCursor, chanWoken
  <2>11. /\ serial[c] \in DOMAIN askedTargets
         /\ askedTargets[serial[c]] = queued[serial[c]].target
         /\ chanCursor[c] = cursorOf(c) /\ chanWoken[c] = wokenBy(c)
    BY <2>2, <2>6 DEF fetched, askedTargets, chanCursor, chanWoken
  <2>12. askedTargets' = askedTargets
    BY <2>1 DEF askedTargets
  <2> QED BY <2>6, <2>10, <2>11, <2>12 DEF Channel!Execute, chanCursor, chanWoken
<1>3. ASSUME NEW c \in Clients, ClientRestart(c) PROVE Channel!Forget(c)
  <2>1. /\ life' = [life EXCEPT ![c] = life[c] + 1]
        /\ UNCHANGED <<queued, wakes>>
    BY <1>3 DEF ClientRestart
  <2>2. /\ life \in [Clients -> 0..MaxClientRestarts]
        /\ wakes[c] \in Seq(Execution)
    BY DEF Layer2, TypeOK
  <2>3. cursorOf(c)' = 0
    <3>1. CASE wakes[c] = <<>>
      BY <2>1, <3>1 DEF cursorOf
    <3>2. CASE wakes[c] # <<>>
      <4>1. Len(wakes[c]) \in DOMAIN wakes[c]
        BY <2>2, <3>2
      <4>2. /\ lastWake(c) \in Execution /\ lastWake(c).life <= life[c]
        BY <2>2, <4>1 DEF Layer3, LogOK, Genuine, lastWake
      <4>3. lastWake(c).life \in Nat /\ life[c] \in Nat
        <5>1. \A e \in Execution : e.life \in Nat
          BY ClientAssumption DEF Execution
        <5> QED BY <2>2, <4>2, <5>1, ClientAssumption
      <4>4. lastWake(c).life # life[c] + 1
        BY <4>2, <4>3
      <4>5. lastWake(c)' = lastWake(c) /\ life'[c] = life[c] + 1
        BY <2>1, <2>2 DEF lastWake
      <4> QED BY <4>4, <4>5 DEF cursorOf
    <3> QED BY <3>1, <3>2
  <2>4. \A d \in Clients : d # c => cursorOf(d)' = cursorOf(d)
    BY <2>1, <2>2 DEF cursorOf, lastWake
  <2>5. /\ chanCursor' = [chanCursor EXCEPT ![c] = 0]
        /\ chanWoken' = chanWoken /\ askedTargets' = askedTargets
    BY <2>1, <2>3, <2>4 DEF chanCursor, chanWoken, wokenBy, lastWake, askedTargets
  <2> QED BY <2>5 DEF Channel!Forget, chanCursor, chanWoken
<1>4. ASSUME NEW c \in Clients, ClientNext(c), ~Wake(c), ~ClientRestart(c)
      PROVE  UNCHANGED <<queued, life, wakes>>
  BY <1>4 DEF ClientNext, ServePoll, SendPoll, ReceivePoll, FailPoll,
              SendReport, FinishReport, histVars
<1>5. ASSUME NEW m \in reports, ReceiveReport(m) \/ LoseReport(m)
      PROVE  UNCHANGED <<queued, life, wakes>>
  BY <1>5 DEF ReceiveReport, LoseReport, histVars
<1>6. ServerRestart \/ UNCHANGED vars => UNCHANGED <<queued, life, wakes>>
  BY DEF ServerRestart, vars, histVars
<1>7. \A t \in RawTargets : normalizeTarget(t) \in Targets
  BY NormalizeType
<1> QED
  BY <1>1, <1>2, <1>3, <1>4, <1>5, <1>6, <1>7, ChannelUnchanged
     DEF Next, ClientNext, Channel!Next

\* Server, clients and network together implement the abstract channel.
THEOREM Refinement == Spec => ImplementsChannel
<1>1. Init => Channel!Init
  BY DEF Init, Channel!Init, askedTargets, cursorOf, wokenBy
<1>2. /\ Layer1 /\ Layer1' /\ Layer2 /\ Layer2' /\ Layer3 /\ [Next]_vars
      => [Channel!Next]_(Channel!chanVars)
  BY ChannelStep
<1> QED
  BY <1>1, <1>2, Layer1Invariant, Layer2Invariant, Layer3Invariant, PTL
     DEF Spec, ImplementsChannel, Channel!Spec
=============================================================================
