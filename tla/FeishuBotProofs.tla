---------------------------- MODULE FeishuBotProofs ----------------------------
(***************************************************************************)
(* The safety properties of FeishuBot, proved for every set of messages,   *)
(* every allowlist and any number of faults.                               *)
(*                                                                         *)
(* AckedIsExecuted needs to know what a call has done by the label it is   *)
(* at.  RepeatsOnlyByFault is an inequality between two histories, which   *)
(* only the deliveries connect: a message is executed at most once per     *)
(* delivery, and delivered again only after a fault.                       *)
(***************************************************************************)
EXTENDS FeishuBot, FiniteSetTheorems, TLAPS

Labels == {"idle", "received", "executing", "replying", "returning", "returned"}

Types ==
    /\ \A m \in Messages : message[m].content \in Contents
    /\ platform \in [Messages -> {"unsent", "pending", "acknowledged"}]
    /\ waiting \in SUBSET Messages
    /\ deliveries \in [Messages -> Nat]
    /\ pc \in [Deliveries -> Labels]
    /\ executed \in [Messages -> Nat]
    /\ disturbed \in [Messages -> Nat]

\* The calls for m that have not executed it and still may.
Rounds == 1..(MaxFaults + 1)
open(m) == {k \in Rounds : pc[<<m, k>>] \in {"received", "executing"}}

CallOK(m, k) ==
    /\ pc[<<m, k>>] = "executing" => isCommand(m)
    /\ pc[<<m, k>>] \in {"replying", "returning"} /\ isCommand(m) => executed[m] > 0
    /\ pc[<<m, k>>] # "idle" => k <= deliveries[m]

MessageOK(m) ==
    /\ platform[m] = "acknowledged" /\ isCommand(m) => executed[m] > 0
    /\ platform[m] = "unsent" => deliveries[m] = 0
    /\ platform[m] = "pending" /\ m \notin waiting => deliveries[m] <= disturbed[m]
    /\ deliveries[m] <= 1 + disturbed[m]
    /\ executed[m] + Cardinality(open(m)) <= deliveries[m]

Inv ==
    /\ Types
    /\ \A m \in Messages : MessageOK(m) /\ \A k \in Rounds : CallOK(m, k)

----------------------------------------------------------------------------
LEMMA DeliveryParts ==
  /\ \A d \in Deliveries : d[1] \in Messages /\ d[2] \in Rounds /\ d = <<d[1], d[2]>>
  /\ \A m \in Messages, k \in Rounds : <<m, k>> \in Deliveries
BY DEF Deliveries, Rounds

LEMMA OpenFinite ==
  ASSUME NEW m
  PROVE  IsFiniteSet(open(m)) /\ Cardinality(open(m)) \in Nat
<1>1. IsFiniteSet(Rounds)
  BY FS_Interval, MessageAssumption DEF Rounds
<1>2. open(m) \in SUBSET Rounds
  BY DEF open
<1> QED BY <1>1, <1>2, FS_Subset, FS_CardinalityType

LEMMA AllowedCommand ==
  ASSUME NEW m
  PROVE  isCommand(m) <=> message[m].content = "command" /\ isAllowed(m)
BY DEF isCommand, isAllowed

LEMMA InvInit == Init => Inv
<1> SUFFICES ASSUME Init PROVE Inv
  OBVIOUS
<1>1. Types
  BY MessageAssumption DEF Init, Types, Labels
<1>2. ASSUME NEW m \in Messages, NEW k \in Rounds PROVE pc[<<m, k>>] = "idle"
  BY DeliveryParts DEF Init
<1>3. ASSUME NEW m \in Messages PROVE MessageOK(m)
  <2>1. open(m) = {}
    BY <1>2 DEF open
  <2>2. Cardinality(open(m)) = 0
    BY <2>1, FS_EmptySet
  <2> QED BY <2>2 DEF Init, MessageOK
<1>4. ASSUME NEW m \in Messages, NEW k \in Rounds PROVE CallOK(m, k)
  BY <1>2 DEF CallOK
<1> QED BY <1>1, <1>3, <1>4 DEF Inv

----------------------------------------------------------------------------
LEMMA SendStep ==
  ASSUME Inv, NEW m \in Messages, Send(m)
  PROVE  Inv'
<1>1. /\ platform[m] = "unsent"
      /\ platform' = [platform EXCEPT ![m] = "pending"]
      /\ UNCHANGED <<message, openIDs, chatIDs, waiting, deliveries, pc,
                     executed, disturbed>>
  BY DEF Send, given, history
<1>2. Types'
  BY <1>1 DEF Inv, Types
<1>3. ASSUME NEW n \in Messages PROVE MessageOK(n)'
  <2>1. open(n)' = open(n) /\ isCommand(n)' = isCommand(n) /\ MessageOK(n)
    BY <1>1 DEF open, isCommand, Inv
  <2>2. n # m => platform'[n] = platform[n]
    BY <1>1 DEF Inv, Types
  <2>3. n = m => platform'[n] = "pending" /\ deliveries[n] = 0 /\ disturbed[n] \in Nat
    BY <1>1, <2>1 DEF MessageOK, Inv, Types
  <2> QED BY <1>1, <2>1, <2>2, <2>3 DEF MessageOK
<1>4. ASSUME NEW n \in Messages, NEW k \in Rounds PROVE CallOK(n, k)'
  BY <1>1 DEF Inv, CallOK, isCommand
<1> QED BY <1>2, <1>3, <1>4 DEF Inv

LEMMA DeliverStep ==
  ASSUME Inv, NEW m \in Messages, Deliver(m)
  PROVE  Inv'
<1> DEFINE j == deliveries[m] + 1
<1>1. /\ platform[m] = "pending" /\ m \notin waiting
      /\ deliveries[m] <= MaxFaults
      /\ deliveries' = [deliveries EXCEPT ![m] = j]
      /\ waiting' = waiting \cup {m}
      /\ pc' = [pc EXCEPT ![<<m, j>>] = "received"]
      /\ UNCHANGED <<message, openIDs, chatIDs, platform, executed, disturbed>>
  BY DEF Deliver, goto, given, history
<1>2. Types /\ deliveries[m] \in Nat /\ disturbed[m] \in Nat /\ executed[m] \in Nat
  BY DEF Inv, Types
<1>3. j \in Rounds /\ <<m, j>> \in Deliveries
  BY <1>1, <1>2, MessageAssumption DEF Rounds, Deliveries
<1>4. pc[<<m, j>>] = "idle"
  <2>1. CallOK(m, j)
    BY <1>3 DEF Inv
  <2> QED BY <1>2, <2>1 DEF CallOK
<1>5. Types'
  BY <1>1, <1>2, <1>3 DEF Types, Labels
<1>6. \A n \in Messages, k \in Rounds :
        pc'[<<n, k>>] = IF n = m /\ k = j THEN "received" ELSE pc[<<n, k>>]
  BY <1>1, <1>2, DeliveryParts DEF Types
<1>7. MessageOK(m)'
  <2>1. open(m)' = open(m) \cup {j} /\ j \notin open(m)
    BY <1>3, <1>4, <1>6 DEF open
  <2>2. Cardinality(open(m)') = Cardinality(open(m)) + 1 /\ Cardinality(open(m)) \in Nat
    BY <2>1, OpenFinite, FS_AddElement
  <2>3. MessageOK(m) /\ deliveries'[m] = j /\ m \in waiting'
    BY <1>1, <1>2 DEF Inv, Types
  <2> QED BY <1>1, <1>2, <2>2, <2>3 DEF MessageOK, isCommand
<1>8. ASSUME NEW n \in Messages, n # m PROVE MessageOK(n)'
  <2>1. open(n)' = open(n) /\ isCommand(n)' = isCommand(n) /\ MessageOK(n)
    BY <1>1, <1>6, <1>8 DEF open, isCommand, Inv
  <2>2. deliveries'[n] = deliveries[n] /\ (n \in waiting' <=> n \in waiting)
    BY <1>1, <1>2, <1>8 DEF Types
  <2> QED BY <1>1, <2>1, <2>2 DEF MessageOK
<1>9. ASSUME NEW n \in Messages, NEW k \in Rounds PROVE CallOK(n, k)'
  <2>1. CallOK(n, k) /\ isCommand(n)' = isCommand(n)
    BY <1>1 DEF isCommand, Inv
  <2>2. /\ deliveries'[n] \in Nat /\ deliveries[n] \in Nat
        /\ deliveries'[n] >= deliveries[n] /\ deliveries'[m] = j
    BY <1>1, <1>2 DEF Types
  <2>3. k \in Int
    BY MessageAssumption DEF Rounds
  <2>4. CASE n = m /\ k = j
    BY <1>6, <2>2, <2>4 DEF CallOK
  <2>5. CASE ~(n = m /\ k = j)
    BY <1>1, <1>6, <2>1, <2>2, <2>3, <2>5 DEF CallOK
  <2> QED BY <2>4, <2>5
<1> QED BY <1>5, <1>7, <1>8, <1>9 DEF Inv

\* A fault of the messages ms, whoever no longer waits because of it.
LEMMA FaultStep ==
  ASSUME Inv, NEW ms, fault(ms),
         waiting' \in SUBSET waiting, waiting \ waiting' \subseteq ms,
         UNCHANGED <<message, openIDs, chatIDs, platform, deliveries, executed>>,
         pc' \in [Deliveries -> Labels],
         \A d \in Deliveries :
           pc'[d] # pc[d] => pc[d] # "idle" /\ pc'[d] = "returned"
  PROVE  Inv'
<1>1. disturbed' = [m \in Messages |-> disturbed[m] + IF m \in ms THEN 1 ELSE 0]
  BY DEF fault
<1>2. Types'
  <2>1. \A m \in Messages : disturbed[m] + (IF m \in ms THEN 1 ELSE 0) \in Nat
    BY DEF Inv, Types
  <2>2. disturbed' \in [Messages -> Nat]
    BY <1>1, <2>1
  <2> QED BY <2>2 DEF Inv, Types
<1>3. ASSUME NEW m \in Messages PROVE MessageOK(m)'
  <2>1. MessageOK(m) /\ isCommand(m)' = isCommand(m)
    BY DEF Inv, isCommand
  <2>2. open(m)' \in SUBSET open(m)
    <3>1. \A k \in Rounds : pc'[<<m, k>>] = pc[<<m, k>>] \/ pc'[<<m, k>>] = "returned"
      BY DeliveryParts
    <3> QED BY <3>1 DEF open
  <2>3. /\ Cardinality(open(m)') <= Cardinality(open(m))
        /\ Cardinality(open(m)) \in Nat /\ Cardinality(open(m)') \in Nat
    BY <2>2, OpenFinite, FS_Subset, FS_CardinalityType
  <2>4. /\ deliveries[m] \in Nat /\ executed[m] \in Nat /\ disturbed[m] \in Nat
        /\ disturbed'[m] = disturbed[m] + IF m \in ms THEN 1 ELSE 0
    BY <1>1 DEF Inv, Types
  <2>5. executed'[m] + Cardinality(open(m)') <= deliveries'[m]
    BY <2>1, <2>3, <2>4 DEF MessageOK
  <2>6. platform'[m] = "pending" /\ m \notin waiting' => deliveries[m] <= disturbed'[m]
    BY <2>1, <2>4 DEF MessageOK
  <2>7. deliveries'[m] <= 1 + disturbed'[m]
    BY <2>1, <2>4 DEF MessageOK
  <2> QED BY <2>1, <2>5, <2>6, <2>7 DEF MessageOK
<1>4. ASSUME NEW m \in Messages, NEW k \in Rounds PROVE CallOK(m, k)'
  <2>1. CallOK(m, k) /\ isCommand(m)' = isCommand(m)
    BY DEF Inv, isCommand
  <2>2. pc'[<<m, k>>] # pc[<<m, k>>] =>
          pc[<<m, k>>] # "idle" /\ pc'[<<m, k>>] = "returned"
    BY DeliveryParts
  <2> QED BY <2>1, <2>2 DEF CallOK
<1> QED BY <1>2, <1>3, <1>4 DEF Inv

\* A step of call k for m that executes nothing and changes nothing else.
LEMMA QuietCallStep ==
  ASSUME Inv, NEW m \in Messages, NEW k \in Rounds, NEW l \in Labels \ {"idle"},
         pc[<<m, k>>] # "idle", pc' = [pc EXCEPT ![<<m, k>>] = l],
         l \in {"received", "executing"} => pc[<<m, k>>] \in {"received", "executing"},
         l = "executing" => isCommand(m),
         l \in {"replying", "returning"} /\ isCommand(m) => executed[m] > 0,
         UNCHANGED <<message, openIDs, chatIDs, platform, waiting, deliveries,
                     executed, disturbed>>
  PROVE  Inv'
<1>1. \A n \in Messages, j \in Rounds :
        pc'[<<n, j>>] = IF n = m /\ j = k THEN l ELSE pc[<<n, j>>]
  BY DeliveryParts DEF Inv, Types
<1>2. Types'
  BY DEF Inv, Types
<1>3. ASSUME NEW n \in Messages PROVE MessageOK(n)'
  <2>1. MessageOK(n) /\ isCommand(n)' = isCommand(n)
    BY DEF Inv, isCommand
  <2>2. open(n)' \in SUBSET open(n)
    BY <1>1 DEF open
  <2>3. /\ Cardinality(open(n)') <= Cardinality(open(n))
        /\ Cardinality(open(n)) \in Nat /\ Cardinality(open(n)') \in Nat
    BY <2>2, OpenFinite, FS_Subset, FS_CardinalityType
  <2>4. deliveries[n] \in Nat /\ executed[n] \in Nat
    BY DEF Inv, Types
  <2>5. executed[n] + Cardinality(open(n)') <= deliveries[n]
    BY <2>1, <2>3, <2>4 DEF MessageOK
  <2> QED BY <2>1, <2>5 DEF MessageOK
<1>4. ASSUME NEW n \in Messages, NEW j \in Rounds PROVE CallOK(n, j)'
  <2>1. CallOK(n, j) /\ isCommand(n)' = isCommand(n)
    BY DEF Inv, isCommand
  <2> QED BY <1>1, <2>1 DEF CallOK
<1> QED BY <1>2, <1>3, <1>4 DEF Inv

LEMMA ExecuteStep ==
  ASSUME Inv, NEW m \in Messages, NEW k \in Rounds, Execute(<<m, k>>)
  PROVE  Inv'
<1>1. /\ pc[<<m, k>>] = "executing"
      /\ pc' = [pc EXCEPT ![<<m, k>>] = "replying"]
      /\ executed' = [executed EXCEPT ![m] = executed[m] + 1]
      /\ UNCHANGED <<message, openIDs, chatIDs, platform, waiting, deliveries,
                     disturbed>>
  BY DEF Execute, goto, given, event
<1>2. \A n \in Messages, j \in Rounds :
        pc'[<<n, j>>] = IF n = m /\ j = k THEN "replying" ELSE pc[<<n, j>>]
  BY <1>1, DeliveryParts DEF Inv, Types
<1>3. \A n \in Messages : /\ executed[n] \in Nat /\ deliveries[n] \in Nat
                          /\ executed'[n] = IF n = m THEN executed[n] + 1 ELSE executed[n]
  BY <1>1 DEF Inv, Types
<1>4. Types'
  <2>1. executed' \in [Messages -> Nat]
    BY <1>1, <1>3 DEF Inv, Types
  <2>2. pc' \in [Deliveries -> Labels]
    BY <1>1 DEF Inv, Types, Labels
  <2> QED BY <1>1, <2>1, <2>2 DEF Inv, Types
<1>5. MessageOK(m)'
  <2>1. MessageOK(m) /\ isCommand(m)' = isCommand(m)
    BY <1>1 DEF Inv, isCommand
  <2>2. open(m)' = open(m) \ {k} /\ k \in open(m)
    BY <1>1, <1>2 DEF open
  <2>3. Cardinality(open(m)') = Cardinality(open(m)) - 1 /\ Cardinality(open(m)) \in Nat
    BY <2>2, OpenFinite, FS_RemoveElement
  <2> QED BY <1>1, <1>3, <2>1, <2>3 DEF MessageOK
<1>6. ASSUME NEW n \in Messages, n # m PROVE MessageOK(n)'
  <2>1. MessageOK(n) /\ isCommand(n)' = isCommand(n) /\ open(n)' = open(n)
    BY <1>1, <1>2, <1>6 DEF Inv, isCommand, open
  <2> QED BY <1>1, <1>3, <1>6, <2>1 DEF MessageOK
<1>7. ASSUME NEW n \in Messages, NEW j \in Rounds PROVE CallOK(n, j)'
  <2>1. CallOK(n, j) /\ isCommand(n)' = isCommand(n)
    BY <1>1 DEF Inv, isCommand
  <2>2. executed[n] > 0 \/ n = m => executed'[n] > 0
    BY <1>3
  <2> QED BY <1>1, <1>2, <2>1, <2>2 DEF CallOK
<1> QED BY <1>4, <1>5, <1>6, <1>7 DEF Inv

LEMMA AcknowledgeStep ==
  ASSUME Inv, NEW m \in Messages, NEW k \in Rounds,
         pc[<<m, k>>] = "returning", pc' = [pc EXCEPT ![<<m, k>>] = "returned"],
         platform' = [platform EXCEPT ![m] = "acknowledged"],
         waiting' \in SUBSET waiting, waiting \ waiting' \subseteq {m},
         UNCHANGED <<message, openIDs, chatIDs, deliveries, executed, disturbed>>
  PROVE  Inv'
<1>1. \A n \in Messages, j \in Rounds :
        pc'[<<n, j>>] = IF n = m /\ j = k THEN "returned" ELSE pc[<<n, j>>]
  BY DeliveryParts DEF Inv, Types
<1>2. \A n \in Messages :
        platform'[n] = IF n = m THEN "acknowledged" ELSE platform[n]
  BY DEF Inv, Types
<1>3. Types'
  BY DEF Inv, Types, Labels
<1>4. \A n \in Messages : isCommand(n)' = isCommand(n) /\ MessageOK(n)
  BY DEF Inv, isCommand
<1>5. \A n \in Messages : open(n)' = open(n)
  BY <1>1 DEF open
<1>6. CallOK(m, k)
  BY DEF Inv
<1>7. ASSUME NEW n \in Messages PROVE MessageOK(n)'
  BY <1>2, <1>4, <1>5, <1>6 DEF MessageOK, CallOK
<1>8. ASSUME NEW n \in Messages, NEW j \in Rounds PROVE CallOK(n, j)'
  <2>1. CallOK(n, j)
    BY DEF Inv
  <2> QED BY <1>1, <1>4, <2>1 DEF CallOK
<1> QED BY <1>3, <1>7, <1>8 DEF Inv

LEMMA CallStep ==
  ASSUME Inv, NEW d \in Deliveries, Call(d)
  PROVE  Inv'
<1>1. PICK m \in Messages, k \in Rounds : d = <<m, k>>
  BY DeliveryParts
<1>2. /\ d[1] = m /\ d[2] = k /\ CallOK(m, k) /\ message[m].content \in Contents
      /\ d \in Deliveries /\ Types
  BY <1>1 DEF Inv, Types
<1>3. CASE Check(d)
  <2>1. /\ pc[d] = "received" /\ pc' = [pc EXCEPT ![d] = checked(m)]
        /\ UNCHANGED <<message, openIDs, chatIDs, platform, waiting, deliveries,
                       executed, disturbed>>
    BY <1>2, <1>3 DEF Check, goto, given, event, history
  <2>2. \/ checked(m) = "executing" /\ isCommand(m)
        \/ checked(m) \in {"replying", "returning"} /\ ~isCommand(m)
    BY <1>2, AllowedCommand DEF checked, Contents
  <2>3. PICK l \in Labels \ {"idle"} : l = checked(m)
    BY <2>2 DEF Labels
  <2>4. /\ pc[<<m, k>>] = "received" /\ pc' = [pc EXCEPT ![<<m, k>>] = l]
        /\ \/ l = "executing" /\ isCommand(m)
           \/ l \in {"replying", "returning"} /\ ~isCommand(m)
    BY <1>1, <2>1, <2>2, <2>3
  <2> QED BY <2>1, <2>4, QuietCallStep
<1>4. CASE Execute(d)
  BY <1>1, <1>4, ExecuteStep
<1>5. CASE Reply(d)
  <2>1. /\ pc[d] = "replying" /\ pc' = [pc EXCEPT ![d] = "returning"]
        /\ UNCHANGED <<message, openIDs, chatIDs, platform, waiting, deliveries,
                       executed, disturbed>>
    BY <1>5 DEF Reply, goto, given, event, history
  <2>2. isCommand(m) => executed[m] > 0
    BY <1>1, <1>2, <2>1 DEF CallOK
  <2>3. PICK l \in Labels \ {"idle"} : l = "returning"
    BY DEF Labels
  <2>4. pc[<<m, k>>] = "replying" /\ pc' = [pc EXCEPT ![<<m, k>>] = l]
    BY <1>1, <2>1, <2>3
  <2>5. l # "executing" /\ l # "received" /\ pc[<<m, k>>] # "idle"
    BY <2>3, <2>4
  <2>6. UNCHANGED <<message, openIDs, chatIDs, platform, waiting, deliveries,
                    executed, disturbed>>
    BY <2>1
  <2> QED BY <2>2, <2>4, <2>5, <2>6, QuietCallStep
<1>6. CASE Return(d)
  <2>1. /\ pc[d] = "returning" /\ pc' = [pc EXCEPT ![d] = "returned"]
        /\ \/ /\ platform' = [platform EXCEPT ![m] = "acknowledged"]
              /\ UNCHANGED disturbed
           \/ fault({m}) /\ UNCHANGED platform
        /\ UNCHANGED <<message, openIDs, chatIDs, deliveries, executed>>
        /\ waiting' \in SUBSET waiting /\ waiting \ waiting' \subseteq {m}
    BY <1>2, <1>6 DEF Return, mayReturn, returnsNil, goto, given
  <2>2. CASE fault({m}) /\ UNCHANGED platform
    <3>1. pc' \in [Deliveries -> Labels]
      BY <1>2, <2>1 DEF Types, Labels
    <3>2. \A e \in Deliveries :
            pc'[e] # pc[e] => pc[e] # "idle" /\ pc'[e] = "returned"
      BY <1>2, <2>1 DEF Types
    <3> QED BY <2>1, <2>2, <3>1, <3>2, FaultStep
  <2>3. CASE /\ platform' = [platform EXCEPT ![m] = "acknowledged"]
             /\ UNCHANGED disturbed
    BY <1>1, <2>1, <2>3, AcknowledgeStep
  <2> QED BY <2>1, <2>2, <2>3
<1> QED BY <1>3, <1>4, <1>5, <1>6 DEF Call

LEMMA InvStep == Inv /\ [Next]_vars => Inv'
<1> SUFFICES ASSUME Inv, [Next]_vars PROVE Inv'
  OBVIOUS
<1>1. ASSUME NEW m \in Messages, Timeout(m) PROVE Inv'
  <2>1. /\ fault({m}) /\ waiting' = waiting \ {m}
        /\ UNCHANGED <<message, openIDs, chatIDs, platform, deliveries, pc, executed>>
    BY <1>1 DEF Timeout, given
  <2>2. pc' \in [Deliveries -> Labels]
    BY <2>1 DEF Inv, Types
  <2> QED BY <2>1, <2>2, FaultStep
<1>2. CASE Crash
  <2>1. /\ fault(waiting) /\ waiting' = {}
        /\ pc' = [d \in Deliveries |-> IF pc[d] = "idle" THEN "idle" ELSE "returned"]
        /\ UNCHANGED <<message, openIDs, chatIDs, platform, deliveries, executed>>
    BY <1>2 DEF Crash, given
  <2>2. /\ pc' \in [Deliveries -> Labels]
        /\ \A d \in Deliveries :
             pc'[d] # pc[d] => pc[d] # "idle" /\ pc'[d] = "returned"
    BY <2>1 DEF Labels
  <2> QED BY <2>1, <2>2, FaultStep
<1>3. CASE UNCHANGED vars
  <2>1. UNCHANGED <<message, openIDs, chatIDs, platform, waiting, deliveries,
                    pc, executed, disturbed>>
    BY <1>3 DEF vars, given, event, history
  <2>2. \A m \in Messages : open(m)' = open(m) /\ isCommand(m)' = isCommand(m)
    BY <2>1 DEF open, isCommand
  <2> QED BY <2>1, <2>2 DEF Inv, Types, MessageOK, CallOK
<1> QED
  BY <1>1, <1>2, <1>3, SendStep, DeliverStep, CallStep DEF Next, Quiet

\* A call of handleMessage that is past the command handler has executed its
\* command, and each delivery executes it at most once.
THEOREM FeishuInvariant == Spec => []Inv
BY InvInit, InvStep, PTL DEF Spec

\* An event is acknowledged only when its command has been executed.
THEOREM AckedWasExecuted == Spec => []AckedIsExecuted
<1>1. Inv => AckedIsExecuted
  BY DEF Inv, MessageOK, AckedIsExecuted
<1> QED BY <1>1, FeishuInvariant, PTL

\* A command is executed once, and once more per fault that its message met
\* with at most.
THEOREM RepeatsAreFaults == Spec => []RepeatsOnlyByFault
<1>1. Inv => RepeatsOnlyByFault
  <2> SUFFICES ASSUME Inv, NEW m \in Messages
               PROVE  executed[m] <= 1 + disturbed[m]
    BY DEF RepeatsOnlyByFault
  <2>1. /\ executed[m] \in Nat /\ deliveries[m] \in Nat /\ disturbed[m] \in Nat
        /\ Cardinality(open(m)) \in Nat
    BY OpenFinite DEF Inv, Types
  <2> QED BY <2>1 DEF Inv, MessageOK
<1> QED BY <1>1, FeishuInvariant, PTL
=============================================================================
