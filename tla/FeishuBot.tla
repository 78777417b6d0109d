------------------------------ MODULE FeishuBot ------------------------------
(***************************************************************************)
(* The Feishu bot (src/internal/feishu/bot.go) between the platform and    *)
(* the command handler.  The SDK calls handleMessage in a goroutine for    *)
(* every event that the platform delivers over its long connection, and    *)
(* acknowledges the event when the call returns nil.  An event that is not *)
(* acknowledged in time is delivered again; the bot keeps no record of the *)
(* messages it has seen.  Platform and SDK are external.                   *)
(*                                                                         *)
(* What a text says and does is the matter of Commands and Wake: here it   *)
(* is executed.                                                            *)
(***************************************************************************)
EXTENDS Naturals, FiniteSets

CONSTANTS Messages,       \* the messages of one run
          Inboxes,        \* per message, its sender, chat and content
          AllowedOpenIDs, AllowedChatIDs,   \* the allowlists it may run with
          MaxFaults       \* bound: timeouts, lost answers and crashes

Contents == {"command",    \* a text message with well-formed content
             "malformed",  \* one whose content is no JSON
             "other"}      \* a picture, a file, or an event without a message

ASSUME MessageAssumption ==
    /\ \A inbox \in Inboxes : \A m \in Messages : inbox[m].content \in Contents
    /\ MaxFaults \in Nat

\* A fault per delivery, and one delivery without.
Deliveries == Messages \X (1..(MaxFaults + 1))

VARIABLES
  message,    \* the messages that users send
  openIDs, chatIDs, \* cfg.Security
  platform,   \* per message: unsent, pending or acknowledged
  waiting,    \* the messages whose last delivery the platform still waits for
  deliveries, \* per message, how often it has been delivered
  pc,         \* per delivery, where its call of handleMessage is
  reply,      \* and its answer: none, sent or failed
  \* history, which no step of the program reads
  executed,   \* per message, how often its command was executed
  disturbed,  \* and how many faults it met with
  faults      \* all faults

given == <<message, openIDs, chatIDs>>
event == <<platform, waiting, deliveries>>
history == <<executed, disturbed, faults>>
vars == <<given, event, pc, reply, history>>

Init ==
    /\ message \in Inboxes
    /\ openIDs \in AllowedOpenIDs
    /\ chatIDs \in AllowedChatIDs
    /\ platform = [m \in Messages |-> "unsent"]
    /\ waiting = {}
    /\ deliveries = [m \in Messages |-> 0]
    /\ pc = [d \in Deliveries |-> "idle"]
    /\ reply = [d \in Deliveries |-> "none"]
    /\ executed = [m \in Messages |-> 0]
    /\ disturbed = [m \in Messages |-> 0]
    /\ faults = 0

goto(d, label) == pc' = [pc EXCEPT ![d] = label]

----------------------------------------------------------------------------
\* The platform.

Send(m) ==
    /\ platform[m] = "unsent"
    /\ platform' = [platform EXCEPT ![m] = "pending"]
    /\ UNCHANGED <<given, waiting, deliveries, pc, reply, history>>

\* The event is sent to the bot, for the first time or again.
Deliver(m) ==
    /\ platform[m] = "pending" /\ m \notin waiting
    /\ deliveries[m] <= MaxFaults
    /\ deliveries' = [deliveries EXCEPT ![m] = @ + 1]
    /\ waiting' = waiting \cup {m}
    /\ goto(<<m, deliveries[m] + 1>>, "received")
    /\ UNCHANGED <<given, platform, reply, history>>

fault(ms) ==
    /\ faults < MaxFaults
    /\ faults' = faults + 1
    /\ disturbed' = [m \in Messages |-> disturbed[m] + IF m \in ms THEN 1 ELSE 0]

\* The platform gives up waiting; the call goes on.
Timeout(m) ==
    /\ m \in waiting
    /\ fault({m})
    /\ waiting' = waiting \ {m}
    /\ UNCHANGED <<given, platform, deliveries, pc, reply, executed>>

----------------------------------------------------------------------------
\* handleMessage.

\* Defect: with both lists, sender and chat must be allowed.
isAllowed_Both(m) ==
    /\ openIDs = {} \/ message[m].sender \in openIDs
    /\ chatIDs = {} \/ message[m].chat \in chatIDs

isAllowed(m) ==
    \/ openIDs = {} /\ chatIDs = {}
    \/ message[m].sender \in openIDs
    \/ message[m].chat \in chatIDs

\* The checks: the kind of message, the allowlists, then the content.
checked(m) == CASE message[m].content = "other" -> "returning"
                [] message[m].content # "other" /\ ~isAllowed(m) -> "replying"
                [] message[m].content = "malformed" /\ isAllowed(m) -> "returning"
                [] message[m].content = "command" /\ isAllowed(m) -> "executing"

Check(d) ==
    /\ pc[d] = "received"
    /\ goto(d, checked(d[1]))
    /\ UNCHANGED <<given, event, reply, history>>

\* The command handler runs the command.
Execute(d) ==
    /\ pc[d] = "executing"
    /\ executed' = [executed EXCEPT ![d[1]] = @ + 1]
    /\ goto(d, "replying")
    /\ UNCHANGED <<given, event, reply, disturbed, faults>>

\* The answer to the user, or the denial, may fail; that is only logged.
Reply(d) ==
    /\ pc[d] = "replying"
    /\ \E r \in {"sent", "failed"} : reply' = [reply EXCEPT ![d] = r]
    /\ goto(d, "returning")
    /\ UNCHANGED <<given, event, history>>

\* Defect: returns as soon as the checks are over.
mayReturn_AtOnce(d) == pc[d] \in {"executing", "replying", "returning"}

mayReturn(d) == pc[d] = "returning"

\* Defect: an answer that cannot be sent is returned as an error.
returnsNil_IfReplied(d) == reply[d] # "failed"

returnsNil(d) == TRUE

\* The call returns, and the SDK acknowledges the event, unless the
\* acknowledgement is lost; one that comes after the timeout counts as well.
Return(d) ==
    /\ mayReturn(d)
    /\ goto(d, "returned")
    /\ \/ /\ returnsNil(d)
          /\ platform' = [platform EXCEPT ![d[1]] = "acknowledged"]
          /\ UNCHANGED <<disturbed, faults>>
       \/ ~returnsNil(d) /\ UNCHANGED <<platform, disturbed, faults>>
       \/ fault({d[1]}) /\ UNCHANGED platform
    /\ waiting' = IF d[2] = deliveries[d[1]] THEN waiting \ {d[1]} ELSE waiting
    /\ UNCHANGED <<given, deliveries, reply, executed>>

\* The process dies with its calls and its connection, and is started again.
Crash ==
    /\ fault(waiting)
    /\ waiting' = {}
    /\ pc' = [d \in Deliveries |-> IF pc[d] = "idle" THEN "idle" ELSE "returned"]
    /\ UNCHANGED <<given, platform, deliveries, reply, executed>>

----------------------------------------------------------------------------
Call(d) == Check(d) \/ Execute(d) \/ Reply(d) \/ Return(d)

\* Every message is dealt with.
Quiet ==
    /\ \A m \in Messages : platform[m] = "acknowledged"
    /\ \A d \in Deliveries : pc[d] \in {"idle", "returned"}
    /\ UNCHANGED vars

Next ==
    \/ \E m \in Messages : Send(m) \/ Deliver(m) \/ Timeout(m)
    \/ \E d \in Deliveries : Call(d)
    \/ Crash
    \/ Quiet

Spec == Init /\ [][Next]_vars

\* The platform delivers what is pending, and goroutines run on; messages need
\* not be sent, and no fault has to happen.
FairSpec ==
    /\ Spec
    /\ \A m \in Messages : WF_vars(Deliver(m))
    /\ \A d \in Deliveries : WF_vars(Call(d))

----------------------------------------------------------------------------
isCommand(m) == message[m].content = "command" /\ (openIDs \cup chatIDs = {}
                   \/ message[m].sender \in openIDs \/ message[m].chat \in chatIDs)

\* An event is acknowledged only when its command has been executed: what the
\* platform does not deliver again has never been lost by a crash or a timeout
\* (handleMessage returns after Handle).
AckedIsExecuted ==
    \A m \in Messages :
        platform[m] = "acknowledged" /\ isCommand(m) => executed[m] > 0

\* A command is executed once, and once more per timeout, lost acknowledgement
\* or crash that its message met with at most: a reply that fails does not make
\* it run again, although the bot remembers no message (handleMessage returns nil whatever reply did).
RepeatsOnlyByFault ==
    \A m \in Messages :
        executed[m] <= 1 + disturbed[m]

\* Every permitted command is executed and acknowledged at last, however often
\* it is delivered, and every other message is acknowledged without.
MessageIsHandled ==
    \A m \in Messages : (platform[m] = "pending") ~>
        platform[m] = "acknowledged" /\ (executed[m] > 0 <=> isCommand(m))
=============================================================================
