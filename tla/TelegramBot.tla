----------------------------- MODULE TelegramBot -----------------------------
(***************************************************************************)
(* The Telegram entry: Run, handleUpdate and getUpdates of                 *)
(* src/internal/telegram/bot.go, against the Bot API it polls.             *)
(*                                                                         *)
(* The API is external and modelled from how the bot uses it: it keeps     *)
(* updates with rising ids; getUpdates with an offset deletes the ones     *)
(* below it and returns the first Limit of the rest; an answer may be lost *)
(* on its way.  The bot keeps its offset in memory and confirms an update  *)
(* by asking for the next ones.  What a command does is the matter of      *)
(* module Wake; that a reply to the chat fails has no effect.              *)
(***************************************************************************)
EXTENDS Naturals, Sequences, FiniteSets, SequencesExt, FiniteSetsExt, Subsequence

CONSTANTS Limit,        \* how many updates one answer carries (100 in the API)
          NoReply,      \* no answer in flight
          MaxUpdates,   \* bound: updates in one run
          MaxRestarts   \* bound: how often the process dies

ASSUME BotAssumption ==
    /\ Limit \in Nat \ {0}
    /\ MaxUpdates \in Nat /\ MaxRestarts \in Nat
    /\ NoReply \notin Seq(1..MaxUpdates)

\* A text from an allowed sender, a text from another one, or no text.
Kinds == {"command", "denied", "other"}

VARIABLES
  \* the Bot API
  kind,      \* the updates there have been: the i-th has id i and this kind
  stored,    \* the ids it still keeps
  reply,     \* the answer in flight, or NoReply
  \* the bot
  dropPending, \* cfg.Telegram.DropPending: the user sets it, no step changes it
  pc,        \* starting, dropping, idle, polling or handling
  offset,    \* the id it asks for next, 0 for none
  batch,     \* the updates it has still to handle
  \* history, which no step of the program reads
  life,      \* how often the process has died
  handled,   \* the commands handed to the handler: [id, life]
  dropped    \* the updates skipped at a start: [id, life]

apiVars == <<kind, stored, reply>>
botVars == <<dropPending, pc, offset, batch>>
histVars == <<life, handled, dropped>>
vars == <<apiVars, botVars, histVars>>

\* Updates may wait before the bot first starts.
Init ==
    /\ kind \in BoundedSeq(Kinds, MaxUpdates)
    /\ stored = DOMAIN kind
    /\ reply = NoReply
    /\ dropPending \in BOOLEAN
    /\ pc = "starting" /\ offset = 0 /\ batch = <<>>
    /\ life = 0 /\ handled = <<>> /\ dropped = {}

----------------------------------------------------------------------------
\* The Bot API.

\* The first Limit ids of a set, in order.
firstOf(ids) ==
    LET size == Cardinality(ids)
    IN  [n \in 1..(IF size <= Limit THEN size ELSE Limit) |-> nth(ids, n)]

Arrive(k) ==
    /\ Len(kind) < MaxUpdates
    /\ kind' = Append(kind, k)
    /\ stored' = stored \cup {Len(kind) + 1}
    /\ UNCHANGED <<reply, botVars, histVars>>

\* getUpdates.  A long poll is answered when there is an update or, in the end,
\* with none; the one that drops updates has a timeout of zero.
Serve ==
    /\ pc \in {"dropping", "polling"} /\ reply = NoReply
    /\ stored' = {i \in stored : i >= offset}
    /\ reply' = firstOf(stored')
    /\ UNCHANGED <<kind, botVars, histVars>>

----------------------------------------------------------------------------
\* The bot.

\* Run before its loop: with dropPending one getUpdates without an offset.
Start ==
    /\ pc = "starting"
    /\ pc' = IF dropPending THEN "dropping" ELSE "idle"
    /\ UNCHANGED <<apiVars, dropPending, offset, batch, histVars>>

\* Defect: asks again for the last update it has dropped.
afterDropped_Inclusive(ids) == IF ids = <<>> THEN 0 ELSE Last(ids)

\* The offset goes beyond every update skipped.
afterDropped(ids) == IF ids = <<>> THEN 0 ELSE Max(ToSet(ids)) + 1

ReceiveDropped ==
    /\ pc = "dropping" /\ reply # NoReply
    /\ offset' = afterDropped(reply)
    /\ dropped' = dropped \cup {[id |-> i, life |-> life] : i \in ToSet(reply)}
    /\ pc' = "idle"
    /\ reply' = NoReply
    /\ UNCHANGED <<kind, stored, dropPending, batch, life, handled>>

\* The call fails; that is logged, and the loop begins without an offset.
FailDrop ==
    /\ pc = "dropping"
    /\ pc' = "idle"
    /\ reply' = NoReply
    /\ UNCHANGED <<kind, stored, dropPending, offset, batch, histVars>>

Poll ==
    /\ pc = "idle"
    /\ pc' = "polling"
    /\ UNCHANGED <<apiVars, dropPending, offset, batch, histVars>>

\* Defect: confirms the whole answer before it is handled.
ReceiveUpdates_Confirms ==
    /\ pc = "polling" /\ reply # NoReply
    /\ batch' = reply
    /\ pc' = IF reply = <<>> THEN "idle" ELSE "handling"
    /\ stored' = stored \ ToSet(reply)
    /\ reply' = NoReply
    /\ UNCHANGED <<kind, dropPending, offset, histVars>>

ReceiveUpdates ==
    /\ pc = "polling" /\ reply # NoReply
    /\ batch' = reply
    /\ pc' = IF reply = <<>> THEN "idle" ELSE "handling"
    /\ reply' = NoReply
    /\ UNCHANGED <<kind, stored, dropPending, offset, histVars>>

\* The call fails; the bot sleeps and tries again with the same offset.
FailPoll ==
    /\ pc = "polling"
    /\ pc' = "idle"
    /\ reply' = NoReply
    /\ UNCHANGED <<kind, stored, dropPending, offset, batch, histVars>>

\* Defect: the offset stays at the update that was handled.
nextOffset_Same(o, id) == IF id >= o THEN id ELSE o

\* Defect: the offset jumps over an update.
nextOffset_Skips(o, id) == IF id >= o THEN id + 2 ELSE o

\* The offset goes beyond the update.
nextOffset(o, id) == IF id >= o THEN id + 1 ELSE o

\* One round of the loop over an answer: the offset first, then handleUpdate,
\* which hands the text of an allowed sender to the command handler.
HandleUpdate ==
    /\ pc = "handling"
    /\ offset' = nextOffset(offset, Head(batch))
    /\ handled' = IF kind[Head(batch)] = "command"
                    THEN Append(handled, [id |-> Head(batch), life |-> life])
                    ELSE handled
    /\ batch' = Tail(batch)
    /\ pc' = IF Len(batch) = 1 THEN "idle" ELSE "handling"
    /\ UNCHANGED <<apiVars, dropPending, life, dropped>>

\* The process dies, also in the middle of an answer, and is started again.
Restart ==
    /\ life < MaxRestarts
    /\ life' = life + 1
    /\ pc' = "starting" /\ offset' = 0 /\ batch' = <<>>
    /\ reply' = NoReply
    /\ UNCHANGED <<kind, stored, dropPending, handled, dropped>>

----------------------------------------------------------------------------
Next ==
    \/ \E k \in Kinds : Arrive(k)
    \/ Serve
    \/ Start
    \/ ReceiveDropped
    \/ FailDrop
    \/ Poll
    \/ ReceiveUpdates
    \/ FailPoll
    \/ HandleUpdate
    \/ Restart

Spec == Init /\ [][Next]_vars

\* The loop goes on, and a poll that is repeated for ever is answered at last.
FairSpec ==
    /\ Spec
    /\ WF_vars(Start) /\ WF_vars(Poll) /\ WF_vars(HandleUpdate)
    /\ SF_vars(Serve) /\ SF_vars(ReceiveUpdates)
    /\ WF_vars(ReceiveDropped \/ FailDrop)

----------------------------------------------------------------------------
\* Every variable keeps its type.
TypeOK ==
    /\ kind \in Seq(Kinds) /\ Len(kind) <= MaxUpdates
    /\ stored \subseteq DOMAIN kind
    /\ reply # NoReply => ToSet(reply) \subseteq stored
    /\ dropPending \in BOOLEAN
    /\ pc \in {"starting", "dropping", "idle", "polling", "handling"}
    /\ offset \in 0..(MaxUpdates + 1)
    /\ ToSet(batch) \subseteq stored /\ (pc = "handling" <=> batch # <<>>)
    /\ life \in 0..MaxRestarts
    /\ \A n \in DOMAIN handled : /\ handled[n].id \in DOMAIN kind
                                 /\ handled[n].life \in 0..life
    /\ {d.id : d \in dropped} \subseteq DOMAIN kind

\* Between two restarts no command is handled twice, and they are handled in
\* the order in which they were sent, whatever answers are lost.
HandledOncePerLife ==
    \A m, n \in DOMAIN handled :
        m < n /\ handled[m].life = handled[n].life => handled[m].id < handled[n].id

handledIDs == {handled[n].id : n \in DOMAIN handled}

droppedIDs == {d.id : d \in dropped}

\* Nothing is lost in silence: a command that the API has deleted was handled
\* or skipped at a start, wherever the process died (the bot confirms an
\* answer only by the poll after it).
DeletedWasHandled ==
    \A i \in DOMAIN kind \ stored :
        kind[i] = "command" => i \in handledIDs \cup droppedIDs

\* What a life of the bot has skipped at its start it does not handle, nor
\* anything sent before that: also when more updates waited than one answer
\* carries, so that a part of them is skipped and the rest is handled.
DroppedIsNotHandled ==
    \A d \in dropped : \A n \in DOMAIN handled :
        handled[n].life = d.life => d.id < handled[n].id

\* Every command is handled, or skipped at a start.
CommandIsHandled ==
    \A i \in 1..MaxUpdates :
        (i \in DOMAIN kind /\ kind[i] = "command")
        ~> (i \in handledIDs \cup droppedIDs)
=============================================================================
