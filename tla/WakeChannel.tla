---------------------------- MODULE WakeChannel ----------------------------
(***************************************************************************)
(* What the relay as a whole promises, without servers, ids or messages:   *)
(* a list of the wakes that were asked for, and for each client a cursor   *)
(* into it.  A client may execute any wake beyond its cursor, which moves  *)
(* the cursor there: a wake is never invented, never executed twice and    *)
(* never executed out of order, but the ones jumped over are given up,     *)
(* because the server keeps one command.  A client that restarts forgets   *)
(* its cursor.                                                             *)
(***************************************************************************)
EXTENDS Naturals, Sequences

CONSTANTS Clients, Targets

VARIABLES asked,   \* the targets asked for, in order
          cursor,  \* per client, the position of the last wake it executed
          woken    \* per client, the targets it has woken, in order

chanVars == <<asked, cursor, woken>>

Init ==
    /\ asked = <<>>
    /\ cursor = [c \in Clients |-> 0]
    /\ woken = [c \in Clients |-> <<>>]

Ask(t) ==
    /\ asked' = Append(asked, t)
    /\ UNCHANGED <<cursor, woken>>

Execute(c) ==
    \E s \in DOMAIN asked :
        /\ s > cursor[c]
        /\ cursor' = [cursor EXCEPT ![c] = s]
        /\ woken' = [woken EXCEPT ![c] = Append(@, asked[s])]
        /\ UNCHANGED asked

Forget(c) ==
    /\ cursor' = [cursor EXCEPT ![c] = 0]
    /\ UNCHANGED <<asked, woken>>

Next ==
    \/ \E t \in Targets : Ask(t)
    \/ \E c \in Clients : Execute(c) \/ Forget(c)

Spec == Init /\ [][Next]_chanVars
=============================================================================
