----------------------------- MODULE MCFeishuBot -----------------------------
(* Values for the constants of FeishuBot that a .cfg cannot write.          *)
EXTENDS FeishuBot, TLC

CONSTANTS m1, m2, ann, bob, group, chat

msg(s, c, x) == [sender |-> s, chat |-> c, content |-> x]

\* A command from a group, next to one from a chat or a message that is none.
MCInboxes ==
    {m1 :> msg(ann, group, "command") @@ m2 :> x :
       x \in {msg(bob, chat, "command"), msg(bob, chat, "malformed"),
              msg(bob, chat, "other")}}
MCAllowedOpenIDs == {{}, {ann}}
MCAllowedChatIDs == {{}, {chat}}
==============================================================================
