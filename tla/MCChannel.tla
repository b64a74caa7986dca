----------------------------- MODULE MCChannel -----------------------------
EXTENDS Channel

\* Two group messages, two messages in the thread on the first, the second a
\* slash command, and a message of a group that is not allowed.
Group == [type |-> "message", chat_type |-> "group", chat |-> "team", thread |-> None,
          sender |-> "user", root |-> None, msg_type |-> "text", text |-> "words"]
Thread == [Group EXCEPT !.thread = "t1", !.root = "m1"]
MCEvent == [m \in Msgs |->
  CASE m \in {"m1", "m5"} -> Group
    [] m = "m2" -> Thread
    [] m = "m3" -> [Thread EXCEPT !.text = "slash"]
    [] m = "m4" -> [Group EXCEPT !.chat = "other"]]
============================================================================
