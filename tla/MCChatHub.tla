----------------------------- MODULE MCChatHub -----------------------------
(* Two chats and two calls in flight for TLC.                              *)
EXTENDS ChatHub

CONSTANTS a, b, t1, t2
MCChats  == {a, b}
MCTasks  == {t1, t2}
=============================================================================
