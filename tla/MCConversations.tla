-------------------------- MODULE MCConversations --------------------------
(* Instances of the conversations for TLC.                                 *)
EXTENDS Conversations

CONSTANT hello

\* A short message, and 34 characters of three bytes each.
Short == [len |-> 5, starts |-> 0 .. 4]
Wide == [len |-> 102, starts |-> {3 * i : i \in 0 .. 33}]
Both == {Short, Wide}
=============================================================================
