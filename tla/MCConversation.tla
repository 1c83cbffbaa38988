--------------------------- MODULE MCConversation ---------------------------
(* A finite instance of Conversation: a reading and a mutating tool on one *)
(* record, source chains with and without the mutating one.                *)
EXTENDS Conversation

CONSTANTS get, pay, rec, none

MCTools == {get, pay}
MCMutating == {pay}
MCChains == {{get}, {get, pay}}
MCArgs == {rec}
MCAffects == { p \in Call \X Call : p[1].tool = pay }
=============================================================================
