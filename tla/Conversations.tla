---------------------------- MODULE Conversations ----------------------------
(***************************************************************************)
(* The conversation tables as one function, and each statement or          *)
(* transaction of stores/conversation_store.py as an operator on it.       *)
(*                                                                         *)
(* A store maps the ids of existing conversations to their title, their    *)
(* group and their messages in (created_at, message_id) order.  Postgres'  *)
(* now() is taken to advance between two transactions.                     *)
(***************************************************************************)
EXTENDS Naturals, Sequences

CONSTANTS
  ConversationIds,
  Titles,
  DefaultTitle,  \* DEFAULT_TITLE
  Groups,
  NoGroup        \* the NULL of group_id

ASSUME ConversationsAssumption ==
  /\ DefaultTitle \in Titles
  /\ NoGroup \notin Groups

Exists(store, id) == id \in DOMAIN store

CreateConversation(store, id) ==
  [c \in DOMAIN store \cup {id} |->
     IF c = id THEN [title |-> DefaultTitle, group |-> NoGroup, messages |-> <<>>]
               ELSE store[c]]

\* Messages and their sources go with the row (ON DELETE CASCADE).
DeleteConversation(store, id) == [c \in DOMAIN store \ {id} |-> store[c]]

\* One transaction: the message with its sources.  The foreign key refuses
\* a conversation that is gone, hence the guard at the call.
AppendMessage(store, id, message) ==
  [store EXCEPT ![id].messages = Append(@, message)]

\* The newest `limit` messages, oldest first.
RecentTurns(store, id, limit) ==
  LET messages == store[id].messages
      first == IF Len(messages) > limit THEN Len(messages) - limit + 1 ELSE 1
  IN  IF limit = 0 THEN <<>> ELSE SubSeq(messages, first, Len(messages))

SetTitle(store, id, title) ==
  IF Exists(store, id) THEN [store EXCEPT ![id].title = title] ELSE store

SetGroup(store, id, group) ==
  IF Exists(store, id) THEN [store EXCEPT ![id].group = group] ELSE store

\* The conversations of a group outlive it (ON DELETE SET NULL).
DeleteGroup(store, group) ==
  [c \in DOMAIN store |-> IF store[c].group = group
     THEN [store[c] EXCEPT !.group = NoGroup] ELSE store[c]]
==============================================================================
