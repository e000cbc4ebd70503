------------------------------ MODULE Messages ------------------------------
(***************************************************************************)
(* Conversations: who has a message waiting, and who has read it.          *)
(* Source: app/modules/communication/service.py, threads and messages.     *)
(* Delivery by mail and push, and what a message says, are left out.       *)
(***************************************************************************)
EXTENDS Requests, Sequences

CONSTANTS Members, Threads    \* accounts, and bound: ids of conversations

VARIABLES thread,      \* message_threads: a partial function
          messages     \* messages of each thread, in order: their read_by

conversations == <<thread, messages>>

-----------------------------------------------------------------------------
Talk(t)   == <<"thread", t>>
Pair(all) == <<"pair", all>>

\* Who has read the newest message.
Newest(t) == messages[t][Len(messages[t])]

\* The plain conversations of two people, those without a subject.
Direct(all) == {t \in DOMAIN thread : thread[t].members = all /\ thread[t].plain}

-----------------------------------------------------------------------------
(* start_thread, which opens a conversation or finds the plain one the two *)
(* have, and goes on to send_message if something is said.                 *)

BeginThread(h, p, others, plain, says, t) ==
    /\ others # {} /\ p \notin others
    /\ LET all   == others \cup {p}
           known == IF plain /\ Cardinality(all) = 2 THEN Direct(all) ELSE {}
       IN /\ IF known = {} THEN t \notin DOMAIN thread /\ New(h, Talk(t))
             ELSE t \in known /\ says
          /\ Begin(h, "talk", IF known = {} THEN "open thread" ELSE "insert message",
                   [claims |-> {Talk(t), Pair(all)}, thread |-> t, by |-> p,
                    all |-> all, plain |-> plain, says |-> says])
    /\ UNCHANGED conversations

OpenThread(h) ==
    /\ pc[h] = "open thread"
    /\ thread' = With(thread, req[h].thread,
         [members |-> req[h].all, plain |-> req[h].plain, unread |-> {},
          archived |-> FALSE])
    /\ IF req[h].says THEN Goto(h, "insert message") ELSE Finish(h)
    /\ UNCHANGED messages

-----------------------------------------------------------------------------
(* send_message: the message, then the thread.                             *)

BeginSend(h, p, t) ==
    /\ t \in DOMAIN thread /\ p \in thread[t].members
    /\ Begin(h, "talk", "insert message",
             [claims |-> {Talk(t)}, thread |-> t, by |-> p,
              all |-> thread[t].members])
    /\ UNCHANGED conversations

InsertMessage(h) ==
    /\ pc[h] = "insert message"
    /\ LET t == req[h].thread IN
       messages' = [messages EXCEPT ![t] = Append(messages[t], {req[h].by})]
    /\ Goto(h, "unread")
    /\ UNCHANGED thread

\* The sender has read what came before; everyone else has this to read.
UnreadOnce(unread, all, p) == IF unread = {} THEN all \ {p} ELSE unread
Unread(unread, all, p)     == all \ {p}

MarkUnread(h) ==
    /\ pc[h] = "unread"
    /\ LET t == req[h].thread IN
       thread' = [thread EXCEPT ![t].unread =
                    Unread(thread[t].unread, req[h].all, req[h].by)]
    /\ Finish(h)
    /\ UNCHANGED messages

-----------------------------------------------------------------------------
(* mark_read, a route and the end of get_thread; archive_thread.           *)

BeginRead(h, p, t) ==
    /\ t \in DOMAIN thread /\ p \in thread[t].members
    /\ Begin(h, "read", "pull", [claims |-> {Talk(t)}, thread |-> t, by |-> p])
    /\ UNCHANGED conversations

PullUnread(h) ==
    /\ pc[h] = "pull"
    /\ LET t == req[h].thread IN
       thread' = [thread EXCEPT ![t].unread = thread[t].unread \ {req[h].by}]
    /\ Goto(h, "read by")
    /\ UNCHANGED messages

AddReader(h) ==
    /\ pc[h] = "read by"
    /\ LET t == req[h].thread IN
       messages' = [messages EXCEPT ![t] =
         [i \in 1 .. Len(messages[t]) |-> messages[t][i] \cup {req[h].by}]]
    /\ Finish(h)
    /\ UNCHANGED thread

Archive(h, t) ==
    /\ t \in DOMAIN thread
    /\ Once(h, "read", {Talk(t)})
    /\ thread' = [thread EXCEPT ![t].archived = TRUE]
    /\ UNCHANGED messages

-----------------------------------------------------------------------------
MessagesInit == /\ thread = [t \in {} |-> {}]
                /\ messages = [t \in Threads |-> <<>>]

MessagesArrive(h) ==
    Open(h) /\
      \E t \in Threads :
        \/ \E p \in Members :
             \/ \E others \in SUBSET Members, plain, says \in BOOLEAN :
                  BeginThread(h, p, others, plain, says, t)
             \/ BeginSend(h, p, t) \/ BeginRead(h, p, t)
        \/ Archive(h, t)

MessagesResume(h) == \/ OpenThread(h) \/ InsertMessage(h) \/ MarkUnread(h)
                     \/ PullUnread(h) \/ AddReader(h)

MessagesStep(h) == MessagesArrive(h) \/ MessagesResume(h)

-----------------------------------------------------------------------------
(* What the module promises.                                               *)

\* The badge tells the truth: a conversation waits for exactly the members
\* who have not read its newest message, however they answered and read; and
\* two people have one plain conversation.  All unless two requests about the
\* conversation met, or one failed.
UnreadIsUnseen ==
    \A t \in DOMAIN thread :
        /\ Calm(Talk(t)) /\ messages[t] # <<>> =>
             thread[t].unread = thread[t].members \ Newest(t)
        /\ thread[t].plain /\ Cardinality(thread[t].members) = 2
             /\ Calm(Pair(thread[t].members)) =>
                  Direct(thread[t].members) = {t}
=============================================================================
