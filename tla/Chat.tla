-------------------------------- MODULE Chat --------------------------------
(***************************************************************************)
(* The chat room of one finished auction: chat.service.ts and the chat     *)
(* repository.  The seller and the winner may send; a client that got no   *)
(* answer sends again under the same clientMessageId.                      *)
(*                                                                         *)
(* A message gets its _id and its createdAt in the server that handles the *)
(* call, before it is inserted: messages do not become visible in the      *)
(* order of either.  The events nobody waits for, reactions and read marks *)
(* are left out.                                                           *)
(***************************************************************************)
EXTENDS Integers, FiniteSets, FiniteSetsExt

CONSTANTS
    ClientMessages,  \* the clientMessageIds
    SenderOf,        \* who sends each of them: "seller" or "winner"
    LastMessageId,   \* bounds how many calls of sendMessage are made
    LastMinute,      \* bounds the clock
    EditMinutes,     \* 15
    PageLimit        \* at most 50

Room == {"seller", "winner"}

ASSUME ChatAssumption ==
    /\ SenderOf \in [ClientMessages -> Room]
    /\ LastMessageId \in Nat
    /\ LastMinute \in Nat
    /\ EditMinutes \in Nat
    /\ PageLimit \in Nat \ {0}

VARIABLES
    minute,      \* the clock createdAt is read from
    sending,     \* the messages about to be inserted
    chat,        \* the messages in the collection
    paging       \* a client that reads the room page by page

chatVars == <<minute, sending, chat, paging>>

MessageIds == 1 .. LastMessageId
NotPaging == [on |-> FALSE, more |-> FALSE, cursor |-> <<>>, seen |-> {}, wanted |-> {}]

ChatInit ==
    /\ minute = 0
    /\ sending = {}
    /\ chat = {}
    /\ paging = NotPaging

ClockTicks ==
    /\ minute < LastMinute
    /\ minute' = minute + 1
    /\ UNCHANGED <<sending, chat, paging>>

-----------------------------------------------------------------------------
\* sendMessage up to the insert.
UsedIds == {m.id : m \in sending \cup chat}

Send(c) ==
    \E id \in MessageIds \ UsedIds :
        /\ \A i \in MessageIds : i < id => i \in UsedIds
        /\ sending' = sending \cup
                {[id |-> id, client |-> c, createdAt |-> minute, deleted |-> FALSE]}
        /\ UNCHANGED <<minute, chat, paging>>

\* The unique index on auction, sender and clientMessageId.
DuplicateMessage(m) ==
    \E n \in chat : n.client = m.client /\ SenderOf[n.client] = SenderOf[m.client]

Insert(m) ==
    /\ m \in sending
    /\ ~DuplicateMessage(m)
    /\ chat' = chat \cup {m}
    /\ sending' = sending \ {m}
    /\ UNCHANGED <<minute, paging>>

\* The duplicate is answered with the message that is there.  Its _id is never
\* used again; the model gives it to a later call.
ReturnExisting(m) ==
    /\ m \in sending
    /\ DuplicateMessage(m)
    /\ sending' = sending \ {m}
    /\ UNCHANGED <<minute, chat, paging>>

\* The server dies before the insert.
LoseSend(m) ==
    /\ m \in sending
    /\ sending' = sending \ {m}
    /\ UNCHANGED <<minute, chat, paging>>

\* deleteMessage by its sender: a flag, set while the message is young.
Delete(m) ==
    /\ m \in chat
    /\ ~m.deleted
    /\ m.createdAt >= minute - EditMinutes
    /\ chat' = (chat \ {m}) \cup {[m EXCEPT !.deleted = TRUE]}
    /\ UNCHANGED <<minute, sending, paging>>

-----------------------------------------------------------------------------
\* findByAuctionIdWithCursor: newest first, ties in the order of the _ids.
Newer(m, n) == m.createdAt > n[1] \/ (m.createdAt = n[1] /\ m.id > n[2])
Place(m) == <<m.createdAt, m.id>>

ByTimeOnly(cursor) ==
    {m \in chat : cursor # <<>> => m.createdAt < cursor[1]}

OlderThan(cursor) ==
    {m \in chat :
        cursor # <<>> =>
            \/ m.createdAt < cursor[1]
            \/ m.createdAt = cursor[1] /\ m.id < cursor[2]}

\* The newest messages of a set, as many as a page holds.
FirstPage(M) ==
    {m \in M : Cardinality({n \in M : Newer(n, Place(m))}) < PageLimit}

Last(M) == CHOOSE m \in M : \A n \in M : n = m \/ Newer(n, Place(m))

OpenRoom ==
    /\ ~paging.on
    /\ chat # {}
    /\ paging' = [NotPaging EXCEPT !.on = TRUE, !.more = TRUE,
                                   !.wanted = {m.id : m \in chat}]
    /\ UNCHANGED <<minute, sending, chat>>

\* getChatMessages: one page, hasNextPage and endCursor.
GetChatMessages ==
    LET older == OlderThan(paging.cursor)
        page == FirstPage(older)
    IN
    /\ paging.on
    /\ paging.more
    /\ paging' = [paging EXCEPT
            !.more = Cardinality(older) > PageLimit,
            !.cursor = IF page = {} THEN @ ELSE Place(Last(page)),
            !.seen = @ \cup {m.id : m \in page}]
    /\ UNCHANGED <<minute, sending, chat>>

LeaveRoom ==
    /\ paging.on
    /\ paging' = NotPaging
    /\ UNCHANGED <<minute, sending, chat>>

-----------------------------------------------------------------------------
ChatNext ==
    \/ ClockTicks
    \/ \E c \in ClientMessages : Send(c)
    \/ \E m \in sending : Insert(m) \/ ReturnExisting(m) \/ LoseSend(m)
    \/ \E m \in chat : Delete(m)
    \/ OpenRoom \/ GetChatMessages \/ LeaveRoom

ChatSpec == ChatInit /\ [][ChatNext]_chatVars

-----------------------------------------------------------------------------
Message == [id : MessageIds, client : ClientMessages, createdAt : 0 .. LastMinute,
            deleted : BOOLEAN]

ChatTypeOK ==
    /\ minute \in 0 .. LastMinute
    /\ sending \subseteq Message
    /\ chat \subseteq Message
    /\ paging.on \in BOOLEAN /\ paging.more \in BOOLEAN
    /\ paging.cursor \in {<<>>} \cup ((0 .. LastMinute) \X MessageIds)
    /\ paging.seen \subseteq MessageIds /\ paging.wanted \subseteq MessageIds

\* However often a client repeats a call, and however its calls overtake each
\* other, one message is in the room.
SentOnce == \A c \in ClientMessages : Cardinality({m \in chat : m.client = c}) <= 1

\* A client that pages through the room meanwhile others write and delete has
\* seen, or still gets, every message that was there when he began, and gets
\* none twice.
PagesFitTogether ==
    paging.on =>
        LET ahead == {m.id : m \in OlderThan(paging.cursor)} IN
        /\ paging.seen \cap ahead = {}
        /\ paging.wanted \subseteq paging.seen \cup ahead
        /\ ~paging.more => paging.wanted \subseteq paging.seen
=============================================================================
