-------------------------------- MODULE Channels --------------------------------
(***************************************************************************)
(* Message channels of the workspace service (channels.py): one channel,   *)
(* its dead-letter channel `<name>.deadletter' and its optional schema     *)
(* (channel_schemas.py), under concurrent API calls.                       *)
(*                                                                         *)
(* SELECTs run in autocommit mode and the first DML statement takes the    *)
(* SQLite write lock until COMMIT; `call[c]' is the handler of client c.   *)
(* A client has one call in flight and receives under any consumer name:   *)
(* nothing keeps two receives of one name apart.  The columns              *)
(* delivered_at, last_send_at and last_receive_at are read by no handler   *)
(* and left out, and with them `peek' and a receive that names no          *)
(* consumer, which write nothing else.                                     *)
(*                                                                         *)
(* The schema of a channel is a row that other calls set and remove at any *)
(* moment, and what it accepts is up to its author: a handler that reads   *)
(* it may find any payload valid or not.                                   *)
(***************************************************************************)
EXTENDS Naturals, FiniteSets

CONSTANTS
  Clients,
  Consumers,   \* names that clients receive under
  Messages,    \* message rows that may be created
  Limits,      \* `limit' of a receive
  Sinces,      \* explicit `since' of a receive; {} when the cursor is trusted
  Acks,        \* whether clients DELETE messages: a set of BOOLEAN
  NULL

Queues == {"main", "dlq"}
Places == {"none", "main", "dlq", "replayed", "deleted"}

ASSUME ChannelAssumption ==
  /\ NULL \notin Messages \cup Consumers
  /\ Limits \subseteq Nat \ {0}
  /\ Sinces \subseteq Nat
  /\ Acks \subseteq BOOLEAN

VARIABLES
  channels,   \* rows of table channels
  place,      \* where each message row is; how it left the table
  seq,        \* channel_messages.seq
  copied,     \* the dead letters of which a replay stored a copy
  author,     \* the client whose handler inserted the row
  cursor,     \* channel_consumers.cursor on the main channel; 0 without a row
  seen,       \* the messages receive returned to each consumer
  raced,      \* those returned while another receive of the name was under way
  call        \* the handlers in flight

rowVars == <<place, seq, author, copied>>
consumerVars == <<cursor, seen, raced>>
vars == <<channels, rowVars, consumerVars, call>>

CallPoints == {"idle", "row", "create", "max", "insert", "letterDelete", "bulkNext",
               "receiveRows", "receiveWrite", "deleteChannel"}
Call == [at     : CallPoints,
         dest   : Queues,                \* channel being written or deleted
         letter : Messages \cup {NULL},  \* dead letter being replayed
         consumer : Consumers \cup {NULL},   \* name received under
         bulk   : BOOLEAN,               \* part of a bulk replay
         todo   : SUBSET Messages,       \* dead letters still to replay; rows read
         seq    : Nat]                   \* MAX(seq) or cursor as read

Idle == [at |-> "idle", dest |-> "main", letter |-> NULL, consumer |-> NULL,
         bulk |-> FALSE, todo |-> {}, seq |-> 0]

Stored(q) == {m \in Messages : place[m] = q}

(* Every column has a value of its type; a handler in flight holds values  *)
(* it may have read.                                                       *)
ChannelTypeOK ==
  /\ channels \subseteq Queues
  /\ place \in [Messages -> Places]
  /\ seq \in [Messages -> Nat]
  /\ author \in [Messages -> Clients \cup {NULL}]
  /\ copied \subseteq Messages
  /\ cursor \in [Consumers -> Nat]
  /\ seen \in [Consumers -> SUBSET Messages]
  /\ raced \in [Consumers -> SUBSET Messages]
  /\ call \in [Clients -> Call]

Init ==
  /\ channels = {}
  /\ place = [m \in Messages |-> "none"]
  /\ seq = [m \in Messages |-> 0]
  /\ author = [m \in Messages |-> NULL]
  /\ copied = {}
  /\ cursor = [k \in Consumers |-> 0]
  /\ seen = [k \in Consumers |-> {}]
  /\ raced = [k \in Consumers |-> {}]
  /\ call = [c \in Clients |-> Idle]

--------------------------------------------------------------------------------
(* SELECT MAX(seq), 0 on an empty channel.                                 *)
MutMaxSeq(q) == Cardinality(Stored(q))   \* mutant: COUNT instead of MAX
MaxSeq(q) == CHOOSE n \in {0} \cup {seq[m] : m \in Stored(q)} :
               \A m \in Stored(q) : seq[m] <= n

(* DELETE FROM channel_messages: the rows are gone, and `seen' and `raced' *)
(* forget them; what became of them is kept for the properties.            *)
Remove(rows, how) ==
  /\ place' = [m \in Messages |-> IF m \in rows THEN how ELSE place[m]]
  /\ seq' = [m \in Messages |-> IF m \in rows THEN 0 ELSE seq[m]]
  /\ author' = [m \in Messages |-> IF m \in rows THEN NULL ELSE author[m]]
  /\ seen' = [k \in Consumers |-> seen[k] \ rows]
  /\ raced' = [k \in Consumers |-> raced[k] \ rows]

Enter(c, at) == call' = [call EXCEPT ![c].at = at]
Leave(c) == call' = [call EXCEPT ![c] = Idle]

(* After its last write a bulk replay takes the next letter, any other     *)
(* handler returns.                                                        *)
Done(c) == IF call[c].bulk
           THEN call' = [call EXCEPT ![c] = [Idle EXCEPT !.at = "bulkNext", !.bulk = TRUE,
                                                         !.todo = call[c].todo]]
           ELSE Leave(c)

(* POST .../send: the schema, read first, decides between the channel and  *)
(* its dead-letter channel.                                                *)
SendStart(c) ==
  /\ call[c].at = "idle"
  /\ \E dest \in Queues :
       call' = [call EXCEPT ![c] = [Idle EXCEPT !.at = "row", !.dest = dest]]
  /\ UNCHANGED <<channels, rowVars, consumerVars>>

(* _send_raw: the channel row is read; when it is missing it is inserted,  *)
(* which takes the write lock for the rest of the handler, otherwise the   *)
(* largest seq is read in autocommit mode and the message inserted later.  *)
SendRow(c) ==
  /\ call[c].at = "row"
  /\ Enter(c, IF call[c].dest \in channels THEN "max" ELSE "create")
  /\ UNCHANGED <<channels, rowVars, consumerVars>>

InsertMessage(c, n) ==
  /\ \E m \in Messages :
       /\ place[m] = "none"
       /\ place' = [place EXCEPT ![m] = call[c].dest]
       /\ seq' = [seq EXCEPT ![m] = n + 1]
       /\ author' = [author EXCEPT ![m] = c]
  /\ copied' = copied \cup ({call[c].letter} \ {NULL})
  /\ IF call[c].letter = NULL THEN Leave(c)
     ELSE call' = [call EXCEPT ![c].at = "letterDelete", ![c].seq = 0]

SendCreate(c) ==
  /\ call[c].at = "create"
  /\ call[c].dest \notin channels
  /\ channels' = channels \cup {call[c].dest}
  /\ InsertMessage(c, MaxSeq(call[c].dest))
  /\ UNCHANGED <<consumerVars>>

MutSendMax(c) ==   \* mutant: a replay deletes the letter before the insert
  /\ call[c].at = "max"
  /\ call' = [call EXCEPT ![c].at = IF call[c].letter = NULL THEN "insert" ELSE "letterDelete",
                          ![c].seq = MaxSeq(call[c].dest)]
  /\ UNCHANGED <<channels, rowVars, consumerVars>>
SendMax(c) ==
  /\ call[c].at = "max"
  /\ call' = [call EXCEPT ![c].at = "insert", ![c].seq = MaxSeq(call[c].dest)]
  /\ UNCHANGED <<channels, rowVars, consumerVars>>

MutSendInsert(c) ==   \* mutant: foreign keys are not enforced
  /\ call[c].at = "insert"
  /\ InsertMessage(c, call[c].seq)
  /\ UNCHANGED <<channels, consumerVars>>
SendInsert(c) ==
  /\ call[c].at = "insert"
  /\ call[c].dest \in channels
  /\ InsertMessage(c, call[c].seq)
  /\ UNCHANGED <<channels, consumerVars>>

(* The channel was created (primary key) or deleted (foreign key) since it *)
(* was read: the INSERT fails.  A bulk replay notes the failure and goes   *)
(* on.                                                                     *)
SendFailed(c) ==
  /\ \/ call[c].at = "create" /\ call[c].dest \in channels
     \/ call[c].at = "insert" /\ call[c].dest \notin channels
  /\ Done(c)
  /\ UNCHANGED <<channels, rowVars, consumerVars>>

--------------------------------------------------------------------------------
(* GET .../receive: channel row and cursor, then the rows, then delivered  *)
(* marks and cursor in one transaction.  An explicit `since' overrides the *)
(* cursor.  Two receives of one consumer may be under way together.        *)
ReceiveStart(c) ==
  /\ call[c].at = "idle"
  /\ "main" \in channels
  /\ \E k \in Consumers : \E since \in {cursor[k]} \cup Sinces :
       call' = [call EXCEPT ![c] = [Idle EXCEPT !.at = "receiveRows", !.consumer = k,
                                                !.seq = since]]
  /\ UNCHANGED <<channels, rowVars, consumerVars>>

(* SELECT ... seq > since ORDER BY seq LIMIT limit; rows of equal seq come *)
(* in any order.                                                           *)
FirstRows(since, limit) ==
  LET rows == {m \in Stored("main") : seq[m] > since}
  IN {batch \in SUBSET rows :
        /\ Cardinality(batch) = IF Cardinality(rows) < limit THEN Cardinality(rows) ELSE limit
        /\ \A m \in batch, n \in rows \ batch : seq[m] <= seq[n]}

MutHighestSeq(batch) ==   \* mutant: the first row instead of the last
  CHOOSE n \in {seq[m] : m \in batch} : \A m \in batch : seq[m] >= n
HighestSeq(batch) == CHOOSE n \in {seq[m] : m \in batch} : \A m \in batch : seq[m] <= n

ReceiveRows(c) ==
  /\ call[c].at = "receiveRows"
  /\ \E limit \in Limits : \E batch \in FirstRows(call[c].seq, limit) :
       IF batch = {} THEN Leave(c)
       ELSE call' = [call EXCEPT ![c].at = "receiveWrite", ![c].todo = batch,
                                         ![c].seq = HighestSeq(batch)]
  /\ UNCHANGED <<channels, rowVars, consumerVars>>

(* A receive of consumer k that is under way at client d.                  *)
Receiving(d, k) == call[d].at \in {"receiveRows", "receiveWrite"} /\ call[d].consumer = k

(* The cursor becomes the last seq of this batch, also when another        *)
(* receive of the consumer has moved it further meanwhile.                 *)
ReceiveWrite(c) ==
  LET k == call[c].consumer
  IN
  /\ call[c].at = "receiveWrite"
  /\ cursor' = [cursor EXCEPT ![k] = call[c].seq]
  /\ seen' = [seen EXCEPT ![k] = @ \cup call[c].todo]
  /\ raced' = IF \E d \in Clients \ {c} : Receiving(d, k)
              THEN [raced EXCEPT ![k] = @ \cup call[c].todo] ELSE raced
  /\ Leave(c)
  /\ UNCHANGED <<channels, rowVars>>

--------------------------------------------------------------------------------
(* POST .../deadletter/{id}/replay: read the letter; unless the schema     *)
(* still refuses it, send a copy and delete the letter if it is still      *)
(* there.                                                                  *)
ReplayStart(c) ==
  /\ call[c].at = "idle"
  /\ \E m \in Stored("dlq") :
       call' = [call EXCEPT ![c] = [Idle EXCEPT !.at = "row", !.letter = m]]
  /\ UNCHANGED <<channels, rowVars, consumerVars>>

ReplayDelete(c) ==
  /\ call[c].at = "letterDelete"
  /\ Remove({call[c].letter} \cap Stored("dlq"), "replayed")
  /\ Done(c)
  /\ UNCHANGED <<channels, copied, cursor>>

(* POST .../deadletter/replay-all: of the letters read at the start those  *)
(* the schema accepts are replayed in order of seq, which a letter deleted *)
(* meanwhile no longer has here: it may be taken at any time.              *)
BulkStart(c) ==
  /\ call[c].at = "idle"
  /\ \E valid \in SUBSET Stored("dlq") :
       call' = [call EXCEPT ![c] = [Idle EXCEPT !.at = "bulkNext", !.bulk = TRUE,
                                                !.todo = valid]]
  /\ UNCHANGED <<channels, rowVars, consumerVars>>

BulkNext(c) ==
  /\ call[c].at = "bulkNext"
  /\ \E m \in call[c].todo :
       /\ m \in Stored("dlq") =>
            \A n \in call[c].todo \cap Stored("dlq") : seq[m] <= seq[n]
       /\ call' = [call EXCEPT ![c].at = "row", ![c].letter = m, ![c].todo = @ \ {m}]
  /\ UNCHANGED <<channels, rowVars, consumerVars>>

BulkEnd(c) ==
  /\ call[c].at = "bulkNext"
  /\ call[c].todo = {}
  /\ Leave(c)
  /\ UNCHANGED <<channels, rowVars, consumerVars>>

--------------------------------------------------------------------------------
(* DELETE .../messages/{id} on either channel, and a purge of the dead     *)
(* letters older than some age.                                            *)
DeleteMessages(S) ==
  /\ TRUE \in Acks
  /\ \/ \E m \in Stored("main") : S = {m}
     \/ S # {} /\ S \subseteq Stored("dlq")
  /\ Remove(S, "deleted")
  /\ UNCHANGED <<channels, copied, cursor, call>>

(* DELETE .../channels/{name}: the row is read, then messages, cursors and *)
(* row are deleted in one transaction.                                     *)
DeleteChannelStart(c) ==
  /\ call[c].at = "idle"
  /\ \E q \in channels :
       call' = [call EXCEPT ![c] = [Idle EXCEPT !.at = "deleteChannel", !.dest = q]]
  /\ UNCHANGED <<channels, rowVars, consumerVars>>

DeleteChannel(c) ==
  /\ call[c].at = "deleteChannel"
  /\ Remove(Stored(call[c].dest), "deleted")
  /\ cursor' = IF call[c].dest = "main" THEN [k \in Consumers |-> 0] ELSE cursor
  /\ channels' = channels \ {call[c].dest}
  /\ Leave(c)
  /\ UNCHANGED <<copied>>

(* A handler is lost between two of its statements.                        *)
AbortCall(c) ==
  /\ call[c].at # "idle"
  /\ Leave(c)
  /\ UNCHANGED <<channels, rowVars, consumerVars>>

SendNext(c) ==
  SendStart(c) \/ SendRow(c) \/ SendCreate(c) \/ SendMax(c) \/ SendInsert(c) \/ SendFailed(c)
ReceiveNext(c) == ReceiveStart(c) \/ ReceiveRows(c) \/ ReceiveWrite(c)
ReplayNext(c) == ReplayStart(c) \/ ReplayDelete(c)
BulkNextStep(c) == BulkStart(c) \/ BulkNext(c) \/ BulkEnd(c)

Next ==
  \/ \E c \in Clients :
       \/ SendNext(c) \/ ReceiveNext(c) \/ ReplayNext(c) \/ BulkNextStep(c)
       \/ DeleteChannelStart(c) \/ DeleteChannel(c) \/ AbortCall(c)
  \/ \E S \in SUBSET Messages : DeleteMessages(S)

Spec == Init /\ [][Next]_vars

--------------------------------------------------------------------------------
(* A dead letter leaves its channel by a replay only after its copy was    *)
(* stored: a replay that is cut short, refused by the schema or raced by   *)
(* a delete loses no message.                                              *)
ReplayLosesNothing ==
  \A m \in Messages : place[m] = "replayed" => m \in copied

(* No message outlives its channel or arrives in one deleted meanwhile:    *)
(* it would be invisible to receive and surface in a recreated channel.    *)
MessageHasChannel == \A m \in Messages : place[m] \in Queues => place[m] \in channels

(* "Last write wins on the cursor" (07-channels-design.md:189): a late     *)
(* write moves it back.  Without rewinds that is the only way for a        *)
(* consumer to get a message twice: one that was returned to it while no   *)
(* other receive of its name was under way lies at or below its cursor     *)
(* ever after, whatever receives come later and overlap, and whatever is   *)
(* sent, deleted or recreated in between.                                  *)
RepeatNeedsOverlap ==
  \A k \in Consumers, m \in Messages :
    place[m] = "main" /\ m \in seen[k] \ raced[k] => seq[m] <= cursor[k]

(* "Ordering is FIFO within a channel" (07-channels-design.md:13), for the *)
(* messages of one sender: a message gets a larger seq than every stored   *)
(* one its sender sent before, although other senders are interleaved.     *)
SenderOrder ==
  [][\A m, n \in Messages :
       place[m] = "none" /\ place'[m] \in Queues
       /\ place[n] = place'[m] /\ author[n] = author'[m] => seq[n] < seq'[m]]_vars

--------------------------------------------------------------------------------
(* What the documentation says of channels and this code does not do.      *)

(* The cursor is "the highest seq this consumer has seen" and "the resume  *)
(* point" (07-channels-design.md:105): no stored message lies at or below  *)
(* the cursor of a consumer that has not got it.                           *)
CursorSkipsNothing ==
  \A k \in Consumers, m \in Messages :
    place[m] = "main" /\ seq[m] <= cursor[k] => m \in seen[k]
================================================================================
