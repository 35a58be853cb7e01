----------------------------- MODULE ChannelsProofs -----------------------------
(***************************************************************************)
(* Proofs about Channels for every set of clients and messages, and every  *)
(* limit of a receive.                                                     *)
(***************************************************************************)
EXTENDS Channels, NatExtrema

USE ChannelAssumption

(* No column grows without bound in a finite number of steps; without it   *)
(* MAX(seq) need not exist, since Messages may be infinite.                *)
Bounded == \E b \in Nat : \A m \in Messages : seq[m] <= b
TypeInv == ChannelTypeOK /\ Bounded

(* MAX(seq) is a number that no stored message exceeds.                    *)
LEMMA MaxSeqIsMax ==
  ASSUME TypeInv, NEW q
  PROVE  MaxSeq(q) \in Nat /\ \A m \in Stored(q) : seq[m] <= MaxSeq(q)
<1> DEFINE S == {0} \cup {seq[m] : m \in Stored(q)}
<1>1. S \in SUBSET Nat /\ S # {}
  BY DEF TypeInv, ChannelTypeOK, Stored
<1>2. PICK b \in Nat : \A m \in Messages : seq[m] <= b
  BY DEF TypeInv, Bounded
<1>3. \A n \in S : n <= b
  BY <1>1, <1>2 DEF Stored
<1>4. \E n \in S : \A k \in S : k <= n
  BY <1>1, <1>3, Greatest
<1>5. \E n \in S : \A m \in Stored(q) : seq[m] <= n
  BY <1>4
<1>6. MaxSeq(q) \in S /\ \A m \in Stored(q) : seq[m] <= MaxSeq(q)
  BY <1>5 DEF MaxSeq
<1> QED BY <1>1, <1>6

(* The cursor a receive writes is the seq of a row it returns, and the     *)
(* largest of them.                                                        *)
LEMMA HighestSeqIsMax ==
  ASSUME TypeInv, NEW batch \in SUBSET Messages, batch # {}
  PROVE  /\ HighestSeq(batch) \in Nat
         /\ \E m \in batch : HighestSeq(batch) = seq[m]
         /\ \A m \in batch : seq[m] <= HighestSeq(batch)
<1> DEFINE S == {seq[m] : m \in batch}
<1>1. S \in SUBSET Nat /\ S # {}
  BY DEF TypeInv, ChannelTypeOK
<1>2. PICK b \in Nat : \A m \in Messages : seq[m] <= b
  BY DEF TypeInv, Bounded
<1>3. \A n \in S : n <= b
  BY <1>2
<1>4. \E n \in S : \A k \in S : k <= n
  BY <1>1, <1>3, Greatest
<1>5. \E n \in S : \A m \in batch : seq[m] <= n
  BY <1>4
<1>6. HighestSeq(batch) \in S /\ \A m \in batch : seq[m] <= HighestSeq(batch)
  BY <1>5 DEF HighestSeq
<1> QED BY <1>1, <1>6

(* A handler that moves on keeps the table of handlers typed.              *)
LEMMA CallTyped ==
  ASSUME ChannelTypeOK, NEW c \in Clients, NEW k \in Call, call' = [call EXCEPT ![c] = k]
  PROVE  call' \in [Clients -> Call]
  BY DEF ChannelTypeOK

LEMMA IdleTyped == Idle \in Call
  BY DEF Idle, Call, CallPoints, Queues

LEMMA LeaveTyped ==
  ASSUME ChannelTypeOK, NEW c \in Clients, Leave(c)
  PROVE  call' \in [Clients -> Call]
  BY IdleTyped, CallTyped DEF Leave

LEMMA EnterTyped ==
  ASSUME ChannelTypeOK, NEW c \in Clients, NEW at \in CallPoints, Enter(c, at)
  PROVE  call' \in [Clients -> Call]
<1> DEFINE k == [call[c] EXCEPT !.at = at]
<1>1. call[c] \in Call
  BY DEF ChannelTypeOK
<1>2. k \in Call
  BY <1>1 DEF Call
<1>3. call' = [call EXCEPT ![c] = k]
  BY <1>1 DEF Enter
<1> QED BY <1>2, <1>3, CallTyped

LEMMA DoneTyped ==
  ASSUME ChannelTypeOK, NEW c \in Clients, Done(c)
  PROVE  call' \in [Clients -> Call]
<1> DEFINE k == [Idle EXCEPT !.at = "bulkNext", !.bulk = TRUE, !.todo = call[c].todo]
<1>1. call[c] \in Call
  BY DEF ChannelTypeOK
<1>2. k \in Call
  BY <1>1 DEF Call, Idle, CallPoints, Queues
<1>3. CASE call[c].bulk
  BY <1>2, <1>3, CallTyped DEF Done
<1>4. CASE ~call[c].bulk
  BY <1>4, LeaveTyped DEF Done
<1> QED BY <1>3, <1>4

(* A removal of rows keeps the columns typed and bounded.                  *)
LEMMA RemoveTyped ==
  ASSUME TypeInv, NEW rows \in SUBSET Messages, NEW how \in Places, Remove(rows, how)
  PROVE  /\ place' \in [Messages -> Places] /\ seq' \in [Messages -> Nat]
         /\ author' \in [Messages -> Clients \cup {NULL}]
         /\ seen' \in [Consumers -> SUBSET Messages]
         /\ raced' \in [Consumers -> SUBSET Messages]
         /\ Bounded'
<1>1. PICK b \in Nat : \A m \in Messages : seq[m] <= b
  BY DEF TypeInv, Bounded
<1>2. /\ place' \in [Messages -> Places] /\ seq' \in [Messages -> Nat]
      /\ author' \in [Messages -> Clients \cup {NULL}]
      /\ seen' \in [Consumers -> SUBSET Messages]
      /\ raced' \in [Consumers -> SUBSET Messages]
  BY DEF Remove, TypeInv, ChannelTypeOK
<1>3. \A m \in Messages : seq'[m] <= b
  BY <1>1 DEF Remove, TypeInv, ChannelTypeOK
<1> QED BY <1>2, <1>3 DEF Bounded

(* So does the insertion of one.                                           *)
LEMMA InsertTyped ==
  ASSUME TypeInv, NEW c \in Clients, NEW n \in Nat, InsertMessage(c, n)
  PROVE  /\ place' \in [Messages -> Places] /\ seq' \in [Messages -> Nat]
         /\ author' \in [Messages -> Clients \cup {NULL}]
         /\ copied' \in SUBSET Messages
         /\ call' \in [Clients -> Call]
         /\ Bounded'
<1> USE DEF TypeInv
<1>1. call[c] \in Call
  BY DEF ChannelTypeOK
<1>2. PICK m \in Messages :
        /\ place' = [place EXCEPT ![m] = call[c].dest]
        /\ seq' = [seq EXCEPT ![m] = n + 1]
        /\ author' = [author EXCEPT ![m] = c]
  BY DEF InsertMessage
<1>3. /\ place' \in [Messages -> Places] /\ seq' \in [Messages -> Nat]
      /\ author' \in [Messages -> Clients \cup {NULL}]
      /\ copied' \in SUBSET Messages
  BY <1>1, <1>2 DEF ChannelTypeOK, InsertMessage, Call, Places, Queues
<1>4. call' \in [Clients -> Call]
  <2> DEFINE k == [call[c] EXCEPT !.at = "letterDelete", !.seq = 0]
  <2>1. CASE call[c].letter = NULL
    BY <2>1, LeaveTyped DEF InsertMessage
  <2>2. CASE call[c].letter # NULL
    <3>1. k \in Call
      BY <1>1 DEF Call, CallPoints
    <3>2. call' = [call EXCEPT ![c] = k]
      BY <1>1, <2>2 DEF InsertMessage
    <3> QED BY <3>1, <3>2, CallTyped
  <2> QED BY <2>1, <2>2
<1>5. Bounded'
  <2>1. PICK b \in Nat : \A j \in Messages : seq[j] <= b
    BY DEF Bounded
  <2>2. /\ b + n + 1 \in Nat
        /\ \A j \in Messages : seq'[j] <= b + n + 1
    BY <1>2, <2>1 DEF ChannelTypeOK
  <2> QED BY <2>2 DEF Bounded
<1> QED BY <1>3, <1>4, <1>5

(* A step that only moves call[c] keeps the type invariant.                *)
LEMMA CallOnly ==
  ASSUME TypeInv, call' \in [Clients -> Call],
         UNCHANGED <<channels, rowVars, consumerVars>>
  PROVE  TypeInv'
  BY DEF TypeInv, ChannelTypeOK, Bounded, rowVars, consumerVars

LEMMA SendTyped ==
  ASSUME TypeInv, NEW c \in Clients, SendNext(c)
  PROVE  TypeInv'
<1>0. ChannelTypeOK /\ call[c] \in Call
  BY DEF TypeInv, ChannelTypeOK
<1>1. CASE SendStart(c)
  <2>1. PICK dest \in Queues :
          call' = [call EXCEPT ![c] = [Idle EXCEPT !.at = "row", !.dest = dest]]
    BY <1>1 DEF SendStart
  <2>2. [Idle EXCEPT !.at = "row", !.dest = dest] \in Call
    BY DEF Idle, Call, CallPoints, Queues
  <2> QED BY <1>0, <1>1, <2>1, <2>2, CallTyped, CallOnly DEF SendStart
<1>2. CASE SendRow(c)
  BY <1>0, <1>2, EnterTyped, CallOnly DEF SendRow, CallPoints
<1>3. CASE SendCreate(c)
  <2>1. MaxSeq(call[c].dest) \in Nat
    BY MaxSeqIsMax
  <2>2. channels' \subseteq Queues
    BY <1>0, <1>3 DEF SendCreate, ChannelTypeOK, Call
  <2> QED
    BY <1>0, <1>3, <2>1, <2>2, InsertTyped
       DEF SendCreate, TypeInv, ChannelTypeOK, consumerVars
<1>4. CASE SendMax(c)
  <2> DEFINE k == [call[c] EXCEPT !.at = "insert", !.seq = MaxSeq(call[c].dest)]
  <2>1. MaxSeq(call[c].dest) \in Nat
    BY MaxSeqIsMax
  <2>2. k \in Call
    BY <1>0, <2>1 DEF Call, CallPoints
  <2>3. call' = [call EXCEPT ![c] = k]
    BY <1>0, <1>4 DEF SendMax
  <2> QED BY <1>0, <1>4, <2>2, <2>3, CallTyped, CallOnly DEF SendMax
<1>5. CASE SendInsert(c)
  <2>1. call[c].seq \in Nat
    BY <1>0 DEF Call
  <2> QED
    BY <1>5, <2>1, InsertTyped DEF SendInsert, TypeInv, ChannelTypeOK, consumerVars
<1>6. CASE SendFailed(c)
  BY <1>0, <1>6, DoneTyped, CallOnly DEF SendFailed
<1> QED BY <1>1, <1>2, <1>3, <1>4, <1>5, <1>6 DEF SendNext

(* A receive reads stored rows beyond the position it started from.        *)
LEMMA RowsRead ==
  ASSUME NEW c \in Clients, ReceiveRows(c)
  PROVE  \E batch \in SUBSET Stored("main") :
           /\ \A m \in batch : seq[m] > call[c].seq
           /\ IF batch = {} THEN Leave(c)
              ELSE call' = [call EXCEPT ![c].at = "receiveWrite", ![c].todo = batch,
                                        ![c].seq = HighestSeq(batch)]
  BY Zenon DEF ReceiveRows, FirstRows

LEMMA ReceiveTyped ==
  ASSUME TypeInv, NEW c \in Clients, ReceiveNext(c)
  PROVE  TypeInv'
<1>0. ChannelTypeOK /\ call[c] \in Call
  BY DEF TypeInv, ChannelTypeOK
<1>1. CASE ReceiveStart(c)
  <2>1. PICK k \in Consumers, since \in Nat :
          call' = [call EXCEPT ![c] = [Idle EXCEPT !.at = "receiveRows", !.consumer = k,
                                                   !.seq = since]]
    BY <1>0, <1>1 DEF ReceiveStart, ChannelTypeOK
  <2>3. [Idle EXCEPT !.at = "receiveRows", !.consumer = k, !.seq = since] \in Call
    BY DEF Idle, Call, CallPoints, Queues
  <2> QED BY <1>0, <1>1, <2>1, <2>3, CallTyped, CallOnly DEF ReceiveStart
<1>2. CASE ReceiveRows(c)
  <2>1. PICK batch \in SUBSET Stored("main") :
          IF batch = {} THEN Leave(c)
          ELSE call' = [call EXCEPT ![c].at = "receiveWrite", ![c].todo = batch,
                                    ![c].seq = HighestSeq(batch)]
    BY <1>2, RowsRead
  <2>2. batch \in SUBSET Messages
    BY DEF Stored
  <2>3. CASE batch = {}
    BY <1>0, <1>2, <2>1, <2>3, LeaveTyped, CallOnly DEF ReceiveRows
  <2>4. CASE batch # {}
    <3> DEFINE k == [call[c] EXCEPT !.at = "receiveWrite", !.todo = batch,
                                    !.seq = HighestSeq(batch)]
    <3>1. HighestSeq(batch) \in Nat
      BY <2>2, <2>4, HighestSeqIsMax
    <3>2. k \in Call
      BY <1>0, <2>2, <3>1 DEF Call, CallPoints
    <3>3. call' = [call EXCEPT ![c] = k]
      BY <1>0, <2>1, <2>4
    <3> QED BY <1>0, <1>2, <3>2, <3>3, CallTyped, CallOnly DEF ReceiveRows
  <2> QED BY <2>3, <2>4
<1>3. CASE ReceiveWrite(c)
  <2>1. call' \in [Clients -> Call]
    BY <1>0, <1>3, LeaveTyped DEF ReceiveWrite
  <2>2. /\ cursor' \in [Consumers -> Nat]
        /\ seen' \in [Consumers -> SUBSET Messages]
        /\ raced' \in [Consumers -> SUBSET Messages]
    BY <1>0, <1>3 DEF ReceiveWrite, ChannelTypeOK, Call
  <2> QED BY <1>3, <2>1, <2>2 DEF ReceiveWrite, TypeInv, ChannelTypeOK, Bounded, rowVars
<1> QED BY <1>1, <1>2, <1>3 DEF ReceiveNext

LEMMA ReplayTyped ==
  ASSUME TypeInv, NEW c \in Clients, ReplayNext(c)
  PROVE  TypeInv'
<1>0. ChannelTypeOK /\ call[c] \in Call
  BY DEF TypeInv, ChannelTypeOK
<1>1. CASE ReplayStart(c)
  <2>1. PICK m \in Stored("dlq") :
          call' = [call EXCEPT ![c] = [Idle EXCEPT !.at = "row", !.letter = m]]
    BY <1>1 DEF ReplayStart
  <2>2. [Idle EXCEPT !.at = "row", !.letter = m] \in Call
    BY DEF Idle, Call, CallPoints, Queues, Stored
  <2> QED BY <1>0, <1>1, <2>1, <2>2, CallTyped, CallOnly DEF ReplayStart
<1>2. CASE ReplayDelete(c)
  <2>1. call' \in [Clients -> Call]
    BY <1>0, <1>2, DoneTyped DEF ReplayDelete
  <2>2. {call[c].letter} \cap Stored("dlq") \in SUBSET Messages /\ "replayed" \in Places
    BY DEF Stored, Places
  <2>3. Remove({call[c].letter} \cap Stored("dlq"), "replayed")
    BY <1>2 DEF ReplayDelete
  <2> QED BY <1>2, <2>1, <2>2, <2>3, RemoveTyped DEF ReplayDelete, TypeInv, ChannelTypeOK
<1> QED BY <1>1, <1>2 DEF ReplayNext

LEMMA BulkTyped ==
  ASSUME TypeInv, NEW c \in Clients, BulkNextStep(c)
  PROVE  TypeInv'
<1>0. ChannelTypeOK /\ call[c] \in Call
  BY DEF TypeInv, ChannelTypeOK
<1>1. CASE BulkStart(c)
  <2>1. PICK valid \in SUBSET Stored("dlq") :
          call' = [call EXCEPT ![c] = [Idle EXCEPT !.at = "bulkNext", !.bulk = TRUE,
                                                   !.todo = valid]]
    BY <1>1 DEF BulkStart
  <2>2. [Idle EXCEPT !.at = "bulkNext", !.bulk = TRUE, !.todo = valid] \in Call
    BY DEF Idle, Call, CallPoints, Queues, Stored
  <2> QED BY <1>0, <1>1, <2>1, <2>2, CallTyped, CallOnly DEF BulkStart
<1>2. CASE BulkNext(c)
  <2>1. PICK m \in call[c].todo :
          call' = [call EXCEPT ![c].at = "row", ![c].letter = m, ![c].todo = @ \ {m}]
    BY <1>2 DEF BulkNext
  <2> DEFINE k == [call[c] EXCEPT !.at = "row", !.letter = m, !.todo = @ \ {m}]
  <2>2. k \in Call
    BY <1>0, <2>1 DEF Call, CallPoints
  <2>3. call' = [call EXCEPT ![c] = k]
    BY <1>0, <2>1
  <2> QED BY <1>0, <1>2, <2>2, <2>3, CallTyped, CallOnly DEF BulkNext
<1>3. CASE BulkEnd(c)
  BY <1>0, <1>3, LeaveTyped, CallOnly DEF BulkEnd
<1> QED BY <1>1, <1>2, <1>3 DEF BulkNextStep

LEMMA DeletionTyped ==
  ASSUME TypeInv, NEW c \in Clients, DeleteChannelStart(c) \/ DeleteChannel(c)
  PROVE  TypeInv'
<1>0. ChannelTypeOK /\ call[c] \in Call
  BY DEF TypeInv, ChannelTypeOK
<1>1. CASE DeleteChannelStart(c)
  <2>1. PICK q \in channels :
          call' = [call EXCEPT ![c] = [Idle EXCEPT !.at = "deleteChannel", !.dest = q]]
    BY <1>1 DEF DeleteChannelStart
  <2>2. [Idle EXCEPT !.at = "deleteChannel", !.dest = q] \in Call
    BY <1>0, <2>1 DEF Idle, Call, CallPoints, ChannelTypeOK
  <2> QED BY <1>0, <1>1, <2>1, <2>2, CallTyped, CallOnly DEF DeleteChannelStart
<1>2. CASE DeleteChannel(c)
  <2>1. call' \in [Clients -> Call]
    BY <1>0, <1>2, LeaveTyped DEF DeleteChannel
  <2>2. Stored(call[c].dest) \in SUBSET Messages /\ "deleted" \in Places
    BY DEF Stored, Places
  <2>3. Remove(Stored(call[c].dest), "deleted")
    BY <1>2 DEF DeleteChannel
  <2>4. channels' \subseteq Queues /\ cursor' \in [Consumers -> Nat]
    BY <1>0, <1>2 DEF DeleteChannel, ChannelTypeOK
  <2> QED
    BY <1>2, <2>1, <2>2, <2>3, <2>4, RemoveTyped DEF DeleteChannel, TypeInv, ChannelTypeOK
<1> QED BY <1>1, <1>2

LEMMA TypeInvNext == TypeInv /\ [Next]_vars => TypeInv'
<1> SUFFICES ASSUME TypeInv, [Next]_vars PROVE TypeInv'
  OBVIOUS
<1>1. ASSUME NEW c \in Clients,
             \/ SendNext(c) \/ ReceiveNext(c) \/ ReplayNext(c) \/ BulkNextStep(c)
             \/ DeleteChannelStart(c) \/ DeleteChannel(c) \/ AbortCall(c)
      PROVE  TypeInv'
  <2>1. CASE AbortCall(c)
    BY <2>1, LeaveTyped, CallOnly DEF AbortCall, TypeInv
  <2> QED BY <1>1, <2>1, SendTyped, ReceiveTyped, ReplayTyped, BulkTyped, DeletionTyped
<1>2. ASSUME NEW S \in SUBSET Messages, DeleteMessages(S) PROVE TypeInv'
  <2>1. Remove(S, "deleted") /\ "deleted" \in Places
    BY <1>2 DEF DeleteMessages, Places
  <2> QED BY <1>2, <2>1, RemoveTyped DEF DeleteMessages, TypeInv, ChannelTypeOK
<1>3. CASE UNCHANGED vars
  BY <1>3, CallOnly DEF vars, TypeInv, ChannelTypeOK
<1> QED BY <1>1, <1>2, <1>3 DEF Next

LEMMA TypeInvInit == Init => TypeInv
<1> SUFFICES ASSUME Init PROVE TypeInv
  OBVIOUS
<1>1. ChannelTypeOK
  BY IdleTyped DEF Init, ChannelTypeOK, Places
<1>2. 0 \in Nat /\ \A m \in Messages : seq[m] <= 0
  BY DEF Init
<1> QED BY <1>1, <1>2 DEF TypeInv, Bounded

THEOREM TypeInvariant == Spec => []TypeInv
  BY TypeInvInit, TypeInvNext, PTL DEF Spec

(* Every column keeps its type and every handler remembers what it may     *)
(* have read, whatever is sent, received, replayed and deleted.            *)
THEOREM TypeCorrect == Spec => []ChannelTypeOK
<1>1. TypeInv => ChannelTypeOK
  BY DEF TypeInv
<1> QED BY <1>1, TypeInvariant, PTL

--------------------------------------------------------------------------------
(* A handler that is about to delete a dead letter has stored its copy.    *)
LetterCopied == \A c \in Clients : call[c].at = "letterDelete" => call[c].letter \in copied

Durable == LetterCopied /\ ReplayLosesNothing /\ MessageHasChannel

(* What an insertion into an existing channel does to the rows.            *)
LEMMA InsertDurable ==
  ASSUME TypeInv, Durable, NEW c \in Clients, NEW n \in Nat, InsertMessage(c, n),
         channels \subseteq channels', call[c].dest \in channels'
  PROVE  Durable'
<1>1. ChannelTypeOK /\ call[c] \in Call
  BY DEF TypeInv, ChannelTypeOK
<1>2. PICK m \in Messages : place[m] = "none" /\ place' = [place EXCEPT ![m] = call[c].dest]
  BY DEF InsertMessage
<1>3. call[c].dest \in Queues
  BY <1>1 DEF Call
<1>4. ReplayLosesNothing'
  BY <1>1, <1>2, <1>3 DEF Durable, ReplayLosesNothing, InsertMessage, ChannelTypeOK, Queues
<1>5. MessageHasChannel'
  BY <1>1, <1>2 DEF Durable, MessageHasChannel, ChannelTypeOK
<1>6. LetterCopied'
  <2>1. CASE call[c].letter = NULL
    BY <1>1, <2>1 DEF Durable, LetterCopied, InsertMessage, Leave, Idle, ChannelTypeOK
  <2>2. CASE call[c].letter # NULL
    <3>1. call' = [call EXCEPT ![c].at = "letterDelete", ![c].seq = 0]
      BY <2>2 DEF InsertMessage
    <3>2. /\ call'[c].letter = call[c].letter
          /\ \A d \in Clients \ {c} : call'[d] = call[d]
      BY <1>1, <3>1 DEF ChannelTypeOK, Call
    <3>3. call[c].letter \in copied' /\ copied \subseteq copied'
      BY <2>2 DEF InsertMessage
    <3> QED BY <3>2, <3>3 DEF Durable, LetterCopied
  <2> QED BY <2>1, <2>2
<1> QED BY <1>4, <1>5, <1>6 DEF Durable

(* A removal of rows that marks them as replayed only if they were copied. *)
LEMMA RemoveDurable ==
  ASSUME TypeInv, Durable, NEW rows \in SUBSET Messages, NEW how \in {"replayed", "deleted"},
         how = "replayed" => rows \subseteq copied, Remove(rows, how),
         UNCHANGED <<copied, channels>>
  PROVE  ReplayLosesNothing' /\ MessageHasChannel'
  BY DEF Durable, ReplayLosesNothing, MessageHasChannel, Remove, Queues

(* A step that only moves call[c], and not to the deletion of a letter.    *)
LEMMA CallDurable ==
  ASSUME TypeInv, Durable, NEW c \in Clients, \A d \in Clients \ {c} : call'[d] = call[d],
         call'[c].at # "letterDelete", UNCHANGED <<channels, rowVars, consumerVars>>
  PROVE  Durable'
  BY DEF Durable, LetterCopied, ReplayLosesNothing, MessageHasChannel, rowVars

(* A handler that returns has nothing left to write.                       *)
LEMMA LeaveMoves ==
  ASSUME TypeInv, NEW c \in Clients, Leave(c) \/ Done(c)
  PROVE  (\A d \in Clients \ {c} : call'[d] = call[d]) /\ call'[c].at \in {"idle", "bulkNext"}
<1>0. call \in [Clients -> Call] /\ call[c] \in Call
  BY DEF TypeInv, ChannelTypeOK
<1>1. CASE Leave(c)
  BY <1>0, <1>1 DEF Leave, Idle
<1>2. CASE Done(c) /\ ~Leave(c)
  <2>1. call' = [call EXCEPT ![c] = [Idle EXCEPT !.at = "bulkNext", !.bulk = TRUE,
                                                 !.todo = call[c].todo]]
    BY <1>2 DEF Done
  <2> QED BY <1>0, <2>1 DEF Idle
<1> QED BY <1>1, <1>2

LEMMA SendDurable ==
  ASSUME TypeInv, Durable, NEW c \in Clients, SendNext(c)
  PROVE  Durable'
<1>0. call \in [Clients -> Call] /\ call[c] \in Call
  BY DEF TypeInv, ChannelTypeOK
<1> DEFINE Moves == /\ \A d \in Clients \ {c} : call'[d] = call[d]
                    /\ call'[c].at # "letterDelete"
<1>1. CASE SendStart(c)
  <2>1. Moves
    BY <1>0, <1>1 DEF SendStart, Idle
  <2> QED BY <1>1, <2>1, CallDurable DEF SendStart
<1>2. CASE SendRow(c)
  <2>1. Moves
    BY <1>0, <1>2 DEF SendRow, Enter, Call
  <2> QED BY <1>2, <2>1, CallDurable DEF SendRow
<1>3. CASE SendCreate(c)
  BY <1>3, MaxSeqIsMax, InsertDurable DEF SendCreate
<1>4. CASE SendMax(c)
  <2>1. Moves
    BY <1>0, <1>4 DEF SendMax, Call
  <2> QED BY <1>4, <2>1, CallDurable DEF SendMax
<1>5. CASE SendInsert(c)
  <2>1. call[c].seq \in Nat
    BY <1>0 DEF Call
  <2> QED BY <1>5, <2>1, InsertDurable DEF SendInsert
<1>6. CASE SendFailed(c)
  BY <1>6, LeaveMoves, CallDurable DEF SendFailed
<1> QED BY <1>1, <1>2, <1>3, <1>4, <1>5, <1>6 DEF SendNext

LEMMA ReceiveDurable ==
  ASSUME TypeInv, Durable, NEW c \in Clients, ReceiveNext(c)
  PROVE  Durable'
<1>0. call \in [Clients -> Call] /\ call[c] \in Call
  BY DEF TypeInv, ChannelTypeOK
<1> DEFINE Moves == /\ \A d \in Clients \ {c} : call'[d] = call[d]
                    /\ call'[c].at # "letterDelete"
<1>1. CASE ReceiveStart(c)
  <2>1. Moves
    BY <1>0, <1>1 DEF ReceiveStart, Idle
  <2> QED BY <1>1, <2>1, CallDurable DEF ReceiveStart
<1>2. CASE ReceiveRows(c)
  <2>1. PICK batch \in SUBSET Stored("main") :
          IF batch = {} THEN Leave(c)
          ELSE call' = [call EXCEPT ![c].at = "receiveWrite", ![c].todo = batch,
                                    ![c].seq = HighestSeq(batch)]
    BY <1>2, RowsRead
  <2>2. Moves
    BY <1>0, <2>1, LeaveMoves DEF Call
  <2> QED BY <1>2, <2>2, CallDurable DEF ReceiveRows
<1>3. CASE ReceiveWrite(c)
  <2>1. Moves
    BY <1>3, LeaveMoves DEF ReceiveWrite
  <2> QED
    BY <1>3, <2>1 DEF ReceiveWrite, Durable, LetterCopied, ReplayLosesNothing,
                      MessageHasChannel, rowVars
<1> QED BY <1>1, <1>2, <1>3 DEF ReceiveNext

LEMMA ReplayDurable ==
  ASSUME TypeInv, Durable, NEW c \in Clients, ReplayNext(c) \/ BulkNextStep(c)
  PROVE  Durable'
<1>0. call \in [Clients -> Call] /\ call[c] \in Call
  BY DEF TypeInv, ChannelTypeOK
<1> DEFINE Moves == /\ \A d \in Clients \ {c} : call'[d] = call[d]
                    /\ call'[c].at # "letterDelete"
<1>1. CASE ReplayStart(c)
  <2>1. Moves
    BY <1>0, <1>1 DEF ReplayStart, Idle
  <2> QED BY <1>1, <2>1, CallDurable DEF ReplayStart
<1>2. CASE ReplayDelete(c)
  <2> DEFINE gone == {call[c].letter} \cap Stored("dlq")
  <2>1. gone \in SUBSET Messages /\ gone \subseteq copied
    BY <1>2 DEF ReplayDelete, Stored, Durable, LetterCopied
  <2>2. ReplayLosesNothing' /\ MessageHasChannel'
    BY <1>2, <2>1, RemoveDurable DEF ReplayDelete
  <2>3. LetterCopied'
    BY <1>2, LeaveMoves DEF ReplayDelete, Durable, LetterCopied
  <2> QED BY <2>2, <2>3 DEF Durable
<1>3. CASE BulkStart(c)
  <2>1. Moves
    BY <1>0, <1>3 DEF BulkStart, Idle
  <2> QED BY <1>3, <2>1, CallDurable DEF BulkStart
<1>4. CASE BulkNext(c)
  <2>1. Moves
    BY <1>0, <1>4 DEF BulkNext, Call
  <2> QED BY <1>4, <2>1, CallDurable DEF BulkNext
<1>5. CASE BulkEnd(c)
  BY <1>5, LeaveMoves, CallDurable DEF BulkEnd
<1> QED BY <1>1, <1>2, <1>3, <1>4, <1>5 DEF ReplayNext, BulkNextStep

LEMMA DeletionDurable ==
  ASSUME TypeInv, Durable, NEW c \in Clients,
         DeleteChannelStart(c) \/ DeleteChannel(c) \/ AbortCall(c)
  PROVE  Durable'
<1>0. call \in [Clients -> Call] /\ call[c] \in Call
  BY DEF TypeInv, ChannelTypeOK
<1>1. CASE DeleteChannelStart(c)
  <2>1. (\A d \in Clients \ {c} : call'[d] = call[d]) /\ call'[c].at # "letterDelete"
    BY <1>0, <1>1 DEF DeleteChannelStart, Idle
  <2> QED BY <1>1, <2>1, CallDurable DEF DeleteChannelStart
<1>2. CASE DeleteChannel(c)
  <2>1. ReplayLosesNothing' /\ MessageHasChannel'
    BY <1>0, <1>2 DEF DeleteChannel, Remove, Stored, Durable, ReplayLosesNothing,
                      MessageHasChannel, Queues
  <2>2. LetterCopied'
    BY <1>2, LeaveMoves DEF DeleteChannel, Durable, LetterCopied
  <2> QED BY <2>1, <2>2 DEF Durable
<1>3. CASE AbortCall(c)
  BY <1>3, LeaveMoves, CallDurable DEF AbortCall
<1> QED BY <1>1, <1>2, <1>3

LEMMA DurableNext == TypeInv /\ Durable /\ [Next]_vars => Durable'
<1> SUFFICES ASSUME TypeInv, Durable, [Next]_vars PROVE Durable'
  OBVIOUS
<1>1. ASSUME NEW S \in SUBSET Messages, DeleteMessages(S) PROVE Durable'
  <2>1. ReplayLosesNothing' /\ MessageHasChannel'
    BY <1>1, RemoveDurable DEF DeleteMessages
  <2>2. LetterCopied'
    BY <1>1 DEF DeleteMessages, Durable, LetterCopied
  <2> QED BY <2>1, <2>2 DEF Durable
<1>2. CASE UNCHANGED vars
  BY <1>2 DEF vars, Durable, LetterCopied, ReplayLosesNothing, MessageHasChannel, rowVars
<1> QED
  BY <1>1, <1>2, SendDurable, ReceiveDurable, ReplayDurable, DeletionDurable DEF Next

THEOREM DurableInvariant == Spec => []Durable
<1>1. Init => Durable
  BY DEF Init, Durable, LetterCopied, ReplayLosesNothing, MessageHasChannel, Idle, Queues
<1> QED BY <1>1, DurableNext, TypeInvariant, PTL DEF Spec

(* No replay, however it is raced by deletions, refused or cut short,      *)
(* removes a dead letter of which no copy was stored.                      *)
THEOREM ReplaySafe == Spec => []ReplayLosesNothing
<1>1. Durable => ReplayLosesNothing
  BY DEF Durable
<1> QED BY <1>1, DurableInvariant, PTL

(* No message is ever stored without the row of its channel: deletions of  *)
(* the channel and slow senders do not leave one behind.                   *)
THEOREM NoStrayMessage == Spec => []MessageHasChannel
<1>1. Durable => MessageHasChannel
  BY DEF Durable
<1> QED BY <1>1, DurableInvariant, PTL

--------------------------------------------------------------------------------
(* What was returned to a consumer while no other receive of its name was  *)
(* under way, and is still stored.                                         *)
Clean(k) == {m \in seen[k] \ raced[k] : place[m] = "main"}

(* A receive in flight started at or above all of that, and ends at or     *)
(* above every row it returns that is still stored: what the cursor is     *)
(* when it writes does not matter.                                         *)
Reading(c) ==
  /\ call[c].at \in {"receiveRows", "receiveWrite"} =>
       /\ call[c].consumer \in Consumers
       /\ \A m \in Clean(call[c].consumer) : seq[m] <= call[c].seq
  /\ call[c].at = "receiveWrite" =>
       \A m \in call[c].todo :
         place[m] # "none" /\ (place[m] = "main" => seq[m] <= call[c].seq)

Delivered ==
  /\ RepeatNeedsOverlap
  /\ \A k \in Consumers : \A m \in seen[k] : place[m] # "none"
  /\ \A c \in Clients : Reading(c)

(* Handlers that do not receive.                                           *)
LEMMA OtherDelivered ==
  ASSUME TypeInv, Delivered, NEW c \in Clients, \A d \in Clients \ {c} : call'[d] = call[d],
         call'[c].at \notin {"receiveRows", "receiveWrite"},
         UNCHANGED <<channels, rowVars, consumerVars>>
  PROVE  Delivered'
  BY DEF Delivered, RepeatNeedsOverlap, Reading, Clean, rowVars, consumerVars

(* A new message was returned to nobody before it was stored.              *)
LEMMA InsertDelivered ==
  ASSUME TypeInv, Delivered, NEW c \in Clients, NEW n \in Nat, InsertMessage(c, n),
         UNCHANGED consumerVars
  PROVE  Delivered'
<1>0. ChannelTypeOK /\ call[c] \in Call /\ call[c].dest \in Queues
  BY DEF TypeInv, ChannelTypeOK, Call
<1>1. PICK m \in Messages : /\ place[m] = "none"
                            /\ place' = [place EXCEPT ![m] = call[c].dest]
                            /\ seq' = [seq EXCEPT ![m] = n + 1]
  BY DEF InsertMessage
<1>2. /\ \A d \in Clients \ {c} : call'[d] = call[d]
      /\ call'[c].at \in {"idle", "letterDelete"}
  <2>1. CASE call[c].letter = NULL
    BY <1>0, <2>1 DEF InsertMessage, Leave, Idle, ChannelTypeOK
  <2>2. CASE call[c].letter # NULL
    <3>1. call' = [call EXCEPT ![c].at = "letterDelete", ![c].seq = 0]
      BY <2>2 DEF InsertMessage
    <3> QED BY <1>0, <3>1 DEF ChannelTypeOK, Call
  <2> QED BY <2>1, <2>2
<1>3. RepeatNeedsOverlap' /\ \A k \in Consumers : \A j \in seen'[k] : place'[j] # "none"
  BY <1>0, <1>1 DEF Delivered, RepeatNeedsOverlap, consumerVars, ChannelTypeOK, Queues
<1>4. ASSUME NEW d \in Clients PROVE Reading(d)'
  <2>1. CASE d = c
    BY <1>2, <2>1 DEF Reading
  <2>2. CASE d # c
    <3>1. /\ call'[d] = call[d] /\ call[d] \in Call /\ Reading(d)
          /\ seen' = seen /\ raced' = raced
      BY <1>0, <1>2, <2>2 DEF Delivered, ChannelTypeOK, consumerVars
    <3>2. call[d].at = "receiveWrite" =>
            \A k \in call[d].todo : place'[k] = place[k] /\ seq'[k] = seq[k]
      BY <1>0, <1>1, <3>1 DEF Reading, Call, ChannelTypeOK
    <3>3. ASSUME NEW k \in Consumers
          PROVE  Clean(k)' = Clean(k) /\ \A j \in Clean(k) : seq'[j] = seq[j]
      <4>1. m \notin seen[k] /\ seen[k] \in SUBSET Messages
        BY <1>0, <1>1 DEF Delivered, ChannelTypeOK
      <4>2. \A j \in seen[k] : place'[j] = place[j] /\ seq'[j] = seq[j]
        BY <1>0, <1>1, <4>1 DEF ChannelTypeOK
      <4> QED BY <3>1, <4>2 DEF Clean
    <3> QED BY <3>1, <3>2, <3>3 DEF Reading
  <2> QED BY <2>1, <2>2
<1> QED BY <1>3, <1>4 DEF Delivered

(* A removed message is nobody's any more; a removed cursor goes with all  *)
(* the messages of the channel.                                            *)
LEMMA RemoveDelivered ==
  ASSUME TypeInv, Delivered, NEW rows \in SUBSET Messages, NEW how \in {"replayed", "deleted"},
         Remove(rows, how),
         cursor' = cursor \/ Stored("main") \subseteq rows,
         \A d \in Clients : \/ call'[d] = call[d]
                            \/ call'[d].at \notin {"receiveRows", "receiveWrite"}
  PROVE  Delivered'
<1>0. ChannelTypeOK
  BY DEF TypeInv
<1>1. RepeatNeedsOverlap'
  <2>1. CASE cursor' = cursor
    BY <1>0, <2>1 DEF Delivered, RepeatNeedsOverlap, Remove, ChannelTypeOK
  <2>2. CASE Stored("main") \subseteq rows
    BY <1>0, <2>2 DEF RepeatNeedsOverlap, Remove, ChannelTypeOK, Stored
  <2> QED BY <2>1, <2>2
<1>2. \A k \in Consumers : \A m \in seen'[k] : place'[m] # "none"
  BY <1>0 DEF Delivered, Remove, ChannelTypeOK
<1>3. ASSUME NEW d \in Clients, call'[d] = call[d] PROVE Reading(d)'
  <2>1. Reading(d) /\ call[d] \in Call
    BY <1>0 DEF Delivered, ChannelTypeOK
  <2>2. call[d].todo \in SUBSET Messages
    BY <2>1 DEF Call
  <2>3. \A m \in Messages : IF m \in rows THEN place'[m] = how
                                          ELSE place'[m] = place[m] /\ seq'[m] = seq[m]
    BY DEF Remove
  <2>4. ASSUME NEW k \in Consumers
        PROVE  \A m \in Clean(k)' : m \in Clean(k) /\ seq'[m] = seq[m]
    <3>1. /\ seen[k] \in SUBSET Messages
          /\ seen'[k] = seen[k] \ rows /\ raced'[k] = raced[k] \ rows
      BY <1>0 DEF Remove, ChannelTypeOK
    <3> QED BY <2>3, <3>1 DEF Clean
  <2> QED BY <1>3, <2>1, <2>2, <2>3, <2>4 DEF Reading
<1>4. ASSUME NEW d \in Clients PROVE Reading(d)'
  BY <1>3 DEF Reading
<1> QED BY <1>1, <1>2, <1>4 DEF Delivered

LEMMA SendDelivered ==
  ASSUME TypeInv, Delivered, NEW c \in Clients, SendNext(c)
  PROVE  Delivered'
<1>0. call \in [Clients -> Call] /\ call[c] \in Call
  BY DEF TypeInv, ChannelTypeOK
<1> DEFINE Moves == /\ \A d \in Clients \ {c} : call'[d] = call[d]
                    /\ call'[c].at \notin {"receiveRows", "receiveWrite"}
<1>1. CASE SendStart(c)
  <2>1. Moves
    BY <1>0, <1>1 DEF SendStart, Idle
  <2> QED BY <1>1, <2>1, OtherDelivered DEF SendStart
<1>2. CASE SendRow(c)
  <2>1. Moves
    BY <1>0, <1>2 DEF SendRow, Enter, Call
  <2> QED BY <1>2, <2>1, OtherDelivered DEF SendRow
<1>3. CASE SendCreate(c)
  BY <1>3, MaxSeqIsMax, InsertDelivered DEF SendCreate
<1>4. CASE SendMax(c)
  <2>1. Moves
    BY <1>0, <1>4 DEF SendMax, Call
  <2> QED BY <1>4, <2>1, OtherDelivered DEF SendMax
<1>5. CASE SendInsert(c)
  <2>1. call[c].seq \in Nat
    BY <1>0 DEF Call
  <2> QED BY <1>5, <2>1, InsertDelivered DEF SendInsert
<1>6. CASE SendFailed(c)
  BY <1>6, LeaveMoves, OtherDelivered DEF SendFailed
<1> QED BY <1>1, <1>2, <1>3, <1>4, <1>5, <1>6 DEF SendNext

LEMMA ReceiveDelivered ==
  ASSUME TypeInv, Delivered, NEW c \in Clients, ReceiveNext(c), Sinces = {}
  PROVE  Delivered'
<1>0. ChannelTypeOK /\ call[c] \in Call
  BY DEF TypeInv, ChannelTypeOK
<1>1. CASE ReceiveStart(c)
  <2>1. PICK k \in Consumers :
          call' = [call EXCEPT ![c] = [Idle EXCEPT !.at = "receiveRows", !.consumer = k,
                                                   !.seq = cursor[k]]]
    BY <1>1 DEF ReceiveStart
  <2>2. /\ call'[c].at = "receiveRows" /\ call'[c].consumer = k /\ call'[c].seq = cursor[k]
        /\ \A d \in Clients \ {c} : call'[d] = call[d]
    BY <1>0, <2>1 DEF Idle, ChannelTypeOK
  <2>3. UNCHANGED <<channels, rowVars, consumerVars>>
    BY <1>1 DEF ReceiveStart
  <2>4. \A m \in Clean(k) : seq[m] <= cursor[k]
    BY <1>0 DEF Clean, Delivered, RepeatNeedsOverlap, ChannelTypeOK
  <2>5. Reading(c)'
    BY <2>2, <2>3, <2>4 DEF Reading, Clean, rowVars, consumerVars
  <2> QED
    BY <2>2, <2>3, <2>5 DEF Delivered, RepeatNeedsOverlap, Reading, Clean, rowVars, consumerVars
<1>2. CASE ReceiveRows(c)
  <2>1. PICK batch \in SUBSET Stored("main") :
          /\ \A m \in batch : seq[m] > call[c].seq
          /\ IF batch = {} THEN Leave(c)
             ELSE call' = [call EXCEPT ![c].at = "receiveWrite", ![c].todo = batch,
                                       ![c].seq = HighestSeq(batch)]
    BY <1>2, RowsRead
  <2>2. CASE batch = {}
    BY <1>0, <1>2, <2>1, <2>2, OtherDelivered DEF ReceiveRows, Leave, Idle, ChannelTypeOK
  <2>3. CASE batch # {}
    <3>1. /\ call'[c].at = "receiveWrite" /\ call'[c].todo = batch
          /\ call'[c].seq = HighestSeq(batch) /\ call'[c].consumer = call[c].consumer
          /\ \A d \in Clients \ {c} : call'[d] = call[d]
      BY <1>0, <2>1, <2>3 DEF ChannelTypeOK, Call
    <3>2. batch \in SUBSET Messages
      BY DEF Stored
    <3>3. PICK top \in batch : HighestSeq(batch) = seq[top]
      BY <2>3, <3>2, HighestSeqIsMax
    <3>4. call[c].seq \in Nat /\ seq[top] \in Nat /\ call[c].seq < seq[top]
      BY <1>0, <2>1, <3>2 DEF ChannelTypeOK, Call
    <3>5. /\ call[c].consumer \in Consumers
          /\ \A m \in Clean(call[c].consumer) : seq[m] <= call[c].seq
      BY <1>2 DEF ReceiveRows, Delivered, Reading
    <3>6. \A m \in Clean(call[c].consumer) : seq[m] <= HighestSeq(batch)
      <4>1. \A m \in Clean(call[c].consumer) : seq[m] \in Nat
        BY <1>0, <3>5 DEF Clean, ChannelTypeOK
      <4> QED BY <3>3, <3>4, <3>5, <4>1
    <3>7. \A m \in batch : place[m] # "none" /\ seq[m] <= HighestSeq(batch)
      BY <2>3, <3>2, HighestSeqIsMax DEF Stored
    <3>8. UNCHANGED <<channels, rowVars, consumerVars>>
      BY <1>2 DEF ReceiveRows
    <3>9. Reading(c)'
      BY <3>1, <3>5, <3>6, <3>7, <3>8 DEF Reading, Clean, rowVars, consumerVars
    <3> QED
      BY <3>1, <3>8, <3>9 DEF Delivered, RepeatNeedsOverlap, Reading, Clean,
         rowVars, consumerVars
  <2> QED BY <2>2, <2>3
<1>3. CASE ReceiveWrite(c)
  <2> DEFINE k == call[c].consumer
             todo == call[c].todo
  <2>1. (\A d \in Clients \ {c} : call'[d] = call[d]) /\ call'[c].at = "idle"
    BY <1>0, <1>3 DEF ReceiveWrite, Leave, Idle, ChannelTypeOK
  <2>2. /\ k \in Consumers /\ \A m \in Clean(k) : seq[m] <= call[c].seq
        /\ \A m \in todo : place[m] # "none" /\ (place[m] = "main" => seq[m] <= call[c].seq)
    BY <1>3 DEF ReceiveWrite, Delivered, Reading
  <2>3. /\ place' = place /\ seq' = seq /\ cursor'[k] = call[c].seq
        /\ seen'[k] = seen[k] \cup todo /\ raced[k] \subseteq raced'[k]
        /\ \A j \in Consumers \ {k} :
             cursor'[j] = cursor[j] /\ seen'[j] = seen[j] /\ raced'[j] = raced[j]
    BY <1>0, <1>3, <2>2 DEF ReceiveWrite, ChannelTypeOK, rowVars
  <2>4. RepeatNeedsOverlap'
    <3>1. ASSUME NEW m \in Messages, place[m] = "main", m \in seen'[k] \ raced'[k]
          PROVE  seq[m] <= cursor'[k]
      BY <2>2, <2>3, <3>1 DEF Clean
    <3> QED BY <2>3, <3>1 DEF Delivered, RepeatNeedsOverlap
  <2>5. \A j \in Consumers : \A m \in seen'[j] : place'[m] # "none"
    BY <2>2, <2>3 DEF Delivered
  <2>6. ASSUME NEW d \in Clients PROVE Reading(d)'
    <3>1. CASE d = c
      BY <2>1, <3>1 DEF Reading
    <3>2. CASE d # c /\ call[d].at \in {"receiveRows", "receiveWrite"}
      <4>1. call'[d] = call[d] /\ Reading(d) /\ call[d].consumer \in Consumers
        BY <2>1, <3>2 DEF Delivered, Reading
      <4>2. call[d].consumer = k => raced'[k] = raced[k] \cup todo
        BY <1>0, <1>3, <2>2, <3>2 DEF ReceiveWrite, Receiving, ChannelTypeOK
      <4>3. Clean(call[d].consumer)' \subseteq Clean(call[d].consumer)
        BY <2>3, <4>1, <4>2 DEF Clean
      <4> QED BY <2>3, <4>1, <4>3 DEF Reading
    <3>3. CASE d # c /\ call[d].at \notin {"receiveRows", "receiveWrite"}
      BY <2>1, <3>3 DEF Reading
    <3> QED BY <3>1, <3>2, <3>3
  <2> QED BY <2>4, <2>5, <2>6 DEF Delivered
<1> QED BY <1>1, <1>2, <1>3 DEF ReceiveNext

LEMMA ReplayDelivered ==
  ASSUME TypeInv, Delivered, NEW c \in Clients, ReplayNext(c) \/ BulkNextStep(c)
  PROVE  Delivered'
<1>0. call \in [Clients -> Call] /\ call[c] \in Call
  BY DEF TypeInv, ChannelTypeOK
<1> DEFINE Moves == /\ \A d \in Clients \ {c} : call'[d] = call[d]
                    /\ call'[c].at \notin {"receiveRows", "receiveWrite"}
<1>1. CASE ReplayStart(c)
  <2>1. Moves
    BY <1>0, <1>1 DEF ReplayStart, Idle
  <2> QED BY <1>1, <2>1, OtherDelivered DEF ReplayStart
<1>2. CASE ReplayDelete(c)
  <2> DEFINE gone == {call[c].letter} \cap Stored("dlq")
  <2>1. gone \in SUBSET Messages
    BY DEF Stored
  <2>2. Moves
    BY <1>2, LeaveMoves DEF ReplayDelete
  <2>3. /\ Remove(gone, "replayed") /\ cursor' = cursor
        /\ \A d \in Clients : \/ call'[d] = call[d]
                              \/ call'[d].at \notin {"receiveRows", "receiveWrite"}
    BY <1>2, <2>2 DEF ReplayDelete
  <2> HIDE DEF gone
  <2> QED BY <1>0, <2>1, <2>3, RemoveDelivered
<1>3. CASE BulkStart(c)
  <2>1. Moves
    BY <1>0, <1>3 DEF BulkStart, Idle
  <2> QED BY <1>3, <2>1, OtherDelivered DEF BulkStart
<1>4. CASE BulkNext(c)
  <2>1. Moves
    BY <1>0, <1>4 DEF BulkNext, Call
  <2> QED BY <1>4, <2>1, OtherDelivered DEF BulkNext
<1>5. CASE BulkEnd(c)
  BY <1>5, LeaveMoves, OtherDelivered DEF BulkEnd
<1> QED BY <1>1, <1>2, <1>3, <1>4, <1>5 DEF ReplayNext, BulkNextStep

LEMMA DeletionDelivered ==
  ASSUME TypeInv, Delivered, NEW c \in Clients,
         DeleteChannelStart(c) \/ DeleteChannel(c) \/ AbortCall(c)
  PROVE  Delivered'
<1>0. call \in [Clients -> Call] /\ call[c] \in Call
  BY DEF TypeInv, ChannelTypeOK
<1>1. CASE DeleteChannelStart(c)
  <2>1. /\ \A d \in Clients \ {c} : call'[d] = call[d]
        /\ call'[c].at \notin {"receiveRows", "receiveWrite"}
    BY <1>0, <1>1 DEF DeleteChannelStart, Idle
  <2> QED BY <1>1, <2>1, OtherDelivered DEF DeleteChannelStart
<1>2. CASE DeleteChannel(c)
  <2> DEFINE gone == Stored(call[c].dest)
  <2>1. gone \in SUBSET Messages
    BY DEF Stored
  <2>2. /\ Remove(gone, "deleted")
        /\ \A d \in Clients : \/ call'[d] = call[d]
                              \/ call'[d].at \notin {"receiveRows", "receiveWrite"}
    BY <1>2, LeaveMoves DEF DeleteChannel
  <2>3. cursor' = cursor \/ Stored("main") \subseteq gone
    BY <1>0, <1>2 DEF DeleteChannel
  <2> HIDE DEF gone
  <2> QED BY <2>1, <2>2, <2>3, RemoveDelivered
<1>3. CASE AbortCall(c)
  BY <1>3, LeaveMoves, OtherDelivered DEF AbortCall
<1> QED BY <1>1, <1>2, <1>3

LEMMA DeliveredNext ==
  ASSUME Sinces = {}
  PROVE  TypeInv /\ Delivered /\ [Next]_vars => Delivered'
<1> SUFFICES ASSUME TypeInv, Delivered, [Next]_vars PROVE Delivered'
  OBVIOUS
<1>1. ASSUME NEW S \in SUBSET Messages, DeleteMessages(S) PROVE Delivered'
  BY <1>1, RemoveDelivered DEF DeleteMessages, TypeInv, ChannelTypeOK
<1>2. CASE UNCHANGED vars
  BY <1>2 DEF vars, Delivered, RepeatNeedsOverlap, Reading, Clean, rowVars, consumerVars
<1> QED
  BY <1>1, <1>2, SendDelivered, ReceiveDelivered, ReplayDelivered, DeletionDelivered DEF Next

(* As long as no consumer rewinds, a message comes to one consumer a       *)
(* second time only if it was first returned while another receive of the  *)
(* consumer was under way: what it got otherwise stays at or below its     *)
(* cursor, although late receives move the cursor back, seqs are given out *)
(* again and channels are deleted and created anew.                        *)
THEOREM RepeatsAreRaced ==
  ASSUME Sinces = {}
  PROVE  Spec => []RepeatNeedsOverlap
<1>1. Init => Delivered
  BY DEF Init, Delivered, RepeatNeedsOverlap, Reading, Idle
<1>2. Delivered => RepeatNeedsOverlap
  BY DEF Delivered
<1> QED BY <1>1, <1>2, DeliveredNext, TypeInvariant, PTL DEF Spec
--------------------------------------------------------------------------------
(* A sender about to insert holds a MAX(seq) no smaller than the seq of    *)
(* any message of its own in the channel: only it inserts those.           *)
Ordered ==
  \A c \in Clients : call[c].at = "insert" =>
    \A n \in Messages : place[n] = call[c].dest /\ author[n] = c => seq[n] <= call[c].seq

InOrder ==
  \A m, n \in Messages :
    place[m] = "none" /\ place'[m] \in Queues
    /\ place[n] = place'[m] /\ author[n] = author'[m] => seq[n] < seq'[m]

(* A step that stores no message and reads no MAX(seq).                    *)
Quiet ==
  /\ \A m \in Messages : place'[m] \in Queues =>
       place'[m] = place[m] /\ seq'[m] = seq[m] /\ author'[m] = author[m]
  /\ \A d \in Clients : call'[d] = call[d] \/ call'[d].at # "insert"

LEMMA QuietOrdered ==
  ASSUME TypeInv, Ordered, Quiet
  PROVE  Ordered' /\ InOrder
<1>1. \A d \in Clients : call[d].dest \in Queues
  BY DEF TypeInv, ChannelTypeOK, Call
<1>2. Ordered'
  BY <1>1 DEF Quiet, Ordered
<1>3. InOrder
  BY DEF Quiet, InOrder, Queues
<1> QED BY <1>2, <1>3

LEMMA InsertOrdered ==
  ASSUME TypeInv, Ordered, NEW c \in Clients, NEW b \in Nat, InsertMessage(c, b),
         \A n \in Messages : place[n] = call[c].dest /\ author[n] = c => seq[n] <= b
  PROVE  Ordered' /\ InOrder
<1>0. /\ ChannelTypeOK /\ call[c] \in Call /\ call[c].dest \in Queues
      /\ \A m \in Messages : seq[m] \in Nat
  BY DEF TypeInv, ChannelTypeOK, Call
<1>1. PICK m \in Messages : /\ place[m] = "none"
                            /\ place' = [place EXCEPT ![m] = call[c].dest]
                            /\ seq' = [seq EXCEPT ![m] = b + 1]
                            /\ author' = [author EXCEPT ![m] = c]
  BY DEF InsertMessage
<1>2. \A d \in Clients : d # c => call'[d] = call[d]
  BY <1>0 DEF InsertMessage, Leave, ChannelTypeOK
<1>3. call'[c].at # "insert"
  <2>1. CASE call[c].letter = NULL
    BY <1>0, <2>1 DEF InsertMessage, Leave, Idle, ChannelTypeOK
  <2>2. CASE call[c].letter # NULL
    <3>1. call' = [call EXCEPT ![c].at = "letterDelete", ![c].seq = 0]
      BY <2>2 DEF InsertMessage
    <3> QED BY <1>0, <3>1 DEF ChannelTypeOK, Call
  <2> QED BY <2>1, <2>2
<1>4. Ordered'
  <2> SUFFICES ASSUME NEW d \in Clients, call'[d].at = "insert",
                      NEW n \in Messages, place'[n] = call'[d].dest, author'[n] = d
               PROVE  seq'[n] <= call'[d].seq
    BY DEF Ordered
  <2>1. d # c /\ call'[d] = call[d]
    BY <1>2, <1>3
  <2>2. n # m
    BY <1>0, <1>1, <2>1 DEF ChannelTypeOK
  <2>3. place'[n] = place[n] /\ seq'[n] = seq[n] /\ author'[n] = author[n]
    BY <1>0, <1>1, <2>2 DEF ChannelTypeOK
  <2> QED BY <2>1, <2>3 DEF Ordered
<1>5. InOrder
  <2> SUFFICES ASSUME NEW k \in Messages, NEW n \in Messages, place[k] = "none",
                      place'[k] \in Queues, place[n] = place'[k], author[n] = author'[k]
               PROVE  seq[n] < seq'[k]
    BY DEF InOrder
  <2>1. k = m
    BY <1>0, <1>1 DEF ChannelTypeOK, Queues
  <2>2. place'[k] = call[c].dest /\ author'[k] = c /\ seq'[k] = b + 1
    BY <1>0, <1>1, <2>1 DEF ChannelTypeOK
  <2>3. seq[n] <= b
    BY <2>2
  <2> QED BY <1>0, <2>2, <2>3
<1> QED BY <1>4, <1>5

LEMMA SendOrdered ==
  ASSUME TypeInv, Ordered, NEW c \in Clients, SendNext(c)
  PROVE  Ordered' /\ InOrder
<1>0. call \in [Clients -> Call] /\ call[c] \in Call
  BY DEF TypeInv, ChannelTypeOK
<1>1. CASE SendStart(c)
  <2>1. Quiet
    BY <1>0, <1>1 DEF SendStart, Quiet, Idle, rowVars
  <2> QED BY <2>1, QuietOrdered
<1>2. CASE SendRow(c)
  <2>1. call' = [call EXCEPT ![c].at = "max"] \/ call' = [call EXCEPT ![c].at = "create"]
    BY <1>2 DEF SendRow, Enter
  <2>2. Quiet
    BY <1>0, <1>2, <2>1 DEF SendRow, Quiet, Call, rowVars
  <2> QED BY <2>2, QuietOrdered
<1>3. CASE SendCreate(c)
  <2> DEFINE b == MaxSeq(call[c].dest)
  <2>1. b \in Nat /\ \A n \in Messages : place[n] = call[c].dest => seq[n] <= b
    BY MaxSeqIsMax DEF Stored
  <2>2. InsertMessage(c, b)
    BY <1>3 DEF SendCreate
  <2> HIDE DEF b
  <2> QED BY <2>1, <2>2, InsertOrdered
<1>4. CASE SendMax(c)
  <2> DEFINE b == MaxSeq(call[c].dest)
  <2>1. b \in Nat /\ \A n \in Messages : place[n] = call[c].dest => seq[n] <= b
    BY MaxSeqIsMax DEF Stored
  <2>2. /\ call'[c].dest = call[c].dest /\ call'[c].seq = b
        /\ \A d \in Clients : d # c => call'[d] = call[d]
    BY <1>0, <1>4 DEF SendMax, Call
  <2>3. UNCHANGED <<place, seq, author>>
    BY <1>4 DEF SendMax, rowVars
  <2> HIDE DEF b
  <2>4. Ordered'
    BY <2>1, <2>2, <2>3 DEF Ordered
  <2>5. InOrder
    BY <2>3 DEF InOrder, Queues
  <2> QED BY <2>4, <2>5
<1>5. CASE SendInsert(c)
  <2>1. call[c].seq \in Nat /\ InsertMessage(c, call[c].seq)
    BY <1>0, <1>5 DEF SendInsert, Call
  <2>2. \A n \in Messages :
          place[n] = call[c].dest /\ author[n] = c => seq[n] <= call[c].seq
    BY <1>5 DEF SendInsert, Ordered
  <2> QED BY <2>1, <2>2, InsertOrdered
<1>6. CASE SendFailed(c)
  <2>1. Quiet
    BY <1>6, LeaveMoves DEF SendFailed, Quiet, rowVars
  <2> QED BY <2>1, QuietOrdered
<1> QED BY <1>1, <1>2, <1>3, <1>4, <1>5, <1>6 DEF SendNext

(* Every other handler, and a DELETE of messages, is quiet.                *)
LEMMA RemoveQuiet ==
  ASSUME TypeInv, NEW rows \in SUBSET Messages, NEW how \in {"replayed", "deleted"},
         Remove(rows, how),
         \A d \in Clients : call'[d] = call[d] \/ call'[d].at # "insert"
  PROVE  Quiet
  BY DEF Remove, Quiet, Queues

LEMMA OthersQuiet ==
  ASSUME TypeInv, NEW c \in Clients,
         \/ ReceiveNext(c) \/ ReplayNext(c) \/ BulkNextStep(c)
         \/ DeleteChannelStart(c) \/ DeleteChannel(c) \/ AbortCall(c)
  PROVE  Quiet
<1>0. call \in [Clients -> Call] /\ call[c] \in Call
  BY DEF TypeInv, ChannelTypeOK
<1> DEFINE Moves == \A d \in Clients : call'[d] = call[d] \/ call'[d].at # "insert"
<1>1. CASE ReceiveStart(c)
  BY <1>0, <1>1 DEF ReceiveStart, Quiet, Idle, rowVars
<1>2. CASE ReceiveRows(c)
  <2>1. PICK batch \in SUBSET Stored("main") :
          IF batch = {} THEN Leave(c)
          ELSE call' = [call EXCEPT ![c].at = "receiveWrite", ![c].todo = batch,
                                    ![c].seq = HighestSeq(batch)]
    BY <1>2, RowsRead
  <2>2. CASE batch = {}
    BY <1>2, <2>1, <2>2, LeaveMoves DEF ReceiveRows, Quiet, rowVars
  <2>3. CASE batch # {}
    <3>1. Moves
      BY <1>0, <2>1, <2>3 DEF Call
    <3> QED BY <1>2, <3>1 DEF ReceiveRows, Quiet, rowVars
  <2> QED BY <2>2, <2>3
<1>3. CASE ReceiveWrite(c)
  BY <1>3, LeaveMoves DEF ReceiveWrite, Quiet, rowVars
<1>4. CASE ReplayStart(c)
  BY <1>0, <1>4 DEF ReplayStart, Quiet, Idle, rowVars
<1>5. CASE ReplayDelete(c)
  <2> DEFINE gone == {call[c].letter} \cap Stored("dlq")
  <2>1. gone \in SUBSET Messages /\ Remove(gone, "replayed") /\ Moves
    BY <1>5, LeaveMoves DEF ReplayDelete, Stored
  <2> HIDE DEF gone
  <2> QED BY <2>1, RemoveQuiet
<1>6. CASE BulkStart(c)
  BY <1>0, <1>6 DEF BulkStart, Quiet, Idle, rowVars
<1>7. CASE BulkNext(c)
  <2>1. Moves
    BY <1>0, <1>7 DEF BulkNext, Call
  <2> QED BY <1>7, <2>1 DEF BulkNext, Quiet, rowVars
<1>8. CASE BulkEnd(c)
  BY <1>8, LeaveMoves DEF BulkEnd, Quiet, rowVars
<1>9. CASE DeleteChannelStart(c)
  BY <1>0, <1>9 DEF DeleteChannelStart, Quiet, Idle, rowVars
<1>10. CASE DeleteChannel(c)
  <2> DEFINE gone == Stored(call[c].dest)
  <2>1. gone \in SUBSET Messages /\ Remove(gone, "deleted") /\ Moves
    BY <1>10, LeaveMoves DEF DeleteChannel, Stored
  <2> HIDE DEF gone
  <2> QED BY <2>1, RemoveQuiet
<1>11. CASE AbortCall(c)
  BY <1>11, LeaveMoves DEF AbortCall, Quiet, rowVars
<1> QED
  BY <1>1, <1>2, <1>3, <1>4, <1>5, <1>6, <1>7, <1>8, <1>9, <1>10, <1>11
     DEF ReceiveNext, ReplayNext, BulkNextStep

LEMMA OrderedNext == TypeInv /\ Ordered /\ [Next]_vars => Ordered' /\ InOrder
<1> SUFFICES ASSUME TypeInv, Ordered, [Next]_vars PROVE Ordered' /\ InOrder
  OBVIOUS
<1>1. ASSUME NEW S \in SUBSET Messages, DeleteMessages(S) PROVE Quiet
  BY <1>1, RemoveQuiet DEF DeleteMessages
<1>2. CASE UNCHANGED vars
  <2>1. Quiet
    BY <1>2 DEF vars, Quiet, rowVars
  <2> QED BY <2>1, QuietOrdered
<1> QED
  BY <1>1, <1>2, SendOrdered, OthersQuiet, QuietOrdered DEF Next

(* FIFO per sender: however senders interleave, whatever is deleted or     *)
(* replayed, a message is stored above every message of its sender that is *)
(* still in the channel.                                                   *)
THEOREM SendersInOrder == Spec => SenderOrder
<1>1. Init => Ordered
  BY DEF Init, Ordered, Idle
<1>2. TypeInv /\ Ordered /\ [Next]_vars => [InOrder]_vars
  BY OrderedNext
<1>3. SenderOrder <=> [][InOrder]_vars
  BY DEF SenderOrder, InOrder
<1> QED BY <1>1, <1>2, <1>3, OrderedNext, TypeInvariant, PTL DEF Spec
================================================================================
