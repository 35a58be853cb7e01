------------------------------ MODULE Transactions ------------------------------
(***************************************************************************)
(* Saga transactions of the gateway (transactions.py, transactions_api.py):*)
(* calls are added to a pending transaction; commit runs their tools in    *)
(* order of seq and, when one fails, the compensations of those that ran,  *)
(* in reverse; rollback runs the compensations only.                       *)
(*                                                                         *)
(* Every statement of the store commits by itself, so each read, write and *)
(* tool invocation is a step of its own, in which handlers in flight (`h') *)
(* interleave and after which they may be lost.  One transaction stands    *)
(* for all: they share no rows.  The tools and the result cache are the    *)
(* outside world: a tool may take effect and its answer be lost, and the   *)
(* cache may answer in its place.                                          *)
(***************************************************************************)
EXTENDS Naturals

CONSTANTS Handlers,   \* API calls in flight at the same time
          Calls,      \* rows of transaction_calls that may be created
          Losses,     \* whether a handler may be lost: a set of BOOLEAN
          NULL

ASSUME TransactionAssumption == NULL \notin Calls /\ Losses \subseteq BOOLEAN

VARIABLES
  tx,       \* transactions.status; "deleted" once the row is gone
  status,   \* transaction_calls.status; "none" before the row exists
  seq,      \* transaction_calls.seq
  comp,     \* whether the call has a compensation_spec
  ran,      \* outside world: how often the tool of a call took effect
  undone,   \* outside world: how often its compensation took effect
  hits,     \* calls that the cache answered instead of their tool
  undoHits, \* calls whose compensation it answered instead
  h,        \* the handlers in flight
  alone     \* history: no two handlers were ever in flight together

rows == <<status, seq, comp>>
world == <<ran, undone, hits, undoHits>>
vars == <<tx, rows, world, h, alone>>

TxStatuses == {"pending", "committing", "committed", "compensating", "rolled_back", "deleted"}
CallStatuses == {"none", "pending", "running", "committed", "compensating",
                 "compensated", "failed", "deleted"}
Points == {"idle", "addSeq", "addInsert", "deleteCalls", "deleteTx",
           "commitCalls", "commitMark", "next", "invoke", "record", "recordFailed",
           "rollbackEmpty", "rollbackCalls", "undoMark", "undoNext", "undoInvoke", "undoRecord"}
Handler == [at   : Points,
            todo : SUBSET Calls,      \* calls still to run, or to compensate
            done : SUBSET Calls,      \* committed_calls
            call : Calls \cup {NULL}, \* the call being run or compensated
            seq  : Nat]               \* MAX(seq) + 1 as read

Idle == [at |-> "idle", todo |-> {}, done |-> {}, call |-> NULL, seq |-> 0]

Rows == {c \in Calls : status[c] \notin {"none", "deleted"}}

(* The columns and the handlers have values of their types.                *)
SagaTypeOK ==
  /\ tx \in TxStatuses
  /\ status \in [Calls -> CallStatuses]
  /\ seq \in [Calls -> Nat]
  /\ comp \in [Calls -> BOOLEAN]
  /\ ran \in [Calls -> Nat]
  /\ undone \in [Calls -> Nat]
  /\ hits \subseteq Calls /\ undoHits \subseteq Calls
  /\ h \in [Handlers -> Handler]
  /\ alone \in BOOLEAN

(* The transaction was just created.                                       *)
Init ==
  /\ tx = "pending"
  /\ status = [c \in Calls |-> "none"]
  /\ seq = [c \in Calls |-> 0]
  /\ comp = [c \in Calls |-> FALSE]
  /\ ran = [c \in Calls |-> 0]
  /\ undone = [c \in Calls |-> 0]
  /\ hits = {} /\ undoHits = {}
  /\ h = [x \in Handlers |-> Idle]
  /\ alone = TRUE

--------------------------------------------------------------------------------
Enter(x, at) == h' = [h EXCEPT ![x].at = at]
Leave(x) == h' = [h EXCEPT ![x] = Idle]

(* UPDATE ... WHERE id = ?: nothing happens to a row that is gone.         *)
SetTx(s) == tx' = IF tx = "deleted" THEN tx ELSE s
SetCall(c, s) == status' = [status EXCEPT ![c] = IF @ = "deleted" THEN @ ELSE s]

(* A handler starts by reading the transaction row; it goes on only in the *)
(* statuses given.                                                         *)
Start(x, allowed, at) ==
  /\ h[x].at = "idle"
  /\ tx \in allowed
  /\ h' = [h EXCEPT ![x] = [Idle EXCEPT !.at = at]]
  /\ alone' = (alone /\ \A y \in Handlers : h[y].at = "idle")
  /\ UNCHANGED <<tx, rows, world>>

--------------------------------------------------------------------------------
(* POST .../calls: read MAX(seq) + 1, insert; UNIQUE (tx_id, seq) and the  *)
(* foreign key may refuse the row.                                         *)
AddStart(x) == Start(x, {"pending"}, "addSeq")

NextSeq == CHOOSE n \in {0} \cup {seq[c] + 1 : c \in Rows} : \A c \in Rows : seq[c] < n

AddSeq(x) ==
  /\ h[x].at = "addSeq"
  /\ h' = [h EXCEPT ![x].at = "addInsert", ![x].seq = NextSeq]
  /\ UNCHANGED <<tx, rows, world, alone>>

Insertable(n) == tx # "deleted" /\ \A c \in Rows : seq[c] # n

AddInsert(x) ==
  /\ h[x].at = "addInsert"
  /\ Insertable(h[x].seq)
  /\ \E c \in Calls, undo \in BOOLEAN :
       /\ status[c] = "none"
       /\ status' = [status EXCEPT ![c] = "pending"]
       /\ seq' = [seq EXCEPT ![c] = h[x].seq]
       /\ comp' = [comp EXCEPT ![c] = undo]
  /\ Leave(x)
  /\ UNCHANGED <<tx, world, alone>>

AddRefused(x) ==
  /\ h[x].at = "addInsert"
  /\ ~Insertable(h[x].seq)
  /\ Leave(x)
  /\ UNCHANGED <<tx, rows, world, alone>>

(* DELETE .../{tx_id}: first the calls, then the transaction, which the    *)
(* foreign key keeps if a call was added in between.                       *)
DeleteStart(x) == Start(x, {"pending", "rolled_back"}, "deleteCalls")

DeleteCalls(x) ==
  /\ h[x].at = "deleteCalls"
  /\ status' = [c \in Calls |-> IF c \in Rows THEN "deleted" ELSE status[c]]
  /\ Enter(x, "deleteTx")
  /\ UNCHANGED <<tx, seq, comp, world, alone>>

DeleteTx(x) ==
  /\ h[x].at = "deleteTx"
  /\ IF Rows = {} THEN SetTx("deleted") ELSE UNCHANGED tx
  /\ Leave(x)
  /\ UNCHANGED <<rows, world, alone>>

--------------------------------------------------------------------------------
(* POST .../commit: read the calls, mark the transaction.                  *)
CommitStart(x) == Start(x, {"pending"}, "commitCalls")

CommitCalls(x) ==
  /\ h[x].at = "commitCalls"
  /\ h' = [h EXCEPT ![x].at = "commitMark", ![x].todo = Rows]
  /\ UNCHANGED <<tx, rows, world, alone>>

CommitMark(x) ==
  /\ h[x].at = "commitMark"
  /\ SetTx("committing")
  /\ Enter(x, "next")
  /\ UNCHANGED <<rows, world, alone>>

MutFirst(S) == CHOOSE c \in S : \A d \in S : seq[d] <= seq[c]   \* mutant: order reversed
First(S) == CHOOSE c \in S : \A d \in S : seq[c] <= seq[d]
MutLast(S) == CHOOSE c \in S : \A d \in S : seq[c] <= seq[d]    \* mutant: not reversed
Last(S) == CHOOSE c \in S : \A d \in S : seq[d] <= seq[c]

(* The next call in order of seq is marked running; when its arguments     *)
(* cannot be rendered it is marked failed instead.                         *)
RunNext(x) ==
  LET c == First(h[x].todo) IN
  /\ h[x].at = "next"
  /\ h[x].todo # {}
  /\ \/ /\ SetCall(c, "running")
        /\ h' = [h EXCEPT ![x].at = "invoke", ![x].call = c, ![x].todo = @ \ {c}]
     \/ /\ SetCall(c, "failed")
        /\ h' = [h EXCEPT ![x].at = "undoMark", ![x].todo = {}]
  /\ UNCHANGED <<tx, seq, comp, world, alone>>

(* The tool answers, or the cache in its place; or the invocation fails:   *)
(* refused before it reaches the tool, or timed out, cut off or answered   *)
(* badly, when the tool may have taken effect all the same.                *)
Invoke(x) ==
  LET c == h[x].call IN
  /\ h[x].at = "invoke"
  /\ \/ /\ ran' = [ran EXCEPT ![c] = @ + 1] /\ UNCHANGED hits
        /\ Enter(x, "record") \/ Enter(x, "recordFailed")
     \/ UNCHANGED ran /\ hits' = hits \cup {c} /\ Enter(x, "record")
     \/ UNCHANGED <<ran, hits>> /\ Enter(x, "recordFailed")
  /\ UNCHANGED <<tx, rows, undone, undoHits, alone>>

MutRecordCommitted(x) ==   \* mutant: committed_calls is not appended to
  /\ h[x].at = "record"
  /\ h' = [h EXCEPT ![x].at = "next", ![x].call = NULL]
  /\ SetCall(h[x].call, "committed")
  /\ UNCHANGED <<tx, seq, comp, world, alone>>
RecordCommitted(x) ==
  /\ h[x].at = "record"
  /\ h' = [h EXCEPT ![x].at = "next", ![x].call = NULL, ![x].done = @ \cup {h[x].call}]
  /\ SetCall(h[x].call, "committed")
  /\ UNCHANGED <<tx, seq, comp, world, alone>>

RecordFailed(x) ==
  /\ h[x].at = "recordFailed"
  /\ SetCall(h[x].call, "failed")
  /\ h' = [h EXCEPT ![x].at = "undoMark", ![x].call = NULL, ![x].todo = {}]
  /\ UNCHANGED <<tx, seq, comp, world, alone>>

CommitEnd(x) ==
  /\ h[x].at = "next"
  /\ h[x].todo = {}
  /\ SetTx("committed")
  /\ Leave(x)
  /\ UNCHANGED <<rows, world, alone>>

--------------------------------------------------------------------------------
(* POST .../rollback of a pending transaction: nothing has run.            *)
RollbackPending(x) == Start(x, {"pending"}, "rollbackEmpty")

RollbackEmpty(x) ==
  /\ h[x].at = "rollbackEmpty"
  /\ SetTx("rolled_back")
  /\ Leave(x)
  /\ UNCHANGED <<rows, world, alone>>

(* Of a transaction a commit or a rollback works, or worked, on: the calls *)
(* that are 'committed' as read are compensated.                           *)
RollbackStart(x) == Start(x, {"committing", "compensating"}, "rollbackCalls")

MutRollbackCalls(x) ==   \* mutant: calls that are still running are compensated too
  /\ h[x].at = "rollbackCalls"
  /\ h' = [h EXCEPT ![x].at = "undoMark",
                    ![x].done = {c \in Rows : status[c] \in {"running", "committed"}}]
  /\ UNCHANGED <<tx, rows, world, alone>>
RollbackCalls(x) ==
  /\ h[x].at = "rollbackCalls"
  /\ h' = [h EXCEPT ![x].at = "undoMark", ![x].done = {c \in Rows : status[c] = "committed"}]
  /\ UNCHANGED <<tx, rows, world, alone>>

(* The compensations of the committed calls that have one, in reverse      *)
(* order, whether or not one of them fails.                                *)
UndoMark(x) ==
  /\ h[x].at = "undoMark"
  /\ SetTx("compensating")
  /\ h' = [h EXCEPT ![x] = [Idle EXCEPT !.at = "undoNext",
                              !.todo = {c \in h[x].done : comp[c]}]]
  /\ UNCHANGED <<rows, world, alone>>

UndoNext(x) ==
  LET c == Last(h[x].todo) IN
  /\ h[x].at = "undoNext"
  /\ h[x].todo # {}
  /\ SetCall(c, "compensating")
  /\ h' = [h EXCEPT ![x].at = "undoInvoke", ![x].call = c, ![x].todo = @ \ {c}]
  /\ UNCHANGED <<tx, seq, comp, world, alone>>

(* The compensation is invoked like a tool.  When it cannot be rendered or *)
(* fails, with or without an effect, that is noted on the call, still      *)
(* 'compensating'.                                                         *)
UndoInvoke(x) ==
  LET c == h[x].call
      failed == h' = [h EXCEPT ![x].at = "undoNext", ![x].call = NULL]
  IN
  /\ h[x].at = "undoInvoke"
  /\ \/ /\ undone' = [undone EXCEPT ![c] = @ + 1] /\ UNCHANGED undoHits
        /\ Enter(x, "undoRecord") \/ failed
     \/ UNCHANGED undone /\ undoHits' = undoHits \cup {c} /\ Enter(x, "undoRecord")
     \/ UNCHANGED <<undone, undoHits>> /\ failed
  /\ UNCHANGED <<tx, rows, ran, hits, alone>>

UndoRecord(x) ==
  /\ h[x].at = "undoRecord"
  /\ SetCall(h[x].call, "compensated")
  /\ h' = [h EXCEPT ![x].at = "undoNext", ![x].call = NULL]
  /\ UNCHANGED <<tx, seq, comp, world, alone>>

UndoEnd(x) ==
  /\ h[x].at = "undoNext"
  /\ h[x].todo = {}
  /\ SetTx("rolled_back")
  /\ Leave(x)
  /\ UNCHANGED <<rows, world, alone>>

--------------------------------------------------------------------------------
(* The gateway stops, or the request is cancelled, between two statements. *)
Lose(x) ==
  /\ TRUE \in Losses
  /\ h[x].at # "idle"
  /\ Leave(x)
  /\ UNCHANGED <<tx, rows, world, alone>>

Add(x) == AddStart(x) \/ AddSeq(x) \/ AddInsert(x) \/ AddRefused(x)
Delete(x) == DeleteStart(x) \/ DeleteCalls(x) \/ DeleteTx(x)
Commit(x) == \/ CommitStart(x) \/ CommitCalls(x) \/ CommitMark(x) \/ RunNext(x)
             \/ Invoke(x) \/ RecordCommitted(x) \/ RecordFailed(x) \/ CommitEnd(x)
Rollback(x) == \/ RollbackPending(x) \/ RollbackEmpty(x) \/ RollbackStart(x)
               \/ RollbackCalls(x) \/ UndoMark(x) \/ UndoNext(x) \/ UndoInvoke(x)
               \/ UndoRecord(x) \/ UndoEnd(x)

Next == \E x \in Handlers : Add(x) \/ Delete(x) \/ Commit(x) \/ Rollback(x) \/ Lose(x)

Spec == Init /\ [][Next]_vars

--------------------------------------------------------------------------------
(* How often a call is known to have been made: its tool took effect, or   *)
(* the cache answered; likewise its compensation.                          *)
Made == [c \in Calls |-> ran[c] + IF c \in hits THEN 1 ELSE 0]
MadeUndone == [c \in Calls |-> undone[c] + IF c \in undoHits THEN 1 ELSE 0]

(* Tools run in order of seq, however commits, rollbacks and additions of  *)
(* calls overlap or are lost: when a call was made, every earlier call     *)
(* was.  A deletion cut short between its two statements voids this: it    *)
(* leaves a pending transaction whose next call gets seq 0 again.          *)
RunsInOrder ==
  (\A c \in Calls : status[c] # "deleted")
    => \A c, d \in Rows : seq[c] < seq[d] /\ Made[d] > 0 => Made[c] > 0

(* Only what was made is ever compensated.  A call that the cache answered *)
(* counts as made (transactions.py:933-953): its compensation undoes what  *)
(* this transaction did not do.  Nothing else is undone in vain.           *)
OnlyMadeUndone ==
  \A c \in Calls : MadeUndone[c] > 0 => ran[c] > 0 \/ c \in hits

(* A transaction whose handlers did not overlap and that ends 'committed'  *)
(* made each of its calls once and undid none, even if handlers were lost. *)
CommittedRanAll ==
  tx = "committed" /\ alone => \A c \in Rows : Made[c] = 1 /\ MadeUndone[c] = 0

(* One that ends 'rolled_back' has undone every call it could undo, once,  *)
(* or the call's row shows that it may not have: it is 'running' (lost     *)
(* while its tool ran), 'failed' (its tool may have taken effect before    *)
(* the call was given up) or 'compensating' (its compensation failed or    *)
(* was lost).  A call that did not reach its tool was not undone.          *)
EffectsUndoneOrShown ==
  tx = "rolled_back" /\ alone =>
    \A c \in Rows :
      /\ comp[c] /\ status[c] \notin {"running", "failed", "compensating"}
           => Made[c] = MadeUndone[c]
      /\ MadeUndone[c] <= Made[c]

(* The final status of a transaction and of its calls tells which effects  *)
(* may remain.                                                             *)
StatusTellsEffects == CommittedRanAll /\ EffectsUndoneOrShown

(* Without overlap, compensations run in reverse order: none is made       *)
(* while a later call that has one is still 'committed'.                   *)
UndoneInReverse ==
  [][\A c, d \in Rows :
       alone /\ MadeUndone'[c] > MadeUndone[c] /\ seq[d] > seq[c] /\ comp[d]
         => status[d] # "committed"]_vars
================================================================================
