-------------------------- MODULE ResourcesProofs --------------------------
(***************************************************************************)
(* Proofs about Resources, for any requests, deposits, orders, withdraws,  *)
(* amounts, file operations, faults and sizes of the pool, in three parts: *)
(*                                                                         *)
(*   a deposit is settled and a withdraw reviewed by one request           *)
(*   (EffectOnce): a request past its first statement holds the lock of    *)
(*   its row, which it found open, and only who holds the lock can close   *)
(*   the row;                                                              *)
(*                                                                         *)
(*   the second try of withClient heals one fault of an operation that     *)
(*   runs alone (HealsAlone);                                              *)
(*                                                                         *)
(*   CreditLog accounts for the wallets (LogIsChained, BeforeWasHeld).     *)
(***************************************************************************)
EXTENDS Resources, FiniteSetTheorems, WellFoundedInduction, TLAPS

USE StatementsAssumption DEF Rows

Fields == {"handler", "stage", "todo", "view", "own", "before", "logged"}
LockedRows == Deposits \cup Withdraws

Of(r) == requests[r].handler.of
NotBegun(r) == requests[r].todo = Statements(requests[r].handler)

RequestTypes ==
  /\ DOMAIN requests = Requests
  /\ DOMAIN locks = Rows
  /\ \A r \in Requests : DOMAIN requests[r] = Fields /\ requests[r].handler \in Handlers

(* Who works on a row holds its lock and has found it open.                *)
WorkersHoldLock ==
  \A r \in Requests :
    Open(r) /\ Of(r) \in LockedRows =>
      NotBegun(r) \/ (locks[Of(r)] = r /\ Of(r) \notin closed)

WaitingNotBegun == \A r \in Requests : requests[r].stage = "waiting" => NotBegun(r)

CommittedCloses ==
  \A r \in Requests :
    requests[r].stage = "committed" /\ Of(r) \in LockedRows => Of(r) \in closed

OneCommits ==
  \A r, s \in Requests :
    /\ requests[r].stage = "committed" /\ requests[s].stage = "committed"
    /\ Of(r) = Of(s) /\ Of(r) \in LockedRows
    => r = s

RowInv ==
  /\ RequestTypes
  /\ WorkersHoldLock
  /\ WaitingNotBegun
  /\ CommittedCloses
  /\ OneCommits

-----------------------------------------------------------------------------
(* The first statement of a handler on a deposit or a withdraw locks it.   *)
LEMMA FirstLocks ==
  ASSUME NEW h \in Handlers, h.of \in LockedRows
  PROVE  /\ Statements(h) # <<>>
         /\ Head(Statements(h)) = <<"lock", h.of>>
<1>1. CASE h.kind = "settle"
  BY <1>1 DEF Handlers, LockedRows, Statements, Settle, Lock, Apply, Write, Balance
<1>2. CASE h.kind = "approve"
  BY <1>2 DEF Handlers, LockedRows, Statements, Approve, Lock, Apply, Look
<1>3. CASE h.kind = "reject"
  BY <1>3 DEF Handlers, LockedRows, Statements, Reject, Lock, Apply, Look
<1>4. QED
  BY <1>1, <1>2, <1>3 DEF Handlers, LockedRows

(* A handler closes no other deposit or withdraw than the one it is about. *)
LEMMA ClosesOwn ==
  ASSUME NEW h \in Handlers
  PROVE  /\ Closes(h) \cap LockedRows \subseteq {h.of}
         /\ h.of \in LockedRows => h.of \in Closes(h)
BY DEF Handlers, LockedRows, Closes

-----------------------------------------------------------------------------
(* What every step of a request r does to the others, and to its own       *)
(* handler: nothing.                                                       *)
Moves(r, stage) ==
  /\ DOMAIN requests' = Requests
  /\ \A s \in Requests \ {r} : requests'[s] = requests[s]
  /\ DOMAIN requests'[r] = Fields
  /\ requests'[r].handler = requests[r].handler
  /\ requests'[r].stage = stage

(* A statement changes no lock but one that is free or its own.            *)
LocksKept(r) ==
  /\ DOMAIN locks' = Rows
  /\ \A row \in Rows, s \in Requests \ {r} : locks[row] = s => locks'[row] = s

LEMMA LockKeeps ==
  ASSUME RequestTypes, NEW r \in Requests, NEW row, FreeFor(r, row), locks' = WithLock(r, row)
  PROVE  /\ LocksKept(r)
         /\ \A own \in Rows : locks[own] = r => locks'[own] = r
BY DEF RequestTypes, FreeFor, WithLock, LocksKept

LEMMA EndKeeps ==
  ASSUME RequestTypes, NEW r \in Requests, NEW stage, End(r, stage)
  PROVE  Moves(r, stage) /\ LocksKept(r)
BY DEF RequestTypes, End, Released, Moves, LocksKept, Fields

(* A statement of a transaction that goes on.                              *)
LEMMA WorkKeepsInv ==
  ASSUME RowInv, NEW r \in Requests, Moves(r, "open"), LocksKept(r), closed' = closed,
         Of(r) \in LockedRows => locks'[Of(r)] = r /\ Of(r) \notin closed
  PROVE  RowInv'
<1> USE DEF RowInv, Moves, LocksKept
<1>1. RequestTypes'
  BY DEF RequestTypes
<1>2. WorkersHoldLock'
  <2> SUFFICES ASSUME NEW s \in Requests, Open(s)', Of(s)' \in LockedRows
               PROVE  NotBegun(s)' \/ (locks'[Of(s)'] = s /\ Of(s)' \notin closed')
    BY DEF WorkersHoldLock, LockedRows
  <2>1. CASE s = r
    BY <2>1 DEF Of
  <2>2. CASE s # r
    BY <2>2 DEF WorkersHoldLock, Open, Of, NotBegun, LockedRows
  <2>3. QED
    BY <2>1, <2>2
<1>3. WaitingNotBegun'
  BY DEF WaitingNotBegun, NotBegun
<1>4. CommittedCloses'
  BY DEF CommittedCloses, Of, LockedRows
<1>5. OneCommits'
  BY DEF OneCommits, Of, LockedRows
<1>6. QED
  BY <1>1, <1>2, <1>3, <1>4, <1>5

(* A transaction that ends without effect.                                 *)
LEMMA RollbackKeepsInv ==
  ASSUME RowInv, NEW r \in Requests, NEW stage \in {"refused", "aborted"},
         Moves(r, stage), LocksKept(r), closed' = closed
  PROVE  RowInv'
<1> USE DEF RowInv, Moves, LocksKept
<1>1. RequestTypes'
  BY DEF RequestTypes
<1>2. WorkersHoldLock'
  BY DEF WorkersHoldLock, Open, Of, NotBegun, LockedRows
<1>3. WaitingNotBegun'
  BY DEF WaitingNotBegun, NotBegun
<1>4. CommittedCloses'
  BY DEF CommittedCloses, Of, LockedRows
<1>5. OneCommits'
  BY DEF OneCommits, Of, LockedRows
<1>6. QED
  BY <1>1, <1>2, <1>3, <1>4, <1>5

(* A statement other than the first one: the lock is held.                 *)
LEMMA BegunHoldsLock ==
  ASSUME RowInv, NEW r \in Requests, Open(r), ~AtEnd(r) => Statement(r)[1] # "lock",
         Of(r) \in LockedRows
  PROVE  locks[Of(r)] = r /\ Of(r) \notin closed
<1>1. ~NotBegun(r)
  BY FirstLocks DEF RowInv, RequestTypes, NotBegun, AtEnd, Statement, Of
<1>2. QED
  BY <1>1 DEF RowInv, WorkersHoldLock

-----------------------------------------------------------------------------
(* The statements, one by one.                                             *)
LEMMA BeginKeepsInv ==
  ASSUME RowInv, NEW r \in Requests, Begin(r)
  PROVE  RowInv'
<1>1. Moves(r, "open") /\ requests'[r].todo = requests[r].todo
  BY DEF RowInv, RequestTypes, Begin, Moves, Fields
<1>2. RequestTypes'
  BY <1>1 DEF Begin, RowInv, RequestTypes, Moves
<1>3. WorkersHoldLock'
  BY <1>1 DEF Begin, RowInv, WorkersHoldLock, WaitingNotBegun, Moves, Open, Of, NotBegun, LockedRows
<1>4. WaitingNotBegun'
  BY <1>1 DEF RowInv, WaitingNotBegun, NotBegun, Moves
<1>5. CommittedCloses'
  BY <1>1 DEF Begin, RowInv, CommittedCloses, Of, LockedRows, Moves
<1>6. OneCommits'
  BY <1>1 DEF RowInv, OneCommits, Of, LockedRows, Moves
<1>7. QED
  BY <1>2, <1>3, <1>4, <1>5, <1>6 DEF RowInv

LEMMA LockRowKeepsInv ==
  ASSUME RowInv, NEW r \in Requests, LockRow(r)
  PROVE  RowInv'
<1>1. RequestTypes /\ Open(r) /\ ~AtEnd(r) /\ closed' = closed
  BY DEF RowInv, LockRow, At
<1>2. CASE Statement(r)[2] \in closed
  <2>1. End(r, "refused")
    BY <1>2 DEF LockRow
  <2>2. Moves(r, "refused") /\ LocksKept(r)
    BY <1>1, <2>1, EndKeeps
  <2>3. QED
    BY <1>1, <2>2, RollbackKeepsInv
<1>3. CASE Statement(r)[2] \notin closed
  <2>1. /\ FreeFor(r, Statement(r)[2])
        /\ requests' = Advanced(r)
        /\ locks' = WithLock(r, Statement(r)[2])
    BY <1>3 DEF LockRow
  <2>2. Moves(r, "open")
    BY <1>1, <2>1 DEF RequestTypes, Advanced, Moves, Open, Fields
  <2>3. LocksKept(r) /\ \A own \in Rows : locks[own] = r => locks'[own] = r
    BY <1>1, <2>1, LockKeeps
  <2>4. Of(r) \in LockedRows => locks'[Of(r)] = r /\ Of(r) \notin closed
    <3> SUFFICES ASSUME Of(r) \in LockedRows
                 PROVE  locks'[Of(r)] = r /\ Of(r) \notin closed
      OBVIOUS
    <3>1. CASE NotBegun(r)
      <4>1. Statement(r) = <<"lock", Of(r)>>
        BY <1>1, <3>1, FirstLocks DEF RequestTypes, NotBegun, Statement, Of
      <4>2. QED
        BY <1>1, <1>3, <2>1, <4>1 DEF RequestTypes, WithLock, LockedRows
    <3>2. CASE ~NotBegun(r)
      BY <1>1, <2>3, <3>2 DEF RowInv, WorkersHoldLock, LockedRows
    <3>3. QED
      BY <3>1, <3>2
  <2>5. QED
    BY <1>1, <2>2, <2>3, <2>4, WorkKeepsInv
<1>4. QED
  BY <1>2, <1>3

(* A statement that reads.                                                 *)
LEMMA ReadKeepsInv ==
  ASSUME RowInv, NEW r \in Requests, Open(r), ~AtEnd(r), Statement(r)[1] # "lock",
         Moves(r, "open"), locks' = locks, closed' = closed
  PROVE  RowInv'
<1>1. LocksKept(r)
  BY DEF RowInv, RequestTypes, LocksKept
<1>2. QED
  BY <1>1, BegunHoldsLock, WorkKeepsInv

(* A statement that writes and so locks.                                   *)
LEMMA WriteKeepsInv ==
  ASSUME RowInv, NEW r \in Requests, Open(r), ~AtEnd(r), Statement(r)[1] # "lock",
         NEW row, FreeFor(r, row), locks' = WithLock(r, row),
         Moves(r, "open"), closed' = closed
  PROVE  RowInv'
<1>1. LocksKept(r) /\ \A own \in Rows : locks[own] = r => locks'[own] = r
  BY LockKeeps DEF RowInv
<1>2. Of(r) \in LockedRows => locks'[Of(r)] = r /\ Of(r) \notin closed
  BY <1>1, BegunHoldsLock DEF LockedRows
<1>3. QED
  BY <1>1, <1>2, WorkKeepsInv

LEMMA EndKeepsInv ==
  ASSUME RowInv, NEW r \in Requests, NEW stage \in {"refused", "aborted"}, End(r, stage),
         closed' = closed
  PROVE  RowInv'
BY EndKeeps, RollbackKeepsInv DEF RowInv

LEMMA SelectKeepsInv ==
  ASSUME RowInv, NEW r \in Requests, LookUp(r) \/ FindWallet(r) \/ ReadBalance(r)
  PROVE  RowInv'
<1>1. RequestTypes
  BY DEF RowInv
<1>2. CASE LookUp(r)
  <2>1. Moves(r, "open")
    BY <1>1, <1>2 DEF RequestTypes, LookUp, At, Open, Advanced, Moves, Fields
  <2>2. QED
    BY <1>2, <2>1, ReadKeepsInv DEF LookUp, At
<1>3. CASE FindWallet(r)
  <2>1. Moves(r, "open")
    BY <1>1, <1>3 DEF RequestTypes, FindWallet, At, Open, Moves, Fields
  <2>2. QED
    BY <1>3, <2>1, ReadKeepsInv DEF FindWallet, At
<1>4. CASE ReadBalance(r)
  <2>1. Moves(r, "open")
    BY <1>1, <1>4 DEF RequestTypes, ReadBalance, At, Open, Advanced, Moves, Fields
  <2>2. QED
    BY <1>4, <2>1, ReadKeepsInv DEF ReadBalance, At
<1>5. QED
  BY <1>2, <1>3, <1>4

LEMMA InsertKeepsInv ==
  ASSUME RowInv, NEW r \in Requests, InsertWallet(r)
  PROVE  RowInv'
<1>1. /\ RequestTypes /\ closed' = closed
      /\ Open(r) /\ ~AtEnd(r) /\ Statement(r)[1] # "lock" /\ FreeFor(r, User(r))
  BY DEF RowInv, InsertWallet, At
<1>2. CASE wallets[User(r)] # NoWallet
  <2>1. End(r, "refused")
    BY <1>2 DEF InsertWallet
  <2>2. QED
    BY <1>1, <2>1, EndKeepsInv
<1>3. CASE wallets[User(r)] = NoWallet
  <2>1. locks' = WithLock(r, User(r))
    BY <1>3 DEF InsertWallet
  <2>2. Moves(r, "open")
    BY <1>1, <1>3 DEF RequestTypes, InsertWallet, Open, Advanced, Moves, Fields
  <2>3. QED
    BY <1>1, <2>1, <2>2, WriteKeepsInv
<1>4. QED
  BY <1>2, <1>3

LEMMA UpdateKeepsInv ==
  ASSUME RowInv, NEW r \in Requests, UpdateWallet(r)
  PROVE  RowInv'
<1> DEFINE type == Statement(r)[2]
<1>1. /\ RequestTypes /\ closed' = closed
      /\ Open(r) /\ ~AtEnd(r) /\ Statement(r)[1] # "lock" /\ FreeFor(r, User(r))
  BY DEF RowInv, UpdateWallet, At
<1>2. CASE MayUpdate(r, type)
  <2>1. locks' = WithLock(r, User(r))
    BY <1>2 DEF UpdateWallet
  <2>2. Moves(r, "open")
    BY <1>1, <1>2 DEF RequestTypes, UpdateWallet, Open, Advanced, Moves, Fields
  <2>3. QED
    BY <1>1, <2>1, <2>2, WriteKeepsInv
<1>3. CASE ~MayUpdate(r, type)
  <2>1. End(r, "refused")
    BY <1>3 DEF UpdateWallet
  <2>2. QED
    BY <1>1, <2>1, EndKeepsInv
<1>4. QED
  BY <1>2, <1>3

LEMMA WriteRowKeepsInv ==
  ASSUME RowInv, NEW r \in Requests, WriteRow(r)
  PROVE  RowInv'
<1>1. /\ RequestTypes /\ closed' = closed
      /\ Open(r) /\ ~AtEnd(r) /\ Statement(r)[1] # "lock"
      /\ FreeFor(r, Statement(r)[2]) /\ locks' = WithLock(r, Statement(r)[2])
  BY DEF RowInv, WriteRow, At
<1>2. Moves(r, "open")
  BY <1>1 DEF RequestTypes, WriteRow, Open, Advanced, Moves, Fields
<1>3. QED
  BY <1>1, <1>2, WriteKeepsInv

(* A commit closes the row of its handler, which only the holder of its    *)
(* lock may do, and which was open until now.                              *)
LEMMA CommitKeepsInv ==
  ASSUME RowInv, NEW r \in Requests, Commit(r)
  PROVE  RowInv'
<1>1. /\ RequestTypes /\ Open(r) /\ AtEnd(r)
      /\ closed' = closed \cup Closes(requests[r].handler) /\ End(r, "committed")
  BY DEF RowInv, Commit
<1>2. Moves(r, "committed") /\ LocksKept(r)
  BY <1>1, EndKeeps
<1>3. Of(r) \in LockedRows => locks[Of(r)] = r /\ Of(r) \notin closed
  BY <1>1, BegunHoldsLock
<1>4. /\ closed' \cap LockedRows \subseteq closed \cup {Of(r)}
      /\ Of(r) \in LockedRows => Of(r) \in closed'
      /\ closed \subseteq closed'
  BY <1>1, ClosesOwn DEF RequestTypes, Of
<1>5. RequestTypes'
  BY <1>1, <1>2 DEF RequestTypes, Moves, LocksKept
<1>6. WorkersHoldLock'
  <2> SUFFICES ASSUME NEW s \in Requests, Open(s)', Of(s)' \in LockedRows
               PROVE  NotBegun(s)' \/ (locks'[Of(s)'] = s /\ Of(s)' \notin closed')
    BY DEF WorkersHoldLock, LockedRows
  <2>1. s # r /\ requests'[s] = requests[s]
    BY <1>2 DEF Moves, Open
  <2>2. NotBegun(s) \/ (locks[Of(s)] = s /\ Of(s) \notin closed)
    BY <2>1 DEF RowInv, WorkersHoldLock, Open, Of
  <2>3. ASSUME locks[Of(s)] = s, Of(s) \notin closed
        PROVE  locks'[Of(s)] = s /\ Of(s) \notin closed'
    BY <1>2, <1>3, <1>4, <2>1, <2>3 DEF LocksKept, LockedRows, Of
  <2>4. QED
    BY <2>1, <2>2, <2>3 DEF NotBegun, Of
<1>7. WaitingNotBegun'
  BY <1>2 DEF RowInv, WaitingNotBegun, NotBegun, Moves
<1>8. CommittedCloses'
  BY <1>2, <1>4 DEF RowInv, CommittedCloses, Of, LockedRows, Moves
<1>9. OneCommits'
  BY <1>2, <1>3 DEF RowInv, OneCommits, CommittedCloses, Of, LockedRows, Moves
<1>10. QED
  BY <1>5, <1>6, <1>7, <1>8, <1>9 DEF RowInv

-----------------------------------------------------------------------------
LEMMA InitHasInv ==
  ASSUME ResourcesInit
  PROVE  RowInv
<1>1. PICK mix \in Mixes, stage \in {"waiting", "absent"} :
        requests = [r \in Requests |-> [NewRequest(mix[r]) EXCEPT !.stage = stage]]
  BY MixesAssumption DEF ResourcesInit, StatementsInit, NoMoneyInit, NewRequest
<1>2. mix \in [Requests -> Handlers]
  BY <1>1, MixesAssumption
<1>3. RequestTypes
  BY <1>1, <1>2 DEF ResourcesInit, StatementsInit, NoMoneyInit, TablesInit, RequestTypes,
                    NewRequest, Fields
<1>4. \A r \in Requests : requests[r].stage \in {"waiting", "absent"} /\ NotBegun(r)
  BY <1>1 DEF NewRequest, NotBegun
<1>5. QED
  BY <1>3, <1>4 DEF RowInv, WorkersHoldLock, WaitingNotBegun, CommittedCloses, OneCommits, Open

LEMMA NextKeepsInv ==
  ASSUME RowInv, [ResourcesNext]_resourceVars
  PROVE  RowInv'
<1>1. ASSUME NEW r \in Requests, Step(r)
      PROVE  RowInv'
  <2>1. CASE Begin(r)
    BY <2>1, BeginKeepsInv
  <2>2. CASE LockRow(r)
    BY <2>2, LockRowKeepsInv
  <2>3. CASE LookUp(r) \/ FindWallet(r) \/ ReadBalance(r)
    BY <2>3, SelectKeepsInv
  <2>4. CASE InsertWallet(r)
    BY <2>4, InsertKeepsInv
  <2>5. CASE UpdateWallet(r)
    BY <2>5, UpdateKeepsInv
  <2>6. CASE WriteRow(r)
    BY <2>6, WriteRowKeepsInv
  <2>7. CASE Commit(r)
    BY <2>7, CommitKeepsInv
  <2>8. CASE BreakDeadlock(r) \/ LockWaitTimeout(r)
    BY <2>8, EndKeepsInv DEF BreakDeadlock, LockWaitTimeout, Abort
  <2>9. QED
    BY <1>1, <2>1, <2>2, <2>3, <2>4, <2>5, <2>6, <2>7, <2>8 DEF Step
<1>2. ASSUME UNCHANGED moneyVars
      PROVE  RowInv'
  BY <1>2 DEF moneyVars, RowInv, RequestTypes, WorkersHoldLock, WaitingNotBegun, CommittedCloses,
              OneCommits, Open, Of, NotBegun
<1>3. QED
  BY <1>1, <1>2 DEF ResourcesNext, MoneyNext, resourceVars

(* In every reachable state who works on a deposit or a withdraw holds its *)
(* row lock and has found it open, and who committed has closed it.        *)
THEOREM RowInvariant == ResourcesSpec => []RowInv
BY InitHasInv, NextKeepsInv, PTL DEF ResourcesSpec

(* The settlement and the review take effect once: no two requests about   *)
(* one deposit or one withdraw commit, for any requests next to them, any  *)
(* order of their statements and any victims of deadlocks.                 *)
THEOREM TakesEffectOnce == ResourcesSpec => []EffectOnce
<1>1. ASSUME RowInv, NEW row \in LockedRows
      PROVE  Cardinality({r \in Requests : /\ requests[r].handler.of = row
                                           /\ requests[r].stage = "committed"}) <= 1
  <2> DEFINE Committed == {r \in Requests : /\ requests[r].handler.of = row
                                            /\ requests[r].stage = "committed"}
  <2>1. \A r, s \in Committed : r = s
    BY <1>1 DEF RowInv, OneCommits, Of
  <2>2. ASSUME NEW r \in Committed
        PROVE  Cardinality(Committed) = 1
    <3>1. Committed = {r}
      BY <2>1, <2>2
    <3>2. QED
      BY <3>1, FS_Singleton
  <2>3. CASE Committed = {}
    <3>1. Cardinality(Committed) = 0
      BY <2>3, FS_EmptySet
    <3>2. QED
      BY <3>1
  <2>4. CASE Committed # {}
    <3>1. PICK r \in Committed : TRUE
      BY <2>4
    <3>2. Cardinality(Committed) = 1
      BY <2>2, <3>1
    <3>3. QED
      BY <3>2
  <2>5. QED
    BY <2>3, <2>4
<1>2. RowInv => EffectOnce
  BY <1>1 DEF EffectOnce, LockedRows
<1>3. QED
  BY <1>2, RowInvariant, PTL

-----------------------------------------------------------------------------
(* MediaSftpService.  An operation that runs by itself accounts for every  *)
(* try: what is dead, or was tried before, has cost it a fault.            *)
OpenerWaits == connecting # NoOne => operations[connecting].stage = "connecting"

StartsFresh == \A o \in Operations : operations[o].stage = "idle" => operations[o].try = 1

AloneIsAlone ==
  \A o \in Operations :
    alone[o] /\ Running(o) => \A p \in Operations \ {o} : ~ Running(p)

MovedAlready(o) == operations[o].kind = "rename" /\ operations[o].moved

UsesDead(o) == operations[o].stage = "using" /\ Dead(operations[o].using)

FaultsCounted(o) ==
  /\ operations[o].stage = "using" => operations[o].using = client /\ client # NoClient
  /\ operations[o].stage = "ending" => operations[o].try = 2
  /\ Running(o) =>
       \/ MovedAlready(o)
       \/ operations[o].hits >= operations[o].try - 1 + (IF UsesDead(o) THEN 1 ELSE 0)

HealInv ==
  /\ SftpTypeOK
  /\ OpenerWaits
  /\ StartsFresh
  /\ AloneIsAlone
  /\ \A o \in Operations : alone[o] => FaultsCounted(o)
  /\ HealsAlone

Healed(o) ==
  operations[o].stage = "failed" /\ operations[o].hits <= 1 =>
    operations[o].cause \in {"noConnection", "denied"} \/ MovedAlready(o)

(* A step of a running operation p concerns running operations only: one   *)
(* that is by itself is p.                                                 *)
LEMMA OwnStep ==
  ASSUME HealInv, NEW p \in Operations, Running(p),
         SftpTypeOK', OpenerWaits', StartsFresh', alone' = alone,
         \A o \in Operations \ {p} : Running(o) \/ operations'[o] = operations[o],
         alone[p] => FaultsCounted(p)' /\ Healed(p)'
  PROVE  HealInv'
<1>1. \A o \in Operations \ {p} : alone[o] => ~ Running(o) /\ operations'[o] = operations[o]
  BY DEF HealInv, AloneIsAlone
<1>2. AloneIsAlone'
  <2> SUFFICES ASSUME NEW o \in Operations, alone[o], Running(o)', NEW q \in Operations \ {o}
               PROVE  ~ Running(q)'
    BY DEF AloneIsAlone
  <2>1. o = p
    BY <1>1 DEF Running
  <2>2. ~ Running(q)
    BY <2>1 DEF HealInv, AloneIsAlone
  <2> QED BY <2>1, <2>2 DEF Running
<1>3. ASSUME NEW o \in Operations, alone[o] PROVE FaultsCounted(o)'
  <2>1. CASE o = p
    BY <1>3, <2>1
  <2>2. CASE o # p
    <3>1. FaultsCounted(o) /\ ~ Running(o) /\ operations'[o] = operations[o]
      BY <1>1, <1>3, <2>2 DEF HealInv
    <3> QED BY <3>1 DEF FaultsCounted, Running
  <2> QED BY <2>1, <2>2
<1>4. HealsAlone'
  <2> SUFFICES ASSUME NEW o \in Operations, alone[o] PROVE Healed(o)'
    BY DEF HealsAlone, Healed, MovedAlready
  <2>1. CASE o = p
    BY <2>1
  <2>2. CASE o # p
    BY <1>1, <2>2 DEF HealInv, HealsAlone, Healed, MovedAlready
  <2> QED BY <2>1, <2>2
<1> QED BY <1>2, <1>3, <1>4 DEF HealInv

(* getClient gives the operation a connection or lets it wait for one.     *)
Given(op, c) ==
  [op EXCEPT !.stage = IF c = NoClient THEN "connecting" ELSE "using", !.using = c]

LEMMA ClientGiven ==
  ASSUME SftpTypeOK, OpenerWaits, NEW o \in Operations, operations[o].stage # "connecting",
         NEW op \in Operation, NEW c \in Clients \cup {NoClient}, GetClient(o, op, c)
  PROVE  /\ operations' = [operations EXCEPT ![o] = Given(op, c)]
         /\ operations' \in [Operations -> Operation]
         /\ connecting' \in Operations \cup {NoOne}
         /\ OpenerWaits'
<1>1. Given(op, c) \in Operation
  BY DEF Operation, Given
<1>2. Given(op, c).stage = IF c = NoClient THEN "connecting" ELSE "using"
  BY DEF Operation, Given
<1>3. operations' = [operations EXCEPT ![o] = Given(op, c)]
  BY DEF GetClient, Given
<1>4. operations' \in [Operations -> Operation]
  BY <1>1, <1>3 DEF SftpTypeOK
<1>5. connecting' = IF c = NoClient /\ connecting = NoOne THEN o ELSE connecting
  BY DEF GetClient
<1>6. OpenerWaits'
  BY <1>2, <1>3, <1>5 DEF OpenerWaits, SftpTypeOK
<1> QED BY <1>3, <1>4, <1>5, <1>6 DEF SftpTypeOK

LEMMA StartHeals ==
  ASSUME HealInv, NEW o \in Operations, Start(o)
  PROVE  HealInv'
<1> DEFINE op == [operations[o] EXCEPT !.hits = IF Dead(client) THEN 1 ELSE 0]
<1>1. /\ SftpTypeOK /\ OpenerWaits /\ operations[o] \in Operation
      /\ operations[o].stage = "idle" /\ GetClient(o, op, client)
      /\ client \in Clients \cup {NoClient}
      /\ UNCHANGED <<client, sessions, faults>>
      /\ alone' = [p \in Operations |->
                     IF p = o THEN \A q \in Operations : ~ Running(q)
                     ELSE alone[p] /\ ~ Running(p)]
  BY DEF HealInv, SftpTypeOK, Start
<1>2. op \in Operation /\ op.kind = operations[o].kind /\ op.try = operations[o].try
      /\ op.moved = operations[o].moved /\ op.hits = IF Dead(client) THEN 1 ELSE 0
  BY <1>1 DEF Operation
<1> HIDE DEF op
<1>3. /\ operations' = [operations EXCEPT ![o] = Given(op, client)]
      /\ operations' \in [Operations -> Operation]
      /\ connecting' \in Operations \cup {NoOne}
      /\ OpenerWaits'
  BY <1>1, <1>2, ClientGiven
<1>4. /\ operations'[o] = Given(op, client)
      /\ \A p \in Operations \ {o} : operations'[p] = operations[p]
  BY <1>1, <1>3 DEF SftpTypeOK
<1>5. /\ operations'[o].stage = IF client = NoClient THEN "connecting" ELSE "using"
      /\ operations'[o].using = client
      /\ operations'[o].try = operations[o].try
      /\ operations'[o].hits = IF Dead(client) THEN 1 ELSE 0
  BY <1>2, <1>4 DEF Operation, Given
<1>6. SftpTypeOK'
  BY <1>1, <1>3 DEF SftpTypeOK
<1>7. AloneIsAlone'
  <2> SUFFICES ASSUME NEW p \in Operations, alone'[p], Running(p)', NEW q \in Operations \ {p}
               PROVE  ~ Running(q)'
    BY DEF AloneIsAlone
  <2>1. CASE p = o
    BY <1>1, <1>4, <2>1 DEF Running
  <2>2. CASE p # o
    BY <1>1, <1>4, <2>2 DEF Running
  <2> QED BY <2>1, <2>2
<1>8. ASSUME NEW p \in Operations, alone'[p] PROVE FaultsCounted(p)'
  <2>1. CASE p = o
    <3>1. operations[o].try = 1
      BY <1>1 DEF HealInv, StartsFresh
    <3> QED BY <1>1, <1>5, <2>1, <3>1 DEF FaultsCounted, UsesDead, Dead
  <2>2. CASE p # o
    <3>1. alone[p] /\ ~ Running(p) /\ operations'[p] = operations[p]
      BY <1>1, <1>4, <1>8, <2>2
    <3> QED BY <3>1 DEF HealInv, FaultsCounted, Running
  <2> QED BY <2>1, <2>2
<1>9. HealsAlone'
  <2> SUFFICES ASSUME NEW p \in Operations, alone'[p] PROVE Healed(p)'
    BY DEF HealsAlone, Healed, MovedAlready
  <2>1. CASE p = o
    BY <1>5, <2>1 DEF Healed
  <2>2. CASE p # o
    BY <1>1, <1>4, <2>2 DEF HealInv, HealsAlone, Healed, MovedAlready
  <2> QED BY <2>1, <2>2
<1>10. StartsFresh'
  BY <1>4, <1>5 DEF HealInv, StartsFresh
<1> QED BY <1>3, <1>6, <1>7, <1>8, <1>9, <1>10 DEF HealInv

LEMMA ConnectedHeals ==
  ASSUME HealInv, NEW o \in Operations, Connected(o)
  PROVE  HealInv'
<1>1. /\ SftpTypeOK /\ connecting = o /\ operations[o].stage = "connecting"
      /\ alone' = alone /\ connecting' = NoOne /\ client' = NextClient
      /\ sessions' = [sessions EXCEPT ![NextClient] = "open"]
  BY SftpAssumption DEF HealInv, OpenerWaits, Connected
<1>2. NextClient \in Clients
  BY DEF Connected, NextClient
<1>3. /\ NextClient # NoClient
      /\ sessions' \in [Clients -> {"new", "open", "dropped", "ended"}]
      /\ sessions'[NextClient] = "open"
  BY <1>1, <1>2, SftpAssumption DEF SftpTypeOK
<1>4. ASSUME NEW p \in Operations
      PROVE  /\ operations'[p] \in Operation
             /\ operations'[p].try = operations[p].try
             /\ operations'[p].stage # "idle" \/ operations'[p] = operations[p]
             /\ operations[p].stage # "connecting" => operations'[p] = operations[p]
             /\ operations[p].stage = "connecting" =>
                  operations'[p] = [operations[p] EXCEPT !.stage = "using", !.using = NextClient]
  <2>1. operations[p] \in Operation
    BY <1>1 DEF SftpTypeOK
  <2>2. operations'[p] = IF operations[p].stage = "connecting"
                         THEN [operations[p] EXCEPT !.stage = "using", !.using = NextClient]
                         ELSE operations[p]
    BY DEF Connected
  <2>3. [operations[p] EXCEPT !.stage = "using", !.using = NextClient] \in Operation
    BY <1>2, <2>1 DEF Operation
  <2>4. /\ [operations[p] EXCEPT !.stage = "using", !.using = NextClient].try = operations[p].try
        /\ [operations[p] EXCEPT !.stage = "using", !.using = NextClient].stage = "using"
    BY <2>1 DEF Operation
  <2> QED BY <2>1, <2>2, <2>3, <2>4
<1>5. operations' \in [Operations -> Operation]
  BY <1>4 DEF Connected
<1>6. SftpTypeOK'
  BY <1>1, <1>2, <1>3, <1>5 DEF SftpTypeOK
<1>7. /\ operations'[o].stage = "using" /\ operations'[o].using = NextClient
      /\ operations'[o].hits = operations[o].hits /\ operations'[o].kind = operations[o].kind
      /\ operations'[o].moved = operations[o].moved
  <2>1. operations[o] \in Operation
    BY <1>1 DEF SftpTypeOK
  <2>2. operations'[o] = [operations[o] EXCEPT !.stage = "using", !.using = NextClient]
    BY <1>1, <1>4
  <2> QED BY <2>1, <2>2 DEF Operation
<1>8. ASSUME alone[o] PROVE FaultsCounted(o)' /\ Healed(o)'
  <2>1. MovedAlready(o) \/ operations[o].hits >= operations[o].try - 1
    <3>1. ~ UsesDead(o) /\ Running(o) /\ FaultsCounted(o)
      BY <1>1, <1>8 DEF HealInv, Running, UsesDead
    <3>2. operations[o].try \in Int
      BY <1>1 DEF SftpTypeOK, Operation
    <3> QED BY <3>1, <3>2 DEF FaultsCounted
  <2>2. MovedAlready(o)' <=> MovedAlready(o)
    BY <1>7 DEF MovedAlready
  <2>3. ~ UsesDead(o)'
    BY <1>3, <1>7 DEF UsesDead, Dead
  <2>4. /\ operations'[o].try = operations[o].try /\ operations[o].try \in Int
        /\ operations'[o].hits = operations[o].hits /\ operations[o].hits \in Int
    <3>1. operations[o] \in Operation
      BY <1>1 DEF SftpTypeOK
    <3>2. operations[o].try \in Int /\ operations[o].hits \in Int
      BY <3>1 DEF Operation
    <3> QED BY <1>4, <1>7, <3>2
  <2>5. \/ MovedAlready(o)'
        \/ (operations[o].hits >= operations[o].try - 1 + (IF UsesDead(o) THEN 1 ELSE 0))'
    BY <2>1, <2>2, <2>3, <2>4
  <2>6. Healed(o)'
    BY <1>7 DEF Healed
  <2> QED BY <1>1, <1>3, <1>7, <2>5, <2>6 DEF FaultsCounted
<1>9. \A p \in Operations : Running(p) \/ operations'[p] = operations[p]
  BY <1>4 DEF Running
<1>10. StartsFresh'
  BY <1>4 DEF HealInv, StartsFresh
<1>11. OpenerWaits'
  BY <1>1 DEF OpenerWaits
<1> QED BY <1>1, <1>6, <1>8, <1>9, <1>10, <1>11, OwnStep DEF Running

LEMMA ConnectFailsHeals ==
  ASSUME HealInv, NEW o \in Operations, ConnectFails(o)
  PROVE  HealInv'
<1>1. /\ SftpTypeOK /\ connecting = o /\ operations[o].stage = "connecting"
      /\ alone' = alone /\ connecting' = NoOne /\ client' = NoClient
      /\ sessions' = sessions /\ operations' = HearFailure(o)
  BY SftpAssumption DEF HealInv, OpenerWaits, ConnectFails
<1>2. ASSUME NEW p \in Operations
      PROVE  /\ operations'[p] \in Operation
             /\ operations'[p].stage # "idle" \/ operations'[p] = operations[p]
             /\ operations[p].stage # "connecting" => operations'[p] = operations[p]
             /\ operations[p].stage = "connecting" =>
                  operations'[p].stage = "failed" /\ operations'[p].cause = "noConnection"
  <2>1. operations[p] \in Operation
    BY <1>1 DEF SftpTypeOK
  <2>2. operations'[p] = IF operations[p].stage = "connecting"
                         THEN Failed(Hit(operations[p]), "noConnection")
                         ELSE operations[p]
    BY <1>1 DEF HearFailure
  <2>3. Hit(operations[p]) \in Operation
    BY <2>1 DEF Operation, Hit
  <2>4. /\ Failed(Hit(operations[p]), "noConnection") \in Operation
        /\ Failed(Hit(operations[p]), "noConnection").stage = "failed"
        /\ Failed(Hit(operations[p]), "noConnection").cause = "noConnection"
    BY <2>3 DEF Operation, Failed
  <2> QED BY <2>1, <2>2, <2>4
<1>3. operations' \in [Operations -> Operation]
  BY <1>1, <1>2 DEF HearFailure
<1>4. SftpTypeOK'
  BY <1>1, <1>3 DEF SftpTypeOK
<1>5. FaultsCounted(o)' /\ Healed(o)'
  BY <1>1, <1>2 DEF FaultsCounted, Running, Healed
<1>6. \A p \in Operations : Running(p) \/ operations'[p] = operations[p]
  BY <1>2 DEF Running
<1>7. StartsFresh'
  BY <1>2 DEF HealInv, StartsFresh
<1>8. OpenerWaits'
  BY <1>1 DEF OpenerWaits
<1> QED BY <1>1, <1>4, <1>5, <1>6, <1>7, <1>8, OwnStep DEF Running

(* Steps of an operation o that change no other: what is left to show.     *)
LEMMA OnlyOwn ==
  ASSUME HealInv, NEW o \in Operations, Running(o), NEW op \in Operation,
         operations' = [operations EXCEPT ![o] = op], op.stage # "idle",
         client' \in Clients \cup {NoClient}, connecting' \in Operations \cup {NoOne},
         sessions' \in [Clients -> {"new", "open", "dropped", "ended"}],
         alone' = alone, OpenerWaits',
         alone[o] => FaultsCounted(o)' /\ Healed(o)'
  PROVE  HealInv'
<1>1. /\ operations' \in [Operations -> Operation] /\ operations'[o] = op
      /\ \A p \in Operations \ {o} : operations'[p] = operations[p]
  BY DEF HealInv, SftpTypeOK
<1>2. SftpTypeOK'
  BY <1>1 DEF HealInv, SftpTypeOK
<1>3. StartsFresh'
  BY <1>1 DEF HealInv, StartsFresh
<1> QED BY <1>1, <1>2, <1>3, OwnStep

(* Asking for a client again, with c the connection there is.              *)
LEMMA AskAgain ==
  ASSUME HealInv, NEW o \in Operations, operations[o].stage \in {"using", "ending"},
         NEW op \in Operation, NEW c \in Clients \cup {NoClient}, GetClient(o, op, c),
         client' = c, alone' = alone, sessions' = sessions,
         alone[o] => \/ op.kind = "rename" /\ op.moved
                     \/ op.hits >= op.try - 1 + (IF Dead(c) THEN 1 ELSE 0)
  PROVE  HealInv'
<1>1. /\ operations' = [operations EXCEPT ![o] = Given(op, c)]
      /\ connecting' \in Operations \cup {NoOne}
      /\ OpenerWaits'
  BY ClientGiven DEF HealInv
<1>2. /\ Given(op, c) \in Operation
      /\ Given(op, c).stage \in {"connecting", "using"}
      /\ Given(op, c).stage = "using" <=> c # NoClient
      /\ Given(op, c).using = c
      /\ Given(op, c).kind = op.kind /\ Given(op, c).moved = op.moved
      /\ Given(op, c).hits = op.hits /\ Given(op, c).try = op.try
  BY DEF Operation, Given
<1>3. operations'[o] = Given(op, c)
  BY <1>1 DEF HealInv, SftpTypeOK
<1>4. ASSUME alone[o] PROVE FaultsCounted(o)' /\ Healed(o)'
  <2>1. MovedAlready(o)' <=> op.kind = "rename" /\ op.moved
    BY <1>2, <1>3 DEF MovedAlready
  <2>2. UsesDead(o)' => Dead(c)
    BY <1>2, <1>3 DEF UsesDead, Dead
  <2>3. op.try \in Int /\ op.hits \in Int
    BY DEF Operation
  <2> QED BY <1>2, <1>3, <1>4, <2>1, <2>2, <2>3 DEF FaultsCounted, Healed
<1> QED BY <1>1, <1>2, <1>4, OnlyOwn DEF Running, HealInv, SftpTypeOK

LEMMA AnsweredHeals ==
  ASSUME HealInv, NEW o \in Operations, Answered(o)
  PROVE  HealInv'
<1>1. /\ SftpTypeOK /\ OpenerWaits /\ operations[o] \in Operation
      /\ operations[o].stage = "using" /\ ~ Dead(operations[o].using)
      /\ UNCHANGED <<client, sessions, alone, faults>>
  BY DEF HealInv, SftpTypeOK, Answered
<1>2. CASE operations[o].left = 1
  <2> DEFINE op == [operations[o] EXCEPT !.stage = "done", !.using = NoClient]
  <2>1. op \in Operation /\ op.stage = "done"
    BY <1>1 DEF Operation
  <2>2. operations' = [operations EXCEPT ![o] = op] /\ connecting' = connecting
    BY <1>1, <1>2 DEF Answered, SftpTypeOK
  <2> HIDE DEF op
  <2>3. operations'[o] = op
    BY <1>1, <2>2 DEF SftpTypeOK
  <2>4. OpenerWaits'
    BY <1>1, <2>2 DEF OpenerWaits, SftpTypeOK
  <2>5. FaultsCounted(o)' /\ Healed(o)'
    BY <2>1, <2>3 DEF FaultsCounted, Running, Healed
  <2> QED BY <1>1, <2>1, <2>2, <2>4, <2>5, OnlyOwn DEF Running, SftpTypeOK
<1>3. CASE operations[o].left # 1
  <2> DEFINE op == [operations[o] EXCEPT !.left = @ - 1, !.try = 1]
  <2>1. operations[o].left = 2
    BY <1>1, <1>3 DEF Operation
  <2>2. op \in Operation
    <3> DEFINE sent == [operations[o] EXCEPT !.left = @ - 1]
    <3>1. operations[o].left - 1 \in 1..2
      BY <2>1
    <3>2. sent \in Operation
      BY <1>1, <3>1 DEF Operation
    <3>3. op = [sent EXCEPT !.try = 1]
      OBVIOUS
    <3> HIDE DEF sent, op
    <3>4. [sent EXCEPT !.try = 1] \in Operation
      BY <3>2 DEF Operation
    <3> QED BY <3>3, <3>4
  <2>3. op.try = 1 /\ op.hits = operations[o].hits /\ op.hits \in Nat
    BY <1>1 DEF Operation
  <2>4. GetClient(o, op, client)
    BY <1>3 DEF Answered
  <2> HIDE DEF op
  <2>5. alone[o] => ~ Dead(client)
    BY <1>1 DEF HealInv, FaultsCounted
  <2>6. alone[o] => op.hits >= op.try - 1 + (IF Dead(client) THEN 1 ELSE 0)
    BY <2>3, <2>5
  <2>7. client \in Clients \cup {NoClient}
    BY <1>1 DEF SftpTypeOK
  <2> QED BY <1>1, <2>2, <2>4, <2>6, <2>7, AskAgain
<1> QED BY <1>2, <1>3

(* withClient after fn has rejected with the fault counted in op.          *)
LEMMA RejectedHeals ==
  ASSUME HealInv, NEW o \in Operations, operations[o].stage = "using",
         NEW op \in Operation, op.stage = "using",
         NEW cause \in {"lost", "sourceGone", "refused"},
         Rejected(o, op, cause), client' = client, alone' = alone,
         alone[o] => (op.kind = "rename" /\ op.moved) \/ op.hits >= op.try
  PROVE  HealInv'
<1>1. /\ SftpTypeOK /\ OpenerWaits /\ op.try \in {1, 2} /\ op.hits \in Nat
      /\ client \in Clients \cup {NoClient}
  BY DEF HealInv, SftpTypeOK, Operation
<1>2. CASE op.try = 2
  <2>1. /\ Failed(op, cause) \in Operation /\ Failed(op, cause).stage = "failed"
        /\ Failed(op, cause).kind = op.kind /\ Failed(op, cause).moved = op.moved
        /\ Failed(op, cause).hits = op.hits
    BY DEF Failed, Operation
  <2>2. /\ operations' = [operations EXCEPT ![o] = Failed(op, cause)]
        /\ UNCHANGED <<connecting, sessions>>
    BY <1>2 DEF Rejected
  <2>3. operations'[o] = Failed(op, cause)
    BY <1>1, <2>2 DEF SftpTypeOK
  <2>4. OpenerWaits'
    BY <1>1, <2>2 DEF OpenerWaits, SftpTypeOK
  <2>5. alone[o] => FaultsCounted(o)' /\ Healed(o)'
    BY <1>1, <1>2, <2>1, <2>3 DEF FaultsCounted, Running, Healed, MovedAlready
  <2> QED BY <1>1, <2>1, <2>2, <2>4, <2>5, OnlyOwn DEF Running, SftpTypeOK
<1>3. CASE op.try = 1 /\ client = NoClient
  <2> DEFINE again == [op EXCEPT !.try = 2]
  <2>1. again \in Operation
    BY DEF Operation
  <2>2. /\ again.try = 2 /\ again.hits = op.hits
        /\ again.kind = op.kind /\ again.moved = op.moved
    BY DEF Operation
  <2>3. GetClient(o, again, NoClient) /\ sessions' = sessions
    BY <1>3 DEF Rejected
  <2> HIDE DEF again
  <2>4. alone[o] => \/ again.kind = "rename" /\ again.moved
                    \/ again.hits >= again.try - 1 + (IF Dead(NoClient) THEN 1 ELSE 0)
    BY <1>1, <1>3, <2>2 DEF Dead
  <2> QED BY <1>3, <2>1, <2>3, <2>4, AskAgain
<1>4. CASE op.try = 1 /\ client # NoClient
  <2> DEFINE ending == [op EXCEPT !.stage = "ending", !.using = NoClient, !.try = 2]
  <2>1. ending \in Operation
    <3> DEFINE free == [op EXCEPT !.stage = "ending", !.using = NoClient]
    <3>1. free \in Operation
      BY DEF Operation
    <3>2. ending = [free EXCEPT !.try = 2]
      OBVIOUS
    <3> HIDE DEF free, ending
    <3>3. [free EXCEPT !.try = 2] \in Operation
      BY <3>1 DEF Operation
    <3> QED BY <3>2, <3>3
  <2>2. /\ ending.stage = "ending" /\ ending.try = 2 /\ ending.hits = op.hits
        /\ ending.kind = op.kind /\ ending.moved = op.moved
    BY DEF Operation
  <2>3. /\ operations' = [operations EXCEPT ![o] = ending]
        /\ sessions' = [sessions EXCEPT ![client] = "ended"]
        /\ connecting' = connecting
    BY <1>4 DEF Rejected
  <2> HIDE DEF ending
  <2>4. operations'[o] = ending
    BY <1>1, <2>3 DEF SftpTypeOK
  <2>5. OpenerWaits'
    BY <1>1, <2>3 DEF OpenerWaits, SftpTypeOK
  <2>6. alone[o] => FaultsCounted(o)' /\ Healed(o)'
    BY <1>1, <1>4, <2>2, <2>4 DEF FaultsCounted, UsesDead, Healed, MovedAlready
  <2>7. sessions' \in [Clients -> {"new", "open", "dropped", "ended"}]
    BY <1>1, <2>3 DEF SftpTypeOK
  <2> QED BY <1>1, <2>1, <2>2, <2>3, <2>5, <2>6, <2>7, OnlyOwn DEF Running, SftpTypeOK
<1> QED BY <1>1, <1>2, <1>3, <1>4

LEMMA RejectsHeals ==
  ASSUME HealInv, NEW o \in Operations, Rejects(o)
  PROVE  HealInv'
<1>1. /\ operations[o] \in Operation /\ operations[o].stage = "using"
      /\ operations[o].try \in Int /\ operations[o].hits \in Int
      /\ UNCHANGED <<client, alone, faults>>
  <2>1. operations[o] \in Operation
    BY DEF HealInv, SftpTypeOK
  <2> QED BY <2>1 DEF Operation, Rejects
<1>2. CASE Dead(operations[o].using) /\ Rejected(o, operations[o], "lost")
  <2>1. alone[o] => MovedAlready(o) \/ operations[o].hits >= operations[o].try
    BY <1>1, <1>2 DEF HealInv, FaultsCounted, Running, UsesDead
  <2> QED BY <1>1, <1>2, <2>1, RejectedHeals DEF MovedAlready
<1>3. CASE SourceGone(o) /\ Rejected(o, operations[o], "sourceGone")
  BY <1>1, <1>3, RejectedHeals DEF SourceGone
<1> QED BY <1>2, <1>3 DEF Rejects

LEMMA RefusesHeals ==
  ASSUME HealInv, NEW o \in Operations, Refuses(o)
  PROVE  HealInv'
<1> DEFINE op == Hit(operations[o])
<1>1. /\ operations[o] \in Operation /\ operations[o].stage = "using"
      /\ operations[o].try \in Int /\ operations[o].hits \in Int
      /\ UNCHANGED <<client, alone>>
  <2>1. operations[o] \in Operation
    BY DEF HealInv, SftpTypeOK
  <2> QED BY <2>1 DEF Operation, Refuses
<1>2. op \in Operation
  BY <1>1 DEF Operation, Hit
<1>3. /\ op.stage = "using" /\ op.hits = operations[o].hits + 1
      /\ op.try = operations[o].try
      /\ op.kind = operations[o].kind /\ op.moved = operations[o].moved
  BY <1>1 DEF Operation, Hit
<1> HIDE DEF op
<1>4. alone[o] => (op.kind = "rename" /\ op.moved) \/ op.hits >= op.try
  BY <1>1, <1>3 DEF HealInv, FaultsCounted, Running, MovedAlready
<1>5. CASE Rejected(o, op, "refused")
  BY <1>1, <1>2, <1>3, <1>4, <1>5, RejectedHeals
<1>6. CASE /\ operations' = [operations EXCEPT ![o] = Failed(op, "denied")]
           /\ UNCHANGED <<connecting, sessions>>
  <2>1. /\ Failed(op, "denied") \in Operation /\ Failed(op, "denied").stage = "failed"
        /\ Failed(op, "denied").cause = "denied"
    BY <1>2 DEF Failed, Operation
  <2>2. operations'[o] = Failed(op, "denied")
    BY <1>6 DEF HealInv, SftpTypeOK
  <2>3. OpenerWaits'
    BY <1>1, <1>6 DEF HealInv, OpenerWaits, SftpTypeOK
  <2>4. FaultsCounted(o)' /\ Healed(o)'
    BY <2>1, <2>2 DEF FaultsCounted, Running, Healed
  <2> QED BY <1>1, <1>6, <2>1, <2>3, <2>4, OnlyOwn DEF Running, HealInv, SftpTypeOK
<1> QED BY <1>5, <1>6 DEF Refuses, op

LEMMA EndedHeals ==
  ASSUME HealInv, NEW o \in Operations, Ended(o)
  PROVE  HealInv'
<1>1. /\ operations[o] \in Operation /\ operations[o].stage = "ending"
      /\ client' = NoClient /\ GetClient(o, operations[o], NoClient)
      /\ UNCHANGED <<sessions, alone, faults>>
  BY DEF HealInv, SftpTypeOK, Ended
<1>2. operations[o].try \in Int /\ operations[o].hits \in Int
  BY <1>1 DEF Operation
<1>3. alone[o] =>
        \/ operations[o].kind = "rename" /\ operations[o].moved
        \/ operations[o].hits >= operations[o].try - 1 + (IF Dead(NoClient) THEN 1 ELSE 0)
  BY <1>1, <1>2 DEF HealInv, FaultsCounted, Running, MovedAlready, UsesDead, Dead
<1> QED BY <1>1, <1>3, AskAgain

(* The network drops a connection: a fault for whoever uses it.            *)
LEMMA DropHeals ==
  ASSUME HealInv, NEW c \in Clients, Drop(c)
  PROVE  HealInv'
<1>1. /\ SftpTypeOK /\ sessions[c] = "open"
      /\ sessions' = [sessions EXCEPT ![c] = "dropped"]
      /\ UNCHANGED <<client, connecting, alone>>
  BY DEF HealInv, Drop
<1>2. PICK S : operations' = [o \in Operations |->
        IF operations[o].using = c
        THEN [Hit(operations[o]) EXCEPT !.moved = @ \/ o \in S]
        ELSE operations[o]]
  BY DEF Drop
<1>3. ASSUME NEW o \in Operations
      PROVE  /\ operations'[o] \in Operation
             /\ operations'[o].kind = operations[o].kind
             /\ operations'[o].stage = operations[o].stage
             /\ operations'[o].try = operations[o].try
             /\ operations'[o].using = operations[o].using
             /\ operations'[o].cause = operations[o].cause
             /\ operations[o].moved => operations'[o].moved
             /\ operations'[o].hits
                  = operations[o].hits + (IF operations[o].using = c THEN 1 ELSE 0)
  <2> DEFINE op == operations[o]
             hit == Hit(op)
  <2>1. op \in Operation /\ op.hits \in Nat
    <3>1. op \in Operation
      BY <1>1 DEF SftpTypeOK
    <3> QED BY <3>1 DEF Operation
  <2>2. hit \in Operation /\ hit.hits = op.hits + 1
        /\ hit.kind = op.kind /\ hit.stage = op.stage /\ hit.try = op.try
        /\ hit.using = op.using /\ hit.cause = op.cause /\ hit.moved = op.moved
    BY <2>1 DEF Operation, Hit
  <2>3. operations'[o] = IF op.using = c THEN [hit EXCEPT !.moved = @ \/ o \in S] ELSE op
    BY <1>2
  <2> HIDE DEF hit, op
  <2>4. PICK m \in BOOLEAN : m = (hit.moved \/ o \in S)
    OBVIOUS
  <2>5. [hit EXCEPT !.moved = m] \in Operation
    BY <2>2 DEF Operation
  <2>6. [hit EXCEPT !.moved = @ \/ o \in S] = [hit EXCEPT !.moved = m]
    BY <2>4
  <2>7. CASE op.using = c
    <3>1. operations'[o] = [hit EXCEPT !.moved = m]
      BY <2>3, <2>6, <2>7
    <3>2. op.moved => m
      BY <2>2, <2>4
    <3> QED BY <2>2, <2>5, <2>7, <3>1, <3>2 DEF Operation, op
  <2>8. CASE op.using # c
    BY <2>1, <2>3, <2>8 DEF op
  <2> QED BY <2>7, <2>8
<1>4. SftpTypeOK'
  <2>1. operations' \in [Operations -> Operation]
    BY <1>2, <1>3
  <2>2. sessions' \in [Clients -> {"new", "open", "dropped", "ended"}]
    BY <1>1 DEF SftpTypeOK
  <2> QED BY <1>1, <2>1, <2>2 DEF SftpTypeOK
<1>5. \A o \in Operations : (Running(o)' <=> Running(o)) /\ (MovedAlready(o) => MovedAlready(o)')
  BY <1>3 DEF Running, MovedAlready
<1>6. OpenerWaits' /\ StartsFresh' /\ AloneIsAlone'
  <2>1. OpenerWaits'
    BY <1>1, <1>3 DEF HealInv, OpenerWaits, SftpTypeOK
  <2>2. StartsFresh'
    BY <1>3 DEF HealInv, StartsFresh
  <2>3. AloneIsAlone'
    BY <1>1, <1>5 DEF HealInv, AloneIsAlone
  <2> QED BY <2>1, <2>2, <2>3
<1>7. ASSUME NEW o \in Operations, alone[o] PROVE FaultsCounted(o)' /\ Healed(o)'
  <2>1. /\ operations[o].hits \in Nat /\ operations[o].try \in Int
        /\ operations[o] \in Operation
    BY <1>1 DEF SftpTypeOK, Operation
  <2>2. UsesDead(o)' => UsesDead(o) \/ operations[o].using = c
    BY <1>1, <1>3 DEF UsesDead, Dead, SftpTypeOK
  <2>3. UsesDead(o) => operations[o].using # c
    BY <1>1 DEF UsesDead, Dead
  <2>4. FaultsCounted(o) /\ Healed(o)
    BY <1>7 DEF HealInv, HealsAlone, Healed, MovedAlready
  <2>5. Running(o)' =>
          \/ MovedAlready(o)'
          \/ (operations[o].hits >= operations[o].try - 1 + (IF UsesDead(o) THEN 1 ELSE 0))'
    <3>1. SUFFICES ASSUME Running(o), ~ MovedAlready(o)
                   PROVE  (operations[o].hits
                             >= operations[o].try - 1 + (IF UsesDead(o) THEN 1 ELSE 0))'
      BY <1>5
    <3>2. operations[o].hits >= operations[o].try - 1 + (IF UsesDead(o) THEN 1 ELSE 0)
      BY <2>4, <3>1 DEF FaultsCounted
    <3> QED BY <1>3, <2>1, <2>2, <2>3, <3>2
  <2>6. Healed(o)'
    BY <1>3, <1>5, <2>1, <2>4 DEF Healed
  <2> QED BY <1>1, <1>3, <2>4, <2>5, <2>6 DEF FaultsCounted
<1>8. HealsAlone'
  BY <1>1, <1>7 DEF HealsAlone, Healed, MovedAlready
<1> QED BY <1>1, <1>4, <1>6, <1>7, <1>8 DEF HealInv

LEMMA HealInitially == ResourcesInit => HealInv
<1> SUFFICES ASSUME ResourcesInit PROVE HealInv
  OBVIOUS
<1>1. Disconnected
  BY DEF ResourcesInit, SftpInit, NoFilesInit
<1>2. PICK mix \in [Operations -> Kinds], stage \in {"idle", "absent"} :
        operations = [o \in Operations |-> [NewOperation(mix[o]) EXCEPT !.stage = stage]]
  <2>1. CASE SftpInit
    <3>1. PICK mix \in [Operations -> Kinds] :
            operations = [o \in Operations |-> NewOperation(mix[o])]
      BY <2>1 DEF SftpInit
    <3>2. ASSUME NEW o \in Operations
          PROVE  NewOperation(mix[o]) = [NewOperation(mix[o]) EXCEPT !.stage = "idle"]
      <4>1. NewOperation(mix[o]) \in Operation /\ NewOperation(mix[o]).stage = "idle"
        BY DEF NewOperation, Operation, Calls, Kinds
      <4> QED BY <4>1 DEF Operation
    <3>3. operations = [o \in Operations |-> [NewOperation(mix[o]) EXCEPT !.stage = "idle"]]
      BY <3>1, <3>2, Zenon
    <3> QED BY <3>3, Zenon
  <2>2. CASE NoFilesInit
    <3>1. operations = [o \in Operations |-> [NewOperation("delete") EXCEPT !.stage = "absent"]]
      BY <2>2 DEF NoFilesInit
    <3>2. [o \in Operations |-> "delete"] \in [Operations -> Kinds]
      BY DEF Kinds
    <3> QED BY <3>1, <3>2
  <2> QED BY <2>1, <2>2 DEF ResourcesInit
<1>3. ASSUME NEW o \in Operations
      PROVE  /\ operations[o] \in Operation
             /\ operations[o].stage \in {"idle", "absent"}
             /\ operations[o].try = 1
  <2>1. mix[o] \in Kinds
    OBVIOUS
  <2>2. NewOperation(mix[o]) \in Operation
    BY <2>1 DEF NewOperation, Operation, Calls
  <2>3. [NewOperation(mix[o]) EXCEPT !.stage = stage] \in Operation
    BY <2>2 DEF Operation
  <2> QED BY <1>2, <2>2, <2>3 DEF Operation, NewOperation
<1>4. SftpTypeOK
  BY <1>1, <1>2, <1>3 DEF Disconnected, SftpTypeOK
<1>5. OpenerWaits
  BY <1>1 DEF Disconnected, OpenerWaits
<1> QED BY <1>3, <1>4, <1>5
        DEF HealInv, StartsFresh, AloneIsAlone, FaultsCounted, Running, HealsAlone

LEMMA HealNext ==
  ASSUME HealInv, [ResourcesNext]_resourceVars
  PROVE  HealInv'
<1>1. ASSUME NEW o \in Operations, Start(o) \/ Proceed(o) \/ ConnectFails(o) \/ Refuses(o)
      PROVE  HealInv'
  BY <1>1, StartHeals, ConnectedHeals, AnsweredHeals, RejectsHeals, EndedHeals,
     ConnectFailsHeals, RefusesHeals DEF Proceed
<1>2. ASSUME NEW c \in Clients, Drop(c)
      PROVE  HealInv'
  BY <1>2, DropHeals
<1>3. ASSUME UNCHANGED sftpVars
      PROVE  HealInv'
  BY <1>3 DEF sftpVars, HealInv, SftpTypeOK, OpenerWaits, StartsFresh, AloneIsAlone,
              FaultsCounted, Running, MovedAlready, UsesDead, Dead, HealsAlone
<1> QED BY <1>1, <1>2, <1>3 DEF ResourcesNext, SftpNext, resourceVars

(* The second try of withClient heals one fault of an operation that runs  *)
(* by itself, wherever the fault hits and whatever was left by operations  *)
(* before it: any number of operations, of faults and of connections.      *)
THEOREM SecondTryHeals == ResourcesSpec => []HealsAlone
<1>1. HealInv => HealsAlone
  BY DEF HealInv
<1> QED BY <1>1, HealInitially, HealNext, PTL DEF ResourcesSpec

-----------------------------------------------------------------------------
(* CreditService.  What every wallet was after the first n rows of the log *)
(* is what the log says: the wallet now (n = all rows), and the snapshot   *)
(* of every open transaction (n = the rows it has seen).  The row lock of  *)
(* the wallet keeps it still from the first write of a transaction to its  *)
(* commit, so the rows a transaction has not yet committed continue the    *)
(* log.                                                                    *)
Zero == [amount |-> 0, lockedAmount |-> 0]
Types == {"IN", "OUT", "LOCK", "UNLOCK"}

Said ==
  {<<"look">>, <<"ensureWallet">>, <<"balance">>}
  \cup ({"lock", "write"} \X Rows) \cup ({"update"} \X Types)

(* ensureWallet and the UPDATE of apply come as a pair.                    *)
Paired(todo) ==
  \A k \in DOMAIN todo :
    /\ todo[k][1] = "ensureWallet" => k + 1 \in DOMAIN todo /\ todo[k + 1][1] = "update"
    /\ k > 1 /\ todo[k][1] = "update" => todo[k - 1][1] = "ensureWallet"

SeenOf(u, n) == {j \in LogOf(u) : j <= n}
HeldAfter(u, n) == IF SeenOf(u, n) = {} THEN Opening[u] ELSE BalanceAfter(u, SeenOf(u, n))

Balance0(w) == IF w = NoWallet THEN Zero ELSE w

MoneyTyped(q) ==
  /\ q.todo \in Seq(Said) /\ Paired(q.todo)
  /\ q.own \in Wallet \cup {NoWallet}
  /\ q.view \in {NoView} \cup [wallet : Wallet \cup {NoWallet}, seen : Nat]
  /\ q.logged \in Seq(LogRows)

MoneyTypes ==
  /\ RequestTypes
  /\ wallets \in [Users -> Wallet \cup {NoWallet}]
  /\ creditLog \in Seq(LogRows)
  /\ \A r \in Requests : MoneyTyped(requests[r])

WalletsHeld == \A u \in Users : wallets[u] = HeldAfter(u, Len(creditLog))

(* What an open transaction has read.                                      *)
HasRead(r) ==
  LET q == requests[r]
  IN  /\ q.view # NoView => /\ q.view.seen <= Len(creditLog)
                            /\ q.view.wallet = HeldAfter(User(r), q.view.seen)
      /\ ~ AtEnd(r) /\ Statement(r)[1] = "update" =>
           q.view # NoView /\ q.before = Visible(r) /\ q.before # NoWallet

(* What an open transaction has written.                                   *)
HasWritten(r) ==
  LET q == requests[r]
      u == User(r)
  IN  /\ q.own # NoWallet => locks[u] = r /\ q.view # NoView
      /\ q.own = NoWallet => q.logged = <<>>
      /\ q.own # NoWallet /\ q.logged = <<>> =>
           /\ q.own = Zero /\ wallets[u] = NoWallet
           /\ ~ AtEnd(r) /\ Statement(r)[1] = "update"
      /\ q.logged # <<>> => q.own = q.logged[Len(q.logged)].after
      /\ \A k \in DOMAIN q.logged :
           LET row == q.logged[k]
           IN  /\ row.user = u /\ row.by = r /\ row.seen = q.view.seen
               /\ row.after = Changed(row.type,
                                      IF k = 1 THEN Balance0(wallets[u])
                                               ELSE q.logged[k - 1].after, Amount[u])
               /\ row.before = IF k = 1 THEN Balance0(q.view.wallet)
                                        ELSE q.logged[k - 1].after

Fresh(r) ==
  /\ requests[r].view = NoView /\ requests[r].own = NoWallet /\ requests[r].logged = <<>>
  /\ requests[r].todo = Statements(requests[r].handler)

LoggedByCommitted ==
  \A i \in DOMAIN creditLog : requests[creditLog[i].by].stage = "committed"

(* Row i of the log, with the rows of its user before it, and with those   *)
(* of them its transaction knew.                                           *)
RowChained(i) ==
  LET row == creditLog[i]
  IN  row.after = Changed(row.type, BalanceAfter(row.user, SeenOf(row.user, i - 1)),
                          Amount[row.user])

Known(i) ==
  {j \in SeenOf(creditLog[i].user, i - 1) :
     j <= creditLog[i].seen \/ creditLog[j].by = creditLog[i].by}

RowKnew(i) == creditLog[i].before = BalanceAfter(creditLog[i].user, Known(i))

MoneyInv ==
  /\ MoneyTypes
  /\ WalletsHeld
  /\ \A r \in Requests : Open(r) => HasRead(r) /\ HasWritten(r)
  /\ \A r \in Requests : requests[r].stage = "waiting" => Fresh(r)
  /\ LoggedByCommitted
  /\ \A i \in DOMAIN creditLog : RowChained(i) /\ RowKnew(i)

Last(S) == CHOOSE i \in S : \A j \in S : j <= i

LEMMA LastMember ==
  ASSUME NEW n \in Nat, NEW S \in SUBSET (1..n), S # {}
  PROVE  Last(S) \in S /\ \A j \in S : j <= Last(S)
<1> DEFINE T == {k \in Nat : n - k \in S}
<1>1. T \subseteq Nat
  OBVIOUS
<1>2. T # {}
  <2>1. PICK i \in S : TRUE
    OBVIOUS
  <2>2. n - i \in T
    BY <2>1
  <2> QED BY <2>2
<1> HIDE DEF T
<1>3. PICK k \in T : \A y \in T : ~ (<<y, k>> \in OpToRel(<, Nat))
  BY <1>1, <1>2, WFMin, NatLessThanWellFounded
<1>4. \A y \in T : ~ (y < k)
  BY <1>1, <1>3 DEF OpToRel
<1>5. n - k \in S /\ k \in Nat
  BY DEF T
<1>6. ASSUME NEW j \in S PROVE j <= n - k
  <2>1. n - j \in Nat /\ n - (n - j) = j
    OBVIOUS
  <2>2. n - j \in T
    BY <2>1 DEF T
  <2>3. ~ (n - j < k)
    BY <1>4, <2>2
  <2> QED BY <1>5, <2>1, <2>3
<1>7. \E i \in S : \A j \in S : j <= i
  BY <1>5, <1>6
<1> QED BY <1>7 DEF Last

LEMMA LastIs ==
  ASSUME NEW n \in Nat, NEW S \in SUBSET (1..n), NEW m \in S, \A j \in S : j <= m
  PROVE  Last(S) = m
<1>1. Last(S) \in S /\ \A j \in S : j <= Last(S)
  BY LastMember
<1>2. Last(S) <= m /\ m <= Last(S)
  BY <1>1
<1>3. \A j \in S : j \in Int
  OBVIOUS
<1>4. Last(S) \in Int /\ m \in Int
  BY <1>1, <1>3
<1> QED BY <1>2, <1>4

(* The last of the rows S of the log.                                      *)
LEMMA BalanceOfLast ==
  ASSUME NEW u, NEW S
  PROVE  BalanceAfter(u, S) = IF S = {} THEN First(u) ELSE creditLog[Last(S)].after
BY DEF BalanceAfter, Last

(* A log that grows does not change what it said before.                   *)
Grown ==
  /\ creditLog \in Seq(LogRows) /\ creditLog' \in Seq(LogRows)
  /\ Len(creditLog) <= Len(creditLog')
  /\ \A i \in 1..Len(creditLog) : creditLog'[i] = creditLog[i]

LEMMA GrownSeen ==
  ASSUME Grown, NEW u, NEW n \in Int, n <= Len(creditLog)
  PROVE  /\ SeenOf(u, n)' = SeenOf(u, n)
         /\ SeenOf(u, n) \in SUBSET (1..Len(creditLog))
<1> DEFINE len == Len(creditLog)
<1>1. /\ len \in Nat /\ DOMAIN creditLog = 1..len
      /\ Len(creditLog') \in Nat /\ DOMAIN creditLog' = 1..Len(creditLog')
      /\ len <= Len(creditLog')
      /\ \A i \in 1..len : creditLog'[i] = creditLog[i]
  BY DEF Grown
<1>2. \A j : j \in SeenOf(u, n) <=> j \in 1..len /\ creditLog[j].user = u /\ j <= n
  BY <1>1 DEF SeenOf, LogOf
<1>3. \A j : j \in SeenOf(u, n)' <=> j \in 1..Len(creditLog') /\ creditLog'[j].user = u /\ j <= n
  BY <1>1 DEF SeenOf, LogOf
<1>4. \A j \in 1..Len(creditLog') : j <= n => j \in 1..len
  BY <1>1
<1>5. \A j : j \in 1..len => j \in 1..Len(creditLog')
  BY <1>1
<1>6. \A j : j \in SeenOf(u, n) <=> j \in SeenOf(u, n)'
  BY <1>1, <1>2, <1>3, <1>4, <1>5
<1> QED BY <1>2, <1>6

LEMMA GrownBalance ==
  ASSUME Grown, NEW u, NEW S \in SUBSET (1..Len(creditLog))
  PROVE  (IF S = {} THEN First(u) ELSE creditLog'[Last(S)].after) = BalanceAfter(u, S)
<1>1. S # {} => Last(S) \in 1..Len(creditLog)
  <2>1. Len(creditLog) \in Nat
    BY DEF Grown
  <2> QED BY <2>1, LastMember
<1>2. S # {} => creditLog'[Last(S)] = creditLog[Last(S)]
  BY <1>1 DEF Grown
<1> QED BY <1>2, BalanceOfLast

LEMMA GrownHeld ==
  ASSUME Grown, NEW u, NEW n \in Int, n <= Len(creditLog)
  PROVE  HeldAfter(u, n)' = HeldAfter(u, n)
<1> DEFINE S == SeenOf(u, n)
<1>1. SeenOf(u, n)' = S /\ S \in SUBSET (1..Len(creditLog))
  BY GrownSeen
<1>2. PICK R : R = S
  OBVIOUS
<1>3. HeldAfter(u, n)' = IF R = {} THEN Opening[u] ELSE creditLog'[Last(R)].after
  BY <1>1, <1>2 DEF HeldAfter, BalanceAfter, Last
<1>4. HeldAfter(u, n) = IF R = {} THEN Opening[u] ELSE BalanceAfter(u, R)
  BY <1>2 DEF HeldAfter
<1>5. R # {} => creditLog'[Last(R)].after = BalanceAfter(u, R)
  BY <1>1, <1>2, GrownBalance
<1> QED BY <1>3, <1>4, <1>5

LEMMA KeptChain ==
  ASSUME Grown, NEW i \in DOMAIN creditLog
  PROVE  /\ i \in DOMAIN creditLog' /\ creditLog'[i] = creditLog[i]
         /\ creditLog[i] \in LogRows
         /\ RowChained(i) => RowChained(i)'
         /\ RowKnew(i) => RowKnew(i)'
<1> DEFINE u == creditLog[i].user
<1>1. /\ i \in 1..Len(creditLog) /\ i \in DOMAIN creditLog'
      /\ creditLog'[i] = creditLog[i] /\ creditLog[i] \in LogRows
      /\ i - 1 \in Int /\ i - 1 <= Len(creditLog)
  BY DEF Grown
<1>2. PICK v, S : v = u /\ S = SeenOf(v, i - 1)
  OBVIOUS
<1>3. SeenOf(v, i - 1)' = S /\ S \in SUBSET (1..Len(creditLog))
  BY <1>1, <1>2, GrownSeen
<1>4. BalanceAfter(v, S)' = BalanceAfter(v, S)
  <2>1. BalanceAfter(v, S)' = IF S = {} THEN First(v) ELSE creditLog'[Last(S)].after
    BY DEF BalanceAfter, Last
  <2> QED BY <1>3, <2>1, GrownBalance
<1>5. RowChained(i) => RowChained(i)'
  <2>1. RowChained(i) <=>
          creditLog[i].after = Changed(creditLog[i].type, BalanceAfter(v, S), Amount[v])
    BY <1>2 DEF RowChained
  <2>2. creditLog'[i].user = v
    BY <1>1, <1>2
  <2>3. RowChained(i)' <=>
          creditLog'[i].after = Changed(creditLog'[i].type, BalanceAfter(v, S)', Amount[v])
    BY <1>3, <2>2 DEF RowChained
  <2> QED BY <1>1, <1>4, <2>1, <2>3
<1>6. PICK K : K = Known(i)
  OBVIOUS
<1>7. K \in SUBSET (1..Len(creditLog)) /\ Known(i)' = K
  <2>1. \A j \in S : creditLog'[j] = creditLog[j]
    BY <1>3 DEF Grown
  <2>2. K = {j \in S : j <= creditLog[i].seen \/ creditLog[j].by = creditLog[i].by}
    BY <1>2, <1>6 DEF Known
  <2>3. Known(i)' = {j \in S : j <= creditLog'[i].seen \/ creditLog'[j].by = creditLog'[i].by}
    BY <1>1, <1>2, <1>3 DEF Known
  <2> QED BY <1>1, <1>3, <2>1, <2>2, <2>3
<1>8. RowKnew(i) => RowKnew(i)'
  <2>1. RowKnew(i) <=> creditLog[i].before = BalanceAfter(v, K)
    BY <1>2, <1>6 DEF RowKnew
  <2>2. BalanceAfter(v, K)' = IF K = {} THEN First(v) ELSE creditLog'[Last(K)].after
    BY DEF BalanceAfter, Last
  <2>3. BalanceAfter(v, K)' = BalanceAfter(v, K)
    BY <1>7, <2>2, GrownBalance
  <2>4. RowKnew(i)' <=> creditLog'[i].before = BalanceAfter(v, K)'
    BY <1>1, <1>2, <1>7 DEF RowKnew
  <2> QED BY <1>1, <2>1, <2>3, <2>4
<1> QED BY <1>1, <1>5, <1>8

LEMMA UserIsUser ==
  ASSUME NEW h \in Handlers
  PROVE  UserOf(h) \in Users
BY DEF Handlers, UserOf

(* A step of r that commits nothing.                                       *)
LEMMA WorkKeepsMoney ==
  ASSUME MoneyInv, NEW r \in Requests, NEW stage, Moves(r, stage), LocksKept(r),
         wallets' = wallets, creditLog' = creditLog,
         requests[r].stage \in {"waiting", "open"}, stage # "waiting",
         MoneyTyped(requests'[r]),
         stage = "open" => HasRead(r)' /\ HasWritten(r)'
  PROVE  MoneyInv'
<1>1. MoneyTypes'
  <2>1. RequestTypes'
    BY DEF MoneyInv, MoneyTypes, RequestTypes, Moves, LocksKept
  <2>2. \A s \in Requests : MoneyTyped(requests'[s])
    BY DEF MoneyInv, MoneyTypes, MoneyTyped, Moves
  <2> QED BY <2>1, <2>2 DEF MoneyInv, MoneyTypes, MoneyTyped
<1>2. WalletsHeld'
  <2>1. \A u, n : HeldAfter(u, n)' = HeldAfter(u, n)
    BY DEF HeldAfter, SeenOf, LogOf, BalanceAfter, First
  <2> QED BY <2>1 DEF MoneyInv, WalletsHeld
<1>3. ASSUME NEW s \in Requests, Open(s)' PROVE HasRead(s)' /\ HasWritten(s)'
  <2>1. CASE s = r
    BY <1>3, <2>1 DEF Open, Moves
  <2>2. CASE s # r
    <3>1. requests'[s] = requests[s] /\ HasRead(s) /\ HasWritten(s)
      BY <1>3, <2>2 DEF MoneyInv, Moves, Open
    <3>2. User(s) \in Rows
      BY UserIsUser DEF User, MoneyInv, MoneyTypes, RequestTypes
    <3>3. locks[User(s)] = s => locks'[User(s)] = s
      BY <2>2, <3>2 DEF LocksKept
    <3>4. HasRead(s)'
      BY <3>1 DEF HasRead, AtEnd, Statement, User, Visible, View, HeldAfter, SeenOf, LogOf,
                  BalanceAfter, First
    <3>5. HasWritten(s)'
      BY <3>1, <3>3 DEF HasWritten, AtEnd, Statement, User
    <3> QED BY <3>4, <3>5
  <2> QED BY <2>1, <2>2
<1>4. ASSUME NEW s \in Requests, requests'[s].stage = "waiting" PROVE Fresh(s)'
  <2>1. s # r /\ requests'[s] = requests[s]
    BY <1>4 DEF Moves
  <2> QED BY <1>4, <2>1 DEF MoneyInv, Fresh
<1>5. LoggedByCommitted'
  <2>1. ASSUME NEW i \in DOMAIN creditLog PROVE requests'[creditLog[i].by].stage = "committed"
    <3>1. creditLog[i] \in LogRows
      BY DEF MoneyInv, MoneyTypes
    <3>2. creditLog[i].by \in Requests
      BY <3>1 DEF LogRows
    <3>3. requests[creditLog[i].by].stage = "committed"
      BY DEF MoneyInv, LoggedByCommitted
    <3> QED BY <3>2, <3>3 DEF Moves
  <2> QED BY <2>1 DEF LoggedByCommitted
<1>6. ASSUME NEW i \in DOMAIN creditLog' PROVE RowChained(i)' /\ RowKnew(i)'
  <2>1. RowChained(i) /\ RowKnew(i)
    BY <1>6 DEF MoneyInv
  <2>2. RowChained(i)' <=> RowChained(i)
    BY DEF RowChained, SeenOf, LogOf, BalanceAfter, First
  <2>3. RowKnew(i)' <=> RowKnew(i)
    BY DEF RowKnew, Known, SeenOf, LogOf, BalanceAfter, First
  <2> QED BY <2>1, <2>2, <2>3
<1> QED BY <1>1, <1>2, <1>3, <1>4, <1>5, <1>6 DEF MoneyInv

(* Pieces of a transaction, whole applies.                                 *)
Piece(s) == s \in Seq(Said) /\ Paired(s) /\ s # <<>> /\ s[1][1] # "update"

LEMMA PieceJoined ==
  ASSUME NEW s, NEW t, Piece(s), Piece(t)
  PROVE  Piece(s \o t)
<1> DEFINE m == Len(s)
           n == Len(t)
           st == s \o t
<1>1. /\ m \in Nat /\ m >= 1 /\ DOMAIN s = 1..m
      /\ n \in Nat /\ n >= 1 /\ DOMAIN t = 1..n
      /\ s \in Seq(Said) /\ t \in Seq(Said)
  BY DEF Piece
<1>2. st \in Seq(Said) /\ DOMAIN st = 1..(m + n) /\ st # <<>>
  BY <1>1
<1>3. (\A k \in 1..m : st[k] = s[k]) /\ (\A k \in 1..n : st[m + k] = t[k])
  BY <1>1
<1>4. \A k \in 1..m :
        /\ s[k][1] = "ensureWallet" => k + 1 \in 1..m /\ s[k + 1][1] = "update"
        /\ k > 1 /\ s[k][1] = "update" => s[k - 1][1] = "ensureWallet"
  BY <1>1 DEF Piece, Paired
<1>5. \A k \in 1..n :
        /\ t[k][1] = "ensureWallet" => k + 1 \in 1..n /\ t[k + 1][1] = "update"
        /\ k > 1 /\ t[k][1] = "update" => t[k - 1][1] = "ensureWallet"
  BY <1>1 DEF Piece, Paired
<1>6. s[1][1] # "update" /\ t[1][1] # "update"
  BY DEF Piece
<1> HIDE DEF st, m, n
<1>7. ASSUME NEW k \in 1..(m + n)
      PROVE  /\ st[k][1] = "ensureWallet" => k + 1 \in 1..(m + n) /\ st[k + 1][1] = "update"
             /\ k > 1 /\ st[k][1] = "update" => st[k - 1][1] = "ensureWallet"
  <2>1. CASE k \in 1..m
    <3>1. st[k] = s[k] /\ (k > 1 => st[k - 1] = s[k - 1])
          /\ (k + 1 \in 1..m => st[k + 1] = s[k + 1])
      BY <1>1, <1>3, <2>1
    <3> QED BY <1>1, <1>4, <2>1, <3>1
  <2>2. CASE k \notin 1..m
    <3>1. PICK j \in 1..n : k = m + j
      <4>1. k - m \in 1..n /\ k = m + (k - m)
        BY <1>1, <2>2
      <4> QED BY <4>1
    <3>2. /\ st[k] = t[j]
          /\ j + 1 \in 1..n => k + 1 \in 1..(m + n) /\ st[k + 1] = t[j + 1]
      <4>1. k + 1 = m + (j + 1)
        BY <1>1, <3>1
      <4> QED BY <1>1, <1>3, <3>1, <4>1
    <3>3. j > 1 => st[k - 1] = t[j - 1]
      <4>1. k - 1 = m + (j - 1) /\ (j > 1 => j - 1 \in 1..n)
        BY <1>1, <3>1
      <4> QED BY <1>3, <4>1
    <3>4. j \in 1..n /\ (j = 1 \/ j > 1)
      BY <1>1
    <3> QED BY <1>5, <1>6, <3>2, <3>3, <3>4
  <2> QED BY <2>1, <2>2
<1>8. Paired(st)
  BY <1>2, <1>7 DEF Paired
<1>9. st[1] = s[1]
  BY <1>1, <1>3
<1> QED BY <1>2, <1>6, <1>8, <1>9 DEF Piece, st

LEMMA PieceSingle ==
  ASSUME NEW a \in Said, a[1] # "update", a[1] # "ensureWallet"
  PROVE  Piece(<<a>>)
BY DEF Piece, Paired

LEMMA PieceApply ==
  ASSUME NEW type \in Types
  PROVE  Piece(Apply(type))
<1> DEFINE a == <<"ensureWallet">>
           b == <<"update", type>>
<1>1. a \in Said /\ b \in Said /\ a[1] = "ensureWallet" /\ b[1] = "update"
  BY DEF Said
<1> HIDE DEF a, b
<1>2. Piece(<<a, b>>)
  BY <1>1 DEF Piece, Paired
<1> QED BY <1>2 DEF Apply, a, b

LEMMA StatementsPiece ==
  ASSUME NEW h \in Handlers
  PROVE  Piece(Statements(h))
<1>1. \A row \in Rows : Piece(Lock(row)) /\ Piece(Write(row))
  <2>1. ASSUME NEW row \in Rows, NEW do \in {"lock", "write"} PROVE Piece(<<<<do, row>>>>)
    <3>1. <<do, row>> \in Said /\ <<do, row>>[1] = do
      BY DEF Said
    <3> QED BY <3>1, PieceSingle
  <2> QED BY <2>1 DEF Lock, Write
<1>2. Piece(Look) /\ Piece(Balance)
  <2>1. ASSUME NEW do \in {"look", "balance"} PROVE Piece(<<<<do>>>>)
    <3>1. <<do>> \in Said /\ <<do>>[1] = do
      BY DEF Said
    <3> QED BY <3>1, PieceSingle
  <2> QED BY <2>1 DEF Look, Balance
<1>3. Piece(Apply("IN")) /\ Piece(Apply("OUT")) /\ Piece(Apply("LOCK")) /\ Piece(Apply("UNLOCK"))
  BY PieceApply DEF Types
<1>4. h.of \in Rows
  BY DEF Handlers
<1>5. CASE h.kind = "settle"
  <2>1. OrderOf[h.of] = NoOrder \/ OrderOf[h.of] \in Rows
    BY <1>5 DEF Handlers
  <2>2. Piece(Settle(h.of))
    BY <1>1, <1>2, <1>3, <1>4, <2>1, PieceJoined DEF Settle
  <2> QED BY <1>5, <2>2 DEF Statements
<1>6. CASE h.kind = "pay"
  BY <1>1, <1>2, <1>3, <1>4, <1>6, PieceJoined DEF Statements, PayOrderWithCredit
<1>7. CASE h.kind = "withdraw"
  BY <1>2, <1>3, <1>7, PieceJoined DEF Statements, CreateWithdraw
<1>8. CASE h.kind = "approve"
  BY <1>1, <1>2, <1>3, <1>4, <1>8, PieceJoined DEF Statements, Approve
<1>9. CASE h.kind = "reject"
  BY <1>1, <1>2, <1>3, <1>4, <1>9, PieceJoined DEF Statements, Reject
<1> QED BY <1>5, <1>6, <1>7, <1>8, <1>9 DEF Handlers
LEMMA PairedTail ==
  ASSUME NEW todo \in Seq(Said), todo # <<>>, Paired(todo)
  PROVE  /\ Tail(todo) \in Seq(Said) /\ Paired(Tail(todo))
         /\ Head(todo) = todo[1]
         /\ todo[1][1] = "ensureWallet" => Tail(todo) # <<>> /\ Head(Tail(todo))[1] = "update"
         /\ Tail(todo) # <<>> /\ Head(Tail(todo))[1] = "update" => todo[1][1] = "ensureWallet"
<1> DEFINE n == Len(todo)
<1>1. n \in Nat /\ n >= 1 /\ DOMAIN todo = 1..n
  OBVIOUS
<1>2. /\ Tail(todo) \in Seq(Said) /\ DOMAIN Tail(todo) = 1..(n - 1)
      /\ Len(Tail(todo)) = n - 1
      /\ \A k \in 1..(n - 1) : Tail(todo)[k] = todo[k + 1]
  BY <1>1
<1>3. \A k \in 1..n :
        /\ todo[k][1] = "ensureWallet" => k + 1 \in 1..n /\ todo[k + 1][1] = "update"
        /\ k > 1 /\ todo[k][1] = "update" => todo[k - 1][1] = "ensureWallet"
  BY <1>1 DEF Paired
<1>4. Paired(Tail(todo))
  <2>1. ASSUME NEW k \in 1..(n - 1)
        PROVE  /\ Tail(todo)[k][1] = "ensureWallet" =>
                     k + 1 \in 1..(n - 1) /\ Tail(todo)[k + 1][1] = "update"
               /\ k > 1 /\ Tail(todo)[k][1] = "update" =>
                     Tail(todo)[k - 1][1] = "ensureWallet"
    <3>1. k + 1 \in 1..n /\ Tail(todo)[k] = todo[k + 1]
      BY <1>1, <1>2
    <3>2. k + 1 \in 1..(n - 1) => Tail(todo)[k + 1] = todo[k + 2]
      BY <1>1, <1>2
    <3>3. k > 1 => Tail(todo)[k - 1] = todo[k]
      BY <1>1, <1>2
    <3>4. todo[k + 1][1] = "ensureWallet" => k + 2 \in 1..n /\ todo[k + 2][1] = "update"
      BY <1>1, <1>3, <3>1
    <3>5. todo[k + 1][1] = "update" => todo[k][1] = "ensureWallet"
      BY <1>1, <1>3, <3>1
    <3> QED BY <1>1, <3>1, <3>2, <3>3, <3>4, <3>5
  <2> QED BY <1>2, <2>1 DEF Paired
<1>5. Head(todo) = todo[1]
  OBVIOUS
<1>6. Tail(todo) # <<>> => n >= 2 /\ Head(Tail(todo)) = todo[2]
  BY <1>1, <1>2
<1>7. n >= 2 => Tail(todo) # <<>>
  <2>1. n >= 2 => Len(Tail(todo)) # 0
    BY <1>1, <1>2
  <2> QED BY <2>1
<1>8. ASSUME todo[1][1] = "ensureWallet"
      PROVE  Tail(todo) # <<>> /\ Head(Tail(todo))[1] = "update"
  BY <1>1, <1>3, <1>6, <1>7, <1>8
<1>9. ASSUME Tail(todo) # <<>>, Head(Tail(todo))[1] = "update"
      PROVE  todo[1][1] = "ensureWallet"
  <2>1. 2 \in 1..n /\ todo[2][1] = "update"
    BY <1>1, <1>6, <1>9
  <2> QED BY <1>3, <2>1
<1> QED BY <1>2, <1>4, <1>5, <1>8, <1>9

(* What the log says of a wallet is a wallet, and one that is there stays. *)
LEMMA HeldIsWallet ==
  ASSUME creditLog \in Seq(LogRows), NEW u \in Users, NEW n \in Int
  PROVE  /\ SeenOf(u, n) \in SUBSET (1..Len(creditLog))
         /\ HeldAfter(u, n) \in Wallet \cup {NoWallet}
         /\ SeenOf(u, n) # {} => HeldAfter(u, n) \in Wallet
<1>1. Len(creditLog) \in Nat /\ \A i \in 1..Len(creditLog) : creditLog[i] \in LogRows
  OBVIOUS
<1>2. SeenOf(u, n) \in SUBSET (1..Len(creditLog))
  BY DEF SeenOf, LogOf
<1>3. ASSUME SeenOf(u, n) # {} PROVE HeldAfter(u, n) \in Wallet
  <2>1. Last(SeenOf(u, n)) \in 1..Len(creditLog)
    BY <1>1, <1>2, <1>3, LastMember
  <2>2. HeldAfter(u, n) = creditLog[Last(SeenOf(u, n))].after
    BY <1>3, BalanceOfLast DEF HeldAfter
  <2>3. creditLog[Last(SeenOf(u, n))] \in LogRows
    BY <1>1, <2>1
  <2> QED BY <2>2, <2>3 DEF LogRows
<1>4. SeenOf(u, n) = {} => HeldAfter(u, n) \in Wallet \cup {NoWallet}
  BY DEF HeldAfter
<1> QED BY <1>2, <1>3, <1>4

LEMMA HeldStays ==
  ASSUME creditLog \in Seq(LogRows), NEW u \in Users, NEW m \in Int, NEW n \in Int, m <= n,
         HeldAfter(u, m) # NoWallet
  PROVE  HeldAfter(u, n) # NoWallet
<1>1. SeenOf(u, m) \subseteq SeenOf(u, n)
  <2>1. \A j \in LogOf(u) : j \in Int
    BY DEF LogOf
  <2> QED BY <2>1 DEF SeenOf
<1>2. CASE SeenOf(u, n) = {}
  BY <1>1, <1>2 DEF HeldAfter
<1>3. CASE SeenOf(u, n) # {}
  <2>1. HeldAfter(u, n) \in Wallet
    BY <1>3, HeldIsWallet
  <2> QED BY <2>1
<1> QED BY <1>2, <1>3

(* What is known of an open transaction.                                   *)
LEMMA OpenFacts ==
  ASSUME MoneyInv, NEW r \in Requests, Open(r)
  PROVE  /\ RequestTypes /\ MoneyTyped(requests[r]) /\ HasRead(r) /\ HasWritten(r)
         /\ User(r) \in Users /\ User(r) \in Rows
         /\ requests[r].stage = "open"
         /\ creditLog \in Seq(LogRows) /\ Len(creditLog) \in Nat
         /\ wallets[User(r)] = HeldAfter(User(r), Len(creditLog))
         /\ wallets[User(r)] \in Wallet \cup {NoWallet}
<1>1. User(r) \in Users
  BY UserIsUser DEF User, MoneyInv, MoneyTypes, RequestTypes
<1>2. RequestTypes /\ MoneyTyped(requests[r]) /\ HasRead(r) /\ HasWritten(r)
  BY DEF MoneyInv, MoneyTypes, MoneyTyped
<1>3. creditLog \in Seq(LogRows) /\ Len(creditLog) \in Nat
  BY DEF MoneyInv, MoneyTypes
<1>4. /\ wallets[User(r)] = HeldAfter(User(r), Len(creditLog))
      /\ wallets[User(r)] \in Wallet \cup {NoWallet}
  BY <1>1 DEF MoneyInv, MoneyTypes, WalletsHeld
<1> QED BY <1>1, <1>2, <1>3, <1>4 DEF Open

LEMMA ViewHeld ==
  ASSUME MoneyInv, NEW r \in Requests, Open(r)
  PROVE  /\ View(r) \in [wallet : Wallet \cup {NoWallet}, seen : Nat] /\ View(r) # NoView
         /\ View(r).seen <= Len(creditLog)
         /\ View(r).wallet = HeldAfter(User(r), View(r).seen)
         /\ requests[r].view # NoView => View(r) = requests[r].view
         /\ Visible(r) \in Wallet \cup {NoWallet}
<1>1. CASE requests[r].view = NoView
  <2>1. View(r) = [wallet |-> wallets[User(r)], seen |-> Len(creditLog)]
    BY <1>1 DEF View
  <2> QED BY <1>1, <2>1, OpenFacts DEF Visible, MoneyTyped
<1>2. CASE requests[r].view # NoView
  <2>1. View(r) = requests[r].view
    BY <1>2 DEF View
  <2>2. View(r) \in [wallet : Wallet \cup {NoWallet}, seen : Nat]
    BY <1>2, <2>1, OpenFacts DEF MoneyTyped
  <2> QED BY <1>2, <2>1, <2>2, OpenFacts DEF Visible, MoneyTyped, HasRead
<1> QED BY <1>1, <1>2

-----------------------------------------------------------------------------
(* The statements of a transaction and its ends, each with what it has     *)
(* read and written.                                                       *)
LEMMA EndKeepsMoney ==
  ASSUME MoneyInv, NEW r \in Requests, NEW stage \in {"refused", "aborted"}, Open(r),
         End(r, stage), wallets' = wallets, creditLog' = creditLog
  PROVE  MoneyInv'
<1>1. RequestTypes /\ MoneyTyped(requests[r]) /\ requests[r].stage = "open"
  BY OpenFacts
<1>2. Moves(r, stage) /\ LocksKept(r)
  BY <1>1, EndKeeps
<1>3. MoneyTyped(requests'[r])
  BY <1>1 DEF MoneyTyped, End, RequestTypes, Fields
<1> QED BY <1>1, <1>2, <1>3, WorkKeepsMoney

LEMMA BeginKeepsMoney ==
  ASSUME MoneyInv, NEW r \in Requests, Begin(r)
  PROVE  MoneyInv'
<1>1. RequestTypes /\ MoneyTyped(requests[r]) /\ Fresh(r) /\ requests[r].stage = "waiting"
  BY DEF MoneyInv, MoneyTypes, MoneyTyped, Begin
<1>2. Moves(r, "open") /\ LocksKept(r)
  BY <1>1 DEF Begin, Moves, LocksKept, RequestTypes, Fields
<1>3. /\ requests'[r].todo = requests[r].todo /\ requests'[r].view = NoView
      /\ requests'[r].own = NoWallet /\ requests'[r].logged = <<>>
  BY <1>1 DEF Begin, RequestTypes, Fields, Fresh
<1>4. MoneyTyped(requests'[r])
  BY <1>1, <1>3 DEF MoneyTyped, Fresh
<1>5. Head(requests[r].todo)[1] # "update"
  BY <1>1, StatementsPiece DEF Fresh, RequestTypes, Piece
<1>6. HasRead(r)' /\ HasWritten(r)'
  BY <1>3, <1>5 DEF HasRead, HasWritten, Statement
<1>7. wallets' = wallets /\ creditLog' = creditLog
  BY DEF Begin
<1> QED BY <1>1, <1>2, <1>4, <1>6, <1>7, WorkKeepsMoney

(* A statement that neither changes the wallet nor begins to.              *)
LEMMA PassKeepsMoney ==
  ASSUME MoneyInv, NEW r \in Requests, Open(r), ~ AtEnd(r),
         Statement(r)[1] \notin {"update", "ensureWallet"},
         Moves(r, "open"), LocksKept(r), locks[User(r)] = r => locks'[User(r)] = r,
         wallets' = wallets, creditLog' = creditLog,
         requests'[r].todo = Tail(requests[r].todo),
         requests'[r].view \in {requests[r].view, View(r)},
         requests'[r].own = requests[r].own, requests'[r].logged = requests[r].logged
  PROVE  MoneyInv'
<1>1. /\ MoneyTyped(requests[r]) /\ HasRead(r) /\ HasWritten(r)
      /\ requests[r].stage = "open"
  BY OpenFacts
<1>2. /\ Tail(requests[r].todo) \in Seq(Said) /\ Paired(Tail(requests[r].todo))
      /\ Tail(requests[r].todo) # <<>> => Head(Tail(requests[r].todo))[1] # "update"
  <2>1. PICK todo \in Seq(Said) :
          todo = requests[r].todo /\ todo # <<>> /\ Paired(todo) /\ Head(todo)[1] # "ensureWallet"
    BY <1>1 DEF MoneyTyped, AtEnd, Statement
  <2> QED BY <2>1, PairedTail
<1>3. MoneyTyped(requests'[r])
  BY <1>1, <1>2, ViewHeld DEF MoneyTyped
<1>4. User(r)' = User(r)
  BY DEF User, Moves
<1>5. HasRead(r)'
  <2>1. PICK view : view = requests'[r].view
    OBVIOUS
  <2>2. requests'[r].view # NoView =>
          view.seen <= Len(creditLog) /\ view.wallet = HeldAfter(User(r), view.seen)
    BY <1>1, <2>1, ViewHeld DEF HasRead
  <2>3. HeldAfter(User(r), view.seen)' = HeldAfter(User(r), view.seen)
    BY <1>4 DEF HeldAfter, SeenOf, LogOf, BalanceAfter, First
  <2> QED BY <1>2, <1>4, <2>1, <2>2, <2>3 DEF HasRead, AtEnd, Statement
<1>6. HasWritten(r)'
  <2>1. requests[r].own # NoWallet => requests'[r].view = requests[r].view /\ requests[r].view # NoView
    BY <1>1, ViewHeld DEF HasWritten
  <2>2. ~ (requests[r].own # NoWallet /\ requests[r].logged = <<>>)
    BY <1>1 DEF HasWritten
  <2>3. requests[r].logged # <<>> => requests'[r].view = requests[r].view
    BY <1>1, <2>1 DEF HasWritten
  <2>4. \A k \in DOMAIN requests[r].logged : requests'[r].view = requests[r].view
    BY <2>3
  <2> QED BY <1>1, <1>4, <2>1, <2>2, <2>3, <2>4 DEF HasWritten
<1> QED BY <1>1, <1>3, <1>5, <1>6, WorkKeepsMoney

LEMMA AdvancedIs ==
  ASSUME RequestTypes, NEW r \in Requests
  PROVE  /\ DOMAIN Advanced(r) = Requests
         /\ \A s \in Requests \ {r} : Advanced(r)[s] = requests[s]
         /\ DOMAIN Advanced(r)[r] = Fields
         /\ Advanced(r)[r].todo = Tail(requests[r].todo)
         /\ \A f \in Fields \ {"todo"} : Advanced(r)[r][f] = requests[r][f]
BY DEF RequestTypes, Advanced, Fields

LEMMA SelectsKeepMoney ==
  ASSUME MoneyInv, NEW r \in Requests, LockRow(r) \/ LookUp(r) \/ WriteRow(r) \/ ReadBalance(r)
  PROVE  MoneyInv'
<1>1. Open(r) /\ ~ AtEnd(r) /\ RequestTypes /\ User(r) \in Rows
  <2>1. Open(r) /\ ~ AtEnd(r)
    BY DEF LockRow, LookUp, WriteRow, ReadBalance, At
  <2> QED BY <2>1, OpenFacts
<1>2. wallets' = wallets /\ creditLog' = creditLog
  BY DEF LockRow, LookUp, WriteRow, ReadBalance
<1>3. CASE LockRow(r) /\ Statement(r)[2] \in closed
  BY <1>1, <1>2, <1>3, EndKeepsMoney DEF LockRow
<1>4. CASE (LockRow(r) /\ Statement(r)[2] \notin closed) \/ WriteRow(r)
  <2>1. /\ FreeFor(r, Statement(r)[2]) /\ locks' = WithLock(r, Statement(r)[2])
        /\ requests' = Advanced(r) /\ Statement(r)[1] \notin {"update", "ensureWallet"}
    BY <1>4 DEF LockRow, WriteRow, At
  <2>2. LocksKept(r) /\ (locks[User(r)] = r => locks'[User(r)] = r)
    BY <1>1, <2>1, LockKeeps
  <2>3. /\ Moves(r, "open") /\ requests'[r].todo = Tail(requests[r].todo)
        /\ requests'[r].view = requests[r].view /\ requests'[r].own = requests[r].own
        /\ requests'[r].logged = requests[r].logged
    BY <1>1, <2>1 DEF RequestTypes, Advanced, Moves, Open, Fields
  <2> QED BY <1>1, <1>2, <2>1, <2>2, <2>3, PassKeepsMoney
<1>5. CASE LookUp(r) \/ ReadBalance(r)
  <2>1. locks' = locks /\ Statement(r)[1] \notin {"update", "ensureWallet"}
    BY <1>5 DEF LookUp, ReadBalance, At
  <2>2. LocksKept(r)
    BY <1>1, <2>1 DEF RequestTypes, LocksKept
  <2>3. /\ Moves(r, "open") /\ requests'[r].todo = Tail(requests[r].todo)
        /\ requests'[r].view \in {requests[r].view, View(r)}
        /\ requests'[r].own = requests[r].own
        /\ requests'[r].logged = requests[r].logged
    <3>1. PICK next : next = Advanced(r)
      OBVIOUS
    <3>2. CASE LookUp(r)
      BY <1>1, <3>1, <3>2, AdvancedIs DEF LookUp, Moves, Open, Fields
    <3>3. CASE ReadBalance(r)
      BY <1>1, <3>1, <3>3, AdvancedIs DEF ReadBalance, Moves, Open, Fields
    <3> QED BY <1>5, <3>2, <3>3
  <2> QED BY <1>1, <1>2, <2>1, <2>2, <2>3, PassKeepsMoney
<1> QED BY <1>3, <1>4, <1>5

LEMMA FindKeepsMoney ==
  ASSUME MoneyInv, NEW r \in Requests, FindWallet(r)
  PROVE  MoneyInv'
<1>1. /\ Open(r) /\ ~ AtEnd(r) /\ Statement(r)[1] = "ensureWallet"
      /\ wallets' = wallets /\ creditLog' = creditLog /\ locks' = locks
  BY DEF FindWallet, At
<1>2. /\ RequestTypes /\ MoneyTyped(requests[r]) /\ HasRead(r) /\ HasWritten(r)
      /\ requests[r].stage = "open"
  BY <1>1, OpenFacts
<1>3. LocksKept(r)
  BY <1>1, <1>2 DEF RequestTypes, LocksKept
<1>4. /\ Moves(r, "open")
      /\ requests'[r].view = View(r) /\ requests'[r].before = Visible(r)
      /\ requests'[r].own = requests[r].own /\ requests'[r].logged = requests[r].logged
      /\ requests'[r].todo = IF Visible(r) = NoWallet THEN requests[r].todo
                             ELSE Tail(requests[r].todo)
  BY <1>1, <1>2 DEF RequestTypes, FindWallet, Moves, Open, Fields
<1>5. Tail(requests[r].todo) \in Seq(Said) /\ Paired(Tail(requests[r].todo))
  <2>1. PICK todo \in Seq(Said) : todo = requests[r].todo /\ todo # <<>> /\ Paired(todo)
    BY <1>1, <1>2 DEF MoneyTyped, AtEnd
  <2> QED BY <2>1, PairedTail
<1>6. MoneyTyped(requests'[r])
  BY <1>1, <1>2, <1>4, <1>5, ViewHeld DEF MoneyTyped
<1>7. User(r)' = User(r)
  BY <1>4 DEF User, Moves
<1>8. PICK view : view = View(r)
  OBVIOUS
<1>9. /\ view # NoView /\ view.seen <= Len(creditLog)
      /\ view.wallet = HeldAfter(User(r), view.seen)
      /\ requests[r].view # NoView => view = requests[r].view
  BY <1>1, <1>8, ViewHeld
<1>10. HasRead(r)'
  <2>1. HeldAfter(User(r), view.seen)' = HeldAfter(User(r), view.seen)
    BY <1>1, <1>7 DEF HeldAfter, SeenOf, LogOf, BalanceAfter, First
  <2>2. View(r)' = view
    BY <1>4, <1>8, <1>9 DEF View
  <2>3. Visible(r)' = Visible(r)
    BY <1>4, <1>8, <2>2 DEF Visible
  <2>4. ~ AtEnd(r)' /\ Statement(r)'[1] = "update" => Visible(r) # NoWallet
    BY <1>1, <1>4 DEF AtEnd, Statement
  <2> QED BY <1>1, <1>4, <1>7, <1>8, <1>9, <2>1, <2>3, <2>4 DEF HasRead
<1>11. HasWritten(r)'
  <2>1. requests[r].own # NoWallet => requests[r].view # NoView
    BY <1>2 DEF HasWritten
  <2>2. ~ (requests[r].own # NoWallet /\ requests[r].logged = <<>>)
    BY <1>1, <1>2 DEF HasWritten
  <2>3. requests[r].logged # <<>> => view = requests[r].view
    BY <1>2, <1>9, <2>1 DEF HasWritten
  <2>4. \A k \in DOMAIN requests[r].logged : view = requests[r].view
    BY <2>3
  <2> QED BY <1>1, <1>2, <1>4, <1>7, <1>8, <1>9, <2>1, <2>2, <2>4 DEF HasWritten
<1> QED BY <1>1, <1>2, <1>3, <1>4, <1>6, <1>10, <1>11, WorkKeepsMoney

LEMMA InsertKeepsMoney ==
  ASSUME MoneyInv, NEW r \in Requests, InsertWallet(r)
  PROVE  MoneyInv'
<1>1. /\ Open(r) /\ ~ AtEnd(r) /\ Statement(r)[1] = "ensureWallet"
      /\ wallets' = wallets /\ creditLog' = creditLog /\ FreeFor(r, User(r))
      /\ requests[r].view # NoView /\ Visible(r) = NoWallet
  BY DEF InsertWallet, At
<1>2. /\ RequestTypes /\ MoneyTyped(requests[r]) /\ HasRead(r) /\ HasWritten(r)
      /\ requests[r].stage = "open" /\ User(r) \in Rows
  BY <1>1, OpenFacts
<1>3. CASE wallets[User(r)] # NoWallet
  BY <1>1, <1>3, EndKeepsMoney DEF InsertWallet
<1>4. CASE wallets[User(r)] = NoWallet
  <2>1. locks' = WithLock(r, User(r))
    BY <1>4 DEF InsertWallet
  <2>2. LocksKept(r) /\ locks'[User(r)] = r
    BY <1>1, <1>2, <2>1, LockKeeps DEF WithLock, RequestTypes
  <2>3. /\ Moves(r, "open")
        /\ requests'[r].view = requests[r].view /\ requests'[r].before = Zero
        /\ requests'[r].own = Zero /\ requests'[r].logged = requests[r].logged
        /\ requests'[r].todo = Tail(requests[r].todo)
    <3>1. PICK next : next = Advanced(r)
      OBVIOUS
    <3>2. requests' = [next EXCEPT ![r].before = Zero, ![r].own = Zero]
      BY <1>4, <3>1 DEF InsertWallet, Zero
    <3> QED BY <1>1, <1>2, <3>1, <3>2, AdvancedIs DEF Moves, Fields
  <2>4. /\ Tail(requests[r].todo) \in Seq(Said) /\ Paired(Tail(requests[r].todo))
        /\ Tail(requests[r].todo) # <<>> /\ Head(Tail(requests[r].todo))[1] = "update"
    <3>1. PICK todo \in Seq(Said) : /\ todo = requests[r].todo /\ todo # <<>> /\ Paired(todo)
                                    /\ Head(todo)[1] = "ensureWallet"
      BY <1>1, <1>2 DEF MoneyTyped, AtEnd, Statement
    <3> QED BY <3>1, PairedTail
  <2>5. Zero \in Wallet /\ Zero # NoWallet
    <3>1. Zero \in Wallet
      BY DEF Zero, Wallet
    <3> QED BY <3>1
  <2>6. requests[r].own = NoWallet /\ requests[r].logged = <<>>
    BY <1>1, <1>2, ViewHeld DEF Visible, HasWritten
  <2>7. MoneyTyped(requests'[r])
    BY <1>2, <2>3, <2>4, <2>5 DEF MoneyTyped
  <2>8. User(r)' = User(r)
    BY <2>3 DEF User, Moves
  <2>9. HasRead(r)'
    <3>1. PICK view : view = requests[r].view
      OBVIOUS
    <3>2. view.seen <= Len(creditLog) /\ view.wallet = HeldAfter(User(r), view.seen)
      BY <1>1, <1>2, <3>1 DEF HasRead
    <3>3. HeldAfter(User(r), view.seen)' = HeldAfter(User(r), view.seen)
      BY <1>1, <2>8 DEF HeldAfter, SeenOf, LogOf, BalanceAfter, First
    <3>4. Visible(r)' = Zero
      BY <2>3, <2>5 DEF Visible
    <3> QED BY <1>1, <2>3, <2>5, <2>8, <3>1, <3>2, <3>3, <3>4 DEF HasRead
  <2>10. HasWritten(r)'
    BY <1>1, <1>4, <2>2, <2>3, <2>4, <2>5, <2>6, <2>8 DEF HasWritten, AtEnd, Statement
  <2> QED BY <1>1, <1>2, <2>2, <2>3, <2>7, <2>9, <2>10, WorkKeepsMoney
<1> QED BY <1>3, <1>4

(* The WHERE of the UPDATE keeps both balances at or above zero.           *)
LEMMA ChangedIsWallet ==
  ASSUME NEW type \in Types, NEW w \in Wallet, NEW a \in Nat, Affects(type, w, a)
  PROVE  Changed(type, w, a) \in Wallet
<1>1. w.amount \in Nat /\ w.lockedAmount \in Nat /\ w = [amount |-> w.amount, lockedAmount |-> w.lockedAmount]
  BY DEF Wallet
<1>2. CASE type = "IN"
  BY <1>1, <1>2 DEF Changed, Wallet
<1>3. CASE type = "OUT"
  BY <1>1, <1>3 DEF Changed, Affects, Wallet
<1>4. CASE type = "LOCK"
  BY <1>1, <1>4 DEF Changed, Affects, Wallet
<1>5. CASE type = "UNLOCK"
  BY <1>1, <1>5 DEF Changed, Affects, Wallet
<1> QED BY <1>2, <1>3, <1>4, <1>5 DEF Types

(* What the UPDATE works on and what apply read before it.                 *)
LEMMA UpdateFinds ==
  ASSUME MoneyInv, NEW r \in Requests, Open(r), ~ AtEnd(r), Statement(r)[1] = "update"
  PROVE  /\ requests[r].view # NoView /\ requests[r].before \in Wallet
         /\ Current(r) \in Wallet
         /\ requests[r].logged = <<>> =>
              /\ Current(r) = Balance0(wallets[User(r)])
              /\ requests[r].before = Balance0(requests[r].view.wallet)
         /\ requests[r].logged # <<>> =>
              /\ Current(r) = requests[r].logged[Len(requests[r].logged)].after
              /\ requests[r].before = requests[r].logged[Len(requests[r].logged)].after
<1> DEFINE u == User(r)
           q == requests[r]
<1>1. /\ MoneyTyped(q) /\ HasRead(r) /\ HasWritten(r) /\ u \in Users
      /\ creditLog \in Seq(LogRows) /\ Len(creditLog) \in Nat
      /\ wallets[u] = HeldAfter(u, Len(creditLog)) /\ wallets[u] \in Wallet \cup {NoWallet}
  BY OpenFacts
<1>2. q.view # NoView /\ q.before = Visible(r) /\ q.before # NoWallet
  BY <1>1 DEF HasRead
<1>3. q.before \in Wallet
  BY <1>2, ViewHeld
<1>4. /\ q.view.seen \in Int /\ q.view.seen <= Len(creditLog)
      /\ q.view.wallet = HeldAfter(u, q.view.seen)
  BY <1>1, <1>2 DEF MoneyTyped, HasRead
<1>5. q.view.wallet # NoWallet => wallets[u] # NoWallet
  BY <1>1, <1>4, HeldStays
<1>6. CASE q.own = NoWallet
  <2>1. q.before = q.view.wallet /\ Current(r) = wallets[u] /\ q.logged = <<>>
    BY <1>1, <1>2, <1>6 DEF Visible, View, Current, HasWritten
  <2> QED BY <1>1, <1>2, <1>3, <1>5, <2>1 DEF Balance0
<1>7. CASE q.own # NoWallet
  <2>1. q.before = q.own /\ Current(r) = q.own
    BY <1>2, <1>7 DEF Visible, Current
  <2>2. CASE q.logged = <<>>
    <3>1. q.own = Zero /\ wallets[u] = NoWallet
      BY <1>1, <1>7, <2>2 DEF HasWritten
    <3>2. q.view.wallet = NoWallet
      BY <1>5, <3>1
    <3> QED BY <1>2, <1>3, <2>1, <2>2, <3>1, <3>2 DEF Balance0
  <2>3. CASE q.logged # <<>>
    <3>1. q.own = q.logged[Len(q.logged)].after
      BY <1>1, <2>3 DEF HasWritten
    <3> QED BY <1>2, <1>3, <2>1, <2>3, <3>1
  <2> QED BY <2>2, <2>3
<1> QED BY <1>6, <1>7

LEMMA UpdateKeepsMoney ==
  ASSUME MoneyInv, NEW r \in Requests, UpdateWallet(r)
  PROVE  MoneyInv'
<1> DEFINE u == User(r)
           q == requests[r]
           type == Statement(r)[2]
           row == LogRow(r, type)
<1>1. /\ Open(r) /\ ~ AtEnd(r) /\ Statement(r)[1] = "update" /\ FreeFor(r, u)
      /\ wallets' = wallets /\ creditLog' = creditLog
  BY DEF UpdateWallet, At
<1>2. /\ RequestTypes /\ MoneyTyped(q) /\ HasRead(r) /\ HasWritten(r)
      /\ q.stage = "open" /\ u \in Rows /\ u \in Users
  BY <1>1, OpenFacts
<1>3. CASE ~ MayUpdate(r, type)
  <2>1. End(r, "refused")
    BY <1>3 DEF UpdateWallet
  <2> QED BY <1>1, <2>1, EndKeepsMoney
<1>4. CASE MayUpdate(r, type)
  <2>1. /\ q.view # NoView /\ q.before \in Wallet /\ Current(r) \in Wallet
        /\ q.logged = <<>> =>
             Current(r) = Balance0(wallets[u]) /\ q.before = Balance0(q.view.wallet)
        /\ q.logged # <<>> =>
             /\ Current(r) = q.logged[Len(q.logged)].after
             /\ q.before = q.logged[Len(q.logged)].after
    BY <1>1, UpdateFinds
  <2>2. type \in Types /\ Tail(q.todo) \in Seq(Said) /\ Paired(Tail(q.todo))
        /\ (Tail(q.todo) # <<>> => Head(Tail(q.todo))[1] # "update")
    <3>1. PICK todo \in Seq(Said) : /\ todo = q.todo /\ todo # <<>> /\ Paired(todo)
                                    /\ Head(todo)[1] = "update"
      BY <1>1, <1>2 DEF MoneyTyped, AtEnd, Statement
    <3>2. PICK s \in Said : s = Head(todo) /\ s[1] = "update"
      BY <3>1
    <3>3. s[2] \in Types
      BY <3>2 DEF Said
    <3>4. type = s[2]
      BY <3>1, <3>2 DEF Statement
    <3> QED BY <3>1, <3>3, <3>4, PairedTail
  <2>3. PICK after : after = Changed(type, Current(r), Amount[u])
    OBVIOUS
  <2>4. after \in Wallet /\ after # NoWallet
    <3>1. Amount[u] \in Nat
      BY <1>2
    <3>2. after \in Wallet
      BY <1>4, <2>1, <2>2, <2>3, <3>1, ChangedIsWallet DEF MayUpdate
    <3> QED BY <3>2
  <2>5. PICK line : line = [user |-> u, by |-> r, type |-> type, before |-> q.before,
                            after |-> after, seen |-> q.view.seen]
    OBVIOUS
  <2>6. line \in LogRows
    BY <1>2, <2>1, <2>2, <2>4, <2>5 DEF LogRows, Types, MoneyTyped
  <2>7. locks' = WithLock(r, u)
    BY <1>4 DEF UpdateWallet
  <2>8. LocksKept(r) /\ locks'[u] = r
    BY <1>1, <1>2, <2>7, LockKeeps DEF WithLock, RequestTypes
  <2>9. /\ Moves(r, "open") /\ requests'[r].view = q.view
        /\ requests'[r].own = after /\ requests'[r].logged = Append(q.logged, line)
        /\ requests'[r].todo = Tail(q.todo)
    <3>1. PICK next : next = Advanced(r)
      OBVIOUS
    <3>2. line = LogRow(r, type)
      BY <2>3, <2>5 DEF LogRow
    <3>3. requests' = [next EXCEPT ![r].own = after, ![r].logged = Append(@, line)]
      BY <1>4, <2>3, <3>1, <3>2 DEF UpdateWallet
    <3>4. /\ DOMAIN next = Requests /\ DOMAIN next[r] = Fields
          /\ \A s \in Requests \ {r} : next[s] = requests[s]
          /\ next[r].handler = q.handler /\ next[r].stage = q.stage /\ next[r].view = q.view
          /\ next[r].logged = q.logged /\ next[r].todo = Tail(q.todo)
      BY <1>2, <3>1, AdvancedIs DEF Fields
    <3>5. requests' = [next EXCEPT ![r] = [next[r] EXCEPT !.own = after,
                                                          !.logged = Append(q.logged, line)]]
      BY <3>3, <3>4 DEF Fields
    <3> QED BY <1>2, <3>4, <3>5 DEF Moves, Fields
  <2>10. MoneyTyped(requests'[r])
    BY <1>2, <2>2, <2>4, <2>6, <2>9 DEF MoneyTyped
  <2>11. User(r)' = u
    BY <2>9 DEF User, Moves
  <2>12. HasRead(r)'
    <3>1. PICK view : view = q.view
      OBVIOUS
    <3>2. view.seen <= Len(creditLog) /\ view.wallet = HeldAfter(User(r), view.seen)
      BY <1>1, <1>2, <2>1, <3>1 DEF HasRead
    <3>3. HeldAfter(User(r), view.seen)' = HeldAfter(User(r), view.seen)
      BY <1>1, <2>11 DEF HeldAfter, SeenOf, LogOf, BalanceAfter, First
    <3> QED BY <1>1, <2>2, <2>9, <2>11, <3>1, <3>2, <3>3 DEF HasRead, AtEnd, Statement
  <2>13. HasWritten(r)'
    <3> DEFINE n == Len(q.logged)
               logged == Append(q.logged, line)
    <3>1. /\ n \in Nat /\ q.logged \in Seq(LogRows) /\ DOMAIN q.logged = 1..n
          /\ logged \in Seq(LogRows) /\ Len(logged) = n + 1 /\ DOMAIN logged = 1..(n + 1)
          /\ logged[n + 1] = line /\ \A k \in 1..n : logged[k] = q.logged[k]
          /\ logged # <<>> /\ (n = 0 <=> q.logged = <<>>)
      BY <1>2, <2>6 DEF MoneyTyped
    <3>2. requests'[r].own = logged[Len(logged)].after
      BY <2>5, <2>9, <3>1
    <3>3. ASSUME NEW k \in 1..(n + 1)
          PROVE  LET l == logged[k]
                 IN  /\ l.user = u /\ l.by = r /\ l.seen = q.view.seen
                     /\ l.after = Changed(l.type, IF k = 1 THEN Balance0(wallets[u])
                                                           ELSE logged[k - 1].after, Amount[u])
                     /\ l.before = IF k = 1 THEN Balance0(q.view.wallet) ELSE logged[k - 1].after
      <4>1. CASE k \in 1..n
        <5>1. logged[k] = q.logged[k] /\ (k # 1 => logged[k - 1] = q.logged[k - 1])
          BY <3>1, <4>1
        <5>2. LET l == q.logged[k]
              IN  /\ l.user = u /\ l.by = r /\ l.seen = q.view.seen
                  /\ l.after = Changed(l.type, IF k = 1 THEN Balance0(wallets[u])
                                                        ELSE q.logged[k - 1].after, Amount[u])
                  /\ l.before = IF k = 1 THEN Balance0(q.view.wallet)
                                         ELSE q.logged[k - 1].after
          BY <1>2, <3>1, <4>1 DEF HasWritten
        <5> QED BY <5>1, <5>2
      <4>2. CASE k = n + 1
        <5>1. logged[k] = line /\ (k # 1 => logged[k - 1] = q.logged[n])
          BY <3>1, <4>2
        <5>2. k = 1 => q.logged = <<>>
          BY <3>1, <4>2
        <5>3. k # 1 => q.logged # <<>>
          BY <3>1, <4>2
        <5>4. Current(r) = IF k = 1 THEN Balance0(wallets[u]) ELSE logged[k - 1].after
          BY <2>1, <5>1, <5>2, <5>3
        <5>5. q.before = IF k = 1 THEN Balance0(q.view.wallet) ELSE logged[k - 1].after
          BY <2>1, <5>1, <5>2, <5>3
        <5> QED BY <2>3, <2>5, <5>1, <5>4, <5>5
      <4> QED BY <3>1, <4>1, <4>2
    <3>4. requests'[r].logged = logged
      BY <2>9
    <3> HIDE DEF logged, n
    <3> QED BY <1>1, <2>1, <2>4, <2>8, <2>9, <2>11, <3>1, <3>2, <3>3, <3>4 DEF HasWritten
  <2> QED BY <1>1, <1>2, <2>8, <2>9, <2>10, <2>12, <2>13, WorkKeepsMoney
<1> QED BY <1>3, <1>4

LEMMA BalanceIsHeld ==
  ASSUME creditLog \in Seq(LogRows), NEW u \in Users, NEW n \in Int
  PROVE  BalanceAfter(u, SeenOf(u, n)) = Balance0(HeldAfter(u, n))
<1>1. CASE SeenOf(u, n) = {}
  BY <1>1, BalanceOfLast DEF HeldAfter, First, Balance0, Zero
<1>2. CASE SeenOf(u, n) # {}
  <2>1. HeldAfter(u, n) = BalanceAfter(u, SeenOf(u, n)) /\ HeldAfter(u, n) \in Wallet
    BY <1>2, HeldIsWallet DEF HeldAfter
  <2> QED BY <2>1 DEF Balance0
<1> QED BY <1>1, <1>2

(* A commit appends the rows of its transaction to the log.                *)
LEMMA CommitAppends ==
  ASSUME MoneyInv, NEW r \in Requests, Commit(r)
  PROVE  LET n == Len(creditLog)
             m == Len(requests[r].logged)
         IN  /\ n \in Nat /\ m \in Nat /\ Len(creditLog') = n + m
             /\ DOMAIN creditLog = 1..n /\ DOMAIN creditLog' = 1..(n + m)
             /\ DOMAIN requests[r].logged = 1..m
             /\ \A i \in 1..n : creditLog'[i] = creditLog[i]
             /\ \A k \in 1..m : creditLog'[n + k] = requests[r].logged[k]
             /\ \A i \in 1..(n + m) : i \notin 1..n => i - n \in 1..m /\ i = n + (i - n)
             /\ Grown
             /\ m = 0 <=> requests[r].logged = <<>>
             /\ m = 0 => requests[r].own = NoWallet
<1> DEFINE n == Len(creditLog)
           logged == requests[r].logged
           m == Len(logged)
<1>1. /\ creditLog' = creditLog \o logged /\ AtEnd(r) /\ Open(r)
  BY DEF Commit
<1>2. creditLog \in Seq(LogRows) /\ logged \in Seq(LogRows) /\ HasWritten(r)
  BY <1>1, OpenFacts DEF MoneyTyped
<1>3. /\ n \in Nat /\ m \in Nat /\ DOMAIN creditLog = 1..n /\ DOMAIN logged = 1..m
      /\ m = 0 <=> logged = <<>>
  BY <1>2
<1>4. /\ creditLog' \in Seq(LogRows) /\ Len(creditLog') = n + m
      /\ DOMAIN creditLog' = 1..(n + m)
  BY <1>1, <1>2, <1>3
<1>5. /\ \A i \in 1..n : creditLog'[i] = creditLog[i]
      /\ \A k \in 1..m : creditLog'[n + k] = logged[k]
  BY <1>1, <1>2, <1>3
<1>6. \A i \in 1..(n + m) : i \notin 1..n => i - n \in 1..m /\ i = n + (i - n)
  BY <1>3
<1>7. Grown
  BY <1>2, <1>3, <1>4, <1>5 DEF Grown
<1>8. m = 0 => requests[r].own = NoWallet
  BY <1>1, <1>2, <1>3 DEF HasWritten
<1> QED BY <1>3, <1>4, <1>5, <1>6, <1>7, <1>8

(* The rows a commit appends continue the log of their user, and what each *)
(* says of the balance before it is what its transaction knew.             *)
LEMMA CommitContinues ==
  ASSUME MoneyInv, NEW r \in Requests, Commit(r), NEW k \in DOMAIN requests[r].logged,
         NEW i, i = Len(creditLog) + k
  PROVE  RowChained(i)' /\ RowKnew(i)'
<1> DEFINE logged == requests[r].logged
<1>1. PICK n, m, view, L :
        n = Len(creditLog) /\ m = Len(logged) /\ view = requests[r].view /\ L = logged
  OBVIOUS
<1>2. /\ n \in Nat /\ m \in Nat /\ k \in 1..m /\ DOMAIN creditLog = 1..n
      /\ DOMAIN creditLog' = 1..(n + m)
      /\ \A j \in 1..n : creditLog'[j] = creditLog[j]
      /\ \A l \in 1..m : creditLog'[n + l] = L[l]
      /\ Grown
  BY <1>1, CommitAppends
<1>3. PICK u : u = User(r)
  OBVIOUS
<1>4. /\ Open(r) /\ u \in Users /\ HasRead(r) /\ HasWritten(r) /\ MoneyTyped(requests[r])
      /\ wallets[u] = HeldAfter(u, n) /\ creditLog \in Seq(LogRows)
  BY <1>1, <1>3, OpenFacts DEF Commit
<1>5. /\ view # NoView /\ view.seen \in Nat /\ view.seen <= n
      /\ view.wallet = HeldAfter(u, view.seen)
  <2>1. L # <<>>
    BY <1>1, <1>2, <1>4 DEF MoneyTyped
  <2>2. view # NoView
    BY <1>1, <1>4, <2>1 DEF HasWritten
  <2> QED BY <1>1, <1>3, <1>4, <2>2 DEF HasRead, MoneyTyped
<1>6. \A l \in 1..m : L[l].user = u /\ L[l].by = r /\ L[l].seen = view.seen
  BY <1>1, <1>2, <1>3, <1>4 DEF HasWritten
<1>7. /\ L[k].after = Changed(L[k].type, IF k = 1 THEN Balance0(wallets[u]) ELSE L[k - 1].after,
                              Amount[u])
      /\ L[k].before = IF k = 1 THEN Balance0(view.wallet) ELSE L[k - 1].after
  BY <1>1, <1>2, <1>3, <1>4 DEF HasWritten
<1>8. /\ n \in Nat /\ m \in Nat /\ n + m \in Nat /\ k \in 1..m
      /\ i = n + k /\ i - 1 \in Nat /\ i \in 1..(n + m)
      /\ k # 1 => i - 1 = n + (k - 1) /\ k - 1 \in 1..m /\ i - 1 \in 1..(n + m)
  <2>1. n \in Nat /\ m \in Nat /\ k \in 1..m /\ i = n + k
    BY <1>1, <1>2
  <2> QED BY ONLY <2>1
<1>9. /\ creditLog'[i] = L[k]
      /\ creditLog'[i].user = u /\ creditLog'[i].by = r /\ creditLog'[i].seen = view.seen
  BY <1>2, <1>6, <1>8
<1>10. PICK S, K : S = SeenOf(u, i - 1)' /\ K = Known(i)'
  OBVIOUS
<1>11. \A j : j \in S <=> j \in 1..(n + m) /\ creditLog'[j].user = u /\ j <= i - 1
  BY <1>2, <1>10 DEF SeenOf, LogOf
<1>12. K = {j \in S : j <= view.seen \/ creditLog'[j].by = r}
  BY <1>9, <1>10 DEF Known
<1>13. \A T : BalanceAfter(u, T)' = IF T = {} THEN First(u) ELSE creditLog'[Last(T)].after
  BY DEF BalanceAfter, Last
<1>14. BalanceAfter(u, S)' = IF k = 1 THEN Balance0(wallets[u]) ELSE L[k - 1].after
  <2>1. CASE k = 1
    <3>1. i - 1 = n
      BY <1>8, <2>1
    <3>2. SeenOf(u, n)' = SeenOf(u, n) /\ SeenOf(u, n) \in SUBSET (1..Len(creditLog))
      BY <1>1, <1>2, GrownSeen
    <3>3. S = SeenOf(u, n)
      BY <1>10, <3>1, <3>2
    <3>4. BalanceAfter(u, S)' = BalanceAfter(u, S)
      BY <1>2, <1>13, <3>2, <3>3, GrownBalance
    <3>5. BalanceAfter(u, S) = Balance0(wallets[u])
      BY <1>2, <1>4, <3>3, BalanceIsHeld
    <3> QED BY <2>1, <3>4, <3>5
  <2>2. CASE k # 1
    <3>1. i - 1 = n + (k - 1) /\ k - 1 \in 1..m /\ i - 1 \in 1..(n + m)
      BY <1>8, <2>2
    <3>2. creditLog'[i - 1] = L[k - 1]
      BY <1>2, <3>1
    <3>3. i - 1 \in S /\ \A j \in S : j <= i - 1
      BY <1>6, <1>11, <3>1, <3>2
    <3>4. Last(S) = i - 1
      <4>1. S \in SUBSET (1..(n + m))
        BY <1>11, <3>3
      <4> QED BY <1>8, <3>3, <4>1, LastIs
    <3> QED BY <1>13, <2>2, <3>2, <3>3, <3>4
  <2> QED BY <2>1, <2>2
<1>15. BalanceAfter(u, K)' = IF k = 1 THEN Balance0(view.wallet) ELSE L[k - 1].after
  <2>1. CASE k = 1
    <3>1. SeenOf(u, view.seen)' = SeenOf(u, view.seen)
          /\ SeenOf(u, view.seen) \in SUBSET (1..Len(creditLog))
      BY <1>1, <1>2, <1>5, GrownSeen
    <3>2. \A j \in 1..n : creditLog'[j].by # r
      <4>1. \A j \in 1..n : requests[creditLog[j].by].stage = "committed"
        BY <1>2 DEF MoneyInv, LoggedByCommitted
      <4> QED BY <1>2, <1>4, <4>1 DEF Open
    <3>3. \A j \in S : j \in 1..n
      BY <1>8, <1>11, <2>1
    <3>4. \A j : j \in SeenOf(u, view.seen)' <=>
                   j \in 1..(n + m) /\ creditLog'[j].user = u /\ j <= view.seen
      BY <1>2 DEF SeenOf, LogOf
    <3>5. \A j : j \in K <=> j \in SeenOf(u, view.seen)'
      <4>1. \A j : j \in K <=> j \in S /\ j <= view.seen
        BY <1>12, <3>2, <3>3
      <4>2. \A j \in 1..(n + m) : j <= view.seen => j <= i - 1
        BY <1>5, <1>8
      <4> QED BY <1>11, <3>4, <4>1, <4>2
    <3>6. K = SeenOf(u, view.seen)
      BY <1>12, <3>1, <3>5
    <3>7. BalanceAfter(u, K)' = BalanceAfter(u, K)
      BY <1>2, <1>13, <3>1, <3>6, GrownBalance
    <3>8. BalanceAfter(u, K) = Balance0(view.wallet)
      BY <1>4, <1>5, <3>6, BalanceIsHeld
    <3> QED BY <2>1, <3>7, <3>8
  <2>2. CASE k # 1
    <3>1. i - 1 = n + (k - 1) /\ k - 1 \in 1..m /\ i - 1 \in 1..(n + m)
      BY <1>8, <2>2
    <3>2. creditLog'[i - 1] = L[k - 1] /\ L[k - 1].by = r /\ L[k - 1].user = u
      BY <1>2, <1>6, <3>1
    <3>3. i - 1 \in K /\ K \subseteq S /\ \A j \in K : j <= i - 1
      BY <1>11, <1>12, <3>1, <3>2
    <3>4. Last(K) = i - 1
      <4>1. K \in SUBSET (1..(n + m))
        BY <1>11, <3>3
      <4> QED BY <1>8, <3>3, <4>1, LastIs
    <3> QED BY <1>13, <2>2, <3>2, <3>3, <3>4
  <2> QED BY <2>1, <2>2
<1>16. RowChained(i)' <=>
         creditLog'[i].after = Changed(creditLog'[i].type, BalanceAfter(u, S)', Amount[u])
  BY <1>9, <1>10 DEF RowChained
<1>17. RowKnew(i)' <=> creditLog'[i].before = BalanceAfter(u, K)'
  BY <1>9, <1>10 DEF RowKnew
<1> QED BY <1>7, <1>9, <1>14, <1>15, <1>16, <1>17

(* After a commit the log still says what every wallet is.                 *)
LEMMA CommitHolds ==
  ASSUME MoneyInv, NEW r \in Requests, Commit(r)
  PROVE  /\ wallets' \in [Users -> Wallet \cup {NoWallet}]
         /\ WalletsHeld'
<1>1. PICK n, m, L, u : /\ n = Len(creditLog) /\ m = Len(requests[r].logged)
                        /\ L = requests[r].logged /\ u = User(r)
  OBVIOUS
<1>2. /\ n \in Nat /\ m \in Nat /\ Len(creditLog') = n + m
      /\ DOMAIN creditLog' = 1..(n + m)
      /\ \A k \in 1..m : creditLog'[n + k] = L[k]
      /\ \A i \in 1..(n + m) : i \notin 1..n => i - n \in 1..m /\ i = n + (i - n)
      /\ Grown
      /\ m = 0 <=> L = <<>>
      /\ m = 0 => requests[r].own = NoWallet
  BY <1>1, CommitAppends
<1>3. /\ Open(r) /\ u \in Users /\ HasWritten(r) /\ MoneyTyped(requests[r])
      /\ wallets[u] \in Wallet \cup {NoWallet}
      /\ wallets' = [wallets EXCEPT ![u] = Current(r)]
  BY <1>1, OpenFacts DEF Commit
<1>4. wallets \in [Users -> Wallet \cup {NoWallet}] /\ \A v \in Users : wallets[v] = HeldAfter(v, n)
  BY <1>1 DEF MoneyInv, MoneyTypes, WalletsHeld
<1>5. Current(r) \in Wallet \cup {NoWallet}
  BY <1>1, <1>3 DEF Current, MoneyTyped
<1>6. \A k \in 1..m : L[k].user = u
  BY <1>1, <1>3 DEF HasWritten, MoneyTyped
<1>7. m # 0 => Current(r) = L[m].after
  <2>1. m # 0 => requests[r].own # NoWallet
    BY <1>1, <1>2, <1>3 DEF HasWritten
  <2> QED BY <1>1, <1>2, <1>3, <2>1 DEF HasWritten, Current
<1>8. m = 0 => Current(r) = wallets[u]
  BY <1>1, <1>2 DEF Current
<1>9. ASSUME NEW v \in Users PROVE wallets'[v] = HeldAfter(v, n + m)'
  <2>1. PICK S : S = SeenOf(v, n + m)'
    OBVIOUS
  <2>2. \A j : j \in S <=> j \in 1..(n + m) /\ creditLog'[j].user = v /\ j <= n + m
    BY <1>2, <2>1 DEF SeenOf, LogOf
  <2>3. HeldAfter(v, n + m)' = IF S = {} THEN Opening[v] ELSE creditLog'[Last(S)].after
    BY <2>1 DEF HeldAfter, BalanceAfter, Last
  <2>4. CASE m # 0 /\ v = u
    <3>1. n + m \in 1..(n + m) /\ m \in 1..m /\ n + m \in Nat
      BY <1>2, <2>4
    <3>2. creditLog'[n + m] = L[m]
      BY <1>2, <3>1
    <3>3. n + m \in S /\ \A j \in S : j <= n + m
      BY <1>6, <2>2, <2>4, <3>1, <3>2
    <3>4. Last(S) = n + m
      <4>1. S \in SUBSET (1..(n + m))
        BY <2>2
      <4> QED BY <3>1, <3>3, <4>1, LastIs
    <3> QED BY <1>3, <1>4, <1>7, <2>3, <2>4, <3>2, <3>3, <3>4
  <2>5. CASE ~ (m # 0 /\ v = u)
    <3>1. wallets'[v] = wallets[v]
      BY <1>3, <1>4, <1>8, <2>5
    <3>2. HeldAfter(v, n)' = HeldAfter(v, n)
      BY <1>1, <1>2, GrownHeld
    <3>3. \A j \in S : j \in 1..n
      <4>1. ASSUME NEW j \in S, j \notin 1..n PROVE FALSE
        <5>1. PICK k \in 1..m : j = n + k
          BY <1>2, <2>2, <4>1
        <5>2. creditLog'[j].user = u
          BY <1>2, <1>6, <5>1
        <5>3. m # 0
          BY <1>2
        <5> QED BY <2>2, <2>5, <5>2, <5>3
      <4> QED BY <4>1
    <3>4. S = SeenOf(v, n)'
      <4>1. \A j : j \in SeenOf(v, n)' <=> j \in 1..(n + m) /\ creditLog'[j].user = v /\ j <= n
        BY <1>2 DEF SeenOf, LogOf
      <4>2. \A j \in 1..(n + m) : j <= n <=> j \in 1..n
        BY <1>2
      <4>3. \A j \in 1..(n + m) : j <= n + m
        BY <1>2
      <4>4. \A j : j \in SeenOf(v, n)' <=> j \in S
        BY <2>2, <3>3, <4>1, <4>2, <4>3
      <4> QED BY <2>1, <4>4
    <3>5. HeldAfter(v, n)' = IF S = {} THEN Opening[v] ELSE creditLog'[Last(S)].after
      BY <3>4 DEF HeldAfter, BalanceAfter, Last
    <3> QED BY <1>4, <2>3, <3>1, <3>2, <3>5
  <2> QED BY <2>4, <2>5
<1>10. WalletsHeld'
  BY <1>2, <1>9 DEF WalletsHeld
<1> QED BY <1>3, <1>4, <1>5, <1>10

(* A commit disturbs no open transaction: one that has written the wallet  *)
(* has its lock, and what the others have read stays as it was.            *)
LEMMA CommitSpares ==
  ASSUME MoneyInv, NEW r \in Requests, Commit(r), NEW s \in Requests, s # r, Open(s)
  PROVE  HasRead(s)' /\ HasWritten(s)'
<1>1. /\ Open(r) /\ wallets' = [wallets EXCEPT ![User(r)] = Current(r)] /\ End(r, "committed")
  BY DEF Commit
<1>2. /\ RequestTypes /\ HasRead(s) /\ HasWritten(s) /\ MoneyTyped(requests[s])
      /\ User(s) \in Users /\ User(s) \in Rows
  BY OpenFacts
<1>3. HasWritten(r) /\ wallets \in [Users -> Wallet \cup {NoWallet}]
  BY <1>1, OpenFacts DEF MoneyInv, MoneyTypes
<1>4. /\ Len(creditLog) \in Nat /\ Len(creditLog) <= Len(creditLog') /\ Len(creditLog') \in Nat
      /\ Grown
  <2>1. Grown
    BY CommitAppends
  <2> QED BY <2>1 DEF Grown
<1>5. requests'[s] = requests[s] /\ LocksKept(r) /\ User(s)' = User(s)
  BY <1>1, <1>2, EndKeeps DEF Moves, User
<1>6. HasRead(s)'
  <2>1. PICK view : view = requests[s].view
    OBVIOUS
  <2>2. view # NoView => /\ view.seen \in Nat /\ view.seen <= Len(creditLog)
                         /\ view.wallet = HeldAfter(User(s), view.seen)
    BY <1>2, <2>1 DEF HasRead, MoneyTyped
  <2>3. PICK u : u = User(s)
    OBVIOUS
  <2>4. view # NoView => HeldAfter(u, view.seen)' = HeldAfter(u, view.seen)
    BY <1>4, <2>2, GrownHeld
  <2>5. requests[s].view # NoView => Visible(s)' = Visible(s)
    BY <1>5 DEF Visible, View
  <2>6. ~ AtEnd(s) /\ Statement(s)[1] = "update" =>
          /\ requests[s].view # NoView /\ requests[s].before = Visible(s)
          /\ requests[s].before # NoWallet
    BY <1>2 DEF HasRead
  <2>7. AtEnd(s)' = AtEnd(s) /\ Statement(s)' = Statement(s)
    BY <1>5 DEF AtEnd, Statement
  <2>8. view # NoView => view.seen <= Len(creditLog')
    BY <1>4, <2>2
  <2> QED BY <1>5, <2>1, <2>2, <2>3, <2>4, <2>5, <2>6, <2>7, <2>8 DEF HasRead
<1>7. HasWritten(s)'
  <2>1. locks[User(s)] = s => locks'[User(s)] = s
    BY <1>2, <1>5 DEF LocksKept
  <2>2. requests[s].own # NoWallet => wallets'[User(s)] = wallets[User(s)]
    <3>1. CASE User(s) # User(r)
      BY <1>1, <1>3, <3>1
    <3>2. CASE User(s) = User(r)
      <4>1. requests[s].own # NoWallet => requests[r].own = NoWallet
        BY <1>2, <1>3, <3>2 DEF HasWritten
      <4> QED BY <1>1, <1>3, <3>2, <4>1 DEF Current
    <3> QED BY <3>1, <3>2
  <2>3. \A k \in DOMAIN requests[s].logged : wallets'[User(s)] = wallets[User(s)]
    BY <1>2, <2>2 DEF HasWritten
  <2>4. AtEnd(s)' = AtEnd(s) /\ Statement(s)' = Statement(s)
    BY <1>5 DEF AtEnd, Statement
  <2> QED BY <1>2, <1>5, <2>1, <2>2, <2>3, <2>4 DEF HasWritten
<1> QED BY <1>6, <1>7

LEMMA CommitKeepsMoney ==
  ASSUME MoneyInv, NEW r \in Requests, Commit(r)
  PROVE  MoneyInv'
<1>1. /\ Open(r) /\ End(r, "committed")
  BY DEF Commit
<1>2. RequestTypes /\ HasWritten(r)
  BY <1>1, OpenFacts
<1>3. Moves(r, "committed") /\ LocksKept(r)
  BY <1>1, <1>2, EndKeeps
<1>4. /\ requests'[r].todo = requests[r].todo /\ requests'[r].own = requests[r].own
      /\ requests'[r].view = requests[r].view /\ requests'[r].logged = requests[r].logged
  BY <1>1, <1>2 DEF End, RequestTypes, Fields
<1>5. Grown
  BY CommitAppends
<1>6. MoneyTypes'
  <2>1. RequestTypes'
    BY <1>2, <1>3 DEF RequestTypes, Moves, LocksKept
  <2>2. \A s \in Requests : MoneyTyped(requests'[s])
    BY <1>3, <1>4 DEF MoneyInv, MoneyTypes, MoneyTyped, Moves
  <2> QED BY <1>5, <2>1, <2>2, CommitHolds DEF MoneyTypes, MoneyTyped, Grown
<1>7. \A s \in Requests : Open(s)' => HasRead(s)' /\ HasWritten(s)'
  <2>1. ASSUME NEW s \in Requests, Open(s)' PROVE s # r /\ Open(s)
    BY <1>3, <2>1 DEF Open, Moves
  <2> QED BY <2>1, CommitSpares
<1>8. ASSUME NEW s \in Requests, requests'[s].stage = "waiting" PROVE Fresh(s)'
  <2>1. s # r /\ requests'[s] = requests[s]
    BY <1>3, <1>8 DEF Moves
  <2> QED BY <1>8, <2>1 DEF MoneyInv, Fresh
<1>9. PICK n, m, L : n = Len(creditLog) /\ m = Len(requests[r].logged) /\ L = requests[r].logged
  OBVIOUS
<1>10. /\ DOMAIN creditLog = 1..n /\ DOMAIN creditLog' = 1..(n + m) /\ DOMAIN L = 1..m
       /\ \A i \in 1..n : creditLog'[i] = creditLog[i]
       /\ \A k \in 1..m : creditLog'[n + k] = L[k]
       /\ \A i \in 1..(n + m) : i \notin 1..n => i - n \in 1..m /\ i = n + (i - n)
  BY <1>9, CommitAppends
<1>11. LoggedByCommitted'
  <2>1. ASSUME NEW i \in 1..(n + m) PROVE requests'[creditLog'[i].by].stage = "committed"
    <3>1. CASE i \in 1..n
      <4>1. requests[creditLog[i].by].stage = "committed"
        BY <1>10, <3>1 DEF MoneyInv, LoggedByCommitted
      <4>2. creditLog[i].by \in Requests
        <5>1. creditLog[i] \in LogRows
          BY <1>5, <1>9, <3>1 DEF Grown
        <5> QED BY <5>1 DEF LogRows
      <4> QED BY <1>3, <1>10, <3>1, <4>1, <4>2 DEF Moves
    <3>2. CASE i \notin 1..n
      <4>1. PICK k \in 1..m : i = n + k
        BY <1>10, <3>2
      <4>2. L[k].by = r
        BY <1>2, <1>9, <1>10 DEF HasWritten
      <4> QED BY <1>3, <1>10, <4>1, <4>2 DEF Moves
    <3> QED BY <3>1, <3>2
  <2> QED BY <1>10, <2>1 DEF LoggedByCommitted
<1>12. ASSUME NEW i \in DOMAIN creditLog' PROVE RowChained(i)' /\ RowKnew(i)'
  <2>1. CASE i \in 1..n
    <3>1. i \in DOMAIN creditLog /\ RowChained(i) /\ RowKnew(i)
      BY <1>10, <2>1 DEF MoneyInv
    <3> QED BY <1>5, <3>1, KeptChain
  <2>2. CASE i \notin 1..n
    <3>1. PICK k \in DOMAIN requests[r].logged : i = Len(creditLog) + k
      BY <1>9, <1>10, <1>12, <2>2
    <3> QED BY <3>1, CommitContinues
  <2> QED BY <2>1, <2>2
<1> QED BY <1>6, <1>7, <1>8, <1>11, <1>12, CommitHolds DEF MoneyInv

-----------------------------------------------------------------------------
LEMMA MoneyInitially == ResourcesInit => MoneyInv
<1> SUFFICES ASSUME ResourcesInit PROVE MoneyInv
  OBVIOUS
<1>1. RequestTypes
  BY InitHasInv DEF RowInv
<1>2. wallets = Opening /\ creditLog = <<>>
  BY DEF ResourcesInit, StatementsInit, NoMoneyInit, TablesInit
<1>3. PICK mix \in Mixes, stage \in {"waiting", "absent"} :
        requests = [r \in Requests |-> [NewRequest(mix[r]) EXCEPT !.stage = stage]]
  BY MixesAssumption DEF ResourcesInit, StatementsInit, NoMoneyInit, NewRequest
<1>4. mix \in [Requests -> Handlers]
  BY <1>3, MixesAssumption
<1>5. \A r \in Requests : Fresh(r) /\ requests[r].stage \in {"waiting", "absent"}
  BY <1>3 DEF Fresh, NewRequest
<1>6. \A r \in Requests : Statements(requests[r].handler) \in Seq(Said)
                          /\ Paired(Statements(requests[r].handler))
  BY <1>1, StatementsPiece DEF RequestTypes, Piece
<1>7. MoneyTypes
  <2>1. <<>> \in Seq(LogRows)
    OBVIOUS
  <2>2. ASSUME NEW r \in Requests PROVE MoneyTyped(requests[r])
    BY <1>5, <1>6, <2>1 DEF MoneyTyped, Fresh
  <2>3. wallets \in [Users -> Wallet \cup {NoWallet}] /\ creditLog \in Seq(LogRows)
    BY <1>2, <2>1
  <2> QED BY <1>1, <2>2, <2>3 DEF MoneyTypes, MoneyTyped
<1>8. WalletsHeld
  BY <1>2 DEF WalletsHeld, HeldAfter, SeenOf, LogOf
<1> QED BY <1>2, <1>5, <1>7, <1>8 DEF MoneyInv, LoggedByCommitted, Open

LEMMA MoneyKept ==
  ASSUME MoneyInv, [ResourcesNext]_resourceVars
  PROVE  MoneyInv'
<1>1. ASSUME NEW r \in Requests, Step(r)
      PROVE  MoneyInv'
  <2>1. CASE BreakDeadlock(r) \/ LockWaitTimeout(r)
    <3>1. Open(r)
      BY <2>1 DEF BreakDeadlock, LockWaitTimeout, Blocked, WaitsFor
    <3> QED BY <2>1, <3>1, EndKeepsMoney DEF BreakDeadlock, LockWaitTimeout, Abort
  <2> QED BY <1>1, <2>1, BeginKeepsMoney, SelectsKeepMoney, FindKeepsMoney, InsertKeepsMoney,
             UpdateKeepsMoney, CommitKeepsMoney DEF Step
<1>2. ASSUME UNCHANGED moneyVars
      PROVE  MoneyInv'
  <2>1. /\ wallets' = wallets /\ creditLog' = creditLog /\ locks' = locks
        /\ requests' = requests
    BY <1>2 DEF moneyVars
  <2>2. MoneyTypes'
    BY <2>1 DEF MoneyInv, MoneyTypes, RequestTypes
  <2>3. \A u, n : HeldAfter(u, n)' = HeldAfter(u, n)
    BY <2>1 DEF HeldAfter, SeenOf, LogOf, BalanceAfter, First
  <2>4. WalletsHeld'
    BY <2>1, <2>3 DEF MoneyInv, WalletsHeld
  <2>5. \A r \in Requests : Open(r)' => HasRead(r)' /\ HasWritten(r)'
    <3>1. ASSUME NEW r \in Requests, Open(r)' PROVE HasRead(r)' /\ HasWritten(r)'
      <4>1. HasRead(r) /\ HasWritten(r)
        BY <2>1, <3>1 DEF MoneyInv, Open
      <4>2. HasRead(r)'
        BY <2>1, <4>1 DEF HasRead, AtEnd, Statement, User, Visible, View, HeldAfter, SeenOf, LogOf,
                          BalanceAfter, First
      <4>3. HasWritten(r)'
        BY <2>1, <4>1 DEF HasWritten, AtEnd, Statement, User
      <4> QED BY <4>2, <4>3
    <3> QED BY <3>1
  <2>6. /\ \A r \in Requests : requests'[r].stage = "waiting" => Fresh(r)'
        /\ LoggedByCommitted'
    BY <2>1 DEF MoneyInv, Fresh, LoggedByCommitted
  <2>7. ASSUME NEW i \in DOMAIN creditLog' PROVE RowChained(i)' /\ RowKnew(i)'
    <3>1. RowChained(i) /\ RowKnew(i)
      BY <2>1, <2>7 DEF MoneyInv
    <3>2. RowChained(i)' <=> RowChained(i)
      BY <2>1 DEF RowChained, SeenOf, LogOf, BalanceAfter, First
    <3>3. RowKnew(i)' <=> RowKnew(i)
      BY <2>1 DEF RowKnew, Known, SeenOf, LogOf, BalanceAfter, First
    <3> QED BY <3>1, <3>2, <3>3
  <2> QED BY <2>2, <2>4, <2>5, <2>6, <2>7 DEF MoneyInv
<1> QED BY <1>1, <1>2 DEF ResourcesNext, MoneyNext, resourceVars

LEMMA InvChains == MoneyInv => LogIsChained
<1> SUFFICES ASSUME MoneyInv PROVE LogIsChained
  OBVIOUS
<1>1. creditLog \in Seq(LogRows) /\ DOMAIN creditLog = 1..Len(creditLog) /\ Len(creditLog) \in Nat
  BY DEF MoneyInv, MoneyTypes
<1>2. ASSUME NEW i \in DOMAIN creditLog
      PROVE  /\ creditLog[i].after =
                  Changed(creditLog[i].type, BalanceAfter(creditLog[i].user, Earlier(i)),
                          Amount[creditLog[i].user])
             /\ creditLog[i].after \in [amount : Nat, lockedAmount : Nat]
  <2>1. \A j \in DOMAIN creditLog : j <= i - 1 <=> j < i
    BY <1>1
  <2>2. Earlier(i) = SeenOf(creditLog[i].user, i - 1)
    BY <2>1 DEF Earlier, SeenOf, LogOf
  <2>3. creditLog[i] \in LogRows
    BY <1>1
  <2>4. RowChained(i)
    BY DEF MoneyInv
  <2> QED BY <2>2, <2>3, <2>4 DEF RowChained, LogRows, Wallet
<1>3. ASSUME NEW u \in Users, LogOf(u) # {} PROVE wallets[u] = BalanceAfter(u, LogOf(u))
  <2>1. SeenOf(u, Len(creditLog)) = LogOf(u)
    BY <1>1 DEF SeenOf, LogOf
  <2>2. wallets[u] = HeldAfter(u, Len(creditLog))
    BY DEF MoneyInv, WalletsHeld
  <2> QED BY <1>3, <2>1, <2>2 DEF HeldAfter
<1> QED BY <1>2, <1>3 DEF LogIsChained

LEMMA InvHeldBefore == MoneyInv => BeforeWasHeld
<1> SUFFICES ASSUME MoneyInv, NEW i \in DOMAIN creditLog
             PROVE  LET row == creditLog[i]
                        known == {j \in Earlier(i) : j <= row.seen \/ creditLog[j].by = row.by}
                    IN  row.before = BalanceAfter(row.user, known)
  BY DEF BeforeWasHeld
<1>1. DOMAIN creditLog = 1..Len(creditLog) /\ Len(creditLog) \in Nat
  BY DEF MoneyInv, MoneyTypes
<1>2. \A j \in DOMAIN creditLog : j <= i - 1 <=> j < i
  BY <1>1
<1>3. Earlier(i) = SeenOf(creditLog[i].user, i - 1)
  BY <1>2 DEF Earlier, SeenOf, LogOf
<1>4. RowKnew(i)
  BY DEF MoneyInv
<1> QED BY <1>3, <1>4 DEF RowKnew, Known

(* The log of CreditService accounts for every wallet, from its first row  *)
(* to its last, for any requests in any order of their statements, with    *)
(* any amounts, deadlocks, timeouts and size of the pool.                  *)
THEOREM LogAccounts == ResourcesSpec => []LogIsChained
BY InvChains, MoneyInitially, MoneyKept, PTL DEF ResourcesSpec

(* The balance before that CreditService logs was held by the wallet when  *)
(* the transaction took its snapshot, or left by its own earlier row.      *)
THEOREM BeforeIsHeld == ResourcesSpec => []BeforeWasHeld
BY InvHeldBefore, MoneyInitially, MoneyKept, PTL DEF ResourcesSpec

-----------------------------------------------------------------------------
(* The types of what MoneyTypes leaves out: closed, locks and stages.      *)
LockTypes ==
  /\ closed \subseteq Rows
  /\ locks \in [Rows -> Requests \cup {NoRequest}]
  /\ \A r \in Requests : requests[r].stage \in Stages

(* A step of r to a stage there is, that locks rows for r or unlocks them. *)
LEMMA KeepsLockTypes ==
  ASSUME RequestTypes, LockTypes, NEW r \in Requests, NEW stage \in Stages,
         requests'[r].stage = stage, \A s \in Requests \ {r} : requests'[s] = requests[s],
         \/ locks' = locks \/ locks' = Released(r)
         \/ \E row \in Rows : locks' = WithLock(r, row),
         closed' \subseteq Rows
  PROVE  LockTypes'
<1>1. locks' \in [Rows -> Requests \cup {NoRequest}]
  BY DEF LockTypes, Released, WithLock
<1>2. \A s \in Requests : requests'[s].stage \in Stages
  BY DEF LockTypes
<1> QED BY <1>1, <1>2 DEF LockTypes

LEMMA StepKeepsLockTypes ==
  ASSUME MoneyTypes, LockTypes, NEW r \in Requests, Step(r)
  PROVE  LockTypes'
<1>1. /\ RequestTypes /\ DOMAIN requests = Requests /\ closed \subseteq Rows
      /\ DOMAIN requests[r] = Fields /\ requests[r].handler \in Handlers
  BY DEF MoneyTypes, RequestTypes, LockTypes
<1>2. {"open", "refused", "aborted", "committed"} \subseteq Stages
  BY DEF Stages
<1>3. ASSUME NEW stage \in Stages, End(r, stage), closed' \subseteq Rows
      PROVE  LockTypes'
  <2>1. requests'[r].stage = stage /\ \A s \in Requests \ {r} : requests'[s] = requests[s]
    BY <1>1, <1>3 DEF End, Fields
  <2> QED BY <1>1, <1>3, <2>1, KeepsLockTypes DEF End
<1>4. ASSUME ~ AtEnd(r) PROVE Statement(r) \in Said
  BY <1>4 DEF MoneyTypes, MoneyTyped, AtEnd, Statement
<1>5. \A do : At(r, do) => Open(r) /\ ~ AtEnd(r) /\ Statement(r)[1] = do
  BY DEF At
<1>6. ASSUME At(r, "lock") \/ At(r, "write") PROVE Statement(r)[2] \in Rows
  BY <1>4, <1>5, <1>6 DEF Said
<1>7. User(r) \in Rows
  BY <1>1, UserIsUser DEF User
<1>8. requests[r].stage = "open" => Advanced(r)[r].stage = "open"
  BY <1>1 DEF Advanced, Fields
<1>9. CASE Begin(r) \/ LookUp(r) \/ FindWallet(r) \/ ReadBalance(r)
  <2>1. /\ requests'[r].stage = "open" /\ \A s \in Requests \ {r} : requests'[s] = requests[s]
        /\ locks' = locks /\ closed' = closed
    BY <1>1, <1>9, <1>5 DEF Begin, LookUp, FindWallet, ReadBalance, Advanced, Open, Fields
  <2> QED BY <1>1, <1>2, <2>1, KeepsLockTypes
<1>10. CASE LockRow(r) \/ InsertWallet(r) \/ UpdateWallet(r) \/ WriteRow(r)
  <2>1. CASE End(r, "refused")
    BY <1>1, <1>2, <1>3, <1>10, <2>1 DEF LockRow, InsertWallet, UpdateWallet, WriteRow
  <2>2. CASE ~ End(r, "refused")
    <3>1. /\ requests'[r].stage = "open"
          /\ \A s \in Requests \ {r} : requests'[s] = requests[s]
          /\ closed' = closed
      BY <1>1, <1>5, <1>10, <2>2
         DEF LockRow, InsertWallet, UpdateWallet, WriteRow, Advanced, Open, Fields
    <3>2. \E row \in Rows : locks' = WithLock(r, row)
      BY <1>6, <1>7, <1>10, <2>2 DEF LockRow, InsertWallet, UpdateWallet, WriteRow
    <3> QED BY <1>1, <1>2, <3>1, <3>2, KeepsLockTypes
  <2> QED BY <2>1, <2>2
<1>11. CASE Commit(r)
  <2>1. Closes(requests[r].handler) \subseteq Rows
    BY <1>1 DEF Closes, Handlers
  <2> QED BY <1>1, <1>2, <1>3, <1>11, <2>1 DEF Commit
<1>12. CASE BreakDeadlock(r) \/ LockWaitTimeout(r)
  BY <1>1, <1>2, <1>3, <1>12 DEF BreakDeadlock, LockWaitTimeout, Abort
<1> QED BY <1>9, <1>10, <1>11, <1>12 DEF Step

(* Rows of the log, balances, locks and stages keep their types: whatever  *)
(* requests meet, no balance of a wallet is below zero, no row is locked   *)
(* by none of the requests, and nothing but a row there is gets closed.    *)
THEOREM StatementsTypes == ResourcesSpec => []StatementsTypeOK
<1>1. ResourcesInit => MoneyInv /\ LockTypes
  <2> SUFFICES ASSUME ResourcesInit PROVE LockTypes
    BY MoneyInitially
  <2>1. \A r \in Requests : requests[r].stage \in {"waiting", "absent"}
    BY DEF ResourcesInit, StatementsInit, NoMoneyInit, NewRequest
  <2>2. closed = {} /\ locks = [row \in Rows |-> NoRequest]
    BY DEF ResourcesInit, StatementsInit, NoMoneyInit, TablesInit
  <2> QED BY <2>1, <2>2 DEF LockTypes, Stages
<1>2. MoneyInv /\ LockTypes /\ [ResourcesNext]_resourceVars => (MoneyInv /\ LockTypes)'
  <2> SUFFICES ASSUME MoneyInv, LockTypes, [ResourcesNext]_resourceVars PROVE LockTypes'
    BY MoneyKept
  <2>1. CASE UNCHANGED moneyVars
    BY <2>1 DEF moneyVars, LockTypes
  <2>2. ASSUME NEW r \in Requests, Step(r) PROVE LockTypes'
    BY <2>2, StepKeepsLockTypes DEF MoneyInv
  <2> QED BY <2>1, <2>2 DEF ResourcesNext, MoneyNext, resourceVars
<1>3. MoneyInv /\ LockTypes => StatementsTypeOK
  <2> SUFFICES ASSUME MoneyInv, LockTypes PROVE StatementsTypeOK
    OBVIOUS
  <2>1. \A u \in Users : wallets[u] # NoWallet =>
          wallets[u].amount \in Nat /\ wallets[u].lockedAmount \in Nat
    BY DEF MoneyInv, MoneyTypes, Wallet
  <2>2. \A i \in DOMAIN creditLog : creditLog[i] \in LogRows
    BY DEF MoneyInv, MoneyTypes
  <2> QED BY <2>1, <2>2 DEF LockTypes, StatementsTypeOK
<1> QED BY <1>1, <1>2, <1>3, PTL DEF ResourcesSpec

(* The shared connection: this.client is a connection that was opened or   *)
(* null, this.connecting an operation there is, and each operation has a   *)
(* try left to count, whatever the network and the server do.              *)
THEOREM SftpTypes == ResourcesSpec => []SftpTypeOK
<1>1. HealInv => SftpTypeOK
  BY DEF HealInv
<1> QED BY <1>1, HealInitially, HealNext, PTL DEF ResourcesSpec
=============================================================================
