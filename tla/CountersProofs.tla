--------------------------- MODULE CountersProofs ---------------------------
(***************************************************************************)
(* For any number of instances, threads, names, block sizes, attempts,     *)
(* calls and crashes, and on both kinds of database: the steps of          *)
(* CountersSequences implement BlockAllocator, so no number is returned    *)
(* twice and every number is accounted for.                                *)
(***************************************************************************)
EXTENDS Counters, TLAPS

LEMMA AnyNameIsName == AnyName \in Name
  BY CountersAssumption DEF AnyName

---------------------------------------------------------------------------
(* Type correctness.                                                       *)

LEMMA LeaveType ==
  ASSUME NEW t \in Thread, ThreadType, Leave(t)
  PROVE  ThreadType'
<1>1. MaxAttempts \in Nat \ {0} /\ AnyName \in Name
  BY CountersAssumption, AnyNameIsName
<1> QED
  BY <1>1 DEF ThreadType, Leave

LEMMA UnlockType ==
  ASSUME NEW t \in Thread, InstanceType, Unlock(t), UNCHANGED held
  PROVE  InstanceType'
  BY DEF InstanceType, Unlock

LEMMA RetryType ==
  ASSUME NEW t \in Thread, DbType, ThreadType, InstanceType, Retry(t),
         UNCHANGED <<locking, table, held>>
  PROVE  DbType' /\ ThreadType' /\ InstanceType'
<1>1. DbType'
  BY DEF DbType, Retry
<1>2. ThreadType' /\ InstanceType'
  <2>1. CASE MayRetry(t)
    <3>1. ThreadType'
      BY <2>1, CountersAssumption DEF ThreadType, Retry, MayRetry, NextAttempt, Allocating
    <3>2. InstanceType'
      BY <2>1 DEF InstanceType, Retry
    <3> QED
      BY <3>1, <3>2
  <2>2. CASE ~MayRetry(t)
    <3>1. Leave(t) /\ Unlock(t)
      BY <2>2 DEF Retry, Throw
    <3> QED
      BY <3>1, LeaveType, UnlockType
  <2> QED
    BY <2>1, <2>2
<1> QED
  BY <1>1, <1>2

LEMMA HandOutType ==
  ASSUME NEW t \in Thread, NEW v \in Nat, ThreadType, HistoryType, HandOut(t, v), UNCHANGED lost
  PROVE  HistoryType'
<1> DEFINE e == [by |-> Home[t], value |-> v, since |-> since[t]]
<1>1. /\ Home[t] \in Instance /\ since[t] \in Nat
      /\ name[t] \in Name
  BY CountersAssumption DEF ThreadType
<1>2. e \in Entry
  BY <1>1 DEF Entry
<1>3. handed' = [handed EXCEPT ![name[t]] = Append(handed[name[t]], e)]
  BY DEF HandOut
<1> HIDE DEF e
<1>4. Append(handed[name[t]], e) \in Seq(Entry)
  BY <1>1, <1>2 DEF HistoryType
<1> QED
  BY <1>1, <1>3, <1>4 DEF HistoryType

LEMMA TypeStep ==
  ASSUME TypeOK, Next
  PROVE  TypeOK'
<1> USE DEF TypeOK, db, history
<1>1. ASSUME NEW t \in Thread, NEW n \in Name, Call(t, n) PROVE TypeOK'
  <2>1. ThreadType'
    BY <1>1 DEF Call, ThreadType, HistoryType
  <2> QED
    BY <1>1, <2>1 DEF Call, DbType, InstanceType, HistoryType
<1>2. ASSUME NEW t \in Thread, TakeHeld(t) PROVE TypeOK'
  <2>1. ThreadType'
    BY <1>2, LeaveType DEF TakeHeld
  <2>2. InstanceType' /\ held[Home[t]][name[t]].lo \in Nat
    BY <1>2, CountersAssumption DEF TakeHeld, InstanceType, ThreadType
  <2>3. HistoryType'
    BY <1>2, <2>2, HandOutType DEF TakeHeld
  <2> QED
    BY <1>2, <2>1, <2>2, <2>3 DEF TakeHeld, DbType
<1>3. ASSUME NEW t \in Thread, BeginAllocate(t) PROVE TypeOK'
  <2>1. ThreadType' /\ InstanceType'
    BY <1>3 DEF BeginAllocate, ThreadType, InstanceType, Allocating
  <2> QED
    BY <1>3, <2>1 DEF BeginAllocate, DbType, HistoryType
<1>4. ASSUME NEW t \in Thread, Read(t) PROVE TypeOK'
  <2>1. ThreadType'
    BY <1>4 DEF Read, ThreadType, Allocating, DbType
  <2> QED
    BY <1>4, <2>1 DEF Read, DbType, InstanceType, HistoryType
<1>5. ASSUME NEW t \in Thread, NoRow(t) \/ Interrupt(t) PROVE TypeOK'
  <2>1. ThreadType' /\ InstanceType'
    BY <1>5, LeaveType, UnlockType DEF NoRow, Interrupt, Throw
  <2> QED
    BY <1>5, <2>1 DEF NoRow, Interrupt, DbType, HistoryType
<1>6. ASSUME NEW t \in Thread, Update(t) PROVE TypeOK'
  <2>1. ThreadType' /\ DbType'
    BY <1>6 DEF Update, ThreadType, Allocating, DbType
  <2> QED
    BY <1>6, <2>1 DEF Update, InstanceType, HistoryType
<1>7. ASSUME NEW t \in Thread, UpdateNoRow(t) \/ Fail(t) PROVE TypeOK'
  <2>1. DbType' /\ ThreadType' /\ InstanceType'
    BY <1>7, RetryType DEF UpdateNoRow, Fail
  <2> QED
    BY <1>7, <2>1 DEF UpdateNoRow, Fail, HistoryType
<1>8. ASSUME NEW t \in Thread, Commit(t) PROVE TypeOK'
  <2>1. ThreadType'
    BY <1>8 DEF Commit, ThreadType, Allocating
  <2>2. name[t] \in Name /\ current[t] \in Nat /\ Block[name[t]] \in Nat
    BY CountersAssumption DEF ThreadType
  <2>3. DbType'
    BY <1>8, <2>2 DEF Commit, DbType
  <2> QED
    BY <1>8, <2>1, <2>3 DEF Commit, InstanceType, HistoryType
<1>9. ASSUME NEW t \in Thread, LoseAck(t) PROVE TypeOK'
  <2>1. DbType' /\ ThreadType' /\ InstanceType'
    BY <1>9, RetryType DEF LoseAck
  <2>2. BlockAt(name[t], current[t]) \subseteq Nat
    BY CountersAssumption DEF BlockAt, ThreadType
  <2>3. HistoryType'
    BY <1>9, <2>2 DEF LoseAck, HistoryType
  <2> QED
    BY <1>9, <2>1, <2>3 DEF LoseAck
<1>10. ASSUME NEW t \in Thread, Return(t) PROVE TypeOK'
  <2>1. ThreadType' /\ DbType'
    BY <1>10, LeaveType DEF Return, DbType
  <2>2. name[t] \in Name /\ current[t] \in Nat /\ Block[name[t]] \in Nat
    BY CountersAssumption DEF ThreadType
  <2>3. RangeAfter(name[t], current[t]) \in [lo : Nat, hi : Nat]
    BY <2>2 DEF RangeAfter
  <2>4. InstanceType'
    BY <1>10, <2>3 DEF Return, InstanceType, Unlock
  <2>5. HistoryType'
    BY <1>10, <2>2, HandOutType DEF Return
  <2> QED
    BY <1>10, <2>1, <2>4, <2>5 DEF Return
<1>11. ASSUME NEW i \in Instance, Crash(i) PROVE TypeOK'
  <2>1. DbType' /\ crashes' \in Nat
    BY <1>11 DEF Crash, DbType
  <2>2. ThreadType'
    <3>1. MaxAttempts \in Nat \ {0} /\ AnyName \in Name
      BY CountersAssumption, AnyNameIsName
    <3> QED
      BY <1>11, <3>1 DEF Crash, ThreadType
  <2>3. InstanceType'
    BY <1>11 DEF Crash, InstanceType, Empty
  <2>4. \A n \in Name : Reserved(i, n) \subseteq Nat
    BY CountersAssumption DEF Reserved, BlockAt, InstanceType, ThreadType
  <2>5. HistoryType'
    BY <1>11, <2>4 DEF Crash, HistoryType
  <2> QED
    BY <1>11, <2>1, <2>2, <2>3, <2>5 DEF Crash
<1>12. CASE AllDone
  BY <1>12 DEF AllDone, vars, DbType, ThreadType, InstanceType, HistoryType
<1> QED
  BY <1>1, <1>2, <1>3, <1>4, <1>5, <1>6, <1>7, <1>8, <1>9, <1>10, <1>11, <1>12 DEF Next, Step

LEMMA TypeInit ==
  ASSUME Init
  PROVE  TypeOK
<1>1. DbType
  BY CountersAssumption DEF Init, DbType
<1>2. MaxAttempts \in Nat \ {0} /\ AnyName \in Name
  BY CountersAssumption, AnyNameIsName
<1>3. ThreadType
  BY <1>2 DEF Init, ThreadType
<1>4. InstanceType
  BY DEF Init, InstanceType, Empty
<1>5. HistoryType
  BY DEF Init, HistoryType
<1> QED
  BY <1>1, <1>3, <1>4, <1>5 DEF Init, TypeOK

(* Every variable keeps its type: in particular no loop of allocate()      *)
(* counts past MAX_ATTEMPTS.                                               *)
THEOREM TypeCorrect == Spec => []TypeOK
<1>1. Init => TypeOK
  BY TypeInit
<1>2. TypeOK /\ [Next]_vars => TypeOK'
  <2>1. TypeOK /\ UNCHANGED vars => TypeOK'
    BY DEF vars, db, history, TypeOK, DbType, ThreadType, InstanceType, HistoryType
  <2> QED
    BY <2>1, TypeStep
<1> QED
  BY <1>1, <1>2, PTL DEF Spec

---------------------------------------------------------------------------
(* Who is past the monitor owns it, and nothing is held meanwhile.         *)

(* Two threads inside allocate() for the same name are of different        *)
(* instances.                                                              *)
LEMMA OneAllocator ==
  ASSUME Monitors, NEW t \in Thread, NEW u \in Thread, t # u,
         pc[t] \in Allocating, pc[u] \in Allocating
  PROVE  ~(Home[t] = Home[u] /\ name[t] = name[u])
  BY DEF Monitors

(* A step that takes t out of next() keeps Monitors.                       *)
LEMMA ThrowMonitors ==
  ASSUME ThreadType, InstanceType, Monitors, NEW t \in Thread, pc[t] \in Allocating,
         Throw(t), UNCHANGED held
  PROVE  Monitors'
<1> SUFFICES ASSUME NEW u \in Thread, pc'[u] \in Allocating
             PROVE  /\ lock'[Home[u]][name'[u]] = u
                    /\ held[Home[u]][name'[u]].lo >= held[Home[u]][name'[u]].hi
  BY DEF Monitors
<1>1. u # t /\ pc[u] \in Allocating /\ name'[u] = name[u]
  BY DEF ThreadType, Throw, Leave, Allocating
<1>2. ~(Home[u] = Home[t] /\ name[u] = name[t])
  BY <1>1, OneAllocator
<1>3. lock'[Home[u]][name[u]] = lock[Home[u]][name[u]]
  BY <1>2 DEF InstanceType, Throw, Unlock, Monitor
<1> QED
  BY <1>1, <1>3 DEF Monitors

LEMMA RetryMonitors ==
  ASSUME ThreadType, InstanceType, Monitors, NEW t \in Thread, pc[t] \in Allocating,
         Retry(t), UNCHANGED held
  PROVE  Monitors'
<1>1. CASE MayRetry(t)
  <2>1. /\ pc' = [pc EXCEPT ![t] = "read"]
        /\ UNCHANGED <<name, lock>>
    BY <1>1 DEF Retry
  <2> QED
    BY <2>1 DEF Monitors, ThreadType, Allocating
<1>2. CASE ~MayRetry(t)
  BY <1>2, ThrowMonitors DEF Retry
<1> QED
  BY <1>1, <1>2

(* A step that changes neither a monitor nor a range and lets nobody past  *)
(* one keeps Monitors.                                                     *)
LEMMA QuietMonitors ==
  ASSUME Monitors, UNCHANGED <<lock, held>>,
         \A u \in Thread : pc'[u] \in Allocating => pc[u] \in Allocating /\ name'[u] = name[u]
  PROVE  Monitors'
  BY DEF Monitors

LEMMA MonitorsStep ==
  ASSUME TypeOK, Monitors, Next
  PROVE  Monitors'
<1> USE DEF TypeOK, history
<1>1. ASSUME NEW t \in Thread, NEW n \in Name, Call(t, n) PROVE Monitors'
  BY <1>1, QuietMonitors DEF Call, ThreadType, Allocating
<1>2. ASSUME NEW t \in Thread, TakeHeld(t) PROVE Monitors'
  <2> SUFFICES ASSUME NEW u \in Thread, pc'[u] \in Allocating
               PROVE  /\ lock[Home[u]][name'[u]] = u
                      /\ held'[Home[u]][name'[u]].lo >= held'[Home[u]][name'[u]].hi
    BY <1>2 DEF Monitors, TakeHeld
  <2>1. u # t /\ pc[u] \in Allocating /\ name'[u] = name[u]
    BY <1>2 DEF ThreadType, TakeHeld, Leave, Allocating
  <2>2. lock[Home[u]][name[u]] = u /\ lock[Home[t]][name[t]] = Nobody /\ u # Nobody
    BY <1>2, <2>1, CountersAssumption DEF Monitors, TakeHeld, MayEnter, Monitor
  <2>3. held'[Home[u]][name[u]] = held[Home[u]][name[u]]
    BY <1>2, <2>2 DEF InstanceType, TakeHeld
  <2> QED
    BY <2>1, <2>2, <2>3 DEF Monitors
<1>3. ASSUME NEW t \in Thread, BeginAllocate(t) PROVE Monitors'
  <2> SUFFICES ASSUME NEW u \in Thread, pc'[u] \in Allocating
               PROVE  /\ lock'[Home[u]][name[u]] = u
                      /\ held[Home[u]][name[u]].lo >= held[Home[u]][name[u]].hi
    BY <1>3 DEF Monitors, BeginAllocate
  <2>1. Home[t] \in Instance /\ name[t] \in Name
    BY CountersAssumption DEF ThreadType
  <2>2. CASE u = t
    BY <1>3, <2>1, <2>2 DEF BeginAllocate, InstanceType, Monitor
  <2>3. CASE u # t
    <3>1. pc[u] \in Allocating
      BY <1>3, <2>3 DEF BeginAllocate, ThreadType
    <3>2. lock[Home[u]][name[u]] = u /\ lock[Home[t]][name[t]] = Nobody /\ u # Nobody
      BY <1>3, <3>1, CountersAssumption DEF Monitors, BeginAllocate, MayEnter, Monitor
    <3>3. lock'[Home[u]][name[u]] = lock[Home[u]][name[u]]
      BY <1>3, <3>2 DEF InstanceType, BeginAllocate, Monitor
    <3> QED
      BY <3>1, <3>3 DEF Monitors
  <2> QED
    BY <2>2, <2>3
<1>4. ASSUME NEW t \in Thread, Read(t) \/ Update(t) \/ Commit(t) PROVE Monitors'
  <2>1. \A u \in Thread : pc'[u] \in Allocating => pc[u] \in Allocating
    BY <1>4 DEF Read, Update, Commit, ThreadType, Allocating
  <2> QED
    BY <1>4, <2>1, QuietMonitors DEF Read, Update, Commit
<1>5. ASSUME NEW t \in Thread, NoRow(t) \/ Interrupt(t) PROVE Monitors'
  BY <1>5, ThrowMonitors DEF NoRow, Interrupt, Allocating
<1>6. ASSUME NEW t \in Thread, UpdateNoRow(t) \/ Fail(t) \/ LoseAck(t) PROVE Monitors'
  BY <1>6, RetryMonitors DEF UpdateNoRow, Fail, LoseAck, Allocating
<1>7. ASSUME NEW t \in Thread, Return(t) PROVE Monitors'
  <2> SUFFICES ASSUME NEW u \in Thread, pc'[u] \in Allocating
               PROVE  /\ lock'[Home[u]][name'[u]] = u
                      /\ held'[Home[u]][name'[u]].lo >= held'[Home[u]][name'[u]].hi
    BY DEF Monitors
  <2>1. u # t /\ pc[u] \in Allocating /\ name'[u] = name[u]
    BY <1>7 DEF ThreadType, Return, Leave, Allocating
  <2>2. pc[t] \in Allocating
    BY <1>7 DEF Return, Allocating
  <2>3. ~(Home[u] = Home[t] /\ name[u] = name[t])
    BY <2>1, <2>2, OneAllocator
  <2>4. /\ lock'[Home[u]][name[u]] = lock[Home[u]][name[u]]
        /\ held'[Home[u]][name[u]] = held[Home[u]][name[u]]
    BY <1>7, <2>3 DEF InstanceType, Return, Unlock, Monitor
  <2> QED
    BY <2>1, <2>4 DEF Monitors
<1>8. ASSUME NEW i \in Instance, Crash(i) PROVE Monitors'
  <2> SUFFICES ASSUME NEW u \in Thread, pc'[u] \in Allocating
               PROVE  /\ lock'[Home[u]][name'[u]] = u
                      /\ held'[Home[u]][name'[u]].lo >= held'[Home[u]][name'[u]].hi
    BY DEF Monitors
  <2>1. Home[u] # i /\ pc[u] \in Allocating /\ name'[u] = name[u]
    BY <1>8 DEF Crash, Allocating
  <2>2. lock'[Home[u]] = lock[Home[u]] /\ held'[Home[u]] = held[Home[u]]
    BY <1>8, <2>1, CountersAssumption DEF Crash, InstanceType
  <2> QED
    BY <2>1, <2>2 DEF Monitors
<1>9. CASE AllDone
  BY <1>9 DEF AllDone, vars, Monitors
<1> QED
  BY <1>1, <1>2, <1>3, <1>4, <1>5, <1>6, <1>7, <1>8, <1>9 DEF Next, Step

---------------------------------------------------------------------------
(* A row that was updated and not yet committed stays as it was read.      *)

(* A step that changes no counter, takes no row lock from the threads at   *)
(* "commit" and brings nobody there keeps RowKept.                         *)
LEMMA QuietRows ==
  ASSUME RowKept, UNCHANGED <<locking, table>>,
         \A u \in Thread : pc'[u] = "commit" =>
           /\ pc[u] = "commit" /\ name'[u] = name[u] /\ current'[u] = current[u]
           /\ rowLock[name[u]] = u => rowLock'[name[u]] = u
  PROVE  RowKept'
  BY DEF RowKept

LEMMA LeaveRows ==
  ASSUME ThreadType, NEW t \in Thread, Leave(t)
  PROVE  \A u \in Thread : pc'[u] = "commit" =>
           pc[u] = "commit" /\ name'[u] = name[u] /\ current'[u] = current[u]
  BY DEF ThreadType, Leave

LEMMA RetryRows ==
  ASSUME DbType, ThreadType, RowKept, NEW t \in Thread, Retry(t), UNCHANGED <<locking, table>>
  PROVE  RowKept'
<1>1. \A u \in Thread : pc'[u] = "commit" =>
        pc[u] = "commit" /\ name'[u] = name[u] /\ current'[u] = current[u] /\ u # t
  <2>1. CASE MayRetry(t)
    BY <2>1 DEF ThreadType, Retry
  <2>2. CASE ~MayRetry(t)
    BY <2>2 DEF ThreadType, Retry, Throw, Leave
  <2> QED
    BY <2>1, <2>2
<1>2. \A u \in Thread : u # t /\ rowLock[name[u]] = u => rowLock'[name[u]] = u
  BY DEF DbType, ThreadType, Retry
<1> QED
  BY <1>1, <1>2, QuietRows

LEMMA RowsStep ==
  ASSUME TypeOK, RowKept, Next
  PROVE  RowKept'
<1> USE DEF TypeOK, db, history
<1>1. ASSUME NEW t \in Thread, NEW n \in Name, Call(t, n) PROVE RowKept'
  BY <1>1, QuietRows DEF Call, ThreadType
<1>2. ASSUME NEW t \in Thread, TakeHeld(t) \/ NoRow(t) \/ Interrupt(t) \/ Return(t)
      PROVE  RowKept'
  <2>1. Leave(t) /\ UNCHANGED db
    BY <1>2 DEF TakeHeld, NoRow, Interrupt, Return, Throw
  <2> QED
    BY <2>1, LeaveRows, QuietRows
<1>3. ASSUME NEW t \in Thread, BeginAllocate(t) \/ Read(t) PROVE RowKept'
  BY <1>3, QuietRows DEF BeginAllocate, Read, ThreadType
<1>4. ASSUME NEW t \in Thread, UpdateNoRow(t) \/ Fail(t) \/ LoseAck(t) PROVE RowKept'
  BY <1>4, RetryRows DEF UpdateNoRow, Fail, LoseAck
<1>5. ASSUME NEW t \in Thread, Update(t) PROVE RowKept'
  <2> SUFFICES ASSUME NEW u \in Thread, locking, pc'[u] = "commit"
               PROVE  rowLock'[name[u]] = u /\ table[name[u]] = current[u]
    BY <1>5 DEF Update, RowKept
  <2>1. name[t] \in Name /\ name[u] \in Name
    BY DEF ThreadType
  <2>2. CASE u = t
    BY <1>5, <2>1, <2>2 DEF Update, RowMatches, DbType
  <2>3. CASE u # t
    <3>1. pc[u] = "commit"
      BY <1>5, <2>3 DEF Update, ThreadType
    <3>2. rowLock[name[u]] = u /\ table[name[u]] = current[u] /\ u # Nobody
      BY <3>1, CountersAssumption DEF RowKept
    <3>3. name[u] # name[t]
      BY <1>5, <3>2 DEF Update
    <3> QED
      BY <1>5, <2>1, <3>2, <3>3 DEF Update, DbType
  <2> QED
    BY <2>2, <2>3
<1>6. ASSUME NEW t \in Thread, Commit(t) PROVE RowKept'
  <2> SUFFICES ASSUME NEW u \in Thread, locking, pc'[u] = "commit"
               PROVE  rowLock'[name[u]] = u /\ table'[name[u]] = current[u]
    BY <1>6 DEF Commit, RowKept
  <2>1. u # t /\ pc[u] = "commit" /\ pc[t] = "commit"
    BY <1>6 DEF Commit, ThreadType
  <2>2. rowLock[name[u]] = u /\ table[name[u]] = current[u] /\ rowLock[name[t]] = t
    BY <2>1 DEF RowKept
  <2>3. name[u] # name[t]
    BY <2>1, <2>2
  <2> QED
    BY <1>6, <2>2, <2>3 DEF Commit, DbType, ThreadType
<1>7. ASSUME NEW i \in Instance, Crash(i) PROVE RowKept'
  <2>1. \A u \in Thread : pc'[u] = "commit" =>
          Home[u] # i /\ pc[u] = "commit" /\ name'[u] = name[u] /\ current'[u] = current[u]
    BY <1>7 DEF Crash
  <2>2. \A u \in Thread : Home[u] # i /\ rowLock[name[u]] = u => rowLock'[name[u]] = u
    BY <1>7 DEF Crash, ThreadType
  <2> QED
    BY <1>7, <2>1, <2>2, QuietRows DEF Crash
<1>8. CASE AllDone
  BY <1>8 DEF AllDone, vars, RowKept
<1> QED
  BY <1>1, <1>2, <1>3, <1>4, <1>5, <1>6, <1>7, <1>8 DEF Next, Step

(* The inductive invariant.                                                *)
THEOREM Inductive == Spec => []IInv
<1>1. Init => Monitors /\ RowKept
  BY DEF Init, Monitors, RowKept, Allocating
<1>2. IInv /\ [Next]_vars => IInv'
  <2>1. IInv /\ UNCHANGED vars => Monitors' /\ RowKept'
    BY DEF IInv, vars, db, history, Monitors, RowKept
  <2>2. TypeOK /\ UNCHANGED vars => TypeOK'
    BY DEF vars, db, history, TypeOK, DbType, ThreadType, InstanceType, HistoryType
  <2> QED
    BY <2>1, <2>2, TypeStep, MonitorsStep, RowsStep DEF IInv
<1> QED
  BY <1>1, <1>2, TypeInit, PTL DEF Spec, IInv

---------------------------------------------------------------------------
(* What the steps do to the numbers an instance has reserved.              *)

LEMMA ReservedMember ==
  ASSUME NEW i \in Instance, NEW n \in Name, NEW v
  PROVE  v \in Reserved(i, n) <=>
           \/ v \in held[i][n].lo .. (held[i][n].hi - 1)
           \/ \E u \in Thread : /\ Home[u] = i /\ name[u] = n /\ pc[u] = "close"
                                /\ v \in BlockAt(n, current[u])
  BY DEF Reserved

(* An instance that reserves more of a name holds nothing of it.           *)
LEMMA NothingHeld ==
  ASSUME TypeOK, Monitors, NEW t \in Thread, pc[t] \in Allocating, NEW v
  PROVE  v \notin held[Home[t]][name[t]].lo .. (held[Home[t]][name[t]].hi - 1)
<1>1. Home[t] \in Instance /\ name[t] \in Name
  BY CountersAssumption DEF TypeOK, ThreadType
<1>2. held[Home[t]][name[t]] \in [lo : Nat, hi : Nat]
  BY <1>1 DEF TypeOK, InstanceType
<1>3. held[Home[t]][name[t]].lo >= held[Home[t]][name[t]].hi
  BY DEF Monitors
<1> QED
  BY <1>2, <1>3

(* A thread whose commit took effect has reserved its block, and that is   *)
(* all its instance has of the name.                                       *)
LEMMA ReservedAtClose ==
  ASSUME TypeOK, Monitors, NEW t \in Thread, pc[t] = "close"
  PROVE  Reserved(Home[t], name[t]) = BlockAt(name[t], current[t])
<1>1. Home[t] \in Instance /\ name[t] \in Name
  BY CountersAssumption DEF TypeOK, ThreadType
<1>2. \A u \in Thread : Home[u] = Home[t] /\ name[u] = name[t] /\ pc[u] = "close" => u = t
  BY OneAllocator DEF Allocating
<1>3. ASSUME NEW v
      PROVE  v \in Reserved(Home[t], name[t]) <=> v \in BlockAt(name[t], current[t])
  <2>1. v \notin held[Home[t]][name[t]].lo .. (held[Home[t]][name[t]].hi - 1)
    BY NothingHeld DEF Allocating
  <2> QED
    BY <1>1, <1>2, <2>1, ReservedMember
<1> QED
  BY <1>3

(* Before the commit it has none of it.                                    *)
LEMMA ReservedBefore ==
  ASSUME TypeOK, Monitors, NEW t \in Thread, pc[t] \in {"read", "update", "commit"}
  PROVE  Reserved(Home[t], name[t]) = {}
<1>1. Home[t] \in Instance /\ name[t] \in Name
  BY CountersAssumption DEF TypeOK, ThreadType
<1>2. \A u \in Thread : Home[u] = Home[t] /\ name[u] = name[t] => pc[u] # "close"
  BY OneAllocator DEF Allocating
<1>3. ASSUME NEW v PROVE v \notin Reserved(Home[t], name[t])
  <2>1. v \notin held[Home[t]][name[t]].lo .. (held[Home[t]][name[t]].hi - 1)
    BY NothingHeld DEF Allocating
  <2> QED
    BY <1>1, <1>2, <2>1, ReservedMember
<1> QED
  BY <1>3

(* While no thread of the instance is past its commit, what is reserved is *)
(* the range that is held.                                                 *)
LEMMA ReservedHeld ==
  ASSUME NEW i \in Instance, NEW n \in Name,
         \A u \in Thread : Home[u] = i /\ name[u] = n => pc[u] # "close"
  PROVE  Reserved(i, n) = held[i][n].lo .. (held[i][n].hi - 1)
<1>1. ASSUME NEW v
      PROVE  v \in Reserved(i, n) <=> v \in held[i][n].lo .. (held[i][n].hi - 1)
  BY ReservedMember
<1> QED
  BY <1>1

(* The same in the state after a step. *)
LEMMA ReservedMemberNext ==
  ASSUME NEW i \in Instance, NEW n \in Name, NEW v
  PROVE  v \in Reserved(i, n)' <=>
           \/ v \in held'[i][n].lo .. (held'[i][n].hi - 1)
           \/ \E u \in Thread : /\ Home[u] = i /\ name'[u] = n /\ pc'[u] = "close"
                                /\ v \in BlockAt(n, current'[u])
  BY DEF Reserved, BlockAt

(* The same ranges and the same committed blocks: the same reservations.   *)
LEMMA ReservedSame ==
  ASSUME NEW i \in Instance, NEW n \in Name, held'[i][n] = held[i][n],
         \A u \in Thread : Home[u] = i =>
           /\ (name'[u] = n /\ pc'[u] = "close") <=> (name[u] = n /\ pc[u] = "close")
           /\ name[u] = n /\ pc[u] = "close" => current'[u] = current[u]
  PROVE  Reserved(i, n)' = Reserved(i, n)
<1>1. ASSUME NEW v
      PROVE  v \in Reserved(i, n)' <=> v \in Reserved(i, n)
  BY ReservedMember, ReservedMemberNext
<1> QED
  BY <1>1

---------------------------------------------------------------------------
(* The refinement.  Commit is the reservation, Return and TakeHeld hand a  *)
(* number out, LoseAck and Crash lose what was reserved: so what           *)
(* AllocatorSafe shows of the allocator holds of the numbers that          *)
(* CountersSequences returns, and from Conservation their order follows.   *)

---------------------------------------------------------------------------
(* The mapped state after a step.                                          *)

LEMMA PoolSame ==
  ASSUME \A i \in Instance, n \in Name : Reserved(i, n)' = Reserved(i, n)
  PROVE  Pool' = Pool
  BY DEF Pool

LEMMA PoolUpdate ==
  ASSUME NEW i \in Instance, NEW n \in Name, NEW S, Reserved(i, n)' = S,
         \A j \in Instance, m \in Name : j # i \/ m # n => Reserved(j, m)' = Reserved(j, m)
  PROVE  Pool' = [Pool EXCEPT ![i][n] = S]
<1> DEFINE new == [Pool EXCEPT ![i][n] = S]
<1>1. Pool' = [j \in Instance |-> [m \in Name |-> Reserved(j, m)']]
  BY DEF Pool
<1>2. Pool = [j \in Instance |-> [m \in Name |-> Reserved(j, m)]]
  BY DEF Pool
<1>3. new = [j \in Instance |-> [m \in Name |-> IF j = i /\ m = n THEN S ELSE Reserved(j, m)]]
  BY <1>2
<1>4. \A j \in Instance, m \in Name :
        Reserved(j, m)' = IF j = i /\ m = n THEN S ELSE Reserved(j, m)
  OBVIOUS
<1> QED
  BY <1>1, <1>3, <1>4

(* What an observer sees of an entry of `handed`.                          *)
View(e) == [by |-> e.by, value |-> e.value]

LEMMA ViewAppend ==
  ASSUME NEW h \in Seq(Entry), NEW e \in Entry
  PROVE  [k \in DOMAIN Append(h, e) |-> View(Append(h, e)[k])]
           = Append([k \in DOMAIN h |-> View(h[k])], View(e))
<1> DEFINE R == [by : Instance, value : Nat]
           g == [k \in DOMAIN h |-> View(h[k])]
<1>1. \A x \in Entry : View(x) \in R
  BY DEF Entry, View
<1>2. Len(h) \in Nat /\ DOMAIN h = 1 .. Len(h) /\ \A k \in DOMAIN h : h[k] \in Entry
  OBVIOUS
<1>3. g \in [1 .. Len(h) -> R]
  BY <1>1, <1>2
<1> HIDE DEF R
<1>4. g \in Seq(R) /\ Len(g) = Len(h)
  BY <1>2, <1>3
<1>5. /\ DOMAIN Append(h, e) = 1 .. (Len(h) + 1)
      /\ DOMAIN Append(g, View(e)) = 1 .. (Len(h) + 1)
  BY <1>1, <1>2, <1>4
<1>6. ASSUME NEW k \in 1 .. (Len(h) + 1)
      PROVE  View(Append(h, e)[k]) = Append(g, View(e))[k]
  <2>1. CASE k = Len(h) + 1
    BY <1>1, <1>4, <2>1
  <2>2. CASE k # Len(h) + 1
    <3>1. k \in 1 .. Len(h)
      BY <1>2, <2>2
    <3>2. Append(h, e)[k] = h[k] /\ g[k] = View(h[k])
      BY <1>2, <3>1
    <3>3. Append(g, View(e))[k] = g[k]
      BY <1>1, <1>4, <3>1
    <3> QED
      BY <3>2, <3>3
  <2> QED
    BY <2>1, <2>2
<1>7. Append(g, View(e)) = [k \in 1 .. (Len(h) + 1) |-> Append(g, View(e))[k]]
  BY <1>1, <1>4, <1>5
<1> HIDE DEF g
<1>8. [k \in DOMAIN Append(h, e) |-> View(Append(h, e)[k])] = Append(g, View(e))
  BY <1>5, <1>6, <1>7
<1> QED
  BY <1>8 DEF g

LEMMA ReturnedAppend ==
  ASSUME TypeOK, NEW t \in Thread, NEW v \in Nat, HandOut(t, v)
  PROVE  Returned' = [Returned EXCEPT ![name[t]] = Append(@, [by |-> Home[t], value |-> v])]
<1> DEFINE e == [by |-> Home[t], value |-> v, since |-> since[t]]
           Shown(h) == [k \in DOMAIN h |-> View(h[k])]
<1>1. Home[t] \in Instance /\ name[t] \in Name /\ since[t] \in Nat /\ handed \in [Name -> Seq(Entry)]
  BY CountersAssumption DEF TypeOK, ThreadType, HistoryType
<1>2. e \in Entry /\ View(e) = [by |-> Home[t], value |-> v]
  BY <1>1 DEF Entry, View
<1>3. handed' = [handed EXCEPT ![name[t]] = Append(handed[name[t]], e)]
  BY DEF HandOut
<1>4. Returned = [n \in Name |-> Shown(handed[n])] /\ Returned' = [n \in Name |-> Shown(handed'[n])]
  BY DEF Returned, View
<1> HIDE DEF e
<1>5. Shown(Append(handed[name[t]], e)) = Append(Shown(handed[name[t]]), View(e))
  BY <1>1, <1>2, ViewAppend
<1> HIDE DEF Shown
<1> QED
  BY <1>1, <1>2, <1>3, <1>4, <1>5

---------------------------------------------------------------------------
(* The steps, mapped.                                                      *)

LEMMA StutterMap ==
  ASSUME UNCHANGED <<table, handed, lost>>,
         \A i \in Instance, n \in Name : Reserved(i, n)' = Reserved(i, n)
  PROVE  UNCHANGED Allocator!vars
<1>1. Pool' = Pool
  BY PoolSame
<1>2. Returned' = Returned
  BY DEF Returned
<1> QED
  BY <1>1, <1>2 DEF Allocator!vars

(* What a step of t leaves of the others, and of t itself. *)
OnlyMoves(t) ==
  /\ \A u \in Thread : u # t =>
       pc'[u] = pc[u] /\ name'[u] = name[u] /\ current'[u] = current[u]
  /\ pc'[t] # "close"

LEMMA LeaveMoves ==
  ASSUME ThreadType, NEW t \in Thread, Leave(t)
  PROVE  OnlyMoves(t)
  BY DEF ThreadType, Leave, OnlyMoves

LEMMA RetryMoves ==
  ASSUME ThreadType, NEW t \in Thread, Retry(t)
  PROVE  OnlyMoves(t)
<1>1. CASE MayRetry(t)
  BY <1>1 DEF ThreadType, Retry, OnlyMoves
<1>2. CASE ~MayRetry(t)
  BY <1>2, LeaveMoves DEF Retry, Throw
<1> QED
  BY <1>1, <1>2

(* A step that is not of a committed reservation, and changes no range:    *)
(* nothing is reserved and nothing given up.                               *)
LEMMA MovesQuietly ==
  ASSUME NEW t \in Thread, OnlyMoves(t), pc[t] # "close", held' = held,
         NEW i \in Instance, NEW n \in Name
  PROVE  Reserved(i, n)' = Reserved(i, n)
  BY ReservedSame DEF OnlyMoves

(* What the step of t may change is what is reserved of its own name.      *)
LEMMA MovesElsewhere ==
  ASSUME NEW t \in Thread, OnlyMoves(t),
         NEW i \in Instance, NEW n \in Name, i # Home[t] \/ n # name[t],
         held'[i][n] = held[i][n]
  PROVE  Reserved(i, n)' = Reserved(i, n)
  BY ReservedSame DEF OnlyMoves

LEMMA CommitMap ==
  ASSUME TypeOK, Monitors, RowKept, NEW t \in Thread, Commit(t),
         NEW i \in Instance, NEW n \in Name, i = Home[t], n = name[t]
  PROVE  Allocator!Reserve(i, n)
<1>2. current[t] = table[n]
  BY DEF Commit, RowKept
<1>3. Reserved(i, n) = {}
  BY ReservedBefore DEF Commit
<1>4. /\ pc[t] = "commit" /\ pc'[t] = "close"
      /\ \A u \in Thread : u # t => pc'[u] = pc[u]
      /\ UNCHANGED <<name, current, held>>
  BY DEF Commit, TypeOK, ThreadType
<1>5. Reserved(i, n)' = BlockAt(n, table[n])
  <2>1. \A u \in Thread : Home[u] = i /\ name[u] = n /\ u # t => pc[u] # "close"
    BY <1>4, OneAllocator DEF Allocating
  <2>2. ASSUME NEW v PROVE v \in Reserved(i, n)' <=> v \in BlockAt(n, table[n])
    <3>1. v \notin held[i][n].lo .. (held[i][n].hi - 1)
      BY <1>4, NothingHeld DEF Allocating
    <3> QED
      BY <1>2, <1>4, <2>1, <3>1, ReservedMemberNext
  <2> QED
    BY <2>2
<1>6. ASSUME NEW j \in Instance, NEW m \in Name, j # i \/ m # n
      PROVE  Reserved(j, m)' = Reserved(j, m)
  BY <1>4, <1>6, ReservedSame
<1>7. Pool' = [Pool EXCEPT ![i][n] = BlockAt(n, table[n])]
  BY <1>5, <1>6, PoolUpdate
<1>8. table' = [table EXCEPT ![n] = table[n] + Block[n]] /\ lost' = lost /\ Returned' = Returned
  BY <1>2 DEF Commit, history, Returned
<1>9. Pool[i][n] = {}
  BY <1>3 DEF Pool
<1> QED
  BY <1>7, <1>8, <1>9 DEF Allocator!Reserve, BlockAt

LEMMA ReturnMap ==
  ASSUME TypeOK, Monitors, NEW t \in Thread, Return(t),
         NEW i \in Instance, NEW n \in Name, NEW v \in Nat,
         i = Home[t], n = name[t], v = current[t]
  PROVE  Allocator!Hand(i, n)
<1>1. Block[n] \in Nat \ {0}
  BY CountersAssumption
<1>2. Reserved(i, n) = BlockAt(n, v)
  BY ReservedAtClose DEF Return
<1>3. OnlyMoves(t) /\ pc[t] = "close"
  BY LeaveMoves DEF Return, TypeOK
<1>4. held' = [held EXCEPT ![i][n] = RangeAfter(n, v)]
  BY DEF Return
<1>5. Reserved(i, n)' = Reserved(i, n) \ {v}
  <2>1. \A u \in Thread : Home[u] = i /\ name'[u] = n => pc'[u] # "close"
    BY <1>3, OneAllocator DEF OnlyMoves, Allocating
  <2>2. held'[i][n] = [lo |-> v + 1, hi |-> v + Block[n]]
    BY <1>1, <1>4 DEF TypeOK, InstanceType, RangeAfter
  <2>3. ASSUME NEW w PROVE w \in Reserved(i, n)' <=> w \in BlockAt(n, v) \ {v}
    <3>1. w \in Reserved(i, n)' <=> w \in (v + 1) .. (v + Block[n] - 1)
      BY <1>1, <2>1, <2>2, ReservedMemberNext
    <3> QED
      BY <1>1, <3>1 DEF BlockAt
  <2> QED
    BY <1>2, <2>3
<1>6. ASSUME NEW j \in Instance, NEW m \in Name, j # i \/ m # n
      PROVE  Reserved(j, m)' = Reserved(j, m)
  <2>1. held'[j][m] = held[j][m]
    BY <1>1, <1>4, <1>6 DEF TypeOK, InstanceType
  <2> QED
    BY <1>3, <1>6, <2>1, MovesElsewhere
<1>7. Pool' = [Pool EXCEPT ![i][n] = Reserved(i, n) \ {v}]
  <2>1. PICK S : S = Reserved(i, n) \ {v}
    OBVIOUS
  <2>2. Reserved(i, n)' = S
    BY <1>5, <2>1
  <2>3. Pool' = [Pool EXCEPT ![i][n] = S]
    BY <1>6, <2>2, PoolUpdate
  <2> QED
    BY <2>1, <2>3
<1>8. Returned' = [Returned EXCEPT ![n] = Append(@, [by |-> i, value |-> v])]
  BY <1>1, ReturnedAppend DEF Return
<1>9. Pool[i][n] = Reserved(i, n)
  BY <1>1 DEF Pool
<1>10. v \in Reserved(i, n) /\ \A w \in Reserved(i, n) : v <= w
  BY <1>1, <1>2 DEF BlockAt
<1>11. table' = table /\ lost' = lost
  BY DEF Return, db
<1> QED
  BY <1>7, <1>8, <1>9, <1>10, <1>11 DEF Allocator!Hand

LEMMA TakeHeldMap ==
  ASSUME TypeOK, Monitors, NEW t \in Thread, TakeHeld(t),
         NEW i \in Instance, NEW n \in Name, i = Home[t], n = name[t],
         NEW v \in Nat, NEW hi \in Nat, v = held[i][n].lo, hi = held[i][n].hi
  PROVE  Allocator!Hand(i, n)
<1>1. held[i][n] \in [lo : Nat, hi : Nat] /\ v < hi
  BY DEF TypeOK, InstanceType, TakeHeld
<1>2. \A u \in Thread : Home[u] = i /\ name[u] = n => pc[u] # "close"
  BY CountersAssumption DEF TakeHeld, MayEnter, Monitor, Monitors, Allocating
<1>3. Reserved(i, n) = v .. (hi - 1)
  BY <1>1, <1>2, ReservedHeld
<1>4. OnlyMoves(t) /\ pc[t] # "close"
  BY LeaveMoves DEF TakeHeld, MayEnter, TypeOK
<1>5. held' = [held EXCEPT ![i][n].lo = v + 1]
  BY DEF TakeHeld
<1>6. Reserved(i, n)' = Reserved(i, n) \ {v}
  <2>1. \A u \in Thread : Home[u] = i /\ name'[u] = n => pc'[u] # "close"
    BY <1>2, <1>4 DEF OnlyMoves
  <2>2. held'[i][n].lo = v + 1 /\ held'[i][n].hi = hi
    BY <1>1, <1>5 DEF TypeOK, InstanceType
  <2>3. ASSUME NEW w PROVE w \in Reserved(i, n)' <=> w \in (v .. (hi - 1)) \ {v}
    <3>1. w \in Reserved(i, n)' <=> w \in (v + 1) .. (hi - 1)
      BY <1>1, <2>1, <2>2, ReservedMemberNext
    <3> QED
      BY <1>1, <3>1
  <2> QED
    BY <1>3, <2>3
<1>7. ASSUME NEW j \in Instance, NEW m \in Name, j # i \/ m # n
      PROVE  Reserved(j, m)' = Reserved(j, m)
  <2>1. held'[j][m] = held[j][m]
    BY <1>1, <1>5, <1>7 DEF TypeOK, InstanceType
  <2> QED
    BY <1>4, <1>7, <2>1, MovesElsewhere
<1>8. Pool' = [Pool EXCEPT ![i][n] = Reserved(i, n) \ {v}]
  <2>1. PICK S : S = Reserved(i, n) \ {v}
    OBVIOUS
  <2>2. Reserved(i, n)' = S
    BY <1>6, <2>1
  <2>3. Pool' = [Pool EXCEPT ![i][n] = S]
    BY <1>7, <2>2, PoolUpdate
  <2> QED
    BY <2>1, <2>3
<1>9. Returned' = [Returned EXCEPT ![n] = Append(@, [by |-> i, value |-> v])]
  BY <1>1, ReturnedAppend DEF TakeHeld
<1>10. Pool[i][n] = Reserved(i, n)
  BY <1>1 DEF Pool
<1>11. v \in Reserved(i, n) /\ \A w \in Reserved(i, n) : v <= w
  BY <1>1, <1>3
<1>12. table' = table /\ lost' = lost
  BY DEF TakeHeld, db
<1> QED
  BY <1>8, <1>9, <1>10, <1>11, <1>12 DEF Allocator!Hand

LEMMA LoseAckMap ==
  ASSUME TypeOK, Monitors, NEW t \in Thread, LoseAck(t),
         NEW i \in Instance, NEW n \in Name, i = Home[t], n = name[t]
  PROVE  Allocator!Lose(i, {n})
<1>1. OnlyMoves(t) /\ pc[t] = "close" /\ held' = held
  BY RetryMoves DEF LoseAck, TypeOK
<1>2. Reserved(i, n) = BlockAt(n, current[t])
  BY <1>1, ReservedAtClose
<1>3. Reserved(i, n)' = {}
  <2>1. \A u \in Thread : Home[u] = i /\ name'[u] = n => pc'[u] # "close"
    BY <1>1, OneAllocator DEF OnlyMoves, Allocating
  <2>2. ASSUME NEW w PROVE w \notin Reserved(i, n)'
    <3>1. w \notin held[i][n].lo .. (held[i][n].hi - 1)
      BY <1>1, NothingHeld DEF Allocating
    <3> QED
      BY <1>1, <2>1, <3>1, ReservedMemberNext
  <2> QED
    BY <2>2
<1>4. ASSUME NEW j \in Instance, NEW m \in Name, j # i \/ m # n
      PROVE  Reserved(j, m)' = Reserved(j, m)
  BY <1>1, <1>4, MovesElsewhere
<1>5. Pool' = [Pool EXCEPT ![i][n] = {}]
  <2>1. PICK S : S = {}
    OBVIOUS
  <2>2. Reserved(i, n)' = S
    BY <1>3, <2>1
  <2>3. Pool' = [Pool EXCEPT ![i][n] = S]
    BY <1>4, <2>2, PoolUpdate
  <2> QED
    BY <2>1, <2>3
<1>6. /\ lost' = [lost EXCEPT ![n] = lost[n] \cup BlockAt(n, current[t])]
      /\ lost \in [Name -> SUBSET Nat]
      /\ table' = table /\ handed' = handed
  BY DEF LoseAck, TypeOK, HistoryType
<1>7. Pool[i][n] = BlockAt(n, current[t])
  BY <1>2 DEF Pool
<1>8. lost' = [m \in Name |-> IF m \in {n} THEN lost[m] \cup Pool[i][m] ELSE lost[m]]
  BY <1>6, <1>7
<1>9. Pool' = [Pool EXCEPT ![i] = [m \in Name |-> IF m \in {n} THEN {} ELSE Pool[i][m]]]
  BY <1>5 DEF Pool
<1>10. Returned' = Returned
  BY <1>6 DEF Returned
<1> QED
  BY <1>6, <1>8, <1>9, <1>10 DEF Allocator!Lose

LEMMA CrashMap ==
  ASSUME TypeOK, NEW i \in Instance, Crash(i)
  PROVE  Allocator!Lose(i, Name)
<1>1. /\ \A u \in Thread : Home[u] = i => pc'[u] = "idle"
      /\ \A u \in Thread : Home[u] # i =>
           pc'[u] = pc[u] /\ name'[u] = name[u] /\ current'[u] = current[u]
      /\ held' = [held EXCEPT ![i] = [n \in Name |-> Empty]]
      /\ lost' = [n \in Name |-> lost[n] \cup Reserved(i, n)]
      /\ table' = table /\ handed' = handed
  BY DEF Crash
<1>2. ASSUME NEW n \in Name PROVE Reserved(i, n)' = {}
  <2>1. held'[i][n].lo = 0 /\ held'[i][n].hi = 0
    BY <1>1 DEF TypeOK, InstanceType, Empty
  <2>2. ASSUME NEW w PROVE w \notin Reserved(i, n)'
    BY <1>1, <2>1, ReservedMemberNext
  <2> QED
    BY <2>2
<1>3. ASSUME NEW j \in Instance, NEW n \in Name, j # i
      PROVE  Reserved(j, n)' = Reserved(j, n)
  <2>1. held'[j][n] = held[j][n]
    BY <1>1, <1>3 DEF TypeOK, InstanceType
  <2> QED
    BY <1>1, <1>3, <2>1, ReservedSame
<1>4. Pool' = [Pool EXCEPT ![i] = [n \in Name |-> IF n \in Name THEN {} ELSE Pool[i][n]]]
  <2>1. Pool' = [j \in Instance |-> [n \in Name |-> Reserved(j, n)']]
    BY DEF Pool
  <2>2. Pool' = [j \in Instance |-> [n \in Name |-> IF j = i THEN {} ELSE Reserved(j, n)]]
    BY <1>2, <1>3, <2>1
  <2>3. \A j \in Instance : j # i => Pool'[j] = Pool[j]
    BY <2>2 DEF Pool
  <2> QED
    BY <2>2, <2>3 DEF Pool
<1>5. lost' = [n \in Name |-> IF n \in Name THEN lost[n] \cup Pool[i][n] ELSE lost[n]]
  BY <1>1 DEF Pool
<1>6. Returned' = Returned
  BY <1>1 DEF Returned
<1> QED
  BY <1>1, <1>4, <1>5, <1>6 DEF Allocator!Lose

(* Every other step is none of the allocator's. *)
LEMMA QuietMap ==
  ASSUME TypeOK, NEW t \in Thread,
         \/ BeginAllocate(t) \/ Read(t) \/ NoRow(t) \/ Interrupt(t)
         \/ Update(t) \/ UpdateNoRow(t) \/ Fail(t)
         \/ \E n \in Name : Call(t, n)
  PROVE  UNCHANGED Allocator!vars
<1>1. UNCHANGED <<table, handed, lost, held>> /\ pc[t] # "close" /\ OnlyMoves(t)
  <2>1. CASE \E n \in Name : Call(t, n)
    BY <2>1 DEF Call, OnlyMoves, TypeOK, ThreadType, db
  <2>2. CASE BeginAllocate(t) \/ Read(t) \/ Update(t)
    BY <2>2 DEF BeginAllocate, Read, Update, MayEnter, OnlyMoves, TypeOK, ThreadType, db, history
  <2>3. CASE NoRow(t) \/ Interrupt(t)
    BY <2>3, LeaveMoves DEF NoRow, Interrupt, Throw, TypeOK, db
  <2>4. CASE UpdateNoRow(t) \/ Fail(t)
    BY <2>4, RetryMoves DEF UpdateNoRow, Fail, TypeOK
  <2> QED
    BY <2>1, <2>2, <2>3, <2>4
<1>2. \A i \in Instance, n \in Name : Reserved(i, n)' = Reserved(i, n)
  BY <1>1, MovesQuietly
<1> QED
  BY <1>1, <1>2, StutterMap

LEMMA StepMap ==
  ASSUME IInv, [Next]_vars
  PROVE  [Allocator!Next]_(Allocator!vars)
<1> USE DEF IInv
<1>1. ASSUME NEW t \in Thread, Step(t) \/ \E n \in Name : Call(t, n)
      PROVE  Allocator!Next \/ UNCHANGED Allocator!vars
  <2>1. PICK i \in Instance, n \in Name : i = Home[t] /\ n = name[t]
    BY CountersAssumption DEF TypeOK, ThreadType
  <2>2. PICK v \in Nat, lo \in Nat, hi \in Nat :
          v = current[t] /\ lo = held[i][n].lo /\ hi = held[i][n].hi
    BY DEF TypeOK, ThreadType, InstanceType
  <2>3. CASE Commit(t)
    BY <2>1, <2>3, CommitMap DEF Allocator!Next
  <2>4. CASE Return(t)
    BY <2>1, <2>2, <2>4, ReturnMap DEF Allocator!Next
  <2>5. CASE TakeHeld(t)
    BY <2>1, <2>2, <2>5, TakeHeldMap DEF Allocator!Next
  <2>6. CASE LoseAck(t)
    <3>1. Allocator!Lose(i, {n}) /\ {n} \in SUBSET Name
      BY <2>1, <2>6, LoseAckMap
    <3> QED
      BY <3>1 DEF Allocator!Next
  <2> QED
    BY <1>1, <2>3, <2>4, <2>5, <2>6, QuietMap DEF Step
<1>2. ASSUME NEW i \in Instance, Crash(i)
      PROVE  Allocator!Next
  <2>1. Allocator!Lose(i, Name) /\ Name \in SUBSET Name
    BY <1>2, CrashMap
  <2> QED
    BY <2>1 DEF Allocator!Next
<1>3. CASE UNCHANGED vars
  <2>1. UNCHANGED <<table, handed, lost, held, pc, name, current>>
    BY <1>3 DEF vars, db, history
  <2>2. \A i \in Instance, n \in Name : Reserved(i, n)' = Reserved(i, n)
    BY <2>1, ReservedSame
  <2> QED
    BY <2>1, <2>2, StutterMap
<1> QED
  BY <1>1, <1>2, <1>3 DEF Next, AllDone

LEMMA InitMap == Init => Allocator!Init
<1> SUFFICES ASSUME Init PROVE Allocator!Init
  OBVIOUS
<1>1. ASSUME NEW i \in Instance, NEW n \in Name PROVE Reserved(i, n) = {}
  <2>1. held[i][n].lo = 0 /\ held[i][n].hi = 0 /\ \A u \in Thread : pc[u] = "idle"
    BY DEF Init, Empty
  <2>2. ASSUME NEW w PROVE w \notin Reserved(i, n)
    BY <2>1, ReservedMember
  <2> QED
    BY <2>2
<1>2. Pool = [i \in Instance |-> [n \in Name |-> {}]]
  BY <1>1 DEF Pool
<1>3. Returned = [n \in Name |-> <<>>]
  BY DEF Init, Returned
<1> QED
  BY <1>2, <1>3 DEF Init, Allocator!Init

---------------------------------------------------------------------------
(* CountersSequences implements the allocator: to an observer a block is   *)
(* reserved in one step, whatever its threads, its database and the        *)
(* crashes of its processes do in between (CountersSequences.java:61-142). *)
THEOREM Refinement == Spec => ImplementsAllocator
<1>1. IInv /\ [Next]_vars => [Allocator!Next]_(Allocator!vars)
  BY StepMap
<1> QED
  BY <1>1, InitMap, Inductive, PTL DEF Spec, ImplementsAllocator, Allocator!Spec

---------------------------------------------------------------------------
(* The allocator hands out no number twice and loses track of none:        *)
(* Allocator!Safe is inductive as it stands.                               *)

(* What appending one number to Returned[n] does to the numbers returned.  *)
LEMMA AppendValue ==
  ASSUME Allocator!TypeOK, NEW n \in Name, NEW i \in Instance, NEW v \in Nat,
         Returned' = [Returned EXCEPT ![n] = Append(@, [by |-> i, value |-> v])]
  PROVE  /\ Returned' \in [Name -> Seq([by : Instance, value : Nat])]
         /\ Allocator!Values(n)' = Allocator!Values(n) \cup {v}
         /\ \A m \in Name : m # n => Allocator!Values(m)' = Allocator!Values(m)
         /\ v \notin Allocator!Values(n) /\ Allocator!Unique => Allocator!Unique'
<1> DEFINE e == [by |-> i, value |-> v]
           s == Returned[n]
<1>1. s \in Seq([by : Instance, value : Nat]) /\ e \in [by : Instance, value : Nat]
  BY DEF Allocator!TypeOK
<1>2. Returned'[n] = Append(s, e)
  BY DEF Allocator!TypeOK
<1>3. \A m \in Name : m # n => Returned'[m] = Returned[m]
  BY DEF Allocator!TypeOK
<1>4. /\ DOMAIN s = 1 .. Len(s) /\ Len(s) \in Nat
      /\ DOMAIN Append(s, e) = 1 .. (Len(s) + 1)
      /\ \A k \in 1 .. Len(s) : Append(s, e)[k] = s[k]
      /\ Append(s, e)[Len(s) + 1] = e
  BY <1>1
<1>5. Returned' \in [Name -> Seq([by : Instance, value : Nat])]
  <2>1. Append(s, e) \in Seq([by : Instance, value : Nat])
    BY <1>1
  <2> HIDE DEF e, s
  <2>2. Returned' = [Returned EXCEPT ![n] = Append(s, e)]
    BY DEF s, e
  <2> QED
    BY <2>1, <2>2 DEF Allocator!TypeOK
<1>6. Allocator!Values(n)' = Allocator!Values(n) \cup {v}
  BY <1>2, <1>4 DEF Allocator!Values
<1>7. \A m \in Name : m # n => Allocator!Values(m)' = Allocator!Values(m)
  BY <1>3 DEF Allocator!Values
<1>8. ASSUME v \notin Allocator!Values(n), Allocator!Unique PROVE Allocator!Unique'
  <2> SUFFICES ASSUME NEW m \in Name, NEW j \in DOMAIN Returned'[m],
                      NEW k \in DOMAIN Returned'[m], j # k
               PROVE  Returned'[m][j].value # Returned'[m][k].value
    BY DEF Allocator!Unique
  <2>1. CASE m # n
    BY <2>1, <1>3, <1>8 DEF Allocator!Unique
  <2>2. CASE m = n
    <3>1. \A q \in 1 .. Len(s) : s[q].value # v
      BY <1>8, <1>4 DEF Allocator!Values
    <3>2. \A p, q \in 1 .. Len(s) : p # q => s[p].value # s[q].value
      BY <1>8, <1>4 DEF Allocator!Unique
    <3> QED
      BY <2>2, <3>1, <3>2, <1>2, <1>4
  <2> QED
    BY <2>1, <2>2
<1> QED
  BY <1>5, <1>6, <1>7, <1>8

LEMMA ReserveSafe ==
  ASSUME Allocator!Parameters, Allocator!Safe, NEW i \in Instance, NEW n \in Name, Allocator!Reserve(i, n)
  PROVE  Allocator!Safe'
<1> USE DEF Allocator!Safe, Allocator!Reserve, Allocator!Parameters
<1> DEFINE B == table[n] .. (table[n] + Block[n] - 1)
<1>1. /\ Allocator!TypeOK' /\ Allocator!Unique'
      /\ \A m \in Name : Allocator!Values(m)' = Allocator!Values(m) /\ lost'[m] = lost[m]
  BY DEF Allocator!TypeOK, Allocator!Unique, Allocator!Values
<1>2. /\ Pool'[i][n] = B /\ Pool[i][n] = {}
      /\ \A j \in Instance, m \in Name : (j # i \/ m # n) => Pool'[j][m] = Pool[j][m]
  BY DEF Allocator!TypeOK
<1>3. /\ table'[n] = table[n] + Block[n]
      /\ \A m \in Name : m # n => table'[m] = table[m]
      /\ table[n] \in Nat /\ Block[n] \in Nat /\ Block[n] > 0 /\ Start[n] \in Nat
  BY DEF Allocator!TypeOK
<1>4. \A x \in B : /\ x \notin Allocator!Values(n) /\ x \notin lost[n]
                   /\ \A j \in Instance : x \notin Pool[j][n]
  BY <1>3 DEF Allocator!Accounted, Allocator!Held
<1>5. Allocator!Accounted'
  <2> SUFFICES ASSUME NEW m \in Name
               PROVE  /\ Start[m] <= table'[m]
                      /\ Allocator!Values(m)' \cup lost'[m] \cup Allocator!Held(m)' = Start[m] .. (table'[m] - 1)
    BY DEF Allocator!Accounted
  <2>1. CASE m # n
    <3>1. Allocator!Held(m)' = Allocator!Held(m)
      BY <2>1, <1>2 DEF Allocator!Held
    <3> QED
      BY <2>1, <3>1, <1>1, <1>3 DEF Allocator!Accounted
  <2>2. CASE m = n
    <3>1. Allocator!Held(n)' = Allocator!Held(n) \cup B
      <4>1. ASSUME NEW x PROVE x \in Allocator!Held(n)' <=> x \in Allocator!Held(n) \/ x \in B
        <5>1. x \in Allocator!Held(n)' <=> \E j \in Instance : x \in Pool'[j][n]
          BY DEF Allocator!Held
        <5>2. x \in Allocator!Held(n) <=> \E j \in Instance : x \in Pool[j][n]
          BY DEF Allocator!Held
        <5>3. (\E j \in Instance : x \in Pool'[j][n])
                <=> (\E j \in Instance : x \in Pool[j][n]) \/ x \in B
          <6> HIDE DEF B, Allocator!Reserve, Allocator!Safe
          <6> QED BY <1>2
        <5> QED
          BY <5>1, <5>2, <5>3
      <4> QED
        BY <4>1
    <3>2. Start[n] .. (table'[n] - 1) = (Start[n] .. (table[n] - 1)) \cup B
      BY <1>3 DEF Allocator!Accounted
    <3> QED
      BY <2>2, <3>1, <3>2, <1>1, <1>3 DEF Allocator!Accounted
  <2> QED
    BY <2>1, <2>2
<1>6. Allocator!Disjoint'
  BY <1>1, <1>2, <1>4 DEF Allocator!Disjoint
<1> QED
  BY <1>1, <1>5, <1>6

LEMMA HandSafe ==
  ASSUME Allocator!Safe, NEW i \in Instance, NEW n \in Name, Allocator!Hand(i, n)
  PROVE  Allocator!Safe'
<1> USE DEF Allocator!Safe
<1>1. PICK v \in Pool[i][n] :
        /\ Pool' = [Pool EXCEPT ![i][n] = @ \ {v}]
        /\ Returned' = [Returned EXCEPT ![n] = Append(@, [by |-> i, value |-> v])]
        /\ UNCHANGED <<table, lost>>
  BY DEF Allocator!Hand
<1>2. v \in Nat
  BY DEF Allocator!TypeOK
<1>3. v \notin Allocator!Values(n) /\ v \notin lost[n]
      /\ \A j \in Instance \ {i} : v \notin Pool[j][n]
  BY DEF Allocator!Disjoint
<1>4. /\ Returned' \in [Name -> Seq([by : Instance, value : Nat])] /\ Allocator!Unique'
      /\ Allocator!Values(n)' = Allocator!Values(n) \cup {v}
      /\ \A m \in Name : m # n => Allocator!Values(m)' = Allocator!Values(m)
  BY <1>1, <1>2, <1>3, AppendValue
<1>5. /\ Pool'[i][n] = Pool[i][n] \ {v}
      /\ \A j \in Instance, m \in Name : (j # i \/ m # n) => Pool'[j][m] = Pool[j][m]
  BY <1>1 DEF Allocator!TypeOK
<1>6. Allocator!TypeOK'
  BY <1>1, <1>4 DEF Allocator!TypeOK
<1>7. Allocator!Accounted'
  <2> SUFFICES ASSUME NEW m \in Name
               PROVE  Allocator!Values(m)' \cup lost[m] \cup Allocator!Held(m)' = Allocator!Values(m) \cup lost[m] \cup Allocator!Held(m)
    BY <1>1 DEF Allocator!Accounted
  <2>1. CASE m # n
    <3>1. Allocator!Held(m)' = Allocator!Held(m)
      BY <2>1, <1>5 DEF Allocator!Held
    <3> QED
      BY <2>1, <3>1, <1>4
  <2>2. CASE m = n
    <3>1. Allocator!Held(n) = Allocator!Held(n)' \cup {v}
      BY <1>5 DEF Allocator!Held
    <3> QED
      BY <2>2, <3>1, <1>4
  <2> QED
    BY <2>1, <2>2
<1>8. Allocator!Disjoint'
  BY <1>1, <1>3, <1>4, <1>5 DEF Allocator!Disjoint
<1> QED
  BY <1>4, <1>6, <1>7, <1>8

LEMMA LoseSafe ==
  ASSUME Allocator!Safe, NEW i \in Instance, NEW names \in SUBSET Name, Allocator!Lose(i, names)
  PROVE  Allocator!Safe'
<1> USE DEF Allocator!Safe, Allocator!Lose
<1>1. /\ Allocator!Unique' /\ table' = table
      /\ \A m \in Name : Allocator!Values(m)' = Allocator!Values(m)
  BY DEF Allocator!Unique, Allocator!Values
<1>2. /\ \A m \in names : Pool'[i][m] = {} /\ lost'[m] = lost[m] \cup Pool[i][m]
      /\ \A m \in Name \ names : Pool'[i][m] = Pool[i][m] /\ lost'[m] = lost[m]
      /\ \A j \in Instance \ {i}, m \in Name : Pool'[j][m] = Pool[j][m]
  BY DEF Allocator!TypeOK
<1>3. Allocator!TypeOK'
  BY DEF Allocator!TypeOK
<1>4. Allocator!Accounted'
  <2> SUFFICES ASSUME NEW m \in Name
               PROVE  lost'[m] \cup Allocator!Held(m)' = lost[m] \cup Allocator!Held(m)
    BY <1>1 DEF Allocator!Accounted
  <2> QED
    BY <1>2 DEF Allocator!Held
<1>5. Allocator!Disjoint'
  <2> SUFFICES ASSUME NEW m \in Name
               PROVE  /\ Allocator!Values(m) \cap lost'[m] = {}
                      /\ \A j \in Instance :
                           /\ Pool'[j][m] \cap (Allocator!Values(m) \cup lost'[m]) = {}
                           /\ \A k \in Instance \ {j} : Pool'[j][m] \cap Pool'[k][m] = {}
    BY <1>1 DEF Allocator!Disjoint
  <2>1. \A j \in Instance : Pool'[j][m] \subseteq Pool[j][m]
    BY <1>2
  <2> DEFINE V == Allocator!Values(m)
  <2>2. CASE m \in names
    <3>1. /\ V \cap lost[m] = {}
          /\ \A j \in Instance : /\ Pool[j][m] \cap (V \cup lost[m]) = {}
                                /\ \A k \in Instance \ {j} : Pool[j][m] \cap Pool[k][m] = {}
      BY DEF Allocator!Disjoint
    <3>2. lost'[m] = lost[m] \cup Pool[i][m] /\ Pool'[i][m] = {}
          /\ \A j \in Instance \ {i} : Pool'[j][m] = Pool[j][m]
      BY <2>2, <1>2
    <3> HIDE DEF V, Allocator!Safe, Allocator!Lose
    <3>3. V \cap lost'[m] = {}
      BY <3>1, <3>2
    <3>4. \A j \in Instance : Pool'[j][m] \cap (V \cup lost'[m]) = {}
      BY <3>1, <3>2
    <3>5. \A j \in Instance : \A k \in Instance \ {j} : Pool'[j][m] \cap Pool'[k][m] = {}
      BY <2>1, <3>1
    <3> QED
      BY <3>3, <3>4, <3>5 DEF V
  <2>3. CASE m \notin names
    BY <2>1, <2>3, <1>2 DEF Allocator!Disjoint
  <2> QED
    BY <2>2, <2>3
<1> QED
  BY <1>1, <1>3, <1>4, <1>5

(* Nothing is handed out twice and every number is accounted for.          *)
THEOREM AllocatorSafe ==
  ASSUME Allocator!Parameters PROVE Allocator!Spec => []Allocator!Safe
<1>1. Allocator!Init => Allocator!Safe
  BY DEF Allocator!Parameters, Allocator!Init, Allocator!Safe, Allocator!TypeOK, Allocator!Unique,
         Allocator!Accounted, Allocator!Disjoint, Allocator!Values, Allocator!Held
<1>2. Allocator!Safe /\ [Allocator!Next]_(Allocator!vars) => Allocator!Safe'
  <2> SUFFICES ASSUME Allocator!Safe, [Allocator!Next]_(Allocator!vars) PROVE Allocator!Safe'
    OBVIOUS
  <2>1. CASE UNCHANGED Allocator!vars
    <3>1. table' = table /\ Pool' = Pool /\ Returned' = Returned /\ lost' = lost
      BY <2>1 DEF Allocator!vars
    <3>2. \A n \in Name : Allocator!Values(n)' = Allocator!Values(n) /\ Allocator!Held(n)' = Allocator!Held(n)
      BY <3>1 DEF Allocator!Values, Allocator!Held
    <3>3. Allocator!TypeOK' /\ Allocator!Unique'
      BY <3>1 DEF Allocator!Safe, Allocator!TypeOK, Allocator!Unique
    <3>4. Allocator!Accounted' /\ Allocator!Disjoint'
      BY <3>1, <3>2 DEF Allocator!Safe, Allocator!Accounted, Allocator!Disjoint
    <3> QED
      BY <3>3, <3>4 DEF Allocator!Safe
  <2>2. ASSUME NEW i \in Instance, NEW n \in Name, Allocator!Reserve(i, n) \/ Allocator!Hand(i, n)
        PROVE  Allocator!Safe'
    BY <2>2, ReserveSafe, HandSafe
  <2>3. ASSUME NEW i \in Instance, NEW names \in SUBSET Name, Allocator!Lose(i, names)
        PROVE  Allocator!Safe'
    BY <2>3, LoseSafe
  <2> QED
    BY <2>1, <2>2, <2>3 DEF Allocator!Next
<1> QED
  BY <1>1, <1>2, PTL DEF Allocator!Spec

LEMMA AllocatorParameters == Allocator!Parameters
  BY CountersAssumption DEF Allocator!Parameters

(* What the allocator's invariant says of the mapped state. *)
LEMMA SafeHere ==
  ASSUME TypeOK, Allocator!Safe
  PROVE  NoDuplicate /\ Conservation
<1> USE DEF Allocator!Safe
<1>1. ASSUME NEW n \in Name
      PROVE  /\ DOMAIN Returned[n] = DOMAIN handed[n]
             /\ \A k \in DOMAIN handed[n] : Returned[n][k].value = handed[n][k].value
  BY DEF Returned
<1>2. \A n \in Name : Allocator!Values(n) = Values(n)
  BY <1>1 DEF Allocator!Values, Values
<1>3. ASSUME NEW i \in Instance, NEW n \in Name PROVE Pool[i][n] = Reserved(i, n)
  BY DEF Pool
<1>4. \A n \in Name : Allocator!Held(n) = UNION {Reserved(i, n) : i \in Instance}
  BY <1>3 DEF Allocator!Held
<1>5. NoDuplicate
  BY <1>1 DEF Allocator!Unique, NoDuplicate
<1>6. Conservation
  BY <1>2, <1>3, <1>4 DEF Allocator!Accounted, Allocator!Disjoint, Conservation
<1> QED
  BY <1>5, <1>6

(* No number is returned twice, by any thread of any instance.             *)
THEOREM NoDuplicateHolds == Spec => []NoDuplicate
<1>1. Allocator!Spec => []Allocator!Safe
  BY AllocatorParameters, AllocatorSafe
<1>2. Spec => Allocator!Spec
  BY Refinement DEF ImplementsAllocator
<1>3. TypeOK /\ Allocator!Safe => NoDuplicate
  BY SafeHere
<1> QED
  BY <1>1, <1>2, <1>3, TypeCorrect, PTL

(* Every number below the counter was returned, is reserved by one         *)
(* instance, or was lost to a crash or to a commit whose answer was lost.  *)
THEOREM ConservationHolds == Spec => []Conservation
<1>1. Allocator!Spec => []Allocator!Safe
  BY AllocatorParameters, AllocatorSafe
<1>2. Spec => Allocator!Spec
  BY Refinement DEF ImplementsAllocator
<1>3. TypeOK /\ Allocator!Safe => Conservation
  BY SafeHere
<1> QED
  BY <1>1, <1>2, <1>3, TypeCorrect, PTL

---------------------------------------------------------------------------
(* The order of the numbers.                                               *)

(* What a caller knew of when it asked has been returned.                  *)
Past ==
  /\ \A n \in Name : \A k \in DOMAIN handed[n] : handed[n][k].since <= Len(handed[n])
  /\ \A t \in Thread : since[t] <= Len(handed[name[t]])

(* What an instance holds is above all that it has returned; a name whose  *)
(* numbers are reserved one at a time is never held.                       *)
HeldAhead ==
  \A n \in Name, i \in Instance : held[i][n].lo < held[i][n].hi =>
    /\ Block[n] # 1
    /\ \A k \in DOMAIN handed[n] : handed[n][k].by = i => handed[n][k].value < held[i][n].lo

(* A committed block is above all that its instance has returned, and, if  *)
(* it is a single number, above all that its caller knew of.               *)
BlockAhead ==
  \A t \in Thread : pc[t] = "close" =>
    \A k \in DOMAIN handed[name[t]] :
      \/ handed[name[t]][k].by = Home[t]
      \/ Block[name[t]] = 1 /\ k <= since[t]
      => handed[name[t]][k].value < current[t]

Ordered == RealTimeOrder /\ Past /\ HeldAhead /\ BlockAhead

(* A step that returns no number and fills no range, and after which a     *)
(* thread is at "close" only where it was.                                 *)
LEMMA QuietOrder ==
  ASSUME Ordered, UNCHANGED handed,
         \A i \in Instance, n \in Name : held'[i][n] = held[i][n] \/ held'[i][n] = Empty,
         \A u \in Thread :
           \/ name'[u] = name[u] /\ since'[u] = since[u]
           \/ since'[u] = 0 /\ name'[u] \in Name
           \/ since'[u] = Len(handed[name'[u]]) /\ name'[u] \in Name,
         \A u \in Thread : pc'[u] = "close" =>
           /\ pc[u] = "close" /\ UNCHANGED <<name[u], since[u], current[u]>>,
         TypeOK
  PROVE  Ordered'
<1>1. \A n \in Name : Len(handed[n]) \in Nat
  BY DEF TypeOK, HistoryType
<1>2. RealTimeOrder'
  BY DEF Ordered, RealTimeOrder
<1>3. Past'
  BY <1>1 DEF Ordered, Past
<1>4. HeldAhead'
  BY DEF Ordered, HeldAhead, Empty
<1>5. BlockAhead'
  BY DEF Ordered, BlockAhead
<1> QED
  BY <1>2, <1>3, <1>4, <1>5 DEF Ordered

(* After a number was returned an entry is an old one, or the new one.     *)
LEMMA HandOutEntry ==
  ASSUME TypeOK, NEW t \in Thread, NEW v \in Nat, HandOut(t, v),
         NEW n \in Name, NEW k \in DOMAIN handed'[n]
  PROVE  \/ k \in DOMAIN handed[n] /\ handed'[n][k] = handed[n][k]
         \/ /\ n = name[t] /\ k = Len(handed[n]) + 1
            /\ handed'[n][k].by = Home[t] /\ handed'[n][k].value = v
<1> DEFINE e == [by |-> Home[t], value |-> v, since |-> since[t]]
<1>1. handed \in [Name -> Seq(Entry)]
  BY DEF TypeOK, HistoryType
<1>2. handed' = [handed EXCEPT ![name[t]] = Append(handed[name[t]], e)]
  BY DEF HandOut
<1>3. e.by = Home[t] /\ e.value = v
  OBVIOUS
<1> HIDE DEF e
<1>4. CASE n # name[t]
  BY <1>1, <1>2, <1>4
<1>5. CASE n = name[t]
  <2>1. handed'[n] = Append(handed[n], e) /\ handed[n] \in Seq(Entry)
    BY <1>1, <1>2, <1>5
  <2> QED
    BY <1>3, <1>5, <2>1
<1> QED
  BY <1>4, <1>5

(* The next number of n goes to t: it is above what it must be above.      *)
LEMMA HandOutOrder ==
  ASSUME TypeOK, Ordered, NEW t \in Thread, NEW v \in Nat, HandOut(t, v), Leave(t),
         \A k \in DOMAIN handed[name[t]] :
           \/ handed[name[t]][k].by = Home[t]
           \/ Block[name[t]] = 1 /\ k <= since[t]
           => handed[name[t]][k].value < v
  PROVE  RealTimeOrder' /\ Past'
<1> DEFINE m == name[t]
           e == [by |-> Home[t], value |-> v, since |-> since[t]]
<1>1. /\ m \in Name /\ handed \in [Name -> Seq(Entry)]
      /\ since \in [Thread -> Nat] /\ Home[t] \in Instance
      /\ name \in [Thread -> Name] /\ AnyName \in Name
  BY CountersAssumption, AnyNameIsName DEF TypeOK, ThreadType, HistoryType
<1>2. Len(handed[m]) \in Nat /\ DOMAIN handed[m] = 1 .. Len(handed[m])
  BY <1>1
<1>3. /\ handed'[m] = Append(handed[m], e)
      /\ \A n \in Name \ {m} : handed'[n] = handed[n]
  BY <1>1 DEF HandOut
<1>4. /\ Len(handed'[m]) = Len(handed[m]) + 1
      /\ DOMAIN handed'[m] = 1 .. (Len(handed[m]) + 1)
      /\ \A k \in DOMAIN handed[m] : handed'[m][k] = handed[m][k]
      /\ handed'[m][Len(handed[m]) + 1] = e
  BY <1>1, <1>2, <1>3
<1>5. e.by = Home[t] /\ e.value = v /\ e.since = since[t]
  OBVIOUS
<1>6. since[t] <= Len(handed[m]) /\ since[t] \in Nat
  BY <1>1 DEF Ordered, Past
<1>7. \A n \in Name : \A k \in DOMAIN handed[n] :
        handed[n][k].since \in Nat /\ handed[n][k].since <= Len(handed[n])
  <2> SUFFICES ASSUME NEW n \in Name, NEW k \in DOMAIN handed[n]
               PROVE  handed[n][k].since \in Nat /\ handed[n][k].since <= Len(handed[n])
    OBVIOUS
  <2>1. handed[n][k] \in Entry
    BY <1>1
  <2> QED
    BY <2>1 DEF Ordered, Past, Entry
<1>8. \A k \in DOMAIN handed[m] :
        handed[m][k].by = Home[t] \/ (Block[m] = 1 /\ k <= since[t]) => handed[m][k].value < v
  OBVIOUS
<1> HIDE DEF m, e
<1>9. RealTimeOrder'
  <2> SUFFICES ASSUME NEW n \in Name, NEW k \in DOMAIN handed'[n],
                      NEW j \in 1 .. handed'[n][k].since,
                      Block[n] = 1 \/ handed'[n][j].by = handed'[n][k].by
               PROVE  handed'[n][j].value < handed'[n][k].value
    BY DEF RealTimeOrder
  <2>1. CASE n # m \/ k # Len(handed[m]) + 1
    <3>1. k \in DOMAIN handed[n] /\ handed'[n][k] = handed[n][k]
      BY <1>2, <1>3, <1>4, <2>1
    <3>2. j \in DOMAIN handed[n]
      BY <1>1, <1>7, <3>1
    <3>3. handed'[n][j] = handed[n][j]
      BY <1>3, <1>4, <3>2
    <3> QED
      BY <3>1, <3>2, <3>3 DEF Ordered, RealTimeOrder
  <2>2. CASE n = m /\ k = Len(handed[m]) + 1
    <3>1. handed'[n][k].value = v /\ handed'[n][k].by = Home[t] /\ j \in 1 .. since[t]
      BY <1>4, <1>5, <2>2
    <3>2. j \in DOMAIN handed[m] /\ j <= since[t]
      BY <1>2, <1>6, <3>1
    <3>3. handed'[n][j] = handed[m][j]
      BY <1>4, <2>2, <3>2
    <3> QED
      BY <1>8, <2>2, <3>1, <3>2, <3>3
  <2> QED
    BY <2>1, <2>2
<1>10. Past'
  <2>1. ASSUME NEW n \in Name, NEW k \in DOMAIN handed'[n]
        PROVE  handed'[n][k].since <= Len(handed'[n])
    <3>1. CASE n # m
      <4>1. handed'[n] = handed[n]
        BY <1>3, <3>1
      <4> QED
        BY <1>7, <4>1
    <3>2. CASE n = m /\ k # Len(handed[m]) + 1
      <4>1. k \in DOMAIN handed[m] /\ handed'[n][k] = handed[m][k]
        BY <1>2, <1>4, <3>2
      <4>2. handed[m][k].since \in Nat /\ handed[m][k].since <= Len(handed[m])
        BY <1>1, <1>7, <4>1 DEF m
      <4> QED
        BY <1>2, <1>4, <3>2, <4>1, <4>2
    <3>3. CASE n = m /\ k = Len(handed[m]) + 1
      BY <1>2, <1>4, <1>5, <1>6, <3>3
    <3> QED
      BY <3>1, <3>2, <3>3
  <2>2. ASSUME NEW u \in Thread PROVE since'[u] <= Len(handed'[name'[u]])
    <3>1. ASSUME NEW n \in Name
          PROVE  Len(handed'[n]) \in Nat /\ Len(handed'[n]) >= Len(handed[n])
      <4>1. CASE n = m
        BY <1>2, <1>4, <4>1
      <4>2. CASE n # m
        <5>1. handed'[n] = handed[n] /\ Len(handed[n]) \in Nat
          BY <1>1, <1>3, <4>2
        <5> QED
          BY <5>1
      <4> QED
        BY <4>1, <4>2
    <3>2. CASE u = t
      BY <1>1, <3>1, <3>2 DEF Leave
    <3>3. CASE u # t
      <4>1. since'[u] = since[u] /\ name'[u] = name[u] /\ name[u] \in Name
        BY <1>1, <3>3 DEF Leave
      <4>2. since[u] <= Len(handed[name[u]]) /\ since[u] \in Nat
        BY <1>1 DEF Ordered, Past
      <4>3. Len(handed[name[u]]) \in Nat
        BY <1>1, <4>1
      <4> QED
        BY <3>1, <4>1, <4>2, <4>3
    <3> QED
      BY <3>2, <3>3
  <2> QED
    BY <2>1, <2>2 DEF Past
<1> QED
  BY <1>9, <1>10

LEMMA OrderStep ==
  ASSUME IInv, Conservation, Ordered, Next
  PROVE  Ordered'
<1> USE DEF IInv, TypeOK, db, history
<1> AnyName \in Name
  BY AnyNameIsName
<1>1. ASSUME NEW t \in Thread, NEW n \in Name, Call(t, n) PROVE Ordered'
  BY <1>1, QuietOrder DEF Call, ThreadType
<1>2. ASSUME NEW t \in Thread, BeginAllocate(t) \/ Read(t) \/ Update(t) PROVE Ordered'
  BY <1>2, QuietOrder DEF BeginAllocate, Read, Update, ThreadType
<1>3. ASSUME NEW t \in Thread, NoRow(t) \/ Interrupt(t) PROVE Ordered'
  BY <1>3, QuietOrder DEF NoRow, Interrupt, Throw, Leave, ThreadType
<1>4. ASSUME NEW t \in Thread, UpdateNoRow(t) \/ Fail(t) \/ LoseAck(t) PROVE Ordered'
  <2>1. Retry(t) /\ UNCHANGED <<held, handed>>
    BY <1>4 DEF UpdateNoRow, Fail, LoseAck
  <2>2. CASE MayRetry(t)
    BY <2>1, <2>2, QuietOrder DEF Retry, ThreadType
  <2>3. CASE ~MayRetry(t)
    BY <2>1, <2>3, QuietOrder DEF Retry, Throw, Leave, ThreadType
  <2> QED
    BY <2>2, <2>3
<1>5. ASSUME NEW i \in Instance, Crash(i) PROVE Ordered'
  BY <1>5, QuietOrder DEF Crash, ThreadType, InstanceType
<1>6. ASSUME NEW t \in Thread, Commit(t) PROVE Ordered'
  (* What is returned is below the counter, and the block starts at it. *)
  <2>1. name[t] \in Name /\ table[name[t]] \in Nat
    BY DEF ThreadType, DbType
  <2>2. table[name[t]] = current[t]
    BY <1>6 DEF Commit, RowKept
  <2>3. ASSUME NEW k \in DOMAIN handed[name[t]]
        PROVE  handed[name[t]][k].value < current[t]
    <3>1. handed[name[t]][k].value \in Start[name[t]] .. (table[name[t]] - 1)
      BY <2>1 DEF Conservation, Values
    <3> QED
      BY <2>1, <2>2, <3>1, CountersAssumption
  <2>4. BlockAhead'
    BY <1>6, <2>3 DEF Commit, BlockAhead, Ordered, ThreadType
  <2> QED
    BY <1>6, <2>4 DEF Commit, Ordered, RealTimeOrder, Past, HeldAhead
<1>7. ASSUME NEW t \in Thread, TakeHeld(t) PROVE Ordered'
  <2> DEFINE i == Home[t]
             n == name[t]
             v == held[i][n].lo
  <2>1. i \in Instance /\ n \in Name /\ held[i][n] \in [lo : Nat, hi : Nat] /\ v \in Nat
    BY CountersAssumption DEF ThreadType, InstanceType
  <2>2. v < held[i][n].hi /\ lock[i][n] = Nobody
    BY <1>7 DEF TakeHeld, MayEnter, Monitor
  <2>3. Block[n] # 1 /\ \A k \in DOMAIN handed[n] : handed[n][k].by = i => handed[n][k].value < v
    BY <2>1, <2>2 DEF Ordered, HeldAhead
  <2>4. RealTimeOrder' /\ Past'
    BY <1>7, <2>1, <2>3, HandOutOrder DEF TakeHeld
  <2> HIDE DEF i, n, v
  <2>5. HeldAhead'
    <3> SUFFICES ASSUME NEW m \in Name, NEW j \in Instance, held'[j][m].lo < held'[j][m].hi
                 PROVE  /\ Block[m] # 1
                        /\ \A k \in DOMAIN handed'[m] :
                             handed'[m][k].by = j => handed'[m][k].value < held'[j][m].lo
      BY DEF HeldAhead
    <3>1. CASE j = i /\ m = n
      <4>1. held'[j][m].lo = v + 1
        BY <1>7, <2>1, <3>1 DEF TakeHeld, InstanceType, i, n, v
      <4>2. ASSUME NEW k \in DOMAIN handed'[m], handed'[m][k].by = j
            PROVE  handed'[m][k].value < v + 1
        <5>1. \/ k \in DOMAIN handed[m] /\ handed'[m][k] = handed[m][k]
              \/ handed'[m][k].value = v
          BY <1>7, <2>1, HandOutEntry DEF TakeHeld, i, n, v
        <5>2. CASE k \in DOMAIN handed[m] /\ handed'[m][k] = handed[m][k]
          <6>1. handed[m][k].value < v /\ handed[m][k] \in Entry
            BY <2>3, <3>1, <4>2, <5>2 DEF HistoryType
          <6> QED
            BY <2>1, <5>2, <6>1 DEF Entry
        <5>3. CASE handed'[m][k].value = v
          BY <2>1, <5>3
        <5> QED
          BY <5>1, <5>2, <5>3
      <4> QED
        BY <2>3, <3>1, <4>1, <4>2
    <3>2. CASE ~(j = i /\ m = n)
      <4>1. held'[j][m] = held[j][m]
        BY <1>7, <3>2 DEF TakeHeld, InstanceType, i, n
      <4>2. ASSUME NEW k \in DOMAIN handed'[m], handed'[m][k].by = j
            PROVE  k \in DOMAIN handed[m] /\ handed'[m][k] = handed[m][k]
        BY <1>7, <2>1, <3>2, <4>2, HandOutEntry DEF TakeHeld, i, n, v
      <4> QED
        BY <4>1, <4>2 DEF Ordered, HeldAhead
    <3> QED
      BY <3>1, <3>2
  <2>6. BlockAhead'
    <3> SUFFICES ASSUME NEW u \in Thread, pc'[u] = "close", NEW k \in DOMAIN handed'[name'[u]],
                        \/ handed'[name'[u]][k].by = Home[u]
                        \/ Block[name'[u]] = 1 /\ k <= since'[u]
                 PROVE  handed'[name'[u]][k].value < current'[u]
      BY DEF BlockAhead
    <3>1. u # t /\ pc[u] = "close" /\ UNCHANGED <<name[u], since[u], current[u]>>
      BY <1>7 DEF TakeHeld, Leave, ThreadType
    <3>2. name[u] \in Name /\ lock[Home[u]][name[u]] = u /\ u # Nobody
      BY <3>1, CountersAssumption DEF Monitors, Allocating, ThreadType
    <3>3. ~(Home[u] = i /\ name[u] = n)
      BY <2>2, <3>2
    <3>4. since[u] <= Len(handed[name[u]]) /\ since[u] \in Nat /\ Len(handed[name[u]]) \in Nat
      BY <3>2 DEF Ordered, Past, ThreadType, HistoryType
    <3>5. k \in DOMAIN handed[name[u]] /\ handed'[name[u]][k] = handed[name[u]][k]
      BY <1>7, <2>1, <2>3, <3>1, <3>2, <3>3, <3>4, HandOutEntry DEF TakeHeld, i, n, v
    <3> QED
      BY <3>1, <3>5 DEF Ordered, BlockAhead
  <2> QED
    BY <2>4, <2>5, <2>6 DEF Ordered
<1>8. ASSUME NEW t \in Thread, Return(t) PROVE Ordered'
  <2> DEFINE i == Home[t]
             n == name[t]
             v == current[t]
  <2>1. i \in Instance /\ n \in Name /\ v \in Nat /\ Block[n] \in Nat \ {0}
    BY CountersAssumption DEF ThreadType
  <2>2. pc[t] = "close" /\ HandOut(t, v) /\ Leave(t)
    BY <1>8 DEF Return
  <2>3. \A k \in DOMAIN handed[n] :
          handed[n][k].by = i \/ (Block[n] = 1 /\ k <= since[t]) => handed[n][k].value < v
    BY <2>2 DEF Ordered, BlockAhead
  <2>4. RealTimeOrder' /\ Past'
    BY <2>1, <2>2, <2>3, HandOutOrder
  <2>5. /\ held'[i][n] = RangeAfter(n, v)
        /\ \A j \in Instance, m \in Name : j # i \/ m # n => held'[j][m] = held[j][m]
    BY <1>8, <2>1 DEF Return, InstanceType
  <2>6. \A m \in Name : \A k \in DOMAIN handed'[m] :
          \/ k \in DOMAIN handed[m] /\ handed'[m][k] = handed[m][k]
          \/ /\ m = n /\ k = Len(handed[m]) + 1
             /\ handed'[m][k].by = i /\ handed'[m][k].value = v
    BY <2>1, <2>2, HandOutEntry
  <2> HIDE DEF i, n, v
  <2>7. HeldAhead'
    <3> SUFFICES ASSUME NEW m \in Name, NEW j \in Instance, held'[j][m].lo < held'[j][m].hi
                 PROVE  /\ Block[m] # 1
                        /\ \A k \in DOMAIN handed'[m] :
                             handed'[m][k].by = j => handed'[m][k].value < held'[j][m].lo
      BY DEF HeldAhead
    <3>1. CASE j = i /\ m = n
      <4>1. held'[j][m].lo = v + 1 /\ held'[j][m].hi = v + Block[n]
        BY <2>5, <3>1 DEF RangeAfter
      <4>2. ASSUME NEW k \in DOMAIN handed'[m], handed'[m][k].by = j
            PROVE  handed'[m][k].value < v + 1
        <5>1. CASE k \in DOMAIN handed[m] /\ handed'[m][k] = handed[m][k]
          <6>1. handed[m][k].value < v /\ handed[m][k] \in Entry
            BY <2>3, <3>1, <4>2, <5>1 DEF HistoryType
          <6> QED
            BY <2>1, <5>1, <6>1 DEF Entry
        <5>2. CASE handed'[m][k].value = v
          BY <2>1, <5>2
        <5> QED
          BY <2>6, <5>1, <5>2
      <4> QED
        BY <2>1, <3>1, <4>1, <4>2
    <3>2. CASE ~(j = i /\ m = n)
      <4>1. held'[j][m] = held[j][m]
        BY <2>5, <3>2
      <4>2. ASSUME NEW k \in DOMAIN handed'[m], handed'[m][k].by = j
            PROVE  k \in DOMAIN handed[m] /\ handed'[m][k] = handed[m][k]
        BY <2>6, <3>2, <4>2
      <4> QED
        BY <4>1, <4>2 DEF Ordered, HeldAhead
    <3> QED
      BY <3>1, <3>2
  <2>8. BlockAhead'
    <3> SUFFICES ASSUME NEW u \in Thread, pc'[u] = "close", NEW k \in DOMAIN handed'[name'[u]],
                        \/ handed'[name'[u]][k].by = Home[u]
                        \/ Block[name'[u]] = 1 /\ k <= since'[u]
                 PROVE  handed'[name'[u]][k].value < current'[u]
      BY DEF BlockAhead
    <3>1. u # t /\ pc[u] = "close" /\ UNCHANGED <<name[u], since[u], current[u]>>
      BY <2>2 DEF Leave, ThreadType
    <3>2. name[u] \in Name /\ ~(Home[u] = i /\ name[u] = n)
      BY <2>2, <3>1, OneAllocator DEF Allocating, ThreadType, i, n
    <3>3. since[u] <= Len(handed[name[u]]) /\ since[u] \in Nat /\ Len(handed[name[u]]) \in Nat
      BY <3>2 DEF Ordered, Past, ThreadType, HistoryType
    <3>4. k \in DOMAIN handed[name[u]] /\ handed'[name[u]][k] = handed[name[u]][k]
      BY <2>6, <3>1, <3>2, <3>3
    <3> QED
      BY <3>1, <3>4 DEF Ordered, BlockAhead
  <2> QED
    BY <2>4, <2>7, <2>8 DEF Ordered
<1>9. CASE AllDone
  BY <1>9 DEF AllDone, vars, Ordered, RealTimeOrder, Past, HeldAhead, BlockAhead
<1> QED
  BY <1>1, <1>2, <1>3, <1>4, <1>5, <1>6, <1>7, <1>8, <1>9 DEF Next, Step

(* A number is above every number its caller could know of when it asked:  *)
(* within an instance always, between instances when numbers are reserved  *)
(* one at a time, for any database, block sizes, failures and crashes.     *)
THEOREM OrderHolds == Spec => []RealTimeOrder
<1>1. Init => Ordered
  BY DEF Init, Ordered, RealTimeOrder, Past, HeldAhead, BlockAhead, Empty
<1>2. IInv /\ Conservation /\ Ordered /\ [Next]_vars => Ordered'
  <2>1. Ordered /\ UNCHANGED vars => Ordered'
    BY DEF vars, db, history, Ordered, RealTimeOrder, Past, HeldAhead, BlockAhead
  <2> QED
    BY <2>1, OrderStep
<1>3. Ordered => RealTimeOrder
  BY DEF Ordered
<1> QED
  BY <1>1, <1>2, <1>3, Inductive, ConservationHolds, PTL DEF Spec
=============================================================================
