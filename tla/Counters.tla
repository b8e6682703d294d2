------------------------------ MODULE Counters ------------------------------
(***************************************************************************)
(* CountersSequences.java: numbers for what were Oracle sequences, kept in *)
(* one table of counters that every instance of the generated application  *)
(* shares.  next(name) runs under a per-instance, per-name monitor; it     *)
(* hands out the range it holds and, when that is used up, reserves the    *)
(* next block in a transaction of its own: read the counter, write it back *)
(* on condition that it is still the value read, commit; anything that     *)
(* goes wrong is retried, MAX_ATTEMPTS times.                              *)
(*                                                                         *)
(* The database is the weakest one the class comment allows for: either    *)
(* it locks the row an open transaction updated and sees the latest        *)
(* committed value (an RDBMS at READ COMMITTED), or it lets writers run    *)
(* and rejects the second one at commit (ScalarDB's Consensus Commit).     *)
(* A connection may fail at any call; a commit may take effect and still   *)
(* be reported as a failure; a process may die at any moment.              *)
(***************************************************************************)
EXTENDS Naturals, Sequences

CONSTANTS
  Instance,      \* the processes running the generated code
  Thread,        \* their threads
  Home,          \* Home[t]: the instance thread t belongs to
  Name,          \* the sequence names configured in `blocks`
  Rows,          \* the names that have a row in the counters table
  Block,         \* `blocks`: how many numbers one reservation takes
  Start,         \* the initial next_value of each row
  MaxAttempts,   \* MAX_ATTEMPTS
  MaxCalls,      \* bound: how many calls of next() are made
  MaxCrashes,    \* bound: how many times a process dies
  Nobody         \* no thread

ASSUME CountersAssumption ==
  /\ Home \in [Thread -> Instance]
  /\ Rows \subseteq Name
  /\ Block \in [Name -> Nat \ {0}]
  /\ Start \in [Name -> Nat]
  /\ Name # {}
  /\ MaxAttempts \in Nat \ {0}
  /\ MaxCalls \in Nat
  /\ MaxCrashes \in Nat
  /\ Nobody \notin Thread

VARIABLES
  locking,   \* TRUE: the database locks updated rows; FALSE: it validates at commit
  table,     \* table[n]: the committed next_value of the row of n
  rowLock,   \* rowLock[n]: the thread whose open transaction updated the row
  pc,        \* pc[t]: where thread t is inside next()
  name,      \* name[t]: the sequence t asked for
  attempt,   \* attempt[t]: the loop variable of allocate()
  current,   \* current[t]: the value t read from the row
  held,      \* held[i][n]: the range instance i still may hand out
  lock,      \* lock[i][n]: the thread inside the monitor of n
  handed,    \* history: handed[n] lists the numbers returned, in order
  since,     \* history: since[t] is how much of handed t's caller could know of
  lost,      \* history: lost[n] are reserved numbers nobody can return any more
  calls,     \* how many calls have been made
  crashes    \* how many times a process has died

db      == <<locking, table, rowLock>>
history == <<handed, since, lost>>
vars    == <<db, pc, name, attempt, current, held, lock, history, calls, crashes>>

Empty   == [lo |-> 0, hi |-> 0]
AnyName == CHOOSE n \in Name : TRUE

(* Inside the monitor, with a reservation under way. *)
Allocating == {"read", "update", "commit", "close"}

(* The monitor object of a name: each name has one of its own in `locks`. *)
OneMonitor(n) == AnyName
Monitor(n)    == n

(* The range behind a reservation of n that started at `from`: half open.  *)
OneShort(n, from)   == [lo |-> from + 1, hi |-> from + Block[n] - 1]
FromAgain(n, from)  == [lo |-> from, hi |-> from + Block[n]]
RangeAfter(n, from) == [lo |-> from + 1, hi |-> from + Block[n]]

BlockAt(n, from) == from .. (from + Block[n] - 1)

(* The numbers instance i has reserved and neither returned nor lost: the  *)
(* range it holds, and a block whose commit took effect a moment ago.      *)
Reserved(i, n) ==
  (held[i][n].lo .. (held[i][n].hi - 1))
    \cup UNION {BlockAt(n, current[t]) :
                  t \in {u \in Thread : Home[u] = i /\ name[u] = n /\ pc[u] = "close"}}

Init ==
  /\ locking \in BOOLEAN
  /\ table = Start
  /\ rowLock = [n \in Name |-> Nobody]
  /\ pc = [t \in Thread |-> "idle"]
  /\ name = [t \in Thread |-> AnyName]
  /\ attempt = [t \in Thread |-> 0]
  /\ current = [t \in Thread |-> 0]
  /\ held = [i \in Instance |-> [n \in Name |-> Empty]]
  /\ lock = [i \in Instance |-> [n \in Name |-> Nobody]]
  /\ handed = [n \in Name |-> <<>>]
  /\ since = [t \in Thread |-> 0]
  /\ lost = [n \in Name |-> {}]
  /\ calls = 0
  /\ crashes = 0

(* The loop of allocate(): `attempt < MAX_ATTEMPTS; attempt++`.            *)
SameAttempt(t)    == attempt[t]
NextAttempt(t)    == attempt[t] + 1
OneAttemptMore(t) == NextAttempt(t) <= MaxAttempts
MayRetry(t)       == NextAttempt(t) < MaxAttempts

(***************************************************************************)
(* Leaving next(), with a number or with an exception: the locals die and  *)
(* the monitor, if t had it, is released.                                  *)
(***************************************************************************)
Leave(t) ==
  /\ pc' = [pc EXCEPT ![t] = "idle"]
  /\ name' = [name EXCEPT ![t] = AnyName]
  /\ attempt' = [attempt EXCEPT ![t] = 0]
  /\ current' = [current EXCEPT ![t] = 0]
  /\ since' = [since EXCEPT ![t] = 0]

Unlock(t) == lock' = [lock EXCEPT ![Home[t]][Monitor(name[t])] = Nobody]

HandOut(t, v) ==
  handed' = [handed EXCEPT ![name[t]] =
               Append(@, [by |-> Home[t], value |-> v, since |-> since[t]])]

(* The exception reaches the caller. *)
Throw(t) == Leave(t) /\ Unlock(t)

(* `continue`, or the catch of any other exception: the connection is      *)
(* closed (what it did not commit is undone), and the loop goes round.     *)
Retry(t) ==
  /\ rowLock' = [n \in Name |-> IF rowLock[n] = t THEN Nobody ELSE rowLock[n]]
  /\ \/ /\ MayRetry(t)
        /\ attempt' = [attempt EXCEPT ![t] = NextAttempt(t)]
        /\ current' = [current EXCEPT ![t] = 0]
        /\ pc' = [pc EXCEPT ![t] = "read"]
        /\ UNCHANGED <<name, since, lock>>
     \/ /\ ~MayRetry(t)
        /\ Throw(t)

---------------------------------------------------------------------------
(* next(n): the caller has seen every number returned before this moment.  *)
Call(t, n) ==
  /\ pc[t] = "idle" /\ calls < MaxCalls
  /\ pc' = [pc EXCEPT ![t] = "enter"]
  /\ name' = [name EXCEPT ![t] = n]
  /\ since' = [since EXCEPT ![t] = Len(handed[n])]
  /\ calls' = calls + 1
  /\ UNCHANGED <<db, attempt, current, held, lock, handed, lost, crashes>>

(* The monitor is free: `synchronized (locks.computeIfAbsent(...))`.       *)
MayEnter(t) == pc[t] = "enter" /\ lock[Home[t]][Monitor(name[t])] = Nobody

(* Something is held: it is returned without going to the database.        *)
TakeHeld(t) ==
  LET range == held[Home[t]][name[t]] IN
  /\ MayEnter(t)
  /\ range.lo < range.hi
  /\ HandOut(t, range.lo)
  /\ held' = [held EXCEPT ![Home[t]][name[t]].lo = @ + 1]
  /\ Leave(t)
  /\ UNCHANGED <<db, lock, lost, calls, crashes>>

(* Nothing is held: allocate() runs with the monitor held.                 *)
BeginAllocate(t) ==
  LET range == held[Home[t]][name[t]] IN
  /\ MayEnter(t)
  /\ range.lo >= range.hi
  /\ lock' = [lock EXCEPT ![Home[t]][Monitor(name[t])] = t]
  /\ pc' = [pc EXCEPT ![t] = "read"]
  /\ UNCHANGED <<db, name, attempt, current, held, history, calls, crashes>>

Read(t) ==
  /\ pc[t] = "read" /\ name[t] \in Rows
  /\ current' = [current EXCEPT ![t] = table[name[t]]]
  /\ pc' = [pc EXCEPT ![t] = "update"]
  /\ UNCHANGED <<db, name, attempt, held, lock, history, calls, crashes>>

(* No row: NotRetryable, thrown at once.                                   *)
NoRow(t) ==
  /\ pc[t] = "read" /\ name[t] \notin Rows
  /\ Throw(t)
  /\ UNCHANGED <<db, held, handed, lost, calls, crashes>>

(* Interrupted while it sleeps before another attempt.                     *)
Interrupt(t) ==
  /\ pc[t] = "read" /\ attempt[t] > 0
  /\ Throw(t)
  /\ UNCHANGED <<db, held, handed, lost, calls, crashes>>

(* The condition of the UPDATE: AND next_value = the value that was read.  *)
NoCondition(t)  == TRUE
RowNotBehind(t) == table[name[t]] >= current[t]
RowMatches(t)   == table[name[t]] = current[t]

(* The UPDATE changes one row.  A locking database makes it wait for the   *)
(* row and looks at the latest committed value; an optimistic one looks at *)
(* the transaction's own snapshot, where the condition always holds.       *)
Update(t) ==
  /\ pc[t] = "update"
  /\ locking => rowLock[name[t]] = Nobody /\ RowMatches(t)
  /\ rowLock' = IF locking THEN [rowLock EXCEPT ![name[t]] = t] ELSE rowLock
  /\ pc' = [pc EXCEPT ![t] = "commit"]
  /\ UNCHANGED <<locking, table, name, attempt, current, held, lock, history, calls, crashes>>

(* The UPDATE changes no row: another transaction moved the counter.       *)
UpdateNoRow(t) ==
  /\ pc[t] = "update"
  /\ locking => rowLock[name[t]] = Nobody
  /\ ~RowMatches(t)
  /\ Retry(t)
  /\ UNCHANGED <<locking, table, held, handed, lost, calls, crashes>>

(* What the commit leaves in the row, computed from the value read.        *)
Commit(t) ==
  /\ pc[t] = "commit"
  /\ locking \/ table[name[t]] = current[t]
  /\ table' = [table EXCEPT ![name[t]] = current[t] + Block[name[t]]]
  /\ rowLock' = IF locking THEN [rowLock EXCEPT ![name[t]] = Nobody] ELSE rowLock
  /\ pc' = [pc EXCEPT ![t] = "close"]
  /\ UNCHANGED <<locking, name, attempt, current, held, lock, history, calls, crashes>>

(* Any other exception before a commit takes effect, a rejected commit and *)
(* a refused connection included.                                          *)
Fail(t) ==
  /\ pc[t] \in {"read", "update", "commit"}
  /\ Retry(t)
  /\ UNCHANGED <<locking, table, held, handed, lost, calls, crashes>>

(* The commit took effect, but commit() or close() throws: the loop takes  *)
(* it for a conflict, and the block is never used.                         *)
LoseAck(t) ==
  /\ pc[t] = "close"
  /\ lost' = [lost EXCEPT ![name[t]] = @ \cup BlockAt(name[t], current[t])]
  /\ Retry(t)
  /\ UNCHANGED <<locking, table, held, handed, calls, crashes>>

(* The first number of the block is returned, the rest is held.            *)
Return(t) ==
  /\ pc[t] = "close"
  /\ held' = [held EXCEPT ![Home[t]][name[t]] = RangeAfter(name[t], current[t])]
  /\ HandOut(t, current[t])
  /\ Leave(t)
  /\ Unlock(t)
  /\ UNCHANGED <<db, lost, calls, crashes>>

(* The process dies and another one takes its place: its memory is gone,   *)
(* the database undoes its open transactions.                              *)
Crash(i) ==
  LET mine == {t \in Thread : Home[t] = i} IN
  /\ crashes < MaxCrashes
  /\ crashes' = crashes + 1
  /\ lost' = [n \in Name |-> lost[n] \cup Reserved(i, n)]
  /\ held' = [held EXCEPT ![i] = [n \in Name |-> Empty]]
  /\ lock' = [lock EXCEPT ![i] = [n \in Name |-> Nobody]]
  /\ rowLock' = [n \in Name |-> IF rowLock[n] \in mine THEN Nobody ELSE rowLock[n]]
  /\ pc' = [t \in Thread |-> IF t \in mine THEN "idle" ELSE pc[t]]
  /\ name' = [t \in Thread |-> IF t \in mine THEN AnyName ELSE name[t]]
  /\ attempt' = [t \in Thread |-> IF t \in mine THEN 0 ELSE attempt[t]]
  /\ current' = [t \in Thread |-> IF t \in mine THEN 0 ELSE current[t]]
  /\ since' = [t \in Thread |-> IF t \in mine THEN 0 ELSE since[t]]
  /\ UNCHANGED <<locking, table, handed, calls>>

(* Every call there is has been made and has ended.                        *)
AllDone ==
  /\ calls = MaxCalls /\ \A t \in Thread : pc[t] = "idle"
  /\ UNCHANGED vars

(* Everything thread t does once next() has been called.                   *)
Step(t) ==
  \/ TakeHeld(t) \/ BeginAllocate(t)
  \/ Read(t) \/ NoRow(t) \/ Interrupt(t)
  \/ Update(t) \/ UpdateNoRow(t)
  \/ Commit(t) \/ Fail(t) \/ LoseAck(t) \/ Return(t)

Next ==
  \/ \E t \in Thread : Step(t) \/ \E n \in Name : Call(t, n)
  \/ \E i \in Instance : Crash(i)
  \/ AllDone

Spec == Init /\ [][Next]_vars

(***************************************************************************)
(* A thread that was called is scheduled, and the database answers it:     *)
(* weak fairness on its steps.  The monitors are not fair, but the calls   *)
(* are finitely many, so nobody can be overtaken for ever.                 *)
(***************************************************************************)
Fair == \A t \in Thread : WF_vars(Step(t))

(* Only the calls for one name are answered: those for the others may hang *)
(* in the database for ever.                                               *)
FairFor(n) == \A t \in Thread : WF_vars(name[t] = n /\ Step(t))

---------------------------------------------------------------------------
DbType ==
  /\ locking \in BOOLEAN
  /\ table \in [Name -> Nat]
  /\ rowLock \in [Name -> Thread \cup {Nobody}]

ThreadType ==
  /\ pc \in [Thread -> {"idle", "enter"} \cup Allocating]
  /\ name \in [Thread -> Name]
  /\ attempt \in [Thread -> 0 .. (MaxAttempts - 1)]
  /\ current \in [Thread -> Nat]
  /\ since \in [Thread -> Nat]

InstanceType ==
  /\ held \in [Instance -> [Name -> [lo : Nat, hi : Nat]]]
  /\ lock \in [Instance -> [Name -> Thread \cup {Nobody}]]

Entry == [by : Instance, value : Nat, since : Nat]

HistoryType ==
  /\ handed \in [Name -> Seq(Entry)]
  /\ lost \in [Name -> SUBSET Nat]

TypeOK ==
  /\ DbType /\ ThreadType /\ InstanceType /\ HistoryType
  /\ calls \in Nat
  /\ crashes \in Nat

Values(n) == {handed[n][k].value : k \in DOMAIN handed[n]}

(* The same number is never returned twice, whichever threads of whichever *)
(* instances asked, on a database of either kind (CountersSequences, class *)
(* comment: "whether different numbers are handed out does not depend on   *)
(* the isolation level of the connection").                                *)
NoDuplicate ==
  \A n \in Name : \A j, k \in DOMAIN handed[n] :
    j # k => handed[n][j].value # handed[n][k].value

(* Every number below the counter is accounted for: it was returned, or    *)
(* one instance has it reserved, or it was lost to a crash or a commit     *)
(* whose answer was lost.  No number is in two of these places, and none   *)
(* is dropped on any other path (a range that is one short, say).          *)
Conservation ==
  \A n \in Name :
    /\ Values(n) \cup lost[n] \cup UNION {Reserved(i, n) : i \in Instance}
         = Start[n] .. (table[n] - 1)
    /\ Values(n) \cap lost[n] = {}
    /\ \A i \in Instance :
         /\ Reserved(i, n) \cap (Values(n) \cup lost[n]) = {}
         /\ \A j \in Instance \ {i} : Reserved(i, n) \cap Reserved(j, n) = {}

(* A number is larger than every number its caller could already have seen *)
(* returned when it asked: by the same instance always, by any instance    *)
(* when numbers are reserved one at a time (plsql/sequences.py, "strictly  *)
(* increasing" for the counter scheme).                                    *)
RealTimeOrder ==
  \A n \in Name : \A k \in DOMAIN handed[n] :
    \A j \in 1 .. handed[n][k].since :
      (Block[n] = 1 \/ handed[n][j].by = handed[n][k].by)
        => handed[n][j].value < handed[n][k].value

(* CountersSequences.java:24 and plsql/sequences.py:5 say of block = 1     *)
(* that no number is missing: once no call is under way, every number up   *)
(* to one that was returned has been returned too.                         *)
NoGap ==
  \A n \in Name :
    Block[n] = 1 /\ (\A t \in Thread : pc[t] = "idle")
      => \A v \in Values(n) : Start[n] .. v \subseteq Values(n)

(* A call ends, with a number or an exception: the attempts are bounded    *)
(* and nothing waits for a monitor or a row lock that is never released.   *)
EveryCallEnds == Fair => \A t \in Thread : pc[t] = "enter" ~> pc[t] = "idle"

(* The same with only the calls for n scheduled: a reservation of another  *)
(* name that hangs in the database does not hold up n (class comment:      *)
(* the lock is per sequence name).                                         *)
NamesIndependent ==
  \A n \in Name :
    FairFor(n) => \A t \in Thread : (pc[t] = "enter" /\ name[t] = n) ~> pc[t] = "idle"

---------------------------------------------------------------------------
(* The promise it implements: module BlockAllocator, where a reservation   *)
(* is one atomic step.                                                     *)
Pool     == [i \in Instance |-> [n \in Name |-> Reserved(i, n)]]
Returned == [n \in Name |-> [k \in DOMAIN handed[n] |->
               [by |-> handed[n][k].by, value |-> handed[n][k].value]]]

Allocator == INSTANCE BlockAllocator WITH
  next <- table, pool <- Pool, handed <- Returned

(* Every step of the threads, the database and the crashes is one step of  *)
(* the allocator or none: reserving a block is atomic to an observer,      *)
(* although it is read, written and committed separately.                  *)
ImplementsAllocator == Allocator!Spec

(* Why that is so.  Whoever is past the monitor owns it, so one thread of  *)
(* an instance reserves a name at a time, and only when nothing is held.   *)
Monitors ==
  \A t \in Thread : pc[t] \in Allocating =>
    /\ lock[Home[t]][name[t]] = t
    /\ held[Home[t]][name[t]].lo >= held[Home[t]][name[t]].hi

(* Between the UPDATE and the commit a locking database keeps the row as   *)
(* it was read.                                                            *)
RowKept ==
  \A t \in Thread : locking /\ pc[t] = "commit" =>
    /\ rowLock[name[t]] = t
    /\ table[name[t]] = current[t]

IInv == TypeOK /\ Monitors /\ RowKept
=============================================================================
