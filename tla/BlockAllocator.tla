--------------------------- MODULE BlockAllocator ---------------------------
(***************************************************************************)
(* What a numbering service promises, with no database and no threads:     *)
(* instances take the next Block[n] numbers of a name in one atomic step,  *)
(* hand out the smallest number they hold, and may lose what they hold.    *)
(* CountersSequences (module Counters) is meant to implement this although *)
(* it reads, writes and commits the counter in separate steps, of many     *)
(* threads of many processes.                                              *)
(***************************************************************************)
EXTENDS Naturals, Sequences

CONSTANTS
  Instance,   \* the processes that hand out numbers
  Name,       \* the sequence names
  Block,      \* Block[n]: how many numbers one reservation of n takes
  Start       \* Start[n]: the first number of n

VARIABLES
  next,       \* next[n]: the first number of n nobody has reserved
  pool,       \* pool[i][n]: the numbers of n that instance i holds
  handed,     \* handed[n]: what was handed out for n, in order: who and which
  lost        \* lost[n]: the numbers that will never be handed out

vars == <<next, pool, handed, lost>>

Init ==
  /\ next = Start
  /\ pool = [i \in Instance |-> [n \in Name |-> {}]]
  /\ handed = [n \in Name |-> <<>>]
  /\ lost = [n \in Name |-> {}]

(* An instance that holds nothing of n takes the next block. *)
Reserve(i, n) ==
  /\ pool[i][n] = {}
  /\ pool' = [pool EXCEPT ![i][n] = next[n] .. (next[n] + Block[n] - 1)]
  /\ next' = [next EXCEPT ![n] = @ + Block[n]]
  /\ UNCHANGED <<handed, lost>>

(* The smallest number held is handed out. *)
Hand(i, n) ==
  \E v \in pool[i][n] :
    /\ \A w \in pool[i][n] : v <= w
    /\ pool' = [pool EXCEPT ![i][n] = @ \ {v}]
    /\ handed' = [handed EXCEPT ![n] = Append(@, [by |-> i, value |-> v])]
    /\ UNCHANGED <<next, lost>>

(* An instance loses what it holds of some of the names: a crash, or a     *)
(* reservation whose outcome it never learnt.                              *)
Lose(i, names) ==
  /\ pool' = [pool EXCEPT ![i] = [n \in Name |-> IF n \in names THEN {} ELSE @[n]]]
  /\ lost' = [n \in Name |-> IF n \in names THEN lost[n] \cup pool[i][n] ELSE lost[n]]
  /\ UNCHANGED <<next, handed>>

Next ==
  \E i \in Instance :
    \/ \E n \in Name : Reserve(i, n) \/ Hand(i, n)
    \/ \E names \in SUBSET Name : Lose(i, names)

Spec == Init /\ [][Next]_vars

---------------------------------------------------------------------------
(* What the parameters have to be.                                         *)
Parameters ==
  /\ Block \in [Name -> Nat \ {0}]
  /\ Start \in [Name -> Nat]

TypeOK ==
  /\ next \in [Name -> Nat]
  /\ pool \in [Instance -> [Name -> SUBSET Nat]]
  /\ handed \in [Name -> Seq([by : Instance, value : Nat])]
  /\ lost \in [Name -> SUBSET Nat]

Values(n) == {handed[n][k].value : k \in DOMAIN handed[n]}

Held(n) == UNION {pool[i][n] : i \in Instance}

(* No number is handed out twice.                                          *)
Unique ==
  \A n \in Name : \A j, k \in DOMAIN handed[n] :
    j # k => handed[n][j].value # handed[n][k].value

(* The numbers from the first to the next one to reserve: each was handed  *)
(* out, or is held, or was lost ...                                        *)
Accounted ==
  \A n \in Name :
    /\ Start[n] <= next[n]
    /\ Values(n) \cup lost[n] \cup Held(n) = Start[n] .. (next[n] - 1)

(* ... and only one of the three, by one instance only.                    *)
Disjoint ==
  \A n \in Name :
    /\ Values(n) \cap lost[n] = {}
    /\ \A i \in Instance :
         /\ pool[i][n] \cap (Values(n) \cup lost[n]) = {}
         /\ \A j \in Instance \ {i} : pool[i][n] \cap pool[j][n] = {}

Safe == TypeOK /\ Unique /\ Accounted /\ Disjoint
=============================================================================
