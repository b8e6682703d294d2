---------------------------- MODULE BatchProofs ----------------------------
(***************************************************************************)
(* For any table, any query and joined tables, any size of page and any    *)
(* interleaving with other clients, failures and crashes: the split loop   *)
(* hands no row twice to One, misses no key when it ends normally, and no  *)
(* row where the joins of a paged query give a key one row, has a record   *)
(* of every iteration that failed, and implements the cursor loop.         *)
(***************************************************************************)
EXTENDS BatchPages, FiniteSetTheorems, TLAPS

---------------------------------------------------------------------------
(* Paging is safe for joins on values of the driving row: the key of the   *)
(* driving table is unique in the result.                                  *)

Decided(join) ==
  \A leaf \in join.on :
    leaf.pins => \A k \in Keys, t, u \in Row : leaf.with[k][t] = leaf.with[k][u]

(* A join that pins the whole primary key of a base table with values of   *)
(* the driving row finds one row at most (_joins_keep_one_row_per_key).    *)
LEMMA OneMatch ==
  ASSUME NEW join, NEW contents, NEW k \in Keys, OneRowAtMost(join), Decided(join),
         Keyed(join, contents), contents \subseteq Row,
         NEW t \in Matched(join, k, contents), NEW u \in Matched(join, k, contents)
  PROVE  t = u
<1>1. ASSUME NEW c \in join.key PROVE t[c] = u[c]
  <2>1. PICK leaf \in join.on : leaf.pins /\ leaf.col = c /\ leaf.op = "="
    BY <1>1 DEF OneRowAtMost, Pinned
  <2>2. Holds(leaf, k, t) /\ Holds(leaf, k, u) /\ t \in Row /\ u \in Row
    BY <2>1 DEF Matched
  <2>3. leaf.with[k][t] = leaf.with[k][u]
    BY <2>1, <2>2 DEF Decided
  <2> QED
    BY <2>1, <2>2, <2>3 DEF Holds
<1> QED
  BY <1>1 DEF Keyed, OneRowAtMost, Matched

LEMMA OneFound ==
  ASSUME NEW join, NEW contents, NEW k \in Keys, OneRowAtMost(join), Decided(join),
         Keyed(join, contents), contents \subseteq Row,
         NEW t \in Found(join, k, contents), NEW u \in Found(join, k, contents)
  PROVE  t = u
<1>1. CASE Matched(join, k, contents) # {} \/ join.side # "LEFT"
  BY <1>1, OneMatch DEF Found
<1>2. CASE ~(Matched(join, k, contents) # {} \/ join.side # "LEFT")
  BY <1>2 DEF Found
<1> QED
  BY <1>1, <1>2

(* Two rows of a paged query with the same key are the same row, provided  *)
(* the conditions that pin the keys of its joins compare with values of    *)
(* the driving row: then a page never ends in the middle of a key          *)
(* (paging._joins_keep_one_row_per_key; the code does not check the        *)
(* proviso).                                                               *)
THEOREM PagedKeyIsUnique ==
  ASSUME NEW j \in Jobs, Paged(j.query), DecidedByRow(j.query),
         NEW r \in ResultRows(j.query, j.contents),
         NEW s \in ResultRows(j.query, j.contents),
         KeyOf(r) = KeyOf(s)
  PROVE  r = s
<1> DEFINE D == DOMAIN j.query.joins
<1> DEFINE Line == [D -> Row \cup {NoRow}]
<1>1. /\ r \in Keys \X Line /\ s \in Keys \X Line
      /\ r[2] \in Lines(j.query, j.contents, r[1]) /\ s[2] \in Lines(j.query, j.contents, s[1])
  BY DEF ResultRows
<1>2. r[1] = s[1] /\ r[2] \in Line /\ s[2] \in Line
  BY <1>1 DEF KeyOf
<1>3. ASSUME NEW i \in D PROVE r[2][i] = s[2][i]
  <2>1. /\ OneRowAtMost(j.query.joins[i]) /\ Keyed(j.query.joins[i], j.contents[i])
        /\ Decided(j.query.joins[i]) /\ j.contents[i] \subseteq Row /\ r[1] \in Keys
    BY <1>1, JobsAssumption DEF Paged, DecidedByRow, Decided
  <2>2. /\ r[2][i] \in Found(j.query.joins[i], r[1], j.contents[i])
        /\ s[2][i] \in Found(j.query.joins[i], r[1], j.contents[i])
    BY <1>1, <1>2 DEF Lines
  <2> QED
    BY <2>1, <2>2, OneFound
<1>4. r[2] = s[2]
  BY <1>2, <1>3
<1> QED
  BY <1>1, <1>2, <1>4

---------------------------------------------------------------------------
(* Type correctness.                                                       *)

Fixed == job \in Jobs /\ rows = ResultRows(job.query, job.contents)

Typed == Fixed /\ TypeOK

LEMMA RowKeys ==
  ASSUME Fixed, NEW r \in rows
  PROVE  KeyOf(r) \in Keys /\ KeyOf(r) \in Int /\ First < KeyOf(r)
BY KeysAssumption DEF Fixed, ResultRows, KeyOf

LEMMA AppendFacts ==
  ASSUME NEW S, NEW q \in Seq(S), NEW e \in S
  PROVE  /\ Append(q, e) \in Seq(S)
         /\ Len(Append(q, e)) = Len(q) + 1
         /\ \A i \in 1 .. Len(q) : Append(q, e)[i] = q[i]
         /\ Append(q, e)[Len(q) + 1] = e
         /\ DOMAIN Append(q, e) = 1 .. Len(q) + 1 /\ DOMAIN q = 1 .. Len(q)
OBVIOUS

LEMMA InitTyped == Init => Typed
BY DEF Init, Typed, Fixed, TypeOK

LEMMA StepTyped ==
  ASSUME Typed, [Next]_vars
  PROVE  Typed'
<1> USE DEF Typed, Fixed, TypeOK, table, loop, history
<1>1. CASE UNCHANGED vars
  BY <1>1 DEF vars
<1>2. CASE StartPart
  BY <1>2 DEF StartPart, Goto
<1>3. CASE ReadTargets
  BY <1>3 DEF ReadTargets
<1>4. ASSUME NEW r \in rows, OneCommits(r) \/ OneRaises(r)
      PROVE  Typed'
  <2>1. handled' \in Seq(rows)
    BY <1>4, AppendFacts DEF OneCommits, OneRaises
  <2> QED
    BY <1>4, <2>1 DEF OneCommits, OneRaises, Effect
<1>5. ASSUME NEW r \in rows, RecordFailure(r)
      PROVE  Typed'
  BY <1>5 DEF RecordFailure, Goto
<1>6. CASE NextPage
  <2>1. after' \in Keys \cup {First}
    BY <1>6, RowKeys DEF NextPage, LastOf
  <2> QED
    BY <1>6, <2>1 DEF NextPage
<1>7. CASE DonePart \/ PartRaises \/ BatchFails \/ Crash
  BY <1>7 DEF DonePart, PartRaises, BatchFails, Crash, Goto
<1>8. CASE Rerun
  BY <1>8 DEF Rerun
<1>9. ASSUME NEW r \in rows, OtherClient(r)
      PROVE  Typed'
  BY <1>9 DEF OtherClient, Enters, Leaves
<1> QED
  BY <1>1, <1>2, <1>3, <1>4, <1>5, <1>6, <1>7, <1>8, <1>9 DEF Next, Driver

(* The state of the loop and of its parts is well formed. *)
THEOREM TypeCorrect == Spec => []TypeOK
<1>1. Typed => TypeOK
  BY DEF Typed
<1> QED
  BY <1>1, InitTyped, StepTyped, PTL DEF Spec

---------------------------------------------------------------------------
(* The inductive invariant.  A page is a window of keys: what is handled   *)
(* lies behind the window or in the part of it that is done, and what must *)
(* be handled and is not behind the window is in the part still to do, or  *)
(* ahead of it: key by key, because the joins may give a key several rows. *)
(* A query read at once is one window, row by row.                         *)

InRows == pc \in {"rows", "failing"}
PagedNow == Paged(job.query)

Counted == count = Len(handled) /\ (pc = "failing" => handled # <<>>)

Begun == pc = "start" => handled = <<>> /\ after = First

Window ==
  /\ PagedNow /\ pc = "targets" => \A r \in Handled : KeyOf(r) <= after
  /\ PagedNow /\ InRows =>
       /\ \A r \in page : after < KeyOf(r)
       /\ \A r \in Handled : KeyOf(r) <= after \/ r \in page \ todo
  /\ ~PagedNow /\ pc = "targets" => handled = <<>>
  /\ ~PagedNow /\ InRows => Handled \subseteq page \ todo

KeyIn(key, set) == \E h \in set : KeyOf(h) = key

Covered ==
  /\ since \subseteq matching \cup Handled
  /\ PagedNow /\ (pc = "targets" \/ InRows) =>
       \A r \in since : KeyOf(r) <= after => KeyIn(KeyOf(r), Handled)
  /\ PagedNow /\ InRows =>
       \A r \in since, q \in page :
         KeyOf(r) <= KeyOf(q) => KeyIn(KeyOf(r), Handled) \/ KeyIn(KeyOf(r), todo)
  /\ PagedNow /\ pc \in {"done", "over"} => \A r \in since : KeyIn(KeyOf(r), Handled)
  /\ ~PagedNow /\ InRows => since \subseteq Handled \cup todo
  /\ ~PagedNow /\ pc \in {"done", "over"} => since \subseteq Handled

OnRecord(r) == \E n \in 1 .. Len(handled) : <<r, n>> \in recorded

Failures ==
  /\ \A f \in recorded : f[2] \in DOMAIN handled /\ handled[f[2]] = f[1]
  /\ pc \in {"start", "targets", "rows", "done", "over"} => \A r \in raised : OnRecord(r)
  /\ pc = "failing" => \A r \in raised : r = handled[Len(handled)] \/ OnRecord(r)

Seen == since \subseteq seen /\ matching \subseteq seen /\ page \subseteq seen

IInv ==
  /\ Typed
  /\ Counted
  /\ Begun
  /\ EachOnce
  /\ Window
  /\ Covered
  /\ Failures
  /\ Seen

LEMMA InitIInv == Init => IInv
<1> SUFFICES ASSUME Init PROVE IInv
  OBVIOUS
<1>1. Typed
  BY InitTyped
<1>2. handled = <<>> /\ DOMAIN handled = {} /\ Len(handled) = 0 /\ Handled = {}
  BY DEF Init, Handled
<1> QED
  BY <1>1, <1>2 DEF Init, IInv, Counted, Begun, EachOnce, Window, Covered, Failures, Seen, InRows

(* What handling a row does to the history. *)
LEMMA HandledGrows ==
  ASSUME Typed, NEW r \in rows, handled' = Append(handled, r)
  PROVE  /\ Handled' = Handled \cup {r}
         /\ Len(handled') = Len(handled) + 1 /\ handled' # <<>>
         /\ handled'[Len(handled')] = r
         /\ \A i \in DOMAIN handled : i \in DOMAIN handled' /\ handled'[i] = handled[i]
         /\ r \notin Handled /\ EachOnce => EachOnce'
<1>1. handled \in Seq(rows) /\ Len(handled) \in Nat
  BY DEF Typed, TypeOK
<1>2. /\ Len(handled') = Len(handled) + 1
      /\ \A i \in 1 .. Len(handled) : handled'[i] = handled[i]
      /\ handled'[Len(handled) + 1] = r
      /\ DOMAIN handled' = 1 .. Len(handled) + 1 /\ DOMAIN handled = 1 .. Len(handled)
  BY <1>1, AppendFacts
<1>3. Handled' = Handled \cup {r}
  BY <1>1, <1>2 DEF Handled
<1>4. handled' # <<>>
  BY <1>1, <1>2
<1>5. r \notin Handled /\ EachOnce => EachOnce'
  BY <1>1, <1>2 DEF EachOnce, Handled
<1> QED
  BY <1>1, <1>2, <1>3, <1>4, <1>5

(* One is called for a row: it committed, or it threw. *)
LEMMA HandleStep ==
  ASSUME IInv, NEW r \in rows, OneCommits(r) \/ OneRaises(r), Typed'
  PROVE  IInv'
<1>1. /\ pc = "rows" /\ r \in todo /\ r \in page
      /\ todo' = todo \ {r} /\ handled' = Append(handled, r) /\ count' = count + 1
      /\ UNCHANGED <<job, rows, recorded, after, page, since, seen>>
      /\ matching' = matching \/ matching' = matching \ {r}
      /\ PagedNow => \A s \in todo : KeyOf(r) <= KeyOf(s)
  BY DEF OneCommits, OneRaises, IsNext, Effect, IInv, Typed, TypeOK, PagedNow
<1>2. pc' \in {"rows", "failing", "aborting"}
  BY <1>1 DEF OneCommits, OneRaises
<1>3. /\ Handled' = Handled \cup {r}
      /\ Len(handled') = Len(handled) + 1 /\ handled' # <<>>
      /\ handled'[Len(handled')] = r
      /\ \A i \in DOMAIN handled : i \in DOMAIN handled' /\ handled'[i] = handled[i]
      /\ r \notin Handled /\ EachOnce => EachOnce'
  BY <1>1, HandledGrows DEF IInv
<1>4. PagedNow' = PagedNow
  BY <1>1 DEF PagedNow
<1>5. r \notin Handled
  <2>1. KeyOf(r) \in Int /\ after \in Int
    BY RowKeys, KeysAssumption DEF IInv, Typed, TypeOK
  <2> QED
    BY <1>1, <2>1 DEF IInv, Window, InRows
<1>6. Counted' /\ Begun'
  BY <1>1, <1>2, <1>3 DEF IInv, Counted, Begun
<1>7. Window'
  BY <1>1, <1>2, <1>3, <1>4 DEF IInv, Window, InRows
<1>8. Covered'
  <2>1. \A key : KeyIn(key, Handled) \/ KeyIn(key, todo) => KeyIn(key, Handled') \/ KeyIn(key, todo')
    BY <1>1, <1>3 DEF KeyIn
  <2>2. \A key : KeyIn(key, Handled) => KeyIn(key, Handled')
    BY <1>3 DEF KeyIn
  <2> QED
    BY <1>1, <1>2, <1>3, <1>4, <2>1, <2>2 DEF IInv, Covered, InRows
<1>9. Failures'
  <2>1. handled \in Seq(rows) /\ Len(handled) \in Nat /\ DOMAIN handled = 1 .. Len(handled)
    BY DEF IInv, Typed, TypeOK
  <2>2. ASSUME NEW s \in rows, OnRecord(s) PROVE OnRecord(s)'
    <3>1. PICK n \in 1 .. Len(handled) : <<s, n>> \in recorded
      BY <2>2 DEF OnRecord
    <3>2. n \in 1 .. Len(handled') /\ <<s, n>> \in recorded'
      BY <1>1, <1>3, <2>1, <3>1
    <3> QED
      BY <3>2 DEF OnRecord
  <2>3. raised' = raised \/ (raised' = raised \cup {r} /\ pc' # "rows")
    BY DEF OneCommits, OneRaises
  <2>4. \A s \in raised : OnRecord(s) /\ s \in rows
    BY <1>1 DEF IInv, Failures, Typed, TypeOK
  <2>5. \A f \in recorded' : f[2] \in DOMAIN handled' /\ handled'[f[2]] = f[1]
    BY <1>1, <1>3 DEF IInv, Failures
  <2>6. pc' = "rows" => \A s \in raised' : OnRecord(s)'
    BY <1>2, <2>2, <2>3, <2>4
  <2>7. pc' = "failing" => \A s \in raised' : s = handled'[Len(handled')] \/ OnRecord(s)'
    BY <1>3, <2>2, <2>3, <2>4
  <2> QED
    BY <1>2, <2>5, <2>6, <2>7 DEF Failures
<1>10. Seen'
  BY <1>1 DEF IInv, Seen
<1> QED
  BY <1>3, <1>5, <1>6, <1>7, <1>8, <1>9, <1>10 DEF IInv

(* Failed records the row that One was last called for. *)
LEMMA RecordStep ==
  ASSUME IInv, NEW r \in rows, RecordFailure(r), Typed'
  PROVE  IInv'
<1>1. /\ pc = "failing" /\ pc' = "rows" /\ r = handled[Len(handled)] /\ handled # <<>>
      /\ recorded' = recorded \cup {<<r, count>>}
      /\ UNCHANGED <<job, rows, matching, after, page, todo, count, since, seen, handled, raised>>
  BY DEF RecordFailure, Goto, history
<1>2. handled \in Seq(rows) /\ DOMAIN handled = 1 .. Len(handled) /\ Len(handled) \in 1 .. Len(handled)
  BY <1>1 DEF IInv, Typed, TypeOK
<1>3. count = Len(handled)
  BY DEF IInv, Counted
<1>4. Handled' = Handled /\ PagedNow' = PagedNow /\ InRows /\ InRows'
  BY <1>1 DEF Handled, PagedNow, InRows
<1>5. Counted' /\ Begun' /\ EachOnce'
  BY <1>1 DEF IInv, Counted, Begun, EachOnce
<1>6. Window' /\ Covered' /\ Seen'
  BY <1>1, <1>4 DEF IInv, Window, Covered, Seen, InRows
<1>7. Failures'
  <2>1. \A f \in recorded' : f[2] \in DOMAIN handled' /\ handled'[f[2]] = f[1]
    BY <1>1, <1>2, <1>3 DEF IInv, Failures
  <2>2. ASSUME NEW s \in raised PROVE OnRecord(s)'
    <3>1. CASE s = handled[Len(handled)]
      BY <1>1, <1>2, <1>3, <3>1 DEF OnRecord
    <3>2. CASE OnRecord(s)
      BY <1>1, <3>2 DEF OnRecord
    <3> QED
      BY <1>1, <3>1, <3>2 DEF IInv, Failures
  <2> QED
    BY <1>1, <2>1, <2>2 DEF Failures
<1> QED
  BY <1>5, <1>6, <1>7 DEF IInv

(* A page is read: the keys in front of it are handled, and of each key up *)
(* to its last one it has a row.                                           *)
LEMMA ReadStep ==
  ASSUME IInv, ReadTargets, Typed'
  PROVE  IInv'
<1>1. PICK p \in SUBSET matching :
        /\ IF PagedNow THEN PageOf(p, Behind(after)) ELSE p = matching
        /\ page' = p /\ todo' = p
        /\ pc' = IF p = {} THEN "done" ELSE "rows"
  BY DEF ReadTargets, PagedNow
<1>2. /\ pc = "targets" /\ ~Refused
      /\ UNCHANGED <<job, rows, matching, recorded, after, count, since, seen, handled, raised>>
  BY DEF ReadTargets, table, history
<1>3. Handled' = Handled /\ PagedNow' = PagedNow
  BY <1>2 DEF Handled, PagedNow
<1>4. Counted' /\ Begun' /\ EachOnce' /\ Seen'
  BY <1>1, <1>2 DEF IInv, Counted, Begun, EachOnce, Seen
<1>5. Failures'
  <2>1. \A s \in raised : OnRecord(s)' = OnRecord(s)
    BY <1>2 DEF OnRecord
  <2> QED
    BY <1>1, <1>2, <2>1 DEF IInv, Failures
<1>6. /\ \A r \in rows : KeyOf(r) \in Int
      /\ after \in Int /\ matching \subseteq rows /\ since \subseteq rows
  BY RowKeys, KeysAssumption DEF IInv, Typed, TypeOK
<1>7. CASE ~PagedNow
  <2>1. handled = <<>> /\ Handled = {}
    BY <1>2, <1>7 DEF IInv, Window, Handled
  <2>2. Window' /\ Covered'
    BY <1>1, <1>2, <1>3, <1>7, <2>1 DEF IInv, Window, Covered, InRows
  <2> QED
    BY <1>4, <1>5, <2>2 DEF IInv
<1>8. CASE PagedNow
  <2>1. /\ p \subseteq Behind(after)
        /\ \A r \in p, s \in Behind(after) \ p : KeyOf(r) <= KeyOf(s)
        /\ p = Behind(after) \/ (IsFiniteSet(p) /\ Cardinality(p) = job.batch)
    BY <1>1, <1>8 DEF PageOf
  <2>2. p = {} => Behind(after) = {}
    <3>1. job.batch \in Nat /\ ~(job.batch < 1)
      BY <1>2, <1>8, JobsAssumption DEF IInv, Typed, Fixed, Refused, PagedNow
    <3>2. Cardinality({}) = 0
      BY FS_EmptySet
    <3> QED
      BY <2>1, <3>1, <3>2
  <2>3. Window'
    BY <1>1, <1>2, <1>3, <1>6, <1>8, <2>1 DEF IInv, Window, InRows, Behind
  <2>4. \A r \in since : KeyIn(KeyOf(r), Handled) \/ r \in Behind(after)
    BY <1>2, <1>6, <1>8 DEF IInv, Covered, Behind, KeyIn
  <2>5. ASSUME NEW r \in since, NEW q \in p, KeyOf(r) <= KeyOf(q)
        PROVE  KeyIn(KeyOf(r), Handled) \/ KeyIn(KeyOf(r), p)
    <3>1. CASE r \in Behind(after) \ p
      <4>1. r \in rows /\ q \in rows /\ KeyOf(q) = KeyOf(r)
        BY <1>6, <2>1, <2>5, <3>1 DEF Behind
      <4> QED
        BY <4>1 DEF KeyIn
    <3>2. CASE r \in p
      BY <3>2 DEF KeyIn
    <3> QED
      BY <2>4, <3>1, <3>2
  <2>6. Covered'
    BY <1>1, <1>2, <1>3, <1>8, <2>2, <2>4, <2>5 DEF IInv, Covered, InRows
  <2> QED
    BY <1>4, <1>5, <2>3, <2>6 DEF IInv
<1> QED
  BY <1>7, <1>8

(* The next page begins behind the last row of this one. *)
LEMMA NextPageStep ==
  ASSUME IInv, NextPage, Typed'
  PROVE  IInv'
<1>1. /\ pc = "rows" /\ todo = {}
      /\ UNCHANGED <<job, rows, matching, recorded, page, todo, count, since, seen, handled, raised>>
  BY DEF NextPage, table, history
<1>2. Handled' = Handled /\ PagedNow' = PagedNow /\ InRows
  BY <1>1 DEF Handled, PagedNow, InRows
<1>3. pc' \in {"targets", "done"}
  BY DEF NextPage
<1>4. Counted' /\ Begun' /\ EachOnce' /\ Seen'
  BY <1>1, <1>3 DEF IInv, Counted, Begun, EachOnce, Seen
<1>5. Failures'
  <2>1. \A s \in raised : OnRecord(s)' = OnRecord(s)
    BY <1>1 DEF OnRecord
  <2> QED
    BY <1>1, <1>3, <2>1 DEF IInv, Failures
<1>6. Window' /\ Covered'
  <2>1. CASE ~PagedNow
    <3>1. pc' = "done"
      BY <2>1 DEF NextPage, PagedNow
    <3> QED
      BY <1>1, <1>2, <2>1, <3>1 DEF IInv, Window, Covered, InRows
  <2>2. CASE PagedNow
    <3>1. PICK q \in page : /\ \A s \in page : KeyOf(s) <= KeyOf(q)
                            /\ after' = KeyOf(q) /\ pc' = "targets"
      BY <2>2 DEF NextPage, PagedNow, LastOf
    <3>2. /\ \A r \in rows : KeyOf(r) \in Int
          /\ after \in Int /\ page \subseteq rows /\ since \subseteq rows
      BY RowKeys, KeysAssumption DEF IInv, Typed, TypeOK
    <3>3. \A r \in Handled : r \in rows
      BY DEF Handled, IInv, Typed, TypeOK
    <3>4. Window'
      BY <1>1, <1>2, <2>2, <3>1, <3>2, <3>3 DEF IInv, Window, InRows
    <3>5. \A key : ~KeyIn(key, todo)
      BY <1>1 DEF KeyIn
    <3>6. Covered'
      BY <1>1, <1>2, <2>2, <3>1, <3>2, <3>5 DEF IInv, Covered, InRows
    <3> QED
      BY <3>4, <3>6
  <2> QED
    BY <2>1, <2>2
<1> QED
  BY <1>4, <1>5, <1>6 DEF IInv

LEMMA StartStep ==
  ASSUME IInv, StartPart, Typed'
  PROVE  IInv'
<1>1. /\ pc = "start" /\ pc' = "targets"
      /\ UNCHANGED <<job, rows, matching, recorded, after, page, todo, count, since, seen, handled, raised>>
  BY DEF StartPart, Goto, history
<1>2. handled = <<>> /\ after = First /\ Handled = {}
  BY <1>1 DEF IInv, Begun, Handled
<1>3. Handled' = Handled /\ PagedNow' = PagedNow
  BY <1>1 DEF Handled, PagedNow
<1>4. \A r \in since : KeyOf(r) \in Int /\ First \in Int /\ First < KeyOf(r)
  BY RowKeys, KeysAssumption DEF IInv, Typed, TypeOK
<1>5. Counted' /\ Begun' /\ EachOnce' /\ Seen'
  BY <1>1 DEF IInv, Counted, Begun, EachOnce, Seen
<1>6. Window'
  BY <1>1, <1>2, <1>3 DEF Window, InRows
<1>7. Covered'
  BY <1>1, <1>2, <1>3, <1>4 DEF IInv, Covered, InRows
<1>8. Failures'
  <2>1. \A s \in raised : OnRecord(s)' = OnRecord(s)
    BY <1>1 DEF OnRecord
  <2> QED
    BY <1>1, <2>1 DEF IInv, Failures
<1> QED
  BY <1>5, <1>6, <1>7, <1>8 DEF IInv

(* The ends of a run: Done, an exception out of the loop, a crash. *)
LEMMA EndStep ==
  ASSUME IInv, DonePart \/ PartRaises \/ BatchFails \/ Crash, Typed'
  PROVE  IInv'
<1>1. /\ (pc = "done" /\ pc' = "over") \/ pc' \in {"aborting", "aborted"}
      /\ UNCHANGED <<job, rows, matching, recorded, after, page, todo, count, since, seen, handled, raised>>
  BY DEF DonePart, PartRaises, BatchFails, Crash, Goto, table, history
<1>2. Handled' = Handled /\ PagedNow' = PagedNow
  BY <1>1 DEF Handled, PagedNow
<1>3. Counted' /\ Begun' /\ EachOnce' /\ Seen' /\ Window'
  BY <1>1 DEF IInv, Counted, Begun, EachOnce, Seen, Window, InRows
<1>4. Covered'
  BY <1>1, <1>2 DEF IInv, Covered, InRows
<1>5. Failures'
  <2>1. \A s \in raised : OnRecord(s)' = OnRecord(s)
    BY <1>1 DEF OnRecord
  <2> QED
    BY <1>1, <2>1 DEF IInv, Failures
<1> QED
  BY <1>3, <1>4, <1>5 DEF IInv

LEMMA RerunStep ==
  ASSUME IInv, Rerun, Typed'
  PROVE  IInv'
<1>1. /\ pc' = "start" /\ after' = First /\ page' = {} /\ count' = 0
      /\ handled' = <<>> /\ raised' = {} /\ recorded' = {}
      /\ matching' = matching /\ since' = matching /\ seen' = matching
  BY DEF Rerun
<1>2. Len(handled') = 0 /\ DOMAIN handled' = {}
  BY <1>1
<1>3. Counted' /\ Begun' /\ EachOnce' /\ Seen' /\ Window'
  BY <1>1, <1>2 DEF Counted, Begun, EachOnce, Seen, Window, InRows
<1>4. Covered' /\ Failures'
  BY <1>1 DEF Covered, Failures, InRows
<1> QED
  BY <1>3, <1>4 DEF IInv

LEMMA OtherStep ==
  ASSUME IInv, NEW r \in rows, OtherClient(r), Typed'
  PROVE  IInv'
<1>1. /\ UNCHANGED <<job, rows, recorded, pc, after, page, todo, count, handled, raised>>
      /\ since' \subseteq since /\ seen \subseteq seen'
      /\ since' \subseteq matching' \cup Handled
      /\ since' \subseteq seen' /\ matching' \subseteq seen'
  BY DEF OtherClient, Enters, Leaves, loop, IInv, Covered, Seen
<1>2. Handled' = Handled /\ PagedNow' = PagedNow
  BY <1>1 DEF Handled, PagedNow
<1>3. Counted' /\ Begun' /\ EachOnce' /\ Window' /\ Seen'
  BY <1>1, <1>2 DEF IInv, Counted, Begun, EachOnce, Seen, Window, InRows
<1>4. Covered'
  BY <1>1, <1>2 DEF IInv, Covered, InRows
<1>5. Failures'
  <2>1. \A s \in raised : OnRecord(s)' = OnRecord(s)
    BY <1>1 DEF OnRecord
  <2> QED
    BY <1>1, <2>1 DEF IInv, Failures
<1> QED
  BY <1>3, <1>4, <1>5 DEF IInv

LEMMA StepIInv ==
  ASSUME IInv, [Next]_vars
  PROVE  IInv'
<1>1. Typed'
  BY StepTyped DEF IInv
<1>2. CASE UNCHANGED vars
  <2>1. UNCHANGED <<job, rows, matching, recorded, pc, after, page, todo, count, since, seen, handled, raised>>
    BY <1>2 DEF vars, table, loop, history
  <2> QED
    BY <1>1, <2>1 DEF IInv, Counted, Begun, EachOnce, Window, Covered, Failures, Seen,
                     InRows, PagedNow, Handled, OnRecord
<1>3. CASE Next
  BY <1>1, <1>3, HandleStep, RecordStep, ReadStep, NextPageStep, StartStep, EndStep, RerunStep,
     OtherStep DEF Next, Driver
<1> QED
  BY <1>2, <1>3

---------------------------------------------------------------------------
(* No row is handed twice to One in a run. *)
THEOREM HandledOnce == Spec => []EachOnce
<1>1. IInv => EachOnce
  BY DEF IInv
<1> QED
  BY <1>1, InitIInv, StepIInv, PTL DEF Spec

(* A row whose key is handled is handled, where a key has one row. *)
LEMMA OneRow ==
  ASSUME Typed, PagedNow, OneRowPerKey, NEW r \in rows, KeyIn(KeyOf(r), Handled)
  PROVE  r \in Handled
<1>1. PICK h \in Handled : KeyOf(h) = KeyOf(r)
  BY DEF KeyIn
<1>2. h \in rows
  BY DEF Handled, Typed, TypeOK
<1>3. h = r
  BY <1>1, <1>2, PagedKeyIsUnique DEF Typed, Fixed, PagedNow, OneRowPerKey
<1> QED
  BY <1>1, <1>3

LEMMA AllHandled ==
  ASSUME IInv, OneRowPerKey, pc \in {"done", "over"}
  PROVE  since \subseteq Handled
<1>1. since \subseteq rows /\ Typed
  BY DEF IInv, Typed, TypeOK
<1>2. CASE PagedNow
  BY <1>1, <1>2, OneRow DEF IInv, Covered
<1>3. CASE ~PagedNow
  BY <1>3 DEF IInv, Covered
<1> QED
  BY <1>2, <1>3

(* A run that ends normally has handled a row of every key of which other  *)
(* clients left one in the query; and every such row, unless the query is  *)
(* paged with several rows for a key.                                      *)
THEOREM NothingMissed == Spec => []NoneMissed
<1>1. IInv => NoneMissed
  <2>1. ASSUME IInv, pc = "over", NEW r \in since PROVE KeyIn(KeyOf(r), Handled)
    <3>1. CASE PagedNow
      BY <2>1, <3>1 DEF IInv, Covered
    <3>2. CASE ~PagedNow
      BY <2>1, <3>2 DEF IInv, Covered, KeyIn
    <3> QED
      BY <3>1, <3>2
  <2> QED
    BY <2>1, AllHandled DEF NoneMissed, KeyIn
<1> QED
  BY <1>1, InitIInv, StepIInv, PTL DEF Spec

(* A run that ends normally has a record of every iteration that failed,   *)
(* at its position.                                                        *)
THEOREM FailedOnRecord == Spec => []FailuresOnRecord
<1>1. IInv => FailuresOnRecord
  BY DEF IInv, Failures, FailuresOnRecord, OnRecord
<1> QED
  BY <1>1, InitIInv, StepIInv, PTL DEF Spec

---------------------------------------------------------------------------
(* The split loop implements the cursor loop.                              *)

LEMMA CursorInit == Init => Cursor!Init
BY DEF Init, Cursor!Init

LEMMA CursorStep ==
  ASSUME IInv, [Next]_vars
  PROVE  [Cursor!Next]_(Cursor!vars)
<1>a. job' = job
  BY DEF Next, Driver, StartPart, ReadTargets, NextPage, DonePart, PartRaises, BatchFails, OneCommits,
         OneRaises, RecordFailure, Crash, Rerun, OtherClient, vars
<1>b. OneRowPerKey' = OneRowPerKey
  BY <1>a DEF OneRowPerKey
<1>1. CASE UNCHANGED vars
  BY <1>1, <1>b DEF vars, table, loop, history, Cursor!vars
<1>2. CASE StartPart \/ ReadTargets \/ NextPage \/ PartRaises \/ BatchFails \/ Crash
  <2>1. UNCHANGED <<rows, matching, since, seen, handled>> /\ pc # "over" /\ pc' # "over"
    BY <1>2 DEF StartPart, ReadTargets, NextPage, PartRaises, BatchFails, Crash, Goto, table, history
  <2> QED
    BY <2>1 DEF Cursor!vars
<1>3. CASE DonePart
  <2>1. /\ UNCHANGED <<rows, matching, since, seen, handled>> /\ pc = "done" /\ pc' = "over"
    BY <1>3 DEF DonePart, Goto, history
  <2>2. CASE OneRowPerKey
    <3>1. since \subseteq Handled
      BY <2>1, <2>2, AllHandled
    <3> QED
      BY <2>1, <1>b, <2>2, <3>1 DEF Cursor!Next, Cursor!Finish, Cursor!Handled, Handled
  <2>3. CASE ~OneRowPerKey
    BY <2>1, <1>b, <2>3 DEF Cursor!vars
  <2> QED
    BY <2>2, <2>3
<1>4. ASSUME NEW r \in rows, OneCommits(r) \/ OneRaises(r)
      PROVE  Cursor!Next
  <2>1. /\ pc = "rows" /\ pc' # "over" /\ r \in todo /\ handled' = Append(handled, r)
        /\ matching' = matching \/ matching' = matching \ {r}
        /\ UNCHANGED <<rows, since, seen>>
    BY <1>4 DEF OneCommits, OneRaises, IsNext, Effect
  <2>2. r \in seen
    BY <2>1 DEF IInv, Seen, Typed, TypeOK
  <2>3. r \notin Handled
    <3>1. KeyOf(r) \in Int /\ after \in Int /\ todo \subseteq page
      BY RowKeys, KeysAssumption DEF IInv, Typed, TypeOK
    <3> QED
      BY <2>1, <3>1 DEF IInv, Window, InRows
  <2>4. Cursor!Handle(r)
    BY <2>1, <2>2, <2>3 DEF Cursor!Handle, Cursor!Handled, Handled
  <2> QED
    BY <2>4 DEF Cursor!Next
<1>5. ASSUME NEW r \in rows, RecordFailure(r)
      PROVE  UNCHANGED Cursor!vars
  BY <1>5, <1>b DEF RecordFailure, Goto, history, Cursor!vars
<1>6. CASE Rerun
  <2>1. Cursor!Restart
    BY <1>6 DEF Rerun, Cursor!Restart, Cursor!Begin
  <2> QED
    BY <2>1 DEF Cursor!Next
<1>7. ASSUME NEW r \in rows, OtherClient(r)
      PROVE  Cursor!Next
  <2>1. Cursor!Enter(r) \/ Cursor!Leave(r)
    BY <1>7, <1>b DEF OtherClient, Enters, Leaves, loop, Cursor!Enter, Cursor!Leave
  <2> QED
    BY <2>1 DEF Cursor!Next
<1> QED
  BY <1>1, <1>2, <1>3, <1>4, <1>5, <1>6, <1>7 DEF Next, Driver

(* Every step of the split loop is a step of the cursor loop or changes    *)
(* nothing it knows of.                                                    *)
THEOREM PagesImplementCursor == Spec => ImplementsCursor
<1>1. Init => Cursor!Init
  BY CursorInit
<1>2. IInv /\ [Next]_vars => [Cursor!Next]_(Cursor!vars)
  BY CursorStep
<1> QED
  BY <1>1, <1>2, InitIInv, StepIInv, PTL DEF Spec, ImplementsCursor, Cursor!Spec
=============================================================================
