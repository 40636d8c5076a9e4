------------------------------ MODULE PagedList ------------------------------
(***************************************************************************)
(* The paged lists of jobs, executors, logs and heartbeats.                *)
(*                                                                         *)
(* A List counts the rows that match its filter and reads one page of them *)
(* in a second statement, outside any transaction; a reader of the whole   *)
(* list sends one such request per page.  Rows come, go and change place   *)
(* between any two of these steps.  One table, one filter and one reader   *)
(* are modelled: requests share nothing but the table.                     *)
(***************************************************************************)
EXTENDS Integers, FiniteSets

CONSTANTS
  LastId,        \* bound: ids are 1 .. LastId
  Statuses,      \* those IsValid accepts
  Stamps,        \* values of trigger_time or heartbeat_time; one for a list by id
  DefaultSize, MaxSize,   \* of a page
  MaxInt,        \* the greatest int; arithmetic wraps after it
  Pages, Sizes, AskedStatuses,   \* what a query string may carry
  MaxMoves,      \* bound: how many rows may leave or enter the list
  Nil            \* no row, no status asked for

ASSUME SizeAssumption ==
  /\ LastId \in Nat /\ MaxInt \in Nat
  /\ DefaultSize \in 1 .. MaxSize /\ MaxSize \in Nat
  /\ LastId + MaxSize <= MaxInt

ASSUME InputAssumption ==
  /\ Statuses \subseteq Int /\ Stamps \subseteq Int
  /\ Pages \subseteq Int /\ Sizes \subseteq Int /\ AskedStatuses \subseteq Int \cup {Nil}
  /\ MaxMoves \in Nat

Ids == 1 .. LastId
Row == [status : Statuses, stamp : Stamps]

ASSUME NilAssumption == Nil \notin Row /\ Nil \notin Int

VARIABLES
  rows,      \* the table: rows[i], or Nil
  nextId,    \* AUTO_INCREMENT
  page, size, asked,   \* the query string; asked is the status, or Nil
  walk,      \* how the reader goes on: "none", "untilEmpty", "byTotal"
  pc,        \* "count", "find", "answered", "refused" or "failed"
  total,     \* what Count has answered
  shown,     \* the rows of the last page
  seen,      \* history: the rows of all pages
  repeats,   \* history: how often a page has shown a row seen before
  stayed,    \* history: the rows listed from the start and never moved
  left, entered,          \* history: rows that have left and entered the list
  leftSince, enteredSince \* history: those between the Count and the Find of a page

tableVars   == <<rows, nextId>>
requestVars == <<page, size, asked, walk>>
moveVars    == <<stayed, left, entered>>
pageVars    == <<shown, seen, repeats>>
vars == <<tableVars, requestVars, pc, total, pageVars, moveVars, leftSince, enteredSince>>

-----------------------------------------------------------------------------
\* An int of the program, in two's complement.
Wrap(n) == ((n + MaxInt + 1) % (2 * (MaxInt + 1))) - (MaxInt + 1)

\* parseOptionalQueryInt8 reads an int and keeps its low eight bits.
Int8(n) == ((n + 128) % 256) - 128

(* PageQuery.Normalize *)
FirstPage == IF page <= 0 THEN 1 ELSE page

Limit == IF size <= 0 THEN DefaultSize ELSE IF size > MaxSize THEN MaxSize ELSE size

\* Mutants of Offset: it is computed before the size is cut; it lacks a row per page.
OffsetUncut   == Wrap((FirstPage - 1) * (IF size <= 0 THEN DefaultSize ELSE size))
OffsetOffByOne == Wrap((FirstPage - 1) * (Limit - 1))

Offset == Wrap((FirstPage - 1) * Limit)

(* The checks of the services' List. *)
Accepted ==
  /\ page >= 0 /\ size >= 0
  /\ asked # Nil => Int8(asked) \in Statuses

(* applyJobFilters and its likes; one status stands for all their conditions. *)
Matches(row) == row # Nil /\ (asked # Nil => row.status = Int8(asked))

Listed == {i \in Ids : Matches(rows[i])}

\* Mutant of Before: the ties of the stamp are left open.
BeforeByStamp(i, j) == rows[i].stamp > rows[j].stamp

(* Order: by stamp, then by id, both descending. *)
Before(i, j) ==
  \/ rows[i].stamp > rows[j].stamp
  \/ rows[i].stamp = rows[j].stamp /\ i > j

Rank(i) == Cardinality({j \in Listed : Before(j, i)})

(* SELECT ... LIMIT Limit OFFSET Offset; GORM writes only a positive OFFSET. *)
Skipped == IF Offset > 0 THEN Offset ELSE 0

PageRows == {i \in Listed : Rank(i) >= Skipped /\ Rank(i) < Skipped + Limit}

-----------------------------------------------------------------------------
Init ==
  /\ nextId \in 1 .. LastId + 1
  /\ rows \in [Ids -> Row \cup {Nil}]
  /\ \A i \in Ids : i >= nextId => rows[i] = Nil
  /\ page \in Pages /\ size \in Sizes /\ asked \in AskedStatuses
  /\ walk \in {"none", "untilEmpty", "byTotal"}
  \* A whole list is read from page 1; by the total only with a size the
  \* server takes as it is, since the answer carries the size asked for.
  /\ walk # "none" => page = 1
  /\ walk = "byTotal" => size \in 1 .. MaxSize
  /\ pc = "count"
  /\ total = 0 /\ shown = {} /\ seen = {} /\ repeats = 0
  /\ stayed = Listed
  /\ left = 0 /\ entered = 0 /\ leftSince = 0 /\ enteredSince = 0

-----------------------------------------------------------------------------
(* The row i becomes v. *)
Moves(i, v)  == rows[i] = Nil \/ v = Nil \/ rows[i].stamp # v.stamp
Leaves(i, v) == Matches(rows[i]) /\ (Moves(i, v) \/ ~Matches(v))
Enters(i, v) == Matches(v) /\ (Moves(i, v) \/ ~Matches(rows[i]))

Change(i, v) ==
  LET gone == IF Leaves(i, v) THEN 1 ELSE 0
      come == IF Enters(i, v) THEN 1 ELSE 0
  IN /\ left + entered < MaxMoves
     /\ rows' = [rows EXCEPT ![i] = v]
     /\ stayed' = IF Leaves(i, v) THEN stayed \ {i} ELSE stayed
     /\ left' = left + gone /\ entered' = entered + come
     /\ leftSince' = IF pc = "find" THEN leftSince + gone ELSE leftSince
     /\ enteredSince' = IF pc = "find" THEN enteredSince + come ELSE enteredSince
     /\ UNCHANGED <<requestVars, pc, total, pageVars>>

(* Create; Upsert of a heartbeat that is not there.  The stamp is the       *)
(* caller's clock, so a later row need not have a later stamp.              *)
Create(v) ==
  /\ nextId \in Ids
  /\ nextId' = nextId + 1
  /\ Change(nextId, v)

\* Mutant of SetStatus: the status is not checked.
SetAnyStatus(i, s) ==
  /\ rows[i] # Nil
  /\ Change(i, [rows[i] EXCEPT !.status = s + 1])
  /\ UNCHANGED nextId

(* UpdateStatus, Update *)
SetStatus(i, s) ==
  /\ rows[i] # Nil
  /\ Change(i, [rows[i] EXCEPT !.status = s])
  /\ UNCHANGED nextId

(* Upsert of a heartbeat that is there sets heartbeat_time. *)
Upsert(i, t) ==
  /\ rows[i] # Nil
  /\ Change(i, [rows[i] EXCEPT !.stamp = t])
  /\ UNCHANGED nextId

(* Delete, DeleteByJobID, DeleteByAppAndAddress, and the cascades *)
Delete(i) ==
  /\ rows[i] # Nil
  /\ Change(i, Nil)
  /\ UNCHANGED nextId

-----------------------------------------------------------------------------
(* 400 *)
Refuse ==
  /\ pc = "count" /\ ~Accepted
  /\ pc' = "refused"
  /\ UNCHANGED <<tableVars, requestVars, total, pageVars, moveVars, leftSince, enteredSince>>

Count ==
  /\ pc = "count" /\ Accepted
  /\ total' = Cardinality(Listed)
  /\ pc' = "find"
  /\ leftSince' = 0 /\ enteredSince' = 0
  /\ UNCHANGED <<tableVars, requestVars, pageVars, moveVars>>

Find ==
  /\ pc = "find"
  /\ shown' = PageRows
  /\ seen' = seen \cup PageRows
  /\ repeats' = repeats + Cardinality(PageRows \cap seen)
  /\ pc' = "answered"
  /\ UNCHANGED <<tableVars, requestVars, total, moveVars, leftSince, enteredSince>>

(* Either statement fails: 500. *)
DbFails ==
  /\ pc \in {"count", "find"} /\ Accepted
  /\ pc' = "failed"
  /\ UNCHANGED <<tableVars, requestVars, total, pageVars, moveVars, leftSince, enteredSince>>

\* The reader: until a page is empty, or until the pages it has asked for hold
\* as many rows as the total and the size of the answer say there are.
GoesOn ==
  \/ walk = "untilEmpty" /\ shown # {}
  \/ walk = "byTotal" /\ page * size < total

NextPage ==
  /\ pc = "answered" /\ GoesOn
  /\ page' = page + 1
  /\ pc' = "count"
  /\ UNCHANGED <<tableVars, size, asked, walk, total, pageVars, moveVars,
                 leftSince, enteredSince>>

-----------------------------------------------------------------------------
Next ==
  \/ \E v \in Row : Create(v)
  \/ \E i \in Ids :
       \/ \E s \in Statuses : SetStatus(i, s)
       \/ \E t \in Stamps : Upsert(i, t)
       \/ Delete(i)
  \/ Refuse \/ Count \/ Find \/ DbFails \/ NextPage

Spec == Init /\ [][Next]_vars

-----------------------------------------------------------------------------
TypeOK ==
  /\ rows \in [Ids -> Row \cup {Nil}] /\ nextId \in 1 .. LastId + 1
  /\ page \in Int /\ size \in Int /\ asked \in Int \cup {Nil}
  /\ walk \in {"none", "untilEmpty", "byTotal"}
  /\ pc \in {"count", "find", "answered", "refused", "failed"}
  /\ total \in Nat /\ repeats \in Nat
  /\ shown \subseteq Ids /\ seen \subseteq Ids /\ stayed \subseteq Ids
  /\ left \in Nat /\ entered \in Nat /\ leftSince \in Nat /\ enteredSince \in Nat

(* A page has as many rows as its answer's total leaves for it, but for the  *)
(* rows that left or entered between the two statements; so has page 0, and  *)
(* a page past the end is empty.  (A page whose first row has no number that *)
(* fits an int shows other rows, from the first on if the product wraps to a *)
(* negative one.)                                                            *)
AnswerIsPage ==
  (pc = "answered" /\ (FirstPage - 1) * Limit <= MaxInt) =>
    LET rest == total - (FirstPage - 1) * Limit
        n    == Cardinality(shown)
    IN /\ n <= Limit
       /\ n <= (IF rest + enteredSince > 0 THEN rest + enteredSince ELSE 0)
       /\ n >= (IF rest - leftSince < Limit THEN rest - leftSince ELSE Limit)

Missed == stayed \ seen

(* A reader that pages until nothing comes has missed no more of the rows    *)
(* that never moved than others have left the list meanwhile, each of which  *)
(* pulls one row over the edge of a page; one that stops by the total, no    *)
(* more than those and the ones that entered after the last Count.           *)
NothingMissed ==
  (pc = "answered" /\ ~GoesOn) =>
    /\ walk = "untilEmpty" => Cardinality(Missed) <= left
    /\ walk = "byTotal" => Cardinality(Missed) <= left + enteredSince

(* A row is shown again at most once for each row that has entered.          *)
NothingTwice == walk # "none" => repeats <= entered
=============================================================================
