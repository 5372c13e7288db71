------------------------------- MODULE Paging -------------------------------
(***************************************************************************)
(* GET /api/v1/users and ListUsers: a client walks the listing page by     *)
(* page, newest row first, sending back the next_cursor of each page with  *)
(* the next request, while other requests write.                           *)
(*                                                                         *)
(* A page is one Find in descending order of _id.  The Find is no snapshot:*)
(* the index scan looks at one row per step, and rows are inserted, edited *)
(* and deleted in between.  An _id is its rank among those ever allocated; *)
(* replicas draw ObjectIDs independently, so a new one is not always the   *)
(* largest.  Of a row's fields only "matches the query" is kept.           *)
(***************************************************************************)
EXTENDS Integers, Sequences, Functions

CONSTANTS
  MaxId,             \* bound: ids are 1..MaxId
  RawLimit,          \* integers a client may send as limit
  DefaultListLimit,
  MaxListLimit,
  None               \* no limit was sent, or it was refused

ASSUME PagingAssumption ==
  /\ MaxId \in Nat
  /\ RawLimit \subseteq Int
  /\ None \notin Int
  /\ MaxListLimit \in Nat \ {0}
  /\ DefaultListLimit \in 1..MaxListLimit

Id == 1..MaxId
Top == MaxId + 1   \* above every id: where a scan without a cursor starts

VARIABLES
  row,        \* id -> "unborn", "other", "match" or "gone"
  pc,         \* the client: "idle", "scan" or "done"
  limit,      \* page size of the request in progress
  cursor,     \* the cursor to send next
  at,         \* the scan has looked at every id from here up to its start
  docs,       \* rows the scan has returned
  delivered,  \* rows of all pages so far, in the order they came
  steady      \* history: rows that have matched since the walk began

walk == <<pc, limit, cursor, at, docs, delivered>>
vars == <<row, walk, steady>>

Matching == {i \in Id : row[i] = "match"}

TypeOK ==
  /\ row \in [Id -> {"unborn", "other", "match", "gone"}]
  /\ pc \in {"idle", "scan", "done"}
  /\ limit \in 1..MaxListLimit
  /\ cursor \in 1..Top /\ at \in 1..Top
  /\ docs \in Seq(Id) /\ delivered \in Seq(Id)
  /\ steady \subseteq Id

Init ==
  /\ row \in [Id -> {"unborn", "other", "match"}]
  /\ pc = "idle" /\ limit = DefaultListLimit
  /\ cursor = Top /\ at = Top
  /\ docs = <<>> /\ delivered = <<>>
  /\ steady = Matching

-----------------------------------------------------------------------------
(* Other requests: Create, Update and Delete of any row. *)

Becomes == [unborn |-> {"other", "match"},
            other  |-> {"match", "gone"},
            match  |-> {"other", "gone"},
            gone   |-> {}]

Write(i) ==
  /\ \E status \in Becomes[row[i]] :
       /\ row' = [row EXCEPT ![i] = status]
       /\ steady' = IF status = "match" THEN steady ELSE steady \ {i}
  /\ UNCHANGED walk

-----------------------------------------------------------------------------
(* The walk *)

\* Mutant: a limit above the maximum is let through.
ResolveUncapped(raw) ==
  IF raw = None THEN DefaultListLimit
  ELSE IF raw \in 1 .. MaxListLimit + 1 THEN raw ELSE None

\* ListFilter.Resolve.
Resolve(raw) ==
  IF raw = None THEN DefaultListLimit
  ELSE IF raw \in 1..MaxListLimit THEN raw ELSE None

Scan(raw, start) ==
  /\ pc = "idle"
  /\ IF Resolve(raw) = None
     THEN UNCHANGED <<pc, limit, at, docs>>
     ELSE /\ pc' = "scan"
          /\ limit' = Resolve(raw)
          /\ at' = start
          /\ docs' = <<>>
  /\ UNCHANGED <<row, steady, cursor, delivered>>

\* Mutant: the filter is $lte.
AskInclusive(raw) == Scan(raw, IF cursor = Top THEN Top ELSE cursor + 1)

\* The filter is {_id: {$lt: cursor}}; without a cursor there is none.
Ask(raw) == Scan(raw, cursor)

\* SetLimit(q.Limit + 1).
ScanOver == at = 1 \/ Len(docs) = limit + 1

\* The scan looks at the next lower id.
Look ==
  /\ pc = "scan"
  /\ ~ScanOver
  /\ at' = at - 1
  /\ docs' = IF at - 1 \in Matching THEN Append(docs, at - 1) ELSE docs
  /\ UNCHANGED <<row, steady, pc, limit, cursor, delivered>>

Page == SubSeq(docs, 1, limit)

\* Mutant: the cursor is the extra row, not the last one of the page.
ReturnExtraAsCursor ==
  /\ pc = "scan"
  /\ ScanOver
  /\ IF Len(docs) > limit
     THEN /\ delivered' = delivered \o Page
          /\ cursor' = docs[limit + 1]
          /\ pc' = "idle"
     ELSE /\ delivered' = delivered \o docs
          /\ cursor' = cursor
          /\ pc' = "done"
  /\ UNCHANGED <<row, steady, limit, at, docs>>

\* The extra row is dropped, and next_cursor is the last of those that stay.
Return ==
  /\ pc = "scan"
  /\ ScanOver
  /\ IF Len(docs) > limit
     THEN /\ delivered' = delivered \o Page
          /\ cursor' = docs[limit]
          /\ pc' = "idle"
     ELSE /\ delivered' = delivered \o docs
          /\ cursor' = cursor
          /\ pc' = "done"
  /\ UNCHANGED <<row, steady, limit, at, docs>>

Walk == (\E raw \in RawLimit \cup {None} : Ask(raw)) \/ Look \/ Return

Next == Walk \/ \E i \in Id : Write(i)

Spec == Init /\ [][Next]_vars

-----------------------------------------------------------------------------
Descending(s) == \A m, n \in DOMAIN s : m < n => s[m] > s[n]

(* "No row is duplicated ... when a write lands in between" (user_handler.go):
   the pages of a walk go strictly down, across page boundaries too. *)
NoRowTwice == Descending(delivered)

(* "... or missed": at the end the client has every row that matched from the
   first request to the last answer, whichever others came and went. *)
NothingMissed == pc = "done" => steady \subseteq Range(delivered)

(* The two above as the steps keep them up: what has come lies above the cursor,
   what the scan has returned between the place it is at and the cursor, and
   every steady row on either side of it is among them. *)
Within(s, low, high) == \A n \in DOMAIN s : low <= s[n] /\ s[n] < high

WalkInv ==
  /\ Descending(delivered)
  /\ steady \subseteq Matching
  /\ pc # "done" =>
       /\ Within(delivered, cursor, Top)
       /\ \A i \in steady : cursor <= i => i \in Range(delivered)
  /\ pc = "scan" =>
       /\ at <= cursor
       /\ Descending(docs)
       /\ Within(docs, at, cursor)
       /\ Len(docs) <= limit + 1
       /\ \A i \in steady : at <= i /\ i < cursor => i \in Range(docs)
  /\ NothingMissed
=============================================================================
