---------------------------- MODULE PagingProofs ----------------------------
(***************************************************************************)
(* Keyset pagination, proved for any number of rows and any page sizes: a  *)
(* walk returns no row twice and misses none that was there throughout.    *)
(***************************************************************************)
EXTENDS Paging, SequenceTheorems, TLAPS

WalkTyped == TypeOK /\ WalkInv

LEMMA WalkInit == Init => WalkTyped
<1> SUFFICES ASSUME Init PROVE WalkTyped
  OBVIOUS
<1>1. TypeOK
  BY PagingAssumption DEF Init, TypeOK, Id, Top, Matching
<1>2. WalkInv
  BY PagingAssumption
     DEF Init, WalkInv, Descending, Within, NothingMissed, Id, Top, Matching
<1> QED
  BY <1>1, <1>2 DEF WalkTyped

(* Two descending runs, the second below the first, make one. *)
LEMMA ConcatDescends ==
  ASSUME NEW s \in Seq(Id), NEW t \in Seq(Id), NEW low \in Int, NEW mid \in Int,
         NEW high \in Int, low <= mid, mid <= high,
         Descending(s), Descending(t), Within(s, mid, high), Within(t, low, mid)
  PROVE  /\ s \o t \in Seq(Id)
         /\ Descending(s \o t)
         /\ Within(s \o t, low, high)
         /\ Range(s \o t) = Range(s) \cup Range(t)
<1> DEFINE st == s \o t
<1>1. /\ st \in Seq(Id)
      /\ DOMAIN st = 1 .. Len(s) + Len(t)
      /\ Len(s) \in Nat /\ Len(t) \in Nat
      /\ DOMAIN s = 1..Len(s) /\ DOMAIN t = 1..Len(t)
      /\ \A i \in 1 .. Len(s) + Len(t) : st[i] = IF i <= Len(s) THEN s[i] ELSE t[i - Len(s)]
  BY ConcatProperties, LenProperties
<1>2. /\ \A i \in 1..Len(s) : s[i] \in Id /\ mid <= s[i] /\ s[i] < high
      /\ \A i \in 1..Len(t) : t[i] \in Id /\ low <= t[i] /\ t[i] < mid
  BY <1>1, LenProperties DEF Within
<1>3. Descending(st)
  <2> SUFFICES ASSUME NEW m \in 1 .. Len(s) + Len(t), NEW n \in 1 .. Len(s) + Len(t), m < n
               PROVE  st[m] > st[n]
    BY <1>1 DEF Descending
  <2>1. CASE n <= Len(s)
    BY <1>1, <2>1 DEF Descending
  <2>2. CASE m <= Len(s) /\ n > Len(s)
    <3>1. m \in 1..Len(s) /\ n - Len(s) \in 1..Len(t)
      BY <1>1, <2>2
    <3>2. st[m] = s[m] /\ st[n] = t[n - Len(s)]
      BY <1>1, <2>2
    <3>3. mid <= s[m] /\ t[n - Len(s)] < mid /\ s[m] \in Int /\ t[n - Len(s)] \in Int
      BY <1>2, <3>1 DEF Id
    <3> QED
      BY <3>2, <3>3
  <2>3. CASE m > Len(s)
    <3>1. m - Len(s) \in DOMAIN t /\ n - Len(s) \in DOMAIN t /\ m - Len(s) < n - Len(s)
      BY <1>1, <2>3
    <3>2. t[m - Len(s)] > t[n - Len(s)]
      BY <3>1 DEF Descending
    <3>3. st[m] = t[m - Len(s)] /\ st[n] = t[n - Len(s)]
      BY <1>1, <2>3
    <3> QED
      BY <3>2, <3>3
  <2> QED
    BY <1>1, <2>1, <2>2, <2>3
<1>4. Within(st, low, high)
  <2> SUFFICES ASSUME NEW n \in 1 .. Len(s) + Len(t)
               PROVE  low <= st[n] /\ st[n] < high
    BY <1>1 DEF Within
  <2>1. n \in 1..Len(s) \/ (n > Len(s) /\ n - Len(s) \in 1..Len(t))
    BY <1>1
  <2> QED
    BY <1>1, <1>2, <2>1 DEF Id
<1>5. Range(st) = Range(s) \cup Range(t)
  <2>1. \A i \in 1..Len(s) : i \in 1 .. Len(s) + Len(t) /\ st[i] = s[i]
    BY <1>1
  <2>2. \A i \in 1..Len(t) :
          i + Len(s) \in 1 .. Len(s) + Len(t) /\ st[i + Len(s)] = t[i]
    BY <1>1
  <2>3. \A i \in 1 .. Len(s) + Len(t) : i \in 1..Len(s) \/ i - Len(s) \in 1..Len(t)
    BY <1>1
  <2>4. Range(st) \subseteq Range(s) \cup Range(t)
    <3> SUFFICES ASSUME NEW i \in 1 .. Len(s) + Len(t)
                 PROVE  st[i] \in Range(s) \cup Range(t)
      BY <1>1 DEF Range
    <3>1. CASE i \in 1..Len(s)
      BY <1>1, <2>1, <3>1 DEF Range
    <3>2. CASE i - Len(s) \in 1..Len(t) /\ i \notin 1..Len(s)
      <4>1. st[i] = t[i - Len(s)]
        BY <1>1, <3>2
      <4> QED
        BY <1>1, <3>2, <4>1 DEF Range
    <3> QED
      BY <2>3, <3>1, <3>2
  <2>5. Range(s) \subseteq Range(st)
    <3> SUFFICES ASSUME NEW i \in DOMAIN s  PROVE s[i] \in Range(st)
      BY DEF Range
    <3>1. i \in DOMAIN st /\ st[i] = s[i]
      BY <1>1, <2>1
    <3> QED
      BY <3>1 DEF Range
  <2>6. Range(t) \subseteq Range(st)
    <3> SUFFICES ASSUME NEW i \in DOMAIN t  PROVE t[i] \in Range(st)
      BY DEF Range
    <3>1. i + Len(s) \in DOMAIN st /\ st[i + Len(s)] = t[i]
      BY <1>1, <2>2
    <3> QED
      BY <3>1 DEF Range
  <2> QED
    BY <2>4, <2>5, <2>6
<1> QED
  BY <1>1, <1>3, <1>4, <1>5

(* What others write: a row that ceases to match is no longer steady. *)
LEMMA WriteKeeps ==
  ASSUME WalkTyped, NEW i \in Id, Write(i)
  PROVE  WalkTyped'
<1>1. steady' \subseteq steady /\ steady' \subseteq Matching'
  BY DEF Write, WalkTyped, TypeOK, WalkInv, Matching
<1>2. TypeOK'
  BY <1>1 DEF Write, WalkTyped, TypeOK, walk, Becomes
<1>3. WalkInv'
  BY <1>1 DEF Write, WalkTyped, WalkInv, walk, Descending, Within, NothingMissed, Range
<1> QED
  BY <1>2, <1>3 DEF WalkTyped

LEMMA AskKeeps ==
  ASSUME WalkTyped, NEW raw \in RawLimit \cup {None}, Ask(raw)
  PROVE  WalkTyped'
<1> DEFINE size == Resolve(raw)
<1>1. size # None => size \in 1..MaxListLimit
  BY PagingAssumption DEF Resolve
<1>2. row' = row /\ steady' = steady /\ cursor' = cursor /\ delivered' = delivered /\ pc = "idle"
  BY DEF Ask, Scan
<1>3. CASE size = None
  <2>1. UNCHANGED vars
    BY <1>2, <1>3 DEF Ask, Scan, vars, walk
  <2> QED
    BY <2>1 DEF vars, walk, WalkTyped, TypeOK, WalkInv, Matching, Descending, Within,
                NothingMissed, Range
<1>4. CASE size # None
  <2>1. pc' = "scan" /\ limit' = size /\ at' = cursor /\ docs' = <<>>
    BY <1>4 DEF Ask, Scan
  <2>2. TypeOK'
    BY <1>1, <1>2, <1>4, <2>1 DEF WalkTyped, TypeOK
  <2>3. WalkInv'
    BY <1>1, <1>2, <1>4, <2>1, PagingAssumption
       DEF WalkTyped, TypeOK, WalkInv, Matching, Descending, Within, NothingMissed, Range,
           Top, Id
  <2> QED
    BY <2>2, <2>3 DEF WalkTyped
<1> QED
  BY <1>3, <1>4

(* A look at one row: it is appended when it matches. *)
LEMMA LookKeeps ==
  ASSUME WalkTyped, Look
  PROVE  WalkTyped'
<1> DEFINE i == at - 1
<1>1. /\ pc = "scan" /\ pc' = "scan" /\ at' = i
      /\ row' = row /\ steady' = steady /\ limit' = limit
      /\ cursor' = cursor /\ delivered' = delivered
      /\ limit \in 1..MaxListLimit /\ docs \in Seq(Id) /\ cursor \in 1..Top
      /\ TypeOK /\ WalkInv
  BY DEF Look, WalkTyped, TypeOK
<1>2. i \in Id /\ i < cursor /\ i + 1 = at /\ Len(docs) \in Nat /\ Len(docs) <= limit
  <2>1. at \in 1..Top /\ at # 1 /\ at <= cursor /\ Len(docs) # limit + 1
        /\ Len(docs) <= limit + 1
    BY <1>1 DEF Look, ScanOver, TypeOK, WalkInv
  <2>2. Len(docs) \in Nat
    BY <1>1, LenProperties
  <2> QED
    BY <1>1, <2>1, <2>2, PagingAssumption DEF Id, Top
<1>3. /\ docs' \in Seq(Id)
      /\ Descending(docs')
      /\ Within(docs', i, cursor)
      /\ Len(docs') <= limit + 1
      /\ Range(docs) \subseteq Range(docs')
      /\ i \in Matching => i \in Range(docs')
  <2>1. CASE i \in Matching
    <3>1. docs' = docs \o <<i>> /\ <<i>> \in Seq(Id) /\ Len(docs') = Len(docs) + 1
      BY <1>1, <1>2, <2>1 DEF Look
    <3>2. Descending(<<i>>) /\ Within(<<i>>, i, at) /\ i \in Range(<<i>>)
      BY <1>2 DEF Descending, Within, Range, Id
    <3>3. Descending(docs) /\ Within(docs, at, cursor) /\ at <= cursor /\ at \in Int
      BY <1>1 DEF WalkInv, TypeOK
    <3>4. i \in Int /\ cursor \in Int /\ i <= at
      BY <1>1, <1>2 DEF Id, Top
    <3>5. /\ Descending(docs \o <<i>>)
          /\ Within(docs \o <<i>>, i, cursor)
          /\ Range(docs \o <<i>>) = Range(docs) \cup Range(<<i>>)
          /\ docs \o <<i>> \in Seq(Id)
      BY <1>1, <3>1, <3>2, <3>3, <3>4, ConcatDescends
    <3>6. Len(docs') <= limit + 1
      BY <1>1, <1>2, <3>1
    <3> QED
      BY <3>1, <3>2, <3>5, <3>6
  <2>2. CASE i \notin Matching
    <3>1. docs' = docs
      BY <2>2 DEF Look
    <3>2. Within(docs, i, cursor)
      BY <1>1, <1>2, LenProperties DEF WalkInv, Within, Id, TypeOK
    <3> QED
      BY <1>1, <1>2, <2>2, <3>1, <3>2 DEF WalkInv
  <2> QED
    BY <2>1, <2>2
<1>4. TypeOK'
  BY <1>1, <1>2, <1>3, PagingAssumption DEF TypeOK, Id, Top
<1>5. \A k \in steady : i <= k /\ k < cursor => k \in Range(docs')
  <2> SUFFICES ASSUME NEW k \in steady, i <= k, k < cursor
               PROVE  k \in Range(docs')
    OBVIOUS
  <2>1. k \in Matching /\ k \in Int
    BY <1>1 DEF WalkInv, Matching, Id
  <2>2. k = i \/ at <= k
    BY <1>2, <2>1 DEF Id
  <2> QED
    BY <1>1, <1>3, <2>1, <2>2 DEF WalkInv
<1>6. WalkInv'
  BY <1>1, <1>2, <1>3, <1>5 DEF WalkInv, Matching, Descending, Within, NothingMissed, Range, Id
<1> QED
  BY <1>4, <1>6 DEF WalkTyped

(* The page is delivered: with an extra row the cursor moves down to its last row,
   without one the scan has reached the bottom and the walk is over. *)
LEMMA ReturnKeeps ==
  ASSUME WalkTyped, Return
  PROVE  WalkTyped'
<1>1. /\ pc = "scan" /\ row' = row /\ steady' = steady /\ limit' = limit
      /\ at' = at /\ docs' = docs
      /\ limit \in 1..MaxListLimit /\ cursor \in 1..Top /\ at \in 1..Top
      /\ docs \in Seq(Id) /\ delivered \in Seq(Id)
      /\ Len(docs) \in Nat /\ DOMAIN docs = 1..Len(docs)
      /\ \A n \in 1..Len(docs) : docs[n] \in Id
      /\ TypeOK /\ WalkInv /\ ScanOver
  BY LenProperties DEF Return, WalkTyped, TypeOK
<1>2. /\ Descending(docs) /\ Within(docs, at, cursor) /\ at <= cursor
      /\ Descending(delivered) /\ Within(delivered, cursor, Top)
      /\ Len(docs) <= limit + 1
      /\ \A k \in steady : cursor <= k => k \in Range(delivered)
      /\ \A k \in steady : at <= k /\ k < cursor => k \in Range(docs)
      /\ steady \subseteq Matching
  BY <1>1 DEF WalkInv
<1>0. limit \in Nat /\ limit >= 1
  <2>1. MaxListLimit \in Nat
    BY PagingAssumption
  <2> QED
    BY <1>1, <2>1
<1>3. CASE Len(docs) > limit
  <2>0. limit \in 1..Len(docs) /\ limit + 1 = Len(docs)
    <3>1. Len(docs) \in Nat /\ Len(docs) <= limit + 1
      BY <1>1, <1>2
    <3> QED
      BY <1>0, <1>3, <3>1
  <2>1. /\ delivered' = delivered \o Page /\ cursor' = docs[limit] /\ pc' = "idle"
        /\ limit \in Nat /\ limit >= 1 /\ limit \in 1..Len(docs) /\ limit + 1 = Len(docs)
    BY <1>0, <1>3, <2>0 DEF Return
  <2>2. /\ Page \in Seq(Id) /\ Len(Page) = limit /\ DOMAIN Page = 1..limit
        /\ \A n \in 1..limit : Page[n] = docs[n]
    <3>1. \A n \in 1..limit : docs[n] \in Id
      BY <1>1, <2>1
    <3> QED
      BY <2>1, <3>1, SubSeqProperties, LenProperties DEF Page
  <2>3. \A n \in 1..limit : docs[limit] <= docs[n] /\ docs[n] < cursor
    <3> SUFFICES ASSUME NEW n \in 1..limit PROVE docs[limit] <= docs[n] /\ docs[n] < cursor
      OBVIOUS
    <3>1. n \in DOMAIN docs /\ limit \in DOMAIN docs /\ docs[n] \in Id /\ docs[limit] \in Id
      BY <1>1, <2>1
    <3>2. n = limit \/ n < limit
      BY <2>1
    <3>3. n < limit => docs[n] > docs[limit]
      BY <1>2, <3>1 DEF Descending
    <3> QED
      BY <1>2, <3>1, <3>2, <3>3 DEF Within, Id
  <2>4. Descending(Page) /\ Within(Page, docs[limit], cursor)
    <3>1. \A m, n \in 1..limit : m < n => docs[m] > docs[n]
      <4>1. 1..limit \subseteq DOMAIN docs
        BY <1>1, <2>1
      <4> QED
        BY <1>2, <4>1 DEF Descending
    <3>2. Descending(Page)
      BY <2>2, <3>1 DEF Descending
    <3>3. Within(Page, docs[limit], cursor)
      BY <2>2, <2>3 DEF Within
    <3> QED
      BY <3>2, <3>3
  <2>5. docs[limit] \in Id /\ docs[limit] < cursor
    BY <1>1, <2>1, <2>3
  <2>6. /\ delivered' \in Seq(Id) /\ Descending(delivered')
        /\ Within(delivered', cursor', Top)
        /\ Range(delivered') = Range(delivered) \cup Range(Page)
    BY <1>1, <1>2, <2>1, <2>2, <2>4, <2>5, ConcatDescends, PagingAssumption DEF Id, Top
  <2>7. \A k \in steady : cursor' <= k => k \in Range(delivered')
    <3> SUFFICES ASSUME NEW k \in steady, docs[limit] <= k
                 PROVE  k \in Range(delivered) \cup Range(Page)
      BY <2>1, <2>6
    <3>1. k \in Id
      BY <1>2 DEF Matching
    <3>2. CASE cursor <= k
      BY <1>2, <3>2
    <3>3. CASE k < cursor
      <4>1. at <= docs[limit]
        BY <1>1, <1>2, <2>1 DEF Within
      <4>2. at <= k
        BY <1>1, <2>5, <3>1, <4>1 DEF Id, Top
      <4>3. PICK n \in 1..Len(docs) : docs[n] = k
        BY <1>1, <1>2, <3>3, <4>2 DEF Range
      <4>4. ~(limit < n)
        <5>1. limit < n => docs[limit] > docs[n]
          BY <1>1, <1>2, <2>1 DEF Descending
        <5> QED
          BY <2>5, <3>1, <4>3, <5>1 DEF Id
      <4>5. n \in 1..limit
        BY <2>1, <4>4
      <4> QED
        BY <2>2, <4>3, <4>5 DEF Range
    <3> QED
      BY <1>1, <3>1, <3>2, <3>3 DEF Id, Top
  <2>8. TypeOK'
    BY <1>1, <2>1, <2>5, <2>6, PagingAssumption DEF TypeOK, Id, Top
  <2>9. WalkInv'
    BY <1>1, <1>2, <2>1, <2>6, <2>7
       DEF WalkInv, Matching, Descending, Within, NothingMissed, Range
  <2> QED
    BY <2>8, <2>9 DEF WalkTyped
<1>4. CASE ~(Len(docs) > limit)
  <2>1. delivered' = delivered \o docs /\ cursor' = cursor /\ pc' = "done"
    BY <1>4 DEF Return
  <2>2. at = 1
    <3>1. Len(docs) \in Nat
      BY <1>1
    <3>2. at = 1 \/ Len(docs) = limit + 1
      BY <1>1 DEF ScanOver
    <3> QED
      BY <1>0, <1>4, <3>1, <3>2
  <2>3. /\ delivered' \in Seq(Id) /\ Descending(delivered')
        /\ Range(delivered') = Range(delivered) \cup Range(docs)
    BY <1>1, <1>2, <2>1, ConcatDescends, PagingAssumption DEF Id, Top
  <2>4. steady \subseteq Range(delivered')
    <3> SUFFICES ASSUME NEW k \in steady
                 PROVE  k \in Range(delivered) \cup Range(docs)
      BY <2>3
    <3>1. k \in Id
      BY <1>2 DEF Matching
    <3>2. 1 <= k /\ (cursor <= k \/ k < cursor)
      BY <1>1, <3>1 DEF Id, Top
    <3> QED
      BY <1>2, <2>2, <3>2
  <2>5. TypeOK'
    BY <1>1, <2>1, <2>3 DEF TypeOK
  <2>6. WalkInv'
    BY <1>1, <1>2, <2>1, <2>3, <2>4
       DEF WalkInv, Matching, Descending, Within, NothingMissed, Range
  <2> QED
    BY <2>5, <2>6 DEF WalkTyped
<1> QED
  BY <1>3, <1>4

LEMMA WalkInvariant == Spec => []WalkTyped
<1>1. WalkTyped /\ [Next]_vars => WalkTyped'
  <2>1. ASSUME WalkTyped, Next
        PROVE  WalkTyped'
    BY <2>1, WriteKeeps, AskKeeps, LookKeeps, ReturnKeeps DEF Next, Walk
  <2>2. ASSUME WalkTyped, UNCHANGED vars
        PROVE  WalkTyped'
    BY <2>2 DEF vars, walk, WalkTyped, TypeOK, WalkInv, Matching, Descending, Within,
                NothingMissed, Range
  <2> QED
    BY <2>1, <2>2
<1> QED
  BY WalkInit, <1>1, PTL DEF Spec

(* UserRepo.List and the cursor it returns: each variable has its type, so a page
   never has more than MaxListLimit rows. *)
THEOREM PagingTypes == Spec => []TypeOK
<1>1. WalkTyped => TypeOK
  BY DEF WalkTyped
<1> QED
  BY WalkInvariant, <1>1, PTL

(* "No row is duplicated [...] when a write lands in between": for any number of
   rows and writes and any page sizes, also when the sort key ties. *)
THEOREM RowsComeOnce == Spec => []NoRowTwice
<1>1. WalkTyped => NoRowTwice
  BY DEF WalkTyped, WalkInv, NoRowTwice
<1> QED
  BY WalkInvariant, <1>1, PTL

(* ... and none is missed that was there all the while the client walked. *)
THEOREM ListingIsExact == Spec => []NothingMissed
<1>1. WalkTyped => NothingMissed
  BY DEF WalkTyped, WalkInv
<1> QED
  BY WalkInvariant, <1>1, PTL
=============================================================================
