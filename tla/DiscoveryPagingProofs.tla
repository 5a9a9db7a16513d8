----------------------- MODULE DiscoveryPagingProofs -----------------------
(***************************************************************************)
(* Proof that reading a list by limits and offsets, which the client cuts  *)
(* into pages, skips nothing and always gets on.  The page that an offset  *)
(* is rounded to begins no later than the offset and ends after it         *)
(* (PageAround); so what a caller without a gap receives closes up with    *)
(* what it knows (SearchReaches).                                          *)
(***************************************************************************)
EXTENDS DiscoveryPaging, TLAPS

\* Division with a remainder, which the provers have no other fact about.
LEMMA Quotient ==
    ASSUME NEW n \in Nat, NEW s \in Nat, s > 0
    PROVE  /\ n \div s \in Nat
           /\ (n \div s) * s <= n
           /\ n < (n \div s + 1) * s
OBVIOUS

LEMMA PageAround ==
    ASSUME NEW limit \in Int, NEW offset \in Nat
    PROVE  /\ PageSize(limit) \in Nat /\ Page(limit, offset) * PageSize(limit) \in Nat
           /\ (Page(limit, offset) - 1) * PageSize(limit) <= offset
           /\ offset < Page(limit, offset) * PageSize(limit)
<1>1. PageSize(limit) \in Nat /\ PageSize(limit) > 0
  BY DEF PageSize
<1>2. /\ offset \div PageSize(limit) \in Nat
      /\ (offset \div PageSize(limit)) * PageSize(limit) <= offset
      /\ offset < (offset \div PageSize(limit) + 1) * PageSize(limit)
  BY <1>1, Quotient
<1>3. Page(limit, offset) = offset \div PageSize(limit) + 1
  BY DEF Page
<1>4. Page(limit, offset) \in Nat /\ Page(limit, offset) - 1 = offset \div PageSize(limit)
  BY <1>2, <1>3
<1> QED
  BY <1>1, <1>2, <1>3, <1>4

\* The prefix of an initial segment is that segment.
LEMMA PrefixOfSegment ==
    ASSUME TypeOK, NEW m \in 0..rows
    PROVE  Prefix(0..(m - 1)) = m
<1> DEFINE Gapless(n) == (\A i \in 0..(n - 1) : i \in 0..(m - 1)) /\ n \notin 0..(m - 1)
<1>1. m \in Nat /\ rows \in Nat
  BY PagingAssumption DEF TypeOK
<1>2. Gapless(m)
  BY <1>1
<1>3. ASSUME NEW n \in 0..rows, Gapless(n) PROVE n = m
  <2>1. ~(n < m)
    BY <1>1, <1>3
  <2>2. ~(m < n)
    <3> SUFFICES ASSUME m < n PROVE FALSE
      OBVIOUS
    <3>1. m \in 0..(n - 1)
      BY <1>1
    <3> QED
      BY <1>1, <1>3, <3>1
  <2> QED
    BY <1>1, <2>1, <2>2
<1> HIDE DEF Gapless
<1>4. (CHOOSE n \in 0..rows : Gapless(n)) = m
  BY <1>2, <1>3
<1> QED
  BY <1>4 DEF Prefix, Gapless

-----------------------------------------------------------------------------
PagingInv == TypeOK /\ NothingIsSkipped

\* How far a call gets.
Reach(limit) ==
    IF Page(limit, known) * PageSize(limit) < rows
    THEN Page(limit, known) * PageSize(limit) ELSE rows

LEMMA SearchReaches ==
    ASSUME PagingInv, NEW limit \in Limits, Search(limit)
    PROVE  /\ known' = Reach(limit) /\ known' \in known..rows
           /\ known < rows => known' > known
           /\ others' = {} /\ page' \subseteq 0..(rows - 1)
<1> DEFINE first == (Page(limit, known) - 1) * PageSize(limit)
           next == Page(limit, known) * PageSize(limit)
           got == 0..(known - 1) \cup others \cup Received(limit, known)
<1>1. known \in Nat /\ rows \in Nat /\ known <= rows /\ others = {} /\ limit \in Int
  BY PagingAssumption DEF PagingInv, TypeOK, NothingIsSkipped
<1>2. first \in Int /\ next \in Nat /\ first <= known /\ known < next
  <2>1. Page(limit, known) \in Int /\ PageSize(limit) \in Int
    BY <1>1, PageAround DEF Page, PageSize
  <2> QED
    BY <1>1, <2>1, PageAround
<1>3. Received(limit, known) = {i \in 0..(rows - 1) : first <= i /\ i < next}
  BY DEF Received, RowsOf
<1>4. Reach(limit) = IF next < rows THEN next ELSE rows
  BY DEF Reach
<1> HIDE DEF first, next
<1>5. /\ Reach(limit) \in known..rows
      /\ known < rows => Reach(limit) > known
  BY <1>1, <1>2, <1>4
<1>6. got = 0..(Reach(limit) - 1)
  BY <1>1, <1>2, <1>3, <1>4, <1>5
<1>7. /\ known' = Prefix(got) /\ others' = {i \in got : i > known'}
      /\ page' = Received(limit, known)
  BY DEF Search
<1> HIDE DEF got
<1>8. known' = Reach(limit)
  BY <1>1, <1>5, <1>6, <1>7, PrefixOfSegment DEF PagingInv
<1>9. others' = {}
  BY <1>1, <1>5, <1>6, <1>7, <1>8
<1> QED
  BY <1>3, <1>5, <1>7, <1>8, <1>9

LEMMA PagingInit == ASSUME Init PROVE PagingInv
BY PagingAssumption DEF Init, PagingInv, TypeOK, NothingIsSkipped

LEMMA PagingStep ==
    ASSUME PagingInv, [Next]_vars
    PROVE  PagingInv'
<1>1. known \in Nat /\ rows \in Nat /\ known <= rows /\ rows <= MaxRows
  BY PagingAssumption DEF PagingInv, TypeOK
<1>2. ASSUME NEW limit \in Limits, Search(limit) PROVE PagingInv'
  <2>1. /\ known' \in known..rows /\ others' = {} /\ page' \subseteq 0..(rows - 1)
    BY <1>2, SearchReaches
  <2>2. rows' = rows
    BY <1>2 DEF Search
  <2> QED
    BY <1>1, <2>1, <2>2 DEF PagingInv, TypeOK, NothingIsSkipped
<1>3. CASE Append
  BY <1>1, <1>3, PagingAssumption DEF Append, PagingInv, TypeOK, NothingIsSkipped
<1>4. CASE UNCHANGED vars
  BY <1>4 DEF vars, PagingInv, TypeOK, NothingIsSkipped
<1> QED
  BY <1>2, <1>3, <1>4 DEF Next

LEMMA PagingInvariant == Spec => []PagingInv
  BY PagingInit, PagingStep, PTL DEF Spec

\* discover() and search() skip no row, for every mixture of limits, zero and
\* below included, and every length of the list, however it grows meanwhile.
THEOREM PagesSkipNothing == Spec => []NothingIsSkipped
<1>1. PagingInv => NothingIsSkipped
  BY DEF PagingInv
<1> QED
  BY <1>1, PagingInvariant, PTL

\* A call that asks for what follows the known rows brings new ones, if any.
THEOREM PagesBringNewRows == Spec => CallsBringNewRows
<1>1. PagingInv /\ [Next]_vars
        => [\A limit \in Limits : Search(limit) /\ known < rows => known' > known]_vars
  BY SearchReaches
<1> QED
  BY <1>1, PagingInvariant, PTL DEF Spec, CallsBringNewRows
=============================================================================
