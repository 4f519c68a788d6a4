-------------------------- MODULE InternalListsProofs --------------------------
(***************************************************************************)
(* Proofs about the lists among the internal pages and the form of an      *)
(* Otsus label: the rows and switches they show are what the server has,   *)
(* and their notices are true, for any records, searches and pages, and    *)
(* however loads, submits, deletions and the colleagues' changes           *)
(* interleave.  The last section puts the pages together.                  *)
(***************************************************************************)
EXTENDS InternalPagesProofs

-----------------------------------------------------------------------------
(* The list of Otsus labels.                                                 *)

\* The label that is deleted on the server and still listed here.
Deleting == IF deletes = "done" THEN {target} ELSE {}

\* But for it, the rows read, the rows shown and the rows counted are the server's.
RowsListed ==
    /\ doc = "read" => groups \ Deleting = stored \cap Matches[query]
    /\ doc = "shown" => rows \ Deleting = stored \cap Matches[query]
    /\ asked => initial \ Deleting = stored

DaftarInv ==
    /\ Daftar!TypeOK
    /\ deletes # None => target # None
    /\ deletes = "done" => target \notin stored
    /\ ~unsure => RowsListed

LEMMA DaftarStart == Daftar!OtsusListAssumption /\ Daftar!Init => DaftarInv
BY DEF Daftar!OtsusListAssumption, Daftar!Init, DaftarInv, Daftar!TypeOK, RowsListed

LEMMA DaftarStep ==
    ASSUME Daftar!OtsusListAssumption, DaftarInv, [Daftar!Next]_Daftar!vars
    PROVE  DaftarInv'
<1> USE DEF DaftarInv, Daftar!TypeOK, RowsListed, Deleting, Daftar!OtsusListAssumption
<1>1. ASSUME NEW s \in Query, Daftar!Type(s) PROVE DaftarInv'
  BY <1>1 DEF Daftar!Type, Daftar!Restart
<1>2. ASSUME NEW l \in Record, Daftar!AskDelete(l) PROVE DaftarInv'
  BY <1>2 DEF Daftar!AskDelete
<1>3. CASE Daftar!CloseDialog
  BY <1>3 DEF Daftar!CloseDialog
<1>4. CASE Daftar!ConfirmDelete
  BY <1>4 DEF Daftar!ConfirmDelete
<1>5. CASE Daftar!TimerFires
  BY <1>5 DEF Daftar!TimerFires
<1>6. CASE Daftar!Read
  <2>1. stored \cap Matches[query] \subseteq Record
    OBVIOUS
  <2> QED
    BY <1>6, <2>1 DEF Daftar!Read
<1>7. CASE Daftar!LoadAnswered
  <2>1. query = "" => stored \cap Matches[query] = stored
    OBVIOUS
  <2> QED
    BY <1>7, <2>1 DEF Daftar!LoadAnswered
<1>8. CASE Daftar!LoadFailed
  BY <1>8 DEF Daftar!LoadFailed
<1>9. CASE Daftar!ServeDelete
  BY <1>9 DEF Daftar!ServeDelete
<1>10. CASE Daftar!Deleted
  BY <1>10 DEF Daftar!Deleted, Daftar!Restart
<1>11. CASE Daftar!DeleteFailed
  BY <1>11 DEF Daftar!DeleteFailed
<1>12. CASE UNCHANGED Daftar!vars
  BY <1>12 DEF Daftar!vars
<1> QED
  BY <1>1, <1>2, <1>3, <1>4, <1>5, <1>6, <1>7, <1>8, <1>9, <1>10, <1>11, <1>12
     DEF Daftar!Next, Daftar!LoadStep, Daftar!DeleteStep

\* The rows are those the search finds and the cards count all labels, once
\* nothing is in flight: whatever was deleted while a search was typed or a load
\* was on its way.
THEOREM LabelsListed ==
    ASSUME Daftar!OtsusListAssumption PROVE Daftar!Spec => [](Daftar!TypeOK /\ Daftar!ListAgrees)
<1>1. Daftar!OtsusListAssumption /\ DaftarInv => Daftar!TypeOK /\ Daftar!ListAgrees
  BY DEF DaftarInv, RowsListed, Deleting, Daftar!ListAgrees, Daftar!OtsusListAssumption
<1>2. Daftar!OtsusListAssumption /\ DaftarInv /\ [Daftar!Next]_Daftar!vars => DaftarInv'
  BY DaftarStep
<1> QED
  BY Daftar!OtsusListAssumption, DaftarStart, <1>1, <1>2, PTL DEF Daftar!Spec

-----------------------------------------------------------------------------
(* The lists that the browser filters itself.                                *)

LEMMA ListsCardinality ==
    \A S : Lists!Cardinality(S) = Cardinality(S) /\ (Lists!IsFiniteSet(S) <=> IsFiniteSet(S))
BY DEF Lists!Cardinality, Cardinality, Lists!IsFiniteSet, IsFiniteSet

\* The rows of a finite list have the places 1, 2, 3, ...
LEMMA EveryPlace ==
    ASSUME NEW S \in SUBSET Nat, IsFiniteSet(S), NEW k \in 1..Cardinality(S)
    PROVE  \E r \in S : Cardinality({s \in S : s <= r}) = k
<1> DEFINE upto(r) == {s \in S : s <= r}
           n == Cardinality(S)
           place == [r \in S |-> Cardinality(upto(r))]
<1>1. n \in Nat
  BY FS_CardinalityType
<1>2. ASSUME NEW r \in S PROVE IsFiniteSet(upto(r)) /\ Cardinality(upto(r)) \in 1..n
  <2>1. upto(r) \in SUBSET S /\ r \in upto(r)
    OBVIOUS
  <2>2. IsFiniteSet(upto(r)) /\ Cardinality(upto(r)) <= n
    BY <2>1, FS_Subset
  <2>3. Cardinality(upto(r)) \in Nat /\ Cardinality(upto(r)) # 0
    BY <2>1, <2>2, FS_CardinalityType, FS_EmptySet
  <2> QED
    BY <1>1, <2>2, <2>3
<1>3. ASSUME NEW r \in S, NEW q \in S, r < q PROVE Cardinality(upto(r)) # Cardinality(upto(q))
  <2>1. \A s \in S : s \in Nat
    OBVIOUS
  <2>2. \A s \in S : s <= r => s <= q
    BY <1>3, <2>1
  <2>3. q \in upto(q) /\ q \notin upto(r)
    BY <1>3, <2>1
  <2> QED
    <3>1. upto(r) \in SUBSET upto(q)
      BY <2>2
    <3> HIDE DEF upto
    <3> QED
      BY <1>2, <2>3, <3>1, FS_Subset
<1>4. place \in Injection(S, 1..n)
  <2>1. place \in [S -> 1..n]
    BY <1>2
  <2>2. ASSUME NEW r \in S, NEW q \in S, place[r] = place[q] PROVE r = q
    <3>1. r \in Nat /\ q \in Nat
      OBVIOUS
    <3> QED
      BY <1>3, <2>2, <3>1
  <2> HIDE DEF place
  <2> QED
    BY <2>1, <2>2 DEF Injection, IsInjective
<1>5. IsFiniteSet(1..n) /\ Cardinality(1..n) = n
  BY <1>1, FS_Interval
<1>6. place \in Surjection(S, 1..n)
  <2> HIDE DEF place, n
  <2>1. Cardinality(S) = Cardinality(1..n)
    BY <1>5 DEF n
  <2> QED
    BY <1>4, <1>5, <2>1, FS_Injection
<1>7. \E r \in S : place[r] = k
  <2> HIDE DEF place
  <2> QED
    BY <1>6 DEF Surjection
<1> QED
  BY <1>7

\* There is a page, and the one shown is one there is.
LEMMA PagesThere ==
    ASSUME Lists!ListsAssumption, Lists!TypeOK
    PROVE  LET n == Cardinality(Lists!Found) IN
           /\ Lists!Found \subseteq records /\ IsFiniteSet(Lists!Found) /\ n \in Nat
           /\ size \in Nat \ {0}
           /\ Lists!TotalPages \in Nat \ {0} /\ Lists!CurrentPage \in 1..Lists!TotalPages
           /\ n > 0 => (Lists!CurrentPage - 1) * size < n
<1> DEFINE n == Cardinality(Lists!Found)
           full == (n + size - 1) \div size
<1>1. size \in Nat /\ size > 0 /\ page \in Nat /\ page > 0
  BY DEF Lists!TypeOK, Lists!ListsAssumption
<1>2. Lists!Found \in SUBSET records
  BY DEF Lists!TypeOK, Lists!Found, Lists!BumFound, Lists!KelompokFound, Lists!CapaianFound,
         Lists!ArsipFound
<1>3. IsFiniteSet(Lists!Found)
  <2>1. IsFiniteSet(Record) /\ Lists!Found \in SUBSET Record
    BY <1>2, ListsCardinality DEF Lists!ListsAssumption, Lists!TypeOK
  <2> QED
    BY <2>1, FS_Subset
<1>4. n \in Nat
  BY <1>3, FS_CardinalityType
<1>5. full \in Nat /\ full * size <= n + size - 1 /\ (n > 0 => full > 0)
  <2> HIDE DEF n
  <2>1. n + size - 1 \in Nat
    BY <1>1, <1>4
  <2>2. full \in Nat /\ full * size <= n + size - 1 /\ n + size - 1 < full * size + size
    BY <1>1, <2>1
  <2>3. full = 0 => full * size = 0
    BY <1>1
  <2> HIDE DEF full
  <2> QED
    BY <1>1, <1>4, <2>2, <2>3
<1>6. Lists!TotalPages = IF full > 0 THEN full ELSE 1
  <2>1. Lists!TotalPages = CHOOSE x \in {1, full} : \A y \in {1, full} : x >= y
    BY ListsCardinality DEF Lists!TotalPages, Lists!Max
  <2> HIDE DEF full
  <2>2. DEFINE top == IF full > 0 THEN full ELSE 1
  <2>3. top \in {1, full} /\ \A y \in {1, full} : top >= y
    BY <1>5
  <2>4. \A x \in {1, full} : (\A y \in {1, full} : x >= y) => x = top
    BY <1>5
  <2> HIDE DEF top
  <2>5. (CHOOSE x \in {1, full} : \A y \in {1, full} : x >= y) = top
    BY <2>3, <2>4
  <2> QED
    BY <2>1, <2>5 DEF top
<1>7. Lists!TotalPages \in Nat \ {0}
  BY <1>5, <1>6
<1>8. Lists!CurrentPage \in 1..Lists!TotalPages
  <2> DEFINE last == Lists!TotalPages
             least == IF page <= last THEN page ELSE last
  <2>1. Lists!CurrentPage = CHOOSE x \in {page, last} : \A y \in {page, last} : x <= y
    BY DEF Lists!CurrentPage, Lists!Min
  <2> HIDE DEF last
  <2>2. last \in Nat \ {0}
    BY <1>7 DEF last
  <2>3. least \in {page, last} /\ \A y \in {page, last} : least <= y
    BY <1>1, <2>2
  <2>4. \A x \in {page, last} : (\A y \in {page, last} : x <= y) => x = least
    BY <1>1, <2>2
  <2>5. least \in 1..last
    BY <1>1, <2>2
  <2> HIDE DEF least
  <2>6. (CHOOSE x \in {page, last} : \A y \in {page, last} : x <= y) = least
    BY <2>3, <2>4
  <2> QED
    BY <2>1, <2>5, <2>6 DEF last
<1>9. n > 0 => (Lists!CurrentPage - 1) * size < n
  <2> HIDE DEF full, n
  <2> SUFFICES ASSUME n > 0 PROVE (Lists!CurrentPage - 1) * size < n
    OBVIOUS
  <2>1. Lists!CurrentPage \in Nat /\ Lists!CurrentPage <= full /\ full \in Nat
    BY <1>5, <1>6, <1>8
  <2>2. (Lists!CurrentPage - 1) * size <= (full - 1) * size
    BY <1>1, <2>1
  <2>3. (full - 1) * size = full * size - size
    BY <1>1, <2>1
  <2>4. (Lists!CurrentPage - 1) * size \in Int /\ full * size \in Int
    BY <1>1, <2>1
  <2> QED
    BY <1>1, <1>4, <1>5, <2>2, <2>3, <2>4
<1> QED
  BY <1>1, <1>2, <1>3, <1>4, <1>7, <1>8, <1>9

\* No page of a list is empty while something is found: an invariant of the types
\* alone, because the page is cut to those there are when it is shown.
LEMMA PageHasRows ==
    ASSUME Lists!ListsAssumption, Lists!TypeOK PROVE Lists!PageShowsRows
<1> SUFFICES ASSUME Lists!Found # {}, here # "arsip" PROVE Lists!PagedRows # {}
  BY DEF Lists!PageShowsRows, Lists!Rows, Lists!Found
<1> DEFINE n == Cardinality(Lists!Found)
           k == (Lists!CurrentPage - 1) * size
<1>1. /\ Lists!Found \in SUBSET Nat /\ IsFiniteSet(Lists!Found) /\ n \in Nat /\ n # 0
      /\ size \in Nat \ {0} /\ Lists!CurrentPage \in Nat \ {0} /\ k < n
  <2>1. Lists!Found \in SUBSET Nat /\ IsFiniteSet(Lists!Found)
    BY PagesThere DEF Lists!ListsAssumption, Lists!TypeOK
  <2>2. n # 0
    BY <2>1, FS_EmptySet
  <2> QED
    BY <2>1, <2>2, PagesThere
<1>2. k \in Nat /\ k + 1 <= Lists!CurrentPage * size
  <2>1. k = Lists!CurrentPage * size - size /\ k \in Int /\ k >= 0
    BY <1>1
  <2>2. Lists!CurrentPage * size \in Int
    BY <1>1
  <2> HIDE DEF k
  <2> QED
    BY <1>1, <2>1, <2>2
<1> HIDE DEF k
<1>3. k + 1 \in 1..n
  BY <1>1, <1>2
<1>4. PICK r \in Lists!Found : Cardinality({s \in Lists!Found : s <= r}) = k + 1
  BY <1>1, <1>3, EveryPlace
<1>5. r \in Lists!PagedRows
  BY <1>2, <1>4, ListsCardinality DEF Lists!PagedRows, k
<1> QED
  BY <1>5

\* The record that is deleted on the server and still listed here.
Going == IF call.state = "done" THEN {call.record} ELSE {}

\* The one load there is comes before any dialog.  Then the list is the server's but
\* for what is deleted, or it was never loaded and nothing can be asked of it.
ListsInv ==
    /\ Lists!TypeOK
    /\ loading => records = {} /\ target = 0
    /\ call # Lists!NoCall => target = call.record
    /\ call.state = "done" => call.record \notin stored
    /\ ~loading /\ ~unsure => \/ records \ Going = stored
                              \/ error /\ records = {} /\ target = 0

LEMMA ListsStart == Lists!ListsAssumption /\ Lists!Init => ListsInv
<1> SUFFICES ASSUME Lists!ListsAssumption, Lists!Init PROVE ListsInv
  OBVIOUS
<1>1. /\ here \in {"bum", "kelompok", "capaian", "arsip"} /\ size \in Size \cup {FixedSize}
      /\ stored \subseteq Record /\ records = {} /\ groups = FALSE
      /\ chosen = [f \in Lists!Filter |-> None] /\ page = 1
      /\ loading = TRUE /\ error = FALSE /\ target = 0 /\ call = Lists!NoCall /\ unsure = FALSE
  BY DEF Lists!Init, Lists!BumInit, Lists!KelompokInit, Lists!CapaianInit, Lists!ArsipInit
<1>2. Lists!TypeOK
  <2>1. chosen \in [Lists!Filter -> Value \cup {None}]
    BY <1>1
  <2>2. page \in Nat \ {0}
    BY <1>1
  <2> QED
    BY <1>1, <2>1, <2>2 DEF Lists!TypeOK
<1>3. call.state = "none"
  BY <1>1 DEF Lists!NoCall
<1> QED
  BY <1>1, <1>2, <1>3 DEF ListsInv

\* A delete in flight.
LEMMA InFlight ==
    ASSUME Lists!TypeOK
    PROVE  /\ call # Lists!NoCall =>
                call.record \in Record /\ call.state \in {"sent", "done", "failed"}
           /\ call = Lists!NoCall => call.record = 0 /\ call.state = "none"
BY DEF Lists!TypeOK, Lists!NoCall

LEMMA RowsThere == ASSUME Lists!TypeOK PROVE Lists!Rows \subseteq records
BY DEF Lists!Rows, Lists!PagedRows, Lists!Found, Lists!BumFound, Lists!KelompokFound,
       Lists!CapaianFound, Lists!ArsipFound, Lists!TypeOK

LEMMA ListsStep ==
    ASSUME Lists!ListsAssumption, ListsInv, [Lists!Next]_Lists!vars
    PROVE  ListsInv'
<1> USE DEF ListsInv, Lists!TypeOK, Lists!shown, Going
<1>1. ASSUME NEW g \in BOOLEAN, Lists!Load(g) PROVE ListsInv'
  <2>1. call = Lists!NoCall
    BY <1>1, InFlight DEF Lists!Load, Lists!ListsAssumption
  <2> QED
    BY <1>1, <2>1, InFlight DEF Lists!Load
<1>2. ASSUME NEW f \in Lists!Filter, NEW v \in Value \cup {None}, Lists!Choose(f, v) PROVE ListsInv'
  BY <1>2 DEF Lists!Choose
<1>3. CASE Lists!ResetFilters
  BY <1>3 DEF Lists!ResetFilters
<1>4. ASSUME NEW n \in Size, Lists!BumSize(n) PROVE ListsInv'
  BY <1>4 DEF Lists!BumSize
<1>5. ASSUME NEW p, Lists!TurnPage(p) PROVE ListsInv'
  <2>1. p \in Nat \ {0}
    BY <1>5, PagesThere DEF Lists!TurnPage
  <2> QED
    BY <1>5, <2>1 DEF Lists!TurnPage
<1>6. ASSUME NEW r \in Record, Lists!Ask(r) PROVE ListsInv'
  <2>1. r \in records /\ call = Lists!NoCall
    BY <1>6, RowsThere, InFlight DEF Lists!Ask, Lists!Ready, Lists!ListsAssumption
  <2> QED
    BY <1>6, <2>1 DEF Lists!Ask
<1>7. CASE Lists!CloseDialog
  BY <1>7, InFlight DEF Lists!CloseDialog
<1>8. CASE Lists!ConfirmDelete
  <2> DEFINE sent == [record |-> target, state |-> "sent"]
  <2>1. call' = sent /\ target \in Record /\ ~loading /\ call = Lists!NoCall
    BY <1>8 DEF Lists!ConfirmDelete
  <2>2. sent \in [record : Record, state : {"sent", "done", "failed"}]
    BY <2>1
  <2>3. call'.record = target /\ call'.state = "sent" /\ call.state = "none"
    BY <2>1, InFlight
  <2> HIDE DEF sent
  <2> QED
    BY <1>8, <2>1, <2>2, <2>3 DEF Lists!ConfirmDelete
<1>9. CASE Lists!ServeDelete
  <2>1. PICK effect \in BOOLEAN, answered \in BOOLEAN :
          LET gone == effect /\ call.record \in stored IN
          /\ stored' = IF gone THEN stored \ {call.record} ELSE stored
          /\ call' = [call EXCEPT !.state = IF gone /\ answered THEN "done" ELSE "failed"]
          /\ unsure' = (unsure \/ (gone /\ ~answered))
    BY <1>9 DEF Lists!ServeDelete
  <2>2. call # Lists!NoCall /\ call.record \in Record /\ call.state = "sent" /\ target # 0
    BY <1>9, InFlight DEF Lists!ServeDelete, Lists!ListsAssumption
  <2>3. call' \in [record : Record, state : {"sent", "done", "failed"}]
        /\ call'.record = call.record
    BY <2>1, <2>2
  <2>4. call'.state = IF effect /\ call.record \in stored /\ answered THEN "done" ELSE "failed"
    BY <2>1, <2>2
  <2> QED
    BY <1>9, <2>1, <2>2, <2>3, <2>4 DEF Lists!ServeDelete
<1>10. CASE Lists!Deleted
  BY <1>10, InFlight DEF Lists!Deleted, Lists!EndDelete, Lists!NoCall, Lists!ListsAssumption
<1>11. CASE Lists!DeleteFailed
  BY <1>11, InFlight DEF Lists!DeleteFailed, Lists!EndDelete, Lists!NoCall, Lists!ListsAssumption
<1>12. CASE UNCHANGED Lists!vars
  BY <1>12 DEF Lists!vars
<1> QED
  BY <1>1, <1>2, <1>3, <1>4, <1>5, <1>6, <1>7, <1>8, <1>9, <1>10, <1>11, <1>12
     DEF Lists!Next, Lists!BumLoad, Lists!KelompokLoad, Lists!CapaianLoad, Lists!ArsipLoad,
         Lists!BumSearch, Lists!KelompokFilter, Lists!CapaianFilter, Lists!ArsipFilter,
         Lists!BumAsk, Lists!CapaianAsk, Lists!DeleteStep, Lists!Filter

\* With no delete in flight the list is the server's, and no page of it is shown
\* empty while something is found.
THEOREM RecordsListed ==
    ASSUME Lists!ListsAssumption
    PROVE  Lists!Spec => [](Lists!TypeOK /\ Lists!ListMatches /\ Lists!PageShowsRows)
<1>1. Lists!ListsAssumption /\ ListsInv => Lists!TypeOK /\ Lists!ListMatches /\ Lists!PageShowsRows
  <2> SUFFICES ASSUME Lists!ListsAssumption, ListsInv PROVE Lists!ListMatches
    BY PageHasRows DEF ListsInv
  <2> QED
    BY InFlight DEF ListsInv, Going, Lists!ListMatches
<1>2. Lists!ListsAssumption /\ ListsInv /\ [Lists!Next]_Lists!vars => ListsInv'
  BY ListsStep
<1> QED
  BY Lists!ListsAssumption, ListsStart, <1>1, <1>2, PTL DEF Lists!Spec

-----------------------------------------------------------------------------
(* The list of data kampung.                                                 *)

LEMMA KampungCardinality ==
    \A S : Kampung!Cardinality(S) = Cardinality(S) /\ (Kampung!IsFiniteSet(S) <=> IsFiniteSet(S))
BY DEF Kampung!Cardinality, Cardinality, Kampung!IsFiniteSet, IsFiniteSet

\* The server's answer is a page there is, of rows that match.
LEMMA PageCount ==
    ASSUME Kampung!KampungAssumption, NEW n \in Nat PROVE Kampung!Pages(n) \in Nat \ {0}
<1> DEFINE full == (n + PageSize - 1) \div PageSize
           top == IF full > 0 THEN full ELSE 1
<1>1. full \in Nat
  <2>1. PageSize \in Nat \ {0}
    BY DEF Kampung!KampungAssumption
  <2>2. n + PageSize - 1 \in Nat
    BY <2>1
  <2> QED
    BY <2>1, <2>2
<1>2. Kampung!Pages(n) = CHOOSE x \in {1, full} : \A y \in {1, full} : x >= y
  BY DEF Kampung!Pages, Kampung!Max
<1> HIDE DEF full
<1>3. top \in {1, full} /\ \A y \in {1, full} : top >= y
  BY <1>1
<1>4. \A x \in {1, full} : (\A y \in {1, full} : x >= y) => x = top
  BY <1>1
<1>5. top \in Nat \ {0}
  BY <1>1
<1> HIDE DEF top
<1> QED
  BY <1>2, <1>3, <1>4, <1>5

LEMMA AnswerFits ==
    ASSUME Kampung!KampungAssumption, stored \subseteq Kampung!AllRecords,
           NEW p \in Nat \ {0}, NEW q \in Query
    PROVE  LET a == Kampung!Answer(p, q) IN
           /\ a \in Kampung!Answers /\ a.records \subseteq Matches[q]
           /\ a.page \in 1..Kampung!Pages(a.total)
<1> DEFINE found == stored \cap Matches[q]
           n == Cardinality(found)
           last == Kampung!Pages(n)
           least == IF p <= last THEN p ELSE last
           least2 == CHOOSE x \in {p, last} : \A y \in {p, last} : x <= y
           rank(r) == Cardinality({s \in found : s <= r})
           rowsAt == {r \in found : rank(r) > (least2 - 1) * PageSize /\ rank(r) <= least2 * PageSize}
           a == Kampung!Answer(p, q)
<1>1. found \in SUBSET Kampung!AllRecords /\ IsFiniteSet(Kampung!AllRecords)
  BY KampungCardinality DEF Kampung!KampungAssumption
<1>2. n \in Nat
  BY <1>1, FS_Subset, FS_CardinalityType
<1>3. last \in Nat \ {0}
  BY <1>2, PageCount
<1>4. least2 = least /\ least \in 1..last
  <2> HIDE DEF last
  <2>1. least \in {p, last} /\ \A y \in {p, last} : least <= y
    BY <1>3
  <2>2. \A x \in {p, last} : (\A y \in {p, last} : x <= y) => x = least
    BY <1>3
  <2>3. least \in 1..last
    BY <1>3
  <2> HIDE DEF least
  <2> QED
    BY <2>1, <2>2, <2>3
<1>5. a = [records |-> rowsAt, total |-> n, page |-> least2] /\ rowsAt \subseteq found
  BY KampungCardinality DEF Kampung!Answer, Kampung!Min
<1> HIDE DEF a, rowsAt, least2, least, last, n
<1>6. a.page \in 1..last /\ a.page \in Nat \ {0}
  BY <1>3, <1>4, <1>5
<1>7. a \in Kampung!Answers
  BY <1>1, <1>2, <1>5, <1>6 DEF Kampung!Answers
<1> QED
  BY <1>5, <1>6, <1>7 DEF a, last

\* Answers are to the search they were asked for; only one load may still show its
\* own, and while it is on its way the list waits.
LoadsFollow ==
    /\ \A l \in loads : l.newest => loading
    /\ \A l, m \in loads : l.newest /\ m.newest => l = m
    /\ \A l \in loads : l.answer # Kampung!NoAnswer =>
          /\ l.answer.records \subseteq Matches[l.query]
          /\ l.answer.page \in 1..Kampung!Pages(l.answer.total)

\* That load is for the search in the field, unless the timer runs for another.
SearchFollowed ==
    ~armed /\ ~excused =>
       /\ \A l \in loads : l.newest => l.query = query
       /\ ~loading => records \subseteq Matches[query] /\ page \in 1..Kampung!Pages(total)

KampungInv == Kampung!TypeOK /\ LoadsFollow /\ SearchFollowed

LEMMA KampungStart == Kampung!KampungAssumption /\ Kampung!Init => KampungInv
<1> SUFFICES ASSUME Kampung!KampungAssumption, Kampung!Init PROVE KampungInv
  OBVIOUS
<1>1. Kampung!TypeOK
  <2>1. page \in Nat \ {0}
    <3>1. page = 1
      BY DEF Kampung!Init
    <3> QED
      BY <3>1
  <2>2. query \in Query
    BY DEF Kampung!Init, Kampung!KampungAssumption
  <2> QED
    BY <2>1, <2>2 DEF Kampung!Init, Kampung!TypeOK
<1> QED
  BY <1>1 DEF Kampung!Init, KampungInv, LoadsFollow, SearchFollowed

\* A new load takes their claim from those before it.
LEMMA LoadStarted ==
    ASSUME Kampung!TypeOK, LoadsFollow, NEW p \in Nat \ {0}, NEW q \in Query,
           NEW slot \in Slot \cup {0}, Kampung!StartLoad(p, q, slot, loads)
    PROVE  /\ loads' \subseteq Kampung!Load /\ loading' = TRUE /\ error' = FALSE
           /\ LoadsFollow' /\ \A l \in loads' : l.newest => l.query = q
<1> DEFINE new == [page |-> p, query |-> q, newest |-> TRUE, for |-> slot,
                   answer |-> Kampung!NoAnswer]
<1>1. ASSUME NEW l \in loads
      PROVE  LET o == [l EXCEPT !.newest = FALSE] IN
             o \in Kampung!Load /\ o.newest = FALSE /\ o.answer = l.answer /\ o.query = l.query
  BY DEF Kampung!TypeOK, Kampung!Load
<1>2. /\ new \in Kampung!Load /\ new.newest = TRUE /\ new.query = q
      /\ new.answer = Kampung!NoAnswer
  BY DEF Kampung!Load
<1>3. /\ \A l \in loads' : l = new \/ \E m \in loads : l = [m EXCEPT !.newest = FALSE]
      /\ loading' = TRUE /\ error' = FALSE
  BY DEF Kampung!StartLoad
<1> HIDE DEF new
<1>4. loads' \subseteq Kampung!Load
  BY <1>1, <1>2, <1>3
<1>5. \A l \in loads' : l.newest => l = new
  BY <1>1, <1>3
<1>6. ASSUME NEW l \in loads', l.answer # Kampung!NoAnswer
      PROVE  /\ l.answer.records \subseteq Matches[l.query]
             /\ l.answer.page \in 1..Kampung!Pages(l.answer.total)
  <2>1. PICK m \in loads : l = [m EXCEPT !.newest = FALSE]
    BY <1>2, <1>3, <1>6
  <2>2. l.answer = m.answer /\ l.query = m.query
    BY <1>1, <2>1
  <2> QED
    BY <1>6, <2>2 DEF LoadsFollow
<1> QED
  BY <1>2, <1>3, <1>4, <1>5, <1>6 DEF LoadsFollow

LEMMA KampungStep ==
    ASSUME Kampung!KampungAssumption, KampungInv, [Kampung!Next]_Kampung!vars
    PROVE  KampungInv'
<1> USE DEF KampungInv, Kampung!TypeOK, Kampung!ui, Kampung!shown
<1>1. ASSUME NEW q \in Query, Kampung!Type(q) PROVE KampungInv'
  <2>1. armed' = TRUE
    BY <1>1 DEF Kampung!Type, Kampung!Rearm
  <2> QED
    BY <1>1, <2>1 DEF Kampung!Type, LoadsFollow, SearchFollowed
<1>2. ASSUME NEW r \in Kampung!AllRecords, Kampung!AskDelete(r) PROVE KampungInv'
  BY <1>2 DEF Kampung!AskDelete, LoadsFollow, SearchFollowed
<1>3. ASSUME NEW r \in Kampung!AllRecords, Kampung!OtherDeletes(r) PROVE KampungInv'
  BY <1>3 DEF Kampung!OtherDeletes, LoadsFollow, SearchFollowed
<1>4. ASSUME NEW p, Kampung!TurnPage(p) PROVE KampungInv'
  <2>1. p \in Nat \ {0} /\ p # page
    BY <1>4 DEF Kampung!TurnPage
  <2>2. armed' = TRUE
    BY <1>4, <2>1 DEF Kampung!TurnPage, Kampung!Rearm
  <2> QED
    BY <1>4, <2>1, <2>2 DEF Kampung!TurnPage, LoadsFollow, SearchFollowed
<1>5. CASE Kampung!CloseDialog
  BY <1>5 DEF Kampung!CloseDialog, LoadsFollow, SearchFollowed
<1>6. ASSUME NEW slot \in Slot, Kampung!ConfirmDelete(slot) PROVE KampungInv'
  <2> DEFINE new == [slot |-> slot, record |-> target, page |-> page, query |-> query,
                     last |-> Kampung!Cardinality(records) = 1, state |-> "sent"]
  <2>1. new \in Kampung!Delete
    BY <1>6 DEF Kampung!ConfirmDelete, Kampung!Delete
  <2> HIDE DEF new
  <2>2. deletes' = deletes \cup {new}
    BY <1>6 DEF Kampung!ConfirmDelete, new
  <2> QED
    BY <1>6, <2>1, <2>2 DEF Kampung!ConfirmDelete, LoadsFollow, SearchFollowed
<1>7. CASE Kampung!TimerFires
  <2>1. /\ loads' \subseteq Kampung!Load /\ loading' = TRUE /\ error' = FALSE
        /\ LoadsFollow' /\ \A l \in loads' : l.newest => l.query = query
    BY <1>7, LoadStarted DEF Kampung!TimerFires
  <2> QED
    BY <1>7, <2>1 DEF Kampung!TimerFires, SearchFollowed
<1>8. ASSUME NEW d \in deletes, Kampung!ServeDelete(d) PROVE KampungInv'
  <2>1. stored' \subseteq stored /\ UNCHANGED <<Kampung!ui, loads, excused>>
    BY <1>8 DEF Kampung!ServeDelete
  <2>2. deletes' \subseteq Kampung!Delete
    BY <1>8 DEF Kampung!ServeDelete, Kampung!Delete
  <2> QED
    BY <2>1, <2>2 DEF LoadsFollow, SearchFollowed
<1>9. ASSUME NEW d \in deletes, Kampung!DeleteFailed(d) PROVE KampungInv'
  BY <1>9 DEF Kampung!DeleteFailed, LoadsFollow, SearchFollowed
<1>10. ASSUME NEW d \in deletes, Kampung!DeletedLastRow(d) PROVE KampungInv'
  <2>1. page' \in Nat \ {0}
    BY <1>10 DEF Kampung!DeletedLastRow, Kampung!Delete
  <2>2. armed' \in BOOLEAN /\ (~armed' => ~armed /\ page' = page)
    BY <1>10 DEF Kampung!DeletedLastRow, Kampung!Rearm
  <2> QED
    BY <1>10, <2>1, <2>2 DEF Kampung!DeletedLastRow, LoadsFollow, SearchFollowed
<1>11. ASSUME NEW d \in deletes, Kampung!DeletedReload(d) PROVE KampungInv'
  <2>1. d.page \in Nat \ {0} /\ d.query \in Query /\ d.slot \in Slot
    BY DEF Kampung!Delete
  <2>2. /\ loads' \subseteq Kampung!Load /\ loading' = TRUE /\ error' = FALSE
        /\ LoadsFollow' /\ \A l \in loads' : l.newest => l.query = d.query
    BY <1>11, <2>1, LoadStarted DEF Kampung!DeletedReload
  <2>3. deletes' \subseteq Kampung!Delete
    BY <1>11 DEF Kampung!DeletedReload, Kampung!Delete
  <2> QED
    BY <1>11, <2>2, <2>3 DEF Kampung!DeletedReload, SearchFollowed
<1>12. ASSUME NEW l \in loads, Kampung!ServeLoad(l) PROVE KampungInv'
  <2> DEFINE a == Kampung!Answer(l.page, l.query)
             served == [l EXCEPT !.answer = a]
  <2>1. l \in Kampung!Load /\ l.page \in Nat \ {0} /\ l.query \in Query
    BY DEF Kampung!Load
  <2>2. /\ a \in Kampung!Answers /\ a.records \subseteq Matches[l.query]
        /\ a.page \in 1..Kampung!Pages(a.total)
    BY <2>1, AnswerFits
  <2> HIDE DEF a
  <2>3. /\ served \in Kampung!Load /\ served.query = l.query /\ served.newest = l.newest
        /\ served.answer = a
    BY <2>1, <2>2 DEF Kampung!Load
  <2>4. /\ loads' = (loads \ {l}) \cup {served}
        /\ UNCHANGED <<stored, Kampung!ui, deletes, excused>>
    BY <1>12 DEF Kampung!ServeLoad, a
  <2> HIDE DEF served
  <2>5. LoadsFollow'
    BY <2>2, <2>3, <2>4 DEF LoadsFollow
  <2>6. SearchFollowed'
    BY <2>3, <2>4 DEF SearchFollowed
  <2> QED
    BY <2>3, <2>4, <2>5, <2>6
<1>13. ASSUME NEW l \in loads, Kampung!LoadAnswered(l) PROVE KampungInv'
  <2>1. /\ l.answer \in Kampung!Answers /\ l.query \in Query
        /\ l.answer.records \subseteq Kampung!AllRecords /\ l.answer.total \in Nat
        /\ l.answer.page \in Nat \ {0}
    BY <1>13 DEF Kampung!LoadAnswered, Kampung!Load, Kampung!Answers
  <2>2. /\ loads' = loads \ {l} /\ deletes' \subseteq deletes /\ target' \in {target, 0}
        /\ UNCHANGED <<stored, query, error, excused>>
        /\ armed' \in BOOLEAN /\ (~armed' => ~armed /\ page' = page)
    BY <1>13 DEF Kampung!LoadAnswered, Kampung!EndDelete, Kampung!Rearm
  <2>3. CASE l.newest
    <3>1. /\ records' = l.answer.records /\ total' = l.answer.total
          /\ page' = l.answer.page /\ loading' = FALSE
      BY <1>13, <2>3 DEF Kampung!LoadAnswered, Kampung!ShowAnswer
    <3>2. \A m \in loads' : ~m.newest
      BY <2>2, <2>3 DEF LoadsFollow
    <3>3. LoadsFollow'
      BY <2>2, <3>2 DEF LoadsFollow
    <3>4. SearchFollowed'
      BY <1>13, <2>2, <2>3, <3>1, <3>2 DEF SearchFollowed, LoadsFollow, Kampung!LoadAnswered
    <3> QED
      BY <2>1, <2>2, <3>1, <3>3, <3>4
  <2>4. CASE ~l.newest
    <3>1. UNCHANGED <<Kampung!shown, loading>>
      BY <1>13, <2>4 DEF Kampung!LoadAnswered
    <3> QED
      BY <2>2, <3>1 DEF LoadsFollow, SearchFollowed
  <2> QED
    BY <2>3, <2>4
<1>14. ASSUME NEW l \in loads, Kampung!LoadFailed(l) PROVE KampungInv'
  <2>1. /\ loads' = loads \ {l} /\ deletes' \subseteq deletes /\ target' \in {target, 0}
        /\ UNCHANGED <<stored, query, Kampung!shown, armed>>
    BY <1>14 DEF Kampung!LoadFailed, Kampung!EndDelete
  <2>2. CASE l.newest
    <3>1. error' = TRUE /\ loading' = FALSE /\ excused' = TRUE
      BY <1>14, <2>2 DEF Kampung!LoadFailed
    <3>2. \A m \in loads' : ~m.newest
      BY <2>1, <2>2 DEF LoadsFollow
    <3> QED
      BY <2>1, <3>1, <3>2 DEF LoadsFollow, SearchFollowed
  <2>3. CASE ~l.newest
    <3>1. UNCHANGED <<error, loading, excused>>
      BY <1>14, <2>3 DEF Kampung!LoadFailed
    <3> QED
      BY <2>1, <3>1 DEF LoadsFollow, SearchFollowed
  <2> QED
    BY <2>2, <2>3
<1>15. CASE UNCHANGED Kampung!vars
  BY <1>15 DEF Kampung!vars, LoadsFollow, SearchFollowed
<1> QED
  BY <1>1, <1>2, <1>3, <1>4, <1>5, <1>6, <1>7, <1>8, <1>9, <1>10, <1>11, <1>12, <1>13, <1>14,
     <1>15 DEF Kampung!Next, Kampung!User, Kampung!DeleteStep, Kampung!LoadStep

\* Once nothing is awaited, the rows are those of the search in the field, on a page
\* there is, in whatever order the answers of the loads and the deletes came.
THEOREM KampungShowsSearch ==
    ASSUME Kampung!KampungAssumption
    PROVE  Kampung!Spec => [](Kampung!TypeOK /\ Kampung!SearchShown /\ Kampung!PageExists)
<1>1. KampungInv => Kampung!TypeOK /\ Kampung!SearchShown /\ Kampung!PageExists
  BY DEF KampungInv, SearchFollowed, Kampung!SearchShown, Kampung!PageExists, Kampung!Idle
<1>2. Kampung!KampungAssumption /\ KampungInv /\ [Kampung!Next]_Kampung!vars => KampungInv'
  BY KampungStep
<1> QED
  BY Kampung!KampungAssumption, KampungStart, <1>1, <1>2, PTL DEF Kampung!Spec
-----------------------------------------------------------------------------
(* The form of an Otsus label.  Among the internal pages its variables mode, *)
(* detail, todo, sent, again and crossed are kind, documents, goto, at, lost *)
(* and asked.                                                                *)

LEMMA FormCardinality ==
    \A S : Otsus!Cardinality(S) = Cardinality(S) /\ (Otsus!IsFiniteSet(S) <=> IsFiniteSet(S))
BY DEF Otsus!Cardinality, Cardinality, Otsus!IsFiniteSet, IsFiniteSet

\* The form starts without calls; an edit has the label and one file from before.
LEMMA FormStart ==
    ASSUME Otsus!OtsusFormAssumption, Otsus!Init
    PROVE  /\ phase = "loading" /\ documents = {} /\ goto = <<>> /\ at = <<>> /\ calls = {}
           /\ unsure = {} /\ lost = FALSE /\ asked = FALSE
           /\ kind \in {"add", "edit"} /\ issued \in {0, 1}
           /\ \A d \in stored : d \in Otsus!Item /\ d.from = None /\ d.file <= issued
           /\ \A d, e \in stored : d.file = e.file <=> d.kind = e.kind
           /\ kind = "edit" => Otsus!Label \in stored
<1>1. CASE kind = "add" /\ stored = {} /\ issued = 0
  BY <1>1 DEF Otsus!Init
<1>2. ASSUME NEW k \in {"lpj", "photo"}, kind = "edit", stored = {Otsus!Label, Otsus!Old(k, 1)},
             issued = Otsus!Cardinality(stored) - 1
      PROVE  issued = 1
  <2>1. Otsus!Label # Otsus!Old(k, 1)
    BY DEF Otsus!Label, Otsus!Old
  <2>2. IsFiniteSet({Otsus!Label}) /\ Cardinality({Otsus!Label}) = 1
    BY FS_Singleton
  <2>3. {Otsus!Label, Otsus!Old(k, 1)} = {Otsus!Label} \cup {Otsus!Old(k, 1)}
    OBVIOUS
  <2>4. Cardinality(stored) = 2
    BY <1>2, <2>1, <2>2, <2>3, FS_AddElement
  <2> QED
    BY <1>2, <2>4, FormCardinality
<1>3. CASE kind = "edit" /\ stored \in {{Otsus!Label, Otsus!Old("lpj", 1)},
                                        {Otsus!Label, Otsus!Old("photo", 1)}}
           /\ issued = Otsus!Cardinality(stored) - 1
  <2>1. PICK k \in {"lpj", "photo"} : stored = {Otsus!Label, Otsus!Old(k, 1)}
    BY <1>3
  <2>2. issued = 1
    BY <1>2, <1>3, <2>1
  <2>3. MaxFiles \in Nat /\ 0 \in 0..MaxFiles /\ 1 \in 0..MaxFiles
    <3>1. MaxFiles \in Nat \ {0}
      BY DEF Otsus!OtsusFormAssumption
    <3> QED
      BY <3>1
  <2>4. /\ Otsus!Label \in Otsus!Item /\ Otsus!Label.from = None
        /\ Otsus!Label.file = 0 /\ Otsus!Label.kind = "label"
    BY <2>3 DEF Otsus!Label, Otsus!Item, Otsus!Kind
  <2>5. /\ Otsus!Old(k, 1) \in Otsus!Item /\ Otsus!Old(k, 1).from = None
        /\ Otsus!Old(k, 1).file = 1 /\ Otsus!Old(k, 1).kind = k
    BY <2>3 DEF Otsus!Old, Otsus!Item, Otsus!Kind
  <2>6. /\ phase = "loading" /\ documents = {} /\ goto = <<>> /\ at = <<>> /\ calls = {}
        /\ unsure = {} /\ lost = FALSE /\ asked = FALSE
    BY DEF Otsus!Init
  <2>7. \A d \in stored : d = Otsus!Label \/ d = Otsus!Old(k, 1)
    BY <2>1
  <2>8. \A d \in stored : d \in Otsus!Item /\ d.from = None /\ d.file <= issued
    BY <2>2, <2>4, <2>5, <2>7
  <2>9. \A d, e \in stored : d.file = e.file <=> d.kind = e.kind
    BY <2>4, <2>5, <2>7
  <2> QED
    BY <1>3, <2>1, <2>2, <2>6, <2>8, <2>9
<1> QED
  BY <1>1, <1>3 DEF Otsus!Init

\* What the server does for a call of the submit: nothing, or one new document, which
\* takes the place of the LPJ if it is one, or the label itself.
LEMMA ServedSubmit ==
    ASSUME Otsus!OtsusFormAssumption, Otsus!TypeOK, NEW step, Otsus!Stored(step)
    PROVE  \/ /\ step = "label" /\ UNCHANGED issued
              /\ \/ kind = "edit" /\ stored' = stored
                 \/ kind = "add" /\ stored' = stored \cup {Otsus!Label}
           \/ /\ step \in Photo \cup {"lpj", "dpa"} /\ issued' = issued + 1 /\ issued' \in 0..MaxFiles
              /\ \E new \in Otsus!Item :
                   /\ new.from = step /\ new.file = issued' /\ new.public = FALSE
                   /\ new.kind = IF step \in Photo THEN "photo" ELSE step
                   /\ stored' = (IF step = "lpj" THEN stored \ Otsus!Of(stored, "lpj") ELSE stored)
                                \cup {new}
<1>1. ASSUME NEW k \in {"photo", "lpj", "dpa"}, NEW from \in Photo \cup {"lpj", "dpa"},
             issued < MaxFiles
      PROVE  LET new == Otsus!New(k, from) IN
             /\ new \in Otsus!Item /\ new.from = from /\ new.file = issued + 1
             /\ new.public = FALSE /\ new.kind = k /\ issued + 1 \in 0..MaxFiles
  <2>1. issued + 1 \in 0..MaxFiles
    <3>1. MaxFiles \in Nat /\ issued \in 0..MaxFiles
      BY DEF Otsus!OtsusFormAssumption, Otsus!TypeOK
    <3> QED
      BY <1>1, <3>1
  <2> QED
    BY <2>1 DEF Otsus!New, Otsus!Item, Otsus!Kind
<1>2. CASE step = "label"
  BY <1>2 DEF Otsus!Stored, Otsus!server, Otsus!OtsusFormAssumption
<1>3. CASE step \in Photo /\ Otsus!Store(stored \cup {Otsus!New("photo", step)})
  <2>1. step \notin {"label", "lpj", "dpa"}
    BY <1>3 DEF Otsus!OtsusFormAssumption
  <2> QED
    BY <1>1, <1>3, <2>1 DEF Otsus!Store
<1>4. CASE step = "lpj" /\ Otsus!Store((stored \ Otsus!Of(stored, "lpj"))
                                       \cup {Otsus!New("lpj", "lpj")})
  <2>1. step \notin Photo /\ step = "lpj"
    BY <1>4 DEF Otsus!OtsusFormAssumption
  <2>2. /\ issued < MaxFiles /\ issued' = issued + 1
        /\ stored' = (stored \ Otsus!Of(stored, "lpj")) \cup {Otsus!New("lpj", "lpj")}
    BY <1>4 DEF Otsus!Store
  <2> DEFINE new == Otsus!New("lpj", "lpj")
  <2>3. /\ new \in Otsus!Item /\ new.from = "lpj" /\ new.file = issued + 1
        /\ new.public = FALSE /\ new.kind = "lpj" /\ issued + 1 \in 0..MaxFiles
    BY <1>1, <2>2
  <2> HIDE DEF new
  <2> QED
    BY <2>1, <2>2, <2>3 DEF new
<1>5. CASE step = "dpa" /\ Otsus!Store(stored \cup {Otsus!New("dpa", "dpa")})
  <2>1. step \notin Photo /\ step = "dpa"
    BY <1>5 DEF Otsus!OtsusFormAssumption
  <2>2. /\ issued < MaxFiles /\ issued' = issued + 1
        /\ stored' = stored \cup {Otsus!New("dpa", "dpa")}
    BY <1>5 DEF Otsus!Store
  <2> DEFINE new == Otsus!New("dpa", "dpa")
  <2>3. /\ new \in Otsus!Item /\ new.from = "dpa" /\ new.file = issued + 1
        /\ new.public = FALSE /\ new.kind = "dpa" /\ issued + 1 \in 0..MaxFiles
    BY <1>1, <2>2
  <2> HIDE DEF new
  <2> QED
    BY <2>1, <2>2, <2>3 DEF new
<1> QED
  BY <1>2, <1>3, <1>4, <1>5 DEF Otsus!Stored
\* What it does for a switch or a delete button: it changes or removes what is meant.
Set(items, to) == {[d EXCEPT !.public = to] : d \in items}

LEMMA ServedCall ==
    ASSUME Otsus!TypeOK, NEW c \in calls, Otsus!ServeCall(c)
    PROVE  /\ c.state = "sent" /\ UNCHANGED <<kind, phase, documents, goto, at, lost, asked, issued>>
           /\ \/ stored' = stored
              \/ stored' = (stored \ Otsus!Meant(c))
                           \cup (IF c.act = "delete" THEN {} ELSE Set(Otsus!Meant(c), c.to))
           /\ \/ /\ calls' = (calls \ {c}) \cup {[c EXCEPT !.state = "done"]}
                 /\ unsure' = unsure
                 /\ stored' = (stored \ Otsus!Meant(c))
                              \cup (IF c.act = "delete" THEN {} ELSE Set(Otsus!Meant(c), c.to))
              \/ /\ calls' = calls \ {c}
                 /\ \/ stored' = stored /\ unsure' = unsure
                    \/ unsure' = unsure \cup {c.file}
BY DEF Otsus!ServeCall, Otsus!Effect, Otsus!server, Set

LEMMA SetItems ==
    ASSUME Otsus!TypeOK, NEW items \in SUBSET Otsus!Item, NEW to \in BOOLEAN
    PROVE  \A d \in Set(items, to) :
              /\ d \in Otsus!Item
              /\ \E e \in items : /\ d = [e EXCEPT !.public = to]
                                  /\ d.kind = e.kind /\ d.file = e.file /\ d.from = e.from
BY DEF Set, Otsus!Item

LEMMA FormTypeStep ==
    ASSUME Otsus!OtsusFormAssumption, Otsus!TypeOK, [Otsus!Next]_Otsus!vars
    PROVE  Otsus!TypeOK'
<1> DEFINE Step == {"label"} \cup Photo \cup {"lpj", "dpa"}
<1> USE DEF Otsus!server, Otsus!history
<1>1. CASE Otsus!Loaded
  BY <1>1 DEF Otsus!Loaded, Otsus!TypeOK
<1>2. CASE Otsus!LoadFailed
  BY <1>2 DEF Otsus!LoadFailed, Otsus!TypeOK
<1>3. CASE Otsus!Submit
  <2>1. PICK photos \in Otsus!Photos, lpj \in BOOLEAN, dpa \in BOOLEAN :
          at' = Otsus!Steps(photos, lpj, dpa)
    BY <1>3 DEF Otsus!Submit
  <2>2. photos \in Seq(Step)
    <3>1. PICK n \in Nat : photos \in [1..n -> Photo]
      <4>1. PICK n \in 0..MaxPhotos : photos \in [1..n -> Photo]
        BY <2>1 DEF Otsus!Photos
      <4> QED
        BY <4>1 DEF Otsus!OtsusFormAssumption
    <3> QED
      BY <3>1
  <2>3. at' \in Seq(Step)
    <3> DEFINE first == <<"label">>
               third == IF lpj THEN <<"lpj">> ELSE <<>>
               fourth == IF dpa THEN <<"dpa">> ELSE <<>>
    <3>1. first \in Seq(Step) /\ third \in Seq(Step) /\ fourth \in Seq(Step)
      <4>1. "label" \in Step /\ "lpj" \in Step /\ "dpa" \in Step
        OBVIOUS
      <4> HIDE DEF Step
      <4> QED
        BY <4>1
    <3>2. at' = first \o photos \o third \o fourth
      BY <2>1 DEF Otsus!Steps
    <3> HIDE DEF first, third, fourth
    <3> QED
      BY <2>2, <3>1, <3>2
  <2> QED
    BY <1>3, <2>3 DEF Otsus!Submit, Otsus!TypeOK
<1>4. CASE Otsus!Batal
  BY <1>4 DEF Otsus!Batal, Otsus!TypeOK
<1>5. ASSUME NEW d \in documents, NEW act \in {"publish", "delete"}, Otsus!Press(act, d)
      PROVE  Otsus!TypeOK'
  <2>1. PICK s \in Slot :
          /\ \A c \in calls : c.slot # s
          /\ calls' = calls \cup {[slot |-> s, act |-> act, kind |-> d.kind, file |-> d.file,
                                   to |-> ~d.public, state |-> "sent"]}
    BY <1>5 DEF Otsus!Press
  <2>2. d.kind \in Otsus!Kind /\ d.file \in 0..MaxFiles /\ d.public \in BOOLEAN
    BY DEF Otsus!TypeOK, Otsus!Item
  <2>3. calls' \subseteq Otsus!Call
    <3> DEFINE new == [slot |-> s, act |-> act, kind |-> d.kind, file |-> d.file,
                       to |-> ~d.public, state |-> "sent"]
    <3>1. (~d.public) \in BOOLEAN
      BY <2>2
    <3>2. new \in Otsus!Call
      BY <2>2, <3>1 DEF Otsus!Call
    <3> HIDE DEF new
    <3>3. calls' = calls \cup {new}
      BY <2>1 DEF new
    <3> QED
      BY <3>2, <3>3 DEF Otsus!TypeOK
  <2>4. \A c, e \in calls' : c.slot = e.slot => c = e
    BY <2>1 DEF Otsus!TypeOK
  <2>5. unsure' \subseteq 0..MaxFiles /\ asked' \in BOOLEAN
    BY <1>5 DEF Otsus!Press, Otsus!TypeOK, Otsus!Call
  <2> QED
    BY <1>5, <2>3, <2>4, <2>5 DEF Otsus!Press, Otsus!TypeOK
<1>6. CASE Otsus!SubmitStep
  <2>1. goto # <<>> /\ goto \in Seq(Step) /\ at \in Seq(Step)
    BY <1>6 DEF Otsus!SubmitStep, Otsus!TypeOK
  <2>2. Tail(goto) \in Seq(Step) /\ <<>> \in Seq(Step)
    BY <2>1
  <2>3. Otsus!Replaced(Head(goto)) \subseteq 0..MaxFiles
    BY DEF Otsus!Replaced, Otsus!Of, Otsus!TypeOK, Otsus!Item
  <2>4. Otsus!Stored(Head(goto)) => stored' \subseteq Otsus!Item /\ issued' \in 0..MaxFiles
    <3>1. Otsus!Label \in Otsus!Item
      <4>1. MaxFiles \in Nat \ {0}
        BY DEF Otsus!OtsusFormAssumption
      <4>2. 0 \in 0..MaxFiles
        BY <4>1
      <4> QED
        BY <4>2 DEF Otsus!Label, Otsus!Item, Otsus!Kind
    <3> SUFFICES ASSUME Otsus!Stored(Head(goto))
                 PROVE  stored' \subseteq Otsus!Item /\ issued' \in 0..MaxFiles
      OBVIOUS
    <3>2. \/ issued' = issued /\ stored' \subseteq stored \cup {Otsus!Label}
          \/ issued' \in 0..MaxFiles /\ \E new \in Otsus!Item : stored' \subseteq stored \cup {new}
      BY ServedSubmit
    <3> QED
      BY <3>1, <3>2 DEF Otsus!TypeOK
  <2>5. /\ goto' \in Seq(Step) /\ at' \in Seq(Step) /\ stored' \subseteq Otsus!Item
        /\ issued' \in 0..MaxFiles /\ unsure' \subseteq 0..MaxFiles
        /\ documents' \in {documents, {}} /\ calls' \in {calls, {}}
        /\ phase' \in {phase, "saved"} /\ lost' \in BOOLEAN /\ UNCHANGED <<kind, asked>>
    BY <1>6, <2>1, <2>2, <2>3, <2>4
       DEF Otsus!SubmitStep, Otsus!SubmitDone, Otsus!SubmitFailed, Otsus!TypeOK
  <2> QED
    BY <2>5 DEF Otsus!TypeOK
<1>7. ASSUME NEW c \in calls, Otsus!ServeCall(c) PROVE Otsus!TypeOK'
  <2>1. Otsus!Meant(c) \in SUBSET Otsus!Item /\ c.to \in BOOLEAN /\ c.file \in 0..MaxFiles
    BY DEF Otsus!Meant, Otsus!Of, Otsus!TypeOK, Otsus!Call
  <2>2. stored' \subseteq Otsus!Item
    <3>1. Set(Otsus!Meant(c), c.to) \subseteq Otsus!Item
      BY <2>1, SetItems
    <3>2. stored' \subseteq stored \cup Set(Otsus!Meant(c), c.to)
      BY <1>7, ServedCall
    <3> QED
      BY <3>1, <3>2 DEF Otsus!TypeOK
  <2>3. [c EXCEPT !.state = "done"] \in Otsus!Call /\ [c EXCEPT !.state = "done"].slot = c.slot
    BY DEF Otsus!TypeOK, Otsus!Call
  <2>4. calls' \subseteq Otsus!Call /\ \A e, f \in calls' : e.slot = f.slot => e = f
    <3> DEFINE told == [c EXCEPT !.state = "done"]
    <3>1. calls' = calls \ {c} \/ calls' = (calls \ {c}) \cup {told}
      BY <1>7, ServedCall
    <3>2. told \in Otsus!Call /\ told.slot = c.slot
      BY <2>3
    <3> HIDE DEF told
    <3> QED
      BY <3>1, <3>2 DEF Otsus!TypeOK
  <2>5. unsure' \subseteq 0..MaxFiles
    BY <1>7, <2>1, ServedCall DEF Otsus!TypeOK
  <2> QED
    BY <1>7, <2>2, <2>4, <2>5, ServedCall DEF Otsus!TypeOK
<1>8. ASSUME NEW c \in calls, Otsus!CallAnswered(c) PROVE Otsus!TypeOK'
  <2>1. Otsus!Shown(c) \in SUBSET Otsus!Item /\ c.to \in BOOLEAN
    BY DEF Otsus!Shown, Otsus!Of, Otsus!TypeOK, Otsus!Call
  <2>2. documents' = (documents \ Otsus!Shown(c))
                     \cup (IF c.act = "delete" THEN {} ELSE Set(Otsus!Shown(c), c.to))
    BY <1>8 DEF Otsus!CallAnswered, Set
  <2>3. documents' \subseteq Otsus!Item
    BY <2>1, <2>2, SetItems DEF Otsus!TypeOK
  <2> QED
    BY <1>8, <2>3 DEF Otsus!CallAnswered, Otsus!TypeOK
<1>9. CASE UNCHANGED Otsus!vars
  BY <1>9 DEF Otsus!vars, Otsus!TypeOK
<1> QED
  BY <1>1, <1>2, <1>3, <1>4, <1>5, <1>6, <1>7, <1>8, <1>9
     DEF Otsus!Next, Otsus!UpdatePublication, Otsus!DeleteDocument, Otsus!CallStep
\* The calls about a document that took effect and are not yet folded into the page.
Effected(f) == {c \in calls : c.state = "done" /\ c.file = f}

\* Whether a document from before is the server's by what the page knows.
Known(d) ==
    IF Effected(d.file) = {} THEN d \in documents
    ELSE \E c \in Effected(d.file), e \in documents :
           c.act = "publish" /\ d = [e EXCEPT !.public = c.to]

FromBefore == {d \in stored : d.from = None}

\* The page, the calls and the server mean one document by one number, and there is
\* one LPJ from before.
OneMeaning(items) ==
    \A d, e \in items : /\ d.file = e.file => d.kind = e.kind
                        /\ d.kind = "lpj" /\ e.kind = "lpj" => d.file = e.file

\* Unless the flag of a document cannot be known, at most one call is about it, and the
\* page with the effects it has still to be told of is the server's.
FlagsInv == kind = "edit" =>
    /\ phase = "loading" => calls = {} /\ goto = <<>> /\ FromBefore = stored
    /\ \A d \in documents : d.from = None
    /\ OneMeaning(documents \cup calls \cup FromBefore)
    /\ \A c, e \in calls : c.file = e.file /\ c # e => c.file \in unsure
    /\ phase = "ready" => \A d \in Otsus!Item :
          d.from = None /\ d.file \notin unsure => (d \in stored <=> Known(d))

LEMMA FlagsStart == ASSUME Otsus!OtsusFormAssumption, Otsus!Init PROVE FlagsInv
BY FormStart DEF FlagsInv, OneMeaning, FromBefore

\* A submit adds nothing to what is there from before.
LEMMA SubmitKeeps ==
    ASSUME Otsus!OtsusFormAssumption, Otsus!TypeOK, kind = "edit", Otsus!SubmitStep
    PROVE  /\ FromBefore' \subseteq FromBefore /\ documents' \subseteq documents
           /\ calls' \subseteq calls /\ unsure \subseteq unsure' /\ phase' \in {phase, "saved"}
           /\ goto # <<>>
<1>1. Otsus!Stored(Head(goto)) => FromBefore' \subseteq FromBefore
  <2> SUFFICES ASSUME Otsus!Stored(Head(goto)) PROVE FromBefore' \subseteq FromBefore
    OBVIOUS
  <2>1. CASE stored' = stored
    BY <2>1 DEF FromBefore
  <2>2. CASE Head(goto) \in Photo \cup {"lpj", "dpa"}
    <3>1. Head(goto) # None /\ Head(goto) # "label"
      BY <2>2 DEF Otsus!OtsusFormAssumption
    <3>2. PICK new \in Otsus!Item :
            /\ new.from = Head(goto)
            /\ stored' = (IF Head(goto) = "lpj" THEN stored \ Otsus!Of(stored, "lpj") ELSE stored)
                         \cup {new}
      BY <3>1, ServedSubmit
    <3> QED
      BY <3>1, <3>2 DEF FromBefore
  <2> QED
    BY <2>1, <2>2, ServedSubmit
<1> QED
  BY <1>1 DEF Otsus!SubmitStep, Otsus!SubmitDone, Otsus!SubmitFailed, Otsus!server, FromBefore

\* An answer to a submit's call disturbs no flag that is still known.
LEMMA FlagsSubmit ==
    ASSUME Otsus!OtsusFormAssumption, Otsus!TypeOK, FlagsInv, kind = "edit",
           phase = "ready", Otsus!SubmitStep, phase' = "ready"
    PROVE  FlagsInv'
<1>1. /\ documents' = documents /\ calls' = calls /\ kind' = kind /\ unsure \subseteq unsure'
      /\ \/ stored' = stored
         \/ Otsus!Stored(Head(goto)) /\ unsure' = unsure \cup Otsus!Replaced(Head(goto))
  BY DEF Otsus!SubmitStep, Otsus!SubmitDone, Otsus!SubmitFailed, Otsus!server
<1>2. CASE stored' = stored
  BY <1>1, <1>2 DEF FlagsInv, FromBefore, OneMeaning, Known, Effected
<1>3. CASE Otsus!Stored(Head(goto)) /\ unsure' = unsure \cup Otsus!Replaced(Head(goto))
           /\ stored' # stored
  <2>1. PICK new \in Otsus!Item :
          /\ new.from = Head(goto) /\ new.from # None
          /\ stored' = (IF Head(goto) = "lpj" THEN stored \ Otsus!Of(stored, "lpj") ELSE stored)
                       \cup {new}
    <3>1. /\ Head(goto) \in Photo \cup {"lpj", "dpa"}
          /\ \E new \in Otsus!Item :
               /\ new.from = Head(goto)
               /\ stored' = (IF Head(goto) = "lpj" THEN stored \ Otsus!Of(stored, "lpj") ELSE stored)
                            \cup {new}
      BY <1>3, ServedSubmit
    <3>2. Head(goto) # None
      BY <3>1 DEF Otsus!OtsusFormAssumption
    <3> QED
      BY <3>1, <3>2
  <2>2. FromBefore' \subseteq FromBefore
    BY <2>1 DEF FromBefore
  <2>3. ASSUME NEW d \in Otsus!Item, d.from = None, d.file \notin unsure'
        PROVE  d \in stored' <=> Known(d)
    <3>1. Known(d)' <=> Known(d)
      BY <1>1 DEF Known, Effected
    <3>2. d \in stored <=> Known(d)
      BY <1>1, <2>3 DEF FlagsInv
    <3>3. CASE Head(goto) = "lpj" /\ d.kind = "lpj" /\ d \in stored
      <4>1. PICK e \in documents : e.file = d.file
        BY <3>2, <3>3 DEF Known, Otsus!TypeOK, Otsus!Item
      <4>2. e.kind = "lpj"
        BY <2>3, <3>3, <4>1 DEF FlagsInv, OneMeaning, FromBefore
      <4>3. d.file \in unsure'
        BY <1>3, <3>3, <4>1, <4>2 DEF Otsus!Replaced, Otsus!Of
      <4> QED
        BY <2>3, <4>3
    <3>4. CASE ~(Head(goto) = "lpj" /\ d.kind = "lpj" /\ d \in stored)
      BY <2>1, <2>3, <3>2, <3>4 DEF Otsus!Of
    <3> QED
      BY <3>3, <3>4
  <2>4. \A d : Known(d)' <=> Known(d)
    BY <1>1 DEF Known, Effected
  <2> QED
    BY <1>1, <2>2, <2>3, <2>4 DEF FlagsInv, OneMeaning
<1> QED
  BY <1>1, <1>2, <1>3
\* Nor does a call that is served, answered or not.
LEMMA FlagsServed ==
    ASSUME Otsus!TypeOK, FlagsInv, kind = "edit", NEW c \in calls, Otsus!ServeCall(c)
    PROVE  FlagsInv'
<1> DEFINE told == [c EXCEPT !.state = "done"]
           served == (stored \ Otsus!Meant(c))
                     \cup (IF c.act = "delete" THEN {} ELSE Set(Otsus!Meant(c), c.to))
<1>1. /\ c \in Otsus!Call /\ c.to \in BOOLEAN /\ c.act \in {"publish", "delete"}
      /\ told \in Otsus!Call /\ told.slot = c.slot /\ told.kind = c.kind /\ told.file = c.file
      /\ told.state = "done" /\ told.act = c.act /\ told.to = c.to
  BY DEF Otsus!TypeOK, Otsus!Call
<1>2. /\ c.state = "sent" /\ UNCHANGED <<kind, phase, documents>>
      /\ \/ stored' = stored /\ unsure' = unsure /\ calls' = calls \ {c}
         \/ stored' \in {stored, served} /\ unsure' = unsure \cup {c.file} /\ calls' = calls \ {c}
         \/ stored' = served /\ unsure' = unsure /\ calls' = (calls \ {c}) \cup {told}
  BY ServedCall
<1>3. /\ Otsus!Meant(c) \in SUBSET stored
      /\ \A d \in Otsus!Meant(c) : d.kind = c.kind /\ (c.kind = "lpj" \/ d.file = c.file)
      /\ \A d \in stored : d.kind = c.kind /\ d.file = c.file => d \in Otsus!Meant(c)
  BY DEF Otsus!Meant, Otsus!Of
<1>4. \A d \in Set(Otsus!Meant(c), c.to) :
         /\ d \in Otsus!Item
         /\ \E e \in Otsus!Meant(c) : /\ d = [e EXCEPT !.public = c.to]
                                      /\ d.kind = e.kind /\ d.file = e.file /\ d.from = e.from
  <2>1. Otsus!Meant(c) \in SUBSET Otsus!Item
    BY <1>3 DEF Otsus!TypeOK
  <2> QED
    BY <1>1, <2>1, SetItems
<1> HIDE DEF told, served
<1>5. /\ \A d \in FromBefore' : \E e \in FromBefore : d.kind = e.kind /\ d.file = e.file
      /\ \A d \in calls' : \E e \in calls : d.kind = e.kind /\ d.file = e.file
  BY <1>1, <1>2, <1>3, <1>4 DEF FromBefore, served
<1>6. OneMeaning(documents \cup calls \cup FromBefore)'
  BY <1>2, <1>5 DEF FlagsInv, OneMeaning
<1>7. \A d, e \in calls' : d.file = e.file /\ d # e => d.file \in unsure'
  <2>1. \A d \in calls : d.slot = c.slot => d = c
    BY DEF Otsus!TypeOK
  <2> QED
    BY <1>1, <1>2, <2>1 DEF FlagsInv
\* A document the call is not about.
<1>8. ASSUME NEW d \in Otsus!Item, d.from = None, d.file # c.file
      PROVE  /\ d \in served <=> d \in stored
             /\ Known(d)' <=> Known(d)
  <2>1. \A e \in FromBefore : e.file = d.file => e \notin Otsus!Meant(c)
    BY <1>3, <1>8 DEF FlagsInv, OneMeaning, FromBefore
  <2>2. d \in served <=> d \in stored
    BY <1>4, <1>8, <2>1, <1>3 DEF FromBefore, served
  <2>3. Effected(d.file)' = Effected(d.file)
    BY <1>1, <1>2, <1>8 DEF Effected
  <2> QED
    BY <1>2, <2>2, <2>3 DEF Known
\* The document it is about, if no other call is.
<1>9. ASSUME NEW d \in Otsus!Item, d.from = None, d.file = c.file, d.file \notin unsure,
             phase = "ready"
      PROVE  /\ d \in stored <=> Known(d)
             /\ stored' = stored /\ calls' = calls \ {c} => (Known(d)' <=> Known(d))
             /\ calls' = (calls \ {c}) \cup {told} => (d \in served <=> Known(d)')
  <2>1. d \in stored <=> Known(d)
    BY <1>9 DEF FlagsInv
  <2>2. \A e \in calls : e.file = c.file => e = c
    BY <1>9 DEF FlagsInv
  <2>3. Effected(d.file) = {}
    BY <1>2, <1>9, <2>2 DEF Effected
  <2>4. ASSUME stored' = stored, calls' = calls \ {c} PROVE Known(d)' <=> Known(d)
    <3>1. Effected(d.file)' = {}
      BY <1>9, <2>2, <2>4 DEF Effected
    <3> QED
      BY <1>2, <2>3, <3>1 DEF Known
  <2>5. ASSUME calls' = (calls \ {c}) \cup {told} PROVE d \in served <=> Known(d)'
    <3>1. Effected(d.file)' = {told}
      BY <1>1, <1>9, <2>2, <2>5 DEF Effected
    <3>2. Known(d)' <=> \E e \in documents : c.act = "publish" /\ d = [e EXCEPT !.public = c.to]
      BY <1>1, <1>2, <3>1 DEF Known
    \* By the invariant the documents of this number are those of the server.
    <3>3. \A e \in Otsus!Item : e.from = None /\ e.file = c.file =>
             (e \in stored <=> e \in documents)
      BY <1>9, <2>3 DEF FlagsInv, Known
    <3>4. \A e \in documents : e.from = None /\ e \in Otsus!Item
             /\ (e.file = c.file => e.kind = c.kind)
      BY DEF FlagsInv, OneMeaning, Otsus!TypeOK
    <3>5. d \notin stored \ Otsus!Meant(c)
      BY <1>3, <1>9, <3>3, <3>4
    <3>6. d \in Set(Otsus!Meant(c), c.to) =>
             \E e \in documents : d = [e EXCEPT !.public = c.to]
      BY <1>3, <1>4, <1>9, <3>3 DEF Otsus!TypeOK
    <3>7. ASSUME NEW e \in documents, d = [e EXCEPT !.public = c.to]
          PROVE  d \in Set(Otsus!Meant(c), c.to)
      <4>1. e.file = c.file
        BY <1>9, <3>4, <3>7 DEF Otsus!Item
      <4>2. e \in Otsus!Meant(c)
        BY <1>3, <3>3, <3>4, <4>1
      <4> QED
        BY <3>7, <4>2 DEF Set
    <3> QED
      BY <1>1, <3>2, <3>5, <3>6, <3>7 DEF served
  <2> QED
    BY <2>1, <2>4, <2>5
<1>10. phase' = "ready" => \A d \in Otsus!Item :
          d.from = None /\ d.file \notin unsure' => (d \in stored' <=> Known(d)')
  <2> SUFFICES ASSUME phase = "ready", NEW d \in Otsus!Item, d.from = None, d.file \notin unsure'
               PROVE  d \in stored' <=> Known(d)'
    BY <1>2
  <2>1. d.file \notin unsure
    BY <1>2
  <2>2. CASE d.file = c.file
    BY <1>2, <1>9, <2>1, <2>2
  <2>3. CASE d.file # c.file
    <3>1. d \in stored <=> Known(d)
      BY <2>1 DEF FlagsInv
    <3> QED
      BY <1>2, <1>8, <2>3, <3>1
  <2> QED
    BY <2>2, <2>3
<1>11. phase # "loading" /\ kind' = kind
  BY <1>2 DEF FlagsInv
<1> QED
  BY <1>2, <1>6, <1>7, <1>10, <1>11 DEF FlagsInv

\* Nor the fold of its answer into the page.
LEMMA FlagsAnswered ==
    ASSUME Otsus!TypeOK, FlagsInv, kind = "edit", NEW c \in calls, Otsus!CallAnswered(c)
    PROVE  FlagsInv'
<1>1. /\ c.state = "done" /\ calls' = calls \ {c} /\ UNCHANGED <<stored, kind, phase, unsure>>
      /\ documents' = (documents \ Otsus!Shown(c))
                      \cup (IF c.act = "delete" THEN {} ELSE Set(Otsus!Shown(c), c.to))
      /\ c.to \in BOOLEAN /\ c.act \in {"publish", "delete"}
  BY DEF Otsus!CallAnswered, Set, Otsus!server, Otsus!history, Otsus!TypeOK, Otsus!Call
<1>2. \A d \in documents : d \in Otsus!Shown(c) <=> d.file = c.file
  BY DEF FlagsInv, OneMeaning, Otsus!Shown, Otsus!Of
<1>3. Otsus!Shown(c) \in SUBSET documents
  BY DEF Otsus!Shown, Otsus!Of
<1>4. \A d \in Set(Otsus!Shown(c), c.to) :
         /\ d \in Otsus!Item
         /\ \E e \in Otsus!Shown(c) : /\ d = [e EXCEPT !.public = c.to]
                                      /\ d.kind = e.kind /\ d.file = e.file /\ d.from = e.from
  <2>1. Otsus!Shown(c) \in SUBSET Otsus!Item
    BY <1>3 DEF Otsus!TypeOK
  <2> QED
    BY <1>1, <2>1, SetItems
<1>5. /\ \A d \in documents' : \E e \in documents : d.kind = e.kind /\ d.file = e.file
                                                   /\ d.from = e.from
      /\ FromBefore' = FromBefore
  BY <1>1, <1>3, <1>4 DEF FromBefore
<1>6. /\ \A d \in documents' : d.from = None
      /\ OneMeaning(documents \cup calls \cup FromBefore)'
  BY <1>1, <1>5 DEF FlagsInv, OneMeaning
<1>7. ASSUME NEW d \in Otsus!Item, d.from = None, d.file # c.file PROVE Known(d)' <=> Known(d)
  <2>1. Effected(d.file)' = Effected(d.file)
    BY <1>1, <1>7 DEF Effected
  <2>2. d \in documents' <=> d \in documents
    BY <1>1, <1>2, <1>3, <1>4, <1>7
  <2>3. ASSUME NEW e \in Otsus!Item, NEW to, d = [e EXCEPT !.public = to]
        PROVE  e \in documents' <=> e \in documents
    <3>1. e.file # c.file
      BY <1>7, <2>3 DEF Otsus!Item
    <3> QED
      BY <1>1, <1>2, <1>3, <1>4, <3>1
  <2>4. documents \subseteq Otsus!Item /\ documents' \subseteq Otsus!Item
    BY <1>1, <1>4 DEF Otsus!TypeOK
  <2> QED
    BY <2>1, <2>2, <2>3, <2>4 DEF Known
<1>8. ASSUME NEW d \in Otsus!Item, d.from = None, d.file = c.file, d.file \notin unsure
      PROVE  Known(d)' <=> Known(d)
  <2>1. \A e \in calls : e.file = c.file => e = c
    BY <1>8 DEF FlagsInv
  <2>2. Effected(d.file) = {c} /\ Effected(d.file)' = {}
    BY <1>1, <1>8, <2>1 DEF Effected
  <2>3. Known(d) <=> \E e \in documents : c.act = "publish" /\ d = [e EXCEPT !.public = c.to]
    BY <2>2 DEF Known
  <2>4. Known(d)' <=> d \in documents'
    BY <2>2 DEF Known
  <2>5. d \notin documents \ Otsus!Shown(c)
    BY <1>2, <1>8
  <2>6. ASSUME NEW e \in documents, d = [e EXCEPT !.public = c.to]
        PROVE  d \in Set(Otsus!Shown(c), c.to)
    <3>1. e.file = c.file
      BY <1>8, <2>6 DEF Otsus!TypeOK, Otsus!Item
    <3> QED
      BY <1>2, <2>6, <3>1 DEF Set
  <2> QED
    BY <1>1, <1>3, <1>4, <2>3, <2>4, <2>5, <2>6
<1> QED
  BY <1>1, <1>6, <1>7, <1>8 DEF FlagsInv

LEMMA FlagsStep ==
    ASSUME Otsus!OtsusFormAssumption, Otsus!TypeOK, FlagsInv, [Otsus!Next]_Otsus!vars
    PROVE  FlagsInv'
<1>0. kind' = kind
  BY DEF Otsus!Next, Otsus!Loaded, Otsus!LoadFailed, Otsus!Submit, Otsus!Batal, Otsus!Press,
         Otsus!UpdatePublication, Otsus!DeleteDocument, Otsus!SubmitStep, Otsus!CallStep,
         Otsus!ServeCall, Otsus!CallAnswered, Otsus!vars
<1> SUFFICES ASSUME kind = "edit" PROVE FlagsInv'
  BY <1>0 DEF FlagsInv
<1> USE DEF Otsus!server, Otsus!history
<1>1. CASE Otsus!Loaded
  BY <1>0, <1>1 DEF Otsus!Loaded, FlagsInv, OneMeaning, FromBefore, Known, Effected
<1>2. CASE Otsus!LoadFailed
  BY <1>0, <1>2 DEF Otsus!LoadFailed, FlagsInv, OneMeaning, FromBefore
<1>3. CASE Otsus!Submit
  BY <1>0, <1>3 DEF Otsus!Submit, FlagsInv, OneMeaning, FromBefore, Known, Effected
<1>4. CASE Otsus!Batal
  BY <1>0, <1>4 DEF Otsus!Batal, FlagsInv, OneMeaning, FromBefore
<1>5. ASSUME NEW d \in documents, NEW act \in {"publish", "delete"}, Otsus!Press(act, d)
      PROVE  FlagsInv'
  <2>1. PICK s \in Slot :
          calls' = calls \cup {[slot |-> s, act |-> act, kind |-> d.kind, file |-> d.file,
                                to |-> ~d.public, state |-> "sent"]}
    BY <1>5 DEF Otsus!Press
  <2> DEFINE new == [slot |-> s, act |-> act, kind |-> d.kind, file |-> d.file,
                     to |-> ~d.public, state |-> "sent"]
  <2>2. new.kind = d.kind /\ new.file = d.file /\ new.state = "sent"
    OBVIOUS
  <2>3. calls' = calls \cup {new}
    BY <2>1
  <2> HIDE DEF new
  <2>4. /\ phase = "ready" /\ UNCHANGED <<stored, phase, documents>>
        /\ unsure' = unsure \cup {c.file : c \in {c \in calls : c.kind = d.kind /\ c.file = d.file}}
    BY <1>5 DEF Otsus!Press
  <2>5. \A f : Effected(f)' = Effected(f)
    BY <2>2, <2>3 DEF Effected
  <2>6. \A e : Known(e)' <=> Known(e)
    BY <2>4, <2>5 DEF Known
  <2>7. OneMeaning(documents \cup calls \cup FromBefore)'
    BY <2>2, <2>3, <2>4 DEF FlagsInv, OneMeaning, FromBefore
  <2>8. \A c, e \in calls' : c.file = e.file /\ c # e => c.file \in unsure'
    <3>1. \A c \in calls : c.file = d.file => c.kind = d.kind /\ c.file \in unsure'
      BY <2>4 DEF FlagsInv, OneMeaning
    <3> QED
      BY <2>2, <2>3, <2>4, <3>1 DEF FlagsInv
  <2> QED
    BY <1>0, <2>4, <2>6, <2>7, <2>8 DEF FlagsInv
<1>6. CASE Otsus!SubmitStep
  <2>1. CASE phase' = "ready" /\ phase = "ready"
    BY <1>6, <2>1, FlagsSubmit
  <2>2. CASE ~(phase' = "ready" /\ phase = "ready")
    <3>1. phase # "loading"
      BY <1>6, SubmitKeeps DEF FlagsInv
    <3> QED
      BY <1>0, <1>6, <2>2, <3>1, SubmitKeeps DEF FlagsInv, OneMeaning
  <2> QED
    BY <2>1, <2>2
<1>7. ASSUME NEW c \in calls, Otsus!ServeCall(c) PROVE FlagsInv'
  BY <1>7, FlagsServed
<1>8. ASSUME NEW c \in calls, Otsus!CallAnswered(c) PROVE FlagsInv'
  BY <1>8, FlagsAnswered
<1>9. CASE UNCHANGED Otsus!vars
  BY <1>9 DEF Otsus!vars, FlagsInv, OneMeaning, FromBefore, Known, Effected
<1> QED
  BY <1>1, <1>2, <1>3, <1>4, <1>5, <1>6, <1>7, <1>8, <1>9
     DEF Otsus!Next, Otsus!UpdatePublication, Otsus!DeleteDocument, Otsus!CallStep
LEMMA FlagsFollow == Otsus!TypeOK /\ FlagsInv => Otsus!FlagsShown
<1> SUFFICES ASSUME Otsus!TypeOK, FlagsInv, phase = "ready", kind = "edit", calls = {}
             PROVE  {d \in documents : d.file \notin unsure}
                    = {d \in FromBefore : d.file \notin unsure}
  BY DEF Otsus!FlagsShown, Otsus!Uploads, FromBefore
<1>1. \A d \in Otsus!Item :
         d.from = None /\ d.file \notin unsure => (d \in stored <=> d \in documents)
  BY DEF FlagsInv, Known, Effected
<1> QED
  BY <1>1 DEF FlagsInv, FromBefore, Otsus!TypeOK

\* With nothing in flight the flags shown are the server's, whatever order switches,
\* deletions and uploads were served and answered in.
THEOREM SwitchesFollowServer ==
    ASSUME Otsus!OtsusFormAssumption PROVE Otsus!Spec => [](Otsus!TypeOK /\ Otsus!FlagsShown)
<1>1. Otsus!OtsusFormAssumption /\ Otsus!Init => Otsus!TypeOK /\ FlagsInv
  <2> SUFFICES ASSUME Otsus!OtsusFormAssumption, Otsus!Init PROVE Otsus!TypeOK
    BY FlagsStart
  <2>1. MaxFiles \in Nat \ {0}
    BY DEF Otsus!OtsusFormAssumption
  <2>2. issued \in 0..MaxFiles
    BY <2>1, FormStart
  <2> QED
    BY <2>2, FormStart DEF Otsus!TypeOK
<1>2. /\ Otsus!OtsusFormAssumption /\ Otsus!TypeOK /\ FlagsInv /\ [Otsus!Next]_Otsus!vars
      => Otsus!TypeOK' /\ FlagsInv'
  BY FormTypeStep, FlagsStep
<1> QED
  BY Otsus!OtsusFormAssumption, FlagsFollow, <1>1, <1>2, PTL DEF Otsus!Spec

-----------------------------------------------------------------------------
(* The notice of a submit.                                                   *)

\* The calls of the running submit that are answered, or of the one that ended.
Sent(step) == {i \in DOMAIN at : i <= Len(at) - Len(goto) /\ at[i] = step}

\* What is left to call is the end of what was to be called, the label first.
ChainInv ==
    /\ goto # <<>> => phase = "ready"
    /\ goto = <<>> /\ phase # "saved" => at = <<>>
    /\ phase = "saved" => at # <<>>
    /\ phase \in {"loading", "saved"} => calls = {} /\ documents = {}
    /\ Len(goto) <= Len(at)
    /\ \A i \in 1..Len(goto) : goto[i] = at[Len(at) - Len(goto) + i]
    /\ at # <<>> => at[1] = "label"

\* A file that a submit stored is new: no switch or delete button is about it.
Uploaded == {d \in stored : d.from \in Photo \cup {"dpa"}}
NewInv ==
    /\ \A d \in stored \cup documents \cup calls : d.file <= issued
    /\ \A d \in Uploaded : d.kind = IF d.from = "dpa" THEN "dpa" ELSE "photo"
    /\ \A d \in Uploaded, c \in calls \cup documents : d.file # c.file
    /\ \A c \in calls : c.act = "delete" => c.kind # "label"
    /\ phase = "loading" => Uploaded = {}

\* The submit's files are stored as often as they were sent.
StoredInv ==
    /\ kind = "edit" \/ Len(goto) < Len(at) => Otsus!Of(stored, "label") # {}
    /\ \A step \in Photo \cup {"dpa"} :
         /\ IsFiniteSet(Otsus!Uploads(step))
         /\ Cardinality(Otsus!Uploads(step)) >= Cardinality(Sent(step))
         /\ ~lost => Cardinality(Otsus!Uploads(step)) = Cardinality(Sent(step))
    /\ goto # <<>> /\ ~asked => ~Otsus!About("lpj")
    /\ Sent("lpj") # {} /\ ~asked =>
         \E d \in Otsus!Of(stored, "lpj") : d.from = "lpj" /\ ~d.public

NoticeInv == Otsus!TypeOK /\ ChainInv /\ NewInv /\ StoredInv

LEMMA NoticeStart == ASSUME Otsus!OtsusFormAssumption, Otsus!Init PROVE NoticeInv
<1>1. Otsus!TypeOK
  <2>1. MaxFiles \in Nat \ {0}
    BY DEF Otsus!OtsusFormAssumption
  <2>2. issued \in 0..MaxFiles
    BY <2>1, FormStart
  <2> QED
    BY <2>2, FormStart DEF Otsus!TypeOK
<1>2. ChainInv
  BY FormStart DEF ChainInv
<1>3. Uploaded = {} /\ NewInv
  BY FormStart DEF Uploaded, NewInv, Otsus!OtsusFormAssumption
<1>4. \A step : Sent(step) = {}
  BY FormStart DEF Sent
<1>5. \A step \in Photo \cup {"dpa"} : Otsus!Uploads(step) = {}
  BY <1>3 DEF Uploaded, Otsus!Uploads
<1>6. kind = "edit" => Otsus!Of(stored, "label") # {}
  BY FormStart DEF Otsus!Of, Otsus!Label
<1>7. StoredInv
  <2>1. \A step \in Photo \cup {"dpa"} :
           /\ IsFiniteSet(Otsus!Uploads(step))
           /\ Cardinality(Otsus!Uploads(step)) = 0 /\ Cardinality(Sent(step)) = 0
    BY <1>4, <1>5, FS_EmptySet
  <2>2. Len(goto) = Len(at) /\ goto = <<>>
    BY FormStart
  <2> QED
    BY <1>4, <1>6, <2>1, <2>2 DEF StoredInv
<1> QED
  BY <1>1, <1>2, <1>3, <1>7 DEF NoticeInv
\* An answered call is one more of those sent.
LEMMA SentGrows ==
    ASSUME Otsus!TypeOK, ChainInv, goto # <<>>, goto' = Tail(goto), at' = at
    PROVE  /\ \A step : Sent(step)' = Sent(step) \cup
                          (IF Head(goto) = step THEN {Len(at) - Len(goto) + 1} ELSE {})
           /\ Len(at) - Len(goto) + 1 \in DOMAIN at
           /\ \A step : Len(at) - Len(goto) + 1 \notin Sent(step)
           /\ Len(goto') = Len(goto) - 1 /\ at[Len(at) - Len(goto) + 1] = Head(goto)
<1> DEFINE Step == {"label"} \cup Photo \cup {"lpj", "dpa"}
           n == Len(at)
           k == Len(goto)
<1>1. goto \in Seq(Step) /\ at \in Seq(Step)
  BY DEF Otsus!TypeOK
<1> HIDE DEF Step
<1>2. /\ n \in Nat /\ k \in Nat /\ k > 0 /\ k <= n /\ Len(goto') = k - 1
      /\ DOMAIN at = 1..n /\ Head(goto) = goto[1]
  BY <1>1 DEF ChainInv
<1>3. at[n - k + 1] = Head(goto)
  BY <1>2 DEF ChainInv
<1>4. \A i \in 1..n : i <= n - (k - 1) <=> i <= n - k \/ i = n - k + 1
  BY <1>2
<1>5. n - k + 1 \in 1..n /\ ~(n - k + 1 <= n - k)
  BY <1>2
<1> QED
  BY <1>2, <1>3, <1>4, <1>5 DEF Sent

LEMMA SentFinite ==
    ASSUME Otsus!TypeOK PROVE \A step : IsFiniteSet(Sent(step))
<1>1. Len(at) \in Nat /\ DOMAIN at = 1..Len(at)
  BY DEF Otsus!TypeOK
<1>2. IsFiniteSet(1..Len(at))
  BY <1>1, FS_Interval
<1>3. \A step : Sent(step) \in SUBSET (1..Len(at))
  BY <1>1 DEF Sent
<1> QED
  BY <1>2, <1>3, FS_Subset

\* What is stored for an answered call is one more of its files, and no other.
LEMMA UploadsGrow ==
    ASSUME Otsus!OtsusFormAssumption, NoticeInv, Otsus!Stored(Head(goto)),
           NEW step \in Photo \cup {"dpa"}
    PROVE  IF Head(goto) = step
             THEN \E new : new \notin Otsus!Uploads(step)
                           /\ Otsus!Uploads(step)' = Otsus!Uploads(step) \cup {new}
             ELSE Otsus!Uploads(step)' = Otsus!Uploads(step)
<1>1. step # None /\ step # "label" /\ step # "lpj"
  BY DEF Otsus!OtsusFormAssumption
<1>2. \A d \in Otsus!Uploads(step) : d.file <= issued /\ d.kind # "lpj"
  BY DEF NoticeInv, NewInv, Uploaded, Otsus!Uploads
<1>3. CASE Head(goto) = "label"
  <2>1. Head(goto) \notin Photo \cup {"lpj", "dpa"}
    BY <1>3 DEF Otsus!OtsusFormAssumption
  <2>2. stored' = stored \/ stored' = stored \cup {Otsus!Label}
    BY <2>1, ServedSubmit DEF NoticeInv
  <2> QED
    BY <1>1, <1>3, <2>2 DEF Otsus!Uploads, Otsus!Label
<1>4. CASE Head(goto) # "label"
  <2>1. issued \in Nat /\ issued' = issued + 1
    <3>1. issued \in Nat
      BY DEF NoticeInv, Otsus!TypeOK
    <3>2. issued' = issued + 1
      BY <1>4, ServedSubmit DEF NoticeInv
    <3> QED
      BY <3>1, <3>2
  <2>2. PICK new \in Otsus!Item :
          /\ new.from = Head(goto) /\ new.file = issued'
          /\ stored' = (IF Head(goto) = "lpj" THEN stored \ Otsus!Of(stored, "lpj") ELSE stored)
                       \cup {new}
    BY <1>4, ServedSubmit DEF NoticeInv
  <2>3. new \notin Otsus!Uploads(step)
    BY <1>2, <2>1, <2>2
  <2>4. Otsus!Uploads(step)' = Otsus!Uploads(step) \cup (IF Head(goto) = step THEN {new} ELSE {})
    BY <1>1, <1>2, <2>2 DEF Otsus!Uploads, Otsus!Of
  <2> QED
    BY <2>3, <2>4
<1> QED
  BY <1>3, <1>4

LEMMA FirstStays ==
    ASSUME NEW S, NEW a \in Seq(S), NEW b \in Seq(S), a # <<>>
    PROVE  a \o b \in Seq(S) /\ a \o b # <<>> /\ (a \o b)[1] = a[1]
<1>1. Len(a) \in Nat \ {0} /\ Len(b) \in Nat /\ a \o b \in Seq(S)
  OBVIOUS
<1>2. Len(a \o b) = Len(a) + Len(b)
  OBVIOUS
<1>3. 1 \in 1..Len(a) + Len(b) /\ 1 <= Len(a)
  BY <1>1
<1>4. (a \o b)[1] = a[1]
  BY <1>1, <1>3
<1> QED
  BY <1>1, <1>2, <1>4

LEMMA ChainStep ==
    ASSUME Otsus!OtsusFormAssumption, NoticeInv, [Otsus!Next]_Otsus!vars
    PROVE  ChainInv'
<1> USE DEF NoticeInv, ChainInv
<1>1. CASE Otsus!Loaded
  BY <1>1 DEF Otsus!Loaded
<1>2. CASE Otsus!LoadFailed
  BY <1>2 DEF Otsus!LoadFailed
<1>3. CASE Otsus!Submit
  <2>1. PICK photos \in Otsus!Photos, lpj \in BOOLEAN, dpa \in BOOLEAN :
          at' = Otsus!Steps(photos, lpj, dpa)
    BY <1>3 DEF Otsus!Submit
  <2>2. PICK n \in Nat : photos \in [1..n -> Photo]
    <3>1. PICK n \in 0..MaxPhotos : photos \in [1..n -> Photo]
      BY <2>1 DEF Otsus!Photos
    <3> QED
      BY <3>1 DEF Otsus!OtsusFormAssumption
  <2>3. at' # <<>> /\ at'[1] = "label" /\ Len(at') \in Nat
    <3> DEFINE Step == {"label"} \cup Photo \cup {"lpj", "dpa"}
               first == <<"label">>
               third == IF lpj THEN <<"lpj">> ELSE <<>>
               fourth == IF dpa THEN <<"dpa">> ELSE <<>>
    <3>1. /\ first \in Seq(Step) /\ third \in Seq(Step) /\ fourth \in Seq(Step)
          /\ photos \in Seq(Step) /\ first # <<>> /\ first[1] = "label"
      <4>1. /\ "label" \in Step /\ "lpj" \in Step /\ "dpa" \in Step
            /\ \A x \in Photo : x \in Step
        OBVIOUS
      <4> HIDE DEF Step
      <4>2. photos \in Seq(Step)
        BY <2>2, <4>1
      <4> QED
        BY <4>1, <4>2
    <3>2. at' = first \o photos \o third \o fourth
      BY <2>1 DEF Otsus!Steps
    <3> HIDE DEF Step, first, third, fourth
    <3>3. /\ first \o photos \in Seq(Step) /\ first \o photos # <<>>
          /\ (first \o photos)[1] = "label"
      BY <3>1, FirstStays
    <3>4. /\ first \o photos \o third \in Seq(Step) /\ first \o photos \o third # <<>>
          /\ (first \o photos \o third)[1] = "label"
      BY <3>1, <3>3, FirstStays
    <3>5. at' \in Seq(Step) /\ at' # <<>> /\ at'[1] = "label"
      BY <3>1, <3>2, <3>4, FirstStays
    <3> QED
      BY <3>5
  <2>4. goto' = at' /\ phase = "ready" /\ phase' = phase
    BY <1>3 DEF Otsus!Submit
  <2> QED
    BY <2>3, <2>4
<1>4. CASE Otsus!Batal
  BY <1>4 DEF Otsus!Batal
<1>5. ASSUME NEW d \in documents, NEW act \in {"publish", "delete"}, Otsus!Press(act, d)
      PROVE  ChainInv'
  BY <1>5 DEF Otsus!Press
<1>6. CASE Otsus!SubmitStep
  <2>1. CASE Otsus!SubmitFailed
    BY <1>6, <2>1 DEF Otsus!SubmitStep, Otsus!SubmitFailed
  <2>2. CASE Otsus!SubmitDone
    <3>1. goto # <<>> /\ goto' = Tail(goto) /\ at' = at /\ phase = "ready" /\ at # <<>>
      <4>1. goto # <<>> /\ goto' = Tail(goto) /\ at' = at /\ phase = "ready"
        BY <1>6, <2>2 DEF Otsus!SubmitStep, Otsus!SubmitDone
      <4>2. Len(goto) \in Nat \ {0}
        BY <4>1 DEF Otsus!TypeOK
      <4> QED
        BY <4>1, <4>2
    <3>2. Len(goto') = Len(goto) - 1 /\ Len(goto) \in Nat \ {0} /\ Len(at) \in Nat
      BY <3>1, SentGrows DEF Otsus!TypeOK
    <3>3. \A i \in 1..Len(goto') : goto'[i] = at[Len(at) - Len(goto') + i]
      <4> SUFFICES ASSUME NEW i \in 1..Len(goto') PROVE goto'[i] = at[Len(at) - Len(goto') + i]
        OBVIOUS
      <4>1. i + 1 \in 1..Len(goto) /\ goto'[i] = goto[i + 1]
        BY <3>1, <3>2 DEF Otsus!TypeOK
      <4>2. Len(at) - Len(goto) + (i + 1) = Len(at) - Len(goto') + i
        BY <3>2
      <4> QED
        BY <4>1, <4>2
    <3>4. /\ goto' # <<>> => phase' = phase
          /\ goto' = <<>> => phase' = "saved" /\ calls' = {} /\ documents' = {}
      BY <1>6, <2>2 DEF Otsus!SubmitStep, Otsus!SubmitDone
    <3> QED
      BY <3>1, <3>2, <3>3, <3>4
  <2> QED
    BY <1>6, <2>1, <2>2 DEF Otsus!SubmitStep
<1>7. ASSUME NEW c \in calls, Otsus!ServeCall(c) PROVE ChainInv'
  BY <1>7 DEF Otsus!ServeCall
<1>8. ASSUME NEW c \in calls, Otsus!CallAnswered(c) PROVE ChainInv'
  BY <1>8 DEF Otsus!CallAnswered
<1>9. CASE UNCHANGED Otsus!vars
  BY <1>9 DEF Otsus!vars
<1> QED
  BY <1>1, <1>2, <1>3, <1>4, <1>5, <1>6, <1>7, <1>8, <1>9
     DEF Otsus!Next, Otsus!UpdatePublication, Otsus!DeleteDocument, Otsus!CallStep
\* A call about what is shown means no file that a submit stored.
LEMMA MeantIsOld ==
    ASSUME Otsus!TypeOK, NewInv, NEW c \in calls, Otsus!ServeCall(c)
    PROVE  /\ Otsus!Meant(c) \subseteq stored /\ Otsus!Meant(c) \cap Uploaded = {}
           /\ Uploaded' = Uploaded
           /\ \A d \in stored' : \E e \in stored : d.file = e.file /\ d.from = e.from
           /\ \A d \in stored : d.kind # c.kind => d \in stored'
           /\ \A d \in stored : d.kind = "label" =>
                 \E e \in stored' : e.kind = "label"
<1>1. Otsus!Meant(c) \in SUBSET stored /\ Otsus!Meant(c) \in SUBSET Otsus!Item /\ c.to \in BOOLEAN
  BY DEF Otsus!Meant, Otsus!Of, Otsus!TypeOK, Otsus!Call
<1>2. \A d \in Otsus!Meant(c) : d.kind = c.kind /\ (c.kind = "lpj" \/ d.file = c.file)
  BY DEF Otsus!Meant, Otsus!Of
<1>3. Otsus!Meant(c) \cap Uploaded = {}
  BY <1>2 DEF NewInv
<1>4. \A d \in Set(Otsus!Meant(c), c.to) :
         \E e \in Otsus!Meant(c) : /\ d = [e EXCEPT !.public = c.to]
                                   /\ d.kind = e.kind /\ d.file = e.file /\ d.from = e.from
  BY <1>1, SetItems
<1>5. \/ stored' = stored
      \/ stored' = (stored \ Otsus!Meant(c))
                   \cup (IF c.act = "delete" THEN {} ELSE Set(Otsus!Meant(c), c.to))
  BY ServedCall
<1>6. \A d \in stored' : d \in stored \/ \E e \in Otsus!Meant(c) : d.file = e.file /\ d.from = e.from
  BY <1>4, <1>5
<1>7. Uploaded' = Uploaded
  <2>1. \A d \in Set(Otsus!Meant(c), c.to) : d.from \notin Photo \cup {"dpa"}
    BY <1>1, <1>3, <1>4 DEF Uploaded
  <2> QED
    BY <1>3, <1>5, <2>1 DEF Uploaded
<1>8. \A d \in stored : d.kind # c.kind => d \in stored'
  BY <1>2, <1>5
<1>9. ASSUME NEW d \in stored, d.kind = "label" PROVE \E e \in stored' : e.kind = "label"
  <2>1. CASE d \in stored'
    BY <1>9, <2>1
  <2>2. CASE d \notin stored'
    <3>1. d \in Otsus!Meant(c) /\ c.kind = "label" /\ c.act # "delete"
      BY <1>2, <1>5, <1>9, <2>2 DEF NewInv
    <3>2. [d EXCEPT !.public = c.to] \in Set(Otsus!Meant(c), c.to)
      BY <3>1 DEF Set
    <3>3. [d EXCEPT !.public = c.to].kind = "label"
      BY <1>9 DEF Otsus!TypeOK, Otsus!Item
    <3> QED
      BY <1>5, <2>2, <3>1, <3>2, <3>3
  <2> QED
    BY <2>1, <2>2
<1> QED
  BY <1>1, <1>3, <1>6, <1>7, <1>8, <1>9

LEMMA NewStep ==
    ASSUME Otsus!OtsusFormAssumption, NoticeInv, [Otsus!Next]_Otsus!vars
    PROVE  NewInv'
<1> USE DEF NoticeInv
<1>1. CASE Otsus!Loaded
  <2>1. Uploaded = {} /\ UNCHANGED <<stored, issued, calls>> /\ documents' \in {stored, {}}
    BY <1>1 DEF Otsus!Loaded, NewInv, Otsus!server
  <2> QED
    BY <2>1 DEF NewInv, Uploaded
<1>2. CASE Otsus!LoadFailed
  BY <1>2 DEF Otsus!LoadFailed, NewInv, Uploaded, Otsus!server
<1>3. CASE Otsus!Submit
  BY <1>3 DEF Otsus!Submit, NewInv, Uploaded, Otsus!server
<1>4. CASE Otsus!Batal
  BY <1>4 DEF Otsus!Batal, NewInv, Uploaded, Otsus!server
<1>5. ASSUME NEW d \in documents, NEW act \in {"publish", "delete"}, Otsus!Press(act, d),
             act = "delete" => d.kind # "label"
      PROVE  NewInv'
  <2>1. PICK s \in Slot :
          calls' = calls \cup {[slot |-> s, act |-> act, kind |-> d.kind, file |-> d.file,
                                to |-> ~d.public, state |-> "sent"]}
    BY <1>5 DEF Otsus!Press
  <2> DEFINE new == [slot |-> s, act |-> act, kind |-> d.kind, file |-> d.file,
                     to |-> ~d.public, state |-> "sent"]
  <2>2. new.kind = d.kind /\ new.file = d.file /\ new.act = act
    OBVIOUS
  <2>3. calls' = calls \cup {new}
    BY <2>1
  <2> HIDE DEF new
  <2>4. UNCHANGED <<stored, issued, phase, documents>>
    BY <1>5 DEF Otsus!Press, Otsus!server
  <2> QED
    BY <1>5, <2>2, <2>3, <2>4 DEF NewInv, Uploaded
<1>6. CASE Otsus!SubmitStep
  <2>1. /\ documents' \subseteq documents /\ calls' \subseteq calls /\ phase = "ready"
        /\ phase' \in {phase, "saved"}
        /\ Otsus!Stored(Head(goto)) \/ UNCHANGED <<stored, issued>>
    BY <1>6 DEF Otsus!SubmitStep, Otsus!SubmitDone, Otsus!SubmitFailed, ChainInv, Otsus!server
  <2>2. CASE UNCHANGED <<stored, issued>>
    BY <2>1, <2>2 DEF NewInv, Uploaded
  <2>3. CASE Otsus!Stored(Head(goto)) /\ Head(goto) = "label"
    <3>1. Head(goto) \notin Photo \cup {"lpj", "dpa"}
      BY <2>3 DEF Otsus!OtsusFormAssumption
    <3>2. issued' = issued /\ (stored' = stored \/ stored' = stored \cup {Otsus!Label})
      BY <2>3, <3>1, ServedSubmit
    <3>3. Otsus!Label.from \notin Photo \cup {"dpa"} /\ Otsus!Label.file = 0
      BY DEF Otsus!Label, Otsus!OtsusFormAssumption
    <3>4. Uploaded' = Uploaded
      BY <3>2, <3>3 DEF Uploaded
    <3>5. issued >= 0
      BY DEF Otsus!TypeOK
    <3> QED
      BY <2>1, <3>2, <3>3, <3>4, <3>5 DEF NewInv
  <2>4. CASE Otsus!Stored(Head(goto)) /\ Head(goto) # "label"
    <3>1. issued \in Nat
      BY DEF Otsus!TypeOK
    <3>2. issued' = issued + 1 /\ Head(goto) \in Photo \cup {"lpj", "dpa"}
      BY <2>4, ServedSubmit
    <3>3. PICK new \in Otsus!Item :
            /\ new.from = Head(goto) /\ new.file = issued'
            /\ new.kind = IF Head(goto) \in Photo THEN "photo" ELSE Head(goto)
            /\ stored' = (IF Head(goto) = "lpj" THEN stored \ Otsus!Of(stored, "lpj") ELSE stored)
                         \cup {new}
      BY <2>4, ServedSubmit
    <3>4. Uploaded' \subseteq Uploaded \cup {new}
      BY <3>3 DEF Uploaded
    <3>5. \A d \in stored \cup documents \cup calls : d.file <= issued /\ d.file \in Nat
      BY DEF NewInv, Otsus!TypeOK, Otsus!Item, Otsus!Call
    <3>6. new.from \in Photo \cup {"dpa"} =>
             new.kind = IF new.from = "dpa" THEN "dpa" ELSE "photo"
      BY <3>3 DEF Otsus!OtsusFormAssumption
    <3>7. \A d \in stored' \cup documents' \cup calls' : d.file <= issued'
      BY <2>1, <3>1, <3>2, <3>3, <3>5
    <3>8. \A d \in Uploaded', c \in calls' \cup documents' : d.file # c.file
      BY <2>1, <3>1, <3>2, <3>3, <3>4, <3>5 DEF NewInv
    <3>9. \A d \in Uploaded' : d.kind = IF d.from = "dpa" THEN "dpa" ELSE "photo"
      BY <3>4, <3>6 DEF NewInv, Uploaded
    <3> QED
      BY <2>1, <3>7, <3>8, <3>9 DEF NewInv
  <2> QED
    BY <2>1, <2>2, <2>3, <2>4
<1>7. ASSUME NEW c \in calls, Otsus!ServeCall(c) PROVE NewInv'
  <2>1. UNCHANGED <<issued, phase, documents>>
        /\ (calls' = (calls \ {c}) \cup {[c EXCEPT !.state = "done"]} \/ calls' = calls \ {c})
    BY <1>7, ServedCall
  <2>2. /\ [c EXCEPT !.state = "done"].file = c.file
        /\ [c EXCEPT !.state = "done"].kind = c.kind /\ [c EXCEPT !.state = "done"].act = c.act
    BY DEF Otsus!TypeOK, Otsus!Call
  <2>3. \A d \in calls' : \E e \in calls : d.file = e.file /\ d.kind = e.kind /\ d.act = e.act
    BY <2>1, <2>2
  <2>4. Uploaded' = Uploaded /\ \A d \in stored' : \E e \in stored : d.file = e.file
    BY <1>7, MeantIsOld
  <2> QED
    BY <2>1, <2>3, <2>4 DEF NewInv
<1>8. ASSUME NEW c \in calls, Otsus!CallAnswered(c) PROVE NewInv'
  <2>1. /\ calls' \subseteq calls /\ UNCHANGED <<stored, issued, phase>>
        /\ documents' = (documents \ Otsus!Shown(c))
                        \cup (IF c.act = "delete" THEN {} ELSE Set(Otsus!Shown(c), c.to))
    BY <1>8 DEF Otsus!CallAnswered, Set, Otsus!server
  <2>2. Otsus!Shown(c) \in SUBSET documents /\ Otsus!Shown(c) \in SUBSET Otsus!Item
        /\ c.to \in BOOLEAN
    BY DEF Otsus!Shown, Otsus!Of, Otsus!TypeOK, Otsus!Call
  <2>3. \A d \in Set(Otsus!Shown(c), c.to) : \E e \in Otsus!Shown(c) : d.file = e.file
    BY <2>2, SetItems
  <2>4. \A d \in documents' : \E e \in documents : d.file = e.file
    BY <2>1, <2>2, <2>3
  <2> QED
    BY <2>1, <2>4 DEF NewInv, Uploaded
<1>9. CASE UNCHANGED Otsus!vars
  BY <1>9 DEF Otsus!vars, NewInv, Uploaded, Otsus!server
<1> QED
  BY <1>1, <1>2, <1>3, <1>4, <1>5, <1>6, <1>7, <1>8, <1>9
     DEF Otsus!Next, Otsus!UpdatePublication, Otsus!DeleteDocument, Otsus!CallStep
LEMMA StoredStep ==
    ASSUME Otsus!OtsusFormAssumption, NoticeInv, [Otsus!Next]_Otsus!vars
    PROVE  StoredInv'
<1> USE DEF NoticeInv
<1>1. ASSUME UNCHANGED <<kind, stored, goto, at, lost, asked>>, goto # <<>> => calls' \subseteq calls
      PROVE  StoredInv'
  <2>1. /\ \A step : Otsus!Uploads(step)' = Otsus!Uploads(step)
        /\ \A step : Sent(step)' = Sent(step)
        /\ \A k : Otsus!Of(stored, k)' = Otsus!Of(stored, k)
    BY <1>1 DEF Otsus!Uploads, Sent, Otsus!Of
  <2> QED
    BY <1>1, <2>1 DEF StoredInv, Otsus!About
<1>2. CASE Otsus!Loaded
  BY <1>1, <1>2 DEF Otsus!Loaded, Otsus!server, Otsus!history
<1>3. CASE Otsus!LoadFailed
  BY <1>1, <1>3 DEF Otsus!LoadFailed, Otsus!server, Otsus!history
<1>4. CASE Otsus!Submit
  <2>1. /\ goto' = at' /\ at = <<>> /\ UNCHANGED <<kind, stored, lost, calls>>
        /\ asked' = (asked \/ Otsus!About("lpj"))
    BY <1>4 DEF Otsus!Submit, ChainInv, Otsus!server
  <2>2. \A step : Sent(step) = {} /\ Sent(step)' = {}
    <3>1. at' \in Seq({"label"} \cup Photo \cup {"lpj", "dpa"})
      BY FormTypeStep DEF Otsus!TypeOK
    <3>2. Len(at') \in Nat /\ DOMAIN at' = 1..Len(at')
      BY <3>1
    <3>3. \A i \in 1..Len(at') : ~(i <= Len(at') - Len(goto'))
      BY <2>1, <3>2
    <3> QED
      BY <2>1, <3>2, <3>3 DEF Sent
  <2>3. /\ \A step : Otsus!Uploads(step)' = Otsus!Uploads(step)
        /\ \A k : Otsus!Of(stored, k)' = Otsus!Of(stored, k)
        /\ Otsus!About("lpj")' <=> Otsus!About("lpj")
    BY <2>1 DEF Otsus!Uploads, Otsus!Of, Otsus!About
  <2>4. ~(Len(goto') < Len(at'))
    <3>1. Len(at') \in Nat
      <4>1. at' \in Seq({"label"} \cup Photo \cup {"lpj", "dpa"})
        BY FormTypeStep DEF Otsus!TypeOK
      <4> QED
        BY <4>1
    <3> QED
      BY <2>1, <3>1
  <2> QED
    BY <2>1, <2>2, <2>3, <2>4 DEF StoredInv
<1>5. CASE Otsus!Batal
  BY <1>1, <1>5 DEF Otsus!Batal, Otsus!server, Otsus!history
<1>6. ASSUME NEW d \in documents, NEW act \in {"publish", "delete"}, Otsus!Press(act, d)
      PROVE  StoredInv'
  <2>1. /\ UNCHANGED <<kind, stored, goto, at, lost>>
        /\ asked' = (asked \/ (d.kind = "lpj" /\ goto # <<>>))
    BY <1>6 DEF Otsus!Press, Otsus!server
  <2>2. Otsus!About("lpj")' => Otsus!About("lpj") \/ d.kind = "lpj"
    <3>1. PICK s \in Slot :
            calls' = calls \cup {[slot |-> s, act |-> act, kind |-> d.kind, file |-> d.file,
                                  to |-> ~d.public, state |-> "sent"]}
      BY <1>6 DEF Otsus!Press
    <3> DEFINE new == [slot |-> s, act |-> act, kind |-> d.kind, file |-> d.file,
                       to |-> ~d.public, state |-> "sent"]
    <3>2. new.kind = d.kind /\ calls' = calls \cup {new}
      BY <3>1
    <3> HIDE DEF new
    <3> QED
      BY <3>2 DEF Otsus!About
  <2>3. /\ \A step : Otsus!Uploads(step)' = Otsus!Uploads(step)
        /\ \A step : Sent(step)' = Sent(step)
        /\ \A k : Otsus!Of(stored, k)' = Otsus!Of(stored, k)
    BY <2>1 DEF Otsus!Uploads, Sent, Otsus!Of
  <2> QED
    BY <2>1, <2>2, <2>3 DEF StoredInv
<1>7. CASE Otsus!SubmitStep /\ Otsus!SubmitDone
  <2>1. /\ goto # <<>> /\ goto' = Tail(goto) /\ Otsus!Stored(Head(goto)) /\ calls' \subseteq calls
        /\ UNCHANGED <<kind, at, lost, asked>>
    BY <1>7 DEF Otsus!SubmitStep, Otsus!SubmitDone
  <2> DEFINE next == Len(at) - Len(goto) + 1
  <2>2. /\ \A step : Sent(step)' = Sent(step) \cup (IF Head(goto) = step THEN {next} ELSE {})
        /\ \A step : next \notin Sent(step)
        /\ next \in DOMAIN at /\ at[next] = Head(goto) /\ Len(goto') = Len(goto) - 1
        /\ Len(goto) \in Nat \ {0} /\ Len(at) \in Nat /\ Len(goto) <= Len(at)
    <3>1. Len(goto) \in Nat \ {0} /\ Len(at) \in Nat /\ Len(goto) <= Len(at)
      BY <2>1 DEF Otsus!TypeOK, ChainInv
    <3> QED
      BY <2>1, <3>1, SentGrows
  <2>3. Otsus!Of(stored, "label")' # {}
    <3>1. CASE Len(goto) < Len(at)
      <4>1. PICK d \in stored : d.kind = "label"
        BY <3>1 DEF StoredInv, Otsus!Of
      <4>2. d \in stored'
        <5>1. \/ stored \subseteq stored'
              \/ \E new \in Otsus!Item : stored' = (stored \ Otsus!Of(stored, "lpj")) \cup {new}
          BY ZenonT(40), <2>1, ServedSubmit
        <5> QED
          BY <4>1, <5>1 DEF Otsus!Of
      <4> QED
        BY <4>1, <4>2 DEF Otsus!Of
    <3>2. CASE Len(goto) = Len(at)
      <4>1. at # <<>> /\ next = 1
        BY <2>1, <2>2, <3>2
      <4>2. Head(goto) = "label"
        BY <2>2, <4>1 DEF ChainInv
      <4>3. Head(goto) \notin Photo \cup {"lpj", "dpa"}
        BY <4>2 DEF Otsus!OtsusFormAssumption
      <4>4. \/ kind = "edit" /\ stored' = stored
            \/ stored' = stored \cup {Otsus!Label}
        BY <2>1, <4>3, ServedSubmit
      <4>5. Otsus!Label.kind = "label"
        BY DEF Otsus!Label
      <4> QED
        BY <2>1, <4>4, <4>5 DEF StoredInv, Otsus!Of
    <3> QED
      BY <2>2, <3>1, <3>2
  <2>4. ASSUME NEW step \in Photo \cup {"dpa"}
        PROVE  /\ IsFiniteSet(Otsus!Uploads(step)')
               /\ Cardinality(Otsus!Uploads(step)') >= Cardinality(Sent(step)')
               /\ ~lost => Cardinality(Otsus!Uploads(step)') = Cardinality(Sent(step)')
    <3>1. /\ IsFiniteSet(Otsus!Uploads(step)) /\ IsFiniteSet(Sent(step))
          /\ Cardinality(Otsus!Uploads(step)) \in Nat /\ Cardinality(Sent(step)) \in Nat
          /\ Cardinality(Otsus!Uploads(step)) >= Cardinality(Sent(step))
          /\ ~lost => Cardinality(Otsus!Uploads(step)) = Cardinality(Sent(step))
      BY SentFinite, FS_CardinalityType DEF StoredInv
    <3>2. CASE Head(goto) = step
      <4>1. PICK new : new \notin Otsus!Uploads(step)
                       /\ Otsus!Uploads(step)' = Otsus!Uploads(step) \cup {new}
        BY <2>1, <3>2, UploadsGrow
      <4>2. /\ IsFiniteSet(Otsus!Uploads(step)')
            /\ Cardinality(Otsus!Uploads(step)') = Cardinality(Otsus!Uploads(step)) + 1
        BY <3>1, <4>1, FS_AddElement
      <4>3. Sent(step)' = Sent(step) \cup {next} /\ next \notin Sent(step)
        BY <2>2, <3>2
      <4>4. Cardinality(Sent(step)') = Cardinality(Sent(step)) + 1
        BY <3>1, <4>3, FS_AddElement
      <4> QED
        BY <3>1, <4>2, <4>4
    <3>3. CASE Head(goto) # step
      <4>1. Otsus!Uploads(step)' = Otsus!Uploads(step) /\ Sent(step)' = Sent(step)
        BY <2>1, <2>2, <3>3, UploadsGrow
      <4> QED
        BY <3>1, <4>1
    <3> QED
      BY <3>2, <3>3
  <2>5. ~asked => ~Otsus!About("lpj")'
    BY <2>1 DEF StoredInv, Otsus!About
  <2>6. Sent("lpj")' # {} /\ ~asked =>
           \E d \in Otsus!Of(stored, "lpj")' : d.from = "lpj" /\ ~d.public
    <3>1. CASE Head(goto) = "lpj"
      <4>1. "lpj" \notin Photo
        BY DEF Otsus!OtsusFormAssumption
      <4>2. PICK new \in Otsus!Item :
              /\ new.from = Head(goto) /\ new.public = FALSE
              /\ new.kind = IF Head(goto) \in Photo THEN "photo" ELSE Head(goto)
              /\ stored' = (IF Head(goto) = "lpj" THEN stored \ Otsus!Of(stored, "lpj") ELSE stored)
                           \cup {new}
        BY ZenonT(40), <2>1, <3>1, ServedSubmit
      <4> QED
        BY <3>1, <4>1, <4>2 DEF Otsus!Of
    <3>2. CASE Head(goto) # "lpj"
      <4>1. Sent("lpj")' = Sent("lpj")
        BY <2>2, <3>2
      <4>2. stored \subseteq stored'
        <5>1. \/ stored' = stored \/ stored' = stored \cup {Otsus!Label}
              \/ \E new \in Otsus!Item :
                   stored' = (IF Head(goto) = "lpj" THEN stored \ Otsus!Of(stored, "lpj") ELSE stored)
                             \cup {new}
          BY <2>1, ServedSubmit
        <5> QED
          BY <3>2, <5>1
      <4> QED
        BY <4>1, <4>2 DEF StoredInv, Otsus!Of
    <3> QED
      BY <3>1, <3>2
  <2> QED
    BY <2>1, <2>3, <2>4, <2>5, <2>6 DEF StoredInv
<1>8. CASE Otsus!SubmitStep /\ Otsus!SubmitFailed
  <2>1. /\ goto' = <<>> /\ at' = <<>> /\ lost' = TRUE /\ kind' = kind
        /\ Otsus!Stored(Head(goto)) \/ stored' = stored
    BY <1>8 DEF Otsus!SubmitStep, Otsus!SubmitFailed, Otsus!server
  <2>2. \A step : Sent(step)' = {}
    BY <2>1 DEF Sent
  <2>3. ASSUME NEW step \in Photo \cup {"dpa"}
        PROVE  IsFiniteSet(Otsus!Uploads(step)')
    <3>1. IsFiniteSet(Otsus!Uploads(step))
      BY DEF StoredInv
    <3>2. CASE stored' = stored
      BY <3>1, <3>2 DEF Otsus!Uploads
    <3>3. CASE Otsus!Stored(Head(goto))
      <4>1. \/ Otsus!Uploads(step)' = Otsus!Uploads(step)
            \/ \E new : Otsus!Uploads(step)' = Otsus!Uploads(step) \cup {new}
        BY <3>3, UploadsGrow
      <4> QED
        BY <3>1, <4>1, FS_AddElement
    <3> QED
      BY <2>1, <3>2, <3>3
  <2>4. \A step \in Photo \cup {"dpa"} :
           /\ IsFiniteSet(Otsus!Uploads(step)')
           /\ Cardinality(Otsus!Uploads(step)') >= Cardinality(Sent(step)')
    BY <2>2, <2>3, FS_EmptySet, FS_CardinalityType
  <2>5. kind = "edit" => Otsus!Of(stored, "label")' # {}
    <3> SUFFICES ASSUME kind = "edit" PROVE Otsus!Of(stored, "label")' # {}
      OBVIOUS
    <3>1. PICK d \in stored : d.kind = "label"
      BY DEF StoredInv, Otsus!Of
    <3>2. \/ stored \subseteq stored'
          \/ \E new \in Otsus!Item : stored' = (stored \ Otsus!Of(stored, "lpj")) \cup {new}
      BY ZenonT(40), <2>1, ServedSubmit
    <3> QED
      BY <3>1, <3>2 DEF Otsus!Of
  <2>6. ~(Len(goto') < Len(at'))
    BY <2>1
  <2> QED
    BY <2>1, <2>2, <2>4, <2>5, <2>6 DEF StoredInv
<1>9. ASSUME NEW c \in calls, Otsus!ServeCall(c) PROVE StoredInv'
  <2>1. /\ UNCHANGED <<kind, goto, at, lost, asked>>
        /\ (calls' = (calls \ {c}) \cup {[c EXCEPT !.state = "done"]} \/ calls' = calls \ {c})
    BY <1>9, ServedCall
  <2>2. [c EXCEPT !.state = "done"].kind = c.kind
    BY DEF Otsus!TypeOK, Otsus!Call
  <2>3. Otsus!About("lpj")' => Otsus!About("lpj")
    BY <2>1, <2>2 DEF Otsus!About
  <2>4. \A step : Sent(step)' = Sent(step)
    BY <2>1 DEF Sent
  <2>5. \A step \in Photo \cup {"dpa"} : Otsus!Uploads(step)' = Otsus!Uploads(step)
    <3>1. Uploaded' = Uploaded
      BY <1>9, MeantIsOld
    <3> QED
      BY <3>1 DEF Uploaded, Otsus!Uploads
  <2>6. Otsus!Of(stored, "label") # {} => Otsus!Of(stored, "label")' # {}
    BY <1>9, MeantIsOld DEF Otsus!Of
  <2>7. ASSUME Sent("lpj") # {}, ~asked
        PROVE  \E d \in Otsus!Of(stored, "lpj")' : d.from = "lpj" /\ ~d.public
    <3>1. at # <<>> /\ phase # "saved"
      BY <2>7 DEF Sent, ChainInv
    <3>2. c.kind # "lpj"
      BY <2>7, <3>1 DEF ChainInv, StoredInv, Otsus!About
    <3>3. PICK d \in stored : d.kind = "lpj" /\ d.from = "lpj" /\ ~d.public
      BY <2>7 DEF StoredInv, Otsus!Of
    <3>4. d \in stored'
      BY <1>9, <3>2, <3>3, MeantIsOld
    <3> QED
      BY <3>3, <3>4 DEF Otsus!Of
  <2> QED
    BY <2>1, <2>3, <2>4, <2>5, <2>6, <2>7 DEF StoredInv
<1>10. ASSUME NEW c \in calls, Otsus!CallAnswered(c) PROVE StoredInv'
  BY <1>1, <1>10 DEF Otsus!CallAnswered, Otsus!server, Otsus!history
<1>11. CASE UNCHANGED Otsus!vars
  BY <1>1, <1>11 DEF Otsus!vars, Otsus!server, Otsus!history
<1> QED
  BY <1>2, <1>3, <1>4, <1>5, <1>6, <1>7, <1>8, <1>9, <1>10, <1>11
     DEF Otsus!Next, Otsus!UpdatePublication, Otsus!DeleteDocument, Otsus!CallStep,
         Otsus!SubmitStep

LEMMA NoticeStep ==
    ASSUME Otsus!OtsusFormAssumption, NoticeInv, [Otsus!Next]_Otsus!vars
    PROVE  NoticeInv'
BY FormTypeStep, ChainStep, NewStep, StoredStep DEF NoticeInv

\* At the notice all of the submit is answered.
LEMMA NoticeFollows == NoticeInv => Otsus!NoticeMeansSaved
<1> SUFFICES ASSUME NoticeInv, phase = "saved" PROVE Otsus!NoticeMeansSaved
  BY DEF Otsus!NoticeMeansSaved
<1>1. goto = <<>> /\ at # <<>> /\ Len(at) \in Nat \ {0} /\ DOMAIN at = 1..Len(at)
  <2>1. goto = <<>> /\ at # <<>>
    BY DEF NoticeInv, ChainInv
  <2> QED
    BY <2>1 DEF NoticeInv, Otsus!TypeOK
<1>2. Otsus!Of(stored, "label") # {}
  BY <1>1 DEF NoticeInv, StoredInv
<1>3. \A step : Sent(step) = {i \in DOMAIN at : at[i] = step}
  BY <1>1 DEF Sent
<1>4. \A step : Otsus!Times(step) = Cardinality(Sent(step))
  BY <1>3, FormCardinality DEF Otsus!Times
<1>5. ASSUME NEW step \in Photo \cup {"dpa"}
      PROVE  /\ Otsus!Cardinality(Otsus!Uploads(step)) >= Otsus!Times(step)
             /\ ~lost => Otsus!Cardinality(Otsus!Uploads(step)) = Otsus!Times(step)
  BY <1>4, FormCardinality DEF NoticeInv, StoredInv
<1>6. Otsus!Times("lpj") = 1 /\ ~asked =>
         \E d \in Otsus!Of(stored, "lpj") : d.from = "lpj" /\ ~d.public
  <2>1. Otsus!Times("lpj") = 1 => Sent("lpj") # {}
    BY <1>4, FS_EmptySet
  <2> QED
    BY <2>1 DEF NoticeInv, StoredInv
<1>7. Otsus!Times("dpa") = 1 =>
         /\ Otsus!Uploads("dpa") # {}
         /\ lost \/ Otsus!Cardinality(Otsus!Uploads("dpa")) = 1
  <2>1. Otsus!Cardinality({}) = 0
    BY FormCardinality, FS_EmptySet
  <2>2. Otsus!Times("dpa") = 1 => Otsus!Cardinality(Otsus!Uploads("dpa")) # 0
    BY <1>5
  <2> QED
    BY <1>5, <2>1, <2>2
<1>8. lost \in BOOLEAN
  BY DEF NoticeInv, Otsus!TypeOK
<1> QED
  BY <1>2, <1>5, <1>6, <1>7, <1>8 DEF Otsus!NoticeMeansSaved

\* The form leaves with its notice only when the label and every file of the submit
\* are stored, each once unless an attempt before had failed.
THEOREM NoticeIsTrue ==
    ASSUME Otsus!OtsusFormAssumption PROVE Otsus!Spec => []Otsus!NoticeMeansSaved
<1>1. Otsus!OtsusFormAssumption /\ NoticeInv /\ [Otsus!Next]_Otsus!vars => NoticeInv'
  BY NoticeStep
<1>2. Otsus!OtsusFormAssumption /\ Otsus!Init => NoticeInv
  BY NoticeStart
<1> QED
  BY Otsus!OtsusFormAssumption, NoticeFollows, <1>1, <1>2, PTL DEF Otsus!Spec

-----------------------------------------------------------------------------
(* All the internal pages together.                                          *)

LEMMA ListMounts ==
    ASSUME MCInit
    PROVE  /\ mounted = "kampung" => Kampung!Init
           /\ mounted = "lists" => Lists!Init
           /\ mounted = "otsuslist" => Daftar!Init
           /\ mounted = "otsusform" => Otsus!Init
           /\ mounted = "release" => Init
           /\ mounted = "files" => Files!Init
           /\ mounted \in {"release", "kampung", "lists", "pegawai", "forms", "files",
                           "otsusform", "otsuslist", "import"}
BY DEF MCInit, MountRelease, MountKampung, MountLists, MountPegawai, MountForms, MountFiles,
       MountOtsus, MountDaftar, MountImport

LEMMA KampungSteps == [MCNext]_mcvars /\ mounted = "kampung" => [Kampung!Next]_Kampung!vars
BY DEF MCNext, mcvars, vars, NoRelease, Kampung!vars, Kampung!ui, Kampung!shown

LEMMA ListsSteps == [MCNext]_mcvars /\ mounted = "lists" => [Lists!Next]_Lists!vars
BY DEF MCNext, mcvars, vars, NoRelease, Lists!vars, Lists!shown

LEMMA DaftarSteps == [MCNext]_mcvars /\ mounted = "otsuslist" => [Daftar!Next]_Daftar!vars
BY DEF MCNext, mcvars, vars, NoRelease, Daftar!vars

LEMMA ReleaseSteps == [MCNext]_mcvars /\ mounted = "release" => [Next]_vars
BY DEF MCNext, mcvars, vars, NoRelease

LEMMA FilesSteps == [MCNext]_mcvars /\ mounted = "files" => [Files!Next]_Files!vars
BY DEF MCNext, mcvars, vars, NoRelease, Files!vars

\* The pages that are not of the release settings have no message of theirs.
LEMMA OthersSilent ==
    ASSUME mounted # "release"
    PROVE  /\ MCInit => fields = Empty /\ ~message
           /\ [MCNext]_mcvars => UNCHANGED <<fields, message>>
<1>1. MCInit => fields = Empty /\ ~message
  BY DEF MCInit, MountRelease, MountKampung, MountLists, MountPegawai, MountForms, MountFiles,
         MountOtsus, MountDaftar, MountImport
<1>2. [MCNext]_mcvars => UNCHANGED <<fields, message>>
  BY DEF MCNext, mcvars, vars, NoKampung, NoLists, NoPegawai, NoForms, NoFiles, NoOtsus,
         NoDaftar, NoImport
<1> QED
  BY <1>1, <1>2

LEMMA OtsusSteps == [MCNext]_mcvars /\ mounted = "otsusform" => [Otsus!Next]_Otsus!vars
BY DEF MCNext, mcvars, vars, NoRelease, Otsus!vars, Otsus!server, Otsus!history

\* Whichever page is mounted keeps its invariant.
PagesInv ==
    /\ mounted \in {"release", "kampung", "lists", "pegawai", "forms", "files", "otsusform",
                    "otsuslist", "import"}
    /\ mounted = "release" => ReleaseInv
    /\ mounted # "release" => fields = Empty /\ ~message
    /\ mounted = "forms" => FormsInv
    /\ mounted = "files" => ExportsInv
    /\ mounted = "import" => ImportInv
    /\ mounted = "kampung" => KampungInv
    /\ mounted = "lists" => ListsInv
    /\ mounted = "pegawai" => PegawaiInv
    /\ mounted = "otsuslist" => DaftarInv
    /\ mounted = "otsusform" => FlagsInv /\ NoticeInv

LEMMA PagesInvHolds == MCSpec => []PagesInv
<1>1. MCInit => PagesInv
  <2> SUFFICES ASSUME MCInit PROVE PagesInv
    OBVIOUS
  <2>1. /\ mounted = "kampung" => KampungInv
        /\ mounted = "lists" => ListsInv
        /\ mounted = "otsuslist" => DaftarInv
    BY ListMounts, InternalAssumption, KampungStart, ListsStart, DaftarStart
  <2>2. /\ mounted = "pegawai" => PegawaiInv
        /\ mounted = "forms" => FormsInv
        /\ mounted = "import" => ImportInv
    BY OneMounts, InternalAssumption, PegawaiStart, FormsStart, ImportStart
  <2>3. /\ mounted = "otsusform" => FlagsInv /\ NoticeInv
        /\ mounted = "release" => ReleaseInv
        /\ mounted = "files" => ExportsInv
    BY ListMounts, InternalAssumption, FlagsStart, NoticeStart, ReleaseInvInit, ExportsStart
  <2> QED
    BY <2>1, <2>2, <2>3, ListMounts, OthersSilent DEF PagesInv
<1>2. PagesInv /\ [MCNext]_mcvars => PagesInv'
  <2> SUFFICES ASSUME PagesInv, [MCNext]_mcvars PROVE PagesInv'
    OBVIOUS
  <2>1. mounted' = mounted /\ (mounted # "release" => fields' = Empty /\ ~message')
    BY MountedStays, OthersSilent DEF PagesInv
  <2>2. CASE mounted = "kampung"
    BY <2>1, <2>2, KampungSteps, InternalAssumption, KampungStep DEF PagesInv
  <2>3. CASE mounted = "lists"
    BY <2>1, <2>3, ListsSteps, InternalAssumption, ListsStep DEF PagesInv
  <2>4. CASE mounted = "pegawai"
    BY <2>1, <2>4, PegawaiSteps, InternalAssumption, PegawaiStep DEF PagesInv
  <2>5. CASE mounted = "otsuslist"
    BY <2>1, <2>5, DaftarSteps, InternalAssumption, DaftarStep DEF PagesInv
  <2>6. CASE mounted = "otsusform"
    <3>1. Otsus!TypeOK /\ FlagsInv /\ NoticeInv
      BY <2>6 DEF PagesInv, NoticeInv
    <3> QED
      BY <2>1, <2>6, <3>1, OtsusSteps, InternalAssumption, FlagsStep, NoticeStep DEF PagesInv
  <2>7. CASE mounted = "release"
    BY <2>1, <2>7, ReleaseSteps, ReleaseInvStep DEF PagesInv
  <2>8. CASE mounted = "forms"
    BY <2>1, <2>8, FormsSteps, InternalAssumption, FormsStep DEF PagesInv
  <2>9. CASE mounted = "files"
    BY <2>1, <2>9, FilesSteps, InternalAssumption, ExportsStep DEF PagesInv
  <2>10. CASE mounted = "import"
    BY <2>1, <2>10, ImportSteps, InternalAssumption, ImportStep DEF PagesInv
  <2> QED
    BY <2>1, <2>2, <2>3, <2>4, <2>5, <2>6, <2>7, <2>8, <2>9, <2>10 DEF PagesInv
<1> QED
  BY <1>1, <1>2, PTL DEF MCSpec

\* What a list shows is found by the search in its field, and no page of it is
\* shown empty while there are such rows.
THEOREM PagesShowSearch == MCSpec => []ListsShowSearch
<1>1. PagesInv => ListsShowSearch
  <2>1. mounted = "kampung" /\ PagesInv => Kampung!SearchShown /\ Kampung!PageExists
    BY DEF PagesInv, KampungInv, SearchFollowed, Kampung!SearchShown, Kampung!PageExists,
           Kampung!Idle
  <2>2. mounted = "lists" /\ PagesInv => Lists!PageShowsRows
    BY PageHasRows, InternalAssumption DEF PagesInv, ListsInv
  <2>3. mounted = "otsuslist" /\ PagesInv => Daftar!ListAgrees
    BY InternalAssumption
       DEF PagesInv, DaftarInv, RowsListed, Deleting, Daftar!ListAgrees,
           Daftar!OtsusListAssumption
  <2> QED
    BY <2>1, <2>2, <2>3 DEF ListsShowSearch
<1> QED
  BY PagesInvHolds, <1>1, PTL

\* Once nothing is in flight, a list is the server's, and the form over it is open
\* for a record it still has.
THEOREM PagesRowsMatch == MCSpec => []RowsMatch
<1>1. PagesInv => RowsMatch
  <2>1. mounted = "lists" /\ PagesInv => Lists!ListMatches
    BY InFlight DEF PagesInv, ListsInv, Going, Lists!ListMatches
  <2>2. mounted = "pegawai" /\ PagesInv => Pegawai!DocumentsMatch /\ Pegawai!FormHasDocument
    BY PegawaiFollows DEF PagesInv
  <2>3. mounted = "otsusform" /\ PagesInv => Otsus!FlagsShown
    BY FlagsFollow DEF PagesInv, NoticeInv
  <2> QED
    BY <2>1, <2>2, <2>3 DEF RowsMatch
<1> QED
  BY PagesInvHolds, <1>1, PTL

\* The notice of a submit means that all of it is stored.
THEOREM PagesNoticeMeansSaved == MCSpec => []NoticeMeansSaved
<1>1. PagesInv => NoticeMeansSaved
  BY NoticeFollows DEF PagesInv, NoticeMeansSaved
<1> QED
  BY PagesInvHolds, <1>1, PTL

\* What opens first is published, and the message of a save shows what was saved.
THEOREM PagesReleaseShown == MCSpec => [](FeaturedReleased /\ SavedShown)
<1>1. PagesInv => FeaturedReleased /\ SavedShown
  BY DEF PagesInv, ReleaseInv, FeaturedReleased, SavedShown, Empty
<1> QED
  BY PagesInvHolds, <1>1, PTL

\* The exported sheet is complete and keeps to its pages, its text to its rows but for
\* what the library splits again, and the workbook's directory finds its entries.
THEOREM PagesExportsComplete == MCSpec => []ExportsComplete
<1>1. PagesInv => ExportsComplete
  <2>1. mounted = "files" /\ PagesInv => Files!SheetComplete
    BY SheetKeeps DEF PagesInv, ExportsInv
  <2>2. mounted = "files" /\ PagesInv => Files!EntriesFound
    BY ArchiveFits DEF PagesInv, ExportsInv
  <2> QED
    BY <2>1, <2>2 DEF ExportsComplete
<1> QED
  BY PagesInvHolds, <1>1, PTL

\* The values the variables of a page hold while it is mounted.
THEOREM PagesTypeCorrect == MCSpec => []PagesTypeOK
<1>1. PagesInv => PagesTypeOK
  BY DEF PagesInv, PagesTypeOK, ReleaseInv, KampungInv, ListsInv, PegawaiInv, FormsInv, NoticeInv,
         DaftarInv, ImportInv, ExportsInv
<1> QED
  BY PagesInvHolds, <1>1, PTL
===============================================================================
