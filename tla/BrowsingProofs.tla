--------------------------- MODULE BrowsingProofs ---------------------------
(***************************************************************************)
(* However many messages there are, however large the pages are and        *)
(* however the messages move, a reader who scrolls misses none that stays. *)
(* The invariant says of the rows that were read what the properties say   *)
(* of the rows that are shown, and that no button's answer is about a      *)
(* message that stayed.                                                    *)
(***************************************************************************)
EXTENDS Browsing, FiniteSetTheorems, TLAPS

Shapes ==
  /\ shown \subseteq Id /\ found \subseteq Id /\ stayed \subseteq Id
  /\ after \in Cursor /\ next \in Cursor \ {Start}
  /\ load \in {"none", "sent", "read", "failed"}

\* The request on its way continues below the rows shown.
CursorBelow ==
  /\ after = Start => shown = {}
  /\ after \in Id => \A j \in shown : after <= j
  /\ load \in {"sent", "read"} => after # End

\* What was read continues the list, and leaves out nothing that stays.
FoundContinues ==
  load = "read" =>
    /\ \A i \in found : after \in Id => i < after
    /\ next \in Id => \A j \in shown \cup found : next <= j
    /\ \A i \in stayed : i \in shown \/ i \in found \/ (next \in Id /\ i < next)

StayedAreHere == stayed \subseteq Here

\* A button's answer is about a row of this page.
DoneHaveLeft == done \subseteq shown /\ done \cap stayed = {}

IInv ==
  /\ Shapes /\ CursorBelow /\ FoundContinues /\ StayedAreHere /\ DoneHaveLeft
  /\ NothingSkipped

LEMMA Disjoint == Start \notin Id /\ End \notin Id /\ Start # End
BY BrowsingAssumption

-----------------------------------------------------------------------------
\* A page and its cursor: each selected message is on the page or below the
\* cursor, and the cursor is below no row (services/messages.go:225).
LEMMA PageComplete ==
  ASSUME NEW selected \in SUBSET Id, NEW fetched, NEW rows, NEW c,
         Newest(fetched, selected, PageSize + 1),
         Newest(rows, fetched, PageSize),
         NextCursor(rows, fetched, c)
  PROVE  /\ rows \subseteq selected
         /\ c \in rows \/ c = End
         /\ c \in Id => \A j \in rows : c <= j
         /\ \A i \in selected : i \in rows \/ (c \in Id /\ i < c)
<1>1. /\ fetched \in SUBSET selected /\ rows \in SUBSET fetched
      /\ Id \subseteq Nat
  BY BrowsingAssumption DEF Newest
<1>2. IsFiniteSet(fetched) /\ IsFiniteSet(rows)
  <2>1. fetched \in SUBSET Id
    BY <1>1
  <2>2. IsFiniteSet(fetched)
    BY <2>1, BrowsingAssumption, FS_Subset
  <2>3. QED
    BY <2>2, <1>1, FS_Subset
<1>3. /\ Cardinality(fetched) \in Nat /\ Cardinality(rows) \in Nat
      /\ PageSize \in Nat
      /\ Cardinality(rows) = Cardinality(fetched) => rows = fetched
      /\ Cardinality(rows) <= Cardinality(fetched)
  <2>1. Cardinality(fetched) \in Nat /\ Cardinality(rows) \in Nat
    BY <1>2, FS_CardinalityType
  <2>2. /\ Cardinality(rows) <= Cardinality(fetched)
        /\ Cardinality(fetched) = Cardinality(rows) => fetched = rows
    BY <1>1, <1>2, FS_Subset
  <2>3. QED
    BY <2>1, <2>2, BrowsingAssumption
<1>4. CASE Cardinality(fetched) > PageSize
  <2>1. c \in rows /\ \A i \in rows : c <= i
    BY <1>4 DEF NextCursor
  <2>2. ASSUME NEW i \in selected, i \notin rows PROVE i < c
    <3>1. CASE i \in fetched
      BY <3>1, <2>1, <2>2 DEF Newest
    <3>2. CASE i \notin fetched
      BY <3>2, <2>1, <2>2, <1>1 DEF Newest
    <3>3. QED
      BY <3>1, <3>2
  <2>3. QED
    BY <2>1, <2>2, <1>1
<1>5. CASE ~ (Cardinality(fetched) > PageSize)
  <2>1. c = End
    BY <1>5 DEF NextCursor
  <2>2. fetched = selected
    BY <1>3, <1>5 DEF Newest
  <2>3. rows = fetched
    BY <1>3, <1>5 DEF Newest
  <2>4. QED
    BY <2>1, <2>2, <2>3, Disjoint
<1>6. QED
  BY <1>4, <1>5

-----------------------------------------------------------------------------
LEMMA InitHolds == Init => IInv
BY Disjoint
   DEF Init, IInv, Shapes, CursorBelow, FoundContinues, StayedAreHere, Here,
       DoneHaveLeft, NothingSkipped, Queue, Cursor

\* A step that only moves messages, and answers at most for one that has left.
LEMMA StayingHolds ==
  ASSUME IInv, Staying,
         UNCHANGED <<listVars, loadVars>>,
         \A i \in done' : i \in done \/ (i \in shown /\ place'[i] # viewed)
  PROVE  IInv'
<1>1. stayed' \subseteq stayed /\ (\A i \in stayed' : place'[i] = viewed)
  BY DEF Staying
<1>2. StayedAreHere'
  BY <1>1 DEF StayedAreHere, Here, IInv, Shapes, listVars
<1>3. DoneHaveLeft'
  BY <1>1 DEF DoneHaveLeft, IInv, listVars
<1>4. Shapes' /\ CursorBelow'
  BY <1>1 DEF IInv, Shapes, CursorBelow, listVars, loadVars
<1>5. FoundContinues' /\ NothingSkipped'
  BY <1>1 DEF IInv, FoundContinues, NothingSkipped, listVars, loadVars
<1>6. QED
  BY <1>2, <1>3, <1>4, <1>5 DEF IInv

LEMMA ReadPageHolds == IInv /\ ReadPage => IInv'
<1> SUFFICES ASSUME IInv, ReadPage PROVE IInv'
  OBVIOUS
<1> USE Disjoint
<1>1. PICK fetched \in SUBSET Id, rows \in SUBSET Id, c \in Cursor \ {Start} :
        /\ Newest(fetched, Selected, PageSize + 1)
        /\ Newest(rows, fetched, PageSize)
        /\ NextCursor(rows, fetched, c)
        /\ found' = rows /\ next' = c
  BY DEF ReadPage
<1>2. /\ load = "sent" /\ load' = "read" /\ after # End
      /\ UNCHANGED <<place, viewed, shown, after, done>>
  BY DEF ReadPage, tableVars, listVars, IInv, CursorBelow
<1>3. Selected \in SUBSET Id
  BY DEF Selected, Here
<1>4. /\ rows \subseteq Selected
      /\ c \in rows \/ c = End
      /\ c \in Id => \A j \in rows : c <= j
      /\ \A i \in Selected : i \in rows \/ (c \in Id /\ i < c)
  BY <1>1, <1>3, PageComplete
<1>5. Shapes'
  BY <1>1, <1>2 DEF ReadPage, IInv, Shapes, Here
<1>6. CursorBelow' /\ NothingSkipped'
  BY <1>2 DEF ReadPage, IInv, CursorBelow, NothingSkipped
<1>7. StayedAreHere'
  BY <1>2 DEF ReadPage, IInv, StayedAreHere, Here
<1>8. DoneHaveLeft'
  <2>1. CASE after = Start
    BY <1>2, <2>1 DEF IInv, CursorBelow, DoneHaveLeft
  <2>2. CASE after # Start
    BY <1>2, <2>2 DEF ReadPage, IInv, DoneHaveLeft
  <2>3. QED
    BY <2>1, <2>2
<1>9. FoundContinues'
  <2>1. \A i \in rows : after \in Id => i < after
    BY <1>4 DEF Selected
  <2>2. c \in Id => \A j \in shown \cup rows : c <= j
    <3>1. ASSUME c \in Id, NEW j \in shown PROVE c <= j
      <4>1. after \in Id /\ after <= j
        BY <1>2 DEF IInv, CursorBelow, Shapes, Cursor
      <4>2. c < after
        BY <3>1, <4>1, <1>4, <2>1
      <4>3. QED
        BY <3>1, <4>1, <4>2, BrowsingAssumption DEF IInv, Shapes
    <3>2. QED
      BY <3>1, <1>4
  <2>3. \A i \in stayed' : i \in shown \/ i \in rows \/ (c \in Id /\ i < c)
    <3>1. CASE after = Start
      BY <3>1, <1>4 DEF ReadPage, Selected
    <3>2. CASE after # Start
      <4>1. stayed' = stayed /\ stayed \subseteq Here
        BY <3>2 DEF ReadPage, IInv, StayedAreHere
      <4>2. \A i \in stayed : i \in shown \/ i \in Selected
        BY <4>1, <3>2 DEF IInv, NothingSkipped, Selected
      <4>3. QED
        BY <4>1, <4>2, <1>4
    <3>3. QED
      BY <3>1, <3>2
  <2>4. QED
    BY <1>1, <1>2, <2>1, <2>2, <2>3 DEF FoundContinues
<1>10. QED
  BY <1>5, <1>6, <1>7, <1>8, <1>9 DEF IInv

LEMMA ShowPageHolds == IInv /\ ShowPage => IInv'
<1> SUFFICES ASSUME IInv, ShowPage PROVE IInv'
  OBVIOUS
<1>1. Shapes' /\ StayedAreHere' /\ DoneHaveLeft'
  BY DEF ShowPage, IInv, Shapes, StayedAreHere, Here, DoneHaveLeft, tableVars
<1>2. CursorBelow' /\ FoundContinues'
  BY DEF ShowPage, IInv, Shapes, CursorBelow, FoundContinues
<1>3. NothingSkipped'
  BY DEF ShowPage, IInv, FoundContinues, NothingSkipped
<1>4. QED
  BY <1>1, <1>2, <1>3 DEF IInv

LEMMA RemoveRowHolds == ASSUME NEW i \in Id, IInv, RemoveRow(i) PROVE IInv'
<1>1. i \notin stayed /\ shown' = shown \ {i}
  BY DEF RemoveRow, IInv, DoneHaveLeft
<1>2. Shapes' /\ StayedAreHere' /\ DoneHaveLeft'
  BY <1>1 DEF RemoveRow, IInv, Shapes, StayedAreHere, Here, DoneHaveLeft,
              tableVars, loadVars
<1>3. CursorBelow' /\ FoundContinues' /\ NothingSkipped'
  BY <1>1 DEF RemoveRow, IInv, Shapes, CursorBelow, FoundContinues,
              NothingSkipped, loadVars
<1>4. QED
  BY <1>2, <1>3 DEF IInv

LEMMA PressHolds ==
  ASSUME NEW i \in Id, IInv, PressRequeue(i) \/ PressDelete(i)
  PROVE  IInv'
<1>1. place'[i] # viewed
  <2>1. CASE PressRequeue(i)
    BY <2>1 DEF PressRequeue, Table!Revive, Table!Go
  <2>2. CASE PressDelete(i) /\ place[i] = "dlq"
    BY <2>2 DEF PressDelete, Table!Drop, Table!Go
  <2>3. CASE PressDelete(i) /\ place[i] # "dlq"
    BY <2>3 DEF PressDelete, tableVars
  <2>4. QED
    BY <2>1, <2>2, <2>3
<1>2. /\ i \in shown /\ done' = done \cup {i}
      /\ Staying /\ UNCHANGED <<listVars, loadVars>>
  BY DEF PressRequeue, PressDelete
<1>3. QED
  BY <1>1, <1>2, StayingHolds

LEMMA StepHolds == IInv /\ [Next]_vars => IInv'
<1> SUFFICES ASSUME IInv, [Next]_vars PROVE IInv'
  OBVIOUS
<1> USE Disjoint
<1>1. CASE Messages
  BY <1>1, StayingHolds DEF Messages
<1>2. ASSUME NEW q \in Queue, Open(q) PROVE IInv'
  BY <1>2 DEF Open, IInv, Shapes, CursorBelow, FoundContinues, StayedAreHere,
              DoneHaveLeft, NothingSkipped, Cursor
<1>3. CASE ScrollDown
  BY <1>3 DEF ScrollDown, IInv, Shapes, CursorBelow, FoundContinues,
              StayedAreHere, Here, DoneHaveLeft, NothingSkipped, tableVars, listVars
<1>4. CASE ReadPage
  BY <1>4, ReadPageHolds
<1>5. CASE FailPage
  BY <1>5 DEF FailPage, IInv, Shapes, CursorBelow, FoundContinues,
              StayedAreHere, Here, DoneHaveLeft, NothingSkipped, tableVars, listVars
<1>6. CASE ShowPage
  BY <1>6, ShowPageHolds
<1>7. ASSUME NEW i \in Id, PressRequeue(i) \/ PressDelete(i) PROVE IInv'
  BY <1>7, PressHolds
<1>8. ASSUME NEW i \in Id, RemoveRow(i) PROVE IInv'
  BY <1>8, RemoveRowHolds
<1>9. CASE UNCHANGED vars
  BY <1>9 DEF vars, tableVars, listVars, loadVars, IInv, Shapes, CursorBelow,
              FoundContinues, StayedAreHere, Here, DoneHaveLeft, NothingSkipped
<1>10. QED
  BY <1>1, <1>2, <1>3, <1>4, <1>5, <1>6, <1>7, <1>8, <1>9 DEF Next

\* The invariant of a reader's page holds in every reachable state.
THEOREM InvariantHolds == Spec => []IInv
BY InitHolds, StepHolds, PTL DEF Spec

\* A message that stays in the queue is on the page or below its cursor
\* (services/messages.go:225).
THEOREM NothingIsSkipped == Spec => []NothingSkipped
<1>1. IInv => NothingSkipped
  BY DEF IInv
<1>2. QED
  BY <1>1, InvariantHolds, PTL

\* The rows appended are older than those on the page (admin-ui.md:83).
THEOREM OrderPreserved == Spec => []RowsInOrder
<1>1. IInv => RowsInOrder
  <2> SUFFICES ASSUME IInv, load = "read", NEW i \in found, NEW j \in shown
               PROVE  i < j
    BY DEF RowsInOrder
  <2>1. after \in Id /\ after <= j
    BY DEF IInv, Shapes, CursorBelow, Cursor
  <2>2. i < after
    BY <2>1 DEF IInv, FoundContinues
  <2>3. QED
    BY <2>1, <2>2, BrowsingAssumption DEF IInv, Shapes
<1>2. QED
  BY <1>1, InvariantHolds, PTL
=============================================================================
