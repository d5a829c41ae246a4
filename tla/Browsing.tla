------------------------------ MODULE Browsing ------------------------------
(***************************************************************************)
(* A reader of the admin UI scrolls through a queue or a DLQ               *)
(* (MessagesService.GetMessagesForUI, ui/templates/messages-*.html) while  *)
(* its messages are consumed, moved and requeued: those of MessageLife.    *)
(* Ids are UUIDs of version 7, ordered as they were minted: the newest     *)
(* message comes first, and each page continues below the last row of the  *)
(* page before it.  A DLQ's rows have buttons; a row whose request was     *)
(* answered with 200 is removed from the page.                             *)
(***************************************************************************)
EXTENDS Integers, FiniteSets

CONSTANTS
  Id,
  MaxDeliveryAttempts,
  PageSize,      \* messagesLimit
  Start, End     \* no cursor: of the first page, and below the last one

ASSUME BrowsingAssumption ==
  /\ Id \subseteq Nat /\ IsFiniteSet(Id)
  /\ PageSize \in Nat \ {0}
  /\ {Start, End} \cap Nat = {} /\ Start # End

VARIABLES
  place, leased, tries,   \* the messages
  viewed,    \* the queue on the page
  shown,     \* the rows on the page
  after,     \* the cursor of its load-more trigger
  load,      \* "none", "sent", "read", "failed": its request for rows
  found,     \* the rows read for that request, and the next cursor
  next,
  done,      \* rows whose button was answered with 200
  stayed     \* history: the messages of the queue when its first page was read
             \* that have not left it since

tableVars == <<place, leased, tries>>
listVars == <<viewed, shown, after>>
loadVars == <<load, found, next>>
vars == <<tableVars, listVars, loadVars, done, stayed>>

Table == INSTANCE MessageLife

Queue == {"queue", "dlq"}
Cursor == Id \cup {Start, End}

TypeOK ==
  /\ Table!TypeOK
  /\ viewed \in Queue
  /\ load \in {"none", "sent", "read", "failed"}
  /\ after \in Cursor /\ next \in Cursor \ {Start}
  /\ {shown, found, done, stayed} \subseteq SUBSET Id

Init ==
  /\ Table!Init
  /\ viewed = "queue" /\ shown = {} /\ after = Start
  /\ load = "none" /\ found = {} /\ next = End
  /\ done = {} /\ stayed = {}

-----------------------------------------------------------------------------
\* What stays in the viewed queue over a step.
Staying == stayed' = {i \in stayed : place'[i] = viewed}

Messages ==
  /\ Table!Next
  /\ Staying
  /\ UNCHANGED <<listVars, loadVars, done>>

\* The page is or refreshed, and asks for its first rows.
Open(q) ==
  /\ viewed' = q /\ shown' = {} /\ after' = Start
  /\ load' = "sent" /\ found' = {} /\ next' = End
  /\ done' = {} /\ stayed' = {}
  /\ UNCHANGED tableVars

\* The trigger below the last row is revealed.
ScrollDown ==
  /\ load = "none" /\ after \in Id
  /\ load' = "sent"
  /\ UNCHANGED <<tableVars, listVars, found, next, done, stayed>>

\* WHERE queue = ? AND id < ?
Here == {i \in Id : place[i] = viewed}
Selected == {i \in Here : after = Start \/ i < after}

\* ORDER BY id DESC LIMIT n: S are the n newest of `rows`, or all of them.
Newest(S, rows, n) ==
  /\ S \subseteq rows
  /\ Cardinality(S) <= n
  /\ S # rows => Cardinality(S) = n
  /\ \A i \in S, j \in rows \ S : j < i

\* mutant: the last row fetched, and not the last one shown, is the cursor
NextCursorFetched(rows, fetched, c) ==
  IF Cardinality(fetched) > PageSize
    THEN c \in fetched /\ \A i \in fetched : c <= i
    ELSE c = End

\* There are more messages if one more was fetched than is shown.
NextCursor(rows, fetched, c) ==
  IF Cardinality(fetched) > PageSize
    THEN c \in rows /\ \A i \in rows : c <= i
    ELSE c = End

\* mutant: the rows at the cursor are selected again
ReadPageAgain ==
  LET selected == {i \in Here : after = Start \/ i <= after} IN
  /\ load = "sent"
  /\ \E fetched \in SUBSET Id, rows \in SUBSET Id, c \in Cursor \ {Start} :
       /\ Newest(fetched, selected, PageSize + 1)
       /\ Newest(rows, fetched, PageSize)
       /\ NextCursor(rows, fetched, c)
       /\ found' = rows /\ next' = c
  /\ load' = "read"
  /\ IF after = Start THEN stayed' = Here ELSE UNCHANGED stayed
  /\ UNCHANGED <<tableVars, listVars, done>>

\* GetMessagesForUI: one row more than the page shows is fetched.
ReadPage ==
  /\ load = "sent"
  /\ \E fetched \in SUBSET Id, rows \in SUBSET Id, c \in Cursor \ {Start} :
       /\ Newest(fetched, Selected, PageSize + 1)
       /\ Newest(rows, fetched, PageSize)
       /\ NextCursor(rows, fetched, c)
       /\ found' = rows /\ next' = c
  /\ load' = "read"
  /\ IF after = Start THEN stayed' = Here ELSE UNCHANGED stayed
  /\ UNCHANGED <<tableVars, listVars, done>>

\* A page that could not be read leaves the list as it is.
FailPage ==
  /\ load = "sent"
  /\ load' = "failed"
  /\ UNCHANGED <<tableVars, listVars, found, next, done, stayed>>

\* The rows are appended, with a new trigger if there are more.
ShowPage ==
  /\ load = "read"
  /\ shown' = shown \cup found
  /\ after' = next
  /\ load' = "none" /\ found' = {}
  /\ UNCHANGED <<tableVars, viewed, next, done, stayed>>

-----------------------------------------------------------------------------
\* mutant: a message that is being processed is answered with 200
PressRequeueQuietly(i) ==
  /\ viewed = "dlq" /\ i \in shown
  /\ IF i \in Table!Unleased("dlq") THEN Table!Revive({i}) ELSE UNCHANGED tableVars
  /\ done' = done \cup {i}
  /\ Staying
  /\ UNCHANGED <<listVars, loadVars>>

\* A message that has left the DLQ or is being processed is answered with 500
\* (ErrNotFoundMessage), and its row stays.
PressRequeue(i) ==
  /\ viewed = "dlq" /\ i \in shown
  /\ Table!Revive({i})
  /\ done' = done \cup {i}
  /\ Staying
  /\ UNCHANGED <<listVars, loadVars>>

\* A message that has left the DLQ is answered with 200 all the same.
PressDelete(i) ==
  /\ viewed = "dlq" /\ i \in shown
  /\ IF place[i] = "dlq" THEN Table!Drop({i}) ELSE UNCHANGED tableVars
  /\ done' = done \cup {i}
  /\ Staying
  /\ UNCHANGED <<listVars, loadVars>>

RemoveRow(i) ==
  /\ i \in done
  /\ shown' = shown \ {i}
  /\ done' = done \ {i}
  /\ UNCHANGED <<tableVars, viewed, after, loadVars, stayed>>

Next ==
  \/ Messages
  \/ \E q \in Queue : Open(q)
  \/ ScrollDown \/ ReadPage \/ FailPage \/ ShowPage
  \/ \E i \in Id : PressRequeue(i) \/ PressDelete(i) \/ RemoveRow(i)

Spec == Init /\ [][Next]_vars

-----------------------------------------------------------------------------
\* A message that has been in the queue since the page was opened is on the page
\* or still to come below its cursor, whatever was consumed, moved or requeued
\* around it, and no button takes its row away while it is there: a page that
\* has reached its end shows all of them (services/messages.go:225, repo.go:294,
\* ui/router.go:269).
NothingSkipped ==
  after # Start =>
    \A i \in stayed : i \in shown \/ (after \in Id /\ i < after)

\* "The order of messages is preserved" (admin-ui.md:83): every row appended is
\* older than all the rows above it, so that none is there twice, although
\* messages that come back keep their ids (repo.go:311).
RowsInOrder == load = "read" => \A i \in found, j \in shown : i < j
=============================================================================
