-------------------------- MODULE FavoritesProofs --------------------------
(***************************************************************************)
(* Theorems about Favorites, for any number of requests and accounts.      *)
(***************************************************************************)
EXTENDS Favorites, TLAPS

Over(r) == pc[r] \in {"answered", "done", "lost"}

\* Only answered requests have an answer or a row, or came before another.
Orderly ==
    /\ \A r \in Requests : ~Over(r) => answer[r] = "none"
    /\ \A r \in rows : Over(r)
    /\ \A r \in Requests : \A s \in before[r] : Over(s)

\* Between its check and its INSERT a request cannot come after a row of the
\* account: whoever inserted one meanwhile was not answered when it began.
Checked ==
    \A r \in Adds \ Failing :
        pc[r] = "write" => \A s \in rows : target[s] = target[r] => s \notin before[r]

\* r has changed the table and no GET was sent because of that.
Unlisted(r) ==
    \/ answer[r] \in {"201", "202"} /\ (pc[r] # "done" \/ r \in Elsewhere)
    \/ r \in Failing /\ answer[r] = "500"

\* What the GET sent last has read is the table, up to changes it was not told of.
LatestReads ==
    load[latest].phase \in {"answered", "shown"} =>
        load[latest].rows = rows \/ \E r \in Requests : Over(r) /\ Unlisted(r)

ShownReads == load[shown].phase = "shown" => Displayed = load[shown].rows

IInv ==
    /\ TypeOK
    /\ Orderly
    /\ Checked
    /\ DuplicatesOverlapped
    /\ RemovedIsGone
    /\ AddedStays
    /\ LatestReads
    /\ ShownReads

-----------------------------------------------------------------------------
(* Types *)

LEMMA InitTypes == ASSUME Init PROVE TypeOK
  BY DEF Init, TypeOK, Requests, Loads, Emails, Steps, Statuses, Phases

LEMMA HandleTypes ==
    ASSUME TypeOK, NEW r \in Requests, Handle(r)
    PROVE  TypeOK'
<1> USE DEF TypeOK, Emails, Steps, Statuses, Phases, request, screen, Requests, Loads
<1>1. CASE Unauthenticated(r)
    BY <1>1 DEF Unauthenticated, Answer
<1>2. CASE AddReceive(r)
    BY <1>2 DEF AddReceive, Receive, Answer, Goto, Fail
<1>3. CASE AddCheck(r) \/ AddCheckFails(r)
    BY <1>3 DEF AddCheck, AddCheckFails, Answer, Goto
<1>4. CASE AddInsert(r) \/ AddFails(r)
    BY <1>4 DEF AddInsert, AddFails, Answer, Fail
<1>5. CASE RemoveReceive(r)
    <2>1. Asked(r) \subseteq Emails
        BY DEF Asked, Displayed
    <2>2. QED BY <1>5, <2>1 DEF RemoveReceive, Receive, Answer, Goto, Fail
<1>6. CASE RemoveCheck(r) \/ RemoveCheckFails(r)
    BY <1>6 DEF RemoveCheck, RemoveCheckFails, Answer, Goto
<1>7. CASE RemoveDelete(r) \/ RemoveFails(r)
    BY <1>7 DEF RemoveDelete, RemoveFails, Answer, Fail
<1>8. CASE Told(r)
    BY <1>8 DEF Told
<1>9. CASE NotTold(r)
    BY <1>9 DEF NotTold
<1>10. QED BY <1>1, <1>2, <1>3, <1>4, <1>5, <1>6, <1>7, <1>8, <1>9 DEF Handle

LEMMA LoadTypes ==
    ASSUME TypeOK, NEW l \in Loads, Load(l)
    PROVE  TypeOK'
<1> USE DEF TypeOK, Phases, request
<1>1. CASE LoadRows(l)
    BY <1>1 DEF LoadRows
<1>2. CASE LoadFails(l)
    BY <1>2 DEF LoadFails
<1>3. CASE Show(l)
    BY <1>3 DEF Show
<1>4. QED BY <1>1, <1>2, <1>3 DEF Load

LEMMA NextTypes == ASSUME TypeOK, [Next]_vars PROVE TypeOK'
<1>1. CASE Next
    BY <1>1, HandleTypes, LoadTypes DEF Next
<1>2. CASE UNCHANGED vars
    BY <1>2 DEF TypeOK, vars, request, screen
<1>3. QED BY <1>1, <1>2

\* Every variable of the favorites keeps its type.
THEOREM TypeCorrect == Spec => []TypeOK
<1>1. Init => TypeOK
    BY InitTypes
<1>2. TypeOK /\ [Next]_vars => TypeOK'
    BY NextTypes
<1>3. QED BY <1>1, <1>2, PTL DEF Spec

-----------------------------------------------------------------------------
(* The steps before the table is written *)

\* A request that has no answer yet goes on or is refused.
MovesOn(r) ==
    /\ ~Over(r)
    /\ pc'[r] # "idle"
    /\ ~Over(r)' => answer'[r] = "none"
    /\ answer'[r] \notin {"201", "202"}
    /\ \A q \in Requests \ {r} : /\ pc'[q] = pc[q] /\ answer'[q] = answer[q]
                                 /\ target'[q] = target[q] /\ before'[q] = before[q]
    /\ \/ target'[r] = target[r] /\ before'[r] = before[r]
       \/ \A s \in before'[r] : Over(s)
    /\ pc'[r] = "write" /\ r \in Adds \ Failing => Of(target[r]) = {} /\ target'[r] = target[r]
    /\ UNCHANGED <<rows, screen>>

LEMMA HandleMovesOn ==
    ASSUME TypeOK, Orderly, NEW r \in Requests,
           \/ Unauthenticated(r) \/ AddReceive(r) \/ AddCheck(r) \/ AddCheckFails(r)
           \/ RemoveReceive(r) \/ RemoveCheck(r) \/ RemoveCheckFails(r)
    PROVE  MovesOn(r)
<1> USE DEF TypeOK, Orderly, MovesOn, Over, Answer, Goto
<1>1. CASE Unauthenticated(r)
    BY <1>1 DEF Unauthenticated
<1>2. CASE AddReceive(r) \/ RemoveReceive(r)
    BY <1>2 DEF AddReceive, RemoveReceive, Receive, Fail
<1>3. CASE AddCheck(r) \/ AddCheckFails(r)
    BY <1>3 DEF AddCheck, AddCheckFails
<1>4. CASE RemoveCheck(r) \/ RemoveCheckFails(r)
    BY <1>4, FavoritesAssumption DEF RemoveCheck, RemoveCheckFails, FavoritesAssumption
<1>5. QED BY <1>1, <1>2, <1>3, <1>4

LEMMA MovesOnKeeps ==
    ASSUME IInv, TypeOK', NEW r \in Requests, MovesOn(r)
    PROVE  IInv'
<1> USE DEF IInv, TypeOK, MovesOn, screen
<1>0. \A q \in Requests : Over(q) => q # r /\ Over(q)' /\ before'[q] = before[q]
    BY DEF Over
<1>1. Orderly'
    <2>1. \A q \in Requests : ~Over(q)' => answer'[q] = "none"
        BY DEF Orderly, Over
    <2>2. \A q \in rows' : Over(q)'
        BY <1>0 DEF Orderly, Requests
    <2>3. ASSUME NEW q \in Requests, NEW s \in before'[q] PROVE Over(s)'
        <3>1. s \in Requests /\ Over(s)
            BY <2>3 DEF Orderly
        <3>2. QED BY <3>1, <1>0
    <2>4. QED BY <2>1, <2>2, <2>3 DEF Orderly
<1>2. Checked'
    BY DEF Orderly, Checked, Over, Of, Requests
<1>3. DuplicatesOverlapped'
    BY DEF Orderly, DuplicatesOverlapped, Requests
<1>4. RemovedIsGone'
    BY DEF Orderly, RemovedIsGone, Requests
<1>5. AddedStays'
    BY DEF Orderly, AddedStays, Requests
<1>6. LatestReads'
    BY DEF LatestReads, Over, Unlisted
<1>7. ShownReads'
    BY DEF ShownReads, Displayed
<1>8. QED BY <1>1, <1>2, <1>3, <1>4, <1>5, <1>6, <1>7

-----------------------------------------------------------------------------
(* The steps that write the table *)

\* A request is answered, with 500 if it failed.
Answered(r, status) ==
    /\ pc[r] = "write"
    /\ Answer(r, status)
    /\ status = "500" => r \in Failing
    /\ UNCHANGED <<target, before, screen>>

LEMMA AnsweredFacts ==
    ASSUME TypeOK, Orderly, NEW r \in Requests, NEW status \in Statuses, Answered(r, status)
    PROVE  /\ pc'[r] = "answered" /\ answer'[r] = status /\ answer[r] = "none"
           /\ \A q \in Requests \ {r} : pc'[q] = pc[q] /\ answer'[q] = answer[q]
           /\ \A q \in Requests : Over(q) => Over(q)'
           /\ \A q \in Requests : r \notin before[q]
  BY DEF TypeOK, Orderly, Answered, Answer, Over

LEMMA AnsweredKeepsOrder ==
    ASSUME TypeOK, Orderly, NEW r \in Requests, NEW status \in Statuses, Answered(r, status),
           rows' \subseteq rows \cup {r}
    PROVE  Orderly'
<1>1. \A q \in Requests : ~Over(q)' => answer'[q] = "none"
    BY AnsweredFacts DEF Orderly, Over
<1>2. \A q \in rows' : Over(q)'
    BY AnsweredFacts DEF Orderly, TypeOK, Requests, Over
<1>3. \A q \in Requests : \A s \in before'[q] : Over(s)'
    BY AnsweredFacts DEF Orderly, TypeOK, Answered
<1>4. QED BY <1>1, <1>2, <1>3 DEF Orderly

LEMMA InsertKeeps ==
    ASSUME IInv, TypeOK', NEW r \in Adds, NEW status \in {"201", "500"}, Answered(r, status),
           \/ rows' = rows \cup {r}
           \/ rows' = rows /\ status = "500"
    PROVE  IInv'
<1> USE DEF IInv
<1>1. r \in Requests /\ status \in Statuses
    BY DEF Requests, Statuses
<1>2. /\ pc'[r] = "answered" /\ answer'[r] = status /\ answer[r] = "none"
      /\ \A q \in Requests \ {r} : pc'[q] = pc[q] /\ answer'[q] = answer[q]
      /\ \A q \in Requests : Over(q) => Over(q)'
      /\ \A q \in Requests : r \notin before[q]
    BY <1>1, AnsweredFacts
<1>3. target' = target /\ before' = before /\ UNCHANGED screen
    BY DEF Answered
<1>4. Orderly'
    BY <1>1, AnsweredKeepsOrder
<1>5. Checked'
    BY <1>1, <1>2, <1>3 DEF Checked, Requests
<1>6. DuplicatesOverlapped'
    <2>1. \A s \in rows : target[s] = target[r] => s \notin before[r] \/ r \in Failing
        BY DEF Checked, Answered
    <2>2. \A s \in rows : s \in Requests
        BY DEF TypeOK, Requests
    <2>3. QED BY <1>2, <1>3, <2>1, <2>2 DEF DuplicatesOverlapped
<1>7. RemovedIsGone'
    BY <1>1, <1>2, <1>3 DEF RemovedIsGone, Requests
<1>8. AddedStays'
    <2>1. ASSUME NEW a \in Adds, answer'[a] = "201"
          PROVE  \/ a \in rows'
                 \/ \E q \in Removes : /\ target[q] = target[a] /\ q \notin before[a]
                                       /\ answer'[q] = "202" \/ (q \in Failing /\ answer'[q] = "500")
        <3>1. CASE a = r
            BY <1>2, <2>1, <3>1
        <3>2. CASE a # r
            <4>1. answer[a] = "201"
                BY <1>2, <2>1, <3>2 DEF Requests
            <4>2. CASE a \in rows
                BY <4>2
            <4>3. CASE a \notin rows
                <5>1. PICK q \in Removes : /\ target[q] = target[a] /\ q \notin before[a]
                                           /\ answer[q] = "202" \/ (q \in Failing /\ answer[q] = "500")
                    BY <4>1, <4>3 DEF AddedStays
                <5>2. answer'[q] = answer[q]
                    BY <1>2, <5>1 DEF Requests
                <5>3. QED BY <5>1, <5>2
            <4>4. QED BY <4>2, <4>3
        <3>3. QED BY <3>1, <3>2
    <2>2. QED BY <1>3, <2>1 DEF AddedStays
<1>9. LatestReads'
    <2>1. Over(r)' /\ Unlisted(r)'
        BY <1>2 DEF Over, Unlisted, Answered
    <2>2. QED BY <1>1, <2>1 DEF LatestReads
<1>10. ShownReads'
    BY <1>3 DEF ShownReads, Displayed, screen
<1>11. QED BY <1>4, <1>5, <1>6, <1>7, <1>8, <1>9, <1>10

LEMMA DeleteKeeps ==
    ASSUME IInv, TypeOK', NEW r \in Removes, NEW status \in {"202", "500"}, Answered(r, status),
           \/ rows' = rows \ Of(target[r])
           \/ rows' = rows /\ status = "500"
    PROVE  IInv'
<1> USE DEF IInv
<1>1. r \in Requests /\ status \in Statuses
    BY DEF Requests, Statuses
<1>2. /\ pc'[r] = "answered" /\ answer'[r] = status /\ answer[r] = "none"
      /\ \A q \in Requests \ {r} : pc'[q] = pc[q] /\ answer'[q] = answer[q]
      /\ \A q \in Requests : Over(q) => Over(q)'
      /\ \A q \in Requests : r \notin before[q]
    BY <1>1, AnsweredFacts
<1>3. target' = target /\ before' = before /\ UNCHANGED screen
    BY DEF Answered
<1>a. rows' \subseteq rows
    OBVIOUS
<1>4. Orderly'
    BY <1>1, <1>a, AnsweredKeepsOrder
<1>5. Checked'
    BY <1>1, <1>2, <1>3, <1>a, FavoritesAssumption DEF Checked, Requests, FavoritesAssumption
<1>6. DuplicatesOverlapped'
    BY <1>3, <1>a DEF DuplicatesOverlapped
<1>7. RemovedIsGone'
    <2>1. \A q \in rows' : status = "202" => target[q] # target[r]
        BY DEF Of
    <2>2. QED BY <1>1, <1>2, <1>3, <1>a, <2>1 DEF RemovedIsGone, Requests
<1>8. AddedStays'
    <2>1. ASSUME NEW a \in Adds, answer'[a] = "201"
          PROVE  \/ a \in rows'
                 \/ \E q \in Removes : /\ target[q] = target[a] /\ q \notin before[a]
                                       /\ answer'[q] = "202" \/ (q \in Failing /\ answer'[q] = "500")
        <3>1. a \in Requests /\ answer[a] = "201"
            BY <1>2, <2>1 DEF Requests
        <3>2. CASE a \in rows
            <4>1. a \in rows' \/ target[r] = target[a]
                BY <3>2 DEF Of
            <4>2. answer'[r] = "202" \/ (r \in Failing /\ answer'[r] = "500")
                BY <1>2 DEF Answered
            <4>3. QED BY <4>1, <4>2, <1>2, <3>1
        <3>3. CASE a \notin rows
            <4>1. PICK q \in Removes : /\ target[q] = target[a] /\ q \notin before[a]
                                       /\ answer[q] = "202" \/ (q \in Failing /\ answer[q] = "500")
                BY <3>1, <3>3 DEF AddedStays
            <4>2. answer'[q] = answer[q]
                BY <1>2, <4>1 DEF Requests
            <4>3. QED BY <4>1, <4>2
        <3>4. QED BY <3>2, <3>3
    <2>2. QED BY <1>3, <2>1 DEF AddedStays
<1>9. LatestReads'
    <2>1. Over(r)' /\ Unlisted(r)'
        BY <1>2 DEF Over, Unlisted, Answered
    <2>2. QED BY <1>1, <2>1 DEF LatestReads
<1>10. ShownReads'
    BY <1>3 DEF ShownReads, Displayed, screen
<1>11. QED BY <1>4, <1>5, <1>6, <1>7, <1>8, <1>9, <1>10

-----------------------------------------------------------------------------
(* The phone *)

LEMMA HearsKeeps ==
    ASSUME IInv, TypeOK', NEW r \in Requests, Told(r) \/ NotTold(r)
    PROVE  IInv'
<1> USE DEF IInv
<1>1. /\ pc[r] = "answered" /\ pc'[r] \in {"done", "lost"}
      /\ \A q \in Requests \ {r} : pc'[q] = pc[q]
      /\ UNCHANGED <<rows, target, answer, before, isLoaded, list, shown>>
    BY DEF Told, NotTold, TypeOK, screen
<1>2. \A q \in Requests : Over(q)' <=> Over(q)
    BY <1>1 DEF Over
<1>3. Orderly'
    BY <1>1, <1>2 DEF Orderly, TypeOK, Requests
<1>4. Checked'
    BY <1>1 DEF Checked, Requests
<1>5. DuplicatesOverlapped' /\ RemovedIsGone' /\ AddedStays'
    BY <1>1 DEF DuplicatesOverlapped, RemovedIsGone, AddedStays
<1>6. LatestReads'
    <2>1. CASE answer[r] \in {"201", "202"} /\ r \notin Elsewhere /\ Told(r)
        <3>1. load'[latest'].phase = "sent"
            BY <2>1 DEF Told, TypeOK, Loads
        <3>2. QED BY <3>1 DEF LatestReads
    <2>2. CASE ~(answer[r] \in {"201", "202"} /\ r \notin Elsewhere /\ Told(r))
        <3>1. UNCHANGED <<load, latest>>
            BY <2>2 DEF Told, NotTold, screen
        <3>2. Over(r) /\ Unlisted(r) => Over(r)' /\ Unlisted(r)'
            BY <1>1, <2>2 DEF Over, Unlisted, NotTold, TypeOK
        <3>3. \A q \in Requests : Over(q) /\ Unlisted(q) => Over(q)' /\ Unlisted(q)'
            BY <1>1, <3>2 DEF Over, Unlisted
        <3>4. QED BY <1>1, <3>1, <3>3 DEF LatestReads
    <2>3. QED BY <2>1, <2>2
<1>7. ShownReads'
    <2>1. shown \in Loads /\ load'[shown].phase = "shown" => load'[shown] = load[shown]
        BY DEF Told, NotTold, TypeOK, screen, Loads
    <2>2. QED BY <1>1, <2>1 DEF ShownReads, Displayed, TypeOK
<1>8. QED BY <1>3, <1>4, <1>5, <1>6, <1>7

LEMMA LoadKeeps ==
    ASSUME IInv, TypeOK', NEW l \in Loads, Load(l)
    PROVE  IInv'
<1> USE DEF IInv
<1>1. UNCHANGED <<rows, request, latest>>
    BY DEF Load, LoadRows, LoadFails, Show
<1>2. Orderly' /\ Checked' /\ DuplicatesOverlapped' /\ RemovedIsGone' /\ AddedStays'
    BY <1>1 DEF request, Orderly, Over, Checked, DuplicatesOverlapped, RemovedIsGone, AddedStays
<1>3. \A k \in Loads \ {l} : load'[k] = load[k]
    BY DEF Load, LoadRows, LoadFails, Show, TypeOK
<1>4. LatestReads'
    <2>1. CASE latest # l
        BY <1>1, <1>3, <2>1 DEF LatestReads, request, Over, Unlisted, TypeOK
    <2>2. CASE latest = l /\ LoadRows(l)
        BY <1>1, <2>2 DEF LatestReads, LoadRows, TypeOK
    <2>3. CASE latest = l /\ LoadFails(l)
        BY <1>1, <2>3 DEF LatestReads, LoadFails, TypeOK
    <2>4. CASE latest = l /\ Show(l)
        <3>1. load[l].phase = "answered" /\ load'[l].rows = load[l].rows
            BY <2>4 DEF Show, TypeOK
        <3>2. QED BY <1>1, <2>4, <3>1 DEF LatestReads, request, Over, Unlisted
    <2>5. QED BY <2>1, <2>2, <2>3, <2>4 DEF Load
<1>5. ShownReads'
    <2>1. CASE Show(l)
        <3>1. load'[l].rows = load[l].rows
            BY <2>1 DEF Show, TypeOK
        <3>2. QED BY <2>1, <3>1 DEF Show, ShownReads, Displayed
    <2>2. CASE LoadRows(l) \/ LoadFails(l)
        <3>1. UNCHANGED <<isLoaded, list, shown>> /\ load'[l].phase # "shown"
            BY <2>2 DEF LoadRows, LoadFails, TypeOK
        <3>2. QED BY <1>3, <3>1 DEF ShownReads, Displayed, TypeOK
    <2>3. QED BY <2>1, <2>2 DEF Load
<1>6. QED BY <1>2, <1>4, <1>5

-----------------------------------------------------------------------------
(* The invariant *)

LEMMA InitInvariant == ASSUME Init PROVE IInv
  BY InitTypes DEF Init, IInv, Orderly, Over, Checked, DuplicatesOverlapped, RemovedIsGone,
     AddedStays, LatestReads, ShownReads, Displayed, Requests, Loads

LEMMA HandleKeeps ==
    ASSUME IInv, TypeOK', NEW r \in Requests, Handle(r)
    PROVE  IInv'
<1>1. CASE \/ Unauthenticated(r) \/ AddReceive(r) \/ AddCheck(r) \/ AddCheckFails(r)
           \/ RemoveReceive(r) \/ RemoveCheck(r) \/ RemoveCheckFails(r)
    BY <1>1, HandleMovesOn, MovesOnKeeps DEF IInv
<1>2. CASE AddInsert(r)
    <2>1. r \in Adds /\ Answered(r, "201") /\ rows' = rows \cup {r}
        BY <1>2 DEF AddInsert, Answered
    <2>2. QED BY <2>1, InsertKeeps
<1>3. CASE AddFails(r)
    <2>1. r \in Adds /\ Answered(r, "500") /\ rows' \in {rows, rows \cup {r}}
        BY <1>3 DEF AddFails, Fail, Answered
    <2>2. QED BY <2>1, InsertKeeps
<1>4. CASE RemoveDelete(r)
    <2>1. r \in Removes /\ Answered(r, "202") /\ rows' = rows \ Of(target[r])
        BY <1>4 DEF RemoveDelete, Answered
    <2>2. QED BY <2>1, DeleteKeeps
<1>5. CASE RemoveFails(r)
    <2>1. r \in Removes /\ Answered(r, "500") /\ rows' \in {rows, rows \ Of(target[r])}
        BY <1>5 DEF RemoveFails, Fail, Answered
    <2>2. QED BY <2>1, DeleteKeeps
<1>6. CASE Told(r) \/ NotTold(r)
    BY <1>6, HearsKeeps
<1>7. QED BY <1>1, <1>2, <1>3, <1>4, <1>5, <1>6 DEF Handle

LEMMA NextKeeps == ASSUME IInv, [Next]_vars PROVE IInv'
<1>1. TypeOK'
    BY NextTypes DEF IInv
<1>2. CASE \E r \in Requests : Handle(r)
    BY <1>1, <1>2, HandleKeeps
<1>3. CASE \E l \in Loads : Load(l)
    BY <1>1, <1>3, LoadKeeps
<1>4. CASE UNCHANGED vars
    BY <1>1, <1>4 DEF vars, request, screen, IInv, Orderly, Over, Checked, DuplicatesOverlapped,
       RemovedIsGone, AddedStays, LatestReads, Unlisted, ShownReads, Displayed
<1>5. QED BY <1>2, <1>3, <1>4 DEF Next

LEMMA Invariant == Spec => []IInv
<1>1. Init => IInv
    BY InitInvariant
<1>2. IInv /\ [Next]_vars => IInv'
    BY NextKeeps
<1>3. QED BY <1>1, <1>2, PTL DEF Spec

\* An account is listed twice only when the two additions overlapped or the
\* second one's check failed.
THEOREM DuplicatesNeedOverlap == Spec => []DuplicatesOverlapped
<1>1. IInv => DuplicatesOverlapped
    BY DEF IInv
<1>2. QED BY <1>1, Invariant, PTL

\* A removal that is reported has removed every row an earlier request added.
THEOREM RemovalsRemove == Spec => []RemovedIsGone
<1>1. IInv => RemovedIsGone
    BY DEF IInv
<1>2. QED BY <1>1, Invariant, PTL

\* An addition that is reported is there until a later removal.
THEOREM AdditionsStay == Spec => []AddedStays
<1>1. IInv => AddedStays
    BY DEF IInv
<1>2. QED BY <1>1, Invariant, PTL

\* The screen shows the table once the answer to the last GET is on it.
THEOREM ScreenCurrent == Spec => []ScreenIsCurrent
<1>1. IInv => ScreenIsCurrent
    BY DEF IInv, LatestReads, ShownReads, ScreenIsCurrent, Unlisted, Unseen, Over
<1>2. QED BY <1>1, Invariant, PTL

=============================================================================
