------------------------------ MODULE Favorites ------------------------------
(***************************************************************************)
(* The favorites of one user: the three handlers of /v1/favorites,         *)
(* statement by statement, and the screen (FavouritesBloc) that adds,      *)
(* removes and lists them.                                                 *)
(*                                                                         *)
(* Every statement is a commit of its own and nothing in the table keeps   *)
(* an account from being listed twice.  The requests come from the screen  *)
(* and from another phone of the same user; what the screen shows is       *)
(* replaced by the answer to the last GET that arrives.                    *)
(***************************************************************************)
CONSTANTS Adds,      \* POST requests
          Removes,   \* DELETE requests
          Elsewhere, \* the requests sent by another phone
          Failing,   \* bound: the requests an error may hit
          Accounts,  \* the emails of other users
          Plus,      \* those with a "+", which Go reads as a space in a query
          Self,      \* the user's own email
          Unknown,   \* an email nobody has
          NoEmail,   \* ""
          Open       \* the GET that opening the screen sends

Requests == Adds \cup Removes
\* A GET is named after the request whose success caused it.
Loads == Requests \cup {Open}

ASSUME FavoritesAssumption ==
    /\ Adds \cap Removes = {}
    /\ Open \notin Requests
    /\ Elsewhere \subseteq Requests
    /\ Failing \subseteq Requests
    /\ Plus \subseteq Accounts
    /\ {Self, Unknown, NoEmail} \cap Accounts = {}

VARIABLES
    rows,     \* table Favorites: the requests whose INSERT is there
    pc,       \* the next statement of each request
    target,   \* its email
    answer,   \* its status
    before,   \* history: the requests answered when it was received
    load,     \* the phase of each GET and the rows it has read
    isLoaded, \* FavouritesState.isLoaded
    list,     \* FavouritesState.favouritesList
    latest,   \* the GET sent last
    shown     \* the GET whose answer was emitted last

request == <<pc, target, answer, before>>
screen == <<load, isLoaded, list, latest, shown>>
vars == <<rows, request, screen>>

Emails == Accounts \cup {Self, Unknown, NoEmail}
Steps == {"idle", "check", "write", "answered", "done", "lost"}
Statuses == {"none", "201", "202", "401", "403", "409", "500"}
Phases == {"none", "sent", "answered", "shown", "failed"}

TypeOK ==
    /\ rows \subseteq Adds
    /\ pc \in [Requests -> Steps]
    /\ target \in [Requests -> Emails]
    /\ answer \in [Requests -> Statuses]
    /\ before \in [Requests -> SUBSET Requests]
    /\ load \in [Loads -> [phase : Phases, rows : SUBSET Adds]]
    /\ isLoaded \in BOOLEAN
    /\ list \subseteq Adds
    /\ latest \in Loads
    /\ shown \in Loads

Of(email) == {r \in rows : target[r] = email}
Displayed == IF isLoaded THEN list ELSE {}

\* The screen was opened and has sent its GET.
Init ==
    /\ rows = {}
    /\ pc = [r \in Requests |-> "idle"]
    /\ target = [r \in Requests |-> NoEmail]
    /\ answer = [r \in Requests |-> "none"]
    /\ before = [r \in Requests |-> {}]
    /\ load = [l \in Loads |-> [phase |-> IF l = Open THEN "sent" ELSE "none", rows |-> {}]]
    /\ isLoaded = FALSE
    /\ list = {}
    /\ latest = Open
    /\ shown = Open

-----------------------------------------------------------------------------
(* What the handlers share *)

Goto(r, step) ==
    /\ pc' = [pc EXCEPT ![r] = step]
    /\ UNCHANGED answer

Answer(r, status) ==
    /\ pc' = [pc EXCEPT ![r] = "answered"]
    /\ answer' = [answer EXCEPT ![r] = status]

\* GetActiveUser finds a session and the email is read; table Users does not
\* change, so that looking the email up is part of this step.
Receive(r, email) ==
    /\ pc[r] = "idle"
    /\ target' = [target EXCEPT ![r] = email]
    /\ before' = [before EXCEPT ![r] = {s \in Requests : pc[s] \in {"answered", "done", "lost"}}]
    /\ UNCHANGED <<rows, screen>>

\* The screen can remove only what it shows.
Asked(r) ==
    IF r \in Removes \ Elsewhere THEN {target[s] : s \in Displayed} ELSE Emails

\* GetActiveUser finds no session.
Unauthenticated(r) ==
    /\ pc[r] = "idle"
    /\ Asked(r) # {}
    /\ Answer(r, "401")
    /\ UNCHANGED <<rows, target, before, screen>>

\* An error in a statement that is not ignored.
Fail(r) ==
    /\ r \in Failing
    /\ Answer(r, "500")

-----------------------------------------------------------------------------
(* AddFavorite *)

\* An unknown email is not the ErrNoRows the code compares with, but both ways
\* out are a 500.
AddReceive(r) ==
    /\ r \in Adds
    /\ \E email \in Emails :
         /\ Receive(r, email)
         /\ \/ email = NoEmail /\ Answer(r, "409")
            \/ email = Unknown /\ Answer(r, "500")
            \/ email = Self /\ Answer(r, "403")
            \/ email \in Accounts /\ Goto(r, "check")
            \/ email # NoEmail /\ Fail(r)

\* Mutant of AddCheck: the query has its two parameters swapped.
AddCheckSwapped(r) ==
    /\ r \in Adds /\ pc[r] = "check"
    /\ Goto(r, "write")
    /\ UNCHANGED <<rows, target, before, screen>>

AddCheck(r) ==
    /\ r \in Adds /\ pc[r] = "check"
    /\ IF Of(target[r]) # {} THEN Answer(r, "409") ELSE Goto(r, "write")
    /\ UNCHANGED <<rows, target, before, screen>>

\* The error of this SELECT is ignored, and favoriteExists stays false.
AddCheckFails(r) ==
    /\ r \in Adds \cap Failing /\ pc[r] = "check"
    /\ Goto(r, "write")
    /\ UNCHANGED <<rows, target, before, screen>>

AddInsert(r) ==
    /\ r \in Adds /\ pc[r] = "write"
    /\ rows' = rows \cup {r}
    /\ Answer(r, "201")
    /\ UNCHANGED <<target, before, screen>>

\* Mutant of AddFails: the error of the INSERT is ignored like that of the check.
AddFailsUnnoticed(r) ==
    /\ r \in Adds \cap Failing /\ pc[r] = "write"
    /\ Answer(r, "201")
    /\ UNCHANGED <<rows, target, before, screen>>

\* An error of the INSERT, which may have been committed.
AddFails(r) ==
    /\ r \in Adds /\ pc[r] = "write"
    /\ Fail(r)
    /\ rows' \in {rows, rows \cup {r}}
    /\ UNCHANGED <<target, before, screen>>

-----------------------------------------------------------------------------
(* RemoveFavorite *)

\* The phone puts the email into the query as it is.
RemoveReceive(r) ==
    /\ r \in Removes
    /\ \E email \in Asked(r) :
         /\ Receive(r, email)
         /\ \/ email = NoEmail /\ Answer(r, "409")
            \/ email \in Plus \cup {Unknown} /\ Answer(r, "500")
            \/ email \in (Accounts \ Plus) \cup {Self} /\ Goto(r, "check")
            \/ email # NoEmail /\ Fail(r)

RemoveCheck(r) ==
    /\ r \in Removes /\ pc[r] = "check"
    /\ IF Of(target[r]) = {} THEN Answer(r, "409") ELSE Goto(r, "write")
    /\ UNCHANGED <<rows, target, before, screen>>

\* The error is ignored here too, and favoriteExists stays false.
RemoveCheckFails(r) ==
    /\ r \in Removes \cap Failing /\ pc[r] = "check"
    /\ Answer(r, "409")
    /\ UNCHANGED <<rows, target, before, screen>>

\* Mutant of RemoveDelete: one row goes.
RemoveDeleteOne(r) ==
    /\ r \in Removes /\ pc[r] = "write"
    /\ \/ Of(target[r]) = {} /\ UNCHANGED rows
       \/ \E s \in Of(target[r]) : rows' = rows \ {s}
    /\ Answer(r, "202")
    /\ UNCHANGED <<target, before, screen>>

\* Every row of the account goes, and it may be none by now.
RemoveDelete(r) ==
    /\ r \in Removes /\ pc[r] = "write"
    /\ rows' = rows \ Of(target[r])
    /\ Answer(r, "202")
    /\ UNCHANGED <<target, before, screen>>

RemoveFails(r) ==
    /\ r \in Removes /\ pc[r] = "write"
    /\ Fail(r)
    /\ rows' \in {rows, rows \ Of(target[r])}
    /\ UNCHANGED <<target, before, screen>>

-----------------------------------------------------------------------------
(* FavouritesBloc *)

\* Mutant of Told: only what is added is loaded again.
ToldOfAdds(r) ==
    /\ pc[r] = "answered"
    /\ pc' = [pc EXCEPT ![r] = "done"]
    /\ IF answer[r] = "201" /\ r \notin Elsewhere
       THEN /\ load' = [load EXCEPT ![r].phase = "sent"]
            /\ latest' = r
       ELSE UNCHANGED <<load, latest>>
    /\ UNCHANGED <<rows, target, answer, before, isLoaded, list, shown>>

\* The answer arrives.  A success loads the list again; anything else throws
\* and is displayed as a message.
Told(r) ==
    /\ pc[r] = "answered"
    /\ pc' = [pc EXCEPT ![r] = "done"]
    /\ IF answer[r] \in {"201", "202"} /\ r \notin Elsewhere
       THEN /\ load' = [load EXCEPT ![r].phase = "sent"]
            /\ latest' = r
       ELSE UNCHANGED <<load, latest>>
    /\ UNCHANGED <<rows, target, answer, before, isLoaded, list, shown>>

\* The answer does not arrive: a message, and the list stays as it is.
NotTold(r) ==
    /\ pc[r] = "answered"
    /\ pc' = [pc EXCEPT ![r] = "lost"]
    /\ UNCHANGED <<rows, target, answer, before, screen>>

\* RetrieveFavorites: the user exists, and GetFavoritesById reads the rows.
LoadRows(l) ==
    /\ load[l].phase = "sent"
    /\ load' = [load EXCEPT ![l] = [phase |-> "answered", rows |-> rows]]
    /\ UNCHANGED <<rows, request, isLoaded, list, latest, shown>>

\* 401, 409, 500 or no answer: getFavourites throws, and nobody catches it.
LoadFails(l) ==
    /\ load[l].phase \in {"sent", "answered"}
    /\ load' = [load EXCEPT ![l].phase = "failed"]
    /\ UNCHANGED <<rows, request, isLoaded, list, latest, shown>>

\* Mutant of Show: the list is emitted together with its message.
ShowResponse(l) ==
    /\ load[l].phase = "answered"
    /\ load' = [load EXCEPT ![l].phase = "shown"]
    /\ isLoaded' = TRUE
    /\ list' = {load[l].rows}
    /\ shown' = l
    /\ UNCHANGED <<rows, request, latest>>

\* The answer replaces the list.  No row at all is "data": null, which hides
\* the list and keeps it.
Show(l) ==
    /\ load[l].phase = "answered"
    /\ load' = [load EXCEPT ![l].phase = "shown"]
    /\ isLoaded' = (load[l].rows # {})
    /\ list' = IF load[l].rows # {} THEN load[l].rows ELSE list
    /\ shown' = l
    /\ UNCHANGED <<rows, request, latest>>

Handle(r) ==
    \/ Unauthenticated(r)
    \/ AddReceive(r) \/ AddCheck(r) \/ AddCheckFails(r)
    \/ AddInsert(r) \/ AddFails(r)
    \/ RemoveReceive(r) \/ RemoveCheck(r) \/ RemoveCheckFails(r)
    \/ RemoveDelete(r) \/ RemoveFails(r)
    \/ Told(r) \/ NotTold(r)

Load(l) == LoadRows(l) \/ LoadFails(l) \/ Show(l)

Next == (\E r \in Requests : Handle(r)) \/ (\E l \in Loads : Load(l))

Spec == Init /\ [][Next]_vars

-----------------------------------------------------------------------------
(* Properties *)

\* An account is listed twice only if the second request to add it was received
\* before the first was answered, or its check failed: AddFavorite relies on a
\* SELECT before its INSERT, and the table has no constraint.
DuplicatesOverlapped ==
    \A r, s \in rows :
        r # s /\ target[r] = target[s] => s \notin before[r] \/ r \in Failing

\* A removal that is reported leaves no row behind that an earlier request
\* added, duplicates included, whatever overlapped it.
RemovedIsGone ==
    \A q \in Removes, r \in rows :
        answer[q] = "202" /\ target[r] = target[q] => r \notin before[q]

\* An addition that is reported is there until a removal that was not over
\* when it began.
AddedStays ==
    \A r \in Adds :
        answer[r] = "201" =>
            \/ r \in rows
            \/ \E q \in Removes : /\ target[q] = target[r] /\ q \notin before[r]
                                  /\ \/ answer[q] = "202"
                                     \/ q \in Failing /\ answer[q] = "500"

\* What a request may have changed without this phone being told.
Unseen(r) ==
    \/ pc[r] \notin {"idle", "done"}
    \/ r \in Elsewhere /\ answer[r] \in {"201", "202"}
    \/ r \in Failing /\ answer[r] = "500"

\* When every change was made here and confirmed, the screen shows the table
\* as it is, provided that the answer it shows is that to the request sent
\* last: confirmations may arrive in another order than the changes were made,
\* but each is followed by a GET.  (Answers to GETs that overtake each other
\* leave an old list on the screen.)
ScreenIsCurrent ==
    shown = latest /\ load[latest].phase = "shown" /\ (\A r \in Requests : ~Unseen(r))
        => Displayed = rows

=============================================================================
