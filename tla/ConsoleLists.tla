---------------------------- MODULE ConsoleLists ----------------------------
(***************************************************************************)
(* The paged lists of the console and the sandbox users in one of them:    *)
(* SandboxService, AdminService, SessionService with their cursors, and    *)
(* the pages that append the answers: SandboxManager.svelte (users),       *)
(* GodMode.svelte and DeveloperSessions.svelte (sessions).                 *)
(*                                                                         *)
(* A row is a number: its place in the order (created_at, id).  The clock  *)
(* of created_at counts seconds, so several rows share one, and a new row  *)
(* falls anywhere among those of its second.                               *)
(***************************************************************************)
EXTENDS Integers, FiniteSets, Sequences

CONSTANTS
  Places,    \* rows there may be, by their place in the order
  PerSecond, \* places that share a second
  Limit,     \* rows to a page
  Handlers, None

ASSUME ListAssumption ==
  /\ Places \subseteq Nat \ {0} /\ IsFiniteSet(Places)
  /\ PerSecond \in Nat \ {0} /\ Limit \in Nat \ {0}
  /\ None \notin Nat

VARIABLES
  page,      \* the page modelled: "sandbox", "god" or "developer"
  rows,      \* users, or sessions
  profiles,  \* myinfo_profiles, by user
  born,      \* the rows there have ever been
  pc, req,   \* where each request is, and what it carries
  list, next, loading, \* of the page: items, nextCursor, loading
  steady,    \* history: rows that were there at the last first page, and still are
  broken,    \* history: an answer was lost, or came while another was awaited
  torn       \* history: users whose creation or deletion was cut off, or met the other

tables == <<rows, profiles, born>>
pageVars == <<list, next, loading>>
histories == <<steady, broken, torn>>
vars == <<page, tables, pc, req, pageVars, histories>>

-----------------------------------------------------------------------------
Second(r) == (r - 1) \div PerSecond
Places0 == Places \cup {None}
Kinds == {"none", "fetch", "create", "delete", "update", "revoke"}
\* What a request may carry when the rows of B have been there.
Request(B) ==
  [kind : Kinds, row : B \cup {None}, here : BOOLEAN, reset : BOOLEAN,
   got : {items \in Seq(B) : Len(items) <= Limit}, next : B \cup {None}]
NoRequest == [kind |-> "none", row |-> None, here |-> FALSE, reset |-> FALSE,
              got |-> <<>>, next |-> None]
Fetch(reset, after) ==
  [NoRequest EXCEPT !.kind = "fetch", !.here = TRUE, !.reset = reset, !.next = after]

\* No code adds sessions to the table these pages list: they are there from the start.
Init ==
  /\ page \in {"sandbox", "god", "developer"}
  /\ rows = IF page = "sandbox" THEN {} ELSE Places
  /\ profiles = {}
  /\ born = rows
  /\ pc = [h \in Handlers |-> "idle"]
  /\ req = [h \in Handlers |-> NoRequest]
  /\ list = <<>> /\ next = None /\ loading = TRUE
  /\ steady = {}
  /\ broken = TRUE  \* until the page is mounted
  /\ torn = {}

-----------------------------------------------------------------------------
(* Requests *)

Begin(h, r) ==
  /\ pc[h] = "idle"
  /\ pc' = [pc EXCEPT ![h] = "run"]
  /\ req' = [req EXCEPT ![h] = r]

End(h) ==
  /\ pc' = [pc EXCEPT ![h] = "idle"]
  /\ req' = [req EXCEPT ![h] = NoRequest]

Goto(h, where) == pc' = [pc EXCEPT ![h] = where]

\* Nobody waits for an answer that is not for the page.
Reply(h) == IF req[h].here THEN Goto(h, "answer") /\ UNCHANGED req ELSE End(h)

Here(h) == pc[h] # "idle" /\ req[h].here
Fetching(h) == Here(h) /\ req[h].kind = "fetch"
Quiet == \A h \in Handlers : ~Here(h)
\* What the page shows is not said to fit together until it is mounted again.
BreakIf(lost) ==
  IF lost THEN broken' = TRUE /\ steady' = {} ELSE UNCHANGED <<broken, steady>>

Others(h, kind, r) == \E g \in Handlers \ {h} : req[g].kind = kind /\ req[g].row = r

-----------------------------------------------------------------------------
(* The paged queries: rows after the cursor, newest first, one more than the *)
(* page holds                                                               *)

\* Mutant: the cursor compares the seconds only.
BeforeBySecond(r, after) == after = None \/ Second(r) < Second(after)

\* created_at first, then the id: together the place.
Before(r, after) == after = None \/ r < after

\* The members of a finite set of numbers, the largest first.
Descending(S) ==
  CHOOSE f \in [1..Cardinality(S) -> S] : \A i, j \in DOMAIN f : i < j => f[i] > f[j]

\* Mutant: the extra row stays in the answer.
PageAfterWithExtra(found) == SubSeq(found, 1, Limit + 1)
PageAfter(found) == SubSeq(found, 1, Limit)

ListPage(h) ==
  LET found == Descending({r \in rows : Before(r, req[h].next)})
      more == Len(found) > Limit
      shown == IF more THEN PageAfter(found) ELSE found
  IN
  /\ pc[h] = "run" /\ req[h].kind = "fetch"
  /\ req' = [req EXCEPT ![h].got = shown, ![h].next = IF more THEN shown[Limit] ELSE None]
  /\ steady' = IF req[h].reset /\ ~broken THEN rows ELSE steady
  /\ Goto(h, "answer")
  /\ UNCHANGED <<page, tables, pageVars, broken, torn>>

-----------------------------------------------------------------------------
(* SandboxService: users with their profiles; SessionService: sessions *)

\* The id is random, the second is the current one.
InsertRow(h, r) ==
  /\ pc[h] = "run" /\ req[h].kind = "create"
  /\ r \notin born
  /\ \A q \in born : Second(q) <= Second(r)
  /\ rows' = rows \cup {r} /\ born' = born \cup {r}
  /\ req' = [req EXCEPT ![h].row = r]
  /\ Goto(h, "second")
  /\ UNCHANGED <<page, profiles, pageVars, histories>>

\* The user may be gone: with foreign keys enforced the insert fails then.
InsertProfile(h) ==
  LET r == req[h].row IN
  /\ pc[h] = "second" /\ req[h].kind = "create"
  /\ \/ profiles' = profiles \cup {r} /\ Reply(h)
     \/ r \notin rows /\ End(h) /\ UNCHANGED profiles
  /\ torn' = IF r \in rows /\ ~Others(h, "delete", r) THEN torn ELSE torn \cup {r}
  /\ UNCHANGED <<page, rows, born, pageVars, steady, broken>>

Drop(r) == rows' = rows \ {r} /\ steady' = steady \ {r}

\* Mutant: the profile is left.
DeleteUserOnly(h) ==
  /\ pc[h] = "run" /\ req[h].kind = "delete"
  /\ Drop(req[h].row)
  /\ Reply(h)
  /\ UNCHANGED <<page, profiles, born, pageVars, broken, torn>>

DeleteProfile(h) ==
  LET r == req[h].row IN
  /\ pc[h] = "run" /\ req[h].kind = "delete"
  /\ profiles' = profiles \ {r}
  /\ torn' = IF Others(h, "create", r) THEN torn \cup {r} ELSE torn
  /\ Goto(h, "second")
  /\ UNCHANGED <<page, rows, born, req, pageVars, steady, broken>>

\* A profile that was inserted since keeps the user where foreign keys are enforced.
DeleteUser(h) ==
  LET r == req[h].row IN
  /\ pc[h] = "second" /\ req[h].kind = "delete"
  /\ \/ /\ Drop(r) /\ Reply(h)
        /\ torn' = IF r \in profiles \/ Others(h, "create", r) THEN torn ELSE torn \ {r}
     \/ r \in profiles /\ End(h) /\ UNCHANGED <<rows, steady, torn>>
  /\ UNCHANGED <<page, profiles, born, pageVars, broken>>

\* revokeSession.
DeleteSession(h) ==
  /\ pc[h] = "run" /\ req[h].kind = "revoke"
  /\ Drop(req[h].row)
  /\ Reply(h)
  /\ UNCHANGED <<page, profiles, born, pageVars, broken, torn>>

\* The status and the password are in the user's row, the attributes in the profile's:
\* each update fails without its row.  The answer to a new password changes nothing
\* that the page lists, those to the other two make it fetch the list.
UpdateUser(h) ==
  /\ pc[h] = "run"
  /\ req[h].kind = "update"
  /\ req[h].row \in rows \/ req[h].row \in profiles
  /\ Reply(h) \/ End(h)
  /\ UNCHANGED <<page, tables, pageVars, histories>>

\* The page keeps what it shows when its request fails; a lost fetch leaves it empty.
Fails(h) ==
  /\ pc[h] # "idle"
  /\ End(h)
  /\ loading' = (loading /\ ~Fetching(h))
  /\ BreakIf(Fetching(h) \/ (Here(h) /\ pc[h] = "answer"))
  /\ torn' = IF pc[h] = "second" THEN torn \cup {req[h].row} ELSE torn
  /\ UNCHANGED <<page, tables, list, next>>

-----------------------------------------------------------------------------
(* The pages *)

\* fetchItems(true), fetchUsers(), fetchSessions(true): the list is emptied at once.
Clear == list' = <<>> /\ loading' = TRUE
Overlap(h) == \E g \in Handlers \ {h} : Fetching(g)

\* Fetches and answers of the page before are lost, its other requests go on.
Mount(h) ==
  LET lost(g) == Fetching(g) \/ pc[g] = "answer" IN
  /\ pc[h] = "idle"
  /\ pc' = [g \in Handlers |-> IF g = h THEN "run" ELSE IF lost(g) THEN "idle" ELSE pc[g]]
  /\ req' = [g \in Handlers |-> IF g = h THEN Fetch(TRUE, None)
               ELSE IF lost(g) THEN NoRequest ELSE [req[g] EXCEPT !.here = FALSE]]
  /\ Clear /\ next' = None
  /\ broken' = FALSE /\ steady' = {}
  /\ UNCHANGED <<page, tables, torn>>

Refresh(h) ==
  /\ page = "developer"
  /\ Begin(h, Fetch(TRUE, None))
  /\ Clear
  /\ BreakIf(Overlap(h))
  /\ UNCHANGED <<page, tables, next, torn>>

\* The button is there below the rows while there is a next cursor; SandboxManager does
\* not disable it while it loads.
MoreShown == next # None /\ list # <<>> /\ (loading => page = "sandbox")

LoadMore(h) ==
  /\ page # "god" /\ MoreShown
  /\ Begin(h, Fetch(FALSE, next))
  /\ loading' = TRUE
  /\ BreakIf(Overlap(h))
  /\ UNCHANGED <<page, tables, list, next, torn>>

\* In GodMode the effect that fetches a tab reads the cursor, so that setting the
\* cursor runs it again: the next page is asked for together with the first one.
LoadMoreAndFirst(h, g) ==
  /\ page = "god" /\ MoreShown
  /\ h # g /\ pc[h] = "idle" /\ pc[g] = "idle"
  /\ pc' = [pc EXCEPT ![h] = "run", ![g] = "run"]
  /\ req' = [req EXCEPT ![h] = Fetch(FALSE, next), ![g] = Fetch(TRUE, None)]
  /\ Clear
  /\ BreakIf(TRUE)
  /\ UNCHANGED <<page, tables, next, torn>>

ShowPage(h) ==
  /\ pc[h] = "answer" /\ Fetching(h)
  /\ list' = IF req[h].reset THEN req[h].got ELSE list \o req[h].got
  /\ next' = req[h].next /\ loading' = FALSE
  /\ End(h)
  /\ UNCHANGED <<page, tables, histories>>

\* What filter() leaves of a list, in its order.
Without(items, row) ==
  LET kept == {i \in DOMAIN items : items[i] # row}
      at == Descending(kept)
  IN  [i \in 1..Cardinality(kept) |-> items[at[Cardinality(kept) + 1 - i]]]

Listed(r) == \E i \in DOMAIN list : list[i] = r
SandboxKinds == {"delete", "update"}

Click(h, k, r) ==
  /\ \/ k \in (IF page = "sandbox" THEN SandboxKinds ELSE {"revoke"}) /\ Listed(r)
     \/ page = "sandbox" /\ k = "create" /\ r = None
  /\ Begin(h, [NoRequest EXCEPT !.kind = k, !.row = r, !.here = TRUE])
  /\ UNCHANGED <<page, tables, pageVars, histories>>

\* After a success SandboxManager fetches the first page; the lists of sessions
\* filter the row out of what they show.
Done(h) ==
  /\ pc[h] = "answer" /\ Here(h) /\ ~Fetching(h)
  /\ IF page = "sandbox"
       THEN /\ pc' = [pc EXCEPT ![h] = "run"]
            /\ req' = [req EXCEPT ![h] = Fetch(TRUE, None)]
            /\ Clear
            /\ BreakIf(Overlap(h))
       ELSE /\ End(h)
            /\ list' = Without(list, req[h].row)
            /\ UNCHANGED <<loading, broken, steady>>
  /\ UNCHANGED <<page, tables, next, torn>>

\* Another administrator, or a page that has been left.
Elsewhere(h, k, r) ==
  /\ k \in (IF page = "sandbox" THEN {"create", "delete"} ELSE {"revoke"})
  /\ (k = "create") = (r = None)
  /\ Begin(h, [NoRequest EXCEPT !.kind = k, !.row = r])
  /\ UNCHANGED <<page, tables, pageVars, histories>>

-----------------------------------------------------------------------------
Serve(h) ==
  \/ ListPage(h) \/ (\E r \in Places : InsertRow(h, r)) \/ InsertProfile(h)
  \/ DeleteProfile(h) \/ DeleteUser(h) \/ DeleteSession(h) \/ UpdateUser(h) \/ Fails(h)

Page(h) ==
  \/ Mount(h) \/ Refresh(h) \/ LoadMore(h) \/ (\E g \in Handlers : LoadMoreAndFirst(h, g))
  \/ ShowPage(h) \/ Done(h)
  \/ \E r \in Places0, k \in SandboxKinds \cup {"create", "revoke"} : Click(h, k, r)

Next ==
  \E h \in Handlers :
    \/ Serve(h) \/ Page(h)
    \/ \E r \in rows \cup profiles \cup {None}, k \in {"create", "delete", "revoke"} : Elsewhere(h, k, r)

Spec == Init /\ [][Next]_vars

-----------------------------------------------------------------------------
(* Properties *)

\* Tables, requests and page have the shapes of the code; an answer holds at most the
\* rows of one page, and a cursor is a row that has been listed.
TypeOK ==
  /\ page \in {"sandbox", "god", "developer"}
  /\ rows \subseteq born /\ profiles \subseteq born /\ born \subseteq Places
  /\ pc \in [Handlers -> {"idle", "run", "second", "answer"}]
  /\ req \in [Handlers -> Request(born)]
  /\ list \in Seq(born) /\ next \in born \cup {None} /\ loading \in BOOLEAN
  /\ steady \subseteq rows /\ broken \in BOOLEAN
  /\ torn \subseteq born

\* What a page without a request in flight has put together from several answers is in
\* order and without repeats, and holds every row down to the next cursor that was there
\* all the time, whatever was inserted and deleted meanwhile, unless two of its fetches
\* overlapped or one failed.
PagesFitTogether ==
  Quiet /\ ~broken =>
    /\ \A i, j \in DOMAIN list : i < j => list[i] > list[j]
    /\ \A r \in steady : next = None \/ r >= next => Listed(r)

\* A sandbox user has a profile and a profile its user, except between the two queries
\* of a creation or a deletion, after one that was cut off, and where the deletion of a
\* user met its creation.
ProfilesMatchUsers ==
  page = "sandbox" =>
    \A r \in born \ torn :
      (r \in rows) # (r \in profiles) => \E h \in Handlers : pc[h] = "second" /\ req[h].row = r

-----------------------------------------------------------------------------
(* The inductive invariants behind them *)

\* Where a request of each kind can be, and what it then carries; a deletion that has
\* been answered has removed its row, and no row comes back.  (at: the page, there: the
\* rows, seen: those there have been)
Carried(at, there, seen, label, r) ==
  /\ label = "idle" => r.kind = "none"
  /\ label # "idle" => r.kind # "none"
  /\ label = "second" => r.kind \in {"create", "delete"}
  /\ label = "answer" => r.here
  /\ r.kind = "fetch" => r.here
  /\ r.kind \in {"create", "delete", "update"} => at = "sandbox"
  /\ r.kind = "revoke" => at # "sandbox"
  /\ r.kind \in {"delete", "update", "revoke"} \/ (r.kind = "create" /\ label # "run") =>
       r.row \in seen
  /\ r.kind = "revoke" /\ label = "answer" => r.row \notin there

CarriedInv == \A h \in Handlers : Carried(page, rows, born, pc[h], req[h])

\* items are rows in order, after the cursor from and down to the cursor to, and among
\* them all of those that stayed (st).
Covers(items, from, to, st) ==
  /\ \A i, j \in DOMAIN items : i < j => items[i] > items[j]
  /\ \A i \in DOMAIN items : /\ from # None => items[i] < from
                             /\ to # None => items[i] >= to
  /\ to # None /\ from # None => to < from
  /\ \A r \in st : /\ from # None => r < from
                   /\ to # None => r >= to
                   => \E i \in DOMAIN items : items[i] = r

\* A fetch continues what the page shows (items), from the cursor of the page.
Continues(items, cursor, st, label, r) ==
  /\ r.reset => items = <<>>
  /\ ~r.reset => cursor # None
  /\ label = "run" /\ ~r.reset => r.next = cursor
  /\ label = "run" /\ r.reset => r.next = None
  /\ label = "answer" => Covers(r.got, IF r.reset THEN None ELSE cursor, r.next, st)

PagesInv ==
  ~broken =>
    /\ \A g, h \in Handlers : req[g].kind = "fetch" /\ req[h].kind = "fetch" => g = h
    /\ \A h \in Handlers :
         req[h].kind = "fetch" => Continues(list, next, steady, pc[h], req[h])
    /\ (\A h \in Handlers : req[h].kind = "fetch" => ~req[h].reset) =>
         Covers(list, None, next, steady)

\* A deletion that meets a profile inserted since has met the creation of its user.
DeletionsInv ==
  \A h \in Handlers :
    pc[h] = "second" /\ req[h].kind = "delete" /\ req[h].row \in profiles => req[h].row \in torn

=============================================================================
