-------------------------- MODULE SessionDirectory --------------------------
(***************************************************************************)
(* The sessions of one user as a directory: the records in memory, the     *)
(* rows in Postgres, and a client that reads its history page by page      *)
(* while sessions are used, viewed, forgotten and deleted.                 *)
(*                                                                         *)
(* A record or row is [created, updated, matches, rebuilt]: two times,     *)
(* whether it passes the client's keyword and state filter, and whether    *)
(* the record was made from its row.  Times are distinct; in the code the  *)
(* id decides between equal ones.                                          *)
(***************************************************************************)
EXTENDS Integers, FiniteSets, Sequences, SequencesExt

CONSTANTS
  Mine,       \* the user's sessions
  Theirs,     \* sessions of other users in the same store
  PageSize,   \* how many sessions a page has
  Times,      \* times of creation clients ask for
  MaxTime,    \* bound: changes of a behaviour
  MaxLost     \* bound: session writes that fail (they are swallowed)

Sessions == Mine \cup Theirs
NoSession == "no session"

ASSUME DirectoryAssumption ==
  /\ Mine \cap Theirs = {} /\ NoSession \notin Sessions /\ IsFiniteSet(Sessions)
  /\ PageSize \in Nat \ {0} /\ {MaxTime, MaxLost} \cup Times \subseteq Nat

VARIABLES
  cache,      \* _sessions
  rows,       \* fly_report_session
  now, lost,
  walk,       \* the client's way through its history
  batch       \* a call of batch_delete_sessions

directoryVars == <<cache, rows, now, lost, walk, batch>>

Absent == [created |-> 0, updated |-> 0, matches |-> FALSE, rebuilt |-> FALSE]
Record == [created : Nat, updated : Nat, matches : BOOLEAN, rebuilt : BOOLEAN]

\* strayed: a page was asked for by a cursor that had changed since it was
\* listed, or that memory and store do not agree on.
NoWalk == [pc |-> "idle", after |-> 0, cursor |-> NoSession, seen |-> <<>>,
           touched |-> {}, strayed |-> FALSE]

NoBatch == [pc |-> "idle", before |-> 0, ids |-> {}, touched |-> {}]

Stamp(n) == [created |-> n, updated |-> n, matches |-> TRUE, rebuilt |-> FALSE]

\* Every session has been stored; some of the user's are in memory.
DirectoryInit ==
  /\ LET order == CHOOSE f \in [Sessions -> 1 .. Cardinality(Sessions)] :
                    \A s, t \in Sessions : f[s] = f[t] => s = t
     IN rows = [s \in Sessions |-> Stamp(order[s])]
  /\ \E live \in SUBSET Mine :
       cache = [s \in Sessions |-> IF s \in live THEN rows[s] ELSE Absent]
  /\ now = Cardinality(Sessions)
  /\ lost = {}
  /\ walk = NoWalk /\ batch = NoBatch

-----------------------------------------------------------------------------
(* The service *)

Cached(s) == cache[s] # Absent
Stored(s) == rows[s] # Absent

\* _rehydrate restores neither time: both are now.
Rehydrated(row, time) ==
  [row EXCEPT !.created = time, !.updated = time, !.rebuilt = TRUE]

\* _load_session
Loaded(s, time) == IF Cached(s) THEN cache[s] ELSE Rehydrated(rows[s], time)

\* upsert_session: a row that is there keeps the time it was created.
Upserted(s, record) ==
  [record EXCEPT !.created = IF Stored(s) THEN rows[s].created ELSE @,
                 !.rebuilt = FALSE]

\* How many entries are newer than one, those that fewer than n are newer than,
\* and all of them in order.
Newer(entry, entries) == Cardinality({e \in entries : e.updated > entry.updated})
Newest(entries, n) == {e \in entries : Newer(e, entries) < n}
NewestFirst(entries) ==
  [i \in 1 .. Cardinality(entries) |-> CHOOSE e \in entries : Newer(e, entries) = i - 1]

\* list_sessions_for_user: nothing comes before a cursor that is not stored.
ListSessionsForUser(cursor, limit) ==
  LET passes(s) ==
        /\ Stored(s) /\ rows[s].matches
        /\ cursor # NoSession =>
             cursor \in Mine /\ Stored(cursor) /\ rows[s].updated < rows[cursor].updated
  IN Newest({[id |-> s, updated |-> rows[s].updated] :
               s \in {t \in Mine : passes(t)}}, limit)

\* Mutant: a page begins with the cursor.
FromCursorOn(record, cursor) ==
  CASE cursor \in Mine /\ Cached(cursor) -> record.updated <= cache[cursor].updated
    [] cursor \in Mine /\ ~Cached(cursor) /\ Stored(cursor) ->
         record.updated < rows[cursor].updated
    [] OTHER -> TRUE

\* The key of the cursor: of the record, or of the row; a cursor that is gone
\* does not hold back any record.
BeforeCursor(record, cursor) ==
  CASE cursor \in Mine /\ Cached(cursor) -> record.updated < cache[cursor].updated
    [] cursor \in Mine /\ ~Cached(cursor) /\ Stored(cursor) ->
         record.updated < rows[cursor].updated
    [] OTHER -> TRUE

\* The part of list_user_sessions that reads memory: only it looks at the time
\* of creation that was asked for.
LiveSessions(cursor, after) ==
  {[id |-> s, updated |-> cache[s].updated] :
     s \in {t \in Mine : /\ Cached(t) /\ cache[t].matches
                         /\ cache[t].created >= after
                         /\ BeforeCursor(cache[t], cursor)}}

\* list_user_sessions: what is in memory goes before what is stored, and what
\* is not in memory, or held back there, is taken from the store.
ListUserSessions(cursor, after) ==
  LET live == LiveSessions(cursor, after)
      stored == {e \in ListSessionsForUser(cursor, PageSize + 1) :
                   \A l \in live : l.id # e.id}
      page == NewestFirst(Newest(live \cup stored, PageSize))
  IN [items |-> page,
      next |-> IF Cardinality(live \cup stored) > PageSize THEN Last(page).id
               ELSE NoSession]

-----------------------------------------------------------------------------
(* Calls of the API *)

Tick == now < MaxTime /\ now' = now + 1

Disturbed(ids) ==
  [walk EXCEPT !.touched = IF walk.pc = "idle" THEN @ ELSE @ \cup ids,
               !.strayed = @ \/ walk.cursor \in ids]

Touch(ids) ==
  /\ walk' = Disturbed(ids)
  /\ batch' = [batch EXCEPT !.touched = IF batch.pc \in {"collected", "deleted"}
                                        THEN @ \cup ids ELSE @]

\* start_session, which stores the record: the name of a deleted session
\* stands for the new one.  The initial query is a message.
StartSession(s) ==
  /\ ~Cached(s) /\ ~Stored(s) /\ Tick
  /\ \E saved \in BOOLEAN :
       /\ ~saved => Cardinality(lost) < MaxLost
       /\ cache' = [cache EXCEPT ![s] = Stamp(now')]
       /\ rows' = IF saved THEN [rows EXCEPT ![s] = Stamp(now')] ELSE rows
       /\ lost' = IF saved THEN lost ELSE lost \cup {s}
  /\ Touch({s})

\* GET of a session, its turns, artifacts or preview: the session is loaded.
GetSession(s) ==
  /\ ~Cached(s) /\ Stored(s) /\ Tick
  /\ cache' = [cache EXCEPT ![s] = Rehydrated(rows[s], now')]
  /\ Touch({s})
  /\ UNCHANGED <<rows, lost>>

\* A message to a session, or its confirmation or cancellation: it ends with
\* _persist_session, which may fail unnoticed.
SendMessage(s) ==
  /\ Cached(s) \/ Stored(s)
  /\ Tick
  /\ \E matches, saved \in BOOLEAN :
       LET record == [Loaded(s, now') EXCEPT !.updated = now', !.matches = matches]
       IN /\ ~saved => Cardinality(lost) < MaxLost
          /\ cache' = [cache EXCEPT ![s] = record]
          /\ rows' = IF saved THEN [rows EXCEPT ![s] = Upserted(s, record)] ELSE rows
          /\ lost' = IF saved THEN lost \ {s} ELSE lost \cup {s}
  /\ Touch({s})

DeleteSession(s) ==
  /\ Cached(s) \/ Stored(s)
  /\ cache' = [cache EXCEPT ![s] = Absent]
  /\ rows' = [rows EXCEPT ![s] = Absent]
  /\ lost' = lost \ {s}
  /\ Touch({s})
  /\ UNCHANGED now

\* cleanup_old_sessions forgets the sessions whose files are old; a restart
\* forgets them all.
Forget(ids) ==
  /\ cache' = [s \in Sessions |-> IF s \in ids THEN Absent ELSE cache[s]]
  /\ Touch({s \in ids : Cached(s) /\ cache[s] # rows[s]})
  /\ UNCHANGED <<rows, now, lost>>

CleanUp(s) == Cached(s) /\ Forget({s})

Restart == (\E s \in Sessions : Cached(s)) /\ Forget(Sessions)

\* batch_delete_sessions of those created before a time: the records to drop
\* are collected, the rows deleted, the records dropped.
BeginBatch(before) ==
  /\ batch.pc = "idle"
  /\ batch' = [pc |-> "collected", before |-> before, touched |-> {},
               ids |-> {s \in Mine : Cached(s) /\ cache[s].created < before}]
  /\ UNCHANGED <<cache, rows, now, lost, walk>>

DeleteRows ==
  /\ batch.pc = "collected"
  /\ LET gone == {s \in Mine : Stored(s) /\ rows[s].created < batch.before}
     IN /\ rows' = [s \in Sessions |-> IF s \in gone THEN Absent ELSE rows[s]]
        /\ walk' = Disturbed(gone)
  /\ batch' = [batch EXCEPT !.pc = "deleted"]
  /\ UNCHANGED <<cache, now, lost>>

\* Mutant: the records stay.
DropNoRecords ==
  /\ batch.pc = "deleted"
  /\ batch' = [batch EXCEPT !.pc = "done"]
  /\ UNCHANGED <<cache, rows, now, lost, walk>>

DropRecords ==
  /\ batch.pc = "deleted"
  /\ cache' = [s \in Sessions |-> IF s \in batch.ids THEN Absent ELSE cache[s]]
  /\ walk' = Disturbed(batch.ids)
  /\ batch' = [batch EXCEPT !.pc = "done"]
  /\ UNCHANGED <<rows, now, lost>>

\* Memory and store tell the same about a session.
InStep(s) == ~Cached(s) \/ (Stored(s) /\ cache[s].updated = rows[s].updated
                                      /\ cache[s].matches = rows[s].matches)

\* GET of a page: the first one, or the one before the last session seen.
ListSessions(after) ==
  /\ walk.pc = "idle" \/ (walk.pc = "reading" /\ walk.after = after)
  /\ LET page == ListUserSessions(walk.cursor, after)
     IN walk' = [walk EXCEPT
          !.pc = IF page.next = NoSession THEN "done" ELSE "reading",
          !.after = after,
          !.cursor = page.next,
          !.seen = @ \o [i \in DOMAIN page.items |-> page.items[i].id],
          !.strayed = @ \/ (walk.cursor # NoSession /\ ~InStep(walk.cursor))]
  /\ UNCHANGED <<cache, rows, now, lost, batch>>

DirectoryNext ==
  \/ \E s \in Sessions :
       StartSession(s) \/ GetSession(s) \/ SendMessage(s) \/ DeleteSession(s) \/ CleanUp(s)
  \/ Restart
  \/ \E time \in Times : BeginBatch(time) \/ ListSessions(time)
  \/ DeleteRows \/ DropRecords

DirectorySpec == DirectoryInit /\ [][DirectoryNext]_directoryVars

-----------------------------------------------------------------------------
(* Properties *)

TimesSeen(s) == Cardinality({i \in DOMAIN walk.seen : walk.seen[i] = s})

Present(s) == Cached(s) \/ Stored(s)
RecordOf(s) == IF Cached(s) THEN cache[s] ELSE rows[s]

\* The user's sessions nothing happened to since the walk began.
Undisturbed == {s \in Mine \ walk.touched : InStep(s) /\ Present(s)}

\* Created on or after the time that was asked for.
Asked(s) == RecordOf(s).created >= walk.after

HasRead == walk.pc = "done" /\ ~walk.strayed

\* Who reads the whole history sees every session once that passes the filters
\* and that nothing happened to in the meantime, newest first, none twice, none
\* that the keyword or state filter excludes, and no session of another user.
\* Nothing is said of sessions created before the time asked for: those that
\* are stored are listed nevertheless (OlderAreLeftOut).  Not covered, as the
\* code does not achieve it: a session that was rebuilt from its row or whose
\* write was lost (it is listed twice, by its record and by its older row), a
\* cursor that was (rows are skipped), a cursor that changed (pages are
\* repeated).
HistoryIsFaithful ==
  HasRead =>
    /\ \A s \in Undisturbed :
         TimesSeen(s) \in CASE ~RecordOf(s).matches -> {0}
                            [] RecordOf(s).matches /\ Asked(s) -> {1}
                            [] RecordOf(s).matches /\ ~Asked(s) -> {0, 1}
    /\ \A i, j \in DOMAIN walk.seen :
         i < j /\ {walk.seen[i], walk.seen[j]} \subseteq Undisturbed =>
           RecordOf(walk.seen[i]).updated > RecordOf(walk.seen[j]).updated
    /\ \A s \in Theirs : TimesSeen(s) = 0

\* What api.py:553 says of the parameter created_after: only sessions created on
\* or after this time are listed.  The code filters the records in memory and
\* adds the rows of the store, the same sessions' too, unfiltered.
OlderAreLeftOut ==
  HasRead => \A i \in DOMAIN walk.seen : walk.seen[i] \in Undisturbed => Asked(walk.seen[i])

\* A session is in memory only, and lives on there without a row, only if its
\* last write was lost, it was used while a batch was deleted, or its record was
\* rebuilt from its row: such a record is taken to be created when it was
\* rebuilt, so a batch deletes its row and leaves the record.
NoGhosts ==
  batch.pc \in {"idle", "done"} =>
    \A s \in Sessions : Cached(s) /\ ~Stored(s) =>
      s \in lost \cup batch.touched \/ cache[s].rebuilt

\* Sessions are found once, in order and by their user, and gone when deleted.
SessionsAreListed == HistoryIsFaithful /\ NoGhosts

DirectoryTypeOK ==
  /\ cache \in [Sessions -> Record] /\ rows \in [Sessions -> Record]
  /\ lost \subseteq Sessions
=============================================================================
