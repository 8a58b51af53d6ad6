---------------------------- MODULE Conversation ----------------------------
(***************************************************************************)
(* The messages of one FlyReport session: what its streamed interactions   *)
(* record, what is stored of it, what the readers of their streams are     *)
(* sent, and what a client reads that lists the messages by pages.         *)
(*                                                                         *)
(* A message is recorded in steps with an await between them: it gets its  *)
(* number, it is inserted, and the interaction that counts it is stored.   *)
(* Storing an interaction is two steps: its object is dumped, and the dump *)
(* is committed on a connection of its own, so that of two that are under  *)
(* way the older one may be the last.  How an interaction goes on is in    *)
(* FlyReportInteraction.                                                   *)
(***************************************************************************)
EXTENDS Integers, FiniteSets, Sequences, SequencesExt

CONSTANTS
  Interactions,
  MessagePage,   \* how many messages a page has
  MaxMessages,   \* bound: messages that are begun
  MaxTalkFaults  \* bound: writes that fail

ASSUME ConversationAssumption ==
  /\ IsFiniteSet(Interactions)
  /\ MessagePage \in Nat \ {0} /\ MaxMessages \in Nat /\ MaxTalkFaults \in Nat

VARIABLES
  open,       \* the session is there
  live,       \* _interactions: [status, count], or NoRow
  counted,    \* fly_report_interaction
  dumped,     \* what a writer awaits to be stored there, or NoRow
  sequence,   \* _message_sequences
  said,       \* _messages_by_session
  messages,   \* fly_report_message
  writer,     \* what writes messages of an interaction: its runner, a cancel
  shown,      \* messages that the reader of a stream was sent
  refused,    \* interactions whose cancel was answered with an error
  disturbed,  \* interactions with a write lost, or cut off by a restart
  renumbered, \* interactions that were there before a restart
  overlapped, \* interactions dumped last while an earlier dump was under way
  clock, talkFaults

talkVars == <<open, live, counted, dumped, sequence, said, messages, writer, shown,
              refused, disturbed, renumbered, overlapped, clock, talkFaults>>

Terminal == {"completed", "failed", "cancelled"}
Recorders == {"runner", "cancel"}
NoRow == [status |-> "none", count |-> 0]
NoMessage == [of |-> "none", seq |-> 0, time |-> 0]
Gone == [pc |-> "gone", message |-> NoMessage]

TalkInit ==
  /\ open = TRUE
  /\ live = [i \in Interactions |-> NoRow] /\ counted = live
  /\ dumped = [w \in Recorders |-> live]
  /\ sequence = [i \in Interactions |-> 0]
  /\ said = <<>> /\ messages = {}
  /\ writer = [w \in Recorders |-> [i \in Interactions |-> Gone]]
  /\ shown = {} /\ refused = {} /\ disturbed = {} /\ renumbered = {}
  /\ overlapped = {}
  /\ clock = 0 /\ talkFaults = 0

-----------------------------------------------------------------------------
(* Storing *)

\* A write for an interaction works, or does not.
Attempt(ok, i) ==
  /\ ~ok => talkFaults < MaxTalkFaults
  /\ talkFaults' = IF ok THEN talkFaults ELSE talkFaults + 1
  /\ disturbed' = IF ok THEN disturbed ELSE disturbed \cup {i}

\* _update_interaction, up to its await: the object is changed, and dumped.
Update(w, i, object) ==
  /\ live' = [live EXCEPT ![i] = object]
  /\ dumped' = [dumped EXCEPT ![w][i] = object]
  /\ overlapped' = IF \E v \in Recorders \ {w} : dumped[v][i] # NoRow
                   THEN overlapped \cup {i} ELSE overlapped \ {i}

\* _persist_interaction: what was dumped becomes the row, whatever the row has by
\* then; it may fail unnoticed, and does when the session is gone.
Commit(w, i) ==
  /\ dumped[w][i] # NoRow
  /\ dumped' = [dumped EXCEPT ![w][i] = NoRow]
  /\ \E ok \in BOOLEAN :
       /\ Attempt(ok, i)
       /\ counted' = IF ok /\ open THEN [counted EXCEPT ![i] = dumped[w][i]] ELSE counted
  /\ UNCHANGED <<open, live, sequence, said, messages, writer, shown, refused,
                 renumbered, overlapped, clock>>

\* Mutant: the number is that of the messages counted so far.
NumberByCount(i) == live[i].count + 1

\* The number of a message is counted in the process only.
NextNumber(i) == sequence[i] + 1

\* _record_interaction_message up to the insert.
Begin(w, i) ==
  LET message == [of |-> i, seq |-> NextNumber(i), time |-> clock + 1]
  IN /\ clock < MaxMessages /\ clock' = clock + 1
     /\ sequence' = [sequence EXCEPT ![i] = message.seq]
     /\ said' = Append(said, message)
     /\ writer' = [writer EXCEPT ![w][i] = [pc |-> "inserting", message |-> message]]

\* The row refers to the interaction's, and its number is unique.
Insertable(m) ==
  /\ open /\ counted[m.of] # NoRow
  /\ \A x \in messages : x.of = m.of => x.seq # m.seq

-----------------------------------------------------------------------------
(* Recording *)

\* What a writer has to say, it says when the interaction is stored.
Say(w, i) ==
  /\ writer[w][i].pc \in {"ready", "saying"} /\ dumped[w][i] = NoRow
  /\ Begin(w, i)
  /\ UNCHANGED <<open, live, counted, dumped, messages, shown, refused, disturbed,
                 renumbered, overlapped, talkFaults>>

\* append_message, and its message counted: when it raises, the request is answered
\* with an error or the runner ends; its error message is one of its messages.
Insert(w, i) ==
  LET message == writer[w][i].message
  IN /\ writer[w][i].pc = "inserting"
     /\ \E ok \in BOOLEAN :
          /\ Attempt(ok, i)
          /\ IF ok /\ Insertable(message)
             THEN /\ messages' = messages \cup {message}
                  /\ Update(w, i, [live[i] EXCEPT !.count = @ + 1])
                  /\ writer' = [writer EXCEPT ![w][i].pc = "counting"]
                  /\ UNCHANGED refused
             ELSE /\ \E pc \in IF w = "runner" THEN {"gone", "failing"} ELSE {"gone"} :
                       writer' = [writer EXCEPT ![w][i] = [Gone EXCEPT !.pc = pc]]
                  /\ refused' = IF w = "cancel" THEN refused \cup {i} ELSE refused
                  /\ UNCHANGED <<messages, live, dumped, overlapped>>
  /\ UNCHANGED <<open, counted, sequence, said, shown, renumbered, clock>>

\* Mutant: the message is sent before it is inserted.
DeliverFirst(w, i) ==
  /\ writer[w][i].pc = "inserting"
  /\ shown' = shown \cup {writer[w][i].message}
  /\ UNCHANGED <<open, live, counted, dumped, sequence, said, messages, writer, refused,
                 disturbed, renumbered, overlapped, clock, talkFaults>>

\* The interaction is stored with its count, and the message is sent: the
\* user's own is not, but nobody reads yet.
Deliver(w, i) ==
  /\ writer[w][i].pc = "counting" /\ dumped[w][i] = NoRow
  /\ shown' = IF writer[w][i].message.seq > 1 THEN shown \cup {writer[w][i].message}
              ELSE shown
  /\ writer' = [writer EXCEPT ![w][i] =
                  [Gone EXCEPT !.pc = IF w = "runner" THEN "ready" ELSE "gone"]]
  /\ UNCHANGED <<open, live, counted, dumped, sequence, said, messages, refused,
                 disturbed, renumbered, overlapped, clock, talkFaults>>

-----------------------------------------------------------------------------
(* Calls *)

\* A writer stores an object, and goes on then.
StoreRow(w, i, object, pc) ==
  /\ dumped[w][i] = NoRow
  /\ Update(w, i, object)
  /\ writer' = [writer EXCEPT ![w][i].pc = pc]
  /\ UNCHANGED <<open, counted, sequence, said, messages, shown, refused, disturbed,
                 renumbered, clock, talkFaults>>

\* start_streaming_message: the message of the user is next.
StartStreaming(i) ==
  /\ open /\ live[i] = NoRow /\ counted[i] = NoRow /\ i \notin disturbed
  /\ StoreRow("runner", i, [status |-> "pending", count |-> 0], "saying")

\* The runner begins or ends without looking at the status, fails and says so,
\* or ends with a cancelled interaction.
RunnerSets(i, s) ==
  /\ writer["runner"][i].pc \in {"ready", "failing"}
  /\ s # live[i].status
  /\ writer["runner"][i].pc = "failing" => s = "failed"
  /\ StoreRow("runner", i, [live[i] EXCEPT !.status = s],
           IF writer["runner"][i].pc = "failing" THEN "saying"
           ELSE IF s \in Terminal THEN "gone" ELSE "ready")

\* get_interaction: what is not in memory is loaded.
InteractionOf(i) == IF live[i] # NoRow THEN live[i] ELSE counted[i]

\* cancel_interaction: the status is stored, and a message is next.
Cancel(i) ==
  /\ writer["cancel"][i].pc = "gone"
  /\ InteractionOf(i) # NoRow /\ InteractionOf(i).status \notin Terminal
  /\ StoreRow("cancel", i, [InteractionOf(i) EXCEPT !.status = "cancelled"], "saying")

\* The rows go with the row of the session; the objects stay.
DropSession ==
  /\ open /\ open' = FALSE
  /\ messages' = {} /\ counted' = [i \in Interactions |-> NoRow]
  /\ UNCHANGED <<live, dumped, sequence, said, writer, shown, refused, disturbed,
                 renumbered, overlapped, clock, talkFaults>>

\* A writer between the number and the delivery of its message, and the
\* interactions that one is at work on, or one whose row may not be the last.
Recording(w, i) == writer[w][i].pc \in {"inserting", "counting"}
Cut == {i \in Interactions : \E w \in Recorders : Recording(w, i) \/ dumped[w][i] # NoRow}
         \cup overlapped

\* The process ends.  A write under way that is done nevertheless is done before.
TalkRestart ==
  /\ renumbered' = {i \in Interactions : counted[i] # NoRow}
  /\ renumbered' # renumbered
  /\ disturbed' = disturbed \cup Cut
  /\ live' = [i \in Interactions |-> NoRow]
  /\ dumped' = [w \in Recorders |-> live'] /\ overlapped' = {}
  /\ sequence' = [i \in Interactions |-> 0]
  /\ said' = <<>>
  /\ writer' = [w \in Recorders |-> [i \in Interactions |-> Gone]]
  /\ UNCHANGED <<open, counted, messages, shown, refused, clock, talkFaults>>

TalkNext ==
  \/ \E i \in Interactions :
       \/ StartStreaming(i) \/ Cancel(i)
       \/ \E s \in Terminal \cup {"streaming"} : RunnerSets(i, s)
       \/ \E w \in Recorders : Say(w, i) \/ Insert(w, i) \/ Commit(w, i) \/ Deliver(w, i)
  \/ DropSession \/ TalkRestart

TalkSpec == TalkInit /\ [][TalkNext]_talkVars

-----------------------------------------------------------------------------
(* list_messages *)

\* ORDER BY created_at
Earlier(m, set) == Cardinality({x \in set : x.time < m.time})
ByTime(set) ==
  [k \in 1 .. Cardinality(set) |-> CHOOSE m \in set : Earlier(m, set) = k - 1]

Clipped(seq) == SubSeq(seq, 1, IF Len(seq) < MessagePage THEN Len(seq) ELSE MessagePage)

\* The rows before the cursor, the oldest first; only if there are none, what
\* the process remembers, all of it when it does not know the cursor.
ListMessages(cursor) ==
  LET rows == {m \in messages : cursor = NoMessage \/ m.time < cursor.time}
      known == {k \in DOMAIN said : said[k] = cursor}
      before == IF known = {} THEN said
                ELSE SubSeq(said, 1, (CHOOSE k \in known : TRUE) - 1)
  IN Clipped(IF rows # {} THEN ByTime(rows) ELSE before)

\* The route: the cursor of the next page is the first message of a full one.
NextCursor(page) == IF Len(page) = MessagePage THEN page[1] ELSE NoMessage

-----------------------------------------------------------------------------
(* Properties *)

Of(i) == {m \in messages : m.of = i}
Quiet(i) == \A w \in Recorders : ~Recording(w, i)
Undisturbed(i) == open /\ i \notin disturbed

\* What a reader was sent is stored, as long as the session is: it can be read
\* again from the list.
ShownIsStored == open => shown \subseteq messages

\* A message is lost only if a write failed or was cut off, or if it is said
\* after a restart by an interaction from before: its numbers begin anew.  For
\* these reasons only is a cancel answered with an error, although it holds.
NothingUnsaid ==
  \A i \in Interactions : Undisturbed(i) /\ i \notin renumbered =>
    /\ i \notin refused
    /\ \A k \in DOMAIN said : said[k].of = i =>
         said[k] \in messages \/ \E w \in Recorders : writer[w][i].message = said[k]

\* While none of its messages is being recorded, an interaction counts those that
\* are stored of it, also when its runner and a cancel record side by side, and
\* after a restart.  Its row is the interaction and counts the same, when nothing
\* is to be stored there, unless the last dump overlapped an earlier one: then the
\* row may be the earlier one.
CountsAgree ==
  \A i \in Interactions : Undisturbed(i) /\ Quiet(i) =>
    /\ live[i] # NoRow => live[i].count = Cardinality(Of(i))
    /\ i \notin overlapped /\ (\A w \in Recorders : dumped[w][i] = NoRow) =>
         /\ counted[i].count = Cardinality(Of(i))
         /\ live[i] # NoRow => live[i] = counted[i]

\* Who lists the messages and goes on as long as there is a cursor reads the
\* oldest ones, each once, and then nothing: the list begins with the oldest
\* and the cursor leads back from there.  Not covered: what the process said
\* since it was restarted, and what it could not store, is what a page shows for
\* which there are no rows.
ListsTheOldest ==
  LET first == ListMessages(NoMessage)
      next == NextCursor(first)
  IN open /\ messages # {} /\ renumbered = {} /\ disturbed = {}
       /\ (\A i \in Interactions : Quiet(i)) =>
       /\ Range(first) \subseteq messages
       /\ \A m \in messages : m \notin Range(first) =>
            \A x \in Range(first) : x.time < m.time
       /\ next # NoMessage => ListMessages(next) = <<>>

\* What a client is shown of the session's messages, as they come and later from
\* the list, is what is kept of them: the four parts above.
TalkIsKept == ShownIsStored /\ NothingUnsaid /\ CountsAgree /\ ListsTheOldest
=============================================================================
