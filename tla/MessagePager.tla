---------------------------- MODULE MessagePager ----------------------------
(***************************************************************************)
(* The stored messages a web client shows for a session: loadMessagePage   *)
(* of App.tsx, the effects that call it and the handlers that do.          *)
(*                                                                         *)
(* Pages are asked for by offset, newest first, and put before the ones    *)
(* shown; the messages' tool calls are fetched after each page.  Both are  *)
(* awaited, and what they bring is put on the screen whatever has happened *)
(* since.  An effect looks for another page whenever the screen has        *)
(* changed and the messages fit without a scroll bar.  Effects see the     *)
(* state of the render they belong to: when a session is selected, what is *)
(* shown, the offset and the flags are still those of the session before.  *)
(*                                                                         *)
(* A message is its session and the time it bears there, created_at.  The  *)
(* time is taken before the message is stored, so of several requests one  *)
(* may store a message that is older than others the client has read; that *)
(* shifts the offsets, as new messages do.  What the client shows of a run *)
(* while it is streamed is in WebChat.  The window keeps its size.         *)
(***************************************************************************)
EXTENDS Integers, FiniteSets, SequencesExt

CONSTANTS
  Sessions,
  PageSize,    \* CHAT_PAGE_SIZE
  MaxMessages, \* bound of the model: times a session's messages may bear
  MaxFailures  \* bound of the model: requests that fail

ASSUME PagerAssumption ==
  /\ Sessions # {} /\ PageSize \in Nat \ {0}
  /\ MaxMessages \in Nat /\ MaxFailures \in Nat

VARIABLES
  rows,     \* the times of the messages stored for each session
  view,     \* activeSessionId
  shown,    \* persistedMessages
  logs,     \* the messages whose tool calls were loaded: persistedToolCalls
  offset,   \* messagesOffset
  hasMore,  \* hasMoreMessages
  loading,  \* loadingOlderMessages
  fits,     \* the messages fit into their container
  fetches,  \* the calls of loadMessagePage that are waiting
  failures, \* requests that have failed
  hasty,    \* history: this session was selected while a call was waiting
  late      \* history: times its messages came for when they were passed

screen == <<shown, logs, offset, hasMore, loading, fits>>
vars == <<rows, view, screen, fetches, failures, hasty, late>>

Times == 1..MaxMessages

Message(s, t) == [session |-> s, at |-> t]

\* The place of a message, counted from the newest.
Newer(times, t) == Cardinality({u \in times : u > t})

\* A call of loadMessagePage: first for the page, then for its tool calls.
Fetch(s, off, reset) ==
  [session |-> s, offset |-> off, reset |-> reset, waitsFor |-> "page",
   page |-> <<>>]

\* MessageRepo.list_by_session, descending, turned around by the client: the
\* messages that have at least off newer ones, PageSize of them at the most.
Page(s, off) ==
  LET left == IF Cardinality(rows[s]) > off THEN Cardinality(rows[s]) - off ELSE 0
      size == IF left < PageSize THEN left ELSE PageSize
  IN [i \in 1..size |->
        Message(s, CHOOSE t \in rows[s] : Newer(rows[s], t) = off + size - i)]

Init ==
  /\ rows \in [Sessions -> SUBSET Times]
  /\ view \in Sessions
  /\ shown = <<>> /\ logs = {}
  /\ offset = 0 /\ hasMore = TRUE
  /\ loading = TRUE
  /\ fits = TRUE
  /\ fetches = <<Fetch(view, 0, TRUE)>>
  /\ failures = 0
  /\ hasty = FALSE /\ late = {}

-----------------------------------------------------------------------------

\* The effect on activeSessionId, hasMoreMessages, loadingOlderMessages and the
\* number of messages, after a handler has left the loading flag as l and the
\* calls fs waiting: one more page while there is room.
AutoLoad(l, fs) ==
  LET changed == <<hasMore', l, Len(shown')>> # <<hasMore, loading, Len(shown)>>
      again == changed /\ ~l /\ hasMore' /\ shown' # <<>> /\ fits'
  IN /\ loading' = (l \/ again)
     /\ fetches' = IF again THEN Append(fs, Fetch(view, offset', FALSE)) ELSE fs

\* Mutant of MoreAfter: a full page is taken for the last one.
MoreAfterShortPage(f) == Len(f.page) < PageSize

\* A full page promises another one.
MoreAfter(f) == Len(f.page) = PageSize

Answered == {f \in ToSet(fetches) : f.waitsFor = "client"}

\* What the client has read of the session: it is shown or on its way to it.
Read == ToSet(shown) \cup UNION {ToSet(f.page) : f \in Answered}

\* The client has read an older message, or all it will read.
Passed(t) ==
  \/ \E m \in Read : m.at < t
  \/ ~hasMore \/ \E f \in Answered : ~MoreAfter(f)

\* A message is stored, at a time that may lie before that of others.
NewMessage(s, t) ==
  /\ t \notin rows[s]
  /\ rows' = [rows EXCEPT ![s] = @ \cup {t}]
  /\ late' = IF s = view /\ Passed(t) THEN late \cup {t} ELSE late
  /\ UNCHANGED <<view, screen, fetches, failures, hasty>>

\* Mutant of Select: the effect that clears the screen is missing.
SelectUncleared(s) ==
  /\ s # view
  /\ view' = s
  /\ hasty' = (fetches # <<>>)
  /\ late' = {}
  /\ fetches' = IF loading THEN fetches ELSE Append(fetches, Fetch(s, 0, FALSE))
  /\ loading' = TRUE
  /\ UNCHANGED <<rows, shown, logs, offset, hasMore, fits, failures>>

\* Three effects of one render: the screen is cleared, the first page asked
\* for, and another one if those shown before fit; no page is asked for while
\* a call is waiting.
Select(s) ==
  /\ s # view
  /\ view' = s
  /\ hasty' = (fetches # <<>>)
  /\ late' = {}
  /\ shown' = <<>> /\ logs' = {}
  /\ offset' = 0 /\ hasMore' = TRUE
  /\ fits' = TRUE
  /\ fetches' = fetches
       \o (IF loading THEN <<>> ELSE <<Fetch(s, 0, TRUE)>>)
       \o (IF ~loading /\ hasMore /\ shown # <<>> /\ fits
           THEN <<Fetch(s, offset, FALSE)>> ELSE <<>>)
  /\ loading' = TRUE
  /\ UNCHANGED <<rows, failures>>

\* onChatMessagesScroll near the top.
Scroll ==
  /\ hasMore /\ ~loading
  /\ fetches' = Append(fetches, Fetch(view, offset, FALSE))
  /\ loading' = TRUE
  /\ UNCHANGED <<rows, view, shown, logs, offset, hasMore, fits, failures, hasty,
                 late>>

\* The server reads the page.
Answer(i) ==
  /\ fetches[i].waitsFor = "page"
  /\ fetches' = [fetches EXCEPT
       ![i].page = Page(fetches[i].session, fetches[i].offset),
       ![i].waitsFor = "client"]
  /\ UNCHANGED <<rows, view, screen, failures, hasty, late>>

\* Mutant of NextOffset: the next page leaves one message out.
OffsetBehindNext(f) == f.offset + Len(f.page) + 1

\* Mutant of NextOffset: the next page starts where this one did.
OffsetUnmoved(f) == f.offset

NextOffset(f) == f.offset + Len(f.page)

\* Older messages come first.
Extended(f) == IF f.reset THEN f.page ELSE f.page \o shown

\* The page is put on the screen.  If tool calls of its messages are still
\* to be loaded the call waits once more, else it is over.
Apply(i) ==
  LET f == fetches[i]
      toLoad == SelectSeq(f.page, LAMBDA m : m \notin logs)
  IN /\ f.waitsFor = "client"
     /\ shown' = Extended(f)
     /\ offset' = NextOffset(f)
     /\ hasMore' = MoreAfter(f)
     /\ fits' \in IF shown' = shown THEN {fits} ELSE BOOLEAN
     /\ IF toLoad = <<>>
        THEN AutoLoad(FALSE, RemoveAt(fetches, i))
        ELSE AutoLoad(loading, [fetches EXCEPT ![i].page = toLoad,
                                               ![i].waitsFor = "tools"])
  /\ UNCHANGED <<rows, view, logs, failures, hasty, late>>

\* loadToolCallsForMessages: what it brings is merged.
ToolCalls(i) ==
  /\ fetches[i].waitsFor = "tools"
  /\ logs' = logs \cup {fetches[i].page[j] : j \in 1..Len(fetches[i].page)}
  /\ UNCHANGED <<shown, offset, hasMore, fits>>
  /\ AutoLoad(FALSE, RemoveAt(fetches, i))
  /\ UNCHANGED <<rows, view, failures, hasty, late>>

\* Mutant of Fail: the loading flag is only cleared by a success.
FailLoading(i) ==
  /\ failures < MaxFailures
  /\ failures' = failures + 1
  /\ fetches' = RemoveAt(fetches, i)
  /\ UNCHANGED <<rows, view, screen, hasty, late>>

\* Either request may fail; what was shown stays.
Fail(i) ==
  /\ fetches[i].waitsFor # "client"
  /\ failures < MaxFailures
  /\ failures' = failures + 1
  /\ UNCHANGED <<shown, logs, offset, hasMore, fits>>
  /\ AutoLoad(FALSE, RemoveAt(fetches, i))
  /\ UNCHANGED <<rows, view, hasty, late>>

Step(i) == Answer(i) \/ Apply(i) \/ ToolCalls(i) \/ Fail(i)

Next ==
  \/ Scroll
  \/ \E s \in Sessions : Select(s) \/ \E t \in Times : NewMessage(s, t)
  \/ \E i \in 1..Len(fetches) : Step(i)

Spec == Init /\ [][Next]_vars

\* Requests are answered or fail, and their handlers run.
FairSpec == Spec /\ WF_vars(\E i \in 1..Len(fetches) : Step(i))

-----------------------------------------------------------------------------

\* Once a session was selected with nothing on its way, its screen holds its
\* own messages only, whatever happened before.
OwnMessages == ~hasty => \A i \in 1..Len(shown) : shown[i].session = view

\* The messages neither shown nor late.
Missing == {t \in rows[view] \ late : Message(view, t) \notin ToSet(shown)}

\* What is not shown is older than all that is, whatever is stored while pages
\* are loaded and however often their offsets shift; only a message stored when
\* the client had read an older one may be left out.
NoGap ==
  ~hasty => \A t \in Missing, i \in 1..Len(shown) : t < shown[i].at

\* Unless a message came late, those shown are in order and none is shown twice.
NoRepeat ==
  (~hasty /\ late = {}) =>
    \A i, j \in 1..Len(shown) : i < j => shown[i].at < shown[j].at

\* When the client believes there is no older message, all are shown but those
\* that came late.
AllShown ==
  (~hasty /\ ~hasMore) => Missing = {}

\* The client does not load forever: with the requests that fail bounded, the
\* effect that loads while there is room comes to rest.
LoadingEnds == loading ~> ~loading

=============================================================================
