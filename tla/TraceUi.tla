------------------------------- MODULE TraceUi -------------------------------
(***************************************************************************)
(* app.js, the single-page trace viewer: a hash router, four views written *)
(* into one element by asynchronous functions, and a toast.                *)
(*                                                                         *)
(* JavaScript runs one task at a time, so an action is a task: a hash      *)
(* event, a click, or what an async function does from one await to the    *)
(* next. Between two tasks of one renderer any other task may run, and the *)
(* answers of different requests come back in any order. What an answer    *)
(* says is the server's choice; of the data only its kind is kept.         *)
(***************************************************************************)
EXTENDS Naturals, FiniteSets

CONSTANTS
  Ids,        \* execution ids
  MaxSent,    \* bound: requests in one behaviour
  MaxMoves    \* bound: changes of the address by the user

ASSUME UiAssumption == MaxSent \in Nat /\ MaxMoves \in Nat

VARIABLES
  hash,       \* location.hash
  events,     \* hashchange (and DOMContentLoaded) events that were not handled yet
  view,       \* what the element #view shows
  nav,        \* the highlighted navigation link
  calls,      \* async functions that wait for an answer
  sent,       \* how many renderers and requests were started: numbers the calls
  toast,      \* the call whose message is shown, 0 when hidden
  timers,     \* running timers, each with the call it was set for
  moves,      \* bounds the user
  settled,    \* history: the latest renderer that has written its view
  overtaken   \* history: some renderer wrote its view after a later one had

page  == <<hash, events, view, nav>>
tips  == <<toast, timers>>
hist  == <<settled, overtaken>>
vars  == <<page, calls, sent, tips, moves, hist>>

(***************************************************************************)
(* An address is what split('/') makes of it. "diff?" stands for a first   *)
(* segment with a query after it, the form the compare button produces:    *)
(* the segment then is not 'diff'. "diff" with two ids is #/diff/?a=..&b=..*)
(***************************************************************************)
Hash == [base : {"traces", "graph", "diff", "other"}, rest : {<< >>}]
          \cup [base : {"traces"}, rest : {<<i>> : i \in Ids}]
          \cup [base : {"diff", "diff?"}, rest : Ids \X Ids]

\* route: which renderer an address starts.
RouteOf(h) ==
  CASE h.base = "traces" /\ h.rest # << >> -> "trace"
    [] h.base = "graph"                    -> "graph"
    [] h.base = "diff"                     -> "diff"
    [] OTHER                               -> "list"

\* setActiveNav: the list and one trace share a link.
NavOf(kind) == IF kind = "trace" THEN "list" ELSE kind

Kinds  == {"list", "trace", "graph", "diff"}
Shown  == {"loading", "failed", "notFound", "empty", "data"}
Result == {"none", "loading", "failed", "notFound", "data"}

\* What a view is of: one trace, or nothing in particular.
Subject == {<< >>} \cup {<<i>> : i \in Ids}

View == [kind : Kinds, of : Subject, shows : Shown, panel : BOOLEAN, result : Result]

NewView(kind, of, shows) ==
  [kind |-> kind, of |-> of, shows |-> shows, panel |-> FALSE, result |-> "none"]

\* An async function at its await: what it is to write, and for a diff whether
\* the element it writes into is still part of the page.
Call == [n : Nat, does : Kinds \cup {"replay"}, of : Subject \cup (Ids \X Ids),
         stage : {"first", "summaries"}, attached : BOOLEAN]

Renders(c) == c.does \in {"list", "trace", "graph"}

NewCall(does, of) ==
  [n |-> sent + 1, does |-> does, of |-> of, stage |-> "first", attached |-> TRUE]

\* Assigning view.innerHTML detaches the element that pending diffs write into.
Detached(cs) == {IF c.does = "diff" THEN [c EXCEPT !.attached = FALSE] ELSE c : c \in cs}

-----------------------------------------------------------------------------
Init ==
  /\ hash \in Hash
  /\ events = 1
  /\ view = NewView("list", << >>, "empty")
  /\ nav = "list"
  /\ calls = {}
  /\ sent = 0
  /\ toast = 0
  /\ timers = {}
  /\ moves = 0
  /\ settled = 0
  /\ overtaken = FALSE

\* renderTraceList, renderTrace and renderGraph up to their await.
Render(kind, of) ==
  /\ view' = NewView(kind, of, "loading")
  /\ calls' = Detached(calls) \cup {NewCall(kind, of)}
  /\ sent' = sent + 1
  /\ UNCHANGED settled

\* renderDiff: a form, and at once a diff when the address names two traces.
RenderDiff(of) ==
  /\ view' = [NewView("diff", << >>, "data") EXCEPT
                !.result = IF of = << >> THEN "none" ELSE "loading"]
  /\ calls' = Detached(calls) \cup (IF of = << >> THEN {} ELSE {NewCall("diff", of)})
  /\ sent' = sent + 1
  /\ settled' = sent + 1

\* Wrong: a renderer is started only when the view changes.
HashChangeOtherView ==
  LET kind == RouteOf(hash)
  IN  /\ events > 0 /\ sent < MaxSent
      /\ events' = events - 1
      /\ nav' = NavOf(kind)
      /\ IF kind = "diff" THEN RenderDiff(hash.rest)
         ELSE IF kind = view.kind /\ view.shows # "empty"
         THEN UNCHANGED <<view, calls, sent, settled>>
         ELSE Render(kind, IF kind = "trace" THEN hash.rest ELSE << >>)
      /\ UNCHANGED <<hash, tips, moves, overtaken>>

\* route, on hashchange: reads the address as it is now, not as it was when
\* the event was queued.
HashChange ==
  LET kind == RouteOf(hash)
  IN  /\ events > 0 /\ sent < MaxSent
      /\ events' = events - 1
      /\ nav' = NavOf(kind)
      /\ IF kind = "diff" THEN RenderDiff(hash.rest)
         ELSE Render(kind, IF kind = "trace" THEN hash.rest ELSE << >>)
      /\ UNCHANGED <<hash, tips, moves, overtaken>>

\* A link, a row of the list, the address bar. The event comes later, and
\* only when the address is another one.
GoTo(h) ==
  /\ moves < MaxMoves
  /\ h # hash
  /\ hash' = h
  /\ events' = events + 1
  /\ moves' = moves + 1
  /\ UNCHANGED <<view, nav, calls, sent, tips, settled, overtaken>>

\* The compare button: changes the address and starts the diff in the same task.
\* The address is one that route takes for the list, which is what remains.
Compare(a, b) ==
  /\ view.kind = "diff"
  /\ moves < MaxMoves /\ sent < MaxSent
  /\ LET h == [base |-> "diff?", rest |-> <<a, b>>]
     IN  /\ hash' = h
         /\ events' = IF h = hash THEN events ELSE events + 1
  /\ view' = [view EXCEPT !.result = "loading"]
  /\ calls' = calls \cup {NewCall("diff", <<a, b>>)}
  /\ sent' = sent + 1
  /\ moves' = moves + 1
  /\ UNCHANGED <<nav, tips, settled, overtaken>>

\* A step row: the side panel of the trace on display.
SelectStep ==
  /\ view.kind = "trace" /\ view.shows = "data"
  /\ view' = [view EXCEPT !.panel = TRUE]
  /\ UNCHANGED <<hash, events, nav, calls, sent, tips, moves, hist>>

\* A replay button posts for the trace of the view it is on.
Replay ==
  /\ view.kind = "trace" /\ view.shows = "data"
  /\ sent < MaxSent
  /\ calls' = calls \cup {NewCall("replay", view.of)}
  /\ sent' = sent + 1
  /\ UNCHANGED <<page, tips, moves, hist>>

-----------------------------------------------------------------------------
\* A renderer writes the view it was called for, whatever is shown by now.
WriteView(c, shows) ==
  /\ view' = NewView(c.does, c.of, shows)
  /\ calls' = Detached(calls \ {c})
  /\ settled' = IF c.n > settled THEN c.n ELSE settled
  /\ overtaken' = (overtaken \/ c.n < settled)
  /\ UNCHANGED <<hash, events, nav, sent, tips, moves>>

\* The ids have come: the list asks for a summary of each.
ListAnswered(c) ==
  /\ c.does = "list" /\ c.stage = "first"
  /\ \/ WriteView(c, "empty")
     \/ /\ calls' = (calls \ {c}) \cup {[c EXCEPT !.stage = "summaries"]}
        /\ UNCHANGED <<page, sent, tips, moves, hist>>

\* allSettled: summaries that failed leave a dash in their row.
SummariesAnswered(c) ==
  /\ c.does = "list" /\ c.stage = "summaries"
  /\ WriteView(c, "data")

TraceAnswered(c) == c.does = "trace" /\ \E s \in {"data", "notFound"} : WriteView(c, s)

\* renderGraph shows whichever of its two answers it got.
GraphAnswered(c) == c.does = "graph" /\ WriteView(c, "data")

\* Wrong: the handler returns before it writes the message.
RequestFailsSilently(c) ==
  /\ \/ c.does = "list" /\ c.stage = "first"
     \/ c.does = "trace"
  /\ calls' = calls \ {c}
  /\ UNCHANGED <<page, sent, tips, moves, hist>>

\* The catch of renderTraceList and renderTrace.
RequestFails(c) ==
  /\ \/ c.does = "list" /\ c.stage = "first"
     \/ c.does = "trace"
  /\ WriteView(c, "failed")

\* loadDiff writes into the element it found when it started.
DiffAnswered(c) ==
  /\ c.does = "diff"
  /\ \E r \in {"data", "notFound", "failed"} :
       view' = IF c.attached THEN [view EXCEPT !.result = r] ELSE view
  /\ calls' = calls \ {c}
  /\ UNCHANGED <<hash, events, nav, sent, tips, moves, hist>>

\* Wrong: the timer of the message before keeps running.
ShowToastOverTimer(n) ==
  /\ toast' = n
  /\ timers' = timers \cup {n}

\* showToast: the timer of the message before is cleared.
ShowToast(n) ==
  /\ toast' = n
  /\ timers' = {n}

\* A replay was answered, with an id or with an error: either is a message.
ReplayAnswered(c) ==
  /\ c.does = "replay"
  /\ calls' = calls \ {c}
  /\ ShowToast(c.n)
  /\ UNCHANGED <<page, sent, moves, hist>>

ToastEnds(t) ==
  /\ t \in timers
  /\ toast' = 0
  /\ timers' = timers \ {t}
  /\ UNCHANGED <<page, calls, sent, moves, hist>>

Answered(c) ==
  \/ ListAnswered(c)
  \/ SummariesAnswered(c)
  \/ TraceAnswered(c)
  \/ GraphAnswered(c)
  \/ RequestFails(c)
  \/ DiffAnswered(c)
  \/ ReplayAnswered(c)

SomeAnswer == \E c \in calls : Answered(c)

Next ==
  \/ HashChange
  \/ \E h \in Hash : GoTo(h)
  \/ \E a, b \in Ids : Compare(a, b)
  \/ SelectStep
  \/ Replay
  \/ SomeAnswer
  \/ \E t \in timers : ToastEnds(t)

\* Every request is answered or fails, if only because the browser gives up.
Spec == Init /\ [][Next]_vars /\ WF_vars(SomeAnswer)

-----------------------------------------------------------------------------
\* Type correctness: calls have their own numbers and timers belong to replays.
TypeOK ==
  /\ hash \in Hash
  /\ events \in 0..(MaxMoves + 1)
  /\ view \in View
  /\ nav \in Kinds \ {"trace"}
  /\ calls \subseteq Call
  /\ \A c \in calls : c.n \in 1..sent
  /\ \A c, d \in calls : c.n = d.n => c = d
  /\ sent \in 0..MaxSent
  /\ toast \in 0..sent
  /\ timers \subseteq 1..sent
  /\ Cardinality(timers) <= 1
  /\ settled \in 0..sent

\* Nothing is queued and no renderer waits.
Quiet == events = 0 /\ \A c \in calls : ~Renders(c)

\* When nothing is pending, the page shows what its address asks for, unless
\* the answer to an earlier request came after the answer to a later one (the
\* one way route and the renderers can disagree: none of them looks at the
\* address again after its await). The highlighted link is right even then.
StaleOnlyIfOvertaken ==
  Quiet => /\ nav = NavOf(RouteOf(hash))
           /\ ~overtaken => /\ view.kind = RouteOf(hash)
                            /\ view.kind = "trace" => view.of = hash.rest

\* A view that says it is loading changes: every path of a renderer ends in a write.
LoadingEnds == (view.shows = "loading") ~> (view.shows # "loading")

\* A message is hidden by the timer set for it and no other.
ToastStaysItsTime ==
  [][toast # 0 /\ toast' = 0 => toast \in timers /\ toast \notin timers']_tips
=============================================================================
