--------------------------- MODULE TraceUi_proofs ---------------------------
(***************************************************************************)
(* What is proved of the trace viewer, for any set of ids and any bounds:  *)
(* the types, that a message is hidden by its own timer, and that a page   *)
(* on which nothing is pending is stale only if answers overtook one       *)
(* another.                                                                *)
(***************************************************************************)
EXTENDS TraceUi, FiniteSetTheorems, TLAPS

(* A set of calls that is in order: each has a number of its own among     *)
(* those that were given, and is about what its renderer is about.         *)
InOrder(cs, last) ==
  /\ cs \subseteq Call
  /\ \A c \in cs : c.n \in 1 .. last
  /\ \A c, d \in cs : c.n = d.n => c = d
  /\ \A c \in cs : /\ c.does \in {"list", "graph"} => c.of = << >>
                   /\ c.does = "trace" => c.of \in Subject

PageInv == hash \in Hash /\ view \in View /\ nav \in Kinds \ {"trace"}

CallInv == sent \in 0 .. MaxSent /\ settled \in 0 .. sent /\ InOrder(calls, sent)

(* Every change of the address is followed by at most one event.           *)
EventInv == events \in Nat /\ moves \in 0 .. MaxMoves /\ events <= moves + 1

(* The one timer that runs is that of the message on display.              *)
ToastInv == toast \in 0 .. sent /\ timers \subseteq {toast} /\ 0 \notin timers

UiInv == PageInv /\ CallInv /\ EventInv /\ ToastInv

(* A pending renderer that writes what the address asks for.               *)
Asked(c) == /\ Renders(c)
            /\ c.does = RouteOf(hash)
            /\ c.does = "trace" => c.of = hash.rest

(* It is the last renderer that was started, so that it has not been       *)
(* overtaken by another.                                                   *)
Last(c) == settled < c.n /\ \A d \in calls : Renders(d) => d.n <= c.n

AsAsked == view.kind = RouteOf(hash) /\ (view.kind = "trace" => view.of = hash.rest)

(* Once every event is handled, what the address asks for is on display or *)
(* on its way, and nothing on its way is later.                            *)
LatestInv ==
  events = 0 =>
    /\ nav = NavOf(RouteOf(hash))
    /\ ~overtaken => \/ \E c \in calls : Asked(c) /\ Last(c)
                     \/ AsAsked /\ \A d \in calls : Renders(d) => d.n < settled

-----------------------------------------------------------------------------
(* Calls                                                                   *)

Detach(c) == IF c.does = "diff" THEN [c EXCEPT !.attached = FALSE] ELSE c

(* To detach a call changes nothing but whether it is attached.            *)
LEMMA DetachKeeps ==
  ASSUME NEW c \in Call
  PROVE  /\ Detach(c) \in Call
         /\ Detach(c).n = c.n /\ Detach(c).does = c.does /\ Detach(c).of = c.of
         /\ Renders(c) => Detach(c) = c
  BY DEF Detach, Call, Renders

(* Detached applies it to every call.                                      *)
LEMMA DetachedIsDetach == \A cs : Detached(cs) = {Detach(c) : c \in cs}
  BY DEF Detached, Detach

(* Detaching leaves calls in order.                                        *)
LEMMA DetachedInOrder ==
  ASSUME NEW last \in Nat, NEW cs, InOrder(cs, last)
  PROVE  InOrder(Detached(cs), last)
<1>1. cs \subseteq Call
  BY DEF InOrder
<1>2. ASSUME NEW d \in Detached(cs) PROVE \E c \in cs : d = Detach(c)
  BY DetachedIsDetach
<1>3. Detached(cs) \subseteq Call
  BY <1>1, <1>2, DetachKeeps
<1>4. \A d \in Detached(cs) : d.n \in 1 .. last
  BY <1>1, <1>2, DetachKeeps DEF InOrder
<1>5. ASSUME NEW d \in Detached(cs), NEW e \in Detached(cs), d.n = e.n PROVE d = e
  <2>1. PICK c \in cs : d = Detach(c)
    BY <1>2
  <2>2. PICK b \in cs : e = Detach(b)
    BY <1>2
  <2>3. c.n = b.n
    BY <1>1, <1>5, <2>1, <2>2, DetachKeeps
  <2> QED
    BY <2>1, <2>2, <2>3 DEF InOrder
<1>6. ASSUME NEW d \in Detached(cs)
      PROVE  /\ d.does \in {"list", "graph"} => d.of = << >>
             /\ d.does = "trace" => d.of \in Subject
  <2>1. PICK c \in cs : d = Detach(c)
    BY <1>2
  <2>2. d.does = c.does /\ d.of = c.of
    BY <1>1, <2>1, DetachKeeps
  <2> QED
    BY <2>2 DEF InOrder
<1> QED
  BY <1>3, <1>4, <1>5, <1>6 DEF InOrder

(* And has the renderers it had.                                           *)
LEMMA DetachedRenderers ==
  ASSUME NEW cs \in SUBSET Call, NEW c, Renders(c)
  PROVE  c \in Detached(cs) <=> c \in cs
<1>1. ASSUME c \in cs PROVE c \in Detached(cs)
  <2>1. c \in Call
    BY <1>1
  <2>2. Detach(c) = c
    BY <2>1, DetachKeeps
  <2> QED
    BY <1>1, <2>2, DetachedIsDetach
<1>2. ASSUME c \in Detached(cs) PROVE c \in cs
  <2>1. PICK b \in cs : c = Detach(b)
    BY <1>2, DetachedIsDetach
  <2>2. b \in Call
    BY <2>1
  <2>3. Renders(b)
    BY <2>1, <2>2, DetachKeeps DEF Renders
  <2> QED
    BY <2>1, <2>2, <2>3, DetachKeeps
<1> QED
  BY <1>1, <1>2

(* So does dropping calls, and numbers that nobody has yet.                *)
LEMMA FewerInOrder ==
  ASSUME NEW last \in Nat, NEW more \in Nat, last <= more, NEW cs, InOrder(cs, last),
         NEW ds \in SUBSET cs
  PROVE  InOrder(ds, more)
  BY DEF InOrder

(* A new call has the next number.                                         *)
LEMMA OneMoreInOrder ==
  ASSUME NEW last \in Nat, NEW cs, InOrder(cs, last), NEW c \in Call, c.n = last + 1,
         c.does \in {"list", "graph"} => c.of = << >>,
         c.does = "trace" => c.of \in Subject
  PROVE  InOrder(cs \union {c}, last + 1)
  BY DEF InOrder

(* An answer that leads to further requests leaves the call its number.    *)
LEMMA StageInOrder ==
  ASSUME NEW last \in Nat, NEW cs, InOrder(cs, last), NEW c \in cs
  PROVE  /\ [c EXCEPT !.stage = "summaries"] \in Call
         /\ InOrder((cs \ {c}) \union {[c EXCEPT !.stage = "summaries"]}, last)
<1> DEFINE d == [c EXCEPT !.stage = "summaries"]
<1>1. d \in Call /\ d.n = c.n /\ d.does = c.does /\ d.of = c.of
  BY DEF InOrder, Call
<1> HIDE DEF d
<1> QED
  BY <1>1 DEF InOrder, d

-----------------------------------------------------------------------------
(* Types                                                                   *)

(* The invariant says more than the types.                                 *)
LEMMA UiInvTypes == UiInv => TypeOK
<1> SUFFICES ASSUME UiInv PROVE TypeOK
  OBVIOUS
<1>1. Cardinality(timers) <= 1
  <2>1. timers = {} \/ timers = {toast}
    BY DEF UiInv, ToastInv
  <2>2. Cardinality({}) = 0 /\ Cardinality({toast}) = 1
    BY FS_EmptySet, FS_Singleton
  <2> QED
    BY <2>1, <2>2
<1> USE UiAssumption DEF UiInv, PageInv, CallInv, EventInv, ToastInv
<1>2. timers \subseteq 1 .. sent
  OBVIOUS
<1>3. events \in 0 .. MaxMoves + 1
  OBVIOUS
<1> QED
  BY <1>1, <1>2, <1>3 DEF TypeOK, InOrder

(* What an address asks for.                                               *)
LEMMA RouteType ==
  ASSUME hash \in Hash
  PROVE  /\ RouteOf(hash) \in Kinds
         /\ RouteOf(hash) = "trace" => hash.rest \in Subject
         /\ RouteOf(hash) = "diff" => hash.rest \in Subject \union (Ids \X Ids)
         /\ NavOf(RouteOf(hash)) \in Kinds \ {"trace"}
<1>1. RouteOf(hash) = "trace" => hash.base = "traces" /\ hash.rest # << >>
  BY DEF RouteOf
<1>2. RouteOf(hash) \in Kinds
  BY DEF RouteOf, Kinds
<1>3. hash.rest \in Subject \union (Ids \X Ids)
  BY DEF Hash, Subject
<1>4. hash.base = "traces" => hash.rest \in Subject
  BY DEF Hash, Subject
<1>5. NavOf(RouteOf(hash)) \in Kinds \ {"trace"}
  BY <1>2 DEF NavOf, Kinds
<1> QED
  BY <1>1, <1>2, <1>3, <1>4, <1>5

(* Views and calls as they are made.                                       *)
LEMMA NewViewType ==
  ASSUME NEW kind \in Kinds, NEW of \in Subject, NEW shows \in Shown
  PROVE  /\ NewView(kind, of, shows) \in View
         /\ NewView(kind, of, shows).kind = kind /\ NewView(kind, of, shows).of = of
  BY DEF NewView, View, Result

(* A new call is a call with the next number.                              *)
LEMMA NewCallType ==
  ASSUME sent \in Nat, NEW does \in Kinds \union {"replay"}, NEW of \in Subject \union (Ids \X Ids)
  PROVE  /\ NewCall(does, of) \in Call
         /\ NewCall(does, of).n = sent + 1
         /\ NewCall(does, of).does = does /\ NewCall(does, of).of = of
  BY DEF NewCall, Call

(* At first.                                                               *)
LEMMA UiInvInit == Init => UiInv
<1> SUFFICES ASSUME Init PROVE UiInv
  OBVIOUS
<1>1. view \in View
  BY NewViewType DEF Init, Kinds, Shown, Subject
<1> QED
  BY <1>1, UiAssumption
  DEF Init, UiInv, PageInv, CallInv, EventInv, ToastInv, InOrder, Kinds

(* A renderer that starts leaves the page and the calls in order.          *)
LEMMA RenderKeepsUiInv ==
  ASSUME UiInv, NEW kind \in Kinds \ {"diff"}, NEW of \in Subject,
         kind # "trace" => of = << >>,
         sent < MaxSent, Render(kind, of)
  PROVE  view' \in View /\ CallInv'
<1> USE UiAssumption DEF UiInv, CallInv
<1>1. view' \in View
  BY NewViewType DEF Render, Shown
<1>2. InOrder(Detached(calls), sent)
  BY DetachedInOrder
<1>3. NewCall(kind, of) \in Call /\ NewCall(kind, of).n = sent + 1
      /\ NewCall(kind, of).does = kind /\ NewCall(kind, of).of = of
  BY NewCallType
<1>4. InOrder(Detached(calls) \union {NewCall(kind, of)}, sent + 1)
  BY <1>2, <1>3, OneMoreInOrder
<1> QED
  BY <1>1, <1>4 DEF Render

(* So does the form for a diff.                                            *)
LEMMA RenderDiffKeepsUiInv ==
  ASSUME UiInv, NEW of \in Subject \union (Ids \X Ids), sent < MaxSent, RenderDiff(of)
  PROVE  view' \in View /\ view'.kind = "diff" /\ CallInv'
<1> USE UiAssumption DEF UiInv, CallInv
<1>1. view' \in View /\ view'.kind = "diff"
  <2>1. NewView("diff", << >>, "data") \in View /\ NewView("diff", << >>, "data").kind = "diff"
    BY NewViewType DEF Kinds, Shown, Subject
  <2> QED
    BY <2>1 DEF RenderDiff, View, Result
<1>2. InOrder(Detached(calls), sent)
  BY DetachedInOrder
<1>3. InOrder(Detached(calls), sent + 1)
  BY <1>2, FewerInOrder
<1>4. NewCall("diff", of) \in Call /\ NewCall("diff", of).n = sent + 1
      /\ NewCall("diff", of).does = "diff"
  BY NewCallType DEF Kinds
<1>5. InOrder(Detached(calls) \union {NewCall("diff", of)}, sent + 1)
  BY <1>2, <1>4, OneMoreInOrder
<1>6. InOrder(calls', sent + 1)
  BY <1>3, <1>5 DEF RenderDiff
<1> QED
  BY <1>1, <1>6 DEF RenderDiff

(* A handled event leaves everything in order.                             *)
LEMMA HashChangeKeepsUiInv == UiInv /\ HashChange => UiInv'
<1> SUFFICES ASSUME UiInv, HashChange PROVE UiInv'
  OBVIOUS
<1> DEFINE kind == RouteOf(hash)
<1>1. /\ kind \in Kinds /\ NavOf(kind) \in Kinds \ {"trace"}
      /\ kind = "trace" => hash.rest \in Subject
      /\ kind = "diff" => hash.rest \in Subject \union (Ids \X Ids)
  BY RouteType DEF UiInv, PageInv
<1>2. view' \in View /\ CallInv'
  <2>1. CASE kind = "diff"
    BY <1>1, <2>1, RenderDiffKeepsUiInv DEF HashChange
  <2>2. CASE kind # "diff"
    <3> DEFINE of == IF kind = "trace" THEN hash.rest ELSE << >>
    <3>1. of \in Subject /\ (kind # "trace" => of = << >>)
      BY <1>1 DEF Subject
    <3>2. Render(kind, of)
      BY <2>2 DEF HashChange
    <3>3. sent < MaxSent
      BY DEF HashChange
    <3> HIDE DEF of
    <3> QED
      BY <1>1, <2>2, <3>1, <3>2, <3>3, RenderKeepsUiInv
  <2> QED
    BY <2>1, <2>2
<1>3. sent' = sent + 1
  BY DEF HashChange, Render, RenderDiff
<1>4. EventInv' /\ ToastInv'
  BY <1>3, UiAssumption DEF HashChange, UiInv, CallInv, EventInv, ToastInv, tips
<1>5. PageInv'
  BY <1>1, <1>2 DEF HashChange, UiInv, PageInv
<1> QED
  BY <1>2, <1>4, <1>5 DEF UiInv

(* So does what the user does.                                             *)
LEMMA UserKeepsUiInv ==
  ASSUME UiInv,
         \/ \E h \in Hash : GoTo(h)
         \/ \E a, b \in Ids : Compare(a, b)
         \/ SelectStep
         \/ Replay
  PROVE  UiInv'
<1> USE UiAssumption DEF UiInv, PageInv, CallInv, EventInv, ToastInv
<1>1. ASSUME NEW h \in Hash, GoTo(h) PROVE UiInv'
  BY <1>1 DEF GoTo, tips
<1>2. ASSUME NEW a \in Ids, NEW b \in Ids, Compare(a, b) PROVE UiInv'
  <2>1. <<a, b>> \in Ids \X Ids
    OBVIOUS
  <2>2. NewCall("diff", <<a, b>>) \in Call /\ NewCall("diff", <<a, b>>).n = sent + 1
        /\ NewCall("diff", <<a, b>>).does = "diff"
    BY <2>1, NewCallType DEF Kinds
  <2>3. InOrder(calls', sent')
    BY <1>2, <2>2, OneMoreInOrder DEF Compare
  <2>4. [base |-> "diff?", rest |-> <<a, b>>] \in Hash
    BY <2>1 DEF Hash
  <2>5. view' \in View
    BY <1>2 DEF Compare, View, Result
  <2>6. hash' \in Hash /\ events' \in Nat /\ events' <= events + 1
    BY <1>2, <2>4 DEF Compare
  <2>7. sent' = sent + 1 /\ sent < MaxSent /\ moves' = moves + 1 /\ moves < MaxMoves
        /\ UNCHANGED <<nav, toast, timers, settled>>
    BY <1>2 DEF Compare, tips
  <2> QED
    BY <2>3, <2>5, <2>6, <2>7
<1>3. CASE SelectStep
  BY <1>3 DEF SelectStep, View, tips, hist
<1>4. CASE Replay
  <2>1. view.of \in Subject
    BY DEF View
  <2>2. NewCall("replay", view.of) \in Call /\ NewCall("replay", view.of).n = sent + 1
        /\ NewCall("replay", view.of).does = "replay"
    BY <2>1, NewCallType
  <2>3. InOrder(calls', sent')
    BY <1>4, <2>2, OneMoreInOrder DEF Replay
  <2> QED
    BY <1>4, <2>3 DEF Replay, page, tips, hist
<1> QED
  BY <1>1, <1>2, <1>3, <1>4

(* And the write of a renderer.                                            *)
LEMMA WriteKeepsUiInv ==
  ASSUME UiInv, NEW c \in calls, Renders(c), NEW shows \in Shown, WriteView(c, shows)
  PROVE  UiInv'
<1> USE UiAssumption DEF UiInv, PageInv, CallInv, EventInv, ToastInv
<1>1. c \in Call /\ c.n \in 1 .. sent /\ c.does \in Kinds /\ c.of \in Subject
  BY DEF InOrder, Renders, Kinds, Subject
<1>2. view' \in View
  BY <1>1, NewViewType DEF WriteView
<1>3. InOrder(calls \ {c}, sent)
  BY FewerInOrder
<1>4. InOrder(calls', sent)
  BY <1>3, DetachedInOrder DEF WriteView
<1> QED
  BY <1>1, <1>2, <1>4 DEF WriteView, tips

(* And every other answer.                                                 *)
LEMMA AnswerKeepsUiInv == ASSUME UiInv, NEW c \in calls, Answered(c) PROVE UiInv'
<1>0. c \in Call /\ c.n \in 1 .. sent
  BY DEF UiInv, CallInv, InOrder
<1> USE UiAssumption
<1>1. ASSUME NEW shows \in Shown, Renders(c), WriteView(c, shows) PROVE UiInv'
  BY <1>1, WriteKeepsUiInv
<1>2. CASE ListAnswered(c)
  <2>1. CASE WriteView(c, "empty")
    BY <1>1, <1>2, <2>1 DEF ListAnswered, Renders, Shown
  <2>2. CASE /\ calls' = (calls \ {c}) \union {[c EXCEPT !.stage = "summaries"]}
             /\ UNCHANGED <<page, sent, tips, moves, hist>>
    <3>1. InOrder(calls, sent) /\ sent \in Nat
      BY DEF UiInv, CallInv
    <3>2. InOrder((calls \ {c}) \union {[c EXCEPT !.stage = "summaries"]}, sent)
      BY <3>1, StageInOrder
    <3>3. InOrder(calls', sent)
      BY <2>2, <3>2
    <3> QED
      BY <2>2, <3>3
      DEF UiInv, PageInv, CallInv, EventInv, ToastInv, page, tips, hist
  <2> QED
    BY <1>2, <2>1, <2>2 DEF ListAnswered
<1>3. CASE SummariesAnswered(c) \/ TraceAnswered(c) \/ GraphAnswered(c) \/ RequestFails(c)
  BY <1>1, <1>3
  DEF SummariesAnswered, TraceAnswered, GraphAnswered, RequestFails, Renders, Shown
<1>4. CASE DiffAnswered(c)
  <2>1. InOrder(calls', sent)
    BY <1>4, FewerInOrder DEF DiffAnswered, UiInv, CallInv
  <2>2. view' \in View
    BY <1>4 DEF DiffAnswered, UiInv, PageInv, View, Result
  <2> QED
    BY <1>4, <2>1, <2>2
    DEF DiffAnswered, UiInv, PageInv, CallInv, EventInv, ToastInv, tips, hist
<1>5. CASE ReplayAnswered(c)
  <2>1. InOrder(calls', sent)
    BY <1>5, FewerInOrder DEF ReplayAnswered, UiInv, CallInv
  <2> QED
    BY <1>0, <1>5, <2>1
    DEF ReplayAnswered, ShowToast, UiInv, PageInv, CallInv, EventInv, ToastInv, page, hist
<1> QED
  BY <1>2, <1>3, <1>4, <1>5 DEF Answered

(* Every task keeps everything in order.                                   *)
LEMMA UiInvNext == UiInv /\ [Next]_vars => UiInv'
<1> SUFFICES ASSUME UiInv, [Next]_vars PROVE UiInv'
  OBVIOUS
<1>1. ASSUME NEW t \in timers, ToastEnds(t) PROVE UiInv'
  BY <1>1, UiAssumption
  DEF ToastEnds, UiInv, PageInv, CallInv, EventInv, ToastInv, page, hist
<1>2. CASE UNCHANGED vars
  BY <1>2 DEF vars, page, tips, hist, UiInv, PageInv, CallInv, EventInv, ToastInv
<1> QED
  BY <1>1, <1>2, HashChangeKeepsUiInv, UserKeepsUiInv, AnswerKeepsUiInv DEF Next, SomeAnswer

(* Type correctness of the viewer.                                         *)
THEOREM TypeCorrect == Spec => []TypeOK
  BY UiInvInit, UiInvNext, UiInvTypes, PTL DEF Spec

-----------------------------------------------------------------------------
(* Messages                                                                *)

(* A message is hidden by the timer set for it and no other, however       *)
(* quickly one message follows another.                                    *)
THEOREM ToastIsHiddenByItsTimer == Spec => ToastStaysItsTime
<1> DEFINE ByItsTimer == toast # 0 /\ toast' = 0 => toast \in timers /\ toast \notin timers'
<1>1. UiInv /\ [Next]_vars => [ByItsTimer]_tips
  <2> SUFFICES ASSUME UiInv, Next, toast # 0, toast' = 0
               PROVE  toast \in timers /\ toast \notin timers'
    BY DEF vars, tips
  <2>1. CASE \E t \in timers : ToastEnds(t)
    BY <2>1 DEF ToastEnds, UiInv, ToastInv
  <2>2. ASSUME NEW c \in calls, Answered(c), ReplayAnswered(c) PROVE FALSE
    BY <2>2 DEF ReplayAnswered, ShowToast, UiInv, CallInv, InOrder
  <2>3. ASSUME NEW c \in calls, Answered(c), ~ReplayAnswered(c) PROVE FALSE
    BY <2>3
    DEF Answered, ListAnswered, SummariesAnswered, TraceAnswered, GraphAnswered, RequestFails,
        DiffAnswered, WriteView, tips
  <2>4. CASE HashChange \/ SelectStep \/ Replay
    BY <2>4 DEF HashChange, SelectStep, Replay, tips
  <2>5. CASE (\E h \in Hash : GoTo(h)) \/ (\E a, b \in Ids : Compare(a, b))
    BY <2>5 DEF GoTo, Compare, tips
  <2> QED
    BY <2>1, <2>2, <2>3, <2>4, <2>5 DEF Next, SomeAnswer
<1> QED
  BY <1>1, UiInvInit, UiInvNext, PTL DEF Spec, ToastStaysItsTime

-----------------------------------------------------------------------------
(* What the page shows                                                     *)

(* At first the event of the page's loading was not handled yet.           *)
LEMMA LatestInvInit == Init => LatestInv
  BY DEF Init, LatestInv

(* The renderer that the handler of an event starts is the last one.       *)
LEMMA HashChangeKeepsLatest == UiInv /\ LatestInv /\ HashChange => LatestInv'
<1> SUFFICES ASSUME UiInv, HashChange PROVE LatestInv'
  OBVIOUS
<1> DEFINE kind == RouteOf(hash)
<1>1. /\ kind \in Kinds /\ (kind = "trace" => hash.rest \in Subject)
      /\ kind = "diff" => hash.rest \in Subject \union (Ids \X Ids)
  BY RouteType DEF UiInv, PageInv
<1>2. /\ calls \subseteq Call /\ sent \in Nat /\ settled \in 0 .. sent
      /\ \A c \in calls : c.n \in 1 .. sent
  BY UiAssumption DEF UiInv, CallInv, InOrder
<1>3. hash' = hash /\ nav' = NavOf(kind) /\ RouteOf(hash)' = kind
  BY DEF HashChange, RouteOf
<1>4. CASE kind = "diff"
  <2>1. RenderDiff(hash.rest) /\ sent < MaxSent
    BY <1>4 DEF HashChange
  <2>2. view'.kind = "diff"
    BY <1>1, <1>4, <2>1, RenderDiffKeepsUiInv
  <2>3. ASSUME NEW d \in calls', Renders(d) PROVE d \in calls
    <3>1. d \in Detached(calls) \/ d = NewCall("diff", hash.rest)
      BY <2>1 DEF RenderDiff
    <3>2. d # NewCall("diff", hash.rest)
      BY <2>3 DEF NewCall, Renders
    <3> QED
      BY <1>2, <2>3, <3>1, <3>2, DetachedRenderers
  <2>4. settled' = sent + 1
    BY <2>1 DEF RenderDiff
  <2>5. \A d \in calls' : Renders(d) => d.n < settled'
    BY <1>2, <2>3, <2>4
  <2>6. AsAsked'
    BY <1>3, <1>4, <2>2 DEF AsAsked
  <2> QED
    BY <1>3, <2>5, <2>6 DEF LatestInv
<1>5. CASE kind # "diff"
  <2> DEFINE of == IF kind = "trace" THEN hash.rest ELSE << >>
  <2>1. Render(kind, of)
    BY <1>5 DEF HashChange
  <2>2. of \in Subject /\ (kind = "trace" => of = hash.rest)
    BY <1>1 DEF Subject
  <2> HIDE DEF of
  <2>0. PICK new : new = NewCall(kind, of)
    OBVIOUS
  <2>3. new \in Call /\ new.n = sent + 1 /\ new.does = kind /\ new.of = of
    BY <1>1, <1>2, <2>0, <2>2, NewCallType
  <2>4. calls' = Detached(calls) \union {new} /\ settled' = settled
    BY <2>0, <2>1 DEF Render
  <2>5. Renders(new)
    BY <1>1, <1>5, <2>3 DEF Renders, Kinds
  <2>6. \A d \in calls' : Renders(d) => d \in calls \/ d = new
    BY <1>2, <2>4, DetachedRenderers
  <2>7. Asked(new)'
    BY <1>3, <2>2, <2>3, <2>5 DEF Asked
  <2>8. Last(new)'
    BY <1>2, <2>3, <2>4, <2>6 DEF Last
  <2> QED
    BY <1>3, <2>4, <2>7, <2>8 DEF LatestInv
<1> QED
  BY <1>4, <1>5

(* A step that leaves address, highlighted link and history as they are,   *)
(* and the renderers too, keeps what is on display or on its way.          *)
LEMMA SameRenderersKeepLatest ==
  ASSUME LatestInv, UNCHANGED <<hash, events, nav, settled, overtaken>>,
         \A c \in calls : Renders(c) => c \in calls',
         \A c \in calls' : Renders(c) => c \in calls,
         view'.kind = view.kind, view'.of = view.of
  PROVE  LatestInv'
<1> SUFFICES ASSUME events' = 0
             PROVE  /\ nav' = NavOf(RouteOf(hash))
                    /\ ~overtaken' => \/ \E c \in calls' : Asked(c)' /\ Last(c)'
                                      \/ AsAsked' /\ \A d \in calls' : Renders(d) => d.n < settled'
  BY DEF LatestInv, RouteOf
<1>1. RouteOf(hash)' = RouteOf(hash)
  BY DEF RouteOf
<1>2. nav' = NavOf(RouteOf(hash))
  BY DEF LatestInv
<1>3. ASSUME ~overtaken, NEW c \in calls, Asked(c), Last(c)
      PROVE  c \in calls' /\ Asked(c)' /\ Last(c)'
  BY <1>1, <1>3 DEF Asked, Last
<1>4. ASSUME AsAsked, \A d \in calls : Renders(d) => d.n < settled
      PROVE  AsAsked' /\ \A d \in calls' : Renders(d) => d.n < settled'
  BY <1>1, <1>4 DEF AsAsked
<1> QED
  BY <1>2, <1>3, <1>4 DEF LatestInv

(* The write of the renderer that was started last is what was asked for;  *)
(* that of any other leaves that one pending, or comes after it.           *)
LEMMA WriteKeepsLatest ==
  ASSUME UiInv, LatestInv, NEW c \in calls, Renders(c), NEW shows \in Shown,
         WriteView(c, shows)
  PROVE  LatestInv'
<1> SUFFICES ASSUME events' = 0
             PROVE  /\ nav' = NavOf(RouteOf(hash))
                    /\ ~overtaken' => \/ \E b \in calls' : Asked(b)' /\ Last(b)'
                                      \/ AsAsked' /\ \A d \in calls' : Renders(d) => d.n < settled'
  BY DEF LatestInv, RouteOf, WriteView
<1>1. RouteOf(hash)' = RouteOf(hash) /\ UNCHANGED <<hash, events, nav>>
  BY DEF RouteOf, WriteView
<1>2. /\ calls \subseteq Call /\ settled \in Nat /\ \A d \in calls : d.n \in Nat
      /\ \A b, d \in calls : b.n = d.n => b = d
  BY DEF UiInv, CallInv, InOrder
<1>3. c.does \in Kinds /\ c.of \in Subject
  BY DEF UiInv, CallInv, InOrder, Renders, Kinds, Subject
<1>4. view'.kind = c.does /\ view'.of = c.of
  BY <1>3, NewViewType DEF WriteView
<1>5. \A d : Renders(d) => (d \in calls' <=> d \in calls \ {c})
  BY <1>2, DetachedRenderers DEF WriteView
<1>6. nav' = NavOf(RouteOf(hash))
  BY <1>1 DEF LatestInv
<1>7. ASSUME ~overtaken'
      PROVE  \/ \E b \in calls' : Asked(b)' /\ Last(b)'
             \/ AsAsked' /\ \A d \in calls' : Renders(d) => d.n < settled'
  <2>1. ~overtaken /\ ~(c.n < settled) /\ settled' = IF c.n > settled THEN c.n ELSE settled
    BY <1>7 DEF WriteView
  <2>2. PICK b \in calls : Asked(b) /\ Last(b)
    BY <1>1, <2>1 DEF LatestInv
  <2>3. CASE b = c
    <3>1. AsAsked'
      BY <1>1, <1>4, <2>2, <2>3 DEF AsAsked, Asked
    <3>2. settled' = c.n
      BY <1>2, <2>1, <2>2, <2>3 DEF Last
    <3>3. \A d \in calls' : Renders(d) => d.n < settled'
      BY <1>2, <1>5, <2>2, <2>3, <3>2 DEF Last
    <3> QED
      BY <3>1, <3>3
  <2>4. CASE b # c
    <3>1. b \in calls' /\ Asked(b)'
      BY <1>1, <1>5, <2>2, <2>4 DEF Asked
    <3>2. c.n < b.n
      BY <1>2, <2>2, <2>4 DEF Last
    <3>3. settled' < b.n
      BY <1>2, <2>1, <2>2, <3>2 DEF Last
    <3>4. \A d \in calls' : Renders(d) => d.n <= b.n
      BY <1>5, <2>2 DEF Last
    <3> QED
      BY <3>1, <3>3, <3>4 DEF Last
  <2> QED
    BY <2>3, <2>4
<1> QED
  BY <1>6, <1>7

(* A list that goes on to ask for its summaries is still on its way.       *)
LEMMA StageKeepsLatest ==
  ASSUME UiInv, LatestInv, NEW c \in calls, Renders(c),
         calls' = (calls \ {c}) \union {[c EXCEPT !.stage = "summaries"]},
         UNCHANGED <<page, sent, tips, moves, hist>>
  PROVE  LatestInv'
<1> DEFINE d == [c EXCEPT !.stage = "summaries"]
<1>1. d.n = c.n /\ d.does = c.does /\ d.of = c.of /\ d \in calls'
  BY DEF UiInv, CallInv, InOrder, Call
<1>2. RouteOf(hash)' = RouteOf(hash)
      /\ UNCHANGED <<hash, events, nav, view, settled, overtaken>>
  BY DEF RouteOf, page, hist
<1>3. \A b \in calls' : b \in calls \/ b = d
  OBVIOUS
<1>4. \A b \in calls : b \in calls' \/ b = c
  OBVIOUS
<1> HIDE DEF d
<1>5. Asked(c) => Asked(d)
  BY <1>1 DEF Asked, Renders
<1>6. ASSUME NEW b \in calls, Last(b) PROVE Last(b)' /\ (b = c => Last(d)')
  BY <1>1, <1>2, <1>3, <1>6 DEF Last, Renders
<1>7. \A b : Asked(b)' <=> Asked(b)
  BY <1>2 DEF Asked
<1>8. ASSUME \A b \in calls : Renders(b) => b.n < settled
      PROVE  \A b \in calls' : Renders(b) => b.n < settled'
  BY <1>1, <1>2, <1>3, <1>8
<1>9. AsAsked => AsAsked'
  BY <1>2 DEF AsAsked
<1> QED
  BY <1>1, <1>2, <1>4, <1>5, <1>6, <1>7, <1>8, <1>9 DEF LatestInv

(* Every task keeps to LatestInv.                                          *)
LEMMA LatestInvNext == UiInv /\ LatestInv /\ [Next]_vars => LatestInv'
<1> SUFFICES ASSUME UiInv, LatestInv, [Next]_vars PROVE LatestInv'
  OBVIOUS
<1>0. calls \subseteq Call /\ view \in View
  BY DEF UiInv, CallInv, InOrder, PageInv
<1>1. CASE HashChange
  BY <1>1, HashChangeKeepsLatest
<1>2. ASSUME NEW h \in Hash, GoTo(h) PROVE LatestInv'
  BY <1>2 DEF GoTo, LatestInv, UiInv, EventInv
<1>3. ASSUME NEW a \in Ids, NEW b \in Ids, Compare(a, b) PROVE LatestInv'
  <2>1. CASE hash' = hash
    <3>1. ~Renders(NewCall("diff", <<a, b>>))
      BY DEF NewCall, Renders
    <3>2. view'.kind = view.kind /\ view'.of = view.of
      BY <1>0, <1>3 DEF Compare, View
    <3>3. UNCHANGED <<hash, events, nav, settled, overtaken>>
      BY <1>3, <2>1 DEF Compare
    <3>4. calls' = calls \union {NewCall("diff", <<a, b>>)}
      BY <1>3 DEF Compare
    <3> QED
      BY <3>1, <3>2, <3>3, <3>4, SameRenderersKeepLatest
  <2>2. CASE hash' # hash
    BY <1>3, <2>2 DEF Compare, LatestInv, UiInv, EventInv
  <2> QED
    BY <2>1, <2>2
<1>4. CASE SelectStep
  <2>1. view'.kind = view.kind /\ view'.of = view.of
    BY <1>0, <1>4 DEF SelectStep, View
  <2> QED
    BY <1>4, <2>1, SameRenderersKeepLatest DEF SelectStep, hist
<1>5. CASE Replay
  <2>1. ~Renders(NewCall("replay", view.of))
    BY DEF NewCall, Renders
  <2> QED
    BY <1>5, <2>1, SameRenderersKeepLatest DEF Replay, page, hist
<1>6. ASSUME NEW c \in calls, Answered(c) PROVE LatestInv'
  <2>1. ASSUME NEW shows \in Shown, Renders(c), WriteView(c, shows) PROVE LatestInv'
    BY <2>1, WriteKeepsLatest
  <2>2. CASE ListAnswered(c)
    BY <2>1, <2>2, StageKeepsLatest DEF ListAnswered, Renders, Shown
  <2>3. CASE SummariesAnswered(c) \/ TraceAnswered(c) \/ GraphAnswered(c) \/ RequestFails(c)
    BY <2>1, <2>3
    DEF SummariesAnswered, TraceAnswered, GraphAnswered, RequestFails, Renders, Shown
  <2>4. CASE DiffAnswered(c)
    <3>1. view'.kind = view.kind /\ view'.of = view.of
      BY <1>0, <2>4 DEF DiffAnswered, View
    <3>2. ~Renders(c) /\ calls' = calls \ {c}
      BY <2>4 DEF DiffAnswered, Renders
    <3> QED
      BY <2>4, <3>1, <3>2, SameRenderersKeepLatest DEF DiffAnswered, hist
  <2>5. CASE ReplayAnswered(c)
    <3>1. ~Renders(c) /\ calls' = calls \ {c}
      BY <2>5 DEF ReplayAnswered, Renders
    <3> QED
      BY <2>5, <3>1, SameRenderersKeepLatest DEF ReplayAnswered, page, hist
  <2> QED
    BY <1>6, <2>2, <2>3, <2>4, <2>5 DEF Answered
<1>7. ASSUME NEW t \in timers, ToastEnds(t) PROVE LatestInv'
  BY <1>7, SameRenderersKeepLatest DEF ToastEnds, page, hist
<1>8. CASE UNCHANGED vars
  BY <1>8, SameRenderersKeepLatest DEF vars, page, hist
<1> QED
  BY <1>1, <1>2, <1>3, <1>4, <1>5, <1>6, <1>7, <1>8 DEF Next, SomeAnswer

(* When nothing is pending the link is right, and so is the page unless an *)
(* answer was overtaken, in whatever order requests are answered.          *)
THEOREM PageIsAsAsked == Spec => []StaleOnlyIfOvertaken
<1>1. UiInv /\ LatestInv => StaleOnlyIfOvertaken
  <2> SUFFICES ASSUME LatestInv, Quiet
               PROVE  /\ nav = NavOf(RouteOf(hash))
                      /\ ~overtaken => /\ view.kind = RouteOf(hash)
                                       /\ view.kind = "trace" => view.of = hash.rest
    BY DEF StaleOnlyIfOvertaken
  <2> QED
    BY DEF Quiet, LatestInv, Asked, AsAsked
<1> QED
  BY <1>1, UiInvInit, UiInvNext, LatestInvInit, LatestInvNext, PTL DEF Spec

-----------------------------------------------------------------------------
(* Loading: what LoadingEnds needs besides fairness                        *)

(* A view that is loading, or a comparison that is, has a call under way   *)
(* that writes over it.                                                    *)
LoadingIsPending ==
  /\ view.shows = "loading" => \E c \in calls : Renders(c)
  /\ view.result = "loading" => \E c \in calls : c.does = "diff" /\ c.attached

(* A renderer that writes leaves nothing loading.                          *)
LEMMA WriteEndsLoading ==
  ASSUME NEW c, NEW shows \in Shown \ {"loading"}, WriteView(c, shows)
  PROVE  LoadingIsPending'
  BY DEF WriteView, NewView, LoadingIsPending

(* An answer to one call, be it an error, leaves the others to write.      *)
LEMMA AnswerKeepsLoading ==
  ASSUME UiInv, LoadingIsPending, NEW c \in calls, Answered(c)
  PROVE  LoadingIsPending'
<1>1. c \in Call
  BY DEF UiInv, CallInv, InOrder
<1>2. ASSUME c.does = "list", calls' = (calls \ {c}) \union {[c EXCEPT !.stage = "summaries"]},
             view' = view
      PROVE  LoadingIsPending'
  <2>1. [c EXCEPT !.stage = "summaries"].does = "list"
    BY <1>1, <1>2 DEF Call
  <2>2. \E d \in calls' : Renders(d)
    BY <1>2, <2>1 DEF Renders
  <2>3. \A d \in calls : d.does = "diff" => d \in calls'
    BY <1>2
  <2> QED
    BY <1>2, <2>2, <2>3 DEF LoadingIsPending
<1>3. CASE ListAnswered(c)
  BY <1>2, <1>3, WriteEndsLoading DEF ListAnswered, page, Shown
<1>4. CASE SummariesAnswered(c) \/ TraceAnswered(c) \/ GraphAnswered(c) \/ RequestFails(c)
  BY <1>4, WriteEndsLoading
  DEF SummariesAnswered, TraceAnswered, GraphAnswered, RequestFails, Shown
<1>5. CASE DiffAnswered(c)
  <2>1. /\ calls' = calls \ {c} /\ c.does = "diff"
        /\ \E r \in {"data", "notFound", "failed"} :
             view' = IF c.attached THEN [view EXCEPT !.result = r] ELSE view
    BY <1>5 DEF DiffAnswered
  <2>2. view \in View
    BY DEF UiInv, PageInv
  <2>3. view'.shows = view.shows
    BY <2>1, <2>2 DEF View
  <2>4. view'.result = "loading" => view.result = "loading" /\ ~c.attached
    BY <2>1, <2>2 DEF View
  <2>5. \A d \in calls : Renders(d) => d \in calls'
    BY <2>1 DEF Renders
  <2>6. ~c.attached => \A d \in calls : d.does = "diff" /\ d.attached => d \in calls'
    BY <2>1
  <2> QED
    BY <2>3, <2>4, <2>5, <2>6 DEF LoadingIsPending
<1>6. CASE ReplayAnswered(c)
  BY <1>6 DEF ReplayAnswered, LoadingIsPending, Renders, page
<1> QED
  BY <1>3, <1>4, <1>5, <1>6 DEF Answered

(* What starts to load has a call, also when it takes the place of         *)
(* something else.                                                         *)
LEMMA HashChangeKeepsLoading == HashChange => LoadingIsPending'
<1> SUFFICES ASSUME HashChange PROVE LoadingIsPending'
  OBVIOUS
<1>1. ASSUME NEW kind \in {"list", "trace", "graph"}, NEW of, Render(kind, of)
      PROVE  LoadingIsPending'
  <2>1. NewCall(kind, of) \in calls' /\ Renders(NewCall(kind, of))
    BY <1>1 DEF Render, NewCall, Renders
  <2>2. view'.result = "none"
    BY <1>1 DEF Render, NewView
  <2> QED
    BY <2>1, <2>2 DEF LoadingIsPending
<1>2. ASSUME NEW of, RenderDiff(of) PROVE LoadingIsPending'
  <2>1. view'.shows = "data" /\ (view'.result = "loading" => of # << >>)
    BY <1>2 DEF RenderDiff, NewView
  <2>2. of # << >> => NewCall("diff", of) \in calls'
    BY <1>2 DEF RenderDiff
  <2>3. NewCall("diff", of).does = "diff" /\ NewCall("diff", of).attached
    BY DEF NewCall
  <2> QED
    BY <2>1, <2>2, <2>3 DEF LoadingIsPending
<1>3. CASE RouteOf(hash) = "diff"
  <2>1. RenderDiff(hash.rest)
    BY <1>3 DEF HashChange
  <2> QED
    BY <1>2, <2>1
<1>4. CASE RouteOf(hash) # "diff"
  <2>1. PICK of : Render(RouteOf(hash), of)
    BY <1>4 DEF HashChange
  <2>2. RouteOf(hash) \in {"list", "trace", "graph"}
    BY <1>4 DEF RouteOf
  <2> QED
    BY <1>1, <2>1, <2>2
<1> QED
  BY <1>3, <1>4

(* Nothing loads for ever for want of somebody who writes: every path of   *)
(* every renderer and of the comparison keeps its promise to the page.     *)
THEOREM LoadingHasACall == Spec => []LoadingIsPending
<1>1. Init => LoadingIsPending
  BY DEF Init, NewView, LoadingIsPending
<1>2. UiInv /\ LoadingIsPending /\ [Next]_vars => LoadingIsPending'
  <2> SUFFICES ASSUME UiInv, LoadingIsPending, [Next]_vars PROVE LoadingIsPending'
    OBVIOUS
  <2>0. view \in View
    BY DEF UiInv, PageInv
  <2>1. CASE calls \subseteq calls' /\ view'.shows = view.shows /\ view'.result = view.result
    BY <2>1 DEF LoadingIsPending
  <2>2. ASSUME NEW a \in Ids, NEW b \in Ids, Compare(a, b) PROVE LoadingIsPending'
    <3>1. /\ view' = [view EXCEPT !.result = "loading"]
          /\ calls' = calls \union {NewCall("diff", <<a, b>>)}
      BY <2>2 DEF Compare
    <3>2. view'.shows = view.shows
      BY <2>0, <3>1 DEF View
    <3>3. NewCall("diff", <<a, b>>) \in calls'
      BY <3>1
    <3>4. NewCall("diff", <<a, b>>).does = "diff" /\ NewCall("diff", <<a, b>>).attached
      BY DEF NewCall
    <3> QED
      BY <3>1, <3>2, <3>3, <3>4 DEF LoadingIsPending
  <2>3. CASE SelectStep
    <3>1. view' = [view EXCEPT !.panel = TRUE] /\ calls' = calls
      BY <2>3 DEF SelectStep
    <3>2. view'.shows = view.shows /\ view'.result = view.result
      BY <2>0, <3>1 DEF View
    <3> QED
      BY <2>1, <3>1, <3>2
  <2>4. CASE Replay \/ (\E h \in Hash : GoTo(h)) \/ (\E t \in timers : ToastEnds(t))
    BY <2>1, <2>4 DEF Replay, GoTo, ToastEnds, page
  <2>5. CASE UNCHANGED vars
    BY <2>1, <2>5 DEF vars, page
  <2> QED
    BY <2>2, <2>3, <2>4, <2>5, HashChangeKeepsLoading, AnswerKeepsLoading DEF Next, SomeAnswer
<1> QED
  BY <1>1, <1>2, UiInvInit, UiInvNext, PTL DEF Spec
=============================================================================
