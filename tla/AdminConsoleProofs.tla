------------------------- MODULE AdminConsoleProofs -------------------------
(***************************************************************************)
(* Theorems about AdminConsole, for any queries and any number of changes: *)
(* one request at a time is what keeps a page from going back in time.     *)
(***************************************************************************)
EXTENDS AdminConsole, TLAPS

\* What is no answer is not a page.
LEMMA NoPage == NULL \notin Page /\ Failure \notin Page /\ NULL # Failure
BY ConsoleAssumption

LEMMA InitConsoleInv == Init => ConsoleInv
<1> SUFFICES ASSUME Init
             PROVE  ConsoleInv
  OBVIOUS
<1>1. version \in Versions
  BY ConsoleAssumption DEF Init, Versions
<1>2. \A r \in requests : r.got = NULL /\ r.counted = NULL
  BY DEF Init, Asked
<1>3. requests \subseteq Request
  BY DEF Init, Asked, Request
<1>4. ConsoleTypeOK
  BY <1>1, <1>3 DEF Init, ConsoleTypeOK
<1>5. inFlight <=> requests # {}
  BY DEF Init
<1>6. \A r, s \in requests : r = s
  BY DEF Init
<1>7. view = NULL
  BY DEF Init
<1> QED BY <1>2, <1>4, <1>5, <1>6, <1>7, NoPage DEF ConsoleInv

\* Whatever happens to the page's settings, its cancel and its guarded request.
LEMMA RunInv ==
  ASSUME ConsoleInv, Run, UNCHANGED <<dataVars, view, error>>,
         query' \in Query, polling' \in BOOLEAN, visible' \in BOOLEAN,
         cancel' \in {"none", "sent", "done", "refused", "lost"}, cancelError' \in BOOLEAN
  PROVE  ConsoleInv'
<1>1. CASE inFlight
  BY <1>1 DEF Run, ConsoleInv, ConsoleTypeOK, dataVars
<1>2. CASE ~inFlight
  <2>1. requests' = {Asked(query)} /\ inFlight' = TRUE
    BY <1>2 DEF Run, Fetch, ConsoleInv
  <2>2. /\ Asked(query) \in Request
        /\ Asked(query).got = NULL /\ Asked(query).counted = NULL
    BY DEF Asked, Request, ConsoleInv, ConsoleTypeOK
  <2> QED BY <2>1, <2>2, NoPage DEF ConsoleInv, ConsoleTypeOK, dataVars
<1> QED BY <1>1, <1>2

\* The same without a request.
LEMMA SettingsInv ==
  ASSUME ConsoleInv, UNCHANGED <<dataVars, hookVars>>,
         query' \in Query, polling' \in BOOLEAN, visible' \in BOOLEAN,
         cancel' \in {"none", "sent", "done", "refused", "lost"}, cancelError' \in BOOLEAN
  PROVE  ConsoleInv'
BY DEF ConsoleInv, ConsoleTypeOK, dataVars, hookVars

\* The data changes: it gets newer, and a settled job stays settled.
LEMMA DataInv ==
  ASSUME ConsoleInv, UNCHANGED <<pageVars, hookVars>>,
         version < MaxVersion, version' = version + 1, live' \in BOOLEAN, live' => live,
         cancel' \in {"none", "sent", "done", "refused", "lost"}, cancelError' \in BOOLEAN
  PROVE  ConsoleInv'
<1>1. version \in Nat /\ version' \in Versions
  BY ConsoleAssumption DEF ConsoleInv, ConsoleTypeOK, Versions
<1>2. \A p \in Page : p.version \in Nat
  BY ConsoleAssumption DEF Page, Versions
<1>3. ConsoleTypeOK'
  BY <1>1 DEF ConsoleInv, ConsoleTypeOK, pageVars, hookVars
<1>4. \A r \in requests : r.counted # NULL => r.counted \in Nat
  BY ConsoleAssumption DEF ConsoleInv, ConsoleTypeOK, Request, Versions
<1> QED BY <1>1, <1>2, <1>3, <1>4 DEF ConsoleInv, ConsoleTypeOK, pageVars, hookVars

\* The one request goes on to what may follow it.
LEMMA BecomesInv ==
  ASSUME ConsoleInv, NEW r \in requests, NEW next \in Request, Becomes(r, next),
         next.counted # NULL =>
           /\ next.counted <= version
           /\ view # NULL => view.version <= next.counted,
         next.got \in Page =>
           /\ next.got.version <= version
           /\ next.got.total <= next.got.version
           /\ live => next.got.live
           /\ view # NULL => view.version <= next.got.total
  PROVE  ConsoleInv'
<1>1. requests = {r}
  BY DEF ConsoleInv
<1>2. requests' = {next}
  BY <1>1 DEF Becomes
<1>3. UNCHANGED <<version, live, query, polling, visible, inFlight, view, error, cancel, cancelError>>
  BY DEF Becomes, dataVars, pageVars, cancelVars
<1>4. ConsoleTypeOK' /\ inFlight'
  BY <1>1, <1>2, <1>3 DEF ConsoleInv, ConsoleTypeOK
<1> QED BY <1>2, <1>3, <1>4 DEF ConsoleInv

\* What is counted or answered is as new as the data at that time, so that it is
\* not older than what the page shows.
LEMMA AnswerInv ==
  ASSUME ConsoleInv, NEW r \in requests, Count(r) \/ List(r) \/ Get(r) \/ FetchFails(r)
  PROVE  ConsoleInv'
<1>1. r \in Request /\ version \in Versions /\ live \in BOOLEAN
  BY DEF ConsoleInv, ConsoleTypeOK
<1>2. /\ version \in Int /\ (view # NULL => view.version <= version)
      /\ view # NULL => view.version \in Int
      /\ r.counted # NULL =>
           /\ r.counted \in Versions /\ r.counted <= version
           /\ view # NULL => view.version <= r.counted
  BY <1>1 DEF ConsoleInv, ConsoleTypeOK, Versions, Request, Page
<1>3. CASE Count(r)
  <2> DEFINE next == [r EXCEPT !.counted = version]
  <2>1. next \in Request /\ next.counted = version /\ next.got = r.got
    BY <1>1 DEF Request
  <2>2. Becomes(r, next) /\ r.got = NULL
    BY <1>3 DEF Count, Becomes
  <2> HIDE DEF next
  <2> QED BY <1>2, <2>1, <2>2, BecomesInv, NoPage
<1>4. CASE List(r) \/ Get(r) \/ FetchFails(r)
  <2>1. PICK answer \in {Failure} \cup Page :
          /\ Becomes(r, [r EXCEPT !.got = answer])
          /\ answer \in Page =>
               /\ answer.version = version /\ answer.live = live
               /\ answer.total = version \/ (r.counted # NULL /\ answer.total = r.counted)
    <3> DEFINE Answer(n) == [for |-> r.for, version |-> version, total |-> n, live |-> live]
    <3>1. \A n \in Versions :
            /\ Answer(n) \in Page
            /\ Answer(n).version = version /\ Answer(n).total = n /\ Answer(n).live = live
      BY <1>1 DEF Page, Request
    <3>2. CASE List(r)
      <4>1. r.counted \in Versions /\ r.counted # NULL
        BY <1>2, <3>2 DEF List
      <4>2. Becomes(r, [r EXCEPT !.got = Answer(r.counted)])
        BY <3>2 DEF List, Answered
      <4> HIDE DEF Answer
      <4> QED BY <3>1, <4>1, <4>2
    <3>3. CASE Get(r)
      <4>1. Becomes(r, [r EXCEPT !.got = Answer(version)])
        BY <3>3 DEF Get, Answered
      <4> HIDE DEF Answer
      <4> QED BY <1>1, <3>1, <4>1
    <3>4. CASE FetchFails(r)
      BY <3>4, NoPage DEF FetchFails, Answered
    <3> QED BY <1>4, <3>2, <3>3, <3>4
  <2> DEFINE next == [r EXCEPT !.got = answer]
  <2>2. next \in Request /\ next.counted = r.counted /\ next.got = answer
    BY <1>1 DEF Request
  <2>3. Becomes(r, next)
    BY <2>1
  <2> HIDE DEF next
  <2> QED BY <1>2, <2>1, <2>2, <2>3, BecomesInv
<1> QED BY <1>3, <1>4

\* What is shown is the answer, which is not older than what was shown before.
LEMMA FetchEndsInv ==
  ASSUME ConsoleInv, NEW r \in requests, FetchEnds(r)
  PROVE  /\ ConsoleInv'
         /\ view' = view \/ (view # NULL => /\ view.version <= view'.total
                                          /\ view'.total <= view'.version)
<1>1. requests = {r} /\ r \in Request
  BY DEF ConsoleInv, ConsoleTypeOK
<1>2. requests' = {} /\ inFlight' = FALSE
  BY <1>1 DEF FetchEnds
<1>3. CASE r.got = Failure
  <2>1. view' = view /\ error' = TRUE
    BY <1>3 DEF FetchEnds
  <2>2. view # NULL => view.version \in Int
    BY DEF ConsoleInv, ConsoleTypeOK, Page, Versions
  <2>3. ConsoleTypeOK'
    BY <1>2, <2>1 DEF FetchEnds, ConsoleInv, ConsoleTypeOK, dataVars, pageVars, cancelVars
  <2>4. version' = version /\ live' = live
    BY DEF FetchEnds, dataVars
  <2> QED BY <1>2, <2>1, <2>2, <2>3, <2>4 DEF ConsoleInv
<1>4. CASE r.got \in Page
  <2>1. view' = r.got /\ error' = FALSE
    BY <1>4, NoPage DEF FetchEnds
  <2>2. /\ r.got.version <= version /\ r.got.total <= r.got.version
        /\ view # NULL => view.version <= r.got.total
    BY <1>4 DEF ConsoleInv
  <2>3. r.got.version \in Int /\ r.got.total \in Int /\ (view # NULL => view.version \in Int)
    BY <1>4 DEF ConsoleInv, ConsoleTypeOK, Page, Versions
  <2>4. live => r.got.live
    BY <1>4 DEF ConsoleInv
  <2> QED BY <1>2, <1>4, <2>1, <2>2, <2>3, <2>4, NoPage
      DEF FetchEnds, ConsoleInv, ConsoleTypeOK, dataVars, pageVars, cancelVars
<1> QED BY <1>1, <1>3, <1>4 DEF FetchEnds, Request

\* Every step preserves the invariant; only the end of a fetch changes the view.
LEMMA NextConsoleInv == ConsoleInv /\ [Next]_vars => ConsoleInv'
<1> SUFFICES ASSUME ConsoleInv, [Next]_vars
             PROVE  ConsoleInv'
  OBVIOUS
<1>1. ConsoleTypeOK
  BY DEF ConsoleInv
<1>2. CASE Fire \/ Refresh \/ SetInterval
  BY <1>1, <1>2, RunInv DEF Fire, Refresh, SetInterval, ConsoleTypeOK, pageVars, cancelVars
<1>3. CASE SwitchTab \/ \E q \in Query : SetQuery(q)
  BY <1>1, <1>3, SettingsInv DEF SwitchTab, SetQuery, ConsoleTypeOK, cancelVars
<1>4. CASE \E r \in requests : Count(r) \/ List(r) \/ Get(r) \/ FetchFails(r) \/ FetchEnds(r)
  BY <1>4, AnswerInv, FetchEndsInv
<1>5. CASE Change
  <2>1. live' \in BOOLEAN /\ (live' => live)
    BY <1>1, <1>5 DEF Change, ConsoleTypeOK
  <2> QED BY <1>1, <1>5, <2>1, DataInv DEF Change, ConsoleTypeOK, cancelVars
<1>6. CASE Cancel \/ CancelFails
  BY <1>1, <1>6, SettingsInv DEF Cancel, CancelFails, ConsoleTypeOK, pageVars
<1>7. CASE ServeCancel
  <2>1. CASE live
    BY <1>1, <1>7, <2>1, DataInv DEF ServeCancel, ConsoleTypeOK
  <2>2. CASE ~live
    BY <1>1, <1>7, <2>2, SettingsInv DEF ServeCancel, ConsoleTypeOK, pageVars
  <2> QED BY <2>1, <2>2
<1>8. CASE HearCancel
  <2>1. CASE cancel = "done"
    BY <1>1, <1>8, <2>1, RunInv DEF HearCancel, ConsoleTypeOK, pageVars
  <2>2. CASE cancel # "done"
    BY <1>1, <1>8, <2>2, SettingsInv DEF HearCancel, ConsoleTypeOK, pageVars, hookVars
  <2> QED BY <2>1, <2>2
<1>9. CASE UNCHANGED vars
  BY <1>1, <1>9, SettingsInv DEF vars, ConsoleTypeOK, pageVars, cancelVars
<1> QED BY <1>2, <1>3, <1>4, <1>5, <1>6, <1>7, <1>8, <1>9 DEF Next

-----------------------------------------------------------------------------
(* The theorems *)

\* There is at most one request, the guard is up just while there is one, and
\* nothing that is on its way to the page is older than the page.
THEOREM ConsoleInvariance == Spec => []ConsoleInv
BY InitConsoleInv, NextConsoleInv, PTL DEF Spec

\* No page ever shows older data after newer data.
THEOREM PageOnlyAdvances == Spec => ViewNeverGoesBack
<1>1. ASSUME ConsoleInv, [Next]_vars
      PROVE  [view # NULL => view.version <= view'.total /\ view'.total <= view'.version]_view
  <2>1. CASE \E r \in requests : FetchEnds(r)
    BY <1>1, <2>1, FetchEndsInv
  <2>2. CASE ~\E r \in requests : FetchEnds(r)
    BY <1>1, <2>2
    DEF Next, Fire, Refresh, SetInterval, SwitchTab, SetQuery, Count, List, Get, FetchFails, Answered, Becomes,
        Change, Cancel, ServeCancel, CancelFails, HearCancel, hookVars, vars
  <2> QED BY <2>1, <2>2
<1>2. ConsoleInv /\ [Next]_vars => [view # NULL => view.version <= view'.total /\ view'.total <= view'.version]_view
  BY <1>1
<1> QED BY <1>2, ConsoleInvariance, PTL DEF Spec, ViewNeverGoesBack
=============================================================================
