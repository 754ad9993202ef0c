---------------------------- MODULE AdminConsole ----------------------------
(***************************************************************************)
(* A page of the admin console: the list of jobs, whose filters and page   *)
(* number make its query, or one job, with its Cancel button.  usePolling  *)
(* fetches what the page shows through the console's proxy, every so often *)
(* and when it is asked to, one request at a time.                         *)
(*                                                                         *)
(* The server's data is a version number that grows with every change, and *)
(* whether the job that the page can cancel is still live.  A list is made *)
(* by two statements, one that counts and one that selects, and the data   *)
(* may change between them.                                                *)
(***************************************************************************)
EXTENDS Integers

CONSTANTS
  NULL,
  Failure,     \* the answer to a fetch that failed
  Query,       \* what the filters and the page number can ask for
  MaxVersion   \* bound on the changes to the data

VARIABLES
  version, live,           \* the server's data
  query, polling, visible, \* the page: its query, auto-refresh, the tab
  inFlight,                \* the hook's guard
  requests,                \* the fetches under way, and what they were answered
  view, error,             \* what the page shows
  cancel, cancelError      \* the DELETE under way and its answer

dataVars == <<version, live>>
pageVars == <<query, polling, visible>>
hookVars == <<inFlight, requests, view, error>>
cancelVars == <<cancel, cancelError>>
vars == <<dataVars, pageVars, hookVars, cancelVars>>

Versions == 0 .. MaxVersion

\* What a page shows, or an answer brings: data of a version, for a query, with
\* the total that was counted at a version.
Page == [for : Query, version : Versions, total : Versions, live : BOOLEAN]

ASSUME ConsoleAssumption ==
  /\ MaxVersion \in Nat
  /\ NULL # Failure
  /\ NULL \notin Versions
  /\ NULL \notin Page
  /\ Failure \notin Page

\* A fetch under way: its query, the version it has counted, and its answer.
Request == [for : Query, counted : Versions \cup {NULL}, got : {NULL, Failure} \cup Page]

Asked(q) == [for |-> q, counted |-> NULL, got |-> NULL]

ConsoleTypeOK ==
  /\ version \in Versions /\ live \in BOOLEAN
  /\ query \in Query /\ polling \in BOOLEAN /\ visible \in BOOLEAN
  /\ inFlight \in BOOLEAN /\ error \in BOOLEAN
  /\ requests \subseteq Request
  /\ view \in Page \cup {NULL}
  /\ cancel \in {"none", "sent", "done", "refused", "lost"}
  /\ cancelError \in BOOLEAN

\* The page is mounted: its first fetch runs, the interval is set to 5 s.
Init ==
  /\ version = 0 /\ live = TRUE
  /\ query \in Query
  /\ polling = TRUE /\ visible = TRUE
  /\ inFlight = TRUE
  /\ requests = {Asked(query)}
  /\ view = NULL /\ error = FALSE
  /\ cancel = "none" /\ cancelError = FALSE

-----------------------------------------------------------------------------
(* usePolling *)

Fetch(q) ==
  /\ inFlight' = TRUE
  /\ requests' = requests \cup {Asked(q)}

\* Mutant of Run: requests may overlap.
RunAnyway == Fetch(query)

\* Mutant of Run: the fetcher is the one of the last render with data.
RunOldFetcher ==
  IF inFlight THEN UNCHANGED <<inFlight, requests>>
  ELSE Fetch(IF view = NULL THEN query ELSE view.for)

\* run(): dropped while a request is in flight; else the latest fetcher is run.
Run == IF inFlight THEN UNCHANGED <<inFlight, requests>> ELSE Fetch(query)

\* tick(); it does nothing while the tab is hidden.
Fire ==
  /\ polling /\ visible
  /\ Run
  /\ UNCHANGED <<dataVars, pageVars, view, error, cancelVars>>

\* "Refresh now", which is disabled until the first fetch has ended.
Refresh ==
  /\ view # NULL \/ error
  /\ Run
  /\ UNCHANGED <<dataVars, pageVars, view, error, cancelVars>>

\* The interval is changed, to another period or to none: the effect is run anew.
SetInterval ==
  /\ polling' \in BOOLEAN
  /\ polling \/ polling'
  /\ Run
  /\ UNCHANGED <<dataVars, query, visible, view, error, cancelVars>>

\* A filter or the page number is changed; what is shown stays.
SetQuery(q) ==
  /\ query' = q
  /\ UNCHANGED <<dataVars, polling, visible, hookVars, cancelVars>>

SwitchTab ==
  /\ visible' = ~visible
  /\ UNCHANGED <<dataVars, query, polling, hookVars, cancelVars>>

\* Mutant of FetchEnds: the guard is taken down in the try, not in the finally.
FetchEndsWell(r) ==
  /\ r.got # NULL
  /\ requests' = requests \ {r}
  /\ inFlight' = IF r.got = Failure THEN inFlight ELSE FALSE
  /\ view' = IF r.got = Failure THEN view ELSE r.got
  /\ error' = (r.got = Failure)
  /\ UNCHANGED <<dataVars, pageVars, cancelVars>>

\* The await of run() returns or throws.
FetchEnds(r) ==
  /\ r.got # NULL
  /\ requests' = requests \ {r}
  /\ inFlight' = FALSE
  /\ view' = IF r.got = Failure THEN view ELSE r.got
  /\ error' = (r.got = Failure)
  /\ UNCHANGED <<dataVars, pageVars, cancelVars>>

-----------------------------------------------------------------------------
(* The proxy and the server *)

Becomes(r, next) ==
  /\ r.got = NULL
  /\ requests' = (requests \ {r}) \cup {next}
  /\ UNCHANGED <<dataVars, pageVars, inFlight, view, error, cancelVars>>

Answered(r, answer) == Becomes(r, [r EXCEPT !.got = answer])

\* GET /jobs: list() counts, then it selects.
Count(r) == r.counted = NULL /\ Becomes(r, [r EXCEPT !.counted = version])

List(r) ==
  /\ r.counted # NULL
  /\ Answered(r, [for |-> r.for, version |-> version, total |-> r.counted, live |-> live])

\* GET /jobs/:id
Get(r) ==
  /\ r.counted = NULL
  /\ Answered(r, [for |-> r.for, version |-> version, total |-> version, live |-> live])

\* Any status but 2xx, the proxy's own 502 among them, or no answer at all.
FetchFails(r) == Answered(r, Failure)

\* The rest of the system goes on; a job that is settled stays so.
Change ==
  /\ version < MaxVersion
  /\ version' = version + 1
  /\ live' \in IF live THEN BOOLEAN ELSE {FALSE}
  /\ UNCHANGED <<pageVars, hookVars, cancelVars>>

-----------------------------------------------------------------------------
(* The Cancel button *)

\* It is there while the page shows a live job, and disabled meanwhile.
Cancel ==
  /\ view # NULL /\ view.live
  /\ cancel = "none"
  /\ cancel' = "sent" /\ cancelError' = FALSE
  /\ UNCHANGED <<dataVars, pageVars, hookVars>>

\* DELETE /jobs/:id
ServeCancel ==
  /\ cancel = "sent"
  /\ IF live
     THEN version < MaxVersion /\ version' = version + 1 /\ live' = FALSE /\ cancel' = "done"
     ELSE cancel' = "refused" /\ UNCHANGED dataVars
  /\ UNCHANGED <<pageVars, hookVars, cancelError>>

\* The request or its answer does not come through.
CancelFails ==
  /\ cancel \in {"sent", "done", "refused"}
  /\ cancel' = "lost"
  /\ UNCHANGED <<dataVars, pageVars, hookVars, cancelError>>

\* onCancel() goes on: it refreshes the page, or shows an error.
HearCancel ==
  /\ cancel \in {"done", "refused", "lost"}
  /\ IF cancel = "done" THEN Run ELSE UNCHANGED <<inFlight, requests>>
  /\ cancel' = "none"
  /\ cancelError' = (cancel # "done")
  /\ UNCHANGED <<dataVars, pageVars, view, error>>

-----------------------------------------------------------------------------

Next ==
  \/ Fire \/ Refresh \/ SetInterval \/ SwitchTab
  \/ \E q \in Query : SetQuery(q)
  \/ \E r \in requests : Count(r) \/ List(r) \/ Get(r) \/ FetchFails(r) \/ FetchEnds(r)
  \/ Change
  \/ Cancel \/ ServeCancel \/ CancelFails \/ HearCancel

Spec == Init /\ [][Next]_vars

\* The interval fires, every fetch ends, and not every one of them in an error.
FairSpec ==
  /\ Spec
  /\ WF_vars(Fire)
  /\ WF_vars(\E r \in requests : Count(r) \/ List(r) \/ Get(r) \/ FetchFails(r))
  /\ WF_vars(\E r \in requests : FetchEnds(r))
  /\ SF_vars(\E r \in requests : List(r) \/ Get(r))
  /\ WF_vars(ServeCancel \/ CancelFails) /\ WF_vars(HearCancel)

-----------------------------------------------------------------------------
(* Properties *)

\* The page never goes back in time: an answer that was overtaken by a later one,
\* for this query or another, is not shown after it, and a new total is at least
\* as new as the jobs that were shown before.
ViewNeverGoesBack ==
  [][view # NULL => view.version <= view'.total /\ view'.total <= view'.version]_view

\* While the page is polled, it comes to show the query that was last chosen, at
\* the last version of the data, whatever was dropped or failed on the way.
ViewCatchesUp ==
  \A q \in Query, n \in Versions :
    <>[](polling /\ visible /\ query = q /\ version = n) =>
      <>[](view # NULL /\ view.for = q /\ view.version = n /\ view.total = n)

\* A page that is polled shows in the end that its job was cancelled, although
\* the refresh that follows the cancel may be dropped for a poll in flight that
\* was served before it.
CancelIsShown ==
  <>[](polling /\ visible) => (cancel = "done" ~> view # NULL /\ ~view.live)

\* The invariant behind them: the guard is up just while there is a request, and
\* no request holds what is older than the page.
ConsoleInv ==
  /\ ConsoleTypeOK
  /\ \A r, s \in requests : r = s
  /\ inFlight <=> requests # {}
  /\ view # NULL => view.version <= version
  /\ view # NULL /\ live => view.live
  /\ \A r \in requests : r.counted # NULL =>
       /\ r.counted <= version
       /\ view # NULL => view.version <= r.counted
  /\ \A r \in requests : r.got \in Page =>
       /\ r.got.version <= version
       /\ r.got.total <= r.got.version
       /\ live => r.got.live
       /\ view # NULL => view.version <= r.got.total
=============================================================================
