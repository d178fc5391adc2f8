------------------------------- MODULE Loader -------------------------------
(***************************************************************************)
(* A server-side list in the browser: useServerList turns what the reader  *)
(* types, filters and pages into a query; useData loads the query, aborts  *)
(* the request it replaces and discards answers that come late; request    *)
(* in api/client.js repeats a request the network or the server lost.      *)
(*                                                                         *)
(* "filter" stands for everything of the query that takes effect at once:  *)
(* the filters, the sort and the page size.  The records behind the list   *)
(* change under it; their version says how old a picture is.               *)
(*                                                                         *)
(* The buttons of a row (archive, restore, take stock) await their call    *)
(* and then reload.  The reload they call is the one of the render they    *)
(* were pressed in: it asks for the query that was on the screen then.     *)
(***************************************************************************)
EXTENDS Naturals, FiniteSets

CONSTANTS
  Term,          \* what may be typed in the search box
  Filter,        \* filters, sort orders and page sizes
  Page,          \* page numbers, from 1
  NoData,        \* null, before the first answer
  MAX_RETRIES,   \* attempts per request
  MaxMoves,      \* bound: what the reader does
  MaxVersion     \* bound: changes to the records

ASSUME LoaderAssumption ==
  /\ 1 \in Page /\ Page \subseteq Nat
  /\ NoData \notin [query : [page : Page, filter : Filter, search : Term], version : Nat]
  /\ MAX_RETRIES \in Nat \ {0}
  /\ MaxMoves \in Nat /\ MaxVersion \in Nat

VARIABLES
  search, debouncedSearch, filter, page,
  resetDue,      \* the effect that goes back to page 1 has still to run
  fetchId,       \* fetchIdRef
  requests,      \* requests in flight
  data, loading, error,
  version,       \* of the records on the server
  askedAt,       \* the version when the last load began
  asked,         \* the query of the last load
  saves,         \* handlers waiting for their call, by the query they began under
  stray,         \* history: the last load was a reload of a query left since
  moves

listVars == <<search, debouncedSearch, filter, page, resetDue>>
dataVars == <<fetchId, requests, data, loading, error, askedAt, asked, stray>>
loadVars == <<askedAt, asked, stray, saves, version, moves>>     \* what no request touches
vars == <<listVars, dataVars, saves, version, moves>>

-----------------------------------------------------------------------------
Query == [page : Page, filter : Filter, search : Term]

QueryOf(p, f, s) == [page |-> p, filter |-> f, search |-> s]
CurrentQuery == QueryOf(page, filter, debouncedSearch)

(* A request is on its way to the server until it is served, and carries   *)
(* the version it was served with until it is delivered.                   *)
Unserved == [served |-> FALSE, version |-> 0]
Request == [id : Nat, query : Query, attempt : 1 .. MAX_RETRIES, aborted : BOOLEAN,
            served : BOOLEAN, version : Nat]

Picture == [query : Query, version : Nat]

LoaderTypeOK ==
  /\ search \in Term /\ debouncedSearch \in Term /\ filter \in Filter /\ page \in Page
  /\ resetDue \in BOOLEAN
  /\ fetchId \in Nat
  /\ requests \subseteq Request
  /\ data \in Picture \union {NoData}
  /\ loading \in BOOLEAN /\ error \in BOOLEAN
  /\ version \in Nat /\ askedAt \in Nat /\ moves \in Nat
  /\ asked \in Query /\ saves \in [Query -> Nat] /\ stray \in BOOLEAN

-----------------------------------------------------------------------------
NewRequest(id, q) ==
  [id |-> id, query |-> q, attempt |-> 1, aborted |-> FALSE,
   served |-> FALSE, version |-> 0]

(* controllerRef.current.abort(): only the latest request can be current. *)
AbortCurrent == {[r EXCEPT !.aborted = TRUE] : r \in requests}

LoadKeepingError(q, left) ==
  /\ fetchId' = fetchId + 1
  /\ requests' = AbortCurrent \union {NewRequest(fetchId + 1, q)}
  /\ loading' = TRUE
  /\ askedAt' = version /\ asked' = q /\ stray' = left
  /\ UNCHANGED <<data, error>>

Load(q, left) ==
  /\ fetchId' = fetchId + 1
  /\ requests' = AbortCurrent \union {NewRequest(fetchId + 1, q)}
  /\ loading' = TRUE
  /\ error' = FALSE
  /\ askedAt' = version /\ asked' = q /\ stray' = left
  /\ UNCHANGED data

LoaderInit ==
  /\ search \in Term /\ debouncedSearch = search
  /\ filter \in Filter /\ page = 1 /\ resetDue = FALSE
  /\ fetchId = 1
  /\ requests = {NewRequest(1, CurrentQuery)}
  /\ data = NoData /\ loading = TRUE /\ error = FALSE
  /\ version = 0 /\ askedAt = 0 /\ moves = 0
  /\ asked = CurrentQuery /\ saves = [q \in Query |-> 0] /\ stray = FALSE

RerenderQuietly(p, f, s) == UNCHANGED dataVars

(* A render whose query differs from the last one loads it; the effect    *)
(* on [filters, search, sort] goes back to page 1 in a render of its own,  *)
(* so that the new filter is first asked for at the old page.              *)
Rerender(p, f, s) ==
  IF QueryOf(p, f, s) = CurrentQuery THEN UNCHANGED dataVars ELSE Load(QueryOf(p, f, s), FALSE)

Moved == moves < MaxMoves /\ moves' = moves + 1

Type(s) ==
  /\ Moved /\ s # search
  /\ search' = s
  /\ UNCHANGED <<debouncedSearch, filter, page, resetDue, dataVars, saves, version>>

(* The timer of the last keystroke; the ones before it were cleared. *)
Debounce ==
  /\ search # debouncedSearch
  /\ debouncedSearch' = search
  /\ resetDue' = TRUE
  /\ Rerender(page, filter, search)
  /\ UNCHANGED <<search, filter, page, saves, version, moves>>

SetFilter(f) ==
  /\ Moved /\ f # filter
  /\ filter' = f
  /\ resetDue' = TRUE
  /\ Rerender(page, f, debouncedSearch)
  /\ UNCHANGED <<search, debouncedSearch, page, saves, version>>

ResetPage ==
  /\ resetDue
  /\ resetDue' = FALSE
  /\ page' = 1
  /\ Rerender(1, filter, debouncedSearch)
  /\ UNCHANGED <<search, debouncedSearch, filter, saves, version, moves>>

SetPage(p) ==
  /\ Moved /\ p # page
  /\ page' = p
  /\ Rerender(p, filter, debouncedSearch)
  /\ UNCHANGED <<search, debouncedSearch, filter, resetDue, saves, version>>

(* The tab becomes visible again, or the retry button of the error: both   *)
(* are of the last render.                                                 *)
Reload ==
  /\ Moved
  /\ Load(CurrentQuery, FALSE)
  /\ UNCHANGED <<listVars, saves, version>>

(* A button of a row: its handler holds on to the reload of this render.   *)
BeginSave ==
  /\ Moved
  /\ saves' = [saves EXCEPT ![CurrentQuery] = @ + 1]
  /\ UNCHANGED <<listVars, dataVars, version>>

(* Its call is answered, and it reloads the query it began under.          *)
Saved(q) ==
  /\ saves[q] > 0
  /\ saves' = [saves EXCEPT ![q] = @ - 1]
  /\ Load(q, q # CurrentQuery)
  /\ UNCHANGED <<listVars, version, moves>>

(* Its call fails: a toast, and nothing is loaded.                         *)
SaveFails(q) ==
  /\ saves[q] > 0
  /\ saves' = [saves EXCEPT ![q] = @ - 1]
  /\ UNCHANGED <<listVars, dataVars, version, moves>>

-----------------------------------------------------------------------------
(* Somebody saves a record of the list. *)
RecordsChange ==
  /\ version < MaxVersion
  /\ version' = version + 1
  /\ UNCHANGED <<listVars, dataVars, saves, moves>>

Serve(r) ==
  /\ ~r.served
  /\ requests' = (requests \ {r}) \union {[r EXCEPT !.served = TRUE, !.version = version]}
  /\ UNCHANGED <<listVars, fetchId, data, loading, error, loadVars>>

RetryForever(r) ==
  /\ ~r.served
  /\ requests' = (requests \ {r}) \union {[r EXCEPT !.attempt = @ + 1]}
  /\ UNCHANGED <<listVars, fetchId, data, loading, error, loadVars>>

(* The network loses the request or its answer, or the server fails: the   *)
(* client sends it again, and a read leaves nothing behind.                *)
Retry(r) ==
  /\ ~r.served /\ r.attempt < MAX_RETRIES
  /\ requests' = (requests \ {r}) \union {[r EXCEPT !.attempt = @ + 1]}
  /\ UNCHANGED <<listVars, fetchId, data, loading, error, loadVars>>

LatestAlways(r) == TRUE
Latest(r) == r.id = fetchId

FinishSilently(r) ==
  /\ requests' = requests \ {r}
  /\ UNCHANGED <<loading, listVars, fetchId, loadVars>>

(* The finally branch. *)
Finish(r) ==
  /\ requests' = requests \ {r}
  /\ loading' = IF Latest(r) THEN FALSE ELSE loading
  /\ UNCHANGED <<listVars, fetchId, loadVars>>

DeliverLate(r) ==
  /\ r.served
  /\ data' = [query |-> r.query, version |-> r.version]
  /\ Finish(r)
  /\ UNCHANGED error

(* Not every page hands the signal on, so the answer of an aborted        *)
(* request may still arrive, and its number decides.                       *)
Deliver(r) ==
  /\ r.served
  /\ data' = IF ~Latest(r) \/ r.aborted THEN data
             ELSE [query |-> r.query, version |-> r.version]
  /\ Finish(r)
  /\ UNCHANGED error

Fail(r) ==
  /\ r.attempt = MAX_RETRIES \/ r.served      \* given up, or refused by the server
  /\ error' = IF Latest(r) THEN TRUE ELSE error
  /\ Finish(r)
  /\ UNCHANGED data

Aborted(r) ==
  /\ r.aborted
  /\ Finish(r)
  /\ UNCHANGED <<data, error>>

Reader ==
  \/ \E s \in Term : Type(s)
  \/ \E f \in Filter : SetFilter(f)
  \/ \E p \in Page : SetPage(p)
  \/ Reload
  \/ BeginSave

Handlers == \E q \in Query : Saved(q) \/ SaveFails(q)

Network ==
  \E r \in requests : Serve(r) \/ Retry(r) \/ Deliver(r) \/ Fail(r) \/ Aborted(r)

LoaderNext == Reader \/ Handlers \/ RecordsChange \/ Debounce \/ ResetPage \/ Network

(* Timers and effects run, and every request ends: fetch answers or       *)
(* rejects, and it is repeated MAX_RETRIES times at the most.  Nothing is  *)
(* assumed of the reader or of the records.                                *)
LoaderSpec ==
  /\ LoaderInit /\ [][LoaderNext]_vars
  /\ WF_vars(Debounce) /\ WF_vars(ResetPage) /\ WF_vars(Network)

-----------------------------------------------------------------------------
(* Once the spinner is gone and there is no error, the rows are those of   *)
(* the search, filter and page on the screen (useData's fetchId and        *)
(* abort).  It is what the hook's comment promises; a handler's reload of  *)
(* the query it began under breaks it.                                     *)
ShownIsAsked ==
  ~loading /\ ~error => data # NoData /\ data.query = CurrentQuery

(* In whatever order requests and handlers are answered, nothing else      *)
(* does: the rows under the current query are wrong only where the last    *)
(* load was the reload of a handler begun under a query left since.        *)
OnlyStaleReloadsMislead ==
  ~loading /\ ~error => data # NoData /\ (data.query = CurrentQuery \/ stray)

(* After reload() has settled the list shows at least what was saved       *)
(* before it: a picture taken earlier never stands in for it.              *)
ReloadShowsTheSave ==
  ~loading /\ ~error => data.version >= askedAt

(* The spinner turns exactly as long as the latest request is on its way;  *)
(* an aborted or a late one neither stops nor keeps it.                    *)
SpinnerIsTheLatest ==
  loading <=> \E r \in requests : Latest(r) /\ ~r.aborted

(* The rows on the screen never go back to an older picture. *)
NeverOlder ==
  [][data # NoData => data' # NoData /\ data'.version >= data.version]_vars

(* What was typed last is found, or the reader is told it cannot be: the   *)
(* debounce, the interim request at the old page and the retries end.      *)
(* Only the reload of a handler begun under another query may end the wait *)
(* with that one's rows.                                                   *)
SearchIsAnswered ==
  \A s \in Term : search = s ~>
    search # s \/ (~loading /\ (error \/ data.query.search = s \/ stray))

(* Refinement: see Screen.  What is asked is the query of the last load,   *)
(* so only the last load, begun by whomever, updates the screen, and it    *)
(* settles.                                                                *)
Question == Query
Promise == INSTANCE Screen
  WITH Nothing <- NoData, asked <- asked, busy <- loading, failed <- error,
       shown <- IF data = NoData THEN NoData ELSE data.query
KeepsItsPromise == Promise!Spec
=============================================================================
