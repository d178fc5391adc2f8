---------------------------- MODULE Loader_proofs ----------------------------
(***************************************************************************)
(* The list screen, for all terms, filters and pages, any number of        *)
(* attempts and of requests in flight, and whatever the reader does.       *)
(*                                                                         *)
(* What makes the code right is one number, fetchIdRef: the requests in    *)
(* flight have different numbers, none above the last; the one with the    *)
(* last number is for what the last load asked, was never aborted, and is  *)
(* there exactly as long as the spinner turns (Ours).  What it brings is   *)
(* no older than the load that began it, and what the screen holds while   *)
(* it waits is no newer (Ages).  Every render asks for its own query, so   *)
(* that what was asked last is what is on the screen unless a handler's    *)
(* old reload asked it (Strays).                                           *)
(***************************************************************************)
EXTENDS Loader, TLAPS

Numbers ==
  /\ \A r \in requests : r.id <= fetchId
  /\ \A r, s \in requests : r.id = s.id => r = s

Ours ==
  /\ \A r \in requests : Latest(r) => ~r.aborted /\ r.query = asked
  /\ loading <=> \E r \in requests : Latest(r)
  /\ error => ~loading

Ages ==
  /\ askedAt <= version
  /\ \A r \in requests : r.served => r.version <= version
  /\ \A r \in requests : r.served /\ Latest(r) => askedAt <= r.version
  /\ data # NoData => data.version <= version
  /\ data # NoData /\ loading => data.version <= askedAt

Strays == ~stray => asked = CurrentQuery

(* What has settled without an error answers the last load. *)
Answered == ~loading /\ ~error => data # NoData /\ data.query = asked

LoaderInv ==
  LoaderTypeOK /\ Numbers /\ Ours /\ Ages /\ Strays /\ Answered /\ ReloadShowsTheSave

---------------------------------------------------------------------------
\* What the reader asks for is a query.
LEMMA QueryForm ==
  ASSUME LoaderTypeOK
  PROVE  CurrentQuery \in Query
  BY DEF LoaderTypeOK, CurrentQuery, QueryOf, Query

\* A request carries the query and the number of the moment it is made.
LEMMA NewRequestForm ==
  ASSUME NEW n \in Nat, NEW q \in Query
  PROVE  /\ NewRequest(n, q) \in Request
         /\ NewRequest(n, q).id = n /\ NewRequest(n, q).query = q
         /\ ~NewRequest(n, q).aborted /\ ~NewRequest(n, q).served
  BY LoaderAssumption DEF NewRequest, Request

\* The answers are of their type.
LEMMA PictureForm ==
  ASSUME NEW q \in Query, NEW v \in Nat
  PROVE  /\ [query |-> q, version |-> v] \in Picture
         /\ [query |-> q, version |-> v] # NoData
  BY LoaderAssumption DEF Picture, Query

\* The list mounts with its first request still to be made.
LEMMA LoaderInitially == LoaderInit => LoaderInv
<1> SUFFICES ASSUME LoaderInit PROVE LoaderInv
  OBVIOUS
<1>1. CurrentQuery \in Query
  BY LoaderAssumption DEF LoaderInit, CurrentQuery, QueryOf, Query
<1> DEFINE r == NewRequest(1, CurrentQuery)
<1>2. /\ r \in Request /\ r.id = 1 /\ r.query = CurrentQuery /\ ~r.aborted /\ ~r.served
  BY <1>1, NewRequestForm
<1> HIDE DEF r
<1>3. /\ requests = {r} /\ fetchId = 1 /\ loading /\ ~error /\ data = NoData
      /\ asked = CurrentQuery /\ saves = [q \in Query |-> 0] /\ ~stray
  BY DEF LoaderInit, r
<1>4. LoaderTypeOK
  <2>1. requests \subseteq Request /\ asked \in Query /\ stray \in BOOLEAN
    BY <1>1, <1>2, <1>3 DEF LoaderInit
  <2>2. saves \in [Query -> Nat]
    BY <1>3
  <2> QED
    BY <1>3, <2>1, <2>2, LoaderAssumption DEF LoaderTypeOK, LoaderInit
<1>5. Numbers /\ Ours /\ Ages /\ Strays
  BY <1>2, <1>3 DEF Numbers, Ours, Ages, Strays, Latest, LoaderInit
<1> QED
  BY <1>3, <1>4, <1>5 DEF LoaderInv, Answered, ReloadShowsTheSave

---------------------------------------------------------------------------
(* The reader.                                                             *)

\* A load: what was in flight is aborted, and a request with a new number asks
\* for q; unless it is a stray one, q is what the screen shows by then.
LEMMA LoadKeeps ==
  ASSUME LoaderInv, NEW q \in Query, NEW left \in BOOLEAN, Load(q, left),
         ~left => q = CurrentQuery', saves' \in [Query -> Nat],
         search' \in Term, debouncedSearch' \in Term, filter' \in Filter, page' \in Page,
         resetDue' \in BOOLEAN, version' = version, moves' \in Nat
  PROVE  LoaderInv'
<1> DEFINE n == NewRequest(fetchId + 1, q)
<1>1. /\ fetchId \in Nat /\ requests \subseteq Request /\ version \in Nat
      /\ Numbers /\ Ages
  BY DEF LoaderInv, LoaderTypeOK
<1>2. /\ n \in Request /\ n.id = fetchId + 1 /\ n.query = q /\ ~n.aborted /\ ~n.served
  BY <1>1, NewRequestForm
<1>3. /\ fetchId' = fetchId + 1 /\ loading' = TRUE /\ error' = FALSE
      /\ askedAt' = version /\ data' = data /\ requests' = AbortCurrent \union {n}
      /\ asked' = q /\ stray' = left
  BY DEF Load
<1> HIDE DEF n
<1>4. \A r \in AbortCurrent :
        r \in Request /\ \E s \in requests : /\ r.id = s.id /\ r.served = s.served
                                             /\ r.version = s.version
                                             /\ r = [s EXCEPT !.aborted = TRUE]
  BY <1>1 DEF AbortCurrent, Request
<1>5. LoaderTypeOK'
  <2>1. requests' \subseteq Request
    BY <1>2, <1>3, <1>4
  <2>2. fetchId' \in Nat /\ askedAt' \in Nat /\ version' \in Nat
    BY <1>1, <1>3
  <2>3. /\ data' \in Picture \union {NoData} /\ loading' \in BOOLEAN /\ error' \in BOOLEAN
        /\ asked' \in Query /\ stray' \in BOOLEAN
    BY <1>3 DEF LoaderInv, LoaderTypeOK
  <2> QED
    BY <2>1, <2>2, <2>3 DEF LoaderTypeOK
<1>6. \A r \in AbortCurrent : r.id <= fetchId /\ r.id \in Nat
  BY <1>1, <1>4 DEF Numbers, Request
<1>7. Numbers'
  <2>1. \A r \in requests' : r.id <= fetchId'
    BY <1>1, <1>2, <1>3, <1>6
  <2>2. ASSUME NEW r \in AbortCurrent, NEW s \in AbortCurrent, r.id = s.id PROVE r = s
    <3>1. PICK a \in requests : r.id = a.id /\ r = [a EXCEPT !.aborted = TRUE]
      BY <1>4
    <3>2. PICK b \in requests : s.id = b.id /\ s = [b EXCEPT !.aborted = TRUE]
      BY <1>4
    <3>3. a = b
      BY <1>1, <2>2, <3>1, <3>2 DEF Numbers
    <3> QED
      BY <3>1, <3>2, <3>3
  <2>3. \A r, s \in requests' : r.id = s.id => r = s
    BY <1>1, <1>2, <1>3, <1>6, <2>2
  <2> QED
    BY <2>1, <2>3 DEF Numbers
<1>8. \A r \in requests' : Latest(r)' <=> r = n
  BY <1>1, <1>2, <1>3, <1>6 DEF Latest
<1>9. Ours'
  BY <1>2, <1>3, <1>8 DEF Ours
<1>10. Ages'
  <2>1. \A r \in requests' : r.served => r.version <= version
    BY <1>1, <1>2, <1>3, <1>4 DEF Ages
  <2> QED
    BY <1>1, <1>2, <1>3, <1>8, <2>1 DEF Ages
<1> QED
  BY <1>3, <1>5, <1>7, <1>9, <1>10 DEF LoaderInv, Strays, Answered, ReloadShowsTheSave

\* A step that loads nothing and leaves the question as it is.
LEMMA NothingLoaded ==
  ASSUME LoaderInv, UNCHANGED <<dataVars, version>>, CurrentQuery' = CurrentQuery,
         search' \in Term, debouncedSearch' \in Term, filter' \in Filter, page' \in Page,
         resetDue' \in BOOLEAN, moves' \in Nat, saves' \in [Query -> Nat]
  PROVE  LoaderInv'
<1>1. UNCHANGED <<fetchId, requests, data, loading, error, askedAt, asked, stray, version>>
  BY DEF dataVars
<1>2. LoaderTypeOK'
  BY <1>1 DEF LoaderInv, LoaderTypeOK
<1>3. Numbers' /\ Ours' /\ Ages' /\ Strays'
  BY <1>1 DEF LoaderInv, Numbers, Ours, Ages, Strays, Latest
<1> QED
  BY <1>1, <1>2, <1>3 DEF LoaderInv, Answered, ReloadShowsTheSave

\* A render asks exactly when its question is another one.
LEMMA RerenderKeeps ==
  ASSUME LoaderInv, NEW p \in Page, NEW f \in Filter, NEW s \in Term, Rerender(p, f, s),
         page' = p, filter' = f, debouncedSearch' = s, search' \in Term,
         resetDue' \in BOOLEAN, version' = version, moves' \in Nat, saves' = saves
  PROVE  LoaderInv'
<1>1. CurrentQuery' = QueryOf(p, f, s) /\ QueryOf(p, f, s) \in Query
  BY DEF CurrentQuery, QueryOf, Query
<1>2. CASE QueryOf(p, f, s) = CurrentQuery
  <2>1. UNCHANGED <<dataVars, version>>
    BY <1>2 DEF Rerender
  <2>2. saves' \in [Query -> Nat]
    BY DEF LoaderInv, LoaderTypeOK
  <2> QED
    BY <1>1, <1>2, <2>1, <2>2, NothingLoaded
<1>3. CASE QueryOf(p, f, s) # CurrentQuery
  <2>1. Load(QueryOf(p, f, s), FALSE)
    BY <1>1, <1>3 DEF Rerender
  <2>2. saves' \in [Query -> Nat]
    BY DEF LoaderInv, LoaderTypeOK
  <2> QED
    BY <1>1, <2>1, <2>2, LoadKeeps
<1> QED
  BY <1>2, <1>3

\* What the reader does makes at most one new request, the latest.
LEMMA ReaderKeeps ==
  ASSUME LoaderInv, Reader \/ Debounce \/ ResetPage \/ Handlers
  PROVE  LoaderInv'
<1>1. /\ search \in Term /\ debouncedSearch \in Term /\ filter \in Filter /\ page \in Page
      /\ resetDue \in BOOLEAN /\ moves \in Nat /\ 1 \in Page /\ CurrentQuery \in Query
      /\ saves \in [Query -> Nat]
  BY LoaderAssumption, QueryForm DEF LoaderInv, LoaderTypeOK
<1>2. Moved => moves' \in Nat
  BY <1>1 DEF Moved
<1>3. ASSUME NEW s \in Term, Type(s) PROVE LoaderInv'
  BY <1>1, <1>2, <1>3, NothingLoaded DEF Type, CurrentQuery
<1>4. ASSUME NEW f \in Filter, SetFilter(f) PROVE LoaderInv'
  BY <1>1, <1>2, <1>4, RerenderKeeps DEF SetFilter
<1>5. ASSUME NEW p \in Page, SetPage(p) PROVE LoaderInv'
  BY <1>1, <1>2, <1>5, RerenderKeeps DEF SetPage
<1>6. CASE Debounce
  BY <1>1, <1>6, RerenderKeeps DEF Debounce
<1>7. CASE ResetPage
  BY <1>1, <1>7, RerenderKeeps DEF ResetPage
<1>8. CASE Reload
  <2>1. UNCHANGED <<search, debouncedSearch, filter, page, resetDue, version>> /\ Moved
    BY <1>8 DEF Reload, listVars
  <2>2. CurrentQuery' = CurrentQuery
    BY <2>1 DEF CurrentQuery
  <2>3. Load(CurrentQuery, FALSE) /\ saves' = saves
    BY <1>8 DEF Reload
  <2> QED
    BY <1>1, <1>2, <2>1, <2>2, <2>3, LoadKeeps
<1>9. CASE BeginSave
  <2>1. saves' \in [Query -> Nat] /\ Moved
    BY <1>1, <1>9 DEF BeginSave
  <2>2. /\ UNCHANGED <<search, debouncedSearch, filter, page, resetDue>>
        /\ UNCHANGED <<dataVars, version>>
    BY <1>9 DEF BeginSave, listVars
  <2>3. CurrentQuery' = CurrentQuery
    BY <2>2 DEF CurrentQuery
  <2> QED
    BY <1>1, <1>2, <2>1, <2>2, <2>3, NothingLoaded
<1>10. ASSUME NEW q \in Query, Saved(q) PROVE LoaderInv'
  <2>1. saves' \in [Query -> Nat]
    BY <1>1, <1>10 DEF Saved
  <2>2. UNCHANGED <<search, debouncedSearch, filter, page, resetDue, version, moves>>
    BY <1>10 DEF Saved, listVars
  <2>3. CurrentQuery' = CurrentQuery
    BY <2>2 DEF CurrentQuery
  <2>4. Load(q, q # CurrentQuery)
    BY <1>10 DEF Saved
  <2> QED
    BY <1>1, <2>1, <2>2, <2>3, <2>4, LoadKeeps
<1>11. ASSUME NEW q \in Query, SaveFails(q) PROVE LoaderInv'
  <2>1. saves' \in [Query -> Nat]
    BY <1>1, <1>11 DEF SaveFails
  <2>2. /\ UNCHANGED <<search, debouncedSearch, filter, page, resetDue, moves>>
        /\ UNCHANGED <<dataVars, version>>
    BY <1>11 DEF SaveFails, listVars
  <2>3. CurrentQuery' = CurrentQuery
    BY <2>2 DEF CurrentQuery
  <2> QED
    BY <1>1, <2>1, <2>2, <2>3, NothingLoaded
<1> QED
  BY <1>3, <1>4, <1>5, <1>6, <1>7, <1>8, <1>9, <1>10, <1>11 DEF Reader, Handlers

---------------------------------------------------------------------------
(* The network.                                                            *)

\* A request that is served or sent again keeps its number, its question and
\* whether it was aborted.
LEMMA ReplaceKeeps ==
  ASSUME LoaderInv, NEW r \in requests, NEW s \in Request,
         s.id = r.id, s.query = r.query, s.aborted = r.aborted,
         s.served => askedAt <= s.version /\ s.version <= version,
         requests' = (requests \ {r}) \union {s},
         UNCHANGED <<listVars, fetchId, data, loading, error, loadVars>>
  PROVE  LoaderInv'
<1>1. UNCHANGED <<search, debouncedSearch, filter, page, resetDue,
                  fetchId, data, loading, error, askedAt, asked, stray, saves, version, moves>>
  BY DEF listVars, loadVars
<1>2. Numbers /\ Ours /\ Ages /\ Strays /\ LoaderTypeOK
  BY DEF LoaderInv
<1>3. LoaderTypeOK'
  BY <1>1, <1>2 DEF LoaderTypeOK
<1>4. CurrentQuery' = CurrentQuery /\ \A x : Latest(x)' <=> Latest(x)
  BY <1>1 DEF CurrentQuery, Latest
<1>5. Numbers'
  BY <1>1, <1>2 DEF Numbers
<1>6. Ours'
  <2>1. Latest(s) <=> Latest(r)
    BY DEF Latest
  <2>2. (\E x \in requests' : Latest(x)) <=> \E x \in requests : Latest(x)
    BY <2>1
  <2>3. \A x \in requests' : Latest(x) => ~x.aborted /\ x.query = asked
    BY <1>2, <2>1 DEF Ours
  <2> QED
    BY <1>1, <1>2, <1>4, <2>2, <2>3 DEF Ours
<1>7. Ages'
  BY <1>1, <1>2, <1>4 DEF Ages
<1> QED
  BY <1>1, <1>2, <1>3, <1>4, <1>5, <1>6, <1>7
  DEF LoaderInv, Strays, Answered, ReloadShowsTheSave

\* A request that has ended leaves the others as they are; when it was the
\* latest there is none that is, and the spinner stops.
LEMMA FinishKeeps ==
  ASSUME LoaderInv, NEW r \in requests, Finish(r),
         error' \in BOOLEAN, data' \in Picture \union {NoData},
         ~Latest(r) => UNCHANGED <<data, error>>,
         Latest(r) /\ ~error' => /\ data' # NoData /\ data'.query = asked
                                /\ askedAt <= data'.version,
         data' # NoData => data'.version <= version
  PROVE  LoaderInv'
<1>1. /\ UNCHANGED <<search, debouncedSearch, filter, page, resetDue,
                     fetchId, askedAt, asked, stray, saves, version, moves>>
      /\ requests' = requests \ {r}
      /\ loading' = IF Latest(r) THEN FALSE ELSE loading
  BY DEF Finish, listVars, loadVars
<1>2. /\ Numbers /\ Ours /\ Ages /\ Strays /\ LoaderTypeOK
      /\ Answered /\ ReloadShowsTheSave
  BY DEF LoaderInv
<1>3. LoaderTypeOK'
  BY <1>1, <1>2 DEF LoaderTypeOK
<1>4. CurrentQuery' = CurrentQuery /\ \A x : Latest(x)' <=> Latest(x)
  BY <1>1 DEF CurrentQuery, Latest
<1>5. Numbers'
  BY <1>1, <1>2 DEF Numbers
<1>6. Latest(r) => loading /\ \A x \in requests' : ~Latest(x)
  BY <1>1, <1>2 DEF Numbers, Ours, Latest
<1>7. ~Latest(r) => loading' = loading /\ UNCHANGED <<data, error>>
  BY <1>1
<1>8. Ours'
  <2>1. \A x \in requests' : Latest(x) => ~x.aborted /\ x.query = asked
    BY <1>1, <1>2 DEF Ours
  <2>2. loading' <=> \E x \in requests' : Latest(x)
    BY <1>1, <1>2, <1>6 DEF Ours
  <2>3. error' => ~loading'
    BY <1>1, <1>2, <1>7 DEF Ours
  <2> QED
    BY <1>1, <1>4, <2>1, <2>2, <2>3 DEF Ours
<1>9. Ages'
  BY <1>1, <1>2, <1>4, <1>7 DEF Ages
<1>10. Answered' /\ Strays'
  BY <1>1, <1>2, <1>4, <1>7 DEF Answered, Strays
<1>11. ReloadShowsTheSave'
  BY <1>1, <1>2, <1>7 DEF ReloadShowsTheSave
<1> QED
  BY <1>3, <1>5, <1>8, <1>9, <1>10, <1>11 DEF LoaderInv

\* What the network does changes no number.
LEMMA NetworkKeeps ==
  ASSUME LoaderInv, Network
  PROVE  LoaderInv'
<1>1. /\ requests \subseteq Request /\ version \in Nat /\ askedAt \in Nat /\ askedAt <= version
      /\ Numbers /\ Ours /\ Ages /\ LoaderTypeOK /\ CurrentQuery \in Query
  BY QueryForm DEF LoaderInv, LoaderTypeOK, Ages
<1>2. ASSUME NEW r \in requests, Serve(r) PROVE LoaderInv'
  <2> DEFINE s == [r EXCEPT !.served = TRUE, !.version = version]
  <2>1. /\ s \in Request /\ s.id = r.id /\ s.query = r.query /\ s.aborted = r.aborted
        /\ s.version = version
    BY <1>1 DEF Request
  <2>2. /\ requests' = (requests \ {r}) \union {s}
        /\ UNCHANGED <<listVars, fetchId, data, loading, error, loadVars>>
    BY <1>2 DEF Serve
  <2> HIDE DEF s
  <2> QED
    BY <1>1, <2>1, <2>2, ReplaceKeeps
<1>3. ASSUME NEW r \in requests, Retry(r) PROVE LoaderInv'
  <2> DEFINE s == [r EXCEPT !.attempt = @ + 1]
  <2>1. ~r.served /\ r.attempt + 1 \in 1 .. MAX_RETRIES
    BY <1>1, <1>3, LoaderAssumption DEF Retry, Request
  <2>2. /\ s \in Request /\ s.id = r.id /\ s.query = r.query /\ s.aborted = r.aborted
        /\ ~s.served
    BY <1>1, <2>1 DEF Request
  <2>3. /\ requests' = (requests \ {r}) \union {s}
        /\ UNCHANGED <<listVars, fetchId, data, loading, error, loadVars>>
    BY <1>3 DEF Retry
  <2> HIDE DEF s
  <2> QED
    BY <1>1, <2>2, <2>3, ReplaceKeeps
<1>4. ASSUME NEW r \in requests, Deliver(r) PROVE LoaderInv'
  <2>1. r.served /\ r.query \in Query /\ r.version \in Nat /\ Finish(r) /\ error' = error
    BY <1>1, <1>4 DEF Deliver, Request
  <2> DEFINE p == [query |-> r.query, version |-> r.version]
  <2>2. p \in Picture /\ p # NoData /\ p.query = r.query /\ p.version = r.version
    BY <2>1, PictureForm
  <2>3. data' = IF ~Latest(r) \/ r.aborted THEN data ELSE p
    BY <1>4 DEF Deliver
  <2> HIDE DEF p
  <2>4. Latest(r) => ~r.aborted /\ r.query = asked /\ askedAt <= r.version
    BY <1>1, <2>1 DEF Ours, Ages
  <2>5. r.version <= version /\ (data # NoData => data.version <= version)
    BY <1>1, <2>1 DEF Ages
  <2>6. data' \in Picture \union {NoData} /\ error' \in BOOLEAN
    BY <1>1, <2>1, <2>2, <2>3 DEF LoaderTypeOK
  <2> QED
    BY <2>1, <2>2, <2>3, <2>4, <2>5, <2>6, FinishKeeps
<1>5. ASSUME NEW r \in requests, Fail(r) PROVE LoaderInv'
  <2>1. Finish(r) /\ data' = data /\ error' = IF Latest(r) THEN TRUE ELSE error
    BY <1>5 DEF Fail
  <2>2. data' \in Picture \union {NoData} /\ error' \in BOOLEAN
    BY <1>1, <2>1 DEF LoaderTypeOK
  <2> QED
    BY <1>1, <2>1, <2>2, FinishKeeps DEF Ages
<1>6. ASSUME NEW r \in requests, Aborted(r) PROVE LoaderInv'
  <2>1. Finish(r) /\ data' = data /\ error' = error /\ ~Latest(r)
    BY <1>1, <1>6 DEF Aborted, Ours
  <2> QED
    BY <1>1, <2>1, FinishKeeps DEF Ages, LoaderTypeOK
<1> QED
  BY <1>2, <1>3, <1>4, <1>5, <1>6 DEF Network

\* A save makes a newer version and touches no request.
LEMMA RecordsKeep ==
  ASSUME LoaderInv, RecordsChange
  PROVE  LoaderInv'
<1>1. /\ UNCHANGED <<search, debouncedSearch, filter, page, resetDue, fetchId, requests,
                     data, loading, error, askedAt, asked, stray, saves, moves>>
      /\ version' = version + 1
  BY DEF RecordsChange, listVars, dataVars
<1>2. /\ LoaderTypeOK /\ version \in Nat /\ askedAt \in Nat /\ requests \subseteq Request
      /\ data \in Picture \union {NoData}
  BY DEF LoaderInv, LoaderTypeOK
<1>3. LoaderTypeOK'
  BY <1>1, <1>2 DEF LoaderTypeOK
<1>4. Numbers' /\ Ours' /\ Strays' /\ Answered' /\ ReloadShowsTheSave'
  BY <1>1 DEF LoaderInv, Numbers, Ours, Strays, Latest, CurrentQuery, Answered,
     ReloadShowsTheSave
<1>5. \A r \in requests : r.version \in Nat
  BY <1>2 DEF Request
<1>6. data # NoData => data.version \in Nat
  BY <1>2 DEF Picture
<1>7. Ages'
  BY <1>1, <1>2, <1>5, <1>6 DEF LoaderInv, Ages, Latest
<1> QED
  BY <1>3, <1>4, <1>7 DEF LoaderInv

\* Every step of reader, network and records keeps the invariant.
LEMMA LoaderStep == LoaderInv /\ [LoaderNext]_vars => LoaderInv'
<1> SUFFICES ASSUME LoaderInv, [LoaderNext]_vars PROVE LoaderInv'
  OBVIOUS
<1>1. CASE UNCHANGED vars
  <2>1. /\ UNCHANGED <<search, debouncedSearch, filter, page, resetDue, saves, moves>>
        /\ UNCHANGED <<dataVars, version>>
    BY <1>1 DEF vars, listVars
  <2>2. CurrentQuery' = CurrentQuery
    BY <2>1 DEF CurrentQuery
  <2>3. LoaderTypeOK
    BY DEF LoaderInv
  <2> QED
    BY <2>1, <2>2, <2>3, NothingLoaded DEF LoaderTypeOK
<1> QED
  BY <1>1, ReaderKeeps, NetworkKeeps, RecordsKeep DEF LoaderNext

\* The inductive invariant: at most one request is the latest, it asks for what
\* the last load asked and turns the spinner, and versions only grow (useData.js,
\* fetchIdRef).
THEOREM LoaderInductive == LoaderSpec => []LoaderInv
  BY LoaderInitially, LoaderStep, PTL DEF LoaderSpec

---------------------------------------------------------------------------
\* The states of a list screen are of their types, for any number of requests
\* in flight and of attempts.
THEOREM LoaderIsTyped == LoaderSpec => []LoaderTypeOK
<1>1. LoaderInv => LoaderTypeOK
  BY DEF LoaderInv
<1> QED
  BY <1>1, LoaderInductive, PTL

\* What is shown without spinner or error answers what is asked on the screen,
\* in whatever order requests and handlers were answered, unless the last load
\* was a handler's reload of a query left since.
THEOREM LoaderOnlyStaleReloadsMislead == LoaderSpec => []OnlyStaleReloadsMislead
<1>1. LoaderInv => OnlyStaleReloadsMislead
  BY DEF LoaderInv, Strays, Answered, OnlyStaleReloadsMislead
<1> QED
  BY <1>1, LoaderInductive, PTL

\* A settled reload shows at least what was saved before it.
THEOREM LoaderReloadShowsTheSave == LoaderSpec => []ReloadShowsTheSave
<1>1. LoaderInv => ReloadShowsTheSave
  BY DEF LoaderInv
<1> QED
  BY <1>1, LoaderInductive, PTL

\* The spinner turns exactly while the latest request is on its way.
THEOREM LoaderSpinnerIsTheLatest == LoaderSpec => []SpinnerIsTheLatest
<1>1. LoaderInv => SpinnerIsTheLatest
  BY DEF LoaderInv, Ours, SpinnerIsTheLatest
<1> QED
  BY <1>1, LoaderInductive, PTL

\* Rows are never replaced by an older picture: only the latest request may
\* show its answer, and it began when the rows were no newer than askedAt.
THEOREM LoaderNeverOlder == LoaderSpec => NeverOlder
<1>1. LoaderInv /\ [LoaderNext]_vars =>
        [data # NoData => data' # NoData /\ data'.version >= data.version]_vars
  <2> SUFFICES ASSUME LoaderInv, LoaderNext, data # NoData
               PROVE  data' # NoData /\ data'.version >= data.version
    OBVIOUS
  <2>1. /\ requests \subseteq Request /\ data \in Picture /\ askedAt \in Nat
        /\ Ours /\ Ages
    BY DEF LoaderInv, LoaderTypeOK
  <2>2. data.version \in Nat
    BY <2>1 DEF Picture
  <2>3. ASSUME data' = data PROVE data' # NoData /\ data'.version >= data.version
    BY <2>2, <2>3
  <2>4. ASSUME NEW r \in requests, Deliver(r), Latest(r), ~r.aborted
        PROVE  data' # NoData /\ data'.version >= data.version
    <3>1. r.served /\ r.query \in Query /\ r.version \in Nat
      BY <2>1, <2>4 DEF Deliver, Request
    <3>2. loading /\ askedAt <= r.version /\ data.version <= askedAt
      BY <2>1, <2>4, <3>1 DEF Ours, Ages
    <3>3. data' = [query |-> r.query, version |-> r.version]
      BY <2>4 DEF Deliver
    <3> QED
      BY <2>1, <2>2, <3>1, <3>2, <3>3, PictureForm
  <2>5. CASE Reader \/ Handlers \/ RecordsChange \/ Debounce \/ ResetPage
    BY <2>3, <2>5 DEF Reader, Handlers, Type, SetFilter, SetPage, Reload, BeginSave, Saved,
       SaveFails, RecordsChange, Debounce, ResetPage, Rerender, Load, dataVars
  <2>6. CASE Network
    BY <2>3, <2>4, <2>6 DEF Network, Serve, Retry, Deliver, Fail, Aborted, Finish
  <2> QED
    BY <2>5, <2>6 DEF LoaderNext
<1> QED
  BY <1>1, LoaderInductive, PTL DEF LoaderSpec, NeverOlder

---------------------------------------------------------------------------
(* The refinement: a load is a question asked, the answer or the failure   *)
(* of the latest request settles it, and whatever happens to any other     *)
(* request is a stutter.                                                   *)

\* What the reader does is to ask, or is invisible.
LEMMA ReaderAsks ==
  ASSUME LoaderInv, Reader \/ Handlers \/ Debounce \/ ResetPage
  PROVE  [Promise!Next]_(Promise!vars)
<1>1. CurrentQuery \in Query
  BY QueryForm DEF LoaderInv
<1>2. ASSUME NEW q \in Query, NEW left, Load(q, left) PROVE Promise!Ask
  BY <1>2 DEF Load, Promise!Ask, Question
<1>3. ASSUME UNCHANGED dataVars
      PROVE  UNCHANGED Promise!vars
  BY <1>3 DEF dataVars, Promise!vars
<1>4. ASSUME NEW p \in Page, NEW f \in Filter, NEW s \in Term, Rerender(p, f, s)
      PROVE  [Promise!Next]_(Promise!vars)
  <2>1. QueryOf(p, f, s) \in Query
    BY DEF QueryOf, Query
  <2> QED
    BY <1>2, <1>3, <1>4, <2>1 DEF Rerender, Promise!Next
<1>5. /\ debouncedSearch \in Term /\ search \in Term /\ filter \in Filter /\ page \in Page
      /\ 1 \in Page
  BY LoaderAssumption DEF LoaderInv, LoaderTypeOK
<1>6. ASSUME NEW s \in Term, Type(s) PROVE UNCHANGED Promise!vars
  BY <1>3, <1>6 DEF Type
<1>7. ASSUME NEW f \in Filter, SetFilter(f) PROVE [Promise!Next]_(Promise!vars)
  BY <1>4, <1>5, <1>7 DEF SetFilter
<1>8. ASSUME NEW p \in Page, SetPage(p) PROVE [Promise!Next]_(Promise!vars)
  BY <1>4, <1>5, <1>8 DEF SetPage
<1>9. CASE Debounce
  BY <1>4, <1>5, <1>9 DEF Debounce
<1>10. CASE ResetPage
  BY <1>4, <1>5, <1>10 DEF ResetPage
<1>11. CASE Reload
  BY <1>1, <1>2, <1>11 DEF Reload, Promise!Next
<1>12. CASE BeginSave
  BY <1>3, <1>12 DEF BeginSave
<1>13. ASSUME NEW q \in Query, Saved(q) \/ SaveFails(q) PROVE [Promise!Next]_(Promise!vars)
  BY <1>2, <1>3, <1>13 DEF Saved, SaveFails, Promise!Next
<1> QED
  BY <1>6, <1>7, <1>8, <1>9, <1>10, <1>11, <1>12, <1>13 DEF Reader, Handlers

\* What the network does is to show, to give up, or is invisible.
LEMMA NetworkSettles ==
  ASSUME LoaderInv, Network \/ RecordsChange
  PROVE  [Promise!Next]_(Promise!vars)
<1>1. requests \subseteq Request /\ Ours /\ data \in Picture \union {NoData}
  BY DEF LoaderInv, LoaderTypeOK
<1>2. CASE RecordsChange
  BY <1>2 DEF RecordsChange, dataVars, Promise!vars
<1>3. ASSUME NEW r \in requests, Serve(r) \/ Retry(r) PROVE UNCHANGED Promise!vars
  BY <1>3 DEF Serve, Retry, loadVars, Promise!vars
<1>4. ASSUME NEW r \in requests, Finish(r)
      PROVE  asked' = asked /\ loading' = IF Latest(r) THEN FALSE ELSE loading
  BY <1>4 DEF Finish, loadVars
<1>5. ASSUME NEW r \in requests, Finish(r), ~Latest(r), data' = data, error' = error
      PROVE  UNCHANGED Promise!vars
  BY <1>4, <1>5 DEF Promise!vars
<1>6. ASSUME NEW r \in requests, Deliver(r), Latest(r) PROVE Promise!Show
  <2>1. r.query = asked /\ ~r.aborted /\ loading
    BY <1>1, <1>6 DEF Ours
  <2>2. r.query \in Query /\ r.version \in Nat /\ Finish(r) /\ error' = error
    BY <1>1, <1>6 DEF Request, Deliver
  <2>3. data' = [query |-> r.query, version |-> r.version]
    BY <1>6, <2>1 DEF Deliver
  <2>4. data' # NoData /\ data'.query = r.query
    BY <2>2, <2>3, PictureForm
  <2> QED
    BY <1>4, <1>6, <2>1, <2>2, <2>4 DEF Promise!Show
<1>7. ASSUME NEW r \in requests, Fail(r), Latest(r) PROVE Promise!GiveUp
  <2>1. loading /\ Finish(r) /\ data' = data /\ error'
    BY <1>1, <1>7 DEF Ours, Fail
  <2> QED
    BY <1>4, <1>7, <2>1 DEF Promise!GiveUp
<1>8. ASSUME NEW r \in requests, Deliver(r) \/ Fail(r) \/ Aborted(r), ~Latest(r)
      PROVE  UNCHANGED Promise!vars
  BY <1>5, <1>8 DEF Deliver, Fail, Aborted
<1>9. ASSUME NEW r \in requests, Aborted(r) PROVE ~Latest(r)
  BY <1>1, <1>9 DEF Ours, Aborted
<1> QED
  BY <1>2, <1>3, <1>6, <1>7, <1>8, <1>9 DEF Network, Promise!Next, Promise!Settle

\* useData and useServerList implement the promise of a list screen: every
\* step is a load that replaces the one before it, the settlement of the last
\* load with its own answer, or invisible.
THEOREM LoaderKeepsThePromise ==
  LoaderSpec => Promise!Init /\ [][Promise!Next]_(Promise!vars)
<1>1. LoaderInit => Promise!Init
  <2> SUFFICES ASSUME LoaderInit PROVE Promise!Init
    OBVIOUS
  <2>1. CurrentQuery \in Query
    BY LoaderInitially, QueryForm DEF LoaderInv
  <2> QED
    BY <2>1 DEF LoaderInit, Promise!Init, Question
<1>2. LoaderInv /\ [LoaderNext]_vars => [Promise!Next]_(Promise!vars)
  <2> SUFFICES ASSUME LoaderInv, [LoaderNext]_vars
               PROVE  [Promise!Next]_(Promise!vars)
    OBVIOUS
  <2>1. CASE UNCHANGED vars
    BY <2>1 DEF vars, dataVars, Promise!vars
  <2> QED
    BY <2>1, ReaderAsks, NetworkSettles DEF LoaderNext
<1> QED
  BY <1>1, <1>2, LoaderInductive, PTL DEF LoaderSpec
=============================================================================
