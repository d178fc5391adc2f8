------------------------------ MODULE InvoiceDesk ------------------------------
(***************************************************************************)
(* The invoice page and the endpoints behind it.  One desk edits invoices  *)
(* and takes payments in two dialogs (pages/Invoices.jsx); its calls go    *)
(* through the retrying client (api/client.js); another user asks the same *)
(* endpoints (routers/invoices.py) for the same rows.  An endpoint reads   *)
(* what it checks and writes later in the same transaction, with no lock   *)
(* on the row, so a request is two steps of the server: Check and Commit.  *)
(* A call the client has given up, to send it again or for good, stays at  *)
(* the server and may be served at any later time, beside its own retry.   *)
(***************************************************************************)
EXTENDS Sums, FiniteSets

CONSTANTS Invoices, Nobody,
          Totals,        \* the totals an edit can give an invoice
          Amounts,       \* the payments that can be typed at the desk
          OtherAmounts,  \* those another user can send
          MaxAttempts,   \* MAX_RETRIES of the client
          MaxOpens,      \* how often the desk opens a dialog
          MaxSaves,      \* how often it saves the form
          MaxPayments,   \* how often it records a payment
          MaxOthers      \* how many requests the other user makes

ASSUME DeskAssumption ==
  /\ Nobody \notin Invoices
  /\ Totals \subseteq Nat \ {0} /\ Amounts \cup OtherAmounts \subseteq Nat \ {0}
  /\ {MaxOpens, MaxSaves, MaxPayments, MaxOthers} \subseteq Nat /\ MaxAttempts \in Nat \ {0}

VARIABLES
  rows,      \* the invoices with their payments
  jobs,      \* for each caller, its outstanding request
  left,      \* the attempts given up by the client and not served yet
  sheet,     \* the edit dialog: editId, editVersion, amountsLocked, form
  loads,     \* the invoices being fetched for it (two readings of one count once)
  till,      \* the payment dialog: payModal, payForm, paySubmitting
  refreshes, \* the invoices being fetched for the payment dialog
  used,      \* how often each bounded step was taken
  strayed,   \* an answer reached a dialog that was not open for its invoice
  raced      \* two requests for one invoice were between check and write at once

vars == <<rows, jobs, left, sheet, loads, till, refreshes, used, strayed, raced>>
screen == <<sheet, loads, till, refreshes, used, strayed>>

Callers == {"save", "pay", "other"}
Kinds   == {"edit", "create", "pay", "delete", "void", "unvoid"}
Answers == {"ok", "conflict", "refused", "dead"}
Stages  == {"idle", "sent", "checked"} \cup Answers

\* The calls made, those the client has given up among them.
Calls == {jobs[c] : c \in Callers} \cup left

\* A deleted payment keeps its place and its key, and counts no more.
Live(row) == {n \in DOMAIN row.paid : row.paid[n].amount > 0}
Paid(row) == SeqSum([n \in DOMAIN row.paid |-> row.paid[n].amount])
Remaining(i) == rows[i].total - Paid(rows[i])
KnownKey(key) == \E i \in Invoices : \E n \in Live(rows[i]) : rows[i].paid[n].key = key

Spend(what) == used' = [used EXCEPT ![what] = @ + 1]
Serial(caller) == <<caller, used[caller] + 1>>

Blank == [open |-> FALSE, loading |-> FALSE, id |-> Nobody, version |-> 0,
          locked |-> FALSE, about |-> Nobody, total |-> 1]
Shut  == [shown |-> Nobody, loading |-> FALSE, amount |-> 0, meant |-> Nobody,
          owing |-> FALSE, submitting |-> FALSE]

Unsent == [stage |-> "idle", attempt |-> 1, kind |-> "create", id |-> Nobody,
           serial |-> <<"other", 0>>, version |-> 0, about |-> Nobody, total |-> 1,
           amount |-> 0, meant |-> Nobody, nth |-> 0, seen |-> 0, locked |-> FALSE]

\* Invoices as they were made, some of them voided since.
Init ==
  /\ \E voided \in SUBSET Invoices :
       rows = [i \in Invoices |-> [total |-> 2, version |-> IF i \in voided THEN 2 ELSE 1, about |-> i,
                                  voided |-> i \in voided, by |-> <<"other", 0>>, paid |-> <<>>]]
  /\ jobs = [c \in Callers |-> Unsent] /\ left = {}
  /\ sheet = Blank /\ loads = {}
  /\ till = Shut /\ refreshes = {}
  /\ used = [w \in {"open"} \cup Callers |-> 0]
  /\ strayed = FALSE /\ raced = FALSE

---------------------------------------------------------------------------
(* The server.                                                             *)

Request(kind, i, caller) ==
  [stage |-> "sent", attempt |-> 1, kind |-> kind, id |-> i, serial |-> Serial(caller),
   version |-> 0, about |-> i, total |-> 1, amount |-> 0, meant |-> i,
   nth |-> 0, seen |-> 0, locked |-> FALSE]

Edit(kind, i, caller, version, about, total) ==
  [Request(kind, i, caller) EXCEPT !.version = version, !.about = about, !.total = total]

Payment(i, caller, amount, meant) ==
  [Request("pay", i, caller) EXCEPT !.amount = amount, !.meant = meant]

Deletion(i, caller, n) == [Request("delete", i, caller) EXCEPT !.nth = n]

\* Mutant: the version that came with the form is not compared.
VerdictUnversioned(j) ==
  LET row == rows[j.id] IN
  CASE j.kind \in {"edit", "void"} -> IF row.voided THEN "refused" ELSE "checked"
    [] j.kind = "pay"    -> IF row.voided THEN "refused"
                            ELSE IF KnownKey(j.serial) THEN "conflict"
                            ELSE IF j.amount > Remaining(j.id) THEN "refused" ELSE "checked"
    [] j.kind = "delete" -> IF row.voided \/ j.nth \notin Live(row) THEN "refused" ELSE "checked"
    [] j.kind = "unvoid" -> IF row.voided THEN "checked" ELSE "refused"

\* What an endpoint says of the row it has just read.
Verdict(j) ==
  LET row == rows[j.id] IN
  CASE j.kind = "edit"   -> IF row.voided THEN "refused"
                            ELSE IF j.version # row.version THEN "conflict" ELSE "checked"
    [] j.kind = "pay"    -> IF row.voided THEN "refused"
                            ELSE IF KnownKey(j.serial) THEN "conflict"
                            ELSE IF j.amount > Remaining(j.id) THEN "refused" ELSE "checked"
    [] j.kind = "delete" -> IF row.voided \/ j.nth \notin Live(row) THEN "refused" ELSE "checked"
    [] j.kind = "void"   -> IF row.voided THEN "refused" ELSE "checked"
    [] j.kind = "unvoid" -> IF row.voided THEN "checked" ELSE "refused"

\* The call after its endpoint has looked: it remembers the version of the row
\* and whether there was a payment.
Looked(j) ==
  IF j.kind = "create" THEN [j EXCEPT !.stage = "checked"]
  ELSE [j EXCEPT !.stage = Verdict(j), !.seen = rows[j.id].version,
                 !.locked = Live(rows[j.id]) # {}]

\* A different request for the same invoice is between its check and its write.
Overlaps(j) ==
  \E d \in Calls : /\ d.stage = "checked" /\ d.serial # j.serial
                   /\ d.id = j.id /\ d.id # Nobody

\* The caller who still waits learns what was said.
Check(c) ==
  /\ jobs[c].stage = "sent"
  /\ jobs' = [jobs EXCEPT ![c] = Looked(@)]
  /\ raced' = (raced \/ Overlaps(jobs[c]))
  /\ UNCHANGED <<rows, left, screen>>

\* Nobody hears of a call given up that ends at its check.
CheckLeft(j) ==
  /\ j \in left /\ j.stage = "sent"
  /\ left' = (left \ {j}) \cup {k \in {Looked(j)} : k.stage = "checked"}
  /\ raced' = (raced \/ Overlaps(j))
  /\ UNCHANGED <<rows, jobs, screen>>

\* Mutant: an edit changes the total of a paid invoice.
EditedUnlocked(row, j) ==
  [row EXCEPT !.about = j.about, !.version = @ + 1, !.by = j.serial, !.total = j.total]

\* Once a payment exists only the words of the invoice may change.
Edited(row, j) ==
  [row EXCEPT !.about = j.about, !.version = @ + 1, !.by = j.serial,
              !.total = IF j.locked THEN @ ELSE j.total]
\* Mutant: the void leaves the version alone.
VoidedSameVersion(row, j) == [row EXCEPT !.voided = TRUE, !.by = j.serial]
Voided(row, j)   == [row EXCEPT !.voided = TRUE, !.version = @ + 1, !.by = j.serial]
Unvoided(row, j) == [row EXCEPT !.voided = FALSE, !.version = @ + 1, !.by = j.serial]
PaidBy(row, j) ==
  [row EXCEPT !.paid = Append(@, [key |-> j.serial, amount |-> j.amount, meant |-> j.meant])]
Deleted(row, j) == [row EXCEPT !.paid[j.nth].amount = 0]

\* The update names the version it read; the other writes name only the row.
Clashes(j) == j.kind = "edit" /\ rows[j.id].version # j.seen

\* Mutant: nothing but the endpoint's look keeps a key from being used twice.
OutcomeWithoutIndex(j) == IF Clashes(j) THEN "conflict" ELSE "ok"

\* The write may still find the version moved, or its key in the unique index.
Outcome(j) ==
  IF Clashes(j) THEN "conflict"
  ELSE IF j.kind = "pay" /\ KnownKey(j.serial) THEN "refused" ELSE "ok"

Write(j) ==
  IF Outcome(j) # "ok" \/ j.kind = "create" THEN UNCHANGED rows
  ELSE rows' = [rows EXCEPT ![j.id] =
         CASE j.kind = "edit"   -> Edited(@, j)
           [] j.kind = "pay"    -> PaidBy(@, j)
           [] j.kind = "delete" -> Deleted(@, j)
           [] j.kind = "void"   -> Voided(@, j)
           [] j.kind = "unvoid" -> Unvoided(@, j)]

Commit(c) ==
  /\ jobs[c].stage = "checked"
  /\ jobs' = [jobs EXCEPT ![c].stage = Outcome(jobs[c])]
  /\ Write(jobs[c])
  /\ UNCHANGED <<left, screen, raced>>

CommitLeft(j) ==
  /\ j \in left /\ j.stage = "checked"
  /\ left' = left \ {j}
  /\ Write(j)
  /\ UNCHANGED <<jobs, screen, raced>>

\* The same body again, whatever the method, until the client gives up.
Again(j) ==
  IF j.attempt < MaxAttempts
  THEN [j EXCEPT !.stage = "sent", !.attempt = @ + 1, !.seen = 0, !.locked = FALSE]
  ELSE [j EXCEPT !.stage = "dead"]

\* The client loses touch with an attempt, wherever it is or whatever it was
\* answered.  The attempt is served all the same if the server has it.
Lose(c) ==
  /\ jobs[c].stage \notin {"idle", "dead"}
  /\ left' = left \cup {j \in {jobs[c]} : j.stage \in {"sent", "checked"}}
  /\ jobs' = [jobs EXCEPT ![c] = Again(@)]
  /\ UNCHANGED <<rows, screen, raced>>

\* Another user works on the same invoices, from whatever version they opened.
OtherAsks ==
  /\ jobs["other"].stage = "idle" /\ used["other"] < MaxOthers
  /\ Spend("other")
  /\ \E i \in Invoices :
       \/ \E kind \in {"void", "unvoid"} :
            jobs' = [jobs EXCEPT !["other"] = Request(kind, i, "other")]
       \/ \E v \in 1..rows[i].version, t \in Totals :
            jobs' = [jobs EXCEPT !["other"] = Edit("edit", i, "other", v, i, t)]
       \/ \E amount \in OtherAmounts :
            jobs' = [jobs EXCEPT !["other"] = Payment(i, "other", amount, i)]
       \/ \E n \in DOMAIN rows[i].paid :
            jobs' = [jobs EXCEPT !["other"] = Deletion(i, "other", n)]
  /\ UNCHANGED <<rows, left, sheet, loads, till, refreshes, strayed, raced>>

OtherHears ==
  /\ jobs["other"].stage \in Answers
  /\ jobs' = [jobs EXCEPT !["other"] = Unsent]
  /\ UNCHANGED <<rows, left, sheet, loads, till, refreshes, used, strayed, raced>>

---------------------------------------------------------------------------
(* The edit dialog.  A dialog covers the list, so a row is opened only     *)
(* while no dialog is open.                                                *)

NoDialog == ~sheet.open /\ till.shown = Nobody

OpenCreate ==
  /\ NoDialog /\ used["open"] < MaxOpens
  /\ sheet' = [sheet EXCEPT !.open = TRUE, !.id = Nobody, !.about = Nobody, !.total = 1]
  /\ Spend("open")
  /\ UNCHANGED <<rows, jobs, left, loads, till, refreshes, strayed, raced>>

\* A voided invoice is not opened, as far as the list on the screen knows; the
\* list may be older than the row, so any invoice may be.
OpenEdit(i) ==
  /\ NoDialog /\ used["open"] < MaxOpens
  /\ sheet' = [sheet EXCEPT !.open = TRUE, !.loading = TRUE, !.id = i]
  /\ loads' = loads \cup {i}
  /\ Spend("open")
  /\ UNCHANGED <<rows, jobs, left, till, refreshes, strayed, raced>>

\* The answer fills the form, whatever the dialog is open for by now.
FormArrives(i) ==
  /\ i \in loads
  /\ loads' = loads \ {i}
  /\ strayed' = (strayed \/ i # sheet.id)
  /\ sheet' = [sheet EXCEPT !.loading = FALSE, !.version = rows[i].version,
                            !.locked = Live(rows[i]) # {},
                            !.about = rows[i].about, !.total = rows[i].total]
  /\ UNCHANGED <<rows, jobs, left, till, refreshes, used, raced>>

\* Mutant: a form that could not be loaded stays open.
FormFailsOpen(i) ==
  /\ i \in loads
  /\ loads' = loads \ {i}
  /\ sheet' = [sheet EXCEPT !.loading = FALSE]
  /\ UNCHANGED <<rows, jobs, left, till, refreshes, used, strayed, raced>>

FormFails(i) ==
  /\ i \in loads
  /\ loads' = loads \ {i}
  /\ sheet' = [sheet EXCEPT !.loading = FALSE, !.open = FALSE]
  /\ UNCHANGED <<rows, jobs, left, till, refreshes, used, strayed, raced>>

CloseSheet ==
  /\ sheet.open
  /\ sheet' = [sheet EXCEPT !.open = FALSE, !.id = Nobody, !.about = Nobody, !.total = 1]
  /\ UNCHANGED <<rows, jobs, left, loads, till, refreshes, used, strayed, raced>>

TypeTotal(t) ==
  /\ sheet.open /\ ~sheet.loading /\ ~sheet.locked
  /\ sheet' = [sheet EXCEPT !.total = t]
  /\ UNCHANGED <<rows, jobs, left, loads, till, refreshes, used, strayed, raced>>

Save ==
  /\ sheet.open /\ ~sheet.loading /\ jobs["save"].stage = "idle" /\ used["save"] < MaxSaves
  /\ jobs' = [jobs EXCEPT !["save"] =
       Edit(IF sheet.id = Nobody THEN "create" ELSE "edit", sheet.id, "save",
            sheet.version, sheet.about, sheet.total)]
  /\ Spend("save")
  /\ UNCHANGED <<rows, left, sheet, loads, till, refreshes, strayed, raced>>

\* Success closes whatever form is open; a refusal leaves it for another try.
SaveAnswered ==
  /\ jobs["save"].stage \in Answers
  /\ jobs' = [jobs EXCEPT !["save"] = Unsent]
  /\ sheet' = [sheet EXCEPT !.open = @ /\ jobs["save"].stage # "ok"]
  /\ UNCHANGED <<rows, left, loads, till, refreshes, used, strayed, raced>>

---------------------------------------------------------------------------
(* The payment dialog.                                                     *)

\* Mutant: the amount typed for the last invoice stays in the form.
OpenPayKeepingAmount(i) ==
  /\ NoDialog /\ used["open"] < MaxOpens
  /\ till' = [till EXCEPT !.shown = i, !.loading = TRUE, !.owing = Remaining(i) > 0]
  /\ refreshes' = refreshes \cup {[id |-> i, opening |-> TRUE]}
  /\ Spend("open")
  /\ UNCHANGED <<rows, jobs, left, sheet, loads, strayed, raced>>

OpenPay(i) ==
  /\ NoDialog /\ used["open"] < MaxOpens
  /\ till' = [till EXCEPT !.shown = i, !.loading = TRUE, !.amount = 0, !.meant = Nobody,
                          !.owing = Remaining(i) > 0]
  /\ refreshes' = refreshes \cup {[id |-> i, opening |-> TRUE]}
  /\ Spend("open")
  /\ UNCHANGED <<rows, jobs, left, sheet, loads, strayed, raced>>

ClosePay ==
  /\ till.shown # Nobody
  /\ till' = [till EXCEPT !.shown = Nobody]
  /\ UNCHANGED <<rows, jobs, left, sheet, loads, refreshes, used, strayed, raced>>

\* payModal becomes the invoice of the answer; the form is left as it is.
Refreshed(r) ==
  /\ r \in refreshes
  /\ refreshes' = refreshes \ {r}
  /\ strayed' = (strayed \/ r.id # till.shown)
  /\ \E answered \in BOOLEAN :
       till' = [till EXCEPT !.shown = IF answered THEN r.id ELSE @,
                            !.owing = IF answered THEN Remaining(r.id) > 0 ELSE @,
                            !.loading = @ /\ ~r.opening,
                            !.submitting = @ /\ r.opening]
  /\ UNCHANGED <<rows, jobs, left, sheet, loads, used, raced>>

TypeAmount(a) ==
  /\ till.shown # Nobody /\ ~till.loading /\ till.owing
  /\ till' = [till EXCEPT !.amount = a, !.meant = till.shown]
  /\ UNCHANGED <<rows, jobs, left, sheet, loads, refreshes, used, strayed, raced>>

\* handleAddPayment: a fresh key for every submit.
Pay ==
  /\ till.shown # Nobody /\ ~till.loading /\ till.owing /\ ~till.submitting
  /\ till.amount > 0 /\ used["pay"] < MaxPayments
  /\ till' = [till EXCEPT !.submitting = TRUE]
  /\ jobs' = [jobs EXCEPT !["pay"] =
       Payment(till.shown, "pay", till.amount, till.meant)]
  /\ Spend("pay")
  /\ UNCHANGED <<rows, left, sheet, loads, refreshes, strayed, raced>>

\* Mutant: a refused payment leaves the button disabled.
PayAnsweredBusy ==
  /\ jobs["pay"].stage \in Answers
  /\ jobs' = [jobs EXCEPT !["pay"] = Unsent]
  /\ IF jobs["pay"].stage = "ok"
     THEN /\ till' = [till EXCEPT !.amount = 0]
          /\ refreshes' = refreshes \cup {[id |-> jobs["pay"].id, opening |-> FALSE]}
     ELSE UNCHANGED <<till, refreshes>>
  /\ UNCHANGED <<rows, left, sheet, loads, used, strayed, raced>>

PayAnswered ==
  /\ jobs["pay"].stage \in Answers
  /\ jobs' = [jobs EXCEPT !["pay"] = Unsent]
  /\ IF jobs["pay"].stage = "ok"
     THEN /\ till' = [till EXCEPT !.amount = 0]
          /\ refreshes' = refreshes \cup {[id |-> jobs["pay"].id, opening |-> FALSE]}
     ELSE till' = [till EXCEPT !.submitting = FALSE] /\ UNCHANGED refreshes
  /\ UNCHANGED <<rows, left, sheet, loads, used, strayed, raced>>

Server ==
  \/ \E c \in Callers : Check(c) \/ Commit(c)
  \/ \E j \in left : CheckLeft(j) \/ CommitLeft(j)
Next ==
  \/ Server
  \/ \E c \in Callers : Lose(c)
  \/ OtherAsks \/ OtherHears
  \/ OpenCreate \/ CloseSheet \/ Save \/ SaveAnswered
  \/ \E i \in Invoices : OpenEdit(i) \/ FormArrives(i) \/ FormFails(i) \/ OpenPay(i)
  \/ \E t \in Totals : TypeTotal(t)
  \/ \E a \in Amounts : TypeAmount(a)
  \/ \E r \in refreshes : Refreshed(r)
  \/ ClosePay \/ Pay \/ PayAnswered

Spec == Init /\ [][Next]_vars
---------------------------------------------------------------------------
(* Properties.                                                             *)

\* Type invariant.  An edit that lands late, a dialog reopened by an answer
\* and a request sent again keep the page and the rows well formed.
DeskTypeOK ==
  /\ \A i \in Invoices :
       /\ rows[i].total \in Totals \cup {2} /\ rows[i].version \in Nat \ {0}
       /\ rows[i].about \in Invoices /\ rows[i].voided \in BOOLEAN
  /\ \A c \in Callers : jobs[c].stage \in Stages
  /\ \A j \in left : j.stage \in {"sent", "checked"}
  /\ \A j \in Calls :
       /\ j.attempt \in 1..MaxAttempts /\ j.kind \in Kinds
       /\ j.kind # "create" => j.id \in Invoices
  /\ sheet.id \in Invoices \cup {Nobody} /\ loads \subseteq Invoices
  /\ sheet.about = Nobody => sheet.id = Nobody \/ sheet.loading \/ ~sheet.open
  /\ till.shown \in Invoices \cup {Nobody} /\ till.amount \in Amounts \cup {0}

\* An edit of an existing invoice replaces exactly the version its form was
\* filled from, whatever was saved, voided or restored between the two and
\* between the check and the write of the request, and however late the write
\* of a call the client gave up comes ("Optimistic locking: every PUT includes
\* the current version").  The call served by a step is the one that leaves Calls.
NoLostEdit ==
  [][\A j \in Calls \ Calls' :
       j.stage = "checked" /\ j.kind = "edit" /\ rows'[j.id] # rows[j.id]
       => rows[j.id].version = j.version]_vars

\* The words and the total of a voided invoice stay as they were, although an
\* edit may have passed its check before the void was written.
VoidedStaysPut ==
  [][\A i \in Invoices : rows[i].voided /\ rows'[i].voided =>
       rows'[i].about = rows[i].about /\ rows'[i].total = rows[i].total]_vars

\* No more payments stand than the payment button was pressed, however often
\* the client sends each and however its attempts overlap at the server
\* ("Payment idempotency": the key of the submit goes with every attempt).
SubmitPaysOnce ==
  \A c \in Callers :
    Cardinality(UNION {{<<i, n>> : n \in {m \in Live(rows[i]) : rows[i].paid[m].key[1] = c}}
                       : i \in Invoices}) <= used[c]

\* The payment button is disabled only while a payment, or the reading of the
\* invoice after it, is still under way, whatever was closed, opened, lost or
\* refused since it was pressed: the desk can always record the next one.
BusyHasReason ==
  till.submitting => \/ jobs["pay"].stage # "idle"
                     \/ \E r \in refreshes : ~r.opening

\* The words of one invoice are saved on another, or the payment meant for one
\* recorded on another, only after an answer came to a dialog that was no
\* longer open for its invoice: opening, closing, saving and paying keep the
\* two dialogs' state apart otherwise.
OnlyLateAnswersMix ==
  strayed \/ \A i \in Invoices :
    /\ rows[i].about = i
    /\ \A n \in DOMAIN rows[i].paid : rows[i].paid[n].meant = i

\* An invoice is paid beyond its total only if two requests for it were both
\* past their checks at once: one after the other, the balance a payment is
\* compared with and the lock on the total of a paid invoice hold, whatever
\* forms were opened before ("exceeds remaining balance"; "Once any payment
\* is recorded, invoice amount and line items are LOCKED").
OnlyRacesOverpay == raced \/ \A i \in Invoices : Paid(rows[i]) <= rows[i].total

\* Not so: the key of a deleted payment goes with its row, so an attempt that
\* is served after the deletion records the payment again ("the server rejects
\* exact duplicates (same key)").
DeletedStaysGone ==
  \A i \in Invoices : \A m, n \in DOMAIN rows[i].paid :
    rows[i].paid[m].key = rows[i].paid[n].key => m = n
=============================================================================
