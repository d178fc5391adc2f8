# A verification project for Quilit ERP

Quilit ERP is a business system: a FastAPI backend (`backend/`, about 34,800
lines of routers and 25,900 of services) over SQLite or PostgreSQL, a React
front end (`frontend_src/`, `mobile-web/`) and an agent that forwards the
punches of a time clock (`agent/`). This directory holds TLA+ models of its
core, the TLC runs that check them on small instances, and proofs of the main
results for every instance.

Paths below are relative to `src/`, or to `src/backend/` (`.py`) and
`src/frontend_src/src/` (`.js`, `.jsx`) where no directory is given. Two parts
are modelled.

- **Stock, and who it is spoken for.** One number,
  `inventory.reserved_quantity`, is written by customer reservations, promises
  to customers who paid for what was not there, the till, returns, corrections,
  purchases and production; the shelf is written by all of these and by
  adjustments.
- **The screens people work at, and the endpoints behind them.** A list, the
  register, the checkout dialog, the cash drawer and the invoice page. Their
  state is held in the browser, read from answers that come in any order, and
  sent back by a client that repeats every call it did not hear the end of, to
  endpoints that check first and write later.

- [How requests run](#how-requests-run)
- [Inventory of the system](#inventory-of-the-system)
- [Modules](#modules)
- [Abstractions and bounds](#abstractions-and-bounds)
- [Runs](#runs), [findings](#findings) and [further counterexamples](#further-counterexamples)
- [Proofs](#proofs)
- [What is not modelled, and the plan](#what-is-not-modelled-and-the-plan)

## How requests run

An endpoint is a plain function that FastAPI runs in a pool of threads, with a
database connection of its own (`backend/database.py`). Several run at once,
in one process or in several. No row is locked. A transaction begins with the
first statement that writes (SQLite) or with the first statement (PostgreSQL,
READ COMMITTED), and nearly every handler ends in its only `db.commit()`; an
exception before that discards everything (`get_db`). So the units that are atomic
against a crash are whole handlers, except for those that commit more than
once. The receipt of a purchase is the important one of those, and it is
modelled with its steps apart.

Between a read and the commit that uses it, other requests may commit. Whether
a module takes that apart is decided by its subject. The stock modules take each
handler (each *transaction* of the receipt) as one step. `Checkout` and
`InvoiceDesk` take an endpoint as two, `Check` and `Commit`: what it reads, and
what its transaction writes, with the other requests in between and the unique
indexes and version comparisons of the code at the second. What happens when
the statements of two *stock* handlers interleave is the next module of the
plan.

On the other side of the wire, the browser runs one event at a time, and each
event handler up to its next `await` is one step. `request` in `api/client.js`
sends a call again, whatever its method, when the network fails or the server
answers with a 5xx, three times in all; a call given up by its sender goes on
at the server.

## Inventory of the system

`PROJECT.json` lists every component with its sources and status. The ones with
core logic:

| component | state | operations | meets | hard behaviour | correct when |
|---|---|---|---|---|---|
| customer holds `reservations.py` | `stock_reservations`, `inventory.reserved_quantity` | hold, close, consume, sync | till, promises, production | two representations of one fact; a counter with two writers | the counter is production's share plus the rows that are held |
| promises `commitments.py` | `sale_commitments` | create, allocate, handover, cancel | holds, till, purchases, production | stock arrives long after it was promised, for several people | oldest first; never more than ordered; nobody else's hold is taken |
| till `routers/pos.py`, `sale_reversal.py` | `pos_sales`, `invoice_items`, `stock_movements` | checkout, return, amendment | all of the above | what was invoiced is not what left the shelf | movements under a sale are what its customer has of it |
| invoices `routers/invoices.py` | invoices, payments, plans | create, pay, amend, void | till, ledger | overpayment, void after payment | paid plus credited is what was billed |
| purchases `routers/purchases.py` | `purchases`, `received_at`, `stock_updated` | receive, restate, void, pay | promises, ledger | three commits in one handler, retries, two receivers | goods counted exactly once |
| adjustments `routers/inventory.py` | `inventory`, `inventory_stock` | adjust, deduct | everything | reads and writes back an absolute quantity | the shelf is never negative and no update is lost |
| production `routers/manufacturing.py` | `production_orders`, `production_qc`, `quarantine_quantity` | confirm, start, complete, cancel, inspect | counter, shelf, promises | reserves without rows; runs in part | releases what it reserved; quarantine is what waits |
| ledger `accounting.py` | journal entries | post, reverse | money of everything | idempotency by source | balanced, posted once, reversed once |
| register sessions `routers/pos.py` | `pos_sessions` | open, close | till | two opens at once; expected cash after corrections | one open session; expected cash is what is in the drawer |
| approvals | requests, steps | request, decide, delegate | invoices, purchases, HR | the record changes under a pending request | nothing takes effect unapproved or twice |
| warehouses, transfers | `inventory_stock` | ship, receive | adjustments, promises | split against company total | the split adds up |
| cost layers | lots | consume FIFO or LIFO | production, sales | rounding, partial layers | consumed cost is the cost of the layers consumed |
| tenancy, pool, cache, jobs | connections, caches | checkout, provision, invalidate | every request | stale tenant, stale fill | a request sees its own tenant only |
| time clock `agent/`, `routers/timeclock.py` | queue file, punches | send, store, pair | payroll | at-least-once delivery | every punch counted once |
| payroll, recurring invoices, depreciation | runs, periods | generate, post | ledger | catching up after a gap | each period done once |
| list pages `hooks/useServerList.js`, `hooks/useData.js`, `api/client.js` | search, page, `fetchIdRef`, data, loading | type, filter, page, reload | any list endpoint | answers out of order, aborted, retried; a filter that is asked for twice | what is shown is what was asked for last, and not older than the last reload |
| register `pages/pos/RegisterView.jsx` | search box, results, cart | scan, tap, type, correct | checkout | a scanner is faster than the debounce and the network | a scan sells what was scanned, as often as was meant |
| checkout dialog `pages/pos/CheckoutModal.jsx` | dialog, key per press | confirm, close, retry | `checkout`, `amend` of `routers/pos.py` | a lost answer, a closed dialog, a correction twice | a payment is one sale, and what is reported done is in the books |
| invoice page `pages/Invoices.jsx` | edit form and version, payment dialog | open, save, pay | `routers/invoices.py` | a slow answer fills a dialog that is open for another invoice; another user | no edit lost, no payment twice, each on its own invoice |
| sign-in | sessions | login, refresh, revoke | every request | a revoked session in use | revocation is final |

The hazards in `PROJECT.json` name, at their lines, the places where this code
is hard to test, with the properties here that would notice them going wrong;
the ones no property covers yet say which planned module will.

## Modules

The stock modules, `Sums` to `Works`, extend one another (`Drawer` and
`InvoiceDesk` use `Sums` too). The stock tables are passed as a record `t`
(`quantity`, `reserved`, `holds`, `commitments`, `sales`), and each function of
the services is an operator from tables to tables. A handler that makes several
calls is the composition of their operators, in the order of the code, and
still one step: `Commit(t)` makes `t` the next state.

| module | models | how it corresponds |
|---|---|---|
| `Sums` | the `SUM(...)` of the queries, `max(0, x)`, `min` | a total is a recursive function over prefixes |
| `Reservations` | `reservations.py` | `holds` are the rows in id order; `PlaceHold`, `Close`, `Consume`, `Sync` are hold, close, consume, sync; `ProductionShare` is what `sync` is given to preserve |
| `Commitments` | `commitments.py` | `Promise` is create, `Allocate` the loop of allocate with `Serve` one turn of it, `MarkFulfilled`, `Cancel`, `CancelForInvoice` |
| `TillSales` | `_ring_sale`, `_unwind_sale` of `pos.py`, `sale_reversal.py` | `Sellable`, `Short`, `CanRing` are the pre-flight stock check; `Ring` deducts, draws the buyer's holds, promises the rest; `Delivered` is `delivered_quantity`, `PutBack` its restock, `Unwind` both with the cancellation |
| `Shop` | the endpoints of inventory, till, commitments, purchases | one action per endpoint; the receipt is `BeginReceipt` (the checks), `MarkReceived` (commits `received_at`), `CreditStock` (claims `stock_updated`, lands the goods, serves the waiting, books), with `ReceiptDies` at either gap and `RepeatReceipt` for the request sent again |
| `Works` | orders and quality control of `manufacturing.py`, with all of `Shop` | one action per endpoint; `CompleteOrder` is complete and complete-partial, `ResolveInspection` the verdict |
| `Screen` | what a list promises | asks, shows, gives up; the abstract specification of `Loader` |
| `Loader` | `useServerList`, `useData`, `request`, the handlers of `Invoices.jsx` that reload | `Type`, `Debounce`, `SetFilter`, `SetPage`, `ResetPage` are the list's handlers and effects, `Rerender` and `Load` the effect that fetches, `Reload` the reload of the last render (the tab visible again, the retry button); `BeginSave`, `Saved`, `SaveFails` a row's handler, whose `reload` is that of the render it began in; `Serve`, `Retry`, `Deliver`, `Fail`, `Aborted` the life of a request |
| `Register` | `RegisterView.jsx` | `Debounce` and `Found` the effect on the box, `EnterOnList`, `EnterOnEmpty`, `Entered` the key handler before and after its `await`, `AddProduct`, `BumpQty`, `TypeQuantity` the cart, `Remount`, `Seed`, `CancelAmend` a correction; the checkout dialog is there by what it does to the register: `OpenCheckout`, `Confirm`, `CloseCheckout`, and the end of a sale under way, in the dialog it was sent from, after it was closed, or after its register has gone (`Sold`, `SoldElsewhere`, `Refused`, `RefusedLate`) |
| `Checkout` | `CheckoutModal.jsx`, `POS.jsx`, `client.js`, `checkout` and `amend_sale` of `pos.py` | `StartAmend`, `ChangeTabs`, `CancelAmend` are the page around the register, which the first two mount anew (`Remounted`); `Confirm` presses the button, `Check` and `Commit` serve the call, `Done`, `Refused`, `Retry` are the branches of its end. `RegisterHears` is the half of `onDone` that belongs to the register the submission was made at, the rest of `Done` the half that belongs to the page |
| `Drawer` | register sessions of `pos.py` | `AskToOpen` and `OpenSession` are the check and the insert of one request; `Ring`, `Amend`, `ReturnSale`, `VoidSale` write rows and move notes, `Expected` is the sum of `close_session` |
| `InvoiceDesk` | `Invoices.jsx`, `client.js`, `invoices.py` | `sheet` and `till` are the two dialogs, `jobs` the call each caller waits for, `left` the ones it gave up (`Lose`, to send them again or not) that the server still has; `Verdict` are the checks of the five endpoints, `Outcome` what the version comparison and the unique index say at the write; `Check`, `Commit` serve a call that is awaited, `CheckLeft`, `CommitLeft` one that is not |
| `MCShop`, `MCWorks`, `MCRegister`, `MCInvoiceDesk` | | small instances for TLC |
| `Sums_proofs` | | totals over sequences of any length |
| `Shop_proofs` | | each operator keeps the tables typed; `ShopTypeOK` |
| `ShopInvariants_proofs` | | the reduction of a step to eight facts; four invariants; the three action properties of the shop |
| `Works_proofs` | | types, quarantine and the counter, with the shop beside; what the shop keeps under production |
| `Loader_proofs` | | five properties of a list, and its refinement of `Screen` |
| `Checkout_proofs` | | five properties of a checkout |
| `InvoiceDesk_proofs` | | seven properties of the invoice page |
| `Till_proofs` | | three properties of the register, three of the drawer |

`UndoSale` is a return and also the void of a till sale's invoice: both unwind
the same goods through `sale_reversal` and leave the sale `returned`.

The screens stand by themselves: `Loader` instantiates `Screen` with a refinement
mapping, `Checkout` and `InvoiceDesk` each compose a page, the retrying client
and the endpoints it reaches. They share no variables with the stock modules;
what `Checkout` calls a sale is a `Ring` of `TillSales`.

Operations no specification uses, many marked `Mutant:` and all written just
before the one they resemble, are deliberate errors (a check left out, a share
read too late, an order reversed): each one, put in place of the definition after it, must make the property it is
paired with fail, which shows the property is able to fail.

## Abstractions and bounds

For the stock:

- Quantities are whole units. The code keeps six decimals and compares with a
  tolerance; on whole units both are exact.
- One warehouse. The company total and the split by warehouse are then one
  number.
- A sale has one stock line and a purchase one line; a recipe has one component
  and makes one unit per batch. The handlers treat lines one after another in a
  loop and the invariants are per line. What this leaves out is a sale whose
  first line changes what its second line may take.
- A promise is of the sale's line: `sale` stands for `invoice_id` and line.
  Rows are kept in the order `(created_at, id)` in which `open_for` reads them.
- `moved` on a sale or purchase is the net of the rows of `stock_movements`
  with its reference. It is what those rows add up to, not a column.
- Money, prices, tender, promotions, tax, permissions, logging and
  notifications are left out.
- A purchase restated (`update_purchase`) before anything landed only has its
  line rewritten; after, it is taken back and credited again. A restatement of
  the price alone moves no stock and is left out, and so are debit notes: with
  one outstanding, a void is refused.
- Positive adjustments do not serve the waiting, because `update_stock` does
  not call `allocate`; `allocate_now` exists for that (`AllocateNow`).

For the screens:

- A list `GET` is served at one moment; its answer carries the version of the
  records then. `filter` stands for all of the query that takes effect at once:
  filters, sort and page size. An abort may come too late, so an aborted request
  may still be answered. A handler that waits for its call is the query of the
  render it began in; which record it saves does not matter to the list.
- A term is looked up or it is not; what the server finds for it is a constant
  (`Matches`). Custom lines, edits of price and discount, categories and the
  picker of variants are left out of the register; a quantity is a number and
  whether it is still the text of an input, since `+ 1` then appends a digit.
  Lookups of the same term are counted: two Enters on one term add twice.
- In `Checkout` a good is one thing that can be rung once or twice, and one sale
  made earlier may be corrected. What the server finds short is left open: a
  choice of `Check`, and so is whether a sale that is not a plan names a customer,
  without whom no back-order is offered (`Failed`). An instalment sale without a deposit is a submission in
  which no money is `due`, for which no payment row and no key is stored. Goods
  in the cart of a register that goes away return to the counter, but for those
  of the earlier sale, which only a correction brings back.
- `Drawer` has one currency and one cashier, who counts truthfully; the
  money a customer gets or gives is computed from what the sale has taken at the
  till, its total or the deposit of its plan (`Due`, nothing among them), and
  compared with what the rows say. Later instalments are paid on the invoice
  page and left out. `return_sale` writes the whole total of a plan as its
  `refund_amount` (`pos.py:1475`); the drawer's count does not read that column,
  and the cashier of the model gives back what was taken.
- `InvoiceDesk` has one page and one other user. A call the client gave up
  after it was sent stays at the server, in `left`, and may be served any time
  later, or never, beside its own retries. The unique index on the key speaks at
  the write, and the 400 it ends in (`error_handlers.py:42`) is not sent again.
  A deleted payment keeps its place in the model with the amount 0, so that
  payments can be numbered. Payments are deleted, and invoices voided and
  restored, by the other user; the page's own buttons for it (`Invoices.jsx:415`,
  `:425`, `:535`) send the same calls and are left out. Two readings of one
  invoice count once. The total of an invoice stands for its lines, `about` for
  its words.
- Variables that no code has, and no guard reads, tell the properties what
  happened. `Loader`: `askedAt` and `asked` (version and query of the last
  load), `stray` (that load was a handler's reload of a query left since).
  `Register`: `meant` (the quantities the cashier meant), `appended` (a digit
  was appended to a typed quantity still in the cart), `mistaken` (an Enter
  added what its term does not match), `wiped` (a term cleared before use).
  `Checkout`: `receipts`, `abandoned` (dialogs closed on a submission), `cancels`
  and `unhooked` (corrections dropped, by the cashier or by an answer for a
  register that is gone). `Drawer`: `taken`, `tainted`. `InvoiceDesk`: `meant`,
  `strayed`, `raced`. Of these `cancels` alone is read by a guard, as its bound.

Named bounds of the stock modules, all of them guards of `Commit` or of the action that adds a row:
`MaxOnHand` (an item on the shelf), `MaxHolds`, `MaxSales`, `MaxOrders`,
`MaxInspections` (rows), `MaxRequests` (receipts of one purchase in flight).
The number of promises is bounded by that of the sales. The screens count what
people do: `MaxMoves`, `MaxVersion`, `MaxTyped`, `MaxSubmissions`, `MaxCancels`,
`MaxSessions`, `MaxSales`, `MaxOpens`, `MaxSaves`, `MaxPayments`, `MaxOthers`.
`MAX_RETRIES` and `MaxAttempts` are not bounds but the constant of
`api/client.js`; the runs use two instead of three, since a second attempt
already meets the first, and one where the question is not about attempts (an
attempt that is given up stays at the server all the same). The proofs hold for
every value of these.

**Fairness.** In `Loader`, weak fairness of `Debounce`, `ResetPage` and
`Network`: a timer that is set fires, an effect that is due runs, and a request
ends, since `fetch` answers or rejects and is repeated a fixed number of times.
In `Checkout`, weak fairness of `Client`: every attempt the browser waits for is
answered or fails; the server itself owes nothing, so a call may stay unserved
for ever. The client sets no timeout of its own; that `fetch` answers or rejects
is left to the browser, here as in `Loader`. In `Screen`, weak fairness of
`Settle`. Nothing is assumed of people,
anywhere: nobody must close a dialog, stop typing, collect or receive. The stock
modules assume nothing and state no liveness; the scheduler starts no action of
theirs.

**Deadlock** is checked in the runs of `Shop` and `Works`: some request is
always possible. In the others the people may have used up their moves and
everything may have settled, so their runs do not check it.

## Runs

| run | instance | properties | shows |
|---|---|---|---|
| `shop_counter` | one item, two customers and a walk-in, 2 units at most, 2 holds, 2 sales, adjustments of one | `TypeOK` `CounterIsTheHolds` `PromisesAddUp` `SaleMovementsNetOut` `SalesSpareOthersHolds` `OldestPromiseFirst` | counter, holds, promises and movements agree through every mix of requests; no sale at the till takes what another customer holds; stock goes to the oldest promise |
| `shop_receipts` | one purchase, two requests receiving it, one customer, 3 units | `TypeOK` `ReceiptCountedOnce` `ReceiptServesTheWaiting` | the claim in `_credit_stock` is what makes two receivers safe; corrections and voids between the commits count nothing twice; goods that land are put aside at once for who waits |
| `works` | two recipes, one inspected, two orders, one customer | `WorksTypeOK` `QuarantineIsPending` `OnlyIrregularRunsDrift` | quarantine is what is pending; no request but a run on a draft or on part of an order takes the counter off what it stands for |
| `lists` | two terms, two filters, two pages, 2 moves of the reader, 1 change of the records, 2 attempts | `LoaderTypeOK` `OnlyStaleReloadsMislead` `ReloadShowsTheSave` `SpinnerIsTheLatest` `NeverOlder` `SearchIsAnswered` `KeepsItsPromise` | the number in `fetchIdRef` orders answers, even when aborts come too late: no late answer is shown, no spinner stops early or stays, and what was loaded last settles, as `Screen` says. The query on the screen and the last load part only by the reload of a handler begun before |
| `lists_stale_reload` | the same | `ShownIsAsked` | violated, see below |
| `register` | two products, three terms of which one finds nothing, one sale to correct, quantities 0 to 2 typed, 6 moves | `RegisterTypeOK` `OnlyTypedQuantitiesDrift` `CheckoutIsPayable` | numbers differ from what was meant only on a line that got a digit appended; the dialog never stands over a cart that cannot be paid, whatever is answered under it |
| `checkout` | the good of an earlier sale and a new one, 2 presses, 2 attempts, one correction dropped by the cashier | `CheckoutTypeOK` `OneSalePerPayment` `CorrectedOnce` `DoneIsRecorded` `TwiceOnlyUnseen` `ConfirmSettles` | the unique indexes are what makes retries and two presses safe; goods are sold twice only after an answer nobody saw, one that reached a register that was gone, or a correction that was dropped; the button comes back |
| `drawer` | amounts 1 and 3, and 0 for a plan without a deposit, two sessions, three sales | `DrawerTypeOK` `OnlyKnownDrift` `CustomerPaidTheTotal` | over corrections of corrections and sessions that follow one another, the expected count is the notes in the drawer, save in three named cases |
| `invoices` | two invoices nothing tells apart, 2 dialogs opened, one save, one payment, one request of another user, 1 attempt | `DeskTypeOK` `BusyHasReason` `OnlyLateAnswersMix` | the two dialogs keep two invoices apart but for late answers; the button comes back |
| `invoices_attempts` | one invoice, 1 dialog opened, one save, one payment, one request of another user, 2 attempts | `SubmitPaysOnce` `OnlyRacesOverpay` `NoLostEdit` `VoidedStaysPut` | the key and its index, and the version, hold among attempts of one request that are served in any order, each beside the others; what one after the other may do to an invoice, and what only a race does |
| `shop_interrupted` | one purchase | `ReceivedMeansCredited` | violated, see below |
| `works_inspection` | one inspected order | `OutputServesTheWaiting` | violated, see below |

Two sales are the least with a promise behind a promise, two holds the least
with one drawn in part while another stays, two customers the least with
somebody else, two units the least with part of something; two receipts in
flight the least with a race.

A reader's two moves are the least in which one question replaces another, and
the effects add a third request by themselves (the new filter at the old page).
Six moves at the register hold two scans with an Enter each and two things in
between, or a line typed, counted up and down again around a sale that is
confirmed. Two presses are the least for the same goods twice, and two attempts
for a call that overtakes its own retry. Amounts 1 and 3 differ, and so do their
differences and sums; three sales allow a correction of a correction.

When the presses of `checkout` are used up, the cashier does nothing more at the
register but close the dialog: what is scanned after the last press is sold by
none. The invoice page is taken apart in two, because the questions want
different things to be many: two dialogs opened, of two invoices, are the least
in which the answer for one can reach the other (`invoices`); attempts that
overlap their retry want two attempts, and one invoice (`invoices_attempts`).
Invoices may be voided from the start, so that the one request of somebody else
can restore one as well as void, pay or edit it. One caller of each kind is the
least in which any two requests race; `OtherAmounts = {2}` is the whole of an
invoice's total, so that it overpays together with any payment of the desk, and
`Totals = {1}` is below it, so that an edit that is not refused leaves a paid
invoice overpaid. The two invoices are interchangeable in `invoices` (`Alike`),
which is sound there because the run has no liveness property and no constant or
property names one of them.

### Findings

1. **An interrupted receipt is never credited** (`shop_interrupted`).
   `received_at` is committed before the stock is credited. When the process
   dies in between, the request sent again finds `received_at` set, skips the
   credit, books the expense and marks the purchase Received.
2. **Inspected output does not serve the waiting** (`works_inspection`).
   `resolve_qc` puts what passed on the shelf and does not call `allocate`,
   though the comment there says every increase does.
3. **A handler's reload shows the query that was left** (`lists_stale_reload`).
   `reload` is `useData`'s `load`, made anew with the query. A handler that
   awaits its call (`Invoices.jsx:404`, `:419`, `:428`, `:438`, `:445`, `:462`,
   `:521`) calls the one of the render it was pressed in. When page, filter or
   search have moved on, that one takes the newest number, aborts the load of
   the new query and leaves the old rows under it, with neither spinner nor
   error, until something else loads. `useData.js:6` and `:12` promise that
   stale updates and out-of-order answers do not happen. `OnlyStaleReloadsMislead`
   says that nothing else does this.

### Further counterexamples

These disagree with what a document or comment says, too. The configurations in
this table find them in seconds (`tlc -config X.cfg M`); the passing runs
above say how far each can go.

| configuration | module | violates | what happens |
|---|---|---|---|
| `ShopHandover` | `MCShop` | `HandoversSpareOthersHolds` | `deliver` compares the quantity with `quantity_allocated` and with what is physically there. A hold made for a promise can be released by hand, which leaves `quantity_allocated` alone; if somebody else then reserves the unit, the handover still gives it away. `reservations.py:88`: "nobody else may touch it". At the till the same is excluded (`SalesSpareOthersHolds`). |
| `WorksDraftRun` | `MCWorks` | `CounterCoversTheHolds` | `complete_order` accepts a Draft and subtracts its planned material from the counter (`manufacturing.py:1068`), which then counts less than the customers' rows hold. `reservations.py:13`: "the two cannot drift". `OnlyIrregularRunsDrift` puts it in its place: a run on part of an order, followed by a close or a cancellation, drifts too, and nothing else does. |
| `RegisterStaleList` | `MCRegister` | `EnterTakesAMatch` | `RegisterView.jsx:251` looks a term up only when there are no tiles. While the debounce or its answer is under way the list still shows the products of the term before, and Enter sells the first of those. Line 246: "The debounce has not fired yet, so what is on screen is still empty"; line 258: "A scan resolves to a single variant row". |
| `CheckoutOrphan` | `Checkout` | `CorrectionsReplace` | the cashier closes the dialog on a sale under way and begins to correct an earlier one, which mounts the register anew with its goods. The late `onDone` empties the cart of the register that is gone and calls `onSold` of the page, which forgets the correction (`POS.jsx:91`). The seeded cart is rung as a fresh sale, and the earlier one stands as well. `POS.jsx:24`: "the server takes the original off the books in the same breath". |
| `DrawerReturned` | `Drawer` | `CountBalances` | returning a corrected sale gives back what it has taken, and `pos.py:237` counts only the difference its last correction collected. Line 210: "Expected drawer = opening float + cash taken in − cash refunded". |
| `RegisterWipedScan` | `MCRegister` | `TypedScanIsKept` | `setSearch('')` at `:266` runs after an `await` and clears whatever is in the box by then: a second barcode is lost. Line 245: "A scanner types the whole barcode in a few milliseconds and sends Enter straight after it". |
| `RegisterTypedQuantity` | `MCRegister` | `QuantitiesAsMeant` | the quantity box stores text (`:610`), and `addProduct` (`:173`) adds 1 with `+`: a line typed as 2 and scanned once more is "21". |
| `CheckoutPlan` | `Checkout` | `OneSalePerKey` | the key is stored with the payment (`pos.py:997`), and an instalment sale without deposit has none: sent again, it is rung twice. `pos.py:612`: "a repeated submit (same key) is rejected before any write". |
| `CheckoutLate` | `Checkout` | `GoodsLeaveSold` | the dialog can be closed while it records the sale; the late `onDone` (`RegisterView.jsx:305`) empties the next customer's cart. |
| `DrawerTwoOpen` | `Drawer` | `OneOpenSession` | the check and the insert of `open_session` (`pos.py:176`) are apart and no index joins them. `docs/manual/docs/operations/pos.md:57`: "You can only have one open session at a time." |
| `InvoiceRepaid` | `MCInvoiceDesk` | `DeletedStaysGone` | the key of a payment goes with its row when the payment is deleted (`invoices.py:1467`), so an attempt of the same submit that is still at the server records it again. Line 11: "the server rejects exact duplicates (same key)". |

On the invoice page, read off `InvoiceDesk` (each is a step `strayed` or
`raced` stands for, or a row of `Verdict`):

- A slow answer to `openEdit` (`Invoices.jsx:272`) fills the form that is open
  for another invoice by then; if the versions agree, the words of one are saved
  on the other. `openPayModal` (`:480`) likewise: the amount typed for one
  invoice is recorded on another.
- After a paid invoice was opened, the form of a new one keeps its quantities
  and prices disabled (`:261` does not reset `amountsLocked`).
- A save whose answer was lost is sent again (`client.js:65`) and meets its own
  new version: "This invoice was modified by another user".
- `update_invoice` reads whether there are payments, and writes later
  (`invoices.py:851`): a payment in between leaves a paid invoice with another
  total. `add_payment` compares with a balance read before (`:1297`): two at
  once overpay.
- `void_invoice` (`:978`) accepts an invoice with payments and reverses them;
  `docs/manual/docs/sales/invoices.md:97` says "Cannot void an invoice with
  payments".

### Hazards without a property

| where | why none |
|---|---|
| `pos.py:1104`, `inventory.py:529`: absolute writes of a quantity read before | statements of two stock handlers are not interleaved yet (StockRace) |
| `pos.py:176`: two sessions opened at once | nothing prevents it (`DrawerTwoOpen`); `OnlyKnownDrift` holds around it |
| `RegisterView.jsx:305`: a late answer empties the next customer's cart | nothing prevents it (`CheckoutLate`); `TwiceOnlyUnseen` holds around it |
| `invoices.py:1467`: a deleted payment is recorded again | nothing prevents it (`InvoiceRepaid`); `SubmitPaysOnce` holds around it |
| `routers/commitments.py:149`: a handover trusts `quantity_allocated` | nothing prevents it (`ShopHandover`) |
| `RegisterView.jsx:250`: Enter acts on the products of an older term | nothing prevents it (`RegisterStaleList`) |
| `RegisterView.jsx:266`: the box is cleared after an `await` | nothing prevents it (`RegisterWipedScan`) |
| `Invoices.jsx:402`: a new invoice carries no key | sent again it is a second invoice, and nothing claims otherwise |
| `sale_reversal.py:155`: a quota given back beyond what was taken | promotions are not modelled; the comment there accepts it |
| `routers/commitments.py:285`: a promise refunded twice | refunds are not modelled (Ledger) |
| `cache.py:65`, `routers/timeclock.py:196` | cache and time clock are not modelled |

## Proofs

TLAPS proves, for every value of the constants (all sets of items, customers,
purchases, recipes, terms, products, goods, amounts and invoices, all bounds and
numbers of attempts):

| theorem | of | states |
|---|---|---|
| `ShopTypeOK` | `Shop` | `TypeOK` |
| `ShopCounterIsTheHolds` | | `CounterIsTheHolds` |
| `ShopPromisesAddUp` | | `PromisesAddUp` |
| `ShopReceiptCountedOnce` | | `ReceiptCountedOnce` |
| `ShopSaleMovementsNetOut` | | `SaleMovementsNetOut` |
| `ShopSalesSpareOthersHolds` | | `SalesSpareOthersHolds` |
| `ShopOldestPromiseFirst` | | `OldestPromiseFirst` |
| `ShopReceiptServesTheWaiting` | | `ReceiptServesTheWaiting` |
| `WorksTyped` | `Works` | `WorksTypeOK` |
| `WorksQuarantineIsPending` | | `QuarantineIsPending` |
| `WorksOnlyIrregularRunsDrift` | | `OnlyIrregularRunsDrift` |
| `WorksPromisesAddUp` | | `PromisesAddUp` |
| `WorksSaleMovementsNetOut` | | `SaleMovementsNetOut` |
| `WorksReceiptCountedOnce` | | `ReceiptCountedOnce` |
| `LoaderIsTyped` | `Loader` | `LoaderTypeOK` |
| `LoaderOnlyStaleReloadsMislead` | | `OnlyStaleReloadsMislead` |
| `LoaderReloadShowsTheSave` | | `ReloadShowsTheSave` |
| `LoaderSpinnerIsTheLatest` | | `SpinnerIsTheLatest` |
| `LoaderNeverOlder` | | `NeverOlder` |
| `LoaderKeepsThePromise` | | `LoaderSpec => Promise!Init /\ [][Promise!Next]_(Promise!vars)` |
| `CheckoutIsTyped` | `Checkout` | `CheckoutTypeOK` |
| `CheckoutOneSalePerPayment` | | `OneSalePerPayment` |
| `CheckoutCorrectedOnce` | | `CorrectedOnce` |
| `CheckoutDoneIsRecorded` | | `DoneIsRecorded` |
| `CheckoutTwiceOnlyUnseen` | | `TwiceOnlyUnseen` |
| `DeskIsTyped` | `InvoiceDesk` | `DeskTypeOK` |
| `DeskNoLostEdit` | | `NoLostEdit` |
| `DeskVoidedStaysPut` | | `VoidedStaysPut` |
| `DeskSubmitPaysOnce` | | `SubmitPaysOnce` |
| `DeskBusyHasReason` | | `BusyHasReason` |
| `DeskOnlyLateAnswersMix` | | `OnlyLateAnswersMix` |
| `DeskOnlyRacesOverpay` | | `OnlyRacesOverpay` |
| `RegisterTypeCorrect` | `Register` | `RegisterTypeOK` |
| `QuantitiesCorrect` | | `OnlyTypedQuantitiesDrift` |
| `CheckoutIsPayableCorrect` | | `CheckoutIsPayable` |
| `DrawerTypeCorrect` | `Drawer` | `DrawerTypeOK` |
| `DriftCorrect` | | `OnlyKnownDrift` |
| `PaidCorrect` | | `CustomerPaidTheTotal` |

Each is of the specification of its module. The assumptions are those on the
constants (`ShopAssumption`, `WalkInIsNobody`, `WorksAssumption`,
`LoaderAssumption`, `CheckoutAssumption`, `DeskAssumption`,
`RegisterAssumption`, `DrawerAssumption`): their types, and
that a value standing for "none" is none of the others. TLC evaluates each of
them in a run.

### Shop

The argument has three layers.

*Totals.* `Sums_proofs` derives, from the well-foundedness of finite sets of
numbers, that a recursive function over `0..n` exists and satisfies its
equations, and from that what happens to a total when a row is appended,
rewritten or zero. The library's induction theorems take an operator as a
parameter, which no installed prover can instantiate, so induction is stated
here over a *set* of indices (`UpTo`). The loop of `allocate()` is treated the
same way (`AllocateTurns`, `AllocateKeeps`): what one turn keeps, the loop keeps.

*One operator at a time.* Every operator of `Reservations`, `Commitments` and
`TillSales` gets a lemma for its type, and for the columns it leaves alone.

*One step at a time.* `StepKeeps` says that a set `G` of stock tables is kept by
every step of the shop once eight things keep it: placing a hold, releasing one,
changing the shelf, serving a promise, ringing a sale, undoing one, handing
over and cancelling. Each invariant is a set `G` and the proof of those eight:

- `ExactTables(p)`: the counter is the sum of the rows and what production
  keeps, `p`, which is nothing in the shop alone. Inductive with the types. The
  point is that `ProductionShare` is `p` in such tables, so `Sync` writes
  exactly `p` and the new sum; rows of another item contribute what they did
  before.
- `SoundTables`: promises add up. Inductive with the types; the handover needs
  its guards (no more than outstanding, no more than allocated).
- `BookedTables`: the movements net out. *Not* inductive alone. A handover adds
  to the movements of the sale its promise names, so an open promise must be of
  a sale that stands (`Linked`); undoing a sale settles one promise, so a sale
  must have at most one (`Single`); goods are put back only when their number
  is positive, so no more than was sold may be promised (`Even`).

`ReceiptCountedOnce` is about the purchase rows only and inductive as it stands:
whoever claims finds the flag down, and then nothing has moved.

*Two states at a time.* An action property compares the tables before and after
a step. `Request(t, u)` says in nine disjuncts what any step may make of tables
`t` (`StepIsRequest`), and each property is a lemma about `Request`, for tables
that are exact and sound, which the invariants above make of every reachable
state.

- `OldestPromiseFirst`: only `allocate` raises what a promise has aside
  (`NobodyServed` for the others). Its loop is followed turn by turn: `Turned`
  says, of the tables after `n` turns, that every open promise up to `n` wants
  nothing or nothing is available, and that one served leaves none before it
  wanting. A turn that serves had something available, so by the first half all
  before it want nothing. This is where the counter must be exact: a hold placed
  has to lower what is available by its quantity.
- `ReceiptServesTheWaiting`: the same at the end of the loop. `CountedIn` finds
  in any step that raises `moved` the landing of goods it must contain.
- `SalesSpareOthersHolds`: a total splits into what the buyer holds and what the
  others do (`HeldSplit`), so what is sellable to the buyer leaves the others
  covered (`TakenSpares`). Drawing the buyer's holds leaves the rows of the
  others alone. An amendment first takes a sale back, which brings goods in and
  can only close or shrink rows (`Drained`).

### Works

`WorksInv` is the types, `QuarantineIsPending`, and `Recorded`: an inspection is
of an order that exists. A step of the shop leaves orders and inspections alone
and keeps the types by the lemma that proves them for `Shop`. For the quarantine
column, `Waiting(i)` is the sequence whose total it must be; a run with
inspection appends to it, a verdict takes one entry to zero, and because the
entry is part of the total, the clip at zero never clips.

For the counter, `Kept(orders)` is what the open orders need of each item, and
`CounterExact` says that the tables are in `ExactTables(Kept(orders))`. A
step of the shop keeps them there with `p` fixed; confirming and cancelling move
the counter and `Kept` by the same amount; a run that completes a confirmed order
at once releases exactly what it planned. The clip of `_apply_reservation` does
nothing there, since what an order needs is part of the counter. A run on a
draft, or on part of an order, releases another amount than leaves `Kept`, and
is what `OnlyIrregularRunsDrift` excepts.

`WorksKeeps` says that a set of tables that speaks of the shop's rows only
(`AboutRows`), and is kept by the eight things above, is kept by production too,
whatever has become of the counter. So `PromisesAddUp` and `SaleMovementsNetOut`
hold of `WorksSpec` as they do of `ShopSpec`. `CounterIsTheHolds` does not, and
is not claimed there. The three action properties are proved of `ShopSpec`
alone: with a counter that drifted, `SalesSpareOthersHolds` fails.

### Loader

`LoaderInv` rests on one number. Requests carry the value `fetchIdRef` had when
they were made; no two have the same and none is above the present one
(`Numbers`). So at most one request is the latest; it was never aborted, asks
for the query of the last load (`asked`), and is there exactly while the spinner
turns (`Ours`). What is shown without spinner or error answers `asked`
(`Answered`). Whether that is the query on the screen is another matter: every
change of the query loads it, so it is unless the last load was a handler's of a
query left since (`Strays`).
`Ages` orders the versions: what a latest request was served with is no older
than the moment it was asked (`askedAt`), and what is on the screen while
another is awaited is no newer. `LoaderKeepsThePromise` reads off that
every step is an `Ask`, a `Show`, a `GiveUp` or invisible; the fairness of
`Screen` is the other half of `KeepsItsPromise` and is checked by TLC.

### Checkout

`CheckoutInv` has five parts. `Formed` gives the types of what is on the wire.
`Written`: all bodies with one key are one body, no key was used that has
not been made, and the earlier sale's good is under a correction unless one was
dropped (`Dropped`). `AtTheTill`: at most one submission belongs to the dialog on
the screen, which is busy with it and covers the cart it sells; its register is
mounted; any other was abandoned or its new goods have left the cart. `Books`:
the two unique indexes, and that an answer "ok" on the wire has its sale in the
books. `Gone` carries `TwiceOnlyUnseen`: new goods of a body reported done, and
not abandoned, are neither in the cart nor on the counter any more, and two
bodies the cashier waited for share nothing but the good of the earlier sale.
That one is sold twice by bodies that were both corrections, which `CorrectedOnce`
excludes, or after a correction was dropped.

A register that is mounted anew returns the new goods of its cart to the counter,
so what is free to be rung stays the same, and takes its submissions' `here`
away. Only an abandoned submission loses its register, since the dialog of an
open one covers the tabs; this is why a late `onDone`, which leaves the cart of
the register on the screen alone, cannot break `Gone`.

### InvoiceDesk

`DeskInv` is `Formed`, `Current`, `BusyHasReason` and `Apart`, and speaks of every
call, those given up and still at the server (`left`) among them. `Current` says
of every edit past its check that the version it has seen was the row's at
some time not after now, and equals what came with the form, so the comparison
at the write is with the form's version (`NoLostEdit`). A void raises the
version, so an edit checked before it fails its write (`VoidedStaysPut`).
`Apart` says that, as long as nothing strayed, rows, calls and both dialogs
each speak of their own invoice.

A step of the server moves one call, awaited or left, so both are one lemma for
each of check and write (`CheckForm`, `CommitForm`), and a lost call is one more
call (`LoseForm`).

`SubmitPaysOnce` counts the payments that stand by an injection into the presses
made. `KeyInv` says that every standing payment carries the number of a press of
its caller and no two the same, which no check guarantees: several attempts of
one submit may be past theirs at once. It is the unique index at the write that
keeps it, and the proof uses nothing else of `Outcome`. `MoneyInv` is
about two requests of one invoice past their checks: until there have been any
(`raced`), what a check found of balance and payments still holds at the write,
so a payment fits and a total is changed only where nothing is paid. Attempts of
one submit may be past their checks together without that being a race; the
first to be written uses the key, and the others fail.

### Register and Drawer

Every step of the register leaves the cart, empties or refills it, adds a
product, sets or drops one line, or bumps one and drops every empty line
(`CartStep`), and the properties of the cart are proved once for each of these.
`TypedInv` adds that the timer only runs over a term; `AsMeantInv` that a line
whose typed quantity got a digit is still in the cart and holds no less than was
meant, so that when a bump drops it nothing is left to mean.

The drawer is arithmetic on totals over changing sets of rows. `DrawerInv` says
that sales name their session and the sale their chain of corrections began
with, that returns are of returned sales, and that two sessions open at once are
both tainted, so that the one left open when the other closes is excused. Each
action rewrites one row and appends at most one, and the lemmas of `Sums_proofs`
say what that does to each of the three totals in `Expected` and to what the
standing sale comes to. The inductive invariant, `TillInv`, is `DrawerInv` with
the two properties.

### Model-checked only

Every invariant and action property of a passing run is proved. What is left to
TLC is out of the prover's reach: liveness (`SearchIsAnswered`, `ConfirmSettles`,
the liveness half of `KeepsItsPromise`), `ENABLED`, and what a recursive
definition computes for every input beyond the inductions above. The properties
of the runs that end in a violation are false of the code.

## What is not modelled, and the plan

Reports, PDF, search, insights, imports, settings, backup and packaging read, or
run once, and hold no state these questions are about. Of the web client, the
other pages repeat the patterns of the ones modelled (a list of `Loader`'s kind,
a form of `InvoiceDesk`'s); `useMultiData`, the polling bell, the command
palette and the gate that waits for the server are left out, and so is the built
mobile client. What remains of the system's core logic, in order:

1. **StockRace.** Two handlers of the till, adjustment, transfer and production
   kind with their reads, writes and commit apart, at READ COMMITTED: lost
   updates of an absolute write (`pos.py`, `inventory.py`), order numbers.
   Refines an abstract shelf that changes by deltas wherever it can be shown to.
2. **Ledger.** `post_entry` with its guard by source, `reverse_source`, refunds
   of cancelled promises against refunds of returned sales, credit notes,
   promotion quotas; composed with `Shop`. An abstract specification: every
   document is posted once and reversed at most once.
3. **Rest of the invoices.** Instalment plans, credit notes, and the stock of
   ordinary invoices, composed with `InvoiceDesk`.
4. **Approvals.** Requests of several steps, delegation, a record that changes
   while its request is pending.
5. **Warehouses.** Transfers, and the split against the company total.
6. **Tenancy, cache and jobs; time clock; sign-in; payroll, recurring invoices
   and depreciation**, with liveness where a job is scheduled.
7. **Pure algorithms** against reference definitions: cost layers, instalment
   schedules, apportionment of landed cost.

Proofs planned: for each module above its types and invariants, and for StockRace
the steps that implement the abstract shelf; for `Works`, what the action
properties of the shop become when the counter may have drifted.
