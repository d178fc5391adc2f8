------------------------- MODULE InvoiceDesk_proofs -------------------------
(***************************************************************************)
(* The invoice page and its endpoints, for every number of invoices, every *)
(* total and amount, and every bound on what the desk, the client and the  *)
(* other user do.                                                          *)
(*                                                                         *)
(* The inductive invariant has four parts: the rows, the requests and the  *)
(* dialogs are well formed (Formed); a request to edit that has passed its *)
(* check has read the version it names, and while that version stands the  *)
(* invoice is not voided (Current); the button's reason (BusyHasReason);   *)
(* and, as long as every answer found its dialog, the words and the money  *)
(* of each invoice are its own wherever they are kept (Apart).  All four   *)
(* speak of every call at the server, those the client has given up among  *)
(* them.  Two more are proved on top of it: that no two payments that stand *)
(* carry the number of one press (KeyInv), and that until there is a race  *)
(* what a check found is still so at the write (MoneyInv).                 *)
(***************************************************************************)
EXTENDS InvoiceDesk, Sums_proofs, FiniteSetTheorems, TLAPS

Anyone  == Invoices \cup {Nobody}
Serials == Callers \X Int
Receipt == [key : Serials, amount : Nat, meant : Anyone]
Row     == [total : Totals \cup {2}, version : Nat \ {0}, about : Invoices,
            voided : BOOLEAN, by : Serials, paid : Seq(Receipt)]
Job     == [stage : Stages, attempt : 1..MaxAttempts, kind : Kinds, id : Anyone,
            serial : Serials, version : Nat, about : Anyone, total : Nat,
            amount : Nat, meant : Anyone, nth : Nat, seen : Nat, locked : BOOLEAN]
Sheet   == [open : BOOLEAN, loading : BOOLEAN, id : Anyone, version : Nat,
            locked : BOOLEAN, about : Anyone, total : Nat]
Till    == [shown : Anyone, loading : BOOLEAN, amount : Amounts \cup {0},
            meant : Anyone, owing : BOOLEAN, submitting : BOOLEAN]

Typed ==
  /\ rows \in [Invoices -> Row]
  /\ jobs \in [Callers -> Job]
  /\ left \subseteq {j \in Job : j.stage \in {"sent", "checked"}}
  /\ sheet \in Sheet /\ loads \subseteq Invoices
  /\ till \in Till /\ refreshes \subseteq [id : Anyone, opening : BOOLEAN]
  /\ used \in [{"open"} \cup Callers -> Nat]
  /\ strayed \in BOOLEAN /\ raced \in BOOLEAN

\* A form that can be saved has been filled.
Fill(about, total) == about \in Invoices /\ total \in Totals \cup {2}
FormFilled == sheet.open /\ ~sheet.loading /\ sheet.id # Nobody => Fill(sheet.about, sheet.total)

GoodJob(j) ==
  /\ j.kind # "create" => j.id \in Invoices
  /\ j.kind = "edit" => Fill(j.about, j.total)
  /\ j.kind = "pay" => j.amount > 0

Formed == Typed /\ FormFilled /\ \A j \in Calls : GoodJob(j)

\* What a checked edit knows of its row.
Knows(j) ==
  j.stage = "checked" /\ j.kind = "edit" =>
    /\ j.seen = j.version /\ j.seen <= rows[j.id].version
    /\ rows[j.id].version = j.seen => ~rows[j.id].voided

Current == \A j \in Calls : Knows(j)

OwnRow(i) ==
  /\ rows[i].about = i
  /\ \A n \in DOMAIN rows[i].paid : rows[i].paid[n].meant = i
OwnJob(j) == (j.kind = "edit" => j.about = j.id) /\ (j.kind = "pay" => j.meant = j.id)
OwnSheet == sheet.open /\ ~sheet.loading /\ sheet.id # Nobody => sheet.about = sheet.id
OwnTill == till.shown # Nobody /\ till.amount > 0 => till.meant = till.shown

Apart ==
  strayed \/ /\ \A i \in Invoices : OwnRow(i)
             /\ \A j \in Calls : OwnJob(j)
             /\ OwnSheet /\ OwnTill

DeskInv == Formed /\ Current /\ BusyHasReason /\ Apart

---------------------------------------------------------------------------
\* At the start no dialog is open and nothing is on the wire.
LEMMA DeskInit == Init => DeskInv
<1> SUFFICES ASSUME Init PROVE DeskInv
  OBVIOUS
<1> USE DeskAssumption DEF Init
<1>1. Typed
  <2>1. rows \in [Invoices -> Row]
    BY DEF Row, Serials, Callers, Receipt
  <2>2. jobs \in [Callers -> Job]
    BY DEF Job, Unsent, Stages, Answers, Kinds, Serials, Callers, Anyone
  <2>3. sheet \in Sheet /\ till \in Till
    BY DEF Sheet, Blank, Till, Shut, Anyone
  <2> QED
    BY <2>1, <2>2, <2>3 DEF Typed
<1>0. Calls = {Unsent}
  BY DEF Calls, Callers
<1>2. FormFilled /\ \A j \in Calls : GoodJob(j)
  BY <1>0 DEF FormFilled, GoodJob, Blank, Unsent
<1>3. Current
  BY <1>0 DEF Current, Knows, Unsent
<1>4. BusyHasReason
  BY DEF BusyHasReason, Shut
<1>5. Apart
  BY <1>0 DEF Apart, OwnRow, OwnJob, OwnSheet, OwnTill, Unsent, Blank, Shut
<1> QED
  BY <1>1, <1>2, <1>3, <1>4, <1>5 DEF DeskInv, Formed

---------------------------------------------------------------------------
(* The requests.                                                           *)

\* What a new request looks like.
LEMMA RequestForm ==
  ASSUME NEW c \in Callers, NEW i \in Anyone, NEW kind \in Kinds, used[c] \in Nat
  PROVE  /\ Request(kind, i, c) \in Job
         /\ Request(kind, i, c).stage = "sent" /\ Request(kind, i, c).kind = kind
         /\ Request(kind, i, c).id = i
         /\ \A v \in Nat, w \in Anyone, t \in Nat :
              /\ Edit(kind, i, c, v, w, t) \in Job
              /\ Edit(kind, i, c, v, w, t).stage = "sent"
              /\ Edit(kind, i, c, v, w, t).kind = kind /\ Edit(kind, i, c, v, w, t).id = i
              /\ Edit(kind, i, c, v, w, t).about = w /\ Edit(kind, i, c, v, w, t).total = t
         /\ \A a \in Nat, w \in Anyone :
              /\ Payment(i, c, a, w) \in Job
              /\ Payment(i, c, a, w).stage = "sent"
              /\ Payment(i, c, a, w).kind = "pay" /\ Payment(i, c, a, w).id = i
              /\ Payment(i, c, a, w).meant = w /\ Payment(i, c, a, w).amount = a
         /\ \A n \in Nat :
              /\ Deletion(i, c, n) \in Job
              /\ Deletion(i, c, n).stage = "sent"
              /\ Deletion(i, c, n).kind = "delete" /\ Deletion(i, c, n).id = i
<1> DEFINE r == Request(kind, i, c)
<1>1. /\ r \in Job /\ r.stage = "sent" /\ r.kind = kind /\ r.id = i
      /\ r = [stage |-> "sent", attempt |-> 1, kind |-> kind, id |-> i, serial |-> Serial(c),
              version |-> 0, about |-> i, total |-> 1, amount |-> 0, meant |-> i,
              nth |-> 0, seen |-> 0, locked |-> FALSE]
  <2>1. Serial(c) \in Serials
    BY DEF Serial, Serials
  <2> QED
    BY <2>1, DeskAssumption DEF Request, Job, Stages
<1>2. ASSUME NEW v \in Nat, NEW w \in Anyone, NEW t \in Nat
      PROVE  /\ Edit(kind, i, c, v, w, t) \in Job
             /\ Edit(kind, i, c, v, w, t).stage = "sent"
             /\ Edit(kind, i, c, v, w, t).kind = kind /\ Edit(kind, i, c, v, w, t).id = i
             /\ Edit(kind, i, c, v, w, t).about = w /\ Edit(kind, i, c, v, w, t).total = t
  <2> HIDE DEF r
  <2>1. Edit(kind, i, c, v, w, t) = [r EXCEPT !.version = v, !.about = w, !.total = t]
    BY DEF Edit, r
  <2> QED
    BY <1>1, <2>1 DEF Job
<1>3. ASSUME NEW a \in Nat, NEW w \in Anyone
      PROVE  /\ Payment(i, c, a, w) \in Job
             /\ Payment(i, c, a, w).stage = "sent"
             /\ Payment(i, c, a, w).kind = "pay" /\ Payment(i, c, a, w).id = i
             /\ Payment(i, c, a, w).meant = w /\ Payment(i, c, a, w).amount = a
  <2>1. Payment(i, c, a, w) = [Request("pay", i, c) EXCEPT !.amount = a, !.meant = w]
    BY DEF Payment
  <2>2. Payment(i, c, a, w) =
          [stage |-> "sent", attempt |-> 1, kind |-> "pay", id |-> i, serial |-> Serial(c),
           version |-> 0, about |-> i, total |-> 1, amount |-> a, meant |-> w,
           nth |-> 0, seen |-> 0, locked |-> FALSE]
    BY <2>1 DEF Request
  <2>3. Serial(c) \in Serials
    BY DEF Serial, Serials
  <2> QED
    BY <2>2, <2>3, DeskAssumption DEF Job, Stages, Kinds
<1>4. ASSUME NEW n \in Nat
      PROVE  /\ Deletion(i, c, n) \in Job
             /\ Deletion(i, c, n).stage = "sent"
             /\ Deletion(i, c, n).kind = "delete" /\ Deletion(i, c, n).id = i
  <2>1. Deletion(i, c, n) = [Request("delete", i, c) EXCEPT !.nth = n]
    BY DEF Deletion
  <2>2. Deletion(i, c, n) =
          [stage |-> "sent", attempt |-> 1, kind |-> "delete", id |-> i, serial |-> Serial(c),
           version |-> 0, about |-> i, total |-> 1, amount |-> 0, meant |-> i,
           nth |-> n, seen |-> 0, locked |-> FALSE]
    BY <2>1 DEF Request
  <2>3. Serial(c) \in Serials
    BY DEF Serial, Serials
  <2> QED
    BY <2>2, <2>3, DeskAssumption DEF Job, Stages, Kinds
<1> HIDE DEF r
<1> QED
  BY <1>1, <1>2, <1>3, <1>4 DEF r

\* The answer of an endpoint's check is one of its four.
LEMMA VerdictIsOne ==
  ASSUME NEW j, j.kind \in {"edit", "pay", "delete", "void", "unvoid"}
  PROVE  /\ Verdict(j) \in {"checked", "conflict", "refused"}
         /\ j.kind = "edit" /\ Verdict(j) = "checked" =>
              rows[j.id].version = j.version /\ ~rows[j.id].voided
<1>1. CASE j.kind = "edit"
  BY <1>1 DEF Verdict
<1>2. CASE j.kind = "pay"
  BY <1>2 DEF Verdict
<1>3. CASE j.kind = "void"
  BY <1>3 DEF Verdict
<1>4. CASE j.kind = "unvoid"
  BY <1>4 DEF Verdict
<1>5. CASE j.kind = "delete"
  BY <1>5 DEF Verdict
<1> QED
  BY <1>1, <1>2, <1>3, <1>4, <1>5

\* The later form of a call says the same words.
Resembles(k, j) ==
  /\ k.kind = j.kind /\ k.id = j.id /\ k.about = j.about /\ k.total = j.total
  /\ k.meant = j.meant /\ k.version = j.version /\ k.serial = j.serial
  /\ k.amount = j.amount /\ k.nth = j.nth

\* In a step of the server or the client the call j may become k.
Moved(j, k) ==
  /\ Calls' \subseteq Calls \cup {k} /\ Calls \ Calls' \subseteq {j}
  /\ jobs' \in [Callers -> Job]
  /\ left' \subseteq {x \in Job : x.stage \in {"sent", "checked"}}
  /\ jobs["pay"].stage # "idle" => jobs'["pay"].stage # "idle"

\* A caller's call becomes another, and may be left at the server.
LEMMA CallerMoves ==
  ASSUME Typed, NEW c \in Callers, NEW k \in Job, jobs' = [jobs EXCEPT ![c] = k],
         k.stage # "idle",
         \/ left' = left
         \/ left' = left \cup {jobs[c]} /\ jobs[c].stage \in {"sent", "checked"}
  PROVE  jobs[c] \in Calls /\ Moved(jobs[c], k)
<1>1. jobs \in [Callers -> Job] /\ \A d \in Callers : jobs'[d] = IF d = c THEN k ELSE jobs[d]
  BY DEF Typed
<1>2. jobs' \in [Callers -> Job] /\ left' \subseteq {x \in Job : x.stage \in {"sent", "checked"}}
  BY <1>1 DEF Typed
<1>3. Calls' \subseteq Calls \cup {k} /\ Calls \ Calls' \subseteq {jobs[c]}
  BY <1>1 DEF Calls
<1>4. jobs["pay"].stage # "idle" => jobs'["pay"].stage # "idle"
  BY <1>1 DEF Callers
<1> QED
  BY <1>2, <1>3, <1>4 DEF Moved, Calls

\* A call the client has given up becomes another, or is done with.
LEMMA LeftMoves ==
  ASSUME Typed, NEW j \in left, NEW k \in Job, jobs' = jobs,
         \/ left' = left \ {j}
         \/ left' = (left \ {j}) \cup {k} /\ k.stage \in {"sent", "checked"}
  PROVE  j \in Calls /\ Moved(j, k)
<1>1. Calls' \subseteq Calls \cup {k} /\ Calls \ Calls' \subseteq {j}
  BY DEF Calls
<1>2. jobs' \in [Callers -> Job] /\ left' \subseteq {x \in Job : x.stage \in {"sent", "checked"}}
  BY DEF Typed
<1> QED
  BY <1>1, <1>2 DEF Moved, Calls

\* The calls are well formed.
LEMMA CallForm ==
  ASSUME DeskInv, NEW j \in Calls
  PROVE  /\ j \in Job /\ GoodJob(j) /\ Knows(j)
         /\ j.kind # "create" => /\ j.kind \in {"edit", "pay", "delete", "void", "unvoid"}
                                 /\ j.id \in Invoices /\ rows[j.id] \in Row
<1>1. j \in Job /\ GoodJob(j) /\ Knows(j) /\ rows \in [Invoices -> Row]
  BY DEF DeskInv, Formed, Typed, Current, Calls
<1> QED
  BY <1>1 DEF GoodJob, Job, Kinds

\* What a call looks like after its check.
LEMMA LookedForm ==
  ASSUME DeskInv, NEW j \in Calls
  PROVE  /\ Looked(j) \in Job /\ Resembles(Looked(j), j) /\ Knows(Looked(j))
         /\ Looked(j).stage \in {"checked", "conflict", "refused"}
         /\ j.kind # "create" => /\ Looked(j).stage = Verdict(j)
                                 /\ Looked(j).locked = (Live(rows[j.id]) # {})
<1> DEFINE k == Looked(j)
<1>1. /\ j \in Job
      /\ j.kind # "create" => j.kind \in {"edit", "pay", "delete", "void", "unvoid"} /\ rows[j.id] \in Row
  BY CallForm
<1>2. CASE j.kind = "create"
  <2>1. k = [j EXCEPT !.stage = "checked"]
    BY <1>2 DEF Looked
  <2> HIDE DEF k
  <2>2. k \in Job /\ Resembles(k, j) /\ k.stage = "checked" /\ k.kind = "create"
    BY <1>1, <1>2, <2>1 DEF Job, Stages, Resembles
  <2> QED
    BY <1>2, <2>2 DEF k, Knows
<1>3. CASE j.kind # "create"
  <2> DEFINE v == Verdict(j)
             seen == rows[j.id].version
             locked == (Live(rows[j.id]) # {})
  <2>1. k = [j EXCEPT !.stage = v, !.seen = seen, !.locked = locked]
    BY <1>3 DEF Looked
  <2>2. /\ v \in {"checked", "conflict", "refused"}
        /\ j.kind = "edit" /\ v = "checked" => seen = j.version /\ ~rows[j.id].voided
    BY <1>1, <1>3, VerdictIsOne
  <2>3. seen \in Nat /\ locked \in BOOLEAN /\ seen = rows[j.id].version
    BY <1>1, <1>3 DEF Row
  <2>4. v = Verdict(j) /\ locked = (Live(rows[j.id]) # {})
    OBVIOUS
  <2> HIDE DEF k, v, seen, locked
  <2>5. k.stage = v /\ k.seen = seen /\ k.locked = locked /\ Resembles(k, j)
    BY <1>1, <2>1 DEF Job, Resembles
  <2>6. k \in Job
    BY <1>1, <2>1, <2>2, <2>3 DEF Job, Stages, Answers
  <2>7. Knows(k)
    BY <2>2, <2>3, <2>5 DEF Knows, Resembles
  <2> QED
    BY <2>2, <2>4, <2>5, <2>6, <2>7 DEF k
<1> QED
  BY <1>2, <1>3

\* A check, by whoever still waits for it or by nobody.
LEMMA CheckForm ==
  ASSUME DeskInv, \/ \E c \in Callers : Check(c)
                  \/ \E j \in left : CheckLeft(j)
  PROVE  \E j \in Calls : /\ j.stage = "sent" /\ Moved(j, Looked(j))
                          /\ UNCHANGED <<rows, screen>> /\ raced' = (raced \/ Overlaps(j))
<1>1. Typed
  BY DEF DeskInv, Formed
<1>2. ASSUME NEW c \in Callers, Check(c)
      PROVE  \E j \in Calls : /\ j.stage = "sent" /\ Moved(j, Looked(j))
                              /\ UNCHANGED <<rows, screen>> /\ raced' = (raced \/ Overlaps(j))
  <2>1. jobs[c] \in Calls
    BY DEF Calls
  <2>2. Looked(jobs[c]) \in Job /\ Looked(jobs[c]).stage # "idle"
    BY <2>1, LookedForm
  <2>3. jobs' = [jobs EXCEPT ![c] = Looked(jobs[c])] /\ left' = left
    BY <1>2 DEF Check
  <2>4. Moved(jobs[c], Looked(jobs[c]))
    BY <1>1, <2>2, <2>3, CallerMoves
  <2> QED
    BY <1>2, <2>1, <2>4 DEF Check
<1>3. ASSUME NEW j \in left, CheckLeft(j)
      PROVE  /\ j \in Calls /\ j.stage = "sent" /\ Moved(j, Looked(j))
             /\ UNCHANGED <<rows, screen>> /\ raced' = (raced \/ Overlaps(j))
  <2>1. j \in Calls
    BY DEF Calls
  <2>2. Looked(j) \in Job
    BY <2>1, LookedForm
  <2>3. /\ jobs' = jobs
        /\ left' = (left \ {j}) \cup {k \in {Looked(j)} : k.stage = "checked"}
    BY <1>3 DEF CheckLeft
  <2>4. CASE Looked(j).stage = "checked"
    <3>1. left' = (left \ {j}) \cup {Looked(j)}
      BY <2>3, <2>4
    <3> QED
      BY <1>1, <1>3, <2>1, <2>2, <2>3, <2>4, <3>1, LeftMoves DEF CheckLeft
  <2>5. CASE Looked(j).stage # "checked"
    <3>1. left' = left \ {j}
      BY <2>3, <2>5
    <3> QED
      BY <1>1, <1>3, <2>1, <2>2, <2>3, <3>1, LeftMoves DEF CheckLeft
  <2> QED
    BY <2>4, <2>5
<1> QED
  BY <1>2, <1>3

\* A step after which a call says what it said, and no row is written.
LEMMA Restaged ==
  ASSUME DeskInv, NEW j \in Calls, NEW k \in Job, Moved(j, k), Resembles(k, j), Knows(k),
         UNCHANGED <<rows, screen>>, raced' \in BOOLEAN
  PROVE  DeskInv'
<1> USE DEF screen
<1>1. Typed'
  BY DEF DeskInv, Formed, Typed, Moved
<1>2. Calls' \subseteq Calls \cup {k}
  BY DEF Moved
<1>3. GoodJob(j) /\ (~strayed => OwnJob(j))
  BY DEF DeskInv, Formed, Apart
<1>4. GoodJob(k) /\ (~strayed => OwnJob(k))
  BY <1>3 DEF Resembles, GoodJob, OwnJob
<1>5. FormFilled' /\ \A x \in Calls' : GoodJob(x)
  BY <1>2, <1>4 DEF DeskInv, Formed, FormFilled
<1>6. Current'
  BY <1>2 DEF DeskInv, Current, Knows
<1>7. BusyHasReason'
  BY DEF DeskInv, BusyHasReason, Moved
<1>8. Apart'
  BY <1>2, <1>4 DEF DeskInv, Apart, OwnRow, OwnSheet, OwnTill
<1> QED
  BY <1>1, <1>5, <1>6, <1>7, <1>8 DEF DeskInv, Formed

\* A check remembers the version it saw.
LEMMA CheckKeeps ==
  ASSUME DeskInv, \/ \E c \in Callers : Check(c)
                  \/ \E j \in left : CheckLeft(j)
  PROVE  DeskInv'
<1>1. PICK j \in Calls : /\ Moved(j, Looked(j)) /\ UNCHANGED <<rows, screen>>
                         /\ raced' = (raced \/ Overlaps(j))
  BY CheckForm
<1>2. raced \in BOOLEAN /\ Overlaps(j) \in BOOLEAN
  BY DEF DeskInv, Formed, Typed, Overlaps
<1>3. raced' \in BOOLEAN
  BY <1>1, <1>2
<1>4. Looked(j) \in Job /\ Resembles(Looked(j), j) /\ Knows(Looked(j))
  BY LookedForm
<1> QED
  BY <1>1, <1>3, <1>4, Restaged

\* A call that is lost, or sent again, carries the same words.
LEMMA LoseForm ==
  ASSUME DeskInv, NEW c \in Callers, Lose(c)
  PROVE  \E j \in Calls, k \in Job :
           /\ j.stage # "idle" /\ k.stage \in {"sent", "dead"} /\ Resembles(k, j) /\ Moved(j, k)
           /\ UNCHANGED <<rows, screen, raced>>
<1> DEFINE j == jobs[c]
           k == IF j.attempt < MaxAttempts
                THEN [j EXCEPT !.stage = "sent", !.attempt = @ + 1, !.seen = 0, !.locked = FALSE]
                ELSE [j EXCEPT !.stage = "dead"]
<1>k. Again(jobs[c]) = k
  BY DEF Again
<1>1. Typed /\ j \in Job
  BY DEF DeskInv, Formed, Typed
<1>2. /\ jobs' = [jobs EXCEPT ![c] = k] /\ j.stage # "idle" /\ UNCHANGED <<rows, screen, raced>>
      /\ left' = left \cup {x \in {j} : x.stage \in {"sent", "checked"}}
  <2> HIDE DEF k
  <2> QED BY <1>k DEF Lose
<1>3. k \in Job /\ k.stage \in {"sent", "dead"} /\ Resembles(k, j)
  <2>1. CASE j.attempt < MaxAttempts
    <3>1. k = [j EXCEPT !.stage = "sent", !.attempt = j.attempt + 1, !.seen = 0, !.locked = FALSE]
      BY <1>1, <2>1 DEF Job
    <3>2. j.attempt + 1 \in 1..MaxAttempts
      BY <1>1, <2>1, DeskAssumption DEF Job
    <3> HIDE DEF k
    <3> QED
      BY <1>1, <3>1, <3>2 DEF Job, Stages, Resembles
  <2>2. CASE ~(j.attempt < MaxAttempts)
    <3>1. k = [j EXCEPT !.stage = "dead"]
      BY <2>2
    <3> HIDE DEF k
    <3> QED
      BY <1>1, <3>1 DEF Job, Stages, Answers, Resembles
  <2> QED
    BY <2>1, <2>2
<1> HIDE DEF k
<1>4. \/ left' = left
      \/ left' = left \cup {j} /\ j.stage \in {"sent", "checked"}
  BY <1>2
<1>5. j \in Calls /\ Moved(j, k)
  BY <1>1, <1>2, <1>3, <1>4, CallerMoves
<1> QED
  BY <1>2, <1>3, <1>5

LEMMA LoseKeeps ==
  ASSUME DeskInv, NEW c \in Callers, Lose(c)
  PROVE  DeskInv'
<1>1. PICK j \in Calls, k \in Job :
        /\ k.stage \in {"sent", "dead"} /\ Resembles(k, j) /\ Moved(j, k)
        /\ UNCHANGED <<rows, screen, raced>>
  BY LoseForm
<1>2. Knows(k) /\ raced' \in BOOLEAN
  BY <1>1 DEF Knows, DeskInv, Formed, Typed
<1> QED
  BY <1>1, <1>2, Restaged

\* What the write of an endpoint makes of the row.
Written(row, j) ==
  CASE j.kind = "edit"   -> Edited(row, j)
    [] j.kind = "pay"    -> PaidBy(row, j)
    [] j.kind = "delete" -> Deleted(row, j)
    [] j.kind = "void"   -> Voided(row, j)
    [] j.kind = "unvoid" -> Unvoided(row, j)

\* The payments of a row once one of them is deleted.
Without(paid, nth) ==
  [n \in DOMAIN paid |-> IF n = nth THEN [paid[n] EXCEPT !.amount = 0] ELSE paid[n]]

\* Which columns of a row each kind of request may write.
LEMMA WrittenRow ==
  ASSUME NEW row \in Row, NEW j \in Job, GoodJob(j), j.kind # "create"
  PROVE  /\ Written(row, j) \in Row
         /\ \/ Written(row, j).version = row.version /\ Written(row, j).voided = row.voided
            \/ Written(row, j).version = row.version + 1
         /\ j.kind # "edit" => Written(row, j).about = row.about /\ Written(row, j).total = row.total
         /\ j.kind = "edit" => Written(row, j).about = j.about
         /\ j.kind \notin {"pay", "delete"} => Written(row, j).paid = row.paid
         /\ j.kind = "delete" => Written(row, j).paid = Without(row.paid, j.nth)
         /\ j.kind = "pay" => Written(row, j).paid =
              Append(row.paid, [key |-> j.serial, amount |-> j.amount, meant |-> j.meant])
<1> DEFINE w == Written(row, j)
<1>1. CASE j.kind = "edit"
  <2>1. w = [row EXCEPT !.about = j.about, !.version = row.version + 1, !.by = j.serial,
                        !.total = IF j.locked THEN row.total ELSE j.total]
    BY <1>1 DEF Written, Edited, Row
  <2>2. j.about \in Invoices /\ j.total \in Totals \cup {2}
    BY <1>1 DEF GoodJob, Fill
  <2>3. j.serial \in Serials /\ row.version + 1 \in Nat \ {0}
    BY DEF Job, Row
  <2> HIDE DEF w
  <2>4. w \in Row
    BY <2>1, <2>2, <2>3 DEF Row
  <2>5. /\ w.version = row.version + 1 /\ w.about = j.about /\ w.paid = row.paid
    BY <2>1 DEF Row
  <2> QED
    BY <1>1, <2>4, <2>5 DEF w
<1>2. CASE j.kind = "pay"
  <2> DEFINE r == [key |-> j.serial, amount |-> j.amount, meant |-> j.meant]
  <2>1. w = [row EXCEPT !.paid = Append(row.paid, r)]
    BY <1>2 DEF Written, PaidBy, Row
  <2>2. r \in Receipt
    BY DEF Receipt, Job
  <2> HIDE DEF r
  <2>3. Append(row.paid, r) \in Seq(Receipt)
    BY <2>2 DEF Row
  <2> QED
    BY <1>2, <2>1, <2>3 DEF Row, r
<1>3. CASE j.kind = "void"
  <2>1. w = [row EXCEPT !.voided = TRUE, !.version = row.version + 1, !.by = j.serial]
    BY <1>3 DEF Written, Voided, Row
  <2>2. j.serial \in Serials /\ row.version + 1 \in Nat \ {0}
    BY DEF Job, Row
  <2> HIDE DEF w
  <2>3. w \in Row
    BY <2>1, <2>2 DEF Row
  <2>4. /\ w.version = row.version + 1 /\ w.about = row.about
        /\ w.total = row.total /\ w.paid = row.paid
    BY <2>1 DEF Row
  <2> QED
    BY <1>3, <2>3, <2>4 DEF w
<1>4. CASE j.kind = "unvoid"
  <2>1. w = [row EXCEPT !.voided = FALSE, !.version = row.version + 1, !.by = j.serial]
    BY <1>4 DEF Written, Unvoided, Row
  <2>2. j.serial \in Serials /\ row.version + 1 \in Nat \ {0}
    BY DEF Job, Row
  <2> HIDE DEF w
  <2>3. w \in Row
    BY <2>1, <2>2 DEF Row
  <2>4. /\ w.version = row.version + 1 /\ w.about = row.about
        /\ w.total = row.total /\ w.paid = row.paid
    BY <2>1 DEF Row
  <2> QED
    BY <1>4, <2>3, <2>4 DEF w
<1>5. CASE j.kind = "delete"
  <2> DEFINE p == Without(row.paid, j.nth)
  <2>1. row.paid \in Seq(Receipt)
    BY DEF Row
  <2>2. \A r \in Receipt : [r EXCEPT !.amount = 0] \in Receipt
    BY DEF Receipt
  <2>3. p \in Seq(Receipt)
    BY <2>1, <2>2 DEF Without
  <2>4. p = [row.paid EXCEPT ![j.nth].amount = 0]
    BY <2>1 DEF Without
  <2> HIDE DEF p
  <2>5. w = [row EXCEPT !.paid = p]
    BY <1>5, <2>4 DEF Written, Deleted, Row
  <2>6. w \in Row /\ w.paid = p /\ w.version = row.version /\ w.voided = row.voided
        /\ w.about = row.about /\ w.total = row.total
    BY <2>3, <2>5 DEF Row
  <2> QED
    BY <1>5, <2>6 DEF p
<1> QED
  BY <1>1, <1>2, <1>3, <1>4, <1>5 DEF Job, Kinds

\* What a write leaves of the payments: one is added, one counts no more, or
\* they stay.
LEMMA WrittenPaid ==
  ASSUME NEW row \in Row, NEW j \in Job, GoodJob(j), j.kind # "create"
  PROVE  /\ Live(row) \subseteq DOMAIN row.paid /\ DOMAIN row.paid \subseteq Nat
         /\ j.kind # "pay" => Live(Written(row, j)) \subseteq Live(row)
         /\ j.kind = "pay" => /\ Len(row.paid) + 1 \notin DOMAIN row.paid
                              /\ Len(row.paid) + 1 \in Live(Written(row, j))
                              /\ Written(row, j).paid[Len(row.paid) + 1].key = j.serial
         /\ \A n \in DOMAIN Written(row, j).paid :
              \/ /\ n \in DOMAIN row.paid
                 /\ n \in Live(Written(row, j)) => n \in Live(row)
                 /\ Written(row, j).paid[n].meant = row.paid[n].meant
                 /\ Written(row, j).paid[n].key = row.paid[n].key
              \/ /\ j.kind = "pay" /\ n = Len(row.paid) + 1
                 /\ Written(row, j).paid[n].meant = j.meant
                 /\ Written(row, j).paid[n].key = j.serial
<1> DEFINE w == Written(row, j)
           paid == row.paid
           past == w.paid
<1>1. paid \in Seq(Receipt) /\ DOMAIN paid \subseteq Nat
  BY DEF Row
<1>2. CASE j.kind = "pay"
  <2> DEFINE r == [key |-> j.serial, amount |-> j.amount, meant |-> j.meant]
             m == Len(paid) + 1
  <2>1. past = Append(paid, r) /\ r.key = j.serial /\ r.meant = j.meant
    BY <1>2, WrittenRow
  <2>2. r.amount > 0
    BY <1>2 DEF GoodJob
  <2> HIDE DEF w, r, paid, past
  <2>3. /\ m \notin DOMAIN paid /\ m \in DOMAIN past /\ past[m] = r
        /\ \A n \in DOMAIN past : \/ n \in DOMAIN paid /\ past[n] = paid[n]
                                  \/ n = m
    BY <1>1, <2>1
  <2>4. m \in Live(w) /\ \A n \in DOMAIN paid : n \in Live(w) /\ past[n] = paid[n] => n \in Live(row)
    BY <2>2, <2>3 DEF Live, past, paid
  <2> QED
    BY <1>1, <1>2, <2>1, <2>3, <2>4 DEF w, paid, past, Live
<1>3. CASE j.kind = "delete"
  <2>1. past = Without(paid, j.nth)
    BY <1>3, WrittenRow
  <2>2. \A n \in DOMAIN paid : paid[n] \in Receipt
    BY <1>1
  <2> HIDE DEF w, paid, past
  <2>3. DOMAIN past = DOMAIN paid
    BY <2>1 DEF Without
  <2>4. ASSUME NEW n \in DOMAIN paid
        PROVE  /\ past[n].meant = paid[n].meant /\ past[n].key = paid[n].key
               /\ past[n].amount > 0 => paid[n].amount > 0
    <3>1. past[n] = IF n = j.nth THEN [paid[n] EXCEPT !.amount = 0] ELSE paid[n]
      BY <2>1 DEF Without
    <3> QED
      BY <2>2, <3>1 DEF Receipt
  <2> QED
    BY <1>1, <1>3, <2>3, <2>4 DEF w, paid, past, Live
<1>4. CASE j.kind \notin {"pay", "delete"}
  <2>1. past = paid
    BY <1>4, WrittenRow
  <2> HIDE DEF w
  <2> QED
    BY <1>1, <1>4, <2>1 DEF Live, w
<1> QED
  BY <1>2, <1>3, <1>4

\* A commit either leaves the rows or writes its own, and then no version has
\* moved since the check of an edit and no payment carries its key.
LEMMA CommitForm ==
  ASSUME DeskInv, \/ \E c \in Callers : Commit(c)
                  \/ \E j \in left : CommitLeft(j)
  PROVE  \E j \in Calls :
           /\ j.stage = "checked" /\ Moved(j, [j EXCEPT !.stage = Outcome(j)])
           /\ UNCHANGED <<screen, raced>>
           /\ \/ rows' = rows
              \/ /\ j.kind # "create" /\ ~Clashes(j)
                 /\ j.kind = "pay" => ~KnownKey(j.serial)
                 /\ rows' = [rows EXCEPT ![j.id] = Written(rows[j.id], j)]
<1>1. Typed
  BY DEF DeskInv, Formed
<1>2. ASSUME NEW j \in Calls
      PROVE  /\ Outcome(j) \in {"ok", "conflict", "refused"}
             /\ [j EXCEPT !.stage = Outcome(j)] \in Job
  <2>1. j \in Job
    BY CallForm
  <2>2. Outcome(j) \in {"ok", "conflict", "refused"}
    BY DEF Outcome
  <2> QED
    BY <2>1, <2>2 DEF Job, Stages, Answers
<1>3. ASSUME NEW j \in Calls, Write(j)
      PROVE  \/ rows' = rows
             \/ /\ j.kind # "create" /\ ~Clashes(j)
                /\ j.kind = "pay" => ~KnownKey(j.serial)
                /\ rows' = [rows EXCEPT ![j.id] = Written(rows[j.id], j)]
  <2>1. CASE Outcome(j) # "ok" \/ j.kind = "create"
    BY <1>3, <2>1 DEF Write
  <2>2. CASE Outcome(j) = "ok" /\ j.kind # "create"
    <3>1. ~Clashes(j) /\ (j.kind = "pay" => ~KnownKey(j.serial))
      BY <2>2 DEF Outcome
    <3>2. rows \in [Invoices -> Row] /\ j.id \in Invoices
      BY <1>1, <2>2, CallForm DEF Typed
    <3>3. rows' = [rows EXCEPT ![j.id] = Written(rows[j.id], j)]
      BY <1>3, <2>2, <3>2 DEF Write, Written
    <3> QED
      BY <2>2, <3>1, <3>3
  <2> QED
    BY <2>1, <2>2
<1>4. ASSUME NEW c \in Callers, Commit(c)
      PROVE  /\ jobs[c] \in Calls /\ jobs[c].stage = "checked" /\ Write(jobs[c])
             /\ Moved(jobs[c], [jobs[c] EXCEPT !.stage = Outcome(jobs[c])])
             /\ UNCHANGED <<screen, raced>>
  <2> DEFINE k == [jobs[c] EXCEPT !.stage = Outcome(jobs[c])]
  <2>1. jobs[c] \in Calls
    BY DEF Calls
  <2>2. k \in Job /\ k.stage # "idle"
    <3>1. k \in Job /\ Outcome(jobs[c]) # "idle" /\ jobs[c] \in Job
      BY <1>2, <2>1, CallForm
    <3> QED
      BY <3>1 DEF Job
  <2>3. jobs' = [jobs EXCEPT ![c] = k] /\ left' = left
    BY <1>1, <1>4 DEF Commit, Typed
  <2> HIDE DEF k
  <2>4. Moved(jobs[c], k)
    BY <1>1, <2>2, <2>3, CallerMoves
  <2> QED
    BY <1>4, <2>1, <2>4 DEF Commit, k
<1>5. ASSUME NEW j \in left, CommitLeft(j)
      PROVE  /\ j \in Calls /\ j.stage = "checked" /\ Write(j)
             /\ Moved(j, [j EXCEPT !.stage = Outcome(j)])
             /\ UNCHANGED <<screen, raced>>
  <2>1. j \in Calls
    BY DEF Calls
  <2>2. [j EXCEPT !.stage = Outcome(j)] \in Job
    BY <1>2, <2>1
  <2>3. jobs' = jobs /\ left' = left \ {j}
    BY <1>5 DEF CommitLeft
  <2>4. Moved(j, [j EXCEPT !.stage = Outcome(j)])
    BY <1>1, <2>2, <2>3, LeftMoves
  <2> QED
    BY <1>5, <2>1, <2>4 DEF CommitLeft
<1>6. CASE \E c \in Callers : Commit(c)
  BY <1>3, <1>4, <1>6
<1>7. CASE \E j \in left : CommitLeft(j)
  BY <1>3, <1>5, <1>7
<1> QED
  BY <1>6, <1>7

\* A call once its endpoint has written, or has not.
LEMMA OutcomeForm ==
  ASSUME DeskInv, NEW j \in Calls, NEW k, k = [j EXCEPT !.stage = Outcome(j)]
  PROVE  k \in Job /\ Resembles(k, j) /\ k.stage \in {"ok", "conflict", "refused"}
<1>1. j \in Job
  BY CallForm
<1>2. Outcome(j) \in {"ok", "conflict", "refused"}
  BY DEF Outcome
<1> QED
  BY <1>1, <1>2 DEF Job, Stages, Answers, Resembles

\* A write that the version comparison lets through keeps the invariant.
LEMMA CommitKeeps ==
  ASSUME DeskInv, \/ \E c \in Callers : Commit(c)
                  \/ \E j \in left : CommitLeft(j)
  PROVE  DeskInv'
<1>1. PICK j \in Calls :
        /\ j.stage = "checked" /\ Moved(j, [j EXCEPT !.stage = Outcome(j)])
        /\ UNCHANGED <<screen, raced>>
        /\ \/ rows' = rows
           \/ /\ j.kind # "create" /\ ~Clashes(j)
              /\ rows' = [rows EXCEPT ![j.id] = Written(rows[j.id], j)]
  BY CommitForm
<1> DEFINE k == [j EXCEPT !.stage = Outcome(j)]
<1>2. k \in Job /\ Resembles(k, j) /\ k.stage \in {"ok", "conflict", "refused"}
  BY OutcomeForm
<1>3. Knows(k) /\ raced' \in BOOLEAN /\ Moved(j, k)
  BY <1>1, <1>2 DEF Knows, DeskInv, Formed, Typed
<1> HIDE DEF k
<1>4. CASE rows' = rows
  BY <1>1, <1>2, <1>3, <1>4, Restaged
<1>5. CASE /\ j.kind # "create"
           /\ rows' = [rows EXCEPT ![j.id] = Written(rows[j.id], j)]
  <2> DEFINE w == Written(rows[j.id], j)
  <2>1. /\ j \in Job /\ GoodJob(j) /\ j.id \in Invoices /\ rows[j.id] \in Row
        /\ rows \in [Invoices -> Row]
    BY <1>5, CallForm DEF DeskInv, Formed, Typed
  <2>a. PICK row \in Row : row = rows[j.id]
    BY <2>1
  <2>w. w = Written(row, j)
    BY <2>a
  <2>b. /\ w \in Row
        /\ \/ w.version = row.version /\ w.voided = row.voided
           \/ w.version = row.version + 1
        /\ j.kind # "edit" => w.about = row.about
        /\ j.kind = "edit" => w.about = j.about
    <3> HIDE DEF w
    <3> QED BY <1>5, <2>1, <2>w, WrittenRow
  <2>c. \A n \in DOMAIN w.paid : \/ j.kind = "pay" /\ w.paid[n].meant = j.meant
                                \/ /\ n \in DOMAIN row.paid
                                   /\ w.paid[n].meant = row.paid[n].meant
    <3> HIDE DEF w
    <3> QED BY <1>5, <2>1, <2>w, WrittenPaid
  <2>2. /\ w \in Row
        /\ \/ w.version = rows[j.id].version /\ w.voided = rows[j.id].voided
           \/ w.version = rows[j.id].version + 1
        /\ j.kind # "edit" => w.about = rows[j.id].about
        /\ j.kind = "edit" => w.about = j.about
        /\ \A n \in DOMAIN w.paid : \/ j.kind = "pay" /\ w.paid[n].meant = j.meant
                                    \/ /\ n \in DOMAIN rows[j.id].paid
                                       /\ w.paid[n].meant = rows[j.id].paid[n].meant
    <3> HIDE DEF w
    <3> QED BY <2>a, <2>b, <2>c
  <2>3. \A i \in Invoices : rows'[i] = IF i = j.id THEN w ELSE rows[i]
    BY <1>5, <2>1
  <2>4. rows' \in [Invoices -> Row]
    BY <1>5, <2>1, <2>2
  <2> HIDE DEF w
  <2>5. Typed' /\ Calls' \subseteq Calls \cup {k}
    BY <1>1, <1>3, <2>4 DEF DeskInv, Formed, Typed, Moved, screen
  <2>6. GoodJob(k) /\ (~strayed => OwnJob(k))
    BY <1>2, <2>1 DEF Resembles, GoodJob, OwnJob, DeskInv, Apart
  <2>7. FormFilled' /\ \A x \in Calls' : GoodJob(x)
    BY <1>1, <2>5, <2>6 DEF DeskInv, Formed, FormFilled, screen
  <2>8. Current'
    <3> SUFFICES ASSUME NEW d \in Calls', d.stage = "checked", d.kind = "edit"
                 PROVE  /\ d.seen = d.version /\ d.seen <= rows'[d.id].version
                        /\ rows'[d.id].version = d.seen => ~rows'[d.id].voided
      BY DEF Current, Knows
    <3>1. d \in Calls
      BY <1>2, <2>5
    <3>2. /\ d.seen = d.version /\ d.seen <= rows[d.id].version
          /\ rows[d.id].version = d.seen => ~rows[d.id].voided
      BY <3>1 DEF DeskInv, Current, Knows
    <3>3. d.id \in Invoices /\ d.seen \in Nat /\ rows[d.id].version \in Nat
      <4>1. d \in Job /\ d.id \in Invoices /\ rows[d.id] \in Row
        BY <3>1, CallForm
      <4> QED
        BY <4>1 DEF Job, Row
    <3> QED
      BY <2>2, <2>3, <3>2, <3>3
  <2>9. BusyHasReason'
    BY <1>1, <1>3 DEF DeskInv, BusyHasReason, Moved, screen
  <2>10. Apart'
    <3> SUFFICES ASSUME ~strayed
                 PROVE  /\ \A i \in Invoices : OwnRow(i)'
                        /\ \A d \in Calls' : OwnJob(d)
                        /\ OwnSheet' /\ OwnTill'
      BY <1>1 DEF Apart, screen
    <3>1. /\ \A i \in Invoices : OwnRow(i)
          /\ \A d \in Calls : OwnJob(d)
          /\ OwnSheet /\ OwnTill
      BY DEF DeskInv, Apart
    <3>2. OwnJob(j)
      BY <3>1
    <3>3. w.about = j.id
      BY <2>1, <2>2, <3>1, <3>2 DEF OwnRow, OwnJob
    <3>4. \A n \in DOMAIN w.paid : w.paid[n].meant = j.id
      BY <2>1, <2>2, <3>1, <3>2 DEF OwnRow, OwnJob
    <3>5. \A i \in Invoices : OwnRow(i)'
      BY <2>3, <3>1, <3>3, <3>4 DEF OwnRow
    <3>6. \A d \in Calls' : OwnJob(d)
      BY <2>5, <2>6, <3>1
    <3> QED
      BY <1>1, <3>1, <3>5, <3>6 DEF OwnSheet, OwnTill, screen
  <2> QED
    BY <2>5, <2>7, <2>8, <2>9, <2>10 DEF DeskInv, Formed
<1> QED
  BY <1>1, <1>4, <1>5

\* A caller's request made or done with, beside dialogs that stay well formed
\* and, as long as no answer strays, apart.
LEMMA Rejobbed ==
  ASSUME DeskInv, NEW c \in Callers, NEW j \in Job, jobs' = [jobs EXCEPT ![c] = j],
         j.stage # "checked", GoodJob(j), ~strayed => OwnJob(j),
         UNCHANGED <<rows, left, loads, strayed, raced>>, used' \in [{"open"} \cup Callers -> Nat],
         sheet' \in Sheet, till' \in Till,
         refreshes' \subseteq [id : Anyone, opening : BOOLEAN],
         FormFilled', BusyHasReason', ~strayed => OwnSheet' /\ OwnTill'
  PROVE  DeskInv'
<1>1. Typed'
  BY DEF DeskInv, Formed, Typed
<1>2. Calls' \subseteq Calls \cup {j}
  BY DEF DeskInv, Formed, Typed, Calls
<1>3. \A d \in Calls' : GoodJob(d)
  BY <1>2 DEF DeskInv, Formed
<1>4. Current'
  BY <1>2 DEF DeskInv, Current, Knows
<1>5. Apart'
  BY <1>2 DEF DeskInv, Apart, OwnRow
<1> QED
  BY <1>1, <1>3, <1>4, <1>5 DEF DeskInv, Formed

\* A caller with nothing under way.
LEMMA UnsentForm == Unsent \in Job /\ GoodJob(Unsent) /\ OwnJob(Unsent) /\ Unsent.stage = "idle"
  BY DeskAssumption DEF Unsent, Job, GoodJob, OwnJob, Stages, Kinds, Serials, Callers, Anyone

\* The other user asks for what they read at that moment.
LEMMA OtherAsksKeeps ==
  ASSUME DeskInv, OtherAsks
  PROVE  DeskInv'
<1>1. /\ rows \in [Invoices -> Row] /\ "other" \in Callers /\ Typed
      /\ used \in [{"open"} \cup Callers -> Nat] /\ used["other"] \in Nat
  BY DEF DeskInv, Formed, Typed, Callers
<1>2. PICK i \in Invoices, j \in Job :
        /\ jobs' = [jobs EXCEPT !["other"] = j]
        /\ j.stage = "sent" /\ j.id = i /\ GoodJob(j) /\ OwnJob(j)
  <2>1. PICK i \in Invoices :
          \/ \E kind \in {"void", "unvoid"} :
               jobs' = [jobs EXCEPT !["other"] = Request(kind, i, "other")]
          \/ \E v \in 1..rows[i].version, t \in Totals :
               jobs' = [jobs EXCEPT !["other"] = Edit("edit", i, "other", v, i, t)]
          \/ \E amount \in OtherAmounts :
               jobs' = [jobs EXCEPT !["other"] = Payment(i, "other", amount, i)]
          \/ \E n \in DOMAIN rows[i].paid :
               jobs' = [jobs EXCEPT !["other"] = Deletion(i, "other", n)]
    BY DEF OtherAsks
  <2>2. i \in Anyone /\ {"void", "unvoid", "edit", "pay"} \subseteq Kinds
    BY DEF Anyone, Kinds
  <2>3. ASSUME NEW kind \in {"void", "unvoid"},
               jobs' = [jobs EXCEPT !["other"] = Request(kind, i, "other")]
        PROVE  \E j \in Job : /\ jobs' = [jobs EXCEPT !["other"] = j]
                              /\ j.stage = "sent" /\ j.id = i /\ GoodJob(j) /\ OwnJob(j)
    <3>1. /\ Request(kind, i, "other") \in Job /\ Request(kind, i, "other").stage = "sent"
          /\ Request(kind, i, "other").kind = kind /\ Request(kind, i, "other").id = i
      BY <1>1, <2>2, RequestForm
    <3> QED
      BY <2>3, <3>1 DEF GoodJob, OwnJob
  <2>4. ASSUME NEW v \in 1..rows[i].version, NEW t \in Totals,
               jobs' = [jobs EXCEPT !["other"] = Edit("edit", i, "other", v, i, t)]
        PROVE  \E j \in Job : /\ jobs' = [jobs EXCEPT !["other"] = j]
                              /\ j.stage = "sent" /\ j.id = i /\ GoodJob(j) /\ OwnJob(j)
    <3> DEFINE j == Edit("edit", i, "other", v, i, t)
    <3>1. v \in Nat /\ t \in Nat
      BY <1>1, DeskAssumption DEF Row
    <3>2. j \in Job /\ j.stage = "sent" /\ j.kind = "edit" /\ j.id = i /\ j.about = i /\ j.total = t
      BY <1>1, <2>2, <3>1, RequestForm
    <3> HIDE DEF j
    <3>3. GoodJob(j) /\ OwnJob(j)
      BY <3>2 DEF GoodJob, OwnJob, Fill
    <3> QED
      BY <2>4, <3>2, <3>3 DEF j
  <2>5. ASSUME NEW amount \in OtherAmounts,
               jobs' = [jobs EXCEPT !["other"] = Payment(i, "other", amount, i)]
        PROVE  \E j \in Job : /\ jobs' = [jobs EXCEPT !["other"] = j]
                              /\ j.stage = "sent" /\ j.id = i /\ GoodJob(j) /\ OwnJob(j)
    <3> DEFINE j == Payment(i, "other", amount, i)
    <3>1. amount \in Nat /\ amount > 0
      BY DeskAssumption
    <3>2. /\ j \in Job /\ j.stage = "sent" /\ j.kind = "pay" /\ j.id = i /\ j.meant = i
          /\ j.amount = amount
      BY <1>1, <2>2, <3>1, RequestForm
    <3> HIDE DEF j
    <3>3. GoodJob(j) /\ OwnJob(j)
      BY <3>1, <3>2 DEF GoodJob, OwnJob
    <3> QED
      BY <2>5, <3>2, <3>3 DEF j
  <2>6. ASSUME NEW n \in DOMAIN rows[i].paid,
               jobs' = [jobs EXCEPT !["other"] = Deletion(i, "other", n)]
        PROVE  \E j \in Job : /\ jobs' = [jobs EXCEPT !["other"] = j]
                              /\ j.stage = "sent" /\ j.id = i /\ GoodJob(j) /\ OwnJob(j)
    <3> DEFINE j == Deletion(i, "other", n)
    <3>0. "delete" \in Kinds
      BY DEF Kinds
    <3>1. n \in Nat
      <4>1. rows[i].paid \in Seq(Receipt)
        BY <1>1 DEF Row
      <4> QED
        BY <4>1
    <3>2. j \in Job /\ j.stage = "sent" /\ j.kind = "delete" /\ j.id = i
      BY <1>1, <2>2, <3>0, <3>1, RequestForm
    <3> HIDE DEF j
    <3>3. GoodJob(j) /\ OwnJob(j)
      BY <3>2 DEF GoodJob, OwnJob
    <3> QED
      BY <2>6, <3>2, <3>3 DEF j
  <2> QED
    BY <2>1, <2>3, <2>4, <2>5, <2>6
<1>3. UNCHANGED <<rows, left, sheet, loads, till, refreshes, strayed, raced>>
  BY DEF OtherAsks
<1>4. used' \in [{"open"} \cup Callers -> Nat]
  BY <1>1 DEF OtherAsks, Spend
<1>5. FormFilled' /\ (~strayed => OwnSheet' /\ OwnTill')
  BY <1>3 DEF DeskInv, Formed, FormFilled, Apart, OwnSheet, OwnTill
<1>6. BusyHasReason'
  BY <1>1, <1>2, <1>3 DEF DeskInv, BusyHasReason, Typed, Callers
<1>7. /\ sheet' \in Sheet /\ till' \in Till
      /\ refreshes' \subseteq [id : Anyone, opening : BOOLEAN]
  BY <1>1, <1>3 DEF Typed
<1> QED
  BY <1>1, <1>2, <1>3, <1>4, <1>5, <1>6, <1>7, Rejobbed

\* The other user hears the end of their request.
LEMMA OtherHearsKeeps ==
  ASSUME DeskInv, OtherHears
  PROVE  DeskInv'
<1>1. Typed /\ "other" \in Callers
  BY DEF DeskInv, Formed, Callers
<1>2. /\ jobs' = [jobs EXCEPT !["other"] = Unsent]
      /\ UNCHANGED <<rows, left, sheet, loads, till, refreshes, used, strayed, raced>>
  BY DEF OtherHears
<1>3. FormFilled' /\ (~strayed => OwnSheet' /\ OwnTill')
  BY <1>2 DEF DeskInv, Formed, FormFilled, Apart, OwnSheet, OwnTill
<1>4. BusyHasReason'
  BY <1>1, <1>2 DEF DeskInv, BusyHasReason, Typed, Callers
<1>5. /\ sheet' \in Sheet /\ till' \in Till /\ used' \in [{"open"} \cup Callers -> Nat]
      /\ refreshes' \subseteq [id : Anyone, opening : BOOLEAN]
  BY <1>1, <1>2 DEF Typed
<1> QED
  BY <1>1, <1>2, <1>3, <1>4, <1>5, UnsentForm, Rejobbed

---------------------------------------------------------------------------
(* The edit dialog.                                                        *)

\* Only the edit dialog, what it waits for and the count of openings change.
LEMMA Resheeted ==
  ASSUME DeskInv, UNCHANGED <<rows, jobs, left, till, refreshes, raced>>,
         sheet' \in Sheet, loads' \subseteq Invoices, strayed' \in BOOLEAN,
         used' \in [{"open"} \cup Callers -> Nat], FormFilled',
         ~strayed' => ~strayed /\ OwnSheet'
  PROVE  DeskInv'
<1>1. Typed'
  BY DEF DeskInv, Formed, Typed
<1>0. Calls' = Calls
  BY DEF Calls
<1>2. \A d \in Calls' : GoodJob(d)
  BY <1>0 DEF DeskInv, Formed
<1>3. Current' /\ BusyHasReason'
  BY <1>0 DEF DeskInv, Current, Knows, BusyHasReason
<1>4. Apart'
  BY <1>0 DEF DeskInv, Apart, OwnRow, OwnTill
<1> QED
  BY <1>1, <1>2, <1>3, <1>4 DEF DeskInv, Formed

\* Opening, filling and closing the form.
LEMMA SheetKeeps ==
  ASSUME DeskInv,
         \/ OpenCreate \/ CloseSheet
         \/ \E i \in Invoices : OpenEdit(i) \/ FormArrives(i) \/ FormFails(i)
         \/ \E t \in Totals : TypeTotal(t)
  PROVE  DeskInv'
<1>1. /\ sheet \in Sheet /\ loads \subseteq Invoices /\ strayed \in BOOLEAN
      /\ used \in [{"open"} \cup Callers -> Nat] /\ rows \in [Invoices -> Row]
      /\ FormFilled /\ (~strayed => OwnSheet /\ \A i \in Invoices : OwnRow(i))
  BY DEF DeskInv, Formed, Typed, Apart
<1>2. Spend("open") => used' \in [{"open"} \cup Callers -> Nat]
  BY <1>1 DEF Spend
<1> USE DEF OwnSheet, FormFilled
<1>3. CASE OpenCreate
  <2>1. sheet' = [sheet EXCEPT !.open = TRUE, !.id = Nobody, !.about = Nobody, !.total = 1]
    BY <1>3 DEF OpenCreate
  <2>2. sheet' \in Sheet /\ sheet'.id = Nobody
    BY <1>1, <2>1 DEF Sheet, Anyone
  <2> QED
    BY <1>1, <1>2, <1>3, <2>2, Resheeted DEF OpenCreate
<1>4. CASE CloseSheet
  <2>1. sheet' = [sheet EXCEPT !.open = FALSE, !.id = Nobody, !.about = Nobody, !.total = 1]
    BY <1>4 DEF CloseSheet
  <2>2. sheet' \in Sheet /\ sheet'.id = Nobody
    BY <1>1, <2>1 DEF Sheet, Anyone
  <2> QED
    BY <1>1, <1>4, <2>2, Resheeted DEF CloseSheet
<1>5. ASSUME NEW i \in Invoices, OpenEdit(i) PROVE DeskInv'
  <2>1. sheet' = [sheet EXCEPT !.open = TRUE, !.loading = TRUE, !.id = i]
    BY <1>5 DEF OpenEdit
  <2>2. sheet' \in Sheet /\ sheet'.loading
    BY <1>1, <2>1 DEF Sheet, Anyone
  <2>3. loads' \subseteq Invoices
    BY <1>1, <1>5 DEF OpenEdit
  <2> QED
    BY <1>1, <1>2, <1>5, <2>2, <2>3, Resheeted DEF OpenEdit
<1>6. ASSUME NEW i \in Invoices, FormArrives(i) PROVE DeskInv'
  <2>1. sheet' = [sheet EXCEPT !.loading = FALSE, !.version = rows[i].version,
                               !.locked = Live(rows[i]) # {},
                               !.about = rows[i].about, !.total = rows[i].total]
    BY <1>6 DEF FormArrives
  <2>2. rows[i] \in Row
    BY <1>1
  <2>3. Fill(rows[i].about, rows[i].total) /\ rows[i].version \in Nat /\ rows[i].total \in Nat
    <3>1. Totals \cup {2} \subseteq Nat
      BY DeskAssumption
    <3>2. rows[i].about \in Invoices /\ rows[i].total \in Totals \cup {2} /\ rows[i].version \in Nat
      BY <2>2 DEF Row
    <3> QED
      BY <3>1, <3>2 DEF Fill
  <2>4. /\ sheet' \in Sheet /\ sheet'.id = sheet.id
        /\ sheet'.about = rows[i].about /\ sheet'.total = rows[i].total
    BY <1>1, <2>1, <2>3 DEF Sheet, Anyone, Fill
  <2>5. /\ strayed' = (strayed \/ i # sheet.id) /\ loads' = loads \ {i}
        /\ UNCHANGED <<rows, jobs, left, till, refreshes, used, raced>>
    BY <1>6 DEF FormArrives
  <2>6. ~strayed' => ~strayed /\ OwnSheet'
    BY <1>1, <2>4, <2>5 DEF OwnRow
  <2>7. FormFilled'
    BY <2>3, <2>4
  <2> QED
    BY <1>1, <2>4, <2>5, <2>6, <2>7, Resheeted
<1>7. ASSUME NEW i \in Invoices, FormFails(i) PROVE DeskInv'
  <2>1. sheet' = [sheet EXCEPT !.loading = FALSE, !.open = FALSE]
    BY <1>7 DEF FormFails
  <2>2. sheet' \in Sheet /\ ~sheet'.open
    BY <1>1, <2>1 DEF Sheet
  <2> QED
    BY <1>1, <1>7, <2>2, Resheeted DEF FormFails
<1>8. ASSUME NEW t \in Totals, TypeTotal(t) PROVE DeskInv'
  <2>1. sheet' = [sheet EXCEPT !.total = t]
    BY <1>8 DEF TypeTotal
  <2>2. /\ sheet' \in Sheet /\ sheet'.open = sheet.open /\ sheet'.loading = sheet.loading
        /\ sheet'.id = sheet.id /\ sheet'.about = sheet.about /\ sheet'.total = t
    BY <1>1, <2>1, DeskAssumption DEF Sheet
  <2> QED
    BY <1>1, <1>8, <2>2, Resheeted DEF TypeTotal, Fill
<1> QED
  BY <1>3, <1>4, <1>5, <1>6, <1>7, <1>8

\* A save carries what the form holds.
LEMMA SaveKeeps ==
  ASSUME DeskInv, Save
  PROVE  DeskInv'
<1>1. Typed /\ "save" \in Callers
  BY DEF DeskInv, Formed, Callers
<1>2. sheet \in Sheet /\ used \in [{"open"} \cup Callers -> Nat] /\ used["save"] \in Nat
  BY <1>1 DEF Typed
<1> DEFINE kind == IF sheet.id = Nobody THEN "create" ELSE "edit"
           j == Edit(kind, sheet.id, "save", sheet.version, sheet.about, sheet.total)
<1>3. /\ jobs' = [jobs EXCEPT !["save"] = j]
      /\ UNCHANGED <<rows, left, sheet, loads, till, refreshes, strayed, raced>>
      /\ sheet.open /\ ~sheet.loading
  BY DEF Save
<1>4. /\ j \in Job /\ j.stage = "sent" /\ j.kind = kind /\ j.id = sheet.id
      /\ j.about = sheet.about /\ j.total = sheet.total
  <2>1. kind \in Kinds /\ sheet.id \in Anyone /\ sheet.version \in Nat
        /\ sheet.about \in Anyone /\ sheet.total \in Nat
    BY <1>2 DEF Sheet, Kinds
  <2> HIDE DEF kind
  <2> QED
    BY <1>1, <1>2, <2>1, RequestForm
<1> HIDE DEF j
<1>5. GoodJob(j) /\ (~strayed => OwnJob(j))
  <2>1. FormFilled /\ (~strayed => OwnSheet)
    BY DEF DeskInv, Formed, Apart
  <2>2. sheet.id \in Anyone
    BY <1>2 DEF Sheet
  <2> QED
    BY <1>3, <1>4, <2>1, <2>2 DEF GoodJob, OwnJob, FormFilled, OwnSheet, Anyone
<1>6. used' \in [{"open"} \cup Callers -> Nat]
  <2>1. used' = [used EXCEPT !["save"] = used["save"] + 1]
    BY DEF Save, Spend
  <2>2. used["save"] + 1 \in Nat
    BY <1>2
  <2> QED
    BY <1>2, <2>1, <2>2
<1>7. FormFilled' /\ (~strayed => OwnSheet' /\ OwnTill')
  BY <1>3 DEF DeskInv, Formed, FormFilled, Apart, OwnSheet, OwnTill
<1>8. BusyHasReason'
  BY <1>1, <1>3 DEF DeskInv, BusyHasReason, Typed, Callers
<1>9. /\ sheet' \in Sheet /\ till' \in Till
      /\ refreshes' \subseteq [id : Anyone, opening : BOOLEAN]
  BY <1>1, <1>3 DEF Typed
<1> QED
  BY <1>1, <1>3, <1>4, <1>5, <1>6, <1>7, <1>8, <1>9, Rejobbed

\* The answer to a save frees its button.
LEMMA SaveAnsweredKeeps ==
  ASSUME DeskInv, SaveAnswered
  PROVE  DeskInv'
<1>1. Typed /\ "save" \in Callers
  BY DEF DeskInv, Formed, Callers
<1>2. /\ jobs' = [jobs EXCEPT !["save"] = Unsent]
      /\ UNCHANGED <<rows, left, loads, till, refreshes, used, strayed, raced>>
      /\ sheet' = [sheet EXCEPT !.open = sheet.open /\ jobs["save"].stage # "ok"]
  BY <1>1 DEF SaveAnswered, Typed, Sheet
<1>3. /\ sheet' \in Sheet /\ (sheet'.open => sheet.open) /\ sheet'.loading = sheet.loading
      /\ sheet'.id = sheet.id /\ sheet'.about = sheet.about /\ sheet'.total = sheet.total
  BY <1>1, <1>2 DEF Typed, Sheet
<1>4. FormFilled' /\ (~strayed => OwnSheet' /\ OwnTill')
  BY <1>2, <1>3 DEF DeskInv, Formed, FormFilled, Apart, OwnSheet, OwnTill
<1>5. BusyHasReason'
  BY <1>1, <1>2 DEF DeskInv, BusyHasReason, Typed, Callers
<1>6. /\ till' \in Till /\ used' \in [{"open"} \cup Callers -> Nat]
      /\ refreshes' \subseteq [id : Anyone, opening : BOOLEAN]
  BY <1>1, <1>2 DEF Typed
<1> QED
  BY <1>1, <1>2, <1>3, <1>4, <1>5, <1>6, UnsentForm, Rejobbed

---------------------------------------------------------------------------
(* The payment dialog.                                                     *)

\* Only the payment dialog, what it waits for and the count of openings change.
LEMMA Retilled ==
  ASSUME DeskInv, UNCHANGED <<rows, jobs, left, sheet, loads, raced>>,
         till' \in Till, refreshes' \subseteq [id : Anyone, opening : BOOLEAN],
         strayed' \in BOOLEAN, used' \in [{"open"} \cup Callers -> Nat],
         BusyHasReason', ~strayed' => ~strayed /\ OwnTill'
  PROVE  DeskInv'
<1>1. Typed'
  BY DEF DeskInv, Formed, Typed
<1>0. Calls' = Calls
  BY DEF Calls
<1>2. FormFilled' /\ \A d \in Calls' : GoodJob(d)
  BY <1>0 DEF DeskInv, Formed, FormFilled
<1>3. Current'
  BY <1>0 DEF DeskInv, Current, Knows
<1>4. Apart'
  BY <1>0 DEF DeskInv, Apart, OwnRow, OwnSheet
<1> QED
  BY <1>1, <1>2, <1>3, <1>4 DEF DeskInv, Formed

\* Opening, filling and closing the payment dialog.
LEMMA TillKeeps ==
  ASSUME DeskInv,
         \/ ClosePay
         \/ \E i \in Invoices : OpenPay(i)
         \/ \E a \in Amounts : TypeAmount(a)
         \/ \E r \in refreshes : Refreshed(r)
  PROVE  DeskInv'
<1>1. /\ till \in Till /\ refreshes \subseteq [id : Anyone, opening : BOOLEAN]
      /\ strayed \in BOOLEAN /\ used \in [{"open"} \cup Callers -> Nat]
      /\ BusyHasReason /\ (~strayed => OwnTill)
  BY DEF DeskInv, Formed, Typed, Apart
<1> USE DEF OwnTill
<1>2. CASE ClosePay
  <2>1. till' = [till EXCEPT !.shown = Nobody]
    BY <1>2 DEF ClosePay
  <2>2. till' \in Till /\ till'.shown = Nobody /\ till'.submitting = till.submitting
    BY <1>1, <2>1 DEF Till, Anyone
  <2>3. UNCHANGED <<rows, jobs, left, sheet, loads, refreshes, used, strayed, raced>>
    BY <1>2 DEF ClosePay
  <2>4. BusyHasReason'
    BY <1>1, <2>2, <2>3 DEF BusyHasReason
  <2> QED
    BY <1>1, <2>2, <2>3, <2>4, Retilled
<1>3. ASSUME NEW i \in Invoices, OpenPay(i) PROVE DeskInv'
  <2> DEFINE owing == Remaining(i) > 0
  <2>1. /\ till' = [till EXCEPT !.shown = i, !.loading = TRUE, !.amount = 0,
                                !.meant = Nobody, !.owing = owing]
        /\ refreshes' = refreshes \cup {[id |-> i, opening |-> TRUE]}
        /\ Spend("open") /\ UNCHANGED <<rows, jobs, left, sheet, loads, strayed, raced>>
    BY <1>3 DEF OpenPay
  <2>2. owing \in BOOLEAN
    OBVIOUS
  <2> HIDE DEF owing
  <2>3. till' \in Till /\ till'.amount = 0 /\ till'.submitting = till.submitting
    BY <1>1, <2>1, <2>2 DEF Till, Anyone
  <2>4. BusyHasReason'
    BY <1>1, <2>1, <2>3 DEF BusyHasReason
  <2>5. used' \in [{"open"} \cup Callers -> Nat]
    BY <1>1, <2>1 DEF Spend
  <2>6. refreshes' \subseteq [id : Anyone, opening : BOOLEAN]
    <3>1. [id |-> i, opening |-> TRUE] \in [id : Anyone, opening : BOOLEAN]
      BY DEF Anyone
    <3> QED
      BY <1>1, <2>1, <3>1
  <2> QED
    BY <1>1, <2>1, <2>3, <2>4, <2>5, <2>6, Retilled
<1>4. ASSUME NEW a \in Amounts, TypeAmount(a) PROVE DeskInv'
  <2>1. /\ till' = [till EXCEPT !.amount = a, !.meant = till.shown]
        /\ UNCHANGED <<rows, jobs, left, sheet, loads, refreshes, used, strayed, raced>>
    BY <1>4 DEF TypeAmount
  <2>2. /\ till' \in Till /\ till'.shown = till.shown /\ till'.meant = till.shown
        /\ till'.submitting = till.submitting
    BY <1>1, <2>1 DEF Till
  <2>3. BusyHasReason'
    BY <1>1, <2>1, <2>2 DEF BusyHasReason
  <2> QED
    BY <1>1, <2>1, <2>2, <2>3, Retilled
<1>5. ASSUME NEW r \in refreshes, Refreshed(r) PROVE DeskInv'
  <2>1. r.id \in Anyone /\ r.opening \in BOOLEAN
    BY <1>1
  <2>2. PICK shown \in Anyone, owing \in BOOLEAN :
          /\ till' = [till EXCEPT !.shown = shown, !.owing = owing,
                                  !.loading = till.loading /\ ~r.opening,
                                  !.submitting = till.submitting /\ r.opening]
          /\ shown \in {r.id, till.shown}
    <3>1. PICK answered \in BOOLEAN :
            till' = [till EXCEPT !.shown = IF answered THEN r.id ELSE @,
                                 !.owing = IF answered THEN Remaining(r.id) > 0 ELSE @,
                                 !.loading = @ /\ ~r.opening,
                                 !.submitting = @ /\ r.opening]
      BY <1>5 DEF Refreshed
    <3>2. CASE answered
      <4>1. till' = [till EXCEPT !.shown = r.id, !.owing = (Remaining(r.id) > 0),
                                 !.loading = till.loading /\ ~r.opening,
                                 !.submitting = till.submitting /\ r.opening]
        BY <1>1, <3>1, <3>2 DEF Till
      <4>2. r.id \in Anyone /\ (Remaining(r.id) > 0) \in BOOLEAN
        BY <2>1
      <4> QED
        BY <4>1, <4>2
    <3>3. CASE ~answered
      <4>1. till' = [till EXCEPT !.shown = till.shown, !.owing = till.owing,
                                 !.loading = till.loading /\ ~r.opening,
                                 !.submitting = till.submitting /\ r.opening]
        BY <1>1, <3>1, <3>3 DEF Till
      <4>2. till.shown \in Anyone /\ till.owing \in BOOLEAN
        BY <1>1 DEF Till
      <4> QED
        BY <4>1, <4>2
    <3> QED
      BY <3>2, <3>3
  <2>3. /\ till' \in Till /\ till'.shown \in {r.id, till.shown}
        /\ till'.amount = till.amount /\ till'.meant = till.meant
        /\ (till'.submitting => till.submitting /\ r.opening)
    BY <1>1, <2>1, <2>2 DEF Till
  <2>4. /\ refreshes' = refreshes \ {r} /\ strayed' = (strayed \/ r.id # till.shown)
        /\ UNCHANGED <<rows, jobs, left, sheet, loads, used, raced>>
    BY <1>5 DEF Refreshed
  <2>5. BusyHasReason'
    BY <1>1, <2>1, <2>3, <2>4 DEF BusyHasReason
  <2>6. ~strayed' => ~strayed /\ OwnTill'
    BY <1>1, <2>3, <2>4
  <2> QED
    BY <1>1, <2>3, <2>4, <2>5, <2>6, Retilled
<1> QED
  BY <1>2, <1>3, <1>4, <1>5

\* A payment carries what its dialog holds.
LEMMA PayKeeps ==
  ASSUME DeskInv, Pay
  PROVE  DeskInv'
<1>1. Typed /\ "pay" \in Callers
  BY DEF DeskInv, Formed, Callers
<1>2. till \in Till /\ used \in [{"open"} \cup Callers -> Nat] /\ used["pay"] \in Nat
  BY <1>1 DEF Typed
<1> DEFINE j == Payment(till.shown, "pay", till.amount, till.meant)
<1>3. /\ jobs' = [jobs EXCEPT !["pay"] = j] /\ till' = [till EXCEPT !.submitting = TRUE]
      /\ UNCHANGED <<rows, left, sheet, loads, refreshes, strayed, raced>>
      /\ till.shown # Nobody /\ till.amount > 0
  BY DEF Pay
<1>4. /\ j \in Job /\ j.stage = "sent" /\ j.kind = "pay" /\ j.id = till.shown
      /\ j.meant = till.meant /\ j.amount = till.amount
  <2>1. till.shown \in Anyone /\ till.meant \in Anyone /\ till.amount \in Nat
    BY <1>2, DeskAssumption DEF Till
  <2>2. "pay" \in Kinds
    BY DEF Kinds
  <2> QED
    BY <1>1, <1>2, <2>1, <2>2, RequestForm
<1> HIDE DEF j
<1>5. till.shown \in Invoices
  BY <1>2, <1>3 DEF Till, Anyone
<1>6. GoodJob(j) /\ (~strayed => OwnJob(j))
  <2>1. ~strayed => OwnTill
    BY DEF DeskInv, Apart
  <2> QED
    BY <1>3, <1>4, <1>5, <2>1 DEF GoodJob, OwnJob, OwnTill
<1>7. /\ till' \in Till /\ till'.shown = till.shown /\ till'.amount = till.amount
      /\ till'.meant = till.meant
  BY <1>2, <1>3 DEF Till
<1>8. FormFilled' /\ (~strayed => OwnSheet' /\ OwnTill')
  BY <1>3, <1>7 DEF DeskInv, Formed, FormFilled, Apart, OwnSheet, OwnTill
<1>9. BusyHasReason'
  BY <1>1, <1>3, <1>4 DEF BusyHasReason, Typed
<1>10. used' \in [{"open"} \cup Callers -> Nat]
  <2>1. used' = [used EXCEPT !["pay"] = used["pay"] + 1]
    BY DEF Pay, Spend
  <2>2. used["pay"] + 1 \in Nat
    BY <1>2
  <2> QED
    BY <1>2, <2>1, <2>2
<1>11. sheet' \in Sheet /\ refreshes' \subseteq [id : Anyone, opening : BOOLEAN]
  BY <1>1, <1>3 DEF Typed
<1> QED
  BY <1>1, <1>3, <1>4, <1>6, <1>7, <1>8, <1>9, <1>10, <1>11, Rejobbed

\* The answer to a payment frees its button.
LEMMA PayAnsweredKeeps ==
  ASSUME DeskInv, PayAnswered
  PROVE  DeskInv'
<1>1. Typed /\ "pay" \in Callers
  BY DEF DeskInv, Formed, Callers
<1>2. /\ till \in Till /\ jobs["pay"] \in Job
      /\ refreshes \subseteq [id : Anyone, opening : BOOLEAN]
  BY <1>1 DEF Typed
<1>3. /\ jobs' = [jobs EXCEPT !["pay"] = Unsent] /\ jobs["pay"].stage \in Answers
      /\ UNCHANGED <<rows, left, sheet, loads, used, strayed, raced>>
  BY DEF PayAnswered
<1>4. sheet' \in Sheet /\ used' \in [{"open"} \cup Callers -> Nat]
  BY <1>1, <1>3 DEF Typed
<1>5. ~strayed => OwnTill
  BY DEF DeskInv, Apart
<1>6. FormFilled' /\ (~strayed => OwnSheet')
  BY <1>3 DEF DeskInv, Formed, FormFilled, Apart, OwnSheet
<1>7. CASE jobs["pay"].stage = "ok"
  <2> DEFINE r == [id |-> jobs["pay"].id, opening |-> FALSE]
  <2>1. till' = [till EXCEPT !.amount = 0] /\ refreshes' = refreshes \cup {r}
    BY <1>7 DEF PayAnswered
  <2>2. r \in [id : Anyone, opening : BOOLEAN] /\ ~r.opening
    BY <1>2 DEF Job
  <2> HIDE DEF r
  <2>3. till' \in Till /\ till'.amount = 0
    BY <1>2, <2>1 DEF Till
  <2>4. refreshes' \subseteq [id : Anyone, opening : BOOLEAN]
    BY <1>2, <2>1, <2>2
  <2>5. BusyHasReason'
    BY <2>1, <2>2 DEF BusyHasReason
  <2>6. OwnTill'
    BY <2>3 DEF OwnTill
  <2> QED
    BY <1>1, <1>3, <1>4, <1>6, <2>3, <2>4, <2>5, <2>6, UnsentForm, Rejobbed
<1>8. CASE jobs["pay"].stage # "ok"
  <2>1. till' = [till EXCEPT !.submitting = FALSE] /\ refreshes' = refreshes
    BY <1>8 DEF PayAnswered
  <2>2. /\ till' \in Till /\ ~till'.submitting /\ till'.shown = till.shown
        /\ till'.amount = till.amount /\ till'.meant = till.meant
    BY <1>2, <2>1 DEF Till
  <2>3. BusyHasReason'
    BY <2>2 DEF BusyHasReason
  <2>4. ~strayed => OwnTill'
    BY <1>5, <2>2 DEF OwnTill
  <2> QED
    BY <1>1, <1>2, <1>3, <1>4, <1>6, <2>1, <2>2, <2>3, <2>4, UnsentForm, Rejobbed
<1> QED
  BY <1>7, <1>8

---------------------------------------------------------------------------
(* The theorems.                                                           *)

\* Every step of the page, the client, the server and the other user keeps it.
LEMMA DeskStep ==
  ASSUME DeskInv, [Next]_vars
  PROVE  DeskInv'
<1>1. CASE Server
  BY <1>1, CheckKeeps, CommitKeeps DEF Server
<1>2. CASE \E c \in Callers : Lose(c)
  BY <1>2, LoseKeeps
<1>3. CASE OtherAsks \/ OtherHears
  BY <1>3, OtherAsksKeeps, OtherHearsKeeps
<1>4. CASE OpenCreate \/ CloseSheet \/ \E t \in Totals : TypeTotal(t)
  BY <1>4, SheetKeeps
<1>5. CASE \E i \in Invoices : OpenEdit(i) \/ FormArrives(i) \/ FormFails(i) \/ OpenPay(i)
  BY <1>5, SheetKeeps, TillKeeps
<1>6. CASE Save \/ SaveAnswered \/ Pay \/ PayAnswered
  BY <1>6, SaveKeeps, SaveAnsweredKeeps, PayKeeps, PayAnsweredKeeps
<1>7. CASE \/ ClosePay \/ \E a \in Amounts : TypeAmount(a)
           \/ \E r \in refreshes : Refreshed(r)
  BY <1>7, TillKeeps
<1>8. CASE UNCHANGED vars
  <2>1. Calls' = Calls
    BY <1>8 DEF vars, Calls
  <2> QED
    BY <1>8, <2>1 DEF vars, DeskInv, Formed, Typed, FormFilled, Current, Knows, BusyHasReason,
                      Apart, OwnRow, OwnSheet, OwnTill
<1> QED
  BY <1>1, <1>2, <1>3, <1>4, <1>5, <1>6, <1>7, <1>8 DEF Next

\* The inductive invariant holds throughout.
LEMMA DeskAlways == Spec => []DeskInv
  BY DeskInit, DeskStep, PTL DEF Spec

\* The dialogs, the requests and the rows stay well formed, for any number of
\* invoices and whatever was lost, sent again or answered late
\* (pages/Invoices.jsx, api/client.js, routers/invoices.py).
THEOREM DeskIsTyped == Spec => []DeskTypeOK
<1>1. DeskInv => DeskTypeOK
  <2> SUFFICES ASSUME DeskInv PROVE DeskTypeOK
    OBVIOUS
  <2>1. Typed /\ FormFilled
    BY DEF DeskInv, Formed
  <2>2. \A i \in Invoices : rows[i] \in Row
    BY <2>1 DEF Typed
  <2>4. \A i \in Invoices :
          /\ rows[i].total \in Totals \cup {2} /\ rows[i].version \in Nat \ {0}
          /\ rows[i].about \in Invoices /\ rows[i].voided \in BOOLEAN
    BY <2>2 DEF Row
  <2>3. /\ \A c \in Callers : jobs[c].stage \in Stages
        /\ \A j \in left : j.stage \in {"sent", "checked"}
    BY <2>1 DEF Typed, Job
  <2>5. \A j \in Calls :
          /\ j.attempt \in 1..MaxAttempts /\ j.kind \in Kinds
          /\ j.kind # "create" => j.id \in Invoices
    BY CallForm DEF Job
  <2>6. /\ sheet.id \in Invoices \cup {Nobody} /\ loads \subseteq Invoices
        /\ till.shown \in Invoices \cup {Nobody} /\ till.amount \in Amounts \cup {0}
    BY <2>1 DEF Typed, Sheet, Till, Anyone
  <2>7. sheet.about = Nobody => sheet.id = Nobody \/ sheet.loading \/ ~sheet.open
    BY <2>1, DeskAssumption DEF FormFilled, Fill
  <2> QED
    BY <2>3, <2>4, <2>5, <2>6, <2>7 DEF DeskTypeOK
<1> QED
  BY <1>1, DeskAlways, PTL

\* The payment button is never disabled for good: there is always an answer
\* still to come that enables it (handleAddPayment).
THEOREM DeskBusyHasReason == Spec => []BusyHasReason
<1>1. DeskInv => BusyHasReason
  BY DEF DeskInv
<1> QED
  BY <1>1, DeskAlways, PTL

\* As long as every answer found its dialog, each invoice has its own words
\* and the payments meant for it (openEdit, openPayModal).
THEOREM DeskOnlyLateAnswersMix == Spec => []OnlyLateAnswersMix
<1>1. DeskInv => OnlyLateAnswersMix
  BY DEF DeskInv, Apart, OwnRow, OnlyLateAnswersMix
<1> QED
  BY <1>1, DeskAlways, PTL

\* Rows change only when a request is written.
LEMMA OnlyCommitsWrite ==
  ASSUME [Next]_vars, rows' # rows
  PROVE  \/ \E c \in Callers : Commit(c)
         \/ \E j \in left : CommitLeft(j)
BY DEF Next, Server, Check, CheckLeft, Lose, OtherAsks, OtherHears, OpenCreate, CloseSheet, Save,
       SaveAnswered, OpenEdit, FormArrives, FormFails, OpenPay, TypeTotal, TypeAmount,
       Refreshed, ClosePay, Pay, PayAnswered, vars

\* An edit that is written replaces the version its form was filled from
\* (update_invoice: the check of the version and the one in the update).
THEOREM DeskNoLostEdit == Spec => NoLostEdit
<1> DEFINE Kept == \A j \in Calls \ Calls' :
             j.stage = "checked" /\ j.kind = "edit" /\ rows'[j.id] # rows[j.id]
             => rows[j.id].version = j.version
<1>1. DeskInv /\ [Next]_vars => Kept
  <2> SUFFICES ASSUME DeskInv, [Next]_vars, NEW j \in Calls \ Calls',
                      j.stage = "checked", j.kind = "edit", rows'[j.id] # rows[j.id]
               PROVE  rows[j.id].version = j.version
    OBVIOUS
  <2>1. \/ \E c \in Callers : Commit(c)
        \/ \E k \in left : CommitLeft(k)
    BY OnlyCommitsWrite
  <2>2. PICK k \in Calls : /\ Moved(k, [k EXCEPT !.stage = Outcome(k)])
                           /\ rows' = rows \/ ~Clashes(k)
    BY <2>1, CommitForm
  <2>3. j = k /\ ~Clashes(j)
    BY <2>2 DEF Moved
  <2>4. j.seen = j.version
    BY DEF DeskInv, Current, Knows
  <2> QED
    BY <2>3, <2>4 DEF Clashes
<1>2. DeskInv /\ [Next]_vars => [Kept]_vars
  BY <1>1
<1> HIDE DEF Kept
<1>3. Spec => [][Kept]_vars
  BY <1>2, DeskAlways, PTL DEF Spec
<1> QED
  BY <1>3 DEF NoLostEdit, Kept

\* The words and the total of a voided invoice stay: an edit checked before
\* the void names a version the void has raised (update_invoice, void_invoice).
THEOREM DeskVoidedStaysPut == Spec => VoidedStaysPut
<1> DEFINE Stays == \A i \in Invoices : rows[i].voided /\ rows'[i].voided =>
             rows'[i].about = rows[i].about /\ rows'[i].total = rows[i].total
<1>1. DeskInv /\ [Next]_vars => Stays
  <2> SUFFICES ASSUME DeskInv, [Next]_vars, NEW i \in Invoices, rows[i].voided, rows'[i] # rows[i]
               PROVE  rows'[i].about = rows[i].about /\ rows'[i].total = rows[i].total
    OBVIOUS
  <2>1. \/ \E c \in Callers : Commit(c)
        \/ \E j \in left : CommitLeft(j)
    BY OnlyCommitsWrite
  <2>2. PICK j \in Calls :
          /\ j.stage = "checked" /\ j.kind # "create" /\ ~Clashes(j)
          /\ rows' = [rows EXCEPT ![j.id] = Written(rows[j.id], j)]
    BY <2>1, CommitForm
  <2>3. /\ j \in Job /\ GoodJob(j) /\ Knows(j) /\ j.id \in Invoices
        /\ rows \in [Invoices -> Row] /\ rows[i] \in Row
    BY <2>2, CallForm DEF DeskInv, Formed, Typed
  <2>4. j.id = i /\ rows'[i] = Written(rows[i], j)
    BY <2>2, <2>3
  <2>5. j.kind # "edit"
    BY <2>2, <2>4 , <2>3 DEF Knows, Clashes
  <2> DEFINE row == rows[i]
  <2>6. Written(row, j).about = row.about /\ Written(row, j).total = row.total
    BY <2>2, <2>3, <2>5, WrittenRow
  <2> QED
    BY <2>4, <2>6
<1>2. DeskInv /\ [Next]_vars => [Stays]_vars
  BY <1>1
<1> HIDE DEF Stays
<1>3. Spec => [][Stays]_vars
  BY <1>2, DeskAlways, PTL DEF Spec
<1> QED
  BY <1>3 DEF VoidedStaysPut, Stays

---------------------------------------------------------------------------
(* One press, one payment.  Payments that stand have different keys, by    *)
(* the index; each key is the number of a press; and a call carries the    *)
(* number of a press already made, the same for every attempt.             *)

Paids == {x \in Invoices \X Nat : x[2] \in Live(rows[x[1]])}
KeyAt(x) == rows[x[1]].paid[x[2]].key
Press(key, presses) == \E c \in Callers, n \in Nat \ {0} : key = <<c, n>> /\ n <= presses[c]

Numbered == \A x \in Paids : Press(KeyAt(x), used)
Distinct == \A x, y \in Paids : KeyAt(x) = KeyAt(y) => x = y
Stamped  == \A j \in Calls : j.stage # "idle" => Press(j.serial, used)
SameKind == \A j, k \in Calls :
              j.stage # "idle" /\ k.stage # "idle" /\ j.serial = k.serial => j.kind = k.kind

KeyInv == Numbered /\ Distinct /\ Stamped /\ SameKind

\* The payments that stand, and what it means that a key is known.
LEMMA PaidsForm ==
  ASSUME Typed
  PROVE  /\ \A i \in Invoices : \A n \in Live(rows[i]) :
              <<i, n>> \in Paids /\ KeyAt(<<i, n>>) = rows[i].paid[n].key
         /\ \A key : KnownKey(key) <=> \E x \in Paids : KeyAt(x) = key
<1>1. \A i \in Invoices : rows[i].paid \in Seq(Receipt)
  BY DEF Typed, Row
<1>2. \A i \in Invoices : DOMAIN rows[i].paid \subseteq Nat
  BY <1>1
<1>3. \A i \in Invoices : \A n \in Live(rows[i]) :
        <<i, n>> \in Paids /\ KeyAt(<<i, n>>) = rows[i].paid[n].key
  BY <1>2 DEF Paids, KeyAt, Live
<1> QED
  BY <1>3 DEF KnownKey, Paids, KeyAt

\* A press stays made.
LEMMA PressStays ==
  ASSUME Typed, Typed', \A c \in Callers : used'[c] >= used[c], NEW key, Press(key, used)
  PROVE  Press(key, used')
<1>1. PICK c \in Callers, n \in Nat \ {0} : key = <<c, n>> /\ n <= used[c]
  BY DEF Press
<1>2. used[c] \in Nat /\ used'[c] \in Nat /\ used'[c] >= used[c]
  BY DEF Typed
<1> QED
  BY <1>1, <1>2 DEF Press

\* A step that records no payment.
LEMMA NothingPaid ==
  ASSUME KeyInv, Typed, Typed', Paids' \subseteq Paids, \A x \in Paids' : KeyAt(x)' = KeyAt(x),
         \A c \in Callers : used'[c] >= used[c], Stamped', SameKind'
  PROVE  KeyInv'
<1>1. Numbered'
  <2> SUFFICES ASSUME NEW x \in Paids' PROVE Press(KeyAt(x)', used')
    BY DEF Numbered
  <2>1. Press(KeyAt(x), used) /\ KeyAt(x)' = KeyAt(x)
    BY DEF KeyInv, Numbered
  <2>2. Press(KeyAt(x), used')
    BY <2>1, PressStays
  <2> QED
    BY <2>1, <2>2
<1>2. Distinct'
  BY DEF KeyInv, Distinct
<1> QED
  BY <1>1, <1>2 DEF KeyInv

\* The rows as they were.
LEMMA SamePaids ==
  ASSUME rows' = rows
  PROVE  Paids' = Paids /\ \A x : KeyAt(x)' = KeyAt(x)
BY DEF Paids, KeyAt

\* A call that only moves keeps the numbers of the calls right.
LEMMA MovedStamped ==
  ASSUME KeyInv, DeskInv, NEW j \in Calls, NEW k, j.stage # "idle", Moved(j, k),
         Resembles(k, j), used' = used
  PROVE  Stamped' /\ SameKind'
<1>1. /\ Calls' \subseteq Calls \cup {k} /\ k.serial = j.serial /\ k.kind = j.kind
      /\ Stamped /\ SameKind /\ Press(k.serial, used)
  BY DEF Moved, Resembles, KeyInv, Stamped
<1>2. Stamped'
  BY <1>1 DEF Stamped
<1>3. SameKind'
  BY <1>1 DEF SameKind
<1> QED
  BY <1>2, <1>3

\* A check or a loss records nothing.
LEMMA MovedKeys ==
  ASSUME KeyInv, DeskInv, Typed', NEW j \in Calls, NEW k, j.stage # "idle", Moved(j, k),
         Resembles(k, j), UNCHANGED <<rows, screen>>
  PROVE  KeyInv'
<1>1. Typed /\ used' = used /\ rows' = rows
  BY DEF DeskInv, Formed, screen
<1>2. \A c \in Callers : used'[c] >= used[c]
  BY <1>1 DEF Typed
<1> QED
  BY <1>1, <1>2, MovedStamped, SamePaids, NothingPaid

\* A new press has a number no call and no payment has.
LEMMA PressedKeys ==
  ASSUME KeyInv, DeskInv, Typed', NEW c \in Callers, NEW j, jobs' = [jobs EXCEPT ![c] = j],
         rows' = rows, left' = left, j.serial = Serial(c), Spend(c)
  PROVE  KeyInv'
<1>1. Typed /\ used \in [{"open"} \cup Callers -> Nat] /\ used[c] \in Nat
  BY DEF DeskInv, Formed, Typed
<1>2. used' = [used EXCEPT ![c] = used[c] + 1]
  BY DEF Spend
<1>3. used'[c] = used[c] + 1 /\ \A d \in Callers : used'[d] >= used[d]
  BY <1>1, <1>2
<1>4. Calls' \subseteq Calls \cup {j}
  BY <1>1 DEF Typed, Calls
<1>5. j.serial = <<c, used[c] + 1>> /\ Press(j.serial, used')
  BY <1>1, <1>3 DEF Serial, Press
<1>6. ~Press(j.serial, used)
  BY <1>1, <1>5 DEF Press
<1>7. Stamped'
  <2> SUFFICES ASSUME NEW x \in Calls', x.stage # "idle" PROVE Press(x.serial, used')
    BY DEF Stamped
  <2>1. CASE x = j
    BY <1>5, <2>1
  <2>2. CASE x \in Calls
    <3>1. Press(x.serial, used)
      BY <2>2 DEF KeyInv, Stamped
    <3> QED
      BY <1>1, <1>3, <3>1, PressStays
  <2> QED
    BY <1>4, <2>1, <2>2
<1>8. SameKind'
  BY <1>4, <1>6 DEF KeyInv, SameKind, Stamped
<1> QED
  BY <1>1, <1>3, <1>7, <1>8, SamePaids, NothingPaid

\* An answer that is heard, and any step beside the calls, changes no number.
LEMMA HeardKeys ==
  ASSUME KeyInv, DeskInv, Typed', rows' = rows, left' = left,
         \/ jobs' = jobs
         \/ \E c \in Callers : jobs' = [jobs EXCEPT ![c] = Unsent],
         \A c \in Callers : used'[c] >= used[c]
  PROVE  KeyInv'
<1>1. Typed /\ Unsent.stage = "idle"
  BY UnsentForm DEF DeskInv, Formed
<1>2. Calls' \subseteq Calls \cup {Unsent}
  BY <1>1 DEF Typed, Calls
<1>3. Stamped'
  <2> SUFFICES ASSUME NEW x \in Calls', x.stage # "idle" PROVE Press(x.serial, used')
    BY DEF Stamped
  <2>1. Press(x.serial, used)
    BY <1>1, <1>2 DEF KeyInv, Stamped
  <2> QED
    BY <1>1, <2>1, PressStays
<1>4. SameKind'
  BY <1>1, <1>2 DEF KeyInv, SameKind
<1> QED
  BY <1>1, <1>3, <1>4, SamePaids, NothingPaid

\* At the start no payment was made.
LEMMA KeyInit == Init => KeyInv
<1> SUFFICES ASSUME Init PROVE KeyInv
  OBVIOUS
<1>1. Paids = {}
  BY DEF Init, Paids, Live
<1>2. \A j \in Calls : j.stage = "idle"
  BY DEF Init, Unsent, Calls
<1> QED
  BY <1>1, <1>2 DEF KeyInv, Numbered, Distinct, Stamped, SameKind

\* A payment is written with the number of its press, and only if no payment
\* that stands has it.
LEMMA CommitKeys ==
  ASSUME KeyInv, DeskInv, Typed', \/ \E c \in Callers : Commit(c)
                                  \/ \E j \in left : CommitLeft(j)
  PROVE  KeyInv'
<1>1. PICK j \in Calls :
        /\ j.stage = "checked" /\ Moved(j, [j EXCEPT !.stage = Outcome(j)])
        /\ UNCHANGED screen
        /\ \/ rows' = rows
           \/ /\ j.kind # "create"
              /\ j.kind = "pay" => ~KnownKey(j.serial)
              /\ rows' = [rows EXCEPT ![j.id] = Written(rows[j.id], j)]
  BY CommitForm
<1>2. Resembles([j EXCEPT !.stage = Outcome(j)], j)
  BY OutcomeForm
<1>3. CASE rows' = rows
  BY <1>1, <1>2, <1>3, MovedKeys
<1>4. CASE /\ j.kind # "create"
           /\ j.kind = "pay" => ~KnownKey(j.serial)
           /\ rows' = [rows EXCEPT ![j.id] = Written(rows[j.id], j)]
  <2> DEFINE w == Written(rows[j.id], j)
             row == rows[j.id]
             z == <<j.id, Len(row.paid) + 1>>
  <2>1. /\ Typed /\ rows \in [Invoices -> Row] /\ used' = used
        /\ j \in Job /\ GoodJob(j) /\ j.id \in Invoices /\ row \in Row
    BY <1>1, <1>4, CallForm DEF DeskInv, Formed, Typed, screen
  <2>2. Stamped' /\ SameKind'
    BY <1>1, <1>2, <2>1, MovedStamped
  <2>3. \A n \in DOMAIN w.paid :
          \/ /\ n \in Live(w) => n \in Live(row)
             /\ w.paid[n].key = row.paid[n].key
          \/ /\ j.kind = "pay" /\ n = Len(row.paid) + 1
             /\ w.paid[n].key = j.serial
    BY <1>4, <2>1, WrittenPaid
  <2>4. \A i \in Invoices : rows'[i] = IF i = j.id THEN w ELSE rows[i]
    BY <1>4, <2>1
  <2> HIDE DEF w
  <2>5. \A x \in Paids' : \/ x \in Paids /\ KeyAt(x)' = KeyAt(x)
                          \/ j.kind = "pay" /\ x = z /\ KeyAt(x)' = j.serial
    <3> SUFFICES ASSUME NEW i \in Invoices, NEW n \in Nat, n \in Live(rows'[i])
                 PROVE  \/ n \in Live(rows[i]) /\ rows'[i].paid[n].key = rows[i].paid[n].key
                        \/ j.kind = "pay" /\ <<i, n>> = z /\ rows'[i].paid[n].key = j.serial
      BY DEF Paids, KeyAt
    <3>1. CASE i # j.id
      BY <2>4, <3>1
    <3>2. CASE i = j.id
      <4>1. rows'[i] = w /\ n \in DOMAIN w.paid /\ n \in Live(w)
        BY <2>4, <3>2 DEF Live
      <4> QED
        BY <2>3, <3>2, <4>1
    <3> QED
      BY <3>1, <3>2
  <2>6. Press(j.serial, used)
    BY <1>1 DEF KeyInv, Stamped
  <2>7. j.kind = "pay" => \A x \in Paids : KeyAt(x) # j.serial
    BY <1>1, <1>4, <2>1, PaidsForm
  <2> HIDE DEF z
  <2>8. Numbered'
    BY <2>1, <2>5, <2>6 DEF KeyInv, Numbered
  <2>9. Distinct'
    BY <2>5, <2>7 DEF KeyInv, Distinct
  <2> QED
    BY <2>2, <2>8, <2>9 DEF KeyInv
<1> QED
  BY <1>1, <1>3, <1>4

\* Every step keeps the numbers of payments apart.
LEMMA KeyStep ==
  ASSUME KeyInv, DeskInv, DeskInv', [Next]_vars
  PROVE  KeyInv'
<1>1. /\ Typed /\ Typed' /\ used \in [{"open"} \cup Callers -> Nat]
      /\ "open" \notin Callers /\ {"save", "pay", "other"} \subseteq Callers
      /\ \A c \in Callers : used[c] \in Nat
  BY DEF DeskInv, Formed, Typed, Callers
<1>2. CASE \/ \E c \in Callers : Check(c)
           \/ \E j \in left : CheckLeft(j)
  <2>1. PICK j \in Calls : /\ j.stage = "sent" /\ Moved(j, Looked(j))
                           /\ UNCHANGED <<rows, screen>>
    BY <1>2, CheckForm
  <2>2. Resembles(Looked(j), j)
    BY LookedForm
  <2> QED
    BY <1>1, <2>1, <2>2, MovedKeys
<1>3. CASE \/ \E c \in Callers : Commit(c)
           \/ \E j \in left : CommitLeft(j)
  BY <1>1, <1>3, CommitKeys
<1>4. ASSUME NEW c \in Callers, Lose(c) PROVE KeyInv'
  <2>1. PICK j \in Calls, k \in Job : /\ j.stage # "idle" /\ Resembles(k, j) /\ Moved(j, k)
                                      /\ UNCHANGED <<rows, screen>>
    BY <1>4, LoseForm
  <2> QED
    BY <1>1, <2>1, MovedKeys
<1>6. /\ \A kind, i, c : Request(kind, i, c).serial = Serial(c)
      /\ \A kind, i, c, v, w, t : Edit(kind, i, c, v, w, t).serial = Serial(c)
      /\ \A i, c, a, w : Payment(i, c, a, w).serial = Serial(c)
      /\ \A i, c, n : Deletion(i, c, n).serial = Serial(c)
  BY DEF Request, Edit, Payment, Deletion
<1>7. CASE OtherAsks
  <2>1. \E j : jobs' = [jobs EXCEPT !["other"] = j] /\ j.serial = Serial("other")
    BY <1>6, <1>7 DEF OtherAsks
  <2>2. rows' = rows /\ left' = left /\ Spend("other")
    BY <1>7 DEF OtherAsks
  <2> QED
    BY <1>1, <2>1, <2>2, PressedKeys
<1>8. CASE Save
  <2> DEFINE j == Edit(IF sheet.id = Nobody THEN "create" ELSE "edit", sheet.id, "save",
                       sheet.version, sheet.about, sheet.total)
  <2>1. jobs' = [jobs EXCEPT !["save"] = j] /\ rows' = rows /\ left' = left /\ Spend("save")
    BY <1>8 DEF Save
  <2>2. j.serial = Serial("save")
    BY <1>6
  <2> HIDE DEF j
  <2> QED
    BY <1>1, <2>1, <2>2, PressedKeys
<1>9. CASE Pay
  <2> DEFINE j == Payment(till.shown, "pay", till.amount, till.meant)
  <2>1. jobs' = [jobs EXCEPT !["pay"] = j] /\ rows' = rows /\ left' = left /\ Spend("pay")
    BY <1>9 DEF Pay
  <2>2. j.serial = Serial("pay")
    BY <1>6
  <2> HIDE DEF j
  <2> QED
    BY <1>1, <2>1, <2>2, PressedKeys
<1>11. CASE OtherHears \/ SaveAnswered \/ PayAnswered
  <2>1. /\ \E c \in Callers : jobs' = [jobs EXCEPT ![c] = Unsent]
        /\ rows' = rows /\ left' = left /\ used' = used
    BY <1>1, <1>11 DEF OtherHears, SaveAnswered, PayAnswered
  <2>2. \A c \in Callers : used'[c] >= used[c]
    BY <1>1, <2>1
  <2> QED
    BY <1>1, <2>1, <2>2, HeardKeys
<1>12. CASE OpenCreate \/ \E i \in Invoices : OpenEdit(i) \/ OpenPay(i)
  <2>1. Spend("open") /\ UNCHANGED <<rows, jobs, left>>
    BY <1>12 DEF OpenCreate, OpenEdit, OpenPay
  <2>2. \A c \in Callers : used'[c] >= used[c]
    BY <1>1, <2>1 DEF Spend
  <2> QED
    BY <1>1, <2>1, <2>2, HeardKeys
<1>13. CASE UNCHANGED <<rows, jobs, left, used>>
  <2>1. \A c \in Callers : used'[c] >= used[c]
    BY <1>1, <1>13
  <2> QED
    BY <1>1, <1>13, <2>1, HeardKeys
<1>14. ASSUME \/ CloseSheet \/ ClosePay
              \/ \E i \in Invoices : FormArrives(i) \/ FormFails(i)
              \/ \E t \in Totals : TypeTotal(t)
              \/ \E a \in Amounts : TypeAmount(a)
              \/ \E r \in refreshes : Refreshed(r)
              \/ UNCHANGED vars
       PROVE  UNCHANGED <<rows, jobs, left, used>>
  BY <1>14 DEF CloseSheet, ClosePay, FormArrives, FormFails, TypeTotal, TypeAmount, Refreshed, vars
<1> QED
  BY <1>2, <1>3, <1>4, <1>7, <1>8, <1>9, <1>11, <1>12, <1>13, <1>14 DEF Next, Server

\* No more payments stand than the button was pressed, for any number of
\* attempts and invoices, whichever attempts overlap between their check and
\* their write (add_payment's key and its unique index, api/client.js).
THEOREM DeskSubmitPaysOnce == Spec => []SubmitPaysOnce
<1>1. Typed /\ KeyInv => SubmitPaysOnce
  <2> SUFFICES ASSUME Typed, KeyInv, NEW c \in Callers
               PROVE  Cardinality(UNION {{<<i, n>> : n \in {m \in Live(rows[i]) :
                                                             rows[i].paid[m].key[1] = c}}
                                         : i \in Invoices}) <= used[c]
    BY DEF SubmitPaysOnce
  <2> DEFINE P == UNION {{<<i, n>> : n \in {m \in Live(rows[i]) :
                                             rows[i].paid[m].key[1] = c}} : i \in Invoices}
             f == [x \in P |-> KeyAt(x)[2]]
  <2>1. \A x \in P : x \in Paids /\ KeyAt(x)[1] = c
    BY PaidsForm
  <2>2. used[c] \in Nat
    BY DEF Typed
  <2> HIDE DEF P
  <2>3. \A x \in P : KeyAt(x) = <<c, KeyAt(x)[2]>> /\ KeyAt(x)[2] \in 1..used[c]
    <3> SUFFICES ASSUME NEW x \in P
                 PROVE  KeyAt(x) = <<c, KeyAt(x)[2]>> /\ KeyAt(x)[2] \in 1..used[c]
      OBVIOUS
    <3>1. PICK d \in Callers, n \in Nat \ {0} : KeyAt(x) = <<d, n>> /\ n <= used[d]
      BY <2>1 DEF KeyInv, Numbered, Press
    <3>2. d = c
      BY <2>1, <3>1
    <3> QED
      BY <2>2, <3>1, <3>2
  <2>4. f \in [P -> 1..used[c]]
    BY <2>3
  <2>5. \A x, y \in P : f[x] = f[y] => x = y
    BY <2>1, <2>3 DEF KeyInv, Distinct
  <2> HIDE DEF f
  <2>6. f \in Injection(P, 1..used[c])
    BY <2>4, <2>5 DEF Injection, IsInjective
  <2>7. IsFiniteSet(1..used[c]) /\ Cardinality(1..used[c]) = used[c]
    BY <2>2, FS_Interval
  <2>8. Cardinality(P) <= used[c]
    BY <2>6, <2>7, FS_Injection
  <2> QED
    BY <2>8 DEF P
<1>2. Init => DeskInv /\ KeyInv
  BY DeskInit, KeyInit
<1>3. DeskInv /\ KeyInv /\ [Next]_vars => DeskInv' /\ KeyInv'
  BY DeskStep, KeyStep
<1>4. DeskInv /\ KeyInv => SubmitPaysOnce
  BY <1>1 DEF DeskInv, Formed
<1> QED
  BY <1>2, <1>3, <1>4, PTL DEF Spec

---------------------------------------------------------------------------
(* The money of an invoice.  Until two requests for one invoice have been  *)
(* between check and write at once, no two are; so what a request read at  *)
(* its check is still so when it writes: a payment that has passed fits    *)
(* the balance or is on record by another attempt, and an edit that was    *)
(* not told of a payment finds none.                                       *)

Free(j, k) ==
  j.stage = "checked" /\ k.stage = "checked" /\ j.id = k.id /\ j.serial # k.serial
    => j.id = Nobody

OnRecord(row, j) == \E n \in Live(row) : row.paid[n].key = j.serial
Suits(row, j) ==
  /\ j.kind = "pay" => OnRecord(row, j) \/ j.amount <= row.total - Paid(row)
  /\ j.kind = "edit" /\ ~j.locked => Live(row) = {}
Fits(j) == j.stage = "checked" /\ j.kind \in {"pay", "edit"} => Suits(rows[j.id], j)

Covered(row) == Paid(row) <= row.total

MoneyInv ==
  raced \/ /\ \A i \in Invoices : Covered(rows[i])
           /\ \A j \in Calls : Fits(j)
           /\ \A j, k \in Calls : Free(j, k)

\* What is paid is a number, nothing when no payment stands, grows by the
\* amount of the payment recorded, and does not when one is deleted.
LEMMA PaidForm ==
  ASSUME NEW row \in Row
  PROVE  /\ Paid(row) \in Int
         /\ Live(row) = {} => Paid(row) = 0
         /\ \A v : v.paid = row.paid => Paid(v) = Paid(row)
         /\ \A r \in Receipt : \A v : v.paid = Append(row.paid, r) => Paid(v) = Paid(row) + r.amount
         /\ \A n : \A v : v.paid = Without(row.paid, n) => Paid(v) <= Paid(row)
<1> DEFINE s == [n \in DOMAIN row.paid |-> row.paid[n].amount]
<1>1. row.paid \in Seq(Receipt) /\ \A r \in Receipt : r.amount \in Int /\ r.amount >= 0
  BY DEF Row, Receipt
<1>2. s \in Seq(Int) /\ Len(s) = Len(row.paid)
  BY <1>1
<1>3. Paid(row) = SeqSum(s)
  BY DEF Paid
<1>4. Paid(row) \in Int
  <2> HIDE DEF s
  <2> QED BY <1>2, <1>3, SumType DEF SeqSum
<1>5. ASSUME Live(row) = {} PROVE Paid(row) = 0
  <2>1. \A k \in 1 .. Len(s) : s[k] = 0
    <3> TAKE k \in 1 .. Len(s)
    <3>1. k \in DOMAIN row.paid /\ row.paid[k] \in Receipt
      BY <1>1, <1>2
    <3>2. ~(row.paid[k].amount > 0)
      BY <1>5, <3>1 DEF Live
    <3> QED BY <1>1, <3>1, <3>2
  <2> HIDE DEF s
  <2> QED BY <1>2, <1>3, <2>1, SumZero
<1>6. \A v : v.paid = row.paid => Paid(v) = Paid(row)
  BY DEF Paid
<1>7. ASSUME NEW r \in Receipt, NEW v, v.paid = Append(row.paid, r)
      PROVE  Paid(v) = Paid(row) + r.amount
  <2>1. [n \in DOMAIN v.paid |-> v.paid[n].amount] = Append(s, r.amount)
    <3>1. v.paid \in Seq(Receipt)
      BY <1>1, <1>7
    <3>2. Len(v.paid) = Len(row.paid) + 1
      BY <1>1, <1>7
    <3>3. DOMAIN Append(s, r.amount) = 1 .. Len(s) + 1 /\ DOMAIN v.paid = 1 .. Len(s) + 1
      BY <1>1, <1>2, <3>1, <3>2
    <3>4. ASSUME NEW n \in 1 .. Len(s) + 1 PROVE v.paid[n].amount = Append(s, r.amount)[n]
      <4>1. CASE n = Len(s) + 1
        BY <1>1, <1>2, <1>7, <4>1
      <4>2. CASE n # Len(s) + 1
        <5>1. n \in 1 .. Len(s) /\ n \in DOMAIN row.paid
          BY <1>1, <1>2, <4>2
        <5>2. v.paid[n] = row.paid[n] /\ Append(s, r.amount)[n] = s[n]
          BY <1>1, <1>2, <1>7, <5>1
        <5> QED BY <5>1, <5>2
      <4> QED BY <4>1, <4>2
    <3>5. Append(s, r.amount) = [n \in 1 .. Len(s) + 1 |-> Append(s, r.amount)[n]]
      BY <1>1, <1>2, <3>3
    <3> HIDE DEF s
    <3> QED BY <3>3, <3>4, <3>5
  <2>2. r.amount \in Int
    BY <1>1
  <2>3. Paid(v) = SeqSum(Append(s, r.amount))
    BY <2>1 DEF Paid
  <2> HIDE DEF s
  <2> QED BY <1>2, <1>3, <2>2, <2>3, SumAppend
<1>8. ASSUME NEW m, NEW v, v.paid = Without(row.paid, m) PROVE Paid(v) <= Paid(row)
  <2> DEFINE u == [n \in DOMAIN v.paid |-> v.paid[n].amount]
  <2>1. DOMAIN v.paid = DOMAIN row.paid /\ DOMAIN row.paid = 1 .. Len(row.paid)
    BY <1>1, <1>8 DEF Without
  <2>2. ASSUME NEW n \in DOMAIN row.paid
        PROVE  u[n] \in Int /\ u[n] <= s[n]
    <3>1. v.paid[n] = IF n = m THEN [row.paid[n] EXCEPT !.amount = 0] ELSE row.paid[n]
      BY <1>8 DEF Without
    <3>2. row.paid[n] \in Receipt /\ u[n] = v.paid[n].amount /\ s[n] = row.paid[n].amount
      BY <1>1, <2>1
    <3> HIDE DEF u, s
    <3>3. CASE n = m
      <4>1. u[n] = 0
        BY <3>1, <3>2, <3>3 DEF Receipt
      <4> QED BY <1>1, <3>2, <4>1
    <3>4. CASE n # m
      BY <1>1, <3>1, <3>2, <3>4
    <3> QED BY <3>3, <3>4
  <2>3. DOMAIN u = 1 .. Len(row.paid) /\ Len(row.paid) \in Nat
    BY <1>1, <2>1
  <2>4. u = [n \in 1 .. Len(row.paid) |-> u[n]]
    BY <2>3
  <2>5. Paid(v) = SeqSum(u)
    BY DEF Paid
  <2> HIDE DEF s, u
  <2>a. \A n \in 1 .. Len(row.paid) : u[n] \in Int
    BY <2>1, <2>2
  <2>b. u \in [1 .. Len(row.paid) -> Int]
    BY <2>4, <2>a
  <2>6. u \in Seq(Int) /\ Len(u) = Len(s)
    BY <1>2, <2>3, <2>b
  <2>7. \A k \in 1 .. Len(s) : u[k] <= s[k]
    BY <1>2, <2>1, <2>2
  <2> QED BY <1>2, <1>3, <2>5, <2>6, <2>7, SumAtMost
<1> QED BY <1>4, <1>5, <1>6, <1>7, <1>8

\* At the start nothing is paid.
LEMMA MoneyInit == Init => MoneyInv
<1> SUFFICES ASSUME Init PROVE MoneyInv
  OBVIOUS
<1>1. \A i \in Invoices : Covered(rows[i])
  <2> TAKE i \in Invoices
  <2>1. rows[i] \in Row
    BY DeskInit DEF DeskInv, Formed, Typed
  <2>2. Live(rows[i]) = {} /\ rows[i].total = 2
    BY DEF Init, Live
  <2>3. Paid(rows[i]) = 0
    BY <2>1, <2>2, PaidForm
  <2> QED BY <2>2, <2>3 DEF Covered
<1>2. \A j \in Calls : j.stage = "idle"
  BY DEF Init, Unsent, Calls
<1> QED BY <1>1, <1>2 DEF MoneyInv, Fits, Free

\* A step that leaves the rows alone and, of the calls, changes at most one,
\* to a stage that is not past its check.
LEMMA NothingChecked ==
  ASSUME MoneyInv, rows' = rows, raced' = raced,
         NEW k, Calls' \subseteq Calls \cup {k}, k.stage # "checked"
  PROVE  MoneyInv'
<1>1. (\A i \in Invoices : Covered(rows[i])) => \A i \in Invoices : Covered(rows'[i])
  OBVIOUS
<1>2. (\A j \in Calls : Fits(j)) => \A j \in Calls' : Fits(j)'
  BY DEF Fits
<1>3. (\A x, y \in Calls : Free(x, y)) => \A x, y \in Calls' : Free(x, y)'
  BY DEF Free
<1> QED BY <1>1, <1>2, <1>3 DEF MoneyInv

\* What a check finds is what it compares with.
LEMMA CheckMoney ==
  ASSUME MoneyInv, DeskInv, \/ \E c \in Callers : Check(c)
                            \/ \E j \in left : CheckLeft(j)
  PROVE  MoneyInv'
<1>1. PICK j \in Calls : /\ j.stage = "sent" /\ Moved(j, Looked(j))
                         /\ UNCHANGED <<rows, screen>> /\ raced' = (raced \/ Overlaps(j))
  BY CheckForm
<1> DEFINE k == Looked(j)
<1>2. /\ Resembles(k, j)
      /\ j.kind # "create" => k.stage = Verdict(j) /\ k.locked = (Live(rows[j.id]) # {})
  BY LookedForm
<1>3. Calls' \subseteq Calls \cup {k} /\ rows' = rows
  BY <1>1 DEF Moved
<1> HIDE DEF k
<1> SUFFICES ASSUME ~raced'
             PROVE  /\ \A i \in Invoices : Covered(rows'[i])
                    /\ \A d \in Calls' : Fits(d)'
                    /\ \A d, e \in Calls' : Free(d, e)'
  BY DEF MoneyInv
<1>4. ~raced /\ ~Overlaps(j)
  BY <1>1
<1>5. /\ \A i \in Invoices : Covered(rows[i])
      /\ \A d \in Calls : Fits(d)
      /\ \A d, e \in Calls : Free(d, e)
  BY <1>4 DEF MoneyInv
<1>6. ASSUME k.stage = "checked", k.kind \in {"pay", "edit"} PROVE Suits(rows[k.id], k)
  <2>1. /\ j.id \in Invoices /\ rows[j.id] \in Row /\ j \in Job /\ k.id = j.id
        /\ k.kind = j.kind /\ k.amount = j.amount /\ Verdict(j) = "checked"
    BY <1>2, <1>6, CallForm DEF Resembles
  <2>2. ASSUME j.kind = "pay" PROVE j.amount <= rows[j.id].total - Paid(rows[j.id])
    <3>1. ~(j.amount > Remaining(j.id))
      BY <2>1, <2>2 DEF Verdict
    <3>2. j.amount \in Int
      BY <2>1 DEF Job
    <3>3. rows[j.id].total \in Int /\ Paid(rows[j.id]) \in Int
      <4>1. Totals \cup {2} \subseteq Int
        BY DeskAssumption
      <4>2. rows[j.id].total \in Totals \cup {2}
        BY <2>1 DEF Row
      <4> QED BY <2>1, <4>1, <4>2, PaidForm
    <3> QED BY <3>1, <3>2, <3>3 DEF Remaining
  <2>3. j.kind # "create"
    BY <1>6, <2>1
  <2> QED BY <1>2, <2>1, <2>2, <2>3 DEF Suits
<1>7. \A d \in Calls' : Fits(d)'
  BY <1>3, <1>5, <1>6 DEF Fits
<1>8. \A d \in Calls : d.stage = "checked" /\ d.serial # k.serial /\ d.id = k.id => d.id = Nobody
  BY <1>2, <1>4 DEF Overlaps, Resembles
<1>9. \A d, e \in Calls' : Free(d, e)'
  BY <1>3, <1>5, <1>8 DEF Free
<1> QED BY <1>3, <1>5, <1>7, <1>9

\* A write without a race finds what its check found.
LEMMA CommitMoney ==
  ASSUME MoneyInv, DeskInv, KeyInv, \/ \E c \in Callers : Commit(c)
                                    \/ \E j \in left : CommitLeft(j)
  PROVE  MoneyInv'
<1>1. PICK j \in Calls :
        /\ j.stage = "checked" /\ Moved(j, [j EXCEPT !.stage = Outcome(j)])
        /\ raced' = raced
        /\ \/ rows' = rows
           \/ /\ j.kind # "create"
              /\ j.kind = "pay" => ~KnownKey(j.serial)
              /\ rows' = [rows EXCEPT ![j.id] = Written(rows[j.id], j)]
  BY CommitForm
<1> DEFINE k == [j EXCEPT !.stage = Outcome(j)]
<1>2. k.stage # "checked" /\ Calls' \subseteq Calls \cup {k}
  <2>1. k.stage \in {"ok", "conflict", "refused"}
    BY OutcomeForm
  <2> QED BY <1>1, <2>1 DEF Moved
<1> HIDE DEF k
<1>3. CASE rows' = rows
  BY <1>1, <1>2, <1>3, NothingChecked
<1>4. CASE /\ j.kind # "create"
           /\ j.kind = "pay" => ~KnownKey(j.serial)
           /\ rows' = [rows EXCEPT ![j.id] = Written(rows[j.id], j)]
  <2> DEFINE row == rows[j.id]
             w == Written(row, j)
             r == [key |-> j.serial, amount |-> j.amount, meant |-> j.meant]
  <2>1. j \in Job /\ GoodJob(j) /\ j.id \in Invoices /\ row \in Row /\ rows \in [Invoices -> Row]
    BY <1>4, CallForm DEF DeskInv, Formed, Typed
  <2>2. /\ j.kind # "edit" => w.total = row.total
        /\ j.kind \notin {"pay", "delete"} => w.paid = row.paid
        /\ j.kind = "delete" => w.paid = Without(row.paid, j.nth)
        /\ j.kind = "pay" => w.paid = Append(row.paid, r)
    BY <1>4, <2>1, WrittenRow
  <2>3. j.kind = "edit" => w.total = IF j.locked THEN row.total ELSE j.total
    BY <2>1 DEF Written, Edited, Row
  <2>4. \A i \in Invoices : rows'[i] = IF i = j.id THEN w ELSE rows[i]
    BY <1>4, <2>1
  <2>5. j.kind = "pay" => OnRecord(w, j)
    BY <1>4, <2>1, WrittenPaid DEF OnRecord
  <2>6. r \in Receipt /\ r.amount = j.amount /\ j.amount \in Int
    BY <2>1 DEF Receipt, Job
  <2> HIDE DEF w, r
  <2> SUFFICES ASSUME ~raced
               PROVE  /\ \A i \in Invoices : Covered(rows'[i])
                      /\ \A d \in Calls' : Fits(d)'
                      /\ \A d, e \in Calls' : Free(d, e)'
    BY <1>1 DEF MoneyInv
  <2>7. /\ \A i \in Invoices : Covered(rows[i])
        /\ \A d \in Calls : Fits(d)
        /\ \A d, e \in Calls : Free(d, e)
    BY DEF MoneyInv
  <2>8. row.total \in Int /\ Paid(row) \in Int /\ Paid(row) <= row.total
    <3>1. Totals \cup {2} \subseteq Int
      BY DeskAssumption
    <3>2. row.total \in Totals \cup {2}
      BY <2>1 DEF Row
    <3> QED BY <2>1, <2>7, <3>1, <3>2, PaidForm DEF Covered
  <2>9. Paid(w) <= w.total
    <3>1. CASE j.kind = "pay"
      <4>1. ~OnRecord(row, j)
        BY <1>4, <2>1, <3>1 DEF KnownKey, OnRecord
      <4>2. j.amount <= row.total - Paid(row)
        BY <1>1, <2>7, <3>1, <4>1 DEF Fits, Suits
      <4>3. Paid(w) = Paid(row) + r.amount
        BY <2>1, <2>2, <2>6, <3>1, PaidForm
      <4> QED BY <2>2, <2>6, <2>8, <3>1, <4>2, <4>3
    <3>2. CASE j.kind = "edit"
      <4>1. Paid(w) = Paid(row)
        BY <2>1, <2>2, <3>2, PaidForm
      <4>2. CASE j.locked
        BY <2>3, <2>8, <3>2, <4>1, <4>2
      <4>3. CASE ~j.locked
        <5>1. Live(row) = {}
          BY <1>1, <2>7, <3>2, <4>3 DEF Fits, Suits
        <5>2. Paid(row) = 0
          BY <2>1, <5>1, PaidForm
        <5>3. w.total = j.total /\ j.total \in Nat
          BY <2>1, <2>3, <3>2, <4>3 DEF Job
        <5> QED BY <4>1, <5>2, <5>3
      <4> QED BY <4>2, <4>3
    <3>3. CASE j.kind = "delete"
      <4>1. Paid(w) <= Paid(row)
        BY <2>1, <2>2, <3>3, PaidForm
      <4>2. w \in Row
        BY <1>4, <2>1, WrittenRow DEF w
      <4>3. Paid(w) \in Int
        BY <4>2, PaidForm
      <4> QED BY <2>2, <2>8, <3>3, <4>1, <4>3
    <3>4. CASE j.kind \notin {"pay", "edit", "delete"}
      <4>1. Paid(w) = Paid(row)
        BY <2>1, <2>2, <3>4, PaidForm
      <4> QED BY <2>2, <2>8, <3>4, <4>1
    <3> QED BY <3>1, <3>2, <3>3, <3>4
  <2>10. \A i \in Invoices : Covered(rows'[i])
    BY <2>4, <2>7, <2>9 DEF Covered
  <2>11. ASSUME NEW d \in Calls', d.stage = "checked", d.kind \in {"pay", "edit"}
         PROVE  Suits(rows'[d.id], d)
    <3>1. d \in Calls /\ Suits(rows[d.id], d) /\ d.id \in Invoices
      <4>1. d \in Calls
        BY <1>2, <2>11
      <4> QED BY <2>7, <2>11, <4>1, CallForm DEF Fits
    <3>2. CASE d.id # j.id
      BY <2>4, <3>1, <3>2
    <3>3. CASE d.id = j.id
      <4>1. d.serial = j.serial
        BY <1>1, <2>1, <2>7, <2>11, <3>1, <3>3, DeskAssumption DEF Free
      <4>2. d.kind = j.kind
        BY <1>1, <2>11, <3>1, <4>1 DEF KeyInv, SameKind
      <4>3. rows'[d.id] = w
        BY <2>1, <2>4, <3>3
      <4>4. CASE d.kind = "pay"
        BY <2>5, <4>1, <4>2, <4>3, <4>4 DEF Suits, OnRecord
      <4>5. CASE d.kind = "edit"
        <5>1. w.paid = row.paid
          BY <2>2, <4>2, <4>5
        <5>2. Live(w) = Live(row)
          BY <5>1 DEF Live
        <5> QED BY <3>1, <3>3, <4>3, <4>5, <5>2 DEF Suits
      <4> QED BY <2>11, <4>4, <4>5
    <3> QED BY <3>2, <3>3
  <2>12. \A d \in Calls' : Fits(d)'
    BY <2>11 DEF Fits
  <2>13. \A d, e \in Calls' : Free(d, e)'
    BY <1>2, <2>7 DEF Free
  <2> QED BY <2>10, <2>12, <2>13
<1> QED BY <1>1, <1>3, <1>4

\* Every step keeps the money of every invoice within its total, or is a race.
LEMMA MoneyStep ==
  ASSUME MoneyInv, DeskInv, KeyInv, [Next]_vars
  PROVE  MoneyInv'
<1>1. Typed /\ jobs \in [Callers -> Job] /\ {"other", "save", "pay"} \subseteq Callers
  BY DEF DeskInv, Formed, Typed, Callers
<1>2. ASSUME NEW c \in Callers, Lose(c) PROVE MoneyInv'
  <2>1. PICK j \in Calls, k \in Job : k.stage \in {"sent", "dead"} /\ Moved(j, k)
                                      /\ UNCHANGED <<rows, raced>>
    BY <1>2, LoseForm
  <2> QED BY <2>1, NothingChecked DEF Moved
<1>3. /\ \A kind, i, c : Request(kind, i, c).stage = "sent"
      /\ \A kind, i, c, v, w, t : Edit(kind, i, c, v, w, t).stage = "sent"
      /\ \A i, c, a, w : Payment(i, c, a, w).stage = "sent"
      /\ \A i, c, n : Deletion(i, c, n).stage = "sent"
      /\ Unsent.stage = "idle"
  BY DEF Request, Edit, Payment, Deletion, Unsent
<1>4. ASSUME NEW c \in Callers, NEW j, jobs' = [jobs EXCEPT ![c] = j], j.stage # "checked",
             UNCHANGED <<rows, left, raced>>
      PROVE  MoneyInv'
  <2>1. Calls' \subseteq Calls \cup {j}
    BY <1>1, <1>4 DEF Calls
  <2> QED BY <1>4, <2>1, NothingChecked
<1>5. CASE OtherAsks \/ OtherHears
  <2>1. \E j : jobs' = [jobs EXCEPT !["other"] = j] /\ j.stage # "checked"
    BY <1>3, <1>5 DEF OtherAsks, OtherHears
  <2>2. UNCHANGED <<rows, left, raced>>
    BY <1>5 DEF OtherAsks, OtherHears
  <2> QED BY <1>1, <1>4, <2>1, <2>2
<1>6. CASE Save \/ SaveAnswered
  <2>1. \E j : jobs' = [jobs EXCEPT !["save"] = j] /\ j.stage # "checked"
    BY <1>3, <1>6 DEF Save, SaveAnswered
  <2>2. UNCHANGED <<rows, left, raced>>
    BY <1>6 DEF Save, SaveAnswered
  <2> QED BY <1>1, <1>4, <2>1, <2>2
<1>7. CASE Pay \/ PayAnswered
  <2>1. \E j : jobs' = [jobs EXCEPT !["pay"] = j] /\ j.stage # "checked"
    BY <1>3, <1>7 DEF Pay, PayAnswered
  <2>2. UNCHANGED <<rows, left, raced>>
    BY <1>7 DEF Pay, PayAnswered
  <2> QED BY <1>1, <1>4, <2>1, <2>2
<1>8. ASSUME \/ OpenCreate \/ CloseSheet \/ ClosePay
             \/ \E i \in Invoices : OpenEdit(i) \/ FormArrives(i) \/ FormFails(i) \/ OpenPay(i)
             \/ \E t \in Totals : TypeTotal(t)
             \/ \E a \in Amounts : TypeAmount(a)
             \/ \E r \in refreshes : Refreshed(r)
             \/ UNCHANGED vars
      PROVE  MoneyInv'
  <2>1. UNCHANGED <<rows, jobs, left, raced>>
    BY <1>8 DEF OpenCreate, CloseSheet, ClosePay, OpenEdit, FormArrives, FormFails, OpenPay,
                TypeTotal, TypeAmount, Refreshed, vars
  <2>2. Calls' \subseteq Calls \cup {Unsent}
    BY <2>1 DEF Calls
  <2> QED BY <1>3, <2>1, <2>2, NothingChecked
<1> QED
  BY <1>2, <1>5, <1>6, <1>7, <1>8, CheckMoney, CommitMoney DEF Next, Server

\* An invoice is paid beyond its total only after two requests for it were
\* between check and write at once, for any number of invoices, payments,
\* edits and deletions (add_payment's balance, update_invoice's lock on paid
\* invoices).
THEOREM DeskOnlyRacesOverpay == Spec => []OnlyRacesOverpay
<1>1. Init => DeskInv /\ KeyInv /\ MoneyInv
  BY DeskInit, KeyInit, MoneyInit
<1>2. DeskInv /\ KeyInv /\ MoneyInv /\ [Next]_vars => DeskInv' /\ KeyInv' /\ MoneyInv'
  BY DeskStep, KeyStep, MoneyStep
<1>3. MoneyInv => OnlyRacesOverpay
  BY DEF MoneyInv, Covered, OnlyRacesOverpay
<1> QED
  BY <1>1, <1>2, <1>3, PTL DEF Spec
=============================================================================
