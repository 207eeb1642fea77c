# EduCore Africa: specifications

EduCore Africa is a school-management platform: a Next.js application for schools
(`src/apps/web`), a console for the platform's operators (`src/apps/superadmin`) and a
shared Prisma schema (`src/packages/database`). These modules specify the parts of the
two applications in which several requests, devices or processes work on the same
rows: money, invoices, the library, the daily roll call, and fifteen smaller services from
hostel beds to scheduled reports.

There is hardly any locking in the code. A request handler is a chain of awaited
queries; between two of them any other handler may run, on the same or another server
process, and the handler itself may be cut off. What keeps the data right is a handful
of unique indexes, a few `prisma.$transaction` calls and the order of the queries. That
is what the models keep: **one action per await** (or per transaction), in the order of
the code, with its guards, early returns and error paths.

## Inventory

| Component | State | Operations | Hard because | Correct when |
|---|---|---|---|---|
| Fee payments (`api/payments/*`, `api/webhooks/paystack`, `lib/finance.ts`) | payments, an invoice's `amountPaid` and `status`, Paystack's charges | initialise, webhook, record at the desk, refresh totals, receipt | duplicate and concurrent webhooks, retries until 2xx, read-then-write refresh, crashes between writes | money is never invented or forgotten, statuses follow totals, one receipt per payment |
| Invoice generation (`api/finance/invoices/generate`, `lib/finance.ts`) | a term's invoices, awards, invoice numbers | bulk generation, discount choice, numbering, award decisions | overlapping runs, platform-wide unique number counted per school, 300 s cut-off | nobody billed twice, honest report, everyone invoiced after enough runs |
| Library (`api/library/*`, `lib/library-helpers.ts`) | copy counters, loans, fines | add, edit, delete, issue, return | counters and loans checked by one query and changed by another | copies accounted for, one loan each, fines final |
| Roll call, server (`api/attendance`, `lib/queues/*`) | attendance rows, jobs in memory, in Redis and in the worker | submit, QR check-in, hand over, enqueue or run inline, run, retry | two submissions read before either writes, fire-and-forget hand-over, at-least-once jobs | no absence in silence, no message without end |
| Roll call, offline (`lib/offline-queue.ts`, `sync-manager.tsx`, `mark-attendance.tsx`) | the browser's queue, requests in flight | save offline or online, flush, retry | lost requests and answers, a flush beside a save | what the teacher saved last is what is stored |
| Hostel (`api/hostel/{hostels,rooms,assignments}`) | hostels, rooms, stays | add, resize and delete rooms, edit and delete hostels, assign, check out | every check is a query before the write, with no index behind it | one bed each, in a room and hostel that have it |
| Exeats (`api/hostel/exeat`) | exeats, audit rows, texts | submit, decide, pick up, return | the status is checked as it was read; the audit row and the text come after the write | nobody leaves without an approval, and the trail says how it went |
| Fee reminders (`api/cron/finance/run-reminders`) | notifications, texts sent | one run a day over its offsets | sent first, noted afterwards | once per invoice and offset, but for faults and overlaps |
| Announcements (`api/announcements`, `api/cron/announcements/dispatch-scheduled`) | announcements with two times, fan-outs | post, edit, delete, cron run | fanned out first, stamped afterwards; three callers | sent once, and sent at last |
| Bus alerts (`api/transport/board`, `update-location`) | audit rows, alerts | board, ping | stamped first, raised afterwards | once a day, and not lost but by a fault |
| School registration, promo codes (`api/auth/register-school`, `packages/database/promo.ts`, `api/config/promo-codes`) | schools, promo codes, redemptions | register, make and remove codes | limit checked long before the use is counted, in another transaction | uses counted, discounts accounted for, slugs unique |
| Subscription refunds (`api/revenue/refunds`, `failed-payments`, `lib/gateways.ts`) | charges, refunds, money paid out | refund, retry, resolve | the gateway pays before the row, and its answer may be lost | no more goes back than was paid, rows match the money |
| Referrals (`lib/referrals.ts`, `api/growth/referrals`) | codes, statuses, free months | refer, advance | four queries, the last of which settles what the others counted | the reward follows the tiers |
| Message templates (`lib/templates.ts`) | wording, versions | edit, roll back | read, number and write are three steps | the history is complete |
| Mark sheets (`api/grades`, `grade-entry.tsx`) | the table of grades, the page's copy of it | type, autosave, save all, import, edit a cell, rank | autosaves beside typing, marks from elsewhere, positions in a later transaction | what looks saved is stored, positions rank the totals |
| Report cards (`api/grades/report-cards`) | cards with their locks | generate, edit, lock | generation waits for a language model between reading a card and writing it | a locked card stands |
| Timetable (`api/timetable`, `api/ai/timetable/save`) | slots | add, edit, delete, swap, save a draft | deleted slots keep their unique hour | swaps keep lessons, a draft's answer is true |
| Staff leave and payroll (`api/staff/leave`, `api/staff/payroll`) | leaves, statuses, payslips | apply, review, edit, generate, mark | a review is three queries | decided once, paid once, status explained |
| Subscriptions and revenue (`api/schools/[id]/{status,subscription}`, `api/growth/trials`, `lib/revenue.ts`, `lib/metrics.ts`) | subscriptions, their revisions, schools that are open | set a status, change the offer, convert or give up a trial | revenue is computed from the rows and again from the history | both figures agree |
| Scheduled reports (`lib/report-scheduler.ts`) | saved reports, run logs | sweep, run now, delete | one report fails, or is deleted, in the middle of a sweep | every run has a row that says how it ended |
| Assignments, lessons, resources; USSD; messaging gateways; AI; authentication; the rest of the console; pages | | | record keeping with one write per request, pure computation, outside services or access decisions | not modelled; `PROJECT.json` gives the reason for each |

How they interact: generation creates the invoices that payments settle, with the same
`recomputeInvoiceStatus`; the desk, the webhook and nothing else post payments; the
roll-call page talks to the server directly or through the offline queue; the server
talks to the worker through Redis. Every one of them calls the SMS gateway, which the
models see as "a message was sent" or, where the difference matters, refused. Report cards read
the mark sheet. The remaining services are modelled apart from each other, with the way a handler runs
in common (`Handlers`). Most share no table. Two do: registration creates a school's row of
`SchoolSubscription` with its price, and `Subscriptions` starts from such a row and changes its status
and offer. A school that is being registered has no row yet, so the two never meet on one; what
`DiscountsAccountedFor` says of a price is about the one set at registration, not of later offers.

The hazards are listed with their lines in `PROJECT.json`. The properties below were
chosen from that list.

## Modules

| Module | Models | Correspondence |
|---|---|---|
| `PaymentLedger` | what the finance desk promises | rows are posted once per reference; a total is restated over posted rows |
| `InvoicePayments` | payments | `InitializeRead`/`PaystackAccepts` = `payments/initialize`; `WebhookLookup`, `CreatePayment`, `RefreshRead`, `RefreshWrite`, `SendReceipt`, `Respond` = the awaits of the webhook; `RecordRead` and the same tail = the desk; `Crash` at every await |
| `InvoiceGeneration` | invoice generation | one action per await of the loop: `Lookup`, `PickDiscount`, `ReadNumber`, `Create`; `TimesOut`; `AwardChanges` for `discounts/award` and `student-discounts/[id]` |
| `LibraryLoans` | the library | the reading half and the writing half of each route; issue and return write both rows in one step because the code uses one transaction |
| `RollCallServer` | roll call, server | `Post` ... `HandOver` = the awaits of `api/attendance`; `Scan` = QR check-in; `Enqueue`/`RunInline` = `enqueueAttendanceJob`; `Take`, `Send`, `StoreNotice`, `Throws` = the worker; `Tell` = `sendSms`, which answers a refusal (`refused`) without throwing; `ServerDies`, `WorkerDies` |
| `OfflineRollCalls` | roll call, offline | EXTENDS `RollCallServer`: tabs of the page, queue, flush and network, joined to the server's `Post` and `HandOver`. `Load` opens a tab; `SaveOffline` queues, which only a tab does that was loaded without coverage and has heard no event since (`fresh`): in any other the mutation of TanStack Query is paused and posts later (`SaveOnline`); `GoOnline` and `List` = the `online` event and the flush it starts |
| `Handlers` | what all the services below share | a request is a stage (`pc`: the query it is about to make) and what it carries (`job`); `Begin`, `GoTo`, `Carry`, `Finish`; `Dies` at any await; `overlapped`, `faults` |
| `HostelBeds` | hostel | `...Read`, `...Check`, `...Write` = the awaits of each route: `AssignRead`, `BedCheck`, `BoarderCheck`, `AssignWrite` and so on |
| `ExeatLifeCycle` | what an exeat promises | a move between statuses; `loose` once requests overlap |
| `Exeats` | exeats | `DecideRead`/`PickupRead`/`ReturnRead`, `DecideStaff`, `MoveWrite`, `AuditWrite`, `TextGuardian` = the awaits of `exeat/[id]` |
| `FeeReminders` | fee reminders | select, ask for an earlier note, send, note, for each offset and invoice |
| `Announcements` | announcements | `CreateNotice`, `FanOut`, `Stamp`, `EditWrite`, `DeleteWrite`, `SelectDue` (a cron run takes a batch), `CronItemFails` |
| `BusAlerts` | transport | a boarding is one alert, a ping those at some places of the route's list, in its order (`Places`); for each, look for the audit row, write it, raise |
| `SchoolRegistration` | registration, promo codes | `FindSlug`, `CheckPromo`, `CreateSchool` (one transaction), `Redeem` (another); `MakePromo`, `RemoveRead`, `RemoveWrite`, `PromoExpires` |
| `SubscriptionRefunds` | refunds | `RefundRead`, `AskGateway`, `WriteRefund`/`WriteFailure`; `Retry...`, `Resolve...`; `Bill` is external |
| `Referrals` | referrals | `ReferRead`, `ReferCreate`; `AdvanceRead`, `AdvanceWrite`, `CountConverted`, `FindLatest`, `SettleReward` |
| `MessageTemplates` | templates | `ReadWording`, `NumberVersion`, `WriteWording` = the awaits of `saveTemplate` |
| `MarkSheets` | grades | the page (`Type`, `Submit`, `SaveRow`, `SaveAll`, `Answered`, `Reload`) and the handlers (`WriteMarks`, `Import`, `PatchRead`, ranking) |
| `ReportCards` | report cards | EXTENDS `MarkSheets`: `CardMarks`, `CardRank`, `CardRead`, `CardWrite` for each pupil; `EditCard`, `EditCardWrite` |
| `Timetables` | timetable | `WriteSlot`, `RemoveSlotWrite`, `SwapWrite`, `DraftReplace`, `DraftCreate` (an insert that fails, for whatever reason, is logged and left out) with the readings before them; deleted slots can be edited |
| `StaffLeave` | leave and payroll | `ReviewWrite`, `FlipStatus`, `TellOwner` = the three queries of a review; `PayrollRead`, `PayrollStaff` (among those who have a basic salary, any subset of the staff), `PayrollWrite`; `MarkSlip` |
| `Subscriptions` | subscriptions, revenue | `StatusRead`/`StatusWrite`, `OfferRead`/`OfferWrite`, `TrialRead`/`Convert`/`GiveUp`; `RevenueNow` = `metrics.ts`, `RevenueByHistory` = `revenue.ts` |
| `ScheduledReports` | scheduled reports | `Sweep` and `RunNow` take some reports, run in the order of their names; `FindReport`, `LogRun`, `ReadData`, `FailRun` or `Succeed`, `NextReport` for each; `RetireRead`, `RetireWrite` |
| `MCSchoolServices` | | the services above, one at a time (`served`), with values for TLC |
| the other `MC*` | | values for TLC |
| `InvoicePaymentsProofs`, `InvoiceGenerationProofs`, `LibraryLoansProofs`, `RollCallProofs` | | the theorems about payments, generation, the library and the roll call with its offline half |
| `HandlersProofs` | | lemmas on `Begin`, `GoTo`, `Carry`, `Finish` and `Dies` that the proofs about the services share |
| `SchoolLifeProofs` | | theorems about exeats, hostel, leave and payroll, mark sheets, report cards, timetable |
| `OfficeProofs` | | theorems about bus alerts, fee reminders, announcements, templates, referrals, refunds, subscriptions, promo codes, scheduled reports |
| `ServicesProofs` | | the composition `MCSchoolServices` behaves as the service that it serves, so what is proved of the services holds there |

Data is abstracted to what the properties tell apart. An invoice's `amountPaid` is kept
as the *set of payments it adds up*; amounts are small naturals; a reference, a student
or a job is a model value or a record; a roll call is a function from students to marks;
an invoice number is its prefix and counter, compared in the order of texts as the query
does; one cell of a mark sheet stands for the row's components; a wording is a subject and a
body from small sets; an offer is a plan, an amount and a cycle. Definitions marked *Faulty variant* are not part of any specification: each is the
definition after it with a plausible mistake, and shows that a property would notice.

History variables are read by properties only: `overlaps` (library), `overlapped` (services),
`mixed`, `saved`, `latest` (offline roll calls), and those marked so in each module. They let
one run state both what overlapping requests cannot break and what holds only for requests
in turn, which is how most properties of the services are built: *with requests in turn*
the promise of the code's comment; *overlapping* the weaker bound that is left.

## Runs

| Run | Question | Properties |
|---|---|---|
| `fees` | two overlapping handlers, two references, one invoice, one crash | `TypeOK`, `StatusMatchesTotal`, `PaidIsFunded`, `ReceiptAtMostOnce`, `AcknowledgedIsRecorded`, `LedgerImplemented` (refinement of `PaymentLedger`) |
| `fees_serial` | the same, one handler at a time | `QuiescentTotalsMatch`, `SettledStaysSettled` (with: the desk takes no more than the balance), and `PaidChargeIsRecorded` (liveness) |
| `fees_overlap` | is the total exact once overlapping handlers are done? | **violated**: `QuiescentTotalsMatch` |
| `fees_crash` | does every completed charge reach its total? | **violated**: `PaidChargeIsCounted` |
| `invoicing` | two overlapping generations, one cut off, an award that changes, a counter that comes to its end | `TypeOK`, `ReportHonest`, `NumbersConsecutive`, `NeverRebilled`, `EveryoneIsInvoiced` (liveness, unless the counter stopped) |
| `invoicing_prefix` | two schools with the same three letters | **violated**: `EveryoneIsInvoiced` |
| `library` | two librarians, two copies, two students, three loans | `TypeOK`, `CopiesNotLost` (with: one loan each, and a counter oversold by no more than the requests in between), `ReturnIsFinal` |
| `library_shrink` | one librarian | **violated**: `DeletedBookIsBack` |
| `rollcall` | two overlapping submissions, scans, failing jobs, one death | `AbsenceAlerted` (with: no message without end), `GuardianTold` (liveness: unless the gateway refuses, attempts run out or a process dies) |
| `rollcall_offline` | one tab, two saves, two failures, two requests in flight | `OfflineTypeOK` (with the server's types), `LatestKept` (with: a replay alerts once), `QueueDrains` (liveness) |
| `rollcall_latest` | one tab, two saves, no failure | **violated**: `LatestVersionUploads` |
| `services` | each service in turn, two overlapping requests, one death or lost answer | `ServicesTypeOK`; one invariant for each service, below; `LifeCycleImplemented` (refinement of `ExeatLifeCycle`); `DueIsSent` (liveness) |

What `services` shows, where the code does not say it:

* `StaysFitTheirRooms`: with requests in turn no bed and no boarder is booked twice, and
  no resize, deletion or edit strands a stay, but for a hostel's gender edited
  afterwards. Overlapping, a bed has at most as many holders as there are requests.
* `DecisionsTold`, `LifeCycleImplemented`: an approval and a rejection that both found an exeat
  pending both count, both are audited, and the last one wins; still nobody goes home
  unapproved, and the guardian has every code the exeat ever had.
* `RemindersBounded`, `SentOnce`, `AlertsBounded`: sending first and noting afterwards costs a
  second text for a death in between, or for a run beside it; noting first costs the alert that
  died in between. Neither order loses or repeats more than that. The query of reminders has a cap (`PerRun`) without an order:
  the invoices beyond it are not reminded that day.
* `DueIsSent`: due announcements are always sent again and again until none is owed. It says
  nothing of one whose `publishedAt` is null, which no cron run takes up, nor of one that was
  moved to a later time after it was sent: that one keeps its stamp and is not sent again.
* `DiscountsAccountedFor`: a registration that dies before it redeems its code, or whose code
  is removed meanwhile, keeps its reduced price without a redemption; with requests in turn and
  no failure there is none. Registrations side by side may share the last use of a code.
* `RefundsBounded`: parts of a refund taken in turn stay within the charge. Two at once may pay
  out twice the amount. Marking a refunded charge as paid erases that status; the sum
  of the refunds still keeps more from going out.
* `RewardsMatchTiers`: a move that dies in the middle leaves the old reward until the next one.
* `WordingKept`: the unique version number turns the second of two overlapping edits into an
  error or a number of its own; an edit read past is missing from the record.
* `MarksStored`: the answer to an autosave marks its row clean even if it was typed into
  meanwhile; then page and table differ without a sign of it until the row is edited again.
* `CardsStandLocked`: a card that is locked while a generation which found it unlocked waits
  for the model is overwritten. Otherwise locks hold.
* `TimetableKept`: an insert of a draft that fails costs no other hour, and the answer counts what was
  created. Hours freed by a draft stay blocked by the rows that keep them, so in this code the draft's
  own slots there are left out; the property would hold as well if they were filled.
* `LeaveAndPayAgree`: approving a leave puts on leave, and so on the payroll, even who has left;
  cancelling it does not undo that.
* `SubscriptionsAgree`: both revenue figures agree with requests in turn, unless a change was
  dated otherwise, and but for a school that comes back from `CHURNED` by way of another status
  than `ACTIVE`: it gets no revision (`status/route.ts:64`), so the history goes on reading
  `CHURN` (`revenue.ts:89`) and counts 0 for it. A trial given up leaves its school open.
* `RunsAccountedFor`: a report that fails costs the others nothing; one that is deleted while it
  runs makes the next write throw, which ends the sweep. A sweep called twice runs
  everything twice.

What the violated ones show, step by step:

* `fees_overlap`: A creates its payment and reads the rows; B creates, reads and writes
  the larger total; A writes its smaller one. `refreshInvoiceTotals` is "idempotent" as
  its comment says, but not ordered.
* `fees_crash`: the handler dies after `payment.create`. Paystack retries, the lookup
  finds the row and answers "duplicate", and no one refreshes the invoice.
* `invoicing_prefix`: `invoiceNo` is unique over all schools and its prefix is the first
  three letters of the slug; the "latest" query looks at one school. The second school
  computes number 1 for ever.
* `library_shrink`: two copies on loan, total set to 1 (available held at 0), one copy
  back: available = total = 1, so the title can be deleted with a copy out.
* `rollcall_latest`: a page that was loaded without coverage queues version 1. Coverage comes back and
  the flush lists it. The teacher saves version 2, which the page, online now, posts at once: it is
  stored and answered "Saved". The flush's post of version 1 is stored after it, and stays.

### Bounds, and why they are enough

Two handlers at a time are what a race between two awaits needs; two references are one
duplicate and one competitor for the balance; a fee of 2 units has unpaid, partial, paid
and overpaid totals. In the library two copies and two students give a contested last
copy, a second loan and a total that can shrink below what is out; a day of two instants
and a clock up to 2 give a return on time, within a day and after exactly a day. A third loan,
without which no counter could fall below the bound on overselling whatever
the checks do, is followed only while the clock stands and every loan is due at once
(`ThirdLoanToday`, the constraint of `library`): it matters to the last copy and not to fines. Two
students, of whom one has no reachable guardian, cover the branches of the absence job, which
gets the queue's three attempts; a roll call marks one of the two absent or none, since nothing in
the code relates the jobs of two students but the worker's concurrency, which is 1.
In `rollcall_offline` each of the two failures is spent on any
request, on the network, before the handler, in its transaction or by the death of
the server, or on a tab that is loaded anew while it waits. The run has one tab: two have more states than a run
can go through, and the theorems are about any number of them. In `invoicing` two binary digits (`Base` 2, `LastPadded` 3) stand for the four decimal
ones of an invoice number: the first school has two numbers left, of which the second is the one
with a digit more, and the other school is at its end before it starts, so the run goes through
both; `invoicing_prefix` starts from no numbers. `MaxPosts` is 8 in `rollcall_offline` because no
behaviour within the other bounds posts more often, so it never stops one. Bounds are constants named in the modules: `Procs`,
`MaxCrashes`, `MaxAmount`, `MaxTimeouts`, `MaxLoans`, `MaxCopies`, `MaxTime`, `MaxPosts`,
`Calls`, `MaxSaves`, `MaxFailures`. `PastNine` is fixed in a run: a morning before nine has
fewer writes by scans, not others.

In `services` every table is the smallest in which two requests can meet on one row and a
third row can tell the difference. Two requests (`Procs`) and one fault (`MaxFaults`) throughout.
Hostel: one room of up to two beds (`MaxBeds`), two boarders, two stays (`MaxStays`), a hostel for
girls or for all and a student whose gender nobody entered. Exeats: one exeat, two codes.
Reminders: two invoices due a day apart and two offsets, so that one run sends for both
(`PerRun` 2, `MaxDay` 1). Announcements: two, of which one is edited once (`Editable`,
`MaxEdits`), two instants (`MaxTime`), a batch that takes both (`BatchSize`). Bus: the deviation and
one stop. Registration: two schools of one name and a code with one use, half of a price that does
not halve. Refunds: one charge of 3, in any parts. Referrals: three of one school, which reaches
the second tier and leaves it (`MaxReferrals`, `Asked`). Templates: three versions (`MaxVersions`).
Marks: two pupils, scores 0 and 1, two cells typed and one save from elsewhere (`MaxScore`,
`MaxTyped`, `Elsewhere`, `MaxElsewhere`); cards are made from a full sheet, for one pupil
(`Active`) who is ranked with the other, under the edits that write a remark, lock or unlock (`Edits`). Timetable: one section with
two hours and a draft that fills both (`Drafts`). Leave: one person with one leave that includes
today (`Running`). Subscriptions: one school, the same amount by the term and by the month, three
requests (`Offers`, `AskedStatuses`, `MaxAsked`): churn, another status and `ACTIVE` take three.
Reports: two, both due, three runs (`DueReports`, `MaxRuns`): a sweep and a run by hand beside it.

Symmetry is used for processes and references or students in `fees` and `library`, which
check no liveness. Deadlock is checked in `invoicing` and in the library runs. It is off
where the bounded system really stops: when references, posts, saves or requests are used up.

### Fairness

* `InvoicePayments!Fairness`: Node runs a handler it has started to its end unless it
  crashes (weak); Paystack delivers a success again until it has a 2xx (strong, because
  the bound on handlers may keep it waiting). Parents, the desk and the clock owe nothing.
* `InvoiceGeneration!FairSpec`: a started run goes on (weak), and the bursar starts a run
  over the whole school again as long as somebody is missing (strong, for the same
  bound): the route calls itself safe to run again, and nothing else retries.
* `RollCallServer!ServerFairness`: some request, some hand-over, some waiting job and some
  running handler goes on whenever one can. Handlers may still throw.
* `Announcements!NoticesFairness`: some request goes on whenever one can (weak), and the
  scheduler's cron run happens again and again (strong: the bound on requests may keep it
  waiting). A fan-out may still fail, and users owe nothing.
* `OfflineRollCalls!OfflineFairness`: coverage keeps coming back and going away (weak), because
  the `online` event is the only thing that starts a flush; without that assumption an
  entry that failed stays in the queue of a browser that remains online. A tab that can list the queue
  again and again does so in the end (strong: coverage may go away before it has). What the browser, the
  network and the server are working on goes on (weak); nobody has to save or to load a page.

## Proofs

Every safety property that a run checks is a theorem as well. A run shows it on the small
instances above; the theorem says it for every number of handlers, faults, invoices, students,
rooms and so on that the named assumptions of the modules allow. Each follows the same argument: an inductive invariant, kept by
one lemma per action (or kind of action), which implies the property. Hardly any property is
inductive itself, because a handler writes what an earlier query read. The strengthening says what a
handler **in the middle** still knows, and there are four ways in which it does:

* *It cannot have changed back.* Rows of a table are only added, so what a payment refresh saw
  stays a subset of what is posted.
* *With requests in turn nobody else moves* (`Lone`): what was read still holds when it is written.
* *Overlapping, there are no more of them than requests at a time.* What has
  happened and the requests that are about to let it happen again are counted together: alerts
  raised plus those past the look for a stamp, holders of a bed plus those past its check. That
  sum is kept to `Width`: 1 as long as requests came in turn, `Cardinality(Procs)` once they did
  not. A step moves a request from one group to the other; it does not enter
  the group once the row is there. Amounts are counted likewise, as sets of pairs: a
  refund in progress for 3 is three pairs of that request and a number.
* *It is on record or on its way.* Where nothing may be lost, the invariant names
  who holds it: the handler between two writes, a request on the network, the queue.

| Theorem | Property | Inductive invariant, and what it adds |
|---|---|---|
| `InvoicePaymentsProofs!TypeCorrect` | `TypeOK` | itself |
| `StatusCorrect`, `PaidFunded` | `StatusMatchesTotal`, `PaidIsFunded` | `TotalsInv`: between `RefreshRead` and `RefreshWrite` a handler's `verdict` follows from its `seen`, which holds only posted rows of its invoice; a stale refresh may understate a total, never overstate it |
| `ReceiptOnce`, `AcknowledgedRecorded` | `ReceiptAtMostOnce`, `AcknowledgedIsRecorded` | `ReceiptInv`: at most one handler is past the insert of a reference, its row is in the table, and only it can send the receipt |
| `ImplementsLedger` | `LedgerImplemented` | `CreatePayment` maps to the ledger's `Post`, `RefreshWrite` to `Restate`, all else to a stutter |
| `SerialTotalsMatch` | `QuiescentTotalsMatch` | `SerialInv`: an invoice whose total is behind has a refresh under way. For one request at a time; `fees_overlap` shows two break it |
| `PaidStaysPaid` | `SettledStaysSettled` | `SettledInv`: an amount that fitted the balance still fits when it is posted, and a total does not fall when rows are added. For one request at a time |
| `InvoiceGenerationProofs!InvoiceTypes`, `AnswersAreHonest`, `NobodyIsRebilled` | `TypeOK`, `ReportHonest`, `NeverRebilled` | `GenerationInv`: what a request was asked for is split into what its report has, the student in hand and those not yet reached |
| `NumbersHaveNoHoles`, `CounterStops` | `NumbersConsecutive` | the same: the numbers are 1 to k, and one about to be inserted is among them or the next. For `CounterStops`: in the order of texts 10000 comes before 9999, so once k is `LastPadded` + 1 the number after the latest is taken, and no step issues that school an invoice |
| `LibraryLoansProofs!LibraryTypes`, `NoCopyIsLost`, `ReturnsAreFinal` | `TypeOK`, `CopiesNotLost`, `ReturnIsFinal` | `LibraryInv`: what is left of a counter after everybody in the act of lending is above −Procs (`Shelf`); an edit with no other request beside it writes back what accounts for every copy |
| `RollCallProofs!AbsencesAreAlerted` | `AbsenceAlerted` | `ServerInv`: an absence that a request has *read* is covered too, so that request may leave the alert to the other; each message is charged to an attempt of a job or a death |
| `OfflineUsesServer` | | `OfflineSpec => ServerSpec`: network, page and queue only ever use the server as `RollCallServer` lets them, so what is proved of it holds there |
| `OfflineAbsencesAreAlerted` | `AbsenceAlerted` | from the two above: lost, repeated and late uploads lose no alert |
| `OfflineTypes`, `NoSaveIsLost` | `OfflineTypeOK`, `LatestKept` | `OfflineInv`: each call is served once, no tab waits for two posts, a tab that may still queue waits for nothing; and it says who has what was saved last; absences alerted plus those about to be are within the saves that marked them |
| `OfficeProofs!AlertsStayBounded` | `AlertsBounded` | `BusInv`, by counting |
| `RemindersStayBounded` | `RemindersBounded` | `RemindersInv`: without a note each text has somebody who will write the note, or died; with one only those who looked before still send |
| `AnnouncementsSentOnce` | `SentOnce` | `NoticesInv`: what is unstamped may be sent once more, or its stamp is on its way |
| `SchoolLifeProofs!ExeatTypes`, `ExeatsImplementLifeCycle` | `ExeatsTypeOK`, `LifeCycleImplemented` | `LifeInv`: an exeat *has been* in the status that the request asked for, and with requests in turn still is |
| `DecisionsAreTold` | `DecisionsTold` | `ToldInv`: an audit row or text that is missing is owed by a handler or lost to a death; with requests in turn the rows join end to start |
| `BoardersFitTheirRooms` | `StaysFitTheirRooms` | `BedsInv`: holders and claimants of a bed counted together; an assignment, a resize or a deletion found what still holds |
| `LeaveAgreesWithPay` | `LeaveAndPayAgree` | `LeaveInv`: decisions made and on their way; payslips reported are charged to pairs of a person and a payroll that may |
| `MarksStayStored` | `MarksStored` | `MarksInv`: a save carries what the page showed when it was taken up, and one row is in one save unless it is unsure |
| `LockedCardsStand` | `CardsStandLocked` | `CardsInv`: what a generation has read of the sheet, and who found which card unlocked |
| `TimetableStaysKept` | `TimetableKept` | `SlotsInv`: a swap knows both lessons; a draft has created exactly the lessons behind it whose hour had no row and whose insert did not fail |
| `TimetableTypes` | | with `SlotsTyped`: no hour of a section has two rows, deleted ones counted; a draft creates only where no row is |
| `OfficeProofs!TemplateWordingIsKept` | `WordingKept` | `TemplatesInv`: what an edit read is something the template said |
| `RewardsMatch` | `RewardsMatchTiers` | `ReferralsInv`: what a move has counted still stands when it settles |
| `RefundsStayBounded` | `RefundsBounded` | `RefundsInv`: money refunded and money about to be, counted in naira |
| `RevenueFiguresAgree` | `SubscriptionsAgree` | `SubscriptionsInv`: the last revision says what the row says |
| `DiscountsStayAccountedFor` | `DiscountsAccountedFor` | `RegistrationInv`: uses and validated registrations within the limit and `Width`; the reduced price a registration computed is the code's |
| `RunsAreAccountedFor` | `RunsAccountedFor` | `ReportsInv`: a RUNNING row has its request or a death; rows are what ended requests owe plus what those in progress have run so far |
| `ServicesProofs!ServicesTypes` | `ServicesTypeOK` | the type theorems of the fifteen services (`BedTypes`, `ExeatTypes`, `MarksTypes` and so on), each carried over by a lemma such as `BedsServed`: as long as beds are served, the composition's steps are steps of `BedsSpec`, and what is served does not change |
| `ServicesKeepPromises` | | the same lemmas with the safety theorem of each service (`ServedPromise`) |

`HandlersProofs` has what these share: what each way to move a request on does to the others, and
how a group of requests grows. Facts about data are proved next to their use. Sums
(`MapThenSumSet`) are unfolded to the function of subsets they are computed by; that it exists, that
the order of adding does not matter and that a sum grows with its rows is shown of a *smallest* finite
set that would be an exception (`Smallest`). The greatest number in the order of texts is found alike.

### Assumptions

The theorems rest on the named assumptions of the modules, which TLC evaluates in every run:
amounts and bounds are naturals, values that stand for "none" are outside their sets, and what
the code holds in memory or in one table is finite: `Procs` (which is not empty), `Staff`, `Pupils`, `Cells`,
`Notices`, the awards of a student. `EarlierAssumption` says of the invoices of former terms that
they were numbered as this program does: a school alone with its prefix starts from
1..k with k at most 10000; `Base` is at least 2 and `LastPadded` at least `Base`. `GradeAssumptions`
says that `NoGrade` is neither a total nor a row. `SerialTotalsMatch` and `PaidStaysPaid` assume in
addition that there is one process: they are false otherwise.

### Only model-checked

* The liveness properties `PaidChargeIsRecorded`, `EveryoneIsInvoiced`, `GuardianTold`,
  `QueueDrains` and `DueIsSent`: they rest on fairness, thus on ENABLED, which the prover does not
  handle.

## Not modelled

Wording, layout, PDF and spreadsheet exports, validation of request bodies, and who may
call a route: the models take the requests that passed those checks. Rounding of decimal
amounts. The SMS and e-mail gateways beyond the call. Notices about a new invoice, which
nothing reads back. The library's CSV import, which is a sequence of adds. What the
consecutive-absence and term-warning jobs compute. Roll calls always cover the section's
students, as the page submits them. Of the services:
dormitories inside hostels, distances and positions of buses, letter grades and remarks, whom an
announcement reaches, the conflict warnings of the timetable, allowances and deductions of a
payslip, trials extended, revenue of other days than today, where a report's file is stored.

Most of the repository's lines are pages, forms, seeds and read-only reports: they keep no
state between requests that another actor could change, and nothing in them is left to
check but layout and arithmetic.

## Plan

The modules of the first plan are written and the safety properties of their runs proved. What is left, in
this order:

1. Action properties that no run states yet: that an exeat's trail is only appended to, and that
   a refund's row never leaves a final status.
2. Shorter proofs: the frame lemmas of `SchoolLifeProofs` and `OfficeProofs` repeat one another
   from service to service, where one lemma on the tables that a step leaves alone would do.
3. The parts marked `partly` in `PROJECT.json`, of which upgrading a subscription with a promo
   code comes first: it redeems codes beside a registration.
