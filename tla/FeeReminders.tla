---------------------------- MODULE FeeReminders ----------------------------
(***************************************************************************)
(* The daily run that texts guardians about unpaid invoices, some days     *)
(* before the due date, on it and after it.                                *)
(*                                                                         *)
(* For each offset the run reads the invoices due that many days ago, and  *)
(* for each of them asks for an earlier notification with that invoice and *)
(* offset, sends the text and only then writes the notification. Nothing   *)
(* else keeps a second run, or a run started again, from sending it again. *)
(***************************************************************************)
EXTENDS Handlers, SequencesExt

CONSTANTS
    Bills,      \* the unpaid invoices
    NoBill,
    DueDay,     \* the day each is due
    Reachable,  \* those whose primary guardian has a phone
    Offsets,    \* days after the due date, in the order a run takes them
    PerRun,     \* invoices read for an offset, at most (500 in the code)
    MaxDay      \* bound: the calendar stops there

ASSUME ReminderAssumptions ==
    /\ NoBill \notin Bills
    /\ DueDay \in [Bills -> Nat]
    /\ Reachable \subseteq Bills
    /\ Offsets \in Seq(Int)
    /\ PerRun \in Nat /\ MaxDay \in Nat

VARIABLES
    owing,   \* the invoices with a balance, PENDING, PARTIAL or OVERDUE
    day,
    notes,   \* notifications "Fee reminder", [bill, offset]
    texts    \* texts sent, for each invoice and offset

reminderVars == <<owing, day, notes, texts>>

OffsetSet == ToSet(Offsets)

\* The invoices an offset is about today.
Targets(o) == {b \in owing : DueDay[b] + o = day}

RemindersInit ==
    /\ owing = Bills
    /\ day = 0
    /\ notes = {}
    /\ texts = [x \in Bills \X OffsetSet |-> 0]

----------------------------------------------------------------------------
(* POST or GET /api/cron/finance/run-reminders *)

\* The job: the offsets still to do, the first of them in hand, the invoices
\* read for it that are left, and the one about to be texted.
StartReminders(p) ==
    /\ Begin(p, [op |-> "remind", offsets |-> Offsets, left |-> {}, bill |-> NoBill], "rem_select")
    /\ UNCHANGED reminderVars

Offset(p) == Head(job[p].offsets)

\* The invoices of one offset, at most PerRun of them in no stated order. The
\* day is looked up again for every offset.
SelectBills(p) ==
    /\ pc[p] = "rem_select"
    /\ \/ job[p].offsets = <<>> /\ Finish(p)
       \/ /\ job[p].offsets # <<>>
          /\ \E read \in SUBSET Targets(Offset(p)) :
               /\ Cardinality(read) <= PerRun
               /\ Cardinality(read) = PerRun \/ read = Targets(Offset(p))
               /\ Carry(p, [job[p] EXCEPT !.left = read], "rem_dedupe")
    /\ UNCHANGED reminderVars

\* The invoice b is done with.
PassOver(p, b) ==
    Carry(p, [job[p] EXCEPT !.left = @ \ {b}, !.bill = NoBill], "rem_dedupe")

\* Faulty variant of Noted: notifications are looked up for tomorrow's offset.
NotedElsewhere(b, o) == [bill |-> b, offset |-> o + 1] \in notes

\* There is a notification with this invoice and this offset.
Noted(b, o) == [bill |-> b, offset |-> o] \in notes

\* The next invoice read is skipped without a phone, or if it was noted; its
\* balance is the one that was read.
Dedupe(p) ==
    /\ pc[p] = "rem_dedupe"
    /\ \/ /\ job[p].left = {}
          /\ Carry(p, [job[p] EXCEPT !.offsets = Tail(@)], "rem_select")
       \/ \E b \in job[p].left :
            IF b \in Reachable /\ ~Noted(b, Offset(p))
            THEN Carry(p, [job[p] EXCEPT !.bill = b], "rem_send")
            ELSE PassOver(p, b)
    /\ UNCHANGED reminderVars

\* The gateway takes the text, or says it did not and the invoice is skipped.
SendReminder(p) ==
    /\ pc[p] = "rem_send"
    /\ \/ /\ texts' = [texts EXCEPT ![<<job[p].bill, Offset(p)>>] = @ + 1]
          /\ GoTo(p, "rem_note")
       \/ /\ PassOver(p, job[p].bill)
          /\ UNCHANGED texts
    /\ UNCHANGED <<owing, day, notes>>

\* The notification is written; an insert that throws ends the run (Dies).
NoteReminder(p) ==
    /\ pc[p] = "rem_note"
    /\ notes' = notes \cup {[bill |-> job[p].bill, offset |-> Offset(p)]}
    /\ PassOver(p, job[p].bill)
    /\ UNCHANGED <<owing, day, texts>>

----------------------------------------------------------------------------
\* An invoice is paid in full.
Settle(b) ==
    /\ b \in owing
    /\ owing' = owing \ {b}
    /\ UNCHANGED <<day, notes, texts, handlerVars>>

NextDay ==
    /\ day < MaxDay
    /\ day' = day + 1
    /\ UNCHANGED <<owing, notes, texts, handlerVars>>

RemindersNext ==
    \/ \E p \in Procs :
         \/ StartReminders(p) \/ SelectBills(p) \/ Dedupe(p)
         \/ SendReminder(p) \/ NoteReminder(p)
         \/ Dies(p) /\ UNCHANGED reminderVars
    \/ \E b \in Bills : Settle(b)
    \/ NextDay

RemindersSpec ==
    HandlersInit /\ RemindersInit /\ [][RemindersNext]_<<handlerVars, reminderVars>>

----------------------------------------------------------------------------
(* Properties *)

ReminderStages == {"rem_select", "rem_dedupe", "rem_send", "rem_note"}

ReminderJobs ==
    [op : {"remind"}, offsets : Seq(OffsetSet), left : SUBSET Bills, bill : Bills \cup {NoBill}]

ReminderTablesOK ==
    /\ owing \subseteq Bills
    /\ day \in Nat
    /\ notes \subseteq [bill : Bills, offset : OffsetSet]
    /\ texts \in [Bills \X OffsetSet -> Nat]

\* The types of the variables.
RemindersTypeOK == HandlersTypeOK(ReminderStages, ReminderJobs) /\ ReminderTablesOK

\* "Each scheduled offset fires once per invoice": a run that dies after a text
\* costs one more, and runs that overlap may each send it, but not again.
RemindersBounded ==
    \A b \in Bills, o \in OffsetSet :
        texts[<<b, o>>] <= faults + (IF overlapped THEN Cardinality(Procs) ELSE 1)
=============================================================================
