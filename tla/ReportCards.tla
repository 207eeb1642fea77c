---------------------------- MODULE ReportCards ----------------------------
(***************************************************************************)
(* The report cards of a section, made from its mark sheet.                *)
(*                                                                         *)
(* A card keeps the total and the position its pupil had when it was made, *)
(* and a comment which staff or a language model wrote. Generation goes    *)
(* through the pupils one by one: it reads the marks, then everybody's,    *)
(* then the card, asks the model, which takes seconds, and writes the card *)
(* without another look. A locked card is left out; only an edit unlocks   *)
(* it.                                                                     *)
(***************************************************************************)
EXTENDS MarkSheets

CONSTANTS
    Active,  \* the pupils whose cards are made; all are ranked
    NoCard,  \* "no row in the table of report cards"
    Edits    \* bound: the edits asked for, [remark, lock]

\* "keep" is a field that the edit does not name.
EditRequests == [remark : {"keep", "none", "staff"}, lock : {"keep", "lock", "unlock"}]
                  \ {[remark |-> "keep", lock |-> "keep"]}

ASSUME CardAssumptions == Active \subseteq Pupils /\ Edits \subseteq EditRequests

VARIABLES
    cards,   \* [Active -> NoCard or [total, position, remark, locked]]
    sealed,  \* history: the card as it was locked, NoCard once unlocked
    raced,   \* history: pupils whose card was locked while a request that had
             \* found it unlocked was about to write it
    fresh    \* history: pupils whose card was made since marks last changed

cardVars == <<cards, sealed, raced, fresh>>

Mark(s) == IF s \in Graded THEN sheet[s].total ELSE NoGrade

Writing(s) == {q \in Procs : pc[q] \in {"card_write", "edit_write"} /\ job[q].pupil = s}

CardsInit ==
    /\ cards = [s \in Active |-> NoCard]
    /\ sealed = [s \in Active |-> NoCard]
    /\ raced = {} /\ fresh = {}

----------------------------------------------------------------------------
(* POST /api/grades/report-cards/generate *)

Generate(p, ai) ==
    /\ \E s \in Active :
         Begin(p, [op |-> "cards", left |-> Active, ai |-> ai, pupil |-> s,
                   total |-> 0, position |-> 0, remark |-> "none"], "card_marks")
    /\ UNCHANGED cardVars

NextCard(p) ==
    LET left == job[p].left \ {job[p].pupil} IN
    /\ IF left = {}
       THEN job' = [job EXCEPT ![p] = NoJob]
       ELSE \E s \in left : job' = [job EXCEPT ![p].left = left, ![p].pupil = s]
    /\ pc' = [pc EXCEPT ![p] = IF left = {} THEN "idle" ELSE "card_marks"]
    /\ UNCHANGED overlapped

CardMarks(p) ==
    /\ pc[p] = "card_marks"
    /\ Carry(p, [job[p] EXCEPT !.total = IF job[p].pupil \in Graded THEN sheet[job[p].pupil].total ELSE 0],
             "card_rank")
    /\ UNCHANGED cardVars

\* Faulty variant of CardRank: among the pupils whose cards are made.
CardRankActive(p) ==
    /\ pc[p] = "card_rank"
    /\ LET s == job[p].pupil
           ranked == Active \cap Graded IN
       Carry(p, [job[p] EXCEPT !.position = IF s \in Graded
                    THEN Position(s, ranked, [t \in ranked |-> sheet[t].total]) ELSE 0], "card_read")
    /\ UNCHANGED cardVars

\* Over the averages of the section; nobody without marks has a position.
CardRank(p) ==
    /\ pc[p] = "card_rank"
    /\ LET s == job[p].pupil IN
       Carry(p, [job[p] EXCEPT !.position = IF s \in Graded
                    THEN Position(s, Graded, [t \in Graded |-> sheet[t].total]) ELSE 0], "card_read")
    /\ UNCHANGED cardVars

Locked(s) == cards[s] # NoCard /\ cards[s].locked

\* Faulty variant of CardRead: the lock is not looked at.
CardReadAll(p) ==
    /\ pc[p] = "card_read"
    /\ LET s == job[p].pupil IN
       Carry(p, [job[p] EXCEPT !.remark = IF cards[s] = NoCard THEN "none" ELSE cards[s].remark],
             "card_write")
    /\ UNCHANGED cardVars

\* "Skip locked report cards - admin must unlock first."
CardRead(p) ==
    /\ pc[p] = "card_read"
    /\ LET s == job[p].pupil IN
       IF Locked(s) THEN NextCard(p) /\ UNCHANGED faults
       ELSE Carry(p, [job[p] EXCEPT !.remark = IF cards[s] = NoCard THEN "none" ELSE cards[s].remark],
                  "card_write")
    /\ UNCHANGED cardVars

\* The remark that was read, or the model's if there was none and it answers.
CardWrite(p) ==
    /\ pc[p] = "card_write"
    /\ \E remark \in {job[p].remark} \cup (IF job[p].ai /\ job[p].remark = "none" THEN {"ai"} ELSE {}) :
         cards' = [cards EXCEPT ![job[p].pupil] =
                     [total |-> job[p].total, position |-> job[p].position, remark |-> remark,
                      locked |-> Locked(job[p].pupil)]]
    /\ fresh' = fresh \cup {job[p].pupil}
    /\ NextCard(p)
    /\ UNCHANGED <<faults, sealed, raced>>

\* What throws for one pupil is reported, and the next one follows.
CardFails(p) ==
    /\ pc[p] \in {"card_marks", "card_rank", "card_read", "card_write"}
    /\ faults < MaxFaults
    /\ faults' = faults + 1
    /\ NextCard(p)
    /\ UNCHANGED cardVars

----------------------------------------------------------------------------
(* PATCH /api/grades/report-cards/edit/[id] *)

EditCard(p, s, e) ==
    /\ cards[s] # NoCard
    /\ Locked(s) => e.lock = "unlock"
    /\ Begin(p, [op |-> "edit", pupil |-> s, edit |-> e], "edit_write")
    /\ UNCHANGED cardVars

EditCardWrite(p) ==
    /\ pc[p] = "edit_write"
    /\ LET s == job[p].pupil
           e == job[p].edit
           card == [cards[s] EXCEPT !.remark = IF e.remark = "keep" THEN @ ELSE e.remark,
                                    !.locked = IF e.lock = "keep" THEN @ ELSE e.lock = "lock"] IN
       /\ cards' = [cards EXCEPT ![s] = card]
       /\ sealed' = [sealed EXCEPT ![s] = CASE e.lock = "lock" -> card
                                            [] e.lock = "unlock" -> NoCard
                                            [] OTHER -> @]
       /\ raced' = IF e.lock = "lock" /\ Writing(s) # {p} THEN raced \cup {s} ELSE raced
    /\ Finish(p)
    /\ UNCHANGED fresh

----------------------------------------------------------------------------
CardSteps ==
    \E p \in Procs :
      \/ \E ai \in BOOLEAN : Generate(p, ai)
      \/ CardMarks(p) \/ CardRank(p) \/ CardRead(p) \/ CardWrite(p) \/ CardFails(p)
      \/ \E s \in Active, e \in Edits : EditCard(p, s, e)
      \/ EditCardWrite(p)

CardsNext ==
    \/ CardSteps /\ UNCHANGED markVars
    \/ /\ MarksNext
       /\ fresh' = IF \A s \in Pupils : Mark(s)' = Mark(s) THEN fresh ELSE {}
       /\ UNCHANGED <<cards, sealed, raced>>

CardsSpec ==
    HandlersInit /\ MarksInit /\ CardsInit /\ [][CardsNext]_<<handlerVars, markVars, cardVars>>

----------------------------------------------------------------------------
(* Properties *)

CardStages == {"card_marks", "card_rank", "card_read", "card_write", "edit_write"}

CardJobs ==
    [op : {"cards"}, left : SUBSET Active, ai : BOOLEAN, pupil : Active, total : Nat,
     position : Positions, remark : {"none", "ai", "staff"}]
      \cup [op : {"edit"}, pupil : Active, edit : EditRequests]

Cards == [total : Nat, position : Positions, remark : {"none", "ai", "staff"}, locked : BOOLEAN]

CardTablesOK ==
    /\ cards \in [Active -> Cards \cup {NoCard}]
    /\ sealed \in [Active -> Cards \cup {NoCard}]
    /\ raced \subseteq Active /\ fresh \subseteq Active

\* The types of the variables.
CardsTypeOK ==
    /\ HandlersTypeOK(MarkStages \cup CardStages, MarkJobs \cup CardJobs)
    /\ MarkTablesOK /\ CardTablesOK

\* "Locking freezes comments - subsequent bulk-generate runs skip locked rows":
\* a card stays what it was when it was locked, whatever runs beside, unless
\* some request had found it unlocked and was about to write it. With requests
\* in turn a card that is not locked carries the total and the position of the
\* mark sheet from the run that made it until marks change.
CardsStandLocked ==
    /\ \A s \in Active \ raced : sealed[s] # NoCard => cards[s] = sealed[s]
    /\ ~overlapped => \A s \in fresh \cap Graded : ~Locked(s) =>
         /\ cards[s].total = sheet[s].total
         /\ cards[s].position = Position(s, Graded, [t \in Graded |-> sheet[t].total])
=============================================================================
