-------------------------- MODULE MessageTemplates --------------------------
(***************************************************************************)
(* A message template of the platform: edited, and rolled back to what an  *)
(* earlier version said.                                                   *)
(*                                                                         *)
(* Either way saveTemplate reads the template, then the number of its last *)
(* version, and then writes the wording it read as a new version and the   *)
(* new wording over the template in one transaction. A template and its    *)
(* number are unique together; templates share nothing.                    *)
(***************************************************************************)
EXTENDS Handlers

CONSTANTS
    Subjects, Bodies,
    KeepSubject,    \* an edit that names no subject
    FirstWording,   \* what the template says at first
    MaxVersions     \* bound: versions ever kept

Wordings == [subject : Subjects, body : Bodies]

ASSUME TemplateAssumptions ==
    /\ FirstWording \in Wordings
    /\ MaxVersions \in Nat

VARIABLES
    wording,    \* what the template says
    versions,   \* the wordings kept, by version number
    spoken      \* history: all that it has said, in order

templateVars == <<wording, versions, spoken>>

TemplatesInit ==
    /\ wording = FirstWording
    /\ versions = <<>>
    /\ spoken = <<FirstWording>>

Saving(subject, body) ==
    [op |-> "save", subject |-> subject, body |-> body, old |-> FirstWording, version |-> 0]

----------------------------------------------------------------------------
\* PUT /api/config/email-templates/[id], /sms-templates/[id]
EditTemplate(p, subject, body) ==
    /\ Begin(p, Saving(subject, body), "tpl_read")
    /\ UNCHANGED templateVars

\* POST /api/config/templates/[id]/rollback
Rollback(p, n) ==
    /\ Begin(p, Saving(versions[n].subject, versions[n].body), "tpl_read")
    /\ UNCHANGED templateVars

ReadWording(p) ==
    /\ pc[p] = "tpl_read"
    /\ Carry(p, [job[p] EXCEPT !.old = wording], "tpl_number")
    /\ UNCHANGED templateVars

NumberVersion(p) ==
    /\ pc[p] = "tpl_number"
    /\ Carry(p, [job[p] EXCEPT !.version = Len(versions) + 1], "tpl_write")
    /\ UNCHANGED templateVars

\* Faulty variant of NewWording: an edit that names no subject writes none.
NewWordingAsGiven(p) == [subject |-> job[p].subject, body |-> job[p].body]

\* An edit that names no subject keeps the one that was read.
NewWording(p) ==
    [subject |-> IF job[p].subject = KeepSubject THEN job[p].old.subject ELSE job[p].subject,
     body |-> job[p].body]

\* Faulty variant of Kept: the wording that comes in is kept.
KeptIncoming(p) == NewWording(p)

\* "The version row records the OUTGOING wording, not the incoming one."
Kept(p) == job[p].old

\* The transaction fails, with nothing written, if the number is taken.
WriteWording(p) ==
    /\ pc[p] = "tpl_write"
    /\ IF job[p].version = Len(versions) + 1
       THEN /\ Len(versions) < MaxVersions
            /\ versions' = Append(versions, Kept(p))
            /\ wording' = NewWording(p)
            /\ spoken' = Append(spoken, NewWording(p))
       ELSE UNCHANGED templateVars
    /\ Finish(p)

TemplatesNext ==
    \E p \in Procs :
         \/ \E subject \in Subjects \cup {KeepSubject}, body \in Bodies : EditTemplate(p, subject, body)
         \/ \E n \in DOMAIN versions : Rollback(p, n)
         \/ ReadWording(p) \/ NumberVersion(p) \/ WriteWording(p)
         \/ Dies(p) /\ UNCHANGED templateVars

TemplatesSpec == HandlersInit /\ TemplatesInit /\ [][TemplatesNext]_<<handlerVars, templateVars>>

----------------------------------------------------------------------------
(* Properties *)

TemplateStages == {"tpl_read", "tpl_number", "tpl_write"}

TemplateJobs == [op : {"save"}, subject : Subjects \cup {KeepSubject}, body : Bodies,
                 old : Wordings, version : Nat]

TemplateTablesOK ==
    /\ wording \in Wordings
    /\ versions \in Seq(Wordings)
    /\ spoken \in Seq(Wordings)

\* The types of the variables.
TemplatesTypeOK == HandlersTypeOK(TemplateStages, TemplateJobs) /\ TemplateTablesOK

\* With edits in turn "the history stays a complete record": the versions and
\* the template are all that it ever said, in order. Overlapping, an edit that
\* was read past may be missing from the record, but there are as many versions
\* as there were edits, and each is something the template said before.
WordingKept ==
    /\ Len(spoken) = Len(versions) + 1
    /\ wording = spoken[Len(spoken)]
    /\ \A n \in DOMAIN versions : \E m \in 1..n : versions[n] = spoken[m]
    /\ ~overlapped => \A n \in DOMAIN versions : versions[n] = spoken[n]
=============================================================================
