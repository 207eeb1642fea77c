------------------------- MODULE SchoolRegistration -------------------------
(***************************************************************************)
(* Schools register themselves, perhaps with a promo code; the platform's  *)
(* staff make such codes and take them back.                               *)
(*                                                                         *)
(* A code is validated long before it is used: the school, its             *)
(* subscription at the reduced price and its administrator are created in  *)
(* one transaction, and the redemption with the count of uses in another   *)
(* one after it. The school keeps its price if the second one fails.       *)
(***************************************************************************)
EXTENDS Handlers

CONSTANTS
    Applicants,  \* administrators' e-mail addresses, one school each
    NameOf,      \* the slug of the name each wants
    Price,       \* of the plan, in whole naira
    Promos,      \* promo codes, one for each row
    NoPromo,
    PercentOf,   \* what each takes off
    MaxUsesOf    \* its usage limit

ASSUME RegistrationAssumptions ==
    /\ Price \in Nat
    /\ NoPromo \notin Promos
    /\ PercentOf \in [Promos -> 0..100]
    /\ MaxUsesOf \in [Promos -> Nat \ {0}]

VARIABLES
    schools,      \* [Applicants -> [open, slug, promo, amount]]
    promos,       \* [Promos -> [state, used]]
    redemptions   \* rows [promo, applicant, off]

registrationVars == <<schools, promos, redemptions>>

\* A slug is a name and a number, 0 when there is none.
SlugTaken(slug) == \E a \in Applicants : schools[a].open /\ schools[a].slug = slug
RedemptionsOf(c) == {r \in redemptions : r.promo = c}
Exists(c) == promos[c].state \in {"active", "off"}

\* The percentage of the price, rounded, and never more than the price.
applyDiscount(amount, percent) ==
    LET off == (2 * amount * percent + 100) \div 200 IN
    IF off > amount THEN amount ELSE off

RegistrationInit ==
    /\ schools = [a \in Applicants |->
                    [open |-> FALSE, slug |-> <<NameOf[a], 0>>, promo |-> NoPromo, amount |-> 0]]
    /\ promos = [c \in Promos |-> [state |-> "absent", used |-> 0]]
    /\ redemptions = {}

----------------------------------------------------------------------------
(* POST /api/config/promo-codes, DELETE /api/config/promo-codes/[id] *)

\* A code made again after it was deleted is another row: another element.
MakePromo(p, c) ==
    /\ promos[c].state = "absent"
    /\ Begin(p, [op |-> "make", promo |-> c], "promo_create")
    /\ UNCHANGED registrationVars

\* A code is unique: of two that find it free, one throws.
CreatePromo(p) ==
    /\ pc[p] = "promo_create"
    /\ promos' = IF promos[job[p].promo].state = "absent"
                 THEN [promos EXCEPT ![job[p].promo] = [state |-> "active", used |-> 0]]
                 ELSE promos
    /\ Finish(p)
    /\ UNCHANGED <<schools, redemptions>>

\* Faulty variant of RemoveRead: the count is taken for the limit.
RemoveReadUnused(p, c) ==
    /\ Exists(c)
    /\ Begin(p, [op |-> "remove", promo |-> c, redeemed |-> promos[c].used >= MaxUsesOf[c] + 1],
             "promo_remove")
    /\ UNCHANGED registrationVars

\* The code and the number of its redemptions.
RemoveRead(p, c) ==
    /\ Exists(c)
    /\ Begin(p, [op |-> "remove", promo |-> c, redeemed |-> RedemptionsOf(c) # {}], "promo_remove")
    /\ UNCHANGED registrationVars

\* A redeemed code is switched off; one that nobody used is deleted, and the
\* redemptions it may have by now go with it.
RemoveWrite(p) ==
    /\ pc[p] = "promo_remove"
    /\ LET c == job[p].promo IN
       \/ /\ ~Exists(c)
          /\ UNCHANGED <<promos, redemptions>>
       \/ /\ Exists(c) /\ job[p].redeemed
          /\ promos' = [promos EXCEPT ![c].state = "off"]
          /\ UNCHANGED redemptions
       \/ /\ Exists(c) /\ ~job[p].redeemed
          /\ promos' = [promos EXCEPT ![c] = [state |-> "gone", used |-> 0]]
          /\ redemptions' = redemptions \ RedemptionsOf(c)
    /\ Finish(p)
    /\ UNCHANGED schools

PromoExpires(c) ==
    /\ promos[c].state = "active"
    /\ promos' = [promos EXCEPT ![c].state = "off"]
    /\ UNCHANGED <<schools, redemptions, handlerVars>>

----------------------------------------------------------------------------
(* POST /api/auth/register-school *)

\* 409 if the address has an account.
RegisterRead(p, a, c) ==
    /\ ~schools[a].open
    /\ Begin(p, [op |-> "register", applicant |-> a, promo |-> c, slug |-> <<NameOf[a], 0>>, off |-> 0],
             "reg_slug")
    /\ UNCHANGED registrationVars

\* The next number until the slug is free.
FindSlug(p) ==
    /\ pc[p] = "reg_slug"
    /\ LET slug == job[p].slug IN
       IF SlugTaken(slug)
       THEN Carry(p, [job[p] EXCEPT !.slug = <<slug[1], slug[2] + 1>>], "reg_slug")
       ELSE GoTo(p, "reg_promo")
    /\ UNCHANGED registrationVars

\* Faulty variant of Valid: the limit may be reached once more.
ValidOnceMore(c) == promos[c].state = "active" /\ promos[c].used <= MaxUsesOf[c]

\* What validatePromo asks of a code; the school is not there yet.
Valid(c) == promos[c].state = "active" /\ promos[c].used < MaxUsesOf[c]

\* 422 if the code is not valid.
CheckPromo(p) ==
    /\ pc[p] = "reg_promo"
    /\ LET c == job[p].promo IN
       \/ c = NoPromo /\ GoTo(p, "reg_create")
       \/ /\ c # NoPromo
          /\ IF Valid(c)
             THEN Carry(p, [job[p] EXCEPT !.off = applyDiscount(Price, PercentOf[c])], "reg_create")
             ELSE Finish(p)
    /\ UNCHANGED registrationVars

\* One transaction: school, subscription, administrator and the rest. The
\* address and the slug are unique.
CreateSchool(p) ==
    /\ pc[p] = "reg_create"
    /\ LET a == job[p].applicant
           c == job[p].promo IN
       IF schools[a].open \/ SlugTaken(job[p].slug)
       THEN /\ Finish(p)
            /\ UNCHANGED schools
       ELSE /\ schools' = [schools EXCEPT ![a] = [open |-> TRUE, slug |-> job[p].slug, promo |-> c,
                                                  amount |-> Price - job[p].off]]
            /\ IF c = NoPromo THEN Finish(p) ELSE GoTo(p, "reg_redeem")
    /\ UNCHANGED <<promos, redemptions>>

\* One transaction: the row and the count. It fails if the code is gone; the
\* failure is logged and the registration stands.
Redeem(p) ==
    /\ pc[p] = "reg_redeem"
    /\ LET c == job[p].promo IN
       IF Exists(c)
       THEN /\ redemptions' = redemptions \cup
                 {[promo |-> c, applicant |-> job[p].applicant, off |-> job[p].off]}
            /\ promos' = [promos EXCEPT ![c].used = @ + 1]
       ELSE UNCHANGED <<promos, redemptions>>
    /\ Finish(p)
    /\ UNCHANGED schools

----------------------------------------------------------------------------
RegistrationNext ==
    \/ \E p \in Procs, c \in Promos : MakePromo(p, c) \/ RemoveRead(p, c)
    \/ \E p \in Procs, a \in Applicants, c \in Promos \cup {NoPromo} : RegisterRead(p, a, c)
    \/ \E p \in Procs :
         \/ CreatePromo(p) \/ RemoveWrite(p)
         \/ FindSlug(p) \/ CheckPromo(p) \/ CreateSchool(p) \/ Redeem(p)
         \/ Dies(p) /\ UNCHANGED registrationVars
    \/ \E c \in Promos : PromoExpires(c)

RegistrationSpec ==
    HandlersInit /\ RegistrationInit /\ [][RegistrationNext]_<<handlerVars, registrationVars>>

----------------------------------------------------------------------------
(* Properties *)

Slugs == {NameOf[a] : a \in Applicants} \X Nat

RegistrationStages ==
    {"promo_create", "promo_remove", "reg_slug", "reg_promo", "reg_create", "reg_redeem"}

RegistrationJobs ==
    [op : {"make"}, promo : Promos]
      \cup [op : {"remove"}, promo : Promos, redeemed : BOOLEAN]
      \cup [op : {"register"}, applicant : Applicants, promo : Promos \cup {NoPromo},
            slug : Slugs, off : 0..Price]

RegistrationTablesOK ==
    /\ schools \in [Applicants -> [open : BOOLEAN, slug : Slugs, promo : Promos \cup {NoPromo},
                                   amount : 0..Price]]
    /\ promos \in [Promos -> [state : {"absent", "active", "off", "gone"}, used : Nat]]
    /\ redemptions \subseteq [promo : Promos, applicant : Applicants, off : 0..Price]

\* The types of the variables: no price falls below zero.
RegistrationTypeOK == HandlersTypeOK(RegistrationStages, RegistrationJobs) /\ RegistrationTablesOK

\* The count of uses is the number of redemptions, and exceeds the limit by no
\* more than the registrations that validated the code side by side.
UsesBounded ==
    \A c \in Promos : Exists(c) =>
        /\ promos[c].used = Cardinality(RedemptionsOf(c))
        /\ promos[c].used <= MaxUsesOf[c] - 1 + (IF overlapped THEN Cardinality(Procs) ELSE 1)

\* Uses are bounded, and every discount is accounted for. Two schools never
\* share a slug. A redemption is of a school that has the code and pays the
\* price less what the row says came off. With requests in turn and no failure
\* every reduced price has its redemption, and the code is still there: "a code
\* that has been redeemed is deactivated, never deleted".
DiscountsAccountedFor ==
    /\ UsesBounded
    /\ \A a, b \in Applicants :
         schools[a].open /\ schools[b].open /\ schools[a].slug = schools[b].slug => a = b
    /\ \A r \in redemptions :
         /\ Exists(r.promo)
         /\ schools[r.applicant].promo = r.promo
         /\ schools[r.applicant].amount + r.off = Price
    /\ Quiescent /\ faults = 0 /\ ~overlapped => \A a \in Applicants :
         schools[a].promo # NoPromo =>
           \E r \in redemptions : r.applicant = a /\ r.promo = schools[a].promo
=============================================================================
