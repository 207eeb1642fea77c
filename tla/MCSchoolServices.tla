-------------------------- MODULE MCSchoolServices --------------------------
(* The school's other services, one at a time: each behaviour serves         *)
(* requests of the one that served names, on small instances of its tables.  *)
EXTENDS HostelBeds, Exeats, FeeReminders, Announcements, BusAlerts,
        SchoolRegistration, SubscriptionRefunds, Referrals, MessageTemplates,
        ReportCards, Timetables, StaffLeave, Subscriptions, ScheduledReports, TLC

VARIABLE served

Services == {"beds", "exeats", "reminders", "notices", "bus", "registration",
             "refunds", "referrals", "templates", "marks", "cards", "timetable", "leave",
             "subscriptions", "reports"}

serviceVars == <<served, handlerVars, bedVars, exeatVars, reminderVars, noticeVars, busVars,
                 registrationVars, refundVars, referralVars, templateVars, markVars,
                 cardVars, timetableVars, leaveVars, subscriptionVars, reportVars>>

\* The same price by the term and by the month.
termly == [plan |-> "GROWTH", amount |-> 6, cycle |-> "TERMLY"]
monthly == [termly EXCEPT !.cycle = "MONTHLY"]

\* Marks are typed from an empty sheet while none come from elsewhere; cards are
\* made from a full one while marks come from elsewhere and none are typed.
SheetsInit ==
    /\ MarksInit /\ CardsInit
    /\ \A s \in Pupils : Stored(s) = Blank
    /\ Graded = IF served = "cards" THEN Pupils ELSE {}
    /\ typed = IF served = "cards" THEN MaxTyped ELSE 0
    /\ elsewhere = IF served = "cards" THEN 0 ELSE MaxElsewhere

ServicesInit ==
    /\ served \in Services
    /\ HandlersInit
    /\ BedsInit /\ (served # "beds" => \A h \in Hostels : hostels[h].gender = "MIXED")
    /\ ExeatsInit /\ RemindersInit /\ NoticesInit /\ BusInit
    /\ RefundsInit /\ (served # "refunds" => \A c \in Charges : ~charges[c].live)
    /\ RegistrationInit /\ ReferralsInit /\ TemplatesInit
    /\ SheetsInit /\ TimetableInit /\ LeaveInit /\ ReportsInit
    /\ SubscriptionsInit /\ (served # "subscriptions" => \A s \in Subscribers : subs[s].offer = termly)

\* A step of the service that is served; the tables of the others stay.
Serve(service, step) ==
    /\ served = service
    /\ step
    /\ UNCHANGED served
    /\ service # "beds"         => UNCHANGED bedVars
    /\ service # "exeats"       => UNCHANGED exeatVars
    /\ service # "reminders"    => UNCHANGED reminderVars
    /\ service # "notices"      => UNCHANGED noticeVars
    /\ service # "bus"          => UNCHANGED busVars
    /\ service # "registration" => UNCHANGED registrationVars
    /\ service # "refunds"      => UNCHANGED refundVars
    /\ service # "referrals"    => UNCHANGED referralVars
    /\ service # "templates"    => UNCHANGED templateVars
    /\ service \notin {"marks", "cards"} => UNCHANGED markVars
    /\ service # "cards"        => UNCHANGED cardVars
    /\ service # "timetable"    => UNCHANGED timetableVars
    /\ service # "leave"        => UNCHANGED leaveVars
    /\ service # "subscriptions" => UNCHANGED subscriptionVars
    /\ service # "reports"      => UNCHANGED reportVars

ServicesNext ==
    \/ Serve("beds", BedsNext)
    \/ Serve("exeats", ExeatsNext)
    \/ Serve("reminders", RemindersNext)
    \/ Serve("notices", NoticesNext)
    \/ Serve("bus", BusNext)
    \/ Serve("registration", RegistrationNext)
    \/ Serve("refunds", RefundsNext)
    \/ Serve("referrals", ReferralsNext)
    \/ Serve("templates", TemplatesNext)
    \/ Serve("marks", MarksNext)
    \/ Serve("cards", CardsNext)
    \/ Serve("timetable", TimetableNext)
    \/ Serve("leave", LeaveNext)
    \/ Serve("subscriptions", SubscriptionsNext)
    \/ Serve("reports", ReportsNext)

ServicesSpec ==
    ServicesInit /\ [][ServicesNext]_serviceVars /\ NoticesFairness

\* The types of the tables and the requests of the service that is served.
ServicesTypeOK ==
    CASE served = "beds"         -> BedsTypeOK
      [] served = "exeats"       -> ExeatsTypeOK
      [] served = "reminders"    -> RemindersTypeOK
      [] served = "notices"      -> NoticesTypeOK
      [] served = "bus"          -> BusTypeOK
      [] served = "registration" -> RegistrationTypeOK
      [] served = "refunds"      -> RefundsTypeOK
      [] served = "referrals"    -> ReferralsTypeOK
      [] served = "templates"    -> TemplatesTypeOK
      [] served = "marks"        -> MarksTypeOK
      [] served = "cards"        -> CardsTypeOK
      [] served = "timetable"    -> TimetableTypeOK
      [] served = "leave"        -> LeaveTypeOK
      [] served = "subscriptions" -> SubscriptionsTypeOK
      [] served = "reports"      -> ReportsTypeOK

----------------------------------------------------------------------------
(* Values. *)

CONSTANTS ada, bayo, b1, b2, stop, h1, mon8, mon9, maths, english, eve, r_fees, r_schools

\* One hostel; a girl, and a student whose gender nobody entered.
MCHostelOf == [r \in Rooms |-> h1]
MCGenderOf == (ada :> "FEMALE") @@ (bayo :> NoGender)

\* Two invoices, so that one is due when the other is a day late.
MCDueDay  == (b1 :> 0) @@ (b2 :> 1)
MCOffsets == <<0, 1>>

MCRouteAlerts == <<"deviation", stop>>

\* Schools of the same name; half off a price that does not halve, once.
MCNameOf    == [a \in Applicants |-> "grace"]
MCPercentOf == [c \in Promos |-> 50]
MCMaxUsesOf == [c \in Promos |-> 1]

\* A remark is written, a card locked or unlocked.
MCEdits == {[remark |-> "staff", lock |-> "keep"]}
             \cup [remark : {"keep"}, lock : {"lock", "unlock"}]

\* One section, whose two hours the generator fills.
MCSectionOf == [h \in Hours |-> "jss1"]
MCDrafts == {(mon8 :> maths) @@ (mon9 :> english)}

MCOwnerOf == [l \in Leaves |-> eve]

\* Two reports, in the order of a sweep.
MCSavedReports == <<r_fees, r_schools>>

MCOffers == {termly, monthly}

MCFirstWording == [subject |-> "s1", body |-> "b1"]
=============================================================================
