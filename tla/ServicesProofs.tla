--------------------------- MODULE ServicesProofs ---------------------------
(***************************************************************************)
(* The services together: whichever is served, it behaves as its own       *)
(* specification says, so that what is proved of each on its own holds of  *)
(* the composition that the runs check. For any number of requests at a    *)
(* time and faults, and any tables.                                        *)
(***************************************************************************)
EXTENDS MCSchoolServices, SchoolLifeProofs, OfficeProofs

----------------------------------------------------------------------------
(* A service that is served goes on being served, and does its own steps.    *)

LEMMA BedsServed == ServicesSpec /\ served = "beds" => [](served = "beds") /\ BedsSpec
<1>1. ServicesInit => HandlersInit /\ BedsInit
    BY DEF ServicesInit
<1>2. served = "beds" /\ [ServicesNext]_serviceVars =>
          (served = "beds")' /\ [BedsNext]_<<handlerVars, bedVars>>
    BY Zenon DEF ServicesNext, Serve, serviceVars
<1> QED BY <1>1, <1>2, PTL DEF ServicesSpec, BedsSpec

LEMMA ExeatsServed == ServicesSpec /\ served = "exeats" => [](served = "exeats") /\ ExeatsSpec
<1>1. ServicesInit => HandlersInit /\ ExeatsInit
    BY DEF ServicesInit
<1>2. served = "exeats" /\ [ServicesNext]_serviceVars =>
          (served = "exeats")' /\ [ExeatsNext]_<<handlerVars, exeatVars>>
    BY Zenon DEF ServicesNext, Serve, serviceVars
<1> QED BY <1>1, <1>2, PTL DEF ServicesSpec, ExeatsSpec

LEMMA RemindersServed == ServicesSpec /\ served = "reminders" => [](served = "reminders") /\ RemindersSpec
<1>1. ServicesInit => HandlersInit /\ RemindersInit
    BY DEF ServicesInit
<1>2. served = "reminders" /\ [ServicesNext]_serviceVars =>
          (served = "reminders")' /\ [RemindersNext]_<<handlerVars, reminderVars>>
    BY Zenon DEF ServicesNext, Serve, serviceVars
<1> QED BY <1>1, <1>2, PTL DEF ServicesSpec, RemindersSpec

LEMMA NoticesServed == ServicesSpec /\ served = "notices" => [](served = "notices") /\ NoticesSpec
<1>1. ServicesInit => HandlersInit /\ NoticesInit
    BY DEF ServicesInit
<1>2. served = "notices" /\ [ServicesNext]_serviceVars =>
          (served = "notices")' /\ [NoticesNext]_<<handlerVars, noticeVars>>
    BY Zenon DEF ServicesNext, Serve, serviceVars
<1> QED BY <1>1, <1>2, PTL DEF ServicesSpec, NoticesSpec

LEMMA BusServed == ServicesSpec /\ served = "bus" => [](served = "bus") /\ BusSpec
<1>1. ServicesInit => HandlersInit /\ BusInit
    BY DEF ServicesInit
<1>2. served = "bus" /\ [ServicesNext]_serviceVars =>
          (served = "bus")' /\ [BusNext]_<<handlerVars, busVars>>
    BY Zenon DEF ServicesNext, Serve, serviceVars
<1> QED BY <1>1, <1>2, PTL DEF ServicesSpec, BusSpec

LEMMA RegistrationServed == ServicesSpec /\ served = "registration" => [](served = "registration") /\ RegistrationSpec
<1>1. ServicesInit => HandlersInit /\ RegistrationInit
    BY DEF ServicesInit
<1>2. served = "registration" /\ [ServicesNext]_serviceVars =>
          (served = "registration")' /\ [RegistrationNext]_<<handlerVars, registrationVars>>
    BY Zenon DEF ServicesNext, Serve, serviceVars
<1> QED BY <1>1, <1>2, PTL DEF ServicesSpec, RegistrationSpec

LEMMA RefundsServed == ServicesSpec /\ served = "refunds" => [](served = "refunds") /\ RefundsSpec
<1>1. ServicesInit => HandlersInit /\ RefundsInit
    BY DEF ServicesInit
<1>2. served = "refunds" /\ [ServicesNext]_serviceVars =>
          (served = "refunds")' /\ [RefundsNext]_<<handlerVars, refundVars>>
    BY Zenon DEF ServicesNext, Serve, serviceVars
<1> QED BY <1>1, <1>2, PTL DEF ServicesSpec, RefundsSpec

LEMMA ReferralsServed == ServicesSpec /\ served = "referrals" => [](served = "referrals") /\ ReferralsSpec
<1>1. ServicesInit => HandlersInit /\ ReferralsInit
    BY DEF ServicesInit
<1>2. served = "referrals" /\ [ServicesNext]_serviceVars =>
          (served = "referrals")' /\ [ReferralsNext]_<<handlerVars, referralVars>>
    BY Zenon DEF ServicesNext, Serve, serviceVars
<1> QED BY <1>1, <1>2, PTL DEF ServicesSpec, ReferralsSpec

LEMMA TemplatesServed == ServicesSpec /\ served = "templates" => [](served = "templates") /\ TemplatesSpec
<1>1. ServicesInit => HandlersInit /\ TemplatesInit
    BY DEF ServicesInit
<1>2. served = "templates" /\ [ServicesNext]_serviceVars =>
          (served = "templates")' /\ [TemplatesNext]_<<handlerVars, templateVars>>
    BY Zenon DEF ServicesNext, Serve, serviceVars
<1> QED BY <1>1, <1>2, PTL DEF ServicesSpec, TemplatesSpec

LEMMA MarksServed == ServicesSpec /\ served = "marks" => [](served = "marks") /\ MarksSpec
<1>1. ServicesInit => HandlersInit /\ MarksInit
    BY DEF ServicesInit, SheetsInit
<1>2. served = "marks" /\ [ServicesNext]_serviceVars =>
          (served = "marks")' /\ [MarksNext]_<<handlerVars, markVars>>
    BY Zenon DEF ServicesNext, Serve, serviceVars
<1> QED BY <1>1, <1>2, PTL DEF ServicesSpec, MarksSpec

LEMMA CardsServed == ServicesSpec /\ served = "cards" => [](served = "cards") /\ CardsSpec
<1>1. ServicesInit => HandlersInit /\ MarksInit /\ CardsInit
    BY DEF ServicesInit, SheetsInit
<1>2. served = "cards" /\ [ServicesNext]_serviceVars =>
          (served = "cards")' /\ [CardsNext]_<<handlerVars, markVars, cardVars>>
    BY Zenon DEF ServicesNext, Serve, serviceVars
<1> QED BY <1>1, <1>2, PTL DEF ServicesSpec, CardsSpec

LEMMA TimetableServed == ServicesSpec /\ served = "timetable" => [](served = "timetable") /\ TimetableSpec
<1>1. ServicesInit => HandlersInit /\ TimetableInit
    BY DEF ServicesInit
<1>2. served = "timetable" /\ [ServicesNext]_serviceVars =>
          (served = "timetable")' /\ [TimetableNext]_<<handlerVars, timetableVars>>
    BY Zenon DEF ServicesNext, Serve, serviceVars
<1> QED BY <1>1, <1>2, PTL DEF ServicesSpec, TimetableSpec

LEMMA LeaveServed == ServicesSpec /\ served = "leave" => [](served = "leave") /\ LeaveSpec
<1>1. ServicesInit => HandlersInit /\ LeaveInit
    BY DEF ServicesInit
<1>2. served = "leave" /\ [ServicesNext]_serviceVars =>
          (served = "leave")' /\ [LeaveNext]_<<handlerVars, leaveVars>>
    BY Zenon DEF ServicesNext, Serve, serviceVars
<1> QED BY <1>1, <1>2, PTL DEF ServicesSpec, LeaveSpec

LEMMA SubscriptionsServed == ServicesSpec /\ served = "subscriptions" => [](served = "subscriptions") /\ SubscriptionsSpec
<1>1. ServicesInit => HandlersInit /\ SubscriptionsInit
    BY DEF ServicesInit
<1>2. served = "subscriptions" /\ [ServicesNext]_serviceVars =>
          (served = "subscriptions")' /\ [SubscriptionsNext]_<<handlerVars, subscriptionVars>>
    BY Zenon DEF ServicesNext, Serve, serviceVars
<1> QED BY <1>1, <1>2, PTL DEF ServicesSpec, SubscriptionsSpec

LEMMA ReportsServed == ServicesSpec /\ served = "reports" => [](served = "reports") /\ ReportsSpec
<1>1. ServicesInit => HandlersInit /\ ReportsInit
    BY DEF ServicesInit
<1>2. served = "reports" /\ [ServicesNext]_serviceVars =>
          (served = "reports")' /\ [ReportsNext]_<<handlerVars, reportVars>>
    BY Zenon DEF ServicesNext, Serve, serviceVars
<1> QED BY <1>1, <1>2, PTL DEF ServicesSpec, ReportsSpec

----------------------------------------------------------------------------
(* The types of the service that is served *)

LEMMA SomeServed ==
    ServicesInit =>
        \/ served = "beds" \/ served = "exeats" \/ served = "reminders"
        \/ served = "notices" \/ served = "bus" \/ served = "registration"
        \/ served = "refunds" \/ served = "referrals" \/ served = "templates"
        \/ served = "marks" \/ served = "cards" \/ served = "timetable"
        \/ served = "leave" \/ served = "subscriptions" \/ served = "reports"
BY DEF ServicesInit, Services

(* The tables and the requests of the service that is served keep their       *)
(* types, whichever it is, however its requests overlap and whoever dies.     *)
THEOREM ServicesTypes == ServicesSpec => []ServicesTypeOK
<1>1. ServicesSpec /\ served = "beds" => []ServicesTypeOK
    <2>1. served = "beds" /\ BedsTypeOK => ServicesTypeOK
        BY DEF ServicesTypeOK
    <2> QED BY <2>1, BedsServed, BedTypes, PTL
<1>2. ServicesSpec /\ served = "exeats" => []ServicesTypeOK
    <2>1. served = "exeats" /\ ExeatsTypeOK => ServicesTypeOK
        BY DEF ServicesTypeOK
    <2> QED BY <2>1, ExeatsServed, ExeatTypes, PTL
<1>3. ServicesSpec /\ served = "reminders" => []ServicesTypeOK
    <2>1. served = "reminders" /\ RemindersTypeOK => ServicesTypeOK
        BY DEF ServicesTypeOK
    <2> QED BY <2>1, RemindersServed, ReminderTypes, PTL
<1>4. ServicesSpec /\ served = "notices" => []ServicesTypeOK
    <2>1. served = "notices" /\ NoticesTypeOK => ServicesTypeOK
        BY DEF ServicesTypeOK
    <2> QED BY <2>1, NoticesServed, NoticeTypes, PTL
<1>5. ServicesSpec /\ served = "bus" => []ServicesTypeOK
    <2>1. served = "bus" /\ BusTypeOK => ServicesTypeOK
        BY DEF ServicesTypeOK
    <2> QED BY <2>1, BusServed, BusTypes, PTL
<1>6. ServicesSpec /\ served = "registration" => []ServicesTypeOK
    <2>1. served = "registration" /\ RegistrationTypeOK => ServicesTypeOK
        BY DEF ServicesTypeOK
    <2> QED BY <2>1, RegistrationServed, RegistrationTypes, PTL
<1>7. ServicesSpec /\ served = "refunds" => []ServicesTypeOK
    <2>1. served = "refunds" /\ RefundsTypeOK => ServicesTypeOK
        BY DEF ServicesTypeOK
    <2> QED BY <2>1, RefundsServed, RefundTypes, PTL
<1>8. ServicesSpec /\ served = "referrals" => []ServicesTypeOK
    <2>1. served = "referrals" /\ ReferralsTypeOK => ServicesTypeOK
        BY DEF ServicesTypeOK
    <2> QED BY <2>1, ReferralsServed, ReferralTypes, PTL
<1>9. ServicesSpec /\ served = "templates" => []ServicesTypeOK
    <2>1. served = "templates" /\ TemplatesTypeOK => ServicesTypeOK
        BY DEF ServicesTypeOK
    <2> QED BY <2>1, TemplatesServed, TemplateTypes, PTL
<1>10. ServicesSpec /\ served = "marks" => []ServicesTypeOK
    <2>1. served = "marks" /\ MarksTypeOK => ServicesTypeOK
        BY DEF ServicesTypeOK
    <2> QED BY <2>1, MarksServed, MarksTypes, PTL
<1>11. ServicesSpec /\ served = "cards" => []ServicesTypeOK
    <2>1. served = "cards" /\ CardsTypeOK => ServicesTypeOK
        BY DEF ServicesTypeOK
    <2> QED BY <2>1, CardsServed, CardsTypes, PTL
<1>12. ServicesSpec /\ served = "timetable" => []ServicesTypeOK
    <2>1. served = "timetable" /\ TimetableTypeOK => ServicesTypeOK
        BY DEF ServicesTypeOK
    <2> QED BY <2>1, TimetableServed, TimetableTypes, PTL
<1>13. ServicesSpec /\ served = "leave" => []ServicesTypeOK
    <2>1. served = "leave" /\ LeaveTypeOK => ServicesTypeOK
        BY DEF ServicesTypeOK
    <2> QED BY <2>1, LeaveServed, LeaveTypes, PTL
<1>14. ServicesSpec /\ served = "subscriptions" => []ServicesTypeOK
    <2>1. served = "subscriptions" /\ SubscriptionsTypeOK => ServicesTypeOK
        BY DEF ServicesTypeOK
    <2> QED BY <2>1, SubscriptionsServed, SubscriptionTypes, PTL
<1>15. ServicesSpec /\ served = "reports" => []ServicesTypeOK
    <2>1. served = "reports" /\ ReportsTypeOK => ServicesTypeOK
        BY DEF ServicesTypeOK
    <2> QED BY <2>1, ReportsServed, ReportTypes, PTL
<1> QED BY <1>1, <1>2, <1>3, <1>4, <1>5, <1>6, <1>7, <1>8, <1>9, <1>10, <1>11, <1>12,
           <1>13, <1>14, <1>15, SomeServed, PTL DEF ServicesSpec

----------------------------------------------------------------------------
(* What the service that is served promises *)

ServedPromise ==
    CASE served = "beds"          -> StaysFitTheirRooms
      [] served = "exeats"        -> DecisionsTold
      [] served = "reminders"     -> RemindersBounded
      [] served = "notices"       -> SentOnce
      [] served = "bus"           -> AlertsBounded
      [] served = "registration"  -> DiscountsAccountedFor
      [] served = "refunds"       -> RefundsBounded
      [] served = "referrals"     -> RewardsMatchTiers
      [] served = "templates"     -> WordingKept
      [] served = "marks"         -> MarksStored
      [] served = "cards"         -> CardsStandLocked
      [] served = "timetable"     -> TimetableKept
      [] served = "leave"         -> LeaveAndPayAgree
      [] served = "subscriptions" -> SubscriptionsAgree
      [] served = "reports"       -> RunsAccountedFor

(* Whichever service is served keeps its promise in the composition: rooms   *)
(* are not overfilled, decisions are told, nobody is reminded, alerted or    *)
(* sent an announcement oftener than requests overlap, discounts, refunds    *)
(* and rewards add up, wordings, marks and locked cards stay, and so on.     *)
THEOREM ServicesKeepPromises == ServicesSpec => []ServedPromise
<1>1. ServicesSpec /\ served = "beds" => []ServedPromise
    <2>1. served = "beds" /\ StaysFitTheirRooms => ServedPromise
        BY DEF ServedPromise
    <2> QED BY <2>1, BedsServed, BoardersFitTheirRooms, PTL
<1>2. ServicesSpec /\ served = "exeats" => []ServedPromise
    <2>1. served = "exeats" /\ DecisionsTold => ServedPromise
        BY DEF ServedPromise
    <2> QED BY <2>1, ExeatsServed, DecisionsAreTold, PTL
<1>3. ServicesSpec /\ served = "reminders" => []ServedPromise
    <2>1. served = "reminders" /\ RemindersBounded => ServedPromise
        BY DEF ServedPromise
    <2> QED BY <2>1, RemindersServed, RemindersStayBounded, PTL
<1>4. ServicesSpec /\ served = "notices" => []ServedPromise
    <2>1. served = "notices" /\ SentOnce => ServedPromise
        BY DEF ServedPromise
    <2> QED BY <2>1, NoticesServed, AnnouncementsSentOnce, PTL
<1>5. ServicesSpec /\ served = "bus" => []ServedPromise
    <2>1. served = "bus" /\ AlertsBounded => ServedPromise
        BY DEF ServedPromise
    <2> QED BY <2>1, BusServed, AlertsStayBounded, PTL
<1>6. ServicesSpec /\ served = "registration" => []ServedPromise
    <2>1. served = "registration" /\ DiscountsAccountedFor => ServedPromise
        BY DEF ServedPromise
    <2> QED BY <2>1, RegistrationServed, DiscountsStayAccountedFor, PTL
<1>7. ServicesSpec /\ served = "refunds" => []ServedPromise
    <2>1. served = "refunds" /\ RefundsBounded => ServedPromise
        BY DEF ServedPromise
    <2> QED BY <2>1, RefundsServed, RefundsStayBounded, PTL
<1>8. ServicesSpec /\ served = "referrals" => []ServedPromise
    <2>1. served = "referrals" /\ RewardsMatchTiers => ServedPromise
        BY DEF ServedPromise
    <2> QED BY <2>1, ReferralsServed, RewardsMatch, PTL
<1>9. ServicesSpec /\ served = "templates" => []ServedPromise
    <2>1. served = "templates" /\ WordingKept => ServedPromise
        BY DEF ServedPromise
    <2> QED BY <2>1, TemplatesServed, TemplateWordingIsKept, PTL
<1>10. ServicesSpec /\ served = "marks" => []ServedPromise
    <2>1. served = "marks" /\ MarksStored => ServedPromise
        BY DEF ServedPromise
    <2> QED BY <2>1, MarksServed, MarksStayStored, PTL
<1>11. ServicesSpec /\ served = "cards" => []ServedPromise
    <2>1. served = "cards" /\ CardsStandLocked => ServedPromise
        BY DEF ServedPromise
    <2> QED BY <2>1, CardsServed, LockedCardsStand, PTL
<1>12. ServicesSpec /\ served = "timetable" => []ServedPromise
    <2>1. served = "timetable" /\ TimetableKept => ServedPromise
        BY DEF ServedPromise
    <2> QED BY <2>1, TimetableServed, TimetableStaysKept, PTL
<1>13. ServicesSpec /\ served = "leave" => []ServedPromise
    <2>1. served = "leave" /\ LeaveAndPayAgree => ServedPromise
        BY DEF ServedPromise
    <2> QED BY <2>1, LeaveServed, LeaveAgreesWithPay, PTL
<1>14. ServicesSpec /\ served = "subscriptions" => []ServedPromise
    <2>1. served = "subscriptions" /\ SubscriptionsAgree => ServedPromise
        BY DEF ServedPromise
    <2> QED BY <2>1, SubscriptionsServed, RevenueFiguresAgree, PTL
<1>15. ServicesSpec /\ served = "reports" => []ServedPromise
    <2>1. served = "reports" /\ RunsAccountedFor => ServedPromise
        BY DEF ServedPromise
    <2> QED BY <2>1, ReportsServed, RunsAreAccountedFor, PTL
<1> QED BY <1>1, <1>2, <1>3, <1>4, <1>5, <1>6, <1>7, <1>8, <1>9, <1>10, <1>11, <1>12,
           <1>13, <1>14, <1>15, SomeServed, PTL DEF ServicesSpec
=============================================================================
