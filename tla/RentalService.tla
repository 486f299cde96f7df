--------------------------- MODULE RentalService ----------------------------
(***************************************************************************)
(* Rental agreements (backend/services/rental_service.go and               *)
(* backend/handlers/rental.go): the agreement's row, the schedule of its   *)
(* payments, signatures, and the two periodic jobs.  Dates are days.       *)
(***************************************************************************)
EXTENDS Rows, FiniteSetsExt

CONSTANTS
    Reqs,
    Dates,
    Periods,           \* lengths in days
    Rate, LateFeePercent,
    Day,               \* the job renews what ends within it
    MaxRentals, MaxTurns, MaxTime

VARIABLES
    rentals,           \* rows [period, start, end, renew, status, lessor, lessee]
    payments,          \* rental_payments [rental, due, status, fee]; equal rows are one
    history,           \* rental_history: pairs of a rental and an event
    req,               \* requests, and the passes of the two jobs over a rental
    now

vars == <<rentals, payments, history, req, now>>

Ids == DOMAIN rentals

Init ==
    /\ rentals = <<>>
    /\ payments = {}
    /\ history = {}
    /\ req = [r \in Reqs |-> New]
    /\ now = 0

logHistory(i, event) == history' = history \cup {<<i, event>>}

\* The schedule is computed from the request's own copy of the row.
Scheduling(i, row, event) ==
    [pc |-> "schedule", id |-> i, row |-> row, current |-> row.start, turn |-> 0, due |-> {}, event |-> event]

CreateRental(r, period, start, end, renew) ==
    LET i   == Len(rentals) + 1
        row == [period |-> period, start |-> start, end |-> end, renew |-> renew,
                status |-> "active", lessor |-> FALSE, lessee |-> FALSE]
    IN  /\ req[r] = New
        /\ i <= MaxRentals
        /\ start <= end
        /\ rentals' = Append(rentals, row)
        /\ logHistory(i, "created")
        /\ req' = [req EXCEPT ![r] = Scheduling(i, row, "created")]
        /\ UNCHANGED <<payments, now>>

\* One turn of the loop of generatePaymentSchedule.
ScheduleTurn(r) ==
    LET q   == req[r]
        end == q.row.end
        due == Min({q.current + q.row.period, end})
    IN  /\ q.pc = "schedule"
        /\ q.current <= end
        /\ req' = [req EXCEPT ![r] = [q EXCEPT !.current = due, !.due = @ \cup {due}, !.turn = (@ + 1) % MaxTurns]]
        /\ UNCHANGED <<rentals, payments, history, now>>

ScheduleEnds(r) ==
    LET q == req[r] IN
    /\ q.pc = "schedule"
    /\ q.current > q.row.end
    /\ payments' = payments \cup {[rental |-> q.id, due |-> d, status |-> "pending", fee |-> 0] : d \in q.due}
    /\ logHistory(q.id, q.event)
    /\ req' = [req EXCEPT ![r] = Done]
    /\ UNCHANGED <<rentals, now>>

Pending(i) == {p \in payments : p.rental = i /\ p.status = "pending"}

LateFee(p) == IF now > p.due THEN (Rate * LateFeePercent * (now - p.due)) \div 100 ELSE 0

\* The earliest pending payment, if the amount covers its late fee too.
ProcessPayment(i, amount) ==
    \E p \in Pending(i) :
        /\ \A q \in Pending(i) : p.due <= q.due
        /\ amount >= Rate + LateFee(p)
        /\ payments' = (payments \ {p}) \cup {[p EXCEPT !.status = "paid", !.fee = LateFee(p)]}
        /\ logHistory(i, "payment")
        /\ UNCHANGED <<rentals, req, now>>

Read(r, i, row, event) ==
    /\ req[r] = New
    /\ req' = [req EXCEPT ![r] = [pc |-> "save", id |-> i, row |-> row, event |-> event]]
    /\ UNCHANGED <<rentals, payments, history, now>>

CancelRental(r, i) ==
    /\ rentals[i].status = "active"
    /\ Read(r, i, [rentals[i] EXCEPT !.status = "cancelled"], "cancelled")

CompleteRental(r, i) ==
    /\ Pending(i) = {}
    /\ Read(r, i, [rentals[i] EXCEPT !.status = "completed"], "completed")

SignAgreement(r, i, party) == Read(r, i, [rentals[i] EXCEPT ![party] = TRUE], "signed")

DisputeRental(r, i) == Read(r, i, [rentals[i] EXCEPT !.status = "disputed"], "disputed")

CheckOverdueRentals(r, i) ==
    /\ rentals[i].status = "active"
    /\ \E p \in Pending(i) : p.due < now
    /\ Read(r, i, [rentals[i] EXCEPT !.status = "overdue"], "overdue")

AutoRenewRentals(r, i) ==
    LET row == rentals[i] IN
    /\ row.status = "active" /\ row.renew
    /\ now < row.end /\ row.end <= now + Day
    /\ Read(r, i, [row EXCEPT !.start = row.end, !.end = row.end + row.period], "auto_renewed")

\* The whole row is saved; a renewal goes on to its new schedule.
Save(r) ==
    LET q == req[r] IN
    /\ q.pc = "save"
    /\ rentals' = [rentals EXCEPT ![q.id] = q.row]
    /\ IF q.event = "auto_renewed"
       THEN /\ req' = [req EXCEPT ![r] = Scheduling(q.id, q.row, q.event)]
            /\ UNCHANGED history
       ELSE /\ req' = [req EXCEPT ![r] = Done]
            /\ logHistory(q.id, q.event)
    /\ UNCHANGED <<payments, now>>

Tick == now < MaxTime /\ now' = now + 1 /\ UNCHANGED <<rentals, payments, history, req>>

Next ==
    \/ \E r \in Reqs, p \in Periods, a, b \in Dates, renew \in BOOLEAN : CreateRental(r, p, a, b, renew)
    \/ \E r \in Reqs : ScheduleTurn(r) \/ ScheduleEnds(r) \/ Save(r)
    \/ \E i \in Ids, amount \in {Rate, 2 * Rate} : ProcessPayment(i, amount)
    \/ \E r \in Reqs, i \in Ids :
        \/ CancelRental(r, i) \/ CompleteRental(r, i) \/ DisputeRental(r, i)
        \/ SignAgreement(r, i, "lessor") \/ SignAgreement(r, i, "lessee")
        \/ CheckOverdueRentals(r, i) \/ AutoRenewRentals(r, i)
    \/ Tick

\* A request that has been taken up goes on to its end.
Spec == Init /\ [][Next]_vars /\ \A r \in Reqs : WF_vars(ScheduleTurn(r) \/ ScheduleEnds(r) \/ Save(r))

-----------------------------------------------------------------------------
\* A rental that is created gets its payment schedule: the request that
\* creates it reaches the insertion of the pending payments.
ScheduleIsMade == \A r \in Reqs : req[r].pc = "schedule" ~> req[r].pc = "done"
=============================================================================
