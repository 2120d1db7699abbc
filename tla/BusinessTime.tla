---------------------------- MODULE BusinessTime ----------------------------
(***************************************************************************)
(* Business days: a day begins at the configured hour of reset, and what a *)
(* file name gives as the deadline is an hour of some day.  Time is counted *)
(* in hours (the code's minutes and seconds only refine them).             *)
(***************************************************************************)
EXTENDS Integers

CONSTANTS
  Hours,      \* hours in a day: 24
  ResetHour,  \* SystemSettings.daily_reset_hour
  None        \* no hour, no deadline (NULL)

ASSUME BusinessTimeAssumption ==
  Hours \in Nat \ {0} /\ ResetHour \in 0 .. Hours - 1 /\ None \notin Int

Day(t) == t \div Hours
HourOf(t) == t % Hours
BeforeReset(t) == HourOf(t) < ResetHour

BusinessDate(t) == IF BeforeReset(t) THEN Day(t) - 1 ELSE Day(t)

(* get_business_window: from the reset to the next one *)
BusinessWindow(date) ==
  LET start == date * Hours + ResetHour
  IN start .. start + Hours - 1

(* Mutant: the hour is taken on the base date, whatever it is. *)
DeadlineOnBase(hour, t) ==
  IF hour = None THEN None
  ELSE (IF BeforeReset(t) THEN Day(t) - 1 ELSE Day(t)) * Hours + hour

(* resolve_deadline_datetime: an hour before the reset of the day of the     *)
(* upload is one of the day after the base date; a name whose HH.MM part is  *)
(* no time has no deadline.                                                  *)
Deadline(hour, t) ==
  LET base == (IF BeforeReset(t) THEN Day(t) - 1 ELSE Day(t)) * Hours + hour
      cutoff == Day(t) * Hours + ResetHour
  IN IF hour = None THEN None
     ELSE IF base < cutoff THEN base + Hours ELSE base
=============================================================================
