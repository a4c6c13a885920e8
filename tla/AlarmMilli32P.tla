----------------------------- MODULE AlarmMilli32P -----------------------------
(***************************************************************************)
(* The arithmetic of the millisecond alarm: from a time that was counted   *)
(* in 32 bits of milliseconds to the setting of a POSIX timer in seconds   *)
(* and nanoseconds.  There is no state here but what they are given:       *)
(* ArithmeticProofs proves about them as they stand, for every argument.   *)
(***************************************************************************)
EXTENDS Integers

Below(n) == {k \in Nat : k < n}
Word == Below(4294967296)
Mod32(n) == n % 4294967296

\* A time of CLOCK_MONOTONIC.  A setting of the timer is accepted if it is one.
Timespec == [sec : Nat, nsec : Below(1000000000)]
Nanoseconds(t) == t.sec * 1000000000 + t.nsec
Milliseconds(t) == t.sec * 1000 + t.nsec \div 1000000

\* Alarm.getNow, and time_now in startAt.  (Where a long has 32 bits tv_sec * 1000
\* overflows after 24 days; the multiplication of the machine wraps around, and
\* the sum modulo 2^32 is the same.)
getNow(t) == Mod32(Milliseconds(t))

elapsed(t, t0) == Mod32(getNow(t) - t0)
remaining(t, t0, dt) == dt - elapsed(t, t0)

\* The time asked for is over: a setting half a millisecond ahead.
SoonAfter(t) == [sec |-> t.sec, nsec |-> t.nsec + 500000]

\* The time asked for is ms milliseconds ahead.
Sum(t, ms) ==
  [sec  |-> t.sec + ms \div 1000,
   nsec |-> t.nsec + (ms - (ms \div 1000) * 1000) * 1000000]
Carried(v) ==
  IF v.nsec > 999999999 THEN [sec |-> v.sec + 1, nsec |-> v.nsec - 999999999] ELSE v

it_value(t, t0, dt) ==
  IF elapsed(t, t0) >= dt THEN SoonAfter(t) ELSE Carried(Sum(t, remaining(t, t0, dt)))

\* Alarm.startAt(t0, dt) at the time t: the setting the timer then has.  Where
\* timer_settime fails the timer keeps the one it had.
startAt(t, t0, dt, timer) ==
  IF it_value(t, t0, dt) \in Timespec THEN it_value(t, t0, dt) ELSE timer
================================================================================
