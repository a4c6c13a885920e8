---------------------------- MODULE ArithmeticProofs ----------------------------
(***************************************************************************)
(* What the arithmetic of two components does for every argument: the      *)
(* setting of the millisecond alarm, and the length of a hop-by-hop        *)
(* header.                                                                 *)
(***************************************************************************)
EXTENDS AlarmMilli32P, RplBorderRouterP, TLAPS

\* Dividing by the nanoseconds of a millisecond.
LEMMA DivMilli ==
  ASSUME NEW n \in Nat, NEW m \in Nat
  PROVE  (n + m * 1000000) \div 1000000 = n \div 1000000 + m
  BY SMT

LEMMA DivThousand ==
  ASSUME NEW ms \in Nat
  PROVE  /\ ms \div 1000 \in Nat
         /\ ms - (ms \div 1000) * 1000 \in 0..999
  BY SMT

\* Adding s seconds and rest milliseconds is adding s * 1000 + rest milliseconds.
LEMMA Carrying ==
  ASSUME NEW a \in Int, NEW b \in Int, NEW c \in Int, NEW s \in Int, NEW rest \in Int
  PROVE  /\ (a + s) * 1000000000 + (b + rest * 1000000)
               = a * 1000000000 + b + (s * 1000 + rest) * 1000000
         /\ (a + s) * 1000 + (c + rest) = a * 1000 + c + (s * 1000 + rest)
  BY SMT

\* The sum before the carry is the time asked for, and its nanoseconds are less
\* than two seconds.
LEMMA SumIsAhead ==
  ASSUME NEW t \in Timespec, NEW ms \in Nat
  PROVE  /\ Sum(t, ms).sec \in Nat /\ Sum(t, ms).nsec \in Below(1999000000)
         /\ Sum(t, ms) = [sec |-> Sum(t, ms).sec, nsec |-> Sum(t, ms).nsec]
         /\ Nanoseconds(Sum(t, ms)) = Nanoseconds(t) + ms * 1000000
         /\ Milliseconds(Sum(t, ms)) = Milliseconds(t) + ms
<1>1. t.sec \in Nat /\ t.nsec \in Below(1000000000)
  BY SMT DEF Timespec
<1>2. DEFINE s == ms \div 1000
             rest == ms - (ms \div 1000) * 1000
<1>3. s \in Nat /\ rest \in 0..999 /\ ms = s * 1000 + rest
  BY SMT, DivThousand
<1>4. Sum(t, ms).sec = t.sec + s /\ Sum(t, ms).nsec = t.nsec + rest * 1000000
  BY SMT DEF Sum
<1>5. Sum(t, ms) = [sec |-> Sum(t, ms).sec, nsec |-> Sum(t, ms).nsec]
  BY SMT DEF Sum
<1> HIDE DEF s, rest
<1>6. Sum(t, ms).sec \in Nat /\ Sum(t, ms).nsec \in Below(1999000000)
  BY SMT, <1>1, <1>3, <1>4 DEF Below
<1>7. Nanoseconds(Sum(t, ms)) = Nanoseconds(t) + ms * 1000000
  <2>1. (t.sec + s) * 1000000000 + (t.nsec + rest * 1000000)
          = t.sec * 1000000000 + t.nsec + (s * 1000 + rest) * 1000000
    BY SMT, <1>1, <1>3, Carrying DEF Below
  <2>2. QED
    BY SMT, <2>1, <1>3, <1>4 DEF Nanoseconds
<1>8. (t.nsec + rest * 1000000) \div 1000000 = t.nsec \div 1000000 + rest
  BY SMT, <1>1, <1>3, DivMilli DEF Below
<1>9. Milliseconds(Sum(t, ms)) = Milliseconds(t) + ms
  <2>1. t.nsec \div 1000000 \in Int
    BY SMT, <1>1 DEF Below
  <2> DEFINE c == t.nsec \div 1000000
  <2>2. (t.sec + s) * 1000 + (c + rest) = t.sec * 1000 + c + (s * 1000 + rest)
    BY SMT, <1>1, <1>3, <2>1, Carrying
  <2>3. QED
    BY SMT, <2>2, <1>3, <1>4, <1>8 DEF Milliseconds
<1>10. QED
  BY SMT, <1>5, <1>6, <1>7, <1>9

\* The carry makes a valid setting of such a sum, and adds a nanosecond to it.
LEMMA CarryIsValid ==
  ASSUME NEW v, v = [sec |-> v.sec, nsec |-> v.nsec], v.sec \in Nat, v.nsec \in Below(1999000000)
  PROVE  /\ Carried(v) \in Timespec
         /\ Nanoseconds(Carried(v)) \in {Nanoseconds(v), Nanoseconds(v) + 1}
         /\ Milliseconds(Carried(v)) \in {Milliseconds(v), Milliseconds(v) + 1}
<1>1. CASE v.nsec > 999999999
  <2>1. Carried(v).sec = v.sec + 1 /\ Carried(v).nsec = v.nsec - 999999999
    BY SMT, <1>1 DEF Carried
  <2>2. Carried(v) \in Timespec
    BY SMT, <1>1 DEF Carried, Timespec, Below
  <2>3. Nanoseconds(Carried(v)) = Nanoseconds(v) + 1
    BY SMT, <2>1 DEF Nanoseconds, Below
  <2>4. DEFINE n == v.nsec - 1000000000
  <2>5. n \in Below(999000000) /\ v.nsec = n + 1000 * 1000000
    BY SMT, <1>1 DEF Below
  <2>6. v.nsec \div 1000000 = n \div 1000000 + 1000
    BY SMT, <2>5, DivMilli DEF Below
  <2>7. (n + 1) \div 1000000 \in {n \div 1000000, n \div 1000000 + 1}
    BY SMT, <2>5 DEF Below
  <2>8. Milliseconds(Carried(v)) \in {Milliseconds(v), Milliseconds(v) + 1}
    BY SMT, <2>1, <2>5, <2>6, <2>7 DEF Milliseconds, Below
  <2>9. QED
    BY SMT, <2>2, <2>3, <2>8
<1>2. CASE ~(v.nsec > 999999999)
  BY SMT, <1>2 DEF Carried, Timespec, Below
<1>3. QED
  BY SMT, <1>1, <1>2

\* An alarm for a time that is still to come is set, whatever the clock shows and
\* wherever the 32 bits wrap: it is due when getNow reads t0 + dt, or for the
\* nanosecond that the carry adds just after it, and never before
\* (AlarmMilli32P.nc:96-115).
THEOREM AlarmAheadIsSet ==
  ASSUME NEW t \in Timespec, NEW t0 \in Word, NEW dt \in Word, NEW timer, elapsed(t, t0) < dt
  PROVE  LET v == startAt(t, t0, dt, timer)
         IN  /\ v \in Timespec
             /\ Nanoseconds(v) - Nanoseconds(t) - remaining(t, t0, dt) * 1000000 \in {0, 1}
             /\ getNow(v) \in {Mod32(t0 + dt), Mod32(t0 + dt + 1)}
<1>1. DEFINE r == remaining(t, t0, dt)
             v == Carried(Sum(t, r))
             now == Milliseconds(t)
<1>2. now \in Nat
  BY SMT DEF Milliseconds, Timespec, Below
<1>3. PICK q \in Int : now = getNow(t) + q * 4294967296
  BY SMT, <1>2 DEF getNow, Mod32
<1>4. getNow(t) \in Word
  BY SMT, <1>2 DEF getNow, Mod32, Word, Below
<1>5. PICK k \in Int : getNow(t) - t0 = elapsed(t, t0) + k * 4294967296
  BY SMT, <1>4 DEF elapsed, Mod32, Word, Below
<1>6. elapsed(t, t0) \in Nat
  BY SMT, <1>4 DEF elapsed, Mod32, Word, Below
<1>7. r \in Nat /\ now + r = t0 + dt + (q + k) * 4294967296
  BY SMT, <1>2, <1>3, <1>4, <1>5, <1>6 DEF remaining, Word, Below
<1>8. v \in Timespec /\ it_value(t, t0, dt) = v
  BY SMT, <1>6, <1>7, SumIsAhead, CarryIsValid DEF it_value, Word, Below
<1>9. startAt(t, t0, dt, timer) = v
  BY SMT, <1>8 DEF startAt
<1>10. /\ Nanoseconds(Sum(t, r)) = Nanoseconds(t) + r * 1000000
       /\ Milliseconds(Sum(t, r)) = now + r
       /\ Nanoseconds(v) \in {Nanoseconds(Sum(t, r)), Nanoseconds(Sum(t, r)) + 1}
       /\ Milliseconds(v) \in {Milliseconds(Sum(t, r)), Milliseconds(Sum(t, r)) + 1}
  BY SMT, <1>7, SumIsAhead, CarryIsValid
<1> HIDE DEF r, v, now
<1>11. Nanoseconds(t) \in Int
  BY SMT DEF Nanoseconds, Timespec, Below
<1>12. Nanoseconds(v) - Nanoseconds(t) - r * 1000000 \in {0, 1}
  BY SMT, <1>7, <1>10, <1>11
<1>13. Mod32(now + r) = Mod32(t0 + dt) /\ Mod32(now + r + 1) = Mod32(t0 + dt + 1)
  <2> DEFINE due == t0 + dt
             laps == q + k
  <2>1. due \in Int /\ due + 1 \in Int /\ laps \in Int
    BY SMT DEF Word, Below
  <2>2. now + r = due + laps * 4294967296
    BY SMT, <1>7
  <2> HIDE DEF due, laps
  <2>3. now + r + 1 = (due + 1) + laps * 4294967296
    BY SMT, <2>1, <2>2
  <2>4. Mod32(now + r) = Mod32(due) /\ Mod32(now + r + 1) = Mod32(due + 1)
    <3> DEFINE next == due + 1
           sum == now + r
           sum1 == sum + 1
    <3>1. /\ next \in Int /\ sum \in Int /\ sum1 \in Int
          /\ sum = due + laps * 4294967296 /\ sum1 = next + laps * 4294967296
      BY SMT, <1>2, <1>7, <2>1, <2>2, <2>3
    <3> HIDE DEF next, sum, sum1
    <3>2. Mod32(sum) = Mod32(due)
      BY SMT, <2>1, <3>1 DEF Mod32
    <3>3. Mod32(sum1) = Mod32(next)
      BY SMT, <2>1, <3>1 DEF Mod32
    <3>4. QED
      BY SMT, <3>2, <3>3 DEF next, sum, sum1
  <2>5. QED
    BY SMT, <2>4 DEF due
<1>14. getNow(v) \in {Mod32(t0 + dt), Mod32(t0 + dt + 1)}
  BY SMT, <1>10, <1>13 DEF getNow
<1>15. QED
  BY SMT, <1>8, <1>9, <1>12, <1>14 DEF r

\* An alarm for a time that is over is due half a millisecond from now, unless a
\* second is about to end: then its setting is not a time, and the timer is left as
\* it was, that is off if its last alarm has been signalled
\* (AlarmMilli32P.nc:84-93).
THEOREM LateAlarmIsLost ==
  ASSUME NEW t \in Timespec, NEW t0 \in Word, NEW dt \in Word, NEW timer, elapsed(t, t0) >= dt
  PROVE  /\ t.nsec < 999500000 =>
              /\ startAt(t, t0, dt, timer) \in Timespec
              /\ Nanoseconds(startAt(t, t0, dt, timer)) = Nanoseconds(t) + 500000
         /\ t.nsec >= 999500000 => startAt(t, t0, dt, timer) = timer
<1>1. it_value(t, t0, dt) = SoonAfter(t)
  BY SMT DEF it_value
<1>2. t.sec \in Nat /\ t.nsec \in Below(1000000000)
  BY SMT DEF Timespec
<1>3. SoonAfter(t).sec = t.sec /\ SoonAfter(t).nsec = t.nsec + 500000
  BY SMT DEF SoonAfter
<1>4. SoonAfter(t) \in Timespec <=> t.nsec < 999500000
  <2>1. t.nsec < 999500000 => SoonAfter(t) \in Timespec
    BY SMT, <1>2 DEF SoonAfter, Timespec, Below
  <2>2. SoonAfter(t) \in Timespec => SoonAfter(t).nsec \in Below(1000000000)
    BY SMT DEF Timespec
  <2>3. QED
    BY SMT, <1>2, <1>3, <2>1, <2>2 DEF Below
<1>5. Nanoseconds(SoonAfter(t)) = Nanoseconds(t) + 500000
  BY SMT, <1>2, <1>3 DEF Nanoseconds, Below
<1>6. QED
  BY SMT, <1>1, <1>2, <1>4, <1>5 DEF startAt, Below

-----------------------------------------------------------------------------
\* The eight bits hold the length of a header of up to 31 times eight bytes.
LEMMA EightBits ==
  ASSUME NEW p \in Packets
  PROVE  /\ HeaderLength(p) \in Nat /\ length_in_bytes(p) \in Nat
         /\ p.extra <= 30 => length_in_bytes(p) = HeaderLength(p)
         /\ p.extra > 30 => length_in_bytes(p) <= HeaderLength(p) - 256
<1> DEFINE h == HeaderLength(p)
           e == p.extra
<1>1. e \in Nat
  BY DEF Packets
<1>2. h = (e + 1) * 8 /\ length_in_bytes(p) = h % 256
  BY DEF HeaderLength, length_in_bytes
<1> HIDE DEF h, e
<1>3. h \in Nat /\ (e <= 30 <=> h < 256)
  BY <1>1, <1>2
<1>4. h % 256 \in Nat /\ (h < 256 => h % 256 = h) /\ (h >= 256 => h % 256 <= h - 256)
  BY <1>3
<1>5. e > 30 <=> ~(e <= 30)
  BY <1>1
<1>6. h < 256 \/ h >= 256
  BY <1>3
<1>7. QED
  BY <1>2, <1>3, <1>4, <1>5, <1>6 DEF h, e

\* The fields of a packet that RemoveHeader has changed.
LEMMA RemovedFields ==
  ASSUME NEW p \in Packets, p.nxt = HopByHop
  PROVE  /\ RemoveHeader(p).nxt = p.first
         /\ RemoveHeader(p).at = p.at + length_in_bytes(p)
         /\ RemoveHeader(p).len = p.len - length_in_bytes(p)
         /\ RemoveHeader(p).plen = (p.plen - length_in_bytes(p)) % 65536
         /\ p.first = UDP => RemoveHeader(p).checksum = p.at + length_in_bytes(p) + 6
<1> DEFINE n == length_in_bytes(p)
           q == Skipped(p)
<1>1. RemoveHeader(p) = Summed(q)
  BY DEF RemoveHeader
<1>2. /\ q.nxt = p.first /\ q.at = p.at + n /\ q.len = p.len - n
      /\ q.plen = (p.plen - n) % 65536 /\ "checksum" \in DOMAIN q
  BY DEF Skipped, Packets
<1> HIDE DEF n, q
<1>3. /\ Summed(q).nxt = q.nxt /\ Summed(q).at = q.at /\ Summed(q).len = q.len
      /\ Summed(q).plen = q.plen
      /\ q.nxt = UDP => Summed(q).checksum = q.at + 6
  BY <1>2 DEF Summed
<1>4. QED
  BY <1>1, <1>2, <1>3 DEF n

\* A header of up to 248 bytes is removed exactly: the data begins after it, both
\* lengths are less by what it took, and the checksum is written where a UDP header
\* has it (RplBorderRouterP.nc:69-93).
THEOREM ShortHeaderIsRemoved ==
  ASSUME NEW p \in Packets, HasHeader(p), p.extra <= 30
  PROVE  /\ RemoveHeader(p).nxt = p.first
         /\ RemoveHeader(p).at = p.at + HeaderLength(p)
         /\ RemoveHeader(p).len = p.len - HeaderLength(p)
         /\ RemoveHeader(p).plen = p.plen - HeaderLength(p)
         /\ p.first = UDP => RemoveHeader(p).checksum = p.at + HeaderLength(p) + 6
<1>1. /\ length_in_bytes(p) = HeaderLength(p) /\ HeaderLength(p) \in Nat
      /\ p.plen \in Nat /\ p.plen < 65536 /\ HeaderLength(p) <= p.plen
  BY EightBits DEF HasHeader, Packets
<1>2. (p.plen - HeaderLength(p)) % 65536 = p.plen - HeaderLength(p)
  BY <1>1
<1>3. QED
  BY <1>1, <1>2, RemovedFields DEF HasHeader

\* Of a longer header 256 bytes or more are left in front of the payload, though the
\* IPv6 header already names the payload's protocol; for UDP the checksum goes into
\* what is left (RplBorderRouterP.nc:69-93).
THEOREM LongHeaderIsNotRemoved ==
  ASSUME NEW p \in Packets, HasHeader(p), p.extra > 30
  PROVE  /\ RemoveHeader(p).nxt = p.first
         /\ RemoveHeader(p).at + 256 <= p.at + HeaderLength(p)
         /\ p.first = UDP => RemoveHeader(p).checksum < p.at + HeaderLength(p)
<1>1. /\ length_in_bytes(p) <= HeaderLength(p) - 256
      /\ HeaderLength(p) \in Int /\ length_in_bytes(p) \in Int /\ p.at \in Int
  <2>1. p.at \in Int
    BY DEF Packets
  <2>2. QED
    BY <2>1, EightBits
<1>2. QED
  BY <1>1, RemovedFields DEF HasHeader
=================================================================================
