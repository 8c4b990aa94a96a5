---------------------------- MODULE Timestamps ----------------------------
(***************************************************************************)
(* posted_at: a Slack ts "seconds.micros" becomes a time by two roads, the *)
(* digits of tsToTime in `serve` and the float64 of parseTS in `backfill`, *)
(* and both write the same column: a timestamptz in Postgres, RFC3339Nano  *)
(* text in SQLite.  A message is known by the microseconds of its ts; the  *)
(* messages of a run are posted within one second.                         *)
(***************************************************************************)
EXTENDS Integers

CONSTANT
    Messages    \* the microseconds of each ts: six digits

ASSUME TimestampsAssumption ==
    Messages \subseteq Nat /\ \A u \in Messages : u < 1000000

VARIABLE
    posted_at   \* the time each row was last upserted with, in nanoseconds
                \* into the second; NoTime: no row

NoTime == -1
Second == 1000000000

\* A row has a time within the second of the ts; without a row there is none.
TimeTypeOK == posted_at \in [Messages -> NoTime..(Second - 1)]

TimeInit == posted_at = [u \in Messages |-> NoTime]
-----------------------------------------------------------------------------
\* Mutant: the fraction is read as it is.
tsToTimeUnpadded(u) == u

\* The six digits of the fraction are padded to nine: nanoseconds.
tsToTime(u) == 1000 * u

(***************************************************************************)
(* ParseFloat: the seconds lie in 2^30..2^31-1 (until 2038), where float64 *)
(* has 22 bits for the fraction, so that it holds the multiple of 2^-22    *)
(* nearest to the ts: u * 2^22 / 10^6 = u * 65536 / 15625, rounded (there  *)
(* are no ties).  Written so that every product stays below 2^31.          *)
(***************************************************************************)
Float(u) == 65536 * (u \div 15625) + (65536 * (u % 15625) + 7812) \div 15625

\* Mutant: the fraction is converted before it is scaled.
parseTSTruncated(u) == 0

\* The fraction times 1e9, which is exact, cut to an integer: of k / 2^22 it
\* is k * 1953125 / 8192.
parseTS(u) ==
    LET c == Float(u) \div 8192
        d == Float(u) % 8192
    IN  1953125 * c + 238 * d + (3429 * d) \div 8192

ServeWrites(u) == posted_at' = [posted_at EXCEPT ![u] = tsToTime(u)]

BackfillWrites(u) == posted_at' = [posted_at EXCEPT ![u] = parseTS(u)]

Delete(u) == posted_at' = [posted_at EXCEPT ![u] = NoTime]

TimeNext == \E u \in Messages : ServeWrites(u) \/ BackfillWrites(u) \/ Delete(u)

TimeSpec == TimeInit /\ [][TimeNext]_posted_at
-----------------------------------------------------------------------------
\* Postgres: timestamptz keeps microseconds; the driver cuts off the rest.
timestamptz(nsec) == 1000 * (nsec \div 1000)

(***************************************************************************)
(* SQLite: the digits of the fraction without the zeros at its end, and    *)
(* then "Z", which sorts after every digit, as it does after the "." that  *)
(* a time without a fraction does not have.  Texts are compared from the   *)
(* left: at the first place where they differ.                             *)
(***************************************************************************)
Places == {1, 10, 100, 1000, 10000, 100000, 1000000, 10000000, 100000000}
Z == 10

rfc(nsec) ==
    [p \in Places |-> IF nsec % (10 * p) = 0 THEN Z ELSE (nsec \div p) % 10]

TextBefore(s, t) ==
    \E p \in Places : s[p] < t[p] /\ \A q \in Places : q > p => s[q] = t[q]
-----------------------------------------------------------------------------
HasTime(u) == posted_at[u] # NoTime

\* The digits of the time a, without its zeros, are the first digits of b.
CutShort(a, b) == \E p \in Places : a = b - (b % (10 * p))

\* ORDER BY posted_at keeps the order in which two messages were posted,
\* whichever process wrote each of them, with one exception in each store: in
\* Postgres neighbours, one microsecond apart, may have the same time, and in
\* SQLite a time cut short sorts after the times that go on from its digits.
OrderKept ==
    \A u, v \in Messages : HasTime(u) /\ HasTime(v) /\ u < v =>
        LET a == posted_at[u]
            b == posted_at[v]
        IN  /\ \/ timestamptz(a) < timestamptz(b)
               \/ timestamptz(a) = timestamptz(b) /\ v = u + 1
            /\ TextBefore(rfc(a), rfc(b)) \/ CutShort(a, b)

\* A time is at most 120 nanoseconds off its ts, as SQLite keeps it; cut to
\* microseconds, it is the ts or one microsecond less.
WithinMicrosecond ==
    \A u \in Messages : HasTime(u) =>
        /\ posted_at[u] \in (1000 * u - 120)..(1000 * u + 119)
        /\ timestamptz(posted_at[u]) \in {1000 * u - 1000, 1000 * u}
=============================================================================
