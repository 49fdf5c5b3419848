------------------------------ MODULE Backoff ------------------------------
(***************************************************************************)
(* How long an operation waits after its n-th failure.  The code computes   *)
(* 2^n seconds as a 64-bit number of nanoseconds, which wraps, and then     *)
(* applies a cap.  Here a 64-bit word is its four 16-bit digits, the most   *)
(* significant first, and 2^n seconds is one second doubled n times.        *)
(***************************************************************************)
EXTENDS Integers

CONSTANT Cap   \* the longest wait, in seconds

ASSUME CapAssumption == Cap \in 1 .. 32767

Base  == 65536
Digit == 0 .. Base - 1
Word == [1 .. 4 -> Digit]

\* k * d, without what does not fit into 64 bits.
Times(k, d) ==
  LET carry[i \in 1 .. 5] == IF i = 5 THEN 0 ELSE (k * d[i] + carry[i + 1]) \div Base
  IN  [i \in 1 .. 4 |-> (k * d[i] + carry[i + 1]) % Base]

\* time.Second = 10^9
Second == <<0, 0, 15258, 51712>>
Zero   == <<0, 0, 0, 0>>

\* The words are signed.
Negative(d) == d[1] >= 32768

Less(d, e) == \E i \in 1 .. 4 : d[i] < e[i] /\ \A j \in 1 .. i - 1 : d[j] = e[j]

Exceeds(d, e) == ~Negative(d) /\ Less(e, d)

\* time.Duration(math.Pow(2, n)) * time.Second
Power[n \in 0 .. 62] == IF n = 0 THEN Second ELSE Times(2, Power[n - 1])

\* 2^63 does not fit an int64: the conversion yields the smallest value or,
\* on other processors, the largest; times a second that is 0 or -1 second.
MinusSecond == <<65535, 65535, 50277, 13824>>

Product(n) == IF n < 63 THEN {Power[n]} ELSE {Zero, MinusSecond}

\* A positive product that is not above the cap has not wrapped.
Seconds(d) == CHOOSE s \in 1 .. Cap : Times(s, Second) = d

\* Wrong: without the test for values that are not positive.
UncheckedBackoff(n) ==
  {IF Exceeds(d, Times(Cap, Second)) THEN Cap
   ELSE IF Negative(d) \/ d = Zero THEN 0 ELSE Seconds(d) : d \in Product(n)}

\* Wrong: without the cap.
UncappedBackoff(n) == {2 ^ n}

\* The waits backoff(n) may return.
BackoffOf(n) ==
  {IF Exceeds(d, Times(Cap, Second)) \/ Negative(d) \/ d = Zero THEN Cap ELSE Seconds(d) :
     d \in Product(n)}
=============================================================================
