-------------------------- MODULE Circadian_proofs --------------------------
(* A schedule that is read and saved again stays as it is, for every white *)
(* point and every model.  The leaves that hold large numbers are for Z3.  *)
EXTENDS Circadian, TLAPS

-----------------------------------------------------------------------------
(* Integers.                                                               *)

\* A number is its quotient times the divisor, and less than one divisor more.
LEMMA Quotient ==
  ASSUME NEW a \in Nat, NEW n \in Nat, n > 0
  PROVE  /\ a \div n \in Nat
         /\ n * (a \div n) <= a
         /\ a < n * (a \div n) + n
  BY Z3

\* Nothing else is its quotient.
LEMMA OneQuotient ==
  ASSUME NEW k \in Nat, k > 0, NEW n \in Int, NEW s \in Int, 0 <= s, s < k
  PROVE  (k * n + s) \div k = n
  BY Z3

\* Twice the half is the number or one short of it.
LEMMA Half ==
  ASSUME NEW k \in Nat
  PROVE  /\ k \div 2 \in Nat
         /\ 2 * (k \div 2) <= k
         /\ k <= 2 * (k \div 2) + 1
  BY Z3

\* Multiplication by a natural number keeps the order.
LEMMA Scaled ==
  ASSUME NEW k \in Nat, NEW m \in Int, NEW n \in Int, m <= n
  PROVE  k * m <= k * n
  BY Z3

-----------------------------------------------------------------------------
(* The mired of a kelvin, as a number.                                     *)

\* It is the nearest: twice the error is at most the divisor.
LEMMA Nearest ==
  ASSUME NEW k \in Nat, k > 0, NEW m \in Int, m = (1000000 + k \div 2) \div k
  PROVE  /\ m \in Nat
         /\ 2 * (k * m) <= 2000000 + k
         /\ 2000000 < 2 * (k * m) + k
<1>1. PICK h \in Nat : h = k \div 2 /\ 2 * h <= k /\ k <= 2 * h + 1
  BY Half, Z3
<1>2. PICK a \in Nat : a = 1000000 + h
  BY Z3
<1>3. m = a \div k
  BY <1>1, <1>2, Z3
<1>4. m \in Nat /\ k * m <= a /\ a < k * m + k
  BY <1>3, Quotient, Z3
<1>5. PICK p \in Int : p = k * m
  BY Z3
<1> QED
  BY <1>1, <1>2, <1>4, <1>5, Z3

\* It fits in two bytes, by far, and is not 0.
LEMMA MiredBounds ==
  ASSUME NEW k \in Nat, 2100 <= k, k <= 6535, NEW m \in Nat,
         2 * (k * m) <= 2000000 + k, 2000000 < 2 * (k * m) + k
  PROVE  153 <= m /\ m <= 476
<1>1. m <= 476
  <2> SUFFICES ASSUME 477 <= m
               PROVE  FALSE
    BY Z3
  <2>1. k * 477 <= k * m
    BY Scaled, Z3
  <2>2. PICK p \in Int : p = k * m
    BY Z3
  <2> QED
    BY <2>1, <2>2, Z3
<1>2. 153 <= m
  <2> SUFFICES ASSUME m <= 152
               PROVE  FALSE
    BY Z3
  <2>1. k * m <= k * 152
    BY Scaled, Z3
  <2>2. PICK p \in Int : p = k * m
    BY Z3
  <2> QED
    BY <2>1, <2>2, Z3
<1> QED
  BY <1>1, <1>2, Z3

\* No other number is as near.
LEMMA OneNearest ==
  ASSUME NEW k \in Nat, k > 0, NEW m \in Nat,
         2 * (k * m) <= 2000000 + k, 2000000 < 2 * (k * m) + k
  PROVE  (1000000 + k \div 2) \div k = m
<1>1. PICK h \in Nat : h = k \div 2 /\ 2 * h <= k /\ k <= 2 * h + 1
  BY Half, Z3
<1>2. PICK p \in Nat : p = k * m
  BY Z3
<1>3. PICK s \in Int : s = 1000000 + h - p
  BY Z3
<1>4. 0 <= s /\ s < k
  BY <1>1, <1>2, <1>3, Z3
<1>5. (k * m + s) \div k = m
  BY <1>4, OneQuotient, Z3
<1>6. k * m + s = 1000000 + h
  BY <1>2, <1>3, Z3
<1> QED
  BY <1>1, <1>5, <1>6, Z3

\* A kelvin that is the quotient by a mired has that mired.
LEMMA BackAndForth ==
  ASSUME NEW k \in Nat, 2100 <= k, k <= 6535, NEW n \in Nat,
         n * k <= 1000000, 1000000 < n * k + n
  PROVE  (1000000 + k \div 2) \div k = n
<1>1. n * 2100 <= n * k
  BY Scaled, Z3
<1>2. PICK p \in Nat : p = n * k /\ p = k * n
  BY Z3
<1>3. n <= 476
  BY <1>1, <1>2, Z3
<1>4. 2 * (k * n) <= 2000000 + k /\ 2000000 < 2 * (k * n) + k
  BY <1>2, <1>3, Z3
<1> QED
  BY <1>4, OneNearest, Z3

\* When the kelvin c gives the mired m, and the quotient by m is less than min,
\* at most c, then min gives m too.
LEMMA FromBelow ==
  ASSUME NEW min \in Nat, 2100 <= min, NEW c \in Nat, min <= c, c <= 6535,
         NEW m \in Nat, 153 <= m, NEW p \in Nat, p < min,
         2 * (c * m) <= 2000000 + c, 1000000 < m * p + m
  PROVE  (1000000 + min \div 2) \div min = m
<1>1. m * (p + 1) <= m * min /\ m * (p + 1) = m * p + m /\ m * min = min * m
  BY Scaled, Z3
<1>2. 2000000 < 2 * (min * m) + min
  <2>1. PICK q \in Nat, r \in Nat : q = m * p /\ r = min * m
    BY Z3
  <2> QED
    BY <1>1, <2>1, Z3
<1>3. PICK d \in Nat : d = 2 * m - 1
  BY Z3
<1>4. d * min <= d * c
  BY Scaled, Z3
<1>5. d * min = 2 * (min * m) - min /\ d * c = 2 * (c * m) - c
  BY <1>3, Z3
<1>6. 2 * (min * m) <= 2000000 + min
  <2>1. PICK q \in Nat, r \in Nat : q = c * m /\ r = min * m
    BY Z3
  <2> QED
    BY <1>4, <1>5, <2>1, Z3
<1> QED
  BY <1>2, <1>6, OneNearest, Z3

\* The same of a quotient that is more than max, at least c.
LEMMA FromAbove ==
  ASSUME NEW max \in Nat, NEW c \in Nat, 2100 <= c, c <= max,
         NEW m \in Nat, NEW p \in Nat, max < p,
         2000000 < 2 * (c * m) + c, m * p <= 1000000
  PROVE  (1000000 + max \div 2) \div max = m
<1>1. m * max <= m * p /\ m * max = max * m
  BY Scaled, Z3
<1>2. 2 * (max * m) <= 2000000 + max
  <2>1. PICK q \in Nat, r \in Nat : q = m * p /\ r = max * m
    BY Z3
  <2> QED
    BY <1>1, <2>1, Z3
<1>3. PICK d \in Nat : d = 2 * m + 1
  BY Z3
<1>4. d * c <= d * max
  BY Scaled, Z3
<1>5. d * max = 2 * (max * m) + max /\ d * c = 2 * (c * m) + c
  BY <1>3, Z3
<1>6. 2000000 < 2 * (max * m) + max
  <2>1. PICK q \in Nat, r \in Nat : q = c * m /\ r = max * m
    BY Z3
  <2> QED
    BY <1>4, <1>5, <2>1, Z3
<1> QED
  BY <1>2, <1>6, OneNearest, Z3

\* What is sent and read back for a white point, c once it is in the range: the
\* mired m, then the kelvin p.
LEMMA Written ==
  ASSUME NEW min \in Nat, NEW max \in Nat, 2100 <= min, min <= max, max <= 6535,
         NEW c \in Nat, min <= c, c <= max,
         NEW m \in Int, m = (1000000 + c \div 2) \div c,
         NEW p \in Int, p = 1000000 \div m,
         NEW q \in Int, p < min => q = min, max < p => q = max,
         (min <= p /\ p <= max) => q = p
  PROVE  /\ 153 <= m /\ m <= 476
         /\ 1200 <= p /\ p <= 6535
         /\ (1000000 + q \div 2) \div q = m
<1>1. m \in Nat /\ 2 * (c * m) <= 2000000 + c /\ 2000000 < 2 * (c * m) + c
  BY Nearest, Z3
<1>2. 153 <= m /\ m <= 476
  BY <1>1, MiredBounds, Z3
<1>3. p \in Nat /\ m * p <= 1000000 /\ 1000000 < m * p + m
  BY <1>1, <1>2, Quotient, Z3
<1>4. 1200 <= p /\ p <= 6535
  <2>1. p * 153 <= p * m /\ p * m <= p * 476 /\ p * m = m * p
    BY <1>1, <1>2, <1>3, Scaled, Z3
  <2>2. PICK r \in Nat : r = m * p
    BY <1>1, <1>3, Z3
  <2> QED
    BY <1>2, <1>3, <2>1, <2>2, Z3
<1>5. CASE p < min
  <2>1. (1000000 + min \div 2) \div min = m
    BY <1>1, <1>2, <1>3, <1>5, FromBelow, Z3
  <2> QED
    BY <1>2, <1>4, <1>5, <2>1, Z3
<1>6. CASE max < p
  <2>1. (1000000 + max \div 2) \div max = m
    BY <1>1, <1>2, <1>3, <1>6, FromAbove, Z3
  <2>2. q = max
    BY <1>3, <1>6, Z3
  <2> QED
    BY <1>2, <1>4, <2>1, <2>2, Z3
<1>7. CASE min <= p /\ p <= max
  <2>1. (1000000 + p \div 2) \div p = m
    BY <1>1, <1>3, <1>7, BackAndForth, Z3
  <2>2. q = p
    BY <1>3, <1>7, Z3
  <2> QED
    BY <1>2, <1>4, <2>1, <2>2, Z3
<1> QED
  BY <1>3, <1>5, <1>6, <1>7, Z3

-----------------------------------------------------------------------------

(* The white points of a schedule, for a range within the widest.         *)

\* A white point whose kelvin lies in the range is sent as it was read.
LEMMA SameMiredsIn ==
  ASSUME NEW min \in Nat, NEW max \in Nat, 2100 <= min, min <= max, max <= 6535,
         NEW n \in Nat, n > 0, NEW k \in Int, k = 1000000 \div n, min <= k, k <= max
  PROVE  Encoded(k, min, max) = n
<1>1. n * k <= 1000000 /\ 1000000 < n * k + n
  BY Quotient, Z3
<1>2. (1000000 + k \div 2) \div k = n
  BY <1>1, BackAndForth, Z3
<1>3. Within(k, min, max) = k
  BY Z3 DEF Within
<1> QED
  BY <1>2, <1>3, Z3 DEF Encoded, Mired

\* What is sent for an accepted kelvin fits two bytes, is accepted when read, and is sent again.
LEMMA WrittenIn ==
  ASSUME NEW min \in Nat, NEW max \in Nat, <<min, max>> \in color_temperature_range,
         NEW k \in Accepted
  PROVE  /\ Encoded(k, min, max) \in TwoBytes
         /\ Parsed(Encoded(k, min, max)) \in Accepted
         /\ Encoded(Parsed(Encoded(k, min, max)), min, max) = Encoded(k, min, max)
<1>1. 2100 <= min /\ min <= max /\ max <= 6535
  BY Z3 DEF color_temperature_range
<1>2. k \in Nat
  BY Z3 DEF Accepted
<1>3. PICK c \in Nat : c = (IF k < min THEN min ELSE IF k > max THEN max ELSE k)
  BY <1>2, Z3
<1>4. min <= c /\ c <= max
  BY <1>1, <1>2, <1>3, Z3
<1>5. PICK m \in Int : m = (1000000 + c \div 2) \div c
  BY <1>1, <1>4, Z3
<1>6. 153 <= m /\ m <= 476
  BY <1>1, <1>4, <1>5, Nearest, MiredBounds, Z3
<1>7. PICK p \in Int : p = 1000000 \div m
  BY <1>6, Z3
<1>8. PICK q \in Int : q = (IF p < min THEN min ELSE IF p > max THEN max ELSE p)
  BY Z3
<1>9. 1200 <= p /\ p <= 6535 /\ (1000000 + q \div 2) \div q = m
  <2>1. /\ p < min => q = min
        /\ max < p => q = max
        /\ (min <= p /\ p <= max) => q = p
    BY <1>1, <1>8, Z3
  <2> QED
    BY <1>1, <1>4, <1>5, <1>7, <2>1, Written, Z3
<1>10. Encoded(k, min, max) = m
  BY <1>2, <1>3, <1>5, Z3 DEF Encoded, Mired, Within
<1>11. Parsed(m) = p
  BY <1>6, <1>7, Z3 DEF Parsed
<1>12. Encoded(p, min, max) = m
  BY <1>8, <1>9, Z3 DEF Encoded, Mired, Within
<1>13. m \in TwoBytes
  BY <1>6, Z3 DEF TwoBytes
<1>14. p \in Accepted
  BY <1>9, Z3 DEF Accepted
<1> QED
  BY <1>10, <1>11, <1>12, <1>13, <1>14, Zenon

-----------------------------------------------------------------------------
(* For every model.                                                        *)

\* A white point that is in the range of the model, whoever has set it, is sent
\* as the bulb had it when the schedule it was read with is saved.
THEOREM SameMireds ==
  ASSUME NEW min \in Nat, NEW max \in Nat, <<min, max>> \in color_temperature_range,
         NEW n \in 1 .. 65535, Parsed(n) \in min .. max
  PROVE  Encoded(Parsed(n), min, max) = n
<1>1. 2100 <= min /\ min <= max /\ max <= 6535
  BY Z3 DEF color_temperature_range
<1>2. Parsed(n) = 1000000 \div n
  BY Z3 DEF Parsed
<1> QED
  BY <1>1, <1>2, SameMiredsIn, Z3

\* What is sent is in two bytes, and what is read back is a white point that the
\* user may send again.
THEOREM ReadAccepted ==
  ASSUME NEW min \in Nat, NEW max \in Nat, <<min, max>> \in color_temperature_range,
         NEW k \in Accepted
  PROVE  /\ Encoded(k, min, max) \in TwoBytes
         /\ Parsed(Encoded(k, min, max)) \in Accepted
  BY WrittenIn, Zenon

\* A schedule that is saved, read, and saved again does not drift, though the
\* white point read may lie out of the range of the model.
THEOREM SavedAgain ==
  ASSUME NEW min \in Nat, NEW max \in Nat, <<min, max>> \in color_temperature_range,
         NEW k \in Accepted
  PROVE  Encoded(Parsed(Encoded(k, min, max)), min, max) = Encoded(k, min, max)
  BY WrittenIn, Zenon
=============================================================================
