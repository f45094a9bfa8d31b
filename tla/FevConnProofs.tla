--------------------------- MODULE FevConnProofs ---------------------------
(***************************************************************************)
(* Proofs about the timer service (FevTmsvc, whose specification is Spec), *)
(* about asynchronous connects (FevConn, CSpec), for every set of timers,  *)
(* connections and descriptors, every delay and interval, every unit of    *)
(* time and any depth of passes within passes, and about the buffered I/O  *)
(* on a connection (FevBuff, BSpec), for every size of the buffers and     *)
(* every length of what is read and written.                               *)
(***************************************************************************)
EXTENDS FevConn, FevBuff, FmbufMathProofs, SequenceTheorems, WellFoundedInduction,
        TLAPS

-----------------------------------------------------------------------------
(* Arithmetic of time.                                                     *)

\* Euclid's division.
LEMMA Divided ==
  ASSUME NEW a \in Nat, NEW b \in Nat \ {0}
  PROVE  a \div b \in Nat /\ a % b \in 0..(b - 1) /\ a = (a \div b) * b + (a % b)
<1>1. a \div b \in Nat OBVIOUS
<1>2. a % b \in 0..(b - 1) OBVIOUS
<1>3. a = (a \div b) * b + (a % b) OBVIOUS
<1>. QED BY <1>1, <1>2, <1>3

\* Products with a positive factor.
LEMMA Scaled ==
  ASSUME NEW a \in Int, NEW b \in Int, NEW k \in Nat \ {0}
  PROVE  /\ a * k \in Int /\ b * k \in Int
         /\ a <= b => a * k <= b * k
         /\ a * k < b * k + k => a <= b
OBVIOUS

\* Seconds and milliseconds, in nanoseconds.
LEMMA Regrouped ==
  ASSUME NEW d \in Int, NEW m \in Nat, NEW k \in Nat, NEW c \in Int
  PROVE  (d * m + c) * k = d * (m * k) + c * k
OBVIOUS

\* The division of C is less than one off, toward zero.
LEMMA CDivided ==
  ASSUME NEW a \in Int, NEW b \in Nat \ {0}
  PROVE  /\ CDiv(a, b) \in Int /\ CDiv(a, b) * b \in Int
         /\ a < CDiv(a, b) * b + b
         /\ CDiv(a, b) * b < a + b
<1>1. CASE a >= 0
  <2>1. a \in Nat /\ CDiv(a, b) = a \div b BY <1>1 DEF CDiv
  <2>2. a \div b \in Nat /\ a % b \in 0..(b - 1) /\ a = (a \div b) * b + (a % b) BY <2>1, Divided
  <2>. QED BY <2>1, <2>2
<1>2. CASE ~(a >= 0)
  <2>. DEFINE c == -a
  <2>1. c \in Nat /\ CDiv(a, b) = -(c \div b) BY <1>2 DEF CDiv
  <2>2. c \div b \in Nat /\ c % b \in 0..(b - 1) /\ c = (c \div b) * b + (c % b) BY <2>1, Divided
  <2>. DEFINE q == c \div b
  <2>3. (-q) * b = -(q * b) /\ q * b \in Int BY <2>2
  <2>4. c = -a OBVIOUS
  <2>. HIDE DEF c
  <2>. QED BY <2>1, <2>2, <2>3, <2>4
<1>. QED BY <1>1, <1>2

\* A timespec as fev_tmmod_timeout finds it: one that was read off the clock is
\* normalised, the start of a timer need not be.
IsTimespec(ts) == ts.sec \in Nat /\ ts.nsec \in Nat
IsClock(ts) == IsTimespec(ts) /\ ts.nsec < NS_PER_SECOND

\* A second has nanoseconds.
LEMMA SecondPositive == NS_PER_SECOND \in Nat \ {0} /\ NS_PER_SECOND = MS_PER_SECOND * NS_PER_MS
BY FevTmsvcAssumption DEF NS_PER_SECOND

\* Reading the clock loses nothing.
LEMMA TimespecIs ==
  ASSUME NEW c \in Nat
  PROVE  IsClock(Timespec(c)) /\ Ns(Timespec(c)) = c
<1>. DEFINE S == NS_PER_SECOND
<1>1. S \in Nat \ {0} BY SecondPositive
<1>. HIDE DEF S
<1>2. c \div S \in Nat /\ c % S \in 0..(S - 1) /\ c = (c \div S) * S + (c % S) BY <1>1, Divided
<1>3. /\ Timespec(c).sec = c \div S /\ Timespec(c).nsec = c % S BY DEF Timespec, S
<1>. QED BY <1>1, <1>2, <1>3 DEF IsClock, IsTimespec, Ns, S

\* What fev_tmmod_timeout computes, in nanoseconds: the time since the start in whole
\* milliseconds, less than one millisecond off.
LEMMA Elapsed ==
  ASSUME NEW start, NEW now, IsTimespec(start), IsTimespec(now), NEW e \in Nat
  PROVE  LET d == now.sec - start.sec
             n == now.nsec - start.nsec
             ms == d * MS_PER_SECOND + CDiv(n, NS_PER_MS)
             D == Ns(now) - Ns(start)
         IN  /\ d \in Int /\ n \in Int /\ ms \in Int /\ D \in Int
             /\ D = d * NS_PER_SECOND + n /\ d * NS_PER_SECOND \in Int
             /\ ms >= e => D > e * NS_PER_MS - NS_PER_MS
             /\ D >= e * NS_PER_MS => ms >= e
             /\ e * NS_PER_MS \in Int
<1>. DEFINE S == NS_PER_SECOND
            M == MS_PER_SECOND
            N == NS_PER_MS
            d == now.sec - start.sec
            n == now.nsec - start.nsec
            q == CDiv(n, N)
            ms == d * M + q
            D == Ns(now) - Ns(start)
<1>1. S \in Nat \ {0} /\ S = M * N /\ M \in Nat \ {0} /\ N \in Nat \ {0}
  BY SecondPositive, FevTmsvcAssumption
<1>2. /\ now.sec \in Nat /\ start.sec \in Nat /\ d \in Int /\ n \in Int
      /\ now.nsec \in Nat /\ start.nsec \in Nat
  BY DEF IsTimespec
<1>3. D = (now.sec * S + now.nsec) - (start.sec * S + start.nsec) BY DEF Ns
<1>. HIDE DEF S, M, N
<1>4. d * S = now.sec * S - start.sec * S /\ now.sec * S \in Int /\ start.sec * S \in Int
  BY <1>1, <1>2
<1>5. D = d * S + n /\ D \in Int /\ d * S \in Int BY <1>1, <1>2, <1>3, <1>4
<1>6. q \in Int /\ q * N \in Int /\ n < q * N + N /\ q * N < n + N BY <1>1, <1>2, CDivided
<1>. HIDE DEF d, n, D, q
<1>7. ms \in Int /\ ms * N = d * S + q * N
  <2>1. ms * N = d * (M * N) + q * N BY <1>1, <1>2, <1>6, Regrouped
  <2>. QED BY <1>1, <1>2, <1>6, <2>1
<1>. HIDE DEF ms
<1>8. /\ e * N \in Int /\ ms * N \in Int
      /\ e <= ms => e * N <= ms * N
      /\ e * N < ms * N + N => e <= ms
  BY <1>1, <1>7, Scaled
<1>9. ms >= e => D > e * N - N BY <1>1, <1>2, <1>5, <1>6, <1>7, <1>8
<1>10. D >= e * N => ms >= e BY <1>1, <1>2, <1>5, <1>6, <1>7, <1>8
<1>. QED BY <1>2, <1>5, <1>7, <1>8, <1>9, <1>10 DEF d, n, D, q, ms, S, M, N

\* A timer that is called is less than a millisecond early, and one that is due is
\* called, whatever its start time looks like.
LEMMA TimeoutExact ==
  ASSUME NEW n, NEW now, IsTimespec(n.start), n.expiration \in Nat, IsClock(now)
  PROVE  /\ Ns(now) \in Int /\ Due(n) \in Int
         /\ fev_tmmod_timeout(n, now) => Ns(now) - Due(n) > -NS_PER_MS
         /\ Due(n) <= Ns(now) => fev_tmmod_timeout(n, now)
<1>. DEFINE S == NS_PER_SECOND
            N == NS_PER_MS
            e == n.expiration
            d == now.sec - n.start.sec
            x == now.nsec - n.start.nsec
            ms == d * MS_PER_SECOND + CDiv(x, N)
            D == Ns(now) - Ns(n.start)
<1>1. S \in Nat \ {0} /\ N \in Nat \ {0} BY SecondPositive, FevTmsvcAssumption
<1>2. /\ now.sec \in Nat /\ now.nsec \in Nat /\ n.start.sec \in Nat /\ n.start.nsec \in Nat
      /\ now.nsec < S /\ IsTimespec(now)
  BY DEF IsClock, IsTimespec
<1>3. /\ d \in Int /\ x \in Int /\ ms \in Int /\ D \in Int
      /\ D = d * S + x /\ d * S \in Int
      /\ ms >= e => D > e * N - N
      /\ D >= e * N => ms >= e
      /\ e * N \in Int
  BY <1>2, Elapsed
<1>4. Ns(now) \in Int /\ Ns(n.start) \in Int
  <2>1. now.sec * S \in Int /\ n.start.sec * S \in Int BY <1>1, <1>2
  <2>. QED BY <1>2, <2>1 DEF Ns
<1>5. Due(n) = Ns(n.start) + e * N BY DEF Due
<1>6. x < S BY <1>1, <1>2
<1>7. fev_tmmod_timeout(n, now) <=> d >= 0 /\ ~(d = 0 /\ x < 0) /\ ms >= e
  BY DEF fev_tmmod_timeout
<1>8. D = Ns(now) - Ns(n.start) OBVIOUS
<1>. HIDE DEF S, N, e, d, x, ms, D
<1>9. fev_tmmod_timeout(n, now) => Ns(now) - Due(n) > -N BY <1>1, <1>3, <1>4, <1>5, <1>7, <1>8
<1>10. ASSUME Due(n) <= Ns(now) PROVE fev_tmmod_timeout(n, now)
  <2>1. e \in Nat /\ e * N >= 0 BY <1>1 DEF e
  <2>2. D >= e * N /\ D >= 0 BY <1>3, <1>4, <1>5, <1>8, <1>10, <2>1
  <2>3. d >= 0
    <3>1. 0 * S < d * S + S BY <1>1, <1>3, <1>6, <2>2
    <3>. QED BY <1>1, <1>3, <3>1, Scaled
  <2>4. d = 0 => x >= 0 BY <1>1, <1>3, <2>2
  <2>. QED BY <1>3, <1>7, <2>2, <2>3, <2>4
<1>. QED BY <1>3, <1>4, <1>5, <1>9, <1>10 DEF N
-----------------------------------------------------------------------------
(* Lists.                                                                  *)

\* The places of a sequence.
LEMMA Members ==
  ASSUME NEW X, NEW s \in Seq(X)
  PROVE  /\ Len(s) \in Nat /\ DOMAIN s = 1..Len(s)
         /\ \A i \in 1..Len(s) : s[i] \in X
         /\ \A x : x \in ToSet(s) <=> \E i \in 1..Len(s) : s[i] = x
<1>1. Len(s) \in Nat /\ DOMAIN s = 1..Len(s) BY LenProperties
<1>2. \A i \in 1..Len(s) : s[i] \in X BY ElementOfSeq
<1>3. \A x : x \in ToSet(s) <=> \E i \in 1..Len(s) : s[i] = x BY <1>1 DEF ToSet
<1>. QED BY <1>1, <1>2, <1>3

\* fdlist_create.
LEMMA EmptyList ==
  ASSUME NEW X
  PROVE  <<>> \in Seq(X) /\ Len(<<>>) = 0 /\ ToSet(<<>>) = {} /\ IsInjective(<<>>)
<1>1. <<>> \in Seq(X) /\ Len(<<>>) = 0 BY EmptySeq
<1>2. \A i \in 1..Len(<<>>) : FALSE BY <1>1
<1>3. ToSet(<<>>) = {}
  <2>1. \A x : x \notin ToSet(<<>>) BY <1>1, <1>2, Members
  <2>. QED BY <2>1
<1>4. IsInjective(<<>>)
  <2>1. DOMAIN <<>> = 1..Len(<<>>) BY <1>1, Members
  <2>. QED BY <1>2, <2>1 DEF IsInjective
<1>. QED BY <1>1, <1>3, <1>4

\* fdlist_push.
LEMMA Pushed ==
  ASSUME NEW X, NEW s \in Seq(X), NEW e \in X
  PROVE  /\ fdlist_push(s, e) \in Seq(X)
         /\ ToSet(fdlist_push(s, e)) = ToSet(s) \cup {e}
         /\ IsInjective(s) /\ e \notin ToSet(s) => IsInjective(fdlist_push(s, e))
<1>. DEFINE a == Append(s, e)
            n == Len(s)
<1>1. /\ a \in Seq(X) /\ Len(a) = n + 1
      /\ \A i \in 1..n : a[i] = s[i]
      /\ a[n + 1] = e
  BY AppendProperties
<1>2. n \in Nat /\ DOMAIN s = 1..n BY Members
<1>3. Len(a) \in Nat /\ DOMAIN a = 1..Len(a) BY <1>1, Members
<1>4. \A x : x \in ToSet(a) <=> \E i \in 1..Len(a) : a[i] = x BY <1>1, Members
<1>5. \A x : x \in ToSet(s) <=> \E i \in 1..n : s[i] = x BY Members
<1>. HIDE DEF a, n
<1>6. \A i \in 1..(n + 1) : i \in 1..n \/ i = n + 1 BY <1>2
<1>7. \A i \in 1..n : i \in 1..(n + 1) BY <1>2
<1>8. n + 1 \in 1..(n + 1) BY <1>2
<1>9. ToSet(a) = ToSet(s) \cup {e}
  <2>1. ASSUME NEW x \in ToSet(a) PROVE x \in ToSet(s) \cup {e} BY <1>1, <1>4, <1>5, <1>6
  <2>2. ASSUME NEW x \in ToSet(s) PROVE x \in ToSet(a) BY <1>1, <1>4, <1>5, <1>7
  <2>3. e \in ToSet(a) BY <1>1, <1>4, <1>8
  <2>. QED BY <2>1, <2>2, <2>3
<1>10. ASSUME IsInjective(s), e \notin ToSet(s) PROVE IsInjective(a)
  <2>1. ASSUME NEW i \in 1..(n + 1), NEW j \in 1..(n + 1), a[i] = a[j] PROVE i = j
    <3>1. CASE i \in 1..n /\ j \in 1..n BY <1>1, <1>2, <1>10, <2>1, <3>1 DEF IsInjective
    <3>2. CASE i \in 1..n /\ j = n + 1 BY <1>1, <1>5, <1>10, <2>1, <3>2
    <3>3. CASE i = n + 1 /\ j \in 1..n BY <1>1, <1>5, <1>10, <2>1, <3>3
    <3>. QED BY <1>6, <3>1, <3>2, <3>3
  <2>. QED BY <1>1, <1>3, <2>1 DEF IsInjective
<1>. QED BY <1>1, <1>9, <1>10 DEF a, fdlist_push

\* fdlist_pop.
LEMMA PoppedOff ==
  ASSUME NEW X, NEW s \in Seq(X), s # <<>>
  PROVE  /\ fdlist_pop(s) \in Seq(X)
         /\ Head(s) \in X /\ ToSet(s) = ToSet(fdlist_pop(s)) \cup {Head(s)}
         /\ IsInjective(s) => IsInjective(fdlist_pop(s)) /\ Head(s) \notin ToSet(fdlist_pop(s))
<1>. DEFINE a == Tail(s)
            n == Len(s)
<1>1. n \in Nat /\ DOMAIN s = 1..n BY Members
<1>2. n # 0 BY EmptySeq
<1>3. /\ Head(s) \in X /\ a \in Seq(X) /\ Len(a) = n - 1
      /\ \A i \in 1..Len(a) : a[i] = s[i + 1]
  BY HeadTailProperties
<1>4. Head(s) = s[1] OBVIOUS
<1>5. DOMAIN a = 1..Len(a) BY <1>3, Members
<1>6. \A x : x \in ToSet(a) <=> \E i \in 1..Len(a) : a[i] = x BY <1>3, Members
<1>7. \A x : x \in ToSet(s) <=> \E i \in 1..n : s[i] = x BY Members
<1>. HIDE DEF a, n
<1>8. \A i \in 1..n : i = 1 \/ (i - 1 \in 1..Len(a) /\ (i - 1) + 1 = i) BY <1>1, <1>3
<1>9. \A i \in 1..Len(a) : i + 1 \in 1..n /\ i + 1 # 1 BY <1>1, <1>3
<1>10. 1 \in 1..n BY <1>1, <1>2
<1>11. ToSet(s) = ToSet(a) \cup {Head(s)}
  <2>1. ASSUME NEW x \in ToSet(s) PROVE x \in ToSet(a) \cup {Head(s)}
    <3>1. PICK i \in 1..n : s[i] = x BY <1>7
    <3>2. CASE i = 1 BY <1>4, <3>1, <3>2
    <3>3. CASE i - 1 \in 1..Len(a) /\ (i - 1) + 1 = i
      <4>1. a[i - 1] = x BY <1>3, <3>1, <3>3
      <4>. QED BY <1>6, <3>3, <4>1
    <3>. QED BY <1>8, <3>2, <3>3
  <2>2. ASSUME NEW x \in ToSet(a) PROVE x \in ToSet(s)
    <3>1. PICK i \in 1..Len(a) : a[i] = x BY <1>6
    <3>. QED BY <1>3, <1>7, <1>9, <3>1
  <2>3. Head(s) \in ToSet(s) BY <1>4, <1>7, <1>10
  <2>. QED BY <2>1, <2>2, <2>3
<1>12. ASSUME IsInjective(s) PROVE IsInjective(a) /\ Head(s) \notin ToSet(a)
  <2>1. ASSUME NEW i \in 1..Len(a), NEW j \in 1..Len(a), a[i] = a[j] PROVE i = j
    <3>1. s[i + 1] = s[j + 1] BY <1>3, <2>1
    <3>2. i + 1 = j + 1 BY <1>1, <1>9, <1>12, <3>1 DEF IsInjective
    <3>. QED BY <3>2
  <2>2. ASSUME NEW i \in 1..Len(a), a[i] = Head(s) PROVE FALSE
    <3>1. s[i + 1] = s[1] BY <1>3, <1>4, <2>2
    <3>. QED BY <1>1, <1>9, <1>10, <1>12, <3>1 DEF IsInjective
  <2>. QED BY <1>5, <1>6, <2>1, <2>2 DEF IsInjective
<1>. QED BY <1>3, <1>11, <1>12 DEF a, fdlist_pop

\* Two lists one after the other.
LEMMA Joined ==
  ASSUME NEW X, NEW s \in Seq(X), NEW r \in Seq(X)
  PROVE  /\ ToSet(s \o r) = ToSet(s) \cup ToSet(r)
         /\ IsInjective(s) /\ IsInjective(r) /\ ToSet(s) \cap ToSet(r) = {}
              => IsInjective(s \o r)
<1>. DEFINE a == s \o r
            m == Len(s)
            n == Len(r)
<1>1. /\ a \in Seq(X) /\ Len(a) = m + n
      /\ \A i \in 1..(m + n) : a[i] = IF i <= m THEN s[i] ELSE r[i - m]
  BY ConcatProperties
<1>2. m \in Nat /\ n \in Nat /\ DOMAIN s = 1..m /\ DOMAIN r = 1..n BY Members
<1>3. DOMAIN a = 1..Len(a) BY <1>1, Members
<1>4. \A x : x \in ToSet(a) <=> \E i \in 1..Len(a) : a[i] = x BY <1>1, Members
<1>5. \A x : x \in ToSet(s) <=> \E i \in 1..m : s[i] = x BY Members
<1>6. \A x : x \in ToSet(r) <=> \E i \in 1..n : r[i] = x BY Members
<1>. HIDE DEF a, m, n
<1>7. \A i \in 1..(m + n) : \/ i \in 1..m /\ a[i] = s[i]
                            \/ i - m \in 1..n /\ ~(i <= m) /\ a[i] = r[i - m]
  BY <1>1, <1>2
<1>8. \A i \in 1..m : i \in 1..(m + n) /\ a[i] = s[i] BY <1>1, <1>2
<1>9. \A i \in 1..n : i + m \in 1..(m + n) /\ a[i + m] = r[i]
  <2>1. ASSUME NEW i \in 1..n PROVE i + m \in 1..(m + n) /\ a[i + m] = r[i]
    <3>1. i + m \in 1..(m + n) /\ ~(i + m <= m) /\ (i + m) - m = i BY <1>2
    <3>2. a[i + m] = r[(i + m) - m] BY <1>1, <3>1
    <3>. QED BY <3>1, <3>2
  <2>. QED BY <2>1
<1>10. ToSet(a) = ToSet(s) \cup ToSet(r)
  <2>1. ASSUME NEW x \in ToSet(a) PROVE x \in ToSet(s) \cup ToSet(r)
    BY <1>1, <1>4, <1>5, <1>6, <1>7
  <2>2. ASSUME NEW x \in ToSet(s) PROVE x \in ToSet(a) BY <1>1, <1>4, <1>5, <1>8
  <2>3. ASSUME NEW x \in ToSet(r) PROVE x \in ToSet(a)
    <3>1. PICK i \in 1..n : r[i] = x BY <1>6
    <3>. QED BY <1>1, <1>4, <1>9, <3>1
  <2>. QED BY <2>1, <2>2, <2>3
<1>11. ASSUME IsInjective(s), IsInjective(r), ToSet(s) \cap ToSet(r) = {}
       PROVE  IsInjective(a)
  <2>1. ASSUME NEW i \in 1..(m + n), NEW j \in 1..(m + n), a[i] = a[j] PROVE i = j
    <3>1. CASE i \in 1..m /\ a[i] = s[i]
      <4>1. CASE j \in 1..m /\ a[j] = s[j] BY <1>2, <1>11, <2>1, <3>1, <4>1 DEF IsInjective
      <4>2. CASE j - m \in 1..n /\ a[j] = r[j - m]
        <5>1. a[i] \in ToSet(s) /\ a[i] \in ToSet(r) BY <1>5, <1>6, <2>1, <3>1, <4>2
        <5>. QED BY <1>11, <5>1
      <4>. QED BY <1>7, <4>1, <4>2
    <3>2. CASE i - m \in 1..n /\ a[i] = r[i - m]
      <4>1. CASE j \in 1..m /\ a[j] = s[j]
        <5>1. a[i] \in ToSet(s) /\ a[i] \in ToSet(r) BY <1>5, <1>6, <2>1, <3>2, <4>1
        <5>. QED BY <1>11, <5>1
      <4>2. CASE j - m \in 1..n /\ a[j] = r[j - m]
        <5>1. i - m = j - m BY <1>2, <1>11, <2>1, <3>2, <4>2 DEF IsInjective
        <5>. QED BY <1>2, <5>1
      <4>. QED BY <1>7, <4>1, <4>2
    <3>. QED BY <1>7, <3>1, <3>2
  <2>. QED BY <1>1, <1>3, <2>1 DEF IsInjective
<1>. QED BY <1>10, <1>11 DEF a
-----------------------------------------------------------------------------
(* The invariant of the timer service.                                     *)

Stamp == [sec : Nat, nsec : Nat]
Nodes == [start : Stamp, interval : Nat, expiration : Nat, valid : BOOLEAN, live : BOOLEAN]
Frame == [now : Stamp, cur : Timer \cup {NoTimer}, lag : Int, owes : SUBSET Timer]
Frames == 1..Len(stack)

ServiceTypes ==
  /\ clock \in Nat /\ node \in [Timer -> Nodes]
  /\ timer_list \in Seq(Timer) /\ backup_list \in Seq(Timer)
  /\ stack \in Seq(Frame)
  /\ \A t \in Timer : node[t].valid => node[t].live

\* The passes in progress: when they read the clock, and that only the innermost may
\* be between two callbacks; a running callback was not called too early.
InProgress ==
  \A i \in Frames : /\ IsClock(stack[i].now) /\ Ns(stack[i].now) <= clock
                    /\ i < Len(stack) => stack[i].cur # NoTimer
                    /\ stack[i].lag > -NS_PER_MS

\* OnePlace, place by place.
Separate ==
  /\ IsInjective(timer_list) /\ IsInjective(backup_list)
  /\ \A i, j \in Frames : stack[i].cur = stack[j].cur /\ stack[i].cur # NoTimer => i = j
  /\ \A t \in Timer : ~(t \in ToSet(timer_list) /\ t \in ToSet(backup_list))
  /\ \A i \in Frames : stack[i].cur \notin ToSet(timer_list) \cup ToSet(backup_list)
  /\ \A t \in Timer : node[t].live <=> \/ t \in ToSet(timer_list) \/ t \in ToSet(backup_list)
                                       \/ \E i \in Frames : stack[i].cur = t

\* What a pass owes a call is in front of it, valid, and due by the clock of every
\* pass inside it.
Owed ==
  /\ \A i \in Frames : \A t \in stack[i].owes :
       /\ t \in ToSet(timer_list) /\ node[t].valid
       /\ \A j \in Frames : Due(node[t]) <= Ns(stack[j].now)
  /\ Len(stack) = 0 => backup_list = <<>>

Service == ServiceTypes /\ InProgress /\ Separate /\ Owed

-----------------------------------------------------------------------------
(* What the steps do to the stack.                                         *)

\* The frames of the stack.
LEMMA Stack ==
  ASSUME ServiceTypes
  PROVE  /\ Len(stack) \in Nat /\ DOMAIN stack = Frames
         /\ \A i \in Frames : stack[i] \in Frame
         /\ stack = <<>> <=> Len(stack) = 0
<1>1. stack \in Seq(Frame) BY DEF ServiceTypes
<1>2. /\ Len(stack) \in Nat /\ DOMAIN stack = Frames
      /\ \A i \in Frames : stack[i] \in Frame
  BY <1>1, Members DEF Frames
<1>3. stack = <<>> <=> Len(stack) = 0 BY <1>1, EmptySeq
<1>. QED BY <1>2, <1>3

\* A sequence is a function on its positions.
LEMMA FunctionOf ==
  ASSUME NEW S, NEW f \in Seq(S)
  PROVE  f \in [1..Len(f) -> S]
<1>1. PICK n \in Nat : f \in [1..n -> S] BY SeqDef
<1>2. f \in Block(n, S) BY <1>1 DEF Block
<1>3. Len(f) = n BY <1>2, FunctionIsSeq
<1>. QED BY <1>1, <1>3

\* t is no longer owed a call.
LEMMA SettledIs ==
  ASSUME ServiceTypes, NEW t \in Timer
  PROVE  /\ Settled(t) \in Seq(Frame) /\ Len(Settled(t)) = Len(stack)
         /\ DOMAIN Settled(t) = Frames
         /\ \A i \in Frames : /\ Settled(t)[i].now = stack[i].now
                              /\ Settled(t)[i].cur = stack[i].cur
                              /\ Settled(t)[i].lag = stack[i].lag
                              /\ Settled(t)[i].owes = stack[i].owes \ {t}
<1>. DEFINE f == Settled(t)
<1>1. /\ Len(stack) \in Nat /\ DOMAIN stack = Frames
      /\ \A i \in Frames : stack[i] \in Frame
  BY Stack
<1>2. DOMAIN f = Frames BY <1>1 DEF Settled
<1>3. \A i \in Frames : f[i] = [stack[i] EXCEPT !.owes = @ \ {t}] BY <1>1 DEF Settled
<1>4. ASSUME NEW i \in Frames
      PROVE  /\ f[i] \in Frame /\ f[i].now = stack[i].now /\ f[i].cur = stack[i].cur
             /\ f[i].lag = stack[i].lag /\ f[i].owes = stack[i].owes \ {t}
  <2>. DEFINE r == stack[i]
              o == r.owes \ {t}
  <2>1. r \in Frame /\ o \in SUBSET Timer BY <1>1 DEF Frame
  <2>2. f[i] = [r EXCEPT !.owes = o] BY <1>3
  <2>. HIDE DEF f, r, o
  <2>3. /\ f[i] \in Frame /\ f[i].now = r.now /\ f[i].cur = r.cur
        /\ f[i].lag = r.lag /\ f[i].owes = o
    BY <2>1, <2>2 DEF Frame
  <2>. QED BY <2>3 DEF r, o
<1>5. f \in [Frames -> Frame] BY <1>1, <1>4 DEF Settled
<1>. HIDE DEF f
<1>6. f \in Block(Len(stack), Frame) BY <1>5 DEF Block, Frames
<1>7. f \in Seq(Frame) /\ Len(f) = Len(stack) BY <1>1, <1>6, FunctionIsSeq
<1>. QED BY <1>2, <1>4, <1>7 DEF f

OnTop(s, c, g) == [s EXCEPT ![Len(s)].cur = c, ![Len(s)].lag = g]

\* The callback of t is called, or the running one returns (c is NoTimer then).
LEMMA TopSet ==
  ASSUME NEW s \in Seq(Frame), NEW c \in Timer \cup {NoTimer}, NEW g \in Int, Len(s) # 0
  PROVE  /\ OnTop(s, c, g) \in Seq(Frame) /\ Len(OnTop(s, c, g)) = Len(s)
         /\ \A i \in 1..Len(s) : /\ OnTop(s, c, g)[i].now = s[i].now
                                 /\ OnTop(s, c, g)[i].owes = s[i].owes
                                 /\ i # Len(s) => /\ OnTop(s, c, g)[i].cur = s[i].cur
                                                  /\ OnTop(s, c, g)[i].lag = s[i].lag
         /\ OnTop(s, c, g)[Len(s)].cur = c /\ OnTop(s, c, g)[Len(s)].lag = g
<1>. DEFINE n == Len(s)
            r == [s EXCEPT ![n].cur = c, ![n].lag = g]
<1>1. n \in Nat /\ n \in 1..n /\ DOMAIN s = 1..n /\ \A i \in 1..n : s[i] \in Frame BY Members
<1>2. s \in [1..n -> Frame] BY FunctionOf
<1>. HIDE DEF n
<1>3. \A i \in 1..n : i # n => r[i] = s[i] BY <1>1
<1>4. r[n] = [s[n] EXCEPT !.cur = c, !.lag = g] BY <1>1
<1>5. /\ r[n] \in Frame /\ r[n].now = s[n].now /\ r[n].owes = s[n].owes
      /\ r[n].cur = c /\ r[n].lag = g
  BY <1>1, <1>4 DEF Frame
<1>6. r \in Block(n, Frame) BY <1>1, <1>2, <1>3, <1>5 DEF Block
<1>. HIDE DEF r
<1>7. r \in Seq(Frame) /\ Len(r) = n BY <1>1, <1>6, FunctionIsSeq
<1>8. \A i \in 1..n : r[i].now = s[i].now /\ r[i].owes = s[i].owes BY <1>3, <1>5
<1>9. \A i \in 1..n : i # n => r[i].cur = s[i].cur /\ r[i].lag = s[i].lag BY <1>3
<1>. QED BY <1>5, <1>7, <1>8, <1>9 DEF r, n, OnTop

\* The innermost pass ends.
LEMMA FrontIs ==
  ASSUME ServiceTypes, Len(stack) # 0
  PROVE  /\ Front(stack) \in Seq(Frame) /\ Len(Front(stack)) = Len(stack) - 1
         /\ \A i \in 1..(Len(stack) - 1) : i \in Frames /\ Front(stack)[i] = stack[i]
<1>. DEFINE n == Len(stack) - 1
            r == SubSeq(stack, 1, n)
<1>1. /\ stack \in Seq(Frame) /\ n \in Nat /\ \A i \in 1..n : stack[i] \in Frame /\ i \in Frames
  BY Stack DEF ServiceTypes, Frames
<1>2. Front(stack) = r BY DEF Front
<1>. HIDE DEF n
<1>3. 1 \in Nat /\ n - 1 + 1 = n /\ (IF 1 <= n THEN n - 1 + 1 ELSE 0) = n BY <1>1
<1>4. /\ r \in Seq(Frame)
      /\ Len(r) = (IF 1 <= n THEN n - 1 + 1 ELSE 0)
      /\ \A i \in 1..(n - 1 + 1) : r[i] = stack[1 + i - 1]
  BY <1>1, SubSeqProperties
<1>5. Len(r) = n /\ \A i \in 1..n : r[i] = stack[i] BY <1>1, <1>3, <1>4
<1>. QED BY <1>1, <1>2, <1>4, <1>5 DEF n

-----------------------------------------------------------------------------
(* The steps of the timer service keep its invariant.                      *)

\* What a released node looks like.
LEMMA FreedIs == Freed \in Nodes /\ ~Freed.valid /\ ~Freed.live
<1>1. Timespec(0) \in Stamp
  <2>1. IsClock(Timespec(0)) BY TimespecIs
  <2>. QED BY <2>1 DEF Timespec, Stamp, IsClock, IsTimespec
<1>. QED BY <1>1 DEF Freed, Nodes

\* The empty service.
LEMMA ServiceInit == Init => Service
<1>. SUFFICES ASSUME Init PROVE Service OBVIOUS
<1>1. /\ <<>> \in Seq(Timer) /\ <<>> \in Seq(Frame) /\ Len(<<>>) = 0
      /\ ToSet(<<>>) = {} /\ IsInjective(<<>>)
  BY EmptyList
<1>2. /\ clock = 0 /\ timer_list = <<>> /\ backup_list = <<>> /\ stack = <<>>
      /\ node = [t \in Timer |-> Freed]
  BY DEF Init, InitLists, fdlist_create
<1>3. Freed \in Nodes /\ ~Freed.valid /\ ~Freed.live BY FreedIs
<1>4. \A i \in Frames : FALSE BY <1>1, <1>2 DEF Frames
<1>5. ServiceTypes BY <1>1, <1>2, <1>3 DEF ServiceTypes
<1>6. InProgress BY <1>4 DEF InProgress
<1>7. Separate BY <1>1, <1>2, <1>3, <1>4 DEF Separate
<1>8. Owed BY <1>1, <1>2, <1>4 DEF Owed
<1>. QED BY <1>5, <1>6, <1>7, <1>8 DEF Service

\* The clock as a timespec.
LEMMA StampIs == \A c \in Nat : Timespec(c) \in Stamp /\ IsTimespec(Timespec(c))
<1>1. ASSUME NEW c \in Nat PROVE Timespec(c) \in Stamp /\ IsTimespec(Timespec(c))
  <2>1. IsClock(Timespec(c)) BY TimespecIs
  <2>. QED BY <2>1 DEF Timespec, Stamp, IsClock, IsTimespec
<1>. QED BY <1>1

\* A new node, at the tail of timer_list.
LEMMA ServiceNew ==
  ASSUME Service, NEW t \in Timer, ~node[t].live,
         node' = [node EXCEPT ![t] = node'[t]], node'[t] \in Nodes, node'[t].live,
         timer_list' = fdlist_push(timer_list, t), UNCHANGED <<clock, stack, backup_list>>
  PROVE  Service'
<1>1. ServiceTypes BY DEF Service
<1>2. /\ \A x \in Timer : x # t => node'[x] = node[x]
      /\ node' \in [Timer -> Nodes]
  BY <1>1 DEF ServiceTypes
<1>3. /\ t \notin ToSet(timer_list) /\ t \notin ToSet(backup_list)
      /\ \A i \in Frames : stack[i].cur # t
  BY DEF Service, Separate
<1>4. /\ timer_list' \in Seq(Timer) /\ ToSet(timer_list') = ToSet(timer_list) \cup {t}
      /\ IsInjective(timer_list) => IsInjective(timer_list')
  BY <1>1, <1>3, Pushed DEF ServiceTypes
<1>5. Frames' = Frames BY DEF Frames
<1>6. ServiceTypes' BY <1>1, <1>2, <1>4 DEF ServiceTypes
<1>7. InProgress' BY <1>5 DEF Service, InProgress
<1>8. Separate' BY <1>2, <1>3, <1>4, <1>5 DEF Service, Separate
<1>9. Owed'
  <2>1. ASSUME NEW i \in Frames, NEW x \in stack[i].owes PROVE x # t /\ x \in Timer
    <3>1. x \in Timer BY <1>1, Stack DEF Frame
    <3>. QED BY <1>1, <3>1 DEF Service, Owed, ServiceTypes
  <2>. QED BY <1>2, <1>4, <1>5, <2>1 DEF Service, Owed
<1>. QED BY <1>6, <1>7, <1>8, <1>9 DEF Service

\* fev_tmsvc_timer_add.
LEMMA ServiceAdd ==
  ASSUME Service, NEW t \in Timer, NEW delay \in Nat, NEW interval \in Nat,
         ~node[t].live, Add(t, delay, interval), UNCHANGED <<clock, stack>>
  PROVE  Service'
<1>. DEFINE m == [start |-> Now, interval |-> interval, expiration |-> delay,
                  valid |-> TRUE, live |-> TRUE]
<1>1. /\ node' = [node EXCEPT ![t] = m]
      /\ timer_list' = fdlist_push(timer_list, t) /\ UNCHANGED backup_list
  BY DEF Add
<1>2. node \in [Timer -> Nodes] /\ clock \in Nat BY DEF Service, ServiceTypes
<1>3. m \in Nodes /\ m.live
  <2>1. Now \in Stamp BY <1>2, StampIs DEF Now
  <2>. QED BY <2>1 DEF Nodes
<1>. HIDE DEF m
<1>4. node'[t] = m BY <1>1, <1>2
<1>. QED BY <1>1, <1>3, <1>4, ServiceNew

\* A timer is deleted or reset: it stays where it is, and is owed no call.
LEMMA ServiceSettle ==
  ASSUME Service, NEW t \in Timer, stack' = Settled(t), node' = [node EXCEPT ![t] = node'[t]],
         node'[t] \in Nodes, node'[t].live = node[t].live, node'[t].valid => node'[t].live,
         UNCHANGED <<clock, timer_list, backup_list>>
  PROVE  Service'
<1>1. ServiceTypes BY DEF Service
<1>2. /\ stack' \in Seq(Frame) /\ Len(stack') = Len(stack)
      /\ \A i \in Frames : /\ stack'[i].now = stack[i].now
                           /\ stack'[i].cur = stack[i].cur
                           /\ stack'[i].lag = stack[i].lag
                           /\ stack'[i].owes = stack[i].owes \ {t}
  BY <1>1, SettledIs
<1>3. Frames' = Frames BY <1>2 DEF Frames
<1>4. \A x \in Timer : x # t => node'[x] = node[x] BY <1>1 DEF ServiceTypes
<1>5. node' \in [Timer -> Nodes] BY <1>1 DEF ServiceTypes
<1>6. ServiceTypes' BY <1>1, <1>2, <1>4, <1>5 DEF ServiceTypes
<1>7. InProgress' BY <1>2, <1>3 DEF Service, InProgress
<1>8. Separate' BY <1>2, <1>3, <1>4 DEF Service, Separate
<1>9. Owed'
  <2>1. ASSUME NEW i \in Frames, NEW x \in stack'[i].owes
        PROVE  x \in stack[i].owes /\ node'[x] = node[x]
    <3>1. x \in stack[i].owes /\ x # t /\ x \in Timer BY <1>1, <1>2, Stack DEF Frame
    <3>. QED BY <1>4, <3>1
  <2>. QED BY <1>2, <1>3, <2>1 DEF Service, Owed
<1>. QED BY <1>6, <1>7, <1>8, <1>9 DEF Service

\* fev_tmsvc_timer_del, fev_tmsvc_timer_reset and fev_tmsvc_timer_resetn.
LEMMA ServiceApp ==
  ASSUME Service, NEW t \in Timer,
         fev_tmsvc_timer_del(t) \/ \E e \in Delays : fev_tmsvc_timer_resetn(t, e)
  PROVE  Service'
<1>1. ServiceTypes /\ node \in [Timer -> Nodes] /\ node[t] \in Nodes
  BY DEF Service, ServiceTypes
<1>2. CASE fev_tmsvc_timer_del(t)
  <2>1. /\ node[t].valid /\ node' = [node EXCEPT ![t].valid = FALSE] /\ stack' = Settled(t)
        /\ UNCHANGED <<clock, timer_list, backup_list>>
    BY <1>2 DEF fev_tmsvc_timer_del, Del
  <2>2. node'[t] = [node[t] EXCEPT !.valid = FALSE] BY <1>1, <2>1
  <2>3. node' = [node EXCEPT ![t] = node'[t]] BY <1>1, <2>1, <2>2
  <2>4. node'[t] \in Nodes /\ node'[t].live = node[t].live /\ ~node'[t].valid
    BY <1>1, <2>2 DEF Nodes
  <2>. QED BY <2>1, <2>3, <2>4, ServiceSettle
<1>3. ASSUME NEW e \in Delays, fev_tmsvc_timer_resetn(t, e) PROVE Service'
  <2>1. /\ node[t].live /\ node' = [node EXCEPT ![t].start = Now, ![t].expiration = e]
        /\ stack' = Settled(t)
        /\ UNCHANGED <<clock, timer_list, backup_list>>
    BY <1>3 DEF fev_tmsvc_timer_resetn
  <2>2. node'[t] = [node[t] EXCEPT !.start = Now, !.expiration = e] BY <1>1, <2>1
  <2>3. node' = [node EXCEPT ![t] = node'[t]] BY <1>1, <2>1, <2>2
  <2>4. Now \in Stamp /\ e \in Nat BY <1>1, StampIs, FevTmsvcAssumption DEF Now, ServiceTypes
  <2>5. node'[t] \in Nodes /\ node'[t].live = node[t].live BY <1>1, <2>2, <2>4 DEF Nodes
  <2>. QED BY <2>1, <2>3, <2>5, ServiceSettle
<1>. QED BY <1>2, <1>3

\* A pass begins.
LEMMA ServiceBegin ==
  ASSUME Service, InApp, Begin(stack), UNCHANGED <<clock, node, timer_list, backup_list>>
  PROVE  Service'
<1>. DEFINE o == {t \in Valid : stack = <<>> /\ Due(node[t]) <= clock}
            f == [now |-> Now, cur |-> NoTimer, lag |-> 0, owes |-> o]
            n == Len(stack)
<1>1. ServiceTypes BY DEF Service
<1>2. n \in Nat /\ stack \in Seq(Frame) /\ (stack = <<>> <=> n = 0)
      /\ \A i \in 1..n : stack[i] \in Frame
  BY <1>1, Stack DEF ServiceTypes, Frames
<1>3. Now \in Stamp /\ IsClock(Now) /\ Ns(Now) = clock
  BY <1>1, StampIs, TimespecIs DEF Now, ServiceTypes
<1>4. o \subseteq Timer BY DEF Valid
<1>5. stack' = Append(stack, f) BY DEF Begin
<1>. HIDE DEF o
<1>6. f \in Frame /\ f.now = Now /\ f.cur = NoTimer /\ f.lag = 0 /\ f.owes = o
  BY <1>3, <1>4 DEF Frame
<1>. HIDE DEF f
<1>7. /\ stack' \in Seq(Frame) /\ Len(stack') = n + 1
      /\ \A i \in 1..n : stack'[i] = stack[i]
      /\ stack'[n + 1] = f
  BY <1>2, <1>5, <1>6, AppendProperties
<1>8. Frames' = 1..(n + 1) /\ Frames = 1..n BY <1>7 DEF Frames
<1>9. \A i \in Frames' : (i \in 1..n /\ stack'[i] = stack[i]) \/ (i = n + 1 /\ stack'[i] = f)
  BY <1>2, <1>7, <1>8
<1>10. ServiceTypes' BY <1>1, <1>7 DEF ServiceTypes
<1>11. NoTimer \notin Timer /\ NS_PER_MS \in Nat \ {0} BY FevTmsvcAssumption
<1>12. InProgress'
  <2>1. ASSUME NEW i \in Frames'
        PROVE  /\ IsClock(stack'[i].now) /\ Ns(stack'[i].now) <= clock
               /\ i < Len(stack') => stack'[i].cur # NoTimer
               /\ stack'[i].lag > -NS_PER_MS
    <3>1. CASE i = n + 1 /\ stack'[i] = f
      <4>1. clock \in Nat BY <1>1 DEF ServiceTypes
      <4>. QED BY <1>2, <1>3, <1>6, <1>7, <1>11, <3>1, <4>1
    <3>2. CASE i \in 1..n /\ stack'[i] = stack[i]
      <4>1. /\ IsClock(stack[i].now) /\ Ns(stack[i].now) <= clock
            /\ i < n => stack[i].cur # NoTimer
            /\ stack[i].lag > -NS_PER_MS
        BY <1>8, <3>2 DEF Service, InProgress
      <4>2. stack[i].cur # NoTimer \/ i = n BY <1>2, <3>2, <4>1
      <4>3. stack[n].cur # NoTimer \/ n = 0 BY <1>2 DEF InApp, Top
      <4>. QED BY <3>2, <4>1, <4>2, <4>3
    <3>. QED BY <1>9, <3>1, <3>2
  <2>. QED BY <2>1 DEF InProgress
<1>13. Separate'
  <2>1. /\ IsInjective(timer_list') /\ IsInjective(backup_list')
        /\ \A t \in Timer : ~(t \in ToSet(timer_list') /\ t \in ToSet(backup_list'))
    BY DEF Service, Separate
  <2>2. ToSet(timer_list) \subseteq Timer /\ ToSet(backup_list) \subseteq Timer
    BY <1>1, Members DEF ServiceTypes
  <2>3. \A i \in Frames' : stack'[i].cur \notin ToSet(timer_list') \cup ToSet(backup_list')
    <3>1. NoTimer \notin ToSet(timer_list) \cup ToSet(backup_list) BY <1>11, <2>2
    <3>. QED BY <1>6, <1>8, <1>9, <3>1 DEF Service, Separate
  <2>4. ASSUME NEW i \in Frames', NEW j \in Frames',
               stack'[i].cur = stack'[j].cur, stack'[i].cur # NoTimer
        PROVE  i = j
    <3>1. i \in Frames /\ j \in Frames /\ stack'[i] = stack[i] /\ stack'[j] = stack[j]
      BY <1>6, <1>8, <1>9, <2>4
    <3>. QED BY <2>4, <3>1 DEF Service, Separate
  <2>5. ASSUME NEW t \in Timer
        PROVE  (\E i \in Frames' : stack'[i].cur = t) <=> \E i \in Frames : stack[i].cur = t
    <3>1. \A i \in Frames : i \in Frames' /\ stack'[i] = stack[i] BY <1>2, <1>7, <1>8
    <3>2. \A i \in Frames' : stack'[i].cur = t => i \in Frames /\ stack'[i] = stack[i]
      BY <1>6, <1>8, <1>9, <1>11
    <3>. QED BY <3>1, <3>2
  <2>. QED BY <2>1, <2>3, <2>4, <2>5 DEF Service, Separate
<1>14. Owed'
  <2>1. ASSUME NEW i \in Frames', NEW t \in stack'[i].owes
        PROVE  /\ t \in ToSet(timer_list) /\ node[t].valid
               /\ \A j \in Frames' : Due(node[t]) <= Ns(stack'[j].now)
    <3>1. CASE i \in 1..n /\ stack'[i] = stack[i]
      <4>1. /\ t \in ToSet(timer_list) /\ node[t].valid
            /\ \A j \in Frames : Due(node[t]) <= Ns(stack[j].now)
        BY <1>8, <2>1, <3>1 DEF Service, Owed
      <4>2. t \in Timer BY <1>2, <2>1, <3>1 DEF Frame
      <4>3. /\ Due(node[t]) <= Ns(stack[i].now) /\ Ns(stack[i].now) <= clock
            /\ IsClock(stack[i].now)
        BY <1>8, <3>1, <4>1 DEF Service, InProgress
      <4>4. IsTimespec(node[t].start) /\ node[t].expiration \in Nat
        BY <1>1, <4>2 DEF ServiceTypes, Nodes, Stamp, IsTimespec
      <4>5. Due(node[t]) \in Int /\ Ns(stack[i].now) \in Int BY <4>3, <4>4, TimeoutExact
      <4>6. clock \in Nat BY <1>1 DEF ServiceTypes
      <4>7. Due(node[t]) <= clock BY <4>3, <4>5, <4>6
      <4>. QED BY <1>3, <1>6, <1>8, <1>9, <4>1, <4>7
    <3>2. CASE i = n + 1 /\ stack'[i] = f
      <4>1. t \in o BY <1>6, <2>1, <3>2
      <4>2. /\ t \in Timer /\ node[t].valid /\ stack = <<>> /\ Due(node[t]) <= clock
        BY <4>1 DEF o, Valid
      <4>3. n = 0 /\ Len(stack) = 0 /\ backup_list = <<>> BY <1>2, <4>2 DEF Service, Owed
      <4>4. node[t].live BY <1>1, <4>2 DEF ServiceTypes
      <4>5. t \notin ToSet(backup_list) BY <4>3, EmptyList
      <4>6. \A j \in Frames : FALSE BY <1>8, <4>3
      <4>7. t \in ToSet(timer_list) BY <4>2, <4>4, <4>5, <4>6 DEF Service, Separate
      <4>8. \A j \in Frames' : stack'[j] = f BY <1>8, <1>9, <4>3
      <4>. QED BY <1>3, <1>6, <4>2, <4>7, <4>8
    <3>. QED BY <1>9, <3>1, <3>2
  <2>2. Len(stack') # 0 BY <1>2, <1>7
  <2>. QED BY <2>1, <2>2 DEF Owed
<1>. QED BY <1>10, <1>12, <1>13, <1>14 DEF Service

\* The loop of a pass: the head of timer_list is released, called or kept.
LEMMA ServiceStep ==
  ASSUME Service, PassStep
  PROVE  Service'
<1>. DEFINE n == Len(stack)
            t == Head(timer_list)
<1>1. /\ ServiceTypes /\ InProgress /\ Separate /\ Owed BY DEF Service
<1>2. /\ stack # <<>> /\ stack[n].cur = NoTimer /\ Top = stack[n] /\ timer_list # <<>>
      /\ timer_list' = fdlist_pop(timer_list) /\ UNCHANGED clock
  BY DEF PassStep, InPass, Top
<1>3. /\ n \in Nat /\ n # 0 /\ n \in Frames /\ stack \in Seq(Frame)
      /\ \A i \in Frames : stack[i] \in Frame
  BY <1>1, <1>2, Stack DEF Frames, ServiceTypes
<1>4. /\ timer_list' \in Seq(Timer) /\ t \in Timer
      /\ ToSet(timer_list) = ToSet(timer_list') \cup {t}
      /\ IsInjective(timer_list') /\ t \notin ToSet(timer_list')
  BY <1>1, <1>2, PoppedOff DEF ServiceTypes, Separate
<1>5. /\ t \notin ToSet(backup_list) /\ node[t].live /\ node[t] \in Nodes
      /\ \A i \in Frames : stack[i].cur # t
  BY <1>1, <1>4 DEF ServiceTypes, Separate
<1>6. /\ IsClock(stack[n].now) /\ IsTimespec(node[t].start) /\ node[t].expiration \in Nat
  BY <1>1, <1>3, <1>5 DEF InProgress, Nodes, Stamp, IsTimespec
<1>7. \A i \in Frames : stack[i].owes \subseteq Timer BY <1>3 DEF Frame
<1>. HIDE DEF t
<1>8. CASE ~node[t].valid /\ Destroy(t) /\ UNCHANGED <<stack, backup_list>>
  <2>1. node' = [node EXCEPT ![t] = Freed] BY <1>8 DEF Destroy
  <2>2. /\ \A x \in Timer : x # t => node'[x] = node[x]
        /\ node' \in [Timer -> Nodes] /\ ~node'[t].live /\ ~node'[t].valid
    BY <1>1, <1>4, <2>1, FreedIs DEF ServiceTypes
  <2>3. Frames' = Frames BY <1>8 DEF Frames
  <2>4. ServiceTypes' BY <1>1, <1>2, <1>4, <1>8, <2>2 DEF ServiceTypes
  <2>5. InProgress' BY <1>1, <1>2, <1>8, <2>3 DEF InProgress
  <2>6. Separate' BY <1>1, <1>4, <1>5, <1>8, <2>2, <2>3 DEF Separate
  <2>7. Owed'
    <3>1. ASSUME NEW i \in Frames, NEW x \in stack[i].owes PROVE x # t /\ x \in Timer
      BY <1>1, <1>7, <1>8 DEF Owed
    <3>. QED BY <1>1, <1>3, <1>4, <1>8, <2>2, <2>3, <3>1 DEF Owed
  <2>. QED BY <2>4, <2>5, <2>6, <2>7 DEF Service
<1>9. CASE /\ node[t].valid /\ fev_tmmod_timeout(node[t], Top.now)
           /\ stack' = [Settled(t) EXCEPT ![Len(stack)].cur = t,
                                          ![Len(stack)].lag = Ns(Top.now) - Due(node[t])]
           /\ UNCHANGED <<node, backup_list>>
  <2>. DEFINE s == Settled(t)
              g == Ns(stack[n].now) - Due(node[t])
  <2>1. /\ s \in Seq(Frame) /\ Len(s) = n
        /\ \A i \in Frames : /\ s[i].now = stack[i].now /\ s[i].cur = stack[i].cur
                             /\ s[i].lag = stack[i].lag /\ s[i].owes = stack[i].owes \ {t}
    BY <1>1, <1>4, SettledIs
  <2>2. g \in Int /\ g > -NS_PER_MS BY <1>2, <1>6, <1>9, TimeoutExact
  <2>3. stack' = OnTop(s, t, g) /\ t \in Timer \cup {NoTimer}
    BY <1>2, <1>4, <1>9, <2>1 DEF OnTop
  <2>. HIDE DEF s, g
  <2>4. /\ stack' \in Seq(Frame) /\ Len(stack') = Len(s)
        /\ \A i \in 1..Len(s) : /\ stack'[i].now = s[i].now /\ stack'[i].owes = s[i].owes
                                /\ i # Len(s) => /\ stack'[i].cur = s[i].cur
                                                 /\ stack'[i].lag = s[i].lag
        /\ stack'[Len(s)].cur = t /\ stack'[Len(s)].lag = g
    <3>1. Len(s) # 0 BY <1>3, <2>1
    <3>2. s \in Seq(Frame) BY <2>1
    <3>. QED BY <2>2, <2>3, <3>1, <3>2, TopSet
  <2>5. /\ Frames' = Frames /\ Len(stack') = n
        /\ \A i \in Frames : /\ stack'[i].now = stack[i].now
                             /\ stack'[i].owes = stack[i].owes \ {t}
                             /\ i # n => /\ stack'[i].cur = stack[i].cur
                                         /\ stack'[i].lag = stack[i].lag
        /\ stack'[n].cur = t /\ stack'[n].lag = g
    BY <2>1, <2>4 DEF Frames
  <2>. HIDE DEF n
  <2>6. ServiceTypes' BY <1>1, <1>2, <1>4, <1>9, <2>4 DEF ServiceTypes
  <2>7. InProgress'
    <3>1. ASSUME NEW i \in Frames
          PROVE  /\ IsClock(stack'[i].now) /\ Ns(stack'[i].now) <= clock
                 /\ i < n => stack'[i].cur # NoTimer
                 /\ stack'[i].lag > -NS_PER_MS
      <4>1. CASE i = n BY <1>1, <1>3, <1>4, <2>2, <2>5, <4>1, FevTmsvcAssumption DEF InProgress
      <4>2. CASE i # n BY <1>1, <2>5, <4>2 DEF InProgress, n
      <4>. QED BY <4>1, <4>2
    <3>. QED BY <1>2, <2>5, <3>1 DEF InProgress
  <2>8. Separate'
    <3>1. ASSUME NEW i \in Frames, NEW j \in Frames,
                 stack'[i].cur = stack'[j].cur, stack'[i].cur # NoTimer
          PROVE  i = j
      <4>1. CASE i # n /\ j # n
        <5>1. stack'[i].cur = stack[i].cur /\ stack'[j].cur = stack[j].cur BY <2>5, <4>1
        <5>2. stack[i].cur = stack[j].cur /\ stack[i].cur # NoTimer => i = j
          BY <1>1 DEF Separate
        <5>. QED BY <3>1, <5>1, <5>2
      <4>2. CASE i = n /\ j # n BY <1>5, <2>5, <3>1, <4>2
      <4>3. CASE i # n /\ j = n BY <1>5, <2>5, <3>1, <4>3
      <4>. QED BY <4>1, <4>2, <4>3
    <3>2. ASSUME NEW i \in Frames
          PROVE  stack'[i].cur \notin ToSet(timer_list') \cup ToSet(backup_list')
      <4>1. CASE i = n BY <1>4, <1>5, <1>9, <2>5, <4>1
      <4>2. CASE i # n
        <5>1. stack'[i].cur = stack[i].cur BY <2>5, <4>2
        <5>2. stack[i].cur \notin ToSet(timer_list) \cup ToSet(backup_list) BY <1>1 DEF Separate
        <5>. QED BY <1>4, <1>9, <5>1, <5>2
      <4>. QED BY <4>1, <4>2
    <3>3. ASSUME NEW x \in Timer
          PROVE  (\E i \in Frames : stack'[i].cur = x)
                   <=> x = t \/ \E i \in Frames : stack[i].cur = x
      <4>1. x # NoTimer BY FevTmsvcAssumption
      <4>2. ASSUME NEW i \in Frames, stack'[i].cur = x
            PROVE  x = t \/ \E j \in Frames : stack[j].cur = x
        BY <2>5, <4>2
      <4>3. ASSUME NEW i \in Frames, stack[i].cur = x PROVE stack'[i].cur = x
        <5>1. i # n BY <1>2, <4>1, <4>3
        <5>. QED BY <2>5, <4>3, <5>1
      <4>4. n \in Frames /\ stack'[n].cur = t BY <1>3, <2>5
      <4>. QED BY <4>2, <4>3, <4>4
    <3>4. /\ IsInjective(timer_list)' /\ IsInjective(backup_list)'
          /\ \A x \in Timer : ~(x \in ToSet(timer_list') /\ x \in ToSet(backup_list'))
      BY <1>1, <1>4, <1>9 DEF Separate
    <3>5. ASSUME NEW x \in Timer
          PROVE  node'[x].live <=> \/ x \in ToSet(timer_list') \/ x \in ToSet(backup_list')
                                   \/ \E i \in Frames : stack'[i].cur = x
      <4>1. node[x].live <=> \/ x \in ToSet(timer_list) \/ x \in ToSet(backup_list)
                             \/ \E i \in Frames : stack[i].cur = x
        BY <1>1 DEF Separate
      <4>. QED BY <1>4, <1>5, <1>9, <3>3, <4>1
    <3>. QED BY <2>5, <3>1, <3>2, <3>4, <3>5 DEF Separate
  <2>9. Owed'
    <3>1. ASSUME NEW i \in Frames, NEW x \in stack'[i].owes
          PROVE  /\ x \in ToSet(timer_list') /\ node'[x].valid
                 /\ \A j \in Frames : Due(node'[x]) <= Ns(stack'[j].now)
      <4>1. x \in stack[i].owes /\ x # t BY <2>5
      <4>2. /\ x \in ToSet(timer_list) /\ node[x].valid
            /\ \A j \in Frames : Due(node[x]) <= Ns(stack[j].now)
        BY <1>1, <4>1 DEF Owed
      <4>. QED BY <1>4, <1>9, <2>5, <4>1, <4>2
    <3>. QED BY <1>3, <2>5, <3>1 DEF Owed
  <2>. QED BY <2>6, <2>7, <2>8, <2>9 DEF Service
<1>10. CASE /\ node[t].valid /\ ~fev_tmmod_timeout(node[t], Top.now)
            /\ backup_list' = fdlist_push(backup_list, t)
            /\ UNCHANGED <<node, stack>>
  <2>1. /\ backup_list' \in Seq(Timer) /\ ToSet(backup_list') = ToSet(backup_list) \cup {t}
        /\ IsInjective(backup_list')
    BY <1>1, <1>4, <1>5, <1>10, Pushed DEF ServiceTypes, Separate
  <2>2. Frames' = Frames BY <1>10 DEF Frames
  <2>3. ServiceTypes' BY <1>1, <1>2, <1>4, <1>10, <2>1 DEF ServiceTypes
  <2>4. InProgress' BY <1>1, <1>2, <1>10, <2>2 DEF InProgress
  <2>5. Separate' BY <1>1, <1>4, <1>5, <1>10, <2>1, <2>2 DEF Separate
  <2>6. Owed'
    <3>1. ~(Due(node[t]) <= Ns(stack[n].now)) BY <1>2, <1>6, <1>10, TimeoutExact
    <3>2. ASSUME NEW i \in Frames PROVE t \notin stack[i].owes
      BY <1>1, <1>3, <3>1 DEF Owed
    <3>. QED BY <1>1, <1>3, <1>4, <1>10, <2>2, <3>2 DEF Owed
  <2>. QED BY <2>3, <2>4, <2>5, <2>6 DEF Service
<1>. QED BY <1>8, <1>9, <1>10 DEF PassStep, t

\* A periodic timer that was called remains a node, whatever becomes of its start.
LEMMA RescheduledIs ==
  ASSUME NEW m \in Nodes
  PROVE  /\ Rescheduled(m) \in Nodes /\ Rescheduled(m).live = m.live
         /\ Rescheduled(m).valid = m.valid
<1>. DEFINE q == m.interval \div MS_PER_SECOND
            r == (m.interval * NS_PER_MS) % NS_PER_SECOND
            b == [sec |-> m.start.sec + q, nsec |-> m.start.nsec + r]
<1>1. /\ m.start \in Stamp /\ m.start.sec \in Nat /\ m.start.nsec \in Nat
      /\ m.interval \in Nat
  BY DEF Nodes, Stamp
<1>2. q \in Nat BY <1>1, Divided, FevTmsvcAssumption
<1>3. r \in Nat
  <2>1. m.interval * NS_PER_MS \in Nat BY <1>1, FevTmsvcAssumption
  <2>2. r \in 0..(NS_PER_SECOND - 1) BY <2>1, SecondPositive, Divided
  <2>. QED BY <2>2, SecondPositive
<1>. HIDE DEF q, r
<1>4. b \in Stamp BY <1>1, <1>2, <1>3 DEF Stamp
<1>5. Rescheduled(m) = [m EXCEPT !.expiration = m.interval, !.start = b]
  BY DEF Rescheduled, b, q, r
<1>. HIDE DEF b
<1>. QED BY <1>1, <1>4, <1>5 DEF Nodes

\* A callback returns.
LEMMA ServiceReturn ==
  ASSUME Service, CallbackReturns
  PROVE  Service'
<1>. DEFINE n == Len(stack)
            c == stack[n].cur
<1>1. /\ ServiceTypes /\ InProgress /\ Separate /\ Owed BY DEF Service
<1>2. /\ stack # <<>> /\ c # NoTimer /\ Top.cur = c /\ UNCHANGED <<clock, timer_list>>
      /\ stack' = OnTop(stack, NoTimer, 0)
  BY DEF CallbackReturns, Top, OnTop
<1>3. /\ n \in Nat /\ n # 0 /\ n \in Frames /\ stack \in Seq(Frame)
      /\ \A i \in Frames : stack[i] \in Frame
  BY <1>1, <1>2, Stack DEF Frames, ServiceTypes
<1>4. c \in Timer BY <1>2, <1>3 DEF Frame
<1>5. /\ c \notin ToSet(timer_list) /\ c \notin ToSet(backup_list)
      /\ node[c].live /\ node[c] \in Nodes
      /\ \A i \in Frames : i # n => stack[i].cur # c
  BY <1>1, <1>2, <1>3, <1>4 DEF Separate, ServiceTypes
<1>6. /\ stack' \in Seq(Frame) /\ Frames' = Frames /\ Len(stack') = n
      /\ \A i \in Frames : /\ stack'[i].now = stack[i].now /\ stack'[i].owes = stack[i].owes
                           /\ i # n => /\ stack'[i].cur = stack[i].cur
                                       /\ stack'[i].lag = stack[i].lag
      /\ stack'[n].cur = NoTimer /\ stack'[n].lag = 0
  <2>. DEFINE r == OnTop(stack, NoTimer, 0)
  <2>1. NoTimer \in Timer \cup {NoTimer} /\ 0 \in Int OBVIOUS
  <2>2. /\ r \in Seq(Frame) /\ Len(r) = n
        /\ \A i \in 1..n : /\ r[i].now = stack[i].now /\ r[i].owes = stack[i].owes
                           /\ i # n => r[i].cur = stack[i].cur /\ r[i].lag = stack[i].lag
        /\ r[n].cur = NoTimer /\ r[n].lag = 0
    BY <1>3, <2>1, TopSet, SMTT(60)
  <2>3. stack' = r BY <1>2
  <2>. HIDE DEF r
  <2>4. Frames' = Frames BY <2>2, <2>3 DEF Frames
  <2>5. Frames = 1..n BY DEF Frames
  <2>. QED BY <2>2, <2>3, <2>4, <2>5
<1>7. /\ node' \in [Timer -> Nodes] /\ backup_list' \in Seq(Timer) /\ IsInjective(backup_list')
      /\ \A x \in Timer : x # c => node'[x] = node[x]
      /\ node'[c].valid => node'[c].live
      /\ node'[c].live <=> c \in ToSet(backup_list')
      /\ ToSet(backup_list') \subseteq ToSet(backup_list) \cup {c}
      /\ ToSet(backup_list) \subseteq ToSet(backup_list')
  <2>1. CASE node[c].interval > 0
    <3>1. node' = [node EXCEPT ![c] = Rescheduled(@)] /\ backup_list' = fdlist_push(backup_list, c)
      BY <1>2, <2>1 DEF CallbackReturns
    <3>2. /\ node' \in [Timer -> Nodes] /\ node'[c].live
          /\ \A x \in Timer : x # c => node'[x] = node[x]
      <4>. DEFINE m == Rescheduled(node[c])
      <4>1. m \in Nodes /\ m.live BY <1>5, RescheduledIs
      <4>2. node' = [node EXCEPT ![c] = m] BY <3>1
      <4>. HIDE DEF m
      <4>. QED BY <1>1, <1>4, <4>1, <4>2 DEF ServiceTypes
    <3>3. /\ backup_list' \in Seq(Timer) /\ IsInjective(backup_list')
          /\ ToSet(backup_list') = ToSet(backup_list) \cup {c}
      <4>1. backup_list \in Seq(Timer) /\ IsInjective(backup_list)
        BY <1>1 DEF ServiceTypes, Separate
      <4>2. backup_list' = fdlist_push(backup_list, c) BY <3>1
      <4>. HIDE DEF c
      <4>. QED BY <1>4, <1>5, <4>1, <4>2, Pushed
    <3>. QED BY <3>2, <3>3
  <2>2. CASE ~(node[c].interval > 0)
    <3>1. node' = [node EXCEPT ![c] = Freed] /\ UNCHANGED backup_list
      BY <1>2, <2>2 DEF CallbackReturns, Destroy
    <3>2. /\ node' \in [Timer -> Nodes] /\ ~node'[c].live /\ ~node'[c].valid
          /\ \A x \in Timer : x # c => node'[x] = node[x]
      BY <1>1, <1>4, <3>1, FreedIs DEF ServiceTypes
    <3>. QED BY <1>1, <1>5, <3>1, <3>2 DEF ServiceTypes, Separate
  <2>. QED BY <2>1, <2>2
<1>8. NoTimer \notin Timer /\ NS_PER_MS \in Nat \ {0} BY FevTmsvcAssumption
<1>. HIDE DEF n, c
<1>9. ServiceTypes' BY <1>1, <1>2, <1>4, <1>6, <1>7 DEF ServiceTypes
<1>10. InProgress'
  <2>1. ASSUME NEW i \in Frames
        PROVE  /\ IsClock(stack'[i].now) /\ Ns(stack'[i].now) <= clock
               /\ i < n => stack'[i].cur # NoTimer
               /\ stack'[i].lag > -NS_PER_MS
    <3>1. CASE i = n BY <1>1, <1>3, <1>6, <1>8, <3>1 DEF InProgress
    <3>2. CASE i # n BY <1>1, <1>6, <3>2 DEF InProgress, n
    <3>. QED BY <3>1, <3>2
  <2>. QED BY <1>2, <1>6, <2>1 DEF InProgress
<1>11. Separate'
  <2>1. ASSUME NEW i \in Frames, NEW j \in Frames,
               stack'[i].cur = stack'[j].cur, stack'[i].cur # NoTimer
        PROVE  i = j
    <3>1. i # n /\ j # n BY <1>6, <2>1
    <3>2. stack'[i].cur = stack[i].cur /\ stack'[j].cur = stack[j].cur BY <1>6, <3>1
    <3>3. stack[i].cur = stack[j].cur /\ stack[i].cur # NoTimer => i = j BY <1>1 DEF Separate
    <3>. QED BY <2>1, <3>2, <3>3
  <2>2. ToSet(timer_list) \subseteq Timer /\ ToSet(backup_list') \subseteq Timer
    <3>1. timer_list \in Seq(Timer) /\ backup_list' \in Seq(Timer) BY <1>1, <1>7 DEF ServiceTypes
    <3>2. ToSet(timer_list) \subseteq Timer BY <3>1, Members
    <3>3. ToSet(backup_list') \subseteq Timer BY <3>1, Members
    <3>. QED BY <3>2, <3>3
  <2>3. ASSUME NEW i \in Frames
        PROVE  stack'[i].cur \notin ToSet(timer_list') \cup ToSet(backup_list')
    <3>1. CASE i = n BY <1>2, <1>6, <1>8, <2>2, <3>1
    <3>2. CASE i # n
      <4>1. stack'[i].cur = stack[i].cur /\ stack[i].cur # c BY <1>5, <1>6, <3>2
      <4>2. stack[i].cur \notin ToSet(timer_list) \cup ToSet(backup_list) BY <1>1 DEF Separate
      <4>. QED BY <1>2, <1>7, <4>1, <4>2
    <3>. QED BY <3>1, <3>2
  <2>4. ASSUME NEW x \in Timer
        PROVE  ~(x \in ToSet(timer_list') /\ x \in ToSet(backup_list'))
    BY <1>1, <1>2, <1>5, <1>7 DEF Separate
  <2>5. ASSUME NEW x \in Timer
        PROVE  node'[x].live <=> \/ x \in ToSet(timer_list') \/ x \in ToSet(backup_list')
                                 \/ \E i \in Frames : stack'[i].cur = x
    <3>1. CASE x = c
      <4>1. ASSUME NEW i \in Frames PROVE stack'[i].cur # c BY <1>4, <1>5, <1>6, <1>8
      <4>. QED BY <1>2, <1>5, <1>7, <3>1, <4>1
    <3>2. CASE x # c
      <4>1. node'[x] = node[x] /\ (x \in ToSet(backup_list') <=> x \in ToSet(backup_list))
        BY <1>7, <3>2
      <4>2. ASSUME NEW i \in Frames PROVE stack'[i].cur = x <=> stack[i].cur = x
        BY <1>6, <1>8, <3>2 DEF c
      <4>3. node[x].live <=> \/ x \in ToSet(timer_list) \/ x \in ToSet(backup_list)
                             \/ \E i \in Frames : stack[i].cur = x
        BY <1>1 DEF Separate
      <4>. QED BY <1>2, <4>1, <4>2, <4>3
    <3>. QED BY <3>1, <3>2
  <2>6. IsInjective(timer_list') /\ IsInjective(backup_list') BY <1>1, <1>2, <1>7 DEF Separate
  <2>. QED BY <1>6, <2>1, <2>3, <2>4, <2>5, <2>6 DEF Separate
<1>12. Owed'
  <2>1. ASSUME NEW i \in Frames, NEW x \in stack'[i].owes
        PROVE  /\ x \in ToSet(timer_list') /\ node'[x].valid
               /\ \A j \in Frames : Due(node'[x]) <= Ns(stack'[j].now)
    <3>1. x \in stack[i].owes /\ x \in Timer BY <1>3, <1>6 DEF Frame
    <3>2. /\ x \in ToSet(timer_list) /\ node[x].valid
          /\ \A j \in Frames : Due(node[x]) <= Ns(stack[j].now)
      BY <1>1, <3>1 DEF Owed
    <3>3. node'[x] = node[x] BY <1>5, <1>7, <3>1, <3>2
    <3>. QED BY <1>2, <1>6, <3>2, <3>3
  <2>. QED BY <1>3, <1>6, <2>1 DEF Owed
<1>. QED BY <1>9, <1>10, <1>11, <1>12 DEF Service

\* A pass ends: it owes nobody anything, and the lists are swapped.
LEMMA ServiceEnd ==
  ASSUME Service, PassEnd
  PROVE  Service'
<1>. DEFINE n == Len(stack)
<1>1. /\ ServiceTypes /\ InProgress /\ Separate /\ Owed BY DEF Service
<1>2. /\ stack # <<>> /\ stack[n].cur = NoTimer /\ timer_list = <<>>
      /\ timer_list' = backup_list /\ backup_list' = timer_list
      /\ stack' = Front(stack) /\ UNCHANGED <<clock, node>>
  BY DEF PassEnd, InPass, Top, SwapLists
<1>3. n \in Nat /\ n # 0 /\ Frames = 1..n BY <1>1, <1>2, Stack DEF Frames
<1>4. /\ stack' \in Seq(Frame) /\ Len(stack') = n - 1
      /\ \A i \in 1..(n - 1) : i \in Frames /\ stack'[i] = stack[i]
  BY <1>1, <1>2, <1>3, FrontIs
<1>. HIDE DEF n
<1>5. Frames' = 1..(n - 1) BY <1>4 DEF Frames
<1>6. \A i \in Frames : i \in Frames' \/ i = n BY <1>3, <1>5
<1>7. \A i \in Frames' : i \in Frames /\ stack'[i] = stack[i] /\ i < n /\ n - 1 < n
  BY <1>3, <1>4, <1>5
<1>8. ToSet(timer_list) = {} BY <1>2, EmptyList
<1>9. ServiceTypes' BY <1>1, <1>2, <1>4 DEF ServiceTypes
<1>10. InProgress' BY <1>1, <1>2, <1>7 DEF InProgress, n
<1>11. Separate'
  <2>1. ASSUME NEW x \in Timer
        PROVE  (\E i \in Frames' : stack'[i].cur = x) <=> \E i \in Frames : stack[i].cur = x
    <3>1. x # NoTimer BY FevTmsvcAssumption
    <3>. QED BY <1>2, <1>6, <1>7, <3>1
  <2>2. \A i, j \in Frames' : stack'[i].cur = stack'[j].cur /\ stack'[i].cur # NoTimer => i = j
    BY <1>1, <1>7 DEF Separate
  <2>3. \A i \in Frames' : stack'[i].cur \notin ToSet(timer_list') \cup ToSet(backup_list')
    BY <1>1, <1>2, <1>7 DEF Separate
  <2>4. \A x \in Timer : node'[x].live <=> \/ x \in ToSet(timer_list') \/ x \in ToSet(backup_list')
                                          \/ \E i \in Frames' : stack'[i].cur = x
    BY <1>1, <1>2, <2>1 DEF Separate
  <2>. QED BY <1>1, <1>2, <2>2, <2>3, <2>4 DEF Separate
<1>12. Owed'
  <2>1. ASSUME NEW i \in Frames', NEW x \in stack'[i].owes PROVE FALSE
    <3>1. x \in ToSet(timer_list) BY <1>1, <1>7, <2>1 DEF Owed
    <3>. QED BY <1>8, <3>1
  <2>. QED BY <1>2, <2>1 DEF Owed
<1>. QED BY <1>9, <1>10, <1>11, <1>12 DEF Service

\* The service is destroyed between passes: with it every node there is.
LEMMA ServiceDestroyed ==
  ASSUME Service, fev_tmsvc_destroy
  PROVE  Service' /\ \A t \in Timer : ~node'[t].live
<1>1. /\ ServiceTypes /\ InProgress /\ Separate /\ Owed BY DEF Service
<1>2. /\ stack = <<>> /\ UNCHANGED <<clock, stack>>
      /\ node' = [t \in Timer |-> IF t \in ToSet(timer_list \o backup_list) THEN Freed ELSE node[t]]
      /\ timer_list' = <<>> /\ backup_list' = <<>>
  BY DEF fev_tmsvc_destroy, DestroyLists
<1>3. Len(stack) = 0 /\ Len(stack') = 0 BY <1>1, <1>2, Stack
<1>4. (\A i \in Frames : FALSE) /\ (\A i \in Frames' : FALSE) BY <1>3 DEF Frames
<1>5. ToSet(timer_list \o backup_list) = ToSet(timer_list) \cup ToSet(backup_list)
  BY <1>1, Joined DEF ServiceTypes
<1>6. ASSUME NEW t \in Timer PROVE node'[t] \in Nodes /\ ~node'[t].live /\ ~node'[t].valid
  <2>1. CASE t \in ToSet(timer_list) \cup ToSet(backup_list) BY <1>2, <1>5, <2>1, FreedIs
  <2>2. CASE t \notin ToSet(timer_list) \cup ToSet(backup_list)
    <3>1. node'[t] = node[t] BY <1>2, <1>5, <2>2
    <3>2. ~node[t].live BY <1>1, <1>4, <2>2 DEF Separate
    <3>3. node[t] \in Nodes /\ ~node[t].valid BY <1>1, <3>2 DEF ServiceTypes
    <3>. QED BY <3>1, <3>2, <3>3
  <2>. QED BY <2>1, <2>2
<1>7. /\ <<>> \in Seq(Timer) /\ ToSet(<<>>) = {} /\ IsInjective(<<>>) BY EmptyList
<1>8. node' \in [Timer -> Nodes] BY <1>2, <1>6
<1>9. ServiceTypes' BY <1>1, <1>2, <1>6, <1>7, <1>8 DEF ServiceTypes
<1>10. InProgress' BY <1>4 DEF InProgress
<1>11. Separate' BY <1>2, <1>4, <1>6, <1>7 DEF Separate
<1>12. Owed' BY <1>2, <1>4 DEF Owed
<1>. QED BY <1>6, <1>9, <1>10, <1>11, <1>12 DEF Service

\* Time passes.
LEMMA ServiceTick ==
  ASSUME Service, Tick
  PROVE  Service'
<1>1. /\ ServiceTypes /\ InProgress BY DEF Service
<1>2. clock' = clock + 1 /\ UNCHANGED <<node, timer_list, backup_list, stack>> BY DEF Tick
<1>3. Frames' = Frames BY <1>2 DEF Frames
<1>4. ServiceTypes' BY <1>1, <1>2 DEF ServiceTypes
<1>5. InProgress'
  <2>1. ASSUME NEW i \in Frames PROVE Ns(stack[i].now) <= clock'
    <3>1. IsClock(stack[i].now) /\ Ns(stack[i].now) <= clock /\ clock \in Nat
      BY <1>1 DEF InProgress, ServiceTypes
    <3>2. /\ stack[i].now.sec \in Nat /\ stack[i].now.nsec \in Nat
          /\ NS_PER_SECOND \in Nat
      BY <3>1, SecondPositive DEF IsClock, IsTimespec
    <3>3. Ns(stack[i].now) \in Int BY <3>2 DEF Ns
    <3>. QED BY <1>2, <3>1, <3>3
  <2>. QED BY <1>1, <1>2, <1>3, <2>1 DEF InProgress
<1>6. Separate' BY <1>2, <1>3 DEF Service, Separate
<1>7. Owed' BY <1>2, <1>3 DEF Service, Owed
<1>. QED BY <1>4, <1>5, <1>6, <1>7 DEF Service

\* Steps of others.
LEMMA ServiceSame ==
  ASSUME Service, UNCHANGED vars
  PROVE  Service'
<1>1. UNCHANGED <<clock, node, timer_list, backup_list, stack>> BY DEF vars
<1>2. Frames' = Frames BY <1>1 DEF Frames
<1>3. ServiceTypes' BY <1>1 DEF Service, ServiceTypes
<1>4. InProgress' BY <1>1, <1>2 DEF Service, InProgress
<1>5. Separate' BY <1>1, <1>2 DEF Service, Separate
<1>6. Owed' BY <1>1, <1>2 DEF Service, Owed
<1>. QED BY <1>3, <1>4, <1>5, <1>6 DEF Service

\* Every step keeps Service.
LEMMA ServiceNext ==
  ASSUME Service, [Next]_vars
  PROVE  Service'
<1>1. ASSUME NEW t \in Timer, NEW d \in Delays, NEW i \in Intervals, fev_tmsvc_timer_add(t, d, i)
      PROVE  Service'
  <2>1. d \in Nat /\ i \in Nat BY FevTmsvcAssumption
  <2>2. ~node[t].live /\ Add(t, d, i) /\ UNCHANGED <<clock, stack>>
    BY <1>1 DEF fev_tmsvc_timer_add
  <2>. QED BY <2>1, <2>2, ServiceAdd
<1>2. CASE App BY <1>1, <1>2, ServiceApp DEF App
<1>3. CASE OnTimer
  <2>1. InApp /\ Begin(stack) /\ UNCHANGED <<clock, node, timer_list, backup_list>>
    BY <1>3 DEF OnTimer, InApp
  <2>. QED BY <2>1, ServiceBegin
<1>4. CASE fev_tmsvc_process
  <2>1. InApp /\ Begin(stack) /\ UNCHANGED <<clock, node, timer_list, backup_list>>
    BY <1>4 DEF fev_tmsvc_process
  <2>. QED BY <2>1, ServiceBegin
<1>5. CASE Pass BY <1>3, <1>5, ServiceStep, ServiceReturn, ServiceEnd DEF Pass
<1>. QED BY <1>2, <1>4, <1>5, ServiceDestroyed, ServiceTick, ServiceSame DEF Next

\* The invariant holds in every behaviour of the timer service.
LEMMA ServiceHolds == Spec => []Service
<1>1. Init => Service BY ServiceInit
<1>2. Service /\ [Next]_vars => Service' BY ServiceNext
<1>. QED BY <1>1, <1>2, PTL DEF Spec

\* Lists and callbacks are separate: OnePlace.
LEMMA SeparateOnePlace ==
  ASSUME Service
  PROVE  OnePlace
<1>1. /\ ServiceTypes /\ Separate BY DEF Service
<1>2. timer_list \in Seq(Timer) /\ backup_list \in Seq(Timer) BY <1>1 DEF ServiceTypes
<1>3. DOMAIN stack = Frames /\ \A i \in Frames : stack[i] \in Frame BY <1>1, Stack
<1>4. ToSet(timer_list) \subseteq Timer /\ ToSet(backup_list) \subseteq Timer
  BY <1>2, Members
<1>5. ToSet(timer_list) \cap ToSet(backup_list) = {} BY <1>1, <1>4 DEF Separate
<1>6. /\ ToSet(Queued) = ToSet(timer_list) \cup ToSet(backup_list)
      /\ IsInjective(Queued)
  BY <1>1, <1>2, <1>5, Joined DEF Separate, Queued
<1>. DEFINE P == {j \in Frames : stack[j].cur # NoTimer}
<1>7. Called = [i \in P |-> stack[i].cur] BY <1>3 DEF Called
<1>8. DOMAIN Called = P /\ \A i \in P : Called[i] = stack[i].cur BY <1>7
<1>9. IsInjective(Called)
  <2>1. ASSUME NEW i \in P, NEW j \in P, Called[i] = Called[j] PROVE i = j
    BY <1>1, <1>8, <2>1 DEF Separate
  <2>. QED BY <1>8, <2>1 DEF IsInjective
<1>10. \A x : x \in Range(Called) <=> \E i \in P : stack[i].cur = x BY <1>8 DEF Range
<1>11. ToSet(Queued) \cap Range(Called) = {}
  <2>1. ASSUME NEW x \in Range(Called) PROVE x \notin ToSet(Queued)
    BY <1>1, <1>6, <1>10 DEF Separate
  <2>. QED BY <2>1
<1>12. ToSet(Queued) \cup Range(Called) = Live
  <2>1. ASSUME NEW x \in Range(Called) PROVE x \in Live
    <3>1. PICK i \in P : stack[i].cur = x BY <1>10
    <3>2. x \in Timer BY <1>3, <3>1 DEF Frame
    <3>. QED BY <1>1, <3>1, <3>2 DEF Separate, Live
  <2>2. ASSUME NEW x \in ToSet(Queued) PROVE x \in Live
    BY <1>1, <1>4, <1>6 DEF Separate, Live
  <2>3. ASSUME NEW x \in Live PROVE x \in ToSet(Queued) \cup Range(Called)
    <3>1. x \in Timer /\ x # NoTimer BY FevTmsvcAssumption DEF Live
    <3>2. \/ x \in ToSet(timer_list) \/ x \in ToSet(backup_list)
          \/ \E i \in Frames : stack[i].cur = x
      BY <1>1, <3>1 DEF Separate, Live
    <3>. QED BY <1>6, <1>10, <3>1, <3>2
  <2>. QED BY <2>1, <2>2, <2>3
<1>. QED BY <1>6, <1>9, <1>11, <1>12 DEF OnePlace

\* No timer gets lost, is in two places or is freed under a pass, whatever callbacks
\* add, delete or process while _process takes the lists apart (fev_tmsvc_sl_mod.c).
THEOREM NoneMislaid == Spec => []OnePlace
<1>1. Service => OnePlace BY SeparateOnePlace
<1>. QED BY <1>1, ServiceHolds, PTL

\* fev_tmmod_timeout calls no timer a whole millisecond early, though _process leaves
\* the tv_nsec of a periodic timer larger than a second.
THEOREM NoneEarly == Spec => []NotEarly
<1>1. Service => NotEarly
  <2>. SUFFICES ASSUME Service PROVE NotEarly OBVIOUS
  <2>1. DOMAIN stack = Frames BY Stack DEF Service
  <2>. QED BY <2>1 DEF Service, InProgress, NotEarly
<1>. QED BY <1>1, ServiceHolds, PTL

\* An outermost _process fires everything that was due when it read the clock.
THEOREM NoneMissed == Spec => []PassComplete
<1>1. Service => PassComplete
  <2>. SUFFICES ASSUME Service, InPass, Len(stack) = 1, timer_list = <<>> PROVE Top.owes = {}
    BY DEF PassComplete
  <2>1. 1 \in Frames /\ Top = stack[1] BY DEF Frames, Top
  <2>2. ToSet(timer_list) = {} BY EmptyList
  <2>3. ASSUME NEW t \in Top.owes PROVE FALSE BY <2>1, <2>2, <2>3 DEF Service, Owed
  <2>. QED BY <2>3
<1>. QED BY <1>1, ServiceHolds, PTL

\* Milliseconds since the epoch are less than one millisecond off.
LEMMA DueMsClose ==
  ASSUME NEW t, IsTimespec(node[t].start), node[t].expiration \in Nat
  PROVE  /\ DueMs(t) \in Nat /\ DueMs(t) * NS_PER_MS \in Int /\ Due(node[t]) \in Int
         /\ DueMs(t) * NS_PER_MS <= Due(node[t])
         /\ Due(node[t]) < DueMs(t) * NS_PER_MS + NS_PER_MS
<1>. DEFINE S == NS_PER_SECOND
            M == MS_PER_SECOND
            N == NS_PER_MS
            s == node[t].start.sec
            m == node[t].start.nsec
            e == node[t].expiration
            q == m \div N
<1>1. S = M * N /\ M \in Nat \ {0} /\ N \in Nat \ {0} BY SecondPositive, FevTmsvcAssumption
<1>2. s \in Nat /\ m \in Nat /\ e \in Nat BY DEF IsTimespec
<1>3. DueMs(t) = s * M + q + e BY DEF DueMs, TIMEMS
<1>4. Due(node[t]) = s * S + m + e * N BY DEF Due, Ns
<1>. HIDE DEF S, M, N, s, m, e
<1>5. q \in Nat /\ m % N \in 0..(N - 1) /\ m = q * N + (m % N) BY <1>1, <1>2, Divided
<1>. HIDE DEF q
<1>6. s * M \in Nat /\ q * N \in Int /\ e * N \in Int /\ s * S \in Int BY <1>1, <1>2, <1>5
<1>7. (s * M + (q + e)) * N = s * (M * N) + (q + e) * N BY <1>1, <1>2, <1>5, Regrouped
<1>8. (q + e) * N = q * N + e * N BY <1>1, <1>2, <1>5
<1>9. DueMs(t) = s * M + (q + e) /\ DueMs(t) \in Nat BY <1>2, <1>3, <1>5, <1>6
<1>10. DueMs(t) * N = s * S + q * N + e * N BY <1>1, <1>6, <1>7, <1>8, <1>9
<1>11. m % N \in Nat /\ m % N < N BY <1>1, <1>5
<1>. QED BY <1>1, <1>2, <1>4, <1>5, <1>6, <1>9, <1>10, <1>11 DEF N

\* A set of natural numbers has a least element.
LEMMA Smallest ==
  ASSUME NEW T, T \subseteq Nat, T # {}
  PROVE  \E x \in T : \A y \in T : x <= y
<1>. DEFINE R == OpToRel(<, Nat)
<1>1. IsWellFoundedOn(R, Nat) BY NatLessThanWellFounded, Zenon
<1>2. \A x, y \in Nat : y < x => <<y, x>> \in R BY DEF OpToRel
<1>. HIDE DEF R
<1>3. PICK x \in T : \A y \in T : ~(<<y, x>> \in R) BY <1>1, WFMin
<1>4. ASSUME NEW y \in T PROVE x <= y
  <2>1. x \in Nat /\ y \in Nat /\ ~(<<y, x>> \in R) BY <1>3
  <2>2. ~(y < x) BY <1>2, <2>1
  <2>. QED BY <2>1, <2>2
<1>. QED BY <1>4

\* Among the places I there is one that is due first, and the first of those.
LEMMA FirstDue ==
  ASSUME NEW I, I \subseteq Nat, I # {}, NEW d \in [I -> Nat]
  PROVE  \E i \in I : \A j \in I : d[i] < d[j] \/ (d[i] = d[j] /\ i <= j)
<1>. DEFINE V == {d[i] : i \in I}
<1>1. V \subseteq Nat /\ V # {} OBVIOUS
<1>2. PICK v \in V : \A w \in V : v <= w BY <1>1, Smallest
<1>. DEFINE J == {i \in I : d[i] = v}
<1>3. J \subseteq Nat /\ J # {} BY <1>2
<1>4. \A j \in I : v <= d[j] BY <1>2
<1>5. v \in Nat BY <1>1, <1>2
<1>. HIDE DEF V, J
<1>6. PICK i \in J : \A j \in J : i <= j BY <1>3, Smallest
<1>7. i \in I /\ d[i] = v BY <1>6 DEF J
<1>8. ASSUME NEW j \in I PROVE d[i] < d[j] \/ (d[i] = d[j] /\ i <= j)
  <2>1. CASE d[j] = v BY <1>6, <1>7, <2>1 DEF J
  <2>2. CASE d[j] # v BY <1>4, <1>5, <1>7, <2>2
  <2>. QED BY <2>1, <2>2
<1>. QED BY <1>7, <1>8

\* fev_tmsvc_top of timer_list finds the timer that is due first, to the millisecond.
THEOREM TopFinds == Spec => []TopIsFirst
<1>1. Service => TopIsFirst
  <2>. SUFFICES ASSUME Service, stack = <<>>
                PROVE  IF Valid = {} THEN fev_tmsvc_top = NoTimer
                       ELSE /\ fev_tmsvc_top \in Valid
                            /\ \A t \in Valid : Due(node[fev_tmsvc_top]) < Due(node[t]) + NS_PER_MS
    BY DEF TopIsFirst
  <2>. DEFINE I == {i \in DOMAIN timer_list : node[timer_list[i]].valid}
              d == [i \in I |-> DueMs(timer_list[i])]
              P(i) == \A j \in I : \/ DueMs(timer_list[i]) < DueMs(timer_list[j])
                                   \/ DueMs(timer_list[i]) = DueMs(timer_list[j]) /\ i <= j
              k == CHOOSE i \in I : P(i)
  <2>1. ServiceTypes /\ Separate /\ Owed BY DEF Service
  <2>2. /\ timer_list \in Seq(Timer) /\ DOMAIN timer_list = 1..Len(timer_list)
        /\ Len(timer_list) \in Nat /\ \A i \in 1..Len(timer_list) : timer_list[i] \in Timer
        /\ \A x : x \in ToSet(timer_list) <=> \E i \in 1..Len(timer_list) : timer_list[i] = x
    BY <2>1, Members DEF ServiceTypes
  <2>3. I \subseteq Nat /\ \A i \in I : timer_list[i] \in Valid BY <2>2 DEF Valid
  <2>4. \A t \in Valid : \E i \in I : timer_list[i] = t
    <3>1. Len(stack) = 0 /\ backup_list = <<>> BY <2>1, Stack DEF Owed
    <3>2. ToSet(backup_list) = {} /\ \A i \in Frames : FALSE BY <3>1, EmptyList DEF Frames
    <3>3. ASSUME NEW t \in Valid PROVE \E i \in I : timer_list[i] = t
      <4>1. t \in Timer /\ node[t].valid /\ node[t].live BY <2>1 DEF Valid, ServiceTypes
      <4>2. t \in ToSet(timer_list) BY <2>1, <3>2, <4>1 DEF Separate
      <4>. QED BY <2>2, <4>1, <4>2
    <3>. QED BY <3>3
  <2>5. \A t \in Valid : IsTimespec(node[t].start) /\ node[t].expiration \in Nat
    BY <2>1 DEF Valid, ServiceTypes, Nodes, Stamp, IsTimespec
  <2>6. \A t \in Valid : /\ DueMs(t) \in Nat /\ DueMs(t) * NS_PER_MS \in Int
                         /\ Due(node[t]) \in Int
                         /\ DueMs(t) * NS_PER_MS <= Due(node[t])
                         /\ Due(node[t]) < DueMs(t) * NS_PER_MS + NS_PER_MS
    BY <2>5, DueMsClose
  <2>7. fev_tmsvc_top = IF I = {} THEN NoTimer ELSE timer_list[k] BY DEF fev_tmsvc_top
  <2>8. d \in [I -> Nat] /\ \A i \in I : d[i] = DueMs(timer_list[i]) BY <2>3, <2>6
  <2>. HIDE DEF I, d
  <2>9. CASE I = {} BY <2>4, <2>7, <2>9
  <2>10. CASE I # {}
    <3>1. \E i \in I : \A j \in I : d[i] < d[j] \/ (d[i] = d[j] /\ i <= j)
      BY <2>3, <2>8, <2>10, FirstDue
    <3>2. \E i \in I : P(i) BY <2>8, <3>1
    <3>3. k \in I /\ P(k) BY <3>2
    <3>4. fev_tmsvc_top = timer_list[k] BY <2>7, <2>10
    <3>. HIDE DEF k
    <3>5. timer_list[k] \in Valid BY <2>3, <3>3
    <3>6. ASSUME NEW t \in Valid PROVE Due(node[timer_list[k]]) < Due(node[t]) + NS_PER_MS
      <4>. DEFINE u == timer_list[k]
      <4>1. PICK j \in I : timer_list[j] = t BY <2>4
      <4>2. u \in Valid /\ t \in Valid BY <3>5
      <4>3. DueMs(u) \in Nat /\ DueMs(t) \in Nat /\ NS_PER_MS \in Nat \ {0}
        BY <2>6, <4>2, FevTmsvcAssumption
      <4>4. DueMs(u) <= DueMs(t) BY <3>3, <4>1, <4>3
      <4>. HIDE DEF u, P
      <4>5. DueMs(u) * NS_PER_MS <= DueMs(t) * NS_PER_MS BY <4>3, <4>4, Scaled
      <4>. QED BY <2>6, <4>2, <4>3, <4>5 DEF u
    <3>. QED BY <3>4, <3>5, <3>6
  <2>. QED BY <2>9, <2>10
<1>. QED BY <1>1, ServiceHolds, PTL

-----------------------------------------------------------------------------
(* Asynchronous connects.                                                  *)

SockState == {"closed", "connecting", "up", "refused", "user", "leaked"}
Pending == {"connecting", "up", "refused"}

ConnTypes ==
  /\ info \in [Conn -> {"none", "live", "freed"}] /\ DOMAIN fd = Conn
  /\ mem \in [Conn -> Conn] /\ sock \in [FD -> SockState]
  /\ reg \in [FD -> Conn \cup {NoConn}] /\ running \in Conn \cup {NoConn}
  /\ ret \in [Conn -> {-1, 0, 1}] /\ DOMAIN told = Conn /\ fault \in BOOLEAN
  /\ \A c \in Conn : info[c] # "none" => fd[c] \in FD

\* Memory is handed on from a conn_info that was freed to one that is made.
HandedOn ==
  \A c \in Conn : /\ mem[mem[c]] = mem[c]
                  /\ info[c] # "freed" => mem[c] = c
                  /\ info[c] # "none" => info[mem[c]] # "none"

\* Nobody starts a pass inside a pass here.  A conn_cb runs for a conn_info that was
\* made, and the timer that called it, if one did, is its own or that of a connect that is
\* over; no event is registered with what is reported, nor for a socket that is gone.
Reporting ==
  /\ Len(stack) <= 1
  /\ running # NoConn =>
       /\ info[running] # "none"
       /\ stack # <<>> => Top.cur # NoTimer /\ (info[Top.cur] = "live" => Top.cur = running)
  /\ \A f \in FD : reg[f] # NoConn => reg[f] # running /\ sock[f] \in Pending

\* What conn_cb was called with: something when the conn_info is reported or was freed
\* after fev_conn accepted, nothing before; a late call is the one that runs.
IsLate(s) == s = <<"late">> \/ \E x \in Proper : s = <<x, "late">>
Said(c) ==
  /\ told[c] \in Reports(ret[c])
  /\ told[c] # <<>> /\ info[c] = "live" => running = c
  /\ running = c \/ (info[c] = "freed" /\ ret[c] = 0) => told[c] # <<>>
  /\ IsLate(told[c]) => fault \/ (running = c /\ info[c] = "freed")

\* What fev_conn returned and what became of it, by connection.
Answers ==
  \A c \in Conn :
    /\ info[c] = "none" => ~node[c].live
    /\ ret[c] = 1 => info[c] = "none"
    /\ ret[c] = -1 => /\ info[c] # "live" /\ ~node[c].valid
                      /\ \A i \in Frames : stack[i].cur # c
    /\ Said(c)

Conns == ConnTypes /\ HandedOn /\ Reporting /\ Guarded /\ Answers
ConnInv == Service /\ Conns

\* A report is made of one word or two.
LEMMA Words ==
  ASSUME NEW s, NEW r
  PROVE  /\ s \in Reports(0) <=> \/ s = <<>>
                                 \/ \E x \in Proper : s = <<x>> \/ s = <<x, "late">>
         /\ s \in Reports(-1) <=> s = <<>> \/ s = <<"late">>
         /\ s \in Reports(1) <=> s = <<>>
         /\ <<>> \in Reports(r) /\ ~IsLate(<<>>)
         /\ \A x \in Proper : <<x>> # <<>> /\ ~IsLate(<<x>>)
<1>1. /\ Reports(0) = {<<>>} \cup {<<x>> : x \in Proper} \cup {<<x, "late">> : x \in Proper}
      /\ Reports(-1) = {<<>>} \cup {<<"late">>}
      /\ Reports(1) = {<<>>}
  BY DEF Reports
<1>2. <<>> \in Reports(r) BY DEF Reports
<1>3. ~IsLate(<<>>) BY DEF IsLate
<1>4. ASSUME NEW x \in Proper PROVE <<x>> # <<>> /\ ~IsLate(<<x>>) BY DEF IsLate, Proper
<1>. QED BY <1>1, <1>2, <1>3, <1>4

\* No connect has been asked for.
LEMMA ConnInit == CInit => ConnInv
<1>. SUFFICES ASSUME CInit PROVE ConnInv OBVIOUS
<1>1. Service BY ServiceInit DEF CInit
<1>2. /\ info = [c \in Conn |-> "none"] /\ fd = [c \in Conn |-> CHOOSE f \in FD : TRUE]
      /\ mem = [c \in Conn |-> c]
      /\ sock = [f \in FD |-> "closed"] /\ reg = [f \in FD |-> NoConn]
      /\ running = NoConn /\ ret = [c \in Conn |-> 1] /\ told = [c \in Conn |-> <<>>]
      /\ stack = <<>> /\ node = [t \in Conn |-> Freed] /\ fault = FALSE
  BY DEF CInit, Init, Conn
<1>3. Len(stack) = 0 BY <1>2, EmptyList
<1>4. ConnTypes BY <1>2 DEF ConnTypes, SockState
<1>5. Reporting BY <1>2, <1>3 DEF Reporting
<1>6. Guarded BY <1>2 DEF Guarded
<1>7. HandedOn BY <1>2 DEF HandedOn
<1>8. \A c \in Conn : c # NoConn BY FevTmsvcAssumption DEF Conn, NoConn
<1>9. Answers
  <2>1. ASSUME NEW c \in Conn PROVE Said(c) BY <1>2, <1>8, Words DEF Said
  <2>. QED BY <1>2, <2>1, FreedIs DEF Answers
<1>. QED BY <1>1, <1>4, <1>5, <1>6, <1>7, <1>9 DEF ConnInv, Conns

\* A step of the timer service alone: no connection loses its timer, no timer is armed,
\* and one that was given up is not called.
LEMMA ConnUntouched ==
  ASSUME ConnInv, UNCHANGED <<info, fd, mem, sock, reg, running, ret, told, fault>>,
         Len(stack') <= 1,
         running # NoConn /\ stack' # <<>> =>
           Top'.cur # NoTimer /\ (info[Top'.cur] = "live" => Top'.cur = running),
         alive' => alive,
         \A c \in Conn : /\ node'[c].live => node[c].live
                         /\ node'[c].valid => node[c].valid
                         /\ alive' /\ node[c].valid => node'[c].valid
                         /\ ret[c] = -1 => \A i \in Frames' : stack'[i].cur # c
  PROVE  Conns'
<1>1. ConnTypes' /\ HandedOn' BY DEF ConnInv, Conns, ConnTypes, HandedOn
<1>2. Reporting' BY DEF ConnInv, Conns, Reporting
<1>3. Guarded'
  <2>1. /\ \A c \in Conn : info[c] = "live" /\ running # c
                             => /\ alive => node[c].valid
                                /\ \/ fault \/ Late
                                   \/ /\ reg[fd[c]] = c
                                      /\ sock[fd[c]] \in {"connecting", "up", "refused"}
        /\ \A f \in FD : reg[f] # NoConn => info[reg[f]] = "live" /\ fd[reg[f]] = f
    BY DEF ConnInv, Conns, Guarded
  <2>2. Late' <=> Late BY DEF Late
  <2>. QED BY <2>1, <2>2 DEF Guarded
<1>4. Answers'
  <2>1. \A c \in Conn : Said(c) => Said(c)' BY DEF Said
  <2>. QED BY <2>1 DEF ConnInv, Conns, Answers
<1>. QED BY <1>1, <1>2, <1>3, <1>4 DEF Conns

\* The steps of a pass, as far as connections can tell.
LEMMA StepEffect ==
  ASSUME Service, PassStep
  PROVE  /\ Len(stack') = Len(stack) /\ Frames' = Frames
         /\ \A c \in Timer : /\ node'[c].live => node[c].live
                             /\ node'[c].valid <=> node[c].valid
         /\ \A i \in Frames : \A c \in Timer :
              stack'[i].cur = c => stack[i].cur = c \/ node[c].valid
<1>. DEFINE n == Len(stack)
            t == Head(timer_list)
<1>1. ServiceTypes /\ stack # <<>> /\ timer_list # <<>>
  BY DEF Service, PassStep, InPass
<1>2. /\ n \in Nat /\ n # 0 /\ stack \in Seq(Frame)
  BY <1>1, Stack DEF ServiceTypes
<1>3. t \in Timer BY <1>1, PoppedOff DEF ServiceTypes
<1>. HIDE DEF t
<1>4. CASE ~node[t].valid /\ Destroy(t) /\ UNCHANGED <<stack, backup_list>>
  <2>1. node' = [node EXCEPT ![t] = Freed] BY <1>4 DEF Destroy
  <2>2. /\ \A x \in Timer : x # t => node'[x] = node[x]
        /\ ~node'[t].live /\ ~node'[t].valid
    BY <1>1, <1>3, <2>1, FreedIs DEF ServiceTypes
  <2>. QED BY <1>4, <2>2 DEF Frames
<1>5. CASE /\ node[t].valid /\ fev_tmmod_timeout(node[t], Top.now)
           /\ stack' = [Settled(t) EXCEPT ![Len(stack)].cur = t,
                                          ![Len(stack)].lag = Ns(Top.now) - Due(node[t])]
           /\ UNCHANGED <<node, backup_list>>
  <2>. DEFINE s == Settled(t)
              g == Ns(Top.now) - Due(node[t])
  <2>1. /\ s \in Seq(Frame) /\ Len(s) = n
        /\ \A i \in Frames : s[i].cur = stack[i].cur
    BY <1>1, <1>3, SettledIs
  <2>2. g \in Int
    <3>1. IsClock(stack[n].now) BY <1>2 DEF Service, InProgress, Frames
    <3>2. IsTimespec(node[t].start) /\ node[t].expiration \in Nat
      BY <1>1, <1>3 DEF ServiceTypes, Nodes, Stamp, IsTimespec
    <3>. QED BY <3>1, <3>2, TimeoutExact DEF Top
  <2>3. stack' = OnTop(s, t, g) /\ t \in Timer \cup {NoTimer} BY <1>3, <1>5, <2>1 DEF OnTop
  <2>. HIDE DEF s, g
  <2>4. /\ Len(stack') = Len(s)
        /\ \A i \in 1..Len(s) : i # Len(s) => stack'[i].cur = s[i].cur
        /\ stack'[Len(s)].cur = t
    <3>1. Len(s) # 0 BY <1>2, <2>1
    <3>2. s \in Seq(Frame) BY <2>1
    <3>. QED BY <2>2, <2>3, <3>1, <3>2, TopSet
  <2>5. Len(stack') = n /\ Frames' = Frames BY <2>1, <2>4 DEF Frames
  <2>6. \A i \in Frames : stack'[i].cur = stack[i].cur \/ stack'[i].cur = t
    BY <2>1, <2>4 DEF Frames
  <2>. QED BY <1>5, <2>5, <2>6
<1>6. CASE UNCHANGED <<node, stack>> BY <1>6 DEF Frames
<1>. QED BY <1>4, <1>5, <1>6 DEF PassStep, t

\* The return of a callback, as far as connections can tell.
LEMMA ReturnEffect ==
  ASSUME Service, CallbackReturns
  PROVE  /\ Len(stack') = Len(stack) /\ Frames' = Frames
         /\ \A c \in Timer : c # Top.cur => node'[c] = node[c]
         /\ \A i \in Frames : \A c \in Timer : stack'[i].cur = c => stack[i].cur = c
<1>. DEFINE n == Len(stack)
<1>1. /\ ServiceTypes /\ stack # <<>> /\ stack' = OnTop(stack, NoTimer, 0)
  BY DEF Service, CallbackReturns, OnTop
<1>2. /\ n \in Nat /\ n # 0 /\ stack \in Seq(Frame)
  BY <1>1, Stack DEF ServiceTypes
<1>3. NoTimer \in Timer \cup {NoTimer} /\ 0 \in Int /\ NoTimer \notin Timer
  BY FevTmsvcAssumption
<1>4. /\ Len(stack') = n
      /\ \A i \in 1..n : i # n => stack'[i].cur = stack[i].cur
      /\ stack'[n].cur = NoTimer
  BY <1>1, <1>2, <1>3, TopSet
<1>5. Frames = 1..n /\ Frames' = 1..n BY <1>4 DEF Frames
<1>6. ASSUME NEW c \in Timer, c # Top.cur PROVE node'[c] = node[c]
  <2>1. \/ node' = [node EXCEPT ![Top.cur] = Rescheduled(@)]
        \/ node' = [node EXCEPT ![Top.cur] = Freed]
    BY DEF CallbackReturns, Destroy
  <2>2. node \in [Timer -> Nodes] BY <1>1 DEF ServiceTypes
  <2>. QED BY <1>6, <2>1, <2>2
<1>. QED BY <1>3, <1>4, <1>5, <1>6

\* What a pass or the clock does around connections.
LEMMA ConnPass ==
  ASSUME ConnInv, TimerPass \/ ServicePass \/ TimePasses \/ fev_conn_module_unload
  PROVE  ConnInv'
<1>1. Service /\ ServiceTypes /\ Reporting /\ Answers /\ running \in Conn \cup {NoConn}
  BY DEF ConnInv, Conns, Service, ConnTypes
<1>2. Len(stack) \in Nat /\ (stack = <<>> <=> Len(stack) = 0) BY <1>1, Stack
<1>3. UNCHANGED <<info, fd, mem, sock, reg, running, ret, told, fault>>
  BY DEF TimerPass, ServicePass, TimePasses, fev_conn_module_unload, conns
<1>4. CASE TimerPass
  <2>1. OnTimer /\ running = NoConn BY <1>4 DEF TimerPass, InLoop
  <2>2. /\ stack = <<>> /\ InApp /\ Begin(stack)
        /\ UNCHANGED <<clock, node, timer_list, backup_list, alive>>
    BY <2>1 DEF OnTimer, InApp
  <2>3. Service' BY <1>1, <2>2, ServiceBegin
  <2>. DEFINE f == [now |-> Now, cur |-> NoTimer, lag |-> 0,
                    owes |-> {t \in Valid : stack = <<>> /\ Due(node[t]) <= clock}]
  <2>4. stack' = <<f>> /\ f.cur = NoTimer BY <2>2 DEF Begin
  <2>. HIDE DEF f
  <2>5. Len(stack') = 1 /\ Frames' = {1} /\ stack'[1].cur = NoTimer BY <2>4 DEF Frames
  <2>6. NoTimer \notin Conn BY FevTmsvcAssumption DEF Conn
  <2>7. Conns' BY <1>3, <2>1, <2>2, <2>5, <2>6, ConnUntouched
  <2>. QED BY <2>3, <2>7 DEF ConnInv
<1>5. CASE PassStep
  <2>1. Service' BY <1>1, <1>5, ServiceStep
  <2>2. /\ Len(stack') = Len(stack) /\ Frames' = Frames
        /\ \A c \in Timer : /\ node'[c].live => node[c].live
                            /\ node'[c].valid <=> node[c].valid
        /\ \A i \in Frames : \A c \in Timer :
             stack'[i].cur = c => stack[i].cur = c \/ node[c].valid
    BY <1>1, <1>5, StepEffect
  <2>3. running = NoConn /\ UNCHANGED alive
    BY <1>1, <1>5 DEF PassStep, InPass, Reporting, NoConn
  <2>4. ASSUME NEW c \in Conn, ret[c] = -1, NEW i \in Frames' PROVE stack'[i].cur # c
    BY <1>1, <2>2, <2>4 DEF Answers, Conn
  <2>5. Len(stack') <= 1 BY <1>1, <2>2 DEF Reporting
  <2>6. Conns' BY <1>3, <2>2, <2>3, <2>4, <2>5, ConnUntouched DEF Conn
  <2>. QED BY <2>1, <2>6 DEF ConnInv
<1>6. CASE PassEnd
  <2>1. Service' BY <1>1, <1>6, ServiceEnd
  <2>2. /\ stack # <<>> /\ stack' = Front(stack) /\ UNCHANGED <<node, alive>>
        /\ running = NoConn
    BY <1>1, <1>6 DEF PassEnd, InPass, Reporting, NoConn
  <2>3. /\ Len(stack') = Len(stack) - 1
        /\ \A i \in 1..(Len(stack) - 1) : i \in Frames /\ stack'[i] = stack[i]
    BY <1>1, <1>2, <2>2, FrontIs
  <2>4. Len(stack') <= 1 /\ Frames' = 1..(Len(stack) - 1)
    BY <1>1, <1>2, <2>3 DEF Reporting, Frames
  <2>5. ASSUME NEW c \in Conn, ret[c] = -1, NEW i \in Frames' PROVE stack'[i].cur # c
    BY <1>1, <2>3, <2>4, <2>5 DEF Answers
  <2>6. Conns' BY <1>3, <2>2, <2>4, <2>5, ConnUntouched
  <2>. QED BY <2>1, <2>6 DEF ConnInv
<1>7. CASE TimePasses
  <2>1. Service' BY <1>1, <1>7, ServiceTick DEF TimePasses
  <2>2. UNCHANGED <<node, stack, alive>> BY <1>7 DEF TimePasses, Tick
  <2>3. Frames' = Frames /\ Top' = Top BY <2>2 DEF Frames, Top
  <2>4. ASSUME NEW c \in Conn, ret[c] = -1, NEW i \in Frames' PROVE stack'[i].cur # c
    BY <1>1, <2>2, <2>3, <2>4 DEF Answers
  <2>5. /\ Len(stack') <= 1
        /\ running # NoConn /\ stack' # <<>> =>
             Top'.cur # NoTimer /\ (info[Top'.cur] = "live" => Top'.cur = running)
    BY <1>1, <2>2, <2>3 DEF Reporting
  <2>6. Conns' BY <1>3, <2>2, <2>4, <2>5, ConnUntouched
  <2>. QED BY <2>1, <2>6 DEF ConnInv
<1>8. CASE fev_conn_module_unload
  <2>1. fev_tmsvc_destroy /\ running = NoConn BY <1>8 DEF fev_conn_module_unload
  <2>2. Service' /\ \A t \in Timer : ~node'[t].live BY <1>1, <2>1, ServiceDestroyed
  <2>3. ~alive' /\ stack' = <<>> /\ UNCHANGED stack BY <2>1 DEF fev_tmsvc_destroy
  <2>4. \A t \in Timer : ~node'[t].valid BY <2>2 DEF Service, ServiceTypes
  <2>5. Len(stack') <= 1 /\ \A i \in Frames' : FALSE BY <1>2, <2>3 DEF Frames
  <2>6. Conns' BY <1>3, <2>1, <2>2, <2>3, <2>4, <2>5, ConnUntouched DEF Conn
  <2>. QED BY <2>2, <2>6 DEF ConnInv
<1>. QED BY <1>4, <1>5, <1>6, <1>7, <1>8 DEF ServicePass

\* The round itself, and steps that change nothing.
LEMMA ConnRound ==
  ASSUME ConnInv,
         fev_poll \/ PollReturns \/ (\E f \in FD : Skip(f)) \/ TimerDone \/ UNCHANGED cvars
  PROVE  ConnInv'
<1>1. UNCHANGED <<info, fd, mem, sock, reg, running, ret, told, fault>> /\ UNCHANGED timers
  BY DEF fev_poll, PollReturns, Skip, TimerDone, cvars, conns
<1>2. UNCHANGED vars BY <1>1 DEF vars, timers
<1>3. Service' BY <1>2, ServiceSame DEF ConnInv
<1>4. UNCHANGED <<node, stack, alive>> BY <1>2 DEF vars
<1>5. Frames' = Frames /\ Top' = Top BY <1>4 DEF Frames, Top
<1>6. Reporting /\ Answers BY DEF ConnInv, Conns
<1>7. ASSUME NEW c \in Conn, ret[c] = -1, NEW i \in Frames' PROVE stack'[i].cur # c
  BY <1>4, <1>5, <1>6, <1>7 DEF Answers
<1>8. /\ Len(stack') <= 1
      /\ running # NoConn /\ stack' # <<>> =>
           Top'.cur # NoTimer /\ (info[Top'.cur] = "live" => Top'.cur = running)
  BY <1>4, <1>5, <1>6 DEF Reporting
<1>9. Conns' BY <1>1, <1>4, <1>7, <1>8, ConnUntouched
<1>. QED BY <1>3, <1>9 DEF ConnInv


\* A socket changes that no connect in progress waits for, or it changes to another
\* state that one may wait in: nobody's guards are gone.
LEMMA ConnSock ==
  ASSUME ConnInv, NEW f \in FD, NEW s \in SockState, SetSock(f, s),
         sock[f] \notin Pending \/ s \in Pending,
         UNCHANGED <<info, fd, reg, running, fault>>, UNCHANGED timers
  PROVE  Reporting' /\ Guarded' /\ sock' \in [FD -> SockState]
<1>1. UNCHANGED <<node, stack, alive>> BY DEF timers
<1>2. /\ sock' \in [FD -> SockState]
      /\ sock'[f] = s /\ \A g \in FD : g # f => sock'[g] = sock[g]
  BY DEF ConnInv, Conns, ConnTypes, SetSock
<1>3. \A g \in FD : sock[g] \in Pending => sock'[g] \in Pending BY <1>2
<1>4. Reporting' BY <1>1, <1>3 DEF ConnInv, Conns, Reporting, Top
<1>5. Guarded'
  <2>1. ASSUME NEW c \in Conn, info[c] = "live", running # c
        PROVE  /\ alive => node[c].valid
               /\ fault \/ Late \/ (reg[fd[c]] = c /\ sock'[fd[c]] \in Pending)
    <3>1. /\ alive => node[c].valid
          /\ fault \/ Late \/ (reg[fd[c]] = c /\ sock[fd[c]] \in Pending)
          /\ fd[c] \in FD
      BY <2>1 DEF ConnInv, Conns, Guarded, ConnTypes, Pending
    <3>. QED BY <1>3, <3>1
  <2>2. \A g \in FD : reg[g] # NoConn => info[reg[g]] = "live" /\ fd[reg[g]] = g
    BY DEF ConnInv, Conns, Guarded
  <2>3. Late' <=> Late BY DEF Late
  <2>. QED BY <1>1, <2>1, <2>2, <2>3 DEF Guarded, Pending
<1>. QED BY <1>2, <1>4, <1>5

\* The timers stand still.
LEMMA ConnStill ==
  ASSUME ConnInv, UNCHANGED timers
  PROVE  Service' /\ Frames' = Frames /\ UNCHANGED <<node, stack, alive>> /\ Top' = Top
<1>1. UNCHANGED vars BY DEF vars, timers
<1>2. Service' BY <1>1, ServiceSame DEF ConnInv
<1>. QED BY <1>1, <1>2 DEF vars, Frames, Top

\* A connect whose conn_info is not there yet is in no list and in no callback, and its
\* memory is nobody else's.
LEMMA FreshConn ==
  ASSUME ConnInv, NEW c \in Conn, ret[c] = 1
  PROVE  /\ info[c] = "none" /\ ~node[c].live /\ ~node[c].valid /\ running # c
         /\ told[c] = <<>> /\ \A i \in Frames : stack[i].cur # c
         /\ mem[c] = c /\ c # NoConn
<1>1. info[c] = "none" /\ ~node[c].live /\ Said(c) BY DEF ConnInv, Conns, Answers
<1>2. ~node[c].valid BY <1>1 DEF ConnInv, Service, ServiceTypes, Conn
<1>3. c # NoConn BY FevTmsvcAssumption DEF Conn, NoConn
<1>4. running # c BY <1>1, <1>3 DEF ConnInv, Conns, Reporting
<1>5. told[c] = <<>> BY <1>1, Words DEF Said
<1>6. \A i \in Frames : stack[i].cur # c BY <1>1 DEF ConnInv, Service, Separate, Conn
<1>7. mem[c] = c BY <1>1 DEF ConnInv, Conns, HandedOn
<1>. QED BY <1>1, <1>2, <1>3, <1>4, <1>5, <1>6, <1>7

\* fev_conn fails at once, or connects at once.
LEMMA ConnAtOnce ==
  ASSUME ConnInv, NEW c \in Conn, ret[c] = 1, UNCHANGED fault,
         ConnError(c) \/ \E f \in FD : sock[f] = "closed" /\ ConnNow(c, f)
  PROVE  ConnInv'
<1>1. UNCHANGED <<info, fd, mem, reg, running>> /\ UNCHANGED timers BY DEF ConnError, ConnNow
<1>2. Service' /\ Frames' = Frames /\ UNCHANGED <<node, stack, alive>> /\ Top' = Top
  BY <1>1, ConnStill
<1>3. /\ info[c] = "none" /\ ~node[c].live /\ ~node[c].valid /\ running # c
      /\ told[c] = <<>> /\ \A i \in Frames : stack[i].cur # c
  BY FreshConn
<1>4. Reporting' /\ Guarded' /\ sock' \in [FD -> SockState]
  <2>1. CASE UNCHANGED sock
    <3>1. Reporting' BY <1>1, <1>2, <2>1 DEF ConnInv, Conns, Reporting
    <3>2. Guarded'
      <4>1. Guarded BY DEF ConnInv, Conns
      <4>2. Late' <=> Late BY <1>1 DEF Late
      <4>. QED BY <1>1, <1>2, <2>1, <4>1, <4>2 DEF Guarded
    <3>3. sock' \in [FD -> SockState] BY <2>1 DEF ConnInv, Conns, ConnTypes
    <3>. QED BY <3>1, <3>2, <3>3
  <2>2. ASSUME NEW f \in FD, sock[f] = "closed", SetSock(f, "leaked") \/ SetSock(f, "user")
        PROVE  Reporting' /\ Guarded' /\ sock' \in [FD -> SockState]
    <3>1. "leaked" \in SockState /\ "user" \in SockState /\ sock[f] \notin Pending
      BY <2>2 DEF SockState, Pending
    <3>. QED BY <1>1, <2>2, <3>1, ConnSock
  <2>. QED BY <2>1, <2>2 DEF ConnError, ConnNow
<1>5. /\ ret' \in [Conn -> {-1, 0, 1}] /\ DOMAIN told' = Conn
      /\ \A x \in Conn : x # c => ret'[x] = ret[x] /\ told'[x] = told[x]
      /\ \/ ret'[c] = -1 /\ told'[c] = <<>>
         \/ ret'[c] = 0 /\ told'[c] = <<"ok">>
  <2>1. ret \in [Conn -> {-1, 0, 1}] /\ DOMAIN told = Conn
    BY DEF ConnInv, Conns, ConnTypes
  <2>2. CASE ret' = [ret EXCEPT ![c] = -1] /\ UNCHANGED told BY <1>3, <2>1, <2>2
  <2>3. CASE Returns(c, 0) /\ Tell(c, "ok")
    <3>1. ret' = [ret EXCEPT ![c] = 0] BY <2>3 DEF Returns
    <3>2. told' = [told EXCEPT ![c] = Append(told[c], "ok")] BY <2>3 DEF Tell
    <3>3. Append(<<>>, "ok") = <<"ok">> OBVIOUS
    <3>. QED BY <1>3, <2>1, <3>1, <3>2, <3>3
  <2>. QED BY <2>2, <2>3 DEF ConnError, ConnNow, Returns
<1>6. ConnTypes' /\ HandedOn' BY <1>1, <1>4, <1>5 DEF ConnInv, Conns, ConnTypes, HandedOn
<1>7. Answers'
  <2>1. ASSUME NEW x \in Conn
        PROVE  /\ info[x] = "none" => ~node[x].live
               /\ ret'[x] = 1 => info[x] = "none"
               /\ ret'[x] = -1 => /\ info[x] # "live" /\ ~node[x].valid
                                  /\ \A i \in Frames : stack[i].cur # x
               /\ Said(x)'
    <3>1. CASE x = c
      <4>1. "ok" \in Proper BY DEF Proper
      <4>2. told'[c] \in Reports(ret'[c]) /\ ~IsLate(told'[c]) BY <1>5, <4>1, Words
      <4>. QED BY <1>1, <1>3, <1>5, <3>1, <4>2 DEF Said
    <3>2. CASE x # c BY <1>1, <1>5, <3>2 DEF ConnInv, Conns, Answers, Said
    <3>. QED BY <3>1, <3>2
  <2>. QED BY <1>1, <1>2, <2>1 DEF Answers
<1>. QED BY <1>2, <1>4, <1>6, <1>7 DEF ConnInv, Conns

\* The world outside: the caller closes a socket, a connect completes or is refused.
LEMMA ConnOutside ==
  ASSUME ConnInv, NEW f \in FD, UserClose(f) \/ Arrives(f)
  PROVE  ConnInv'
<1>1. UNCHANGED <<info, fd, mem, reg, running, ret, told, fault>> /\ UNCHANGED timers
  BY DEF UserClose, Arrives
<1>2. Service' /\ Frames' = Frames /\ UNCHANGED <<node, stack, alive>> /\ Top' = Top
  BY <1>1, ConnStill
<1>3. Reporting' /\ Guarded' /\ sock' \in [FD -> SockState]
  <2>1. {"closed", "up", "refused"} \subseteq SockState /\ {"up", "refused"} \subseteq Pending
    BY DEF SockState, Pending
  <2>2. CASE UserClose(f)
    <3>1. sock[f] \notin Pending /\ SetSock(f, "closed") BY <2>2 DEF UserClose, Pending
    <3>. QED BY <1>1, <2>1, <3>1, ConnSock
  <2>3. CASE Arrives(f)
    <3>1. SetSock(f, "up") \/ SetSock(f, "refused") BY <2>3 DEF Arrives
    <3>. QED BY <1>1, <2>1, <3>1, ConnSock
  <2>. QED BY <2>2, <2>3
<1>4. ConnTypes' /\ HandedOn' BY <1>1, <1>3 DEF ConnInv, Conns, ConnTypes, HandedOn
<1>5. Answers'
  <2>1. \A x \in Conn : Said(x) => Said(x)' BY <1>1 DEF Said
  <2>. QED BY <1>1, <1>2, <2>1 DEF ConnInv, Conns, Answers
<1>. QED BY <1>2, <1>3, <1>4, <1>5 DEF ConnInv, Conns

\* Nobody is registered for a socket that is closed.
LEMMA ClosedUnused ==
  ASSUME ConnInv, NEW f \in FD, sock[f] = "closed"
  PROVE  /\ reg[f] = NoConn
         /\ \A x \in Conn : info[x] = "live" /\ running # x /\ ~fault /\ ~Late => fd[x] # f
<1>1. Guarded /\ Reporting BY DEF ConnInv, Conns
<1>2. \A x \in Conn : info[x] = "live" /\ running # x /\ ~fault /\ ~Late => fd[x] # f
  BY <1>1 DEF Guarded
<1>3. reg[f] = NoConn BY <1>1 DEF Reporting, Pending
<1>. QED BY <1>2, <1>3

\* The memory of a new conn_info is its own, and not that of one that is live.
LEMMA CallocKeeps ==
  ASSUME ConnTypes, HandedOn, NEW c \in Conn, info[c] = "none", Calloc(c),
         NEW s \in {"live", "freed"}, info' = [info EXCEPT ![c] = s]
  PROVE  HandedOn' /\ mem' \in [Conn -> Conn]
<1>1. mem \in [Conn -> Conn] /\ mem[c] = c BY DEF ConnTypes, HandedOn
<1>2. info'[c] = s /\ \A x \in Conn : x # c => info'[x] = info[x] BY DEF ConnTypes
<1>3. CASE UNCHANGED mem
  <2>1. \A x \in Conn : mem[x] # c \/ info'[mem[x]] # "none" BY <1>2
  <2>2. ASSUME NEW x \in Conn
        PROVE  /\ mem[mem[x]] = mem[x]
               /\ info'[x] # "freed" => mem[x] = x
               /\ info'[x] # "none" => info'[mem[x]] # "none"
    <3>1. CASE x = c BY <1>1, <1>2, <3>1
    <3>2. CASE x # c BY <1>1, <1>2, <3>2 DEF HandedOn
    <3>. QED BY <3>1, <3>2
  <2>. QED BY <1>1, <1>3, <2>2 DEF HandedOn
<1>4. ASSUME NEW d \in Conn, info[d] = "freed",
             mem' = [e \in Conn |-> IF mem[e] = d THEN c ELSE mem[e]]
      PROVE  HandedOn' /\ mem' \in [Conn -> Conn]
  <2>1. mem' \in [Conn -> Conn] BY <1>1, <1>4
  <2>2. \A e \in Conn : mem'[e] = IF mem[e] = d THEN c ELSE mem[e] BY <1>4
  <2>3. d # c /\ mem'[c] = c BY <1>1, <1>4, <2>2
  <2>4. ASSUME NEW x \in Conn
        PROVE  /\ mem'[mem'[x]] = mem'[x]
               /\ info'[x] # "freed" => mem'[x] = x
               /\ info'[x] # "none" => info'[mem'[x]] # "none"
    <3>1. CASE x = c BY <1>2, <2>3, <3>1
    <3>2. CASE x # c /\ mem[x] = d
      <4>1. mem'[x] = c BY <2>2, <3>2
      <4>2. info[x] = "freed" BY <1>4, <3>2 DEF HandedOn
      <4>. QED BY <1>2, <2>3, <3>2, <4>1, <4>2
    <3>3. CASE x # c /\ mem[x] # d
      <4>1. mem'[x] = mem[x] /\ mem[x] \in Conn /\ mem[mem[x]] = mem[x]
        BY <1>1, <2>2, <3>3 DEF HandedOn
      <4>2. mem'[mem[x]] = mem[x] BY <2>2, <3>3, <4>1
      <4>3. info[x] # "none" => info'[mem[x]] # "none" BY <1>2, <4>1 DEF HandedOn
      <4>. QED BY <1>2, <3>3, <4>1, <4>2, <4>3 DEF HandedOn
    <3>. QED BY <3>1, <3>2, <3>3
  <2>. QED BY <2>1, <2>4 DEF HandedOn
<1>. QED BY <1>3, <1>4 DEF Calloc

\* fev_conn is in progress, or could not register.
LEMMA ConnStarted ==
  ASSUME ConnInv, NEW c \in Conn, ret[c] = 1, NEW f \in FD, NEW timeout \in Delays,
         sock[f] = "closed", ConnPending(c, f, timeout) \/ ConnNoReg(c, f, timeout),
         UNCHANGED fault
  PROVE  ConnInv'
<1>1. /\ UNCHANGED <<running, told, clock, stack, alive, backup_list>> /\ Calloc(c)
      /\ timer_list' = fdlist_push(timer_list, c) /\ fd' = [fd EXCEPT ![c] = f]
  BY DEF ConnPending, ConnNoReg, Add
<1>2. /\ info[c] = "none" /\ ~node[c].live /\ ~node[c].valid /\ running # c
      /\ told[c] = <<>> /\ \A i \in Frames : stack[i].cur # c
      /\ c # NoConn
  BY FreshConn
<1>3. /\ reg[f] = NoConn
      /\ \A x \in Conn : info[x] = "live" /\ running # x /\ ~fault /\ ~Late => fd[x] # f
  BY ClosedUnused
<1>4. Frames' = Frames /\ Top' = Top BY <1>1 DEF Frames, Top
<1>5. ConnTypes /\ HandedOn /\ Reporting /\ Guarded /\ Answers /\ Service
  BY DEF ConnInv, Conns
<1>6. node \in [Conn -> Nodes] /\ clock \in Nat
  BY DEF ConnInv, Service, ServiceTypes, Conn
<1>7. timeout \in Nat /\ Now \in Stamp BY <1>6, StampIs, FevTmsvcAssumption DEF Now
<1>8. \A x \in Conn : x # c => fd'[x] = fd[x] BY <1>1, <1>5 DEF ConnTypes
<1>9. fd'[c] = f /\ DOMAIN fd' = Conn BY <1>1, <1>5 DEF ConnTypes
<1>10. stack # <<>> => Top.cur # c
  <2>1. stack # <<>> => Len(stack) \in Frames BY <1>5, Stack DEF Service, Frames
  <2>. QED BY <1>2, <2>1 DEF Top
<1>11. ASSUME NEW s \in {"live", "freed"}, info' = [info EXCEPT ![c] = s]
       PROVE  /\ info'[c] = s /\ \A x \in Conn : x # c => info'[x] = info[x]
              /\ info' \in [Conn -> {"none", "live", "freed"}]
              /\ \A x \in Conn : info'[x] # "none" => fd'[x] \in FD
              /\ running # NoConn =>
                   /\ info'[running] # "none"
                   /\ stack # <<>> =>
                        Top.cur # NoTimer /\ (info'[Top.cur] = "live" => Top.cur = running)
              /\ Late' <=> Late
              /\ \A x \in Conn : x # c /\ ret'[x] = ret[x] /\ Said(x) => Said(x)'
  <2>1. info'[c] = s /\ \A x \in Conn : x # c => info'[x] = info[x]
    BY <1>5, <1>11 DEF ConnTypes
  <2>2. info' \in [Conn -> {"none", "live", "freed"}] BY <1>5, <1>11 DEF ConnTypes
  <2>3. \A x \in Conn : info'[x] # "none" => fd'[x] \in FD
    BY <1>5, <1>8, <1>9, <2>1 DEF ConnTypes
  <2>4. running # NoConn => running \in Conn /\ info'[running] = info[running]
    BY <1>2, <1>5, <2>1 DEF ConnTypes
  <2>5. \A x : info'[x] = "live" /\ x # c => info[x] = "live" BY <1>11, <1>5 DEF ConnTypes
  <2>6. Late' <=> Late BY <1>1, <2>4 DEF Late
  <2>7. \A x \in Conn : x # c /\ ret'[x] = ret[x] /\ Said(x) => Said(x)'
    BY <1>1, <2>1 DEF Said
  <2>. QED BY <1>5, <1>10, <2>1, <2>2, <2>3, <2>4, <2>5, <2>6, <2>7 DEF Reporting
<1>12. CASE ConnPending(c, f, timeout)
  <2>1. /\ info' = [info EXCEPT ![c] = "live"] /\ sock' = [sock EXCEPT ![f] = "connecting"]
        /\ reg' = [reg EXCEPT ![f] = c] /\ ret' = [ret EXCEPT ![c] = 0]
        /\ Add(c, timeout, 0)
    BY <1>12 DEF ConnPending, SetSock, Returns
  <2>2. Service'
    <3>1. 0 \in Nat OBVIOUS
    <3>. QED BY <1>1, <1>2, <1>7, <2>1, <3>1, ServiceAdd DEF ConnInv, Conn
  <2>3. /\ node'[c].valid /\ \A x \in Conn : x # c => node'[x] = node[x]
    BY <1>6, <2>1 DEF Add
  <2>4. /\ info'[c] = "live" /\ \A x \in Conn : x # c => info'[x] = info[x]
        /\ info' \in [Conn -> {"none", "live", "freed"}]
        /\ \A x \in Conn : info'[x] # "none" => fd'[x] \in FD
        /\ running # NoConn =>
             /\ info'[running] # "none"
             /\ stack # <<>> =>
                  Top.cur # NoTimer /\ (info'[Top.cur] = "live" => Top.cur = running)
        /\ Late' <=> Late
        /\ \A x \in Conn : x # c /\ ret'[x] = ret[x] /\ Said(x) => Said(x)'
    BY <1>11, <2>1
  <2>5. /\ sock'[f] = "connecting" /\ \A g \in FD : g # f => sock'[g] = sock[g]
        /\ sock' \in [FD -> SockState]
    BY <1>5, <2>1 DEF ConnTypes, SockState
  <2>6. /\ reg'[f] = c /\ \A g \in FD : g # f => reg'[g] = reg[g]
        /\ reg' \in [FD -> Conn \cup {NoConn}]
    BY <1>5, <2>1 DEF ConnTypes
  <2>7. /\ ret'[c] = 0 /\ \A x \in Conn : x # c => ret'[x] = ret[x]
        /\ ret' \in [Conn -> {-1, 0, 1}]
    BY <1>5, <2>1 DEF ConnTypes
  <2>8. HandedOn' /\ mem' \in [Conn -> Conn] BY <1>1, <1>2, <1>5, <2>1, CallocKeeps
  <2>9. ConnTypes' BY <1>1, <1>5, <1>9, <2>4, <2>5, <2>6, <2>7, <2>8 DEF ConnTypes
  <2>10. Reporting'
    <3>1. ASSUME NEW g \in FD, reg'[g] # NoConn
          PROVE  reg'[g] # running /\ sock'[g] \in Pending
      BY <1>2, <1>5, <2>5, <2>6, <3>1 DEF Reporting, Pending
    <3>. QED BY <1>1, <1>4, <1>5, <2>4, <3>1 DEF Reporting
  <2>11. Guarded'
    <3>1. ASSUME NEW x \in Conn, info'[x] = "live", running # x
          PROVE  /\ alive => node'[x].valid
                 /\ fault \/ Late \/ (reg'[fd'[x]] = x /\ sock'[fd'[x]] \in Pending)
      <4>1. CASE x = c BY <1>9, <2>3, <2>5, <2>6, <4>1 DEF Pending
      <4>2. CASE x # c
        <5>1. /\ info[x] = "live" /\ fd'[x] = fd[x] /\ node'[x] = node[x] /\ fd[x] \in FD
              /\ fault \/ Late \/ fd[x] # f
          BY <1>3, <1>5, <1>8, <2>3, <2>4, <3>1, <4>2 DEF ConnTypes
        <5>2. /\ alive => node[x].valid
              /\ fault \/ Late \/ (reg[fd[x]] = x /\ sock[fd[x]] \in Pending)
          BY <1>5, <3>1, <5>1 DEF Guarded, Pending
        <5>. QED BY <2>5, <2>6, <5>1, <5>2
      <4>. QED BY <4>1, <4>2
    <3>2. ASSUME NEW g \in FD, reg'[g] # NoConn
          PROVE  info'[reg'[g]] = "live" /\ fd'[reg'[g]] = g
      <4>1. CASE g = f BY <1>9, <2>4, <2>6, <4>1
      <4>2. CASE g # f
        <5>1. reg'[g] = reg[g] /\ reg[g] \in Conn /\ info[reg[g]] = "live" /\ fd[reg[g]] = g
          BY <1>5, <2>6, <3>2, <4>2 DEF ConnTypes, Guarded
        <5>2. reg[g] # c BY <1>2, <5>1
        <5>. QED BY <1>8, <2>4, <5>1, <5>2
      <4>. QED BY <4>1, <4>2
    <3>3. UNCHANGED <<running, alive, fault>> /\ (Late' <=> Late) BY <1>1, <2>4
    <3>. QED BY <3>1, <3>2, <3>3 DEF Guarded, Pending
  <2>12. Answers'
    <3>1. ASSUME NEW x \in Conn
          PROVE  /\ info'[x] = "none" => ~node'[x].live
                 /\ ret'[x] = 1 => info'[x] = "none"
                 /\ ret'[x] = -1 => /\ info'[x] # "live" /\ ~node'[x].valid
                                    /\ \A i \in Frames : stack[i].cur # x
                 /\ Said(x)'
      <4>1. CASE x = c
        <5>1. told'[c] = <<>> BY <1>1, <1>2
        <5>2. Said(c)' BY <1>1, <1>2, <2>4, <5>1, Words DEF Said
        <5>. QED BY <2>4, <2>7, <4>1, <5>2
      <4>2. CASE x # c BY <1>5, <2>3, <2>4, <2>7, <4>2 DEF Answers
      <4>. QED BY <4>1, <4>2
    <3>. QED BY <1>1, <1>4, <3>1 DEF Answers
  <2>. QED BY <2>2, <2>8, <2>9, <2>10, <2>11, <2>12 DEF ConnInv, Conns
<1>13. CASE ConnNoReg(c, f, timeout)
  <2>. DEFINE m == [start |-> Now, interval |-> 0, expiration |-> timeout,
                    valid |-> FALSE, live |-> TRUE]
  <2>1. /\ info' = [info EXCEPT ![c] = "freed"] /\ node' = [node EXCEPT ![c] = m]
        /\ ret' = [ret EXCEPT ![c] = -1] /\ UNCHANGED <<sock, reg>>
    BY <1>13 DEF ConnNoReg, Returns
  <2>2. m \in Nodes /\ m.live /\ ~m.valid BY <1>7 DEF Nodes
  <2>. HIDE DEF m
  <2>3. /\ node'[c] = m /\ \A x \in Conn : x # c => node'[x] = node[x]
    BY <1>6, <2>1
  <2>4. Service'
    <3>1. node' = [node EXCEPT ![c] = node'[c]] BY <2>1, <2>3
    <3>. QED BY <1>1, <1>2, <2>2, <2>3, <3>1, ServiceNew DEF ConnInv, Conn
  <2>5. /\ info'[c] = "freed" /\ \A x \in Conn : x # c => info'[x] = info[x]
        /\ info' \in [Conn -> {"none", "live", "freed"}]
        /\ \A x \in Conn : info'[x] # "none" => fd'[x] \in FD
        /\ running # NoConn =>
             /\ info'[running] # "none"
             /\ stack # <<>> =>
                  Top.cur # NoTimer /\ (info'[Top.cur] = "live" => Top.cur = running)
        /\ Late' <=> Late
        /\ \A x \in Conn : x # c /\ ret'[x] = ret[x] /\ Said(x) => Said(x)'
    BY <1>11, <2>1
  <2>6. /\ ret'[c] = -1 /\ \A x \in Conn : x # c => ret'[x] = ret[x]
        /\ ret' \in [Conn -> {-1, 0, 1}]
    BY <1>5, <2>1 DEF ConnTypes
  <2>7. HandedOn' /\ mem' \in [Conn -> Conn] BY <1>1, <1>2, <1>5, <2>1, CallocKeeps
  <2>8. ConnTypes' BY <1>1, <1>5, <1>9, <2>1, <2>5, <2>6, <2>7 DEF ConnTypes
  <2>9. Reporting' BY <1>1, <1>4, <1>5, <2>1, <2>5 DEF Reporting
  <2>10. Guarded'
    <3>1. ASSUME NEW x \in Conn, info'[x] = "live", running # x
          PROVE  /\ alive => node'[x].valid
                 /\ fault \/ Late \/ (reg[fd'[x]] = x /\ sock[fd'[x]] \in Pending)
      <4>1. x # c BY <2>5, <3>1
      <4>2. info[x] = "live" /\ fd'[x] = fd[x] /\ node'[x] = node[x]
        BY <1>8, <2>3, <2>5, <3>1, <4>1
      <4>. QED BY <1>5, <3>1, <4>2 DEF Guarded, Pending
    <3>2. ASSUME NEW g \in FD, reg[g] # NoConn
          PROVE  info'[reg[g]] = "live" /\ fd'[reg[g]] = g
      <4>1. reg[g] \in Conn /\ info[reg[g]] = "live" /\ fd[reg[g]] = g
        BY <1>5, <3>2 DEF ConnTypes, Guarded
      <4>2. reg[g] # c BY <1>2, <4>1
      <4>. QED BY <1>8, <2>5, <4>1, <4>2
    <3>3. UNCHANGED <<running, alive, fault>> /\ (Late' <=> Late) BY <1>1, <2>5
    <3>. QED BY <2>1, <3>1, <3>2, <3>3 DEF Guarded, Pending
  <2>11. Answers'
    <3>1. ASSUME NEW x \in Conn
          PROVE  /\ info'[x] = "none" => ~node'[x].live
                 /\ ret'[x] = 1 => info'[x] = "none"
                 /\ ret'[x] = -1 => /\ info'[x] # "live" /\ ~node'[x].valid
                                    /\ \A i \in Frames : stack[i].cur # x
                 /\ Said(x)'
      <4>1. CASE x = c
        <5>1. told'[c] = <<>> BY <1>1, <1>2
        <5>2. Said(c)' BY <1>1, <1>2, <2>5, <2>6, <5>1, Words DEF Said
        <5>. QED BY <1>2, <2>2, <2>3, <2>5, <2>6, <4>1, <5>2
      <4>2. CASE x # c BY <1>5, <2>3, <2>5, <2>6, <4>2 DEF Answers
      <4>. QED BY <4>1, <4>2
    <3>. QED BY <1>1, <1>4, <3>1 DEF Answers
  <2>. QED BY <2>4, <2>7, <2>8, <2>9, <2>10, <2>11 DEF ConnInv, Conns
<1>. QED BY <1>12, <1>13

\* One more word.
LEMMA OneMore ==
  ASSUME NEW s, NEW r \in {-1, 0}, s \in Reports(r), ~IsLate(s), NEW w,
         \/ r = 0 /\ s = <<>> /\ w \in Proper
         \/ r = 0 /\ s # <<>> /\ w = "late"
         \/ r = -1 /\ w = "late"
  PROVE  /\ Append(s, w) \in Reports(r) /\ Append(s, w) # <<>>
         /\ IsLate(Append(s, w)) <=> w = "late"
<1>1. /\ s \in Reports(0) <=> s = <<>> \/ \E x \in Proper : s = <<x>> \/ s = <<x, "late">>
      /\ s \in Reports(-1) <=> s = <<>> \/ s = <<"late">>
  BY Words
<1>2. CASE r = 0 /\ s = <<>> /\ w \in Proper
  <2>1. Append(s, w) = <<w>> BY <1>2
  <2>2. <<w>> \in Reports(0) /\ <<w>> # <<>> /\ ~IsLate(<<w>>) BY <1>2, Words
  <2>3. w # "late" BY <1>2 DEF Proper
  <2>. QED BY <1>2, <2>1, <2>2, <2>3
<1>3. CASE r = 0 /\ s # <<>> /\ w = "late"
  <2>1. PICK x \in Proper : s = <<x>> BY <1>1, <1>3 DEF IsLate
  <2>2. Append(s, w) = <<x, "late">>
    <3>. DEFINE W == Proper \cup {"late"}
    <3>1. <<x>> \in Seq(W) /\ <<x, "late">> \in Seq(W) /\ "late" \in W OBVIOUS
    <3>2. Len(<<x>>) = 1 /\ Len(<<x, "late">>) = 2 OBVIOUS
    <3>3. /\ Append(<<x>>, "late") \in Seq(W) /\ Len(Append(<<x>>, "late")) = 2
          /\ \A i \in 1..1 : Append(<<x>>, "late")[i] = <<x>>[i]
          /\ Append(<<x>>, "late")[2] = "late"
      <4>. HIDE DEF W
      <4>. QED BY <3>1, <3>2, AppendProperties
    <3>4. \A i \in 1..2 : Append(<<x>>, "late")[i] = <<x, "late">>[i] BY <3>3
    <3>5. Append(<<x>>, "late") = <<x, "late">>
      <4>. HIDE DEF W
      <4>. QED BY <3>1, <3>2, <3>3, <3>4, SeqEqual
    <3>. QED BY <1>3, <2>1, <3>5
  <2>3. <<x, "late">> \in Reports(0) BY <2>1, Words
  <2>4. IsLate(<<x, "late">>) BY <2>1 DEF IsLate
  <2>5. <<x, "late">> # <<>> OBVIOUS
  <2>. QED BY <1>3, <2>2, <2>3, <2>4, <2>5
<1>4. CASE r = -1 /\ w = "late"
  <2>1. s = <<>> BY <1>1, <1>4 DEF IsLate
  <2>2. Append(s, w) = <<"late">> BY <1>4, <2>1
  <2>3. <<"late">> \in Reports(-1) BY Words
  <2>4. IsLate(<<"late">>) BY DEF IsLate
  <2>5. <<"late">> # <<>> OBVIOUS
  <2>. QED BY <1>4, <2>2, <2>3, <2>4, <2>5
<1>. QED BY <1>2, <1>3, <1>4

\* A report begins, of a conn_info that is live or, late, of one that was freed: its
\* socket is unregistered, and the caller hears.
LEMMA ConnReport ==
  ASSUME ConnInv, ~fault, NEW c \in Conn, info[c] # "none", running = NoConn, running' = c,
         NEW f \in FD, fd[c] = f, Unregister(f), NEW s \in SockState, SetSock(f, s),
         NEW r, Tell(c, r), info[c] = "live" => r \in Proper, info[c] = "freed" => r = "late",
         stack # <<>> => Top.cur \in Conn /\ mem[Top.cur] = c,
         UNCHANGED <<info, fd, mem, ret, fault>>, UNCHANGED timers
  PROVE  ConnInv'
<1>1. ConnTypes /\ HandedOn /\ Reporting /\ Guarded /\ Answers BY DEF ConnInv, Conns
<1>2. Service' /\ Frames' = Frames /\ UNCHANGED <<node, stack, alive>> /\ Top' = Top
  BY ConnStill
<1>3. \A x \in Conn : x # NoConn BY FevTmsvcAssumption DEF Conn, NoConn
<1>4. ~Late /\ (Late' <=> info[c] = "freed") BY <1>3 DEF Late
<1>5. info[c] \in {"live", "freed"} /\ ret[c] \in {-1, 0} /\ Said(c)
      /\ (info[c] = "live" => ret[c] = 0)
  BY <1>1 DEF ConnTypes, Answers
<1>6. /\ \A x \in Conn : x # c => told'[x] = told[x]
      /\ DOMAIN told' = Conn
      /\ told'[c] \in Reports(ret[c]) /\ told'[c] # <<>>
      /\ IsLate(told'[c]) => info[c] = "freed"
  <2>1. told' = [told EXCEPT ![c] = Append(told[c], r)] /\ DOMAIN told = Conn
    BY <1>1 DEF Tell, ConnTypes
  <2>2. told[c] \in Reports(ret[c]) /\ ~IsLate(told[c]) BY <1>3, <1>5 DEF Said
  <2>3. \/ ret[c] = 0 /\ told[c] = <<>> /\ r \in Proper
        \/ ret[c] = 0 /\ told[c] # <<>> /\ r = "late"
        \/ ret[c] = -1 /\ r = "late"
    BY <1>3, <1>5 DEF Said
  <2>4. /\ Append(told[c], r) \in Reports(ret[c]) /\ Append(told[c], r) # <<>>
        /\ IsLate(Append(told[c], r)) <=> r = "late"
    BY <1>5, <2>2, <2>3, OneMore
  <2>5. r = "late" => info[c] = "freed" BY <1>5 DEF Proper
  <2>6. told'[c] = Append(told[c], r) BY <2>1
  <2>. QED BY <2>1, <2>4, <2>5, <2>6
<1>7. /\ reg' \in [FD -> Conn \cup {NoConn}] /\ reg'[f] = NoConn
      /\ \A g \in FD : g # f => reg'[g] = reg[g]
  BY <1>1 DEF Unregister, ConnTypes
<1>8. /\ sock' \in [FD -> SockState] /\ \A g \in FD : g # f => sock'[g] = sock[g]
  BY <1>1 DEF SetSock, ConnTypes
<1>9. ConnTypes' /\ HandedOn' BY <1>1, <1>6, <1>7, <1>8 DEF ConnTypes, HandedOn
<1>10. Reporting'
  <2>1. ASSUME NEW g \in FD, reg'[g] # NoConn PROVE reg'[g] # c /\ sock'[g] \in Pending
    <3>1. g # f /\ reg'[g] = reg[g] BY <1>7, <2>1
    <3>2. fd[reg[g]] = g /\ sock[g] \in Pending BY <1>1, <2>1, <3>1 DEF Guarded, Reporting
    <3>. QED BY <1>8, <3>1, <3>2
  <2>2. ASSUME stack # <<>>
        PROVE  Top.cur # NoTimer /\ (info[Top.cur] = "live" => Top.cur = c)
    <3>1. Top.cur # NoTimer BY <1>3, <2>2 DEF NoConn
    <3>2. info[Top.cur] = "live" => mem[Top.cur] = Top.cur BY <1>1, <2>2 DEF HandedOn
    <3>. QED BY <2>2, <3>1, <3>2
  <2>. QED BY <1>1, <1>2, <2>1, <2>2 DEF Reporting
<1>11. Guarded'
  <2>1. ASSUME NEW x \in Conn, info[x] = "live", x # c
        PROVE  /\ alive => node[x].valid
               /\ Late' \/ (reg'[fd[x]] = x /\ sock'[fd[x]] \in Pending)
    <3>1. /\ alive => node[x].valid
          /\ reg[fd[x]] = x /\ sock[fd[x]] \in Pending
          /\ fd[x] \in FD
      BY <1>1, <1>3, <1>4, <2>1 DEF Guarded, Pending, ConnTypes
    <3>2. CASE info[c] = "freed" BY <1>4, <3>1, <3>2
    <3>3. CASE info[c] = "live"
      <4>1. reg[f] = c BY <1>1, <1>3, <1>4, <3>3 DEF Guarded
      <4>2. fd[x] # f BY <2>1, <3>1, <4>1
      <4>. QED BY <1>7, <1>8, <3>1, <4>2
    <3>. QED BY <1>5, <3>2, <3>3
  <2>2. ASSUME NEW g \in FD, reg'[g] # NoConn
        PROVE  info[reg'[g]] = "live" /\ fd[reg'[g]] = g
    BY <1>1, <1>7, <2>2 DEF Guarded
  <2>. QED BY <1>2, <2>1, <2>2 DEF Guarded, Pending
<1>12. Answers'
  <2>1. ASSUME NEW x \in Conn PROVE Said(x)'
    <3>1. CASE x = c BY <1>5, <1>6, <3>1 DEF Said
    <3>2. CASE x # c
      <4>1. running # x BY <1>3
      <4>2. Said(x) BY <1>1 DEF Answers
      <4>. QED BY <1>6, <3>2, <4>1, <4>2 DEF Said
    <3>. QED BY <3>1, <3>2
  <2>. QED BY <1>1, <1>2, <2>1 DEF Answers
<1>. QED BY <1>2, <1>9, <1>10, <1>11, <1>12 DEF ConnInv, Conns

\* A report ends: the conn_info is freed, with its timer if that is what called; if it
\* was free, that is a fault.
LEMMA ConnReported ==
  ASSUME ConnInv, ~fault, OnConnectReturns \/ OnTimerReturns
  PROVE  ConnInv'
<1>1. ConnTypes /\ HandedOn /\ Reporting /\ Guarded /\ Answers /\ Service
  BY DEF ConnInv, Conns
<1>. DEFINE c == running
<1>2. /\ c # NoConn /\ info' = [info EXCEPT ![c] = "freed"] /\ running' = NoConn
      /\ fault' = (info[c] = "freed")
      /\ UNCHANGED <<fd, mem, sock, reg, ret, told, alive>>
  BY DEF OnConnectReturns, OnTimerReturns, timers, CallbackReturns, Free
<1>3. c \in Conn /\ info[c] # "none" BY <1>1, <1>2 DEF ConnTypes, Reporting
<1>4. /\ Service' /\ Len(stack') = Len(stack) /\ Frames' = Frames
      /\ \A x \in Conn : node'[x] # node[x] => info[x] # "none" /\ (info[x] = "live" => x = c)
      /\ \A x \in Conn : ret[x] = -1 => node'[x] = node[x]
      /\ \A i \in Frames : \A x \in Conn : stack'[i].cur = x => stack[i].cur = x
  <2>1. CASE OnConnectReturns
    <3>1. UNCHANGED timers BY <2>1 DEF OnConnectReturns
    <3>2. Service' /\ Frames' = Frames /\ UNCHANGED <<node, stack, alive>>
      BY <3>1, ConnStill
    <3>. QED BY <3>2
  <2>2. CASE OnTimerReturns
    <3>1. CallbackReturns /\ stack # <<>> BY <2>2 DEF OnTimerReturns
    <3>2. Len(stack) \in Frames BY <1>1, <3>1, Stack DEF Service, Frames
    <3>3. Service' BY <1>1, <3>1, ServiceReturn
    <3>4. /\ Len(stack') = Len(stack) /\ Frames' = Frames
          /\ \A x \in Conn : x # Top.cur => node'[x] = node[x]
          /\ \A i \in Frames : \A x \in Conn : stack'[i].cur = x => stack[i].cur = x
      BY <1>1, <3>1, ReturnEffect DEF Conn
    <3>5. ASSUME NEW x \in Conn, x = Top.cur
          PROVE  info[x] # "none" /\ (info[x] = "live" => x = c) /\ ret[x] # -1
      <4>1. node[x].live BY <1>1, <3>2, <3>5 DEF Service, Separate, Top, Conn
      <4>2. ret[x] # -1 BY <1>1, <3>2, <3>5 DEF Answers, Top
      <4>. QED BY <1>1, <1>2, <3>1, <3>5, <4>1, <4>2 DEF Answers, Reporting
    <3>. QED BY <3>3, <3>4, <3>5
  <2>. QED BY <2>1, <2>2
<1>5. /\ info' \in [Conn -> {"none", "live", "freed"}] /\ info'[c] = "freed"
      /\ \A x \in Conn : x # c => info'[x] = info[x]
  BY <1>1, <1>2, <1>3 DEF ConnTypes
<1>6. \A x \in Conn : x # NoConn BY FevTmsvcAssumption DEF Conn, NoConn
<1>7. ASSUME NEW g \in FD, reg[g] # NoConn
      PROVE  reg[g] \in Conn /\ reg[g] # c /\ sock[g] \in Pending
  BY <1>1, <1>7 DEF ConnTypes, Reporting
<1>8. /\ UNCHANGED <<fd, mem, sock, reg, ret, told, alive>> /\ running' = NoConn
      /\ fault' = (info[c] = "freed") /\ (Late <=> info[c] = "freed")
  BY <1>2 DEF Late
<1>9. \A x \in Conn : Said(x) /\ (running = x <=> x = c) BY <1>1 DEF Answers
<1>. HIDE DEF c
<1>10. ConnTypes'
  <2>1. ASSUME NEW x \in Conn, info'[x] # "none" PROVE fd[x] \in FD
    BY <1>1, <1>3, <1>5, <2>1 DEF ConnTypes
  <2>2. fault' \in BOOLEAN BY <1>8
  <2>. QED BY <1>1, <1>5, <1>8, <2>1, <2>2 DEF ConnTypes
<1>11. HandedOn'
  <2>1. ASSUME NEW x \in Conn
        PROVE  /\ mem[mem[x]] = mem[x]
               /\ info'[x] # "freed" => mem[x] = x
               /\ info'[x] # "none" => info'[mem[x]] # "none"
    <3>1. mem[x] \in Conn /\ \A y \in Conn : info'[y] # "none" <=> info[y] # "none"
      BY <1>1, <1>3, <1>5 DEF ConnTypes
    <3>. QED BY <1>1, <1>5, <3>1 DEF HandedOn
  <2>. QED BY <1>8, <2>1 DEF HandedOn
<1>12. Reporting' BY <1>1, <1>4, <1>7, <1>8 DEF Reporting
<1>13. Guarded'
  <2>1. ASSUME NEW x \in Conn, info'[x] = "live"
        PROVE  /\ alive => node'[x].valid
               /\ fault' \/ (reg[fd[x]] = x /\ sock[fd[x]] \in Pending)
    <3>1. x # c /\ info[x] = "live" BY <1>5, <2>1
    <3>2. node'[x] = node[x] /\ running # x BY <1>4, <1>9, <3>1
    <3>. QED BY <1>1, <1>8, <3>1, <3>2 DEF Guarded, Pending
  <2>2. ASSUME NEW g \in FD, reg[g] # NoConn
        PROVE  info'[reg[g]] = "live" /\ fd[reg[g]] = g
    BY <1>1, <1>5, <1>7, <2>2 DEF Guarded
  <2>. QED BY <1>8, <2>1, <2>2 DEF Guarded, Pending
<1>14. Answers'
  <2>1. ASSUME NEW x \in Conn
        PROVE  /\ info'[x] = "none" => ~node'[x].live
               /\ ret[x] = 1 => info'[x] = "none"
               /\ ret[x] = -1 => /\ info'[x] # "live" /\ ~node'[x].valid
                                 /\ \A i \in Frames : stack'[i].cur # x
               /\ Said(x)'
    <3>1. Said(x)'
      <4>1. running' # x BY <1>6, <1>8
      <4>2. CASE x = c BY <1>5, <1>8, <1>9, <4>1, <4>2 DEF Said
      <4>3. CASE x # c BY <1>5, <1>8, <1>9, <4>1, <4>3 DEF Said
      <4>. QED BY <4>2, <4>3
    <3>2. CASE x = c BY <1>1, <1>3, <1>4, <1>5, <3>1, <3>2 DEF Answers
    <3>3. CASE x # c BY <1>1, <1>4, <1>5, <3>1, <3>3 DEF Answers
    <3>. QED BY <3>2, <3>3
  <2>. QED BY <1>4, <1>8, <2>1 DEF Answers
<1>. QED BY <1>4, <1>10, <1>11, <1>12, <1>13, <1>14 DEF ConnInv, Conns

\* A callback with a conn_info that is not one any more.
LEMMA ConnAstray ==
  ASSUME ConnInv, NEW c \in Conn, OnTimerAstray(c)
  PROVE  ConnInv'
<1>1. /\ UNCHANGED <<info, fd, mem, sock, reg, running, ret, told>> /\ UNCHANGED timers
      /\ fault' = TRUE
  BY DEF OnTimerAstray
<1>2. Service' /\ Frames' = Frames /\ UNCHANGED <<node, stack, alive>> /\ Top' = Top
  BY <1>1, ConnStill
<1>3. ConnTypes' /\ HandedOn' BY <1>1 DEF ConnInv, Conns, ConnTypes, HandedOn
<1>4. Reporting' BY <1>1, <1>2 DEF ConnInv, Conns, Reporting
<1>5. Guarded' BY <1>1, <1>2 DEF ConnInv, Conns, Guarded
<1>6. Answers'
  <2>1. \A x \in Conn : Said(x) => Said(x)' BY <1>1 DEF Said
  <2>. QED BY <1>1, <1>2, <2>1 DEF ConnInv, Conns, Answers
<1>. QED BY <1>2, <1>3, <1>4, <1>5, <1>6 DEF ConnInv, Conns

\* Every step.
LEMMA ConnNext ==
  ASSUME ConnInv, [CNext]_cvars
  PROVE  ConnInv'
<1>1. ASSUME NEW c \in Conn, fev_conn(c) PROVE ConnInv'
  <2>1. ret[c] = 1 /\ UNCHANGED fault BY <1>1 DEF fev_conn
  <2>2. \/ ConnError(c)
        \/ \E f \in FD, timeout \in Delays :
             sock[f] = "closed" /\ (ConnNow(c, f) \/ ConnPending(c, f, timeout)
                                                  \/ ConnNoReg(c, f, timeout))
    BY <1>1 DEF fev_conn
  <2>3. CASE ConnError(c) BY <2>1, <2>3, ConnAtOnce
  <2>4. ASSUME NEW f \in FD, NEW timeout \in Delays, sock[f] = "closed",
               ConnNow(c, f) \/ ConnPending(c, f, timeout) \/ ConnNoReg(c, f, timeout)
        PROVE  ConnInv'
    BY <2>1, <2>4, ConnAtOnce, ConnStarted
  <2>. QED BY <2>2, <2>3, <2>4
<1>2. ASSUME ~fault, NEW f \in FD, on_connect(f) PROVE ConnInv'
  <2>1. /\ reg[f] # NoConn /\ running = NoConn /\ running' = reg[f] /\ stack = <<>>
        /\ Unregister(f) /\ UNCHANGED <<info, fd, mem, ret, fault>> /\ UNCHANGED timers
    BY <1>2 DEF on_connect, InLoop
  <2>2. PICK c \in Conn : c = reg[f] BY <2>1 DEF ConnInv, Conns, ConnTypes
  <2>3. info[c] = "live" /\ fd[c] = f BY <2>1, <2>2 DEF ConnInv, Conns, Guarded
  <2>4. PICK s \in SockState, r \in Proper : SetSock(f, s) /\ Tell(c, r)
    <3>1. {"closed", "user"} \subseteq SockState /\ {"failed", "ok"} \subseteq Proper
      BY DEF SockState, Proper
    <3>2. \/ SetSock(f, "closed") /\ Tell(c, "failed")
          \/ SetSock(f, "user") /\ Tell(c, "ok")
      BY <1>2, <2>2 DEF on_connect
    <3>. QED BY <3>1, <3>2
  <2>. QED BY <1>2, <2>1, <2>2, <2>3, <2>4, ConnReport
<1>3. ASSUME ~fault, NEW c \in Conn, on_timer(c) PROVE ConnInv'
  <2>1. ConnTypes /\ HandedOn /\ Answers /\ Service BY DEF ConnInv, Conns
  <2>2. stack # <<>> /\ Top.cur = c BY <1>3 DEF on_timer
  <2>3. info[c] # "none"
    <3>1. Len(stack) \in Frames BY <2>1, <2>2, Stack DEF Service, Frames
    <3>2. node[c].live BY <2>1, <2>2, <3>1 DEF Service, Separate, Top, Conn
    <3>. QED BY <2>1, <3>2 DEF Answers
  <2>4. PICK d \in Conn : d = mem[c] BY <2>1 DEF ConnTypes
  <2>5. info[d] # "none" /\ info[d] \in {"none", "live", "freed"}
    BY <2>1, <2>3, <2>4 DEF HandedOn, ConnTypes
  <2>6. PICK f \in FD : f = fd[d] BY <2>1, <2>5 DEF ConnTypes
  <2>7. PICK r : r = IF info[d] = "freed" THEN "late" ELSE "timeout" OBVIOUS
  <2>8. /\ running = NoConn /\ running' = d
        /\ Unregister(f) /\ SetSock(f, "closed") /\ Tell(d, r)
        /\ UNCHANGED <<info, fd, mem, ret, fault>> /\ UNCHANGED timers
    BY <1>3, <2>4, <2>6, <2>7 DEF on_timer
  <2>9. /\ info[d] = "live" => r \in Proper
        /\ info[d] = "freed" => r = "late"
        /\ "closed" \in SockState
    BY <2>7 DEF Proper, SockState
  <2>. QED BY <1>3, <2>2, <2>4, <2>5, <2>6, <2>8, <2>9, ConnReport
<1>. QED BY <1>1, <1>2, <1>3, ConnPass, ConnRound, ConnOutside, ConnReported, ConnAstray
         DEF CNext, Poll

\* The invariant holds in every behaviour of a program that connects.
LEMMA ConnHolds == CSpec => []ConnInv
<1>1. CInit => ConnInv BY ConnInit
<1>2. ConnInv /\ [CNext]_cvars => ConnInv' BY ConnNext
<1>. QED BY <1>1, <1>2, PTL DEF CSpec

\* A connect in progress keeps its timer until conn_cb reports it, and its socket and its
\* registration as well, in whichever order on_connect and on_timer of this one and of
\* others come; only a late on_timer takes the latter two away.
THEOREM BothGuards == CSpec => []Guarded
<1>1. ConnInv => Guarded BY DEF ConnInv, Conns
<1>. QED BY <1>1, ConnHolds, PTL

\* conn_cb is called at most once for a connect in progress and not for a refused one, but
\* for one late call of on_timer with freed memory, which is the last.
THEOREM ToldOnceThenLate == CSpec => []LateIsLast
<1>1. ConnInv => LateIsLast BY DEF ConnInv, Conns, Answers, Said, LateIsLast
<1>. QED BY <1>1, ConnHolds, PTL

\* The timer that fev_conn deletes when fev_reg_event fails is never called.
THEOREM RefusedStaysRefused == CSpec => []GivenUp
<1>1. ConnInv => GivenUp
  <2>. SUFFICES ASSUME ConnInv, NEW c \in Conn, ret[c] = -1, c \in Running PROVE FALSE
    BY DEF GivenUp
  <2>1. DOMAIN stack = Frames BY Stack DEF ConnInv, Service
  <2>2. PICK i \in Frames : stack[i].cur = c BY <2>1 DEF Running
  <2>. QED BY <2>2 DEF ConnInv, Conns, Answers
<1>. QED BY <1>1, ConnHolds, PTL

-----------------------------------------------------------------------------
(* A buffer that is used as an array.                                      *)

\* The four fields; the content does not wrap.
Fields == {"size", "head", "tail", "mem"}
IsBuffer(b) == /\ DOMAIN b = Fields
               /\ b.size \in Nat /\ b.tail \in 0..b.size /\ b.head \in 0..b.tail
               /\ b.mem \in [0..b.size -> Nat]

\* The content is the part of the stream after position p.
Follows(b, p) == \A k \in b.head..(b.tail - 1) : b.mem[k] = p + (k - b.head) + 1

\* What fmbuf_rewind, fmbuf_realloc, memcpy to the tail, fmbuf_create and the two
\* seeks do to the fields.
LEMMA RewindFields ==
  ASSUME NEW b, DOMAIN b = Fields
  PROVE  LET r == fmbuf_rewind(b)
         IN  /\ DOMAIN r = Fields /\ r.size = b.size /\ r.head = 0
             /\ r.tail = b.tail - b.head
             /\ r.mem = Move(b.mem, 0, b.head, fmbuf_used(b))
BY DEF fmbuf_rewind, Fields

\* fmbuf_realloc to a size that is not smaller.
LEMMA ReallocFields ==
  ASSUME NEW b, DOMAIN b = Fields, NEW n
  PROVE  LET r == fmbuf_realloc(b, n)
         IN  /\ DOMAIN r = Fields /\ r.size = n /\ r.head = b.head /\ r.tail = b.tail
             /\ r.mem = [k \in 0..n |-> IF k <= b.size THEN b.mem[k] ELSE 0]
BY DEF fmbuf_realloc, Fields

\* memcpy to the tail changes the memory only.
LEMMA AtTailFields ==
  ASSUME NEW b, DOMAIN b = Fields, NEW d
  PROVE  LET r == AtTail(b, d)
         IN  /\ DOMAIN r = Fields /\ r.size = b.size /\ r.head = b.head
             /\ r.tail = b.tail /\ r.mem = Store(b.mem, b.tail, d)
BY DEF AtTail, Fields

\* fmbuf_tail_seek and fmbuf_head_seek change one field only.
LEMMA SeekFields ==
  ASSUME NEW b, DOMAIN b = Fields, NEW n
  PROVE  /\ LET r == [b EXCEPT !.tail = @ + n]
            IN  /\ DOMAIN r = Fields /\ r.size = b.size /\ r.head = b.head
                /\ r.tail = b.tail + n /\ r.mem = b.mem
         /\ LET r == [b EXCEPT !.head = @ + n]
            IN  /\ DOMAIN r = Fields /\ r.size = b.size /\ r.head = b.head + n
                /\ r.tail = b.tail /\ r.mem = b.mem
BY DEF Fields

\* fmbuf_rewind keeps the content and puts it at the start of the memory.
LEMMA RewindKeeps ==
  ASSUME NEW b, IsBuffer(b), NEW p \in Nat
  PROVE  LET r == fmbuf_rewind(b)
         IN  /\ IsBuffer(r)
             /\ Follows(b, p) => Follows(r, p)
             /\ r.size = b.size /\ r.head = 0 /\ r.tail = b.tail - b.head
<1>. DEFINE u == b.tail - b.head
            m == Move(b.mem, 0, b.head, u)
            r == fmbuf_rewind(b)
<1>1. /\ b.size \in Nat /\ b.tail \in 0..b.size /\ b.head \in 0..b.tail
      /\ b.mem \in [0..b.size -> Nat] /\ u \in 0..b.size /\ DOMAIN b = Fields
  BY DEF IsBuffer
<1>2. fmbuf_used(b) = u BY <1>1 DEF fmbuf_used, MBUF_USED
<1>3. /\ DOMAIN r = Fields /\ r.size = b.size /\ r.head = 0 /\ r.tail = u /\ r.mem = m
  BY <1>1, <1>2, RewindFields
<1>. HIDE DEF r
<1>4. \A k \in 0..b.size : k < u => b.head + k - 0 \in 0..b.size /\ b.head + k - 0 = b.head + k
  BY <1>1
<1>5. m = [k \in 0..b.size |-> IF k < u THEN b.mem[b.head + k] ELSE b.mem[k]]
  <2>1. DOMAIN b.mem = 0..b.size BY <1>1
  <2>2. \A k \in 0..b.size : (0 <= k /\ k < 0 + u) <=> k < u BY <1>1
  <2>. QED BY <1>4, <2>1, <2>2 DEF Move
<1>. HIDE DEF m
<1>6. m \in [0..b.size -> Nat] BY <1>1, <1>4, <1>5
<1>7. IsBuffer(r) BY <1>1, <1>3, <1>6 DEF IsBuffer
<1>8. ASSUME Follows(b, p), NEW k \in 0..(u - 1) PROVE m[k] = p + (k - 0) + 1
  <2>1. b.head + k \in b.head..(b.tail - 1) /\ (b.head + k) - b.head = k - 0
    BY <1>1
  <2>2. k \in 0..b.size /\ k < u BY <1>1
  <2>3. m[k] = b.mem[b.head + k] BY <1>5, <2>2
  <2>. QED BY <1>8, <2>1, <2>3 DEF Follows
<1>9. Follows(b, p) => Follows(r, p) BY <1>3, <1>8 DEF Follows
<1>. QED BY <1>3, <1>7, <1>9 DEF r

\* fmbuf_realloc to a size that is not smaller keeps the content where it is.
LEMMA ReallocKeeps ==
  ASSUME NEW b, IsBuffer(b), NEW p \in Nat, NEW n \in Nat, b.size <= n
  PROVE  LET r == fmbuf_realloc(b, n)
         IN  /\ IsBuffer(r)
             /\ Follows(b, p) => Follows(r, p)
             /\ r.size = n /\ r.head = b.head /\ r.tail = b.tail
<1>. DEFINE m == [k \in 0..n |-> IF k <= b.size THEN b.mem[k] ELSE 0]
            r == fmbuf_realloc(b, n)
<1>1. /\ b.size \in Nat /\ b.tail \in 0..b.size /\ b.head \in 0..b.tail
      /\ b.mem \in [0..b.size -> Nat] /\ DOMAIN b = Fields
  BY DEF IsBuffer
<1>2. DOMAIN r = Fields /\ r.size = n /\ r.head = b.head /\ r.tail = b.tail /\ r.mem = m
  BY <1>1, ReallocFields
<1>. HIDE DEF r
<1>3. m \in [0..n -> Nat] /\ \A k \in b.head..(b.tail - 1) : m[k] = b.mem[k] BY <1>1, SMTT(60)
<1>. HIDE DEF m
<1>4. IsBuffer(r) BY <1>1, <1>2, <1>3 DEF IsBuffer
<1>5. Follows(b, p) => Follows(r, p) BY <1>2, <1>3 DEF Follows
<1>. QED BY <1>2, <1>4, <1>5 DEF r

\* memcpy to the tail does not touch the content.
LEMMA AtTailKeeps ==
  ASSUME NEW b, IsBuffer(b), NEW p \in Nat, NEW n \in Nat, NEW d \in Block(n, Nat)
  PROVE  LET r == AtTail(b, d)
         IN  /\ IsBuffer(r)
             /\ Follows(b, p) => Follows(r, p)
             /\ r.size = b.size /\ r.head = b.head /\ r.tail = b.tail
             /\ \A k \in 0..b.size : b.tail <= k /\ k < b.tail + n
                                       => r.mem[k] = d[k - b.tail + 1]
<1>. DEFINE m == Store(b.mem, b.tail, d)
            r == AtTail(b, d)
<1>1. /\ b.size \in Nat /\ b.tail \in 0..b.size /\ b.head \in 0..b.tail
      /\ b.mem \in [0..b.size -> Nat] /\ DOMAIN b = Fields
  BY DEF IsBuffer
<1>2. /\ DOMAIN r = Fields /\ r.size = b.size /\ r.head = b.head /\ r.tail = b.tail
      /\ r.mem = m
  BY <1>1, AtTailFields
<1>. HIDE DEF r
<1>3. Len(d) = n BY FunctionIsSeq
<1>4. \A i \in 1..n : d[i] \in Nat BY DEF Block
<1>5. m = [k \in 0..b.size |-> IF b.tail <= k /\ k < b.tail + n
                                THEN d[k - b.tail + 1] ELSE b.mem[k]]
  <2>1. DOMAIN b.mem = 0..b.size BY <1>1
  <2>. QED BY <1>3, <2>1 DEF Store
<1>. HIDE DEF m
<1>6. \A k \in 0..b.size : b.tail <= k /\ k < b.tail + n => k - b.tail + 1 \in 1..n BY <1>1
<1>7. m \in [0..b.size -> Nat] BY <1>1, <1>4, <1>5, <1>6
<1>8. IsBuffer(r) BY <1>1, <1>2, <1>7 DEF IsBuffer
<1>9. \A k \in b.head..(b.tail - 1) : k \in 0..b.size /\ ~(b.tail <= k) BY <1>1
<1>10. Follows(b, p) => Follows(r, p) BY <1>2, <1>5, <1>9 DEF Follows
<1>11. \A k \in 0..b.size : b.tail <= k /\ k < b.tail + n => r.mem[k] = d[k - b.tail + 1]
  BY <1>2, <1>5
<1>. QED BY <1>2, <1>8, <1>10, <1>11 DEF r

\* The content as a sequence.
LEMMA ContentIs ==
  ASSUME NEW b, IsBuffer(b), NEW p \in Nat, Follows(b, p)
  PROVE  /\ fmbuf_used(b) = b.tail - b.head /\ fmbuf_used(b) \in Nat
         /\ Content(b) = Upto(p, b.tail - b.head)
<1>. DEFINE u == b.tail - b.head
<1>1. /\ b.size \in Nat /\ b.tail \in 0..b.size /\ b.head \in 0..b.tail
      /\ u \in 0..b.size
  BY DEF IsBuffer
<1>2. fmbuf_used(b) = u BY <1>1 DEF fmbuf_used, MBUF_USED
<1>3. Content(b) = [i \in 1..u |-> b.mem[b.head + i - 1]]
  <2>1. \A i \in 1..u : i <= b.size - b.head + 1 BY <1>1
  <2>. QED BY <1>2, <2>1 DEF Content, ReadBytes
<1>4. \A i \in 1..u : /\ b.head + i - 1 \in b.head..(b.tail - 1)
                      /\ p + ((b.head + i - 1) - b.head) + 1 = p + i
  BY <1>1
<1>5. \A i \in 1..u : b.mem[b.head + i - 1] = p + i BY <1>4 DEF Follows
<1>. QED BY <1>1, <1>2, <1>3, <1>5 DEF Upto

\* Nothing is a part of the stream, of length 0.
LEMMA NothingIsUpto == \A p : <<>> = Upto(p, Len(<<>>))
<1>1. Len(<<>>) = 0 BY EmptySeq
<1>2. ASSUME NEW p PROVE Upto(p, 0) = <<>> BY DEF Upto
<1>. QED BY <1>1, <1>2

\* The first n bytes of a part of the stream.
LEMMA UptoPrefix ==
  ASSUME NEW p \in Nat, NEW k \in Nat, NEW n \in 0..k
  PROVE  SubSeq(Upto(p, k), 1, n) = Upto(p, n) /\ Len(Upto(p, n)) = n
<1>. DEFINE f == Upto(p, k)
            g == Upto(p, n)
            lo == 1
            m == n
<1>1. /\ f \in Block(k, Nat) /\ \A i \in 1..k : f[i] = p + i
      /\ g \in Block(n, Nat) /\ \A i \in 1..n : g[i] = p + i
  BY DEF Upto, Block
<1>2. /\ n \in Nat /\ m \in Nat /\ lo \in Nat /\ 1 <= lo /\ n <= k /\ n = lo + m - 1
      /\ \A i \in 1..m : lo + i - 1 = i /\ i \in 1..k
  OBVIOUS
<1>. HIDE DEF f, g, lo, m
<1>3. /\ SubSeq(f, lo, n) \in Block(m, Nat)
      /\ \A i \in 1..m : SubSeq(f, lo, n)[i] = f[lo + i - 1]
  BY <1>1, <1>2, SubSeqCells
<1>4. m = n BY DEF m
<1>5. \A i \in 1..n : SubSeq(f, lo, n)[i] = g[i] BY <1>1, <1>2, <1>3, <1>4
<1>6. SubSeq(f, lo, n) = g
  <2>1. SubSeq(f, lo, n) \in Block(n, Nat) /\ n \in Nat BY <1>2, <1>3, <1>4
  <2>. QED BY <1>1, <1>5, <2>1, SameFunction
<1>7. Len(g) = n BY <1>1, <1>2, FunctionIsSeq, SMTT(60)
<1>. QED BY <1>6, <1>7 DEF f, g, lo

-----------------------------------------------------------------------------
(* Room.                                                                   *)

\* fevbuff_read makes room for all that it asks the socket for, and keeps what it
\* has.
LEMMA ReadRoomKeeps ==
  ASSUME NEW b, IsBuffer(b), NEW p \in Nat, Follows(b, p),
         NEW len \in Nat, NEW need \in Nat, need = len - (b.tail - b.head)
  PROVE  LET r == ReadRoom(b, need, len)
         IN  /\ IsBuffer(r) /\ Follows(r, p)
             /\ r.tail - r.head = b.tail - b.head
             /\ r.tail + need <= r.size
<1>. DEFINE u == b.tail - b.head
            w == fmbuf_rewind(b)
<1>1. /\ b.size \in Nat /\ b.tail \in 0..b.size /\ b.head \in 0..b.tail
      /\ u \in 0..b.size
  BY DEF IsBuffer
<1>2. CASE ~(need > b.size - b.tail)
  <2>1. ReadRoom(b, need, len) = b BY <1>2 DEF ReadRoom, TailFree, fmbuf_tail_free
  <2>. QED BY <1>1, <1>2, <2>1
<1>3. CASE need > b.size - b.tail
  <2>1. /\ IsBuffer(w) /\ Follows(w, p)
        /\ w.size = b.size /\ w.head = 0 /\ w.tail = u
    BY RewindKeeps
  <2>. HIDE DEF w
  <2>2. fmbuf_free(w) = b.size - u BY <1>1, <2>1 DEF fmbuf_free, MBUF_FREE
  <2>3. CASE b.size - u < need
    <3>1. ReadRoom(b, need, len) = fmbuf_realloc(w, len)
      BY <1>3, <2>2, <2>3 DEF ReadRoom, TailFree, fmbuf_tail_free, w
    <3>2. w.size <= len BY <1>1, <2>1, <2>3
    <3>. DEFINE r == fmbuf_realloc(w, len)
    <3>3. /\ IsBuffer(r) /\ Follows(r, p)
          /\ r.size = len /\ r.head = w.head /\ r.tail = w.tail
      BY <2>1, <3>2, ReallocKeeps
    <3>. HIDE DEF r
    <3>. QED BY <1>1, <2>1, <3>1, <3>3 DEF r
  <2>4. CASE ~(b.size - u < need)
    <3>1. ReadRoom(b, need, len) = w
      BY <1>3, <2>2, <2>4 DEF ReadRoom, TailFree, fmbuf_tail_free, w
    <3>. QED BY <1>1, <2>1, <2>4, <3>1
  <2>. QED BY <2>3, <2>4
<1>. QED BY <1>2, <1>3

\* fevbuff_write makes room for what it keeps.
LEMMA WriteRoomKeeps ==
  ASSUME NEW b, IsBuffer(b), NEW len \in Nat
  PROVE  LET r == WriteRoom(b, len)
         IN  IsBuffer(r) /\ r.tail + len <= r.size
<1>. DEFINE u == b.tail - b.head
            w == fmbuf_rewind(b)
            p == 0
<1>1. /\ b.size \in Nat /\ b.tail \in 0..b.size /\ b.head \in 0..b.tail
      /\ u \in 0..b.size /\ p \in Nat
  BY DEF IsBuffer
<1>. HIDE DEF p
<1>2. CASE ~(b.size - b.tail < len)
  <2>1. WriteRoom(b, len) = b BY <1>2 DEF WriteRoom, TailFree, fmbuf_tail_free
  <2>. QED BY <1>1, <1>2, <2>1
<1>3. CASE b.size - b.tail < len
  <2>1. IsBuffer(w) /\ w.size = b.size /\ w.head = 0 /\ w.tail = u BY <1>1, RewindKeeps
  <2>. HIDE DEF w
  <2>2. fmbuf_used(w) = u /\ TailFree(w) = b.size - u
    BY <1>1, <2>1 DEF fmbuf_used, MBUF_USED, TailFree, fmbuf_tail_free
  <2>3. CASE b.size - u < len
    <3>1. WriteRoom(b, len) = fmbuf_realloc(w, len + u)
      BY <1>3, <2>2, <2>3 DEF WriteRoom, TailFree, fmbuf_tail_free, w
    <3>. DEFINE n == len + u
                r == fmbuf_realloc(w, n)
    <3>2. w.size <= n /\ n \in Nat BY <1>1, <2>1, <2>3
    <3>. HIDE DEF n
    <3>3. IsBuffer(r) /\ r.size = n /\ r.head = w.head /\ r.tail = w.tail
      BY <1>1, <2>1, <3>2, ReallocKeeps
    <3>. HIDE DEF r
    <3>. QED BY <1>1, <2>1, <3>1, <3>3 DEF r, n
  <2>4. CASE ~(b.size - u < len)
    <3>1. WriteRoom(b, len) = w
      BY <1>3, <2>2, <2>4 DEF WriteRoom, TailFree, fmbuf_tail_free, w
    <3>. QED BY <1>1, <2>1, <2>4, <3>1
  <2>. QED BY <2>3, <2>4
<1>. QED BY <1>2, <1>3

\* What fevbuff_read copies to its caller begins where the content begins.
LEMMA CopiedIs ==
  ASSUME NEW b, IsBuffer(b), NEW p \in Nat, Follows(b, p),
         NEW n \in 0..(b.tail - b.head), NEW pbuf \in BOOLEAN
  PROVE  Copied(b, n, pbuf) = Upto(p, Len(Copied(b, n, pbuf)))
<1>1. n \in Nat /\ b.tail - b.head \in Nat BY DEF IsBuffer
<1>2. CASE pbuf
  <2>1. Copied(b, n, pbuf) = SubSeq(Upto(p, b.tail - b.head), 1, n)
    BY <1>2, ContentIs DEF Copied
  <2>2. Copied(b, n, pbuf) = Upto(p, n) /\ Len(Upto(p, n)) = n
    BY <1>1, <2>1, UptoPrefix
  <2>. QED BY <2>2
<1>3. CASE ~pbuf
  <2>1. Copied(b, n, pbuf) = <<>> BY <1>3 DEF Copied
  <2>. QED BY <2>1, NothingIsUpto
<1>. QED BY <1>2, <1>3

-----------------------------------------------------------------------------
(* The inductive invariant.                                                *)

\* The two buffers are buffers, no copy went too far, and while the fev_buff
\* exists its read buffer holds what was received and not popped.
ReadSide == /\ Follows(rbuf, popped)
            /\ rbuf.tail - rbuf.head = received - popped
            /\ got = Upto(popped, Len(got))

IInv == /\ IsBuffer(rbuf) /\ IsBuffer(wbuf)
        /\ received \in Nat /\ popped \in Nat /\ written \in Nat
        /\ ~overrun
        /\ live => ReadSide

\* The invariant implies what the run checks.
LEMMA IInvImplies == IInv => ReadIntact /\ InBounds
<1>. SUFFICES ASSUME IInv PROVE ReadIntact /\ InBounds OBVIOUS
<1>1. ASSUME live PROVE Content(rbuf) = Upto(popped, received - popped)
  BY <1>1, ContentIs DEF IInv, ReadSide
<1>. QED BY <1>1 DEF IInv, ReadSide, ReadIntact, InBounds

\* New buffers, in BInit and in fevbuff_new.
LEMMA Created ==
  /\ IsBuffer(fmbuf_create(FEV_BUFF_DEFAULT_SIZE))
  /\ Follows(fmbuf_create(FEV_BUFF_DEFAULT_SIZE), 0)
  /\ fmbuf_create(FEV_BUFF_DEFAULT_SIZE).tail = 0
  /\ fmbuf_create(FEV_BUFF_DEFAULT_SIZE).head = 0
<1>. DEFINE n == FEV_BUFF_DEFAULT_SIZE
            r == fmbuf_create(n)
<1>1. n \in Nat BY FevBuffAssumption
<1>. HIDE DEF n
<1>2. /\ DOMAIN r = Fields /\ r.size = n /\ r.head = 0 /\ r.tail = 0
      /\ r.mem = [k \in 0..n |-> 0]
  BY DEF fmbuf_create, Fields
<1>. HIDE DEF r
<1>3. r.mem \in [0..n -> Nat] BY <1>2
<1>4. IsBuffer(r) BY <1>1, <1>2, <1>3 DEF IsBuffer
<1>5. Follows(r, 0) BY <1>2 DEF Follows
<1>. QED BY <1>2, <1>4, <1>5 DEF r, n

\* The initial state satisfies the invariant.
LEMMA InitInv == BInit => IInv
BY Created DEF BInit, IInv

\* fevbuff_read, whatever the socket gives.
LEMMA ReadInv ==
  ASSUME IInv, NEW len \in Nat, NEW pbuf \in BOOLEAN, fevbuff_read(len, pbuf)
  PROVE  IInv'
<1>. DEFINE u == rbuf.tail - rbuf.head
            need == len - fmbuf_used(rbuf)
            b == ReadRoom(rbuf, need, len)
<1>1. /\ live /\ UNCHANGED <<live, wbuf, popped, written>>
      /\ ReadLocal(len, pbuf) \/ ReadError(len) \/ \E n \in 0..len : ReadSocket(len, pbuf, n)
  BY DEF fevbuff_read, BInApp
<1>2. /\ IsBuffer(rbuf) /\ IsBuffer(wbuf) /\ Follows(rbuf, popped)
      /\ received \in Nat /\ popped \in Nat /\ written \in Nat /\ ~overrun
      /\ u = received - popped
  BY <1>1 DEF IInv, ReadSide
<1>3. fmbuf_used(rbuf) = u /\ u \in Nat BY <1>2, ContentIs
<1>4. CASE ReadLocal(len, pbuf)
  <2>1. /\ len \in 0..u /\ got' = Copied(rbuf, len, pbuf)
        /\ UNCHANGED <<rbuf, received, overrun>>
    BY <1>3, <1>4 DEF ReadLocal
  <2>2. got' = Upto(popped, Len(got')) BY <1>2, <2>1, CopiedIs
  <2>. QED BY <1>1, <1>2, <2>1, <2>2 DEF IInv, ReadSide
<1>5. ASSUME need > 0
      PROVE  /\ need \in Nat /\ IsBuffer(b) /\ Follows(b, popped)
             /\ b.tail - b.head = u /\ b.tail + need <= b.size /\ ~Beyond(b, need)
  <2>1. need \in Nat /\ need = len - u BY <1>3, <1>5
  <2>. HIDE DEF need
  <2>2. /\ IsBuffer(b) /\ Follows(b, popped)
        /\ b.tail - b.head = u /\ b.tail + need <= b.size
    BY <1>2, <2>1, ReadRoomKeeps
  <2>. HIDE DEF b
  <2>3. ~Beyond(b, need) BY <2>1, <2>2 DEF Beyond, IsBuffer
  <2>. QED BY <2>1, <2>2, <2>3
<1>6. CASE ReadError(len)
  <2>1. /\ need > 0 /\ rbuf' = b /\ got' = <<>> /\ received' = received
        /\ overrun' = (overrun \/ Beyond(b, need))
    BY <1>6 DEF ReadError
  <2>. HIDE DEF need, b
  <2>. QED BY <1>1, <1>2, <1>5, <2>1, NothingIsUpto DEF IInv, ReadSide
<1>7. ASSUME NEW n \in 0..len, ReadSocket(len, pbuf, n) PROVE IInv'
  <2>. DEFINE d == Upto(received, n)
              a == AtTail(b, d)
              r == [a EXCEPT !.tail = @ + n]
              c == IF fmbuf_used(r) > len THEN len ELSE fmbuf_used(r)
  <2>1. /\ need > 0 /\ n <= need /\ rbuf' = r /\ received' = received + n
        /\ overrun' = (overrun \/ Beyond(b, need))
        /\ got' = Copied(r, c, pbuf)
    BY <1>7 DEF ReadSocket
  <2>2. /\ need \in Nat /\ IsBuffer(b) /\ Follows(b, popped)
        /\ b.tail - b.head = u /\ b.tail + need <= b.size /\ ~Beyond(b, need)
    BY <1>5, <2>1
  <2>3. n \in Nat /\ b.size \in Nat /\ b.tail \in 0..b.size /\ b.head \in 0..b.tail
    BY <2>2 DEF IsBuffer
  <2>4. d \in Block(n, Nat) /\ \A i \in 1..n : d[i] = received + i
    BY <1>2, <2>3 DEF Upto, Block
  <2>. HIDE DEF b, d, need
  <2>5. /\ IsBuffer(a) /\ Follows(a, popped)
        /\ a.size = b.size /\ a.head = b.head /\ a.tail = b.tail
        /\ \A k \in 0..b.size : b.tail <= k /\ k < b.tail + n
                                  => a.mem[k] = d[k - b.tail + 1]
    BY <1>2, <2>2, <2>3, <2>4, AtTailKeeps
  <2>. HIDE DEF a
  <2>6. /\ DOMAIN r = Fields /\ r.size = b.size /\ r.head = b.head
        /\ r.tail = b.tail + n /\ r.mem = a.mem
    <3>1. DOMAIN a = Fields BY <2>5 DEF IsBuffer
    <3>. QED BY <2>5, <3>1, SeekFields
  <2>. HIDE DEF r
  <2>7. IsBuffer(r) BY <2>1, <2>2, <2>3, <2>5, <2>6, SMTT(60) DEF IsBuffer
  <2>8. Follows(r, popped)
    <3>1. ASSUME NEW k \in b.head..(b.tail + n - 1)
          PROVE  a.mem[k] = popped + (k - b.head) + 1
      <4>1. CASE k < b.tail
        <5>1. k \in b.head..(b.tail - 1) BY <2>3, <4>1
        <5>. QED BY <2>5, <5>1 DEF Follows
      <4>2. CASE ~(k < b.tail)
        <5>1. /\ k \in 0..b.size /\ b.tail <= k /\ k < b.tail + n
              /\ k - b.tail + 1 \in 1..n
          BY <2>1, <2>2, <2>3, <4>2
        <5>2. a.mem[k] = received + (k - b.tail + 1) BY <2>4, <2>5, <5>1
        <5>3. received + (k - b.tail + 1) = popped + (k - b.head) + 1
          BY <1>2, <2>2, <2>3, <5>1
        <5>. QED BY <5>2, <5>3
      <4>. QED BY <4>1, <4>2
    <3>2. ASSUME NEW k \in r.head..(r.tail - 1)
          PROVE  r.mem[k] = popped + (k - r.head) + 1
      <4>1. k \in b.head..(b.tail + n - 1) BY <2>3, <2>6
      <4>2. a.mem[k] = popped + (k - b.head) + 1 BY <3>1, <4>1
      <4>. QED BY <2>3, <2>6, <4>2
    <3>. QED BY <3>2 DEF Follows
  <2>9. r.tail - r.head = received' - popped BY <1>2, <2>1, <2>2, <2>3, <2>6
  <2>10. c \in 0..(r.tail - r.head)
    <3>1. fmbuf_used(r) = r.tail - r.head /\ fmbuf_used(r) \in Nat BY <1>2, <2>7, <2>8, ContentIs
    <3>. QED BY <3>1
  <2>. HIDE DEF c
  <2>11. got' = Upto(popped, Len(got')) BY <1>2, <2>1, <2>7, <2>8, <2>10, CopiedIs
  <2>12. received' \in Nat BY <1>2, <2>1, <2>3
  <2>. QED BY <1>1, <1>2, <2>1, <2>2, <2>7, <2>8, <2>9, <2>11, <2>12 DEF IInv, ReadSide
<1>. QED BY <1>1, <1>4, <1>6, <1>7

\* fevbuff_pop moves the head over what the program is done with.
LEMMA PopInv ==
  ASSUME IInv, NEW len \in Nat, fevbuff_pop(len)
  PROVE  IInv'
<1>. DEFINE n == PopLen(len)
            r == [rbuf EXCEPT !.head = @ + n]
<1>1. /\ live /\ UNCHANGED <<live, wbuf, received, written, overrun>>
      /\ rbuf' = r /\ popped' = popped + n /\ got' = <<>>
  BY DEF fevbuff_pop, BInApp
<1>2. /\ IsBuffer(rbuf) /\ IsBuffer(wbuf) /\ Follows(rbuf, popped)
      /\ received \in Nat /\ popped \in Nat /\ written \in Nat /\ ~overrun
      /\ rbuf.tail - rbuf.head = received - popped
  BY <1>1 DEF IInv, ReadSide
<1>3. fmbuf_used(rbuf) = rbuf.tail - rbuf.head /\ fmbuf_used(rbuf) \in Nat
  BY <1>2, ContentIs
<1>4. n \in Nat /\ n <= rbuf.tail - rbuf.head BY <1>3 DEF PopLen
<1>. HIDE DEF n
<1>5. /\ DOMAIN r = Fields /\ r.size = rbuf.size /\ r.head = rbuf.head + n
      /\ r.tail = rbuf.tail /\ r.mem = rbuf.mem
  BY <1>2, SeekFields DEF IsBuffer
<1>6. /\ rbuf.size \in Nat /\ rbuf.tail \in 0..rbuf.size /\ rbuf.head \in 0..rbuf.tail
      /\ rbuf.mem \in [0..rbuf.size -> Nat]
  BY <1>2 DEF IsBuffer
<1>. HIDE DEF r
<1>7. IsBuffer(r) BY <1>4, <1>5, <1>6 DEF IsBuffer
<1>8. Follows(r, popped + n)
  <2>1. ASSUME NEW k \in (rbuf.head + n)..(rbuf.tail - 1)
        PROVE  rbuf.mem[k] = (popped + n) + (k - (rbuf.head + n)) + 1
    <3>1. k \in rbuf.head..(rbuf.tail - 1) BY <1>4, <1>6
    <3>2. popped + (k - rbuf.head) + 1 = (popped + n) + (k - (rbuf.head + n)) + 1
      BY <1>2, <1>4, <1>6
    <3>. QED BY <1>2, <3>1, <3>2 DEF Follows
  <2>. QED BY <1>5, <2>1 DEF Follows
<1>9. r.tail - r.head = received - (popped + n) /\ popped + n \in Nat
  BY <1>2, <1>4, <1>5, <1>6, SMTT(60)
<1>. QED BY <1>1, <1>2, <1>7, <1>8, <1>9, NothingIsUpto DEF IInv, ReadSide

\* fevbuff_write keeps what the socket did not take, inside the write buffer.
LEMMA WriteInv ==
  ASSUME IInv, NEW len \in Nat, NEW n \in 0..len, fevbuff_write(len, n)
  PROVE  IInv'
<1>. DEFINE d == Upto(written, len)
            lo == n + 1
            m == len - n
            e == SubSeq(d, lo, len)
            b == WriteRoom(wbuf, Len(e))
<1>1. /\ live /\ UNCHANGED <<live, rbuf, received, popped>>
      /\ written' = written + len /\ got' = <<>>
      /\ fevbuff_cache_data(e)
  BY DEF fevbuff_write, BInApp
<1>2. /\ IsBuffer(rbuf) /\ IsBuffer(wbuf) /\ Follows(rbuf, popped)
      /\ received \in Nat /\ popped \in Nat /\ written \in Nat /\ ~overrun
      /\ rbuf.tail - rbuf.head = received - popped
  BY <1>1 DEF IInv, ReadSide
<1>3. IsBuffer(wbuf') /\ ~overrun'
  <2>1. CASE e = <<>>
    <3>1. UNCHANGED <<wbuf, overrun>> BY <1>1, <2>1 DEF fevbuff_cache_data
    <3>. QED BY <1>2, <3>1
  <2>2. CASE e # <<>>
    <3>1. wbuf' = AtTail(b, e) /\ overrun' = (overrun \/ Beyond(b, Len(e)))
      BY <1>1, <2>2 DEF fevbuff_cache_data
    <3>2. d \in Block(len, Nat) BY <1>2 DEF Upto, Block
    <3>3. /\ lo \in Nat /\ m \in Nat /\ 1 <= lo /\ len <= len /\ len = lo + m - 1
      OBVIOUS
    <3>. HIDE DEF d, lo, m
    <3>4. e \in Block(m, Nat) /\ Len(e) = m BY <3>2, <3>3, SubSeqCells
    <3>. HIDE DEF e
    <3>5. IsBuffer(b) /\ b.tail + m <= b.size BY <1>2, <3>3, <3>4, WriteRoomKeeps
    <3>. HIDE DEF b
    <3>6. IsBuffer(AtTail(b, e)) BY <1>2, <3>3, <3>4, <3>5, AtTailKeeps
    <3>7. ~Beyond(b, Len(e)) BY <3>3, <3>4, <3>5 DEF Beyond, IsBuffer
    <3>. QED BY <1>2, <3>1, <3>6, <3>7
  <2>. QED BY <2>1, <2>2
<1>4. written' \in Nat BY <1>1, <1>2
<1>. HIDE DEF e
<1>. QED BY <1>1, <1>2, <1>3, <1>4, NothingIsUpto DEF IInv, ReadSide

\* The write event sends from the head of the write buffer.
LEMMA SendInv ==
  ASSUME IInv, evbuff_write
  PROVE  IInv'
<1>1. UNCHANGED <<live, rbuf, got, received, popped, written, overrun>> BY DEF evbuff_write
<1>2. IsBuffer(wbuf')
  <2>1. CASE fmbuf_used(wbuf) = 0 BY <2>1 DEF evbuff_write, SendDone, IInv
  <2>2. CASE fmbuf_used(wbuf) # 0
    <3>1. PICK n \in 0..fmbuf_used(wbuf) : wbuf' = [wbuf EXCEPT !.head = @ + n]
      BY <2>2 DEF evbuff_write, SendCached
    <3>. DEFINE r == [wbuf EXCEPT !.head = @ + n]
    <3>2. /\ wbuf.size \in Nat /\ wbuf.tail \in 0..wbuf.size /\ wbuf.head \in 0..wbuf.tail
          /\ wbuf.mem \in [0..wbuf.size -> Nat] /\ DOMAIN wbuf = Fields
      BY DEF IInv, IsBuffer
    <3>3. fmbuf_used(wbuf) = wbuf.tail - wbuf.head BY <3>2 DEF fmbuf_used, MBUF_USED
    <3>4. /\ DOMAIN r = Fields /\ r.size = wbuf.size /\ r.head = wbuf.head + n
          /\ r.tail = wbuf.tail /\ r.mem = wbuf.mem
      BY <3>2, SeekFields
    <3>. HIDE DEF r
    <3>5. IsBuffer(r) BY <3>2, <3>3, <3>4 DEF IsBuffer
    <3>. QED BY <3>1, <3>5 DEF r
  <2>. QED BY <2>1, <2>2
<1>. QED BY <1>1, <1>2 DEF IInv, ReadSide

\* Every step keeps the invariant.
LEMMA Inductive == IInv /\ [BNext]_bvars => IInv'
<1>. SUFFICES ASSUME IInv, [BNext]_bvars PROVE IInv' OBVIOUS
<1>1. CASE fevbuff_new
  <2>1. /\ rbuf' = fmbuf_create(FEV_BUFF_DEFAULT_SIZE)
        /\ wbuf' = fmbuf_create(FEV_BUFF_DEFAULT_SIZE)
        /\ received' = 0 /\ popped' = 0 /\ written' = 0 /\ got' = <<>>
        /\ UNCHANGED overrun
    BY <1>1 DEF fevbuff_new
  <2>2. IsBuffer(rbuf') /\ IsBuffer(wbuf') /\ ~overrun' BY <2>1, Created DEF IInv
  <2>3. Follows(rbuf', popped') /\ rbuf'.tail - rbuf'.head = received' - popped'
    BY <2>1, Created
  <2>4. got' = Upto(popped', Len(got')) BY <2>1, NothingIsUpto
  <2>. QED BY <2>1, <2>2, <2>3, <2>4 DEF IInv, ReadSide
<1>2. CASE fevbuff_destroy
  BY <1>2 DEF fevbuff_destroy, counts, IInv
<1>3. ASSUME NEW len \in Lens, NEW pbuf \in BOOLEAN, fevbuff_read(len, pbuf) PROVE IInv'
  <2>1. len \in Nat BY FevBuffAssumption DEF Lens
  <2>. QED BY <1>3, <2>1, ReadInv
<1>4. ASSUME NEW len \in Lens, fevbuff_pop(len) PROVE IInv'
  <2>1. len \in Nat BY FevBuffAssumption DEF Lens
  <2>. QED BY <1>4, <2>1, PopInv
<1>5. ASSUME NEW len \in Lens, NEW n \in 0..len, fevbuff_write(len, n) PROVE IInv'
  <2>1. len \in Nat BY FevBuffAssumption DEF Lens
  <2>. QED BY <1>5, <2>1, WriteInv
<1>6. CASE WriteEvent BY <1>6 DEF WriteEvent, counts, IInv, ReadSide
<1>7. CASE evbuff_write BY <1>7, SendInv
<1>8. CASE UNCHANGED bvars BY <1>8 DEF bvars, counts, IInv, ReadSide
<1>. QED BY <1>1, <1>2, <1>3, <1>4, <1>5, <1>6, <1>7, <1>8 DEF BNext

-----------------------------------------------------------------------------
\* What fevbuff_read delivers and keeps is the received stream, from the first
\* byte on that fevbuff_pop has not taken, for any sequence of reads, pops, short
\* reads, rewinds and reallocations.
THEOREM ReadsIntact == BSpec => []ReadIntact
<1>1. IInv => ReadIntact BY IInvImplies
<1>. QED BY <1>1, InitInv, Inductive, PTL DEF BSpec

\* No read of the socket and no copy of fevbuff_write goes beyond the end of its
\* buffer.
THEOREM CopiesInBounds == BSpec => []InBounds
<1>1. IInv => InBounds BY IInvImplies
<1>. QED BY <1>1, InitInv, Inductive, PTL DEF BSpec
=============================================================================
