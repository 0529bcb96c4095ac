------------------------ MODULE LoginThrottleProofs ------------------------
(* Theorems about LoginThrottle, for any number of identifiers and         *)
(* attempts, any limits and any environment.                               *)
EXTENDS LoginThrottle, SettingsProofs, SequenceTheorems, FiniteSetTheorems

\* The attempts that await the account of an identifier.
InFlight(i) == {a \in Attempts : i \in pc[a]}

\* The most failures an identifier can have recorded and under way.
Most == limits.failures + Cardinality(Attempts) - 1

Typed ==
    /\ limits \in [failures: Nat \ {0}, window: Nat \ {0}]
    /\ now \in Nat
    /\ DOMAIN failures \subseteq Identifiers
    /\ \A i \in DOMAIN failures : failures[i] \in Seq(Nat) /\ failures[i] # << >>
    /\ pc \in [Attempts -> SUBSET Identifiers]
    /\ wrong \in [Identifiers -> Seq(Nat)]

\* A history is in order and in the past.
InOrder(log) ==
    /\ \A m, n \in 1 .. Len(log) : m <= n => log[m] <= log[n]
    /\ \A n \in 1 .. Len(log) : log[n] <= now

\* A window is the end of a history whose beginning has expired.
EndOf(w, log) ==
    /\ Len(w) <= Len(log)
    /\ \A n \in 1 .. Len(w) : w[n] = log[Len(log) - Len(w) + n]
    /\ \A n \in 1 .. Len(log) - Len(w) : Expired(log[n])

WindowsRemember ==
    \A i \in Identifiers : InOrder(wrong[i]) /\ EndOf(Window(i), wrong[i])

\* Recorded failures and attempts under way together: an attempt is admitted
\* only below max_failures, and what it records it was counted for before.
GuessesAndAttemptsBounded ==
    \A i \in Identifiers :
        /\ RecentWrong(i) + Cardinality(InFlight(i)) <= Most
        /\ Len(Window(i)) <= Most

ThrottleInv == Typed /\ WindowsRemember /\ GuessesAndAttemptsBounded

-----------------------------------------------------------------------------
(* Windows and histories.                                                  *)

\* The popleft loop stops: its number of rounds is determined.
LEMMA ExpiredFrontExists ==
    ASSUME NEW w \in Seq(Nat)
    PROVE  /\ ExpiredFront(w) \in 0 .. Len(w)
           /\ \A n \in 1 .. ExpiredFront(w) : Expired(w[n])
           /\ ExpiredFront(w) < Len(w) => ~Expired(w[ExpiredFront(w) + 1])
<1> DEFINE Alive == {n \in 1 .. Len(w) : ~Expired(w[n])}
           Stop(k) == /\ \A n \in 1 .. k : Expired(w[n])
                      /\ k < Len(w) => ~Expired(w[k + 1])
<1>1. \E k \in 0 .. Len(w) : Stop(k)
  <2>1. CASE Alive = {}
    <3>1. \A n \in 1 .. Len(w) : Expired(w[n])
      BY <2>1
    <3>2. Stop(Len(w)) /\ Len(w) \in 0 .. Len(w)
      <4>1. Len(w) \in Nat
        OBVIOUS
      <4> QED BY <3>1, <4>1
    <3> QED BY <3>2
  <2>2. CASE Alive # {}
    <3>0. Alive \subseteq Nat
      OBVIOUS
    <3>1. PICK n \in Alive : \A m \in Alive : n <= m
      BY <2>2, <3>0, LeastNumber, Zenon
    <3>2. n \in 1 .. Len(w) /\ ~Expired(w[n])
      OBVIOUS
    <3>3. \A m \in 1 .. n - 1 : Expired(w[m])
      BY <3>1, <3>2
    <3>4. Stop(n - 1) /\ n - 1 \in 0 .. Len(w)
      BY <3>2, <3>3
    <3> QED BY <3>4
  <2> QED BY <2>1, <2>2
<1>2. ExpiredFront(w) = CHOOSE k \in 0 .. Len(w) : Stop(k)
  BY DEF ExpiredFront
<1>3. ExpiredFront(w) \in 0 .. Len(w) /\ Stop(ExpiredFront(w))
  <2> HIDE DEF Stop
  <2> QED BY <1>1, <1>2, Zenon
<1> QED BY <1>3

\* What pruning leaves of a window is what has not expired of its history.
LEMMA PruneKeepsTheLive ==
    ASSUME Typed, NEW i \in Identifiers, InOrder(wrong[i]), EndOf(Window(i), wrong[i])
    PROVE  /\ Live(i) \in Seq(Nat)
           /\ EndOf(Live(i), wrong[i])
           /\ Len(Live(i)) <= Len(Window(i))
           /\ Len(Live(i)) = RecentWrong(i)
<1> DEFINE log == wrong[i]
           w == Window(i)
           k == ExpiredFront(w)
           d == Len(log) - Len(w)
<1>1. log \in Seq(Nat) /\ w \in Seq(Nat)
  BY DEF Typed, Window
<1>2. /\ k \in 0 .. Len(w)
      /\ \A n \in 1 .. k : Expired(w[n])
      /\ k < Len(w) => ~Expired(w[k + 1])
  BY <1>1, ExpiredFrontExists
<1>3. /\ Len(log) \in Nat /\ Len(w) \in Nat /\ d \in Nat
      /\ \A n \in 1 .. Len(w) : w[n] = log[d + n]
      /\ \A n \in 1 .. d : Expired(log[n])
      /\ \A m, n \in 1 .. Len(log) : m <= n => log[m] <= log[n]
  BY <1>1 DEF InOrder, EndOf
<1>4. Live(i) = SubSeq(w, k + 1, Len(w))
  BY DEF Live
<1> HIDE DEF log, w, k, d
<1>5. /\ Live(i) \in Seq(Nat)
      /\ Len(Live(i)) = Len(w) - k
      /\ \A n \in 1 .. Len(w) - k : Live(i)[n] = w[k + n]
  BY <1>1, <1>2, <1>3, <1>4
<1>6. \A n \in 1 .. d + k : Expired(log[n])
  <2> TAKE n \in 1 .. d + k
  <2>1. CASE n <= d
    BY <1>3, <2>1
  <2>2. CASE n > d
    <3>1. n - d \in 1 .. k /\ log[n] = w[n - d]
      BY <1>2, <1>3, <2>2
    <3> QED BY <1>2, <3>1
  <2> QED BY <1>2, <1>3, <2>1, <2>2
<1>7. \A n \in d + k + 1 .. Len(log) : ~Expired(log[n])
  <2> TAKE n \in d + k + 1 .. Len(log)
  <2>1. k < Len(w) /\ d + k + 1 \in 1 .. Len(log) /\ d = Len(log) - Len(w)
    BY <1>2, <1>3 DEF d
  <2>2. log[d + k + 1] = w[k + 1]
    <3>1. k + 1 \in 1 .. Len(w) /\ d + (k + 1) = d + k + 1
      BY <1>2, <1>3, <2>1
    <3>2. w[k + 1] = log[d + (k + 1)]
      BY <1>3, <3>1
    <3> QED BY <3>1, <3>2
  <2>3. ~Expired(log[d + k + 1])
    BY <1>2, <2>1, <2>2
  <2>5. log[d + k + 1] <= log[n]
    <3>1. n \in 1 .. Len(log) /\ d + k + 1 <= n
      BY <1>2, <1>3
    <3> QED BY <1>3, <2>1, <3>1
  <2>4. log[n] \in Nat /\ log[d + k + 1] \in Nat
    BY <1>1, <2>1
  <2> QED BY <2>3, <2>4, <2>5 DEF Expired, Typed
<1>8. EndOf(Live(i), log)
  <2>1. Len(log) - Len(Live(i)) = d + k /\ Len(Live(i)) <= Len(log)
    BY <1>2, <1>3, <1>5 DEF d
  <2>2. \A n \in 1 .. Len(Live(i)) : Live(i)[n] = log[d + k + n]
    <3> TAKE n \in 1 .. Len(Live(i))
    <3>1. k + n \in 1 .. Len(w) /\ Live(i)[n] = w[k + n]
      BY <1>2, <1>3, <1>5
    <3>2. w[k + n] = log[d + (k + n)]
      BY <1>3, <3>1
    <3> QED BY <1>2, <1>3, <3>1, <3>2
  <2> QED BY <1>6, <2>1, <2>2 DEF EndOf
<1>9. RecentWrong(i) = Len(Live(i))
  <2> DEFINE recent == {n \in 1 .. Len(log) : log[n] + limits.window > now}
  <2>1. \A n \in 1 .. Len(log) : log[n] \in Nat
    BY <1>1
  <2>2. \A n \in 1 .. Len(log) : Expired(log[n]) <=> ~(log[n] + limits.window > now)
    BY <2>1 DEF Expired, Typed
  <2>3. recent = d + k + 1 .. Len(log)
    BY <1>2, <1>3, <1>6, <1>7, <2>2
  <2>4. Cardinality(recent) = Len(log) - (d + k)
    <3>1. d + k + 1 \in Int /\ Len(log) \in Int /\ d + k <= Len(log)
      BY <1>2, <1>3 DEF d
    <3>2. Cardinality(d + k + 1 .. Len(log)) =
             IF d + k + 1 > Len(log) THEN 0 ELSE Len(log) - (d + k + 1) + 1
      BY <3>1, FS_Interval
    <3> HIDE DEF recent
    <3>3. Cardinality(recent) =
             IF d + k + 1 > Len(log) THEN 0 ELSE Len(log) - (d + k + 1) + 1
      BY <2>3, <3>2
    <3>4. d + k \in Nat /\ Len(log) \in Nat
      BY <1>2, <1>3
    <3> QED BY <3>1, <3>3, <3>4
  <2>5. RecentWrong(i) = Cardinality(recent)
    BY DEF RecentWrong, log
  <2>6. Len(Live(i)) = Len(log) - (d + k)
    BY <1>2, <1>3, <1>5 DEF d
  <2> QED BY <2>4, <2>5, <2>6
<1>10. Len(Live(i)) <= Len(w)
  BY <1>2, <1>3, <1>5
<1> QED BY <1>5, <1>8, <1>9, <1>10 DEF log, w

\* _failures after an assignment or a pop: one window is replaced.
LEMMA StoreReplacesOne ==
    ASSUME Typed, NEW i \in Identifiers, NEW w \in Seq(Nat), failures' = Store(i, w)
    PROVE  /\ DOMAIN failures' \subseteq Identifiers
           /\ \A j \in DOMAIN failures' : failures'[j] \in Seq(Nat) /\ failures'[j] # << >>
           /\ Window(i)' = w
           /\ \A j \in Identifiers \ {i} : Window(j)' = Window(j)
<1>1. DOMAIN failures' = {y \in DOMAIN failures \cup {i} : y = i => w # << >>}
  BY DEF Store
<1>2. \A j \in DOMAIN failures' : failures'[j] = IF j = i THEN w ELSE failures[j]
  BY DEF Store
<1> QED BY <1>1, <1>2 DEF Typed, Window

\* The number of recent guesses is a number.
LEMMA RecentIsFinite ==
    ASSUME NEW log \in Seq(Nat), NEW S, S \subseteq 1 .. Len(log)
    PROVE  IsFiniteSet(S) /\ Cardinality(S) \in Nat
<1>1. Len(log) \in Int /\ 1 \in Int
  OBVIOUS
<1>2. IsFiniteSet(1 .. Len(log))
  BY <1>1, FS_Interval
<1>3. IsFiniteSet(S)
  BY <1>2, FS_Subset
<1> QED BY <1>3, FS_CardinalityType

\* Attempts in flight are finitely many, and no more than there are attempts.
LEMMA InFlightBounded ==
    ASSUME NEW S, S \subseteq Attempts
    PROVE  /\ IsFiniteSet(S)
           /\ Cardinality(S) \in Nat
           /\ Cardinality(Attempts) \in Nat
           /\ Cardinality(S) <= Cardinality(Attempts)
<1>1. IsFiniteSet(Attempts)
  BY ThrottleAssumption
<1> QED BY <1>1, FS_Subset, FS_CardinalityType

\* Time makes failures expire, and revives none.
LEMMA TimeExpires ==
    ASSUME Typed, Typed', UNCHANGED limits, now <= now', NEW t \in Nat, Expired(t)
    PROVE  Expired(t)'
BY DEF Typed, Expired

\* An identifier that a step leaves alone, while time may pass, remembers as
\* much as before and has no more recent guesses.
LEMMA TimeOnlyForgets ==
    ASSUME ThrottleInv, Typed', NEW i \in Identifiers,
           UNCHANGED << limits, wrong[i], Window(i) >>, now <= now'
    PROVE  /\ InOrder(wrong[i])' /\ EndOf(Window(i), wrong[i])'
           /\ RecentWrong(i)' <= RecentWrong(i)
<1>1. wrong[i] \in Seq(Nat) /\ InOrder(wrong[i]) /\ EndOf(Window(i), wrong[i])
  BY DEF ThrottleInv, Typed, WindowsRemember
<1>2. InOrder(wrong[i])'
  BY <1>1 DEF InOrder, Typed, ThrottleInv
<1>3. EndOf(Window(i), wrong[i])'
  <2>1. \A n \in 1 .. Len(wrong[i]) - Len(Window(i)) : Expired(wrong[i][n])'
    <3> TAKE n \in 1 .. Len(wrong[i]) - Len(Window(i))
    <3>1. Len(wrong[i]) \in Nat /\ Len(Window(i)) \in Nat
      BY <1>1 DEF Window, Typed, ThrottleInv
    <3>2. n \in 1 .. Len(wrong[i])
      BY <3>1
    <3>3. wrong[i][n] \in Nat /\ Expired(wrong[i][n])
      BY <1>1, <3>2 DEF EndOf
    <3>4. (wrong[i][n])' = wrong[i][n]
      OBVIOUS
    <3> QED BY <3>3, <3>4 DEF Typed, Expired, ThrottleInv
  <2> QED BY <1>1, <2>1 DEF EndOf
<1>4. RecentWrong(i)' <= RecentWrong(i)
  <2> DEFINE recent == {n \in 1 .. Len(wrong[i]) : wrong[i][n] + limits.window > now}
  <2>1. recent' \subseteq recent
    BY <1>1 DEF Typed, ThrottleInv
  <2>2. recent \subseteq 1 .. Len(wrong[i])
    OBVIOUS
  <2>3. RecentWrong(i) = Cardinality(recent) /\ RecentWrong(i)' = Cardinality(recent')
    BY DEF RecentWrong
  <2>4. IsFiniteSet(recent)
    BY <1>1, <2>2, RecentIsFinite
  <2> HIDE DEF recent
  <2>5. Cardinality(recent') <= Cardinality(recent)
    BY <2>1, <2>4, FS_Subset
  <2> QED BY <2>3, <2>5
<1> QED BY <1>2, <1>3, <1>4

-----------------------------------------------------------------------------
(* The invariant, one identifier at a time.                                *)

Remembers(i) ==
    /\ InOrder(wrong[i]) /\ EndOf(Window(i), wrong[i])
    /\ RecentWrong(i) + Cardinality(InFlight(i)) <= Most
    /\ Len(Window(i)) <= Most

LEMMA ThrottleInvByIdentifier ==
    /\ ThrottleInv <=> Typed /\ \A i \in Identifiers : Remembers(i)
    /\ ThrottleInv' <=> Typed' /\ \A i \in Identifiers : Remembers(i)'
BY DEF ThrottleInv, WindowsRemember, GuessesAndAttemptsBounded, Remembers

\* What the counts of an identifier are: numbers.
LEMMA Counts ==
    ASSUME Typed, NEW i \in Identifiers
    PROVE  /\ Window(i) \in Seq(Nat) /\ Len(Window(i)) \in Nat
           /\ wrong[i] \in Seq(Nat) /\ Len(wrong[i]) \in Nat
           /\ RecentWrong(i) \in Nat
           /\ InFlight(i) \subseteq Attempts
           /\ IsFiniteSet(InFlight(i)) /\ Cardinality(InFlight(i)) \in Nat
           /\ Cardinality(InFlight(i)) <= Cardinality(Attempts)
           /\ Cardinality(Attempts) \in Nat
           /\ limits.failures \in Nat \ {0}
           /\ Most \in Int
<1>1. Window(i) \in Seq(Nat) /\ wrong[i] \in Seq(Nat) /\ limits.failures \in Nat \ {0}
  BY DEF Window, Typed
<1>2. RecentWrong(i) \in Nat
  BY <1>1, RecentIsFinite DEF RecentWrong
<1>3. InFlight(i) \subseteq Attempts
  BY DEF InFlight
<1>4. /\ IsFiniteSet(InFlight(i)) /\ Cardinality(InFlight(i)) \in Nat
      /\ Cardinality(InFlight(i)) <= Cardinality(Attempts)
      /\ Cardinality(Attempts) \in Nat
  BY <1>3, InFlightBounded
<1>5. Most \in Int
  BY <1>1, <1>4 DEF Most
<1> QED BY <1>1, <1>2, <1>3, <1>4, <1>5

\* A step that touches neither the window nor the history of an identifier,
\* and puts no further attempt under way at it.
LEMMA LeftAlone ==
    ASSUME ThrottleInv, Typed', NEW i \in Identifiers,
           UNCHANGED << limits, wrong[i], Window(i) >>, now <= now',
           InFlight(i)' \subseteq InFlight(i)
    PROVE  Remembers(i)'
<1>1. Remembers(i) /\ Typed
  BY ThrottleInvByIdentifier
<1>2. /\ InOrder(wrong[i])' /\ EndOf(Window(i), wrong[i])'
      /\ RecentWrong(i)' <= RecentWrong(i)
  BY TimeOnlyForgets
<1>3. Cardinality(InFlight(i)') <= Cardinality(InFlight(i))
  BY <1>1, Counts, FS_Subset
<1>4. /\ RecentWrong(i) \in Nat /\ Cardinality(InFlight(i)) \in Nat /\ Most \in Int
  BY <1>1, Counts
<1>5. RecentWrong(i)' \in Nat /\ Cardinality(InFlight(i)') \in Nat
  <2>1. wrong[i] \in Seq(Nat)
    BY <1>1, Counts
  <2>2. wrong'[i] \in Seq(Nat)
    BY DEF Typed
  <2>3. RecentWrong(i)' \in Nat
    BY <2>2, RecentIsFinite DEF RecentWrong
  <2>4. InFlight(i)' \subseteq Attempts
    BY <1>1, Counts
  <2> QED BY <2>3, <2>4, InFlightBounded
<1>6. Most' = Most /\ Len(Window(i)') = Len(Window(i))
  BY DEF Most
<1> QED BY <1>1, <1>2, <1>3, <1>4, <1>5, <1>6 DEF Remembers

-----------------------------------------------------------------------------
LEMMA InitThrottle == Init => ThrottleInv
<1> SUFFICES ASSUME Init PROVE ThrottleInv
  OBVIOUS
<1>1. Typed
  <2>1. limits \in [failures: Nat \ {0}, window: Nat \ {0}]
    <3>1. PICK max \in Raw, window \in Raw : limits = Limits(max, window)
      BY DEF Init
    <3>2. IntEnv(max, MaxFailures, 1) \in Nat /\ IntEnv(max, MaxFailures, 1) >= 1
      BY LimitsPositive, ThrottleAssumption
    <3>3. IntEnv(window, WindowLength, 1) \in Nat /\ IntEnv(window, WindowLength, 1) >= 1
      BY LimitsPositive, ThrottleAssumption
    <3> QED BY <3>1, <3>2, <3>3 DEF Limits
  <2> QED BY <2>1 DEF Init, Typed
<1>2. ASSUME NEW i \in Identifiers PROVE Remembers(i)
  <2>1. wrong[i] = << >> /\ Window(i) = << >>
    BY DEF Init, Window
  <2>2. InOrder(wrong[i]) /\ EndOf(Window(i), wrong[i])
    BY <2>1 DEF InOrder, EndOf
  <2>3. InFlight(i) = {} /\ RecentWrong(i) = Cardinality({})
    BY <2>1 DEF InFlight, Init, RecentWrong
  <2>4. RecentWrong(i) = 0 /\ Cardinality(InFlight(i)) = 0
    BY <2>3, FS_EmptySet
  <2>5. Most \in Int /\ Most >= 0
    <3>1. Cardinality(Attempts) \in Nat /\ limits.failures \in Nat \ {0}
      BY <1>1, Counts
    <3> QED BY <3>1 DEF Most
  <2> QED BY <2>1, <2>2, <2>4, <2>5 DEF Remembers
<1> QED BY <1>1, <1>2, ThrottleInvByIdentifier

\* is_blocked prunes the window of the identifier it is asked about.
LEMMA AskingPrunes ==
    ASSUME ThrottleInv, NEW i \in Identifiers, failures' = Store(i, Live(i)),
           UNCHANGED << limits, now, wrong >>, pc' \in [Attempts -> SUBSET Identifiers]
    PROVE  /\ Typed'
           /\ InOrder(wrong[i])' /\ EndOf(Window(i), wrong[i])'
           /\ RecentWrong(i)' = RecentWrong(i)
           /\ Len(Window(i)') = RecentWrong(i)
           /\ \A j \in Identifiers \ {i} : UNCHANGED Window(j)
<1>1. Typed /\ InOrder(wrong[i]) /\ EndOf(Window(i), wrong[i])
  BY DEF ThrottleInv, WindowsRemember
<1>2. /\ Live(i) \in Seq(Nat)
      /\ EndOf(Live(i), wrong[i])
      /\ Len(Live(i)) = RecentWrong(i)
  BY <1>1, PruneKeepsTheLive
<1>3. /\ DOMAIN failures' \subseteq Identifiers
      /\ \A j \in DOMAIN failures' : failures'[j] \in Seq(Nat) /\ failures'[j] # << >>
      /\ Window(i)' = Live(i)
      /\ \A j \in Identifiers \ {i} : Window(j)' = Window(j)
  BY <1>1, <1>2, StoreReplacesOne
<1>4. Typed'
  BY <1>1, <1>3 DEF Typed
<1>5. InOrder(wrong[i])' /\ RecentWrong(i)' = RecentWrong(i)
  BY <1>1 DEF InOrder, RecentWrong
<1>6. EndOf(Window(i), wrong[i])'
  <2>1. Window(i)' = Live(i) /\ wrong'[i] = wrong[i] /\ limits' = limits /\ now' = now
    BY <1>3
  <2>2. /\ Len(Window(i)') <= Len(wrong'[i])
        /\ \A n \in 1 .. Len(Window(i)') :
             Window(i)'[n] = wrong'[i][Len(wrong'[i]) - Len(Window(i)') + n]
    BY <1>2, <2>1 DEF EndOf
  <2>3. \A n \in 1 .. Len(wrong'[i]) - Len(Window(i)') : Expired(wrong[i][n])
    BY <1>2, <2>1 DEF EndOf
  <2>4. \A n \in 1 .. Len(wrong'[i]) - Len(Window(i)') : Expired(wrong[i][n])'
    BY <2>1, <2>3 DEF Expired
  <2> QED BY <2>1, <2>2, <2>4 DEF EndOf
<1> QED BY <1>2, <1>3, <1>4, <1>5, <1>6

LEMMA RefuseKeeps ==
    ASSUME ThrottleInv, NEW a \in Attempts, NEW i \in Identifiers, Refuse(a, i)
    PROVE  ThrottleInv'
<1>1. Typed /\ \A j \in Identifiers : Remembers(j)
  BY ThrottleInvByIdentifier
<1>2. /\ failures' = Store(i, Live(i)) /\ UNCHANGED << limits, now, pc, wrong >>
  BY DEF Refuse
<1>3. /\ Typed'
      /\ InOrder(wrong[i])' /\ EndOf(Window(i), wrong[i])'
      /\ RecentWrong(i)' = RecentWrong(i)
      /\ Len(Window(i)') = RecentWrong(i)
      /\ \A j \in Identifiers \ {i} : UNCHANGED Window(j)
  BY <1>1, <1>2, AskingPrunes DEF Typed
<1>4. \A j \in Identifiers : InFlight(j)' = InFlight(j)
  BY <1>2 DEF InFlight
<1>5. Remembers(i)'
  <2>1. /\ RecentWrong(i) + Cardinality(InFlight(i)) <= Most
        /\ RecentWrong(i) \in Nat /\ Cardinality(InFlight(i)) \in Nat /\ Most \in Int
    BY <1>1, Counts DEF Remembers
  <2>2. Most' = Most /\ Cardinality(InFlight(i)') = Cardinality(InFlight(i))
    BY <1>2, <1>4 DEF Most
  <2>3. Len(Window(i)') <= Most'
    BY <1>3, <2>1, <2>2
  <2> QED BY <1>3, <2>1, <2>2, <2>3 DEF Remembers
<1>6. ASSUME NEW j \in Identifiers \ {i} PROVE Remembers(j)'
  <2>1. now <= now'
    BY <1>1, <1>2 DEF Typed
  <2> QED BY <1>2, <1>3, <1>4, <2>1, LeftAlone
<1> QED BY <1>3, <1>5, <1>6, ThrottleInvByIdentifier

\* An attempt is admitted only below max_failures: with every other attempt
\* under way at the same identifier there is still room.
LEMMA AdmitKeeps ==
    ASSUME ThrottleInv, NEW a \in Attempts, NEW i \in Identifiers, Admit(a, i)
    PROVE  ThrottleInv'
<1>1. Typed /\ \A j \in Identifiers : Remembers(j)
  BY ThrottleInvByIdentifier
<1>2. /\ failures' = Store(i, Live(i)) /\ UNCHANGED << limits, now, wrong >>
      /\ pc' = [pc EXCEPT ![a] = {i}] /\ ~Blocked(i) /\ pc[a] = {}
  BY DEF Admit
<1>3. /\ Typed'
      /\ InOrder(wrong[i])' /\ EndOf(Window(i), wrong[i])'
      /\ RecentWrong(i)' = RecentWrong(i)
      /\ Len(Window(i)') = RecentWrong(i)
      /\ \A j \in Identifiers \ {i} : UNCHANGED Window(j)
  <2>1. pc' \in [Attempts -> SUBSET Identifiers]
    BY <1>1, <1>2 DEF Typed
  <2> QED BY <1>2, <2>1, AskingPrunes
<1>4. Remembers(i)'
  <2>1. RecentWrong(i) < limits.failures
    <3>1. Len(Live(i)) = RecentWrong(i)
      BY <1>1, PruneKeepsTheLive DEF Remembers
    <3> QED BY <1>1, <1>2, <3>1, Counts DEF Blocked
  <2>2. /\ Cardinality(InFlight(i)') <= Cardinality(Attempts)
        /\ Cardinality(InFlight(i)') \in Nat
    <3>1. InFlight(i)' \subseteq Attempts
      BY DEF InFlight
    <3> QED BY <3>1, InFlightBounded
  <2>3. /\ Most' = Most /\ Most = limits.failures + Cardinality(Attempts) - 1
        /\ Cardinality(Attempts) \in Nat /\ limits.failures \in Nat /\ RecentWrong(i) \in Nat
    BY <1>1, <1>2, Counts DEF Most
  <2>4. Cardinality(Attempts) >= 1
    <3>1. IsFiniteSet(Attempts) /\ Attempts # {}
      BY ThrottleAssumption
    <3>2. Cardinality(Attempts) # 0
      BY <3>1, FS_EmptySet
    <3> QED BY <2>3, <3>2
  <2>5. RecentWrong(i)' + Cardinality(InFlight(i)') <= Most' /\ Len(Window(i)') <= Most'
    BY <1>3, <2>1, <2>2, <2>3, <2>4
  <2> QED BY <1>3, <2>5 DEF Remembers
<1>5. ASSUME NEW j \in Identifiers \ {i} PROVE Remembers(j)'
  <2>1. InFlight(j)' \subseteq InFlight(j)
    BY <1>1, <1>2 DEF InFlight, Typed
  <2>2. now <= now'
    BY <1>1, <1>2 DEF Typed
  <2> QED BY <1>2, <1>3, <2>1, <2>2, LeftAlone
<1> QED BY <1>3, <1>4, <1>5, ThrottleInvByIdentifier

\* An attempt that ends is under way no longer, and no other attempt changes.
LEMMA AttemptEnds ==
    ASSUME Typed, NEW a \in Attempts, NEW i \in Identifiers, i \in pc[a],
           pc' = [pc EXCEPT ![a] = {}]
    PROVE  /\ pc' \in [Attempts -> SUBSET Identifiers]
           /\ \A j \in Identifiers : InFlight(j)' \subseteq InFlight(j)
           /\ Cardinality(InFlight(i)') = Cardinality(InFlight(i)) - 1
           /\ Cardinality(InFlight(i)') \in Nat
<1>1. pc' \in [Attempts -> SUBSET Identifiers]
  BY DEF Typed
<1>2. \A j \in Identifiers : InFlight(j)' \subseteq InFlight(j)
  BY DEF Typed, InFlight
<1>3. InFlight(i)' = InFlight(i) \ {a} /\ a \in InFlight(i)
  BY DEF Typed, InFlight
<1>4. Cardinality(InFlight(i) \ {a}) = Cardinality(InFlight(i)) - 1
  BY <1>3, Counts, FS_RemoveElement
<1>5. Cardinality(InFlight(i)') \in Nat
  <2>1. InFlight(i)' \subseteq Attempts
    BY DEF InFlight
  <2> QED BY <2>1, InFlightBounded
<1> QED BY <1>1, <1>2, <1>3, <1>4, <1>5

\* A failure is appended to the window and to the history.
LEMMA FailureIsRemembered ==
    ASSUME NEW log \in Seq(Nat), NEW w \in Seq(Nat), InOrder(log), EndOf(w, log), now \in Nat
    PROVE  /\ InOrder(Append(log, now))
           /\ EndOf(Append(w, now), Append(log, now))
<1> DEFINE L == Len(log)
           l == Len(w)
<1>1. /\ L \in Nat /\ l \in Nat /\ l <= L
      /\ \A n \in 1 .. l : w[n] = log[L - l + n]
      /\ \A n \in 1 .. L - l : Expired(log[n])
  BY DEF EndOf
<1>2. /\ Len(Append(log, now)) = L + 1 /\ Len(Append(w, now)) = l + 1
      /\ \A n \in 1 .. L : Append(log, now)[n] = log[n]
      /\ \A n \in 1 .. l : Append(w, now)[n] = w[n]
      /\ Append(log, now)[L + 1] = now
      /\ Append(w, now)[l + 1] = now
  OBVIOUS
<1>3. /\ \A m, n \in 1 .. L : m <= n => log[m] <= log[n]
      /\ \A n \in 1 .. L : log[n] <= now /\ log[n] \in Nat
  BY DEF InOrder
<1> HIDE DEF L, l
<1>4. \A n \in 1 .. L + 1 : Append(log, now)[n] <= now
  BY <1>1, <1>2, <1>3
<1>5. ASSUME NEW m \in 1 .. L + 1, NEW n \in 1 .. L + 1, m <= n
      PROVE  Append(log, now)[m] <= Append(log, now)[n]
  <2>1. CASE n = L + 1
    BY <1>2, <1>4, <2>1
  <2>2. CASE n # L + 1
    <3>1. m \in 1 .. L /\ n \in 1 .. L
      BY <1>1, <1>5, <2>2
    <3> QED BY <1>2, <1>3, <1>5, <3>1
  <2> QED BY <2>1, <2>2
<1>6. ASSUME NEW n \in 1 .. l + 1
      PROVE  Append(w, now)[n] = Append(log, now)[(L + 1) - (l + 1) + n]
  <2>1. CASE n = l + 1
    <3>1. (L + 1) - (l + 1) + n = L + 1
      BY <1>1, <2>1
    <3> QED BY <1>2, <2>1, <3>1
  <2>2. CASE n # l + 1
    <3>1. n \in 1 .. l /\ L - l + n \in 1 .. L /\ (L + 1) - (l + 1) + n = L - l + n
      BY <1>1, <1>6, <2>2
    <3>2. w[n] = log[L - l + n]
      BY <1>1, <3>1
    <3> QED BY <1>2, <3>1, <3>2
  <2> QED BY <2>1, <2>2
<1>7. ASSUME NEW n \in 1 .. (L + 1) - (l + 1)
      PROVE  Expired(Append(log, now)[n])
  <2>1. n \in 1 .. L - l /\ n \in 1 .. L
    BY <1>1, <1>7
  <2>2. Expired(log[n]) /\ Append(log, now)[n] = log[n]
    BY <1>1, <1>2, <2>1
  <2> QED BY <2>2
<1>8. l + 1 <= L + 1
  BY <1>1
<1> QED BY <1>2, <1>4, <1>5, <1>6, <1>7, <1>8 DEF InOrder, EndOf

\* A recorded failure was counted before, as an attempt under way.
LEMMA FailKeeps ==
    ASSUME ThrottleInv, NEW a \in Attempts, NEW i \in Identifiers, Fail(a, i)
    PROVE  ThrottleInv'
<1> DEFINE log == wrong[i]
<1>1. Typed /\ \A j \in Identifiers : Remembers(j)
  BY ThrottleInvByIdentifier
<1>2. /\ failures' = Store(i, Append(Live(i), now)) /\ UNCHANGED << limits, now >>
      /\ wrong' = [wrong EXCEPT ![i] = Append(log, now)]
      /\ pc' = [pc EXCEPT ![a] = {}] /\ i \in pc[a]
  BY DEF Fail
<1>3. /\ pc' \in [Attempts -> SUBSET Identifiers]
      /\ \A j \in Identifiers : InFlight(j)' \subseteq InFlight(j)
      /\ Cardinality(InFlight(i)') = Cardinality(InFlight(i)) - 1
      /\ Cardinality(InFlight(i)') \in Nat
  BY <1>1, <1>2, AttemptEnds
<1>4. /\ Live(i) \in Seq(Nat) /\ EndOf(Live(i), log)
      /\ Len(Live(i)) = RecentWrong(i)
      /\ InOrder(log) /\ log \in Seq(Nat) /\ now \in Nat
  BY <1>1, PruneKeepsTheLive, Counts DEF Remembers, Typed
<1>5. /\ DOMAIN failures' \subseteq Identifiers
      /\ \A j \in DOMAIN failures' : failures'[j] \in Seq(Nat) /\ failures'[j] # << >>
      /\ Window(i)' = Append(Live(i), now)
      /\ \A j \in Identifiers \ {i} : Window(j)' = Window(j)
  <2>1. Append(Live(i), now) \in Seq(Nat)
    BY <1>4
  <2> QED BY <1>1, <1>2, <2>1, StoreReplacesOne
<1>6. /\ wrong' \in [Identifiers -> Seq(Nat)]
      /\ wrong'[i] = Append(log, now)
      /\ \A j \in Identifiers \ {i} : wrong'[j] = wrong[j]
  <2>1. Append(log, now) \in Seq(Nat) /\ wrong \in [Identifiers -> Seq(Nat)]
    BY <1>1, <1>4 DEF Typed
  <2> HIDE DEF log
  <2> QED BY <1>2, <2>1
<1>7. Typed'
  BY <1>1, <1>2, <1>3, <1>5, <1>6 DEF Typed
<1>8. InOrder(wrong[i])' /\ EndOf(Window(i), wrong[i])'
  <2>1. InOrder(Append(log, now)) /\ EndOf(Append(Live(i), now), Append(log, now))
    BY <1>4, FailureIsRemembered
  <2> HIDE DEF log
  <2>2. InOrder(wrong[i])'
    BY <1>2, <1>6, <2>1 DEF InOrder
  <2>3. EndOf(Window(i), wrong[i])'
    BY <1>2, <1>5, <1>6, <2>1 DEF EndOf, Expired
  <2> QED BY <2>2, <2>3
<1>9. RecentWrong(i)' \in Nat /\ RecentWrong(i)' <= RecentWrong(i) + 1
  <2> DEFINE recent == {n \in 1 .. Len(log) : log[n] + limits.window > now}
             more == {n \in 1 .. Len(wrong'[i]) : wrong'[i][n] + limits'.window > now'}
  <2>1. more \subseteq recent \cup {Len(log) + 1}
    <3>1. Len(wrong'[i]) = Len(log) + 1 /\ Len(log) \in Nat
      BY <1>4, <1>6
    <3>2. \A n \in 1 .. Len(log) : wrong'[i][n] = log[n]
      BY <1>4, <1>6
    <3> HIDE DEF log
    <3> QED BY <1>2, <3>1, <3>2
  <2>2. IsFiniteSet(recent) /\ Cardinality(recent) \in Nat
    BY <1>4, RecentIsFinite
  <2>3. RecentWrong(i) = Cardinality(recent) /\ RecentWrong(i)' = Cardinality(more)
    BY DEF RecentWrong
  <2>4. IsFiniteSet(more) /\ Cardinality(more) \in Nat
    <3>1. wrong'[i] \in Seq(Nat) /\ more \subseteq 1 .. Len(wrong'[i])
      BY <1>6
    <3> QED BY <3>1, RecentIsFinite
  <2> HIDE DEF recent, more
  <2>5. /\ IsFiniteSet(recent \cup {Len(log) + 1})
        /\ Cardinality(recent \cup {Len(log) + 1}) <= Cardinality(recent) + 1
    <3> DEFINE new == Len(log) + 1
    <3>1. /\ IsFiniteSet(recent \cup {new})
          /\ Cardinality(recent \cup {new}) =
               IF new \in recent THEN Cardinality(recent) ELSE Cardinality(recent) + 1
      BY <2>2, FS_AddElement, Zenon
    <3> HIDE DEF new
    <3>2. Cardinality(recent \cup {new}) <= Cardinality(recent) + 1
      BY <2>2, <3>1
    <3> QED BY <3>1, <3>2 DEF new
  <2>6. /\ Cardinality(more) <= Cardinality(recent \cup {Len(log) + 1})
        /\ Cardinality(recent \cup {Len(log) + 1}) \in Nat
    BY <2>1, <2>5, FS_Subset, FS_CardinalityType
  <2> QED BY <2>2, <2>3, <2>4, <2>5, <2>6
<1>10. RecentWrong(i)' + Cardinality(InFlight(i)') <= Most' /\ Len(Window(i)') <= Most'
  <2>1. Most' = Most
    BY <1>2 DEF Most
  <2>2. Len(Window(i)') = RecentWrong(i) + 1
    BY <1>4, <1>5
  <2>3. /\ RecentWrong(i) + Cardinality(InFlight(i)) <= Most
        /\ RecentWrong(i) \in Nat /\ Cardinality(InFlight(i)) \in Nat /\ Most \in Int
    BY <1>1, Counts DEF Remembers
  <2> QED BY <1>3, <1>9, <2>1, <2>2, <2>3
<1>11. Remembers(i)'
  BY <1>8, <1>10 DEF Remembers
<1>12. ASSUME NEW j \in Identifiers \ {i} PROVE Remembers(j)'
  <2>1. now <= now'
    BY <1>2, <1>4
  <2> QED BY <1>2, <1>3, <1>5, <1>6, <1>7, <2>1, LeftAlone
<1> QED BY <1>7, <1>11, <1>12, ThrottleInvByIdentifier

\* A right password empties the window and the history.
LEMMA SucceedKeeps ==
    ASSUME ThrottleInv, NEW a \in Attempts, NEW i \in Identifiers, Succeed(a, i)
    PROVE  ThrottleInv'
<1>1. Typed /\ \A j \in Identifiers : Remembers(j)
  BY ThrottleInvByIdentifier
<1>2. /\ failures' = Store(i, << >>) /\ UNCHANGED << limits, now >>
      /\ wrong' = [wrong EXCEPT ![i] = << >>]
      /\ pc' = [pc EXCEPT ![a] = {}] /\ i \in pc[a]
  BY DEF Succeed
<1>3. /\ pc' \in [Attempts -> SUBSET Identifiers]
      /\ \A j \in Identifiers : InFlight(j)' \subseteq InFlight(j)
      /\ Cardinality(InFlight(i)') = Cardinality(InFlight(i)) - 1
      /\ Cardinality(InFlight(i)') \in Nat
  BY <1>1, <1>2, AttemptEnds
<1>4. /\ DOMAIN failures' \subseteq Identifiers
      /\ \A j \in DOMAIN failures' : failures'[j] \in Seq(Nat) /\ failures'[j] # << >>
      /\ Window(i)' = << >>
      /\ \A j \in Identifiers \ {i} : Window(j)' = Window(j)
  <2>1. << >> \in Seq(Nat)
    OBVIOUS
  <2> QED BY <1>1, <1>2, <2>1, StoreReplacesOne
<1>5. /\ wrong' \in [Identifiers -> Seq(Nat)] /\ wrong'[i] = << >>
      /\ \A j \in Identifiers \ {i} : wrong'[j] = wrong[j]
  BY <1>1, <1>2 DEF Typed
<1>6. Typed'
  BY <1>1, <1>2, <1>3, <1>4, <1>5 DEF Typed
<1>7. Remembers(i)'
  <2>1. InOrder(wrong[i])' /\ EndOf(Window(i), wrong[i])'
    BY <1>4, <1>5 DEF InOrder, EndOf
  <2>2. RecentWrong(i)' = 0
    <3>1. RecentWrong(i)' = Cardinality({})
      BY <1>5 DEF RecentWrong
    <3> QED BY <3>1, FS_EmptySet
  <2>3. /\ RecentWrong(i) + Cardinality(InFlight(i)) <= Most
        /\ RecentWrong(i) \in Nat /\ Cardinality(InFlight(i)) \in Nat /\ Most \in Int
    BY <1>1, Counts DEF Remembers
  <2>4. Most' = Most /\ Len(Window(i)') = 0
    BY <1>2, <1>4 DEF Most
  <2>5. RecentWrong(i)' + Cardinality(InFlight(i)') <= Most' /\ Len(Window(i)') <= Most'
    BY <1>3, <2>2, <2>3, <2>4
  <2> QED BY <2>1, <2>5 DEF Remembers
<1>8. ASSUME NEW j \in Identifiers \ {i} PROVE Remembers(j)'
  <2>1. now <= now'
    BY <1>1, <1>2 DEF Typed
  <2> QED BY <1>2, <1>3, <1>4, <1>5, <1>6, <2>1, LeftAlone
<1> QED BY <1>6, <1>7, <1>8, ThrottleInvByIdentifier

LEMMA RaiseKeeps ==
    ASSUME ThrottleInv, NEW a \in Attempts, NEW i \in Identifiers, Raise(a, i)
    PROVE  ThrottleInv'
<1>1. Typed
  BY DEF ThrottleInv
<1>2. /\ pc' = [pc EXCEPT ![a] = {}] /\ i \in pc[a]
      /\ UNCHANGED << limits, now, failures, wrong >>
  BY DEF Raise
<1>3. /\ pc' \in [Attempts -> SUBSET Identifiers]
      /\ \A j \in Identifiers : InFlight(j)' \subseteq InFlight(j)
  BY <1>1, <1>2, AttemptEnds
<1>4. Typed'
  BY <1>1, <1>2, <1>3 DEF Typed
<1>5. ASSUME NEW j \in Identifiers PROVE Remembers(j)'
  <2>1. now <= now' /\ Window(j)' = Window(j)
    BY <1>1, <1>2 DEF Typed, Window
  <2> QED BY <1>2, <1>3, <1>4, <2>1, LeftAlone
<1> QED BY <1>4, <1>5, ThrottleInvByIdentifier

LEMMA TickKeeps == ThrottleInv /\ Tick => ThrottleInv'
<1> SUFFICES ASSUME ThrottleInv, Tick PROVE ThrottleInv'
  OBVIOUS
<1>1. /\ now' = now + 1 /\ UNCHANGED << limits, failures, pc, wrong >>
  BY DEF Tick
<1>2. Typed /\ Typed'
  BY <1>1 DEF ThrottleInv, Typed
<1>3. ASSUME NEW j \in Identifiers PROVE Remembers(j)'
  <2>1. now <= now' /\ Window(j)' = Window(j) /\ InFlight(j)' = InFlight(j)
    BY <1>1, <1>2 DEF Typed, Window, InFlight
  <2> QED BY <1>1, <1>2, <2>1, LeftAlone
<1> QED BY <1>2, <1>3, ThrottleInvByIdentifier

LEMMA NextThrottle == ThrottleInv /\ [Next]_tvars => ThrottleInv'
<1> SUFFICES ASSUME ThrottleInv, [Next]_tvars PROVE ThrottleInv'
  OBVIOUS
<1>1. CASE Tick
  BY <1>1, TickKeeps
<1>2. ASSUME NEW a \in Attempts, NEW i \in Identifiers,
             Refuse(a, i) \/ Admit(a, i) \/ Fail(a, i) \/ Succeed(a, i) \/ Raise(a, i)
      PROVE  ThrottleInv'
  BY <1>2, RefuseKeeps, AdmitKeeps, FailKeeps, SucceedKeeps, RaiseKeeps
<1>3. CASE UNCHANGED tvars
  <2>1. UNCHANGED << limits, now, failures, pc, wrong >>
    BY <1>3 DEF tvars
  <2>2. Typed /\ Typed'
    BY <2>1 DEF ThrottleInv, Typed
  <2>3. ASSUME NEW j \in Identifiers PROVE Remembers(j)'
    <3>1. now <= now' /\ Window(j)' = Window(j) /\ InFlight(j)' = InFlight(j)
      BY <2>1, <2>2 DEF Typed, Window, InFlight
    <3> QED BY <2>1, <2>2, <3>1, LeftAlone
  <2> QED BY <2>2, <2>3, ThrottleInvByIdentifier
<1> QED BY <1>1, <1>2, <1>3 DEF Next

LEMMA ThrottleInvariant == Spec => []ThrottleInv
BY InitThrottle, NextThrottle, PTL DEF Spec

-----------------------------------------------------------------------------
\* The cost of guessing is bounded for any number of attempts that overlap the
\* await between is_blocked and record_failure, and any limits.
THEOREM GuessesTheorem == Spec => []GuessesBounded
<1>1. ThrottleInv => GuessesBounded
  <2> SUFFICES ASSUME ThrottleInv, NEW i \in Identifiers PROVE RecentWrong(i) <= Most
    BY DEF GuessesBounded, Most
  <2> QED BY Counts DEF ThrottleInv, GuessesAndAttemptsBounded
<1> QED BY <1>1, ThrottleInvariant, PTL

\* login refuses nobody whose recent wrong guesses do not reach the limit.
THEOREM RefusalTheorem == Spec => []RefusalIsEarned
<1>1. ThrottleInv => RefusalIsEarned
  <2> SUFFICES ASSUME ThrottleInv, NEW i \in Identifiers, Blocked(i)
               PROVE  RecentWrong(i) >= limits.failures /\ RecentWrong(i) > 0
    BY DEF RefusalIsEarned
  <2>1. Len(Live(i)) = RecentWrong(i)
    BY PruneKeepsTheLive DEF ThrottleInv, WindowsRemember
  <2> QED BY <2>1, Counts DEF Blocked, ThrottleInv
<1> QED BY <1>1, ThrottleInvariant, PTL

\* _failures holds nothing that no wrong guess put there, and no entry grows
\* beyond the attempts that can be under way.
THEOREM MemoryTheorem == Spec => []MemoryEarned
<1>1. ThrottleInv => MemoryEarned
  <2> SUFFICES ASSUME ThrottleInv, NEW i \in DOMAIN failures
               PROVE  /\ failures[i] # << >>
                      /\ Len(failures[i]) <= Most
                      /\ \A n \in 1 .. Len(failures[i]) :
                           \E m \in 1 .. Len(wrong[i]) : failures[i][n] = wrong[i][m]
    BY DEF MemoryEarned, Most
  <2>1. i \in Identifiers /\ Window(i) = failures[i] /\ failures[i] # << >> /\ Typed
    BY DEF ThrottleInv, Typed, Window
  <2>2. Len(failures[i]) <= Most /\ EndOf(failures[i], wrong[i])
    BY <2>1 DEF ThrottleInv, GuessesAndAttemptsBounded, WindowsRemember
  <2>3. Len(failures[i]) \in Nat /\ Len(wrong[i]) \in Nat
    BY <2>1, Counts
  <2>4. ASSUME NEW n \in 1 .. Len(failures[i])
        PROVE  \E m \in 1 .. Len(wrong[i]) : failures[i][n] = wrong[i][m]
    <3>1. /\ failures[i][n] = wrong[i][Len(wrong[i]) - Len(failures[i]) + n]
          /\ Len(wrong[i]) - Len(failures[i]) + n \in 1 .. Len(wrong[i])
      BY <2>2, <2>3 DEF EndOf
    <3> QED BY <3>1
  <2> QED BY <2>1, <2>2, <2>4
<1> QED BY <1>1, ThrottleInvariant, PTL

=============================================================================
