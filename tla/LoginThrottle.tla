--------------------------- MODULE LoginThrottle ----------------------------
(***************************************************************************)
(* The failure counter of rate_limit.py and the login attempts that use    *)
(* it.  A login asks is_blocked, awaits the account from the database, and *)
(* records its failure or resets the counter: attempts that overlap all    *)
(* pass the check before any of them records.  Time is discrete.           *)
(***************************************************************************)
EXTENDS Settings, Sequences, FiniteSets

CONSTANTS
    Identifiers,   \* normalized usernames that are tried, existing or not
    Attempts,      \* login requests that may be in flight together
    MaxFailures,   \* default of max_failed_logins_per_account
    WindowLength,  \* default of failed_login_window_seconds
    Horizon        \* bound of the model: last moment

ASSUME ThrottleAssumption ==
    /\ IsFiniteSet(Attempts)
    /\ MaxFailures \in Nat \ {0}
    /\ WindowLength \in Nat \ {0}
    /\ Horizon \in Nat

VARIABLES
    limits,    \* max_failures and window_seconds of the process
    now,       \* time.monotonic()
    failures,  \* _failures: the moments of the recorded failures, by the
               \* identifiers that have an entry
    pc,        \* the identifiers whose account an attempt awaits: one or none
    wrong      \* history: the moments of the wrong guesses verified at each
               \* identifier since its last successful login, in order

tvars == << limits, now, failures, pc, wrong >>

\* default_auth_config.
Limits(max, window) == [failures |-> IntEnv(max, MaxFailures, 1),
                        window   |-> IntEnv(window, WindowLength, 1)]

Init ==
    /\ limits \in {Limits(max, window) : max, window \in Raw}
    /\ now = 0
    /\ failures = [i \in {} |-> << >>]
    /\ pc = [a \in Attempts |-> {}]
    /\ wrong = [i \in Identifiers |-> << >>]

-----------------------------------------------------------------------------
(* FailedLoginTracker.                                                     *)

\* A prune that also drops the failures of the oldest moment in the window.
ExpiredEarly(t) == t + limits.window <= now + 1

\* A prune that keeps a failure one moment too long.
ExpiredLate(t) == t + limits.window < now

Expired(t) == t + limits.window <= now

\* popleft while the first moment has expired: the number of times.
ExpiredFront(w) ==
    CHOOSE k \in 0 .. Len(w) :
        /\ \A n \in 1 .. k : Expired(w[n])
        /\ k < Len(w) => ~Expired(w[k + 1])

\* The deque of an identifier, empty when it has no entry.
Window(i) == IF i \in DOMAIN failures THEN failures[i] ELSE << >>

\* What is left of it when its expired front is dropped.
Live(i) == SubSeq(Window(i), ExpiredFront(Window(i)) + 1, Len(Window(i)))

\* An update that leaves an entry behind whose window is empty.
StoreAlways(i, w) ==
    [x \in DOMAIN failures \cup {i} |-> IF x = i THEN w ELSE failures[x]]

\* _failures with w as the window of i: an entry whose window is empty goes.
Store(i, w) ==
    [x \in {y \in DOMAIN failures \cup {i} : y = i => w # << >>} |->
       IF x = i THEN w ELSE failures[x]]

\* is_blocked.
Blocked(i) == Len(Live(i)) >= limits.failures

-----------------------------------------------------------------------------
(* AuthService.login.                                                      *)

\* The attempt is refused; nothing is recorded.
Refuse(a, i) ==
    /\ pc[a] = {}
    /\ Blocked(i)
    /\ failures' = Store(i, Live(i))
    /\ UNCHANGED << limits, now, pc, wrong >>

\* It goes on to read the account.
Admit(a, i) ==
    /\ pc[a] = {}
    /\ ~Blocked(i)
    /\ failures' = Store(i, Live(i))
    /\ pc' = [pc EXCEPT ![a] = {i}]
    /\ UNCHANGED << limits, now, wrong >>

\* No account, a wrong password or a disabled account: record_failure.
Fail(a, i) ==
    /\ i \in pc[a]
    /\ failures' = Store(i, Append(Live(i), now))
    /\ wrong' = [wrong EXCEPT ![i] = Append(@, now)]
    /\ pc' = [pc EXCEPT ![a] = {}]
    /\ UNCHANGED << limits, now >>

\* The password is right: reset.
Succeed(a, i) ==
    /\ i \in pc[a]
    /\ failures' = Store(i, << >>)
    /\ wrong' = [wrong EXCEPT ![i] = << >>]
    /\ pc' = [pc EXCEPT ![a] = {}]
    /\ UNCHANGED << limits, now >>

\* The database raises: the request ends without record or reset.
Raise(a, i) ==
    /\ i \in pc[a]
    /\ pc' = [pc EXCEPT ![a] = {}]
    /\ UNCHANGED << limits, now, failures, wrong >>

Tick ==
    /\ now < Horizon
    /\ now' = now + 1
    /\ UNCHANGED << limits, failures, pc, wrong >>

Next ==
    \/ Tick
    \/ \E a \in Attempts, i \in Identifiers :
         Refuse(a, i) \/ Admit(a, i) \/ Fail(a, i) \/ Succeed(a, i) \/ Raise(a, i)

Spec == Init /\ [][Next]_tvars

-----------------------------------------------------------------------------
\* Wrong guesses at i in the window's length of moments that ends now.
RecentWrong(i) ==
    Cardinality({n \in 1 .. Len(wrong[i]) : wrong[i][n] + limits.window > now})

\* The cost of guessing is bounded although check and record are apart: since
\* the last successful login, no window sees more wrong guesses at an account
\* than max_failures and one more for each further attempt that can be in
\* flight (login awaits the database between is_blocked and record_failure).
GuessesBounded ==
    \A i \in Identifiers :
        RecentWrong(i) <= limits.failures + Cardinality(Attempts) - 1

\* A blocked account recovers by itself: login refuses only while the window
\* that ends now holds max_failures wrong guesses at this very account made
\* since its last success, and one at least whatever the environment says.
\* Refused attempts, late records and other accounts never prolong the block.
RefusalIsEarned ==
    \A i \in Identifiers :
        Blocked(i) => RecentWrong(i) >= limits.failures /\ RecentWrong(i) > 0

\* What the tracker keeps is bounded in each of its entries, and there is an
\* entry only for an identifier at which somebody has guessed wrong since its
\* last success: asking about a name leaves nothing behind.  The number of
\* entries has no bound but the number of names ever tried.
MemoryEarned ==
    \A i \in DOMAIN failures :
        /\ failures[i] # << >>
        /\ Len(failures[i]) <= limits.failures + Cardinality(Attempts) - 1
        /\ \A n \in 1 .. Len(failures[i]) :
             \E m \in 1 .. Len(wrong[i]) : failures[i][n] = wrong[i][m]

=============================================================================
