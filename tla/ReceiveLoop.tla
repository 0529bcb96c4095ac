---------------------------- MODULE ReceiveLoop -----------------------------
(***************************************************************************)
(* The receive loop of one connection over discrete time: the timeout, the *)
(* size check, the fixed-window RateLimiter, then Inbound's checks.  A     *)
(* wait_for expires when its timeout is reached; a frame that arrives at   *)
(* that very moment may still win.                                         *)
(***************************************************************************)
EXTENDS Inbound, Settings, Sequences, FiniteSets

CONSTANTS
    UnauthenticatedTimeout,  \* the defaults of TransportLimits, in ticks
    IdleTimeout,
    MaxMessages,
    WindowLength,
    Horizon,                 \* bound of the model: last moment
    MaxBurst                 \* bound of the model: frames per moment

ASSUME ReceiveLoopAssumption ==
    /\ UnauthenticatedTimeout \in Nat \ {0}
    /\ IdleTimeout \in Nat \ {0}
    /\ MaxMessages \in Nat \ {0}
    /\ WindowLength \in Nat \ {0}
    /\ Horizon \in Nat
    /\ MaxBurst \in Nat

VARIABLES
    limits,         \* TransportLimits of the process
    now,            \* time.monotonic()
    state,          \* "receiving", "resolving" or "closed"
    authenticated,
    waitFrom,       \* when the current wait_for began
    windowStart,    \* _window_started_at
    count,          \* _count
    outcome,        \* what the last frame led to
    burst,          \* frames received at this moment
    admitted,       \* history: the moments of the frames the limiter let through
    heard           \* history: when the peer was last heard, or accepted

rvars == << limits, now, state, authenticated, waitFrom, windowStart, count, outcome, burst,
            admitted, heard >>

\* The settings of the receive loop.
Environment == [unauthenticated: Raw, idle: Raw, messages: Raw, window: Raw]

\* default_limits.
Limits(env) ==
    [unauthenticated |-> FloatEnv(env.unauthenticated, UnauthenticatedTimeout),
     idle            |-> FloatEnv(env.idle, IdleTimeout),
     messages        |-> IntEnv(env.messages, MaxMessages, 1),
     window          |-> FloatEnv(env.window, WindowLength)]

\* The clock of the host has run for a while when the connection is accepted.
\* _window_started_at is 0.0 at first, so that the first frame opens a window
\* unless the window is longer than that.
Opened == WindowLength

Init ==
    /\ limits \in {Limits(env) : env \in Environment}
    /\ now = Opened
    /\ state = "receiving"
    /\ authenticated = FALSE
    /\ waitFrom = Opened
    /\ windowStart = 0
    /\ count = 0
    /\ outcome = "none"
    /\ burst = 0
    /\ admitted = << >>
    /\ heard = Opened

\* The deadline of a connection that has authenticated stays the short one.
TimeoutOfStranger == limits.unauthenticated

Timeout == IF authenticated THEN limits.idle ELSE limits.unauthenticated

\* A limiter that resets the count but not the start of the window.
NewWindowKeepsStart == [start |-> windowStart,
                        count |-> IF now - windowStart >= limits.window THEN 0 ELSE count]

\* The window a frame received now falls in.
NewWindow == IF now - windowStart >= limits.window
               THEN [start |-> now, count |-> 0]
               ELSE [start |-> windowStart, count |-> count]

\* Time passes.  A pending wait_for does not outlive its timeout.
Tick ==
    /\ now < Horizon
    /\ state = "receiving" => now < waitFrom + Timeout
    /\ state # "closed"
    /\ now' = now + 1
    /\ burst' = 0
    /\ UNCHANGED << state, authenticated, waitFrom, windowStart, count, outcome,
                    admitted, heard, limits >>

\* A frame ends the wait and begins the next, unless the token of an
\* auth.authenticate makes the handler await the session store.
NextWait(next) ==
    /\ state = "receiving"
    /\ burst < MaxBurst
    /\ burst' = burst + 1
    /\ waitFrom' = now
    /\ heard' = now
    /\ state' = next
    /\ UNCHANGED << limits, now, authenticated >>

\* An oversized frame is refused before the limiter sees it.
ReceiveOversized(f) ==
    /\ f.shape = "oversized"
    /\ outcome' = "MESSAGE_TOO_LARGE"
    /\ NextWait("receiving")
    /\ UNCHANGED << windowStart, count, admitted >>

\* RateLimiter.allow returns the verdict.
Allow(verdict) ==
    /\ verdict = (NewWindow.count + 1 <= limits.messages)
    /\ windowStart' = NewWindow.start
    /\ count' = NewWindow.count + 1

ReceiveLimited(f) ==
    /\ f.shape # "oversized"
    /\ Allow(FALSE)
    /\ outcome' = "RATE_LIMITED"
    /\ NextWait("receiving")
    /\ UNCHANGED admitted

\* The frame is validated and dispatched.  An auth.authenticate without a
\* usable token, or on an authenticated connection, is answered at once.
ReceiveAdmitted(f) ==
    /\ f.shape # "oversized"
    /\ Allow(TRUE)
    /\ outcome' = Dispatch(authenticated, f)
    /\ admitted' = Append(admitted, now)
    /\ \/ NextWait("receiving")
       \/ outcome' = "authenticate" /\ ~authenticated /\ NextWait("resolving")

\* resolve_access_token ends; the next wait_for begins.
Resolved ==
    /\ state = "resolving"
    /\ authenticated' \in BOOLEAN
    /\ state' = "receiving"
    /\ waitFrom' = now
    /\ UNCHANGED << limits, now, windowStart, count, outcome, burst, admitted, heard >>

\* wait_for raises TimeoutError and the handler leaves the loop.
Expire ==
    /\ state = "receiving"
    /\ now >= waitFrom + Timeout
    /\ state' = "closed"
    /\ UNCHANGED << now, authenticated, waitFrom, windowStart, count, outcome, burst,
                    admitted, heard, limits >>

\* The bounds on time and frames, or the closed connection, end a behaviour.
Next ==
    \/ Tick \/ Resolved \/ Expire
    \/ \E f \in Frames : ReceiveOversized(f) \/ ReceiveLimited(f) \/ ReceiveAdmitted(f)

Spec == Init /\ [][Next]_rvars

-----------------------------------------------------------------------------
\* Frames admitted in the window's length of moments that ends with t.
AdmittedUpTo(t) ==
    Cardinality({n \in 1 .. Len(admitted) :
                   admitted[n] <= t /\ admitted[n] + limits.window > t})

\* A fixed window lets a burst straddle its edge, but never more: any stretch
\* of a window's length admits at most twice max_messages_per_window.
SlidingBound ==
    \A t \in 0 .. now : AdmittedUpTo(t) <= 2 * limits.messages

\* The limiter refuses a frame only when it has admitted a full quota within
\* the last window's length, and a quota is a frame at least whatever the
\* environment says: a client that keeps to the rate is never refused.
RefusalIsDeserved ==
    [][outcome' = "RATE_LIMITED" /\ count' # count =>
         /\ AdmittedUpTo(now) >= limits.messages
         /\ AdmittedUpTo(now) > 0]_rvars

\* A connection is closed for silence only when its peer was silent for the
\* whole of the timeout that applies to it, an authenticated one for the idle
\* timeout.  Every frame counts, an oversized or a refused one too, and time
\* spent in the session store is not held against the client.
SilenceIsDeserved ==
    state = "closed" =>
        /\ ~authenticated => now >= heard + limits.unauthenticated
        /\ authenticated => now >= heard + limits.idle

\* While a connection is unauthenticated, the answer to a privileged type is
\* the same whether or not the rest of the envelope is well formed: it
\* "learns nothing from the shape of its errors" (endpoint.py).
GateHidesSchema ==
    [][~authenticated =>
         \A f \in {g \in Frames : g.type \in Privileged} :
           ReceiveAdmitted(f) =>
             outcome' = Dispatch(authenticated, [f EXCEPT !.schema = ~@])]_rvars

\* A privileged handler runs only after a token was resolved on this very
\* connection, and a valid frame never falls through the dispatch to the
\* INTERNAL_PROTOCOL_ERROR that ends it: the three sets of types agree.
DispatchIsSound ==
    /\ outcome = "privileged" => authenticated
    /\ outcome # "INTERNAL_PROTOCOL_ERROR"

=============================================================================
