------------------------- MODULE ReceiveLoopProofs -------------------------
(* Theorems about ReceiveLoop, for any limits, any environment and any     *)
(* number of frames at any moment.                                         *)
EXTENDS ReceiveLoop, SettingsProofs, SequenceTheorems, FiniteSetTheorems

Typed ==
    /\ limits \in [unauthenticated: Nat \ {0}, idle: Nat \ {0},
                   messages: Nat \ {0}, window: Nat \ {0}]
    /\ now \in Nat
    /\ state \in {"receiving", "resolving", "closed"}
    /\ authenticated \in BOOLEAN
    /\ waitFrom \in Nat
    /\ windowStart \in Nat
    /\ count \in Nat
    /\ admitted \in Seq(Nat)
    /\ heard \in Nat

\* The frames admitted in the window that is open: what count counts, which
\* goes on counting the refused.
Quota == IF count <= limits.messages THEN count ELSE limits.messages

\* The frames admitted before that window.
Before == Len(admitted) - Quota

\* The history of the limiter is in order and in the past, and its last Quota
\* frames are those of the open window.
WindowCounted ==
    /\ windowStart <= now
    /\ Before \in Nat
    /\ \A n \in 1 .. Len(admitted) :
         /\ admitted[n] <= now
         /\ n <= Before => admitted[n] <= windowStart
         /\ n > Before => /\ windowStart <= admitted[n]
                          /\ admitted[n] < windowStart + limits.window
    /\ \A m, n \in 1 .. Len(admitted) : m <= n => admitted[m] <= admitted[n]

\* A window admits no more than the quota: of the frames before it, all but a
\* quota came a whole window's length before it opened, and of all frames any
\* two that lie two quotas apart are a whole window's length apart.
QuotasApart ==
    /\ \A n \in 1 .. Len(admitted) :
         n + limits.messages <= Before => admitted[n] + limits.window <= windowStart
    /\ \A m, n \in 1 .. Len(admitted) :
         m + 2 * limits.messages <= n => admitted[m] + limits.window <= admitted[n]

\* A wait begins with a frame or later, and only its timeout closes.
WaitsCounted ==
    /\ heard <= waitFrom /\ waitFrom <= now
    /\ state = "closed" => now >= waitFrom + Timeout

\* A token is resolved because of the last frame.
Dispatched ==
    /\ state = "resolving" => outcome = "authenticate"
    /\ outcome = "privileged" => authenticated
    /\ outcome # "INTERNAL_PROTOCOL_ERROR"

LoopInv == Typed /\ WindowCounted /\ QuotasApart /\ WaitsCounted /\ Dispatched

-----------------------------------------------------------------------------
(* Inbound's cascade.                                                      *)

\* A frame passes the cascade only with a type clients may send, and without
\* authentication only with one of those that need none.
LEMMA CascadeAdmits ==
    ASSUME NEW authed \in BOOLEAN, NEW f \in Frames, f.shape # "oversized"
    PROVE  /\ Validate(authed, f) \in
                {"INVALID_JSON", "SCHEMA_VALIDATION_FAILED", "UNSUPPORTED_PROTOCOL_VERSION",
                 "UNKNOWN_MESSAGE_TYPE", "AUTH_REQUIRED", "valid"}
           /\ Validate(authed, f) = "valid" =>
                f.type \in ClientSendable /\ (authed \/ f.type \in UnauthenticatedSendable)
<1>1. f.shape \in {"not_json", "not_object", "object"} /\ f.version \in BOOLEAN
  BY DEF Frames
<1>2. CASE f.shape = "not_json"
  BY <1>2 DEF Validate
<1>3. CASE f.shape = "not_object"
  BY <1>3 DEF Validate
<1>4. CASE f.shape = "object"
  <2>1. CASE ~f.version
    BY <1>4, <2>1 DEF Validate
  <2>2. CASE f.version /\ f.type \notin ClientSendable
    BY <1>4, <2>2 DEF Validate
  <2>3. CASE f.version /\ f.type \in ClientSendable
    <3>1. Validate(authed, f) =
            IF ~authed /\ f.type \notin UnauthenticatedSendable THEN "AUTH_REQUIRED"
            ELSE IF ~f.schema THEN "SCHEMA_VALIDATION_FAILED" ELSE "valid"
      BY <1>4, <2>3 DEF Validate
    <3> QED BY <2>3, <3>1
  <2> QED BY <1>1, <2>1, <2>2, <2>3
<1> QED BY <1>1, <1>2, <1>3, <1>4

\* What a dispatched frame leads to.
LEMMA DispatchOutcomes ==
    ASSUME NEW authed \in BOOLEAN, NEW f \in Frames, f.shape # "oversized"
    PROVE  /\ Dispatch(authed, f) # "INTERNAL_PROTOCOL_ERROR"
           /\ Dispatch(authed, f) # "RATE_LIMITED"
           /\ Dispatch(authed, f) = "privileged" => authed
<1>1. CASE Validate(authed, f) # "valid"
  BY <1>1, CascadeAdmits DEF Dispatch
<1>2. CASE Validate(authed, f) = "valid"
  <2>1. /\ f.type \in ClientSendable
        /\ authed \/ f.type \in UnauthenticatedSendable
    BY <1>2, CascadeAdmits
  <2>2. Dispatch(authed, f) = CASE f.type = "auth.authenticate" -> "authenticate"
                                [] f.type = "heartbeat.ping"    -> "pong"
                                [] f.type \in Privileged        -> "privileged"
                                [] OTHER                        -> "INTERNAL_PROTOCOL_ERROR"
    BY <1>2 DEF Dispatch
  <2>3. CASE f.type = "auth.authenticate"
    BY <2>2, <2>3 DEF Privileged
  <2>4. CASE f.type = "heartbeat.ping"
    BY <2>2, <2>4 DEF Privileged
  <2>5. CASE f.type \in Privileged
    BY <2>1, <2>2, <2>5 DEF Privileged, UnauthenticatedSendable
  <2> QED BY <2>1, <2>3, <2>4, <2>5 DEF ClientSendable, Privileged
<1> QED BY <1>1, <1>2

-----------------------------------------------------------------------------
LEMMA InitLoop == Init => LoopInv
<1> SUFFICES ASSUME Init PROVE LoopInv
  OBVIOUS
<1>1. limits \in [unauthenticated: Nat \ {0}, idle: Nat \ {0},
                  messages: Nat \ {0}, window: Nat \ {0}]
  <2>1. PICK env \in Environment : limits = Limits(env)
    BY DEF Init
  <2>2. /\ env.unauthenticated \in Raw /\ env.idle \in Raw
        /\ env.messages \in Raw /\ env.window \in Raw
    BY DEF Environment
  <2>3. FloatEnv(env.unauthenticated, UnauthenticatedTimeout) \in Nat \ {0}
    BY <2>2, LimitsPositive, ReceiveLoopAssumption
  <2>4. FloatEnv(env.idle, IdleTimeout) \in Nat \ {0}
    BY <2>2, LimitsPositive, ReceiveLoopAssumption
  <2>5. IntEnv(env.messages, MaxMessages, 1) \in Nat /\ IntEnv(env.messages, MaxMessages, 1) >= 1
    BY <2>2, LimitsPositive, ReceiveLoopAssumption
  <2>6. FloatEnv(env.window, WindowLength) \in Nat \ {0}
    BY <2>2, LimitsPositive, ReceiveLoopAssumption
  <2> QED BY <2>1, <2>3, <2>4, <2>5, <2>6 DEF Limits
<1>2. Typed
  <2>1. /\ now = WindowLength /\ state = "receiving" /\ authenticated = FALSE
        /\ waitFrom = WindowLength /\ windowStart = 0 /\ count = 0
        /\ admitted = << >> /\ heard = WindowLength
    BY DEF Init, Opened
  <2>2. WindowLength \in Nat /\ admitted \in Seq(Nat)
    BY <2>1, ReceiveLoopAssumption
  <2> QED BY <1>1, <2>1, <2>2 DEF Typed
<1>3. Before = 0 /\ Len(admitted) = 0
  BY <1>1 DEF Init, Before, Quota
<1>4. WindowCounted /\ QuotasApart
  BY <1>2, <1>3 DEF WindowCounted, QuotasApart, Init, Typed
<1>5. WaitsCounted /\ Dispatched
  BY <1>2 DEF WaitsCounted, Dispatched, Init, Typed
<1> QED BY <1>2, <1>4, <1>5 DEF LoopInv

\* Steps at which the limiter is not asked; time may pass.
LEMMA LimiterLeftAlone ==
    ASSUME LoopInv, Typed', UNCHANGED << limits, windowStart, count, admitted >>, now <= now'
    PROVE  (WindowCounted /\ QuotasApart)'
<1>1. Before' = Before /\ Quota' = Quota
  BY DEF Before, Quota
<1>2. WindowCounted /\ QuotasApart /\ Typed
  BY DEF LoopInv
<1>3. WindowCounted'
  <2>1. \A n \in 1 .. Len(admitted) : admitted[n] \in Nat
    BY <1>2 DEF Typed
  <2> QED BY <1>1, <1>2, <2>1 DEF WindowCounted, Typed
<1>4. QuotasApart'
  BY <1>1, <1>2 DEF QuotasApart
<1> QED BY <1>3, <1>4

\* A refused frame is counted and not admitted; no window opens for it.
LEMMA RefusalInFullWindow ==
    ASSUME LoopInv, Allow(FALSE)
    PROVE  /\ windowStart' = windowStart /\ count' = count + 1
           /\ count >= limits.messages
           /\ now < windowStart + limits.window
<1>1. Typed
  BY DEF LoopInv
<1>2. /\ ~(NewWindow.count + 1 <= limits.messages)
      /\ windowStart' = NewWindow.start
      /\ count' = NewWindow.count + 1
  BY DEF Allow
<1>3. CASE now - windowStart >= limits.window
  <2>1. NewWindow.count = 0
    BY <1>3 DEF NewWindow
  <2> QED BY <1>1, <1>2, <2>1 DEF Typed
<1>4. CASE ~(now - windowStart >= limits.window)
  <2>1. NewWindow.count = count /\ NewWindow.start = windowStart
    BY <1>4 DEF NewWindow
  <2> QED BY <1>1, <1>2, <1>4, <2>1 DEF Typed
<1> QED BY <1>3, <1>4

LEMMA RefusalKeepsCount ==
    ASSUME LoopInv, Typed', Allow(FALSE), UNCHANGED << limits, now, admitted >>
    PROVE  (WindowCounted /\ QuotasApart)'
<1>1. /\ windowStart' = windowStart /\ count' = count + 1 /\ count >= limits.messages
  BY RefusalInFullWindow
<1>2. WindowCounted /\ QuotasApart /\ Typed
  BY DEF LoopInv
<1>3. Quota' = Quota /\ Before' = Before
  BY <1>1, <1>2 DEF Quota, Before, Typed
<1>4. WindowCounted'
  BY <1>1, <1>2, <1>3 DEF WindowCounted
<1>5. QuotasApart'
  BY <1>1, <1>2, <1>3 DEF QuotasApart
<1> QED BY <1>4, <1>5

\* An admitted frame: it opens a window when the last one is over, and finds
\* room in the open one otherwise.
LEMMA AdmissionCounts ==
    ASSUME LoopInv, Typed', Allow(TRUE), UNCHANGED << limits, now >>,
           admitted' = Append(admitted, now)
    PROVE  (WindowCounted /\ QuotasApart)'
<1> DEFINE L == Len(admitted)
           M == limits.messages
           W == limits.window
           S == windowStart'
           B == Before'
<1>1. /\ WindowCounted /\ QuotasApart /\ Typed
      /\ limits.messages \in Nat \ {0} /\ limits.window \in Nat \ {0}
      /\ now \in Nat /\ windowStart \in Nat /\ count \in Nat
      /\ admitted \in Seq(Nat) /\ L \in Nat
  BY DEF LoopInv, Typed
<1>2. /\ L + 1 = Len(admitted') /\ admitted'[L + 1] = now
      /\ \A n \in 1 .. L : admitted'[n] = admitted[n] /\ admitted[n] \in Nat
  BY <1>1
<1>3. /\ NewWindow.count + 1 <= M
      /\ windowStart' = NewWindow.start
      /\ count' = NewWindow.count + 1
  BY DEF Allow
\* What both cases come to: where the open window begins in the history.
<1>4. /\ B \in Nat /\ B <= L /\ S <= now /\ now < S + W /\ S \in Nat
      /\ L < B + M
      /\ \A n \in 1 .. L : n <= B => admitted[n] <= S
      /\ \A n \in 1 .. L : n > B => S <= admitted[n] /\ admitted[n] < S + W
      /\ \A n \in 1 .. L : n + M <= B => admitted[n] + W <= S
  <2>1. CASE now - windowStart >= W
    <3>1. NewWindow.start = now /\ NewWindow.count = 0
      BY <2>1 DEF NewWindow
    <3>2. S = now /\ count' = 1 /\ B = L
      BY <1>1, <1>2, <1>3, <3>1 DEF Before, Quota
    <3>3. \A n \in 1 .. L : admitted[n] <= now
      BY <1>1 DEF WindowCounted
    <3>4. ASSUME NEW n \in 1 .. L, n + M <= L PROVE admitted[n] + W <= now
      <4>1. n <= Before
        BY <1>1, <3>4 DEF Before, Quota
      <4>2. admitted[n] <= windowStart
        BY <1>1, <4>1 DEF WindowCounted
      <4> QED BY <1>1, <1>2, <2>1, <4>2
    <3> QED BY <1>1, <3>2, <3>3, <3>4
  <2>2. CASE ~(now - windowStart >= W)
    <3>1. NewWindow.start = windowStart /\ NewWindow.count = count
      BY <2>2 DEF NewWindow
    <3>2. S = windowStart /\ count' = count + 1 /\ count < M
      BY <1>1, <1>3, <3>1
    <3>3. B = Before /\ Before = L - count
      <4>1. Quota = count /\ Quota' = count + 1
        BY <1>1, <1>3, <3>1, <3>2 DEF Quota
      <4>2. Before' = (L + 1) - (count + 1) /\ Before = L - count
        BY <1>2, <4>1 DEF Before
      <4> QED BY <1>1, <4>2
    <3> QED BY <1>1, <2>2, <3>2, <3>3 DEF WindowCounted, QuotasApart
  <2> QED BY <2>1, <2>2
<1> HIDE DEF L, S, B
<1>5. /\ \A n \in 1 .. L : admitted[n] <= now
      /\ \A m, n \in 1 .. L : m <= n => admitted[m] <= admitted[n]
      /\ \A m, n \in 1 .. L : m + 2 * M <= n => admitted[m] + W <= admitted[n]
  BY <1>1 DEF WindowCounted, QuotasApart, L
<1>6. ASSUME NEW n \in 1 .. L + 1
      PROVE  /\ admitted'[n] <= now
             /\ n <= B => admitted'[n] <= S
             /\ n > B => S <= admitted'[n] /\ admitted'[n] < S + W
             /\ n + M <= B => admitted'[n] + W <= S
  <2>1. CASE n = L + 1
    BY <1>1, <1>2, <1>4, <2>1
  <2>2. CASE n # L + 1
    <3>1. n \in 1 .. L /\ admitted'[n] = admitted[n]
      BY <1>1, <1>2, <1>6, <2>2
    <3> QED BY <1>4, <1>5, <3>1
  <2> QED BY <2>1, <2>2
<1>7. ASSUME NEW m \in 1 .. L + 1, NEW n \in 1 .. L + 1
      PROVE  /\ m <= n => admitted'[m] <= admitted'[n]
             /\ m + 2 * M <= n => admitted'[m] + W <= admitted'[n]
  <2>1. CASE n = L + 1
    <3>1. admitted'[n] = now /\ admitted'[m] <= now
      BY <1>2, <1>6, <2>1
    <3>2. ASSUME m + 2 * M <= n PROVE admitted'[m] + W <= now
      <4>1. m \in 1 .. L /\ m + M <= B
        BY <1>1, <1>4, <2>1, <3>2
      <4>2. admitted[m] + W <= S /\ admitted'[m] = admitted[m] /\ admitted[m] \in Nat
        BY <1>2, <1>4, <4>1
      <4> QED BY <1>1, <1>4, <4>2
    <3> QED BY <3>1, <3>2
  <2>2. CASE n # L + 1
    <3>1. n \in 1 .. L /\ admitted'[n] = admitted[n]
      BY <1>1, <1>2, <1>7, <2>2
    <3>2. m <= n => m \in 1 .. L /\ admitted'[m] = admitted[m]
      BY <1>1, <1>2, <3>1
    <3>3. m + 2 * M <= n => m <= n
      BY <1>1
    <3> QED BY <1>5, <3>1, <3>2, <3>3
  <2> QED BY <2>1, <2>2
<1>8. WindowCounted'
  BY <1>2, <1>4, <1>6, <1>7 DEF WindowCounted, S, B
<1>9. QuotasApart'
  BY <1>2, <1>4, <1>6, <1>7 DEF QuotasApart, S, B
<1> QED BY <1>8, <1>9

-----------------------------------------------------------------------------
(* The steps of the loop.                                                  *)

\* Steps of the handler that are not frames.
LEMMA NoFrameKeeps ==
    ASSUME LoopInv, Tick \/ Resolved \/ Expire
    PROVE  LoopInv'
<1>1. Typed /\ WaitsCounted /\ Dispatched
  BY DEF LoopInv
<1>2. CASE Tick
  <2>1. Typed'
    BY <1>1, <1>2 DEF Tick, Typed
  <2>2. (WindowCounted /\ QuotasApart)'
    BY <1>1, <1>2, <2>1, LimiterLeftAlone DEF Tick, Typed
  <2>3. WaitsCounted' /\ Dispatched'
    BY <1>1, <1>2 DEF Tick, Typed, WaitsCounted, Dispatched
  <2> QED BY <2>1, <2>2, <2>3 DEF LoopInv
<1>3. CASE Resolved
  <2>1. Typed'
    BY <1>1, <1>3 DEF Resolved, Typed
  <2>2. (WindowCounted /\ QuotasApart)'
    BY <1>1, <1>3, <2>1, LimiterLeftAlone DEF Resolved, Typed
  <2>3. WaitsCounted' /\ Dispatched'
    BY <1>1, <1>3 DEF Resolved, Typed, WaitsCounted, Dispatched
  <2> QED BY <2>1, <2>2, <2>3 DEF LoopInv
<1>4. CASE Expire
  <2>1. Typed'
    BY <1>1, <1>4 DEF Expire, Typed
  <2>2. (WindowCounted /\ QuotasApart)'
    BY <1>1, <1>4, <2>1, LimiterLeftAlone DEF Expire, Typed
  <2>3. WaitsCounted'
    <3>1. Timeout' = Timeout
      BY <1>4 DEF Expire, Timeout
    <3> QED BY <1>1, <1>4, <3>1 DEF Expire, WaitsCounted
  <2>4. Dispatched'
    BY <1>1, <1>4 DEF Expire, Dispatched
  <2> QED BY <2>1, <2>2, <2>3, <2>4 DEF LoopInv
<1> QED BY <1>2, <1>3, <1>4

\* A frame ends the wait and begins the next: the peer has just been heard.
LEMMA FrameRestartsWait ==
    ASSUME Typed, NEW next \in {"receiving", "resolving"}, NextWait(next)
    PROVE  WaitsCounted' /\ state' = next /\ UNCHANGED << limits, now, authenticated >>
BY DEF NextWait, WaitsCounted, Typed

LEMMA FrameKeeps ==
    ASSUME LoopInv, NEW f \in Frames,
           ReceiveOversized(f) \/ ReceiveLimited(f) \/ ReceiveAdmitted(f)
    PROVE  LoopInv'
<1>1. Typed /\ Dispatched
  BY DEF LoopInv
<1>2. CASE ReceiveOversized(f)
  <2>1. /\ NextWait("receiving") /\ outcome' = "MESSAGE_TOO_LARGE"
        /\ UNCHANGED << windowStart, count, admitted >>
    BY <1>2 DEF ReceiveOversized
  <2>2. WaitsCounted' /\ state' = "receiving" /\ UNCHANGED << limits, now, authenticated >>
    BY <1>1, <2>1, FrameRestartsWait
  <2>3. Typed'
    BY <1>1, <2>1, <2>2 DEF Typed, NextWait
  <2>4. (WindowCounted /\ QuotasApart)'
    BY <1>1, <2>1, <2>2, <2>3, LimiterLeftAlone DEF Typed
  <2>5. Dispatched'
    BY <2>1, <2>2 DEF Dispatched
  <2> QED BY <2>2, <2>3, <2>4, <2>5 DEF LoopInv
<1>3. CASE ReceiveLimited(f)
  <2>1. /\ NextWait("receiving") /\ outcome' = "RATE_LIMITED" /\ Allow(FALSE)
        /\ UNCHANGED admitted
    BY <1>3 DEF ReceiveLimited
  <2>2. WaitsCounted' /\ state' = "receiving" /\ UNCHANGED << limits, now, authenticated >>
    BY <1>1, <2>1, FrameRestartsWait
  <2>3. Typed'
    BY <1>1, <2>1, <2>2, RefusalInFullWindow DEF Typed, NextWait
  <2>4. (WindowCounted /\ QuotasApart)'
    BY <2>1, <2>2, <2>3, RefusalKeepsCount
  <2>5. Dispatched'
    BY <2>1, <2>2 DEF Dispatched
  <2> QED BY <2>2, <2>3, <2>4, <2>5 DEF LoopInv
<1>4. CASE ReceiveAdmitted(f)
  <2>1. /\ f.shape # "oversized" /\ Allow(TRUE)
        /\ outcome' = Dispatch(authenticated, f)
        /\ admitted' = Append(admitted, now)
        /\ \/ NextWait("receiving")
           \/ outcome' = "authenticate" /\ NextWait("resolving")
    BY <1>4 DEF ReceiveAdmitted
  <2>2. /\ WaitsCounted' /\ UNCHANGED << limits, now, authenticated >>
        /\ state' \in {"receiving", "resolving"}
        /\ state' = "resolving" => outcome' = "authenticate"
    BY <1>1, <2>1, FrameRestartsWait
  <2>3. Typed'
    <3>1. NewWindow.start \in Nat /\ NewWindow.count \in Nat
      BY <1>1 DEF NewWindow, Typed
    <3>2. windowStart' \in Nat /\ count' \in Nat
      BY <2>1, <3>1 DEF Allow
    <3>3. admitted' \in Seq(Nat)
      BY <1>1, <2>1 DEF Typed
    <3>4. waitFrom' \in Nat /\ heard' \in Nat
      BY <1>1, <2>1 DEF NextWait, Typed
    <3> QED BY <1>1, <2>2, <3>2, <3>3, <3>4 DEF Typed
  <2>4. (WindowCounted /\ QuotasApart)'
    BY <2>1, <2>2, <2>3, AdmissionCounts
  <2>5. Dispatched'
    <3>1. /\ outcome' # "INTERNAL_PROTOCOL_ERROR"
          /\ outcome' = "privileged" => authenticated
      BY <1>1, <2>1, DispatchOutcomes DEF Typed
    <3> QED BY <2>2, <3>1 DEF Dispatched
  <2> QED BY <2>2, <2>3, <2>4, <2>5 DEF LoopInv
<1> QED BY <1>2, <1>3, <1>4

LEMMA NextLoop == LoopInv /\ [Next]_rvars => LoopInv'
<1> SUFFICES ASSUME LoopInv, [Next]_rvars PROVE LoopInv'
  OBVIOUS
<1>1. CASE Tick \/ Resolved \/ Expire
  BY <1>1, NoFrameKeeps
<1>2. ASSUME NEW f \in Frames,
             ReceiveOversized(f) \/ ReceiveLimited(f) \/ ReceiveAdmitted(f)
      PROVE  LoopInv'
  BY <1>2, FrameKeeps
<1>3. CASE UNCHANGED rvars
  <2>1. /\ UNCHANGED << limits, now, state, authenticated, waitFrom, windowStart, count >>
        /\ UNCHANGED << outcome, admitted, heard >>
    BY <1>3 DEF rvars
  <2>2. Typed /\ Typed'
    BY <2>1 DEF LoopInv, Typed
  <2>3. (WindowCounted /\ QuotasApart)'
    BY <2>1, <2>2, LimiterLeftAlone DEF Typed
  <2>4. WaitsCounted' /\ Dispatched'
    BY <2>1 DEF LoopInv, WaitsCounted, Dispatched, Timeout
  <2> QED BY <2>2, <2>3, <2>4 DEF LoopInv
<1> QED BY <1>1, <1>2, <1>3 DEF Next

LEMMA LoopInvariant == Spec => []LoopInv
BY InitLoop, NextLoop, PTL DEF Spec

-----------------------------------------------------------------------------
\* Frames that come two quotas apart are a window's length apart, so that a
\* stretch of that length sees two quotas at most.
THEOREM SlidingTheorem == Spec => []SlidingBound
<1>1. LoopInv => SlidingBound
  <2> SUFFICES ASSUME LoopInv, NEW t \in 0 .. now
               PROVE  AdmittedUpTo(t) <= 2 * limits.messages
    BY DEF SlidingBound
  <2> DEFINE L == Len(admitted)
             W == limits.window
             M == limits.messages
             stretch == {n \in 1 .. L : admitted[n] <= t /\ admitted[n] + W > t}
  <2>1. /\ admitted \in Seq(Nat) /\ L \in Nat /\ M \in Nat \ {0} /\ W \in Nat
        /\ t \in Nat
        /\ \A n \in 1 .. L : admitted[n] \in Nat
    BY DEF LoopInv, Typed
  <2>2. /\ \A m, n \in 1 .. L : m <= n => admitted[m] <= admitted[n]
        /\ \A m, n \in 1 .. L : m + 2 * M <= n => admitted[m] + W <= admitted[n]
    BY DEF LoopInv, WindowCounted, QuotasApart
  <2>3. AdmittedUpTo(t) = Cardinality(stretch)
    BY DEF AdmittedUpTo
  <2>4. CASE stretch = {}
    <3> HIDE DEF stretch
    <3>1. AdmittedUpTo(t) = 0
      BY <2>3, <2>4, FS_EmptySet
    <3> QED BY <2>1, <3>1
  <2>5. CASE stretch # {}
    <3>1. stretch \subseteq Nat
      OBVIOUS
    <3>2. PICK n \in stretch : \A m \in stretch : n <= m
      BY <2>5, <3>1, LeastNumber, Zenon
    <3>3. n \in 1 .. L /\ admitted[n] + W > t
      OBVIOUS
    <3>4. ASSUME NEW m \in stretch PROVE m \in n .. n + 2 * M - 1
      <4>1. m \in 1 .. L /\ admitted[m] <= t /\ n <= m
        BY <3>2
      <4>2. ~(n + 2 * M <= m)
        BY <2>1, <2>2, <3>3, <4>1
      <4> QED BY <2>1, <3>3, <4>1, <4>2
    <3>5. /\ IsFiniteSet(n .. n + 2 * M - 1)
          /\ Cardinality(n .. n + 2 * M - 1) = 2 * M
      <4>1. n \in Int /\ n + 2 * M - 1 \in Int /\ ~(n > n + 2 * M - 1)
        BY <2>1, <3>3
      <4>2. /\ IsFiniteSet(n .. n + 2 * M - 1)
            /\ Cardinality(n .. n + 2 * M - 1) =
                 IF n > n + 2 * M - 1 THEN 0 ELSE (n + 2 * M - 1) - n + 1
        BY <4>1, FS_Interval
      <4> QED BY <2>1, <3>3, <4>1, <4>2
    <3> HIDE DEF stretch
    <3>6. stretch \subseteq n .. n + 2 * M - 1
      BY <3>4
    <3>7. Cardinality(stretch) <= Cardinality(n .. n + 2 * M - 1)
      BY <3>5, <3>6, FS_Subset
    <3> QED BY <2>3, <3>5, <3>7
  <2> QED BY <2>4, <2>5
<1> QED BY <1>1, LoopInvariant, PTL

\* The limiter refuses a frame only with a full quota of the open window
\* behind it, and that window began less than its length ago.
LEMMA RefusedOverQuota ==
    ASSUME LoopInv, Allow(FALSE)
    PROVE  AdmittedUpTo(now) >= limits.messages
<1> DEFINE L == Len(admitted)
           W == limits.window
           M == limits.messages
           recent == {n \in 1 .. L : admitted[n] <= now /\ admitted[n] + W > now}
<1>1. /\ admitted \in Seq(Nat) /\ L \in Nat /\ M \in Nat \ {0} /\ W \in Nat
      /\ now \in Nat /\ windowStart \in Nat /\ count \in Nat
      /\ \A n \in 1 .. L : admitted[n] \in Nat
  BY DEF LoopInv, Typed
<1>2. count >= M /\ now < windowStart + W
  BY RefusalInFullWindow
<1>3. Before = L - M /\ Before \in Nat
  <2>1. Quota = M
    BY <1>1, <1>2 DEF Quota
  <2> QED BY <1>1, <2>1 DEF Before, LoopInv, WindowCounted
<1>4. \A n \in 1 .. L : admitted[n] <= now /\ (n > Before => windowStart <= admitted[n])
  BY DEF LoopInv, WindowCounted
<1>5. L - M + 1 .. L \subseteq recent
  <2> SUFFICES ASSUME NEW n \in L - M + 1 .. L
               PROVE  n \in 1 .. L /\ admitted[n] <= now /\ admitted[n] + W > now
    OBVIOUS
  <2>1. n \in 1 .. L /\ n > Before
    BY <1>1, <1>3
  <2> QED BY <1>1, <1>2, <1>4, <2>1
<1>6. Cardinality(L - M + 1 .. L) = M
  <2>1. L - M + 1 \in Int /\ L \in Int /\ ~(L - M + 1 > L)
    BY <1>1
  <2>2. Cardinality(L - M + 1 .. L) = IF L - M + 1 > L THEN 0 ELSE L - (L - M + 1) + 1
    BY <2>1, FS_Interval
  <2> QED BY <1>1, <2>1, <2>2
<1>7. IsFiniteSet(recent)
  <2>1. recent \subseteq 1 .. L
    OBVIOUS
  <2>2. 1 \in Int /\ L \in Int
    BY <1>1
  <2>3. IsFiniteSet(1 .. L)
    BY <2>2, FS_Interval
  <2> HIDE DEF recent
  <2> QED BY <2>1, <2>3, FS_Subset
<1>8. AdmittedUpTo(now) = Cardinality(recent)
  BY DEF AdmittedUpTo
<1> HIDE DEF recent
<1>9. Cardinality(L - M + 1 .. L) <= Cardinality(recent)
  BY <1>5, <1>7, FS_Subset
<1>10. Cardinality(recent) \in Nat
  BY <1>7, FS_CardinalityType
<1> QED BY <1>1, <1>6, <1>8, <1>9, <1>10

\* No client that keeps to the rate is refused.
THEOREM RefusalTheorem == Spec => RefusalIsDeserved
<1>1. LoopInv /\ [Next]_rvars =>
        [outcome' = "RATE_LIMITED" /\ count' # count =>
           /\ AdmittedUpTo(now) >= limits.messages
           /\ AdmittedUpTo(now) > 0]_rvars
  <2> SUFFICES ASSUME LoopInv, Next, outcome' = "RATE_LIMITED", count' # count
               PROVE  AdmittedUpTo(now) >= limits.messages /\ AdmittedUpTo(now) > 0
    BY DEF rvars
  <2>1. PICK f \in Frames : ReceiveLimited(f)
    <3>1. ~(Tick \/ Resolved \/ Expire)
      BY DEF Tick, Resolved, Expire
    <3>2. PICK f \in Frames : ReceiveOversized(f) \/ ReceiveLimited(f) \/ ReceiveAdmitted(f)
      BY <3>1 DEF Next
    <3>3. ~ReceiveOversized(f)
      BY DEF ReceiveOversized
    <3>4. ~ReceiveAdmitted(f)
      BY DispatchOutcomes DEF ReceiveAdmitted, LoopInv, Typed
    <3> QED BY <3>2, <3>3, <3>4
  <2>2. AdmittedUpTo(now) >= limits.messages
    BY <2>1, RefusedOverQuota DEF ReceiveLimited
  <2>3. AdmittedUpTo(now) \in Int
    <3>1. IsFiniteSet({n \in 1 .. Len(admitted) :
                         admitted[n] <= now /\ admitted[n] + limits.window > now})
      <4>1. Len(admitted) \in Int /\ 1 \in Int
        BY DEF LoopInv, Typed
      <4>2. IsFiniteSet(1 .. Len(admitted))
        BY <4>1, FS_Interval
      <4> QED BY <4>2, FS_Subset
    <3> QED BY <3>1, FS_CardinalityType DEF AdmittedUpTo
  <2> QED BY <2>2, <2>3 DEF LoopInv, Typed
<1> QED BY <1>1, LoopInvariant, PTL DEF Spec, RefusalIsDeserved

\* A connection is closed for silence only after the timeout that applies.
THEOREM SilenceTheorem == Spec => []SilenceIsDeserved
<1>1. LoopInv => SilenceIsDeserved
  BY DEF LoopInv, Typed, WaitsCounted, Timeout, SilenceIsDeserved
<1> QED BY <1>1, LoopInvariant, PTL

\* Nobody reaches a privileged handler who has not authenticated, and every
\* frame that passes the cascade has a handler.
THEOREM DispatchTheorem == Spec => []DispatchIsSound
<1>1. LoopInv => DispatchIsSound
  BY DEF LoopInv, Dispatched, DispatchIsSound
<1> QED BY <1>1, LoopInvariant, PTL

\* The authorization gate answers before the schema is looked at.
THEOREM GateTheorem == Spec => GateHidesSchema
<1>1. ASSUME NEW f \in Frames, f.type \in Privileged
      PROVE  Dispatch(FALSE, f) = Dispatch(FALSE, [f EXCEPT !.schema = ~@])
  <2> DEFINE g == [f EXCEPT !.schema = ~@]
  <2>1. /\ f.shape = "object" /\ f.version \in BOOLEAN
        /\ f.type \in ClientSendable /\ f.type \notin UnauthenticatedSendable
    BY <1>1 DEF Frames, Privileged, ClientSendable, UnauthenticatedSendable
  <2>2. g.shape = f.shape /\ g.version = f.version /\ g.type = f.type
    BY DEF Frames
  <2>3. CASE ~f.version
    <3>1. /\ Validate(FALSE, f) = "UNSUPPORTED_PROTOCOL_VERSION"
          /\ Validate(FALSE, g) = "UNSUPPORTED_PROTOCOL_VERSION"
      BY <2>1, <2>2, <2>3 DEF Validate
    <3> QED BY <3>1 DEF Dispatch
  <2>4. CASE f.version
    <3>1. /\ Validate(FALSE, f) = "AUTH_REQUIRED"
          /\ Validate(FALSE, g) = "AUTH_REQUIRED"
      BY <2>1, <2>2, <2>4 DEF Validate
    <3> QED BY <3>1 DEF Dispatch
  <2> QED BY <2>1, <2>3, <2>4
<1>2. LoopInv /\ [Next]_rvars =>
        [~authenticated =>
           \A f \in {g \in Frames : g.type \in Privileged} :
             ReceiveAdmitted(f) =>
               outcome' = Dispatch(authenticated, [f EXCEPT !.schema = ~@])]_rvars
  <2> SUFFICES ASSUME LoopInv, ~authenticated, NEW f \in Frames, f.type \in Privileged,
                      ReceiveAdmitted(f)
               PROVE  outcome' = Dispatch(authenticated, [f EXCEPT !.schema = ~@])
    OBVIOUS
  <2>1. authenticated = FALSE
    BY DEF LoopInv, Typed
  <2>2. outcome' = Dispatch(FALSE, f)
    BY <2>1 DEF ReceiveAdmitted
  <2> QED BY <1>1, <2>1, <2>2
<1> QED BY <1>2, LoopInvariant, PTL DEF Spec, GateHidesSchema

=============================================================================
