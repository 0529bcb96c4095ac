--------------------------- MODULE SettingsProofs ---------------------------
(* Theorems about Settings, for every environment, and the least-number    *)
(* principle, which the proofs about clocks use on positions in a history.  *)
EXTENDS Settings, WellFoundedInduction, TLAPS

\* No environment gives a limit below its minimum: a count read by _int_env is
\* at least the minimum (1 unless auth/config.py asks for more), and a duration
\* read by _float_env is positive, when the built-in defaults are.  The other
\* modules assume this of their limits.
THEOREM LimitsPositive ==
    ASSUME NEW raw \in Raw,
           NEW minimum \in Nat \ {0},
           NEW default \in Nat, default >= minimum
    PROVE  /\ IntEnv(raw, default, minimum) \in Nat
           /\ IntEnv(raw, default, minimum) >= minimum
           /\ FloatEnv(raw, default) \in Nat \ {0}
<1>1. raw.value \in Int
  <2>1. \/ raw \in [form: {"unset", "blank", "text", "infinite"}, value: {0}]
        \/ raw \in [form: {"whole", "fraction"}, value: Numbers]
    BY DEF Raw
  <2>2. raw.value \in {0} \cup Numbers
    BY <2>1
  <2>3. {0} \cup Numbers \subseteq Int
    BY SettingsAssumption
  <2> QED BY <2>2, <2>3, Zenon
<1>2. IntEnv(raw, default, minimum) \in Nat /\ IntEnv(raw, default, minimum) >= minimum
  BY <1>1 DEF IntEnv
<1>3. FloatEnv(raw, default) \in Nat \ {0}
  <2>1. CASE raw.form = "infinite"
    BY <2>1, SettingsAssumption DEF FloatEnv
  <2>2. CASE raw.form # "infinite"
    BY <1>1, <2>2 DEF FloatEnv
  <2> QED BY <2>1, <2>2
<1> QED BY <1>2, <1>3

-----------------------------------------------------------------------------
\* A set of numbers that is not empty has a least one.
LEMMA LeastNumber ==
    ASSUME NEW S, S \subseteq Nat, S # {}
    PROVE  \E n \in S : \A m \in S : n <= m
<1> DEFINE R == OpToRel(<, Nat)
<1>1. \A m, n \in Nat : m < n => << m, n >> \in R
  <2> TAKE m, n \in Nat
  <2> HAVE m < n
  <2>1. << m, n >> \in Nat \X Nat
    OBVIOUS
  <2>2. << m, n >>[1] < << m, n >>[2]
    OBVIOUS
  <2> QED BY <2>1, <2>2, Zenon DEF OpToRel
<1>2. IsWellFoundedOn(R, Nat)
  BY NatLessThanWellFounded
<1> HIDE DEF R
<1>3. PICK n \in S : \A m \in S : ~ (<< m, n >> \in R)
  BY <1>2, WFMin, Zenon
<1>4. \A m \in S : ~ (m < n)
  BY <1>1, <1>3
<1>5. \A m \in S : n <= m
  BY <1>4
<1> QED BY <1>5

=============================================================================
