------------------------------ MODULE Settings ------------------------------
(***************************************************************************)
(* What a limit becomes that is read from the environment: _int_env and    *)
(* _float_env of websocket/limits.py and _int_env of auth/config.py.  Time *)
(* is counted in ticks, and Infinite is a number of them that never passes. *)
(***************************************************************************)
EXTENDS Integers

CONSTANTS
    Numbers,   \* the numbers somebody may write into a setting
    Infinite   \* what "inf" is read as

ASSUME SettingsAssumption ==
    /\ Numbers \subseteq Int
    /\ Infinite \in Nat \ {0}

\* A setting as found: unset, blank, no number ("nan" included, which is not
\* above zero), "inf", a whole number, or a decimal fraction that comes to so
\* many ticks.
Raw == [form: {"unset", "blank", "text", "infinite"}, value: {0}]
         \cup [form: {"whole", "fraction"}, value: Numbers]

\* A reading that takes whatever int() accepts.
IntEnvUnchecked(raw, default, minimum) ==
    IF raw.form = "whole" THEN raw.value ELSE default

\* int() refuses fractions and "inf".
IntEnv(raw, default, minimum) ==
    IF raw.form = "whole" /\ raw.value >= minimum THEN raw.value ELSE default

FloatEnv(raw, default) ==
    CASE raw.form = "infinite" -> Infinite
      [] raw.form \in {"whole", "fraction"} /\ raw.value > 0 -> raw.value
      [] OTHER -> default

=============================================================================
