----------------------------- MODULE MetricNames ----------------------------
(***************************************************************************)
(* Names and values of the device metrics (src/metric.go:88-194).  A       *)
(* parameter name is a sequence of runes; a few runes stand for each class *)
(* that the conversion tells apart.                                        *)
(***************************************************************************)
EXTENDS Integers, Sequences, SequencesExt

\* unicode.ToLower of the uppercase letters: one of them is not ASCII.
LowerOf == [A |-> "a", B |-> "b", S |-> "s", EAcute |-> "eacute"]

\* The runes of a metric name; "." and "-" and "eacute" are some of the others.
Digit == <<"0", "1", "2", "3", "4", "5", "6", "7", "8", "9">>
Digits == {Digit[i] : i \in 1 .. 10}
LetterOrDigit == {"a", "b", "m", "n", "o", "p", "s", "x", "A", "B", "S"} \cup Digits
IsMetricNameRune(r) == r \in LetterOrDigit \cup {"_", ":"}

IsUpper(r) == r \in DOMAIN LowerOf
ToLower(r) == IF IsUpper(r) THEN LowerOf[r] ELSE r

\* A dot becomes an underscore, and so does any rune that no name may have.
ToNameRune(r) == IF IsMetricNameRune(ToLower(r)) THEN ToLower(r) ELSE "_"

\* Mutant: a capital only gets an underscore after a lowercase letter.
ConvertedHumpsOnly(s, i) ==
    IF IsUpper(s[i]) /\ i > 1 /\ ~IsUpper(s[i - 1]) /\ ToNameRune(s[i - 1]) # "_"
    THEN <<"_", ToNameRune(s[i])>> ELSE <<ToNameRune(s[i])>>

\* What an iteration writes: a capital begins a word, unless the last rune
\* written is an underscore already.
Converted(s, i) ==
    IF IsUpper(s[i]) /\ i > 1 /\ ToNameRune(s[i - 1]) # "_"
    THEN <<"_", ToNameRune(s[i])>> ELSE <<ToNameRune(s[i])>>

\* ecoflowParamToPrometheusMetric of a name that is not empty.  The prefix and
\* the underscore that generateMetricName puts in front are left out.
MetricName(s) ==
    LET written[i \in 0 .. Len(s)] ==
            IF i = 0 THEN <<>> ELSE written[i - 1] \o Converted(s, i)
    IN  written[Len(s)]

\* Parameters with an empty name have no metric.
HasMetricName(s) == s # <<>>

-----------------------------------------------------------------------------
(* Values: what json.Unmarshal or the protobuf decoder can have put there. *)

Number(n) == [kind |-> "number", v |-> n]
Bool(b)   == [kind |-> "bool", v |-> IF b THEN 1 ELSE 0]
Other     == [kind |-> "other", v |-> 0]   \* a string, an array, an object, nil

IsName(p) == p \in Seq(Range(p))

\* Parameters with their values, by name.
IsParams(ps) ==
    /\ ps = [p \in DOMAIN ps |-> ps[p]]
    /\ \A p \in DOMAIN ps : IsName(p) /\ ps[p].kind \in {"number", "bool", "other"}

\* toFloat: v is the float, if there is one.
Numeric(value) == value.kind \in {"number", "bool"}

=============================================================================
