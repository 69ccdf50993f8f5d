--------------------------- MODULE RunnerFunctions --------------------------
(***************************************************************************)
(* The built-in functions of runner/runner.c, fn_wordcount and fn_sum, on  *)
(* payloads of characters, against what the comments above them promise.   *)
(* The payload grows by one character at a time, so that every payload up  *)
(* to the bound is a state.                                                *)
(***************************************************************************)
EXTENDS Integers, Sequences, SequencesExt, FiniteSetsExt

CONSTANTS Alphabet,   \* characters of a payload
          MaxLen,     \* bound: length of a payload
          LLMax       \* LLONG_MAX; LLONG_MIN is -LLMax - 1

Numerals == <<"0", "1", "2", "3", "4", "5", "6", "7", "8", "9">>
Spaces == {" ", "\t", "\n", "\r", "\f"}   \* and \v, for isspace and strtoll
Signs == {"+", "-"}

ASSUME RunnerFunctionsConstants ==
    /\ MaxLen \in Nat
    /\ LLMax \in Nat \ {0}

VARIABLE payload

Init == payload = << >>

Grow ==
    /\ Len(payload) < MaxLen
    /\ \E ch \in Alphabet : payload' = Append(payload, ch)

Spec == Init /\ [][Grow]_payload

-----------------------------------------------------------------------------
(***************************************************************************)
(* Definitions named Bug_... are deliberate mistakes that no specification *)
(* uses; each could replace the definition after it.                       *)
(***************************************************************************)
IsSpace(ch) == ch \in Spaces
IsDigit(ch) == Contains(Numerals, ch)
DigitValue(ch) == SelectInSeq(Numerals, LAMBDA d : d = ch) - 1

(* The body of fn_wordcount's loop: in_word and words.                     *)
WordStep(st, ch) ==
    IF IsSpace(ch) THEN [st EXCEPT !.in = FALSE]
    ELSE [in |-> TRUE, words |-> IF st.in THEN st.words ELSE st.words + 1]

FnWordcount(s) == FoldLeft(WordStep, [in |-> FALSE, words |-> 0], s).words

(* strtoll(s + p - 1, &end, 10): white space, a sign, digits; the value is *)
(* clamped, and end = p when there is no digit.                            *)
Clamp(v) == IF v > LLMax THEN LLMax ELSE IF v < -LLMax - 1 THEN -LLMax - 1 ELSE v

FirstFrom(s, p, Test(_)) ==   \* the first position from p on that passes
    Min({k \in p..Len(s) : Test(s[k])} \cup {Len(s) + 1})

SkipSpace(s, p) == FirstFrom(s, p, LAMBDA ch : ~IsSpace(ch))

StrToLL(s, p) ==
    LET first == SkipSpace(s, p)
        signed == first <= Len(s) /\ s[first] \in Signs
        d == IF signed THEN first + 1 ELSE first
        end == FirstFrom(s, d, LAMBDA ch : ~IsDigit(ch))
        digits == SubSeq(s, d, end - 1)
        mag == FoldLeft(LAMBDA acc, ch : 10 * acc + DigitValue(ch), 0, digits)
    IN  IF end = d THEN [value |-> 0, end |-> p]
        ELSE [value |-> Clamp(IF signed /\ s[first] = "-" THEN -mag ELSE mag),
              end |-> end]

Bug_Numbers(s) ==   \* "total = v" for "total += v"
    LET from[p \in 1..Len(s) + 1] ==
            LET q == SkipSpace(s, p)
                v == StrToLL(s, q)
                rest == from[v.end]
            IN  IF q > Len(s) THEN [ok |-> TRUE, values |-> << >>]
                ELSE IF v.end = q THEN [ok |-> FALSE, values |-> << >>]
                ELSE IF rest.values = << >> THEN [rest EXCEPT !.values = <<v.value>>]
                ELSE rest
    IN  from[1]

(* The loop of fn_sum: from position p on, the numbers it finds and        *)
(* whether it reaches the end of the payload.                              *)
Numbers(s) ==
    LET from[p \in 1..Len(s) + 1] ==
            LET q == SkipSpace(s, p)
                v == StrToLL(s, q)
                rest == from[v.end]
            IN  IF q > Len(s) THEN [ok |-> TRUE, values |-> << >>]
                ELSE IF v.end = q THEN [ok |-> FALSE, values |-> << >>]
                ELSE [rest EXCEPT !.values = <<v.value>> \o @]
    IN  from[1]

Total(values) == FoldLeft(LAMBDA acc, v : acc + v, 0, values)

(* fn_sum: what it may return; the total of a payload that is refused is   *)
(* not used.  An addition that leaves long long is undefined, and then the *)
(* total may be anything.                                                  *)
FnSum(s) ==
    LET values == Numbers(s).values
        fits == \A n \in 1..Len(values) :
                    LET sum == Total(SubSeq(values, 1, n)) IN sum = Clamp(sum)
    IN  [ok : {Numbers(s).ok},
         total : IF ~Numbers(s).ok THEN {0}
                 ELSE IF fits THEN {Total(values)} ELSE -LLMax - 1 .. LLMax]

-----------------------------------------------------------------------------
(***************************************************************************)
(* Reference definitions: tokens are the maximal runs without white space  *)
(***************************************************************************)
Tokens(s) ==
    {t \in (1..Len(s)) \X (1..Len(s)) :
        /\ t[1] <= t[2]
        /\ \A k \in t[1]..t[2] : ~IsSpace(s[k])
        /\ t[1] = 1 \/ IsSpace(s[t[1] - 1])
        /\ t[2] = Len(s) \/ IsSpace(s[t[2] + 1])}

FirstDigit(s, t) == IF s[t[1]] \in Signs THEN t[1] + 1 ELSE t[1]

IsNumber(s, t) ==
    /\ FirstDigit(s, t) <= t[2]
    /\ \A k \in FirstDigit(s, t)..t[2] : IsDigit(s[k])

ValueOf(s, t) ==
    LET mag == MapThenSumSet(LAMBDA k : DigitValue(s[k]) * 10^(t[2] - k),
                             FirstDigit(s, t)..t[2])
    IN  IF s[t[1]] = "-" THEN -mag ELSE mag

SumOfTokens == MapThenSumSet(LAMBDA t : ValueOf(payload, t), Tokens(payload))

(* fn_wordcount counts the tokens of every payload, and fn_sum returns the *)
(* sum of a payload of numbers, whatever white space is around them, when  *)
(* no number and no sum of the first n leaves long long.                   *)
FunctionsOfTokens ==
    /\ FnWordcount(payload) = Cardinality(Tokens(payload))
    /\ /\ \A t \in Tokens(payload) : IsNumber(payload, t)
       /\ \A r \in Tokens(payload) :
             LET upto == {t \in Tokens(payload) : t[1] <= r[1]}
                 sum == MapThenSumSet(LAMBDA t : ValueOf(payload, t), upto)
             IN  sum = Clamp(sum) /\ ValueOf(payload, r) = Clamp(ValueOf(payload, r))
       => FnSum(payload) = {[ok |-> TRUE, total |-> SumOfTokens]}

(* "rejects a non-numeric token" (runner.c:275).                           *)
NonNumericRejected ==
    (\E r \in FnSum(payload) : r.ok) =>
        \A t \in Tokens(payload) : IsNumber(payload, t)
=============================================================================
