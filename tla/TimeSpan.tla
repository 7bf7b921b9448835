------------------------------ MODULE TimeSpan ------------------------------
(***************************************************************************)
(* Time spans such as "1min 30s".  systemctl reads them with ParseDuration *)
(* and systemd-exec with string_duration_to_millis: two copies of a loop   *)
(* that differ in what they do with a round that finds no number.          *)
(*                                                                         *)
(* A text is a sequence of tokens: a whole number, a unit with its scale   *)
(* (0 for a word that is not in TimeScales), a blank, a malformed number   *)
(* (a lone '-' or '.', for which stod throws), the word "infinity", or any *)
(* other character.  The code counts in milliseconds in a double; the      *)
(* model counts in microseconds, the least of TimeScales.                  *)
(***************************************************************************)
EXTENDS Integers, Sequences

Millisecond == 1000
Second  == 1000 * Millisecond    \* the scale of a number without a unit
Forever == -1                    \* DBL_MAX
Number(n)   == [kind |-> "number", value |-> n]
Unit(scale) == [kind |-> "unit", value |-> scale]
Blank     == [kind |-> "blank", value |-> 0]
Malformed == [kind |-> "malformed", value |-> 0]
Infinity  == [kind |-> "infinity", value |-> 0]
Other     == [kind |-> "other", value |-> 0]

Tokens == [kind: {"number", "unit", "blank", "malformed", "infinity", "other"}, value: Nat]

Is(text, p, kinds) == p <= Len(text) /\ text[p].kind \in kinds

(* The place of the first token from p on that is not a blank. *)
SkipBlanks(text, p) ==
  CHOOSE q \in p..Len(text) + 1 :
    /\ ~Is(text, q, {"blank"})
    /\ \A r \in p..q - 1 : Is(text, r, {"blank"})

(* Mutant: the blanks between a number and its unit are not skipped.       *)
RoundOneWord(text, p) ==
  LET number == SkipBlanks(text, p)
      found  == Is(text, number, {"number"})
      word   == IF found THEN number + 1 ELSE number
      named  == Is(text, word, {"unit", "infinity"})
  IN [throws |-> Is(text, number, {"malformed"}),
      found  |-> found,
      micros |-> IF found THEN text[number].value * (IF named THEN text[word].value ELSE Second)
                 ELSE 0,
      next   |-> IF named THEN word + 1 ELSE word]

(* One round of the loop: blanks, a number, blanks, a word.  A word that   *)
(* is no unit, "infinity" too, makes TimeScales[token] the scale 0.        *)
Round(text, p) ==
  LET number == SkipBlanks(text, p)
      found  == Is(text, number, {"number"})
      word   == SkipBlanks(text, IF found THEN number + 1 ELSE number)
      named  == Is(text, word, {"unit", "infinity"})
  IN [throws |-> Is(text, number, {"malformed"}),
      found  |-> found,
      micros |-> IF found THEN text[number].value * (IF named THEN text[word].value ELSE Second)
                 ELSE 0,
      next   |-> IF named THEN word + 1 ELSE word]

Ok(micros) == [outcome |-> "ok", micros |-> micros]
Fails == [outcome |-> "fails", micros |-> 0]
Hangs == [outcome |-> "hangs", micros |-> 0]

(* The loop: the sum of the rounds, from each place on.  A round that moves *)
(* nothing before the end of the text is repeated for ever.  strict: a     *)
(* round without a number fails.                                           *)
Rounds(text, strict) ==
  LET from[p \in 1..Len(text) + 1] ==
        LET round == Round(text, p)
            rest  == from[round.next]
        IN IF round.throws \/ (strict /\ ~round.found) THEN Fails
           ELSE IF round.next > Len(text) THEN Ok(round.micros)
           ELSE IF round.next = p THEN Hangs
           ELSE IF rest.outcome = "ok" THEN Ok(round.micros + rest.micros) ELSE rest
  IN from

Loop(text, strict) == Rounds(text, strict)[1]

ParseDuration(text)             == Loop(text, FALSE)
string_duration_to_millis(text) == Loop(text, TRUE)

(* std::stod: leading blanks, then a number; whatever follows is left. *)
Stod(text) ==
  LET p == SkipBlanks(text, 1)
  IN [throws |-> ~Is(text, p, {"number", "infinity"}),
      whole  |-> p = Len(text),
      micros |-> IF Is(text, p, {"number"}) THEN text[p].value * Second ELSE Forever]

Keep(parsed, old) == IF parsed.outcome = "fails" THEN Ok(old) ELSE parsed

(* RestartSec and the intervals of a timer: a number counts only when it   *)
(* is the whole value.  old: the attribute before; it stays, or what stod  *)
(* read stays, when the text is malformed.                                 *)
ReadWhole(text, old) ==
  LET number == Stod(text)
  IN CASE text = <<Infinity>> -> Ok(Forever)
       [] text # <<Infinity>> /\ ~number.throws /\ number.whole -> Ok(number.micros)
       [] OTHER -> Keep(ParseDuration(text), IF number.throws THEN old ELSE number.micros)

(* TimeoutStartSec, TimeoutSec, RuntimeMaxSec: a leading number is taken   *)
(* for the value, in seconds, whatever follows it.                         *)
ReadLeading(text, old) ==
  LET number == Stod(text)
  IN CASE text = <<Infinity>> -> Ok(Forever)
       [] text # <<Infinity>> /\ ~number.throws -> Ok(number.micros)
       [] OTHER -> Keep(ParseDuration(text), old)

(* TimeoutStopSec, WatchdogSec: the same, and no time span at all. *)
ReadNumber(text, old) ==
  LET number == Stod(text)
  IN IF text = <<Infinity>> THEN Ok(Forever)
     ELSE Ok(IF number.throws THEN old ELSE number.micros)
-----------------------------------------------------------------------------
(***************************************************************************)
(* The reference: what a time span means.                                  *)
(***************************************************************************)

Numbers(text) == {p \in DOMAIN text : text[p].kind = "number"}

(* The token after p that is not a blank, if any, is a unit. *)
UnitOf(text, p) ==
  LET units == {q \in p + 1..Len(text) :
                  text[q].kind = "unit" /\ \A r \in p + 1..q - 1 : text[r].kind = "blank"}
  IN IF units = {} THEN Second ELSE text[CHOOSE q \in units : TRUE].value

(* Numbers and known units only, and every unit follows a number. *)
WellFormed(text) ==
  /\ Numbers(text) # {}
  /\ \A p \in DOMAIN text :
       \/ text[p].kind \in {"number", "blank"}
       \/ /\ text[p].kind = "unit" /\ text[p].value > 0
          /\ \E q \in Numbers(text) : /\ q < p
                                      /\ \A r \in q + 1..p - 1 : text[r].kind = "blank"

(* A single number, with blanks around it. *)
OneNumber(text) ==
  /\ \E p \in DOMAIN text : Numbers(text) = {p}
  /\ \A p \in DOMAIN text : text[p].kind \in {"number", "blank"}

SumsOf(text) ==
  LET upTo[p \in 0..Len(text)] ==
        IF p = 0 THEN 0
        ELSE upTo[p - 1]
             + (IF text[p].kind = "number" THEN text[p].value * UnitOf(text, p) ELSE 0)
  IN upTo

SumOf(text) == SumsOf(text)[Len(text)]

(* boost's parse_config_file trims the values it hands to systemd-exec. *)
Trim(text) ==
  LET kept == {p \in DOMAIN text : text[p].kind # "blank"}
  IN IF kept = {} THEN <<>>
     ELSE SubSeq(text, CHOOSE p \in kept : \A q \in kept : p <= q,
                       CHOOSE p \in kept : \A q \in kept : q <= p)
=============================================================================
