---------------------------- MODULE CommandLine ----------------------------
(***************************************************************************)
(* The command of a subprocess: parse_command (avspipe_input_adapter.cpp,  *)
(* and its copy in avpinput_decklink.cpp) puts the numbers of the two      *)
(* descriptors in place of %a and %v.  The text it makes may be no longer  *)
(* than twice the command: what does not fit is left out, and a character  *)
(* of a number is never left out alone.                                    *)
(*                                                                         *)
(* "x" stands for every other character, "A" and "V" for a digit of the    *)
(* number of the audio and the video descriptor.                           *)
(***************************************************************************)
EXTENDS Naturals, Sequences

Digit == [a |-> "A", v |-> "V"]

(* One step of the loop: where the parser is, what it wrote, the room left *)
Appended(st, text, consumed) ==
    [cmd |-> SubSeq(st.cmd, consumed + 1, Len(st.cmd)),
     out |-> IF st.out_len >= Len(text) THEN st.out \o text ELSE st.out,
     out_len |-> IF st.out_len >= Len(text) THEN st.out_len - Len(text) ELSE st.out_len]

Number(ch, digits) == [i \in 1 .. digits[ch] |-> Digit[ch]]

Escaped(st, digits) ==
    CASE Len(st.cmd) = 1 -> Appended(st, <<"%">>, 1)
      [] st.cmd[2] = "%" -> Appended(st, <<"%">>, 2)
      [] st.cmd[2] \in {"a", "v"} -> Appended(st, Number(st.cmd[2], digits), 2)
      [] OTHER -> Appended(st, <<"%">>, 1)

parse_command(cmd, digits) ==
    LET after[n \in 0 .. Len(cmd)] ==
          IF n = 0 THEN [cmd |-> cmd, out |-> <<>>, out_len |-> 2 * Len(cmd)]
          ELSE LET st == after[n - 1] IN
               IF st.cmd = <<>> THEN st
               ELSE IF Head(st.cmd) = "%" THEN Escaped(st, digits)
               ELSE Appended(st, <<Head(st.cmd)>>, 1)
    IN after[Len(cmd)].out

-----------------------------------------------------------------------------
(* What it should be: an escape begins at a % that is not the second one   *)
(* of a pair, and every other character stands for itself.                 *)
Commands(n) == UNION {[1 .. k -> {"%", "a", "v", "x"}] : k \in 0 .. n}

Substituted(cmd, digits) ==
    LET from[i \in 1 .. Len(cmd) + 2] ==
          IF i > Len(cmd) THEN <<>>
          ELSE IF cmd[i] = "%" /\ i < Len(cmd) /\ cmd[i + 1] \in {"a", "v"}
               THEN Number(cmd[i + 1], digits) \o from[i + 2]
          ELSE IF cmd[i] = "%" /\ i < Len(cmd) /\ cmd[i + 1] = "%"
               THEN <<"%">> \o from[i + 2]
          ELSE <<cmd[i]>> \o from[i + 1]
    IN from[1]

(* Nothing is left out of a command while the descriptors have numbers of  *)
(* at most four digits, as they have unless the limit of files was raised. *)
ASSUME CommandWhole ==
    \A cmd \in Commands(5), a, v \in 1 .. 4 :
       LET digits == [a |-> a, v |-> v]
       IN parse_command(cmd, digits) = Substituted(cmd, digits)

(* With five digits %a alone would lose its number. *)
ASSUME FiveDigitsLost == parse_command(<<"%", "a">>, [a |-> 5, v |-> 1]) = <<>>
=============================================================================
