------------------------------- MODULE CmdLine -------------------------------
(***************************************************************************)
(* parse_cmd_line (utils/cmd_line.cpp) as a function of the arguments.     *)
(*                                                                         *)
(* A text is a record: word says which text it is (Empty is the empty one) *)
(* and number what std::from_chars reads at its start, NoNumber when that  *)
(* fails; it ignores what follows the digits.  An argument is a text that  *)
(* also knows its leading dashes, the character behind them (key) and the  *)
(* text behind that (rest).                                                *)
(***************************************************************************)
EXTENDS Integers, Sequences, SequencesExt

Empty == ""

CONSTANTS
  NoNumber,  \* stands for a failed std::from_chars
  Words      \* the texts that may occur

ASSUME NoNumberAssumption ==
  NoNumber \in Int /\ (NoNumber < 0 \/ NoNumber > 48000)
ASSUME WordsAssumption == {Empty, "-"} \subseteq Words

(* The empty text and a single dash have no character behind their dashes. *)
Texts == [word : Words, number : Int]
Arguments ==
  {arg \in [dashes : Nat, key : Words, rest : Texts, word : Words,
            number : Int] :
     arg.word \in {Empty, "-"} => arg.key = Empty}

(* Validation: acceptable words (AcceptableValues has sixteen entries, and *)
(* those it is not given are empty), a range, or nothing.                  *)
AnyValue == [kind |-> "any"]
Range_(lo, hi) == [kind |-> "range", lo |-> lo, hi |-> hi]
Acceptable(words) == [kind |-> "words", words |-> words \cup {Empty}]

(* A range makes the option VALUE_NUMERIC, flagged FALSE is flags 0.       *)
OptionSpec(option, takes_value, validation) ==
  [option |-> option, takes_value |-> takes_value, validation |-> validation]

cmd_line_spec ==
  [A |-> OptionSpec("audio_encoder", TRUE, AnyValue),
   f |-> OptionSpec("frame_rate", TRUE, Range_(20, 70)),
   h |-> OptionSpec("help", FALSE, AnyValue),
   s |-> OptionSpec("sample_rate", TRUE, Range_(8000, 48000)),
   v |-> OptionSpec("version", FALSE, AnyValue),
   V |-> OptionSpec("video_encoder", TRUE,
                    Acceptable({"h264_nvenc", "hevc_nvenc"}))]

check_valid_value(text, validation) ==
  /\ validation.kind = "range" =>
       /\ text.number # NoNumber
       /\ validation.lo <= text.number /\ text.number <= validation.hi
  /\ validation.kind = "words" => text.word \in validation.words

NoValue == [word |-> Empty, number |-> NoNumber]
Text(arg) == [word |-> arg.word, number |-> arg.number]

(* What one turn of parse_cmd_line's loop makes of argument i: the next    *)
(* argument to look at, and an option or a positional argument more.       *)
Turn(next, options, args) ==
  [ok |-> TRUE, next |-> next, options |-> options, args |-> args]
Throws == [ok |-> FALSE, next |-> 0, options |-> <<>>, args |-> <<>>]

OptionTurn(spec, text, next) ==
  IF check_valid_value(text, spec.validation)
  THEN Turn(next, <<[option |-> spec.option, value |-> text]>>, <<>>)
  ELSE Throws

(* Fault: the value of an option is looked for one argument too far.       *)
ParseShortSkips(argv, i) ==
  LET arg == argv[i]
      spec == cmd_line_spec[arg.key]
  IN IF arg.key \notin DOMAIN cmd_line_spec THEN Throws
     ELSE IF ~spec.takes_value
     THEN Turn(i + 1, <<[option |-> spec.option, value |-> NoValue]>>, <<>>)
     ELSE IF arg.rest.word # Empty THEN OptionTurn(spec, arg.rest, i + 2)
     ELSE IF i = Len(argv) THEN Throws
     ELSE OptionTurn(spec, Text(argv[i + 1]), i + 2)

(* An option without a value ignores the rest of its argument; a value is  *)
(* the rest or, whatever it looks like, the next argument.                 *)
parse_short_option(argv, i) ==
  LET arg == argv[i]
      spec == cmd_line_spec[arg.key]
  IN IF arg.key \notin DOMAIN cmd_line_spec THEN Throws
     ELSE IF ~spec.takes_value
     THEN Turn(i + 1, <<[option |-> spec.option, value |-> NoValue]>>, <<>>)
     ELSE IF arg.rest.word # Empty THEN OptionTurn(spec, arg.rest, i + 1)
     ELSE IF i = Len(argv) THEN Throws
     ELSE OptionTurn(spec, Text(argv[i + 1]), i + 2)

(* Long options are not implemented: parse_long_option throws.             *)
parse_option(argv, i) ==
  IF argv[i].dashes = 1 THEN parse_short_option(argv, i) ELSE Throws

IsOption(arg) == arg.dashes > 0 /\ arg.word # "-"

(* The loop's turn at argument i.                                          *)
TurnAt(argv, i) ==
  IF IsOption(argv[i]) THEN parse_option(argv, i)
  ELSE Turn(i + 1, <<>>, <<argv[i].word>>)

(* A turn that did not throw, and the turns behind it.                     *)
Before(turn, rest) ==
  [ok |-> rest.ok, next |-> rest.next,
   options |-> turn.options \o rest.options, args |-> turn.args \o rest.args]

(* The loop from argument i on, which ends at an empty argument.           *)
ParseFrom(argv) ==
  LET from[i \in 1 .. Len(argv) + 1] ==
        IF i > Len(argv) \/ argv[i].word = Empty THEN Turn(i, <<>>, <<>>)
        ELSE LET turn == TurnAt(argv, i)
             IN IF turn.ok THEN Before(turn, from[turn.next]) ELSE Throws
  IN from

parse_cmd_line(argv) == ParseFrom(argv)[1]

Places(cmdline, opt) ==
  {i \in DOMAIN cmdline.options : cmdline.options[i].option = opt}

has_option(cmdline, opt) == Places(cmdline, opt) # {}

(* Fault: the last of several values counts.                               *)
LastValue(cmdline, opt, default) ==
  IF has_option(cmdline, opt)
  THEN cmdline.options[Max(Places(cmdline, opt))].value
  ELSE default

(* get_option_value_or_default: the first of several wins.                 *)
get_option_value(cmdline, opt, default) ==
  IF has_option(cmdline, opt)
  THEN cmdline.options[Min(Places(cmdline, opt))].value
  ELSE default

-----------------------------------------------------------------------------
(* References the parser is checked against.                               *)

TakesValue(arg) ==
  /\ arg.dashes = 1
  /\ arg.key \in DOMAIN cmd_line_spec
  /\ cmd_line_spec[arg.key].takes_value

(* An option whose value is the next argument.                             *)
AwaitsValue(arg) == TakesValue(arg) /\ arg.rest.word = Empty

(* The arguments that are the value of the option before them: those that  *)
(* end an uninterrupted row of an odd number of such options, since in     *)
(* -f -s -f the second is the value of the first.                          *)
Values(argv) ==
  {i \in 2 .. Len(argv) :
     \E j \in 1 .. i - 1 :
       /\ (i - j) % 2 = 1
       /\ \A k \in j .. i - 1 : AwaitsValue(argv[k])
       /\ j = 1 \/ ~AwaitsValue(argv[j - 1])}

(* The arguments the parser looks at: up to an empty one that is no value. *)
LookedAt(argv) ==
  {i \in 1 .. Len(argv) :
     \A j \in 1 .. i : argv[j].word # Empty \/ j \in Values(argv)}

(* The arguments with every attached value an argument of its own.         *)
Split(argv, i) ==
  IF TakesValue(argv[i]) /\ argv[i].rest.word # Empty /\ i \notin Values(argv)
  THEN <<[argv[i] EXCEPT !.rest = NoValue],
         [dashes |-> 0, key |-> Empty, rest |-> NoValue,
          word |-> argv[i].rest.word, number |-> argv[i].rest.number]>>
  ELSE <<argv[i]>>

Parts(argv) ==
  LET parts[n \in 0 .. Len(argv)] ==
        IF n = 0 THEN <<>> ELSE parts[n - 1] \o Split(argv, n)
  IN parts

Separated(argv) == Parts(argv)[Len(argv)]
=============================================================================
