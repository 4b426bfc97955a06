------------------------ MODULE ConfigurationProofs ------------------------
(***************************************************************************)
(* Configuration and FramePacing, for every command line, environment, set *)
(* of timers and delay.                                                    *)
(*                                                                         *)
(* The parser is defined by recursion towards the end of the line.  What   *)
(* holds of it on every line is shown with the last argument from which it *)
(* would not: the turn at that argument goes on at a later one.  The rates *)
(* agree for every accepted rate; the float arithmetic is first turned     *)
(* into bounds on integers.                                                *)
(***************************************************************************)
EXTENDS Configuration, FramePacing, WellFoundedInduction, TLAPS

(* Every non-empty set of naturals has a least member, which Min returns.  *)
LEMMA MinIsLeast ==
  ASSUME NEW S, S \subseteq Nat, S # {}
  PROVE  Min(S) \in S /\ \A y \in S : Min(S) <= y
<1>1. PICK x \in S : \A y \in S : ~(<<y, x>> \in OpToRel(<, Nat))
  BY WFMin, NatLessThanWellFounded
<1>2. \A y \in S : x <= y
  <2> SUFFICES ASSUME NEW y \in S PROVE x <= y
    OBVIOUS
  <2>1. ~(y < x)
    BY <1>1 DEF OpToRel
  <2> QED BY <2>1
<1> QED BY <1>2 DEF Min

(* A bounded set of naturals has a greatest member.                        *)
LEMMA GreatestExists ==
  ASSUME NEW N \in Nat, NEW S, S \subseteq 0 .. N, S # {}
  PROVE  \E x \in S : \A y \in S : y <= x
<1> DEFINE T == {k \in Nat : \A y \in S : y <= k}
<1>1. T \subseteq Nat /\ N \in T OBVIOUS
<1>2. Min(T) \in T /\ \A y \in T : Min(T) <= y BY <1>1, MinIsLeast
<1> DEFINE m == Min(T)
<1>3. m \in Nat /\ (\A y \in S : y <= m) /\ \A y \in T : m <= y BY <1>2
<1> HIDE DEF m
<1>4. m \in S
  <2> SUFFICES ASSUME m \notin S PROVE FALSE OBVIOUS
  <2>1. \A y \in S : y <= m - 1 /\ y \in Nat BY <1>3
  <2>2. PICK z \in S : TRUE OBVIOUS
  <2> m - 1 \in Nat BY <1>3, <2>1, <2>2
  <2>3. m - 1 \in T BY <2>1, <2>2
  <2> QED BY <1>3, <2>3
<1> QED BY <1>3, <1>4

-----------------------------------------------------------------------------
(* One turn of the parser.                                                 *)

OptionNames == {"audio_encoder", "frame_rate", "help", "sample_rate",
                "version", "video_encoder"}

Option == [option : OptionNames, value : Texts]

Outcomes ==
  [ok : BOOLEAN, next : Nat, options : Seq(Option), args : Seq(Words)]

(* What the table of options promises of a value.                          *)
ValidNumber(o) ==
  /\ o.option = "frame_rate" =>
       o.value.number \in Int /\ 20 <= o.value.number /\ o.value.number <= 70
  /\ o.option = "sample_rate" =>
       /\ o.value.number \in Int
       /\ 8000 <= o.value.number /\ o.value.number <= 48000

ValidWord(o) ==
  o.option = "video_encoder" =>
    o.value.word \in {"h264_nvenc", "hevc_nvenc", Empty}

Valid(o) == ValidNumber(o) /\ ValidWord(o)

OptionKeys == {"A", "f", "h", "s", "v", "V"}

(* The table, entry by entry.                                              *)
LEMMA TheOptions ==
  ASSUME NEW k \in OptionKeys
  PROVE  /\ DOMAIN cmd_line_spec = OptionKeys
         /\ cmd_line_spec[k].option \in OptionNames
         /\ cmd_line_spec[k].takes_value \in BOOLEAN
         /\ cmd_line_spec[k].takes_value <=> k \in {"A", "f", "s", "V"}
         /\ cmd_line_spec[k].option = "frame_rate" <=> k = "f"
         /\ cmd_line_spec[k].option = "sample_rate" <=> k = "s"
         /\ cmd_line_spec[k].option = "video_encoder" <=> k = "V"
         /\ k = "f" => cmd_line_spec[k].validation = Range_(20, 70)
         /\ k = "s" => cmd_line_spec[k].validation = Range_(8000, 48000)
         /\ k = "V" => cmd_line_spec[k].validation =
                         Acceptable({"h264_nvenc", "hevc_nvenc"})
<1>1. DOMAIN cmd_line_spec = OptionKeys BY DEF cmd_line_spec, OptionKeys
<1>2. CASE k = "A"
  <2>1. cmd_line_spec[k] = OptionSpec("audio_encoder", TRUE, AnyValue)
    BY <1>2 DEF cmd_line_spec
  <2> QED BY <1>1, <1>2, <2>1 DEF OptionSpec, OptionNames
<1>3. CASE k = "f"
  <2>1. cmd_line_spec[k] = OptionSpec("frame_rate", TRUE, Range_(20, 70))
    BY <1>3 DEF cmd_line_spec
  <2> QED BY <1>1, <1>3, <2>1 DEF OptionSpec, OptionNames
<1>4. CASE k = "h"
  <2>1. cmd_line_spec[k] = OptionSpec("help", FALSE, AnyValue)
    BY <1>4 DEF cmd_line_spec
  <2> QED BY <1>1, <1>4, <2>1 DEF OptionSpec, OptionNames
<1>5. CASE k = "s"
  <2>1. cmd_line_spec[k] = OptionSpec("sample_rate", TRUE, Range_(8000, 48000))
    BY <1>5 DEF cmd_line_spec
  <2> QED BY <1>1, <1>5, <2>1 DEF OptionSpec, OptionNames
<1>6. CASE k = "v"
  <2>1. cmd_line_spec[k] = OptionSpec("version", FALSE, AnyValue)
    BY <1>6 DEF cmd_line_spec
  <2> QED BY <1>1, <1>6, <2>1 DEF OptionSpec, OptionNames
<1>7. CASE k = "V"
  <2>1. cmd_line_spec[k] = OptionSpec("video_encoder", TRUE,
                             Acceptable({"h264_nvenc", "hevc_nvenc"}))
    BY <1>7 DEF cmd_line_spec
  <2> QED BY <1>1, <1>7, <2>1 DEF OptionSpec, OptionNames
<1> QED BY <1>2, <1>3, <1>4, <1>5, <1>6, <1>7 DEF OptionKeys

LEMMA RangeIsChecked ==
  ASSUME NEW t \in Texts, NEW lo \in Int, NEW hi \in Int,
         check_valid_value(t, Range_(lo, hi))
  PROVE  t.number \in Int /\ lo <= t.number /\ t.number <= hi
<1> QED BY DEF Texts, check_valid_value, Range_

(* A value that passes the check is one its option can take.               *)
LEMMA ChecksSuffice ==
  ASSUME NEW k \in OptionKeys, NEW t \in Texts,
         \/ check_valid_value(t, cmd_line_spec[k].validation)
         \/ k \in {"h", "v"}
  PROVE  Valid([option |-> cmd_line_spec[k].option, value |-> t])
<1> DEFINE set == [option |-> cmd_line_spec[k].option, value |-> t]
<1>1. set.option = cmd_line_spec[k].option /\ set.value = t OBVIOUS
<1> SUFFICES ValidNumber(set) /\ ValidWord(set) BY DEF Valid
<1> HIDE DEF set
<1>2. /\ set.option = "frame_rate" <=> k = "f"
      /\ set.option = "sample_rate" <=> k = "s"
      /\ set.option = "video_encoder" <=> k = "V"
  BY <1>1, TheOptions
<1>3. ValidNumber(set)
  <2>1. k = "f" => t.number \in Int /\ 20 <= t.number /\ t.number <= 70
    BY TheOptions, RangeIsChecked
  <2>2. k = "s" => t.number \in Int /\ 8000 <= t.number /\ t.number <= 48000
    BY TheOptions, RangeIsChecked
  <2> QED BY <1>1, <1>2, <2>1, <2>2 DEF ValidNumber
<1>4. ValidWord(set)
  <2> SUFFICES ASSUME k = "V"
               PROVE  t.word \in {"h264_nvenc", "hevc_nvenc", Empty}
    BY <1>1, <1>2 DEF ValidWord
  <2> DEFINE v == Acceptable({"h264_nvenc", "hevc_nvenc"})
  <2>1. check_valid_value(t, v) BY TheOptions
  <2> QED BY <2>1 DEF check_valid_value, Acceptable
<1> QED BY <1>3, <1>4

(* A turn that does not look behind its argument.                          *)
LoneTurn(arg, i) ==
  IF IsOption(arg)
  THEN IF arg.dashes = 1 /\ arg.key \in OptionKeys
       THEN Turn(i + 1, <<[option |-> cmd_line_spec[arg.key].option,
                           value |-> NoValue]>>, <<>>)
       ELSE Throws
  ELSE Turn(i + 1, <<>>, <<arg.word>>)

LEMMA EmptyIsNoKey == Empty \notin OptionKeys
<1> QED BY Zenon DEF Empty, OptionKeys

LEMMA WhoTakesValue ==
  ASSUME NEW arg \in Arguments
  PROVE  /\ TakesValue(arg) <=>
              arg.dashes = 1 /\ arg.key \in {"A", "f", "s", "V"}
         /\ TakesValue(arg) => IsOption(arg)
         /\ arg.word = Empty => ~TakesValue(arg)
<1>1. arg.key \in OptionKeys =>
        (cmd_line_spec[arg.key].takes_value <=>
           arg.key \in {"A", "f", "s", "V"})
  BY TheOptions
<1>2. DOMAIN cmd_line_spec = OptionKeys BY DEF cmd_line_spec, OptionKeys
<1>3. TakesValue(arg) <=> arg.dashes = 1 /\ arg.key \in {"A", "f", "s", "V"}
  BY <1>1, <1>2 DEF TakesValue, OptionKeys
<1>4. arg.word \in {Empty, "-"} => arg.key = Empty BY DEF Arguments
<1>5. arg.dashes = 1 /\ arg.word # "-" => IsOption(arg) BY DEF IsOption
<1>6. TakesValue(arg) => arg.word \notin {Empty, "-"}
  BY <1>3, <1>4, EmptyIsNoKey DEF OptionKeys
<1> QED BY <1>3, <1>5, <1>6

(* The four ways a turn can go.                                            *)
LEMMA TurnCases ==
  ASSUME NEW line \in Seq(Arguments), NEW i \in 1 .. Len(line)
  PROVE  /\ ~TakesValue(line[i]) => TurnAt(line, i) = LoneTurn(line[i], i)
         /\ TakesValue(line[i]) /\ line[i].rest.word # Empty =>
              TurnAt(line, i) =
                OptionTurn(cmd_line_spec[line[i].key], line[i].rest, i + 1)
         /\ AwaitsValue(line[i]) /\ i = Len(line) => TurnAt(line, i) = Throws
         /\ AwaitsValue(line[i]) /\ i # Len(line) =>
              TurnAt(line, i) =
                OptionTurn(cmd_line_spec[line[i].key], Text(line[i + 1]),
                           i + 2)
<1> DEFINE arg == line[i]
<1>1. arg \in Arguments OBVIOUS
<1>2. DOMAIN cmd_line_spec = OptionKeys BY DEF cmd_line_spec, OptionKeys
<1>3. CASE ~TakesValue(arg)
  <2>1. CASE ~IsOption(arg) BY <1>3, <2>1 DEF TurnAt, LoneTurn, AwaitsValue
  <2>2. CASE IsOption(arg) /\ arg.dashes # 1
    BY <1>3, <2>2 DEF TurnAt, LoneTurn, AwaitsValue, parse_option
  <2>3. CASE IsOption(arg) /\ arg.dashes = 1
    <3>1. TurnAt(line, i) = parse_short_option(line, i)
      BY <2>3 DEF TurnAt, parse_option
    <3>2. arg.key \in OptionKeys => ~cmd_line_spec[arg.key].takes_value
      BY <1>2, <1>3, <2>3 DEF TakesValue
    <3>3. parse_short_option(line, i) = LoneTurn(arg, i)
      BY <1>2, <2>3, <3>2 DEF parse_short_option, LoneTurn
    <3> QED BY <1>3, <3>1, <3>3 DEF AwaitsValue
  <2> QED BY <2>1, <2>2, <2>3
<1>4. CASE TakesValue(arg)
  <2>1. IsOption(arg) BY <1>1, <1>4, WhoTakesValue
  <2>2. /\ arg.dashes = 1 /\ arg.key \in DOMAIN cmd_line_spec
        /\ cmd_line_spec[arg.key].takes_value
    BY <1>4 DEF TakesValue
  <2>3. TurnAt(line, i) = parse_short_option(line, i)
    BY <2>1, <2>2 DEF TurnAt, parse_option
  <2>4. CASE arg.rest.word # Empty
    BY <1>4, <2>2, <2>3, <2>4 DEF parse_short_option, AwaitsValue
  <2>5. CASE arg.rest.word = Empty
    BY <1>4, <2>2, <2>3, <2>5 DEF parse_short_option, AwaitsValue
  <2> QED BY <2>4, <2>5
<1> QED BY <1>3, <1>4

(* A turn that moves on to n, and finds only what passed the checks.       *)
Good(t) ==
  /\ t \in Outcomes
  /\ \A k \in 1 .. Len(t.options) : Valid(t.options[k])
  /\ \A k \in 1 .. Len(t.args) : t.args[k] # Empty

LEMMA ThrowsIsGood ==
  /\ Good(Throws) /\ ~Throws.ok
  /\ Throws.options = <<>> /\ Throws.args = <<>>
<1> QED BY DEF Throws, Good, Outcomes

LEMMA OptionIsGood ==
  ASSUME NEW o \in Option, Valid(o), NEW n \in Nat
  PROVE  LET t == Turn(n, <<o>>, <<>>)
         IN Good(t) /\ t.ok /\ t.next = n /\ t.options = <<o>> /\ t.args = <<>>
<1>1. <<o>> \in Seq(Option) /\ Len(<<o>>) = 1 /\ <<o>>[1] = o OBVIOUS
<1>2. \A k \in 1 .. Len(<<o>>) : Valid(<<o>>[k]) BY <1>1
<1> QED BY <1>1, <1>2 DEF Turn, Good, Outcomes

LEMMA ArgumentIsGood ==
  ASSUME NEW w \in Words, w # Empty, NEW n \in Nat
  PROVE  LET t == Turn(n, <<>>, <<w>>)
         IN Good(t) /\ t.ok /\ t.next = n /\ t.options = <<>> /\ t.args = <<w>>
<1>1. <<w>> \in Seq(Words) /\ Len(<<w>>) = 1 /\ <<w>>[1] = w OBVIOUS
<1>2. \A k \in 1 .. Len(<<w>>) : <<w>>[k] # Empty BY <1>1
<1> QED BY <1>1, <1>2 DEF Turn, Good, Outcomes

LEMMA NoValueTyped == NoValue \in Texts
<1>1. Empty \in Words BY WordsAssumption
<1>2. NoNumber \in Int BY NoNumberAssumption
<1> QED BY <1>1, <1>2 DEF NoValue, Texts

LEMMA ArgumentTyped ==
  ASSUME NEW arg \in Arguments
  PROVE  /\ arg.dashes \in Nat /\ arg.key \in Words /\ arg.word \in Words
         /\ arg.rest \in Texts /\ Text(arg) \in Texts
<1> QED BY DEF Arguments, Text, Texts

(* An option with its value.                                               *)
LEMMA OptionTurnIsGood ==
  ASSUME NEW k \in OptionKeys, NEW v \in Texts, NEW n \in Nat
  PROVE  LET t == OptionTurn(cmd_line_spec[k], v, n)
             o == [option |-> cmd_line_spec[k].option, value |-> v]
         IN /\ Good(t)
            /\ t.ok => t.next = n /\ t.options = <<o>> /\ t.args = <<>>
<1> DEFINE t == OptionTurn(cmd_line_spec[k], v, n)
           o == [option |-> cmd_line_spec[k].option, value |-> v]
<1>1. CASE check_valid_value(v, cmd_line_spec[k].validation)
  <2>1. t = Turn(n, <<o>>, <<>>) BY <1>1 DEF OptionTurn
  <2>2. cmd_line_spec[k].option \in OptionNames BY TheOptions
  <2>3. o \in Option BY <2>2 DEF Option
  <2>4. Valid(o) BY <1>1, ChecksSuffice
  <2> HIDE DEF o, t
  <2> QED BY <2>1, <2>3, <2>4, OptionIsGood DEF o, t
<1>2. CASE ~check_valid_value(v, cmd_line_spec[k].validation)
  <2>1. t = Throws BY <1>2 DEF OptionTurn
  <2> QED BY <2>1, ThrowsIsGood
<1> QED BY <1>1, <1>2

LEMMA LoneTurnIsGood ==
  ASSUME NEW arg \in Arguments, arg.word # Empty, ~TakesValue(arg),
         NEW i \in Nat
  PROVE  LET t == LoneTurn(arg, i)
         IN Good(t) /\ (t.ok => t.next = i + 1)
<1> DEFINE t == LoneTurn(arg, i)
<1>1. CASE ~IsOption(arg)
  <2>1. t = Turn(i + 1, <<>>, <<arg.word>>) BY <1>1 DEF LoneTurn
  <2>2. arg.word \in Words BY ArgumentTyped
  <2>3. i + 1 \in Nat OBVIOUS
  <2> QED BY <2>1, <2>2, <2>3, ArgumentIsGood
<1>2. CASE IsOption(arg) /\ arg.dashes = 1 /\ arg.key \in OptionKeys
  <2> DEFINE o == [option |-> cmd_line_spec[arg.key].option,
                   value |-> NoValue]
  <2>1. t = Turn(i + 1, <<o>>, <<>>) BY <1>2 DEF LoneTurn
  <2>2. arg.key \in {"h", "v"} BY <1>2, WhoTakesValue DEF OptionKeys
  <2>3. cmd_line_spec[arg.key].option \in OptionNames BY <1>2, TheOptions
  <2>4. o \in Option BY <2>3, NoValueTyped DEF Option
  <2>5. Valid(o) BY <1>2, <2>2, NoValueTyped, ChecksSuffice
  <2>6. i + 1 \in Nat OBVIOUS
  <2> HIDE DEF o
  <2> QED BY <2>1, <2>4, <2>5, <2>6, OptionIsGood
<1>3. CASE IsOption(arg) /\ ~(arg.dashes = 1 /\ arg.key \in OptionKeys)
  <2>1. t = Throws BY <1>3 DEF LoneTurn
  <2> QED BY <2>1, ThrowsIsGood
<1> QED BY <1>1, <1>2, <1>3

LEMMA LineTyped ==
  ASSUME NEW line \in Seq(Arguments)
  PROVE  /\ Len(line) \in Nat
         /\ \A i \in 1 .. Len(line) : line[i] \in Arguments
<1> QED OBVIOUS

(* A turn moves on, and finds only what passed the checks.                 *)
LEMMA TurnIsGood ==
  ASSUME NEW line \in Seq(Arguments), NEW i \in 1 .. Len(line),
         line[i].word # Empty
  PROVE  LET t == TurnAt(line, i)
         IN Good(t) /\ (t.ok => t.next \in i + 1 .. Len(line) + 1)
<1> DEFINE arg == line[i]
           t == TurnAt(line, i)
<1>1. arg \in Arguments /\ i \in Nat /\ Len(line) \in Nat BY LineTyped
<1>2. TakesValue(arg) => arg.key \in OptionKeys
  BY <1>1, WhoTakesValue DEF OptionKeys
<1>3. CASE TakesValue(arg) /\ arg.rest.word # Empty
  <2>1. t = OptionTurn(cmd_line_spec[arg.key], arg.rest, i + 1)
    BY <1>3, TurnCases
  <2>2. arg.rest \in Texts BY <1>1, ArgumentTyped
  <2>3. i + 1 \in Nat /\ i + 1 \in i + 1 .. Len(line) + 1 BY <1>1
  <2> HIDE DEF t, arg
  <2>4. Good(t) /\ (t.ok => t.next = i + 1)
    BY <1>2, <1>3, <2>1, <2>2, <2>3, OptionTurnIsGood
  <2> QED BY <2>3, <2>4 DEF t
<1>4. CASE AwaitsValue(arg) /\ i = Len(line)
  <2>1. t = Throws BY <1>4, TurnCases
  <2> QED BY <2>1, ThrowsIsGood
<1>5. CASE AwaitsValue(arg) /\ i # Len(line)
  <2>1. t = OptionTurn(cmd_line_spec[arg.key], Text(line[i + 1]), i + 2)
    BY <1>5, TurnCases
  <2>2. /\ i + 2 \in Nat /\ i + 2 \in i + 1 .. Len(line) + 1
        /\ i + 1 \in 1 .. Len(line)
    BY <1>1, <1>5
  <2>3. Text(line[i + 1]) \in Texts BY <2>2, LineTyped, ArgumentTyped
  <2>4. TakesValue(arg) BY <1>5 DEF AwaitsValue
  <2> HIDE DEF t, arg
  <2>5. Good(t) /\ (t.ok => t.next = i + 2)
    BY <1>2, <2>1, <2>2, <2>3, <2>4, OptionTurnIsGood
  <2> QED BY <2>2, <2>5 DEF t
<1>6. CASE ~TakesValue(arg)
  <2>1. t = LoneTurn(arg, i) BY <1>6, TurnCases
  <2>2. i + 1 \in i + 1 .. Len(line) + 1 BY <1>1
  <2>3. Good(t) /\ (t.ok => t.next = i + 1)
    BY <1>1, <1>6, <2>1, LoneTurnIsGood
  <2> QED BY <2>2, <2>3
<1> QED BY <1>3, <1>4, <1>5, <1>6 DEF AwaitsValue

-----------------------------------------------------------------------------
(* The loop.  ParseFrom is defined by recursion from the end of the line;  *)
(* that there is a function with its equation is shown with the last place *)
(* from which on there would be none.                                      *)

Step(line, g, i) ==
  IF i > Len(line) \/ line[i].word = Empty THEN Turn(i, <<>>, <<>>)
  ELSE IF TurnAt(line, i).ok
       THEN Before(TurnAt(line, i), g[TurnAt(line, i).next])
       ELSE Throws

IsParse(line, m, g) == g = [i \in m .. Len(line) + 1 |-> Step(line, g, i)]

LEMMA StepLooksAhead ==
  ASSUME NEW line \in Seq(Arguments), NEW i \in 1 .. Len(line) + 1,
         NEW g, NEW h,
         \A n \in i + 1 .. Len(line) + 1 : g[n] = h[n]
  PROVE  Step(line, g, i) = Step(line, h, i)
<1>1. CASE i > Len(line) \/ line[i].word = Empty BY <1>1 DEF Step
<1>2. CASE ~(i > Len(line) \/ line[i].word = Empty)
  <2>1. i \in 1 .. Len(line) BY <1>2, LineTyped
  <2>2. TurnAt(line, i).ok => TurnAt(line, i).next \in i + 1 .. Len(line) + 1
    BY <1>2, <2>1, TurnIsGood
  <2> QED BY <1>2, <2>2 DEF Step
<1> QED BY <1>1, <1>2

LEMMA ParseExists ==
  ASSUME NEW line \in Seq(Arguments)
  PROVE  \A m \in 1 .. Len(line) + 1 : \E g : IsParse(line, m, g)
<1> DEFINE N == Len(line) + 1
           Bad == {m \in 1 .. N : ~\E g : IsParse(line, m, g)}
<1>1. N \in Nat BY LineTyped
<1> SUFFICES ASSUME Bad # {} PROVE FALSE OBVIOUS
<1>2. Bad \subseteq 0 .. N BY <1>1
<1>3. PICK m \in Bad : \A y \in Bad : y <= m BY <1>1, <1>2, GreatestExists
<1>4. m \in 1 .. N /\ ~\E g : IsParse(line, m, g) BY <1>3
<1>5. \E g : \A n \in m + 1 .. N :
        DOMAIN g = m + 1 .. N /\ g[n] = Step(line, g, n)
  <2>1. CASE m = N BY <1>1, <2>1
  <2>2. CASE m # N
    <3>1. m + 1 \in 1 .. N /\ m + 1 \notin Bad BY <1>1, <1>3, <1>4, <2>2
    <3>2. PICK g : IsParse(line, m + 1, g) BY <3>1
    <3> QED BY <3>2 DEF IsParse
  <2> QED BY <2>1, <2>2
<1>6. PICK g : \A n \in m + 1 .. N : g[n] = Step(line, g, n) BY <1>5
<1> DEFINE e == [i \in m .. N |-> IF i = m THEN Step(line, g, m) ELSE g[i]]
<1>7. ASSUME NEW i \in m .. N PROVE e[i] = Step(line, e, i)
  <2>1. i \in 1 .. N BY <1>1, <1>4
  <2>2. \A n \in i + 1 .. N : g[n] = e[n] BY <1>1, <1>4
  <2>3. Step(line, g, i) = Step(line, e, i)
    <3> HIDE DEF e
    <3> QED BY <2>1, <2>2, StepLooksAhead
  <2>4. e[i] = Step(line, g, i)
    <3>1. i # m => i \in m + 1 .. N BY <1>1, <1>4
    <3> QED BY <1>6, <3>1
  <2> QED BY <2>3, <2>4
<1>8. e = [i \in m .. N |-> e[i]] OBVIOUS
<1> HIDE DEF e
<1>9. IsParse(line, m, e) BY <1>7, <1>8 DEF IsParse
<1> QED BY <1>4, <1>9

(* So the definition of ParseFrom can be read as its equation.             *)
LEMMA ParseUnfolds ==
  ASSUME NEW line \in Seq(Arguments)
  PROVE  \A i \in 1 .. Len(line) + 1 :
           ParseFrom(line)[i] = Step(line, ParseFrom(line), i)
<1>1. Len(line) \in Nat BY LineTyped
<1>2. \E g : IsParse(line, 1, g) BY <1>1, ParseExists
<1>3. IsParse(line, 1, CHOOSE g : IsParse(line, 1, g)) BY <1>2
<1>4. ParseFrom(line) = CHOOSE g : IsParse(line, 1, g)
  BY DEF ParseFrom, IsParse, Step
<1>5. IsParse(line, 1, ParseFrom(line)) BY <1>3, <1>4
<1> QED BY <1>5 DEF IsParse

LEMMA Concatenated ==
  ASSUME NEW S, NEW s \in Seq(S), NEW t \in Seq(S)
  PROVE  /\ s \o t \in Seq(S)
         /\ Len(s \o t) = Len(s) + Len(t)
         /\ Len(s) \in Nat /\ Len(t) \in Nat
         /\ \A k \in 1 .. Len(s) : (s \o t)[k] = s[k]
         /\ \A k \in 1 .. Len(t) : (s \o t)[Len(s) + k] = t[k]
         /\ \A k \in 1 .. Len(s \o t) :
              k \in 1 .. Len(s) \/ k - Len(s) \in 1 .. Len(t)
<1> QED OBVIOUS

(* What holds for all members of two sequences holds for all members of    *)
(* the two in a row.                                                       *)
LEMMA BeforeIsGood ==
  ASSUME NEW t, NEW r, Good(t), Good(r)
  PROVE  /\ Good(Before(t, r))
         /\ Before(t, r).ok = r.ok
         /\ Before(t, r).options = t.options \o r.options
         /\ Before(t, r).args = t.args \o r.args
<1> DEFINE b == Before(t, r)
<1>1. /\ t.options \in Seq(Option) /\ t.args \in Seq(Words)
      /\ r.options \in Seq(Option) /\ r.args \in Seq(Words)
      /\ r.ok \in BOOLEAN /\ r.next \in Nat
  BY DEF Good, Outcomes
<1>2. /\ b.ok = r.ok /\ b.next = r.next
      /\ b.options = t.options \o r.options /\ b.args = t.args \o r.args
  BY DEF Before
<1>3. b \in Outcomes
  <2>1. /\ t.options \o r.options \in Seq(Option)
        /\ t.args \o r.args \in Seq(Words)
    BY <1>1, Concatenated
  <2> QED BY <1>1, <2>1 DEF Before, Outcomes
<1>4. ASSUME NEW k \in 1 .. Len(b.options) PROVE Valid(b.options[k])
  <2> DEFINE p == t.options
             q == r.options
  <2>1. /\ \A n \in 1 .. Len(p) : Valid(p[n])
        /\ \A n \in 1 .. Len(q) : Valid(q[n])
    BY DEF Good
  <2>2. p \in Seq(Option) /\ q \in Seq(Option) /\ k \in 1 .. Len(p \o q)
    BY <1>1, <1>2
  <2> HIDE DEF p, q
  <2>3. Valid((p \o q)[k])
    <3>1. CASE k \in 1 .. Len(p) BY <2>1, <2>2, <3>1, Concatenated
    <3>2. CASE k - Len(p) \in 1 .. Len(q)
      <4>1. (p \o q)[Len(p) + (k - Len(p))] = q[k - Len(p)]
        BY <2>2, <3>2, Concatenated
      <4>2. Len(p) + (k - Len(p)) = k BY <2>2
      <4> QED BY <2>1, <3>2, <4>1, <4>2
    <3> QED BY <2>2, <3>1, <3>2, Concatenated
  <2> QED BY <1>2, <2>3 DEF p, q
<1>5. ASSUME NEW k \in 1 .. Len(b.args) PROVE b.args[k] # Empty
  <2> DEFINE p == t.args
             q == r.args
  <2>1. /\ \A n \in 1 .. Len(p) : p[n] # Empty
        /\ \A n \in 1 .. Len(q) : q[n] # Empty
    BY DEF Good
  <2>2. p \in Seq(Words) /\ q \in Seq(Words) /\ k \in 1 .. Len(p \o q)
    BY <1>1, <1>2
  <2> HIDE DEF p, q
  <2>3. (p \o q)[k] # Empty
    <3>1. CASE k \in 1 .. Len(p) BY <2>1, <2>2, <3>1, Concatenated
    <3>2. CASE k - Len(p) \in 1 .. Len(q)
      <4>1. (p \o q)[Len(p) + (k - Len(p))] = q[k - Len(p)]
        BY <2>2, <3>2, Concatenated
      <4>2. Len(p) + (k - Len(p)) = k BY <2>2
      <4> QED BY <2>1, <3>2, <4>1, <4>2
    <3> QED BY <2>2, <3>1, <3>2, Concatenated
  <2> QED BY <1>2, <2>3 DEF p, q
<1> HIDE DEF b
<1>6. Good(b) BY <1>3, <1>4, <1>5 DEF Good
<1> QED BY <1>2, <1>6 DEF b

LEMMA NothingIsGood ==
  ASSUME NEW n \in Nat
  PROVE  LET t == Turn(n, <<>>, <<>>)
         IN Good(t) /\ t.ok /\ t.options = <<>> /\ t.args = <<>>
<1> QED BY DEF Turn, Good, Outcomes

(* The parser returns only values that passed the checks, and no empty     *)
(* argument, from every argument on.                                       *)
LEMMA ParseIsGood ==
  ASSUME NEW line \in Seq(Arguments)
  PROVE  \A i \in 1 .. Len(line) + 1 : Good(ParseFrom(line)[i])
<1> DEFINE N == Len(line) + 1
           from == ParseFrom(line)
           Bad == {i \in 1 .. N : ~Good(from[i])}
<1>1. N \in Nat BY LineTyped
<1> SUFFICES ASSUME Bad # {} PROVE FALSE OBVIOUS
<1>2. PICK i \in Bad : \A y \in Bad : y <= i
  <2>1. Bad \subseteq 0 .. N BY <1>1
  <2> HIDE DEF Bad
  <2> QED BY <1>1, <2>1, GreatestExists
<1>3. i \in 1 .. N /\ ~Good(from[i]) BY <1>2
<1>4. \A n \in i + 1 .. N : Good(from[n])
  <2> SUFFICES ASSUME NEW n \in i + 1 .. N, ~Good(from[n]) PROVE FALSE OBVIOUS
  <2>1. n \in Bad /\ ~(n <= i) BY <1>1, <1>3
  <2> QED BY <1>2, <2>1
<1>5. from[i] = Step(line, from, i) BY <1>3, ParseUnfolds
<1> HIDE DEF from, Bad
<1>6. CASE i > Len(line) \/ line[i].word = Empty
  <2>1. from[i] = Turn(i, <<>>, <<>>) BY <1>5, <1>6 DEF Step
  <2> QED BY <1>1, <1>3, <2>1, NothingIsGood
<1>7. CASE ~(i > Len(line) \/ line[i].word = Empty)
  <2>1. i \in 1 .. Len(line) BY <1>3, <1>7, LineTyped
  <2> DEFINE t == TurnAt(line, i)
  <2>2. Good(t) /\ (t.ok => t.next \in i + 1 .. N) BY <1>7, <2>1, TurnIsGood
  <2>3. from[i] = IF t.ok THEN Before(t, from[t.next]) ELSE Throws
    BY <1>5, <1>7 DEF Step
  <2> HIDE DEF t
  <2>4. CASE t.ok
    <3>1. Good(from[t.next]) BY <1>4, <2>2, <2>4
    <3>2. Good(Before(t, from[t.next])) BY <2>2, <3>1, BeforeIsGood
    <3> QED BY <1>3, <2>3, <2>4, <3>2
  <2>5. CASE ~t.ok BY <1>3, <2>3, <2>5, ThrowsIsGood
  <2> QED BY <2>4, <2>5
<1> QED BY <1>6, <1>7

-----------------------------------------------------------------------------
(* Which arguments are values.                                             *)

(* Values follows the line from left to right: the argument behind an      *)
(* option that awaits one is its value, unless the option is one itself.   *)
LEMMA ValuesAlternate ==
  ASSUME NEW line \in Seq(Arguments)
  PROVE  /\ Values(line) \subseteq 2 .. Len(line)
         /\ \A i \in 1 .. Len(line) - 1 :
              i + 1 \in Values(line) <=>
                AwaitsValue(line[i]) /\ i \notin Values(line)
<1>1. Len(line) \in Nat BY LineTyped
<1> DEFINE Row(j, i) == /\ (i - j) % 2 = 1
                        /\ \A k \in j .. i - 1 : AwaitsValue(line[k])
                        /\ j = 1 \/ ~AwaitsValue(line[j - 1])
<1>2. \A i \in 2 .. Len(line) :
        i \in Values(line) <=> \E j \in 1 .. i - 1 : Row(j, i)
  BY DEF Values
<1>3. Values(line) \subseteq 2 .. Len(line) BY DEF Values
<1>4. ASSUME NEW i \in 1 .. Len(line) - 1, i + 1 \in Values(line)
      PROVE  AwaitsValue(line[i]) /\ i \notin Values(line)
  <2>1. PICK j \in 1 .. i : Row(j, i + 1) BY <1>1, <1>2, <1>4
  <2>2. AwaitsValue(line[i]) BY <1>1, <2>1
  <2>3. ASSUME i \in Values(line) PROVE FALSE
    <3>1. i \in 2 .. Len(line) BY <1>3, <2>3
    <3>2. PICK h \in 1 .. i - 1 : Row(h, i) BY <1>2, <2>3, <3>1
    <3>3. h = j
      <4>1. CASE h < j
        <5>1. j # 1 /\ j - 1 \in h .. i - 1 BY <1>1, <4>1
        <5> QED BY <2>1, <3>2, <5>1
      <4>2. CASE j < h
        <5>1. h # 1 /\ h - 1 \in j .. (i + 1) - 1 BY <1>1, <4>2
        <5> QED BY <2>1, <3>2, <5>1
      <4> QED BY <4>1, <4>2
    <3>4. (i - j) % 2 = 1 /\ (i + 1 - j) % 2 = 1 BY <2>1, <3>2, <3>3
    <3> QED BY <1>1, <3>4
  <2> QED BY <2>2, <2>3
<1>5. ASSUME NEW i \in 1 .. Len(line) - 1,
             AwaitsValue(line[i]), i \notin Values(line)
      PROVE  i + 1 \in Values(line)
  <2> DEFINE Starts == {j \in 1 .. i : \A k \in j .. i : AwaitsValue(line[k])}
  <2>1. Starts \subseteq Nat /\ i \in Starts BY <1>1, <1>5
  <2>2. PICK j \in Starts : \A y \in Starts : j <= y
    <3> HIDE DEF Starts
    <3> QED BY <2>1, MinIsLeast
  <2>3. j \in 1 .. i /\ \A k \in j .. i : AwaitsValue(line[k]) BY <2>2
  <2>4. j = 1 \/ ~AwaitsValue(line[j - 1])
    <3> SUFFICES ASSUME j # 1, AwaitsValue(line[j - 1]) PROVE FALSE OBVIOUS
    <3>1. j - 1 \in 1 .. i BY <1>1, <2>3
    <3>2. \A k \in j - 1 .. i : AwaitsValue(line[k])
      <4> SUFFICES ASSUME NEW k \in j - 1 .. i PROVE AwaitsValue(line[k])
        OBVIOUS
      <4>1. k = j - 1 \/ k \in j .. i BY <1>1, <2>3
      <4> QED BY <2>3, <4>1
    <3>3. j - 1 \in Starts /\ ~(j <= j - 1) BY <2>3, <3>1, <3>2
    <3> QED BY <2>2, <3>3
  <2>5. (i + 1 - j) % 2 = 1
    <3>1. CASE j = i BY <1>1, <2>3, <3>1
    <3>2. CASE j # i
      <4>1. i \in 2 .. Len(line) /\ j \in 1 .. i - 1 BY <1>1, <2>3, <3>2
      <4>2. (i - j) % 2 # 1 BY <1>2, <1>5, <2>3, <2>4, <4>1
      <4> QED BY <1>1, <2>3, <4>2
    <3> QED BY <3>1, <3>2
  <2>6. Row(j, i + 1) BY <1>1, <2>3, <2>4, <2>5
  <2>7. i + 1 \in 2 .. Len(line) /\ j \in 1 .. (i + 1) - 1 BY <1>1, <2>3
  <2> HIDE DEF Row
  <2> QED BY <1>2, <2>6, <2>7
<1> QED BY <1>3, <1>4, <1>5

(* A turn that starts at no value ends before none: what it skips is its   *)
(* own value.                                                              *)
LEMMA TurnSkipsItsValue ==
  ASSUME NEW line \in Seq(Arguments), NEW i \in 1 .. Len(line),
         line[i].word # Empty, i \notin Values(line), TurnAt(line, i).ok
  PROVE  LET n == TurnAt(line, i).next
         IN /\ n \in i + 1 .. Len(line) + 1
            /\ n \notin Values(line)
            /\ \A k \in i + 1 .. n - 1 : k \in Values(line)
            /\ n = IF AwaitsValue(line[i]) THEN i + 2 ELSE i + 1
<1> DEFINE t == TurnAt(line, i)
           arg == line[i]
<1>1. Len(line) \in Nat /\ i \in Nat /\ arg \in Arguments BY LineTyped
<1>2. t.next \in i + 1 .. Len(line) + 1 BY TurnIsGood
<1>3. TakesValue(arg) => arg.key \in OptionKeys
  BY <1>1, WhoTakesValue DEF OptionKeys
<1>4. CASE AwaitsValue(arg)
  <2>1. i # Len(line) /\ t = OptionTurn(cmd_line_spec[arg.key],
                                        Text(line[i + 1]), i + 2)
    BY <1>4, TurnCases, ThrowsIsGood
  <2>2. i + 1 \in 1 .. Len(line) /\ i \in 1 .. Len(line) - 1 /\ i + 2 \in Nat
    BY <1>1, <2>1
  <2>3. Text(line[i + 1]) \in Texts BY <2>2, LineTyped, ArgumentTyped
  <2>4. arg.key \in OptionKeys BY <1>3, <1>4 DEF AwaitsValue
  <2>5. t.next = i + 2
    <3> HIDE DEF t, arg
    <3> QED BY <2>1, <2>2, <2>3, <2>4, OptionTurnIsGood DEF t
  <2>6. i + 1 \in Values(line) BY <1>4, <2>2, ValuesAlternate
  <2>7. i + 2 \notin Values(line)
    <3>1. CASE i + 1 = Len(line)
      <4>1. i + 2 \notin 2 .. Len(line) BY <1>1, <3>1
      <4> QED BY <4>1, ValuesAlternate
    <3>2. CASE i + 1 # Len(line)
      <4>1. i + 1 \in 1 .. Len(line) - 1 /\ (i + 1) + 1 = i + 2
        BY <1>1, <2>2, <3>2
      <4> QED BY <2>6, <4>1, ValuesAlternate
    <3> QED BY <3>1, <3>2
  <2>8. \A k \in i + 1 .. (i + 2) - 1 : k = i + 1 BY <1>1
  <2> HIDE DEF t
  <2> QED BY <1>2, <1>4, <2>5, <2>6, <2>7, <2>8 DEF t
<1>5. CASE ~AwaitsValue(arg)
  <2>1. t.next = i + 1
    <3>1. CASE TakesValue(arg)
      <4>1. t = OptionTurn(cmd_line_spec[arg.key], arg.rest, i + 1)
        BY <1>5, <3>1, TurnCases DEF AwaitsValue
      <4>2. arg.rest \in Texts /\ i + 1 \in Nat BY <1>1, ArgumentTyped
      <4> HIDE DEF t, arg
      <4> QED BY <1>3, <3>1, <4>1, <4>2, OptionTurnIsGood DEF t
    <3>2. CASE ~TakesValue(arg)
      <4>1. t = LoneTurn(arg, i) BY <3>2, TurnCases
      <4> QED BY <1>1, <3>2, <4>1, LoneTurnIsGood
    <3> QED BY <3>1, <3>2
  <2>2. i + 1 \notin Values(line)
    <3>1. CASE i = Len(line)
      <4>1. i + 1 \notin 2 .. Len(line) BY <1>1, <3>1
      <4> QED BY <4>1, ValuesAlternate
    <3>2. CASE i # Len(line)
      <4>1. i \in 1 .. Len(line) - 1 BY <1>1, <3>2
      <4> QED BY <1>5, <4>1, ValuesAlternate
    <3> QED BY <3>1, <3>2
  <2>3. i + 1 .. (i + 1) - 1 = {} BY <1>1
  <2> HIDE DEF t
  <2> QED BY <1>2, <1>5, <2>1, <2>2, <2>3 DEF t
<1> QED BY <1>4, <1>5

-----------------------------------------------------------------------------
(* The rate.                                                               *)

IsRate(arg) == arg.dashes = 1 /\ arg.key = "f"

(* The number given with the -f at place i.                                *)
RateAt(line, i) == IF line[i].rest.word # Empty THEN line[i].rest.number
                   ELSE line[i + 1].number

(* The places of -f that the parser reaches from place i.                  *)
RatesFrom(line, i) ==
  {j \in i .. Len(line) :
     /\ j \notin Values(line)
     /\ IsRate(line[j])
     /\ \A k \in i .. j : line[k].word # Empty \/ k \in Values(line)}

(* What a turn finds: a rate where there is a -f, and nowhere else.        *)
LEMMA TurnFindsRate ==
  ASSUME NEW line \in Seq(Arguments), NEW i \in 1 .. Len(line),
         line[i].word # Empty, TurnAt(line, i).ok
  PROVE  LET s == TurnAt(line, i).options
         IN /\ IsRate(line[i]) =>
                 \E o \in Option : /\ s = <<o>> /\ o.option = "frame_rate"
                                   /\ o.value.number = RateAt(line, i)
            /\ ~IsRate(line[i]) =>
                 s = <<>> \/ \E o \in Option : s = <<o>>
                                               /\ o.option # "frame_rate"
<1> DEFINE t == TurnAt(line, i)
           arg == line[i]
<1>1. Len(line) \in Nat /\ i \in Nat /\ arg \in Arguments BY LineTyped
<1>2. TakesValue(arg) => arg.key \in OptionKeys
  BY <1>1, WhoTakesValue DEF OptionKeys
<1>3. ASSUME TakesValue(arg), NEW v \in Texts, NEW n \in Nat,
             t = OptionTurn(cmd_line_spec[arg.key], v, n),
             v.number = RateAt(line, i)
      PROVE  \E o \in Option : /\ t.options = <<o>>
                               /\ o.option = "frame_rate" <=> IsRate(arg)
                               /\ o.value.number = RateAt(line, i)
  <2> DEFINE o == [option |-> cmd_line_spec[arg.key].option, value |-> v]
  <2>1. arg.key \in OptionKeys /\ arg.dashes = 1
    BY <1>1, <1>2, <1>3, WhoTakesValue
  <2>2. t.options = <<o>>
    <3>1. t.ok OBVIOUS
    <3> DEFINE u == OptionTurn(cmd_line_spec[arg.key], v, n)
    <3>2. u.ok => u.options = <<o>> BY <2>1, OptionTurnIsGood
    <3>3. t = u BY <1>3
    <3> HIDE DEF t, arg, o, u
    <3> QED BY <3>1, <3>2, <3>3
  <2>3. /\ cmd_line_spec[arg.key].option \in OptionNames
        /\ cmd_line_spec[arg.key].option = "frame_rate" <=> arg.key = "f"
    BY <2>1, TheOptions
  <2>4. o \in Option /\ o.option = cmd_line_spec[arg.key].option /\ o.value = v
    BY <2>3 DEF Option
  <2> HIDE DEF o, t, arg
  <2> QED BY <1>3, <2>1, <2>2, <2>3, <2>4 DEF IsRate
<1>4. CASE TakesValue(arg) /\ arg.rest.word # Empty
  <2>1. t = OptionTurn(cmd_line_spec[arg.key], arg.rest, i + 1)
    BY <1>4, TurnCases
  <2>2. arg.rest \in Texts /\ i + 1 \in Nat BY <1>1, ArgumentTyped
  <2>3. arg.rest.number = RateAt(line, i) BY <1>4 DEF RateAt
  <2> HIDE DEF t, arg
  <2>4. \E o \in Option : /\ t.options = <<o>>
                          /\ o.option = "frame_rate" <=> IsRate(arg)
                          /\ o.value.number = RateAt(line, i)
    BY <1>3, <1>4, <2>1, <2>2, <2>3
  <2> QED BY <2>4 DEF t, arg
<1>5. CASE AwaitsValue(arg)
  <2>1. i # Len(line) /\ t = OptionTurn(cmd_line_spec[arg.key],
                                        Text(line[i + 1]), i + 2)
    BY <1>5, TurnCases, ThrowsIsGood
  <2>2. i + 1 \in 1 .. Len(line) /\ i + 2 \in Nat BY <1>1, <2>1
  <2>3. Text(line[i + 1]) \in Texts BY <2>2, LineTyped, ArgumentTyped
  <2>4. Text(line[i + 1]).number = RateAt(line, i)
    BY <1>5 DEF RateAt, Text, AwaitsValue
  <2>5. TakesValue(arg) BY <1>5 DEF AwaitsValue
  <2> HIDE DEF t, arg
  <2>6. \E o \in Option : /\ t.options = <<o>>
                          /\ o.option = "frame_rate" <=> IsRate(arg)
                          /\ o.value.number = RateAt(line, i)
    BY <1>3, <2>1, <2>2, <2>3, <2>4, <2>5
  <2> QED BY <2>6 DEF t, arg
<1>6. CASE ~TakesValue(arg)
  <2>1. t = LoneTurn(arg, i) BY <1>6, TurnCases
  <2>2. ~IsRate(arg) BY <1>1, <1>6, WhoTakesValue DEF IsRate
  <2>3. CASE ~IsOption(arg)
    <3>1. t.options = <<>> BY <2>1, <2>3 DEF LoneTurn, Turn
    <3> QED BY <2>2, <3>1
  <2>4. CASE IsOption(arg)
    <3> DEFINE o == [option |-> cmd_line_spec[arg.key].option,
                     value |-> NoValue]
    <3>1. /\ arg.dashes = 1 /\ arg.key \in OptionKeys
          /\ t = Turn(i + 1, <<o>>, <<>>)
      BY <2>1, <2>4, ThrowsIsGood DEF LoneTurn
    <3>2. t.options = <<o>> BY <3>1 DEF Turn
    <3>3. arg.key # "f" BY <2>2, <3>1 DEF IsRate
    <3>4. /\ cmd_line_spec[arg.key].option \in OptionNames
          /\ cmd_line_spec[arg.key].option # "frame_rate"
      BY <3>1, <3>3, TheOptions
    <3>5. o \in Option /\ o.option # "frame_rate"
      BY <3>4, NoValueTyped DEF Option
    <3> HIDE DEF o
    <3> QED BY <2>2, <3>2, <3>5
  <2> QED BY <2>3, <2>4
<1> QED BY <1>4, <1>5, <1>6 DEF AwaitsValue

(* The first value of an option in a sequence of options.                  *)
FirstValue(s, opt, default) ==
  LET places == {k \in DOMAIN s : s[k].option = opt}
  IN IF places # {} THEN s[Min(places)].value ELSE default

LEMMA OptionsInFront ==
  ASSUME NEW o \in Option, NEW s \in Seq(Option), NEW opt, NEW default
  PROVE  FirstValue(<<o>> \o s, opt, default) =
           IF o.option = opt THEN o.value ELSE FirstValue(s, opt, default)
<1> DEFINE q == <<o>> \o s
           P == {k \in DOMAIN s : s[k].option = opt}
           Q == {k \in DOMAIN q : q[k].option = opt}
<1>1. /\ Len(s) \in Nat /\ DOMAIN s = 1 .. Len(s)
      /\ DOMAIN q = 1 .. Len(s) + 1 /\ q[1] = o
      /\ \A k \in 1 .. Len(s) : q[k + 1] = s[k]
  OBVIOUS
<1> HIDE DEF q
<1>2. P \subseteq Nat /\ Q \subseteq Nat BY <1>1
<1>3. \A k \in 1 .. Len(s) : k \in P <=> k + 1 \in Q BY <1>1
<1>4. CASE o.option = opt
  <2>1. 1 \in Q /\ \A k \in Q : 1 <= k BY <1>1, <1>4
  <2>2. Min(Q) = 1
    <3>1. Min(Q) \in Q /\ Min(Q) <= 1 BY <1>2, <2>1, MinIsLeast
    <3>2. Min(Q) \in Nat /\ 1 <= Min(Q) BY <1>2, <2>1, <3>1
    <3> HIDE DEF Q
    <3> QED BY <3>1, <3>2
  <2> QED BY <1>1, <1>4, <2>1, <2>2 DEF FirstValue, q
<1>5. CASE o.option # opt
  <2>1. 1 \notin Q BY <1>1, <1>5
  <2>2. \A k \in Q : k - 1 \in P BY <1>1, <2>1
  <2>3. CASE P = {}
    <3>1. Q = {} BY <2>2, <2>3
    <3> QED BY <1>5, <2>3, <3>1 DEF FirstValue, q
  <2>4. CASE P # {}
    <3>1. Min(P) \in P /\ \A y \in P : Min(P) <= y BY <1>2, <2>4, MinIsLeast
    <3>2. Min(P) \in 1 .. Len(s) /\ Min(P) + 1 \in Q BY <1>1, <1>3, <3>1
    <3>3. Min(Q) \in Q /\ \A y \in Q : Min(Q) <= y BY <1>2, <3>2, MinIsLeast
    <3>4. Min(Q) <= Min(P) + 1 BY <3>2, <3>3
    <3>5. Min(P) <= Min(Q) - 1 BY <2>2, <3>1, <3>3
    <3>6. Min(Q) = Min(P) + 1
      <4>1. Min(P) \in Nat /\ Min(Q) \in Nat BY <1>2, <3>1, <3>3
      <4> HIDE DEF P, Q
      <4> QED BY <3>4, <3>5, <4>1
    <3>7. q[Min(Q)] = s[Min(P)] BY <1>1, <3>2, <3>6
    <3>8. FirstValue(s, opt, default) = s[Min(P)].value
      BY <2>4 DEF FirstValue
    <3>9. FirstValue(q, opt, default) = q[Min(Q)].value
      BY <3>2 DEF FirstValue
    <3> HIDE DEF P, Q
    <3> QED BY <1>5, <3>7, <3>8, <3>9 DEF q
  <2> QED BY <2>3, <2>4
<1> QED BY <1>4, <1>5

LEMMA NoOptions ==
  ASSUME NEW opt, NEW default
  PROVE  FirstValue(<<>>, opt, default) = default
<1> QED BY DEF FirstValue

(* What is asked for from place i on.                                      *)
AskedFrom(line, i) ==
  IF RatesFrom(line, i) = {} THEN 60 ELSE RateAt(line, Min(RatesFrom(line, i)))

Sixty == [word |-> "60", number |-> 60]

LEMMA RatesAhead ==
  ASSUME NEW line \in Seq(Arguments), NEW i \in 1 .. Len(line),
         line[i].word # Empty, i \notin Values(line),
         NEW n \in i + 1 .. Len(line) + 1,
         \A k \in i + 1 .. n - 1 : k \in Values(line)
  PROVE  /\ IsRate(line[i]) => AskedFrom(line, i) = RateAt(line, i)
         /\ ~IsRate(line[i]) => AskedFrom(line, i) = AskedFrom(line, n)
<1>1. Len(line) \in Nat /\ i \in Nat BY LineTyped
<1>2. CASE IsRate(line[i])
  <2> DEFINE R == RatesFrom(line, i)
  <2>1. i \in R /\ R \subseteq Nat /\ \A j \in R : i <= j
    BY <1>1, <1>2 DEF RatesFrom
  <2> HIDE DEF R
  <2>2. Min(R) \in R /\ Min(R) <= i BY <2>1, MinIsLeast
  <2>3. Min(R) \in Nat /\ i <= Min(R) BY <2>1, <2>2
  <2>4. Min(R) = i BY <1>1, <2>2, <2>3
  <2> QED BY <1>2, <2>1, <2>4 DEF AskedFrom, R
<1>3. CASE ~IsRate(line[i])
  <2>1. ASSUME NEW j \in RatesFrom(line, i) PROVE j \in RatesFrom(line, n)
    <3>1. /\ j \in i .. Len(line) /\ j \notin Values(line) /\ IsRate(line[j])
          /\ \A k \in i .. j : line[k].word # Empty \/ k \in Values(line)
      BY <2>1 DEF RatesFrom
    <3>2. j # i /\ j \notin i + 1 .. n - 1 BY <1>3, <3>1
    <3>3. j \in n .. Len(line) /\ \A k \in n .. j : k \in i .. j
      BY <1>1, <3>1, <3>2
    <3> QED BY <3>1, <3>3 DEF RatesFrom
  <2>2. ASSUME NEW j \in RatesFrom(line, n) PROVE j \in RatesFrom(line, i)
    <3>1. /\ j \in n .. Len(line) /\ j \notin Values(line) /\ IsRate(line[j])
          /\ \A k \in n .. j : line[k].word # Empty \/ k \in Values(line)
      BY <2>2 DEF RatesFrom
    <3>2. /\ j \in i .. Len(line)
          /\ \A k \in i .. j : k = i \/ k \in i + 1 .. n - 1 \/ k \in n .. j
      BY <1>1, <3>1
    <3> QED BY <3>1, <3>2 DEF RatesFrom
  <2>3. RatesFrom(line, i) = RatesFrom(line, n) BY <2>1, <2>2
  <2> QED BY <1>3, <2>3 DEF AskedFrom
<1> QED BY <1>2, <1>3

(* The first value the parser has for the rate is the first one asked for. *)
LEMMA ParseFindsRate ==
  ASSUME NEW line \in Seq(Arguments)
  PROVE  \A i \in (1 .. Len(line) + 1) \ Values(line) :
           ParseFrom(line)[i].ok =>
             FirstValue(ParseFrom(line)[i].options, "frame_rate", Sixty).number
               = AskedFrom(line, i)
<1> DEFINE N == Len(line) + 1
           from == ParseFrom(line)
           Found(i) ==
             FirstValue(from[i].options, "frame_rate", Sixty).number
               = AskedFrom(line, i)
           Bad == {i \in 1 .. N :
                     i \notin Values(line) /\ from[i].ok /\ ~Found(i)}
<1>1. N \in Nat BY LineTyped
<1> SUFFICES ASSUME Bad # {} PROVE FALSE OBVIOUS
<1>2. PICK i \in Bad : \A y \in Bad : y <= i
  <2>1. Bad \subseteq 0 .. N BY <1>1
  <2> HIDE DEF Bad
  <2> QED BY <1>1, <2>1, GreatestExists
<1>3. i \in 1 .. N /\ i \notin Values(line) /\ from[i].ok /\ ~Found(i) BY <1>2
<1>4. ASSUME NEW n \in i + 1 .. N, n \notin Values(line), from[n].ok
      PROVE  Found(n)
  <2> SUFFICES ASSUME ~Found(n) PROVE FALSE OBVIOUS
  <2>1. n \in Bad /\ ~(n <= i) BY <1>1, <1>3, <1>4
  <2> QED BY <1>2, <2>1
<1>5. from[i] = Step(line, from, i) BY <1>3, ParseUnfolds
<1>6. \A n \in 1 .. N : Good(from[n]) BY ParseIsGood
<1> HIDE DEF from, Bad
<1>7. CASE i > Len(line) \/ line[i].word = Empty
  <2>1. from[i] = Turn(i, <<>>, <<>>) BY <1>5, <1>7 DEF Step
  <2>2. from[i].options = <<>> BY <1>1, <1>3, <2>1 DEF Turn
  <2>3. RatesFrom(line, i) = {}
    <3>1. i > Len(line) => i .. Len(line) = {} BY <1>1, <1>3
    <3>2. \A j \in i .. Len(line) : i \in i .. j BY <1>1, <1>3
    <3> QED BY <1>3, <1>7, <3>1, <3>2 DEF RatesFrom
  <2>4. Sixty.number = 60 BY DEF Sixty
  <2> QED BY <1>3, <2>2, <2>3, <2>4, NoOptions DEF AskedFrom
<1>8. CASE ~(i > Len(line) \/ line[i].word = Empty)
  <2>1. i \in 1 .. Len(line) BY <1>3, <1>8, LineTyped
  <2> DEFINE t == TurnAt(line, i)
             n == t.next
  <2>2. Good(t) BY <1>8, <2>1, TurnIsGood
  <2>3. t.ok /\ from[i] = Before(t, from[n])
    <3>1. from[i] = IF t.ok THEN Before(t, from[n]) ELSE Throws
      BY <1>5, <1>8 DEF Step
    <3> HIDE DEF t
    <3>2. from[i] # Throws BY <1>3, ThrowsIsGood
    <3> QED BY <3>1, <3>2
  <2>4. /\ n \in i + 1 .. N /\ n \notin Values(line)
        /\ \A k \in i + 1 .. n - 1 : k \in Values(line)
    BY <1>3, <1>8, <2>1, <2>3, TurnSkipsItsValue
  <2>5. /\ IsRate(line[i]) =>
             \E o \in Option : /\ t.options = <<o>> /\ o.option = "frame_rate"
                               /\ o.value.number = RateAt(line, i)
        /\ ~IsRate(line[i]) =>
             t.options = <<>> \/ \E o \in Option : t.options = <<o>>
                                                   /\ o.option # "frame_rate"
    BY <1>8, <2>1, <2>3, TurnFindsRate
  <2>6. /\ IsRate(line[i]) => AskedFrom(line, i) = RateAt(line, i)
        /\ ~IsRate(line[i]) => AskedFrom(line, i) = AskedFrom(line, n)
    BY <1>3, <1>8, <2>1, <2>4, RatesAhead
  <2>7. Good(from[n])
    <3>1. n \in 1 .. N BY <1>1, <1>3, <2>4
    <3> QED BY <1>6, <3>1
  <2>8. from[n].options \in Seq(Option) BY <2>7 DEF Good, Outcomes
  <2>9. /\ from[n].ok = from[i].ok
        /\ from[i].options = t.options \o from[n].options
    <3> DEFINE b == Before(t, from[n])
    <3> HIDE DEF t, n
    <3>1. b.ok = from[n].ok /\ b.options = t.options \o from[n].options
      BY <2>2, <2>7, BeforeIsGood
    <3>2. from[i] = b BY <2>3
    <3> HIDE DEF b
    <3> QED BY <3>1, <3>2
  <2>10. Found(n) BY <1>3, <1>4, <2>4, <2>9
  <2>11. CASE IsRate(line[i])
    <3>1. PICK o \in Option : /\ t.options = <<o>> /\ o.option = "frame_rate"
                              /\ o.value.number = RateAt(line, i)
      BY <2>5, <2>11
    <3> HIDE DEF t
    <3>2. FirstValue(from[i].options, "frame_rate", Sixty) = o.value
      BY <2>8, <2>9, <3>1, OptionsInFront
    <3> QED BY <1>3, <2>6, <2>11, <3>1, <3>2
  <2>12. CASE ~IsRate(line[i])
    <3> HIDE DEF t
    <3>1. FirstValue(from[i].options, "frame_rate", Sixty) =
            FirstValue(from[n].options, "frame_rate", Sixty)
      <4>1. CASE t.options = <<>>
        <5>1. from[i].options = from[n].options BY <2>8, <2>9, <4>1
        <5> QED BY <5>1
      <4>2. CASE \E o \in Option : t.options = <<o>>
                                   /\ o.option # "frame_rate"
        <5>1. PICK o \in Option : t.options = <<o>> /\ o.option # "frame_rate"
          BY <4>2
        <5> HIDE DEF n
        <5> QED BY <2>8, <2>9, <5>1, OptionsInFront
      <4> QED BY <2>5, <2>12, <4>1, <4>2
    <3> QED BY <1>3, <2>6, <2>10, <2>12, <3>1
  <2> QED BY <2>11, <2>12
<1> QED BY <1>7, <1>8

-----------------------------------------------------------------------------
(* Single precision, for frame times between 14 and 50 ms.                 *)

LEMMA ThePowers == PowersOfTwo = {1, 2, 4, 8, 16, 32, 64}
<1>1. /\ 2^0 = 1 /\ 2^1 = 2 /\ 2^2 = 4 /\ 2^3 = 8 /\ 2^4 = 16 /\ 2^5 = 32
      /\ 2^6 = 64
  BY SMT
<1>2. 0 .. 6 = {0, 1, 2, 3, 4, 5, 6} BY SMT
<1>3. PowersOfTwo = {2^k : k \in {0, 1, 2, 3, 4, 5, 6}}
  BY <1>2, Zenon DEF PowersOfTwo
<1>4. {2^k : k \in {0, 1, 2, 3, 4, 5, 6}} = {2^0, 2^1, 2^2, 2^3, 2^4, 2^5, 2^6}
  BY ZenonT(30)
<1> QED BY <1>1, <1>3, <1>4, Zenon

LEMMA SpacingIs ==
  ASSUME NEW n \in Nat, NEW s \in {1, 2, 4, 8, 16, 32, 64},
         n < s * 16777216, s > 1 => n >= (s \div 2) * 16777216
  PROVE  Spacing(n) = s
<1> DEFINE P(x) == n < x * 2^24 /\ (x > 1 => n >= (x \div 2) * 2^24)
<1>1. P(s) BY SMT
<1>2. ASSUME NEW x \in {1, 2, 4, 8, 16, 32, 64}, P(x) PROVE x = s
  BY <1>2, SMT
<1> QED BY <1>1, <1>2, ThePowers, SMT DEF Spacing

(* What a quotient between q and q + 1 is truncated to.                    *)
Truncation(a, b, q) ==
  IF (q + 1) * b - a <= b \div (IF q < 32 THEN 1048576
                                ELSE IF q < 64 THEN 524288 ELSE 262144)
  THEN q + 1 ELSE q

LEMMA QuotientIs ==
  ASSUME NEW a \in Nat, NEW b \in Nat, b > 0,
         NEW q \in Nat, 16 <= q, q <= 127, a \div b = q
  PROVE  TruncatedQuotient(a, b) = Truncation(a, b, q)
<1> DEFINE p == CHOOSE p \in PowersOfTwo : p <= a \div b /\ a \div b < 2 * p
<1>1. p = IF q < 32 THEN 16 ELSE IF q < 64 THEN 32 ELSE 64
  BY ThePowers, SMT
<1>2. TruncatedQuotient(a, b) =
        IF (a \div b + 1) * b - a <= b \div (2^24 \div p)
        THEN a \div b + 1 ELSE a \div b
  BY DEF TruncatedQuotient
<1>3. 2^24 = 16777216 BY SMT
<1> HIDE DEF p
<1> QED BY <1>1, <1>2, <1>3, SMT DEF Truncation

LEMMA FloatIs ==
  ASSUME NEW n \in Nat
  PROVE  /\ n < 16777216 => Float(n) = n
         /\ 16777216 <= n /\ n < 33554432 =>
              Float(n) = IF n % 2 = 0 THEN n
                         ELSE IF (n \div 2) % 2 = 0 THEN n - 1 ELSE n + 1
         /\ 33554432 <= n /\ n < 67108864 =>
              Float(n) = IF n % 4 = 0 THEN n
                         ELSE IF n % 4 = 1 THEN n - 1
                         ELSE IF n % 4 = 3 THEN n + 1
                         ELSE IF (n \div 4) % 2 = 0 THEN n - 2 ELSE n + 2
<1>1. n < 16777216 => Spacing(n) = 1 BY SpacingIs, SMT
<1>2. 16777216 <= n /\ n < 33554432 => Spacing(n) = 2 BY SpacingIs, SMT
<1>3. 33554432 <= n /\ n < 67108864 => Spacing(n) = 4 BY SpacingIs, SMT
<1>4. n < 16777216 => Float(n) = n BY <1>1, SMT DEF Float
<1>5. 16777216 <= n /\ n < 33554432 =>
              Float(n) = IF n % 2 = 0 THEN n
                         ELSE IF (n \div 2) % 2 = 0 THEN n - 1 ELSE n + 1
  BY <1>2, SMT DEF Float
<1>6. 33554432 <= n /\ n < 67108864 =>
              Float(n) = IF n % 4 = 0 THEN n
                         ELSE IF n % 4 = 1 THEN n - 1
                         ELSE IF n % 4 = 3 THEN n + 1
                         ELSE IF (n \div 4) % 2 = 0 THEN n - 2 ELSE n + 2
  BY <1>3, SMT DEF Float
<1> QED BY <1>4, <1>5, <1>6, SMT

LEMMA FloatSecond == Float(1000000000) = 1000000000
<1>1. Spacing(1000000000) = 64 BY SpacingIs, SMT
<1> QED BY <1>1, SMT DEF Float

(* b is the float nearest to the frame time n.                             *)
RoundedTo(n, b) ==
  /\ n \in Nat /\ n < 67108864
  /\ b = IF n < 16777216 THEN n
         ELSE IF n < 33554432
         THEN IF n % 2 = 0 THEN n
              ELSE IF (n \div 2) % 2 = 0 THEN n - 1 ELSE n + 1
         ELSE IF n % 4 = 0 THEN n
              ELSE IF n % 4 = 1 THEN n - 1
              ELSE IF n % 4 = 3 THEN n + 1
              ELSE IF (n \div 4) % 2 = 0 THEN n - 2 ELSE n + 2

(* The truncated quotient of a second and the float b.                     *)
RateOf(b) == Truncation(1000000000, b, 1000000000 \div b)

LEMMA RatioIs ==
  ASSUME NEW n \in Nat, 14000000 <= n, n <= 50000000
  PROVE  /\ RoundedTo(n, Float(n))
         /\ fps_ratio(n) = RateOf(Float(n))
<1> DEFINE b == Float(n)
<1>1. RoundedTo(n, b) BY FloatIs, SMT DEF RoundedTo
<1>2. b \in Nat /\ 13000000 <= b /\ b <= 50000010 BY <1>1, SMT DEF RoundedTo
<1>3. fps_ratio(n) = TruncatedQuotient(1000000000, b)
  BY FloatSecond DEF fps_ratio, kNsPerSec
<1> DEFINE q == 1000000000 \div b
<1> HIDE DEF b
<1>4. q \in Nat /\ 16 <= q /\ q <= 127 /\ b > 0 BY <1>2, SMT
<1>5. fps_ratio(n) = Truncation(1000000000, b, q)
  <2> DEFINE a == 1000000000
  <2>1. a \in Nat /\ a \div b = q /\ b \in Nat BY <1>2, SMT
  <2> HIDE DEF a, q
  <2>2. TruncatedQuotient(a, b) = Truncation(a, b, q)
    BY <1>4, <2>1, QuotientIs
  <2> QED BY <1>3, <2>2, SMT DEF a
<1>6. fps_ratio(n) = RateOf(b) BY <1>5 DEF RateOf
<1> QED BY <1>1, <1>6 DEF b

(* RateWithinOne.                                                          *)
Agrees(r, b) ==
  /\ r * b <= 1000000000 + 2 * r
  /\ (r + 1) * b > 1000000000 - 2 * r

(* The frame times of all rates the command line accepts.                  *)
LEMMA AcceptedRates ==
  ASSUME NEW f \in 20 .. 70, NEW b, RoundedTo(1000000000 \div f, b)
  PROVE  /\ RateOf(b) = IF f \in {29, 51, 58} THEN f - 1 ELSE f
         /\ Agrees(RateOf(b), b)
         /\ b \in Nat /\ b <= 50000000
         /\ b * f <= 1000000000 + 2 * f
         /\ b * f >= 1000000000 - 3 * f
<1>1. RateOf(b) = IF f \in {29, 51, 58} THEN f - 1 ELSE f
  <2>1. CASE f \in 20 .. 29 BY <2>1, SMT DEF RoundedTo, RateOf, Truncation
  <2>2. CASE f \in 30 .. 44 BY <2>2, SMT DEF RoundedTo, RateOf, Truncation
  <2>3. CASE f \in 45 .. 59 BY <2>3, SMT DEF RoundedTo, RateOf, Truncation
  <2>4. CASE f \in 60 .. 70 BY <2>4, SMT DEF RoundedTo, RateOf, Truncation
  <2> QED BY <2>1, <2>2, <2>3, <2>4, SMT
<1>2. Agrees(IF f \in {29, 51, 58} THEN f - 1 ELSE f, b)
  BY SMT DEF RoundedTo, Agrees
<1>3. /\ b \in Nat /\ b <= 50000000
      /\ b * f <= 1000000000 + 2 * f
      /\ b * f >= 1000000000 - 3 * f
  BY SMT DEF RoundedTo
<1> QED BY <1>1, <1>2, <1>3, SMT

(* The frame times of whole milliseconds that they can be truncated to.    *)
LEMMA WholeMilliseconds ==
  ASSUME NEW m \in 14 .. 50, NEW b, RoundedTo(m * 1000000, b)
  PROVE  /\ b = m * 1000000
         /\ RateOf(b) = 1000 \div m
         /\ RateOf(b) \in 20 .. 71
         /\ Agrees(RateOf(b), b)
<1>1. b = m * 1000000 /\ RateOf(b) = 1000 \div m
  BY SMT DEF RoundedTo, RateOf, Truncation
<1>2. 1000 \div m \in 20 .. 71 /\ Agrees(1000 \div m, b)
  BY SMT DEF RoundedTo, Agrees
<1> QED BY <1>1, <1>2, SMT

-----------------------------------------------------------------------------
(* The parameters.                                                         *)

LEMMA ParametersOfLine ==
  ASSUME NEW line \in Seq(Arguments), parse_cmd_line(line).ok
  PROVE  LET c == parse_cmd_line(line)
             r == get_option_value(c, "frame_rate", Sixty).number
             s == get_option_value(c, "sample_rate",
                                   [word |-> "48000", number |-> 48000]).number
             v == get_option_value(c, "video_encoder",
                    [word |-> "hevc_nvenc", number |-> NoNumber]).word
         IN /\ r = AskedFrom(line, 1)
            /\ AskedFrom(line, 1) \in 20 .. 70
            /\ s \in Nat /\ 8000 <= s /\ s <= 48000
            /\ v \in {"h264_nvenc", "hevc_nvenc", Empty}
            /\ c.args # <<>> => c.args[1] # Empty
<1> DEFINE c == parse_cmd_line(line)
           q == c.options
<1>1. 1 \in (1 .. Len(line) + 1) \ Values(line) /\ c = ParseFrom(line)[1]
  BY LineTyped, ValuesAlternate DEF parse_cmd_line
<1>2. Good(c) BY <1>1, ParseIsGood
<1>3. /\ q \in Seq(Option) /\ c.args \in Seq(Words)
      /\ \A k \in 1 .. Len(q) : Valid(q[k])
      /\ \A k \in 1 .. Len(c.args) : c.args[k] # Empty
  BY <1>2 DEF Good, Outcomes
<1>4. \A opt, d : get_option_value(c, opt, d) = FirstValue(q, opt, d)
  BY DEF get_option_value, has_option, Places, FirstValue
<1>5. FirstValue(q, "frame_rate", Sixty).number = AskedFrom(line, 1)
  BY <1>1, ParseFindsRate
<1> HIDE DEF c
<1>6. ASSUME NEW opt, NEW d
      PROVE  \/ FirstValue(q, opt, d) = d
             \/ \E o \in Option : /\ Valid(o) /\ o.option = opt
                                  /\ FirstValue(q, opt, d) = o.value
  <2> DEFINE P == {k \in DOMAIN q : q[k].option = opt}
  <2> SUFFICES ASSUME P # {}
               PROVE  \E o \in Option : /\ Valid(o) /\ o.option = opt
                                        /\ FirstValue(q, opt, d) = o.value
    BY DEF FirstValue
  <2>1. P \subseteq Nat /\ DOMAIN q = 1 .. Len(q) BY <1>3
  <2>2. Min(P) \in P BY <2>1, MinIsLeast
  <2>3. Min(P) \in 1 .. Len(q) /\ q[Min(P)].option = opt BY <2>1, <2>2
  <2>4. FirstValue(q, opt, d) = q[Min(P)].value BY DEF FirstValue
  <2> HIDE DEF P, q
  <2>5. q[Min(P)] \in Option /\ Valid(q[Min(P)]) BY <1>3, <2>3 DEF q
  <2> QED BY <2>3, <2>4, <2>5
<1> HIDE DEF q
<1>7. LET r == FirstValue(q, "frame_rate", Sixty).number IN r \in 20 .. 70
  <2> DEFINE r == FirstValue(q, "frame_rate", Sixty).number
  <2>1. r = 60 \/ \E o \in Option : /\ Valid(o) /\ o.option = "frame_rate"
                                    /\ r = o.value.number
    BY <1>6 DEF Sixty
  <2> HIDE DEF r
  <2>2. r \in Int /\ 20 <= r /\ r <= 70 BY <2>1 DEF Valid, ValidNumber
  <2>3. r \in 20 .. 70 BY <2>2
  <2> QED BY <2>3 DEF r
<1>8. LET s == FirstValue(q, "sample_rate",
                          [word |-> "48000", number |-> 48000]).number
      IN s \in Nat /\ 8000 <= s /\ s <= 48000
  <2> DEFINE d == [word |-> "48000", number |-> 48000]
             s == FirstValue(q, "sample_rate", d).number
  <2>1. d.number = 48000 OBVIOUS
  <2> HIDE DEF d
  <2>2. s = 48000 \/ \E o \in Option : /\ Valid(o) /\ o.option = "sample_rate"
                                       /\ s = o.value.number
    BY <1>6, <2>1
  <2> HIDE DEF s
  <2>3. s \in Int /\ 8000 <= s /\ s <= 48000
    BY <2>2, SMT DEF Valid, ValidNumber
  <2> QED BY <2>3, SMT DEF s, d
<1>9. LET v == FirstValue(q, "video_encoder",
                          [word |-> "hevc_nvenc", number |-> NoNumber]).word
      IN v \in {"h264_nvenc", "hevc_nvenc", Empty}
  <2> DEFINE d == [word |-> "hevc_nvenc", number |-> NoNumber]
             v == FirstValue(q, "video_encoder", d).word
  <2>1. d.word = "hevc_nvenc" OBVIOUS
  <2> HIDE DEF d
  <2>2. v = "hevc_nvenc" \/
        \E o \in Option : /\ Valid(o) /\ o.option = "video_encoder"
                          /\ v = o.value.word
    <3>1. v = d.word \/ \E o \in Option : /\ Valid(o)
                                          /\ o.option = "video_encoder"
                                          /\ v = o.value.word
      BY <1>6
    <3> HIDE DEF v
    <3> QED BY <2>1, <3>1
  <2> HIDE DEF v
  <2>3. v \in {"h264_nvenc", "hevc_nvenc", Empty}
    BY <2>2 DEF Valid, ValidWord
  <2> QED BY <2>3 DEF v, d
<1>10. c.args # <<>> => c.args[1] # Empty
  <2>1. c.args # <<>> => 1 \in 1 .. Len(c.args) BY <1>3
  <2> QED BY <1>3, <2>1
<1> DEFINE r == get_option_value(c, "frame_rate", Sixty).number
           s == get_option_value(c, "sample_rate",
                                 [word |-> "48000", number |-> 48000]).number
           v == get_option_value(c, "video_encoder",
                  [word |-> "hevc_nvenc", number |-> NoNumber]).word
<1>11. r = AskedFrom(line, 1) /\ r \in 20 .. 70
  <2>1. r = FirstValue(q, "frame_rate", Sixty).number BY <1>4, Zenon
  <2> HIDE DEF r
  <2> QED BY <1>5, <1>7, <2>1
<1>12. s \in Nat /\ 8000 <= s /\ s <= 48000
  <2> DEFINE d == [word |-> "48000", number |-> 48000]
  <2>1. /\ FirstValue(q, "sample_rate", d).number \in Nat
        /\ 8000 <= FirstValue(q, "sample_rate", d).number
        /\ FirstValue(q, "sample_rate", d).number <= 48000
    BY <1>8, SMT
  <2>2. s = get_option_value(c, "sample_rate", d).number BY SMT
  <2> HIDE DEF s, d
  <2>3. s = FirstValue(q, "sample_rate", d).number BY <1>4, <2>2
  <2> QED BY <2>1, <2>3, SMT
<1>13. v \in {"h264_nvenc", "hevc_nvenc", Empty} BY <1>4, <1>9, Zenon
<1> HIDE DEF r, s, v
<1>14. /\ r = AskedFrom(line, 1)
       /\ AskedFrom(line, 1) \in 20 .. 70
       /\ s \in Nat /\ 8000 <= s /\ s <= 48000
       /\ v \in {"h264_nvenc", "hevc_nvenc", Empty}
       /\ c.args # <<>> => c.args[1] # Empty
  BY <1>10, <1>11, <1>12, <1>13, SMT
<1> QED BY <1>14, SMT DEF c, r, s, v

LEMMA RateOfLine ==
  ASSUME NEW line \in Seq(Arguments), parse_cmd_line(line).ok
  PROVE  /\ get_option_value(parse_cmd_line(line), "frame_rate", Sixty).number
              = AskedFrom(line, 1)
         /\ AskedFrom(line, 1) \in 20 .. 70
<1> QED BY ParametersOfLine

LEMMA RequestedIsAsked == Requested = AskedFrom(argv, 1)
<1>1. {i \in LookedAt(argv) \ Values(argv) :
         argv[i].dashes = 1 /\ argv[i].key = "f"} = RatesFrom(argv, 1)
  BY DEF LookedAt, RatesFrom, IsRate
<1> QED BY <1>1 DEF Requested, AskedFrom, RateAt

-----------------------------------------------------------------------------
(* The inductive invariant.                                                *)

Early == {"parse", "params", "error", "help", "version"}
Middle == {"env", "platform"}
Late == {"adjust", "session", "setup", "ready", "terminated"}

Truncated == platform = "x11" /\ ~params.strict_frame_time

(* Parameters exist from get_parameters on, come from a line that was      *)
(* accepted, and change in two places only: the environment before, the    *)
(* platform after which the frame time may be truncated.                   *)
Parsed ==
  /\ stage = "params" => parse_cmd_line(argv).ok
  /\ stage \in Middle \cup Late =>
       /\ Requested \in 20 .. 70
       /\ params.frame_time =
            IF stage \in Late \ {"adjust"} /\ Truncated
            THEN truncate_to_millisecond(from_fps(Requested))
            ELSE from_fps(Requested)
       /\ params.sample_rate \in Nat
       /\ 8000 <= params.sample_rate /\ params.sample_rate <= 48000
       /\ params.video_encoder \in {"h264_nvenc", "hevc_nvenc", Empty}
       /\ params.output_file # Empty

ChosenLate == platform # "none" <=> stage \in Late

SetUp ==
  IF stage = "ready"
  THEN /\ sampling = IF platform = "x11"
                     THEN value_in_milliseconds(params.frame_time) ELSE -1
       /\ rate = fps_ratio(params.frame_time)
       /\ expiry = TimerExpiry(params.frame_time)
  ELSE sampling = -1 /\ rate = 0 /\ expiry = 0

Fields == {"video_encoder", "audio_encoder", "frame_time", "sample_rate",
           "output_file", "strict_frame_time"}

Longest == 50000000  \* ns a frame lasts at 20 a second

(* What TypeOK says of what is not computed.                               *)
Chosen ==
  /\ DOMAIN params = Fields
  /\ stage \in Early \cup Middle \cup Late
  /\ argv \in CommandLines
  /\ key \in Keys
  /\ env \in {"unset", "1", "other"}
  /\ platform \in {"none", "x11", "wayland"}
  /\ params.strict_frame_time \in BOOLEAN
  /\ stage \in Early => /\ params.frame_time \in Nat
                        /\ params.frame_time <= Longest
                        /\ params.sample_rate \in Nat
                        /\ params.sample_rate <= 48000

Inv == Parsed /\ ChosenLate /\ SetUp /\ Chosen

-----------------------------------------------------------------------------
(* It implies what the run checks.                                         *)

LEMMA FrameTimes ==
  ASSUME NEW f \in 20 .. 70
  PROVE  LET n == from_fps(f)
             t == truncate_to_millisecond(n)
         IN /\ n = 1000000000 \div f
            /\ n \in Nat /\ 14285714 <= n /\ n <= 50000000
            /\ t \in Nat /\ 14000000 <= t /\ t <= n
            /\ t = (n \div 1000000) * 1000000 /\ n \div 1000000 \in 14 .. 50
<1>1. from_fps(f) = 1000000000 \div f BY DEF from_fps, kNsPerSec
<1>2. \A n : truncate_to_millisecond(n) = (n \div 1000000) * 1000000
  BY DEF truncate_to_millisecond, kNsPerMs
<1>3. LET n == 1000000000 \div f
          t == (n \div 1000000) * 1000000
      IN /\ n \in Nat /\ 14285714 <= n /\ n <= 50000000
         /\ t \in Nat /\ 14000000 <= t /\ t <= n
         /\ n \div 1000000 \in 14 .. 50
  BY SMT
<1> QED BY <1>1, <1>2, <1>3, SMT

(* The clock of a session that is set up.                                  *)
LEMMA ReadyClock ==
  ASSUME Inv, stage = "ready"
  PROVE  /\ rate \in 20 .. 71
         /\ Agrees(rate, expiry)
         /\ expiry \in Nat /\ expiry <= 50000000
         /\ ~Truncated =>
              /\ rate = IF Requested \in {29, 51, 58} THEN Requested - 1
                        ELSE Requested
              /\ expiry * Requested <= 1000000000 + 2 * Requested
              /\ expiry * Requested >= 1000000000 - 3 * Requested
         /\ Truncated =>
              \E m \in 14 .. 50 : /\ expiry = m * 1000000
                                  /\ params.frame_time = m * 1000000
                                  /\ rate = 1000 \div m
<1> DEFINE f == Requested
           n == from_fps(f)
           t == truncate_to_millisecond(n)
           ft == params.frame_time
<1>1. /\ f \in 20 .. 70
      /\ ft = IF Truncated THEN t ELSE n
  BY DEF Inv, Parsed, Late
<1>2. rate = fps_ratio(ft) /\ expiry = Float(ft)
  BY DEF Inv, SetUp, TimerExpiry
<1> HIDE DEF f, ft
<1>3. /\ n = 1000000000 \div f
      /\ n \in Nat /\ 14285714 <= n /\ n <= 50000000
      /\ t \in Nat /\ 14000000 <= t /\ t <= n
      /\ t = (n \div 1000000) * 1000000 /\ n \div 1000000 \in 14 .. 50
  BY <1>1, FrameTimes
<1> HIDE DEF n, t
<1>4. ft \in Nat /\ 14000000 <= ft /\ ft <= 50000000 BY <1>1, <1>3, SMT
<1>5. RoundedTo(ft, expiry) /\ rate = RateOf(expiry) BY <1>2, <1>4, RatioIs
<1>6. CASE ~Truncated
  <2>1. RoundedTo(1000000000 \div f, expiry) BY <1>1, <1>3, <1>5, <1>6
  <2>2. /\ rate = IF f \in {29, 51, 58} THEN f - 1 ELSE f
        /\ Agrees(rate, expiry)
        /\ expiry \in Nat /\ expiry <= 50000000
        /\ expiry * f <= 1000000000 + 2 * f
        /\ expiry * f >= 1000000000 - 3 * f
    BY <1>1, <1>5, <2>1, AcceptedRates
  <2>3. rate \in 20 .. 71 BY <1>1, <2>2, SMT
  <2> QED BY <1>6, <2>2, <2>3 DEF f
<1>7. CASE Truncated
  <2> DEFINE m == n \div 1000000
  <2>1. m \in 14 .. 50 /\ ft = m * 1000000 BY <1>1, <1>3, <1>7
  <2> HIDE DEF m
  <2>2. RoundedTo(m * 1000000, expiry) BY <1>5, <2>1
  <2>3. /\ expiry = m * 1000000 /\ rate \in 20 .. 71
        /\ rate = 1000 \div m
        /\ Agrees(rate, expiry)
    BY <1>5, <2>1, <2>2, WholeMilliseconds
  <2>4. rate \in 20 .. 71 /\ expiry \in Nat /\ expiry <= 50000000
    BY <2>1, <2>3, SMT
  <2> QED BY <1>7, <2>1, <2>3, <2>4 DEF ft
<1> QED BY <1>6, <1>7

(* What reaches main's choice of a platform is valid.                      *)
LEMMA InvImpliesValid == Inv => ParametersAreValid
<1> SUFFICES ASSUME Inv PROVE TypeOK /\ StartsWithValidParameters
  BY DEF ParametersAreValid
<1> DEFINE n == from_fps(Requested)
           t == truncate_to_millisecond(n)
           ft == params.frame_time
<1>1. stage \in Middle \cup Late =>
        /\ Requested \in 20 .. 70
        /\ ft = (IF stage \in Late \ {"adjust"} /\ Truncated THEN t ELSE n)
        /\ ft \in Nat /\ 14000000 <= ft /\ ft <= 50000000
  <2> SUFFICES ASSUME stage \in Middle \cup Late
               PROVE  /\ Requested \in 20 .. 70
                      /\ ft = (IF stage \in Late \ {"adjust"} /\ Truncated
                               THEN t ELSE n)
                      /\ ft \in Nat /\ 14000000 <= ft /\ ft <= 50000000
    BY SMT
  <2>1. /\ Requested \in 20 .. 70
        /\ ft = IF stage \in Late \ {"adjust"} /\ Truncated THEN t ELSE n
    BY DEF Inv, Parsed
  <2>2. /\ n \in Nat /\ 14285714 <= n /\ n <= 50000000
        /\ t \in Nat /\ 14000000 <= t /\ t <= n
    BY <2>1, FrameTimes, SMT
  <2> HIDE DEF n, t, ft
  <2> QED BY <2>1, <2>2, SMT
<1>2. ft \in Nat /\ ft <= 50000000
  <2> HIDE DEF ft
  <2> QED BY <1>1, SMT DEF Inv, Chosen, Longest, ft
<1>3. kNsPerSec \div 20 = 50000000 /\ 50000000 \in Nat BY SMT DEF kNsPerSec
<1>4. TypeOK
  <2>1. ft \in 0 .. kNsPerSec \div 20 BY <1>2, <1>3, SMT
  <2>2. params.sample_rate \in Nat /\ params.sample_rate <= 48000
    BY SMT DEF Inv, Parsed, Chosen
  <2>3. expiry \in 0 .. kNsPerSec \div 20
    <3>1. stage # "ready" => expiry = 0 BY DEF Inv, SetUp
    <3>2. stage = "ready" => expiry \in Nat /\ expiry <= 50000000
      BY ReadyClock, SMT
    <3> QED BY <1>3, <3>1, <3>2, SMT
  <2>4. rate \in {0} \cup 20 .. 71
    <3>1. stage # "ready" => rate = 0 BY DEF Inv, SetUp
    <3>2. stage = "ready" => rate \in 20 .. 71
      BY ReadyClock, SMT
    <3> QED BY <3>1, <3>2, SMT
  <2>5. sampling \in -1 .. 50
    <3>1. stage # "ready" \/ platform # "x11" => sampling = -1
      BY DEF Inv, SetUp
    <3>2. stage = "ready" /\ platform = "x11" =>
            sampling = (ft + 500000) \div 1000000
      BY SMT DEF Inv, SetUp, value_in_milliseconds, kNsPerMs
    <3>3. (ft + 500000) \div 1000000 \in 0 .. 50
      <4> HIDE DEF ft
      <4> QED BY <1>2, SMT
    <3> HIDE DEF ft
    <3> QED BY <3>1, <3>2, <3>3, SMT
  <2>6. /\ stage \in {"parse", "params", "env", "platform", "adjust",
                      "session",
                      "setup", "ready", "error", "help", "version",
                      "terminated"}
        /\ argv \in CommandLines /\ key \in Keys
        /\ env \in {"unset", "1", "other"}
        /\ platform \in {"none", "x11", "wayland"}
        /\ params.strict_frame_time \in BOOLEAN
    BY DEF Inv, Chosen, Early, Middle, Late
  <2> HIDE DEF ft
  <2> QED BY <2>1, <2>2, <2>3, <2>4, <2>5, <2>6 DEF TypeOK, ft
<1>5. StartsWithValidParameters
  <2> SUFFICES ASSUME platform # "none"
               PROVE  /\ ft = n \/ stage # "adjust"
                      /\ ft <= from_fps(20)
                      /\ ft >= truncate_to_millisecond(from_fps(70))
                      /\ 8000 <= params.sample_rate
                      /\ params.sample_rate <= 48000
                      /\ params.video_encoder \in
                           {"h264_nvenc", "hevc_nvenc", Empty}
                      /\ params.output_file # Empty
    BY DEF StartsWithValidParameters
  <2>1. stage \in Late BY DEF Inv, ChosenLate
  <2>2. /\ from_fps(20) = 50000000
        /\ truncate_to_millisecond(from_fps(70)) = 14000000
    BY SMT DEF from_fps, truncate_to_millisecond, kNsPerSec, kNsPerMs
  <2>3. /\ 8000 <= params.sample_rate /\ params.sample_rate <= 48000
        /\ params.video_encoder \in {"h264_nvenc", "hevc_nvenc", Empty}
        /\ params.output_file # Empty
    BY <2>1 DEF Inv, Parsed
  <2>4. ft = n \/ stage # "adjust" BY <1>1, <2>1, SMT
  <2>5. ft <= 50000000 /\ ft >= 14000000
    <3>1. ft \in Nat /\ 14000000 <= ft /\ ft <= 50000000 BY <1>1, <2>1, SMT
    <3> HIDE DEF ft
    <3> QED BY <3>1, SMT
  <2> HIDE DEF ft, n
  <2> QED BY <2>2, <2>3, <2>4, <2>5, SMT
<1> QED BY <1>4, <1>5

LEMMA InvImpliesAgree == Inv => RatesAgree
<1> SUFFICES ASSUME Inv
             PROVE  /\ RateWithinOne /\ OutputHasRequestedRate
                    /\ OutputLosesFraction
                    /\ SamplingTracksTimer /\ TimerIsRequested
  BY DEF RatesAgree
<1> DEFINE ft == params.frame_time
<1>1. /\ platform \in {"none", "x11", "wayland"}
      /\ params.strict_frame_time \in BOOLEAN
  BY DEF Inv, Chosen
<1>2. RateWithinOne
  BY ReadyClock, SMT DEF RateWithinOne, Agrees, kNsPerSec
<1>3. OutputHasRequestedRate
  BY <1>1, ReadyClock, SMT DEF OutputHasRequestedRate, Truncated
<1>4. TimerIsRequested
  BY <1>1, ReadyClock, SMT DEF TimerIsRequested, Truncated, kNsPerSec
<1>5. SamplingTracksTimer /\ OutputLosesFraction
  <2> SUFFICES ASSUME stage = "ready", platform = "x11"
               PROVE  /\ sampling * kNsPerMs - ft <= kNsPerMs \div 2
                      /\ ft - sampling * kNsPerMs < kNsPerMs \div 2
                      /\ ~params.strict_frame_time =>
                           /\ sampling * kNsPerMs = expiry
                           /\ rate = 1000 \div sampling
    BY DEF SamplingTracksTimer, OutputLosesFraction
  <2>1. sampling = (ft + 500000) \div 1000000
    BY SMT DEF Inv, SetUp, value_in_milliseconds, kNsPerMs
  <2>2. ft \in Nat
    <3>1. TypeOK BY InvImpliesValid DEF ParametersAreValid
    <3>2. kNsPerSec \div 20 \in Nat BY SMT DEF kNsPerSec
    <3> QED BY <3>1, <3>2 DEF TypeOK
  <2>3. kNsPerMs = 1000000 /\ kNsPerMs \div 2 = 500000 BY SMT DEF kNsPerMs
  <2>4. ~params.strict_frame_time =>
          \E m \in 14 .. 50 : /\ expiry = m * 1000000 /\ ft = m * 1000000
                              /\ rate = 1000 \div m
    BY ReadyClock, SMT DEF Truncated
  <2> HIDE DEF ft
  <2>5. /\ sampling * 1000000 - ft <= 500000
        /\ ft - sampling * 1000000 < 500000
    BY <2>1, <2>2, SMT
  <2>6. ~params.strict_frame_time => /\ sampling * 1000000 = expiry
                                     /\ rate = 1000 \div sampling
    <3> SUFFICES ASSUME ~params.strict_frame_time
                 PROVE  sampling * 1000000 = expiry
                        /\ rate = 1000 \div sampling
      OBVIOUS
    <3>1. PICK m \in 14 .. 50 : /\ expiry = m * 1000000
                                /\ ft = m * 1000000
                                /\ rate = 1000 \div m
      BY <2>4
    <3>2. sampling = m BY <2>1, <3>1, SMT
    <3> QED BY <3>1, <3>2
  <2> QED BY <2>3, <2>5, <2>6, SMT
<1> QED BY <1>2, <1>3, <1>4, <1>5

-----------------------------------------------------------------------------
(* The invariant is inductive.                                             *)

LEMMA InitInv == Init => Inv
<1> SUFFICES ASSUME Init PROVE Inv OBVIOUS
<1>1. <<>> \in Keys BY InputsAssumption
<1>2. Parsed BY DEF Init, Parsed, Middle, Late
<1>3. ChosenLate BY DEF Init, ChosenLate, Late
<1>4. SetUp BY DEF Init, SetUp
<1>5. Chosen
  <2>1. /\ params.frame_time = 0 /\ params.sample_rate = 0
        /\ params.strict_frame_time = TRUE
    BY DEF Init, NoParams
  <2>2. /\ stage = "parse" /\ argv \in CommandLines /\ key = <<>>
        /\ env = "unset" /\ platform = "none"
    BY DEF Init
  <2>3. params.frame_time <= Longest /\ params.sample_rate <= 48000
    BY <2>1, SMT DEF Longest
  <2>4. key \in Keys BY <1>1, <2>2
  <2>5. stage \in Early /\ env \in {"unset", "1", "other"}
        /\ platform \in {"none", "x11", "wayland"}
    BY <2>2 DEF Early
  <2>6. params.frame_time \in Nat /\ params.sample_rate \in Nat
    BY <2>1
  <2>7. params.strict_frame_time \in BOOLEAN BY <2>1, Zenon
  <2>8. DOMAIN params = Fields BY SMT DEF Init, NoParams, Fields
  <2> QED BY <2>8, <2>2, <2>3, <2>4, <2>5, <2>6, <2>7, SMT DEF Chosen
<1> QED BY <1>2, <1>3, <1>4, <1>5 DEF Inv

LEMMA SameLineSameRate ==
  ASSUME argv' = argv
  PROVE  Requested' = Requested
<1> QED BY DEF Requested

(* Steps that leave the parameters alone and do not go back.               *)
LEMMA ParametersKept ==
  ASSUME Inv, stage \in Middle \cup Late, argv' = argv, params' = params,
         platform' = platform \/ stage' = "adjust",
         stage' \in Middle \cup Late,
         stage = "adjust" => stage' = "adjust",
         stage \in Middle => stage' \in Middle \cup {"adjust"},
         stage \in Late \ {"adjust"} => stage' \in Late \ {"adjust"}
  PROVE  Parsed'
<1>1. Requested' = Requested BY SameLineSameRate
<1>2. /\ Requested \in 20 .. 70
      /\ params.frame_time =
           IF stage \in Late \ {"adjust"} /\ Truncated
           THEN truncate_to_millisecond(from_fps(Requested))
           ELSE from_fps(Requested)
      /\ params.sample_rate \in Nat
      /\ 8000 <= params.sample_rate /\ params.sample_rate <= 48000
      /\ params.video_encoder \in {"h264_nvenc", "hevc_nvenc", Empty}
      /\ params.output_file # Empty
  BY DEF Inv, Parsed
<1>3. stage' # "params" BY DEF Middle, Late
<1>4. /\ stage' \in Late \ {"adjust"} <=> stage \in Late \ {"adjust"}
      /\ stage' \in Late \ {"adjust"} => Truncated' = Truncated
  BY DEF Middle, Late, Truncated
<1>5. params.frame_time =
        IF stage' \in Late \ {"adjust"} /\ Truncated'
        THEN truncate_to_millisecond(from_fps(Requested))
        ELSE from_fps(Requested)
  BY <1>2, <1>4
<1> QED BY <1>1, <1>2, <1>3, <1>5 DEF Parsed

LEMMA ParseInv == Inv /\ Parse => Inv'
<1> SUFFICES ASSUME Inv, Parse PROVE Inv' OBVIOUS
<1>1. /\ stage = "parse" /\ stage' \in {"params", "error"}
      /\ stage' = "params" => parse_cmd_line(argv).ok
      /\ argv' = argv /\ key' = key /\ env' = env /\ platform' = platform
      /\ params' = params
      /\ sampling' = sampling /\ rate' = rate /\ expiry' = expiry
  BY DEF Parse, inputVars, sessionVars
<1>2. Parsed' BY <1>1 DEF Inv, Parsed, Middle, Late
<1>3. ChosenLate' BY <1>1 DEF Inv, ChosenLate, Late
<1>4. SetUp' BY <1>1 DEF Inv, SetUp
<1>5. Chosen' BY <1>1, SMT DEF Inv, Chosen, Early
<1> QED BY <1>2, <1>3, <1>4, <1>5 DEF Inv

LEMMA GetParametersInv == Inv /\ GetParameters => Inv'
<1> SUFFICES ASSUME Inv, GetParameters PROVE Inv' OBVIOUS
<1> DEFINE c == parse_cmd_line(argv)
<1>1. /\ stage = "params" /\ c.ok
      /\ argv' = argv /\ key' = key /\ env' = env /\ platform' = platform
      /\ sampling' = sampling /\ rate' = rate /\ expiry' = expiry
  BY DEF GetParameters, inputVars, sessionVars, Inv, Parsed
<1>2. argv \in Seq(Arguments)
  BY InputsAssumption DEF Inv, Chosen
<1>3. stage' \in {"help", "version", "error", "env"}
  BY DEF GetParameters
<1>4. ChosenLate' BY <1>1, <1>3 DEF Inv, ChosenLate, Late
<1>5. SetUp' BY <1>1, <1>3 DEF Inv, SetUp
<1>6. CASE UNCHANGED params /\ stage' \in {"help", "version"}
  <2>1. Parsed' BY <1>6 DEF Parsed, Middle, Late
  <2>2. Chosen' BY <1>1, <1>3, <1>6, SMT DEF Inv, Chosen, Early
  <2> QED BY <1>4, <1>5, <2>1, <2>2 DEF Inv
<1>7. CASE ~(UNCHANGED params /\ stage' \in {"help", "version"})
  <2> DEFINE r == get_option_value(c, "frame_rate", Sixty).number
             s == get_option_value(c, "sample_rate",
                    [word |-> "48000", number |-> 48000]).number
             v == get_option_value(c, "video_encoder",
                    [word |-> "hevc_nvenc", number |-> NoNumber]).word
  <2>1. /\ params'.frame_time = from_fps(r)
        /\ params'.sample_rate = s
        /\ params'.video_encoder = v
        /\ c.args # <<>> => params'.output_file = c.args[1]
        /\ params'.strict_frame_time = TRUE
        /\ stage' = IF c.args = <<>> THEN "error" ELSE "env"
    BY <1>7 DEF GetParameters, Sixty
  <2>2. /\ r = AskedFrom(argv, 1) /\ r \in 20 .. 70
        /\ s \in Nat /\ 8000 <= s /\ s <= 48000
        /\ v \in {"h264_nvenc", "hevc_nvenc", Empty}
        /\ c.args # <<>> => c.args[1] # Empty
    <3>1. r = AskedFrom(argv, 1) /\ AskedFrom(argv, 1) \in 20 .. 70
      BY <1>1, <1>2, RateOfLine
    <3>2. s \in Nat /\ 8000 <= s /\ s <= 48000
      BY <1>1, <1>2, ParametersOfLine
    <3>3. v \in {"h264_nvenc", "hevc_nvenc", Empty}
      BY <1>1, <1>2, ParametersOfLine
    <3>4. c.args # <<>> => c.args[1] # Empty
      BY <1>1, <1>2, ParametersOfLine
    <3> QED BY <3>1, <3>2, <3>3, <3>4
  <2>3. Requested' = r BY <1>1, <2>2, SameLineSameRate, RequestedIsAsked
  <2>4. from_fps(r) \in Nat /\ from_fps(r) <= 50000000
    <3>1. r \in 20 .. 70 BY <2>2
    <3> HIDE DEF r
    <3> QED BY <3>1, FrameTimes, SMT
  <2> HIDE DEF r, s, v, c
  <2>5. Parsed' BY <2>1, <2>2, <2>3 DEF Parsed, Middle, Late
  <2>6. Chosen'
    <3>1. /\ params'.frame_time \in Nat /\ params'.frame_time <= Longest
          /\ params'.sample_rate \in Nat /\ params'.sample_rate <= 48000
      BY <2>1, <2>2, <2>4, SMT DEF Longest
    <3>2. params'.strict_frame_time \in BOOLEAN BY <2>1
    <3>3. DOMAIN params' = Fields BY <1>7, SMT DEF GetParameters, Fields
    <3> QED
      BY <1>1, <1>3, <3>1, <3>2, <3>3, SMT DEF Inv, Chosen, Early, Middle
  <2> QED BY <1>4, <1>5, <2>5, <2>6 DEF Inv
<1> QED BY <1>6, <1>7


LEMMA ReadEnvInv == Inv /\ ReadEnv => Inv'
<1> SUFFICES ASSUME Inv, ReadEnv PROVE Inv' OBVIOUS
<1>1. /\ stage = "env" /\ stage' = "platform"
      /\ argv' = argv /\ key' = key /\ platform' = platform
      /\ sampling' = sampling /\ rate' = rate /\ expiry' = expiry
  BY DEF ReadEnv, inputVars, sessionVars
<1>2. PICK e \in {"unset", "1", "other"} :
        /\ env' = e
        /\ params' = [params EXCEPT !.strict_frame_time =
                         IF e = "unset" THEN @ ELSE e = "1"]
  BY DEF ReadEnv
<1>3. DOMAIN params = Fields /\ params.strict_frame_time \in BOOLEAN
  BY DEF Inv, Chosen
<1>4. /\ params'.frame_time = params.frame_time
      /\ params'.sample_rate = params.sample_rate
      /\ params'.video_encoder = params.video_encoder
      /\ params'.output_file = params.output_file
      /\ DOMAIN params' = Fields
  BY <1>2, <1>3, SMT DEF Fields
<1>5. params'.strict_frame_time \in BOOLEAN
  <2>1. CASE e = "unset"
    <3>1. params'.strict_frame_time = params.strict_frame_time
      BY <1>2, <1>3, <2>1 DEF Fields
    <3> QED BY <1>3, <3>1
  <2>2. CASE e # "unset"
    <3>1. params'.strict_frame_time = (e = "1")
      BY <1>2, <1>3, <2>2 DEF Fields
    <3> QED BY <3>1, Zenon
  <2> QED BY <2>1, <2>2
<1>6. Parsed'
  <2>1. Requested' = Requested BY <1>1, SameLineSameRate
  <2> QED BY <1>1, <1>4, <2>1 DEF Inv, Parsed, Middle, Late
<1>7. ChosenLate' BY <1>1 DEF Inv, ChosenLate, Late
<1>8. SetUp' BY <1>1 DEF Inv, SetUp
<1>9. Chosen'
  <2>1. /\ argv' \in CommandLines /\ key' \in Keys
        /\ platform' \in {"none", "x11", "wayland"}
    BY <1>1 DEF Inv, Chosen
  <2>2. stage' \in Early \cup Middle \cup Late /\ stage' \notin Early
    BY <1>1 DEF Early, Middle
  <2> QED BY <1>2, <1>4, <1>5, <2>1, <2>2 DEF Chosen
<1> QED BY <1>6, <1>7, <1>8, <1>9 DEF Inv

(* The steps of main that leave the parameters alone.                      *)
LEMMA OthersInv ==
  Inv /\ (Connect \/ CreateSession \/ NoSession \/ Setup) => Inv'
<1> SUFFICES ASSUME Inv, Connect \/ CreateSession \/ NoSession \/ Setup
             PROVE  Inv'
  OBVIOUS
<1>1. /\ argv' = argv /\ env' = env /\ params' = params
      /\ stage \in {"platform", "session", "setup"}
      /\ stage' \in {"adjust", "setup", "terminated", "ready"}
      /\ stage = "platform" <=> stage' = "adjust"
  BY DEF Connect, CreateSession, NoSession, Setup, inputVars
<1>2. platform' \in {"x11", "wayland"}
  BY DEF Inv, ChosenLate, Chosen, Late, Connect, CreateSession, NoSession,
         Setup, inputVars
<1>3. platform' = platform \/ stage' = "adjust"
  BY DEF Connect, CreateSession, NoSession, Setup, inputVars
<1>4. Parsed' BY <1>1, <1>3, ParametersKept DEF Middle, Late
<1>5. ChosenLate' BY <1>1, <1>2 DEF ChosenLate, Late
<1>6. SetUp'
  <2>1. CASE Setup
    BY <2>1 DEF Setup, SetUp, inputVars
  <2>2. CASE Connect \/ CreateSession \/ NoSession
    BY <2>2 DEF Connect, CreateSession, NoSession, inputVars, sessionVars,
                Inv, SetUp
  <2> QED BY <2>1, <2>2
<1>7. Chosen'
  <2>1. key' \in Keys
    BY DEF Inv, Chosen, Connect, CreateSession, NoSession, Setup, inputVars
  <2>2. stage' \in Early \cup Middle \cup Late /\ stage' \notin Early
    BY <1>1 DEF Early, Middle, Late
  <2>3. params'.strict_frame_time \in BOOLEAN BY <1>1 DEF Inv, Chosen
  <2> QED BY <1>1, <1>2, <2>1, <2>2, <2>3 DEF Inv, Chosen
<1> QED BY <1>4, <1>5, <1>6, <1>7 DEF Inv

LEMMA AdjustInv == Inv /\ Adjust => Inv'
<1> SUFFICES ASSUME Inv, Adjust PROVE Inv' OBVIOUS
<1>1. /\ stage = "adjust" /\ stage' = "session"
      /\ argv' = argv /\ key' = key /\ env' = env /\ platform' = platform
      /\ sampling' = sampling /\ rate' = rate /\ expiry' = expiry
      /\ params' = [params EXCEPT !.frame_time =
                       IF Truncated THEN truncate_to_millisecond(@) ELSE @]
  BY DEF Adjust, inputVars, sessionVars, Truncated
<1>2. DOMAIN params = Fields /\ params.strict_frame_time \in BOOLEAN
  BY DEF Inv, Chosen
<1>3. /\ params'.strict_frame_time = params.strict_frame_time
      /\ params'.sample_rate = params.sample_rate
      /\ params'.video_encoder = params.video_encoder
      /\ params'.output_file = params.output_file
      /\ DOMAIN params' = Fields
      /\ params'.frame_time = IF Truncated
                              THEN truncate_to_millisecond(params.frame_time)
                              ELSE params.frame_time
  BY <1>1, <1>2 DEF Fields
<1>4. Truncated' <=> Truncated BY <1>1, <1>3 DEF Truncated
<1>5. Parsed'
  <2>1. Requested' = Requested BY <1>1, SameLineSameRate
  <2>2. params.frame_time = from_fps(Requested)
    BY <1>1 DEF Inv, Parsed, Late
  <2>3. params'.frame_time = IF stage' \in Late \ {"adjust"} /\ Truncated'
                             THEN truncate_to_millisecond(from_fps(Requested'))
                             ELSE from_fps(Requested')
    BY <1>1, <1>3, <1>4, <2>1, <2>2 DEF Late
  <2>4. /\ Requested \in 20 .. 70
        /\ params.sample_rate \in Nat
        /\ 8000 <= params.sample_rate /\ params.sample_rate <= 48000
        /\ params.video_encoder \in {"h264_nvenc", "hevc_nvenc", Empty}
        /\ params.output_file # Empty
    BY <1>1 DEF Inv, Parsed, Late
  <2> QED BY <1>1, <1>3, <2>1, <2>3, <2>4 DEF Parsed
<1>6. ChosenLate' BY <1>1 DEF Inv, ChosenLate, Late
<1>7. SetUp' BY <1>1 DEF Inv, SetUp
<1>8. Chosen'
  <2>1. /\ argv' \in CommandLines /\ key' \in Keys
        /\ env' \in {"unset", "1", "other"}
        /\ platform' \in {"none", "x11", "wayland"}
    BY <1>1 DEF Inv, Chosen
  <2>2. stage' \in Early \cup Middle \cup Late /\ stage' \notin Early
    BY <1>1 DEF Early, Late
  <2>3. params'.strict_frame_time \in BOOLEAN BY <1>2, <1>3
  <2> QED BY <1>3, <2>1, <2>2, <2>3 DEF Chosen
<1> QED BY <1>5, <1>6, <1>7, <1>8 DEF Inv

LEMMA NextInv == Inv /\ [Next]_vars => Inv'
<1> SUFFICES ASSUME Inv, [Next]_vars PROVE Inv' OBVIOUS
<1>1. CASE UNCHANGED vars
  <2>1. /\ stage' = stage /\ argv' = argv /\ key' = key /\ env' = env
        /\ platform' = platform /\ params' = params
        /\ sampling' = sampling /\ rate' = rate /\ expiry' = expiry
    BY <1>1 DEF vars, inputVars, sessionVars
  <2>2. Parsed'
    <3>1. Requested' = Requested BY <2>1, SameLineSameRate
    <3>2. parse_cmd_line(argv)' = parse_cmd_line(argv)
      BY <2>1
    <3> QED BY <2>1, <3>1, <3>2 DEF Inv, Parsed, Truncated
  <2>3. ChosenLate' BY <2>1 DEF Inv, ChosenLate
  <2>4. SetUp' BY <2>1 DEF Inv, SetUp
  <2>5. Chosen' BY <2>1, SMT DEF Inv, Chosen
  <2> QED BY <2>2, <2>3, <2>4, <2>5 DEF Inv
<1> QED
  BY <1>1, ParseInv, GetParametersInv, ReadEnvInv, OthersInv, AdjustInv
     DEF Next

LEMMA InvHolds == Spec => []Inv
<1> QED BY InitInv, NextInv, PTL DEF Spec

(* Whatever the command line and the environment, main only chooses a      *)
(* platform with a rate from 20 to 70, a sample rate from 8000 to 48000,   *)
(* an encoder it knows (or an empty name) and an output file; and all that *)
(* is computed from them stays in range.                                   *)
THEOREM ParametersAreValidAlways == Spec => []ParametersAreValid
<1> QED BY InvHolds, InvImpliesValid, PTL

(* The output file's rate, the video timer and NvFBC's sampling interval   *)
(* agree with each other and with the rate that was asked for, through     *)
(* the float arithmetic and on both platforms.                             *)
THEOREM RatesAgreeAlways == Spec => []RatesAgree
<1> QED BY InvHolds, InvImpliesAgree, PTL

-----------------------------------------------------------------------------
(* Attached and separate values.  The line and its separated form are read *)
(* side by side: argument i of the one begins at Place(line, i) of the     *)
(* other.                                                                  *)

Attached(line, n) ==
  /\ TakesValue(line[n])
  /\ line[n].rest.word # Empty
  /\ n \notin Values(line)

IsParts(line, m, g) ==
  g = [n \in 0 .. m |-> IF n = 0 THEN <<>> ELSE g[n - 1] \o Split(line, n)]

LEMMA PartsExist ==
  ASSUME NEW line \in Seq(Arguments)
  PROVE  \A m \in 0 .. Len(line) : \E g : IsParts(line, m, g)
<1> DEFINE N == Len(line)
           Bad == {m \in 0 .. N : ~\E g : IsParts(line, m, g)}
<1>1. N \in Nat BY LineTyped
<1> SUFFICES ASSUME Bad # {} PROVE FALSE OBVIOUS
<1>2. PICK m \in Bad : \A y \in Bad : m <= y
  <2>1. Bad \subseteq Nat BY <1>1
  <2> HIDE DEF Bad
  <2> QED BY <2>1, MinIsLeast
<1>3. m \in 0 .. N /\ ~\E g : IsParts(line, m, g) BY <1>2
<1>4. CASE m = 0
  <2> DEFINE e == [n \in 0 .. 0 |-> <<>>]
  <2>1. IsParts(line, 0, e) BY DEF IsParts
  <2> HIDE DEF e
  <2> QED BY <1>3, <1>4, <2>1
<1>5. CASE m # 0
  <2>1. m - 1 \in 0 .. N /\ m - 1 \notin Bad BY <1>1, <1>2, <1>3, <1>5
  <2>2. PICK g : IsParts(line, m - 1, g) BY <2>1
  <2> DEFINE next == g[m - 1] \o Split(line, m)
             e == [n \in 0 .. m |-> IF n = m THEN next ELSE g[n]]
  <2>3. \A n \in 0 .. m - 1 :
          g[n] = IF n = 0 THEN <<>> ELSE g[n - 1] \o Split(line, n)
    BY <2>2 DEF IsParts
  <2>4. /\ e[m] = next /\ DOMAIN e = 0 .. m
        /\ \A n \in 0 .. m - 1 : e[n] = g[n]
    BY <1>1, <1>3
  <2>5. e = [n \in 0 .. m |-> e[n]] OBVIOUS
  <2> HIDE DEF e
  <2>6. ASSUME NEW n \in 0 .. m
        PROVE  e[n] = IF n = 0 THEN <<>> ELSE e[n - 1] \o Split(line, n)
    <3>1. CASE n = m
      <4>1. m - 1 \in 0 .. m - 1 BY <1>1, <1>3, <1>5
      <4> QED BY <1>5, <2>4, <3>1, <4>1
    <3>2. CASE n # m
      <4>1. n \in 0 .. m - 1 /\ (n # 0 => n - 1 \in 0 .. m - 1)
        BY <1>1, <1>3, <3>2
      <4> QED BY <2>3, <2>4, <4>1
    <3> QED BY <3>1, <3>2
  <2>7. IsParts(line, m, e) BY <2>5, <2>6 DEF IsParts
  <2> QED BY <1>3, <2>7
<1> QED BY <1>4, <1>5

LEMMA PartsUnfold ==
  ASSUME NEW line \in Seq(Arguments)
  PROVE  /\ Parts(line)[0] = <<>>
         /\ \A n \in 1 .. Len(line) :
              Parts(line)[n] = Parts(line)[n - 1] \o Split(line, n)
<1>1. Len(line) \in 0 .. Len(line) /\ Len(line) \in Nat BY LineTyped
<1>2. \E g : IsParts(line, Len(line), g) BY <1>1, PartsExist
<1>3. IsParts(line, Len(line), CHOOSE g : IsParts(line, Len(line), g)) BY <1>2
<1>4. Parts(line) = CHOOSE g : IsParts(line, Len(line), g)
  BY DEF Parts, IsParts
<1>5. IsParts(line, Len(line), Parts(line)) BY <1>3, <1>4
<1> HIDE DEF Parts
<1>6. \A n \in 0 .. Len(line) :
        Parts(line)[n] = IF n = 0 THEN <<>>
                         ELSE Parts(line)[n - 1] \o Split(line, n)
  BY <1>5 DEF IsParts
<1>7. 0 \in 0 .. Len(line) BY <1>1
<1>8. \A n \in 1 .. Len(line) : n \in 0 .. Len(line) /\ n # 0 BY <1>1
<1>9. Parts(line)[0] = <<>> BY <1>6, <1>7
<1>10. \A n \in 1 .. Len(line) :
         Parts(line)[n] = Parts(line)[n - 1] \o Split(line, n)
  BY <1>6, <1>8
<1> QED BY <1>9, <1>10

LEMMA SplitIs ==
  ASSUME NEW line \in Seq(Arguments), NEW n \in 1 .. Len(line)
  PROVE  LET s == Split(line, n) IN
         /\ s \in Seq(Arguments)
         /\ ~Attached(line, n) => Len(s) = 1 /\ s[1] = line[n]
         /\ Attached(line, n) =>
              /\ Len(s) = 2
              /\ s[1].dashes = line[n].dashes /\ s[1].key = line[n].key
              /\ s[1].word = line[n].word /\ s[1].rest.word = Empty
              /\ Text(s[2]) = line[n].rest
<1> DEFINE arg == line[n]
           s == Split(line, n)
<1>1. arg \in Arguments /\ arg.rest \in Texts BY LineTyped, ArgumentTyped
<1>2. CASE ~Attached(line, n)
  <2>1. s = <<arg>> BY <1>2 DEF Split, Attached
  <2> HIDE DEF s, arg
  <2> QED BY <1>1, <1>2, <2>1 DEF s, arg
<1>3. CASE Attached(line, n)
  <2> DEFINE one == [arg EXCEPT !.rest = NoValue]
             two == [dashes |-> 0, key |-> Empty, rest |-> NoValue,
                     word |-> arg.rest.word, number |-> arg.rest.number]
  <2>1. s = <<one, two>> BY <1>3 DEF Split, Attached
  <2>2. /\ one \in Arguments
        /\ one.dashes = arg.dashes /\ one.key = arg.key
        /\ one.word = arg.word /\ one.rest = NoValue
    BY <1>1, NoValueTyped DEF Arguments
  <2>3. two \in Arguments
    <3>1. Empty \in Words BY WordsAssumption
    <3>2. arg.rest.word \in Words /\ arg.rest.number \in Int
      BY <1>1 DEF Texts
    <3> QED BY <3>1, <3>2, NoValueTyped DEF Arguments
  <2>4. Text(two) = arg.rest BY <1>1 DEF Text, Texts
  <2>5. NoValue.word = Empty BY DEF NoValue
  <2> HIDE DEF s, arg, one, two
  <2>6. s \in Seq(Arguments) /\ Len(s) = 2 /\ s[1] = one /\ s[2] = two
    BY <2>1, <2>2, <2>3
  <2> QED BY <1>3, <2>2, <2>4, <2>5, <2>6 DEF s, arg
<1> QED BY <1>2, <1>3

LEMMA PartsTyped ==
  ASSUME NEW line \in Seq(Arguments)
  PROVE  \A n \in 0 .. Len(line) : Parts(line)[n] \in Seq(Arguments)
<1> DEFINE N == Len(line)
           Bad == {n \in 0 .. N : Parts(line)[n] \notin Seq(Arguments)}
<1>1. N \in Nat BY LineTyped
<1> SUFFICES ASSUME Bad # {} PROVE FALSE OBVIOUS
<1>2. PICK n \in Bad : \A y \in Bad : n <= y
  <2>1. Bad \subseteq Nat BY <1>1
  <2> HIDE DEF Bad
  <2> QED BY <2>1, MinIsLeast
<1>3. n \in 0 .. N /\ Parts(line)[n] \notin Seq(Arguments) BY <1>2
<1>4. n # 0
  <2>1. <<>> \in Seq(Arguments) OBVIOUS
  <2> QED BY <1>3, <2>1, PartsUnfold
<1>5. n \in 1 .. N /\ n - 1 \in 0 .. N /\ n - 1 \notin Bad
  BY <1>1, <1>2, <1>3, <1>4
<1>6. Parts(line)[n - 1] \in Seq(Arguments) BY <1>5
<1>7. Parts(line)[n] = Parts(line)[n - 1] \o Split(line, n)
  BY <1>5, PartsUnfold
<1>8. Split(line, n) \in Seq(Arguments) BY <1>5, SplitIs
<1> QED BY <1>3, <1>6, <1>7, <1>8, Concatenated

(* The parts only grow, so what is at a place stays there.                 *)
LEMMA PartsGrow ==
  ASSUME NEW line \in Seq(Arguments), NEW n \in 0 .. Len(line)
  PROVE  \A m \in n .. Len(line) :
           /\ Len(Parts(line)[n]) <= Len(Parts(line)[m])
           /\ \A k \in 1 .. Len(Parts(line)[n]) :
                Parts(line)[m][k] = Parts(line)[n][k]
<1> DEFINE N == Len(line)
           P == Parts(line)
           Kept(m) == /\ Len(P[n]) <= Len(P[m])
                      /\ \A k \in 1 .. Len(P[n]) : P[m][k] = P[n][k]
           Bad == {m \in n .. N : ~Kept(m)}
<1>1. N \in Nat /\ n \in Nat BY LineTyped
<1> SUFFICES ASSUME Bad # {} PROVE FALSE OBVIOUS
<1>2. PICK m \in Bad : \A y \in Bad : m <= y
  <2>1. Bad \subseteq Nat BY <1>1
  <2> HIDE DEF Bad
  <2> QED BY <2>1, MinIsLeast
<1>3. m \in n .. N /\ ~Kept(m) BY <1>2
<1>4. \A i \in 0 .. N : P[i] \in Seq(Arguments) /\ Len(P[i]) \in Nat
  BY PartsTyped
<1>5. m # n
  <2>1. Kept(n) BY <1>1, <1>4
  <2> QED BY <1>3, <2>1
<1>6. m - 1 \in n .. N /\ m - 1 \in 0 .. N /\ m \in 1 .. N /\ ~(m <= m - 1)
  BY <1>1, <1>3, <1>5
<1>7. Kept(m - 1)
  <2>1. m - 1 \notin Bad BY <1>2, <1>6
  <2> QED BY <1>6, <2>1
<1>8. P[m] = P[m - 1] \o Split(line, m) BY <1>6, PartsUnfold
<1>9. Split(line, m) \in Seq(Arguments) BY <1>6, SplitIs
<1> HIDE DEF P
<1>10. /\ Len(P[m]) = Len(P[m - 1]) + Len(Split(line, m))
       /\ Len(Split(line, m)) \in Nat
       /\ \A k \in 1 .. Len(P[m - 1]) : P[m][k] = P[m - 1][k]
  BY <1>4, <1>6, <1>8, <1>9, Concatenated
<1>11. Len(P[n]) \in Nat /\ Len(P[m - 1]) \in Nat BY <1>1, <1>4, <1>6
<1>12. Kept(m) BY <1>7, <1>10, <1>11
<1> QED BY <1>3, <1>12

(* Where argument i of the line begins when its values are separated.      *)
Place(line, i) == Len(Parts(line)[i - 1]) + 1

LEMMA SeparatedAt ==
  ASSUME NEW line \in Seq(Arguments)
  PROVE  LET S == Separated(line) IN
         /\ S \in Seq(Arguments) /\ Len(S) \in Nat
         /\ Place(line, 1) = 1 /\ Place(line, Len(line) + 1) = Len(S) + 1
         /\ \A i \in 1 .. Len(line) :
              LET p == Place(line, i)
                  s == Split(line, i)
              IN /\ p \in 1 .. Len(S)
                 /\ S[p] = s[1]
                 /\ ~Attached(line, i) => Place(line, i + 1) = p + 1
                 /\ Attached(line, i) => /\ Place(line, i + 1) = p + 2
                                         /\ p + 1 \in 1 .. Len(S)
                                         /\ S[p + 1] = s[2]
<1> DEFINE N == Len(line)
           P == Parts(line)
           S == Separated(line)
<1>1. N \in Nat /\ N \in 0 .. N BY LineTyped
<1>2. S = P[N] BY DEF Separated
<1>3. \A n \in 0 .. N : P[n] \in Seq(Arguments) /\ Len(P[n]) \in Nat
  BY PartsTyped
<1>4. P[0] = <<>> BY PartsUnfold
<1>5. Place(line, 1) = 1
  <2>1. 1 - 1 = 0 OBVIOUS
  <2> QED BY <1>4, <2>1 DEF Place
<1>6. Place(line, N + 1) = Len(S) + 1
  <2>1. (N + 1) - 1 = N BY <1>1
  <2> QED BY <1>2, <2>1 DEF Place
<1>7. ASSUME NEW i \in 1 .. N
      PROVE  LET p == Place(line, i)
                 s == Split(line, i)
             IN /\ p \in 1 .. Len(S)
                /\ S[p] = s[1]
                /\ ~Attached(line, i) => Place(line, i + 1) = p + 1
                /\ Attached(line, i) => /\ Place(line, i + 1) = p + 2
                                        /\ p + 1 \in 1 .. Len(S)
                                        /\ S[p + 1] = s[2]
  <2> DEFINE p == Place(line, i)
             s == Split(line, i)
             L == Len(P[i - 1])
  <2>1. i - 1 \in 0 .. N /\ i \in 0 .. N /\ N \in i .. N /\ (i + 1) - 1 = i
    BY <1>1
  <2>2. p = L + 1 /\ Place(line, i + 1) = Len(P[i]) + 1
    BY <2>1 DEF Place
  <2>3. P[i] = P[i - 1] \o s BY PartsUnfold
  <2>4. /\ s \in Seq(Arguments)
        /\ ~Attached(line, i) => Len(s) = 1
        /\ Attached(line, i) => Len(s) = 2
    BY SplitIs
  <2>5. /\ Len(P[i]) <= Len(S)
        /\ \A k \in 1 .. Len(P[i]) : S[k] = P[i][k]
    BY <1>2, <2>1, PartsGrow
  <2>6. L \in Nat /\ Len(S) \in Nat BY <1>1, <1>2, <1>3, <2>1
  <2>7. P[i - 1] \in Seq(Arguments) BY <1>3, <2>1
  <2> HIDE DEF P, S, s
  <2>8. /\ Len(P[i]) = L + Len(s)
        /\ \A k \in 1 .. Len(s) : P[i][L + k] = s[k]
    BY <2>3, <2>4, <2>7, Concatenated
  <2> HIDE DEF p, L
  <2>9. CASE ~Attached(line, i)
    <3>0. Len(s) = 1 /\ Len(P[i]) = L + 1 /\ L + 1 <= Len(S)
      BY <2>4, <2>5, <2>8, <2>9
    <3>1. 1 \in 1 .. Len(s) /\ L + 1 \in 1 .. Len(P[i])
          /\ L + 1 \in 1 .. Len(S)
      BY <2>6, <3>0
    <3>2. S[L + 1] = s[1] BY <2>5, <2>8, <3>1
    <3>3. Place(line, i + 1) = p + 1 BY <2>2, <2>4, <2>6, <2>8, <2>9
    <3> QED BY <2>2, <2>9, <3>1, <3>2, <3>3 DEF p, s
  <2>10. CASE Attached(line, i)
    <3>0. Len(s) = 2 /\ Len(P[i]) = L + 2 /\ L + 2 <= Len(S)
      BY <2>4, <2>5, <2>8, <2>10
    <3>1. /\ 1 \in 1 .. Len(s) /\ L + 1 \in 1 .. Len(P[i])
          /\ L + 1 \in 1 .. Len(S)
          /\ 2 \in 1 .. Len(s) /\ L + 2 \in 1 .. Len(P[i])
          /\ L + 2 \in 1 .. Len(S)
      BY <2>6, <3>0
    <3>2. S[L + 1] = s[1] /\ S[L + 2] = s[2] BY <2>5, <2>8, <3>1
    <3>3. Place(line, i + 1) = p + 2 BY <2>2, <2>6, <3>0
    <3>4. p + 1 = L + 2 BY <2>2, <2>6
    <3> QED BY <2>2, <2>10, <3>1, <3>2, <3>3, <3>4 DEF p, s
  <2> QED BY <2>9, <2>10
<1>8. S \in Seq(Arguments) /\ Len(S) \in Nat BY <1>1, <1>2, <1>3
<1> QED BY <1>5, <1>6, <1>7, <1>8


(* What two outcomes of the parser have in common.                         *)
Same(one, two) ==
  /\ one.ok = two.ok
  /\ one.options = two.options
  /\ one.args = two.args

LEMMA SameOptionTurn ==
  ASSUME NEW spec, NEW v, NEW n, NEW m
  PROVE  Same(OptionTurn(spec, v, n), OptionTurn(spec, v, m))
<1>1. CASE check_valid_value(v, spec.validation)
  BY <1>1 DEF OptionTurn, Turn, Same
<1>2. CASE ~check_valid_value(v, spec.validation)
  BY <1>2 DEF OptionTurn, Same
<1> QED BY <1>1, <1>2

LEMMA SameLoneTurn ==
  ASSUME NEW arg, NEW n, NEW m
  PROVE  Same(LoneTurn(arg, n), LoneTurn(arg, m))
<1>1. CASE ~IsOption(arg)
  BY <1>1 DEF LoneTurn, Turn, Same
<1>2. CASE IsOption(arg) /\ arg.dashes = 1 /\ arg.key \in OptionKeys
  BY <1>2 DEF LoneTurn, Turn, Same
<1>3. CASE IsOption(arg) /\ ~(arg.dashes = 1 /\ arg.key \in OptionKeys)
  BY <1>3 DEF LoneTurn, Same
<1> QED BY <1>1, <1>2, <1>3

(* The turns at an argument and at its place find the same, and go on at   *)
(* an argument and at its place.                                           *)
LEMMA TurnsMatch ==
  ASSUME NEW line \in Seq(Arguments), NEW i \in 1 .. Len(line),
         line[i].word # Empty, i \notin Values(line)
  PROVE  LET t == TurnAt(line, i)
             u == TurnAt(Separated(line), Place(line, i))
         IN Same(t, u) /\ (t.ok => u.next = Place(line, t.next))
<1> DEFINE S == Separated(line)
           p == Place(line, i)
           arg == line[i]
           t == TurnAt(line, i)
           u == TurnAt(S, p)
<1>1. /\ S \in Seq(Arguments) /\ p \in 1 .. Len(S)
      /\ Len(line) \in Nat /\ i \in Nat /\ arg \in Arguments
      /\ Len(S) \in Nat /\ p \in Nat
  <2>1. S \in Seq(Arguments) /\ p \in 1 .. Len(S) /\ Len(S) \in Nat
    BY SeparatedAt
  <2>2. Len(line) \in Nat /\ i \in Nat /\ arg \in Arguments BY LineTyped
  <2> HIDE DEF S, p, arg
  <2> QED BY <2>1, <2>2
<1>2. TakesValue(arg) => arg.key \in OptionKeys
  BY <1>1, WhoTakesValue DEF OptionKeys
<1>3. CASE ~TakesValue(arg)
  <2>1. ~Attached(line, i) BY <1>3 DEF Attached
  <2>2. S[p] = arg /\ Place(line, i + 1) = p + 1
    BY <2>1, SeparatedAt, SplitIs
  <2>3. t = LoneTurn(arg, i) BY <1>3, TurnCases
  <2>4. u = LoneTurn(arg, p)
    <3> HIDE DEF S, p, arg
    <3>1. u = LoneTurn(S[p], p) BY <1>1, <1>3, <2>2, TurnCases
    <3> QED BY <2>2, <3>1
  <2> HIDE DEF t, u, S, p, arg
  <2>5. Same(t, u) BY <2>3, <2>4, SameLoneTurn
  <2>6. t.ok => t.next = i + 1
    BY <1>1, <1>3, <2>3, LoneTurnIsGood DEF arg
  <2>7. u.ok => u.next = p + 1
    <3>1. arg.word # Empty BY DEF arg
    <3> QED BY <1>1, <1>3, <2>4, <3>1, LoneTurnIsGood
  <2>8. t.ok => u.ok BY <2>5 DEF Same
  <2> QED BY <2>2, <2>5, <2>6, <2>7, <2>8 DEF t, u, S, p
<1>4. CASE TakesValue(arg) /\ arg.rest.word # Empty
  <2>1. Attached(line, i) BY <1>4 DEF Attached
  <2> DEFINE s == Split(line, i)
  <2>2. /\ S[p] = s[1] /\ p + 1 \in 1 .. Len(S) /\ S[p + 1] = s[2]
        /\ Place(line, i + 1) = p + 2
    BY <2>1, SeparatedAt
  <2>3. /\ s[1].dashes = arg.dashes /\ s[1].key = arg.key
        /\ s[1].word = arg.word /\ s[1].rest.word = Empty
        /\ Text(s[2]) = arg.rest
    BY <2>1, SplitIs
  <2>4. t = OptionTurn(cmd_line_spec[arg.key], arg.rest, i + 1)
    BY <1>4, TurnCases
  <2>5. arg.rest \in Texts BY <1>1, ArgumentTyped
  <2> HIDE DEF s, S, p, arg
  <2>6. AwaitsValue(S[p]) /\ S[p].key = arg.key
    BY <1>4, <2>2, <2>3 DEF AwaitsValue, TakesValue
  <2>7. p # Len(S) BY <1>1, <2>2
  <2>8. u = OptionTurn(cmd_line_spec[arg.key], arg.rest, p + 2)
    <3>1. u = OptionTurn(cmd_line_spec[S[p].key], Text(S[p + 1]), p + 2)
      BY <1>1, <2>6, <2>7, TurnCases
    <3> QED BY <2>2, <2>3, <2>6, <3>1
  <2> HIDE DEF t, u
  <2>9. Same(t, u) BY <2>4, <2>8, SameOptionTurn
  <2>10. i + 1 \in Nat /\ p + 2 \in Nat BY <1>1
  <2>11. (t.ok => t.next = i + 1) /\ (u.ok => u.next = p + 2)
    BY <1>2, <1>4, <2>4, <2>5, <2>8, <2>10, OptionTurnIsGood
  <2>12. t.ok => u.ok BY <2>9 DEF Same
  <2> QED BY <2>2, <2>9, <2>11, <2>12 DEF t, u, S, p
<1>5. CASE AwaitsValue(arg)
  <2>1. ~Attached(line, i) BY <1>5 DEF Attached, AwaitsValue
  <2>2. S[p] = arg /\ Place(line, i + 1) = p + 1
    BY <2>1, SeparatedAt, SplitIs
  <2>3. CASE i = Len(line)
    <3>1. p = Len(S)
      <4>1. Place(line, Len(line) + 1) = Len(S) + 1 BY SeparatedAt
      <4> HIDE DEF S, p
      <4> QED BY <1>1, <2>2, <2>3, <4>1
    <3>2. t = Throws BY <1>5, <2>3, TurnCases
    <3>3. u = Throws
      <4> HIDE DEF S, p, arg
      <4> QED BY <1>1, <1>5, <2>2, <3>1, TurnCases
    <3> QED BY <3>2, <3>3, ThrowsIsGood DEF Same
  <2>4. CASE i # Len(line)
    <3> DEFINE arg2 == line[i + 1]
    <3>1. i \in 1 .. Len(line) - 1 /\ i + 1 \in 1 .. Len(line)
      BY <1>1, <2>4
    <3>2. i + 1 \in Values(line) BY <1>5, <3>1, ValuesAlternate
    <3>3. ~Attached(line, i + 1) BY <3>2 DEF Attached
    <3>4. /\ Place(line, i + 1) \in 1 .. Len(S)
          /\ S[Place(line, i + 1)] = arg2
          /\ Place(line, (i + 1) + 1) = Place(line, i + 1) + 1
      <4> DEFINE k == i + 1
      <4>1. k \in 1 .. Len(line) /\ ~Attached(line, k) BY <3>1, <3>3
      <4> HIDE DEF k, S
      <4>2. /\ Place(line, k) \in 1 .. Len(S)
            /\ S[Place(line, k)] = Split(line, k)[1]
            /\ Place(line, k + 1) = Place(line, k) + 1
        BY <4>1, SeparatedAt DEF S
      <4>3. Split(line, k)[1] = line[k] BY <4>1, SplitIs
      <4> QED BY <4>2, <4>3 DEF k
    <3>5. Text(arg2) \in Texts BY <3>1, LineTyped, ArgumentTyped
    <3>6. t = OptionTurn(cmd_line_spec[arg.key], Text(arg2), i + 2)
      BY <1>5, <2>4, TurnCases
    <3>7. (i + 1) + 1 = i + 2 BY <1>1
    <3>8. arg.key \in OptionKeys BY <1>2, <1>5 DEF AwaitsValue
    <3> HIDE DEF S, p, arg, arg2
    <3>9. /\ p + 1 \in 1 .. Len(S) /\ S[p + 1] = arg2
          /\ Place(line, i + 2) = p + 2
      BY <1>1, <2>2, <3>4, <3>7
    <3>10. p # Len(S) BY <1>1, <3>9
    <3>11. u = OptionTurn(cmd_line_spec[arg.key], Text(arg2), p + 2)
      <4>1. u = OptionTurn(cmd_line_spec[S[p].key], Text(S[p + 1]), p + 2)
        BY <1>1, <1>5, <2>2, <3>10, TurnCases
      <4> QED BY <2>2, <3>9, <4>1
    <3> HIDE DEF t, u
    <3>12. Same(t, u) BY <3>6, <3>11, SameOptionTurn
    <3>13. i + 2 \in Nat /\ p + 2 \in Nat BY <1>1
    <3>14. (t.ok => t.next = i + 2) /\ (u.ok => u.next = p + 2)
      BY <3>5, <3>6, <3>8, <3>11, <3>13, OptionTurnIsGood
    <3>15. t.ok => u.ok BY <3>12 DEF Same
    <3> QED BY <3>9, <3>12, <3>14, <3>15 DEF t, u, S, p
  <2> QED BY <2>3, <2>4
<1> QED BY <1>3, <1>4, <1>5 DEF AwaitsValue

(* So the parser finds the same from every argument that it looks at as    *)
(* from its place in the separated line.                                   *)
LEMMA ParsesMatch ==
  ASSUME NEW line \in Seq(Arguments)
  PROVE  \A i \in (1 .. Len(line) + 1) \ Values(line) :
           Same(ParseFrom(line)[i],
                ParseFrom(Separated(line))[Place(line, i)])
<1> DEFINE N == Len(line) + 1
           S == Separated(line)
           one == ParseFrom(line)
           two == ParseFrom(S)
           Match(i) == Same(one[i], two[Place(line, i)])
           Bad == {i \in 1 .. N : i \notin Values(line) /\ ~Match(i)}
<1>1. N \in Nat BY LineTyped
<1> SUFFICES ASSUME Bad # {} PROVE FALSE OBVIOUS
<1>2. PICK i \in Bad : \A y \in Bad : y <= i
  <2>1. Bad \subseteq 0 .. N BY <1>1
  <2> HIDE DEF Bad
  <2> QED BY <1>1, <2>1, GreatestExists
<1>3. i \in 1 .. N /\ i \notin Values(line) /\ ~Match(i) BY <1>2
<1>4. ASSUME NEW n \in i + 1 .. N, n \notin Values(line)
      PROVE  Match(n)
  <2> SUFFICES ASSUME ~Match(n) PROVE FALSE OBVIOUS
  <2>1. n \in Bad /\ ~(n <= i) BY <1>1, <1>3, <1>4
  <2> QED BY <1>2, <2>1
<1> DEFINE p == Place(line, i)
<1>5. /\ S \in Seq(Arguments) /\ Len(S) \in Nat
      /\ i \in 1 .. Len(line) => p \in 1 .. Len(S) /\ S[p].word = line[i].word
      /\ i = N => p = Len(S) + 1
  <2>1. /\ S \in Seq(Arguments) /\ Len(S) \in Nat
        /\ i = N => p = Len(S) + 1
    BY SeparatedAt
  <2>2. ASSUME i \in 1 .. Len(line)
        PROVE  p \in 1 .. Len(S) /\ S[p].word = line[i].word
    <3>1. p \in 1 .. Len(S) /\ S[p] = Split(line, i)[1]
      BY <2>2, SeparatedAt
    <3>2. Split(line, i)[1].word = line[i].word
      BY <2>2, SplitIs
    <3> HIDE DEF S, p
    <3> QED BY <3>1, <3>2
  <2> QED BY <2>1, <2>2
<1>6. i = N \/ i \in 1 .. Len(line) BY <1>1, <1>3, LineTyped
<1>7. p \in 1 .. Len(S) + 1
  <2> HIDE DEF S, p, N
  <2> QED BY <1>5, <1>6
<1>8. one[i] = Step(line, one, i) BY <1>3, ParseUnfolds
<1>9. two[p] = Step(S, two, p)
  <2> HIDE DEF S, p
  <2> QED BY <1>5, <1>7, ParseUnfolds DEF two
<1>10. \A n \in 1 .. N : Good(one[n]) BY ParseIsGood
<1>11. \A n \in 1 .. Len(S) + 1 : Good(two[n])
  <2> HIDE DEF S
  <2> QED BY <1>5, ParseIsGood
<1> HIDE DEF one, two, Bad
<1>12. CASE i > Len(line) \/ line[i].word = Empty
  <2>1. one[i] = Turn(i, <<>>, <<>>) BY <1>8, <1>12 DEF Step
  <2>2. p > Len(S) \/ S[p].word = Empty
    <3>1. CASE i = N
      <4> HIDE DEF S, p, N
      <4> QED BY <1>5, <3>1
    <3>2. CASE i \in 1 .. Len(line)
      <4>1. line[i].word = Empty BY <1>12, <3>2, LineTyped
      <4> HIDE DEF S, p
      <4> QED BY <1>5, <3>2, <4>1
    <3> QED BY <1>6, <3>1, <3>2
  <2>3. two[p] = Turn(p, <<>>, <<>>)
    <3> HIDE DEF S, p
    <3> QED BY <1>9, <2>2 DEF Step
  <2> QED BY <1>3, <2>1, <2>3 DEF Same, Turn
<1>13. CASE ~(i > Len(line) \/ line[i].word = Empty)
  <2> DEFINE t == TurnAt(line, i)
             u == TurnAt(S, p)
  <2>1. i \in 1 .. Len(line) BY <1>3, <1>13, LineTyped
  <2>2. ~(p > Len(S) \/ S[p].word = Empty)
    <3> HIDE DEF S, p
    <3> QED BY <1>5, <1>13, <2>1
  <2>3. Same(t, u) /\ (t.ok => u.next = Place(line, t.next))
    BY <1>3, <1>13, <2>1, TurnsMatch
  <2>4. one[i] = IF t.ok THEN Before(t, one[t.next]) ELSE Throws
    BY <1>8, <1>13 DEF Step
  <2>5. two[p] = IF u.ok THEN Before(u, two[u.next]) ELSE Throws
    <3> HIDE DEF S, p
    <3> QED BY <1>9, <2>2 DEF Step
  <2>6. Good(t) BY <1>13, <2>1, TurnIsGood
  <2>7. Good(u) /\ (u.ok => u.next \in p + 1 .. Len(S) + 1)
    <3> HIDE DEF S, p
    <3> QED BY <1>5, <2>1, <2>2, TurnIsGood
  <2>8. t.ok = u.ok /\ t.options = u.options /\ t.args = u.args
    BY <2>3 DEF Same
  <2>9. CASE ~t.ok
    <3> HIDE DEF t, u
    <3>1. one[i] = Throws /\ two[p] = Throws BY <2>4, <2>5, <2>8, <2>9
    <3> QED BY <1>3, <3>1 DEF Same
  <2>10. CASE t.ok
    <3> DEFINE n == t.next
               m == u.next
    <3>1. n \in i + 1 .. N /\ n \notin Values(line)
      BY <1>3, <1>13, <2>1, <2>10, TurnSkipsItsValue
    <3>2. m = Place(line, n) BY <2>3, <2>10
    <3>3. Same(one[n], two[m]) BY <1>4, <3>1, <3>2
    <3>4. n \in 1 .. N BY <1>1, <1>3, <3>1
    <3>5. m \in 1 .. Len(S) + 1
      <4>1. m \in p + 1 .. Len(S) + 1 BY <2>7, <2>8, <2>10
      <4> HIDE DEF m, p, S
      <4> QED BY <1>5, <1>7, <4>1
    <3>6. Good(one[n]) /\ Good(two[m]) BY <1>10, <1>11, <3>4, <3>5
    <3>7. one[i] = Before(t, one[n]) /\ two[p] = Before(u, two[m])
      BY <2>4, <2>5, <2>8, <2>10
    <3> DEFINE a == Before(t, one[n])
               b == Before(u, two[m])
    <3> HIDE DEF t, u, n, m
    <3>8. /\ a.ok = one[n].ok /\ a.options = t.options \o one[n].options
          /\ a.args = t.args \o one[n].args
      BY <2>6, <3>6, BeforeIsGood
    <3>9. /\ b.ok = two[m].ok /\ b.options = u.options \o two[m].options
          /\ b.args = u.args \o two[m].args
      BY <2>7, <3>6, BeforeIsGood
    <3> HIDE DEF a, b
    <3>10. Same(a, b) BY <2>8, <3>3, <3>8, <3>9 DEF Same
    <3>11. Same(one[i], two[p]) BY <3>7, <3>10 DEF a, b
    <3> QED BY <1>3, <3>11
  <2> QED BY <2>9, <2>10
<1> QED BY <1>12, <1>13

LEMMA InvImpliesAttachedOrSeparate == Inv => AttachedOrSeparate
<1> SUFFICES ASSUME Inv PROVE AttachedOrSeparate OBVIOUS
<1>1. argv \in Seq(Arguments) BY InputsAssumption DEF Inv, Chosen
<1>2. Len(argv) \in Nat BY <1>1, LineTyped
<1>3. 1 \notin Values(argv)
  <2>1. Values(argv) \subseteq 2 .. Len(argv) BY <1>1, ValuesAlternate
  <2> QED BY <1>2, <2>1
<1>4. 1 \in (1 .. Len(argv) + 1) \ Values(argv) BY <1>2, <1>3
<1>5. Place(argv, 1) = 1 BY <1>1, SeparatedAt
<1>6. Same(ParseFrom(argv)[1], ParseFrom(Separated(argv))[1])
  BY <1>1, <1>4, <1>5, ParsesMatch
<1>7. Same(parse_cmd_line(argv), parse_cmd_line(Separated(argv)))
  BY <1>6 DEF parse_cmd_line
<1> QED BY <1>7 DEF AttachedOrSeparate, Same

(* A value attached to its option is read as one that follows it, on every *)
(* command line: clustered, repeated, swallowed and missing values         *)
(* included, the parser refuses both forms or reads the same from them.    *)
THEOREM AttachedOrSeparateAlways == Spec => []AttachedOrSeparate
<1> QED BY InvHolds, InvImpliesAttachedOrSeparate, PTL

-----------------------------------------------------------------------------
(* The frame clock, for any set of timers, periods and delays.  NeverFast  *)
(* and NoDrift are inductive once types are known; NoBurst needs to know   *)
(* where a timer stands between two dispatches (AfterLast).                *)

(* The next dispatch of a timer is not due before its latest one.          *)
AfterLast ==
  \A t \in Timers :
    /\ last[t] <= elapsed
    /\ dispatched[t] >= 1 => elapsed + remaining[t] >= last[t]

ClockInv == ClockTypeOK /\ NeverFast /\ NoDrift /\ AfterLast /\ NoBurst

-----------------------------------------------------------------------------

(* The sleep is no longer than any timer has left to wait.                 *)
LEMMA SleepNotPastDue ==
  ASSUME ClockTypeOK
  PROVE  /\ NextTimeout \in Nat
         /\ \A t \in Timers : NextTimeout <= remaining[t]
<1> DEFINE S == {MaxFrameTime} \cup {remaining[t] : t \in Timers}
<1>1. S \subseteq Nat /\ S # {}
  BY ConstantsAssumption DEF ClockTypeOK
<1>2. Min(S) \in S /\ \A y \in S : Min(S) <= y
  BY <1>1, MinIsLeast
<1> QED BY <1>1, <1>2 DEF NextTimeout

-----------------------------------------------------------------------------

LEMMA ClockInitInv == ClockInit => ClockInv
  BY ConstantsAssumption
  DEF ClockInit, ClockInv, ClockTypeOK, NeverFast, NoDrift, AfterLast, NoBurst

(* One turn of the loop, seen by one timer: all the arithmetic of          *)
(* tick_timers.                                                            *)
LEMMA TurnTimer ==
  ASSUME ClockInv, NEW dt \in Nat, LoopTurn(dt), NEW t \in Timers
  PROVE  /\ remaining'[t] \in 0 .. Period[t]
         /\ dispatched'[t] \in Nat /\ last'[t] \in Nat /\ penult'[t] \in Nat
         /\ dispatched'[t] * Period[t] <= elapsed' + remaining'[t]
         /\ MaxLag <= Period[t] =>
              dispatched'[t] * Period[t] = elapsed' + remaining'[t]
         /\ last'[t] <= elapsed'
         /\ dispatched'[t] >= 1 => elapsed' + remaining'[t] >= last'[t]
         /\ dispatched'[t] >= 2 =>
              elapsed' + remaining'[t] >= penult'[t] + Period[t]
<1> DEFINE P == Period[t]
           r == remaining[t]
           d == dispatched[t]
<1>1. /\ P \in Nat /\ P # 0 /\ r \in Nat /\ d \in Nat /\ elapsed \in Nat
      /\ last[t] \in Nat /\ penult[t] \in Nat /\ MaxLag \in Nat
  BY ConstantsAssumption DEF ClockInv, ClockTypeOK
<1>2. /\ r <= P
      /\ d * P <= elapsed + r
      /\ MaxLag <= P => d * P = elapsed + r
      /\ last[t] <= elapsed
      /\ d >= 1 => elapsed + r >= last[t]
      /\ d >= 2 => elapsed + r >= penult[t] + P
  BY DEF ClockInv, NeverFast, NoDrift, AfterLast, NoBurst
<1>3. dt <= r + MaxLag
  BY <1>1, SleepNotPastDue DEF ClockInv, LoopTurn
<1>4. elapsed' = elapsed + dt
  BY DEF LoopTurn
<1>5. CASE dt >= r
  <2>1. /\ remaining'[t] = P - Lesser(dt - r, P)
        /\ dispatched'[t] = d + 1
        /\ last'[t] = elapsed + dt
        /\ penult'[t] = last[t]
    BY <1>5 DEF LoopTurn, Remaining, Due
  <2>2. (d + 1) * P = d * P + P
    BY <1>1
  <2>3. d * P \in Nat
    BY <1>1
  <2>4. /\ Lesser(dt - r, P) \in 0 .. P
        /\ Lesser(dt - r, P) <= dt - r
        /\ MaxLag <= P => Lesser(dt - r, P) = dt - r
    BY <1>1, <1>3, <1>5 DEF Lesser
  <2> HIDE DEF P, r, d
  <2> QED
    BY <1>1, <1>2, <1>4, <1>5, <2>1, <2>2, <2>3, <2>4 DEF P, r, d
<1>6. CASE ~(dt >= r)
  <2>1. /\ remaining'[t] = r - dt
        /\ dispatched'[t] = d
        /\ last'[t] = last[t]
        /\ penult'[t] = penult[t]
    BY <1>6 DEF LoopTurn, Remaining, Due
  <2> QED BY <1>1, <1>2, <1>4, <1>6, <2>1
<1> QED BY <1>5, <1>6

LEMMA ClockNextInv == ClockInv /\ [ClockNext]_clockVars => ClockInv'
<1> SUFFICES ASSUME ClockInv, [ClockNext]_clockVars PROVE ClockInv'
  OBVIOUS
<1>1. ASSUME NEW dt \in 0 .. MaxElapsed, LoopTurn(dt) PROVE ClockInv'
  <2>1. dt \in Nat
    BY ConstantsAssumption
  <2>2. /\ elapsed' \in Nat
        /\ remaining' = [t \in Timers |-> remaining'[t]]
        /\ dispatched' = [t \in Timers |-> dispatched'[t]]
        /\ last' = [t \in Timers |-> last'[t]]
        /\ penult' = [t \in Timers |-> penult'[t]]
    BY <1>1, <2>1 DEF LoopTurn, ClockInv, ClockTypeOK
  <2>3. ClockTypeOK'
    BY <1>1, <2>1, <2>2, TurnTimer, ConstantsAssumption DEF ClockTypeOK
  <2>4. NeverFast' /\ NoDrift' /\ AfterLast' /\ NoBurst'
    BY <1>1, <2>1, TurnTimer, ConstantsAssumption
    DEF NeverFast, NoDrift, AfterLast, NoBurst
  <2> QED BY <2>3, <2>4 DEF ClockInv
<1>2. CASE UNCHANGED clockVars
  BY <1>2
  DEF clockVars, ClockInv, ClockTypeOK, NeverFast, NoDrift, AfterLast, NoBurst
<1> QED BY <1>1, <1>2 DEF ClockNext

(* The frame clock keeps its types and its timing, whatever the delays.    *)
THEOREM ClockInvHolds == ClockSpec => []ClockInv
  BY ClockInitInv, ClockNextInv, PTL DEF ClockSpec

(* No remaining time ever goes below zero, so that the subtractions of     *)
(* tick_timers on unsigned integers never wrap.                            *)
THEOREM ClockTypeCorrect == ClockSpec => []ClockTypeOK
<1>1. ClockInv => ClockTypeOK
  BY DEF ClockInv
<1> QED BY ClockInvHolds, <1>1, PTL

(* A service is never dispatched faster than the frame rate it asked for.  *)
THEOREM NeverRunsFast == ClockSpec => []NeverFast
<1>1. ClockInv => NeverFast
  BY DEF ClockInv
<1> QED BY ClockInvHolds, <1>1, PTL

(* Delays of up to a period never accumulate into drift.                   *)
THEOREM NeverDrifts == ClockSpec => []NoDrift
<1>1. ClockInv => NoDrift
  BY DEF ClockInv
<1> QED BY ClockInvHolds, <1>1, PTL

(* A stall is never followed by a burst of the frames it held up.          *)
THEOREM NeverBursts == ClockSpec => []NoBurst
<1>1. ClockInv => NoBurst
  BY DEF ClockInv
<1> QED BY ClockInvHolds, <1>1, PTL

-----------------------------------------------------------------------------
(* The clock of a configured session.                                      *)

(* The video service is dispatched in step with the file it writes: as     *)
(* long as turns are at most a frame late, n frames, which play for n/rate *)
(* seconds, have taken no longer than that to capture, but for 2 ns a      *)
(* frame, and more than n/(rate + 1) seconds.                              *)
PlaysAtCaptureRate ==
  \A t \in Timers :
    stage = "ready" /\ Period[t] = expiry /\ MaxLag <= expiry =>
      LET time == elapsed + remaining[t]
          n == dispatched[t]
      IN /\ rate * time <= n * (kNsPerSec + 2 * rate)
         /\ n > 0 => (rate + 1) * time > n * (kNsPerSec - 2 * rate)

LEMMA RateTimesFrames ==
  ASSUME NEW n \in Nat, NEW r \in Nat, NEW e \in Nat, NEW lo \in Int,
         NEW hi \in Int, r * e <= hi, (r + 1) * e > lo
  PROVE  /\ r * (n * e) <= n * hi
         /\ n > 0 => (r + 1) * (n * e) > n * lo
<1> DEFINE x == r * e
           y == (r + 1) * e
<1>1. x \in Nat /\ y \in Nat /\ x <= hi /\ y > lo OBVIOUS
<1>2. r * (n * e) = n * x /\ (r + 1) * (n * e) = n * y OBVIOUS
<1> HIDE DEF x, y
<1>3. n * x <= n * hi BY <1>1
<1>4. n > 0 => n * y > n * lo BY <1>1
<1> QED BY <1>2, <1>3, <1>4

(* The frame clock and the rate in the file, each shown for itself, fit    *)
(* together: the recording never plays faster than it was captured.        *)
THEOREM RecordingIsInTime ==
  Spec /\ ClockSpec => []PlaysAtCaptureRate
<1>1. Inv /\ ClockInv => PlaysAtCaptureRate
  <2> SUFFICES ASSUME Inv, ClockInv, NEW t \in Timers, stage = "ready",
                      Period[t] = expiry, MaxLag <= expiry
               PROVE  LET time == elapsed + remaining[t]
                          n == dispatched[t]
                      IN /\ rate * time <= n * (kNsPerSec + 2 * rate)
                         /\ n > 0 => (rate + 1) * time >
                                       n * (kNsPerSec - 2 * rate)
    BY DEF PlaysAtCaptureRate
  <2> DEFINE time == elapsed + remaining[t]
             n == dispatched[t]
             lo == kNsPerSec - 2 * rate
             hi == kNsPerSec + 2 * rate
  <2>1. n \in Nat BY DEF ClockInv, ClockTypeOK
  <2>2. n * expiry = time BY DEF ClockInv, NoDrift
  <2>3. rate \in Nat /\ expiry \in Nat
    <3>1. rate \in 20 .. 71 /\ expiry \in Nat BY ReadyClock
    <3> QED BY <3>1
  <2>4. rate * expiry <= hi /\ (rate + 1) * expiry > lo
    BY InvImpliesAgree DEF RatesAgree, RateWithinOne
  <2>5. kNsPerSec \in Nat BY SMT DEF kNsPerSec
  <2>6. lo \in Int /\ hi \in Int BY <2>3, <2>5
  <2> HIDE DEF time, n, lo, hi
  <2>7. /\ rate * (n * expiry) <= n * hi
        /\ n > 0 => (rate + 1) * (n * expiry) > n * lo
    BY <2>1, <2>3, <2>4, <2>6, RateTimesFrames
  <2> QED BY <2>2, <2>7 DEF time, n, lo, hi
<1> QED BY <1>1, InvHolds, ClockInvHolds, PTL
=============================================================================
