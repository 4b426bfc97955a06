--------------------------- MODULE MCConfiguration ---------------------------
(* Every rate the command line accepts and those around them; all command  *)
(* lines of up to two arguments, and an output file behind them, over a    *)
(* set that holds every form an argument can take; all keys of up to five  *)
(* characters over both ends and the middle of the alphabet, '=' and a     *)
(* character from outside it.                                              *)
EXTENDS Configuration

MCNoNumber == -1

Rest(w, n) == [word |-> w, number |-> n]
Plain(w, n) == [dashes |-> 0, key |-> "", rest |-> NoValue, word |-> w,
                number |-> n]
Short(w, k, rest) == [dashes |-> 1, key |-> k, rest |-> rest, word |-> w,
                      number |-> NoNumber]

Output == Plain("out.mp4", NoNumber)
Rate(n) == Short("-fN", "f", Rest("N", n))

MCArguments ==
  {Output, Plain("", NoNumber), Plain("60abc", 60), Plain("19", 19),
   Short("-", "", NoValue),
   [Short("--help", "h", Rest("elp", NoNumber)) EXCEPT !.dashes = 2],
   Short("-f", "f", NoValue), Short("-f30", "f", Rest("30", 30)),
   Short("-f25", "f", Rest("25", 25)), Short("-fx", "f", Rest("x", NoNumber)),
   Short("-s44100", "s", Rest("44100", 44100)),
   Short("-V", "V", NoValue),
   Short("-Vh264_nvenc", "V", Rest("h264_nvenc", NoNumber)),
   Short("-A", "A", NoValue), Short("-hf", "h", Rest("f", NoNumber)),
   Short("-v", "v", NoValue), Short("-x", "x", NoValue)}

MCWords == UNION {{arg.key, arg.word, arg.rest.word} :
                    arg \in MCArguments \cup {Rate(0)}}

MCUsualLine == <<Output>>

MCCommandLines ==
  {<<Rate(n), Output>> : n \in 18 .. 71}
  \cup UNION {[1 .. k -> MCArguments] : k \in 0 .. 2}
  \cup {Append(two, Output) : two \in [1 .. 2 -> MCArguments]}

KeyChars == {0, 37, 63, Pad, Alien}

MCKeys == UNION {[1 .. k -> KeyChars] : k \in 0 .. 5}
=============================================================================
