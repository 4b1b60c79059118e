----------------------------- MODULE MCApplication -----------------------------
(***************************************************************************)
(* Application for TLC.  The commands have names of one octet; what is     *)
(* taken apart are all lines of up to four pieces, among them a word that  *)
(* is longer than an argument, and as many blanks as src_current counts.   *)
(***************************************************************************)
EXTENDS Application

Entries19 == <<
  <<"bgw", 1, 3>>, <<"dump", 0, 4>>, <<"help", 0, 4>>, <<"lightr", 1, 6>>, <<"lightw", 3, 6>>,
  <<"help", 0, 1>>, <<"quit", 0, 1>>, <<"quit", 0, 4>>, <<"reset", 0, 5>>, <<"stack", 0, 1>>,
  <<"stack", 0, 5>>, <<"stats", 0, 1>>, <<"stats", 0, 5>>, <<"tempr", 1, 5>>, <<"tempw", 3, 5>>,
  <<"twia", 1, 4>>, <<"twir", 1, 4>>, <<"twirst", 0, 6>>, <<"twiw", 1, 4>> >>

(* The i-th command is called by the i-th letter. *)
MCTable ==
  [i \in DOMAIN Entries19 |-> [command |-> <<64 + i>>, function |-> Entries19[i][1],
                               required_args |-> Entries19[i][2], length |-> Entries19[i][3]]]

bgw == 65
dump == 66
help == 67
lightw == 69
quit == 71
tempw == 79
Space == 32
Minus == 45
Digit(n) == 48 + n

Numeral(word) == IF word[1] = Minus THEN Tail(word) ELSE word
MCAtoi(word) == FoldLeft(LAMBDA n, d : 10 * n + d - 48, 0, Numeral(word))

(* An argument may have an exponent: this one is 1e38, and stands for itself *)
(* among the numbers.                                                        *)
Exponent == <<Digit(1), 101, Digit(3), Digit(8)>>
Huge == 100038

MCAtof(word) ==
  CASE word = Exponent -> Huge
    [] word # Exponent /\ word[1] = Minus -> -MCAtoi(word)
    [] OTHER -> MCAtoi(word)

(* An argument has seven places: six digits with a sign, and five decimals   *)
(* when they are printed; a torn number may be any.                          *)
MCPrintLength(n) ==
  CASE n = Unknown -> 47 [] n = Huge -> 45 [] n = -999999 -> 13 [] OTHER -> 7

MCFactory == {-999999}

Small == <<Digit(1)>>
Large == <<Minus>> \o [i \in 1 .. 6 |-> Digit(9)]

(* Of both kinds, one that is there and one that is not. *)
Thermometers == {<<Digit(0)>>, <<Digit(4)>>}
Lights == {<<Digit(1)>>, <<Digit(2)>>}

With(command, words) == <<command>> \o FoldLeft(LAMBDA s, w : s \o <<Space>> \o w, <<>>, words)

MCCommands ==
  {With(bgw, <<Small>>)}
  \cup {With(tempw, <<s, v, w>>) : s \in Thermometers, v, w \in {Small, Large}}
  \cup {With(tempw, <<<<Digit(0)>>, Exponent, Exponent>>)}
  \cup {With(lightw, <<s, v, Small>>) : s \in Lights, v \in {Small, Large}}
  \cup {<<dump>>, <<help>>, With(help, <<Small>>), <<quit>>, <<68, Space, 49>>, <<tempw, Space, Space, 49>>,
        <<122>>, <<Space, Space>>, <<255, quit>>, <<>>}

Pieces ==
  {<<Space>>, <<97>>, [i \in 1 .. 7 |-> 98], [i \in 1 .. 9 |-> 99], <<127, 255>>, <<122>> \o [i \in 1 .. 253 |-> Space]}

MCLines ==
  MCCommands \cup {FoldLeft(LAMBDA s, p : s \o p, <<>>, ps) : ps \in UNION {[1 .. n -> Pieces] : n \in 1 .. 4}}
===============================================================================
