------------------------------ MODULE Application ------------------------------
(***************************************************************************)
(* application_content: a line is taken apart into arguments, the command  *)
(* is looked up, and the commands that keep something do so: bgw, tempw    *)
(* and lightw write their calibrations to the EEPROM, an octet at a time   *)
(* (eeprom.c), and the power may fail in between; dump prints them all.    *)
(* What the other commands do is the matter of other modules.              *)
(*                                                                         *)
(* A number in the EEPROM is what atof has made of an argument.  Each of   *)
(* its octets is named by the number it belongs to.                        *)
(***************************************************************************)
EXTENDS SequencesExt, FiniteSetsExt, Integers

CONSTANTS
  Lines,                 \* lines to be taken apart: sequences of octets
  Commands,              \* the ones among them that a client sends
  Table,                 \* application_function_table
  application_num_args,
  application_length_args,
  IndexMod,              \* 256, what src_current counts to
  temp_cal_size,
  light_cal_size,
  FloatSize,             \* the octets of a number
  Factory,               \* the numbers an EEPROM may be delivered with
  ReplySize,             \* the room for a reply
  atof(_),               \* the number that an argument stands for
  atoi(_),               \* the same for whole numbers
  PrintLength(_),        \* how long a number is, printed with five decimals
  Widest,                \* the longest that a number without an exponent is
  Broken,                \* an octet that was being written when the power failed
  Unknown,               \* no number
  MaxCuts                \* bound: how often the power fails

(* What a size counts to, which has 16 bits. *)
SizeMod == 65536

ASSUME ApplicationAssumption ==
  /\ Commands \subseteq Lines /\ Lines \subseteq Seq(0 .. 255)
  /\ {application_num_args, IndexMod, FloatSize} \subseteq Nat \ {0}
  /\ application_length_args \in Nat \ {0, 1}
  /\ {temp_cal_size, light_cal_size, ReplySize, Widest, MaxCuts} \subseteq Nat
  /\ ReplySize < SizeMod

-------------------------------------------------------------------------------
(* The arguments of a line. *)

(* What is part of a word: '!' to '~'. *)
Graphic(n) == n > 32 /\ n <= 126

(* How far a loop has come in a line, and what it has found.  src_current    *)
(* has 8 bits, and tells how much has been read only modulo IndexMod.        *)
Cursors(line, Found) ==
  {c \in [current : Nat, length : 0 .. Len(line), found : Found] :
     c.current = (Len(line) - c.length) % IndexMod}

Advanced(c, found) ==
  [current |-> (c.current + 1) % IndexMod, length |-> c.length - 1, found |-> found]

(* Mutant of Take: the octet that ends a full argument is one too late. *)
TakeOneMore(line, cursor) ==
  LET take[c \in Cursors(line, Seq(Nat))] ==
        LET n == line[c.current + 1]
        IN IF \/ c.length = 0 \/ Len(c.found) = application_length_args
              \/ ~Graphic(n) /\ c.found # <<>>
           THEN c
           ELSE take[Advanced(c, IF Graphic(n) THEN Append(c.found, n) ELSE c.found)]
  IN take[cursor]

(* The inner loop: what precedes a word is skipped, the word is copied up to *)
(* its end or to the end of the argument.                                    *)
Take(line, cursor) ==
  LET take[c \in Cursors(line, Seq(Nat))] ==
        LET n == line[c.current + 1]
        IN IF \/ c.length = 0 \/ Len(c.found) = application_length_args - 1
              \/ ~Graphic(n) /\ c.found # <<>>
           THEN c
           ELSE take[Advanced(c, IF Graphic(n) THEN Append(c.found, n) ELSE c.found)]
  IN take[cursor]

(* The rest of a word that is longer than an argument. *)
SkipRest(line, cursor) ==
  LET skip[c \in Cursors(line, Seq(Nat))] ==
        IF c.length = 0 \/ ~Graphic(line[c.current + 1]) THEN c ELSE skip[Advanced(c, c.found)]
  IN skip[cursor]

Arguments(line) ==
  LET collect[c \in Cursors(line, Seq(Seq(Nat)))] ==
        IF c.length = 0 \/ Len(c.found) = application_num_args THEN c.found
        ELSE LET taken == Take(line, [c EXCEPT !.found = <<>>])
                 next == SkipRest(line, taken)
             IN collect[[next EXCEPT !.found = IF taken.found = <<>> THEN c.found
                                               ELSE Append(c.found, taken.found)]]
  IN collect[[current |-> 0, length |-> Len(line), found |-> <<>>]]

(* The first entry of the table that has the name. *)
Entries(args) == {i \in DOMAIN Table : Table[i].command = args[1]}
Entry(args) == Table[Min(Entries(args))]

(* The function that is called, or why none is.                              *)
Call(args) ==
  CASE args = <<>> -> "silence"
    [] args # <<>> /\ Entries(args) = {} -> "unknown"
    [] OTHER -> IF Len(args) < Entry(args).required_args + 1 THEN "insufficient"
                ELSE Entry(args).function

(* What lines come to.  Telnet options are no arguments. *)
Requests(lines) ==
  {LET args == IF l # <<>> /\ Head(l) = 255 THEN <<>> ELSE Arguments(l)
   IN [line |-> l, args |-> args, call |-> Call(args)] : l \in lines}

Usual == Requests(Commands)
Unusual == Requests(Lines)

-------------------------------------------------------------------------------
(* The EEPROM, by the numbers of its layout. *)

bandgap == 0
temp_cal(index) == 1 + 2 * index
light_cal(index) == temp_cal(temp_cal_size) + 2 * index

Places == 0 .. light_cal(light_cal_size) - 1

(* The EEPROM is larger than that. *)
Size == light_cal(light_cal_size) + 2

(* The index of a sensor has 8 bits. *)
Index(args) == atoi(args[2]) % 256

(* Mutant of InBounds: one more is let through. *)
InBoundsOrNext(index, size) == index <= size

InBounds(index, size) == index < size

(* Mutant of Pair: the offset is written first. *)
PairSwapped(place, args) ==
  <<[place |-> place + 1, number |-> atof(args[4])], [place |-> place, number |-> atof(args[3])]>>

Pair(place, args) ==
  <<[place |-> place, number |-> atof(args[3])], [place |-> place + 1, number |-> atof(args[4])]>>

(* What a command writes, in this order. *)
Writes(function, args) ==
  CASE function = "bgw" -> <<[place |-> bandgap, number |-> atof(args[2])]>>
    [] function = "tempw" /\ InBounds(Index(args), temp_cal_size) -> Pair(temp_cal(Index(args)), args)
    [] function = "lightw" /\ InBounds(Index(args), light_cal_size) -> Pair(light_cal(Index(args)), args)
    [] OTHER -> <<>>

Keeping == {"bgw", "tempw", "lightw"}

(* The numbers that come into the EEPROM. *)
Written(requests) ==
  UNION {{w.number : w \in Range(Writes(r.call, r.args))} : r \in {q \in requests : q.call \in Keeping}}

(* What clients send makes numbers, and those are no broken octets.          *)
ASSUME NumberAssumption ==
  /\ \A request \in Unusual : request.call \in Keeping => atoi(request.args[2]) \in Int
  /\ Broken \notin Written(Unusual)

VARIABLES
  eeprom,        \* the octets of each number
  pc,            \* "idle", or "write" while a command writes
  writes,        \* what the command that is under way, or was the last one, writes
  written,       \* how many octets of it have been
  reply,         \* the kind of the last reply, the room it took, and the numbers it tells
  cuts,          \* how often the power has failed
  asked,         \* what the last command that writes was to store, and where
  acknowledged,  \* what clients have been told the EEPROM holds
  held           \* what it held when the last command began to write

vars == <<eeprom, pc, writes, written, reply, cuts, asked, acknowledged, held>>

Holds(octets, number) == \A o \in 1 .. FloatSize : octets[o] = number

Torn(octets) == Cardinality(Range(octets)) > 1 \/ Broken \in Range(octets)

(* What a client means by a line, if there is the sensor it names. *)
Meant(function, args) ==
  LET first == CASE function = "bgw" -> {bandgap}
                 [] function = "tempw" -> {temp_cal(i) : i \in {Index(args)} \cap 0 .. temp_cal_size - 1}
                 [] function = "lightw" -> {light_cal(i) : i \in {Index(args)} \cap 0 .. light_cal_size - 1}
  IN IF function = "bgw" THEN [p \in first |-> atof(args[2])]
     ELSE [p \in first \cup {q + 1 : q \in first} |-> atof(args[IF p \in first THEN 3 ELSE 4])]

(* A number is read as a whole. *)
Number(octets) == IF Torn(octets) THEN Unknown ELSE octets[1]

-------------------------------------------------------------------------------
(* Replies of several lines. *)

(* Mutant of Printed: the room is that of the first line for all of them. *)
PrintedUnreduced(so_far, n) ==
  [done |-> so_far.done + 1, end |-> so_far.end + (n % 256), size |-> so_far.size,
   top |-> Max({so_far.top, so_far.end + Min({n + 1, so_far.size})})]

(* snprintf, offset and size: the offset has 8 bits, the size has 16, and    *)
(* snprintf tells how long a line is even if it had no room for it.          *)
Printed(so_far, n) ==
  [done |-> so_far.done + 1, end |-> so_far.end + (n % 256), size |-> (so_far.size - (n % 256)) % SizeMod,
   top |-> Max({so_far.top, so_far.end + Min({n + 1, so_far.size})})]

(* How far the lines have been printed. *)
Reports(lengths) == [done : 0 .. Len(lengths), end : Nat, size : Nat, top : Nat]

(* The room that the lines take, their lengths being given. *)
Room(lengths) ==
  LET print[so_far \in Reports(lengths)] ==
        IF so_far.done = Len(lengths) THEN so_far.top
        ELSE print[Printed(so_far, lengths[so_far.done + 1])]
  IN print[[done |-> 0, end |-> 0, size |-> ReplySize, top |-> 0]]

(* The lines of dump, the numbers being printed in so many octets. *)
DumpOf(width) ==
  <<12 + width[bandgap]>>
  \o [i \in 1 .. temp_cal_size |-> 23 + width[temp_cal(i - 1)] + width[temp_cal(i - 1) + 1]]
  \o [i \in 1 .. light_cal_size |-> 24 + width[light_cal(i - 1)] + width[light_cal(i - 1) + 1]]

DumpLengths == DumpOf([p \in Places |-> PrintLength(Number(eeprom[p]))])

HelpLengths == [i \in 1 .. Len(Table) |-> 11 + Table[i].length]

(* The room that so many of the first lines need. *)
Needed(lengths) ==
  LET needed[k \in 0 .. Len(lengths)] == IF k = 0 THEN 0 ELSE needed[k - 1] + lengths[k]
  IN needed

(* All lines but the last, which may be cut, can be printed as a whole. *)
AllButTheLastFit(lengths) == Needed(lengths)[Len(lengths) - 1] <= ReplySize

(* The table and the layout leave the room that dump and help take. *)
ASSUME ReplyAssumption ==
  /\ Len(Table) \in Nat \ {0} /\ \A i \in 1 .. Len(Table) : Table[i].length \in Nat
  /\ AllButTheLastFit(HelpLengths) /\ AllButTheLastFit(DumpOf([p \in Places |-> Widest]))

-------------------------------------------------------------------------------
Reply(kind) == [kind |-> kind, line |-> <<>>, args |-> <<>>, top |-> 0, numbers |-> <<>>]

Init ==
  /\ \E number \in Factory : /\ eeprom = [p \in 0 .. Size - 1 |-> [o \in 1 .. FloatSize |-> number]]
                             /\ acknowledged = [p \in Places |-> number]
  /\ held = eeprom
  /\ pc = "idle" /\ writes = <<>> /\ written = 0 /\ reply = Reply("none")
  /\ cuts = 0 /\ asked = <<>>

Answered(r) ==
  /\ reply' = r
  /\ UNCHANGED <<eeprom, pc, writes, written, cuts, asked, acknowledged, held>>

(* An empty line, a telnet option, or nothing but blanks. *)
Silence(request) ==
  /\ pc = "idle" /\ request.call = "silence"
  /\ Answered(Reply("none"))

(* The reply names the first of the arguments. *)
UnknownCommand(request) ==
  /\ pc = "idle" /\ request.call = "unknown"
  /\ Answered([Reply("unknown") EXCEPT !.line = request.line, !.args = request.args])

Insufficient(request) ==
  /\ pc = "idle" /\ request.call = "insufficient"
  /\ Answered(Reply("insufficient"))

(* bgw, tempw, lightw. *)
Write(request) ==
  /\ pc = "idle" /\ request.call \in Keeping
  /\ pc' = "write" /\ writes' = Writes(request.call, request.args) /\ written' = 0
  /\ reply' = Reply("none")
  /\ held' = eeprom
  /\ asked' = Meant(request.call, request.args)
  /\ acknowledged' = [p \in Places |-> IF p \in DOMAIN asked' THEN Unknown ELSE acknowledged[p]]
  /\ UNCHANGED <<eeprom, cuts>>

Other(request) ==
  /\ pc = "idle"
  /\ request.call \notin Keeping \cup {"silence", "unknown", "insufficient"}
  /\ Answered(CASE request.call = "dump" -> [Reply("text") EXCEPT !.top = Room(DumpLengths)]
                [] request.call = "help" /\ Len(request.args) = 1 ->
                     [Reply("text") EXCEPT !.top = Room(HelpLengths)]
                [] request.call = "quit" -> Reply("close")
                [] request.call = "reset" -> Reply("none")
                [] OTHER -> Reply("text"))

(* The n-th octet of what is to be written. *)
WriteOf(n) == writes[((n - 1) \div FloatSize) + 1]
ToWrite(n) == WriteOf(n).number
Position(n) == [place |-> WriteOf(n).place, octet |-> ((n - 1) % FloatSize) + 1]

Total == Len(writes) * FloatSize

Put(n, octet) ==
  eeprom' = [eeprom EXCEPT ![Position(n).place][Position(n).octet] = octet]

(* eeprom_update_block. *)
WriteOctet ==
  /\ pc = "write" /\ written < Total
  /\ Put(written + 1, ToWrite(written + 1))
  /\ written' = written + 1
  /\ UNCHANGED <<pc, writes, reply, cuts, asked, acknowledged, held>>

(* What has been written is read again; a sensor there is not has 0 and 0.   *)
Return ==
  /\ pc = "write" /\ written = Total
  /\ pc' = "idle"
  /\ reply' = [Reply("set") EXCEPT
                !.numbers = IF writes = <<>> THEN <<0, 0>>
                            ELSE [i \in DOMAIN writes |-> Number(eeprom[writes[i].place])]]
  /\ acknowledged' = [p \in Places |-> IF p \in DOMAIN asked THEN asked[p] ELSE acknowledged[p]]
  /\ UNCHANGED <<eeprom, writes, written, cuts, asked, held>>

(* External: the power fails, in the middle of an octet perhaps.  An octet   *)
(* that is to stay the same is not written.                                  *)
PowerCut ==
  /\ cuts < MaxCuts
  /\ cuts' = cuts + 1
  /\ \/ UNCHANGED eeprom
     \/ /\ pc = "write" /\ written < Total
        /\ eeprom[Position(written + 1).place][Position(written + 1).octet] # ToWrite(written + 1)
        /\ Put(written + 1, Broken)
  /\ pc' = "idle" /\ reply' = Reply("none")
  /\ UNCHANGED <<writes, written, asked, acknowledged, held>>

(* Bound: only here come the lines that no client sends. *)
Nothing == reply = Reply("none") /\ writes = <<>> /\ cuts = 0

application_content ==
  \/ \E request \in IF Nothing THEN Unusual ELSE Usual :
       Silence(request) \/ UnknownCommand(request) \/ Insufficient(request)
       \/ Write(request) \/ Other(request)
  \/ WriteOctet \/ Return

Next == application_content \/ PowerCut

Spec == Init /\ [][Next]_vars

-------------------------------------------------------------------------------
TypeOK ==
  /\ DOMAIN eeprom = 0 .. Size - 1 /\ pc \in {"idle", "write"}
  /\ written \in 0 .. Total /\ cuts \in 0 .. MaxCuts
  /\ \A i \in DOMAIN writes : writes[i].place \in Places
  /\ pc = "write" => reply.kind = "none"

(* The words of a text: where they begin, and each of them up to its end.    *)
(* The k-th begins where k of them have.                                     *)
Begins(text) == {i \in DOMAIN text : Graphic(text[i]) /\ (i = 1 \/ ~Graphic(text[i - 1]))}
WordAt(text, i) ==
  SubSeq(text, i, Max({j \in i .. Len(text) : \A l \in i .. j : Graphic(text[l])}))
Nth(S, k) == CHOOSE i \in S : Cardinality({j \in S : j <= i}) = k
Words(text) == [k \in 1 .. Cardinality(Begins(text)) |-> WordAt(text, Nth(Begins(text), k))]

FirstOf(s, n) == SubSeq(s, 1, Min({n, Len(s)}))

(* The arguments are the first words of the line, as much of each as an      *)
(* argument holds (application.c:199-233).  A line longer than src_current   *)
(* can count is read as if it began anew, and nothing behind its end is.     *)
Parsed ==
  LET line == reply.line
      text == [i \in DOMAIN line |-> line[((i - 1) % IndexMod) + 1]]
      words == FirstOf(Words(text), application_num_args)
  IN reply.args = [k \in DOMAIN words |-> FirstOf(words[k], application_length_args - 1)]

(* What clients have been told is in the EEPROM stays there, whatever is     *)
(* written to other places, wherever the power fails, until a command writes *)
(* to the same place (eeprom.c, application-temperature.c:181-200).          *)
Durable ==
  /\ \A p \in Places : acknowledged[p] # Unknown => Holds(eeprom[p], acknowledged[p])
  /\ reply.kind = "set" =>
       IF asked = <<>> THEN reply.numbers = <<0, 0>>
       ELSE Range(reply.numbers) = Range(asked)

(* However the last command that writes has ended, what it has left is the   *)
(* new up to some octet, one that may be broken, and the old from there on:  *)
(* an offset is never newer than its factor                                  *)
(* (application-temperature.c:191-192, application-light.c:196-197).         *)
Prefix ==
  LET place(k) == Min({w.place : w \in Range(writes)}) + ((k - 1) \div FloatSize)
      octet(k) == ((k - 1) % FloatSize) + 1
      now(k) == eeprom[place(k)][octet(k)]
      old(k) == held[place(k)][octet(k)]
      new(k) == (CHOOSE w \in Range(writes) : w.place = place(k)).number
  IN \E new_ones \in 0 .. Total :
       \A k \in 1 .. Total :
         now(k) \in CASE k <= new_ones -> {new(k)}
                     [] k = new_ones + 1 -> {old(k), Broken}
                     [] OTHER -> {old(k)}

(* The lines of dump and help stay within the reply: the room that is left   *)
(* is never reduced by more than there is (application.c:277-344).  This is  *)
(* only so while no number of the EEPROM is torn, and none is wider than one *)
(* that was given without an exponent: nothing in the code keeps a client    *)
(* from giving one of forty digits by 1e38.                                  *)
Fits ==
  (\A p \in Places : ~Torn(eeprom[p]) /\ PrintLength(Number(eeprom[p])) \in 0 .. Widest)
  => reply.top <= ReplySize
===============================================================================
