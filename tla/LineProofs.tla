------------------------------- MODULE LineProofs -------------------------------
(***************************************************************************)
(* Proofs about the loops of Application, for lines and arguments of any   *)
(* length: what the parser makes of a line are the words of the line, and  *)
(* the lines of a long reply stay within the room there is.                *)
(*                                                                         *)
(* The loops are recursive functions.  That there is such a function, and  *)
(* what holds of its values, would be shown by induction; here it is shown *)
(* of sets, once for all loops, by their least elements (LoopExists,       *)
(* LoopRule).                                                              *)
(***************************************************************************)
EXTENDS ApplicationProofs, SequenceTheorems, WellFoundedInduction

-------------------------------------------------------------------------------
(* Loops. *)

(* A set of naturals that is not empty has a least element. *)
LEMMA Least ==
  ASSUME NEW S, S \subseteq Nat, S # {}
  PROVE  \E m \in S : \A n \in S : m <= n
<1> DEFINE R == {ss \in Nat \X Nat : ss[1] < ss[2]}
<1>1. IsWellFoundedOn(R, Nat) BY NatLessThanWellFounded DEF OpToRel
<1> HIDE DEF R
<1>2. PICK m \in S : \A n \in S : <<n, m>> \notin R BY <1>1, WFMin, Zenon
<1>3. \A n \in S : ~(n < m) BY <1>2 DEF R
<1> QED BY <1>3

(* A loop over the states in S: it ends in those of D, with the value r, and *)
(* goes on from any other to the next.                                       *)
IsLoop(g, S, D, r, next) == g = [x \in S |-> IF x \in D THEN r[x] ELSE g[next[x]]]

(* What is left to do is m, bound for the most of it; it becomes less.       *)
Falls(S, D, next, m, bound) ==
  /\ bound \in Nat
  /\ \A x \in S : m[x] \in 0 .. bound
  /\ \A x \in S \ D : next[x] \in S /\ m[next[x]] < m[x]

(* Such a loop is a function. *)
LEMMA LoopExists ==
  ASSUME NEW S, NEW D, NEW r, NEW next, NEW m, NEW bound, Falls(S, D, next, m, bound)
  PROVE  \E g : IsLoop(g, S, D, r, next)
<1> DEFINE Below(n) == {x \in S : m[x] < n}
           Bad == {n \in Nat : ~\E g : IsLoop(g, Below(n), D, r, next)}
<1>1. SUFFICES ASSUME Bad # {} PROVE FALSE
  <2>1. bound + 1 \in Nat /\ Below(bound + 1) = S BY DEF Falls
  <2>2. bound + 1 \notin Bad => \E g : IsLoop(g, Below(bound + 1), D, r, next) BY <2>1
  <2> HIDE DEF Bad, Below
  <2> QED BY <2>1, <2>2
<1> HIDE DEF Bad
<1>2. PICK n \in Bad : \A k \in Bad : n <= k
  <2>1. Bad \subseteq Nat BY DEF Bad
  <2> QED BY <1>1, <2>1, Least
<1>3. n \in Nat /\ ~\E g : IsLoop(g, Below(n), D, r, next) BY <1>2 DEF Bad
<1>4. n # 0
  <2>1. Below(0) = {} BY DEF Falls
  <2>2. IsLoop([x \in {} |-> r], {}, D, r, next) BY DEF IsLoop
  <2> QED BY <1>3, <2>1, <2>2
<1>5. n - 1 \in Nat /\ n - 1 \notin Bad BY <1>2, <1>3, <1>4
<1>6. PICK h : IsLoop(h, Below(n - 1), D, r, next) BY <1>5 DEF Bad
<1> DEFINE g == [x \in Below(n) |-> IF x \in D THEN r[x] ELSE h[next[x]]]
<1>7. \A x \in Below(n - 1) : x \in Below(n) /\ g[x] = h[x]
  <2>1. \A x \in Below(n - 1) : x \in Below(n) BY <1>3 DEF Falls
  <2>2. \A x \in Below(n - 1) : h[x] = IF x \in D THEN r[x] ELSE h[next[x]]
    <3> HIDE DEF Below
    <3> QED BY <1>6 DEF IsLoop
  <2> HIDE DEF Below
  <2> QED BY <2>1, <2>2
<1>8. \A x \in Below(n) : x \notin D => next[x] \in Below(n - 1) BY <1>3 DEF Falls
<1>9. IsLoop(g, Below(n), D, r, next)
  <2>1. \A x \in Below(n) : x \notin D => g[next[x]] = h[next[x]] BY <1>7, <1>8
  <2> HIDE DEF Below
  <2>2. \A x \in Below(n) : (IF x \in D THEN r[x] ELSE h[next[x]])
                              = (IF x \in D THEN r[x] ELSE g[next[x]])
    BY <2>1
  <2> QED BY <2>2 DEF IsLoop
<1> QED BY <1>3, <1>9

(* The states of Q stay in it; those of them in which the loop ends have     *)
(* their result in V; from any of them it comes to a value in V.             *)
Stays(Q, D, next) == \A x \in Q \ D : next[x] \in Q
Results(Q, D, r, V) == \A x \in Q \cap D : r[x] \in V
ComesTo(g, Q, V) == \A x \in Q : g[x] \in V

(* What the states of Q have in common, and keep with each step of the loop, *)
(* they have where it ends: its value is in V.                               *)
LEMMA LoopRule ==
  ASSUME NEW S, NEW D, NEW r, NEW next, NEW m, NEW bound, Falls(S, D, next, m, bound),
         NEW g, IsLoop(g, S, D, r, next),
         NEW Q, Q \subseteq S, Stays(Q, D, next), NEW V, Results(Q, D, r, V)
  PROVE  ComesTo(g, Q, V)
<1> DEFINE Bad == {m[x] : x \in {y \in Q : g[y] \notin V}}
<1>1. SUFFICES ASSUME Bad # {} PROVE FALSE BY DEF ComesTo
<1>2. PICK n \in Bad : \A k \in Bad : n <= k
  <2>1. Bad \subseteq Nat BY DEF Falls
  <2> HIDE DEF Bad
  <2> QED BY <1>1, <2>1, Least
<1>3. PICK x \in Q : g[x] \notin V /\ n = m[x] BY <1>2
<1>4. g[x] = IF x \in D THEN r[x] ELSE g[next[x]] BY <1>3 DEF IsLoop
<1>5. x \notin D BY <1>3, <1>4 DEF Results
<1>6. next[x] \in Q /\ g[next[x]] \notin V BY <1>3, <1>4, <1>5 DEF Stays
<1>7. m[next[x]] \in Bad BY <1>6
<1>8. m[next[x]] < m[x] /\ m[x] \in Nat /\ m[next[x]] \in Nat BY <1>3, <1>5, <1>6 DEF Falls
<1>9. n <= m[next[x]] BY <1>2, <1>7
<1> QED BY <1>3, <1>8, <1>9

-------------------------------------------------------------------------------
(* How a line is read. *)

LEMMA Sizes ==
  /\ application_num_args \in Nat \ {0} /\ IndexMod \in Nat \ {0}
  /\ application_length_args - 1 \in Nat \ {0}
BY ApplicationAssumption

(* Counting modulo a number. *)
LEMMA Counting ==
  ASSUME NEW p \in Nat, NEW n \in Nat \ {0}
  PROVE  ((p % n) + 1) % n = (p + 1) % n /\ p % n \in Nat /\ p % n <= p
<1>1. PICK q \in Nat, r \in Nat : r < n /\ p = n * q + r /\ p % n = r
  OBVIOUS
<1>2. CASE r + 1 < n
  <2>1. (r + 1) % n = r + 1 BY <1>2
  <2>2. (n * q + (r + 1)) % n = r + 1 BY <1>2
  <2> QED BY <1>1, <2>1, <2>2
<1>3. CASE r + 1 = n
  <2>1. (r + 1) % n = 0 BY <1>3
  <2>2. n * q + (r + 1) = n * (q + 1) BY <1>1, <1>3
  <2>3. (n * (q + 1)) % n = 0 OBVIOUS
  <2> QED BY <1>1, <2>1, <2>2, <2>3
<1> QED BY <1>1, <1>2, <1>3

Octets == Seq(0 .. 255)

(* What is read, wherever src_current is: the line, again and again. *)
Text(line) == [i \in DOMAIN line |-> line[((i - 1) % IndexMod) + 1]]
IsGraphic(line, i) == Graphic(Text(line)[i])

(* How much has been read. *)
Place(line, c) == Len(line) - c.length

LEMMA TextType ==
  ASSUME NEW line \in Octets
  PROVE  /\ Len(line) \in Nat /\ DOMAIN line = 1 .. Len(line)
         /\ Text(line) \in Octets /\ Len(Text(line)) = Len(line)
         /\ DOMAIN Text(line) = 1 .. Len(line)
         /\ \A i \in 1 .. Len(line) : Text(line)[i] = line[((i - 1) % IndexMod) + 1]
<1>1. Len(line) \in Nat /\ DOMAIN line = 1 .. Len(line) BY LenProperties DEF Octets
<1>2. \A i \in 1 .. Len(line) : line[i] \in 0 .. 255 BY ElementOfSeq DEF Octets
<1>3. \A i \in 1 .. Len(line) : ((i - 1) % IndexMod) + 1 \in 1 .. Len(line)
  <2>1. SUFFICES ASSUME NEW i \in 1 .. Len(line)
                 PROVE  ((i - 1) % IndexMod) + 1 \in 1 .. Len(line)
    OBVIOUS
  <2>2. i - 1 \in Nat /\ IndexMod \in Nat \ {0} BY <1>1, Sizes
  <2>3. (i - 1) % IndexMod \in Nat /\ (i - 1) % IndexMod <= i - 1 BY <2>2, Counting
  <2> QED BY <1>1, <2>2, <2>3
<1>4. \A i \in 1 .. Len(line) : Text(line)[i] \in 0 .. 255 BY <1>1, <1>2, <1>3 DEF Text
<1>5. Text(line) = [i \in 1 .. Len(line) |-> Text(line)[i]] BY <1>1 DEF Text
<1> HIDE DEF Text
<1>6. Text(line) \in Octets BY <1>1, <1>4, <1>5 DEF Octets
<1>7. Len(Text(line)) = Len(line) /\ DOMAIN Text(line) = 1 .. Len(line) BY <1>1, <1>5, <1>6, LenProperties DEF Octets
<1> QED BY <1>1, <1>6, <1>7 DEF Text

LEMMA CursorFacts ==
  ASSUME NEW line \in Octets, NEW Found, NEW c \in Cursors(line, Found)
  PROVE  /\ c.length \in 0 .. Len(line) /\ c.found \in Found /\ c.current \in Nat
         /\ Place(line, c) \in 0 .. Len(line) /\ c.length = Len(line) - Place(line, c)
         /\ c.current = Place(line, c) % IndexMod
         /\ c = [current |-> c.current, length |-> c.length, found |-> c.found]
BY TextType DEF Cursors, Place

(* The next octet. *)
LEMMA CursorReads ==
  ASSUME NEW line \in Octets, NEW Found, NEW c \in Cursors(line, Found), c.length # 0
  PROVE  /\ Place(line, c) + 1 \in 1 .. Len(line)
         /\ line[c.current + 1] = Text(line)[Place(line, c) + 1]
         /\ line[c.current + 1] \in 0 .. 255
<1>1. Place(line, c) + 1 \in 1 .. Len(line) BY CursorFacts, TextType
<1>2. Text(line)[Place(line, c) + 1] = line[c.current + 1]
  <2>1. Place(line, c) + 1 - 1 = Place(line, c) BY CursorFacts, TextType
  <2> QED BY <1>1, <2>1, CursorFacts, TextType
<1>3. Text(line)[Place(line, c) + 1] \in 0 .. 255 BY <1>1, TextType, ElementOfSeq DEF Octets
<1> QED BY <1>1, <1>2, <1>3

LEMMA CursorAdvances ==
  ASSUME NEW line \in Octets, NEW Found, NEW c \in Cursors(line, Found), c.length # 0,
         NEW found \in Found
  PROVE  /\ Advanced(c, found) \in Cursors(line, Found)
         /\ Advanced(c, found).found = found
         /\ Advanced(c, found).length = c.length - 1
         /\ Place(line, Advanced(c, found)) = Place(line, c) + 1
<1>1. /\ c.length \in 1 .. Len(line) /\ Place(line, c) \in Nat /\ Len(line) \in Nat
      /\ c.length = Len(line) - Place(line, c) /\ c.current = Place(line, c) % IndexMod
  BY CursorFacts, TextType
<1>2. (c.current + 1) % IndexMod = (Place(line, c) + 1) % IndexMod
      /\ (Place(line, c) + 1) % IndexMod \in Nat
  <2>1. Place(line, c) + 1 \in Nat BY <1>1
  <2> QED BY <1>1, <2>1, Counting, Sizes
<1>3. Len(line) - (c.length - 1) = Place(line, c) + 1 /\ c.length - 1 \in 0 .. Len(line)
  BY <1>1
<1>4. Advanced(c, found) = [current |-> (c.current + 1) % IndexMod, length |-> c.length - 1, found |-> found]
  BY DEF Advanced
<1>5. (c.current + 1) % IndexMod = (Len(line) - (c.length - 1)) % IndexMod BY <1>2, <1>3
<1>6. (c.current + 1) % IndexMod \in Nat BY <1>2
<1>7. Advanced(c, found) \in Cursors(line, Found)
  <2> DEFINE x == (c.current + 1) % IndexMod
             y == c.length - 1
  <2>1. x \in Nat /\ y \in 0 .. Len(line) /\ x = (Len(line) - y) % IndexMod BY <1>3, <1>5, <1>6
  <2>2. Advanced(c, found) = [current |-> x, length |-> y, found |-> found] BY <1>4
  <2> HIDE DEF x, y
  <2> QED BY <2>1, <2>2 DEF Cursors
<1> QED BY <1>3, <1>4, <1>7 DEF Place

(* The same place with something else found. *)
LEMMA CursorWith ==
  ASSUME NEW line \in Octets, NEW Found, NEW c \in Cursors(line, Found), NEW Found2, NEW found \in Found2,
         NEW d, d = [c EXCEPT !.found = found]
  PROVE  /\ d \in Cursors(line, Found2) /\ d.found = found
         /\ d.length = c.length /\ Place(line, d) = Place(line, c)
BY DEF Cursors, Place

-------------------------------------------------------------------------------
(* The loops of the parser, as loops.                                        *)

(* Where the line is with a word that is being copied, and with the words.   *)
Copying(line) == Cursors(line, Seq(Nat))
Collecting(line) == Cursors(line, Seq(Seq(Nat)))

(* What is found, and how much is left, with either. *)
Itself(S) == [c \in S |-> c]
Left(S) == [c \in S |-> c.length]

IsTake(g, line) ==
  g = [c \in Cursors(line, Seq(Nat)) |->
         LET n == line[c.current + 1]
         IN IF \/ c.length = 0 \/ Len(c.found) = application_length_args - 1
               \/ ~Graphic(n) /\ c.found # <<>>
            THEN c
            ELSE g[Advanced(c, IF Graphic(n) THEN Append(c.found, n) ELSE c.found)]]

TakeEnds(line) ==
  {c \in Copying(line) :
     \/ c.length = 0 \/ Len(c.found) = application_length_args - 1
     \/ ~Graphic(line[c.current + 1]) /\ c.found # <<>>}

TakeNext(line) ==
  [c \in Copying(line) |->
     Advanced(c, IF Graphic(line[c.current + 1]) THEN Append(c.found, line[c.current + 1]) ELSE c.found)]

IsSkip(g, line) ==
  g = [c \in Cursors(line, Seq(Nat)) |->
         IF c.length = 0 \/ ~Graphic(line[c.current + 1]) THEN c ELSE g[Advanced(c, c.found)]]

SkipEnds(line) == {c \in Copying(line) : c.length = 0 \/ ~Graphic(line[c.current + 1])}

SkipNext(line) == [c \in Copying(line) |-> Advanced(c, c.found)]

LEMMA TakeFalls ==
  ASSUME NEW line \in Octets
  PROVE  Falls(Copying(line), TakeEnds(line), TakeNext(line), Left(Copying(line)), Len(line))
<1>1. Len(line) \in Nat BY TextType
<1>2. \A c \in Copying(line) : Left(Copying(line))[c] \in 0 .. Len(line)
  BY CursorFacts DEF Copying, Left
<1>3. ASSUME NEW c \in Copying(line) \ TakeEnds(line)
      PROVE  /\ TakeNext(line)[c] \in Copying(line)
             /\ Left(Copying(line))[TakeNext(line)[c]] < Left(Copying(line))[c]
  <2> DEFINE n == line[c.current + 1]
             found == IF Graphic(n) THEN Append(c.found, n) ELSE c.found
  <2>1. c \in Cursors(line, Seq(Nat)) /\ c.length # 0 BY DEF TakeEnds, Copying
  <2>2. n \in Nat /\ c.found \in Seq(Nat)
    <3>1. n \in 0 .. 255 BY <2>1, CursorReads
    <3>2. c.found \in Seq(Nat) BY <2>1, CursorFacts
    <3> HIDE DEF n
    <3> QED BY <3>1, <3>2
  <2>3. Append(c.found, n) \in Seq(Nat) BY <2>2, AppendProperties
  <2>4. found \in Seq(Nat) BY <2>2, <2>3
  <2>5. TakeNext(line)[c] = Advanced(c, found) BY DEF TakeNext
  <2> HIDE DEF found
  <2>6. Advanced(c, found) \in Copying(line) /\ Advanced(c, found).length = c.length - 1
    BY <2>1, <2>4, CursorAdvances DEF Copying
  <2>7. c.length \in Nat BY <2>1, CursorFacts, <1>1
  <2> QED BY <2>5, <2>6, <2>7 DEF Left
<1> QED BY <1>1, <1>2, <1>3 DEF Falls

LEMMA TakeIsLoop ==
  ASSUME NEW line \in Octets
  PROVE  \E g : /\ IsLoop(g, Copying(line), TakeEnds(line), Itself(Copying(line)), TakeNext(line))
                /\ \A c : Take(line, c) = g[c]
<1>1. \A g : IsTake(g, line) <=>
        IsLoop(g, Copying(line), TakeEnds(line), Itself(Copying(line)), TakeNext(line))
  BY DEF IsTake, IsLoop, TakeEnds, TakeNext, Itself, Copying
<1>2. \E g : IsTake(g, line) BY <1>1, TakeFalls, LoopExists
<1> DEFINE g == CHOOSE h : IsTake(h, line)
<1>3. \A c : Take(line, c) = g[c] BY DEF Take, IsTake
<1>4. IsTake(g, line) BY <1>2
<1> HIDE DEF g
<1> QED BY <1>1, <1>3, <1>4

LEMMA SkipFalls ==
  ASSUME NEW line \in Octets
  PROVE  Falls(Copying(line), SkipEnds(line), SkipNext(line), Left(Copying(line)), Len(line))
<1>1. Len(line) \in Nat BY TextType
<1>2. \A c \in Copying(line) : Left(Copying(line))[c] \in 0 .. Len(line)
  BY CursorFacts DEF Copying, Left
<1>3. ASSUME NEW c \in Copying(line) \ SkipEnds(line)
      PROVE  /\ SkipNext(line)[c] \in Copying(line)
             /\ Left(Copying(line))[SkipNext(line)[c]] < Left(Copying(line))[c]
  <2>1. c \in Cursors(line, Seq(Nat)) /\ c.length # 0 BY DEF SkipEnds, Copying
  <2>2. c.found \in Seq(Nat) /\ c.length \in Nat BY <2>1, <1>1, CursorFacts
  <2>3. Advanced(c, c.found) \in Copying(line) /\ Advanced(c, c.found).length = c.length - 1
    BY <2>1, <2>2, CursorAdvances DEF Copying
  <2> QED BY <2>2, <2>3 DEF Left, SkipNext
<1> QED BY <1>1, <1>2, <1>3 DEF Falls

LEMMA SkipIsLoop ==
  ASSUME NEW line \in Octets
  PROVE  \E g : /\ IsLoop(g, Copying(line), SkipEnds(line), Itself(Copying(line)), SkipNext(line))
                /\ \A c : SkipRest(line, c) = g[c]
<1>1. \A g : IsSkip(g, line) <=>
        IsLoop(g, Copying(line), SkipEnds(line), Itself(Copying(line)), SkipNext(line))
  BY DEF IsSkip, IsLoop, SkipEnds, SkipNext, Itself, Copying
<1>2. \E g : IsSkip(g, line) BY <1>1, SkipFalls, LoopExists
<1> DEFINE g == CHOOSE h : IsSkip(h, line)
<1>3. \A c : SkipRest(line, c) = g[c] BY DEF SkipRest, IsSkip
<1>4. IsSkip(g, line) BY <1>2
<1> HIDE DEF g
<1> QED BY <1>1, <1>3, <1>4

-------------------------------------------------------------------------------
(* What the inner loops read.                                                *)

(* Nothing, or nothing else, but parts of words between two places. *)
Blank(line, from, to) == \A i \in from + 1 .. to : ~IsGraphic(line, i)
Solid(line, from, to) == \A i \in from + 1 .. to : IsGraphic(line, i)

(* What is between two places. *)
Between(line, from, to, found) ==
  Len(found) = to - from /\ \A i \in 1 .. to - from : found[i] = Text(line)[from + i]

(* The first word behind p begins behind b, and goes up to q at least. *)
FirstWord(line, p, b, q) == b \in p .. q - 1 /\ Blank(line, p, b) /\ Solid(line, b, q)

(* What has been copied when the loop began behind p and has come to q: none *)
(* of a word, or the beginning of the first one.                             *)
Copied(line, p, q, found) ==
  /\ p <= q
  /\ \/ found = <<>> /\ Blank(line, p, q)
     \/ \E b : /\ FirstWord(line, p, b, q) /\ Between(line, b, q, found)
               /\ q - b <= application_length_args - 1

LEMMA CopyMore ==
  ASSUME NEW line \in Octets, NEW p \in Nat, NEW q \in Nat, q < Len(line),
         NEW found \in Seq(Nat), Copied(line, p, q, found),
         Len(found) # application_length_args - 1, found = <<>> \/ IsGraphic(line, q + 1),
         NEW octet \in Nat, octet = Text(line)[q + 1],
         NEW more, more = IF Graphic(octet) THEN Append(found, octet) ELSE found
  PROVE  more \in Seq(Nat) /\ Copied(line, p, q + 1, more)
<1>0. Graphic(octet) <=> IsGraphic(line, q + 1) BY DEF IsGraphic
<1>1. /\ Append(found, octet) \in Seq(Nat) /\ Len(Append(found, octet)) = Len(found) + 1
      /\ Len(found) \in Nat
      /\ \A i \in 1 .. Len(found) : Append(found, octet)[i] = found[i]
      /\ Append(found, octet)[Len(found) + 1] = octet
  BY AppendProperties, LenProperties
<1>2. more \in Seq(Nat) BY <1>1
<1>3. p <= q /\ p <= q + 1 BY DEF Copied
<1>4. PICK l \in Nat \ {0} : l = application_length_args - 1 BY Sizes
<1>5. CASE found = <<>> /\ Blank(line, p, q) /\ ~Graphic(octet)
  <2>1. Blank(line, p, q + 1) BY <1>0, <1>3, <1>5 DEF Blank
  <2>2. more = <<>> BY <1>5
  <2> QED BY <1>2, <1>3, <2>1, <2>2 DEF Copied
<1>6. CASE found = <<>> /\ Blank(line, p, q) /\ Graphic(octet)
  <2>1. Solid(line, q, q + 1) BY <1>0, <1>6 DEF Solid
  <2>2. FirstWord(line, p, q, q + 1) BY <1>3, <1>6, <2>1 DEF FirstWord
  <2>3. Len(more) = 1 /\ more[1] = octet
    <3>1. Len(found) = 0 BY <1>6, EmptySeq
    <3> QED BY <1>1, <1>6, <3>1
  <2>4. Between(line, q, q + 1, more) BY <2>3 DEF Between
  <2>5. (q + 1) - q <= application_length_args - 1
    <3>1. (q + 1) - q = 1 /\ 1 <= l OBVIOUS
    <3> QED BY <1>4, <3>1
  <2> QED BY <1>2, <1>3, <2>2, <2>4, <2>5 DEF Copied
<1>7. ASSUME NEW b, FirstWord(line, p, b, q), Between(line, b, q, found),
             q - b <= application_length_args - 1
      PROVE  Copied(line, p, q + 1, more)
  <2>1. b \in p .. q - 1 /\ b \in Nat /\ Blank(line, p, b) /\ Solid(line, b, q)
    BY <1>7 DEF FirstWord
  <2>2. PICK n \in Nat \ {0} : n = q - b /\ (q + 1) - b = n + 1 /\ b + n = q BY <2>1
  <2>3. Len(found) = n BY <1>7, <2>2 DEF Between
  <2>4. found # <<>> BY <2>3, EmptySeq
  <2>5. IsGraphic(line, q + 1) /\ more = Append(found, octet) BY <1>0, <2>4
  <2>6. FirstWord(line, p, b, q + 1)
    <3>1. Solid(line, b, q + 1) BY <2>1, <2>5 DEF Solid
    <3> QED BY <2>1, <3>1 DEF FirstWord
  <2>7. Between(line, b, q + 1, more)
    <3>1. Len(more) = n + 1 BY <1>1, <2>3, <2>5
    <3>2. ASSUME NEW i \in 1 .. n + 1 PROVE more[i] = Text(line)[b + i]
      <4>1. CASE i \in 1 .. n
        <5>1. found[i] = Text(line)[b + i] BY <1>7, <2>2, <4>1 DEF Between
        <5> QED BY <1>1, <2>3, <2>5, <4>1, <5>1
      <4>2. CASE i = n + 1
        <5>1. b + (n + 1) = q + 1 BY <2>1, <2>2
        <5>2. more[n + 1] = octet BY <1>1, <2>3, <2>5
        <5>3. more[i] = octet /\ Text(line)[b + i] = Text(line)[q + 1] BY <4>2, <5>1, <5>2
        <5> QED BY <5>3, Zenon
      <4>3. i \in 1 .. n \/ i = n + 1 OBVIOUS
      <4> QED BY <4>1, <4>2, <4>3
    <3>3. Len(more) = (q + 1) - b /\ \A i \in 1 .. (q + 1) - b : more[i] = Text(line)[b + i]
      BY <2>2, <3>1, <3>2
    <3> QED BY <3>3 DEF Between
  <2>8. (q + 1) - b <= application_length_args - 1
    <3>1. n # l /\ n <= l BY <1>4, <1>7, <2>2, <2>3
    <3> QED BY <1>4, <2>2, <3>1
  <2>9. \E a : /\ FirstWord(line, p, a, q + 1) /\ Between(line, a, q + 1, more)
               /\ (q + 1) - a <= application_length_args - 1
    BY <2>6, <2>7, <2>8
  <2> QED BY <1>3, <2>9 DEF Copied
<1>8. Copied(line, p, q + 1, more)
  <2>1. \/ found = <<>> /\ Blank(line, p, q)
        \/ \E b : /\ FirstWord(line, p, b, q) /\ Between(line, b, q, found)
                  /\ q - b <= application_length_args - 1
    BY DEF Copied
  <2> QED BY <2>1, <1>5, <1>6, <1>7
<1> QED BY <1>2, <1>8

(* What the first inner loop takes. *)
LEMMA Taken ==
  ASSUME NEW line \in Octets, NEW c \in Copying(line), c.found = <<>>
  PROVE  /\ Take(line, c) \in Copying(line) /\ Take(line, c) \in TakeEnds(line)
         /\ Copied(line, Place(line, c), Place(line, Take(line, c)), Take(line, c).found)
<1> DEFINE p == Place(line, c)
           S == Copying(line)
           Q == {d \in S : Copied(line, p, Place(line, d), d.found)}
           V == Q \cap TakeEnds(line)
<1>1. PICK g : /\ IsLoop(g, S, TakeEnds(line), Itself(S), TakeNext(line))
               /\ \A d : Take(line, d) = g[d]
  BY TakeIsLoop
<1>2. Falls(S, TakeEnds(line), TakeNext(line), Left(S), Len(line)) BY TakeFalls
<1>3. c \in Q
  <2>1. p \in Nat BY CursorFacts DEF Copying
  <2>2. Blank(line, p, p) BY <2>1 DEF Blank
  <2> QED BY <2>1, <2>2 DEF Copied
<1>4. ASSUME NEW d \in Q \ TakeEnds(line) PROVE TakeNext(line)[d] \in Q
  <2> DEFINE n == line[d.current + 1]
             q == Place(line, d)
             more == IF Graphic(n) THEN Append(d.found, n) ELSE d.found
  <2>1. /\ d \in Cursors(line, Seq(Nat)) /\ d.length # 0
        /\ Len(d.found) # application_length_args - 1
        /\ Graphic(n) \/ d.found = <<>>
        /\ Copied(line, p, q, d.found)
    BY DEF TakeEnds, Copying
  <2>2. /\ q + 1 \in 1 .. Len(line) /\ n = Text(line)[q + 1] /\ n \in 0 .. 255
        /\ d.found \in Seq(Nat) /\ q \in 0 .. Len(line) /\ p \in 0 .. Len(line)
    BY <2>1, CursorReads, CursorFacts DEF Copying
  <2> HIDE DEF n, q, p
  <2>3. q < Len(line) /\ q \in Nat /\ p \in Nat BY <2>2, TextType
  <2>4. n \in Nat
    <3>1. n \in 0 .. 255 BY <2>2
    <3> QED BY <3>1
  <2>9. Graphic(n) <=> IsGraphic(line, q + 1) BY <2>2 DEF IsGraphic
  <2>5. more \in Seq(Nat) /\ Copied(line, p, q + 1, more)
    BY <2>1, <2>2, <2>3, <2>4, <2>9, CopyMore
  <2>6. TakeNext(line)[d] = Advanced(d, more) BY DEF TakeNext, n
  <2> HIDE DEF more
  <2>7. /\ Advanced(d, more) \in S /\ Advanced(d, more).found = more
        /\ Place(line, Advanced(d, more)) = q + 1
    BY <2>1, <2>5, CursorAdvances DEF Copying, q
  <2> QED BY <2>5, <2>6, <2>7
<1>5. \A d \in Q \cap TakeEnds(line) : Itself(S)[d] \in V BY DEF Itself
<1>6. Q \subseteq S OBVIOUS
<1> HIDE DEF Q, V, S
<1>7. ComesTo(g, Q, V)
  <2>1. Stays(Q, TakeEnds(line), TakeNext(line)) BY <1>4 DEF Stays
  <2>2. Results(Q, TakeEnds(line), Itself(S), V) BY <1>5 DEF Results
  <2> QED BY <1>1, <1>2, <1>6, <2>1, <2>2, LoopRule
<1> QED BY <1>1, <1>3, <1>7 DEF ComesTo, V, Q, S

(* The second one reads the rest of the word. *)
LEMMA Skipped ==
  ASSUME NEW line \in Octets, NEW c \in Copying(line)
  PROVE  /\ SkipRest(line, c) \in Copying(line) /\ SkipRest(line, c) \in SkipEnds(line)
         /\ Place(line, c) <= Place(line, SkipRest(line, c))
         /\ Solid(line, Place(line, c), Place(line, SkipRest(line, c)))
<1> DEFINE p == Place(line, c)
           S == Copying(line)
           Q == {d \in S : p <= Place(line, d) /\ Solid(line, p, Place(line, d))}
           V == Q \cap SkipEnds(line)
<1>1. PICK g : /\ IsLoop(g, S, SkipEnds(line), Itself(S), SkipNext(line))
               /\ \A d : SkipRest(line, d) = g[d]
  BY SkipIsLoop
<1>2. Falls(S, SkipEnds(line), SkipNext(line), Left(S), Len(line)) BY SkipFalls
<1>3. c \in Q
  <2>1. p \in Nat BY CursorFacts DEF Copying
  <2> QED BY <2>1 DEF Solid
<1>4. ASSUME NEW d \in Q \ SkipEnds(line) PROVE SkipNext(line)[d] \in Q
  <2> DEFINE q == Place(line, d)
  <2>1. /\ d \in Cursors(line, Seq(Nat)) /\ d.length # 0
        /\ Graphic(line[d.current + 1])
        /\ p <= q /\ Solid(line, p, q)
    BY DEF SkipEnds, Copying
  <2>2. /\ line[d.current + 1] = Text(line)[q + 1] /\ d.found \in Seq(Nat)
        /\ q \in 0 .. Len(line) /\ p \in 0 .. Len(line)
    BY <2>1, CursorReads, CursorFacts DEF Copying
  <2>3. IsGraphic(line, q + 1) BY <2>1, <2>2 DEF IsGraphic
  <2> HIDE DEF p
  <2>4. /\ Advanced(d, d.found) \in S /\ Place(line, Advanced(d, d.found)) = q + 1
    BY <2>1, <2>2, CursorAdvances DEF Copying, q
  <2> HIDE DEF q
  <2>5. q \in Nat /\ p \in Nat BY <2>2, TextType
  <2>6. p <= q + 1 /\ Solid(line, p, q + 1) BY <2>1, <2>3, <2>5 DEF Solid
  <2>7. SkipNext(line)[d] = Advanced(d, d.found) BY DEF SkipNext
  <2> QED BY <2>4, <2>6, <2>7
<1>5. \A d \in Q \cap SkipEnds(line) : Itself(S)[d] \in V BY DEF Itself
<1>6. Q \subseteq S OBVIOUS
<1> HIDE DEF Q, V, S
<1>7. ComesTo(g, Q, V)
  <2>1. Stays(Q, SkipEnds(line), SkipNext(line)) BY <1>4 DEF Stays
  <2>2. Results(Q, SkipEnds(line), Itself(S), V) BY <1>5 DEF Results
  <2> QED BY <1>1, <1>2, <1>6, <2>1, <2>2, LoopRule
<1> QED BY <1>1, <1>3, <1>7 DEF ComesTo, V, Q, S


-------------------------------------------------------------------------------
(* What the two loops read together, from a place where no word goes on.     *)
Boundary(line, p) ==
  p \in 0 .. Len(line) /\ (p = 0 \/ p = Len(line) \/ ~IsGraphic(line, p + 1))

(* As much of the word between two places as an argument holds. *)
Beginning(line, b, q, arg) ==
  /\ Len(arg) = IF q - b <= application_length_args - 1 THEN q - b ELSE application_length_args - 1
  /\ \A i \in 1 .. Len(arg) : arg[i] = Text(line)[b + i]

LEMMA NextArgument ==
  ASSUME NEW line \in Octets, NEW c \in Copying(line), c.found = <<>>, c.length # 0,
         NEW taken, taken = Take(line, c), NEW next, next = SkipRest(line, taken),
         NEW p, p = Place(line, c), NEW q, q = Place(line, next)
  PROVE  /\ taken \in Copying(line) /\ next \in Copying(line)
         /\ p < q /\ Boundary(line, q)
         /\ \/ taken.found = <<>> /\ q = Len(line) /\ Blank(line, p, q)
            \/ \E b : FirstWord(line, p, b, q) /\ Beginning(line, b, q, taken.found)
<1>1. PICK l \in Nat \ {0} : l = application_length_args - 1 BY Sizes
<1>2. PICK r : r = Place(line, taken) OBVIOUS
<1>3. /\ taken \in Copying(line) /\ taken \in TakeEnds(line)
      /\ Copied(line, p, r, taken.found)
  BY <1>2, Taken
<1>4. /\ next \in Copying(line) /\ next \in SkipEnds(line) /\ r <= q /\ Solid(line, r, q)
  BY <1>2, <1>3, Skipped
<1>5. /\ Len(line) \in Nat /\ p \in 0 .. Len(line) /\ r \in 0 .. Len(line) /\ q \in 0 .. Len(line)
      /\ c.length = Len(line) - p /\ taken.length = Len(line) - r /\ next.length = Len(line) - q
  BY <1>2, <1>3, <1>4, CursorFacts, TextType DEF Copying
<1>6. p # Len(line) BY <1>5
<1>7. \/ r = Len(line) \/ Len(taken.found) = l
      \/ r < Len(line) /\ ~IsGraphic(line, r + 1) /\ taken.found # <<>>
  <2>1. \/ taken.length = 0 \/ Len(taken.found) = l
        \/ taken.length # 0 /\ ~Graphic(line[taken.current + 1]) /\ taken.found # <<>>
    BY <1>1, <1>3 DEF TakeEnds
  <2>2. CASE taken.length = 0 BY <1>5, <2>2
  <2>3. CASE taken.length # 0 /\ ~Graphic(line[taken.current + 1]) /\ taken.found # <<>>
    <3>1. line[taken.current + 1] = Text(line)[r + 1]
      BY <1>2, <1>3, <2>3, CursorReads DEF Copying
    <3>2. r < Len(line) BY <1>5, <2>3
    <3> QED BY <2>3, <3>1, <3>2 DEF IsGraphic
  <2> QED BY <2>1, <2>2, <2>3
<1>8. q = Len(line) \/ ~IsGraphic(line, q + 1)
  <2>1. next.length = 0 \/ (next.length # 0 /\ ~Graphic(line[next.current + 1]))
    BY <1>4 DEF SkipEnds
  <2>2. CASE next.length = 0 BY <1>5, <2>2
  <2>3. CASE next.length # 0 /\ ~Graphic(line[next.current + 1])
    <3>1. line[next.current + 1] = Text(line)[q + 1]
      BY <1>4, <2>3, CursorReads DEF Copying
    <3> QED BY <2>3, <3>1 DEF IsGraphic
  <2> QED BY <2>1, <2>2, <2>3
<1>9. Boundary(line, q) BY <1>5, <1>8 DEF Boundary
<1>10. CASE taken.found = <<>> /\ Blank(line, p, r)
  <2>1. Len(taken.found) = 0 BY <1>10, EmptySeq
  <2>2. r = Len(line) BY <1>7, <1>10, <2>1
  <2>3. q = Len(line) BY <1>4, <1>5, <2>2
  <2>4. p < q BY <1>5, <1>6, <2>3
  <2> QED BY <1>3, <1>4, <1>9, <1>10, <2>2, <2>3, <2>4
<1>11. ASSUME NEW b, FirstWord(line, p, b, r), Between(line, b, r, taken.found),
              r - b <= application_length_args - 1
       PROVE  /\ p < q
              /\ FirstWord(line, p, b, q) /\ Beginning(line, b, q, taken.found)
  <2>1. b \in p .. r - 1 /\ b \in Nat /\ Blank(line, p, b) /\ Solid(line, b, r)
    BY <1>5, <1>11 DEF FirstWord
  <2>2. Solid(line, b, q) BY <1>4, <1>5, <2>1 DEF Solid
  <2>3. FirstWord(line, p, b, q) BY <1>4, <1>5, <2>1, <2>2 DEF FirstWord
  <2>4. PICK n \in Nat \ {0} : n = r - b /\ n <= l BY <1>1, <1>5, <1>11, <2>1
  <2>5. Len(taken.found) = n /\ \A i \in 1 .. n : taken.found[i] = Text(line)[b + i]
    BY <1>11, <2>4 DEF Between
  <2>6. r = q \/ n = l
    <3>1. CASE r = Len(line) BY <1>4, <1>5, <3>1
    <3>2. CASE r < Len(line) /\ ~IsGraphic(line, r + 1)
      <4>1. SUFFICES ASSUME r < q PROVE FALSE BY <1>4, <1>5
      <4>2. r + 1 \in r + 1 .. q BY <1>5, <4>1
      <4> QED BY <1>4, <3>2, <4>2 DEF Solid
    <3> QED BY <1>7, <2>5, <3>1, <3>2
  <2>7. n = IF q - b <= l THEN q - b ELSE l
    <3>1. q \in Nat /\ r \in Nat /\ b \in Nat /\ b < r /\ r <= q BY <1>4, <1>5, <2>1
    <3>2. CASE r = q BY <2>4, <3>1, <3>2
    <3>3. CASE n = l /\ r < q
      <4>1. ~(q - b <= l) BY <2>4, <3>1, <3>3
      <4> QED BY <3>3, <4>1
    <3> QED BY <2>6, <3>1, <3>2, <3>3
  <2>8. Beginning(line, b, q, taken.found) BY <1>1, <2>5, <2>7 DEF Beginning
  <2> QED BY <1>4, <1>5, <2>1, <2>3, <2>8
<1>12. \/ taken.found = <<>> /\ Blank(line, p, r)
       \/ \E b : /\ FirstWord(line, p, b, r) /\ Between(line, b, r, taken.found)
                 /\ r - b <= application_length_args - 1
  BY <1>3 DEF Copied
<1> QED BY <1>3, <1>4, <1>9, <1>10, <1>11, <1>12

-------------------------------------------------------------------------------
(* The words of the line, and which of them is the k-th.                     *)

(* Where those begin that begin up to p. *)
Before(line, p) == {i \in Begins(Text(line)) : i <= p}

LEMMA BeginsFacts ==
  ASSUME NEW line \in Octets
  PROVE  /\ \A i : i \in Begins(Text(line)) <=>
                     /\ i \in 1 .. Len(line) /\ IsGraphic(line, i)
                     /\ i = 1 \/ ~IsGraphic(line, i - 1)
         /\ Begins(Text(line)) \subseteq 1 .. Len(line)
         /\ IsFiniteSet(Begins(Text(line)))
         /\ \A p : /\ IsFiniteSet(Before(line, p)) /\ Cardinality(Before(line, p)) \in Nat
                   /\ Cardinality(Before(line, p)) <= Cardinality(Begins(Text(line)))
         /\ Cardinality(Begins(Text(line))) \in Nat
<1>1. \A i : i \in Begins(Text(line)) <=>
               /\ i \in 1 .. Len(line) /\ IsGraphic(line, i)
               /\ i = 1 \/ ~IsGraphic(line, i - 1)
  BY TextType DEF Begins, IsGraphic
<1>2. Begins(Text(line)) \subseteq 1 .. Len(line) BY <1>1
<1>3. IsFiniteSet(1 .. Len(line)) BY TextType, FS_Interval
<1>4. IsFiniteSet(Begins(Text(line))) BY <1>2, <1>3, FS_Subset
<1>5. \A p : Before(line, p) \in SUBSET Begins(Text(line)) BY DEF Before
<1>6. \A p : /\ IsFiniteSet(Before(line, p))
             /\ Cardinality(Before(line, p)) <= Cardinality(Begins(Text(line)))
  BY <1>4, <1>5, FS_Subset
<1>7. \A S : IsFiniteSet(S) => Cardinality(S) \in Nat BY FS_CardinalityType
<1> QED BY <1>1, <1>2, <1>4, <1>6, <1>7

(* The beginning with k beginnings up to it is the k-th. *)
LEMMA NthIs ==
  ASSUME NEW line \in Octets, NEW i \in Begins(Text(line))
  PROVE  Nth(Begins(Text(line)), Cardinality(Before(line, i))) = i
<1> DEFINE B == Begins(Text(line))
<1>1. ASSUME NEW a \in B, NEW b \in B, a < b
      PROVE  Cardinality(Before(line, a)) # Cardinality(Before(line, b))
  <2>1. a \in Nat /\ b \in Nat BY BeginsFacts
  <2>2. Before(line, a) \in SUBSET Before(line, b)
    <3>1. B \subseteq Nat BY BeginsFacts
    <3> QED BY <1>1, <2>1, <3>1 DEF Before
  <2>3. b \in Before(line, b) /\ b \notin Before(line, a) BY <1>1, <2>1 DEF Before
  <2>4. IsFiniteSet(Before(line, b)) BY BeginsFacts
  <2> QED BY <2>2, <2>3, <2>4, FS_Subset
<1>2. ASSUME NEW j \in B, Cardinality(Before(line, j)) = Cardinality(Before(line, i)) PROVE j = i
  <2>1. i \in Nat /\ j \in Nat BY BeginsFacts
  <2>2. ~(i < j) /\ ~(j < i) BY <1>1, <1>2
  <2> QED BY <2>1, <2>2
<1>3. Nth(B, Cardinality(Before(line, i))) =
        CHOOSE j \in B : Cardinality(Before(line, j)) = Cardinality(Before(line, i))
  BY DEF Nth, Before
<1> QED BY <1>2, <1>3

(* Between two places where no word goes on is one that begins behind the    *)
(* first and reaches to the second: it is the next one.                      *)
LEMMA NextWord ==
  ASSUME NEW line \in Octets, NEW p, Boundary(line, p), NEW q, Boundary(line, q),
         NEW b, FirstWord(line, p, b, q)
  PROVE  /\ b + 1 \in Begins(Text(line))
         /\ Before(line, q) = Before(line, p) \cup {b + 1}
         /\ Cardinality(Before(line, q)) = Cardinality(Before(line, p)) + 1
         /\ Nth(Begins(Text(line)), Cardinality(Before(line, p)) + 1) = b + 1
<1>1. /\ Len(line) \in Nat /\ p \in Nat /\ q \in Nat /\ b \in Nat
      /\ p <= b /\ b < q /\ q <= Len(line)
      /\ p = 0 \/ ~IsGraphic(line, p + 1)
      /\ Blank(line, p, b) /\ Solid(line, b, q)
  BY TextType DEF Boundary, FirstWord
<1>2. IsGraphic(line, b + 1) /\ b + 1 \in 1 .. Len(line)
  <2>1. b + 1 \in b + 1 .. q BY <1>1
  <2> QED BY <1>1, <2>1 DEF Solid
<1>3. b + 1 \in Begins(Text(line))
  <2>1. (b + 1) - 1 = b BY <1>1
  <2>2. b = 0 \/ ~IsGraphic(line, b)
    <3>1. CASE b = p BY <1>1, <1>2, <3>1
    <3>2. CASE p < b
      <4>1. b \in p + 1 .. b BY <1>1, <3>2
      <4> QED BY <1>1, <4>1 DEF Blank
    <3> QED BY <1>1, <3>1, <3>2
  <2>3. b + 1 = 1 \/ ~IsGraphic(line, (b + 1) - 1) BY <1>1, <2>1, <2>2
  <2>4. PICK i : i = b + 1 OBVIOUS
  <2>5. i \in 1 .. Len(line) /\ IsGraphic(line, i) /\ (i = 1 \/ ~IsGraphic(line, i - 1))
    BY <1>2, <2>3, <2>4
  <2> QED BY <2>4, <2>5, BeginsFacts
<1>4. ASSUME NEW i \in Begins(Text(line)), i <= q, ~(i <= p) PROVE i = b + 1
  <2>1. i \in Nat /\ IsGraphic(line, i) /\ (i = 1 \/ ~IsGraphic(line, i - 1)) BY BeginsFacts
  <2>2. ~(i <= b)
    <3>1. i <= b => i \in p + 1 .. b BY <1>1, <1>4, <2>1
    <3> QED BY <1>1, <2>1, <3>1 DEF Blank
  <2>3. ~(b + 1 < i)
    <3>1. b + 1 < i => i - 1 \in b + 1 .. q /\ i # 1 BY <1>1, <1>4, <2>1
    <3> QED BY <1>1, <2>1, <3>1 DEF Solid
  <2> QED BY <1>1, <2>1, <2>2, <2>3
<1>5. \A i \in Begins(Text(line)) : i \in Nat BY BeginsFacts
<1>6. Before(line, q) = Before(line, p) \cup {b + 1}
  <2>1. \A i \in Begins(Text(line)) : i <= p => i <= q BY <1>1, <1>5
  <2>2. b + 1 <= q BY <1>1
  <2> QED BY <1>3, <1>4, <2>1, <2>2 DEF Before
<1>7. b + 1 \notin Before(line, p) BY <1>1 DEF Before
<1>8. Cardinality(Before(line, q)) = Cardinality(Before(line, p)) + 1
  BY <1>6, <1>7, BeginsFacts, FS_AddElement
<1>9. Before(line, b + 1) = Before(line, q)
  <2>1. \A i \in Begins(Text(line)) : i <= b + 1 <=> i <= q
    <3>1. ASSUME NEW i \in Begins(Text(line)) PROVE i <= b + 1 <=> i <= q
      <4>1. i \in Nat BY <1>5
      <4>2. i <= b + 1 => i <= q BY <1>1, <4>1
      <4>3. i <= p => i <= b + 1 BY <1>1, <4>1
      <4> QED BY <1>1, <1>4, <4>1, <4>2, <4>3
    <3> QED BY <3>1
  <2> QED BY <2>1 DEF Before
<1>10. Nth(Begins(Text(line)), Cardinality(Before(line, b + 1))) = b + 1 BY <1>3, NthIs
<1> QED BY <1>3, <1>6, <1>8, <1>9, <1>10

(* If no word begins, none is counted. *)
LEMMA NoWord ==
  ASSUME NEW line \in Octets, NEW p \in Nat, NEW q \in Nat, p <= q, Blank(line, p, q)
  PROVE  Before(line, q) = Before(line, p)
<1>1. \A i \in Begins(Text(line)) : i \in Nat /\ IsGraphic(line, i) BY BeginsFacts
<1>2. ASSUME NEW i \in Begins(Text(line)) PROVE i <= q <=> i <= p
  <2>1. i \in Nat /\ IsGraphic(line, i) BY <1>1
  <2>2. i <= q /\ ~(i <= p) => i \in p + 1 .. q BY <2>1
  <2>3. ~(i <= q /\ ~(i <= p)) BY <2>1, <2>2 DEF Blank
  <2> QED BY <2>1, <2>3
<1> QED BY <1>2 DEF Before

(* How a set of numbers has its greatest, and two numbers the smaller.       *)
LEMMA GreatestIs ==
  ASSUME NEW S, S \subseteq Int, NEW m \in S, \A i \in S : i <= m
  PROVE  Max(S) = m
<1>1. ASSUME NEW x \in S PROVE (\A i \in S : x >= i) <=> x = m
  <2>1. x \in Int /\ m \in Int /\ x <= m OBVIOUS
  <2>2. (\A i \in S : x >= i) => x >= m OBVIOUS
  <2>3. \A i \in S : m >= i OBVIOUS
  <2> QED BY <2>1, <2>2, <2>3
<1>2. Max(S) = CHOOSE x \in S : x = m BY <1>1 DEF Max
<1> QED BY <1>2

LEMMA SmallerIs ==
  ASSUME NEW a \in Nat, NEW b \in Nat
  PROVE  Min({a, b}) = IF a <= b THEN a ELSE b
BY DEF Min

(* The first of a sequence. *)
LEMMA FirstOfIs ==
  ASSUME NEW S, NEW s \in Seq(S), NEW n \in Nat
  PROVE  /\ FirstOf(s, n) \in Seq(S)
         /\ Len(FirstOf(s, n)) = IF n <= Len(s) THEN n ELSE Len(s)
         /\ \A i \in 1 .. Len(FirstOf(s, n)) : FirstOf(s, n)[i] = s[i]
<1>1. Len(s) \in Nat BY LenProperties
<1>2. PICK k \in Nat : k = (IF n <= Len(s) THEN n ELSE Len(s)) /\ k <= Len(s) BY <1>1
<1>3. FirstOf(s, n) = SubSeq(s, 1, k) BY <1>1, <1>2, SmallerIs DEF FirstOf
<1>4. \A i \in 1 .. k : s[i] \in S BY <1>1, <1>2, ElementOfSeq
<1>5. /\ SubSeq(s, 1, k) \in Seq(S)
      /\ Len(SubSeq(s, 1, k)) = IF 1 <= k THEN k - 1 + 1 ELSE 0
      /\ \A i \in 1 .. k - 1 + 1 : SubSeq(s, 1, k)[i] = s[1 + i - 1]
  BY <1>4, SubSeqProperties
<1>6. Len(SubSeq(s, 1, k)) = k BY <1>5
<1>7. \A i \in 1 .. k : SubSeq(s, 1, k)[i] = s[i] BY <1>5
<1> QED BY <1>2, <1>3, <1>5, <1>6, <1>7

(* The word that begins behind b goes up to q. *)
LEMMA WordIs ==
  ASSUME NEW line \in Octets, NEW b \in Nat, NEW q \in Nat, b < q, q <= Len(line),
         Solid(line, b, q), q = Len(line) \/ ~IsGraphic(line, q + 1)
  PROVE  /\ WordAt(Text(line), b + 1) \in Seq(Nat)
         /\ Len(WordAt(Text(line), b + 1)) = q - b
         /\ \A i \in 1 .. q - b : WordAt(Text(line), b + 1)[i] = Text(line)[b + i]
<1> DEFINE E == {j \in b + 1 .. Len(Text(line)) : \A l \in b + 1 .. j : Graphic(Text(line)[l])}
<1>1. /\ Len(line) \in Nat /\ Len(Text(line)) = Len(line)
      /\ \A i \in 1 .. Len(line) : Text(line)[i] \in Nat
  <2>1. \A i \in 1 .. Len(line) : Text(line)[i] \in 0 .. 255
    BY TextType, ElementOfSeq DEF Octets
  <2>2. \A i \in 1 .. Len(line) : Text(line)[i] \in Nat
    <3>1. ASSUME NEW i \in 1 .. Len(line) PROVE Text(line)[i] \in Nat
      <4>1. \A n \in 0 .. 255 : n \in Nat OBVIOUS
      <4> QED BY <2>1, <4>1, Zenon
    <3> QED BY <3>1
  <2> QED BY <2>2, TextType
<1>2. E = {j \in b + 1 .. Len(line) : Solid(line, b, j)} BY <1>1 DEF Solid, IsGraphic
<1>3. q \in E BY <1>1, <1>2
<1>4. ASSUME NEW j \in E PROVE j <= q
  <2>1. j \in b + 1 .. Len(line) /\ Solid(line, b, j) BY <1>2
  <2>2. SUFFICES ASSUME q < j PROVE FALSE BY <1>1, <2>1
  <2>3. q # Len(line) BY <1>1, <2>1, <2>2
  <2>4. q + 1 \in b + 1 .. j BY <1>1, <2>1, <2>2
  <2> QED BY <2>1, <2>3, <2>4 DEF Solid
<1>5. E \subseteq Int BY <1>1, <1>2
<1>6. Max(E) = q
  <2> HIDE DEF E
  <2> QED BY <1>3, <1>4, <1>5, GreatestIs
<1>7. WordAt(Text(line), b + 1) = SubSeq(Text(line), b + 1, q) BY <1>6 DEF WordAt
<1>8. PICK n \in Nat \ {0} : n = q - b /\ q = b + n OBVIOUS
<1>9. \A i \in b + 1 .. q : Text(line)[i] \in Nat BY <1>1
<1>10. /\ SubSeq(Text(line), b + 1, q) \in Seq(Nat)
       /\ Len(SubSeq(Text(line), b + 1, q)) = IF b + 1 <= q THEN q - (b + 1) + 1 ELSE 0
       /\ \A i \in 1 .. q - (b + 1) + 1 : SubSeq(Text(line), b + 1, q)[i] = Text(line)[(b + 1) + i - 1]
  BY <1>9, SubSeqProperties
<1>11. q - (b + 1) + 1 = n /\ b + 1 <= q BY <1>8
<1>12. \A i \in 1 .. n : (b + 1) + i - 1 = b + i BY <1>8
<1>13. /\ Len(SubSeq(Text(line), b + 1, q)) = n
       /\ \A i \in 1 .. n : SubSeq(Text(line), b + 1, q)[i] = Text(line)[b + i]
  BY <1>10, <1>11, <1>12
<1> QED BY <1>7, <1>8, <1>10, <1>13

(* So what has been copied is as much of it as an argument holds. *)
LEMMA ArgumentIs ==
  ASSUME NEW line \in Octets, NEW b \in Nat, NEW q \in Nat, b < q, q <= Len(line),
         Solid(line, b, q), q = Len(line) \/ ~IsGraphic(line, q + 1),
         NEW arg \in Seq(Nat), Beginning(line, b, q, arg)
  PROVE  arg = FirstOf(WordAt(Text(line), b + 1), application_length_args - 1)
<1>1. PICK l \in Nat \ {0} : l = application_length_args - 1 BY Sizes
<1>2. PICK n \in Nat \ {0} : n = q - b OBVIOUS
<1>3. PICK w : w = WordAt(Text(line), b + 1) OBVIOUS
<1>4. w \in Seq(Nat) /\ Len(w) = n /\ \A i \in 1 .. n : w[i] = Text(line)[b + i]
  BY <1>2, <1>3, WordIs
<1>5. /\ FirstOf(w, l) \in Seq(Nat) /\ Len(FirstOf(w, l)) = IF l <= n THEN l ELSE n
      /\ \A i \in 1 .. Len(FirstOf(w, l)) : FirstOf(w, l)[i] = w[i]
  BY <1>4, FirstOfIs
<1>6. /\ Len(arg) = IF n <= l THEN n ELSE l
      /\ \A i \in 1 .. Len(arg) : arg[i] = Text(line)[b + i]
  BY <1>1, <1>2 DEF Beginning
<1>7. Len(arg) = Len(FirstOf(w, l)) /\ Len(arg) \in Nat /\ Len(arg) <= n BY <1>5, <1>6
<1>8. \A i \in 1 .. Len(arg) : arg[i] = FirstOf(w, l)[i]
  <2>1. \A i \in 1 .. Len(arg) : i \in 1 .. n BY <1>7
  <2> QED BY <1>4, <1>5, <1>6, <1>7, <2>1
<1> QED BY <1>1, <1>3, <1>5, <1>7, <1>8, SeqEqual

-------------------------------------------------------------------------------
(* The outer loop.                                                           *)
IsCollect(g, line) ==
  g = [c \in Cursors(line, Seq(Seq(Nat))) |->
         IF c.length = 0 \/ Len(c.found) = application_num_args THEN c.found
         ELSE LET taken == Take(line, [c EXCEPT !.found = <<>>])
                  next == SkipRest(line, taken)
              IN g[[next EXCEPT !.found = IF taken.found = <<>> THEN c.found
                                          ELSE Append(c.found, taken.found)]]]

CollectEnds(line) ==
  {c \in Collecting(line) : c.length = 0 \/ Len(c.found) = application_num_args}

Taking(line, c) == Take(line, [c EXCEPT !.found = <<>>])

CollectNext(line) ==
  [c \in Collecting(line) |->
     [SkipRest(line, Taking(line, c)) EXCEPT
        !.found = IF Taking(line, c).found = <<>> THEN c.found
                  ELSE Append(c.found, Taking(line, c).found)]]

WhatIsFound(S) == [c \in S |-> c.found]

(* Where the next turn begins, and with what it has found. *)
LEMMA CollectMore ==
  ASSUME NEW line \in Octets, NEW c \in Collecting(line), c \notin CollectEnds(line),
         NEW p, p = Place(line, c), NEW d, d = CollectNext(line)[c], NEW q, q = Place(line, d)
  PROVE  /\ d \in Collecting(line) /\ d.length = Len(line) - q
         /\ p \in Nat /\ c.length = Len(line) - p /\ p < q /\ Boundary(line, q)
         /\ \/ d.found = c.found /\ q = Len(line) /\ Blank(line, p, q)
            \/ \E b : \E arg \in Seq(Nat) :
                 /\ FirstWord(line, p, b, q) /\ Beginning(line, b, q, arg)
                 /\ d.found = Append(c.found, arg)
<1>1. c \in Cursors(line, Seq(Seq(Nat))) /\ c.length # 0 /\ d \in {CollectNext(line)[c]}
  BY DEF CollectEnds, Collecting
<1>2. c.found \in Seq(Seq(Nat)) BY <1>1, CursorFacts
<1>3. PICK none : none = <<>> OBVIOUS
<1>4. PICK start : start = [c EXCEPT !.found = none] OBVIOUS
<1>5. /\ start \in Cursors(line, Seq(Nat)) /\ start.found = <<>>
      /\ start.length = c.length /\ Place(line, start) = p
  <2>1. none \in Seq(Nat) BY <1>3
  <2>2. /\ start \in Cursors(line, Seq(Nat)) /\ start.found = none
        /\ start.length = c.length /\ Place(line, start) = Place(line, c)
    BY <1>1, <1>4, <2>1, CursorWith
  <2> QED BY <1>3, <2>2
<1>6. PICK taken : taken = Take(line, start) OBVIOUS
<1>7. PICK next : next = SkipRest(line, taken) OBVIOUS
<1>8. PICK r : r = Place(line, next) OBVIOUS
<1>9. start \in Copying(line) /\ start.length # 0 BY <1>1, <1>5 DEF Copying
<1>10. /\ taken \in Copying(line) /\ next \in Copying(line)
       /\ p < r /\ Boundary(line, r)
       /\ \/ taken.found = <<>> /\ r = Len(line) /\ Blank(line, p, r)
          \/ \E b : FirstWord(line, p, b, r) /\ Beginning(line, b, r, taken.found)
  BY <1>5, <1>6, <1>7, <1>8, <1>9, NextArgument
<1>11. taken.found \in Seq(Nat) BY <1>10, CursorFacts DEF Copying
<1>12. PICK found : found = IF taken.found = <<>> THEN c.found ELSE Append(c.found, taken.found)
  OBVIOUS
<1>13. found \in Seq(Seq(Nat)) BY <1>2, <1>11, <1>12, AppendProperties
<1>14. d = [next EXCEPT !.found = found]
  BY <1>3, <1>4, <1>6, <1>7, <1>12 DEF CollectNext, Taking
<1>15. next \in Cursors(line, Seq(Nat)) BY <1>10 DEF Copying
<1>16. d \in Cursors(line, Seq(Seq(Nat))) /\ d.found = found /\ q = r
  BY <1>8, <1>13, <1>14, <1>15, CursorWith
<1>17. d \in Collecting(line) BY <1>16 DEF Collecting
<1>18. p \in Nat /\ c.length = Len(line) - p BY <1>1, CursorFacts, TextType
<1>19. d.length = Len(line) - q
  <2>1. d.length = Len(line) - Place(line, d) BY <1>16, CursorFacts
  <2> QED BY <2>1
<1>20. CASE taken.found = <<>> /\ r = Len(line) /\ Blank(line, p, r)
  BY <1>10, <1>12, <1>16, <1>17, <1>18, <1>19, <1>20
<1>21. ASSUME NEW b, FirstWord(line, p, b, r), Beginning(line, b, r, taken.found)
       PROVE  taken.found # <<>>
  <2>1. PICK l \in Nat \ {0} : l = application_length_args - 1 BY Sizes
  <2>2. Len(line) \in Nat /\ r \in 0 .. Len(line) BY <1>10, TextType DEF Boundary
  <2>3. b \in p .. r - 1 BY <1>21 DEF FirstWord
  <2>4. Len(taken.found) = IF r - b <= l THEN r - b ELSE l BY <1>21, <2>1 DEF Beginning
  <2>5. Len(taken.found) # 0 BY <1>18, <2>1, <2>2, <2>3, <2>4
  <2> QED BY <2>5, EmptySeq
<1>22. ASSUME NEW b, FirstWord(line, p, b, r), Beginning(line, b, r, taken.found)
       PROVE  \E a : \E arg \in Seq(Nat) :
                 /\ FirstWord(line, p, a, q) /\ Beginning(line, a, q, arg)
                 /\ d.found = Append(c.found, arg)
  <2>1. d.found = Append(c.found, taken.found) BY <1>12, <1>16, <1>21, <1>22
  <2> QED BY <1>11, <1>16, <1>22, <2>1
<1> QED BY <1>10, <1>16, <1>17, <1>18, <1>19, <1>20, <1>22

LEMMA CollectFalls ==
  ASSUME NEW line \in Octets
  PROVE  Falls(Collecting(line), CollectEnds(line), CollectNext(line), Left(Collecting(line)), Len(line))
<1>1. Len(line) \in Nat BY TextType
<1>2. \A c \in Collecting(line) : Left(Collecting(line))[c] \in 0 .. Len(line)
  BY CursorFacts DEF Collecting, Left
<1>3. ASSUME NEW c \in Collecting(line) \ CollectEnds(line)
      PROVE  /\ CollectNext(line)[c] \in Collecting(line)
             /\ Left(Collecting(line))[CollectNext(line)[c]] < Left(Collecting(line))[c]
  <2>1. PICK d : d = CollectNext(line)[c] OBVIOUS
  <2>2. PICK p, q : p = Place(line, c) /\ q = Place(line, d) OBVIOUS
  <2>3. /\ d \in Collecting(line) /\ d.length = Len(line) - q
        /\ p \in Nat /\ c.length = Len(line) - p /\ p < q /\ Boundary(line, q)
    BY <2>1, <2>2, CollectMore
  <2>4. q \in 0 .. Len(line) BY <2>3 DEF Boundary
  <2>5. d.length < c.length BY <1>1, <2>3, <2>4
  <2> QED BY <2>1, <2>3, <2>5 DEF Left
<1> QED BY <1>1, <1>2, <1>3 DEF Falls

LEMMA CollectIsLoop ==
  ASSUME NEW line \in Octets
  PROVE  \E g : /\ IsLoop(g, Collecting(line), CollectEnds(line), WhatIsFound(Collecting(line)), CollectNext(line))
                /\ Arguments(line) = g[[current |-> 0, length |-> Len(line), found |-> <<>>]]
<1>1. \A g : IsCollect(g, line) <=>
        IsLoop(g, Collecting(line), CollectEnds(line), WhatIsFound(Collecting(line)), CollectNext(line))
  BY DEF IsCollect, IsLoop, CollectEnds, CollectNext, WhatIsFound, Collecting, Taking
<1>2. \E g : IsCollect(g, line) BY <1>1, CollectFalls, LoopExists
<1> DEFINE g == CHOOSE h : IsCollect(h, line)
<1>3. Arguments(line) = g[[current |-> 0, length |-> Len(line), found |-> <<>>]]
  BY DEF Arguments, IsCollect
<1>4. IsCollect(g, line) BY <1>2
<1> HIDE DEF g
<1> QED BY <1>1, <1>3, <1>4

-------------------------------------------------------------------------------
(* What has been found is of the words that have been passed.                *)
WordOf(line, k) == FirstOf(WordAt(Text(line), Nth(Begins(Text(line)), k)), application_length_args - 1)

Gathered(line, c) ==
  /\ c.found \in Seq(Seq(Nat))
  /\ Len(c.found) = Cardinality(Before(line, Place(line, c)))
  /\ Len(c.found) <= application_num_args
  /\ \A k \in 1 .. Len(c.found) : c.found[k] = WordOf(line, k)

LEMMA GatherMore ==
  ASSUME NEW line \in Octets, NEW c \in Collecting(line), c \notin CollectEnds(line),
         Boundary(line, Place(line, c)), Gathered(line, c)
  PROVE  LET d == CollectNext(line)[c] IN Boundary(line, Place(line, d)) /\ Gathered(line, d)
<1>1. PICK d : d = CollectNext(line)[c] OBVIOUS
<1>2. PICK p : p = Place(line, c) OBVIOUS
<1>3. PICK q : q = Place(line, d) OBVIOUS
<1>4. /\ d \in Collecting(line)
      /\ p \in Nat /\ p < q /\ Boundary(line, q)
      /\ \/ d.found = c.found /\ q = Len(line) /\ Blank(line, p, q)
         \/ \E b : \E arg \in Seq(Nat) :
              /\ FirstWord(line, p, b, q) /\ Beginning(line, b, q, arg)
              /\ d.found = Append(c.found, arg)
  BY <1>1, <1>2, <1>3, CollectMore, SMTT(20)
<1>5. q \in Nat /\ q <= Len(line) /\ Len(line) \in Nat /\ (q = Len(line) \/ ~IsGraphic(line, q + 1))
  BY <1>4, TextType DEF Boundary
<1>6. Len(c.found) # application_num_args BY DEF CollectEnds
<1>7. PICK n \in Nat : n = Len(c.found) /\ n = Cardinality(Before(line, p)) /\ n <= application_num_args
  BY <1>2, BeginsFacts DEF Gathered
<1>8. c.found \in Seq(Seq(Nat)) /\ \A k \in 1 .. n : c.found[k] = WordOf(line, k)
  BY <1>7 DEF Gathered
<1>9. CASE d.found = c.found /\ q = Len(line) /\ Blank(line, p, q)
  <2>1. Before(line, q) = Before(line, p) BY <1>4, <1>5, <1>9, NoWord
  <2> QED BY <1>1, <1>3, <1>4, <1>7, <1>8, <1>9, <2>1 DEF Gathered
<1>10. ASSUME NEW b, NEW arg \in Seq(Nat), FirstWord(line, p, b, q), Beginning(line, b, q, arg),
              d.found = Append(c.found, arg)
       PROVE  Gathered(line, d)
  <2>1. /\ Cardinality(Before(line, q)) = n + 1
        /\ Nth(Begins(Text(line)), n + 1) = b + 1
    BY <1>2, <1>4, <1>7, <1>10, NextWord
  <2>2. b \in Nat /\ b < q /\ Solid(line, b, q) BY <1>4, <1>5, <1>10 DEF FirstWord
  <2>3. arg = WordOf(line, n + 1) BY <1>5, <1>10, <2>1, <2>2, ArgumentIs DEF WordOf
  <2>4. /\ d.found \in Seq(Seq(Nat)) /\ Len(d.found) = n + 1
        /\ \A k \in 1 .. n : d.found[k] = c.found[k]
        /\ d.found[n + 1] = arg
    <3>1. PICK before \in Seq(Seq(Nat)) : before = c.found BY <1>8
    <3>2. /\ Append(before, arg) \in Seq(Seq(Nat)) /\ Len(Append(before, arg)) = Len(before) + 1
          /\ \A k \in 1 .. Len(before) : Append(before, arg)[k] = before[k]
          /\ Append(before, arg)[Len(before) + 1] = arg
      BY <1>10, AppendProperties
    <3> QED BY <1>7, <1>10, <3>1, <3>2
  <2>5. \A k \in 1 .. n + 1 : d.found[k] = WordOf(line, k)
    <3>1. ASSUME NEW k \in 1 .. n + 1 PROVE d.found[k] = WordOf(line, k)
      <4>1. k \in 1 .. n \/ k = n + 1 OBVIOUS
      <4> QED BY <1>8, <2>3, <2>4, <4>1
    <3> QED BY <3>1
  <2>6. n + 1 <= application_num_args
    <3>1. PICK a \in Nat : a = application_num_args BY Sizes
    <3> QED BY <1>6, <1>7, <3>1
  <2> QED BY <1>3, <2>1, <2>4, <2>5, <2>6 DEF Gathered
<1> QED BY <1>1, <1>3, <1>4, <1>9, <1>10

(* The words of a line. *)
LEMMA WordsAre ==
  ASSUME NEW line \in Octets
  PROVE  /\ Len(Words(Text(line))) = Cardinality(Begins(Text(line)))
         /\ \A k \in 1 .. Cardinality(Begins(Text(line))) :
              FirstOf(Words(Text(line))[k], application_length_args - 1) = WordOf(line, k)
         /\ \E S : Words(Text(line)) \in Seq(S)
<1> DEFINE W(k) == WordAt(Text(line), Nth(Begins(Text(line)), k))
<1>1. PICK n \in Nat : n = Cardinality(Begins(Text(line))) BY BeginsFacts
<1> DEFINE S == {W(k) : k \in 1 .. n}
<1>2. Words(Text(line)) = [k \in 1 .. n |-> W(k)] BY <1>1 DEF Words
<1>3. \A k \in 1 .. n : W(k) \in S OBVIOUS
<1>4. \A k \in 1 .. n : FirstOf(W(k), application_length_args - 1) = WordOf(line, k) BY DEF WordOf
<1> HIDE DEF W, S
<1>5. Words(Text(line)) \in Seq(S) BY <1>2, <1>3
<1>6. Len(Words(Text(line))) = n BY <1>2
<1>7. \A k \in 1 .. n : Words(Text(line))[k] = W(k) BY <1>2
<1>8. \A k \in 1 .. n : FirstOf(Words(Text(line))[k], application_length_args - 1) = WordOf(line, k)
  BY <1>4, <1>7
<1> QED BY <1>1, <1>5, <1>6, <1>8

(* What Parsed asks for. *)
Target(line) ==
  LET words == FirstOf(Words(Text(line)), application_num_args)
  IN [k \in DOMAIN words |-> FirstOf(words[k], application_length_args - 1)]

(* The first of the words, one argument of each. *)
LEMMA TargetIs ==
  ASSUME NEW line \in Octets, NEW found \in Seq(Seq(Nat)),
         Len(found) = IF application_num_args <= Cardinality(Begins(Text(line)))
                      THEN application_num_args ELSE Cardinality(Begins(Text(line))),
         \A k \in 1 .. Len(found) : found[k] = WordOf(line, k)
  PROVE  found = Target(line)
<1>1. PICK a \in Nat : a = application_num_args BY Sizes
<1>2. PICK n \in Nat : n = Cardinality(Begins(Text(line))) BY BeginsFacts
<1>3. PICK S : Words(Text(line)) \in Seq(S) BY WordsAre
<1>4. PICK words : words = FirstOf(Words(Text(line)), a) OBVIOUS
<1>5. PICK m \in Nat : m = Len(found) /\ m <= n /\ m = IF a <= n THEN a ELSE n BY <1>1, <1>2
<1>6. Len(Words(Text(line))) = n BY <1>2, WordsAre
<1>7. /\ words \in Seq(S) /\ Len(words) = m
      /\ \A k \in 1 .. m : words[k] = Words(Text(line))[k]
  BY <1>3, <1>4, <1>5, <1>6, FirstOfIs
<1>8. DOMAIN words = 1 .. m BY <1>7, LenProperties
<1>9. \A k \in 1 .. m : FirstOf(words[k], application_length_args - 1) = WordOf(line, k)
  <2>1. ASSUME NEW k \in 1 .. m
        PROVE  FirstOf(words[k], application_length_args - 1) = WordOf(line, k)
    <3>1. k \in 1 .. n BY <1>5
    <3> QED BY <1>2, <1>7, <3>1, WordsAre
  <2> QED BY <2>1
<1>10. Target(line) = [k \in 1 .. m |-> FirstOf(words[k], application_length_args - 1)]
  BY <1>1, <1>4, <1>8 DEF Target
<1>11. Target(line) = [k \in 1 .. m |-> found[k]] BY <1>5, <1>9, <1>10
<1>12. found = [k \in 1 .. m |-> found[k]] BY <1>5, LenProperties
<1> QED BY <1>11, <1>12

(* The arguments of a line are its first words, each as far as an argument   *)
(* can hold it: what the loops of application_content do for any line.       *)
LEMMA ArgumentsAre ==
  ASSUME NEW line \in Octets
  PROVE  Arguments(line) = Target(line)
<1> DEFINE S == Collecting(line)
           D == CollectEnds(line)
           Q == {c \in S : Boundary(line, Place(line, c)) /\ Gathered(line, c)}
           V == {Target(line)}
           start == [current |-> 0, length |-> Len(line), found |-> <<>>]
<1>1. PICK g : /\ IsLoop(g, S, D, WhatIsFound(S), CollectNext(line))
               /\ Arguments(line) = g[start]
  BY CollectIsLoop
<1>2. Falls(S, D, CollectNext(line), Left(S), Len(line)) BY CollectFalls
<1>3. Len(line) \in Nat /\ IndexMod \in Nat \ {0} /\ application_num_args \in Nat BY TextType, Sizes
<1>4. start \in S
  <2>1. (Len(line) - Len(line)) % IndexMod = 0 BY <1>3
  <2>2. <<>> \in Seq(Seq(Nat)) /\ Len(line) \in 0 .. Len(line) BY <1>3
  <2> QED BY <2>1, <2>2 DEF Collecting, Cursors
<1>5. start \in Q
  <2>1. Place(line, start) = 0 BY <1>3 DEF Place
  <2>2. Boundary(line, 0) BY <1>3 DEF Boundary
  <2>3. Before(line, 0) = {} BY BeginsFacts DEF Before
  <2>4. Cardinality(Before(line, 0)) = 0 BY <2>3, FS_EmptySet
  <2>5. Len(start.found) = 0 /\ start.found \in Seq(Seq(Nat)) OBVIOUS
  <2> HIDE DEF start
  <2>6. Gathered(line, start) BY <1>3, <2>1, <2>4, <2>5 DEF Gathered
  <2> QED BY <1>4, <2>1, <2>2, <2>6
<1>6. ASSUME NEW c \in Q \ D PROVE CollectNext(line)[c] \in Q
  <2>1. PICK d : d = CollectNext(line)[c] OBVIOUS
  <2>2. c \in Collecting(line) /\ c \notin CollectEnds(line)
        /\ Boundary(line, Place(line, c)) /\ Gathered(line, c)
    OBVIOUS
  <2>3. Boundary(line, Place(line, d)) /\ Gathered(line, d) BY <2>1, <2>2, GatherMore
  <2>4. d \in S BY <2>1, <2>2, CollectMore
  <2> QED BY <2>1, <2>3, <2>4
<1>7. ASSUME NEW c \in Q \cap D PROVE WhatIsFound(S)[c] \in V
  <2>1. PICK p : p = Place(line, c) OBVIOUS
  <2>2. c \in Cursors(line, Seq(Seq(Nat))) BY DEF Collecting
  <2>3. p \in 0 .. Len(line) /\ c.length = Len(line) - p BY <2>1, <2>2, CursorFacts
  <2>4. PICK n \in Nat : n = Cardinality(Begins(Text(line))) BY BeginsFacts
  <2>5. PICK m \in Nat : m = Cardinality(Before(line, p)) /\ m <= n BY <2>4, BeginsFacts
  <2>6. PICK a \in Nat : a = application_num_args BY <1>3
  <2>7. /\ c.found \in Seq(Seq(Nat)) /\ Len(c.found) = m /\ m <= a
        /\ \A k \in 1 .. Len(c.found) : c.found[k] = WordOf(line, k)
    BY <2>1, <2>5, <2>6 DEF Gathered
  <2>8. c.length = 0 \/ m = a BY <2>6, <2>7 DEF CollectEnds
  <2>9. c.length = 0 => m = n
    <3>1. SUFFICES ASSUME c.length = 0 PROVE m = n OBVIOUS
    <3>2. p = Len(line) BY <1>3, <2>3, <3>1
    <3>3. \A i \in Begins(Text(line)) : i <= p BY <1>3, <3>2, BeginsFacts
    <3>4. Before(line, p) = Begins(Text(line)) BY <3>3 DEF Before
    <3> QED BY <2>4, <2>5, <3>4
  <2>10. m = IF a <= n THEN a ELSE n BY <2>5, <2>7, <2>8, <2>9
  <2>11. c.found = Target(line) BY <2>4, <2>6, <2>7, <2>10, TargetIs
  <2> QED BY <2>11 DEF WhatIsFound
<1>8. Q \subseteq S OBVIOUS
<1> HIDE DEF Q, V, S, D, start
<1>9. ComesTo(g, Q, V)
  <2>1. Stays(Q, D, CollectNext(line)) BY <1>6 DEF Stays
  <2>2. Results(Q, D, WhatIsFound(S), V) BY <1>7 DEF Results
  <2> QED BY <1>1, <1>2, <1>8, <2>1, <2>2, LoopRule
<1>10. g[start] \in V BY <1>5, <1>9 DEF ComesTo
<1> QED BY <1>1, <1>10 DEF V

-------------------------------------------------------------------------------
(* The arguments that a reply names are those of its line.                   *)

LEMMA NoLine == Target(<<>>) = <<>>
<1>1. <<>> \in Octets /\ Len(<<>>) = 0 /\ <<>> \in Seq(Seq(Nat)) BY DEF Octets
<1>2. Begins(Text(<<>>)) = {}
  <2>1. Begins(Text(<<>>)) \subseteq 1 .. 0 BY <1>1, BeginsFacts
  <2>2. 1 .. 0 = {} OBVIOUS
  <2> QED BY <2>1, <2>2
<1>3. Cardinality(Begins(Text(<<>>))) = 0 BY <1>2, FS_EmptySet
<1>4. PICK line \in Octets : line = <<>> BY <1>1
<1>5. PICK found \in Seq(Seq(Nat)) : found = <<>> BY <1>1
<1>6. Len(found) = 0 /\ Cardinality(Begins(Text(line))) = 0 BY <1>1, <1>3, <1>4, <1>5
<1>7. Len(found) = IF application_num_args <= Cardinality(Begins(Text(line)))
                   THEN application_num_args ELSE Cardinality(Begins(Text(line)))
  <2>1. PICK a \in Nat \ {0} : a = application_num_args BY Sizes
  <2> QED BY <1>6, <2>1
<1>8. \A k \in 1 .. Len(found) : found[k] = WordOf(line, k) BY <1>6
<1>9. found = Target(line) BY <1>7, <1>8, TargetIs
<1> QED BY <1>4, <1>5, <1>9

(* A reply names the arguments of its line. *)
Names(r) == r.args = Target(r.line)

LEMMA RequestNames ==
  ASSUME NEW request \in Unusual, request.call = "unknown"
  PROVE  request.args = Target(request.line)
<1>1. PICK l \in Lines :
        LET args == IF l # <<>> /\ Head(l) = 255 THEN <<>> ELSE Arguments(l)
        IN request = [line |-> l, args |-> args, call |-> Call(args)]
  BY DEF Unusual, Requests
<1>2. request.line = l /\ request.call = Call(request.args)
      /\ (request.args = <<>> \/ request.args = Arguments(l))
  BY <1>1
<1>3. request.args # <<>>
  <2>1. SUFFICES ASSUME request.args = <<>> PROVE FALSE OBVIOUS
  <2>2. Call(<<>>) = "silence" BY DEF Call
  <2> QED BY <1>2, <2>1, <2>2
<1>4. l \in Octets BY ApplicationAssumption DEF Octets
<1> QED BY <1>2, <1>3, <1>4, ArgumentsAre

LEMMA UsualIsUnusual == Usual \subseteq Unusual
<1>1. Commands \subseteq Lines BY ApplicationAssumption
<1> QED BY <1>1 DEF Usual, Unusual, Requests

LEMMA PlainNames ==
  ASSUME NEW r, r.line = <<>>, r.args = <<>>
  PROVE  Names(r)
BY NoLine DEF Names

(* Every step leaves the reply, or makes one of no line, or one that names   *)
(* what an unknown command consists of.                                      *)
LEMMA NamesStays ==
  ASSUME Names(reply), [Next]_vars
  PROVE  Names(reply')
<1>1. CASE UNCHANGED reply BY <1>1
<1>2. ASSUME NEW request \in Unusual, Silence(request) \/ Insufficient(request)
      PROVE  Names(reply')
  <2>1. reply'.line = <<>> /\ reply'.args = <<>>
    BY <1>2 DEF Silence, Insufficient, Answered, Reply
  <2> QED BY <2>1, PlainNames
<1>3. ASSUME NEW request \in Unusual, UnknownCommand(request) PROVE Names(reply')
  <2>1. reply'.line = request.line /\ reply'.args = request.args
    BY <1>3 DEF UnknownCommand, Answered, Reply
  <2>2. request.call = "unknown" BY <1>3 DEF UnknownCommand
  <2> QED BY <2>1, <2>2, RequestNames DEF Names
<1>4. ASSUME NEW request \in Unusual, Write(request) PROVE Names(reply')
  <2>1. reply'.line = <<>> /\ reply'.args = <<>> BY <1>4 DEF Write, Reply
  <2> QED BY <2>1, PlainNames
<1>5. ASSUME NEW request \in Unusual, Other(request) PROVE Names(reply')
  <2> DEFINE dumped == Room(DumpLengths)
             helped == Room(HelpLengths)
  <2>1. reply' = CASE request.call = "dump" -> [Reply("text") EXCEPT !.top = dumped]
                   [] request.call = "help" /\ Len(request.args) = 1 ->
                        [Reply("text") EXCEPT !.top = helped]
                   [] request.call = "quit" -> Reply("close")
                   [] request.call = "reset" -> Reply("none")
                   [] OTHER -> Reply("text")
    BY <1>5 DEF Other, Answered
  <2> HIDE DEF dumped, helped
  <2>2. \/ reply' = [Reply("text") EXCEPT !.top = dumped]
        \/ reply' = [Reply("text") EXCEPT !.top = helped]
        \/ \E kind : reply' = Reply(kind)
    BY <2>1
  <2>3. reply'.line = <<>> /\ reply'.args = <<>> BY <2>2 DEF Reply
  <2> QED BY <2>3, PlainNames
<1>6. CASE WriteOctet BY <1>1, <1>6 DEF WriteOctet
<1>7. CASE Return
  <2> DEFINE told == IF writes = <<>> THEN <<0, 0>>
                     ELSE [i \in DOMAIN writes |-> Number(eeprom[writes[i].place])]
  <2>1. reply' = [Reply("set") EXCEPT !.numbers = told] BY <1>7 DEF Return
  <2> HIDE DEF told
  <2>2. reply'.line = <<>> /\ reply'.args = <<>> BY <2>1 DEF Reply
  <2> QED BY <2>2, PlainNames
<1>8. CASE PowerCut
  <2>1. reply'.line = <<>> /\ reply'.args = <<>> BY <1>8 DEF PowerCut, Reply
  <2> QED BY <2>1, PlainNames
<1>9. CASE application_content
  <2>1. CASE \E request \in IF Nothing THEN Unusual ELSE Usual :
               Silence(request) \/ UnknownCommand(request) \/ Insufficient(request)
               \/ Write(request) \/ Other(request)
    <3>1. \E request \in Unusual :
               Silence(request) \/ UnknownCommand(request) \/ Insufficient(request)
               \/ Write(request) \/ Other(request)
      BY <2>1, UsualIsUnusual
    <3> QED BY <3>1, <1>2, <1>3, <1>4, <1>5
  <2> QED BY <1>6, <1>7, <1>9, <2>1 DEF application_content
<1>10. CASE UNCHANGED vars BY <1>1, <1>10 DEF vars
<1> QED BY <1>8, <1>9, <1>10 DEF Next

(* The arguments that a command is given, and that the reply to an unknown   *)
(* one names, are the first words of its line, each as far as an argument    *)
(* holds it (application.c:199-233): for lines of any length.                *)
THEOREM ArgumentsAreWords == Spec => []Parsed
<1>1. Parsed <=> Names(reply) BY DEF Parsed, Names, Target, Text
<1>2. Init => Names(reply)
  <2>1. Init => reply.line = <<>> /\ reply.args = <<>> BY DEF Init, Reply
  <2> QED BY <2>1, PlainNames
<1>3. Names(reply) /\ [Next]_vars => Names(reply)' BY NamesStays DEF Names
<1> QED BY <1>1, <1>2, <1>3, PTL DEF Spec

-------------------------------------------------------------------------------
(* The room that lines need.                                                 *)
IsSum(f, s, n) == f = [k \in 0 .. n |-> IF k = 0 THEN 0 ELSE f[k - 1] + s[k]]

LEMMA SumExists ==
  ASSUME NEW s, NEW n \in Nat
  PROVE  \E f : IsSum(f, s, n)
<1> DEFINE Bad == {j \in Nat : ~\E f : IsSum(f, s, j)}
<1>1. SUFFICES ASSUME Bad # {} PROVE FALSE OBVIOUS
<1>2. PICK m \in Bad : \A j \in Bad : m <= j
  <2>1. Bad \subseteq Nat OBVIOUS
  <2> HIDE DEF Bad
  <2> QED BY <1>1, <2>1, Least
<1>3. m \in Nat /\ ~\E f : IsSum(f, s, m) OBVIOUS
<1>4. m # 0
  <2> DEFINE f == [k \in 0 .. 0 |-> 0]
  <2>1. f = [k \in 0 .. 0 |-> IF k = 0 THEN 0 ELSE f[k - 1] + s[k]] OBVIOUS
  <2> QED BY <1>3, <2>1 DEF IsSum
<1>5. m - 1 \in Nat /\ m - 1 \notin Bad
  <2> HIDE DEF Bad
  <2> QED BY <1>2, <1>3, <1>4
<1>6. PICK h : IsSum(h, s, m - 1) BY <1>5
<1> HIDE DEF Bad
<1> DEFINE f == [k \in 0 .. m |-> IF k = m THEN h[m - 1] + s[m] ELSE h[k]]
<1>7. \A k \in 0 .. m - 1 : f[k] = h[k] /\ h[k] = IF k = 0 THEN 0 ELSE h[k - 1] + s[k]
  <2>1. \A k \in 0 .. m - 1 : h[k] = IF k = 0 THEN 0 ELSE h[k - 1] + s[k] BY <1>6 DEF IsSum
  <2>2. \A k \in 0 .. m - 1 : k \in 0 .. m /\ k # m BY <1>3
  <2> QED BY <2>1, <2>2
<1>8. f[m] = h[m - 1] + s[m] BY <1>3
<1>9. f = [k \in 0 .. m |-> f[k]] OBVIOUS
<1> HIDE DEF f
<1>10. ASSUME NEW k \in 0 .. m PROVE f[k] = IF k = 0 THEN 0 ELSE f[k - 1] + s[k]
  <2>1. CASE k = m
    <3>1. m - 1 \in 0 .. m - 1 BY <1>3, <1>4
    <3> QED BY <1>4, <1>7, <1>8, <2>1, <3>1
  <2>2. CASE k \in 0 .. m - 1
    <3>1. k # 0 => k - 1 \in 0 .. m - 1 BY <1>3, <2>2
    <3> QED BY <1>7, <2>2, <3>1
  <2> QED BY <1>3, <2>1, <2>2
<1>11. IsSum(f, s, m) BY <1>9, <1>10 DEF IsSum
<1> QED BY <1>3, <1>11

LEMMA NeededIs ==
  ASSUME NEW lengths \in Seq(Nat)
  PROVE  /\ Needed(lengths)[0] = 0
         /\ \A k \in 1 .. Len(lengths) : Needed(lengths)[k] = Needed(lengths)[k - 1] + lengths[k]
<1>1. PICK n \in Nat : n = Len(lengths) BY LenProperties
<1>2. \E f : IsSum(f, lengths, n) BY SumExists
<1>3. Needed(lengths) = CHOOSE f : IsSum(f, lengths, n) BY <1>1 DEF Needed, IsSum
<1>4. PICK f : f = Needed(lengths) /\ IsSum(f, lengths, n) BY <1>2, <1>3
<1>5. f[0] = 0 BY <1>4 DEF IsSum
<1>6. \A k \in 1 .. n : f[k] = f[k - 1] + lengths[k] BY <1>4 DEF IsSum
<1> QED BY <1>1, <1>4, <1>5, <1>6

(* More lines, or longer ones, need no less. *)
LEMMA NeededGrows ==
  ASSUME NEW lengths \in Seq(Nat)
  PROVE  \A k \in 0 .. Len(lengths) :
           Needed(lengths)[k] \in Nat /\ \A j \in 0 .. k : Needed(lengths)[j] <= Needed(lengths)[k]
<1>1. PICK n \in Nat : n = Len(lengths) BY LenProperties
<1>2. PICK f : f = Needed(lengths) OBVIOUS
<1>3. f[0] = 0 /\ \A k \in 1 .. n : f[k] = f[k - 1] + lengths[k] /\ lengths[k] \in Nat
  BY <1>1, <1>2, NeededIs, ElementOfSeq
<1> DEFINE Good(k) == f[k] \in Nat /\ \A j \in 0 .. k : f[j] <= f[k]
           Bad == {k \in 0 .. n : ~Good(k)}
<1>4. SUFFICES ASSUME Bad # {} PROVE FALSE BY <1>1, <1>2
<1>5. PICK m \in Bad : \A j \in Bad : m <= j
  <2>1. Bad \subseteq Nat OBVIOUS
  <2> HIDE DEF Bad
  <2> QED BY <1>4, <2>1, Least
<1>6. m \in 0 .. n /\ m \in Nat /\ ~Good(m) OBVIOUS
<1>7. m # 0 BY <1>3, <1>6
<1>8. m - 1 \in 0 .. n /\ m - 1 \notin Bad
  <2> HIDE DEF Bad
  <2>1. m - 1 \in 0 .. n BY <1>6, <1>7
  <2>2. ~(m <= m - 1) BY <1>6
  <2> QED BY <1>5, <2>1, <2>2
<1>9. f[m - 1] \in Nat /\ \A j \in 0 .. m - 1 : f[j] <= f[m - 1] BY <1>8
<1> HIDE DEF Bad
<1>10. f[m] = f[m - 1] + lengths[m] /\ lengths[m] \in Nat BY <1>3, <1>6, <1>7
<1>11. ASSUME NEW j \in 0 .. m PROVE f[j] <= f[m]
  <2>1. CASE j = m BY <1>9, <1>10, <2>1
  <2>2. CASE j \in 0 .. m - 1
    <3>1. f[j] <= f[m - 1] /\ j \in 0 .. n BY <1>6, <1>9, <2>2
    <3>2. f[j] \in Nat
      <4>1. j \notin Bad
        <5>1. ~(m <= j) BY <1>6, <2>2
        <5> QED BY <1>5, <5>1
      <4> QED BY <3>1, <4>1 DEF Bad
    <3> QED BY <1>9, <1>10, <3>1, <3>2
  <2> QED BY <1>6, <2>1, <2>2
<1> QED BY <1>6, <1>9, <1>10, <1>11

LEMMA NeededMore ==
  ASSUME NEW a \in Seq(Nat), NEW b \in Seq(Nat), Len(a) = Len(b),
         \A i \in 1 .. Len(a) : a[i] <= b[i]
  PROVE  \A k \in 0 .. Len(a) : Needed(a)[k] <= Needed(b)[k]
<1>1. PICK n \in Nat : n = Len(a) BY LenProperties
<1>2. PICK f, g : f = Needed(a) /\ g = Needed(b) OBVIOUS
<1>3. /\ f[0] = 0 /\ \A k \in 1 .. n : f[k] = f[k - 1] + a[k] /\ a[k] \in Nat
      /\ g[0] = 0 /\ \A k \in 1 .. n : g[k] = g[k - 1] + b[k] /\ b[k] \in Nat
  BY <1>1, <1>2, NeededIs, ElementOfSeq
<1>4. \A k \in 0 .. n : f[k] \in Nat /\ g[k] \in Nat BY <1>1, <1>2, NeededGrows
<1> DEFINE Bad == {k \in 0 .. n : ~(f[k] <= g[k])}
<1>5. SUFFICES ASSUME Bad # {} PROVE FALSE BY <1>1, <1>2
<1>6. PICK m \in Bad : \A j \in Bad : m <= j
  <2>1. Bad \subseteq Nat OBVIOUS
  <2> HIDE DEF Bad
  <2> QED BY <1>5, <2>1, Least
<1>7. m \in 0 .. n /\ m \in Nat /\ ~(f[m] <= g[m]) OBVIOUS
<1>8. m # 0 BY <1>3, <1>7
<1>9. m - 1 \in 0 .. n /\ m - 1 \notin Bad
  <2> HIDE DEF Bad
  <2>1. m - 1 \in 0 .. n BY <1>7, <1>8
  <2>2. ~(m <= m - 1) BY <1>7
  <2> QED BY <1>6, <2>1, <2>2
<1>10. f[m - 1] <= g[m - 1] BY <1>9
<1> HIDE DEF Bad
<1>11. /\ f[m] = f[m - 1] + a[m] /\ a[m] \in Nat /\ g[m] = g[m - 1] + b[m] /\ b[m] \in Nat
       /\ a[m] <= b[m] /\ f[m - 1] \in Nat /\ g[m - 1] \in Nat
  <2>1. m \in 1 .. n BY <1>7, <1>8
  <2> QED BY <1>1, <1>3, <1>4, <1>9, <2>1
<1>12. f[m] <= g[m] BY <1>10, <1>11
<1> QED BY <1>7, <1>12

-------------------------------------------------------------------------------
(* The loop that prints lines.                                               *)
IsPrint(g, lengths) ==
  g = [so_far \in Reports(lengths) |->
         IF so_far.done = Len(lengths) THEN so_far.top
         ELSE g[Printed(so_far, lengths[so_far.done + 1])]]

PrintEnds(lengths) == {x \in Reports(lengths) : x.done = Len(lengths)}
PrintNext(lengths) == [x \in Reports(lengths) |-> Printed(x, lengths[x.done + 1])]
Tops(S) == [x \in S |-> x.top]
LinesLeft(lengths) == [x \in Reports(lengths) |-> Len(lengths) - x.done]

LEMMA RoomIsNat ==
  /\ ReplySize \in Nat /\ SizeMod \in Nat \ {0} /\ ReplySize < SizeMod /\ Widest \in Nat
<1>1. ReplySize \in Nat /\ ReplySize < SizeMod /\ Widest \in Nat BY ApplicationAssumption
<1>2. SizeMod \in Nat \ {0} BY DEF SizeMod
<1> QED BY <1>1, <1>2

(* What one line takes. *)
LEMMA LargerIs ==
  ASSUME NEW a \in Nat, NEW b \in Nat
  PROVE  Max({a, b}) = IF a >= b THEN a ELSE b
BY DEF Max

LowOctet(n) == n % 256
LowTwo(n) == n % SizeMod

LEMMA LowOctetIs ==
  ASSUME NEW n \in Nat
  PROVE  LowOctet(n) \in Nat /\ LowOctet(n) <= n
<1>1. PICK b \in Nat \ {0} : b = 256 OBVIOUS
<1>2. n % b \in Nat /\ n % b <= n BY Counting
<1> QED BY <1>1, <1>2 DEF LowOctet

LEMMA LowTwoIs ==
  /\ \A n \in Nat : n < SizeMod => LowTwo(n) = n
  /\ \A n \in Int : LowTwo(n) \in Nat
<1>1. PICK b \in Nat \ {0} : b = SizeMod BY DEF SizeMod
<1>2. \A n \in Nat : n < b => n % b = n BY Divide
<1>3. \A n \in Int : n % b \in Nat OBVIOUS
<1> QED BY <1>1, <1>2, <1>3 DEF LowTwo

LEMMA PrintedIs ==
  ASSUME NEW lengths \in Seq(Nat), NEW x \in Reports(lengths), x.done # Len(lengths),
         NEW n, n = lengths[x.done + 1], NEW m, m = LowOctet(n), NEW y, y = Printed(x, n)
  PROVE  /\ n \in Nat /\ m \in Nat /\ m <= n
         /\ x.done \in 0 .. Len(lengths) - 1 /\ x.end \in Nat /\ x.size \in Nat /\ x.top \in Nat
         /\ y \in Reports(lengths) /\ y.done = x.done + 1 /\ y.end = x.end + m
         /\ y.size = LowTwo(x.size - m)
         /\ y.top <= x.top \/ y.top <= x.end + x.size
<1>1. /\ Len(lengths) \in Nat /\ x.done \in 0 .. Len(lengths) - 1
      /\ x.end \in Nat /\ x.size \in Nat /\ x.top \in Nat
  BY LenProperties DEF Reports
<1>2. n \in Nat BY <1>1, ElementOfSeq
<1>4. m \in Nat /\ m <= n BY <1>2, LowOctetIs
<1>5. PICK s : s = LowTwo(x.size - m) OBVIOUS
<1>6. s \in Nat
  <2>1. PICK j \in Int : j = x.size - m BY <1>1, <1>4
  <2> QED BY <1>5, <2>1, LowTwoIs
<1>7. PICK k \in Nat : k = Min({n + 1, x.size}) /\ k <= x.size
  <2>1. n + 1 \in Nat BY <1>2
  <2>2. Min({n + 1, x.size}) = IF n + 1 <= x.size THEN n + 1 ELSE x.size BY <1>1, <2>1, SmallerIs
  <2> QED BY <1>1, <2>1, <2>2
<1>8. PICK t \in Nat : t = Max({x.top, x.end + k}) /\ (t = x.top \/ t = x.end + k)
  <2>1. x.end + k \in Nat BY <1>1, <1>7
  <2>2. Max({x.top, x.end + k}) = IF x.top >= x.end + k THEN x.top ELSE x.end + k
    BY <1>1, <2>1, LargerIs
  <2> QED BY <1>1, <2>1, <2>2
<1>9. y = [done |-> x.done + 1, end |-> x.end + m, size |-> s, top |-> t]
  BY <1>5, <1>7, <1>8 DEF Printed, LowOctet, LowTwo
<1>10. x.done + 1 \in 0 .. Len(lengths) /\ x.end + m \in Nat
  <2>1. PICK l \in Nat : l = Len(lengths) BY <1>1
  <2>2. PICK done \in Nat : done = x.done /\ done + 1 <= l BY <1>1, <2>1
  <2>3. x.end + m \in Nat BY <1>1, <1>4
  <2> QED BY <2>1, <2>2, <2>3
<1>11. y \in Reports(lengths) BY <1>6, <1>8, <1>9, <1>10 DEF Reports
<1>12. y.top <= x.top \/ y.top <= x.end + x.size BY <1>1, <1>7, <1>8, <1>9
<1> QED BY <1>1, <1>2, <1>4, <1>5, <1>9, <1>11, <1>12

LEMMA PrintFalls ==
  ASSUME NEW lengths \in Seq(Nat)
  PROVE  Falls(Reports(lengths), PrintEnds(lengths), PrintNext(lengths), LinesLeft(lengths), Len(lengths))
<1>1. Len(lengths) \in Nat BY LenProperties
<1>2. \A x \in Reports(lengths) : LinesLeft(lengths)[x] \in 0 .. Len(lengths)
  BY <1>1 DEF Reports, LinesLeft
<1>3. ASSUME NEW x \in Reports(lengths) \ PrintEnds(lengths)
      PROVE  /\ PrintNext(lengths)[x] \in Reports(lengths)
             /\ LinesLeft(lengths)[PrintNext(lengths)[x]] < LinesLeft(lengths)[x]
  <2>1. x \in Reports(lengths) /\ x.done # Len(lengths) BY DEF PrintEnds
  <2>2. PICK n, m, y : n = lengths[x.done + 1] /\ m = LowOctet(n) /\ y = Printed(x, n) OBVIOUS
  <2>3. y \in Reports(lengths) /\ y.done = x.done + 1 /\ x.done \in 0 .. Len(lengths) - 1
    BY <2>1, <2>2, PrintedIs
  <2>4. PrintNext(lengths)[x] = y BY <2>2 DEF PrintNext
  <2>5. LinesLeft(lengths)[y] = Len(lengths) - y.done BY <2>3 DEF LinesLeft
  <2>6. LinesLeft(lengths)[x] = Len(lengths) - x.done BY DEF LinesLeft
  <2> QED BY <1>1, <2>3, <2>4, <2>5, <2>6
<1> QED BY <1>1, <1>2, <1>3 DEF Falls

LEMMA PrintIsLoop ==
  ASSUME NEW lengths \in Seq(Nat)
  PROVE  \E g : /\ IsLoop(g, Reports(lengths), PrintEnds(lengths), Tops(Reports(lengths)), PrintNext(lengths))
                /\ Room(lengths) = g[[done |-> 0, end |-> 0, size |-> ReplySize, top |-> 0]]
<1>1. \A g : IsPrint(g, lengths) <=>
        IsLoop(g, Reports(lengths), PrintEnds(lengths), Tops(Reports(lengths)), PrintNext(lengths))
  BY DEF IsPrint, IsLoop, PrintEnds, PrintNext, Tops
<1>2. \E g : IsPrint(g, lengths) BY <1>1, PrintFalls, LoopExists
<1> DEFINE g == CHOOSE h : IsPrint(h, lengths)
<1>3. Room(lengths) = g[[done |-> 0, end |-> 0, size |-> ReplySize, top |-> 0]]
  BY DEF Room, IsPrint
<1>4. IsPrint(g, lengths) BY <1>2
<1> HIDE DEF g
<1> QED BY <1>1, <1>3, <1>4

(* If there is room for all lines but the last, what is left is never        *)
(* reduced by more than there is, and all of them stay in the room there is. *)
THEOREM RoomSuffices ==
  ASSUME NEW lengths \in Seq(Nat), lengths # <<>>, AllButTheLastFit(lengths)
  PROVE  Room(lengths) <= ReplySize
<1> DEFINE S == Reports(lengths)
           D == PrintEnds(lengths)
           Q == {x \in S : /\ x.top <= ReplySize
                           /\ x.done < Len(lengths) => /\ x.end + x.size = ReplySize
                                                       /\ x.end <= Needed(lengths)[x.done]}
           V == {n \in Nat : n <= ReplySize}
           start == [done |-> 0, end |-> 0, size |-> ReplySize, top |-> 0]
<1>1. PICK g : IsLoop(g, S, D, Tops(S), PrintNext(lengths)) /\ Room(lengths) = g[start] BY PrintIsLoop
<1>2. Falls(S, D, PrintNext(lengths), LinesLeft(lengths), Len(lengths)) BY PrintFalls
<1>3. /\ Len(lengths) \in Nat \ {0} /\ ReplySize \in Nat /\ SizeMod \in Nat /\ ReplySize < SizeMod
      /\ Needed(lengths)[Len(lengths) - 1] <= ReplySize
  BY LenProperties, EmptySeq, RoomIsNat DEF AllButTheLastFit
<1>4. start \in Q
  <2>1. start \in S BY <1>3 DEF Reports
  <2>2. Needed(lengths)[0] = 0 BY NeededIs
  <2> QED BY <1>3, <2>1, <2>2
<1>5. ASSUME NEW x \in Q \ D PROVE PrintNext(lengths)[x] \in Q
  <2>1. PICK n, m, y : n = lengths[x.done + 1] /\ m = LowOctet(n) /\ y = Printed(x, n) OBVIOUS
  <2>2. x \in S /\ x.done # Len(lengths) BY DEF PrintEnds
  <2>3. /\ n \in Nat /\ m \in Nat /\ m <= n
        /\ x.done \in 0 .. Len(lengths) - 1 /\ x.end \in Nat /\ x.size \in Nat /\ x.top \in Nat
        /\ y \in Reports(lengths) /\ y.done = x.done + 1 /\ y.end = x.end + m
        /\ y.size = LowTwo(x.size - m)
        /\ y.top <= x.top \/ y.top <= x.end + x.size
    BY <2>1, <2>2, PrintedIs, SMTT(20)
  <2>5. x.top <= ReplySize /\ x.end + x.size = ReplySize /\ x.end <= Needed(lengths)[x.done]
    BY <1>3, <2>3
  <2>6. y.top <= ReplySize
    <3>1. y.top \in Nat BY <2>3 DEF Reports
    <3> QED BY <1>3, <2>3, <2>5, <3>1
  <2>7. ASSUME y.done < Len(lengths)
        PROVE  y.end + y.size = ReplySize /\ y.end <= Needed(lengths)[y.done]
    <3> DEFINE k == x.done + 1
               u == Needed(lengths)[k]
               w == Needed(lengths)[k - 1]
    <3>1. k \in 1 .. Len(lengths) /\ k \in 0 .. Len(lengths) - 1 /\ k - 1 = x.done /\ k - 1 \in 0 .. Len(lengths)
          /\ Len(lengths) - 1 \in 0 .. Len(lengths)
      <4>1. PICK l \in Nat, d \in Nat : l = Len(lengths) /\ d = x.done /\ d + 1 < l
        BY <1>3, <2>3, <2>7
      <4> QED BY <4>1
    <3>2. u = w + n BY <2>1, <3>1, NeededIs
    <3>3. w \in Nat BY <3>1, NeededGrows
    <3>4. u <= ReplySize
      <4>1. u <= Needed(lengths)[Len(lengths) - 1] /\ Needed(lengths)[Len(lengths) - 1] \in Nat
        BY <3>1, NeededGrows
      <4> HIDE DEF u, w
      <4>2. u \in Nat BY <2>3, <3>2, <3>3
      <4> QED BY <1>3, <4>1, <4>2
    <3>5. x.end <= w BY <2>5, <3>1
    <3> HIDE DEF u, w
    <3>6. x.end + m <= u BY <2>3, <3>2, <3>3, <3>5
    <3>7. PICK j \in Nat : j = x.size - m /\ j < SizeMod
      <4>1. PICK room, mod \in Nat : room = ReplySize /\ mod = SizeMod /\ room < mod BY <1>3
      <4>2. PICK end \in Nat : end = x.end BY <2>3
      <4>3. PICK size \in Nat : size = x.size BY <2>3
      <4>4. end + size = room BY <2>5, <4>1, <4>2, <4>3
      <4>5. end + m <= room BY <2>3, <3>2, <3>3, <3>4, <3>6, <4>1, <4>2
      <4>6. size - m \in Nat /\ size - m < SizeMod BY <2>3, <4>1, <4>4, <4>5
      <4> QED BY <4>3, <4>6
    <3>8. y.size = x.size - m BY <2>3, <3>7, LowTwoIs
    <3>9. y.end + y.size = ReplySize BY <2>3, <2>5, <3>8
    <3> QED BY <2>3, <3>6, <3>9 DEF u
  <2>8. PrintNext(lengths)[x] = y BY <2>1, <2>2 DEF PrintNext
  <2> QED BY <2>3, <2>6, <2>7, <2>8
<1>6. ASSUME NEW x \in Q \cap D PROVE Tops(S)[x] \in V
  <2>1. x \in S /\ x.top <= ReplySize OBVIOUS
  <2>2. x.top \in Nat BY <2>1 DEF Reports
  <2> QED BY <2>1, <2>2 DEF Tops
<1>7. Q \subseteq S OBVIOUS
<1> HIDE DEF Q, V, S, D, start
<1>8. ComesTo(g, Q, V)
  <2>1. Stays(Q, D, PrintNext(lengths)) BY <1>5 DEF Stays
  <2>2. Results(Q, D, Tops(S), V) BY <1>6 DEF Results
  <2> QED BY <1>1, <1>2, <1>7, <2>1, <2>2, LoopRule
<1>9. g[start] \in V BY <1>4, <1>8 DEF ComesTo
<1> QED BY <1>1, <1>9 DEF V

-------------------------------------------------------------------------------
(* The lines of dump, the numbers being no longer than they may be.          *)
AtMost(a, b) ==
  /\ a \in Seq(Nat) /\ b \in Seq(Nat) /\ Len(a) = Len(b)
  /\ \A i \in 1 .. Len(a) : a[i] <= b[i]

LEMMA JoinAtMost ==
  ASSUME NEW a, NEW b, AtMost(a, b), NEW c, NEW d, AtMost(c, d)
  PROVE  AtMost(a \o c, b \o d)
<1>1. PICK m, n \in Nat : m = Len(a) /\ m = Len(b) /\ n = Len(c) /\ n = Len(d)
  <2>1. Len(a) \in Nat /\ Len(c) \in Nat BY LenProperties DEF AtMost
  <2> QED BY <2>1 DEF AtMost
<1>2. /\ a \in Seq(Nat) /\ b \in Seq(Nat) /\ c \in Seq(Nat) /\ d \in Seq(Nat)
      /\ \A i \in 1 .. m : a[i] <= b[i]
      /\ \A i \in 1 .. n : c[i] <= d[i]
  BY <1>1 DEF AtMost
<1>3. /\ a \o c \in Seq(Nat) /\ Len(a \o c) = m + n
      /\ \A i \in 1 .. m + n : (a \o c)[i] = IF i <= m THEN a[i] ELSE c[i - m]
  <2>1. /\ a \o c \in Seq(Nat) /\ Len(a \o c) = Len(a) + Len(c)
        /\ \A i \in 1 .. Len(a) + Len(c) :
             (a \o c)[i] = IF i <= Len(a) THEN a[i] ELSE c[i - Len(a)]
    BY <1>2, ConcatProperties
  <2> QED BY <1>1, <2>1
<1>4. /\ b \o d \in Seq(Nat) /\ Len(b \o d) = m + n
      /\ \A i \in 1 .. m + n : (b \o d)[i] = IF i <= m THEN b[i] ELSE d[i - m]
  <2>1. /\ b \o d \in Seq(Nat) /\ Len(b \o d) = Len(b) + Len(d)
        /\ \A i \in 1 .. Len(b) + Len(d) :
             (b \o d)[i] = IF i <= Len(b) THEN b[i] ELSE d[i - Len(b)]
    BY <1>2, ConcatProperties
  <2> QED BY <1>1, <2>1
<1>5. ASSUME NEW i \in 1 .. m + n PROVE (a \o c)[i] <= (b \o d)[i]
  <2>1. CASE i <= m
    <3>1. i \in 1 .. m BY <2>1
    <3> QED BY <1>2, <1>3, <1>4, <2>1, <3>1
  <2>2. CASE ~(i <= m)
    <3>1. i - m \in 1 .. n BY <2>2
    <3> QED BY <1>2, <1>3, <1>4, <2>2, <3>1
  <2> QED BY <2>1, <2>2
<1> QED BY <1>3, <1>4, <1>5 DEF AtMost

LEMMA LinesAtMost ==
  ASSUME NEW n \in Nat, NEW f, NEW g,
         \A i \in 1 .. n : f[i] \in Nat /\ g[i] \in Nat /\ f[i] <= g[i]
  PROVE  AtMost([i \in 1 .. n |-> f[i]], [i \in 1 .. n |-> g[i]])
<1> DEFINE a == [i \in 1 .. n |-> f[i]]
           b == [i \in 1 .. n |-> g[i]]
<1>1. a \in Seq(Nat) /\ b \in Seq(Nat) OBVIOUS
<1>2. Len(a) = n /\ Len(b) = n OBVIOUS
<1>3. \A i \in 1 .. n : a[i] <= b[i] OBVIOUS
<1> HIDE DEF a, b
<1>4. AtMost(a, b) BY <1>1, <1>2, <1>3 DEF AtMost
<1> QED BY <1>4 DEF a, b

(* Where the numbers are that are printed. *)
LEMMA LayoutIs ==
  /\ temp_cal_size \in Nat /\ light_cal_size \in Nat /\ bandgap \in Places
  /\ \A i \in 1 .. temp_cal_size : temp_cal(i - 1) \in Places /\ temp_cal(i - 1) + 1 \in Places
  /\ \A i \in 1 .. light_cal_size : light_cal(i - 1) \in Places /\ light_cal(i - 1) + 1 \in Places
<1>1. PICK t, l \in Nat : t = temp_cal_size /\ l = light_cal_size BY PlacesAre
<1>2. Places = 0 .. 2 * t + 2 * l
  <2>1. light_cal(light_cal_size) - 1 = 2 * t + 2 * l BY <1>1 DEF light_cal, temp_cal
  <2> QED BY <2>1 DEF Places
<1>3. \A i \in 1 .. t : 1 + 2 * (i - 1) \in Places /\ 1 + 2 * (i - 1) + 1 \in Places BY <1>2
<1>4. \A i \in 1 .. l : 1 + 2 * t + 2 * (i - 1) \in Places /\ 1 + 2 * t + 2 * (i - 1) + 1 \in Places BY <1>2
<1>5. bandgap \in Places BY <1>2 DEF bandgap
<1> QED BY <1>1, <1>3, <1>4, <1>5 DEF light_cal, temp_cal

LEMMA DumpAtMost ==
  ASSUME NEW a \in [Places -> Nat], NEW b \in [Places -> Nat], \A p \in Places : a[p] <= b[p]
  PROVE  AtMost(DumpOf(a), DumpOf(b)) /\ DumpOf(a) # <<>>
<1> DEFINE First(w) == <<12 + w[bandgap]>>
           Temps(w) == [i \in 1 .. temp_cal_size |-> 23 + w[temp_cal(i - 1)] + w[temp_cal(i - 1) + 1]]
           Lamps(w) == [i \in 1 .. light_cal_size |-> 24 + w[light_cal(i - 1)] + w[light_cal(i - 1) + 1]]
<1>1. \A p \in Places : a[p] \in Nat /\ b[p] \in Nat /\ a[p] <= b[p] OBVIOUS
<1>2. AtMost(First(a), First(b))
  <2>1. 12 + a[bandgap] \in Nat /\ 12 + b[bandgap] \in Nat /\ 12 + a[bandgap] <= 12 + b[bandgap]
    BY <1>1, LayoutIs
  <2> QED BY <2>1 DEF AtMost
<1>3. AtMost(Temps(a), Temps(b))
  <2>1. \A i \in 1 .. temp_cal_size :
          Temps(a)[i] \in Nat /\ Temps(b)[i] \in Nat /\ Temps(a)[i] <= Temps(b)[i]
    BY <1>1, LayoutIs
  <2>2. Temps(a) = [i \in 1 .. temp_cal_size |-> Temps(a)[i]] /\ Temps(b) = [i \in 1 .. temp_cal_size |-> Temps(b)[i]]
    OBVIOUS
  <2> HIDE DEF Temps
  <2>3. AtMost([i \in 1 .. temp_cal_size |-> Temps(a)[i]], [i \in 1 .. temp_cal_size |-> Temps(b)[i]])
    BY <2>1, LayoutIs, LinesAtMost
  <2> QED BY <2>2, <2>3
<1>4. AtMost(Lamps(a), Lamps(b))
  <2>1. \A i \in 1 .. light_cal_size :
          Lamps(a)[i] \in Nat /\ Lamps(b)[i] \in Nat /\ Lamps(a)[i] <= Lamps(b)[i]
    BY <1>1, LayoutIs
  <2>2. Lamps(a) = [i \in 1 .. light_cal_size |-> Lamps(a)[i]] /\ Lamps(b) = [i \in 1 .. light_cal_size |-> Lamps(b)[i]]
    OBVIOUS
  <2> HIDE DEF Lamps
  <2>3. AtMost([i \in 1 .. light_cal_size |-> Lamps(a)[i]], [i \in 1 .. light_cal_size |-> Lamps(b)[i]])
    BY <2>1, LayoutIs, LinesAtMost
  <2> QED BY <2>2, <2>3
<1>5. Len(First(a)) = 1 OBVIOUS
<1>6. \A w : DumpOf(w) = First(w) \o Temps(w) \o Lamps(w) BY DEF DumpOf
<1> HIDE DEF First, Temps, Lamps
<1>7. AtMost((First(a) \o Temps(a)) \o Lamps(a), (First(b) \o Temps(b)) \o Lamps(b))
  BY <1>2, <1>3, <1>4, JoinAtMost
<1>8. Len((First(a) \o Temps(a)) \o Lamps(a)) # 0
  <2>1. /\ First(a) \in Seq(Nat) /\ Temps(a) \in Seq(Nat) /\ Lamps(a) \in Seq(Nat)
    BY <1>2, <1>3, <1>4 DEF AtMost
  <2>2. First(a) \o Temps(a) \in Seq(Nat) /\ Len(First(a) \o Temps(a)) = 1 + Len(Temps(a))
    BY <1>5, <2>1, ConcatProperties
  <2>3. Len((First(a) \o Temps(a)) \o Lamps(a)) = Len(First(a) \o Temps(a)) + Len(Lamps(a))
    BY <2>1, <2>2, ConcatProperties
  <2>4. Len(Temps(a)) \in Nat /\ Len(Lamps(a)) \in Nat BY <2>1, LenProperties
  <2> QED BY <2>2, <2>3, <2>4
<1>9. (First(a) \o Temps(a)) \o Lamps(a) # <<>> BY <1>8, EmptySeq
<1> QED BY <1>6, <1>7, <1>9

(* If the longer lines fit, so do the shorter ones. *)
LEMMA ShorterFit ==
  ASSUME NEW a, NEW b, AtMost(a, b), a # <<>>, AllButTheLastFit(b)
  PROVE  Room(a) <= ReplySize
<1>1. a \in Seq(Nat) /\ b \in Seq(Nat) /\ Len(a) = Len(b) /\ \A i \in 1 .. Len(a) : a[i] <= b[i]
  BY DEF AtMost
<1>2. PICK n \in Nat \ {0} : n = Len(a)
  <2>1. Len(a) \in Nat /\ Len(a) # 0 BY <1>1, LenProperties, EmptySeq
  <2> QED BY <2>1
<1>3. n - 1 \in 0 .. n OBVIOUS
<1>4. /\ Needed(a)[n - 1] <= Needed(b)[n - 1]
      /\ Needed(a)[n - 1] \in Nat /\ Needed(b)[n - 1] \in Nat
  BY <1>1, <1>2, <1>3, NeededMore, NeededGrows
<1>5. Needed(b)[n - 1] <= ReplySize BY <1>1, <1>2 DEF AllButTheLastFit
<1>6. Needed(a)[n - 1] <= ReplySize BY <1>4, <1>5, RoomIsNat
<1>7. AllButTheLastFit(a) BY <1>2, <1>6 DEF AllButTheLastFit
<1> QED BY <1>1, <1>7, RoomSuffices

LEMMA HelpFits == Room(HelpLengths) <= ReplySize
<1>1. /\ Len(Table) \in Nat \ {0} /\ \A i \in 1 .. Len(Table) : Table[i].length \in Nat
      /\ AllButTheLastFit(HelpLengths)
  BY ReplyAssumption
<1>2. HelpLengths \in Seq(Nat) /\ Len(HelpLengths) = Len(Table)
  <2>1. \A i \in 1 .. Len(Table) : 11 + Table[i].length \in Nat BY <1>1
  <2> QED BY <1>1, <2>1 DEF HelpLengths
<1>3. HelpLengths # <<>>
  <2>1. Len(HelpLengths) # 0 BY <1>1, <1>2
  <2> QED BY <2>1, EmptySeq
<1> QED BY <1>1, <1>2, <1>3, RoomSuffices

-------------------------------------------------------------------------------
(* What the EEPROM holds while the power may fail: known numbers, and parts  *)
(* of them.                                                                  *)
Known == Factory \cup Written(Unusual)

Holding == \A p \in Places : \A o \in 1 .. FloatSize : eeprom[p][o] \in Known \cup {Broken}

Writing == \A i \in DOMAIN writes : writes[i].number \in Known

HoldInv == IInv /\ Holding /\ Writing

(* What is put is somewhere, or nowhere, among what there is. *)
LEMMA PutHolds ==
  ASSUME IInv, Holding, NEW k, NEW octet \in Known \cup {Broken}, Put(k, octet)
  PROVE  Holding'
<1> DEFINE q == Position(k).place
           r == Position(k).octet
<1>1. eeprom' = [eeprom EXCEPT ![q][r] = octet] BY DEF Put
<1> HIDE DEF q, r
<1>2. DOMAIN eeprom = 0 .. Size - 1 /\ \A p \in Places : p \in DOMAIN eeprom
      /\ DOMAIN eeprom[p] = 1 .. FloatSize
  BY PlacesAre DEF IInv, Typed, Shaped
<1>3. ASSUME NEW p \in Places, NEW o \in 1 .. FloatSize
      PROVE  eeprom'[p][o] \in {eeprom[p][o], octet}
  <2>1. eeprom'[p] = IF p = q THEN [eeprom[p] EXCEPT ![r] = octet] ELSE eeprom[p] BY <1>1, <1>2
  <2>2. [eeprom[p] EXCEPT ![r] = octet][o] \in {eeprom[p][o], octet} BY <1>2
  <2> QED BY <2>1, <2>2
<1> QED BY <1>3 DEF Holding

LEMMA ToWriteKnown ==
  ASSUME IInv, Writing, NEW k \in 1 .. Total
  PROVE  ToWrite(k) \in Known
<1>1. PICK first, n : Asking(first, n) BY DEF IInv, Agreed
<1>2. PICK d : d = IF k <= FloatSize THEN 0 ELSE 1 OBVIOUS
<1>3. d \in Nat /\ d + 1 \in 1 .. n /\ ToWrite(k) = asked[first + d] BY <1>1, <1>2, Positions
<1>4. /\ first \in Nat /\ n \in 0 .. 2
      /\ writes = [i \in 1 .. n |-> [place |-> first + i - 1, number |-> asked[first + i - 1]]]
  BY <1>1 DEF Asking
<1>5. first + (d + 1) - 1 = first + d BY <1>3, <1>4
<1>6. d + 1 \in DOMAIN writes /\ writes[d + 1].number = asked[first + d] BY <1>3, <1>4, <1>5
<1> QED BY <1>3, <1>6 DEF Writing

LEMMA HoldInvStays ==
  ASSUME HoldInv, [Next]_vars
  PROVE  HoldInv'
<1>0. IInv /\ Holding /\ Writing /\ IInv' BY NextIInv DEF HoldInv
<1>1. CASE UNCHANGED <<eeprom, writes>> BY <1>0, <1>1 DEF HoldInv, Holding, Writing
<1>2. ASSUME NEW request \in Unusual, Write(request) PROVE HoldInv'
  <2>1. /\ request.call \in Keeping /\ writes' = Writes(request.call, request.args)
        /\ UNCHANGED eeprom
    BY <1>2 DEF Write
  <2>2. Writing' BY <2>1, WritesAreWritten DEF Writing, Known
  <2>3. Holding' BY <1>0, <2>1 DEF Holding
  <2> QED BY <1>0, <2>2, <2>3 DEF HoldInv
<1>3. CASE WriteOctet
  <2>1. PICK k, octet : k = written + 1 /\ octet = ToWrite(k) OBVIOUS
  <2>2. written < Total /\ Put(k, octet) /\ UNCHANGED writes BY <1>3, <2>1 DEF WriteOctet
  <2>3. Total \in Nat /\ written \in 0 .. Total BY <1>0, TotalIsNat DEF IInv, Typed
  <2>4. k \in 1 .. Total BY <2>1, <2>2, <2>3
  <2>5. octet \in Known BY <1>0, <2>1, <2>4, ToWriteKnown
  <2>6. Holding' BY <1>0, <2>2, <2>5, PutHolds
  <2>7. Writing' BY <1>0, <2>2 DEF Writing
  <2> QED BY <1>0, <2>6, <2>7 DEF HoldInv
<1>4. CASE PowerCut
  <2>1. UNCHANGED writes /\ (UNCHANGED eeprom \/ Put(written + 1, Broken)) BY <1>4 DEF PowerCut
  <2>2. CASE Put(written + 1, Broken)
    <3>1. PICK k : k = written + 1 OBVIOUS
    <3>2. Put(k, Broken) BY <2>2, <3>1
    <3>3. Broken \in Known \cup {Broken} OBVIOUS
    <3>4. Holding' BY <1>0, <3>2, <3>3, PutHolds
    <3>5. Writing' BY <1>0, <2>1 DEF Writing
    <3> QED BY <1>0, <3>4, <3>5 DEF HoldInv
  <2> QED BY <1>1, <2>1, <2>2
<1>5. ASSUME NEW request \in Unusual,
             \/ Silence(request) \/ UnknownCommand(request) \/ Insufficient(request)
             \/ Other(request)
      PROVE  HoldInv'
  <2>1. UNCHANGED <<eeprom, writes>>
    BY <1>5 DEF Silence, UnknownCommand, Insufficient, Other, Answered
  <2> QED BY <1>1, <2>1
<1>6. CASE Return BY <1>1, <1>6 DEF Return
<1>7. CASE application_content
  <2>1. CASE \E request \in IF Nothing THEN Unusual ELSE Usual :
               Silence(request) \/ UnknownCommand(request) \/ Insufficient(request)
               \/ Write(request) \/ Other(request)
    <3>1. \E request \in Unusual :
               Silence(request) \/ UnknownCommand(request) \/ Insufficient(request)
               \/ Write(request) \/ Other(request)
      BY <2>1, UsualIsUnusual
    <3> QED BY <3>1, <1>2, <1>5
  <2> QED BY <1>3, <1>6, <1>7, <2>1 DEF application_content
<1> QED BY <1>1, <1>4, <1>7 DEF Next, vars

(* A number of the EEPROM that is not torn is one that some command has      *)
(* written, or that it was delivered with, wherever the power has failed     *)
(* (eeprom.c, application-temperature.c:181-200).                            *)
THEOREM NumbersAreKnown ==
  Spec => [](\A p \in Places : ~Torn(eeprom[p]) => Number(eeprom[p]) \in Known)
<1>1. Init => HoldInv
  <2> SUFFICES ASSUME Init PROVE HoldInv OBVIOUS
  <2>1. PICK number \in Factory : eeprom = [p \in 0 .. Size - 1 |-> [o \in 1 .. FloatSize |-> number]]
    BY DEF Init
  <2>2. \A p \in Places : p \in 0 .. Size - 1 BY PlacesAre
  <2>3. Holding BY <2>1, <2>2 DEF Holding, Known
  <2>4. writes = <<>> BY DEF Init
  <2>5. Writing BY <2>4 DEF Writing
  <2> QED BY <2>3, <2>5, InitIInv DEF HoldInv
<1>2. HoldInv /\ [Next]_vars => HoldInv' BY HoldInvStays
<1>3. HoldInv => \A p \in Places : ~Torn(eeprom[p]) => Number(eeprom[p]) \in Known
  <2> SUFFICES ASSUME HoldInv, NEW p \in Places, ~Torn(eeprom[p])
               PROVE  Number(eeprom[p]) \in Known
    OBVIOUS
  <2>1. Number(eeprom[p]) = eeprom[p][1] /\ Broken \notin Range(eeprom[p]) BY DEF Number, Torn
  <2>2. 1 \in 1 .. FloatSize BY PlacesAre
  <2>3. DOMAIN eeprom[p] = 1 .. FloatSize BY PlacesAre DEF HoldInv, IInv, Typed, Shaped
  <2>4. eeprom[p][1] \in Range(eeprom[p]) BY <2>2, <2>3 DEF Range
  <2> QED BY <2>1, <2>2, <2>4 DEF HoldInv, Holding
<1> QED BY <1>1, <1>2, <1>3, PTL DEF Spec

-------------------------------------------------------------------------------
(* The room for a reply, while the EEPROM is as Fits has it.                 *)
Narrow ==
  \A p \in Places : ~Torn(eeprom[p]) /\ PrintLength(Number(eeprom[p])) \in 0 .. Widest

(* The room that a reply took is that of an EEPROM that is not written to.   *)
Quiet == pc = "write" => reply.top = 0

FitInv == Quiet /\ Fits

LEMMA DumpFits ==
  ASSUME Narrow
  PROVE  Room(DumpLengths) <= ReplySize
<1> DEFINE width == [p \in Places |-> PrintLength(Number(eeprom[p]))]
           widest == [p \in Places |-> Widest]
<1>1. Widest \in Nat BY RoomIsNat
<1>2. \A p \in Places : PrintLength(Number(eeprom[p])) \in 0 .. Widest BY DEF Narrow
<1>3. width \in [Places -> Nat] BY <1>1, <1>2
<1>4. widest \in [Places -> Nat] BY <1>1
<1>5. \A p \in Places : width[p] <= widest[p] BY <1>1, <1>2
<1>6. AllButTheLastFit(DumpOf(widest)) BY ReplyAssumption
<1>7. DumpLengths = DumpOf(width) BY DEF DumpLengths
<1> HIDE DEF width, widest
<1>8. AtMost(DumpOf(width), DumpOf(widest)) /\ DumpOf(width) # <<>> BY <1>3, <1>4, <1>5, DumpAtMost
<1>9. Room(DumpOf(width)) <= ReplySize BY <1>6, <1>8, ShorterFit
<1> QED BY <1>7, <1>9

(* A step that says nothing, and one that leaves all as it is. *)
LEMMA NothingSaid ==
  ASSUME reply'.top = 0
  PROVE  FitInv'
BY RoomIsNat DEF FitInv, Fits, Quiet

LEMMA FitInvStays ==
  ASSUME FitInv, [Next]_vars
  PROVE  FitInv'
<1>1. CASE UNCHANGED vars BY <1>1 DEF vars, FitInv, Quiet, Fits
<1>2. ASSUME NEW request \in Unusual,
             \/ Silence(request) \/ UnknownCommand(request) \/ Insufficient(request)
             \/ Write(request)
      PROVE  reply'.top = 0
  <2>1. CASE Silence(request) BY <2>1 DEF Silence, Answered, Reply
  <2>2. CASE UnknownCommand(request) BY <2>2 DEF UnknownCommand, Answered, Reply
  <2>3. CASE Insufficient(request) BY <2>3 DEF Insufficient, Answered, Reply
  <2>4. CASE Write(request) BY <2>4 DEF Write, Reply
  <2> QED BY <1>2, <2>1, <2>2, <2>3, <2>4
<1>3. ASSUME NEW request \in Unusual, Other(request) PROVE FitInv'
  <2> DEFINE dumped == Room(DumpLengths)
             helped == Room(HelpLengths)
  <2>1. /\ pc' = "idle" /\ UNCHANGED eeprom
        /\ reply' = CASE request.call = "dump" -> [Reply("text") EXCEPT !.top = dumped]
                      [] request.call = "help" /\ Len(request.args) = 1 ->
                           [Reply("text") EXCEPT !.top = helped]
                      [] request.call = "quit" -> Reply("close")
                      [] request.call = "reset" -> Reply("none")
                      [] OTHER -> Reply("text")
    BY <1>3 DEF Other, Answered
  <2>2. helped <= ReplySize /\ 0 <= ReplySize BY HelpFits, RoomIsNat
  <2>3. Narrow => dumped <= ReplySize BY DumpFits
  <2> HIDE DEF dumped, helped
  <2>4. \/ reply' = [Reply("text") EXCEPT !.top = dumped]
        \/ reply' = [Reply("text") EXCEPT !.top = helped]
        \/ \E kind : reply' = Reply(kind)
    BY <2>1
  <2>5. reply'.top \in {dumped, helped, 0} BY <2>4 DEF Reply
  <2>6. Narrow => reply'.top <= ReplySize BY <2>2, <2>3, <2>5
  <2>7. Fits' BY <2>1, <2>6 DEF Fits, Narrow
  <2>8. Quiet' BY <2>1 DEF Quiet
  <2> QED BY <2>7, <2>8 DEF FitInv
<1>4. CASE WriteOctet
  <2>1. pc = "write" /\ UNCHANGED reply BY <1>4 DEF WriteOctet
  <2>2. reply'.top = 0 BY <2>1 DEF FitInv, Quiet
  <2> QED BY <2>2, NothingSaid
<1>5. CASE Return
  <2> DEFINE told == IF writes = <<>> THEN <<0, 0>>
                     ELSE [i \in DOMAIN writes |-> Number(eeprom[writes[i].place])]
  <2>1. reply' = [Reply("set") EXCEPT !.numbers = told] BY <1>5 DEF Return
  <2> HIDE DEF told
  <2>2. reply'.top = 0 BY <2>1 DEF Reply
  <2> QED BY <2>2, NothingSaid
<1>6. CASE PowerCut
  <2>1. reply'.top = 0 BY <1>6 DEF PowerCut, Reply
  <2> QED BY <2>1, NothingSaid
<1>7. CASE application_content
  <2>1. CASE \E request \in IF Nothing THEN Unusual ELSE Usual :
               Silence(request) \/ UnknownCommand(request) \/ Insufficient(request)
               \/ Write(request) \/ Other(request)
    <3>1. \E request \in Unusual :
               Silence(request) \/ UnknownCommand(request) \/ Insufficient(request)
               \/ Write(request) \/ Other(request)
      BY <2>1, UsualIsUnusual
    <3> QED BY <3>1, <1>2, <1>3, NothingSaid
  <2> QED BY <1>4, <1>5, <1>7, <2>1 DEF application_content
<1> QED BY <1>1, <1>6, <1>7 DEF Next

(* The lines of dump and help stay within the reply while no number of the   *)
(* EEPROM is torn or wider than Widest, whatever it was before and whatever  *)
(* clients send: of any table and any layout whose lines but the last have   *)
(* room for such numbers (application.c:277-344).                            *)
THEOREM RepliesFit == Spec => []Fits
<1>1. Init => FitInv
  <2> SUFFICES ASSUME Init PROVE FitInv OBVIOUS
  <2>1. reply.top = 0 BY DEF Init, Reply
  <2> QED BY <2>1, RoomIsNat DEF FitInv, Fits, Quiet
<1>2. FitInv /\ [Next]_vars => FitInv' BY FitInvStays
<1>3. FitInv => Fits BY DEF FitInv
<1> QED BY <1>1, <1>2, <1>3, PTL DEF Spec
===============================================================================
