------------------------------ MODULE MCTerminal ------------------------------
(* The first call has a format of up to two pieces: each conversion with   *)
(* the flags that matter to it, plain characters, an unknown one, and      *)
(* unfinished directives.  The later ones put one character each.          *)
EXTENDS Terminal

Pieces ==
  {<<"h">>, <<"%", "%">>, <<"%", "d">>, <<"%", "l", "d">>, <<"%", "u">>, <<"%", "l", "u">>,
   <<"%", "x">>, <<"%", "#", "x">>, <<"%", "#", "l", "x">>, <<"%", "l", "#", "x">>,
   <<"%", "o">>, <<"%", "#", "o">>, <<"%", "l", "o">>, <<"%", "p">>, <<"%", "c">>,
   <<"%", "s">>, <<"%", "z">>, <<"%">>, <<"%", "l">>}

SomeFormats == {<<>>} \cup Pieces \cup {p \o q : p, q \in Pieces}

(* Of 5 bits with ints of 4: zero, a small number, the smallest long, whose*)
(* low bits are 0, a negative long with a positive int, and a negative int.*)
SomeWords == {0, 7, 16, 21, 27}

TwoWords == [1 .. 2 -> SomeWords]

SomeChars == [w \in SomeWords |-> IF w % 2 = 0 THEN "A" ELSE "%"]

OneCharacter == {<<"h">>, <<"\n">>, <<"\r">>, <<"\t">>, <<"BS">>}

SomeLaterCalls == OneCharacter \X {<<7, 7>>}

SomeCalls == (SomeFormats \X TwoWords) \cup SomeLaterCalls

SomeCharacters ==
  Range(DigitChars) \cup Range(Null) \cup
    {"-", "x", "%", "NUL", "h", "l", "#", "o", "p", "s", "z", "A", "\n", "\r", "\t", "BS"}

SomeTexts == [w \in SomeWords |-> IF w % 2 = 0 THEN <<>> ELSE <<"%", "d">>]

(* The byte 3 is the space.  In a buffer of 20 bytes up to 10 are copied   *)
(* between ranges that are apart, more than two vector registers of 4: with*)
(* every head up to alignment, one register or two, and every tail.        *)
CheckBuffer == [x \in 1 .. 20 |-> 100 + x]

CheckTexts == [1 .. 6 -> {0, 1, 3}]
=============================================================================
