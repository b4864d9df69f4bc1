-------------------------------- MODULE Printf --------------------------------
(***************************************************************************)
(* The formatting of printf in kernel/src/libc/stdio/printf.c and of       *)
(* putnumber: the format is scanned one character a step, and what is put  *)
(* goes to "out"; Terminal gives it to putchar.  The number that printf    *)
(* returns, which no caller looks at, is left out.                         *)
(*                                                                         *)
(* A character is a string.  An argument is a machine word of LongBits, of *)
(* which a conversion without "l" takes the low IntBits; the word is also  *)
(* the address of a text and the code of a character.                      *)
(***************************************************************************)
EXTENDS Strings

CONSTANTS IntBits,             (* 32                                       *)
          Words,               (* the arguments                            *)
          Calls,               (* the calls: <<format, arguments>>         *)
          CharOf, TextAt,      (* the character and the text of a word     *)
          Characters

Null == <<"(", "n", "u", "l", "l", ")">>

ASSUME PrintfAssumption ==
  /\ IntBits \in 1 .. LongBits
  /\ Words \subseteq 0 .. WORD - 1
  /\ Calls \subseteq Seq(Characters) \X Seq(Words)
  /\ CharOf \in [Words -> Characters] /\ TextAt \in [Words -> Seq(Characters)]
  /\ Range(DigitChars) \cup Range(Null) \cup {"-", "x", "%", "NUL"} \subseteq Characters

Conversions == {"d", "u", "x", "o", "p", "c", "s"}

(* Where a conversion may take an argument: behind a percent and flags.    *)
Takers(fmt) ==
  {k \in DOMAIN fmt :
     /\ fmt[k] \in Conversions
     /\ \E n \in 1 .. k - 1 :
          fmt[n] = "%" /\ \A j \in n + 1 .. k - 1 : fmt[j] \in {"l", "#"}}

(* Every call in the kernel passes an argument for each.                   *)
ASSUME ArgumentsAssumption ==
  \A call \in Calls : Cardinality(Takers(call[1])) <= Len(call[2])

VARIABLES format, args,        (* the call                                 *)
          f, a,                (* the next character and argument          *)
          is_long, is_alt,
          pc,                  (* idle, in the text, in a directive, done  *)
          out                  (* what putchar has been given              *)

printfVars == <<format, args, f, a, is_long, is_alt, pc, out>>

-----------------------------------------------------------------------------
Negative(num) == num >= WORD \div 2

(* The negation of the smallest int64_t wraps around, as the build does.   *)
putnumber(num, base, is_signed) ==
  IF is_signed /\ Negative(num)
  THEN <<"-">> \o itoa((WORD - num) % WORD, base)
  ELSE itoa(num, base)

(* va_arg of the type that the flags choose, converted without its sign.   *)
Taken == IF is_long THEN args[a] ELSE args[a] % Power(2, IntBits)

-----------------------------------------------------------------------------
PrintfInit ==
  /\ format = <<>> /\ args = <<>>
  /\ f = 1 /\ a = 1
  /\ is_long = FALSE /\ is_alt = FALSE
  /\ pc = "idle"
  /\ out = <<>>

enter(c) ==
  /\ pc \in {"idle", "returned"}
  /\ format' = c[1] /\ args' = c[2]
  /\ f' = 1 /\ a' = 1
  /\ is_long' = FALSE /\ is_alt' = FALSE
  /\ pc' = "text"
  /\ out' = <<>>

At(where, c) == pc = where /\ f <= Len(format) /\ format[f] = c

Puts(text) == out' = out \o text /\ f' = f + 1

literal ==
  /\ pc = "text" /\ f <= Len(format) /\ format[f] # "%"
  /\ Puts(<<format[f]>>)
  /\ UNCHANGED <<format, args, a, is_long, is_alt, pc>>

(* Mutant: the flags of the directive before are kept.                     *)
percent_KeepFlags ==
  /\ At("text", "%")
  /\ f' = f + 1 /\ pc' = "directive"
  /\ UNCHANGED <<format, args, a, is_long, is_alt, out>>

percent ==
  /\ At("text", "%")
  /\ f' = f + 1 /\ pc' = "directive"
  /\ is_long' = FALSE /\ is_alt' = FALSE
  /\ UNCHANGED <<format, args, a, out>>

flag ==
  /\ \/ At("directive", "l") /\ is_long' = TRUE /\ UNCHANGED is_alt
     \/ At("directive", "#") /\ is_alt' = TRUE /\ UNCHANGED is_long
  /\ f' = f + 1
  /\ UNCHANGED <<format, args, a, pc, out>>

(* The rest of a conversion that takes an argument and puts a text for it. *)
Converts(text) ==
  /\ Puts(text)
  /\ a' = a + 1
  /\ pc' = "text"
  /\ UNCHANGED <<format, args, is_long, is_alt>>

Prefix(text) == IF is_alt THEN text ELSE <<>>

(* "d" stands for "i" too.                                                 *)
convert ==
  \/ At("directive", "d") /\ Converts(putnumber(Taken, 10, TRUE))
  \/ At("directive", "u") /\ Converts(putnumber(Taken, 10, FALSE))
  \/ At("directive", "x") /\ Converts(Prefix(<<"0", "x">>) \o putnumber(Taken, 16, FALSE))
  \/ At("directive", "o") /\ Converts(Prefix(<<"0">>) \o putnumber(Taken, 8, FALSE))
  \/ At("directive", "p") /\ Converts(<<"0", "x">> \o putnumber(args[a], 16, FALSE))
  \/ At("directive", "c") /\ Converts(<<CharOf[args[a]]>>)
  \/ /\ At("directive", "s")
     /\ Converts(IF args[a] = 0 THEN Null ELSE TextAt[args[a]])

other ==
  /\ pc = "directive" /\ f <= Len(format)
  /\ format[f] \notin Conversions \cup {"l", "#"}
  /\ Puts(IF format[f] = "%" THEN <<"%">> ELSE <<"%", format[f]>>)
  /\ pc' = "text"
  /\ UNCHANGED <<format, args, a, is_long, is_alt>>

(* The end of the format inside a directive counts as an unknown character,*)
(* and the scan goes on behind it, in memory that is not the format's.     *)
overrun ==
  /\ pc = "directive" /\ f > Len(format)
  /\ Puts(<<"%", "NUL">>)
  /\ pc' = "overrun"
  /\ UNCHANGED <<format, args, a, is_long, is_alt>>

return ==
  /\ pc = "text" /\ f > Len(format)
  /\ pc' = "returned"
  /\ UNCHANGED <<format, args, f, a, is_long, is_alt, out>>

printf == literal \/ percent \/ flag \/ convert \/ other \/ overrun \/ return

-----------------------------------------------------------------------------
(* The scan stays inside the format until it is found to end too early, and*)
(* never takes an argument that was not passed.                            *)
PrintfTypeOK ==
  /\ pc = "idle" \/ <<format, args>> \in Calls
  /\ f \in 1 .. Len(format) + (IF pc = "overrun" THEN 2 ELSE 1)
  /\ a \in 1 .. Len(args) + 1
  /\ is_long \in BOOLEAN /\ is_alt \in BOOLEAN
  /\ pc \in {"idle", "text", "directive", "returned", "overrun"}
  /\ out \in Seq(Characters)

-----------------------------------------------------------------------------
(* What a format means, without the scan.                                  *)

(* The numeral of v: as few digits as it needs, each from its place.       *)
Numeral(v, base) ==
  LET n == CHOOSE n \in 1 .. LongBits :
             Power(base, n) > v /\ (n = 1 \/ Power(base, n - 1) <= v)
  IN  [k \in 1 .. n |-> DigitChars[((v \div Power(base, n - k)) % base) + 1]]

SignedNumeral(v, bits) ==
  IF v < Power(2, bits - 1) THEN Numeral(v, 10)
  ELSE <<"-">> \o Numeral(Power(2, bits) - v, 10)

(* The conversion character of the directive at n, behind its flags.       *)
EndOf(fmt, n) ==
  LET ends == {k \in n + 1 .. Len(fmt) : fmt[k] \notin {"l", "#"}}
  IN  IF ends = {} THEN 0 ELSE CHOOSE k \in ends : \A j \in ends : k <= j

Meaning(c, flags, word) ==
  LET bits == IF "l" \in flags THEN LongBits ELSE IntBits
      v == word % Power(2, bits)
  IN  CASE c = "d" -> SignedNumeral(v, bits)
        [] c = "u" -> Numeral(v, 10)
        [] c = "x" -> IF "#" \in flags THEN <<"0", "x">> \o Numeral(v, 16) ELSE Numeral(v, 16)
        [] c = "o" -> IF "#" \in flags THEN <<"0">> \o Numeral(v, 8) ELSE Numeral(v, 8)
        [] c = "p" -> <<"0", "x">> \o Numeral(word, 16)
        [] c = "c" -> <<CharOf[word]>>
        [] c = "s" -> IF word = 0 THEN Null ELSE TextAt[word]

(* From each character and argument on, with what follows it.              *)
Meant(fmt, words) ==
  LET from[at \in (1 .. Len(fmt) + 1) \X (1 .. Len(words) + 1)] ==
        LET n == at[1]
            m == at[2]
            e == EndOf(fmt, n)
        IN  IF n > Len(fmt) THEN <<>>
            ELSE IF fmt[n] # "%" THEN <<fmt[n]>> \o from[<<n + 1, m>>]
            ELSE CASE e = 0 -> <<>>
                   [] e # 0 /\ fmt[e] \in Conversions ->
                        IF m > Len(words) THEN <<>>
                        ELSE Meaning(fmt[e], {fmt[k] : k \in n + 1 .. e - 1}, words[m])
                               \o from[<<e + 1, m + 1>>]
                   [] e # 0 /\ fmt[e] = "%" -> <<"%">> \o from[<<e + 1, m>>]
                   [] OTHER -> <<"%", fmt[e]>> \o from[<<e + 1, m>>]
  IN  from[<<1, 1>>]

(* Negative arguments of "%d": putnumber never sees the sign of an int,    *)
(* which was converted to uint32_t.  No caller passes one.                 *)
NegativeInt ==
  /\ "d" \in Range(format)
  /\ \E m \in DOMAIN args : args[m] % Power(2, IntBits) >= Power(2, IntBits - 1)

(* printf puts what the format means, each directive with its own flags and*)
(* its own argument and each number in its shortest numeral, and runs past *)
(* the format only when that ends inside a directive.                      *)
PrintsAsMeant ==
  /\ pc = "returned" /\ ~NegativeInt => out = Meant(format, args)
  /\ pc = "overrun" => \E n \in DOMAIN format : format[n] = "%" /\ EndOf(format, n) = 0
=============================================================================
