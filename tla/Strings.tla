------------------------------- MODULE Strings -------------------------------
(***************************************************************************)
(* kernel/src/libc/string/ and the copies and the brand string of          *)
(* simd/simd.c, as operators.                                              *)
(*                                                                         *)
(* Memory is a sequence of bytes, their addresses start at 1; NULL is 0,   *)
(* and so is the byte that ends a text.  A function that returns its       *)
(* destination is here the memory it leaves.  A loop is a function from    *)
(* the number of rounds done to what they leave; it ends at the first      *)
(* round its condition fails.                                              *)
(***************************************************************************)
EXTENDS Integers, Sequences, SequencesExt

CONSTANTS LongBits,      (* 64                                             *)
          Chunk,         (* the bytes of a vector register, 16             *)
          Space,         (* the code of a space, 32                        *)
          Buffer,        (* to be checked on: a memory of different bytes, *)
          Texts          (* and memories with texts                        *)

ASSUME StringsAssumption ==
  /\ {LongBits, Chunk} \subseteq Nat \ {0} /\ Space \in 1 .. 255
  /\ Texts \cup {Buffer} \subseteq Seq(0 .. 255)

(* A recursive function, as the prover knows nothing of ^.                 *)
Power(base, n) ==
  LET power[k \in 0 .. n] == IF k = 0 THEN 1 ELSE base * power[k - 1]
  IN  power[n]

WORD == Power(2, LongBits)

(* The rounds, at most max, of a loop that ends when Ends first holds.      *)
First(max, Ends(_)) ==
  CHOOSE k \in 0 .. max : Ends(k) /\ \A j \in 0 .. k - 1 : ~Ends(j)

Size(m) == Cardinality(DOMAIN m)

-----------------------------------------------------------------------------
(* itoa.c: the digits from the lowest on, then reversed in place.          *)
DigitChars == <<"0", "1", "2", "3", "4", "5", "6", "7",
                "8", "9", "a", "b", "c", "d", "e", "f">>

Digits(base) ==
  LET low[v \in 0 .. WORD - 1] ==
        IF v = 0 THEN <<>> ELSE <<DigitChars[(v % base) + 1]>> \o low[v \div base]
  IN  low

itoa(value, base) ==
  IF base \notin 2 .. 16 THEN <<>>
  ELSE IF value = 0 THEN <<"0">> ELSE Reverse(Digits(base)[value])

-----------------------------------------------------------------------------
(* The byte loops.                                                         *)

Ascending(m, d, s, n) ==
  LET after[k \in 0 .. n] ==
        IF k = 0 THEN m
        ELSE [after[k - 1] EXCEPT ![d + k - 1] = after[k - 1][s + k - 1]]
  IN  after[n]

Descending(m, d, s, n) ==
  LET after[k \in 0 .. n] ==
        IF k = n THEN m
        ELSE [after[k + 1] EXCEPT ![d + k] = after[k + 1][s + k]]
  IN  after[0]

Fill(m, d, c, n) ==
  LET after[k \in 0 .. n] ==
        IF k = 0 THEN m ELSE [after[k - 1] EXCEPT ![d + k - 1] = c]
  IN  after[n]

memcpy(m, d, s, n) == Ascending(m, d, s, n)

(* Mutant: one direction for both orders.                                  *)
memmove_Forward(m, d, s, n) == Ascending(m, d, s, n)

memmove(m, d, s, n) ==
  IF s > d THEN Ascending(m, d, s, n)
  ELSE IF s < d THEN Descending(m, d, s, n) ELSE m

memset(m, d, c, n) == Fill(m, d, c % 256, n)

memcmp(m, p, q, n) ==
  LET k == First(n, LAMBDA j : j = n \/ m[p + j] # m[q + j])
  IN  IF k = n THEN 0 ELSE IF m[p + k] < m[q + k] THEN -1 ELSE 1

strlen(m, s) == First(Size(m), LAMBDA j : m[s + j] = 0)

CopyText(m, d, s) ==
  LET n == First(Size(m), LAMBDA j : Ascending(m, d, s, j)[s + j] = 0)
  IN  [Ascending(m, d, s, n) EXCEPT ![d + n] = 0]

strcpy(m, d, s) == IF d = 0 \/ s = 0 THEN m ELSE CopyText(m, d, s)

strcat(m, d, s) == CopyText(m, d + strlen(m, d), s)

strncpy(m, d, s, n) ==
  LET i == First(n, LAMBDA j : j >= n \/ Ascending(m, d, s, j)[s + j] = 0)
  IN  IF d = 0 \/ s = 0 THEN m ELSE Fill(Ascending(m, d, s, i), d + i, 0, n - i)

strcmp(m, p, q) ==
  LET k == First(Size(m), LAMBDA j : m[p + j] = 0 \/ m[p + j] # m[q + j])
  IN  m[p + k] - m[q + k]

(* The counter runs out, or two characters differ, or both end the texts.  *)
strncmp(m, p, q, n) ==
  LET k == First(n, LAMBDA j : j = n \/ m[p + j] # m[q + j] \/ m[p + j] = 0)
  IN  IF k = n THEN 0 ELSE m[p + k] - m[q + k]

-----------------------------------------------------------------------------
(* simd.c: bytes up to an aligned destination, whole registers, bytes.     *)

movdqu(m, d, s) ==
  [x \in DOMAIN m |-> IF x \in d .. d + Chunk - 1 THEN m[s + x - d] ELSE m[x]]

Chunks(m, d, s, n) ==
  LET after[k \in 0 .. n] ==
        IF k = 0 THEN m
        ELSE movdqu(after[k - 1], d + (k - 1) * Chunk, s + (k - 1) * Chunk)
  IN  after[n]

UpToAligned(d, n) == First(n, LAMBDA j : j = n \/ (d + j) % Chunk = 0)

memcpy_simd(m, d, s, n) ==
  LET head == UpToAligned(d, n)
      whole == ((n - head) \div Chunk) * Chunk
      chunks == Chunks(Ascending(m, d, s, head), d + head, s + head, whole \div Chunk)
  IN  IF n < 2 * Chunk THEN Ascending(m, d, s, n)
      ELSE Ascending(chunks, d + head + whole, s + head + whole, (n - head) % Chunk)

(* A register of the pattern stored is Chunk bytes of it.                  *)
memset_simd(m, d, c, n) ==
  LET head == UpToAligned(d, n)
      whole == ((n - head) \div Chunk) * Chunk
      chunks == Fill(Fill(m, d, c % 256, head), d + head, c % 256, whole)
  IN  IF n < 2 * Chunk THEN Fill(m, d, c % 256, n)
      ELSE Fill(chunks, d + head + whole, c % 256, (n - head) % Chunk)

(* The end of get_cpu_brand_string: spaces are squeezed in place.          *)
Squeezed(m, brand) ==
  LET after[k \in 0 .. Size(m)] ==
        IF k = 0 THEN [mem |-> m, dst |-> brand, prev_space |-> FALSE]
        ELSE LET w == after[k - 1]
                 c == w.mem[brand + k - 1]
             IN  IF c = Space /\ (w.prev_space \/ w.dst = brand)
                 THEN [w EXCEPT !.prev_space = TRUE]
                 ELSE [mem |-> [w.mem EXCEPT ![w.dst] = c],
                       dst |-> w.dst + 1,
                       prev_space |-> (c = Space)]
      end == after[First(Size(m), LAMBDA j : after[j].mem[brand + j] = 0)]
  IN  [end.mem EXCEPT ![end.dst] = 0]

-----------------------------------------------------------------------------
(* What the functions are for, without their loops.                        *)

Bytes(m, s, n) == [k \in 1 .. n |-> m[s + k - 1]]

(* The text at s, and whether one ends inside the memory.                  *)
Ended(m, s) == \E x \in DOMAIN m : x >= s /\ m[x] = 0
Text(m, s) ==
  Bytes(m, s, (CHOOSE x \in DOMAIN m :
                 x >= s /\ m[x] = 0 /\ \A y \in s .. x - 1 : m[y] # 0) - s)

Put(m, d, bytes) ==
  [x \in DOMAIN m |-> IF x \in d .. d + Len(bytes) - 1 THEN bytes[x - d + 1] ELSE m[x]]

Apart(d, s, n) == d + n <= s \/ s + n <= d

(* x comes before y in a dictionary.                                       *)
Before(x, y) ==
  \E k \in 1 .. Len(y) :
    /\ Len(x) >= k - 1
    /\ \A j \in 1 .. k - 1 : x[j] = y[j]
    /\ Len(x) = k - 1 \/ x[k] < y[k]

Orders(result, x, y) == (result < 0 <=> Before(x, y)) /\ (result = 0 <=> x = y)

Cut(text, n) == SubSeq(text, 1, IF Len(text) < n THEN Len(text) ELSE n)

(* The copies move n bytes and change nothing else, whichever way the two  *)
(* ranges overlap (memmove) or wherever the destination lies with respect  *)
(* to the vector registers (simd.c, on ranges that are apart).             *)
CopiesExact ==
  \A d, s \in DOMAIN Buffer, n \in 0 .. Size(Buffer) :
    d + n - 1 \in {0} \cup DOMAIN Buffer /\ s + n - 1 \in {0} \cup DOMAIN Buffer =>
      LET moved == Put(Buffer, d, Bytes(Buffer, s, n))
          filled == Put(Buffer, d, [k \in 1 .. n |-> Space])
      IN  /\ memmove(Buffer, d, s, n) = moved
          /\ Apart(d, s, n) => /\ memcpy(Buffer, d, s, n) = moved
                               /\ memcpy_simd(Buffer, d, s, n) = moved
          /\ memset(Buffer, d, Space + 256, n) = filled
          /\ memset_simd(Buffer, d, Space + 256, n) = filled

(* The comparisons agree with the dictionary, also where one text ends     *)
(* inside the other.                                                       *)
ComparisonsOrder ==
  \A m \in Texts : \A p, q \in {x \in DOMAIN m : Ended(m, x)} :
    /\ strlen(m, p) = Len(Text(m, p))
    /\ Orders(strcmp(m, p, q), Text(m, p), Text(m, q))
    /\ \A n \in 0 .. Size(m) :
         /\ Orders(strncmp(m, p, q, n), Cut(Text(m, p), n), Cut(Text(m, q), n))
         /\ p + n - 1 \in {0} \cup DOMAIN m /\ q + n - 1 \in {0} \cup DOMAIN m =>
              Orders(memcmp(m, p, q, n), Bytes(m, p, n), Bytes(m, q, n))

(* The text functions on texts that are apart; strncpy does not end a text *)
(* that is n long, and fills the rest of n with zeros.                     *)
TextsCopied ==
  \A m \in Texts : \A d, s \in DOMAIN m :
    Ended(m, s) =>
      LET text == Text(m, s)
          last == Size(m)
          padded(n) == [k \in 1 .. n |-> IF k <= Len(text) THEN text[k] ELSE 0]
          catenated == Text(m, d) \o text
      IN  /\ Apart(d, s, Len(text) + 1) /\ d + Len(text) <= last =>
               strcpy(m, d, s) = Put(m, d, Append(text, 0))
          /\ \A n \in 0 .. last :
               Apart(d, s, n) /\ d + n - 1 <= last =>
                 strncpy(m, d, s, n) = Put(m, d, padded(n))
          /\ Ended(m, d) /\ (s + Len(text) < d \/ d + Len(catenated) < s)
               /\ d + Len(catenated) <= last
             => strcat(m, d, s) = Put(m, d, Append(catenated, 0))

(* The brand string keeps its other characters in their order, has no space*)
(* in front and never two side by side.                                    *)
BrandSqueezed ==
  \A m \in Texts : \A p \in {x \in DOMAIN m : Ended(m, x)} :
    LET text == Text(m, p)
        kept == {k \in DOMAIN text : text[k] # Space \/ (k > 1 /\ text[k - 1] # Space)}
        left == Text(Squeezed(m, p), p)
    IN  /\ Len(left) = Cardinality(kept)
        /\ \A k \in kept : left[Cardinality(kept \cap (1 .. k))] = text[k]

StringsExact ==
  CopiesExact /\ ComparisonsOrder /\ TextsCopied /\ BrandSqueezed
=============================================================================
