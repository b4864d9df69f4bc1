----------------------------- MODULE SerialProofs -----------------------------
(* What is proved of Serial, for any writers and texts.                    *)
EXTENDS Serial, TLAPS, FiniteSetTheorems, SequenceTheorems

-----------------------------------------------------------------------------
(* The inductive invariant.                                                *)

(* Nothing has happened before the port is initialised.                    *)
Untouched ==
  ~is_initialized =>
    /\ taken = <<>> /\ onLine = 0
    /\ \A w \in Writers : at[w] = 0 /\ pc[w] = "idle"

(* A writer inside serial_putc has a byte to put, which is not an "S".     *)
InsidePutc ==
  \A w \in Writers : pc[w] # "idle" =>
    IsByte(w, ByteAfter(w, at[w])) /\ ~Raw(w, ByteAfter(w, at[w]))

(* What is in the FIFO: the last byte of a writer, or the one before the   *)
(* "S" it has put without waiting; and nothing of a writer that has found  *)
(* the port ready.                                                         *)
InFifo(i) ==
  LET w == taken[i][1]
      b == taken[i][2]
  IN  /\ pc[w] # "out"
      /\ b = at[w] \/ (b = at[w] - 2 /\ Raw(w, at[w]))

Queued == \A i \in onLine + 1 .. Len(taken) : InFifo(i)

IInv == TypeOK /\ NothingLost /\ Untouched /\ InsidePutc /\ Queued

-----------------------------------------------------------------------------
(* The bytes of a text.                                                    *)

Place(w, b) == b \in Nat /\ (b = 0 \/ IsByte(w, b))

(* A text has a length.                                                    *)
LEMMA TextLength == \A w \in Writers : Len(Text[w]) \in Nat
  BY SerialAssumption, LenProperties

(* ByteAfter goes to the next byte, and there is one before the end.       *)
LEMMA NextByte ==
  ASSUME NEW w \in Writers, NEW b, Place(w, b)
  PROVE  /\ ByteAfter(w, b) \in Nat /\ ByteAfter(w, b) > b
         /\ \A c \in Nat : IsByte(w, c) /\ c <= ByteAfter(w, b) =>
                             c <= b \/ c = ByteAfter(w, b)
         /\ b # 2 * Len(Text[w]) => IsByte(w, ByteAfter(w, b))
<1>1. Len(Text[w]) \in Nat
  BY TextLength
<1>2. ByteAfter(w, b) \in Nat /\ ByteAfter(w, b) > b
  BY DEF ByteAfter, Place
<1>3. \A c \in Nat : IsByte(w, c) /\ c <= ByteAfter(w, b) => c <= b \/ c = ByteAfter(w, b)
  <2> TAKE c \in Nat
  <2>1. b \in Nat
    BY DEF Place
  <2>2. CASE IsByte(w, b + 1)
    BY <2>1, <2>2 DEF ByteAfter
  <2>3. CASE ~IsByte(w, b + 1)
    <3>1. IsByte(w, c) => c # b + 1
      BY <2>3
    <3> QED BY <2>1, <2>3, <3>1 DEF ByteAfter
  <2> QED BY <2>2, <2>3
<1>4. ASSUME b # 2 * Len(Text[w])
      PROVE  IsByte(w, ByteAfter(w, b))
  <2>1. CASE IsByte(w, b + 1)
    BY <2>1 DEF ByteAfter
  <2>2. CASE ~IsByte(w, b + 1)
    <3>1. ByteAfter(w, b) = b + 2
      BY <2>2 DEF ByteAfter
    <3>2. PICK k \in 0 .. Len(Text[w]) : b = 2 * k
      <4>1. CASE b = 0
        BY <1>1, <4>1
      <4>2. CASE \E k \in 1 .. Len(Text[w]) : b = 2 * k
        BY <1>1, <4>2
      <4>3. CASE CarriageReturn(w, b)
        <5>1. PICK k \in 1 .. Len(Text[w]) : b = 2 * k - 1
          BY <4>3 DEF CarriageReturn
        <5>2. b + 1 = 2 * k
          BY <1>1, <5>1
        <5> QED BY <2>2, <5>2 DEF IsByte
      <4> QED BY <4>1, <4>2, <4>3 DEF Place, IsByte
    <3>3. k + 1 \in 1 .. Len(Text[w]) /\ b + 2 = 2 * (k + 1)
      BY <1>1, <1>4, <3>2
    <3> QED BY <3>1, <3>3 DEF IsByte
  <2> QED BY <2>1, <2>2
<1> QED BY <1>2, <1>3, <1>4

(* An "S" is the boot processor's and follows a byte that is none.         *)
LEMMA BeforeRaw ==
  ASSUME NEW w \in Writers, NEW b, Place(w, b), Raw(w, ByteAfter(w, b))
  PROVE  /\ ByteAfter(w, b) = b + 2 /\ ~Raw(w, b) /\ b > 0
         /\ ~CarriageReturn(w, ByteAfter(w, b)) /\ IsByte(w, ByteAfter(w, b))
<1>1. Len(Text[w]) \in Nat
  BY TextLength
<1>2. PICK k \in 1 .. Len(Text[w]) : Text[w][k] = SWITCH /\ ByteAfter(w, b) = 2 * k
  BY DEF Raw
<1>3. k \in Nat /\ k > 1 /\ Text[w][k - 1] # SWITCH
  BY <1>1, <1>2, SerialAssumption
<1>4. b \in Nat
  BY DEF Place
<1>5. b # 2 * k - 1
  <2> SUFFICES ASSUME b = 2 * k - 1 PROVE FALSE
    OBVIOUS
  <2>1. b # 0 /\ \A j \in 1 .. Len(Text[w]) : b # 2 * j
    BY <1>1, <1>3
  <2>2. PICK j \in 1 .. Len(Text[w]) : Text[w][j] = "\n" /\ b = 2 * j - 1
    BY <2>1 DEF Place, IsByte, CarriageReturn
  <2>3. j = k
    BY <1>1, <1>3, <2>2
  <2> QED BY <1>2, <2>2, <2>3 DEF SWITCH
<1>6. ByteAfter(w, b) = b + 2 /\ b = 2 * (k - 1)
  BY <1>2, <1>3, <1>4, <1>5 DEF ByteAfter
<1>7. ~Raw(w, b)
  <2> SUFFICES ASSUME NEW j \in 1 .. Len(Text[w]), Text[w][j] = SWITCH, b = 2 * j
               PROVE  FALSE
    BY DEF Raw
  <2>1. j = k - 1
    BY <1>1, <1>3, <1>6
  <2> QED BY <1>3, <2>1
<1>8. ~CarriageReturn(w, ByteAfter(w, b))
  <2> SUFFICES ASSUME NEW j \in 1 .. Len(Text[w]), 2 * k = 2 * j - 1
               PROVE  FALSE
    BY <1>2 DEF CarriageReturn
  <2> QED BY <1>1, <1>3
<1> QED BY <1>2, <1>3, <1>6, <1>7, <1>8 DEF IsByte

(* After the carriage return comes its newline.                            *)
LEMMA AfterReturn ==
  ASSUME NEW w \in Writers, NEW b \in Nat, CarriageReturn(w, b)
  PROVE  IsByte(w, ByteAfter(w, b)) /\ ~Raw(w, ByteAfter(w, b))
<1>1. Len(Text[w]) \in Nat
  BY TextLength
<1>2. PICK k \in 1 .. Len(Text[w]) : Text[w][k] = "\n" /\ b = 2 * k - 1
  BY DEF CarriageReturn
<1>3. b + 1 = 2 * k
  BY <1>1, <1>2
<1>4. IsByte(w, b + 1)
  BY <1>3 DEF IsByte
<1>5. ~Raw(w, b + 1)
  <2> SUFFICES ASSUME NEW j \in 1 .. Len(Text[w]), Text[w][j] = SWITCH, b + 1 = 2 * j
               PROVE  FALSE
    BY DEF Raw
  <2>1. j = k
    BY <1>1, <1>3
  <2> QED BY <1>2, <2>1 DEF SWITCH
<1> QED BY <1>4, <1>5 DEF ByteAfter

-----------------------------------------------------------------------------
(* The room in the FIFO.                                                   *)

(* What is in the FIFO are writers' bytes.                                 *)
LEMMA EntryType ==
  ASSUME TypeOK
  PROVE  \A i \in onLine + 1 .. Len(taken) :
           i \in 1 .. Len(taken) /\ taken[i] \in Writers \X Nat /\ taken[i][1] \in Writers
<1> TAKE i \in onLine + 1 .. Len(taken)
<1>1. i \in 1 .. Len(taken)
  BY DEF TypeOK
<1>2. taken[i] \in Writers \X Nat
  BY <1>1, ElementOfSeq DEF TypeOK
<1> QED BY <1>1, <1>2

(* There are no more entries than writers that may have one, and one more  *)
(* when one of them has put an "S": each entry goes to its writer, but the *)
(* one before an "S" to a value that is no writer.                         *)
LEMMA Entries ==
  ASSUME TypeOK, InOrder, Queued,
         NEW S \in SUBSET Writers, NEW X, X \notin Writers,
         \A i \in onLine + 1 .. Len(taken) : taken[i][1] \in S
  PROVE  /\ Len(taken) - onLine <= Cardinality(S) + 1
         /\ (\A w \in S : ~Raw(w, at[w])) => Len(taken) - onLine <= Cardinality(S)
<1> DEFINE Q == onLine + 1 .. Len(taken)
           T == IF \A w \in S : ~Raw(w, at[w]) THEN S ELSE S \cup {X}
           f == [i \in Q |-> IF taken[i][2] = at[taken[i][1]] THEN taken[i][1] ELSE X]
<1>1. Len(taken) \in Nat /\ onLine \in Nat /\ onLine <= Len(taken)
  BY DEF TypeOK
<1>2. \A i \in Q : /\ i \in 1 .. Len(taken) /\ taken[i][1] \in S /\ taken[i][1] \in Writers
                   /\ taken[i] \in Writers \X Nat /\ at[taken[i][1]] \in Nat
  BY EntryType DEF TypeOK
<1>3. \A i \in Q : taken[i][2] = at[taken[i][1]]
                     \/ (taken[i][2] = at[taken[i][1]] - 2 /\ Raw(taken[i][1], at[taken[i][1]]))
  BY DEF Queued, InFifo
<1>4. \A w \in Writers : Raw(w, at[w]) => w = Boot
  BY SerialAssumption DEF Raw
<1>5. f \in [Q -> T]
  BY <1>2, <1>3
<1>6. \A i, j \in Q : i < j => f[i] # f[j]
  <2> SUFFICES ASSUME NEW i \in Q, NEW j \in Q, i < j, f[i] = f[j]
               PROVE  FALSE
    OBVIOUS
  <2>1. taken[i][1] = taken[j][1] /\ taken[i][2] = taken[j][2]
    <3>1. CASE f[i] = X
      <4>1. taken[i][2] # at[taken[i][1]] /\ taken[j][2] # at[taken[j][1]]
        BY <1>2, <3>1
      <4>2. taken[i][1] = Boot /\ taken[j][1] = Boot
        BY <1>2, <1>3, <1>4, <4>1
      <4> QED BY <1>3, <4>1, <4>2
    <3>2. CASE f[i] # X
      BY <1>2, <3>2
    <3> QED BY <3>1, <3>2
  <2>2. taken[i][2] < taken[j][2]
    BY <1>2, <2>1 DEF InOrder
  <2>3. taken[i][2] \in Nat
    BY <1>2
  <2> QED BY <2>1, <2>2, <2>3
<1>7. f \in Injection(Q, T)
  <2>1. \A i, j \in Q : i # j => i < j \/ j < i
    BY <1>1
  <2> QED BY <1>5, <1>6, <2>1 DEF Injection, IsInjective
<1>8. IsFiniteSet(S) /\ Cardinality(S) \in Nat
  BY SerialAssumption, FS_Subset, FS_CardinalityType
<1>9. X \notin S
  OBVIOUS
<1>10. IsFiniteSet(T) /\ Cardinality(T) \in Nat /\ Cardinality(T) <= Cardinality(S) + 1
       /\ ((\A w \in S : ~Raw(w, at[w])) => Cardinality(T) = Cardinality(S))
  <2>1. IsFiniteSet(S \cup {X}) /\ Cardinality(S \cup {X}) = Cardinality(S) + 1
    BY <1>8, <1>9, FS_AddElement
  <2> QED BY <1>8, <2>1
<1>11. Cardinality(Q) <= Cardinality(T)
  BY <1>7, <1>10, FS_Injection
<1>12. Cardinality(Q) = Len(taken) - onLine
  <2>1. onLine + 1 \in Int /\ Len(taken) \in Int
    BY <1>1
  <2>2. Cardinality(onLine + 1 .. Len(taken)) =
          IF onLine + 1 > Len(taken) THEN 0 ELSE Len(taken) - (onLine + 1) + 1
    BY <2>1, FS_Interval
  <2> QED BY <1>1, <2>2
<1> QED BY <1>1, <1>8, <1>10, <1>11, <1>12

(* There is room for a byte of a writer that has none in the FIFO, and for *)
(* the "S" of the boot processor.                                          *)
LEMMA Room ==
  ASSUME IInv, NEW w \in Writers,
         pc[w] = "out" \/ Raw(w, ByteAfter(w, at[w]))
  PROVE  Len(taken) - onLine < Depth
<1>1. PICK X : X \notin Writers
  BY NoSetContainsEverything
<1>2. \A i \in onLine + 1 .. Len(taken) : taken[i][1] \in Writers /\ pc[taken[i][1]] # "out"
  BY EntryType DEF IInv, Queued, InFifo
<1>3. Cardinality(Writers) \in Nat /\ Cardinality(Writers) < Depth /\ Depth \in Nat
  BY SerialAssumption, FS_CardinalityType
<1>4. Len(taken) - onLine \in Int
  BY DEF IInv, TypeOK
<1>5. CASE pc[w] = "out"
  <2> DEFINE S == Writers \ {w}
  <2>1. \A i \in onLine + 1 .. Len(taken) : taken[i][1] \in S
    BY <1>2, <1>5
  <2>2. Cardinality(S) = Cardinality(Writers) - 1
    BY SerialAssumption, FS_RemoveElement
  <2>3. Len(taken) - onLine <= Cardinality(S) + 1
    BY <1>1, <2>1, Entries DEF IInv, NothingLost
  <2> QED BY <1>3, <1>4, <2>2, <2>3
<1>6. CASE Raw(w, ByteAfter(w, at[w]))
  <2>1. w = Boot
    BY <1>6, SerialAssumption DEF Raw
  <2>2. ~Raw(w, at[w])
    BY <1>6, BeforeRaw DEF IInv, TypeOK, Place
  <2>3. \A v \in Writers : ~Raw(v, at[v])
    BY <2>1, <2>2, SerialAssumption DEF Raw
  <2>4. Len(taken) - onLine <= Cardinality(Writers)
    BY <1>1, <1>2, <2>3, Entries DEF IInv, NothingLost
  <2> QED BY <1>3, <1>4, <2>4
<1> QED BY <1>5, <1>6

-----------------------------------------------------------------------------
(* The steps.                                                              *)

(* Before serial_init nothing was put.                                     *)
LEMMA InitIInv == Init => IInv
<1> SUFFICES ASSUME Init PROVE IInv
  OBVIOUS
<1> USE DEF Init
<1>1. taken \in Seq(Writers \X Nat) /\ Len(taken) = 0
  BY DEF Init
<1>2. TypeOK
  <2>1. at \in [Writers -> Nat] /\ pc \in [Writers -> {"idle", "wait", "out"}]
    OBVIOUS
  <2>2. onLine \in 0 .. Len(taken)
    BY <1>1
  <2>3. is_initialized \in BOOLEAN
    OBVIOUS
  <2> QED BY <1>1, <2>1, <2>2, <2>3 DEF TypeOK
<1>3. NothingLost
  BY <1>1 DEF NothingLost, InOrder, AllTaken, NothingMore
<1>4. Untouched /\ InsidePutc /\ Queued
  BY <1>1 DEF Untouched, InsidePutc, Queued
<1> QED BY <1>2, <1>3, <1>4 DEF IInv

(* What outb does to the invariant, for a byte that there is room for.     *)
LEMMA PutByte ==
  ASSUME IInv, NEW w \in Writers,
         Len(taken) - onLine < Depth,
         outb(w, ByteAfter(w, at[w])),
         at' = [at EXCEPT ![w] = ByteAfter(w, at[w])],
         IsByte(w, ByteAfter(w, at[w])),
         UNCHANGED <<is_initialized, onLine>>,
         pc' \in [Writers -> {"idle", "wait", "out"}]
  PROVE  TypeOK' /\ NothingLost' /\ taken' = Append(taken, <<w, ByteAfter(w, at[w])>>)
<1> DEFINE b == ByteAfter(w, at[w])
<1> USE DEF IInv
<1>1. Place(w, at[w]) /\ at[w] \in Nat
  BY DEF TypeOK, Place
<1>2. /\ b \in Nat /\ b > at[w]
      /\ \A c \in Nat : IsByte(w, c) /\ c <= b => c <= at[w] \/ c = b
  BY <1>1, NextByte
<1> HIDE DEF b
<1>3. taken' = Append(taken, <<w, b>>)
  BY DEF outb, b
<1>11. taken \in Seq(Writers \X Nat) /\ taken' \in Seq(Writers \X Nat)
  BY <1>2, <1>3 DEF TypeOK
<1>4. /\ Len(taken) \in Nat /\ Len(taken') = Len(taken) + 1
      /\ taken'[Len(taken) + 1] = <<w, b>>
      /\ \A i \in 1 .. Len(taken) : taken'[i] = taken[i]
  BY <1>2, <1>3 DEF TypeOK
<1>5. \A i \in 1 .. Len(taken) : taken[i] \in Writers \X Nat
  BY <1>11, ElementOfSeq
<1>6. at'[w] = b /\ \A v \in Writers : v # w => at'[v] = at[v]
  BY DEF TypeOK, b
<1>7. TypeOK'
  <2>1. is_initialized' \in BOOLEAN /\ onLine' \in 0 .. Len(taken')
    BY <1>4 DEF TypeOK
  <2>2. at' \in [Writers -> Nat]
    BY <1>2 DEF TypeOK, b
  <2>3. \A v \in Writers : at'[v] = 0 \/ IsByte(v, at'[v])
    BY <1>6 DEF TypeOK, b
  <2>4. \A v \in Writers : (at[v] = 0 \/ IsByte(v, at[v]))'
    BY <2>3 DEF IsByte, CarriageReturn
  <2> QED BY <1>11, <2>1, <2>2, <2>4 DEF TypeOK
<1>8. InOrder'
  <2> SUFFICES ASSUME NEW i \in 1 .. Len(taken'), NEW j \in 1 .. Len(taken'),
                      i < j, taken'[i][1] = taken'[j][1]
               PROVE  taken'[i][2] < taken'[j][2]
    BY DEF InOrder
  <2>1. CASE j <= Len(taken)
    BY <1>4, <2>1 DEF NothingLost, InOrder
  <2>2. CASE j = Len(taken) + 1
    <3>1. i \in 1 .. Len(taken) /\ taken[i][1] = w
      BY <1>4, <2>2
    <3>2. taken[i][2] <= at[w] /\ taken[i][2] \in Nat
      BY <1>5, <3>1 DEF NothingLost, NothingMore
    <3> QED BY <1>1, <1>2, <1>4, <2>2, <3>1, <3>2
  <2> QED BY <1>4, <2>1, <2>2
<1>9. AllTaken'
  <2> SUFFICES ASSUME NEW v \in Writers, NEW c \in 1 .. at'[v], IsByte(v, c)
               PROVE  \E i \in 1 .. Len(taken') : taken'[i] = <<v, c>>
    BY DEF AllTaken, IsByte, CarriageReturn
  <2>1. CASE v = w /\ c = b
    BY <1>4, <2>1
  <2>2. CASE ~(v = w /\ c = b)
    <3>1. c \in 1 .. at[v]
      BY <1>1, <1>2, <1>6, <2>2 DEF TypeOK
    <3>2. PICK i \in 1 .. Len(taken) : taken[i] = <<v, c>>
      BY <3>1 DEF NothingLost, AllTaken
    <3> QED BY <1>4, <3>2
  <2> QED BY <2>1, <2>2
<1>10. NothingMore'
  <2> SUFFICES ASSUME NEW i \in 1 .. Len(taken')
               PROVE  IsByte(taken'[i][1], taken'[i][2]) /\ taken'[i][2] <= at'[taken'[i][1]]
    BY DEF NothingMore, IsByte, CarriageReturn
  <2>1. CASE i = Len(taken) + 1
    BY <1>2, <1>4, <1>6, <2>1 DEF b
  <2>2. CASE i \in 1 .. Len(taken)
    <3>1. IsByte(taken[i][1], taken[i][2]) /\ taken[i][2] <= at[taken[i][1]]
      BY <2>2 DEF NothingLost, NothingMore
    <3>2. taken[i][1] \in Writers /\ taken[i][2] \in Nat
      BY <1>5, <2>2
    <3>3. at[taken[i][1]] \in Nat /\ at'[taken[i][1]] \in Nat
          /\ at[taken[i][1]] <= at'[taken[i][1]]
      BY <1>1, <1>2, <1>6, <3>2 DEF TypeOK
    <3> QED BY <1>4, <2>2, <3>1, <3>2, <3>3
  <2> QED BY <1>4, <2>1, <2>2
<1> QED BY <1>3, <1>7, <1>8, <1>9, <1>10 DEF NothingLost, b

(* What a step that puts no byte keeps.                                    *)
LEMMA TypeKept ==
  ASSUME TypeOK, at' = at, taken' = taken, onLine' = onLine,
         is_initialized' \in BOOLEAN, pc' \in [Writers -> {"idle", "wait", "out"}]
  PROVE  TypeOK'
<1>1. (\A w \in Writers : at[w] = 0 \/ IsByte(w, at[w]))'
  BY DEF TypeOK, IsByte, CarriageReturn
<1>2. at' \in [Writers -> Nat] /\ taken' \in Seq(Writers \X Nat) /\ onLine' \in 0 .. Len(taken')
  BY DEF TypeOK
<1> QED BY <1>1, <1>2 DEF TypeOK

(* Nothing is lost while no byte is put.                                   *)
LEMMA NothingLostKept ==
  ASSUME NothingLost, at' = at, taken' = taken
  PROVE  NothingLost'
<1>1. InOrder'
  BY DEF NothingLost, InOrder
<1>2. AllTaken'
  BY DEF NothingLost, AllTaken, IsByte, CarriageReturn
<1>3. NothingMore'
  BY DEF NothingLost, NothingMore, IsByte, CarriageReturn
<1> QED BY <1>1, <1>2, <1>3 DEF NothingLost

(* The line takes a byte from the FIFO.                                    *)
LEMMA TransmitIInv ==
  ASSUME IInv, Transmit
  PROVE  IInv'
<1> USE DEF IInv, Transmit
<1>1. /\ Len(taken) \in Nat /\ onLine \in Nat /\ onLine < Len(taken)
      /\ onLine' = onLine + 1 /\ taken' = taken
  BY DEF TypeOK
<1>2. TypeOK'
  BY <1>1 DEF TypeOK, IsByte, CarriageReturn
<1>3. NothingLost'
  BY <1>1, NothingLostKept
<1>4. Untouched'
  <2>1. taken # <<>>
    BY <1>1
  <2> QED BY <2>1 DEF Untouched
<1>5. InsidePutc'
  BY DEF InsidePutc, IsByte, CarriageReturn, ByteAfter, Raw
<1>6. Queued'
  <2>1. \A i \in onLine + 2 .. Len(taken) : i \in onLine + 1 .. Len(taken)
    BY <1>1
  <2> QED BY <1>1, <2>1 DEF Queued, InFifo, Raw
<1> QED BY <1>2, <1>3, <1>4, <1>5, <1>6

(* A writer enters serial_putc.                                            *)
LEMMA PutcIInv ==
  ASSUME IInv, NEW w \in Writers, serial_putc(w)
  PROVE  IInv'
<1> USE DEF IInv, serial_putc
<1>1. Place(w, at[w])
  BY DEF TypeOK, Place
<1>2. taken' = taken /\ is_initialized' = TRUE /\ onLine' = onLine /\ at' = at
  <2>1. CASE is_initialized
    BY <2>1 DEF serial_init
  <2>2. CASE ~is_initialized
    <3>1. taken = <<>> /\ onLine = 0
      BY <2>2 DEF Untouched
    <3>2. SubSeq(taken, 1, 0) = <<>>
      BY <3>1
    <3> QED BY <2>2, <3>1, <3>2 DEF serial_init, ClearFifo
  <2> QED BY <2>1, <2>2
<1>3. pc' = [pc EXCEPT ![w] = "wait"]
  OBVIOUS
<1>4. TypeOK'
  <2>1. pc' \in [Writers -> {"idle", "wait", "out"}]
    BY <1>3 DEF TypeOK
  <2> QED BY <1>2, <2>1, TypeKept
<1>5. NothingLost'
  BY <1>2, NothingLostKept
<1>6. Untouched'
  BY <1>2 DEF Untouched
<1>7. InsidePutc'
  <2>1. IsByte(w, ByteAfter(w, at[w])) /\ ~Raw(w, ByteAfter(w, at[w]))
    BY <1>1, NextByte DEF Finished
  <2>2. \A v \in Writers : pc'[v] # "idle" => v = w \/ pc[v] # "idle"
    BY <1>3 DEF TypeOK
  <2> QED BY <1>2, <2>1, <2>2 DEF InsidePutc
<1>8. Queued'
  <2>1. \A v \in Writers : pc[v] # "out" => pc'[v] # "out"
    BY <1>3 DEF TypeOK
  <2>2. \A i \in onLine + 1 .. Len(taken) : taken[i][1] \in Writers
    BY EntryType
  <2> QED BY <1>2, <2>1, <2>2 DEF Queued, InFifo
<1> QED BY <1>4, <1>5, <1>6, <1>7, <1>8

(* It sees the port ready, or asks again.                                  *)
LEMMA WaitIInv ==
  ASSUME IInv, NEW w \in Writers, serial_wait_ready(w)
  PROVE  IInv'
<1> USE DEF IInv, serial_wait_ready
<1>1. pc' = [pc EXCEPT ![w] = "out"] /\ pc[w] = "wait"
      /\ is_initialized' = is_initialized /\ at' = at /\ taken' = taken /\ onLine' = onLine
  OBVIOUS
<1>2. TypeOK'
  <2>1. pc' \in [Writers -> {"idle", "wait", "out"}] /\ is_initialized \in BOOLEAN
    BY <1>1 DEF TypeOK
  <2> QED BY <1>1, <2>1, TypeKept
<1>3. NothingLost'
  BY <1>1, NothingLostKept
<1>4. Untouched'
  BY <1>1 DEF Untouched
<1>5. InsidePutc'
  <2>1. \A v \in Writers : pc'[v] # "idle" => pc[v] # "idle"
    BY <1>1 DEF TypeOK
  <2> QED BY <1>1, <2>1 DEF InsidePutc
<1>6. Queued'
  <2>1. \A i \in onLine' + 1 .. Len(taken') : FALSE
    BY <1>1 DEF THRE, TypeOK
  <2> QED BY <2>1 DEF Queued
<1> QED BY <1>2, <1>3, <1>4, <1>5, <1>6

(* It puts its byte, for which the FIFO still has room.                    *)
LEMMA OutIInv ==
  ASSUME IInv, NEW w \in Writers, serial_out(w)
  PROVE  IInv'
<1> DEFINE b == ByteAfter(w, at[w])
<1>1. /\ pc[w] = "out"
      /\ outb(w, b)
      /\ at' = [at EXCEPT ![w] = b]
      /\ pc' = [pc EXCEPT ![w] = IF CarriageReturn(w, b) THEN "wait" ELSE "idle"]
      /\ UNCHANGED <<is_initialized, onLine>>
  BY DEF serial_out
<1>2. Len(taken) - onLine < Depth
  BY <1>1, Room
<1>3. IsByte(w, b) /\ b \in Nat
  BY <1>1, NextByte DEF IInv, InsidePutc, TypeOK, Place
<1>4. pc' \in [Writers -> {"idle", "wait", "out"}]
  BY <1>1 DEF IInv, TypeOK
<1>5. TypeOK' /\ NothingLost' /\ taken' = Append(taken, <<w, b>>)
  BY <1>1, <1>2, <1>3, <1>4, PutByte
<1> HIDE DEF b
<1>6. /\ at'[w] = b /\ pc'[w] # "out"
      /\ \A v \in Writers : v # w => at'[v] = at[v] /\ pc'[v] = pc[v]
  BY <1>1 DEF IInv, TypeOK
<1>7. Untouched'
  <2>1. is_initialized /\ is_initialized' = is_initialized
    BY <1>1 DEF IInv, Untouched
  <2> QED BY <2>1 DEF Untouched
<1>8. InsidePutc'
  <2> SUFFICES ASSUME NEW v \in Writers, pc'[v] # "idle"
               PROVE  IsByte(v, ByteAfter(v, at'[v])) /\ ~Raw(v, ByteAfter(v, at'[v]))
    BY DEF InsidePutc
  <2>1. CASE v = w
    <3>1. CarriageReturn(w, b)
      BY <1>1, <2>1 DEF IInv, TypeOK
    <3> QED BY <1>3, <1>6, <2>1, <3>1, AfterReturn
  <2>2. CASE v # w
    BY <1>6, <2>2 DEF IInv, InsidePutc
  <2> QED BY <2>1, <2>2
<1>9. Queued'
  <2> SUFFICES ASSUME NEW i \in onLine' + 1 .. Len(taken')
               PROVE  InFifo(i)'
    BY DEF Queued
  <2>1. /\ Len(taken) \in Nat /\ Len(taken') = Len(taken) + 1 /\ onLine \in Nat
        /\ onLine' = onLine
        /\ taken'[Len(taken) + 1] = <<w, b>>
        /\ \A j \in 1 .. Len(taken) : taken'[j] = taken[j]
    BY <1>1, <1>5 DEF IInv, TypeOK
  <2>2. CASE i = Len(taken) + 1
    BY <1>6, <2>1, <2>2 DEF InFifo
  <2>3. CASE i \in onLine + 1 .. Len(taken)
    <3>1. i \in 1 .. Len(taken) /\ taken[i][1] \in Writers
      BY <2>3, EntryType DEF IInv
    <3>2. InFifo(i)
      BY <2>3 DEF IInv, Queued
    <3>3. taken[i][1] # w
      BY <1>1, <3>2 DEF InFifo
    <3> QED BY <1>6, <2>1, <3>1, <3>2, <3>3 DEF InFifo
  <2> QED BY <2>1, <2>2, <2>3
<1> QED BY <1>5, <1>7, <1>8, <1>9 DEF IInv

(* switch_to_task puts its byte without asking.                            *)
LEMMA SwitchIInv ==
  ASSUME IInv, NEW w \in Writers, switch_to_task(w)
  PROVE  IInv'
<1> DEFINE b == ByteAfter(w, at[w])
<1>1. /\ pc[w] = "idle" /\ Raw(w, b)
      /\ outb(w, b)
      /\ at' = [at EXCEPT ![w] = b]
      /\ UNCHANGED <<is_initialized, pc, onLine>>
  BY DEF switch_to_task
<1>2. Place(w, at[w]) /\ at[w] \in Nat
  BY DEF IInv, TypeOK, Place
<1>3. b = at[w] + 2 /\ ~Raw(w, at[w]) /\ at[w] > 0 /\ IsByte(w, b)
  BY <1>1, <1>2, BeforeRaw
<1>4. Len(taken) - onLine < Depth
  BY <1>1, Room
<1>5. pc' \in [Writers -> {"idle", "wait", "out"}]
  BY <1>1 DEF IInv, TypeOK
<1>6. TypeOK' /\ NothingLost' /\ taken' = Append(taken, <<w, b>>)
  BY <1>1, <1>3, <1>4, <1>5, PutByte
<1> HIDE DEF b
<1>7. at'[w] = b /\ \A v \in Writers : v # w => at'[v] = at[v]
  BY <1>1 DEF IInv, TypeOK
<1>8. Untouched'
  <2>1. is_initialized /\ is_initialized' = is_initialized
    BY <1>1, <1>3 DEF IInv, Untouched
  <2> QED BY <2>1 DEF Untouched
<1>9. InsidePutc'
  <2> SUFFICES ASSUME NEW v \in Writers, pc'[v] # "idle"
               PROVE  IsByte(v, ByteAfter(v, at'[v])) /\ ~Raw(v, ByteAfter(v, at'[v]))
    BY DEF InsidePutc
  <2>1. v # w /\ pc[v] # "idle"
    BY <1>1
  <2> QED BY <1>7, <2>1 DEF IInv, InsidePutc
<1>10. Queued'
  <2> SUFFICES ASSUME NEW i \in onLine' + 1 .. Len(taken')
               PROVE  InFifo(i)'
    BY DEF Queued
  <2>1. /\ Len(taken) \in Nat /\ Len(taken') = Len(taken) + 1 /\ onLine \in Nat
        /\ onLine' = onLine
        /\ taken'[Len(taken) + 1] = <<w, b>>
        /\ \A j \in 1 .. Len(taken) : taken'[j] = taken[j]
    BY <1>1, <1>6 DEF IInv, TypeOK
  <2>2. CASE i = Len(taken) + 1
    BY <1>1, <1>7, <2>1, <2>2 DEF InFifo
  <2>3. CASE i \in onLine + 1 .. Len(taken)
    <3>1. i \in 1 .. Len(taken) /\ taken[i][1] \in Writers
      BY <2>3, EntryType DEF IInv
    <3>2. InFifo(i)
      BY <2>3 DEF IInv, Queued
    <3>3. CASE taken[i][1] = w
      <4>1. taken[i][2] = b - 2
        BY <1>2, <1>3, <3>2, <3>3 DEF InFifo
      <4> QED BY <1>1, <1>7, <2>1, <3>1, <3>3, <4>1 DEF InFifo
    <3>4. CASE taken[i][1] # w
      BY <1>1, <1>7, <2>1, <3>1, <3>2, <3>4 DEF InFifo
    <3> QED BY <3>3, <3>4
  <2> QED BY <2>1, <2>2, <2>3
<1> QED BY <1>6, <1>8, <1>9, <1>10 DEF IInv

(* And other steps change nothing.                                         *)
LEMMA StutterIInv ==
  ASSUME IInv, UNCHANGED vars
  PROVE  IInv'
<1>1. TypeOK'
  <2>1. TypeOK /\ UNCHANGED vars
    BY DEF IInv
  <2>2. is_initialized \in BOOLEAN /\ pc \in [Writers -> {"idle", "wait", "out"}]
    BY <2>1 DEF TypeOK
  <2> QED BY <2>1, <2>2, TypeKept DEF vars
<1>2. NothingLost'
  BY NothingLostKept DEF IInv, vars
<1>3. Untouched' /\ InsidePutc' /\ Queued'
  BY DEF IInv, vars, Untouched, InsidePutc, Queued, InFifo, IsByte, CarriageReturn, Raw, ByteAfter
<1> QED BY <1>1, <1>2, <1>3 DEF IInv

-----------------------------------------------------------------------------
(* For up to Depth - 1 writers, any texts and every interleaving of their  *)
(* ready checks and outputs, the port takes every byte of every writer, in *)
(* order and once.                                                         *)
THEOREM NoByteIsLost == Spec => [](TypeOK /\ NothingLost)
<1>1. IInv /\ [Next]_vars => IInv'
  <2> SUFFICES ASSUME IInv, [Next]_vars PROVE IInv'
    OBVIOUS
  <2>1. CASE Transmit
    BY <2>1, TransmitIInv
  <2>2. ASSUME NEW w \in Writers, Step(w) PROVE IInv'
    BY <2>2, PutcIInv, WaitIInv, OutIInv, SwitchIInv DEF Step
  <2>3. CASE UNCHANGED vars
    BY <2>3, StutterIInv
  <2> QED BY <2>1, <2>2, <2>3 DEF Next
<1>2. IInv => TypeOK /\ NothingLost
  BY DEF IInv
<1> QED BY InitIInv, <1>1, <1>2, PTL DEF Spec

(* Every writer in serial_putc is at a byte of its text, and the line has  *)
(* sent no byte that the port has not taken.                               *)
THEOREM SerialTypes == Spec => []TypeOK
<1> QED BY NoByteIsLost, PTL
=============================================================================
