----------------------------- MODULE HeapProofs -----------------------------
(***************************************************************************)
(* The list invariants of the heap, for every arena, header size and set   *)
(* of requests.  Each operation on the list (Take, Absorb and the two      *)
(* merges of kfree) is shown to preserve them for any list, because        *)
(* krealloc applies two of them to lists that no state of Heap holds.      *)
(***************************************************************************)
EXTENDS Heap, FiniteSetTheorems, WellFoundedInduction, TLAPS

(* kmalloc never asks for a block of no bytes.                             *)
LEMMA PaddedPositive ==
  ASSUME NEW size \in Requests \cup (0 .. WORD - 1)
  PROVE  Padded(size) \in Nat /\ Padded(size) > 0
<1>1. HEADER \in Nat /\ HEADER > 0
  BY HeapAssumption
<1>2. Aligned(size) \in Int
  BY HeapAssumption DEF Aligned
<1> QED BY <1>1, <1>2 DEF Padded

-----------------------------------------------------------------------------
(* Splitting.                                                              *)

(* The header that a split writes lies inside the block's payload, where   *)
(* no header was.                                                          *)
LEMMA NewBlockIsFresh ==
  ASSUME NEW h, IsTyped(h), IsTiled(h), NEW size \in Nat,
         NEW b \in Fitting(h, size), Splits(h, b, size)
  PROVE  /\ b + HEADER + size \notin DOMAIN h
         /\ b < b + HEADER + size /\ b + HEADER + size < BlockEnd(h, b)
         /\ BlockEnd(h, b) \in Nat /\ BlockEnd(h, b) <= HEAP_END
         /\ h[b].next \notin {b, b + HEADER + size}
<1> USE HeapAssumption
<1>1. /\ b \in DOMAIN h /\ b \in Nat /\ b > 0 /\ h[b].size \in Nat
      /\ \A c \in DOMAIN h : c \in Nat /\ c < HEAP_END
  BY DEF Fitting, IsTyped, HEAP_END, Block
<1>2. /\ b < b + HEADER + size /\ b + HEADER + size < BlockEnd(h, b)
      /\ BlockEnd(h, b) \in Nat /\ BlockEnd(h, b) <= HEAP_END
  <2>1. BlockEnd(h, b) \in Nat /\ b + HEADER + size < BlockEnd(h, b)
    BY <1>1 DEF Splits, BlockEnd
  <2>2. BlockEnd(h, b) = HEAP_END \/ BlockEnd(h, b) \in DOMAIN h
    BY <1>1 DEF IsTiled
  <2>3. HEAP_END \in Nat
    BY DEF HEAP_END
  <2> QED BY <1>1, <2>1, <2>2, <2>3
<1>3. b + HEADER + size \notin DOMAIN h
  BY <1>1, <1>2 DEF IsTiled
<1>4. h[b].next \notin {b, b + HEADER + size}
  BY <1>1, <1>2, <1>3 DEF IsTiled, NULL
<1> QED BY <1>2, <1>3, <1>4

(* What kmalloc changes in the headers when it takes block b.              *)
LEMMA TakeFields ==
  ASSUME NEW h, IsTyped(h), IsTiled(h), NEW size \in Nat, NEW b \in Fitting(h, size)
  PROVE  /\ Take(h, b, size)[b].used
         /\ Take(h, b, size)[b].size \in Nat
         /\ Take(h, b, size)[b].size >= size
         /\ DOMAIN h \subseteq DOMAIN Take(h, b, size)
         /\ \A a \in DOMAIN h \ {b} :
              /\ Take(h, b, size)[a].used = h[a].used
              /\ Take(h, b, size)[a].size = h[a].size
              /\ Take(h, b, size)[a].next = h[a].next
         /\ \A a \in DOMAIN Take(h, b, size) \ DOMAIN h :
              /\ ~Take(h, b, size)[a].used
              /\ Take(h, b, size)[a].next = h[b].next
<1> USE HeapAssumption
<1>1. /\ b \in DOMAIN h /\ b \in Nat /\ b > 0 /\ h[b] \in Block
      /\ h[b].size \in Nat /\ h[b].size >= size
  BY DEF Fitting, IsTyped, HEAP_END, Block
<1>2. CASE Splits(h, b, size)
  <2> DEFINE new == b + HEADER + size
  <2>1. new # b /\ new \notin DOMAIN h /\ h[b].next \notin {b, new}
    BY <1>1, <1>2, NewBlockIsFresh
  <2>2. /\ DOMAIN Take(h, b, size) = DOMAIN h \cup {new}
        /\ ~Take(h, b, size)[new].used /\ Take(h, b, size)[new].next = h[b].next
        /\ Take(h, b, size)[b].used /\ Take(h, b, size)[b].size = size
    <3>1. Take(h, b, size)[new].used = FALSE /\ Take(h, b, size)[new].next = h[b].next
      BY <1>2, <2>1 DEF Take
    <3>2. Take(h, b, size)[b] = [size |-> size, used |-> TRUE,
                                 next |-> new, prev |-> h[b].prev]
      BY <1>1, <1>2, <2>1 DEF Take
    <3>3. DOMAIN Take(h, b, size) = DOMAIN h \cup {new}
      BY <1>2 DEF Take
    <3> QED BY <3>1, <3>2, <3>3
  <2>3. ASSUME NEW a \in DOMAIN h \ {b, new}
        PROVE  /\ Take(h, b, size)[a].used = h[a].used
               /\ Take(h, b, size)[a].size = h[a].size
               /\ Take(h, b, size)[a].next = h[a].next
    <3>1. h[a] \in Block
      BY DEF IsTyped
    <3>2. Take(h, b, size)[a] \in {h[a], [h[a] EXCEPT !.prev = new]}
      BY <1>2, <2>1, <2>3 DEF Take
    <3> QED BY <3>1, <3>2 DEF Block
  <2>4. \A a \in DOMAIN h \ {b} : a # new
    BY <2>1
  <2>5. DOMAIN Take(h, b, size) \ DOMAIN h = {new}
    BY <2>1, <2>2
  <2> HIDE DEF new
  <2> QED BY <1>1, <2>2, <2>3, <2>4, <2>5
<1>3. CASE ~Splits(h, b, size)
  <2>1. Take(h, b, size) = [h EXCEPT ![b].used = TRUE] /\ h \in [DOMAIN h -> Block]
    BY <1>3 DEF Take, IsTyped
  <2>2. h[b].size >= size /\ b \in DOMAIN h /\ h[b].size \in Nat
    BY <1>1
  <2>3. /\ DOMAIN Take(h, b, size) = DOMAIN h
        /\ Take(h, b, size)[b] = [h[b] EXCEPT !.used = TRUE]
        /\ \A a \in DOMAIN h \ {b} : Take(h, b, size)[a] = h[a]
    BY <2>1, <2>2
  <2>4. Take(h, b, size)[b].used /\ Take(h, b, size)[b].size = h[b].size
    BY <1>1, <2>3 DEF Block
  <2>5. DOMAIN h \subseteq DOMAIN Take(h, b, size) /\ DOMAIN Take(h, b, size) \ DOMAIN h = {}
    BY <2>3
  <2>6. Take(h, b, size)[b].size \in Nat /\ Take(h, b, size)[b].size >= size
    BY <2>2, <2>4
  <2> QED BY <2>3, <2>4, <2>5, <2>6
<1> QED BY <1>2, <1>3

(* Taking a block, split or not, leaves the arena tiled.                   *)
LEMMA TakeTiled ==
  ASSUME NEW h, IsTyped(h), IsTiled(h), NEW size \in Nat, size > 0,
         NEW b \in Fitting(h, size)
  PROVE  IsTyped(Take(h, b, size)) /\ IsTiled(Take(h, b, size))
<1> USE HeapAssumption
<1>1. /\ b \in DOMAIN h /\ b \in Nat /\ b > 0 /\ h[b] \in Block
      /\ h[b].size \in Nat /\ h[b].size >= size
  BY DEF Fitting, IsTyped, HEAP_END, Block
<1> DEFINE g == Take(h, b, size)
<1>2. CASE ~Splits(h, b, size)
  <2>1. /\ DOMAIN g = DOMAIN h
        /\ g[b] \in Block
        /\ \A a \in DOMAIN h : /\ g[a].size = h[a].size
                               /\ g[a].next = h[a].next
                               /\ g[a].prev = h[a].prev
        /\ \A a \in DOMAIN h : g[a] \in Block
    BY <1>1, <1>2 DEF Take, IsTyped, Block
  <2>2. g = [a \in DOMAIN g |-> g[a]]
    BY <1>2 DEF Take, IsTyped
  <2> HIDE DEF g
  <2>3. IsTyped(g)
    BY <2>1, <2>2 DEF IsTyped
  <2>4. IsTiled(g)
    BY <2>1 DEF IsTiled, BlockEnd
  <2> QED BY <2>3, <2>4 DEF g
<1>3. CASE Splits(h, b, size)
  <2> DEFINE new == b + HEADER + size
             m == h[b].next
  <2>1. /\ new \in Nat /\ b < new /\ new < BlockEnd(h, b)
        /\ BlockEnd(h, b) \in Nat /\ BlockEnd(h, b) <= HEAP_END
    BY <1>1, <1>3, NewBlockIsFresh
  <2>2. new \notin DOMAIN h
    BY <1>3, NewBlockIsFresh
  <2>3. m # b /\ m # new /\ m \in Nat
    BY <1>1, <2>1, <2>2 DEF IsTiled, Block, NULL
  <2>4. /\ DOMAIN g = DOMAIN h \cup {new}
        /\ g[new] = [size |-> h[b].size - size - HEADER,
                     used |-> FALSE, next |-> m, prev |-> b]
        /\ g[b] = [size |-> size, used |-> TRUE, next |-> new, prev |-> h[b].prev]
        /\ m \in DOMAIN h => g[m] = [h[m] EXCEPT !.prev = new]
        /\ \A a \in DOMAIN h \ {b, m} : g[a] = h[a]
        /\ g = [a \in DOMAIN g |-> g[a]]
    BY <1>1, <1>3, <2>2, <2>3 DEF Take
  <2>5. h[b].size - size - HEADER \in Nat
    BY <1>1, <1>3 DEF Splits
  <2> HIDE DEF g
  <2>6. IsTyped(g)
    <3>1. DOMAIN g \subseteq HEAP_START .. HEAP_END - 1
      BY <1>1, <2>1, <2>4 DEF IsTyped, HEAP_END
    <3>2. \A a \in DOMAIN g : g[a] \in Block
      <4>1. g[new] \in Block /\ g[b] \in Block
        BY <1>1, <2>1, <2>3, <2>4, <2>5 DEF Block
      <4>2. \A a \in DOMAIN h : h[a] \in Block
        BY DEF IsTyped
      <4>3. m \in DOMAIN h => g[m] \in Block
        BY <4>2, <2>1, <2>4 DEF Block
      <4> QED BY <4>1, <4>2, <4>3, <2>4
    <3> QED BY <2>4, <3>1, <3>2 DEF IsTyped
  <2>7. ASSUME NEW a \in DOMAIN h \ {b, m}
        PROVE  g[a] = h[a] /\ a # new
    BY <2>2, <2>4
  <2>8. m \in DOMAIN h => /\ g[m].size = h[m].size /\ g[m].next = h[m].next
                          /\ g[m].prev = new /\ m # new /\ m = BlockEnd(h, b)
    BY <1>1, <2>2, <2>4, <2>1 DEF IsTyped, Block, IsTiled, NULL
  <2>9. \A a \in DOMAIN h : h[a].size \in Nat /\ a \in Nat /\ a > 0
    BY DEF IsTyped, Block, HEAP_END
  <2>10. /\ BlockEnd(g, new) = BlockEnd(h, b) /\ BlockEnd(g, b) = new
         /\ \A a \in DOMAIN h \ {b} : BlockEnd(g, a) = BlockEnd(h, a)
    BY <1>1, <2>3, <2>4, <2>5, <2>8 DEF BlockEnd
  <2>11. ASSUME NEW a \in DOMAIN g
         PROVE  \/ g[a].next = NULL /\ BlockEnd(g, a) = HEAP_END
                \/ /\ g[a].next \in DOMAIN g
                   /\ g[a].next = BlockEnd(g, a)
                   /\ g[g[a].next].prev = a
    <3>1. CASE a = b
      BY <3>1, <2>4, <2>10
    <3>2. CASE a = new
      BY <3>2, <1>1, <2>4, <2>8, <2>10 DEF IsTiled
    <3>3. CASE a \in DOMAIN h \ {b}
      <4>1. g[a].next = h[a].next /\ BlockEnd(g, a) = BlockEnd(h, a)
        BY <3>3, <2>7, <2>8, <2>10
      <4>2. h[a].next # b => \A c \in DOMAIN h : c = h[a].next /\ c # m => g[c].prev = h[c].prev
        BY <2>7
      <4>3. m \in DOMAIN h => h[m].prev = b
        BY <1>1, <2>9 DEF IsTiled, NULL
      <4>4. g[b].prev = h[b].prev
        BY <2>4
      <4> QED BY <3>3, <4>1, <4>2, <4>3, <4>4, <2>4, <1>1 DEF IsTiled
    <3> QED BY <3>1, <3>2, <3>3, <2>4
  <2>12. ASSUME NEW a \in DOMAIN g
         PROVE  \/ g[a].prev = NULL /\ a = HEAP_START
                \/ /\ g[a].prev \in DOMAIN g
                   /\ g[g[a].prev].next = a
    <3>1. CASE a = new
      BY <3>1, <1>1, <2>4
    <3>2. CASE a = m /\ a \in DOMAIN h
      BY <3>2, <2>4, <2>8
    <3>3. CASE a \in DOMAIN h \ {m}
      <4>1. g[a].prev = h[a].prev
        BY <3>3, <2>4, <2>7
      <4>2. \A c \in DOMAIN h \ {b} : g[c].next = h[c].next
        BY <2>7, <2>8
      <4> QED BY <3>3, <4>1, <4>2, <1>1, <2>4 DEF IsTiled
    <3> QED BY <3>1, <3>2, <3>3, <2>4
  <2>13. ASSUME NEW a \in DOMAIN g, NEW c \in DOMAIN g, a < c
         PROVE  BlockEnd(g, a) <= c
    <3>1. CASE a = new
      <4>1. c \in DOMAIN h /\ b < c
        BY <3>1, <2>1, <2>4, <2>13, <2>9, <1>1
      <4> QED BY <3>1, <4>1, <2>10, <1>1 DEF IsTiled
    <3>2. CASE c = new
      <4>1. a \in DOMAIN h /\ a # new
        BY <3>2, <2>1, <2>4, <2>13
      <4>2. CASE a = b
        BY <3>2, <4>2, <2>1, <2>10
      <4>3. CASE a < b
        BY <3>2, <4>1, <4>3, <2>9, <2>10, <2>1, <1>1 DEF IsTiled, BlockEnd
      <4>4. CASE b < a
        BY <3>2, <4>1, <4>4, <2>13, <2>9, <2>1, <1>1 DEF IsTiled
      <4> QED BY <4>1, <4>2, <4>3, <4>4, <2>9, <1>1
    <3>3. CASE a \in DOMAIN h /\ c \in DOMAIN h
      BY <3>3, <2>13, <2>10, <2>9, <2>1, <1>1 DEF IsTiled, BlockEnd
    <3> QED BY <3>1, <3>2, <3>3, <2>4
  <2>14. IsTiled(g)
    BY <2>11, <2>12, <2>13 DEF IsTiled
  <2> QED BY <2>6, <2>14 DEF g
<1> QED BY <1>2, <1>3

-----------------------------------------------------------------------------
(* Merging.                                                                *)

(* What absorbing the next block makes of a list.                          *)
Absorbed(g, h, p, n, m) ==
  /\ n \in DOMAIN h /\ n # p /\ h[n].prev = p /\ n = BlockEnd(h, p)
  /\ m # p /\ m # n
  /\ DOMAIN g = DOMAIN h \ {n}
  /\ g[p] = [size |-> h[p].size + h[n].size + HEADER, used |-> h[p].used,
             next |-> m, prev |-> h[p].prev]
  /\ m \in DOMAIN h =>
       g[m] = [size |-> h[m].size, used |-> h[m].used,
               next |-> h[m].next, prev |-> p]
  /\ \A a \in DOMAIN h \ {p, n, m} : g[a] = h[a]
  /\ \A a \in DOMAIN g : g[a].used = h[a].used
  /\ \A a \in DOMAIN g \ {p} : g[a].size = h[a].size /\ g[a].next = h[a].next
  /\ g = [a \in DOMAIN g |-> g[a]]

(* What merging p with the block behind it changes.                        *)
LEMMA AbsorbFields ==
  ASSUME NEW h, IsTyped(h), IsTiled(h), NEW p \in DOMAIN h, h[p].next # NULL
  PROVE  Absorbed(Absorb(h, p, h[p].next), h, p, h[p].next, h[h[p].next].next)
<1> USE HeapAssumption
<1> DEFINE n == h[p].next
           m == h[n].next
           g == Absorb(h, p, n)
<1>1. \A a \in DOMAIN h : h[a] \in Block /\ h[a].size \in Nat /\ a \in Nat /\ a > 0
  BY DEF IsTyped, Block, HEAP_END
<1>2. n \in DOMAIN h /\ h[n].prev = p /\ n = BlockEnd(h, p)
  BY DEF IsTiled
<1>3. p < n
  BY <1>1, <1>2 DEF BlockEnd
<1>4. m # p /\ m # n
  <2>1. m = NULL \/ m = BlockEnd(h, n)
    BY <1>2 DEF IsTiled
  <2>2. BlockEnd(h, n) > n
    BY <1>1, <1>2 DEF BlockEnd
  <2> QED BY <1>1, <1>2, <1>3, <2>1, <2>2 DEF NULL
<1>5. /\ DOMAIN g = DOMAIN h \ {n}
      /\ g[p] = [h[p] EXCEPT !.size = h[p].size + h[n].size + HEADER, !.next = m]
      /\ m \in DOMAIN h => g[m] = [h[m] EXCEPT !.prev = p]
      /\ \A a \in DOMAIN h \ {p, n, m} : g[a] = h[a]
      /\ g = [a \in DOMAIN g |-> g[a]]
  BY <1>2, <1>3, <1>4 DEF Absorb
<1>6. g[p] = [size |-> h[p].size + h[n].size + HEADER, used |-> h[p].used,
              next |-> m, prev |-> h[p].prev]
  BY <1>1, <1>5 DEF Block
<1>7. m \in DOMAIN h => g[m] = [size |-> h[m].size, used |-> h[m].used,
                                next |-> h[m].next, prev |-> p]
  BY <1>1, <1>5 DEF Block
<1> HIDE DEF g
<1>8. /\ \A a \in DOMAIN g : g[a].used = h[a].used
      /\ \A a \in DOMAIN g \ {p} : g[a].size = h[a].size /\ g[a].next = h[a].next
  BY <1>5, <1>6, <1>7
<1> QED BY <1>2, <1>3, <1>4, <1>5, <1>6, <1>7, <1>8, <1>1 DEF g, Absorbed

(* A merge leaves the arena tiled.                                         *)
LEMMA AbsorbTiled ==
  ASSUME NEW h, IsTyped(h), IsTiled(h), NEW p \in DOMAIN h, h[p].next # NULL
  PROVE  IsTyped(Absorb(h, p, h[p].next)) /\ IsTiled(Absorb(h, p, h[p].next))
<1> USE HeapAssumption
<1> DEFINE n == h[p].next
           m == h[n].next
           g == Absorb(h, p, n)
<1>0. Absorbed(g, h, p, n, m)
  BY AbsorbFields
<1> HIDE DEF g
<1>1. /\ n \in DOMAIN h /\ n # p /\ h[n].prev = p /\ n = BlockEnd(h, p)
      /\ m # p /\ m # n
      /\ DOMAIN g = DOMAIN h \ {n}
      /\ g[p] = [size |-> h[p].size + h[n].size + HEADER, used |-> h[p].used,
                  next |-> m, prev |-> h[p].prev]
      /\ m \in DOMAIN h =>
           g[m] = [size |-> h[m].size, used |-> h[m].used,
                   next |-> h[m].next, prev |-> p]
      /\ \A a \in DOMAIN h \ {p, n, m} : g[a] = h[a]
      /\ \A a \in DOMAIN g \ {p} : g[a].size = h[a].size /\ g[a].next = h[a].next
      /\ g = [a \in DOMAIN g |-> g[a]]
  BY <1>0 DEF Absorbed
<1>2. \A a \in DOMAIN h : h[a] \in Block /\ h[a].size \in Nat /\ a \in Nat /\ a > 0
                         /\ h[a].next \in Nat /\ h[a].prev \in Nat /\ h[a].used \in BOOLEAN
  BY DEF IsTyped, Block, HEAP_END
<1>3. IsTyped(g)
  <2>1. DOMAIN g \subseteq HEAP_START .. HEAP_END - 1
    BY <1>1 DEF IsTyped
  <2>2. g[p] \in Block /\ (m \in DOMAIN h => g[m] \in Block)
    BY <1>1, <1>2 DEF Block
  <2>3. \A a \in DOMAIN g : g[a] \in Block
    BY <1>1, <1>2, <2>2
  <2> QED BY <1>1, <2>1, <2>3 DEF IsTyped
<1>4. /\ BlockEnd(g, p) = BlockEnd(h, n)
      /\ \A a \in DOMAIN g \ {p} : BlockEnd(g, a) = BlockEnd(h, a)
  BY <1>1, <1>2 DEF BlockEnd
<1>5. ASSUME NEW a \in DOMAIN g
      PROVE  \/ g[a].next = NULL /\ BlockEnd(g, a) = HEAP_END
             \/ /\ g[a].next \in DOMAIN g
                /\ g[a].next = BlockEnd(g, a)
                /\ g[g[a].next].prev = a
  <2>1. CASE a = p
    BY <2>1, <1>1, <1>4 DEF IsTiled
  <2>2. CASE a # p
    <3>1. g[a].next = h[a].next /\ BlockEnd(g, a) = BlockEnd(h, a) /\ a \in DOMAIN h
      BY <2>2, <1>1, <1>4
    <3>2. IF h[a].next = NULL
            THEN BlockEnd(h, a) = HEAP_END
            ELSE /\ h[a].next \in DOMAIN h /\ h[h[a].next].prev = a
                 /\ h[a].next = BlockEnd(h, a)
      BY <3>1, <1>2 DEF IsTiled, NULL
    <3>3. h[a].next # NULL => h[a].next # n
      BY <2>2, <3>2, <1>1
    <3>4. m \in DOMAIN h => h[m].prev = n
      BY <1>1, <1>2 DEF IsTiled, NULL
    <3>5. h[a].next # NULL => h[a].next # m
      BY <3>1, <3>2, <3>4, <1>1
    <3>6. h[a].next # NULL => g[h[a].next].prev = a
      BY <3>2, <3>3, <3>5, <1>1
    <3>7. h[a].next # NULL => h[a].next \in DOMAIN g
      BY <3>2, <3>3, <1>1
    <3> QED BY ONLY <3>1, <3>2, <3>6, <3>7
  <2> QED BY <2>1, <2>2
<1>6. ASSUME NEW a \in DOMAIN g
      PROVE  \/ g[a].prev = NULL /\ a = HEAP_START
             \/ /\ g[a].prev \in DOMAIN g
                /\ g[g[a].prev].next = a
  <2>1. CASE a = m
    BY <2>1, <1>1
  <2>2. CASE a # m
    <3>1. g[a].prev = h[a].prev /\ a \in DOMAIN h /\ a # n
      BY <2>2, <1>1
    <3>2. h[a].prev # NULL => h[a].prev \in DOMAIN h /\ h[h[a].prev].next = a
      BY <3>1 DEF IsTiled
    <3>3. h[a].prev # NULL => h[a].prev # n /\ h[a].prev # p
      BY <2>2, <3>1, <3>2
    <3>4. h[a].prev # NULL => g[h[a].prev].next = a
      BY <3>2, <3>3, <1>1
    <3> QED BY <3>1, <3>2, <3>3, <3>4, <1>1 DEF IsTiled
  <2> QED BY <2>1, <2>2
<1>7. ASSUME NEW a \in DOMAIN g, NEW c \in DOMAIN g, a < c
      PROVE  BlockEnd(g, a) <= c
  <2>1. a \in DOMAIN h /\ c \in DOMAIN h /\ c # n
    BY <1>1
  <2>2. CASE a = p
    <3>1. n <= c
      BY <2>1, <2>2, <1>1, <1>7 DEF IsTiled
    <3>2. n < c
      <4>1. n \in Nat /\ c \in Nat
        BY <2>1, <1>1, <1>2
      <4> QED BY ONLY <3>1, <2>1, <4>1
    <3>3. BlockEnd(h, n) <= c
      BY <2>1, <3>2, <1>1 DEF IsTiled
    <3> QED BY <2>2, <3>3, <1>4
  <2>3. CASE a # p
    BY <2>1, <2>3, <1>4, <1>7 DEF IsTiled
  <2> QED BY <2>2, <2>3
<1>8. IsTiled(g)
  BY <1>5, <1>6, <1>7 DEF IsTiled
<1> QED BY <1>3, <1>8 DEF g

(* A list in which only the pair that x begins may be two free blocks.     *)
NearlyCoalesced(h, x) ==
  \A b \in DOMAIN h \ {x} : ~h[b].used /\ h[b].next # NULL => h[h[b].next].used

(* What an operation on the list h must return.                            *)
IsList(h) == IsTyped(h) /\ IsTiled(h)

UsedIn(h) == {a \in DOMAIN h : h[a].used}

SameSizes(g, h, S) == \A a \in S : g[a].size = h[a].size

(* kfree's first assignment changes one flag.                              *)
LEMMA UnmarkFacts ==
  ASSUME NEW h, IsList(h), NEW b \in DOMAIN h
  PROVE  LET f == Unmark(h, b)
         IN  /\ IsList(f) /\ DOMAIN f = DOMAIN h /\ ~f[b].used
             /\ \A a \in DOMAIN h : /\ f[a].size = h[a].size
                                    /\ f[a].next = h[a].next
                                    /\ f[a].prev = h[a].prev
             /\ \A a \in DOMAIN h \ {b} : f[a].used = h[a].used
<1> DEFINE f == Unmark(h, b)
<1>1. h \in [DOMAIN h -> Block]
  BY DEF IsList, IsTyped
<1>2. f \in [DOMAIN h -> Block] /\ f[b] = [h[b] EXCEPT !.used = FALSE]
      /\ \A a \in DOMAIN h \ {b} : f[a] = h[a]
  BY <1>1 DEF Unmark, Block
<1> HIDE DEF f
<1>3. /\ DOMAIN f = DOMAIN h /\ ~f[b].used
      /\ \A a \in DOMAIN h : /\ f[a].size = h[a].size
                             /\ f[a].next = h[a].next
                             /\ f[a].prev = h[a].prev
  BY <1>1, <1>2 DEF Block
<1>4. IsTyped(f)
  BY <1>2, <1>3 DEF IsList, IsTyped
<1>5. IsTiled(f)
  BY <1>3 DEF IsList, IsTiled, BlockEnd
<1> QED BY <1>2, <1>3, <1>4, <1>5 DEF f, IsList

(* The merges keep the list, and the blocks in use with their sizes.       *)
Keeps(g, h) ==
  /\ IsList(g)
  /\ UsedIn(g) = UsedIn(h)
  /\ SameSizes(g, h, UsedIn(h))

(* The list that MergePrev works on: b has just been marked free.          *)
LEMMA MergePrevKeeps ==
  ASSUME NEW h, IsList(h), NEW b \in DOMAIN h, ~h[b].used,
         \A a \in DOMAIN h \ {b} :
           ~h[a].used /\ h[a].next # NULL /\ h[a].next # b => h[h[a].next].used
  PROVE  LET left == IF Unused(h, h[b].prev) THEN h[b].prev ELSE b
         IN  /\ Keeps(MergePrev(h, b), h)
             /\ left \in DOMAIN MergePrev(h, b)
             /\ ~MergePrev(h, b)[left].used
             /\ NearlyCoalesced(MergePrev(h, b), left)
<1> USE HeapAssumption
<1>1. \A a \in DOMAIN h : a # NULL
  BY DEF IsList, IsTyped, NULL
<1>2. CASE Unused(h, h[b].prev)
  <2> DEFINE p == h[b].prev
             m == h[b].next
             g == Absorb(h, p, b)
  <2>1. p \in DOMAIN h /\ h[p].next = b /\ ~h[p].used /\ h[p].next # NULL
    BY <1>1, <1>2 DEF IsList, IsTiled, Unused
  <2>2. Absorbed(g, h, p, b, m)
    BY <2>1, AbsorbFields DEF IsList
  <2>3. IsList(g)
    BY <2>1, AbsorbTiled DEF IsList
  <2> HIDE DEF g
  <2>4. UsedIn(g) = UsedIn(h) /\ SameSizes(g, h, UsedIn(h))
    BY <2>1, <2>2 DEF Absorbed, UsedIn, SameSizes
  <2>5. p \in DOMAIN g /\ ~g[p].used
    BY <2>1, <2>2 DEF Absorbed
  <2>6. ASSUME NEW a \in DOMAIN g \ {p}, ~g[a].used, g[a].next # NULL
        PROVE  g[g[a].next].used
    <3>1. a \in DOMAIN h \ {b} /\ ~h[a].used /\ g[a].next = h[a].next
      BY <2>2, <2>6 DEF Absorbed
    <3>2. h[a].next # b /\ h[a].next \in DOMAIN h
      BY <2>6, <3>1, <2>2 DEF IsList, IsTiled, Absorbed
    <3>3. h[h[a].next].used /\ h[a].next \in DOMAIN g
      BY <2>2, <2>6, <3>1, <3>2 DEF Absorbed
    <3> QED BY <2>2, <3>1, <3>3 DEF Absorbed
  <2>7. NearlyCoalesced(g, p)
    BY <2>6 DEF NearlyCoalesced
  <2> QED BY <1>2, <2>3, <2>4, <2>5, <2>7 DEF g, MergePrev, Keeps
<1>3. CASE ~Unused(h, h[b].prev)
  <2>1. ASSUME NEW a \in DOMAIN h \ {b}, ~h[a].used, h[a].next # NULL
        PROVE  h[a].next # b
    <3>1. h[h[a].next].prev = a
      BY <2>1 DEF IsList, IsTiled
    <3> QED BY <1>1, <1>3, <2>1, <3>1 DEF Unused
  <2>2. NearlyCoalesced(h, b)
    BY <2>1 DEF NearlyCoalesced
  <2> QED BY <1>3, <2>2 DEF MergePrev, Keeps, SameSizes
<1> QED BY <1>2, <1>3

(* The merge with the block behind repairs the one pair kfree made.        *)
LEMMA MergeNextKeeps ==
  ASSUME NEW h, IsList(h), NEW b \in DOMAIN h, ~h[b].used, NearlyCoalesced(h, b)
  PROVE  Keeps(MergeNext(h, b), h) /\ IsCoalesced(MergeNext(h, b))
<1> USE HeapAssumption
<1>1. \A a \in DOMAIN h : a # NULL
  BY DEF IsList, IsTyped, NULL
<1>2. CASE Unused(h, h[b].next)
  <2> DEFINE n == h[b].next
             m == h[n].next
             g == Absorb(h, b, n)
  <2>1. n \in DOMAIN h /\ ~h[n].used /\ n # NULL
    BY <1>2 DEF IsList, IsTiled, Unused
  <2>2. Absorbed(g, h, b, n, m)
    BY <2>1, AbsorbFields DEF IsList
  <2>3. IsList(g)
    BY <2>1, AbsorbTiled DEF IsList
  <2> HIDE DEF g
  <2>4. UsedIn(g) = UsedIn(h) /\ SameSizes(g, h, UsedIn(h))
    BY <2>1, <2>2 DEF Absorbed, UsedIn, SameSizes
  <2>5. ASSUME NEW a \in DOMAIN g, ~g[a].used, g[a].next # NULL
        PROVE  g[g[a].next].used
    <3>1. CASE a = b
      <4>1. g[a].next = m /\ m # NULL
        BY <2>2, <2>5, <3>1 DEF Absorbed
      <4>2. h[m].used /\ m \in DOMAIN h
        BY <2>1, <2>2, <4>1 DEF NearlyCoalesced, Absorbed, IsList, IsTiled
      <4> QED BY <2>2, <4>1, <4>2 DEF Absorbed
    <3>2. CASE a # b
      <4>1. a \in DOMAIN h \ {b, n} /\ ~h[a].used /\ g[a].next = h[a].next
        BY <2>2, <2>5, <3>2 DEF Absorbed
      <4>2. h[a].next \in DOMAIN h /\ h[h[a].next].used
        BY <2>5, <4>1 DEF NearlyCoalesced, IsList, IsTiled
      <4>3. h[a].next # n
        BY <2>1, <4>2
      <4> QED BY <2>2, <4>1, <4>2, <4>3 DEF Absorbed
    <3> QED BY <3>1, <3>2
  <2>6. IsCoalesced(g)
    BY <2>5 DEF IsCoalesced
  <2> QED BY <1>2, <2>3, <2>4, <2>6 DEF g, MergeNext, Keeps
<1>3. CASE ~Unused(h, h[b].next)
  <2>1. IsCoalesced(h)
    BY <1>3 DEF IsCoalesced, NearlyCoalesced, Unused
  <2> QED BY <1>3, <2>1 DEF MergeNext, Keeps, SameSizes
<1> QED BY <1>2, <1>3

(* kfree takes one block out of use and leaves the rest as they were, on a *)
(* list without two adjacent free blocks.                                  *)
LEMMA ReleaseKeeps ==
  ASSUME NEW h, IsList(h), IsCoalesced(h), NEW b \in DOMAIN h, h[b].used
  PROVE  /\ IsList(Release(h, b)) /\ IsCoalesced(Release(h, b))
         /\ UsedIn(Release(h, b)) = UsedIn(h) \ {b}
         /\ SameSizes(Release(h, b), h, UsedIn(h) \ {b})
<1> DEFINE f == Unmark(h, b)
           left == IF Unused(f, f[b].prev) THEN f[b].prev ELSE b
           g == MergePrev(f, b)
           k == MergeNext(g, left)
<1>1. /\ IsList(f) /\ DOMAIN f = DOMAIN h /\ ~f[b].used
      /\ \A a \in DOMAIN h : f[a].size = h[a].size /\ f[a].next = h[a].next
      /\ \A a \in DOMAIN h \ {b} : f[a].used = h[a].used
  BY UnmarkFacts
<1> HIDE DEF f
<1>2. \A a \in DOMAIN f \ {b} :
        ~f[a].used /\ f[a].next # NULL /\ f[a].next # b => f[f[a].next].used
  <2>1. \A a \in DOMAIN h : h[a].next # NULL => h[a].next \in DOMAIN h
    BY DEF IsList, IsTiled
  <2> QED BY <1>1, <2>1 DEF IsCoalesced
<1>3. /\ Keeps(g, f) /\ left \in DOMAIN g /\ ~g[left].used
      /\ NearlyCoalesced(g, left)
  BY <1>1, <1>2, MergePrevKeeps
<1>4. Release(h, b) = k
  BY DEF Release, f
<1> HIDE DEF g, left
<1>5. Keeps(k, g) /\ IsCoalesced(k)
  BY <1>3, MergeNextKeeps DEF Keeps
<1> HIDE DEF k
<1>6. UsedIn(f) = UsedIn(h) \ {b} /\ SameSizes(f, h, UsedIn(h))
  BY <1>1 DEF UsedIn, SameSizes
<1>7. UsedIn(k) = UsedIn(h) \ {b} /\ SameSizes(k, h, UsedIn(h) \ {b})
  BY <1>3, <1>5, <1>6 DEF Keeps, SameSizes
<1> QED BY <1>4, <1>5, <1>7 DEF Keeps

(* kmalloc puts one block to use and leaves the rest as they were.         *)
LEMMA TakeKeeps ==
  ASSUME NEW h, IsList(h), IsCoalesced(h), NEW size \in Nat, size > 0,
         NEW b \in Fitting(h, size)
  PROVE  /\ IsList(Take(h, b, size)) /\ IsCoalesced(Take(h, b, size))
         /\ UsedIn(Take(h, b, size)) = UsedIn(h) \cup {b}
         /\ SameSizes(Take(h, b, size), h, UsedIn(h))
         /\ Take(h, b, size)[b].size >= size
         /\ b \in DOMAIN h /\ b \notin UsedIn(h)
<1> DEFINE g == Take(h, b, size)
<1>1. /\ g[b].used /\ g[b].size >= size /\ DOMAIN h \subseteq DOMAIN g
      /\ \A a \in DOMAIN h \ {b} : /\ g[a].used = h[a].used
                                   /\ g[a].size = h[a].size
                                   /\ g[a].next = h[a].next
      /\ \A a \in DOMAIN g \ DOMAIN h : ~g[a].used /\ g[a].next = h[b].next
  BY TakeFields DEF IsList
<1>2. b \in DOMAIN h /\ b \notin UsedIn(h) /\ ~h[b].used
  BY DEF Fitting, UsedIn
<1>3. IsList(g)
  BY TakeTiled DEF IsList
<1> HIDE DEF g
<1>4. UsedIn(g) = UsedIn(h) \cup {b} /\ SameSizes(g, h, UsedIn(h))
  BY <1>1, <1>2 DEF UsedIn, SameSizes
<1>5. ASSUME NEW a \in DOMAIN g, ~g[a].used, g[a].next # NULL
      PROVE  g[g[a].next].used
  <2>1. PICK c \in DOMAIN h : ~h[c].used /\ g[a].next = h[c].next
    BY <1>1, <1>2, <1>5
  <2>2. h[c].next \in DOMAIN h /\ h[h[c].next].used
    BY <1>5, <2>1 DEF IsCoalesced, IsList, IsTiled
  <2> QED BY <1>1, <2>1, <2>2
<1>6. IsCoalesced(g)
  BY <1>5 DEF IsCoalesced
<1> QED BY <1>1, <1>2, <1>3, <1>4, <1>6 DEF g

-----------------------------------------------------------------------------
(* Writing into payloads.                                                  *)

(* A write takes headers off the list and changes none that stays.         *)
LEMMA OverwriteFacts ==
  ASSUME NEW h, IsTyped(h), NEW b \in DOMAIN h, NEW n
  PROVE  LET g == Overwrite(h, b + HEADER, n)
         IN  /\ IsTyped(g) /\ b \in DOMAIN g
             /\ \A a \in DOMAIN g : a \in DOMAIN h /\ g[a] = h[a]
<1> DEFINE g == Overwrite(h, b + HEADER, n)
<1>1. /\ DOMAIN g \subseteq DOMAIN h
      /\ \A a \in DOMAIN g : g[a] = h[a]
      /\ g = [a \in DOMAIN g |-> g[a]]
  BY DEF Overwrite
<1>2. b \in DOMAIN g
  BY HeapAssumption DEF Overwrite, IsTyped, HEAP_END
<1> HIDE DEF g
<1>3. IsTyped(g)
  BY <1>1 DEF IsTyped
<1> QED BY <1>1, <1>2, <1>3 DEF g

(* One that fits in the payload takes none off.                            *)
LEMMA WriteFits ==
  ASSUME NEW h, IsTyped(h), IsTiled(h), NEW b \in DOMAIN h, NEW n \in Nat, n <= h[b].size
  PROVE  Overwrite(h, b + HEADER, n) = h
<1> USE HeapAssumption
<1>1. \A c \in DOMAIN h : c \in Nat /\ h[c].size \in Nat
  BY DEF IsTyped, Block, HEAP_END
<1>2. ASSUME NEW c \in DOMAIN h
      PROVE  c + HEADER <= b + HEADER \/ (b + HEADER) + n <= c
  <2>1. CASE b < c
    BY <1>1, <2>1 DEF IsTiled, BlockEnd
  <2> QED BY <1>1, <2>1
<1>3. h = [a \in DOMAIN h |-> h[a]]
  BY DEF IsTyped
<1> QED BY <1>2, <1>3 DEF Overwrite

(* After a call that wrote n bytes to the payload of block b, ...          *)
LEMMA WhatOverruns ==
  ASSUME NEW b \in Nat, NEW from, NEW n, wrote' = Write(b + HEADER, from, n)
  PROVE  Overrun' <=> n > hdr'[b].size
<1>1. /\ b + HEADER # NULL /\ (b + HEADER) - HEADER = b
  BY HeapAssumption DEF NULL
<1>2. wrote'.at = b + HEADER /\ wrote'.length = n
  BY DEF Write
<1> QED BY <1>1, <1>2 DEF Overrun

(* ... and after one that wrote nothing.                                   *)
LEMMA NothingOverruns == wrote' = NoWrite => ~Overrun'
BY DEF Overrun, NoWrite, Write, NULL

-----------------------------------------------------------------------------
HeapInv == TypeOK /\ Tiled /\ Coalesced

(* The invariant, as facts about the list.                                 *)
LEMMA HeapIsList ==
  HeapInv <=> TypeOK /\ (Overrun \/ (IsList(hdr) /\ IsCoalesced(hdr)))
BY DEF HeapInv, TypeOK, Tiled, Coalesced, IsList

(* Nothing has been overrun, so the list is one.                           *)
Sound == HeapInv /\ ~Overrun

LEMMA SoundIsList == Sound => TypeOK /\ IsList(hdr) /\ IsCoalesced(hdr)
BY HeapIsList DEF Sound

(* What is to be shown of a step.                                          *)
LEMMA HeapInvAfter ==
  ASSUME TypeOK', Overrun' \/ (IsList(hdr') /\ IsCoalesced(hdr'))
  PROVE  HeapInv'
BY DEF HeapInv, TypeOK, Tiled, Coalesced, IsList

(* Before heap_init there is no block.                                     *)
LEMMA HeapInitInv == Init => HeapInv /\ ~Overrun
<1> SUFFICES ASSUME Init PROVE HeapInv /\ ~Overrun
  OBVIOUS
<1>1. DOMAIN hdr = {} /\ hdr \in [DOMAIN hdr -> Block]
  BY DEF Init
<1>2. Tiled /\ Coalesced
  BY <1>1 DEF Tiled, Coalesced, IsTiled, IsCoalesced
<1>3. TypeOK
  BY <1>1 DEF Init, TypeOK, IsTyped, NULL, NoWrite, Write
<1>4. ~Overrun
  BY DEF Init, Overrun, NoWrite, Write, NULL
<1> QED BY <1>2, <1>3, <1>4 DEF HeapInv

(* heap_init makes the arena one free block.                               *)
LEMMA HeapReady == HeapInv /\ heap_init => HeapInv'
<1> SUFFICES ASSUME HeapInv, heap_init PROVE HeapInv'
  OBVIOUS
<1> USE HeapAssumption DEF heap_init
<1> DEFINE first == [size |-> HEAP_INITIAL_SIZE - HEADER,
                     used |-> FALSE, next |-> NULL, prev |-> NULL]
<1>1. first \in Block
  BY DEF Block, NULL
<1>2. /\ DOMAIN hdr' = {HEAP_START} /\ hdr'[HEAP_START] = first
      /\ hdr' = [a \in DOMAIN hdr' |-> hdr'[a]]
  OBVIOUS
<1>3. IsTyped(hdr')
  BY <1>1, <1>2 DEF IsTyped, HEAP_END
<1>4. IsTiled(hdr') /\ IsCoalesced(hdr')
  BY <1>2 DEF IsTiled, IsCoalesced, BlockEnd, HEAP_END, NULL
<1>5. TypeOK'
  BY <1>3 DEF HeapInv, TypeOK
<1> QED BY <1>3, <1>4, <1>5, HeapInvAfter DEF IsList

(* The block kmalloc takes, for any of its three callers.                  *)
LEMMA TakenIsList ==
  ASSUME Sound, NEW size \in 0 .. WORD - 1, NEW b \in DOMAIN hdr,
         IsBestFit(hdr, b, Padded(size))
  PROVE  LET taken == Take(hdr, b, Padded(size))
         IN  /\ Padded(size) \in Nat /\ Padded(size) > 0
             /\ b \in Fitting(hdr, Padded(size))
             /\ IsList(taken) /\ IsCoalesced(taken)
             /\ UsedIn(taken) = UsedIn(hdr) \cup {b} /\ b \notin UsedIn(hdr)
             /\ SameSizes(taken, hdr, UsedIn(hdr))
             /\ b \in DOMAIN taken /\ taken[b].size \in Nat
             /\ b \in Nat /\ b + HEADER \in Nat
<1> DEFINE taken == Take(hdr, b, Padded(size))
<1>1. Padded(size) \in Nat /\ Padded(size) > 0 /\ b \in Fitting(hdr, Padded(size))
  BY PaddedPositive DEF IsBestFit
<1>2. IsList(hdr) /\ IsCoalesced(hdr)
  BY SoundIsList
<1>3. /\ IsList(taken) /\ IsCoalesced(taken)
      /\ UsedIn(taken) = UsedIn(hdr) \cup {b} /\ b \notin UsedIn(hdr)
      /\ SameSizes(taken, hdr, UsedIn(hdr))
  BY <1>1, <1>2, TakeKeeps
<1>4. b \in DOMAIN taken /\ taken[b].size \in Nat
  BY <1>1, <1>2, TakeFields DEF IsList
<1>5. b \in Nat /\ b + HEADER \in Nat
  BY <1>2, HeapAssumption DEF IsList, IsTyped, HEAP_END
<1> QED BY <1>1, <1>3, <1>4, <1>5

(* kcalloc is kmalloc, unless memset does not fit in the block.            *)
Cleared(size, b) ==
  /\ Served(size, b)
  /\ size <= Take(hdr, b, Padded(size))[b].size
  /\ hdr' = Take(hdr, b, Padded(size))

Smashed(size, b) ==
  /\ Served(size, b)
  /\ size > Take(hdr, b, Padded(size))[b].size
  /\ hdr' = Overwrite(Take(hdr, b, Padded(size)), b + HEADER, size)

LEMMA KcallocCases ==
  ASSUME Sound, NEW num \in Requests, NEW size \in Requests, kcalloc(num, size)
  PROVE  \E total \in 0 .. WORD - 1 :
           \/ Refused(total)
           \/ \E b \in DOMAIN hdr :
                /\ Cleared(total, b) \/ Smashed(total, b)
                /\ wrote' = Write(b + HEADER, NULL, total)
<1> DEFINE total == (num * size) % WORD
<1>1. total \in 0 .. WORD - 1
  <2>1. num \in Nat /\ size \in Nat /\ WORD \in Nat \ {0}
    BY HeapAssumption
  <2>2. num * size \in Nat
    BY <2>1
  <2> QED BY <2>1, <2>2
<1>2. CASE Refused(total)
  BY <1>1, <1>2
<1>3. ASSUME NEW b \in DOMAIN hdr, Served(total, b),
             hdr' = Overwrite(Take(hdr, b, Padded(total)), b + HEADER, total)
      PROVE  Cleared(total, b) \/ Smashed(total, b)
  <2> DEFINE taken == Take(hdr, b, Padded(total))
  <2>1. IsList(taken) /\ b \in DOMAIN taken /\ taken[b].size \in Nat
    BY <1>1, <1>3, TakenIsList DEF Served
  <2>2. CASE total <= taken[b].size
    <3>1. Overwrite(taken, b + HEADER, total) = taken
      BY <1>1, <2>1, <2>2, WriteFits DEF IsList
    <3> QED BY <1>3, <2>2, <3>1 DEF Cleared
  <2>3. CASE total > taken[b].size
    BY <1>3, <2>3 DEF Smashed
  <2> QED BY <1>1, <2>1, <2>2, <2>3
<1>4. \/ Refused(total)
      \/ \E b \in DOMAIN hdr :
           /\ Served(total, b)
           /\ hdr' = Overwrite(Take(hdr, b, Padded(total)), b + HEADER, total)
           /\ wrote' = Write(b + HEADER, NULL, total)
  BY DEF kcalloc
<1> HIDE DEF total
<1> QED BY <1>1, <1>2, <1>3, <1>4

(* A refusal changes nothing but the histories.                            *)
LEMMA RefusedInv ==
  ASSUME Sound, NEW size \in 0 .. WORD - 1, Refused(size)
  PROVE  HeapInv'
<1>1. TypeOK'
  BY SoundIsList, HeapAssumption DEF Refused, TypeOK, NULL, NoWrite, Write
<1> QED BY <1>1, SoundIsList, HeapInvAfter DEF Refused

(* The types after a block has been served.                                *)
LEMMA ServedTypes ==
  ASSUME Sound, NEW size \in 0 .. WORD - 1, NEW b \in DOMAIN hdr, Served(size, b),
         IsTyped(hdr'), wrote' \in [at : Nat, from : Nat, length : Nat]
  PROVE  TypeOK'
<1>1. Take(hdr, b, Padded(size))[b].size \in Nat /\ b + HEADER \in Nat
  BY TakenIsList DEF Served
<1>2. used_size' \in Int /\ block_count' \in Int /\ answer' \in [size : Nat, ptr : Nat]
  BY <1>1, SoundIsList, HeapAssumption DEF Served, Splitting, TypeOK
<1> QED BY <1>2 DEF TypeOK

(* kmalloc keeps the invariant, ...                                        *)
LEMMA KmallocInv ==
  ASSUME Sound, NEW size \in 0 .. WORD - 1, kmalloc(size)
  PROVE  HeapInv'
<1>1. ASSUME NEW b \in DOMAIN hdr, Served(size, b),
             hdr' = Take(hdr, b, Padded(size)), wrote' = NoWrite
      PROVE  HeapInv'
  <2>1. IsList(hdr') /\ IsCoalesced(hdr')
    BY <1>1, TakenIsList DEF Served
  <2>2. TypeOK'
    BY <1>1, <2>1, ServedTypes DEF IsList, NoWrite, Write, NULL
  <2> QED BY <2>1, <2>2, HeapInvAfter
<1> QED BY <1>1, RefusedInv DEF kmalloc

(* ... and so does kcalloc, unless memset has overrun the block.           *)
LEMMA KcallocInv ==
  ASSUME Sound, NEW num \in Requests, NEW size \in Requests, kcalloc(num, size)
  PROVE  HeapInv'
<1>1. PICK total \in 0 .. WORD - 1 :
        \/ Refused(total)
        \/ \E b \in DOMAIN hdr :
             /\ Cleared(total, b) \/ Smashed(total, b)
             /\ wrote' = Write(b + HEADER, NULL, total)
  BY KcallocCases
<1>2. ASSUME NEW b \in DOMAIN hdr, Cleared(total, b) \/ Smashed(total, b),
             wrote' = Write(b + HEADER, NULL, total)
      PROVE  HeapInv'
  <2> DEFINE taken == Take(hdr, b, Padded(total))
  <2>1. /\ IsList(taken) /\ IsCoalesced(taken) /\ b \in DOMAIN taken
        /\ b \in Nat /\ b + HEADER \in Nat
    BY <1>2, TakenIsList DEF Cleared, Smashed, Served
  <2>2. wrote' \in [at : Nat, from : Nat, length : Nat]
    BY <1>2, <2>1, HeapAssumption DEF Write, NULL
  <2>3. CASE Cleared(total, b)
    <3>1. TypeOK'
      BY <2>1, <2>2, <2>3, ServedTypes DEF Cleared, IsList
    <3> QED BY <2>1, <2>3, <3>1, HeapInvAfter DEF Cleared
  <2>4. CASE Smashed(total, b)
    <3>1. IsTyped(hdr') /\ hdr'[b] = taken[b]
      BY <2>1, <2>4, OverwriteFacts DEF Smashed, IsList
    <3>2. TypeOK'
      BY <2>2, <2>4, <3>1, ServedTypes DEF Smashed
    <3>3. Overrun'
      BY <1>2, <2>1, <2>4, <3>1, WhatOverruns DEF Smashed
    <3> QED BY <3>2, <3>3, HeapInvAfter
  <2> QED BY <1>2, <2>3, <2>4
<1> QED BY <1>1, <1>2, RefusedInv

(* The number of headers a kfree removes is a number.                      *)
LEMMA MergingType ==
  ASSUME NEW h, NEW b PROVE Merging(h, b) \in Int
<1> DEFINE f == Unmark(h, b)
           S == {a \in {f[b].prev, f[b].next} : Unused(f, a)}
<1>1. IsFiniteSet({f[b].prev} \cup {f[b].next})
  BY FS_Singleton, FS_Union
<1>2. IsFiniteSet(S)
  BY <1>1, FS_Subset
<1> QED BY <1>2, FS_CardinalityType DEF Merging

(* kfree keeps the invariant.                                              *)
LEMMA KfreeInv ==
  ASSUME Sound, NEW b \in DOMAIN hdr, kfree(b)
  PROVE  HeapInv'
<1> USE HeapAssumption
<1>1. CASE UNCHANGED vars
  BY <1>1 DEF vars, Sound, HeapInv, TypeOK, Tiled, Coalesced, Overrun
<1>2. ASSUME hdr[b].used, hdr' = Release(hdr, b), used_size' = used_size - hdr[b].size,
             block_count' = block_count - Merging(hdr, b), wrote' = NoWrite, UNCHANGED answer
      PROVE  HeapInv'
  <2>1. IsList(hdr') /\ IsCoalesced(hdr')
    BY <1>2, ReleaseKeeps, SoundIsList
  <2>2. hdr[b].size \in Int
    BY SoundIsList DEF TypeOK, IsTyped, Block
  <2>3. TypeOK'
    BY <1>2, <2>1, <2>2, MergingType, SoundIsList
    DEF TypeOK, IsList, NoWrite, Write, NULL
  <2> QED BY <2>1, <2>3, HeapInvAfter
<1> QED BY <1>1, <1>2 DEF kfree

(* krealloc keeps it, in place, moved or refused, unless memcpy has        *)
(* overrun the new block.                                                  *)
LEMMA KreallocInv ==
  ASSUME Sound, NEW b \in DOMAIN hdr, NEW size \in 0 .. WORD - 1, krealloc(b, size)
  PROVE  HeapInv'
<1> USE HeapAssumption
<1>1. CASE UNCHANGED <<hdr, used_size, block_count>> /\ wrote' = NoWrite
           /\ answer' = [size |-> size, ptr |-> b + HEADER]
  <2>1. b + HEADER \in Nat
    BY SoundIsList DEF TypeOK, IsTyped, HEAP_END
  <2>2. TypeOK'
    BY <1>1, <2>1, SoundIsList DEF TypeOK, NoWrite, Write, NULL
  <2> QED BY <1>1, <2>2, SoundIsList, HeapInvAfter
<1>2. ASSUME NEW n \in DOMAIN hdr, hdr[b].used,
             IsBestFit(hdr, n, Padded(size)),
             Moved(b, size, n) \/ Trampled(b, size, n),
             answer' = [size |-> size, ptr |-> n + HEADER],
             wrote' = Write(n + HEADER, b + HEADER, hdr[b].size)
      PROVE  HeapInv'
  <2> DEFINE taken == Take(hdr, n, Padded(size))
  <2>1. /\ IsList(taken) /\ IsCoalesced(taken) /\ UsedIn(taken) = UsedIn(hdr) \cup {n}
        /\ n \in DOMAIN taken /\ taken[n].size \in Nat /\ n \in Nat /\ n + HEADER \in Nat
    BY <1>2, TakenIsList
  <2>2. hdr[b].size \in Nat /\ b + HEADER \in Nat /\ Splitting(hdr, n, Padded(size)) \in Int
        /\ used_size \in Int /\ block_count \in Int
    BY SoundIsList DEF TypeOK, IsTyped, Block, HEAP_END, Splitting
  <2>3. answer' \in [size : Nat, ptr : Nat] /\ wrote' \in [at : Nat, from : Nat, length : Nat]
    BY <1>2, <2>1, <2>2 DEF Write
  <2>4. CASE Moved(b, size, n)
    <3>1. b \in DOMAIN taken /\ taken[b].used
      BY <1>2, <2>1 DEF UsedIn
    <3>2. IsList(hdr') /\ IsCoalesced(hdr')
      BY <2>1, <2>4, <3>1, ReleaseKeeps DEF Moved
    <3>3. used_size' \in Int /\ block_count' \in Int
      BY <2>1, <2>2, <2>4, MergingType DEF Moved
    <3> QED BY <2>3, <3>2, <3>3, HeapInvAfter DEF TypeOK, IsList
  <2>5. CASE Trampled(b, size, n)
    <3>1. IsTyped(hdr') /\ hdr'[n] = taken[n]
      BY <2>1, <2>5, OverwriteFacts DEF Trampled, IsList
    <3>2. used_size' \in Int /\ block_count' \in Int
      BY <2>1, <2>2, <2>5 DEF Trampled
    <3>3. Overrun'
      BY <1>2, <2>1, <2>5, <3>1, WhatOverruns DEF Trampled
    <3> QED BY <2>3, <3>1, <3>2, <3>3, HeapInvAfter DEF TypeOK
  <2> QED BY <1>2, <2>4, <2>5
<1> QED BY <1>1, <1>2, RefusedInv DEF krealloc

(* Every call keeps it.                                                    *)
LEMMA HeapStep == HeapInv /\ [Next]_vars => HeapInv'
<1> SUFFICES ASSUME HeapInv, [Next]_vars PROVE HeapInv'
  OBVIOUS
<1>1. Requests \subseteq 0 .. WORD - 1
  BY HeapAssumption
<1>2. CASE UNCHANGED vars
  BY <1>2 DEF vars, HeapInv, TypeOK, Tiled, Coalesced, Overrun
<1>3. CASE Next
  <2>1. Sound
    BY <1>3 DEF Sound, Next
  <2> QED
    BY <1>1, <1>3, <2>1, HeapReady, KmallocInv, KcallocInv, KfreeInv, KreallocInv DEF Next
<1> QED BY <1>2, <1>3

(* The heap's list is the arena cut into blocks, whose links agree, and no *)
(* two free blocks are adjacent, after any sequence of calls, until memset *)
(* or memcpy has overrun the block that kmalloc served.                    *)
THEOREM HeapListCorrect == Spec => [](TypeOK /\ Tiled /\ Coalesced)
<1>1. HeapInv => TypeOK /\ Tiled /\ Coalesced
  BY DEF HeapInv
<1> QED BY HeapInitInv, HeapStep, <1>1, PTL DEF Spec

(* A tiled arena without free neighbours and without used blocks is one    *)
(* block.                                                                  *)
LEMMA AllFree == HeapInv => WholeWhenFree
<1> SUFFICES ASSUME Sound, \A b \in DOMAIN hdr : ~hdr[b].used, NEW b \in DOMAIN hdr
             PROVE  b = HEAP_START /\ hdr[b].size = HEAP_INITIAL_SIZE - HEADER
  BY DEF WholeWhenFree, Sound
<1> USE HeapAssumption
<1>0. IsTyped(hdr) /\ IsTiled(hdr) /\ IsCoalesced(hdr)
  BY SoundIsList DEF IsList
<1>1. \A a \in DOMAIN hdr : hdr[a].next = NULL /\ BlockEnd(hdr, a) = HEAP_END
  <2> TAKE a \in DOMAIN hdr
  <2>1. hdr[a].next # NULL => hdr[a].next \in DOMAIN hdr
    BY <1>0 DEF IsTiled
  <2>2. hdr[a].next = NULL
    BY <1>0, <2>1 DEF IsCoalesced
  <2>3. NULL \notin DOMAIN hdr
    BY <1>0 DEF IsTyped, NULL
  <2> QED BY <1>0, <2>2, <2>3 DEF IsTiled
<1>2. b # NULL /\ b \in Nat /\ hdr[b].size \in Nat
  BY <1>0 DEF IsTyped, Block, NULL, HEAP_END
<1>3. b = HEAP_START
  BY <1>0, <1>1, <1>2 DEF IsTiled
<1> QED BY <1>1, <1>2, <1>3 DEF BlockEnd, HEAP_END

(* Once every block has been freed the heap is one block again, whatever   *)
(* the calls were and in whatever order the blocks were freed.             *)
THEOREM FragmentationEnds == Spec => []WholeWhenFree
BY HeapInitInv, HeapStep, AllFree, PTL DEF Spec

-----------------------------------------------------------------------------
(* The refinement.                                                         *)

(* The live blocks of the abstract heap are the payloads of the used ones. *)
LEMMA LiveFields ==
  ASSUME NEW h, IsTyped(h)
  PROVE  /\ \A p : p \in DOMAIN Live(h) <=> \E a \in UsedIn(h) : p = a + HEADER
         /\ \A a \in UsedIn(h) : /\ a + HEADER \in DOMAIN Live(h)
                                /\ Live(h)[a + HEADER] = h[a].size
<1> USE HeapAssumption
<1>1. DOMAIN Live(h) = {a + HEADER : a \in UsedIn(h)}
  BY DEF Live, UsedIn
<1>2. ASSUME NEW a \in UsedIn(h) PROVE Live(h)[a + HEADER] = h[a].size
  <2>1. a \in Nat /\ (a + HEADER) - HEADER = a
    BY DEF UsedIn, IsTyped, HEAP_END
  <2> QED BY <2>1 DEF Live, UsedIn
<1>3. \A a \in UsedIn(h) : a + HEADER \in DOMAIN Live(h)
  BY <1>1
<1>4. \A p : p \in DOMAIN Live(h) <=> \E a \in UsedIn(h) : p = a + HEADER
  BY <1>1
<1> QED BY <1>2, <1>3, <1>4

(* A request that does not wrap around is rounded up.                      *)
LEMMA PaddedCovers ==
  ASSUME NEW size \in 0 .. WORD - 1, size <= WORD - HEAP_ALIGNMENT
  PROVE  Padded(size) >= size
<1> DEFINE up == size + HEAP_ALIGNMENT - 1
<1>1. up \in 0 .. WORD - 1
  BY HeapAssumption
<1>2. up % WORD = up
  BY <1>1, HeapAssumption
<1>3. up % HEAP_ALIGNMENT \in 0 .. HEAP_ALIGNMENT - 1
  BY <1>1, HeapAssumption
<1>4. Aligned(size) >= size /\ Aligned(size) \in Int
  BY <1>1, <1>2, <1>3, HeapAssumption DEF Aligned
<1> QED BY <1>4, HeapAssumption DEF Padded

(* The payload of a used block lies in the arena, ...                      *)
LEMMA PayloadInArena ==
  ASSUME NEW h, IsList(h), NEW b \in DOMAIN h
  PROVE  Malloc!Bytes(b + HEADER, h[b].size) \subseteq HEAP_START + HEADER .. HEAP_END - 1
<1> USE HeapAssumption
<1>1. /\ b \in Nat /\ HEAP_START <= b /\ h[b].size \in Nat /\ HEAP_END \in Nat
      /\ \A c \in DOMAIN h : c \in Nat /\ c < HEAP_END
  BY DEF IsList, IsTyped, Block, HEAP_END
<1>2. BlockEnd(h, b) <= HEAP_END
  <2>1. BlockEnd(h, b) = HEAP_END \/ BlockEnd(h, b) \in DOMAIN h
    BY DEF IsList, IsTiled
  <2> QED BY <1>1, <2>1
<1> QED BY <1>1, <1>2 DEF BlockEnd, Malloc!Bytes

(* ... and apart from those of the others.                                 *)
LEMMA PayloadsApart ==
  ASSUME NEW h, IsList(h), NEW b \in DOMAIN h, NEW c \in DOMAIN h, b # c
  PROVE  Malloc!Bytes(b + HEADER, h[b].size) \cap Malloc!Bytes(c + HEADER, h[c].size) = {}
<1> USE HeapAssumption
<1>1. b \in Nat /\ c \in Nat /\ h[b].size \in Nat /\ h[c].size \in Nat
  BY DEF IsList, IsTyped, Block, HEAP_END
<1>2. BlockEnd(h, b) <= c \/ BlockEnd(h, c) <= b
  BY <1>1 DEF IsList, IsTiled
<1> QED BY <1>1, <1>2 DEF BlockEnd, Malloc!Bytes

(* What the abstract heap asks of the block that kmalloc(size) takes.      *)
LEMMA TakenIsFresh ==
  ASSUME NEW h, IsList(h), IsCoalesced(h), NEW size \in 0 .. WORD - 1,
         NEW b \in Fitting(h, Padded(size))
  PROVE  LET g == Take(h, b, Padded(size))
         IN  /\ b + HEADER \notin DOMAIN Live(h)
             /\ size <= WORD - HEAP_ALIGNMENT => g[b].size >= size
             /\ Malloc!Bytes(b + HEADER, g[b].size) \subseteq HEAP_START + HEADER .. HEAP_END - 1
             /\ \A q \in DOMAIN Live(h) :
                  Malloc!Bytes(b + HEADER, g[b].size) \cap Malloc!Bytes(q, Live(h)[q]) = {}
<1> USE HeapAssumption
<1> DEFINE g == Take(h, b, Padded(size))
<1>1. Padded(size) \in Nat /\ Padded(size) > 0
  BY PaddedPositive
<1>2. /\ IsList(g) /\ UsedIn(g) = UsedIn(h) \cup {b} /\ SameSizes(g, h, UsedIn(h))
      /\ g[b].size >= Padded(size) /\ b \in DOMAIN h /\ b \notin UsedIn(h)
  BY <1>1, TakeKeeps
<1> HIDE DEF g
<1>3. b \in DOMAIN g /\ g[b].size \in Nat
  BY <1>2 DEF UsedIn, IsList, IsTyped, Block
<1>4. \A a \in DOMAIN h : a \in Nat
  BY DEF IsList, IsTyped, HEAP_END
<1>5. b + HEADER \notin DOMAIN Live(h)
  <2>1. \A a \in UsedIn(h) : a + HEADER # b + HEADER
    BY <1>2, <1>4 DEF UsedIn
  <2> QED BY <2>1, LiveFields DEF IsList
<1>6. size <= WORD - HEAP_ALIGNMENT => g[b].size >= size
  BY <1>1, <1>2, <1>3, PaddedCovers
<1>7. ASSUME NEW q \in DOMAIN Live(h)
      PROVE  Malloc!Bytes(b + HEADER, g[b].size) \cap Malloc!Bytes(q, Live(h)[q]) = {}
  <2>1. PICK a \in UsedIn(h) : q = a + HEADER
    BY LiveFields DEF IsList
  <2>2. Live(h)[q] = g[a].size /\ a \in DOMAIN g /\ a # b
    BY <1>2, <2>1, LiveFields DEF IsList, SameSizes, UsedIn
  <2> QED BY <1>2, <1>3, <2>1, <2>2, PayloadsApart
<1> QED BY <1>2, <1>3, <1>5, <1>6, <1>7, PayloadInArena DEF g

(* The new block and the ones that stay, in the primed state.              *)
LEMMA LiveAfter ==
  ASSUME NEW g, IsTyped(g), NEW h, IsTyped(h), NEW S \in SUBSET UsedIn(h),
         S \subseteq UsedIn(g), SameSizes(g, h, S)
  PROVE  \A a \in S : /\ a + HEADER \in DOMAIN Live(g)
                      /\ Live(g)[a + HEADER] = Live(h)[a + HEADER]
BY LiveFields DEF SameSizes

(* kmalloc hands out a fresh block.                                        *)
LEMMA TakenIsNew ==
  ASSUME Sound, NEW size \in 0 .. WORD - 1, NEW b \in DOMAIN hdr,
         IsBestFit(hdr, b, Padded(size)),
         hdr' = Take(hdr, b, Padded(size)),
         answer' = [size |-> size, ptr |-> b + HEADER]
  PROVE  /\ Malloc!New(b + HEADER, size)
         /\ b + HEADER \in DOMAIN Live(hdr')
         /\ Live(hdr')[b + HEADER] = hdr'[b].size
<1>1. IsList(hdr) /\ IsCoalesced(hdr)
  BY SoundIsList
<1>2. /\ IsList(hdr') /\ UsedIn(hdr') = UsedIn(hdr) \cup {b}
      /\ SameSizes(hdr', hdr, UsedIn(hdr)) /\ b \in Fitting(hdr, Padded(size))
  BY TakenIsList
<1>3. /\ DOMAIN Live(hdr') = DOMAIN Live(hdr) \cup {b + HEADER}
      /\ Live(hdr')[b + HEADER] = hdr'[b].size
  <2>1. b \in UsedIn(hdr') /\ Live(hdr')[b + HEADER] = hdr'[b].size
    BY <1>2, LiveFields DEF IsList
  <2> SUFFICES ASSUME NEW p
               PROVE  p \in DOMAIN Live(hdr') <=>
                        p \in DOMAIN Live(hdr) \/ p = b + HEADER
    BY <2>1
  <2>2. p \in DOMAIN Live(hdr') <=> \E a \in UsedIn(hdr') : p = a + HEADER
    BY <1>2, LiveFields DEF IsList
  <2>3. p \in DOMAIN Live(hdr) <=> \E a \in UsedIn(hdr) : p = a + HEADER
    BY <1>1, LiveFields DEF IsList
  <2> QED BY ONLY <1>2, <2>2, <2>3
<1>4. \A q \in DOMAIN Live(hdr) : q \in DOMAIN Live(hdr') /\ Live(hdr')[q] = Live(hdr)[q]
  <2>1. \A a \in UsedIn(hdr) : /\ a + HEADER \in DOMAIN Live(hdr')
                              /\ Live(hdr')[a + HEADER] = Live(hdr)[a + HEADER]
    BY <1>1, <1>2, LiveAfter DEF IsList
  <2> QED BY <1>1, <2>1, LiveFields DEF IsList
<1>5. Malloc!Fresh(b + HEADER, size)
  BY <1>1, <1>2, <1>3, TakenIsFresh DEF Malloc!Fresh
<1> QED BY <1>3, <1>4, <1>5 DEF Malloc!New, Malloc!Untouched

(* A write of the requested bytes, or of fewer, overruns the block only    *)
(* when the request has wrapped around.                                    *)
LEMMA OverrunIsRuin ==
  ASSUME Sound, NEW size \in 0 .. WORD - 1, NEW b \in DOMAIN hdr,
         IsBestFit(hdr, b, Padded(size)),
         NEW n \in Nat, n <= size, n > Take(hdr, b, Padded(size))[b].size,
         hdr' = Overwrite(Take(hdr, b, Padded(size)), b + HEADER, n),
         answer' = [size |-> size, ptr |-> b + HEADER],
         NEW from, wrote' = Write(b + HEADER, from, n)
  PROVE  Malloc!HeapNext
<1> DEFINE taken == Take(hdr, b, Padded(size))
<1>1. /\ Padded(size) \in Nat /\ b \in DOMAIN taken /\ taken[b].size \in Nat
      /\ b \in UsedIn(taken) /\ IsTyped(taken)
      /\ IsList(hdr) /\ IsCoalesced(hdr) /\ b \in Fitting(hdr, Padded(size))
  BY TakenIsList, SoundIsList DEF IsList
<1>2. size > WORD - HEAP_ALIGNMENT
  <2>1. taken[b].size >= size \/ size > WORD - HEAP_ALIGNMENT
    BY <1>1, TakenIsFresh, HeapAssumption
  <2> QED BY <1>1, <2>1
<1>3. IsTyped(hdr') /\ b \in DOMAIN hdr' /\ hdr'[b] = taken[b]
  BY <1>1, OverwriteFacts
<1>4. b \in UsedIn(hdr')
  BY <1>1, <1>3 DEF UsedIn
<1>5. b + HEADER \in DOMAIN Live(hdr') /\ Live(hdr')[b + HEADER] = taken[b].size
  BY <1>3, <1>4, LiveFields
<1>6. Malloc!Ruin(size)
  BY <1>2, <1>5 DEF Malloc!Ruin, Write
<1> QED BY <1>6 DEF Malloc!HeapNext

(* Any call may be refused.                                                *)
LEMMA RefusedRefines ==
  ASSUME NEW size \in 0 .. WORD - 1, Refused(size)
  PROVE  Malloc!HeapNext
<1>1. Malloc!Refuse(size)
  BY DEF Refused, Malloc!Refuse, Malloc!NothingWritten, NoWrite, Write, NULL
<1> QED BY <1>1 DEF Malloc!HeapNext

(* kmalloc hands out a fresh block, or refuses, ...                        *)
LEMMA KmallocRefines ==
  ASSUME Sound, NEW size \in 0 .. WORD - 1, kmalloc(size)
  PROVE  Malloc!HeapNext
<1>1. ASSUME NEW b \in DOMAIN hdr, Served(size, b),
             hdr' = Take(hdr, b, Padded(size)), wrote' = NoWrite
      PROVE  Malloc!HeapNext
  <2>1. Malloc!New(b + HEADER, size) /\ b + HEADER \in DOMAIN Live(hdr')
    BY <1>1, TakenIsNew DEF Served
  <2>2. Malloc!Malloc(size)
    BY <1>1, <2>1 DEF Malloc!Malloc, Malloc!NothingWritten, NoWrite, Write, NULL
  <2> QED BY <2>2 DEF Malloc!HeapNext
<1> QED BY <1>1, RefusedRefines DEF kmalloc

(* ... and kcalloc clears it, ...                                          *)
LEMMA KcallocRefines ==
  ASSUME Sound, NEW num \in Requests, NEW size \in Requests, kcalloc(num, size)
  PROVE  Malloc!HeapNext
<1>1. PICK total \in 0 .. WORD - 1 :
        \/ Refused(total)
        \/ \E b \in DOMAIN hdr :
             /\ Cleared(total, b) \/ Smashed(total, b)
             /\ wrote' = Write(b + HEADER, NULL, total)
  BY KcallocCases
<1>2. ASSUME NEW b \in DOMAIN hdr, Cleared(total, b), wrote' = Write(b + HEADER, NULL, total)
      PROVE  Malloc!HeapNext
  <2>1. /\ Malloc!New(b + HEADER, total) /\ b + HEADER \in DOMAIN Live(hdr')
        /\ Live(hdr')[b + HEADER] = hdr'[b].size
    BY <1>2, TakenIsNew DEF Cleared, Served
  <2>2. Live(hdr')[b + HEADER] >= total
    <3>1. Take(hdr, b, Padded(total))[b].size \in Nat
      BY <1>2, TakenIsList DEF Cleared, Served
    <3> QED BY <1>2, <2>1, <3>1 DEF Cleared
  <2>3. Malloc!Calloc(total)
    BY <1>2, <2>1, <2>2 DEF Malloc!Calloc, Write, NULL
  <2> QED BY <2>3 DEF Malloc!HeapNext
<1>3. ASSUME NEW b \in DOMAIN hdr, Smashed(total, b), wrote' = Write(b + HEADER, NULL, total)
      PROVE  Malloc!HeapNext
  BY <1>3, OverrunIsRuin DEF Smashed, Served
<1> QED BY <1>1, <1>2, <1>3, RefusedRefines

(* ... and kfree takes back one block.                                     *)
LEMMA KfreeRefines ==
  ASSUME Sound, NEW b \in DOMAIN hdr, kfree(b)
  PROVE  [Malloc!HeapNext]_Malloc!heapVars
<1>1. CASE UNCHANGED vars
  BY <1>1 DEF vars, Malloc!heapVars
<1>2. ASSUME hdr[b].used, hdr' = Release(hdr, b), wrote' = NoWrite, UNCHANGED answer
      PROVE  b + HEADER \in DOMAIN Live(hdr) /\ Malloc!Free(b + HEADER)
  <2>1. IsList(hdr) /\ IsCoalesced(hdr)
    BY SoundIsList
  <2>2. /\ IsList(hdr') /\ UsedIn(hdr') = UsedIn(hdr) \ {b}
        /\ SameSizes(hdr', hdr, UsedIn(hdr) \ {b})
    BY <1>2, <2>1, ReleaseKeeps
  <2>3. \A a \in UsedIn(hdr) : a \in Nat
    BY <2>1, HeapAssumption DEF IsList, IsTyped, UsedIn, HEAP_END
  <2>4. /\ b \in UsedIn(hdr)
        /\ DOMAIN Live(hdr') = DOMAIN Live(hdr) \ {b + HEADER}
    <3>1. b \in UsedIn(hdr)
      BY <1>2 DEF UsedIn
    <3> SUFFICES ASSUME NEW p
                 PROVE  p \in DOMAIN Live(hdr') <=>
                          p \in DOMAIN Live(hdr) /\ p # b + HEADER
      BY <3>1
    <3>2. p \in DOMAIN Live(hdr') <=> \E a \in UsedIn(hdr') : p = a + HEADER
      BY <2>2, LiveFields DEF IsList
    <3>3. p \in DOMAIN Live(hdr) <=> \E a \in UsedIn(hdr) : p = a + HEADER
      BY <2>1, LiveFields DEF IsList
    <3>4. \A a \in UsedIn(hdr) : a = b <=> a + HEADER = b + HEADER
      BY <2>3, <3>1, HeapAssumption
    <3> QED BY ONLY <2>2, <3>2, <3>3, <3>4
  <2>5. \A q \in DOMAIN Live(hdr') : Live(hdr')[q] = Live(hdr)[q]
    <3>1. \A a \in UsedIn(hdr) \ {b} : Live(hdr')[a + HEADER] = Live(hdr)[a + HEADER]
      BY <2>1, <2>2, LiveAfter DEF IsList
    <3> QED BY <2>2, <3>1, LiveFields DEF IsList
  <2>6. Malloc!NothingWritten
    BY <1>2 DEF Malloc!NothingWritten, NoWrite, Write, NULL
  <2> QED
    BY <1>2, <2>1, <2>4, <2>5, <2>6, LiveFields DEF Malloc!Free, Malloc!Untouched, IsList
<1> QED BY <1>1, <1>2 DEF kfree, Malloc!HeapNext

(* krealloc keeps, moves or refuses one block.                             *)
LEMMA KreallocRefines ==
  ASSUME Sound, NEW b \in DOMAIN hdr, NEW size \in 0 .. WORD - 1, krealloc(b, size)
  PROVE  Malloc!HeapNext
<1> USE HeapAssumption
<1>1. IsList(hdr) /\ IsCoalesced(hdr) /\ b \in UsedIn(hdr)
  BY SoundIsList DEF krealloc, UsedIn
<1>2. b + HEADER \in DOMAIN Live(hdr) /\ Live(hdr)[b + HEADER] = hdr[b].size
      /\ hdr[b].size \in Nat
  BY <1>1, LiveFields DEF IsList, IsTyped, Block, UsedIn
<1>3. CASE /\ size <= hdr[b].size
           /\ answer' = [size |-> size, ptr |-> b + HEADER]
           /\ wrote' = NoWrite
           /\ UNCHANGED <<hdr, used_size, block_count>>
  <2>1. Malloc!Keep(b + HEADER, size)
    BY <1>2, <1>3 DEF Malloc!Keep, Malloc!NothingWritten, NoWrite, Write, NULL
  <2> QED BY <1>2, <2>1 DEF Malloc!HeapNext
<1>4. ASSUME NEW n \in DOMAIN hdr, size > hdr[b].size,
             IsBestFit(hdr, n, Padded(size)), Moved(b, size, n),
             answer' = [size |-> size, ptr |-> n + HEADER],
             wrote' = Write(n + HEADER, b + HEADER, hdr[b].size)
      PROVE  Malloc!Move(b + HEADER, size)
  <2> DEFINE taken == Take(hdr, n, Padded(size))
  <2>1. n \in Fitting(hdr, Padded(size))
    BY <1>4, TakenIsList
  <2>2. /\ IsList(taken) /\ IsCoalesced(taken) /\ UsedIn(taken) = UsedIn(hdr) \cup {n}
        /\ SameSizes(taken, hdr, UsedIn(hdr)) /\ n \notin UsedIn(hdr)
        /\ taken[n].size \in Nat
    BY <1>4, TakenIsList
  <2>3. /\ n + HEADER \notin DOMAIN Live(hdr)
        /\ size <= WORD - HEAP_ALIGNMENT => taken[n].size >= size
        /\ Malloc!Bytes(n + HEADER, taken[n].size) \subseteq HEAP_START + HEADER .. HEAP_END - 1
        /\ \A q \in DOMAIN Live(hdr) :
             Malloc!Bytes(n + HEADER, taken[n].size) \cap Malloc!Bytes(q, Live(hdr)[q]) = {}
    BY <1>1, <2>1, TakenIsFresh
  <2>4. hdr' = Release(taken, b) /\ hdr[b].size <= taken[n].size
    BY <1>4 DEF Moved
  <2> HIDE DEF taken
  <2>5. n # b /\ b \in DOMAIN taken /\ taken[b].used
    BY <1>1, <2>2 DEF UsedIn
  <2>6. /\ IsList(hdr') /\ UsedIn(hdr') = (UsedIn(hdr) \ {b}) \cup {n}
        /\ SameSizes(hdr', taken, (UsedIn(hdr) \ {b}) \cup {n})
    BY <2>2, <2>4, <2>5, ReleaseKeeps
  <2>7. \A a \in UsedIn(hdr) : a \in Nat
    BY <1>1 DEF IsList, IsTyped, UsedIn, HEAP_END
  <2>8. DOMAIN Live(hdr') = (DOMAIN Live(hdr) \ {b + HEADER}) \cup {n + HEADER}
    <3> SUFFICES ASSUME NEW p
                 PROVE  p \in DOMAIN Live(hdr') <=>
                          (p \in DOMAIN Live(hdr) /\ p # b + HEADER) \/ p = n + HEADER
      OBVIOUS
    <3>1. p \in DOMAIN Live(hdr') <=> \E a \in UsedIn(hdr') : p = a + HEADER
      BY <2>6, LiveFields DEF IsList
    <3>2. p \in DOMAIN Live(hdr) <=> \E a \in UsedIn(hdr) : p = a + HEADER
      BY <1>1, LiveFields DEF IsList
    <3>3. \A a \in UsedIn(hdr) : a = b <=> a + HEADER = b + HEADER
      BY <1>1, <2>7
    <3> QED BY ONLY <2>6, <3>1, <3>2, <3>3
  <2>9. Live(hdr')[n + HEADER] = taken[n].size
    BY <2>6, LiveFields DEF IsList, SameSizes
  <2>10. \A q \in DOMAIN Live(hdr) \ {b + HEADER} :
           q \in DOMAIN Live(hdr') /\ Live(hdr')[q] = Live(hdr)[q]
    <3>1. SameSizes(hdr', hdr, UsedIn(hdr) \ {b})
      BY <2>2, <2>6 DEF SameSizes
    <3>2. \A a \in UsedIn(hdr) \ {b} : /\ a + HEADER \in DOMAIN Live(hdr')
                                       /\ Live(hdr')[a + HEADER] = Live(hdr)[a + HEADER]
      BY <1>1, <2>6, <3>1, LiveAfter DEF IsList
    <3> QED BY <1>1, <3>2, LiveFields DEF IsList
  <2>11. n + HEADER \in DOMAIN Live(hdr')
    BY <2>8
  <2>12. Malloc!Fresh(n + HEADER, size)
    BY <2>3, <2>9, <2>11 DEF Malloc!Fresh
  <2>13. Live(hdr')[n + HEADER] >= Live(hdr)[b + HEADER]
    BY <1>2, <2>2, <2>4, <2>9
  <2>14. wrote' = [at |-> n + HEADER, from |-> b + HEADER, length |-> Live(hdr)[b + HEADER]]
    BY <1>2, <1>4 DEF Write
  <2> QED
    BY <1>4, <2>8, <2>10, <2>11, <2>12, <2>13, <2>14 DEF Malloc!Move, Malloc!Untouched
<1>5. ASSUME NEW n \in DOMAIN hdr, size > hdr[b].size,
             IsBestFit(hdr, n, Padded(size)), Trampled(b, size, n),
             answer' = [size |-> size, ptr |-> n + HEADER],
             wrote' = Write(n + HEADER, b + HEADER, hdr[b].size)
      PROVE  Malloc!HeapNext
  <2>1. hdr[b].size <= size
    BY <1>2, <1>5
  <2> QED BY <1>2, <1>5, <2>1, OverrunIsRuin DEF Trampled
<1>6. CASE Refused(size)
  BY <1>6, RefusedRefines
<1> QED BY <1>2, <1>3, <1>4, <1>5, <1>6 DEF krealloc, Malloc!HeapNext

(* Every step of heap.c is a step of the abstract heap, or none.           *)
LEMMA HeapRefinementStep ==
  HeapInv /\ [Next]_vars => [Malloc!HeapNext]_Malloc!heapVars
<1> SUFFICES ASSUME HeapInv, [Next]_vars
             PROVE  [Malloc!HeapNext]_Malloc!heapVars
  OBVIOUS
<1>1. CASE UNCHANGED vars
  BY <1>1 DEF vars, Malloc!heapVars
<1>2. CASE heap_init
  <2>1. UsedIn(hdr) = {} /\ UsedIn(hdr') = {}
    BY <1>2 DEF heap_init, UsedIn
  <2>2. Live(hdr') = Live(hdr)
    BY <2>1 DEF Live, UsedIn
  <2> QED BY <1>2, <2>2 DEF heap_init, Malloc!heapVars
<1>3. CASE Next
  <2>1. Sound /\ Requests \subseteq 0 .. WORD - 1
    BY <1>3, HeapAssumption DEF Sound, Next
  <2> QED
    BY <1>2, <1>3, <2>1, KmallocRefines, KcallocRefines, KfreeRefines, KreallocRefines
    DEF Next
<1> QED BY <1>1, <1>3

(* Every header kmalloc, kfree and krealloc write is a block header: its   *)
(* size is a number and its links are addresses.                           *)
THEOREM HeapTypes == Spec => []TypeOK
<1> QED BY HeapListCorrect, PTL

(* Two free blocks are never neighbours: kfree merges both ways, and what  *)
(* a split leaves over had no free block after it (until an overrun).      *)
THEOREM NeighboursAreMerged == Spec => []Coalesced
<1> QED BY HeapListCorrect, PTL

(* heap.c implements the abstract heap: every block handed out is inside   *)
(* the arena, long enough and apart from the other live blocks, a call     *)
(* changes no block but its own, and what kcalloc and krealloc write there *)
(* fits, for every request but those within HEAP_ALIGNMENT of size_t's end.*)
THEOREM HeapRefines == Spec => RefinesAbstractHeap
<1>1. Init => Malloc!HeapInit
  BY DEF Init, Malloc!HeapInit, Live, NULL, NoWrite, Write
<1> QED
  BY HeapInitInv, HeapStep, HeapRefinementStep, <1>1, PTL
  DEF Spec, RefinesAbstractHeap, Malloc!HeapSpec

-----------------------------------------------------------------------------
(* What the list is good for: payloads are aligned, the two counters agree *)
(* with it, and the search finds any room there is.                        *)

(* Where a block can lie.                                                  *)
LEMMA Addresses ==
  ASSUME NEW h, IsTyped(h), NEW b \in DOMAIN h
  PROVE  /\ b \in Nat /\ b > 0 /\ b >= HEAP_START /\ b < HEAP_END
         /\ h[b].size \in Nat
         /\ BlockEnd(h, b) \in Nat /\ b < BlockEnd(h, b)
         /\ HEAP_END \in Nat
<1> USE HeapAssumption
<1>1. /\ b \in Nat /\ b > 0 /\ b >= HEAP_START /\ b < HEAP_END
      /\ h[b].size \in Nat /\ HEAP_END \in Nat
  BY DEF IsTyped, Block, HEAP_END
<1> QED BY <1>1 DEF BlockEnd

-----------------------------------------------------------------------------
(* Least and greatest elements.                                            *)

(* A set of numbers has a least member.                                    *)
LEMMA LeastExists ==
  ASSUME NEW S \in SUBSET Nat, S # {}
  PROVE  \E x \in S : \A y \in S : x <= y
<1>1. PICK x \in S : \A y \in S : ~(<<y, x>> \in OpToRel(<, Nat))
  BY NatLessThanWellFounded, WFMin
<1>2. ASSUME NEW y \in S PROVE x <= y
  <2>1. x \in Nat /\ y \in Nat
    OBVIOUS
  <2>2. <<y, x>> \in Nat \X Nat /\ <<y, x>>[1] = y /\ <<y, x>>[2] = x
    BY <2>1
  <2>3. ~(y < x)
    BY <1>1, <2>2 DEF OpToRel
  <2> QED BY <2>1, <2>3
<1> QED BY <1>2

(* A bounded one has a greatest.                                           *)
LEMMA GreatestExists ==
  ASSUME NEW S \in SUBSET Nat, S # {}, NEW n \in Nat, \A x \in S : x <= n
  PROVE  \E x \in S : \A y \in S : y <= x
<1> DEFINE T == {k \in 0 .. n : n - k \in S}
<1>1. \A x \in S : n - x \in 0 .. n /\ n - (n - x) = x
  OBVIOUS
<1>2. \A x \in S : n - x \in T
  BY <1>1
<1>3. T \in SUBSET Nat /\ T # {}
  <2>1. T \subseteq 0 .. n /\ 0 .. n \subseteq Nat
    OBVIOUS
  <2>2. PICK x \in S : TRUE
    OBVIOUS
  <2>3. n - x \in T
    BY <1>2
  <2> QED BY <2>1, <2>3
<1>4. PICK k \in T : \A m \in T : k <= m
  BY <1>3, LeastExists
<1>5. n - k \in S /\ k \in 0 .. n /\ n - k \in Nat
  OBVIOUS
<1>6. ASSUME NEW y \in S PROVE y <= n - k
  <2>1. k <= n - y
    BY <1>2, <1>4
  <2>2. y \in Nat
    OBVIOUS
  <2> QED BY <1>5, <2>1, <2>2
<1> QED BY <1>5, <1>6

-----------------------------------------------------------------------------
(* The search.                                                             *)

(* Every block but the first is behind the one its prev names.             *)
LEMMA PreviousBlock ==
  ASSUME NEW h, IsList(h), NEW b \in DOMAIN h, b # HEAP_START
  PROVE  /\ h[b].prev \in DOMAIN h /\ h[b].prev < b
         /\ h[h[b].prev].next = b /\ b # NULL
<1>1. h[b].prev \in DOMAIN h /\ h[h[b].prev].next = b /\ b # NULL
  BY Addresses DEF IsList, IsTiled, NULL
<1>2. b = BlockEnd(h, h[b].prev)
  BY <1>1 DEF IsList, IsTiled
<1> QED BY <1>1, <1>2, Addresses DEF IsList

(* The walk from first_block along next passes every block.                *)
LEMMA ListIsWalked == Sound => ListComplete
<1> SUFFICES ASSUME Sound,
                    NEW reached \in SUBSET DOMAIN hdr, HEAP_START \in reached,
                    \A b \in reached : hdr[b].next # NULL => hdr[b].next \in reached,
                    reached # DOMAIN hdr
             PROVE  FALSE
  BY DEF ListComplete
<1>1. IsList(hdr) /\ \A b \in DOMAIN hdr : b \in Nat
  BY SoundIsList, Addresses DEF IsList
<1>2. PICK x \in DOMAIN hdr \ reached : \A y \in DOMAIN hdr \ reached : x <= y
  BY <1>1, LeastExists
<1>3. /\ hdr[x].prev \in DOMAIN hdr /\ hdr[x].prev < x
      /\ hdr[hdr[x].prev].next = x /\ x # NULL
  BY <1>1, PreviousBlock
<1>4. hdr[x].prev \in reached
  <2>1. hdr[x].prev \in Nat /\ x \in Nat
    BY <1>1, <1>3
  <2> QED BY <1>2, <1>3, <2>1
<1> QED BY <1>3, <1>4, <1>2

(* The first block of a list that is not empty is at the arena's start.    *)
LEMMA FirstBlock ==
  ASSUME NEW h, IsList(h), DOMAIN h # {}
  PROVE  HEAP_START \in DOMAIN h
<1>1. \A b \in DOMAIN h : b \in Nat
  BY Addresses DEF IsList
<1>2. PICK x \in DOMAIN h : \A y \in DOMAIN h : x <= y
  BY <1>1, LeastExists
<1>3. CASE x # HEAP_START
  <2>1. h[x].prev \in DOMAIN h /\ h[x].prev < x
    BY <1>3, PreviousBlock
  <2> QED BY <1>1, <1>2, <2>1
<1> QED BY <1>2, <1>3

(* The last block that begins at or before an address of the arena holds   *)
(* that address.                                                           *)
LEMMA BlockAt ==
  ASSUME NEW h, IsList(h), DOMAIN h # {}, NEW start \in HEAP_START .. HEAP_END - 1
  PROVE  \E b \in DOMAIN h : b <= start /\ start < BlockEnd(h, b)
<1> DEFINE S == {b \in DOMAIN h : b <= start}
<1>1. start \in Nat /\ HEAP_START \in Nat /\ HEAP_START <= start /\ start < HEAP_END
      /\ HEAP_END \in Nat
  BY HeapAssumption DEF HEAP_END
<1>2. HEAP_START \in S
  BY <1>1, FirstBlock
<1>3. S \in SUBSET Nat /\ S # {} /\ \A x \in S : x <= start
  BY <1>2, Addresses DEF IsList
<1>4. PICK b \in S : \A c \in S : c <= b
  BY <1>1, <1>3, GreatestExists
<1>5. b \in DOMAIN h /\ b <= start /\ b \in Nat
  BY <1>3
<1>6. ASSUME BlockEnd(h, b) <= start PROVE FALSE
  <2>1. BlockEnd(h, b) \in Nat /\ b < BlockEnd(h, b)
    BY <1>5, Addresses DEF IsList
  <2>2. BlockEnd(h, b) # HEAP_END
    BY <1>1, <1>6, <2>1
  <2>3. BlockEnd(h, b) \in S
    BY <1>5, <1>6, <2>2 DEF IsList, IsTiled
  <2> QED BY <1>4, <1>5, <2>1, <2>3
<1>7. start < BlockEnd(h, b)
  <2>1. BlockEnd(h, b) \in Nat
    BY <1>5, Addresses DEF IsList
  <2> QED BY <1>1, <1>6, <2>1
<1> QED BY <1>5, <1>7

(* Any stretch between two used blocks is one free block, because free     *)
(* neighbours are merged: so the search sees all of it.                    *)
LEMMA GapIsFound == Sound => NoHiddenGap
<1> SUFFICES ASSUME Sound,
                    NEW start \in HEAP_START .. HEAP_END - 1,
                    NEW n \in 1 .. HEAP_INITIAL_SIZE,
                    DOMAIN hdr # {}, start + HEADER + n <= HEAP_END,
                    \A b \in DOMAIN hdr :
                      hdr[b].used => start + HEADER + n <= b \/ BlockEnd(hdr, b) <= start
             PROVE  Fitting(hdr, n) # {}
  BY DEF NoHiddenGap
<1>1. IsList(hdr) /\ IsCoalesced(hdr)
  BY SoundIsList
<1>2. PICK b \in DOMAIN hdr : b <= start /\ start < BlockEnd(hdr, b)
  BY <1>1, BlockAt
<1>3. /\ b \in Nat /\ hdr[b].size \in Nat /\ BlockEnd(hdr, b) \in Nat
      /\ HEAP_END \in Nat
  BY <1>1, Addresses DEF IsList
<1>4. start \in Nat /\ n \in Nat /\ n > 0 /\ HEADER \in Nat
  BY HeapAssumption DEF HEAP_END
<1>5. ~hdr[b].used
  BY <1>2, <1>3, <1>4
<1>6. start + HEADER + n <= BlockEnd(hdr, b)
  <2>1. CASE hdr[b].next = NULL
    <3>1. BlockEnd(hdr, b) = HEAP_END \/ hdr[b].next \in DOMAIN hdr
      BY <1>1 DEF IsList, IsTiled
    <3>2. NULL \notin DOMAIN hdr
      BY <1>1, Addresses DEF IsList, NULL
    <3> QED BY <2>1, <3>1, <3>2
  <2>2. CASE hdr[b].next # NULL
    <3>1. /\ hdr[b].next \in DOMAIN hdr /\ hdr[b].next = BlockEnd(hdr, b)
          /\ hdr[hdr[b].next].used
      BY <1>1, <1>5, <2>2 DEF IsList, IsTiled, IsCoalesced
    <3> DEFINE c == BlockEnd(hdr, b)
    <3>2. c \in DOMAIN hdr /\ hdr[c].used /\ c < BlockEnd(hdr, c) /\ BlockEnd(hdr, c) \in Nat
      BY <1>1, <3>1, Addresses DEF IsList
    <3>3. start + HEADER + n <= c \/ BlockEnd(hdr, c) <= start
      BY <3>2
    <3> QED BY <1>2, <1>3, <1>4, <3>2, <3>3
  <2> QED BY <2>1, <2>2
<1>7. hdr[b].size >= n
  BY <1>2, <1>3, <1>4, <1>6 DEF BlockEnd
<1>8. b \in Fitting(hdr, n)
  BY <1>5, <1>7 DEF Fitting
<1> QED BY <1>8

(* find_free_block overlooks no room: its walk passes every block, and a   *)
(* stretch outside the used blocks that could hold a header and n bytes is *)
(* part of a free block of at least n bytes, until a write has overrun.    *)
THEOREM SearchIsComplete == Spec => []SearchFindsRoom
<1>1. HeapInv => SearchFindsRoom
  BY ListIsWalked, GapIsFound DEF SearchFindsRoom, Sound
<1> QED BY HeapInitInv, HeapStep, <1>1, PTL DEF Spec

-----------------------------------------------------------------------------
(* Alignment.  The sums below are of multiples of HEAP_ALIGNMENT.          *)

(* Multiples of the alignment add up to multiples.                         *)
LEMMA SumIsAligned ==
  ASSUME NEW a \in Int, a % HEAP_ALIGNMENT = 0,
         NEW b \in Int, b % HEAP_ALIGNMENT = 0
  PROVE  (a + b) % HEAP_ALIGNMENT = 0 /\ (a - b) % HEAP_ALIGNMENT = 0
<1> DEFINE A == HEAP_ALIGNMENT
<1>1. A \in Nat \ {0}
  BY HeapAssumption
<1>2. a % A = 0 /\ b % A = 0
  OBVIOUS
<1> HIDE DEF A
<1>3. a = A * (a \div A) /\ a \div A \in Int
  BY <1>1, <1>2
<1>4. b = A * (b \div A) /\ b \div A \in Int
  BY <1>1, <1>2
<1>5. \A k \in Int : (A * k) % A = 0
  BY <1>1
<1> DEFINE q == a \div A
           r == b \div A
<1>6. q \in Int /\ r \in Int /\ a = A * q /\ b = A * r
  BY <1>3, <1>4
<1> HIDE DEF q, r
<1>7. a + b = A * (q + r) /\ a - b = A * (q - r) /\ q + r \in Int /\ q - r \in Int
  BY <1>1, <1>6
<1>8. (a + b) % A = 0 /\ (a - b) % A = 0
  BY <1>5, <1>7
<1> QED BY <1>8 DEF A

(* The rounding of kmalloc gives a multiple.                               *)
LEMMA PaddedIsAligned ==
  ASSUME NEW size \in 0 .. WORD - 1
  PROVE  Padded(size) % HEAP_ALIGNMENT = 0
<1> DEFINE A == HEAP_ALIGNMENT
           up == (size + A - 1) % WORD
<1>1. A \in Nat \ {0} /\ HEADER % A = 0
  BY HeapAssumption
<1>2. up \in Int
  BY HeapAssumption
<1>3. Aligned(size) = up - (up % A)
  BY DEF Aligned
<1> HIDE DEF A, up
<1>4. up - (up % A) = A * (up \div A) /\ up \div A \in Int
  BY <1>1, <1>2
<1>5. \A k \in Int : (A * k) % A = 0
  BY <1>1
<1>6. Aligned(size) % A = 0
  BY <1>3, <1>4, <1>5
<1> QED BY <1>1, <1>6 DEF A, Padded

IsAligned(h) ==
  \A b \in DOMAIN h : b % HEAP_ALIGNMENT = 0 /\ h[b].size % HEAP_ALIGNMENT = 0

(* A split puts the new header on a multiple.                              *)
LEMMA TakeAligned ==
  ASSUME NEW h, IsList(h), IsAligned(h), NEW size \in Nat, size % HEAP_ALIGNMENT = 0,
         NEW b \in Fitting(h, size)
  PROVE  IsAligned(Take(h, b, size))
<1> DEFINE g == Take(h, b, size)
           new == b + HEADER + size
<1> USE HeapAssumption
<1>1. /\ b \in DOMAIN h /\ b \in Int /\ h[b].size \in Int /\ h[b] \in Block
      /\ h[b].size % HEAP_ALIGNMENT = 0 /\ HEADER \in Int /\ HEADER % HEAP_ALIGNMENT = 0
  BY Addresses DEF Fitting, IsList, IsTyped, IsAligned
<1>2. ASSUME NEW a \in DOMAIN h \ {b}
      PROVE  g[a].size % HEAP_ALIGNMENT = 0 /\ a % HEAP_ALIGNMENT = 0
  BY TakeFields DEF IsList, IsAligned
<1>3. CASE Splits(h, b, size)
  <2>1. new # b /\ new \notin DOMAIN h /\ h[b].next \notin {b, new}
    BY <1>1, <1>3, NewBlockIsFresh DEF IsList
  <2>2. /\ DOMAIN g = DOMAIN h \cup {new}
        /\ g[new].size = h[b].size - size - HEADER
        /\ g[b].size = size
    <3>1. g[new] = [size |-> h[b].size - size - HEADER,
                    used |-> FALSE, next |-> h[b].next, prev |-> b]
      BY <1>3, <2>1 DEF Take
    <3>2. g[b] = [size |-> size, used |-> TRUE, next |-> new, prev |-> h[b].prev]
      BY <1>1, <1>3, <2>1 DEF Take
    <3>3. DOMAIN g = DOMAIN h \cup {new}
      BY <1>3 DEF Take
    <3> QED BY <3>1, <3>2, <3>3
  <2>3. (b + HEADER) % HEAP_ALIGNMENT = 0 /\ b % HEAP_ALIGNMENT = 0
    BY <1>1, SumIsAligned DEF IsAligned
  <2>4. new % HEAP_ALIGNMENT = 0
    BY <1>1, <2>3, SumIsAligned
  <2>5. size \in Int /\ h[b].size - size \in Int
    BY <1>1
  <2>6. (h[b].size - size) % HEAP_ALIGNMENT = 0
    BY <1>1, <2>5, SumIsAligned
  <2>7. ((h[b].size - size) - HEADER) % HEAP_ALIGNMENT = 0
    BY <1>1, <2>5, <2>6, SumIsAligned
  <2> HIDE DEF g, new
  <2> QED BY <1>2, <2>2, <2>3, <2>4, <2>7 DEF IsAligned, g
<1>4. CASE ~Splits(h, b, size)
  <2>1. DOMAIN g = DOMAIN h /\ g[b].size = h[b].size
    BY <1>1, <1>4 DEF Take, IsList, IsTyped, Block
  <2> HIDE DEF g
  <2> QED BY <1>1, <1>2, <2>1 DEF IsAligned, g
<1> QED BY <1>3, <1>4

(* A merge keeps the sizes multiples.                                      *)
LEMMA AbsorbAligned ==
  ASSUME NEW h, IsList(h), IsAligned(h), NEW p \in DOMAIN h, h[p].next # NULL
  PROVE  IsAligned(Absorb(h, p, h[p].next))
<1> DEFINE n == h[p].next
           g == Absorb(h, p, n)
<1>1. Absorbed(g, h, p, n, h[n].next)
  BY AbsorbFields DEF IsList
<1> HIDE DEF g, n
<1>2. /\ n \in DOMAIN h /\ h[p].size \in Int /\ h[n].size \in Int
      /\ HEADER \in Int /\ HEADER % HEAP_ALIGNMENT = 0
  BY <1>1, HeapAssumption, Addresses DEF IsList, Absorbed
<1>3. (h[p].size + h[n].size) % HEAP_ALIGNMENT = 0
  BY <1>2, SumIsAligned DEF IsAligned
<1>4. (h[p].size + h[n].size + HEADER) % HEAP_ALIGNMENT = 0
  BY <1>2, <1>3, SumIsAligned
<1>5. IsAligned(g)
  BY <1>1, <1>4 DEF IsAligned, Absorbed
<1> QED BY <1>5 DEF g, n

(* kfree keeps the alignment, ...                                          *)
LEMMA ReleaseAligned ==
  ASSUME NEW h, IsList(h), IsCoalesced(h), IsAligned(h), NEW b \in DOMAIN h, h[b].used
  PROVE  IsAligned(Release(h, b))
<1> DEFINE f == Unmark(h, b)
           left == IF Unused(f, f[b].prev) THEN f[b].prev ELSE b
           g == MergePrev(f, b)
<1>1. /\ IsList(f) /\ DOMAIN f = DOMAIN h /\ ~f[b].used
      /\ \A a \in DOMAIN h : f[a].size = h[a].size /\ f[a].next = h[a].next
      /\ \A a \in DOMAIN h \ {b} : f[a].used = h[a].used
  BY UnmarkFacts
<1>2. Release(h, b) = MergeNext(g, left)
  BY DEF Release
<1> HIDE DEF f
<1>3. \A a \in DOMAIN f \ {b} :
        ~f[a].used /\ f[a].next # NULL /\ f[a].next # b => f[f[a].next].used
  <2>1. \A a \in DOMAIN h : h[a].next # NULL => h[a].next \in DOMAIN h
    BY DEF IsList, IsTiled
  <2> QED BY <1>1, <2>1 DEF IsCoalesced
<1>4. IsList(g) /\ left \in DOMAIN g
  BY <1>1, <1>3, MergePrevKeeps DEF Keeps
<1>5. IsAligned(f)
  BY <1>1 DEF IsAligned
<1>6. IsAligned(g)
  <2>1. CASE Unused(f, f[b].prev)
    <3>1. /\ f[b].prev \in DOMAIN f /\ f[f[b].prev].next = b
          /\ f[f[b].prev].next # NULL
      BY <1>1, <2>1, Addresses DEF Unused, IsList, IsTiled, NULL
    <3> QED BY <1>1, <1>5, <2>1, <3>1, AbsorbAligned DEF MergePrev
  <2> QED BY <1>5, <2>1 DEF MergePrev
<1> HIDE DEF g, left
<1>7. IsAligned(MergeNext(g, left))
  BY <1>4, <1>6, AbsorbAligned DEF MergeNext, Unused
<1> QED BY <1>2, <1>7

(* ... and a write too: what it leaves of the list is as it was.           *)
LEMMA OverwriteAligned ==
  ASSUME NEW h, IsTyped(h), IsAligned(h), NEW b \in DOMAIN h, NEW n
  PROVE  IsAligned(Overwrite(h, b + HEADER, n))
<1> DEFINE g == Overwrite(h, b + HEADER, n)
<1>1. \A a \in DOMAIN g : a \in DOMAIN h /\ g[a] = h[a]
  BY OverwriteFacts
<1> HIDE DEF g
<1>2. IsAligned(g)
  BY <1>1 DEF IsAligned
<1> QED BY <1>2 DEF g

AlignInv == HeapInv /\ IsAligned(hdr)

(* Every call keeps the alignment.                                         *)
LEMMA AlignStep == AlignInv /\ [Next]_vars => IsAligned(hdr)'
<1> SUFFICES ASSUME AlignInv, [Next]_vars PROVE IsAligned(hdr)'
  OBVIOUS
<1>1. ASSUME UNCHANGED hdr PROVE IsAligned(hdr)'
  BY <1>1 DEF AlignInv
<1>2. CASE Next
  <2>0. /\ Sound /\ Requests \subseteq 0 .. WORD - 1
        /\ IsList(hdr) /\ IsCoalesced(hdr) /\ IsAligned(hdr)
    BY <1>2, HeapAssumption, SoundIsList DEF AlignInv, Sound, Next
  <2>1. ASSUME NEW size \in 0 .. WORD - 1, NEW b \in DOMAIN hdr,
               IsBestFit(hdr, b, Padded(size))
        PROVE  LET taken == Take(hdr, b, Padded(size))
               IN  /\ IsAligned(taken) /\ IsTyped(taken) /\ b \in DOMAIN taken
                   /\ \A n : IsAligned(Overwrite(taken, b + HEADER, n))
    <3> DEFINE taken == Take(hdr, b, Padded(size))
    <3>1. /\ Padded(size) \in Nat /\ Padded(size) % HEAP_ALIGNMENT = 0
          /\ b \in Fitting(hdr, Padded(size)) /\ IsTyped(taken) /\ b \in DOMAIN taken
      BY <2>0, <2>1, TakenIsList, PaddedIsAligned DEF IsList
    <3>2. IsAligned(taken)
      BY <2>0, <3>1, TakeAligned
    <3> HIDE DEF taken
    <3> QED BY <3>1, <3>2, OverwriteAligned DEF taken
  <2>2. CASE heap_init
    BY <2>2, HeapAssumption, SumIsAligned DEF heap_init, IsAligned
  <2>3. ASSUME NEW size \in Requests, kmalloc(size)
        PROVE  IsAligned(hdr)'
    BY <1>1, <2>0, <2>1, <2>3 DEF kmalloc, Refused, Served
  <2>4. ASSUME NEW num \in Requests, NEW size \in Requests, kcalloc(num, size)
        PROVE  IsAligned(hdr)'
    <3>1. PICK total \in 0 .. WORD - 1 :
            \/ Refused(total)
            \/ \E b \in DOMAIN hdr : Cleared(total, b) \/ Smashed(total, b)
      BY <2>0, <2>4, KcallocCases
    <3>2. ASSUME NEW b \in DOMAIN hdr, Cleared(total, b) \/ Smashed(total, b)
          PROVE  IsAligned(hdr)'
      BY <2>1, <3>2 DEF Cleared, Smashed, Served
    <3> QED BY <1>1, <3>1, <3>2 DEF Refused
  <2>5. ASSUME NEW b \in DOMAIN hdr, kfree(b)
        PROVE  IsAligned(hdr)'
    <3>1. CASE hdr[b].used /\ hdr' = Release(hdr, b)
      BY <2>0, <3>1, ReleaseAligned
    <3> QED BY <1>1, <2>5, <3>1 DEF kfree, vars
  <2>6. ASSUME NEW b \in DOMAIN hdr, NEW size \in Requests, krealloc(b, size)
        PROVE  IsAligned(hdr)'
    <3>1. ASSUME NEW n \in DOMAIN hdr, hdr[b].used, IsBestFit(hdr, n, Padded(size)),
                 Moved(b, size, n)
          PROVE  IsAligned(hdr)'
      <4> DEFINE taken == Take(hdr, n, Padded(size))
      <4>1. /\ IsList(taken) /\ IsCoalesced(taken) /\ IsAligned(taken)
            /\ UsedIn(taken) = UsedIn(hdr) \cup {n}
        BY <2>0, <2>1, <3>1, TakenIsList
      <4>2. b \in DOMAIN taken /\ taken[b].used
        BY <3>1, <4>1 DEF UsedIn
      <4>3. hdr' = Release(taken, b)
        BY <3>1 DEF Moved
      <4> HIDE DEF taken
      <4> QED BY <4>1, <4>2, <4>3, ReleaseAligned
    <3>2. ASSUME NEW n \in DOMAIN hdr, IsBestFit(hdr, n, Padded(size)), Trampled(b, size, n)
          PROVE  IsAligned(hdr)'
      BY <2>0, <2>1, <3>2 DEF Trampled
    <3> QED BY <1>1, <2>6, <3>1, <3>2 DEF krealloc, Refused
  <2> QED BY <1>2, <2>2, <2>3, <2>4, <2>5, <2>6 DEF Next
<1> QED BY <1>1, <1>2 DEF vars

(* Every header and every payload lies on a multiple of the alignment: the *)
(* header's size, the rounding of requests and the remainders of splits    *)
(* keep it through any sequence of calls.                                  *)
THEOREM AlignmentIsKept == Spec => []PayloadsAligned
<1>1. Init => AlignInv
  BY HeapInitInv DEF AlignInv, Init, IsAligned
<1>2. AlignInv /\ [Next]_vars => AlignInv'
  BY HeapStep, AlignStep DEF AlignInv
<1>3. AlignInv => PayloadsAligned
  <2> SUFFICES ASSUME AlignInv, NEW b \in DOMAIN hdr
               PROVE  (b + HEADER) % HEAP_ALIGNMENT = 0 /\ hdr[b].size % HEAP_ALIGNMENT = 0
    BY DEF PayloadsAligned
  <2>1. b \in Int /\ HEADER \in Int /\ HEADER % HEAP_ALIGNMENT = 0
    BY HeapAssumption, Addresses DEF AlignInv, HeapInv, TypeOK
  <2> QED BY <2>1, SumIsAligned DEF AlignInv, IsAligned
<1> QED BY <1>1, <1>2, <1>3, PTL DEF Spec

-----------------------------------------------------------------------------
(* The counters.  UsedBytes of any list:                                   *)
BytesIn(h) == UNION {PayloadBytes(h, b) : b \in UsedIn(h)}

(* A payload has as many bytes as its header says.                         *)
LEMMA PayloadSize ==
  ASSUME NEW h, IsTyped(h), NEW b \in DOMAIN h
  PROVE  IsFiniteSet(PayloadBytes(h, b)) /\ Cardinality(PayloadBytes(h, b)) = h[b].size
<1>1. /\ b \in Nat /\ h[b].size \in Nat /\ HEADER \in Nat
      /\ b + HEADER \in Int /\ BlockEnd(h, b) - 1 \in Int
  BY HeapAssumption, Addresses
<1> DEFINE lo == b + HEADER
           hi == BlockEnd(h, b) - 1
<1>2. lo \in Int /\ hi \in Int /\ hi = lo + h[b].size - 1
  BY <1>1 DEF BlockEnd
<1>3. PayloadBytes(h, b) = lo .. hi
  BY DEF PayloadBytes
<1> HIDE DEF lo, hi
<1>4. IsFiniteSet(lo .. hi) /\ Cardinality(lo .. hi) = IF lo > hi THEN 0 ELSE hi - lo + 1
  BY <1>2, FS_Interval
<1> QED BY <1>1, <1>2, <1>3, <1>4

(* The bytes in use can be counted.                                        *)
LEMMA BytesAreFinite ==
  ASSUME NEW h, IsList(h)
  PROVE  IsFiniteSet(BytesIn(h)) /\ IsFiniteSet(DOMAIN h)
<1>1. HEAP_START \in Int /\ HEAP_END - 1 \in Int
  BY HeapAssumption DEF HEAP_END
<1>2. IsFiniteSet(HEAP_START .. HEAP_END - 1)
  BY <1>1, FS_Interval
<1>3. DOMAIN h \subseteq HEAP_START .. HEAP_END - 1
  BY DEF IsList, IsTyped
<1>4. ASSUME NEW b \in UsedIn(h) PROVE PayloadBytes(h, b) \subseteq HEAP_START .. HEAP_END - 1
  <2>1. b \in DOMAIN h /\ b \in Nat /\ h[b].size \in Nat /\ HEADER \in Nat /\ HEAP_START \in Nat
    BY HeapAssumption, Addresses DEF IsList, UsedIn
  <2>2. Malloc!Bytes(b + HEADER, h[b].size) \subseteq HEAP_START + HEADER .. HEAP_END - 1
    BY <2>1, PayloadInArena
  <2>3. PayloadBytes(h, b) \subseteq Malloc!Bytes(b + HEADER, h[b].size)
    BY <2>1 DEF PayloadBytes, BlockEnd, Malloc!Bytes
  <2>4. HEAP_START + HEADER .. HEAP_END - 1 \subseteq HEAP_START .. HEAP_END - 1
    BY <1>1, <2>1
  <2> QED BY <2>2, <2>3, <2>4
<1>5. BytesIn(h) \subseteq HEAP_START .. HEAP_END - 1
  BY <1>4 DEF BytesIn
<1> QED BY <1>2, <1>3, <1>5, FS_Subset

(* The list g has one more block in use than the list h.                   *)
LEMMA OneMoreInUse ==
  ASSUME NEW h, IsList(h), NEW g, IsList(g), NEW b \in DOMAIN g, b \notin UsedIn(h),
         UsedIn(g) = UsedIn(h) \cup {b}, SameSizes(g, h, UsedIn(h))
  PROVE  Cardinality(BytesIn(g)) = Cardinality(BytesIn(h)) + g[b].size
<1>1. \A a \in UsedIn(h) : PayloadBytes(g, a) = PayloadBytes(h, a)
  BY DEF SameSizes, PayloadBytes, BlockEnd
<1>2. BytesIn(g) = BytesIn(h) \cup PayloadBytes(g, b)
  BY <1>1 DEF BytesIn
<1>3. ASSUME NEW a \in UsedIn(h) PROVE PayloadBytes(h, a) \cap PayloadBytes(g, b) = {}
  <2>1. a \in DOMAIN g /\ a # b
    BY DEF UsedIn
  <2>2. /\ a \in Nat /\ b \in Nat /\ HEADER \in Nat
        /\ BlockEnd(g, a) \in Nat /\ BlockEnd(g, b) \in Nat
    BY <2>1, HeapAssumption, Addresses DEF IsList
  <2>3. BlockEnd(g, a) <= b \/ BlockEnd(g, b) <= a
    BY <2>1, <2>2 DEF IsList, IsTiled
  <2>4. PayloadBytes(g, a) \cap PayloadBytes(g, b) = {}
    BY <2>2, <2>3 DEF PayloadBytes
  <2> QED BY <1>1, <2>4
<1>4. BytesIn(h) \cap PayloadBytes(g, b) = {}
  BY <1>3 DEF BytesIn
<1>5. IsFiniteSet(BytesIn(h)) /\ IsFiniteSet(PayloadBytes(g, b))
      /\ Cardinality(PayloadBytes(g, b)) = g[b].size /\ g[b].size \in Nat
  BY BytesAreFinite, PayloadSize, Addresses DEF IsList
<1>6. /\ Cardinality(BytesIn(h)) \in Nat
      /\ Cardinality(BytesIn(h) \cap PayloadBytes(g, b)) = 0
  BY <1>4, <1>5, FS_CardinalityType, FS_EmptySet
<1>7. Cardinality(BytesIn(h) \cup PayloadBytes(g, b)) =
        Cardinality(BytesIn(h)) + Cardinality(PayloadBytes(g, b))
          - Cardinality(BytesIn(h) \cap PayloadBytes(g, b))
  BY <1>5, FS_Union
<1> DEFINE joined == Cardinality(BytesIn(h) \cup PayloadBytes(g, b))
<1>8. Cardinality(BytesIn(g)) = joined
  BY <1>2
<1> QED BY <1>5, <1>6, <1>7, <1>8

(* A split adds one header to the list.                                    *)
LEMMA TakeCounts ==
  ASSUME NEW h, IsList(h), NEW size \in Nat, NEW b \in Fitting(h, size)
  PROVE  Cardinality(DOMAIN Take(h, b, size)) = Cardinality(DOMAIN h) + Splitting(h, b, size)
<1>1. IsFiniteSet(DOMAIN h) /\ Cardinality(DOMAIN h) \in Nat
  BY BytesAreFinite, FS_CardinalityType
<1>2. CASE Splits(h, b, size)
  <2>1. DOMAIN Take(h, b, size) = DOMAIN h \cup {b + HEADER + size}
    BY <1>2 DEF Take
  <2>2. b + HEADER + size \notin DOMAIN h
    BY <1>2, NewBlockIsFresh DEF IsList
  <2> QED BY <1>1, <1>2, <2>1, <2>2, FS_AddElement DEF Splitting
<1>3. CASE ~Splits(h, b, size)
  BY <1>1, <1>3 DEF Take, Splitting
<1> QED BY <1>2, <1>3

(* A merge removes one.                                                    *)
LEMMA AbsorbCounts ==
  ASSUME NEW h, IsList(h), NEW p \in DOMAIN h, h[p].next # NULL
  PROVE  Cardinality(DOMAIN Absorb(h, p, h[p].next)) = Cardinality(DOMAIN h) - 1
<1>1. /\ DOMAIN Absorb(h, p, h[p].next) = DOMAIN h \ {h[p].next}
      /\ h[p].next \in DOMAIN h
  <2>1. Absorbed(Absorb(h, p, h[p].next), h, p, h[p].next, h[h[p].next].next)
    BY AbsorbFields DEF IsList
  <2> QED BY <2>1 DEF Absorbed
<1> QED BY <1>1, BytesAreFinite, FS_RemoveElement

(* kfree removes as many as it has merged.                                 *)
LEMMA ReleaseCounts ==
  ASSUME NEW h, IsList(h), IsCoalesced(h), NEW b \in DOMAIN h, h[b].used
  PROVE  Cardinality(DOMAIN Release(h, b)) = Cardinality(DOMAIN h) - Merging(h, b)
<1> DEFINE f == Unmark(h, b)
           prev == f[b].prev
           next == f[b].next
           left == IF Unused(f, prev) THEN prev ELSE b
           g == MergePrev(f, b)
<1>1. /\ IsList(f) /\ DOMAIN f = DOMAIN h /\ ~f[b].used
      /\ \A a \in DOMAIN h : f[a].size = h[a].size /\ f[a].next = h[a].next
      /\ \A a \in DOMAIN h \ {b} : f[a].used = h[a].used
  BY UnmarkFacts
<1>2. /\ Release(h, b) = MergeNext(g, left)
      /\ Merging(h, b) = Cardinality({a \in {prev, next} : Unused(f, a)})
  BY DEF Release, Merging
<1> HIDE DEF f
<1>3. \A a \in DOMAIN f \ {b} :
        ~f[a].used /\ f[a].next # NULL /\ f[a].next # b => f[f[a].next].used
  <2>1. \A a \in DOMAIN h : h[a].next # NULL => h[a].next \in DOMAIN h
    BY DEF IsList, IsTiled
  <2> QED BY <1>1, <2>1 DEF IsCoalesced
<1>4. IsList(g) /\ left \in DOMAIN g
  BY <1>1, <1>3, MergePrevKeeps DEF Keeps
<1>5. Cardinality(DOMAIN f) \in Nat
  BY <1>1, BytesAreFinite, FS_CardinalityType
<1>6. prev # next \/ prev = NULL
  <2>1. prev # NULL => prev \in DOMAIN f /\ f[prev].next = b
    BY <1>1 DEF IsList, IsTiled
  <2>2. prev # NULL => prev < b
    BY <1>1, <2>1, Addresses DEF IsList, IsTiled, NULL
  <2>3. next # NULL => next \in DOMAIN f /\ b < next
    BY <1>1, Addresses DEF IsList, IsTiled
  <2> QED BY <1>1, <2>1, <2>2, <2>3, Addresses DEF IsList
<1>7. /\ Cardinality(DOMAIN g) = Cardinality(DOMAIN f) - (IF Unused(f, prev) THEN 1 ELSE 0)
      /\ Unused(g, g[left].next) <=> Unused(f, next)
  <2>1. CASE Unused(f, prev)
    <3>1. prev \in DOMAIN f /\ f[prev].next = b /\ f[prev].next # NULL
      BY <1>1, <2>1, Addresses DEF Unused, IsList, IsTiled, NULL
    <3>2. g = Absorb(f, prev, f[prev].next) /\ left = prev
      BY <2>1, <3>1 DEF MergePrev
    <3>3. Cardinality(DOMAIN g) = Cardinality(DOMAIN f) - 1
      BY <1>1, <3>1, <3>2, AbsorbCounts
    <3>4. Absorbed(g, f, prev, b, next)
      BY <1>1, <3>1, <3>2, AbsorbFields DEF IsList
    <3>5. g[left].next = next
      BY <3>2, <3>4 DEF Absorbed
    <3>6. next # NULL => next \in DOMAIN f
      BY <1>1 DEF IsList, IsTiled
    <3>7. next # NULL => (g[next].used <=> f[next].used)
      BY <3>4, <3>6 DEF Absorbed
    <3> QED BY <2>1, <3>3, <3>5, <3>7 DEF Unused
  <2>2. CASE ~Unused(f, prev)
    BY <1>5, <2>2 DEF MergePrev
  <2> QED BY <2>1, <2>2
<1> HIDE DEF g, left
<1>8. Cardinality(DOMAIN MergeNext(g, left)) =
        Cardinality(DOMAIN g) - (IF Unused(f, next) THEN 1 ELSE 0)
  <2>1. Cardinality(DOMAIN g) \in Nat
    BY <1>4, BytesAreFinite, FS_CardinalityType
  <2> QED BY <1>4, <1>7, <2>1, AbsorbCounts DEF MergeNext, Unused
<1>9. Cardinality({a \in {prev, next} : Unused(f, a)}) =
        (IF Unused(f, prev) THEN 1 ELSE 0) + (IF Unused(f, next) THEN 1 ELSE 0)
  <2> DEFINE S == {a \in {prev, next} : Unused(f, a)}
  <2>1. IsFiniteSet({}) /\ Cardinality({}) = 0
    BY FS_EmptySet
  <2>2. /\ IsFiniteSet({prev}) /\ Cardinality({prev}) = 1
        /\ IsFiniteSet({next}) /\ Cardinality({next}) = 1
    BY FS_Singleton
  <2>3. CASE ~Unused(f, prev) /\ ~Unused(f, next)
    <3>1. S = {}
      BY <2>3
    <3> QED BY <2>1, <2>3, <3>1
  <2>4. CASE Unused(f, prev) /\ ~Unused(f, next)
    <3>1. S = {prev}
      BY <2>4
    <3> QED BY <2>2, <2>4, <3>1
  <2>5. CASE ~Unused(f, prev) /\ Unused(f, next)
    <3>1. S = {next}
      BY <2>5
    <3> QED BY <2>2, <2>5, <3>1
  <2>6. CASE Unused(f, prev) /\ Unused(f, next)
    <3>1. S = {prev} \cup {next} /\ next \notin {prev}
      BY <1>6, <2>6 DEF Unused
    <3>2. Cardinality({prev} \cup {next}) = 2
      BY <2>2, <3>1, FS_AddElement
    <3> QED BY <2>6, <3>1, <3>2
  <2> QED BY <2>3, <2>4, <2>5, <2>6
<1>10. Cardinality(DOMAIN Release(h, b)) =
         Cardinality(DOMAIN f) - ((IF Unused(f, prev) THEN 1 ELSE 0)
                                  + (IF Unused(f, next) THEN 1 ELSE 0))
  BY <1>2, <1>5, <1>7, <1>8
<1> QED BY <1>1, <1>2, <1>9, <1>10

(* What the counters count, for any list.                                  *)
Counts(h, bytes, blocks) ==
  bytes = Cardinality(BytesIn(h)) /\ blocks = Cardinality(DOMAIN h)

(* kmalloc's updates of the counters match what it took.                   *)
LEMMA TakeKeepsCounts ==
  ASSUME NEW h, IsList(h), IsCoalesced(h), NEW size \in Nat, size > 0,
         NEW b \in Fitting(h, size), NEW bytes, NEW blocks, Counts(h, bytes, blocks)
  PROVE  Counts(Take(h, b, size), bytes + Take(h, b, size)[b].size,
                blocks + Splitting(h, b, size))
<1> DEFINE g == Take(h, b, size)
<1>1. /\ IsList(g) /\ UsedIn(g) = UsedIn(h) \cup {b} /\ SameSizes(g, h, UsedIn(h))
      /\ b \in DOMAIN h /\ b \notin UsedIn(h)
  BY TakeKeeps
<1>2. Cardinality(DOMAIN g) = Cardinality(DOMAIN h) + Splitting(h, b, size)
  BY TakeCounts
<1> HIDE DEF g
<1>3. b \in DOMAIN g
  BY <1>1 DEF UsedIn
<1>4. Cardinality(BytesIn(g)) = Cardinality(BytesIn(h)) + g[b].size
  BY <1>1, <1>3, OneMoreInUse
<1> QED BY <1>2, <1>4 DEF Counts, g

(* kfree's match what it released.                                         *)
LEMMA ReleaseKeepsCounts ==
  ASSUME NEW h, IsList(h), IsCoalesced(h), NEW b \in DOMAIN h, h[b].used,
         NEW bytes, NEW blocks, Counts(h, bytes, blocks)
  PROVE  Counts(Release(h, b), bytes - h[b].size, blocks - Merging(h, b))
<1> DEFINE g == Release(h, b)
<1>1. /\ IsList(g) /\ UsedIn(g) = UsedIn(h) \ {b}
      /\ SameSizes(g, h, UsedIn(h) \ {b})
  BY ReleaseKeeps
<1>2. Cardinality(DOMAIN g) = Cardinality(DOMAIN h) - Merging(h, b)
  BY ReleaseCounts
<1> HIDE DEF g
<1>3. /\ b \notin UsedIn(g) /\ UsedIn(h) = UsedIn(g) \cup {b}
      /\ SameSizes(h, g, UsedIn(g))
  BY <1>1 DEF UsedIn, SameSizes
<1>4. Cardinality(BytesIn(h)) = Cardinality(BytesIn(g)) + h[b].size
  BY <1>1, <1>3, OneMoreInUse
<1>5. Cardinality(BytesIn(g)) \in Nat /\ h[b].size \in Nat
  BY <1>1, BytesAreFinite, FS_CardinalityType, Addresses DEF IsList
<1> QED BY <1>2, <1>4, <1>5 DEF Counts, g

CountInv == HeapInv /\ (~Overrun => Counts(hdr, used_size, block_count))

CountsAfter == Counts(hdr', used_size', block_count')

(* The counters after kmalloc has served a block, for any of its callers.  *)
LEMMA ServedCounts ==
  ASSUME Sound, Counts(hdr, used_size, block_count),
         NEW size \in 0 .. WORD - 1, NEW b \in DOMAIN hdr, IsBestFit(hdr, b, Padded(size))
  PROVE  Counts(Take(hdr, b, Padded(size)),
                used_size + Take(hdr, b, Padded(size))[b].size,
                block_count + Splitting(hdr, b, Padded(size)))
BY SoundIsList, TakenIsList, TakeKeepsCounts

(* Every call that overruns nothing keeps the counters exact.              *)
LEMMA CountStep == CountInv /\ [Next]_vars => (Overrun' \/ CountsAfter)
<1> SUFFICES ASSUME CountInv, [Next]_vars, ~Overrun' PROVE CountsAfter
  OBVIOUS
<1>1. CASE UNCHANGED vars
  BY <1>1 DEF vars, CountInv, Overrun, CountsAfter
<1>2. CASE Next
  <2>0. /\ Sound /\ Requests \subseteq 0 .. WORD - 1
        /\ IsList(hdr) /\ IsCoalesced(hdr) /\ Counts(hdr, used_size, block_count)
        /\ used_size \in Int /\ block_count \in Int
    BY <1>2, HeapAssumption, SoundIsList DEF CountInv, Sound, Next, TypeOK
  <2>1. ASSUME UNCHANGED <<hdr, used_size, block_count>>
        PROVE  CountsAfter
    BY <2>0, <2>1 DEF CountsAfter
  <2>2. CASE heap_init
    <3>1. UsedIn(hdr') = {}
      BY <2>2 DEF heap_init, UsedIn
    <3>2. BytesIn(hdr') = {} /\ DOMAIN hdr' = {HEAP_START}
      BY <2>2, <3>1 DEF heap_init, BytesIn
    <3>3. Cardinality({}) = 0 /\ Cardinality({HEAP_START}) = 1
      BY FS_EmptySet, FS_Singleton
    <3> QED BY <2>2, <3>2, <3>3 DEF heap_init, Counts, CountsAfter
  <2>3. ASSUME NEW size \in Requests, kmalloc(size)
        PROVE  CountsAfter
    BY <2>0, <2>1, <2>3, ServedCounts DEF kmalloc, Refused, Served, CountsAfter
  <2>4. ASSUME NEW num \in Requests, NEW size \in Requests, kcalloc(num, size)
        PROVE  CountsAfter
    <3>1. PICK total \in 0 .. WORD - 1 :
            \/ Refused(total)
            \/ \E b \in DOMAIN hdr :
                 /\ Cleared(total, b) \/ Smashed(total, b)
                 /\ wrote' = Write(b + HEADER, NULL, total)
      BY <2>0, <2>4, KcallocCases
    <3>2. ASSUME NEW b \in DOMAIN hdr, Cleared(total, b)
          PROVE  CountsAfter
      BY <2>0, <3>2, ServedCounts DEF Cleared, Served, CountsAfter
    <3>3. ASSUME NEW b \in DOMAIN hdr, Smashed(total, b),
                 wrote' = Write(b + HEADER, NULL, total)
          PROVE  FALSE
      <4> DEFINE taken == Take(hdr, b, Padded(total))
      <4>1. b \in Nat /\ IsTyped(taken) /\ b \in DOMAIN taken
        BY <2>0, <3>3, TakenIsList DEF Smashed, Served, IsList
      <4>2. hdr'[b] = taken[b]
        BY <3>3, <4>1, OverwriteFacts DEF Smashed
      <4> QED BY <3>3, <4>1, <4>2, WhatOverruns DEF Smashed
    <3> QED BY <2>1, <3>1, <3>2, <3>3 DEF Refused
  <2>5. ASSUME NEW b \in DOMAIN hdr, kfree(b)
        PROVE  CountsAfter
    <3>1. CASE /\ hdr[b].used /\ hdr' = Release(hdr, b)
               /\ used_size' = used_size - hdr[b].size
               /\ block_count' = block_count - Merging(hdr, b)
      BY <2>0, <3>1, ReleaseKeepsCounts DEF CountsAfter
    <3> QED BY <2>1, <2>5, <3>1 DEF kfree, vars
  <2>6. ASSUME NEW b \in DOMAIN hdr, NEW size \in Requests, krealloc(b, size)
        PROVE  CountsAfter
    <3>1. ASSUME NEW n \in DOMAIN hdr, hdr[b].used, IsBestFit(hdr, n, Padded(size)),
                 Moved(b, size, n)
          PROVE  CountsAfter
      <4> DEFINE taken == Take(hdr, n, Padded(size))
                 bytes == used_size + taken[n].size
                 blocks == block_count + Splitting(hdr, n, Padded(size))
      <4>1. /\ IsList(taken) /\ IsCoalesced(taken)
            /\ UsedIn(taken) = UsedIn(hdr) \cup {n} /\ SameSizes(taken, hdr, UsedIn(hdr))
            /\ taken[n].size \in Nat
        BY <2>0, <3>1, TakenIsList
      <4>2. Counts(taken, bytes, blocks)
        BY <2>0, <3>1, ServedCounts
      <4>3. /\ hdr' = Release(taken, b)
            /\ used_size' = bytes - hdr[b].size
            /\ block_count' = blocks - Merging(taken, b)
        <5>1. /\ hdr[b].size \in Int
              /\ Splitting(hdr, n, Padded(size)) \in Int /\ Merging(taken, b) \in Int
          BY <2>0, Addresses, MergingType DEF IsList, Splitting
        <5> QED BY <2>0, <3>1, <4>1, <5>1 DEF Moved
      <4> HIDE DEF taken, bytes, blocks
      <4>4. b \in DOMAIN taken /\ taken[b].used /\ taken[b].size = hdr[b].size
        BY <3>1, <4>1 DEF UsedIn, SameSizes
      <4> QED BY <4>1, <4>2, <4>3, <4>4, ReleaseKeepsCounts DEF CountsAfter
    <3>2. ASSUME NEW n \in DOMAIN hdr, IsBestFit(hdr, n, Padded(size)),
                 Trampled(b, size, n),
                 wrote' = Write(n + HEADER, b + HEADER, hdr[b].size)
          PROVE  FALSE
      <4> DEFINE taken == Take(hdr, n, Padded(size))
      <4>1. n \in Nat /\ IsTyped(taken) /\ n \in DOMAIN taken
        BY <2>0, <3>2, TakenIsList DEF IsList
      <4>2. hdr'[n] = taken[n]
        BY <3>2, <4>1, OverwriteFacts DEF Trampled
      <4> QED BY <3>2, <4>1, <4>2, WhatOverruns DEF Trampled
    <3> QED BY <2>1, <2>6, <3>1, <3>2 DEF krealloc, Refused
  <2> QED BY <1>2, <2>2, <2>3, <2>4, <2>5, <2>6 DEF Next
<1> QED BY <1>1, <1>2

(* The statistics never drift: used_size is the number of bytes in the     *)
(* payloads handed out, block_count the number of headers on the list,     *)
(* after every mix of splits, of single and double merges and of moves,    *)
(* until a write has overrun its payload.                                  *)
THEOREM CountersAreExact == Spec => []CountersExact
<1>1. Init => CountInv
  <2> SUFFICES ASSUME Init PROVE CountInv
    OBVIOUS
  <2>1. DOMAIN hdr = {} /\ BytesIn(hdr) = {}
    BY DEF Init, BytesIn, UsedIn
  <2> QED BY <2>1, HeapInitInv, FS_EmptySet DEF CountInv, Counts, Init
<1>2. CountInv /\ [Next]_vars => CountInv'
  <2> SUFFICES ASSUME CountInv, [Next]_vars PROVE CountInv'
    OBVIOUS
  <2>1. HeapInv'
    BY HeapStep DEF CountInv
  <2>2. Overrun' \/ CountsAfter
    BY CountStep
  <2> QED BY <2>1, <2>2
    DEF CountInv, CountsAfter, Counts, BytesIn, UsedIn, PayloadBytes, BlockEnd
<1>3. CountInv => CountersExact
  BY DEF CountInv, Counts, CountersExact, UsedBytes, UsedBlocks, BytesIn, UsedIn
<1> QED BY <1>1, <1>2, <1>3, PTL DEF Spec
=============================================================================
