--------------------------- MODULE AllocatorProofs ---------------------------
(* For every alignment, header size, memory and sizes: the parser's blocks    *)
(* lie apart and aligned, each of them and only they own a block of the       *)
(* allocator of Rust, and what the parser wrote stays.                        *)
(*                                                                            *)
(* The invariant ties each pointer p to the base b it came from: p is User(b),*)
(* the header before p says so, and blocks at different bases do not meet.    *)
EXTENDS Allocator, TLAPS

Names(p, b) ==
  /\ b \in DOMAIN heap
  /\ p = User(b)
  /\ heap[b] = Layout(blocks[p])
  /\ memory[p - HeaderSize] = HeaderCell(heap[b], p - b)

HeapInv ==
  \A b \in DOMAIN heap :
    /\ b \in Addresses /\ heap[b] \in Nat /\ b + heap[b] <= Memory
    /\ \A c \in DOMAIN heap : b # c => b + heap[b] <= c \/ c + heap[c] <= b

NamesInv ==
  /\ \A p \in DOMAIN blocks :
       p \in Nat /\ blocks[p] \in Nat \ {0} /\ \E b \in DOMAIN heap : Names(p, b)
  /\ \A b \in DOMAIN heap : \E p \in DOMAIN blocks : Names(p, b)

ReliedInv ==
  \A a \in Addresses : relied[a] # Any =>
    memory[a] = relied[a] /\ \E p \in DOMAIN blocks : a \in Area(p, blocks[p])

IInv == HeapInv /\ NamesInv /\ ReliedInv
-----------------------------------------------------------------------------
(* Rounding down to a multiple of Align. *)
LEMMA Rounded ==
  ASSUME NEW y \in Nat
  PROVE  /\ y - (y % Align) \in Nat
         /\ y % Align \in 0..(Align - 1)
         /\ (y - (y % Align)) % Align = 0
<1>1. y = Align * (y \div Align) + (y % Align) /\ y \div Align \in Nat
  BY AlignAssumption, Z3
<1>2. (Align * (y \div Align)) % Align = 0  BY <1>1, AlignAssumption, SMTT(30)
<1>3. y - (y % Align) = Align * (y \div Align)  BY <1>1, AlignAssumption, Z3
<1> QED  BY <1>2, <1>3, AlignAssumption

(* The header and the parser's bytes lie between the base and the end of the  *)
(* layout: the slack of Align - 1 bytes is enough for any base.               *)
LEMMA UserFits ==
  ASSUME NEW base \in Nat, NEW size \in Nat \ {0}
  PROVE  /\ User(base) \in Nat
         /\ base + HeaderSize <= User(base)
         /\ User(base) + size <= base + Layout(size)
         /\ User(base) % Align = 0
<1> DEFINE y == base + HeaderSize + Align - 1
<1>1. y \in Nat  BY AlignAssumption
<1>2. /\ y - (y % Align) \in Nat
      /\ y % Align \in 0..(Align - 1)
      /\ (y - (y % Align)) % Align = 0
  BY <1>1, Rounded
<1>3. User(base) = y - (y % Align)  BY DEF User
<1>4. User(base) % Align = 0 /\ User(base) \in Nat  BY <1>2, <1>3
<1> HIDE DEF y
<1>5. y = base + HeaderSize + Align - 1  BY DEF y
<1> QED  BY <1>1, <1>2, <1>3, <1>4, <1>5, AlignAssumption DEF Layout

(* What a pointer's header says. *)
LEMMA HeaderSays ==
  ASSUME NEW p, NEW b, Names(p, b), HeapInv, p \in Nat
  PROVE  /\ Base(p) = b
         /\ LayoutOf(p) = Layout(blocks[p])
         /\ b \in Nat
<1>1. b \in Nat  BY WordAssumption DEF Names, HeapInv, Addresses
<1>2. Header(p) = <<"header", heap[b], p - b>>  BY DEF Names, Header, HeaderCell
<1> QED  BY <1>1, <1>2 DEF Names, Base, LayoutOf

(* A block with its header is within the layout at its base. *)
LEMMA Within ==
  ASSUME HeapInv, NamesInv, NEW p \in DOMAIN blocks, NEW b, Names(p, b)
  PROVE  /\ p \in Nat /\ b \in Nat /\ b >= 1 /\ heap[b] \in Nat
         /\ blocks[p] \in Nat \ {0}
         /\ b + HeaderSize <= p
         /\ p + blocks[p] <= b + heap[b]
         /\ b + heap[b] <= Memory
         /\ p % Align = 0
<1>1. p \in Nat /\ blocks[p] \in Nat \ {0}  BY DEF NamesInv
<1>2. b \in Nat /\ b >= 1 /\ heap[b] \in Nat /\ b + heap[b] <= Memory
  BY WordAssumption DEF Names, HeapInv, Addresses
<1> QED  BY <1>1, <1>2, UserFits DEF Names

LEMMA Apart ==
  ASSUME HeapInv, NamesInv, NEW p \in DOMAIN blocks, NEW q \in DOMAIN blocks, p # q
  PROVE  p + blocks[p] <= q - HeaderSize \/ q + blocks[q] <= p - HeaderSize
<1>1. PICK b \in DOMAIN heap : Names(p, b)  BY DEF NamesInv
<1>2. PICK c \in DOMAIN heap : Names(q, c)  BY DEF NamesInv
<1>3. b # c  BY <1>1, <1>2 DEF Names
<1>4. b + heap[b] <= c \/ c + heap[c] <= b  BY <1>3 DEF HeapInv
<1> QED  BY <1>1, <1>2, <1>4, Within, AlignAssumption
-----------------------------------------------------------------------------
LEMMA InitKeeps == Init => IInv
  BY DEF Init, IInv, HeapInv, NamesInv, ReliedInv

(* Where there is room for a block nothing else lies. *)
LEMMA FreshPlace ==
  ASSUME IInv, NEW size \in Nat, Accepts(size), NEW base \in Room(size)
  PROVE  /\ base \in Nat /\ base \in Addresses /\ size \in Nat \ {0}
         /\ Layout(size) \in Nat /\ base + Layout(size) <= Memory
         /\ HeaderSize \in Nat \ {0} /\ Memory \in Nat
         /\ User(base) \in Nat
         /\ base + HeaderSize <= User(base) /\ User(base) + size <= base + Layout(size)
         /\ \A c \in DOMAIN heap : c + heap[c] <= base \/ base + Layout(size) <= c
         /\ base \notin DOMAIN heap
<1>0. /\ base \in Nat /\ base \in Addresses /\ size \in Nat \ {0}
      /\ Layout(size) \in Nat /\ base + Layout(size) <= Memory
      /\ \A c \in DOMAIN heap : c + heap[c] <= base \/ base + Layout(size) <= c
      /\ HeaderSize \in Nat \ {0} /\ Memory \in Nat
  BY WordAssumption, AlignAssumption DEF Accepts, Room, Addresses, Layout
<1>1. User(base) \in Nat /\ base + HeaderSize <= User(base) /\ User(base) + size <= base + Layout(size)
  BY <1>0, UserFits
<1>2. base \notin DOMAIN heap
  <2> SUFFICES ASSUME base \in DOMAIN heap PROVE FALSE  OBVIOUS
  <2>1. base + heap[base] <= base \/ base + Layout(size) <= base  BY <1>0
  <2>2. heap[base] \in Nat  BY DEF IInv, HeapInv
  <2>3. heap[base] > 0
    <3>1. PICK p \in DOMAIN blocks : Names(p, base)  BY DEF IInv, NamesInv
    <3> QED  BY <3>1, Within, <2>2, AlignAssumption, <1>0 DEF IInv
  <2> QED  BY <2>1, <2>2, <2>3, <1>0, <1>1
<1> QED  BY <1>0, <1>1, <1>2

(* Every block of the parser is clear of it. *)
LEMMA ClearOfFresh ==
  ASSUME IInv, NEW size \in Nat, Accepts(size), NEW base \in Room(size),
         NEW p \in DOMAIN blocks, NEW b, Names(p, b)
  PROVE  /\ p \in Nat /\ b \in Nat /\ b >= 1 /\ heap[b] \in Nat /\ blocks[p] \in Nat \ {0}
         /\ b + HeaderSize <= p /\ p + blocks[p] <= b + heap[b] /\ b + heap[b] <= Memory
         /\ b + heap[b] <= base \/ base + Layout(size) <= b
         /\ p # User(base)
<1>1. b \in DOMAIN heap  BY DEF Names
<1> QED  BY <1>1, Within, FreshPlace DEF IInv

(* A grant writes its header, and nothing beyond its own layout. *)
LEMMA GrantedBytes ==
  ASSUME IInv, NEW size \in Nat, NEW zeroed \in BOOLEAN, Accepts(size), NEW base \in Room(size)
  PROVE  /\ \A a \in Addresses : a < base \/ a >= base + Layout(size) =>
              Granted(base, size, zeroed)[a] = memory[a]
         /\ User(base) - HeaderSize \in Addresses
         /\ Granted(base, size, zeroed)[User(base) - HeaderSize]
              = HeaderCell(Layout(size), User(base) - base)
         /\ \A a \in Area(User(base), size) : a \in Addresses /\ zeroed =>
              Granted(base, size, zeroed)[a] = Zero
<1>1. /\ base \in Nat /\ base \in Addresses /\ size \in Nat \ {0}
      /\ Layout(size) \in Nat /\ base + Layout(size) <= Memory
      /\ HeaderSize \in Nat \ {0} /\ Memory \in Nat
      /\ User(base) \in Nat
      /\ base + HeaderSize <= User(base) /\ User(base) + size <= base + Layout(size)
  BY FreshPlace
<1>2. \A a \in Addresses : a < base \/ a >= base + Layout(size) =>
        Granted(base, size, zeroed)[a] = memory[a]
  BY <1>1 DEF Granted, Area, Addresses
<1>3. User(base) - HeaderSize \in Addresses  BY <1>1 DEF Addresses
<1>4. Granted(base, size, zeroed)[User(base) - HeaderSize] = HeaderCell(Layout(size), User(base) - base)
  BY <1>3 DEF Granted
<1>5. ASSUME NEW a \in Area(User(base), size), a \in Addresses, zeroed
      PROVE  Granted(base, size, zeroed)[a] = Zero
  <2>1. a # User(base) - HeaderSize /\ a \notin Area(User(base) - HeaderSize, HeaderSize)
        /\ a \in Area(base, Layout(size))
    BY <1>5, <1>1 DEF Area, Addresses
  <2> QED  BY <2>1, <1>5 DEF Granted
<1> QED  BY <1>2, <1>3, <1>4, <1>5

(* A new block at a base where there was room. *)
LEMMA GrantKeeps ==
  ASSUME IInv, NEW size \in Nat, NEW zeroed \in BOOLEAN, Accepts(size),
         NEW base \in Room(size),
         heap' = With(heap, base, Layout(size)),
         memory' = Granted(base, size, zeroed),
         blocks' = With(blocks, User(base), size),
         relied' = [a \in Addresses |->
           IF a \in Area(User(base), size) THEN (IF zeroed THEN Zero ELSE Any) ELSE relied[a]]
  PROVE  IInv'
<1> DEFINE u == User(base)
<1>0. /\ base \in Nat /\ base \in Addresses /\ size \in Nat \ {0}
      /\ Layout(size) \in Nat /\ base + Layout(size) <= Memory
      /\ \A c \in DOMAIN heap : c + heap[c] <= base \/ base + Layout(size) <= c
      /\ HeaderSize \in Nat \ {0} /\ Memory \in Nat /\ base \notin DOMAIN heap
      /\ u \in Nat /\ base + HeaderSize <= u /\ u + size <= base + Layout(size)
  BY FreshPlace
<1>1. /\ \A a \in Addresses : a < base \/ a >= base + Layout(size) => memory'[a] = memory[a]
      /\ memory'[u - HeaderSize] = HeaderCell(Layout(size), u - base)
      /\ \A a \in Area(u, size) : a \in Addresses /\ zeroed => memory'[a] = Zero
  BY GrantedBytes
<1>2. HeapInv'
  <2>1. \A b \in DOMAIN heap : heap'[b] = heap[b] /\ b \in DOMAIN heap'
    BY <1>0 DEF With
  <2>2. heap'[base] = Layout(size) /\ DOMAIN heap' = DOMAIN heap \union {base}
    BY DEF With
  <2> QED  BY <1>0, <2>1, <2>2 DEF IInv, HeapInv, Addresses
<1>3. ASSUME NEW p \in DOMAIN blocks, NEW b, Names(p, b)
      PROVE  Names(p, b)' /\ blocks'[p] = blocks[p] /\ p \in DOMAIN blocks'
  <2>1. b \in DOMAIN heap' /\ heap'[b] = heap[b]  BY <1>3, <1>0 DEF With, Names
  <2>2. p \in DOMAIN blocks' /\ blocks'[p] = blocks[p]  BY <1>3, ClearOfFresh DEF With
  <2>3. memory'[p - HeaderSize] = memory[p - HeaderSize]
    <3>1. /\ p \in Nat /\ b \in Nat /\ b >= 1 /\ heap[b] \in Nat /\ blocks[p] \in Nat \ {0}
          /\ b + HeaderSize <= p /\ p + blocks[p] <= b + heap[b] /\ b + heap[b] <= Memory
          /\ b + heap[b] <= base \/ base + Layout(size) <= b
      BY <1>3, ClearOfFresh
    <3>2. base \in Nat /\ Layout(size) \in Nat /\ HeaderSize \in Nat \ {0} /\ Memory \in Nat
      BY <1>0
    <3>3. p - HeaderSize \in Addresses  BY <3>1, <3>2 DEF Addresses
    <3>4. p - HeaderSize < base \/ p - HeaderSize >= base + Layout(size)  BY <3>1, <3>2
    <3> QED  BY <3>3, <3>4, <1>1
  <2> QED  BY <2>1, <2>2, <2>3, <1>3 DEF Names
<1>4. Names(u, base)' /\ u \in DOMAIN blocks' /\ blocks'[u] = size
  BY <1>1 DEF Names, With
<1>5. NamesInv'
  <2>1. DOMAIN blocks' = DOMAIN blocks \union {u} /\ DOMAIN heap' = DOMAIN heap \union {base}
    BY DEF With
  <2>2. ASSUME NEW p \in DOMAIN blocks
        PROVE  p \in Nat /\ blocks'[p] \in Nat \ {0} /\ \E b \in DOMAIN heap' : Names(p, b)'
    <3>1. PICK b \in DOMAIN heap : Names(p, b)  BY DEF IInv, NamesInv
    <3> QED  BY <3>1, <1>3, <2>1 DEF IInv, NamesInv
  <2>3. ASSUME NEW b \in DOMAIN heap PROVE \E p \in DOMAIN blocks' : Names(p, b)'
    <3>1. PICK p \in DOMAIN blocks : Names(p, b)  BY DEF IInv, NamesInv
    <3> QED  BY <3>1, <1>3
  <2> QED  BY <2>1, <2>2, <2>3, <1>4, <1>0 DEF NamesInv
<1>6. ReliedInv'
  <2> SUFFICES ASSUME NEW a \in Addresses, relied'[a] # Any
               PROVE  memory'[a] = relied'[a] /\ \E p \in DOMAIN blocks' : a \in Area(p, blocks'[p])
    BY DEF ReliedInv, Area
  <2>1. CASE a \in Area(u, size)
    <3>1. zeroed /\ relied'[a] = Zero  BY <2>1
    <3> QED  BY <3>1, <1>1, <1>4, <2>1
  <2>2. CASE a \notin Area(u, size)
    <3>1. relied'[a] = relied[a]  BY <2>2
    <3>2. memory[a] = relied[a] /\ \E p \in DOMAIN blocks : a \in Area(p, blocks[p])
      BY <3>1 DEF IInv, ReliedInv
    <3>3. PICK p \in DOMAIN blocks : a \in Area(p, blocks[p])  BY <3>2
    <3>4. PICK b \in DOMAIN heap : Names(p, b)  BY DEF IInv, NamesInv
    <3>5. /\ p \in Nat /\ b \in Nat /\ b >= 1 /\ heap[b] \in Nat /\ blocks[p] \in Nat \ {0}
          /\ b + HeaderSize <= p /\ p + blocks[p] <= b + heap[b] /\ b + heap[b] <= Memory
          /\ b + heap[b] <= base \/ base + Layout(size) <= b
      BY <3>4, ClearOfFresh
    <3>6. a < base \/ a >= base + Layout(size)
      BY <3>3, <3>5, <1>0 DEF Area, Addresses
    <3> QED  BY <3>1, <3>2, <3>3, <3>4, <3>6, <1>1, <1>3
  <2> QED  BY <2>1, <2>2
<1> QED  BY <1>2, <1>5, <1>6 DEF IInv

(* A block that is given back takes its own layout with it, no other. *)
LEMMA FreeKeeps ==
  ASSUME IInv, NEW pointer \in DOMAIN blocks,
         heap' = Without(heap, Base(pointer)),
         blocks' = Without(blocks, pointer),
         relied' = [a \in Addresses |->
           IF a \in Area(pointer, blocks[pointer]) THEN Any ELSE relied[a]],
         memory' = memory
  PROVE  IInv'
<1>1. PICK own \in DOMAIN heap : Names(pointer, own)  BY DEF IInv, NamesInv
<1>2. Base(pointer) = own  BY <1>1, HeaderSays DEF IInv, NamesInv
<1>3. HeapInv'  BY DEF IInv, HeapInv, Without
<1>4. ASSUME NEW p \in DOMAIN blocks, p # pointer, NEW b \in DOMAIN heap, Names(p, b)
      PROVE  p \in DOMAIN blocks' /\ blocks'[p] = blocks[p] /\ b \in DOMAIN heap' /\ Names(p, b)'
  <2>1. b # own  BY <1>4, <1>1 DEF Names
  <2>2. b \in DOMAIN heap' /\ heap'[b] = heap[b]  BY <2>1, <1>2 DEF Without
  <2>3. p \in DOMAIN blocks' /\ blocks'[p] = blocks[p]  BY <1>4 DEF Without
  <2> QED  BY <2>2, <2>3, <1>4 DEF Names
<1>5. NamesInv'
  <2>1. ASSUME NEW p \in DOMAIN blocks'
        PROVE  p \in Nat /\ blocks'[p] \in Nat \ {0} /\ \E b \in DOMAIN heap' : Names(p, b)'
    <3>1. p \in DOMAIN blocks /\ p # pointer  BY DEF Without
    <3>2. PICK b \in DOMAIN heap : Names(p, b)  BY <3>1 DEF IInv, NamesInv
    <3> QED  BY <3>1, <3>2, <1>4 DEF IInv, NamesInv
  <2>2. ASSUME NEW b \in DOMAIN heap' PROVE \E p \in DOMAIN blocks' : Names(p, b)'
    <3>1. b \in DOMAIN heap /\ b # own  BY <1>2 DEF Without
    <3>2. PICK p \in DOMAIN blocks : Names(p, b)  BY <3>1 DEF IInv, NamesInv
    <3>3. p # pointer
      <4>1. ASSUME p = pointer PROVE b = own
        BY <4>1, <3>2, <1>1, <1>2, HeaderSays DEF IInv, NamesInv
      <4> QED  BY <4>1, <3>1
    <3> QED  BY <3>1, <3>2, <3>3, <1>4
  <2> QED  BY <2>1, <2>2 DEF NamesInv
<1>6. ReliedInv'
  <2> SUFFICES ASSUME NEW a \in Addresses, relied'[a] # Any
               PROVE  memory'[a] = relied'[a] /\ \E p \in DOMAIN blocks' : a \in Area(p, blocks'[p])
    BY DEF ReliedInv, Area
  <2>1. a \notin Area(pointer, blocks[pointer]) /\ relied'[a] = relied[a]  OBVIOUS
  <2>2. memory[a] = relied[a] /\ \E p \in DOMAIN blocks : a \in Area(p, blocks[p])
    BY <2>1 DEF IInv, ReliedInv
  <2>3. PICK p \in DOMAIN blocks : a \in Area(p, blocks[p])  BY <2>2
  <2>4. p # pointer  BY <2>1, <2>3
  <2>5. p \in DOMAIN blocks' /\ blocks'[p] = blocks[p]  BY <2>4 DEF Without
  <2> QED  BY <2>1, <2>2, <2>3, <2>5
<1> QED  BY <1>3, <1>5, <1>6 DEF IInv

(* A block that is moved: its successor is granted, filled and named, and it  *)
(* is given back itself.                                                      *)
LEMMA MoveKeeps ==
  ASSUME IInv, NEW pointer \in DOMAIN blocks, NEW size \in Nat, Accepts(size),
         NEW base \in Room(size), Move(pointer, size, base)
  PROVE  IInv'
<1> DEFINE u == User(base)
           fresh == Granted(base, size, FALSE)
           n == blocks[pointer]
           old(a) == pointer + (a - u)
<1>0. /\ base \in Nat /\ base \in Addresses /\ size \in Nat \ {0}
      /\ Layout(size) \in Nat /\ base + Layout(size) <= Memory
      /\ \A c \in DOMAIN heap : c + heap[c] <= base \/ base + Layout(size) <= c
      /\ HeaderSize \in Nat \ {0} /\ Memory \in Nat /\ base \notin DOMAIN heap
      /\ u \in Nat /\ base + HeaderSize <= u /\ u + size <= base + Layout(size)
  BY FreshPlace
<1>1. /\ \A a \in Addresses : a < base \/ a >= base + Layout(size) => fresh[a] = memory[a]
      /\ u - HeaderSize \in Addresses
      /\ fresh[u - HeaderSize] = HeaderCell(Layout(size), u - base)
  BY GrantedBytes
<1>2. PICK own \in DOMAIN heap : Names(pointer, own)  BY DEF IInv, NamesInv
<1>3. /\ pointer \in Nat /\ n \in Nat \ {0} /\ Base(pointer) = own /\ LayoutOf(pointer) = Layout(n)
  BY <1>2, HeaderSays DEF IInv, NamesInv
<1>4. Requested(pointer) = n  BY <1>3, AlignAssumption DEF Requested, Layout
<1>5. /\ Copied(pointer, size) \in Nat /\ Copied(pointer, size) <= size
      /\ \A i \in Nat : i < n /\ i < size => i < Copied(pointer, size)
  BY <1>0, <1>3, <1>4 DEF Copied
<1>6. /\ heap' = Without(With(heap, base, Layout(size)), own)
      /\ memory' = [a \in Addresses |->
           IF a \in Area(u, Copied(pointer, size)) THEN fresh[old(a)] ELSE fresh[a]]
      /\ blocks' = With(Without(blocks, pointer), u, size)
      /\ relied' = [a \in Addresses |->
           IF a \in Area(u, size)
           THEN (IF old(a) \in Area(pointer, n) THEN relied[old(a)] ELSE Any)
           ELSE IF a \in Area(pointer, n) THEN Any ELSE relied[a]]
  BY <1>3 DEF Move
<1>7. \A a \in Addresses : a < base \/ a >= base + Layout(size) => memory'[a] = memory[a]
  <2>1. ASSUME NEW a \in Addresses, a < base \/ a >= base + Layout(size)
        PROVE  a \notin Area(u, Copied(pointer, size))
    BY <2>1, <1>0, <1>5 DEF Area, Addresses
  <2> QED  BY <2>1, <1>6, <1>1
<1>8. memory'[u - HeaderSize] = HeaderCell(Layout(size), u - base)
  <2>1. u - HeaderSize \notin Area(u, Copied(pointer, size))  BY <1>0, <1>5 DEF Area
  <2> QED  BY <2>1, <1>6, <1>1
<1>9. own # base  BY <1>0
<1>10. /\ DOMAIN heap' = (DOMAIN heap \ {own}) \union {base}
       /\ heap'[base] = Layout(size)
       /\ \A b \in DOMAIN heap \ {own} : heap'[b] = heap[b]
  BY <1>6, <1>0, <1>9 DEF With, Without
<1>11. /\ DOMAIN blocks' = (DOMAIN blocks \ {pointer}) \union {u}
       /\ blocks'[u] = size
       /\ \A p \in DOMAIN blocks \ {pointer} : p # u => blocks'[p] = blocks[p]
  BY <1>6 DEF With, Without
<1>12. HeapInv'  BY <1>0, <1>10 DEF IInv, HeapInv, Addresses
<1>13. ASSUME NEW p \in DOMAIN blocks, NEW b \in DOMAIN heap, Names(p, b)
       PROVE  /\ p \in Nat /\ b \in Nat /\ b >= 1 /\ heap[b] \in Nat /\ blocks[p] \in Nat \ {0}
              /\ b + HeaderSize <= p /\ p + blocks[p] <= b + heap[b] /\ b + heap[b] <= Memory
              /\ b + heap[b] <= base \/ base + Layout(size) <= b
              /\ p # u
  BY <1>13, ClearOfFresh
<1>14. ASSUME NEW p \in DOMAIN blocks, p # pointer, NEW b \in DOMAIN heap, Names(p, b)
       PROVE  p \in DOMAIN blocks' /\ blocks'[p] = blocks[p] /\ b \in DOMAIN heap' /\ Names(p, b)'
  <2>1. b # own  BY <1>14, <1>2 DEF Names
  <2>2. b \in DOMAIN heap' /\ heap'[b] = heap[b]  BY <2>1, <1>10
  <2>3. p # u  BY <1>14, <1>13
  <2>4. p \in DOMAIN blocks' /\ blocks'[p] = blocks[p]  BY <2>3, <1>14, <1>11
  <2>5. memory'[p - HeaderSize] = memory[p - HeaderSize]
    <3>1. p - HeaderSize \in Addresses
          /\ (p - HeaderSize < base \/ p - HeaderSize >= base + Layout(size))
      BY <1>14, <1>13, <1>0 DEF Addresses
    <3> QED  BY <3>1, <1>7
  <2> QED  BY <2>2, <2>4, <2>5, <1>14 DEF Names
<1>15. Names(u, base)' /\ u \in DOMAIN blocks'  BY <1>8, <1>10, <1>11 DEF Names
<1>16. NamesInv'
  <2>1. ASSUME NEW p \in DOMAIN blocks, p # pointer
        PROVE  p \in Nat /\ blocks'[p] \in Nat \ {0} /\ \E b \in DOMAIN heap' : Names(p, b)'
    <3>1. PICK b \in DOMAIN heap : Names(p, b)  BY DEF IInv, NamesInv
    <3> QED  BY <3>1, <2>1, <1>14, <1>13
  <2>2. ASSUME NEW b \in DOMAIN heap, b # own PROVE \E p \in DOMAIN blocks' : Names(p, b)'
    <3>1. PICK p \in DOMAIN blocks : Names(p, b)  BY DEF IInv, NamesInv
    <3>2. p # pointer
      <4>1. ASSUME p = pointer PROVE b = own
        BY <4>1, <3>1, <1>3, HeaderSays DEF IInv, NamesInv
      <4> QED  BY <4>1, <2>2
    <3> QED  BY <3>1, <3>2, <1>14
  <2>3. u \in Nat /\ blocks'[u] \in Nat \ {0} /\ \E b \in DOMAIN heap' : Names(u, b)'
    BY <1>0, <1>10, <1>11, <1>15
  <2>4. \E p \in DOMAIN blocks' : Names(p, base)'  BY <1>15
  <2>5. \A p \in DOMAIN blocks' :
          p \in Nat /\ blocks'[p] \in Nat \ {0} /\ \E b \in DOMAIN heap' : Names(p, b)'
    BY <2>1, <2>3, <1>11
  <2>6. \A b \in DOMAIN heap' : \E p \in DOMAIN blocks' : Names(p, b)'
    BY <2>2, <2>4, <1>10
  <2> QED  BY <2>5, <2>6 DEF NamesInv
<1>17. ReliedInv'
  <2> SUFFICES ASSUME NEW a \in Addresses, relied'[a] # Any
               PROVE  memory'[a] = relied'[a] /\ \E p \in DOMAIN blocks' : a \in Area(p, blocks'[p])
    BY DEF ReliedInv, Area
  <2>1. CASE a \in Area(u, size)
    <3>1. old(a) \in Area(pointer, n) /\ relied'[a] = relied[old(a)]  BY <2>1, <1>6
    <3>2. /\ own \in Nat /\ own >= 1 /\ heap[own] \in Nat
          /\ own + HeaderSize <= pointer /\ pointer + n <= own + heap[own]
          /\ own + heap[own] <= Memory
          /\ own + heap[own] <= base \/ base + Layout(size) <= own
      BY <1>2, <1>13
    <3>3. a \in Nat /\ a - u \in Nat /\ a - u < n /\ a - u < size
      BY <3>1, <2>1, <1>0, <1>3 DEF Area, Addresses
    <3>4. old(a) \in Addresses /\ (old(a) < base \/ old(a) >= base + Layout(size))
      BY <3>2, <3>3, <1>0, <1>3 DEF Addresses
    <3>5. a \in Area(u, Copied(pointer, size))
      <4>1. a - u < Copied(pointer, size)  BY <3>3, <1>5
      <4> QED  BY <4>1, <3>3, <1>0, <1>5 DEF Area
    <3>6. memory'[a] = fresh[old(a)]  BY <3>5, <1>6
    <3>7. fresh[old(a)] = memory[old(a)]  BY <3>4, <1>1
    <3>8. memory[old(a)] = relied[old(a)]  BY <3>1, <3>4 DEF IInv, ReliedInv
    <3> QED  BY <3>1, <3>6, <3>7, <3>8, <2>1, <1>11
  <2>2. CASE a \notin Area(u, size)
    <3>1. a \notin Area(pointer, n) /\ relied'[a] = relied[a]  BY <2>2, <1>6
    <3>2. memory[a] = relied[a] /\ \E p \in DOMAIN blocks : a \in Area(p, blocks[p])
      BY <3>1 DEF IInv, ReliedInv
    <3>3. PICK p \in DOMAIN blocks : a \in Area(p, blocks[p])  BY <3>2
    <3>4. p # pointer  BY <3>1, <3>3
    <3>5. PICK b \in DOMAIN heap : Names(p, b)  BY DEF IInv, NamesInv
    <3>6. /\ p \in Nat /\ b \in Nat /\ heap[b] \in Nat /\ blocks[p] \in Nat \ {0}
          /\ b + HeaderSize <= p /\ p + blocks[p] <= b + heap[b]
          /\ b + heap[b] <= base \/ base + Layout(size) <= b
      BY <3>5, <1>13
    <3>7. a < base \/ a >= base + Layout(size)  BY <3>3, <3>6, <1>0 DEF Area, Addresses
    <3> QED  BY <3>1, <3>2, <3>3, <3>4, <3>5, <3>7, <1>7, <1>14
  <2> QED  BY <2>1, <2>2
<1> QED  BY <1>12, <1>16, <1>17 DEF IInv

(* The parser writes within its block, and no header lies there. *)
LEMMA WriteKeeps ==
  ASSUME IInv, Write  PROVE  IInv'
<1>1. PICK pointer \in DOMAIN blocks, content \in Contents :
        /\ memory' = [a \in Addresses |->
             IF a \in Area(pointer, blocks[pointer]) THEN Byte(content, a - pointer) ELSE memory[a]]
        /\ relied' = [a \in Addresses |->
             IF a \in Area(pointer, blocks[pointer]) THEN Byte(content, a - pointer) ELSE relied[a]]
        /\ heap' = heap /\ blocks' = blocks
  BY DEF Write
<1>2. PICK own \in DOMAIN heap : Names(pointer, own)  BY DEF IInv, NamesInv
<1>3. /\ pointer \in Nat /\ blocks[pointer] \in Nat \ {0} /\ HeaderSize \in Nat \ {0} /\ Memory \in Nat
  BY AlignAssumption, WordAssumption DEF IInv, NamesInv
<1>4. HeapInv'  BY <1>1 DEF IInv, HeapInv
<1>5. ASSUME NEW p \in DOMAIN blocks, NEW b, Names(p, b)  PROVE Names(p, b)'
  <2>1. /\ p \in Nat /\ b \in Nat /\ b >= 1 /\ heap[b] \in Nat /\ blocks[p] \in Nat \ {0}
        /\ b + HeaderSize <= p /\ p + blocks[p] <= b + heap[b] /\ b + heap[b] <= Memory
    BY <1>5, Within DEF IInv
  <2>2. p - HeaderSize \in Addresses  BY <2>1, <1>3 DEF Addresses
  <2>3. p - HeaderSize \notin Area(pointer, blocks[pointer])
    <3>1. CASE p = pointer  BY <3>1, <2>1, <1>3 DEF Area
    <3>2. CASE p # pointer
      <4>1. p + blocks[p] <= pointer - HeaderSize \/ pointer + blocks[pointer] <= p - HeaderSize
        BY <3>2, Apart DEF IInv
      <4> QED  BY <4>1, <2>1, <1>3 DEF Area
    <3> QED  BY <3>1, <3>2
  <2>4. memory'[p - HeaderSize] = memory[p - HeaderSize]  BY <2>2, <2>3, <1>1
  <2> QED  BY <2>4, <1>5, <1>1 DEF Names
<1>6. NamesInv'
  <2>1. ASSUME NEW p \in DOMAIN blocks PROVE \E b \in DOMAIN heap : Names(p, b)'
    BY <1>5 DEF IInv, NamesInv
  <2>2. ASSUME NEW b \in DOMAIN heap PROVE \E p \in DOMAIN blocks : Names(p, b)'
    BY <1>5 DEF IInv, NamesInv
  <2> QED  BY <2>1, <2>2, <1>1 DEF IInv, NamesInv
<1>7. ReliedInv'
  <2> SUFFICES ASSUME NEW a \in Addresses, relied'[a] # Any
               PROVE  memory'[a] = relied'[a] /\ \E p \in DOMAIN blocks' : a \in Area(p, blocks'[p])
    BY DEF ReliedInv, Area
  <2>1. CASE a \in Area(pointer, blocks[pointer])  BY <2>1, <1>1
  <2>2. CASE a \notin Area(pointer, blocks[pointer])
    <3>1. relied'[a] = relied[a] /\ memory'[a] = memory[a]  BY <2>2, <1>1
    <3> QED  BY <3>1, <1>1 DEF IInv, ReliedInv
  <2> QED  BY <2>1, <2>2
<1> QED  BY <1>4, <1>6, <1>7 DEF IInv

LEMMA UnchangedKeeps ==
  ASSUME IInv, UNCHANGED <<heap, memory, blocks, relied>>  PROVE IInv'
<1>1. HeapInv'  BY DEF IInv, HeapInv
<1>2. NamesInv'  BY DEF IInv, NamesInv, Names
<1>3. ReliedInv'  BY DEF IInv, ReliedInv, Area
<1> QED  BY <1>1, <1>2, <1>3 DEF IInv

LEMMA AllocateKeeps ==
  ASSUME IInv, NEW size \in Nat, NEW zeroed \in BOOLEAN, Allocate(size, zeroed)  PROVE IInv'
<1>1. CASE Fails  BY <1>1, UnchangedKeeps DEF Fails
<1>2. CASE ~Fails
  <2>1. Accepts(size)  BY <1>2 DEF Allocate
  <2>2. PICK base \in Room(size) :
          /\ heap' = With(heap, base, Layout(size))
          /\ memory' = Granted(base, size, zeroed)
          /\ blocks' = With(blocks, User(base), size)
          /\ relied' = [a \in Addresses |->
               IF a \in Area(User(base), size) THEN (IF zeroed THEN Zero ELSE Any) ELSE relied[a]]
    BY <1>2 DEF Allocate
  <2> QED  BY <2>1, <2>2, GrantKeeps
<1> QED  BY <1>1, <1>2

LEMMA StepKeeps ==
  ASSUME IInv, [Next]_vars  PROVE IInv'
<1>0. \A size \in Sizes : size \in Nat  BY WordAssumption
<1>1. CASE Malloc  BY <1>1, <1>0, AllocateKeeps DEF Malloc
<1>2. CASE Calloc
  <2>1. PICK count, size \in Sizes :
          IF count * size > MaxWord THEN Fails ELSE Allocate(count * size, TRUE)
    BY <1>2 DEF Calloc
  <2>2. count * size \in Nat  BY <1>0
  <2>3. CASE Fails  BY <2>3, UnchangedKeeps DEF Fails
  <2>4. CASE Allocate(count * size, TRUE)  BY <2>2, <2>4, AllocateKeeps
  <2> QED  BY <2>1, <2>3, <2>4
<1>3. CASE Free  BY <1>3, FreeKeeps DEF Free
<1>4. CASE Realloc
  <2>1. PICK pointer \in DOMAIN blocks, size \in Sizes \ {0} :
          Fails \/ (Accepts(size) /\ \E base \in Room(size) : Move(pointer, size, base))
    BY <1>4 DEF Realloc
  <2>2. CASE Fails  BY <2>2, UnchangedKeeps DEF Fails
  <2>3. CASE Accepts(size) /\ \E base \in Room(size) : Move(pointer, size, base)
    BY <2>3, <1>0, MoveKeeps
  <2> QED  BY <2>1, <2>2, <2>3
<1>5. CASE Write  BY <1>5, WriteKeeps
<1>6. CASE UNCHANGED vars  BY <1>6, UnchangedKeeps DEF vars
<1> QED  BY <1>1, <1>2, <1>3, <1>4, <1>5, <1>6 DEF Next

(* The header before every pointer the parser holds stays true. *)
THEOREM HeadersStayTrue == Spec => []IInv
<1>1. Init => IInv  BY InitKeeps
<1>2. IInv /\ [Next]_vars => IInv'  BY StepKeeps
<1> QED  BY <1>1, <1>2, PTL DEF Spec

(* The parser's blocks are aligned, within memory, and apart with headers. *)
THEOREM BlocksStayApart == Spec => []BlocksAreApart
<1>1. IInv => BlocksAreApart
  <2> SUFFICES ASSUME IInv, NEW p \in DOMAIN blocks
               PROVE  /\ p % Align = 0
                      /\ p - HeaderSize \in Addresses /\ p + blocks[p] <= Memory
                      /\ \A q \in DOMAIN blocks : p # q =>
                           p + blocks[p] <= q - HeaderSize \/ q + blocks[q] <= p - HeaderSize
    BY DEF BlocksAreApart
  <2>1. PICK b \in DOMAIN heap : Names(p, b)  BY DEF IInv, NamesInv
  <2>2. /\ p \in Nat /\ b \in Nat /\ b >= 1 /\ heap[b] \in Nat /\ blocks[p] \in Nat \ {0}
        /\ b + HeaderSize <= p /\ p + blocks[p] <= b + heap[b] /\ b + heap[b] <= Memory
        /\ p % Align = 0
    BY <2>1, Within DEF IInv
  <2>3. p - HeaderSize \in Addresses /\ p + blocks[p] <= Memory
    BY <2>2, AlignAssumption, WordAssumption DEF Addresses
  <2> QED  BY <2>2, <2>3, Apart DEF IInv
<1> QED  BY <1>1, HeadersStayTrue, PTL

(* free hands back exactly what was taken, and nothing leaks. *)
THEOREM HeapStaysAccountedFor == Spec => []HeapIsAccountedFor
<1>1. IInv => HeapIsAccountedFor
  <2> SUFFICES ASSUME IInv PROVE HeapIsAccountedFor  OBVIOUS
  <2>1. ASSUME NEW p \in DOMAIN blocks, NEW b \in DOMAIN heap, Names(p, b)
        PROVE  Base(p) = b /\ heap[b] = LayoutOf(p) /\ p + blocks[p] <= b + heap[b]
    <3>1. p \in Nat  BY DEF IInv, NamesInv
    <3>2. Base(p) = b /\ LayoutOf(p) = Layout(blocks[p])  BY <2>1, <3>1, HeaderSays DEF IInv
    <3> QED  BY <2>1, <3>2, Within DEF IInv, Names
  <2>2. ASSUME NEW p \in DOMAIN blocks
        PROVE  Base(p) \in DOMAIN heap /\ heap[Base(p)] = LayoutOf(p)
               /\ p + blocks[p] <= Base(p) + LayoutOf(p)
    <3>1. PICK b \in DOMAIN heap : Names(p, b)  BY DEF IInv, NamesInv
    <3> QED  BY <3>1, <2>1
  <2>3. ASSUME NEW b \in DOMAIN heap PROVE \E p \in DOMAIN blocks : Base(p) = b
    <3>1. PICK p \in DOMAIN blocks : Names(p, b)  BY DEF IInv, NamesInv
    <3> QED  BY <3>1, <2>1
  <2> QED  BY <2>2, <2>3 DEF HeapIsAccountedFor
<1> QED  BY <1>1, HeadersStayTrue, PTL

(* What the parser wrote stays, also over a move that did or did not happen. *)
THEOREM ContentsStay == Spec => []ContentsAreKept
<1>1. IInv => ContentsAreKept  BY DEF IInv, ReliedInv, ContentsAreKept
<1> QED  BY <1>1, HeadersStayTrue, PTL
=============================================================================
