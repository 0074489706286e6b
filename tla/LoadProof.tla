----------------------------- MODULE LoadProof ------------------------------
(***************************************************************************)
(* The slots of a task's table are accounted for, a folio is counted as    *)
(* open as often as it is, and what nobody has open is unloaded: for every *)
(* set of tasks, number of copies and size of the tables.                  *)
(***************************************************************************)
EXTENDS DemandLoad, SequenceLemmas, FiniteSetTheorems

-----------------------------------------------------------------------------
(* Tables *)

Kinds == {"none", "open", "made", "other", "port", "message"}

\* What a slot may hold.
Entries == {e \in [kind : Kinds, item : Nat] : e.kind = "open" => e.item \in Copy}

Tables == [slot : Seq(Entries), free : Seq(Nat)]

\* A table in which each slot is free once, holds an entry or is in X.
GoodTable(tb, X) ==
  /\ tb \in Tables
  /\ IsInjective(tb.free)
  /\ ToSet(tb.free) = {i \in DOMAIN tb.slot : tb.slot[i] = NoEntry} \ X
  /\ X \subseteq DOMAIN tb.slot

\* What a table has at a place, which may be beyond its end.
At(tb, j) == IF j \in DOMAIN tb.slot THEN tb.slot[j] ELSE NoEntry

\* f is tb with e at i.
Puts(tb, f, i, e) ==
  /\ At(f, i) = e
  /\ \A j \in Nat : j # i => At(f, j) = At(tb, j)

Same(tb, f) == \A j \in Nat : At(f, j) = At(tb, j)

\* The entries differ from each other and from none.
LEMMA EntryKinds ==
  /\ {NoEntry, Other, Port, Message} \subseteq Entries
  /\ \A c \in Copy : {Open(c), Made(c)} \subseteq Entries
  /\ NoEntry \notin {Other, Port, Message}
  /\ Port # Message /\ Other # Port /\ Other # Message
  /\ \A c \in Copy : /\ Open(c) \notin {NoEntry, Other, Port, Message}
                     /\ Made(c) \notin {NoEntry, Other, Port, Message}
  /\ \A c, d \in Copy : Open(c) # Made(d)
  /\ \A c, d \in Copy : Open(c) = Open(d) => c = d
  /\ \A c, d \in Copy : Made(c) = Made(d) => c = d
<1>1. Copy \subseteq Nat
  BY LoadAssumption DEF Copy
<1> QED
  BY <1>1 DEF Entries, Kinds, NoEntry, Other, Port, Message, Open, Made, Entry

\* An entry that opens a copy says so, and the other way around.
LEMMA OpenEntry ==
  ASSUME NEW e \in Entries
  PROVE  /\ e.kind = "open" => e.item \in Copy /\ e = Open(e.item)
         /\ \A c \in Copy : e = Open(c) => e.kind = "open" /\ e.item = c
         /\ e.kind \notin {"open", "made"} => \A c \in Copy : e # Open(c) /\ e # Made(c)
         /\ e.kind = "none" => \A c \in Copy : e # Open(c)
BY DEF Entries, Open, Made, Entry

LEMMA TableShape ==
  ASSUME NEW tb, NEW X, GoodTable(tb, X)
  PROVE  /\ Len(tb.slot) \in Nat /\ DOMAIN tb.slot = 1..Len(tb.slot)
         /\ \A j \in DOMAIN tb.slot : tb.slot[j] \in Entries
         /\ \A j \in Nat : At(tb, j) \in Entries
         /\ \A j \in Nat : At(tb, j) # NoEntry => j \in DOMAIN tb.slot
         /\ \A j \in DOMAIN tb.slot : j \in Nat /\ At(tb, j) = tb.slot[j]
<1>1. tb.slot \in Seq(Entries)
  BY DEF GoodTable, Tables
<1>2. Len(tb.slot) \in Nat /\ DOMAIN tb.slot = 1..Len(tb.slot)
  BY <1>1, LenProperties
<1>3. \A j \in DOMAIN tb.slot : tb.slot[j] \in Entries
  BY <1>1, <1>2, ElementOfSeq
<1> QED
  BY <1>2, <1>3, EntryKinds DEF At

\* Growing a table adds free slots.
LEMMA GrowGood ==
  ASSUME NEW tb, NEW X, GoodTable(tb, X), NEW n \in Nat
  PROVE  LET w == IncreaseResourceTable(tb, n)
         IN  /\ GoodTable(w, X) /\ Same(tb, w)
             /\ DOMAIN tb.slot \subseteq DOMAIN w.slot
             /\ n # 0 => w.free # <<>>
<1> DEFINE w == IncreaseResourceTable(tb, n)
           m == Len(tb.slot)
           more == [i \in 1..n |-> NoEntry]
           new == [i \in 1..n |-> m + i]
<1>1. /\ m \in Nat /\ DOMAIN tb.slot = 1..m
      /\ tb.slot \in Seq(Entries) /\ tb.free \in Seq(Nat)
  BY TableShape DEF GoodTable, Tables
<1>2. /\ w.slot = tb.slot \o more /\ w.free = new \o tb.free
      /\ w = [slot |-> w.slot, free |-> w.free]
  BY DEF IncreaseResourceTable
<1>3. more \in Seq(Entries) /\ Len(more) = n /\ \A i \in 1..n : more[i] = NoEntry
  <2>1. more \in [1..n -> Entries]
    BY EntryKinds
  <2> QED
    BY <2>1, SeqDef, LenProperties
<1>4. new \in Seq(Nat) /\ Len(new) = n /\ DOMAIN new = 1..n /\ \A i \in 1..n : new[i] = m + i
  <2>1. new \in [1..n -> Nat]
    BY <1>1
  <2> QED
    BY <2>1, SeqDef, LenProperties
<1> HIDE DEF w, m, more, new
<1>5. /\ w.slot \in Seq(Entries) /\ DOMAIN w.slot = 1..(m + n)
      /\ \A j \in 1..m : w.slot[j] = tb.slot[j]
      /\ \A j \in 1..(m + n) : ~(j \in 1..m) => w.slot[j] = NoEntry
  <2>1. /\ tb.slot \o more \in Seq(Entries) /\ Len(tb.slot \o more) = m + n
        /\ \A j \in 1..(m + n) :
             (tb.slot \o more)[j] = IF j <= m THEN tb.slot[j] ELSE more[j - m]
    BY <1>1, <1>3, ConcatProperties, Zenon DEF m
  <2>2. \A j \in 1..(m + n) : ~(j \in 1..m) => ~(j <= m) /\ j - m \in 1..n
    BY <1>1
  <2>3. \A j \in 1..m : j \in 1..(m + n) /\ j <= m
    BY <1>1
  <2>4. DOMAIN (tb.slot \o more) = 1..(m + n)
    BY <1>1, <2>1, LenProperties
  <2> QED
    BY <1>1, <1>2, <1>3, <2>1, <2>2, <2>3, <2>4
<1>6. IsInjective(new) /\ ToSet(new) = {m + i : i \in 1..n}
  <2>1. ASSUME NEW i \in 1..n, NEW j \in 1..n, new[i] = new[j] PROVE i = j
    <3>1. m + i = m + j
      BY <1>4, <2>1
    <3> QED
      BY <1>1, <3>1
  <2> QED
    BY <1>4, <2>1 DEF IsInjective, ToSet
<1>7. ToSet(new) = (1..(m + n)) \ (1..m)
  <2>1. \A j \in (1..(m + n)) \ (1..m) : j - m \in 1..n /\ j = m + (j - m)
    BY <1>1
  <2>2. \A i \in 1..n : m + i \in (1..(m + n)) \ (1..m)
    BY <1>1
  <2> QED
    BY <1>6, <2>1, <2>2
<1>8. ToSet(tb.free) \subseteq 1..m
  BY <1>1 DEF GoodTable
<1>9. /\ w.free \in Seq(Nat) /\ IsInjective(w.free)
      /\ ToSet(w.free) = ToSet(new) \cup ToSet(tb.free)
  <2>1. ToSet(new) \cap ToSet(tb.free) = {} /\ IsInjective(tb.free)
    BY <1>7, <1>8 DEF GoodTable
  <2> QED
    BY <1>1, <1>2, <1>4, <1>6, <2>1, ConcatSet
<1>10. GoodTable(w, X)
  <2>1. w \in Tables
    BY <1>2, <1>5, <1>9 DEF Tables
  <2>2. X \subseteq 1..m /\ 1..m \subseteq 1..(m + n)
    BY <1>1 DEF GoodTable
  <2>3. ToSet(w.free) = {i \in DOMAIN w.slot : w.slot[i] = NoEntry} \ X
    <3>1. ToSet(tb.free) = {i \in 1..m : tb.slot[i] = NoEntry} \ X
      BY <1>1 DEF GoodTable
    <3>2. \A i \in 1..(m + n) :
            i \in ToSet(w.free) <=> w.slot[i] = NoEntry /\ i \notin X
      BY <1>5, <1>7, <1>9, <2>2, <3>1
    <3>3. ToSet(w.free) \subseteq 1..(m + n)
      BY <1>7, <1>8, <1>9, <2>2
    <3> QED
      BY <1>5, <3>2, <3>3
  <2> QED
    BY <1>5, <1>9, <2>1, <2>2, <2>3 DEF GoodTable
<1>11. Same(tb, w)
  BY <1>1, <1>5 DEF Same, At
<1>12. n # 0 => w.free # <<>>
  <2>1. SUFFICES ASSUME n # 0 PROVE ToSet(w.free) # {}
    BY DEF ToSet
  <2>2. 1 \in 1..n
    BY <2>1
  <2>3. m + 1 \in ToSet(new)
    BY <1>6, <2>2
  <2> QED
    BY <1>9, <2>3
<1>13. DOMAIN tb.slot \subseteq DOMAIN w.slot
  BY <1>1, <1>5
<1> QED
  BY <1>10, <1>11, <1>12, <1>13 DEF w

LEMMA RoomGood ==
  ASSUME NEW tb, NEW X, GoodTable(tb, X)
  PROVE  LET w == WithRoom(tb)
         IN  /\ GoodTable(w, X) /\ Same(tb, w)
             /\ DOMAIN tb.slot \subseteq DOMAIN w.slot
             /\ w.free # <<>>
<1>1. CASE tb.free = <<>>
  <2>1. MoreSlots \in Nat /\ MoreSlots # 0
    BY TableAssumption
  <2> QED
    BY <1>1, <2>1, GrowGood DEF WithRoom
<1>2. CASE tb.free # <<>>
  BY <1>2 DEF WithRoom, Same
<1> QED
  BY <1>1, <1>2

\* AllocItemSlot takes a slot that was free or is new.
LEMMA AllocGood ==
  ASSUME NEW tb, NEW X, GoodTable(tb, X)
  PROVE  LET i == AllocItemSlot(tb)
             f == Allocated(tb)
         IN  /\ i \in Nat /\ i \notin X /\ i \in DOMAIN f.slot
             /\ GoodTable(f, X \cup {i}) /\ Same(tb, f)
             /\ At(tb, i) = NoEntry /\ f.slot[i] = NoEntry
             /\ DOMAIN tb.slot \subseteq DOMAIN f.slot
<1> DEFINE i == AllocItemSlot(tb)
           w == WithRoom(tb)
           f == Allocated(tb)
<1>1. /\ GoodTable(w, X) /\ Same(tb, w)
      /\ DOMAIN tb.slot \subseteq DOMAIN w.slot
      /\ w.free # <<>>
  BY RoomGood
<1>2. i = Head(w.free) /\ f = [w EXCEPT !.free = Tail(@)]
  BY DEF AllocItemSlot, Allocated
<1> HIDE DEF i, w, f
<1>3. w \in [slot : Seq(Entries), free : Seq(Nat)]
  BY <1>1 DEF GoodTable, Tables
<1>4. f.slot = w.slot /\ f.free = Tail(w.free) /\ f = [slot |-> f.slot, free |-> f.free]
  BY <1>2, <1>3
<1>5. /\ i \in Nat /\ Tail(w.free) \in Seq(Nat)
      /\ ToSet(Tail(w.free)) = ToSet(w.free) \ {i}
      /\ i \in ToSet(w.free)
      /\ IsInjective(Tail(w.free))
  BY <1>1, <1>2, <1>3, TailSet DEF GoodTable
<1>6. i \in DOMAIN w.slot /\ w.slot[i] = NoEntry /\ i \notin X
  BY <1>1, <1>5 DEF GoodTable
<1>7. GoodTable(f, X \cup {i})
  BY <1>1, <1>3, <1>4, <1>5, <1>6 DEF GoodTable, Tables
<1>8. Same(tb, f) /\ At(tb, i) = NoEntry
  BY <1>1, <1>4, <1>5, <1>6 DEF Same, At
<1> QED
  BY <1>1, <1>4, <1>5, <1>6, <1>7, <1>8 DEF i, f

\* An entry is put into a slot that was free or is new.
LEMMA FillGood ==
  ASSUME NEW tb, NEW X, GoodTable(tb, X), NEW e \in Entries, e # NoEntry
  PROVE  LET i == AllocItemSlot(tb)
             f == Filled(tb, e)
         IN  /\ i \in Nat /\ i \notin X /\ i \in DOMAIN f.slot
             /\ GoodTable(f, X) /\ Puts(tb, f, i, e) /\ At(tb, i) = NoEntry
             /\ DOMAIN tb.slot \subseteq DOMAIN f.slot
<1> DEFINE i == AllocItemSlot(tb)
           a == Allocated(tb)
           f == Filled(tb, e)
<1>1. /\ i \in Nat /\ i \notin X /\ i \in DOMAIN a.slot
      /\ GoodTable(a, X \cup {i}) /\ Same(tb, a)
      /\ At(tb, i) = NoEntry /\ a.slot[i] = NoEntry
      /\ DOMAIN tb.slot \subseteq DOMAIN a.slot
  BY AllocGood
<1>2. f = [a EXCEPT !.slot[i] = e]
  BY DEF Filled
<1> HIDE DEF i, a, f
<1>3. a \in [slot : Seq(Entries), free : Seq(Nat)]
  BY <1>1 DEF GoodTable, Tables
<1>4. f.slot = [a.slot EXCEPT ![i] = e] /\ f.free = a.free
      /\ f = [slot |-> f.slot, free |-> f.free]
  BY <1>2, <1>3
<1>5. f.slot \in Seq(Entries) /\ DOMAIN f.slot = DOMAIN a.slot
  BY <1>1, <1>3, <1>4, ExceptSeq
<1>6. f.slot[i] = e /\ \A j \in DOMAIN a.slot : j # i => f.slot[j] = a.slot[j]
  BY <1>1, <1>4
<1>7. GoodTable(f, X)
  <2>1. f \in Tables /\ IsInjective(f.free)
    BY <1>1, <1>3, <1>4, <1>5 DEF GoodTable, Tables
  <2>2. /\ ToSet(f.free) = {j \in DOMAIN a.slot : a.slot[j] = NoEntry} \ (X \cup {i})
        /\ X \subseteq DOMAIN a.slot
    BY <1>1, <1>4 DEF GoodTable
  <2>3. \A j \in DOMAIN a.slot :
          j \in ToSet(f.free) <=> f.slot[j] = NoEntry /\ j \notin X
    BY <1>6, <2>2
  <2>4. ToSet(f.free) = {j \in DOMAIN f.slot : f.slot[j] = NoEntry} \ X
    BY <1>5, <2>2, <2>3
  <2> QED
    BY <1>5, <2>1, <2>2, <2>4 DEF GoodTable
<1>8. Puts(tb, f, i, e)
  <2>1. \A j \in Nat : j # i => At(f, j) = At(a, j)
    BY <1>5, <1>6 DEF At
  <2> QED
    BY <1>1, <1>5, <1>6, <2>1 DEF Puts, Same, At
<1> QED
  BY <1>1, <1>5, <1>7, <1>8 DEF i, f

\* A slot that was taken is freed.
LEMMA FreeGood ==
  ASSUME NEW tb, NEW X, GoodTable(tb, X), NEW i \in DOMAIN tb.slot,
         i \in X \/ At(tb, i) # NoEntry
  PROVE  LET f == FreeItemSlot(tb, i)
         IN  /\ GoodTable(f, X \ {i}) /\ Puts(tb, f, i, NoEntry)
             /\ DOMAIN f.slot = DOMAIN tb.slot
<1> DEFINE f == FreeItemSlot(tb, i)
<1>1. /\ tb \in [slot : Seq(Entries), free : Seq(Nat)]
      /\ i \in Nat /\ At(tb, i) = tb.slot[i]
  BY TableShape DEF GoodTable, Tables
<1>2. f = [tb EXCEPT !.slot[i] = NoEntry, !.free = <<i>> \o @]
  BY DEF FreeItemSlot
<1> HIDE DEF f
<1>3. /\ f.slot = [tb.slot EXCEPT ![i] = NoEntry] /\ f.free = <<i>> \o tb.free
      /\ f = [slot |-> f.slot, free |-> f.free]
  BY <1>1, <1>2
<1>4. f.slot \in Seq(Entries) /\ DOMAIN f.slot = DOMAIN tb.slot
  BY <1>1, <1>3, ExceptSeq, EntryKinds
<1>5. f.slot[i] = NoEntry /\ \A j \in DOMAIN tb.slot : j # i => f.slot[j] = tb.slot[j]
  BY <1>3
<1>6. i \notin ToSet(tb.free)
  BY <1>1 DEF GoodTable
<1>7. f.free \in Seq(Nat) /\ ToSet(f.free) = {i} \cup ToSet(tb.free) /\ IsInjective(f.free)
  <2>1. <<i>> \in Seq(Nat) /\ ToSet(<<i>>) = {i} /\ IsInjective(<<i>>)
    <3>1. <<i>> \in Seq(Nat) /\ DOMAIN <<i>> = {1} /\ <<i>>[1] = i
      BY <1>1
    <3> QED
      BY <3>1 DEF ToSet, IsInjective
  <2>2. /\ IsInjective(tb.free) /\ tb.free \in Seq(Nat)
        /\ ToSet(<<i>>) \cap ToSet(tb.free) = {}
    BY <1>1, <1>6, <2>1 DEF GoodTable
  <2>3. /\ <<i>> \o tb.free \in Seq(Nat)
        /\ ToSet(<<i>> \o tb.free) = ToSet(<<i>>) \cup ToSet(tb.free)
        /\ IsInjective(<<i>> \o tb.free)
    BY <2>1, <2>2, ConcatSet, Zenon
  <2> QED
    BY <1>3, <2>1, <2>3
<1>8. GoodTable(f, X \ {i})
  <2>1. f \in Tables
    BY <1>3, <1>4, <1>7 DEF Tables
  <2>2. /\ ToSet(tb.free) = {j \in DOMAIN tb.slot : tb.slot[j] = NoEntry} \ X
        /\ X \subseteq DOMAIN tb.slot
    BY DEF GoodTable
  <2>3. \A j \in DOMAIN tb.slot :
          j \in ToSet(f.free) <=> f.slot[j] = NoEntry /\ j \notin X \ {i}
    BY <1>5, <1>7, <2>2
  <2>4. ToSet(f.free) = {j \in DOMAIN f.slot : f.slot[j] = NoEntry} \ (X \ {i})
    BY <1>4, <1>7, <2>2, <2>3
  <2> QED
    BY <1>4, <1>7, <2>1, <2>2, <2>4 DEF GoodTable
<1>9. Puts(tb, f, i, NoEntry)
  BY <1>1, <1>4, <1>5 DEF Puts, At
<1> QED
  BY <1>4, <1>8, <1>9 DEF f

\* FindItemSlot finds a slot with the entry, if there is one.
LEMMA FindGood ==
  ASSUME NEW tb, NEW X, GoodTable(tb, X), NEW e, NEW j \in Nat, At(tb, j) = e, e # NoEntry
  PROVE  /\ FindItemSlot(tb, e) \in DOMAIN tb.slot
         /\ FindItemSlot(tb, e) \in Nat
         /\ At(tb, FindItemSlot(tb, e)) = e
<1>1. /\ DOMAIN tb.slot \subseteq Nat /\ j \in DOMAIN tb.slot /\ tb.slot[j] = e
      /\ \A i \in DOMAIN tb.slot : At(tb, i) = tb.slot[i]
  BY TableShape
<1>2. Slots(tb, e) \in SUBSET Nat /\ Slots(tb, e) # {}
  BY <1>1 DEF Slots
<1>3. \E m \in Slots(tb, e) : \A n \in Slots(tb, e) : m <= n
  BY <1>2, LeastNumber
<1>4. FindItemSlot(tb, e) \in Slots(tb, e)
  BY <1>3 DEF FindItemSlot
<1> QED
  BY <1>1, <1>4 DEF Slots

LEMMA RemoveGood ==
  ASSUME NEW tb, NEW X, GoodTable(tb, X), NEW e, NEW j \in Nat, At(tb, j) = e,
         e # NoEntry, FindItemSlot(tb, e) \notin X
  PROVE  LET f == RemoveItem(tb, e)
             i == FindItemSlot(tb, e)
         IN  /\ GoodTable(f, X) /\ Puts(tb, f, i, NoEntry)
             /\ i \in Nat /\ At(tb, i) = e
             /\ DOMAIN f.slot = DOMAIN tb.slot
<1> DEFINE i == FindItemSlot(tb, e)
           f == RemoveItem(tb, e)
<1>1. i \in DOMAIN tb.slot /\ i \in Nat /\ At(tb, i) = e
  BY FindGood
<1>2. f = FreeItemSlot(tb, i)
  BY DEF RemoveItem
<1> HIDE DEF i, f
<1>3. /\ GoodTable(f, X \ {i}) /\ Puts(tb, f, i, NoEntry)
      /\ DOMAIN f.slot = DOMAIN tb.slot
  BY <1>1, <1>2, FreeGood
<1>4. X \ {i} = X
  BY DEF i
<1> QED
  BY <1>1, <1>3, <1>4 DEF i, f

\* One turn of FreeItemSlots, after those that g has the outcome of.
Turn(g, tb, T, k) ==
  IF k = 0 THEN tb
  ELSE LET i == Len(tb.slot) + 1 - k
       IN  IF i \in T THEN FreeItemSlot(g[k - 1], i) ELSE g[k - 1]

Turns(g, tb, T, n) == g = [k \in 0..n |-> Turn(g, tb, T, k)]

\* The turns have an outcome, and it is what FreeItemSlots returns.
LEMMA TurnsExist ==
  ASSUME NEW tb, NEW T, Len(tb.slot) \in Nat
  PROVE  \E g : Turns(g, tb, T, Len(tb.slot)) /\ FreeItemSlots(tb, T) = g[Len(tb.slot)]
<1> DEFINE N == {n \in Nat : \E g : Turns(g, tb, T, n)}
           F == CHOOSE g : Turns(g, tb, T, Len(tb.slot))
<1>1. 0 \in N
  <2>1. Turns([i \in 0..0 |-> tb], tb, T, 0)
    BY DEF Turns, Turn
  <2> QED
    BY <2>1
<1>2. ASSUME NEW n \in N PROVE n + 1 \in N
  <2>1. PICK g : Turns(g, tb, T, n)
    OBVIOUS
  <2> DEFINE h == [i \in 0..(n + 1) |-> Turn(g, tb, T, i)]
  <2>2. \A i \in 0..n : h[i] = g[i]
    BY <2>1 DEF Turns
  <2>3. \A i \in 0..(n + 1) : i # 0 => i - 1 \in 0..n
    OBVIOUS
  <2>4. \A i \in 0..(n + 1) : Turn(h, tb, T, i) = Turn(g, tb, T, i)
    <3> HIDE DEF h, N, F
    <3>1. \A i \in 0..(n + 1) : i # 0 => h[i - 1] = g[i - 1]
      BY <2>2, <2>3
    <3> QED
      BY <3>1 DEF Turn
  <2>5. Turns(h, tb, T, n + 1)
    BY <2>4 DEF Turns
  <2> HIDE DEF h
  <2> QED
    BY <2>5
<1>3. Len(tb.slot) \in N
  <2> HIDE DEF N
  <2>1. N \in SUBSET Nat
    BY DEF N
  <2> QED
    BY <1>1, <1>2, <2>1, SetInduction
<1>4. Turns(F, tb, T, Len(tb.slot))
  BY <1>3
<1>5. FreeItemSlots(tb, T) = F[Len(tb.slot)]
  BY Zenon DEF FreeItemSlots, Turns, Turn
<1> QED
  BY <1>4, <1>5

\* FreeItemSlots frees exactly the slots of T.
LEMMA FreeManyGood ==
  ASSUME NEW tb, GoodTable(tb, {}), NEW T \in SUBSET DOMAIN tb.slot,
         \A j \in T : At(tb, j) # NoEntry
  PROVE  LET f == FreeItemSlots(tb, T)
         IN  /\ GoodTable(f, {}) /\ DOMAIN f.slot = DOMAIN tb.slot
             /\ \A j \in T : At(f, j) = NoEntry
             /\ \A j \in Nat : j \notin T => At(f, j) = At(tb, j)
<1> DEFINE n == Len(tb.slot)
<1>1. n \in Nat /\ DOMAIN tb.slot = 1..n
  BY TableShape
<1>2. PICK g : Turns(g, tb, T, n) /\ FreeItemSlots(tb, T) = g[n]
  BY <1>1, TurnsExist
<1> HIDE DEF n
<1>3. /\ g[0] = tb
      /\ \A k \in 1..n : /\ n + 1 - k \in T => g[k] = FreeItemSlot(g[k - 1], n + 1 - k)
                         /\ n + 1 - k \notin T => g[k] = g[k - 1]
  <2>1. 0 \in 0..n /\ \A k \in 1..n : k \in 0..n /\ k # 0
    BY <1>1
  <2>2. \A k \in 0..n : g[k] = Turn(g, tb, T, k)
    BY <1>2 DEF Turns
  <2> QED
    BY <2>1, <2>2 DEF Turn, n
<1> DEFINE past(k) == {j \in T : j > n - k}
           Good(k) == /\ GoodTable(g[k], {}) /\ DOMAIN g[k].slot = DOMAIN tb.slot
                      /\ \A j \in past(k) : At(g[k], j) = NoEntry
                      /\ \A j \in Nat : j \notin past(k) => At(g[k], j) = At(tb, j)
           N == {k \in Nat : k <= n => Good(k)}
<1>4. 0 \in N
  <2>1. past(0) = {}
    BY <1>1
  <2> QED
    BY <1>3, <2>1
<1>5. ASSUME NEW k \in N PROVE k + 1 \in N
  <2>1. SUFFICES ASSUME k + 1 <= n PROVE Good(k + 1)
    OBVIOUS
  <2>2. k \in Nat /\ k + 1 \in 1..n /\ (k + 1) - 1 = k
    BY <1>1, <2>1
  <2>3. Good(k)
    BY <1>1, <2>1, <2>2
  <2> DEFINE i == n - k
  <2>4. i \in 1..n /\ i = n + 1 - (k + 1) /\ i \notin past(k)
    BY <1>1, <2>1, <2>2
  <2>5. /\ i \in T => past(k + 1) = past(k) \cup {i}
        /\ i \notin T => past(k + 1) = past(k)
    BY <1>1, <2>2
  <2> DEFINE a == g[k]
             b == g[k + 1]
             P == past(k)
             Q == past(k + 1)
  <2>6. /\ GoodTable(a, {}) /\ DOMAIN a.slot = DOMAIN tb.slot
        /\ \A j \in P : At(a, j) = NoEntry
        /\ \A j \in Nat : j \notin P => At(a, j) = At(tb, j)
    BY <2>3
  <2>7. /\ i \in T => b = FreeItemSlot(a, i)
        /\ i \notin T => b = a
    BY <1>3, <2>2, <2>4
  <2>8. SUFFICES /\ GoodTable(b, {}) /\ DOMAIN b.slot = DOMAIN tb.slot
                 /\ \A j \in Q : At(b, j) = NoEntry
                 /\ \A j \in Nat : j \notin Q => At(b, j) = At(tb, j)
    OBVIOUS
  <2>9. /\ i \in T => Q = P \cup {i}
        /\ i \notin T => Q = P
    BY <2>5
  <2>10. i \in Nat /\ i \notin P /\ i \in DOMAIN tb.slot /\ P \subseteq Nat
    BY <1>1, <2>4
  <2> HIDE DEF i, a, b, P, Q, past, Good, N
  <2>11. CASE i \in T
    <3>1. At(a, i) # NoEntry
      BY <2>6, <2>10, <2>11
    <3>2. /\ GoodTable(b, {} \ {i}) /\ Puts(a, b, i, NoEntry)
          /\ DOMAIN b.slot = DOMAIN a.slot
      BY <2>6, <2>7, <2>10, <2>11, <3>1, FreeGood
    <3>3. {} \ {i} = {}
      OBVIOUS
    <3> QED
      BY <2>6, <2>9, <2>10, <2>11, <3>2, <3>3 DEF Puts
  <2>12. CASE i \notin T
    BY <2>6, <2>7, <2>9, <2>12
  <2> QED
    BY <2>11, <2>12
<1>6. Good(n)
  <2> HIDE DEF Good
  <2>1. N \in SUBSET Nat
    OBVIOUS
  <2> HIDE DEF N
  <2>2. N = Nat
    BY <1>4, <1>5, <2>1, SetInduction
  <2> QED
    BY <1>1, <2>2 DEF N
<1>7. past(n) = T
  BY <1>1
<1> QED
  BY <1>2, <1>6, <1>7

-----------------------------------------------------------------------------
(* The invariant *)

\* Only FreeResources, and the closes that it makes, are calls of an exiting task.
Calls ==
  {cl \in [in : {"user", "load", "unload", "exit", "dead"}, copy : Nat, slot : Nat,
           answer : {"none", "done", "failed"}, exits : BOOLEAN, left : Nat] :
     cl.in \in {"user", "load"} => ~cl.exits}

Folios ==
  [code : {"none", "asked", "loaded", "failed", "freed"}, there : BOOLEAN,
   count : Int, context : BOOLEAN, owner : Task \cup {NoTask}]

Jobs == {"none", "load", "loaded", "unload", "unloading", "unloaded"}

Systems ==
  [folio : [Copy -> Folios], table : [Task -> Tables], call : [Task -> Calls],
   port : Seq(Task), job : [Task -> Jobs], current : Task \cup {NoTask},
   wild : BOOLEAN]

\* The slot that an open or a close sleeps with.
Slept(cl) == IF cl.in = "unload" THEN {cl.slot} ELSE {}

\* Slot i holds an open of c that is not being closed.
IsLive(tb, cl, c, i) == At(tb, i) = Open(c) /\ i \notin Slept(cl)

\* A table and the call its task is in: SlotsAccounted, of one task.
SlotsOK(tb, cl) ==
  /\ GoodTable(tb, Slept(cl))
  /\ ~cl.exits =>
       \A c \in Copy : \A i \in Nat :
         At(tb, i) = Made(c) => \E j \in Nat : IsLive(tb, cl, c, j)

\* A task that may not open twice has a copy open once, and FreeResources has left
\* none open in the slots that it has been through.
OpenOnce(t, tb, cl) ==
  t \notin Twice =>
    /\ \A c \in Copy : \A i, j \in Nat :
         At(tb, i) = Open(c) /\ At(tb, j) = Open(c) => i = j
    /\ cl.exits => \A i \in Nat : \A c \in Copy : IsLive(tb, cl, c, i) => i <= cl.left

\* A task that asks the server has its port and message.
CallOK(t, tb, cl) ==
  /\ cl.in \in {"load", "unload"} =>
       (\E i \in Nat : At(tb, i) = Message) /\ (\E i \in Nat : At(tb, i) = Port)
  /\ cl.in = "unload" => At(tb, cl.slot) = NoEntry \/ At(tb, cl.slot) = Open(cl.copy)
  /\ cl.in = "load" => \A i \in Nat : At(tb, i) # Open(cl.copy)
  /\ cl.in \in {"user", "load"} => ~cl.exits
  /\ cl.in \in {"exit", "dead"} => cl.exits
  /\ cl.exits => t \in MayExit /\ cl.left <= Len(tb.slot)
  /\ OpenOnce(t, tb, cl)

\* How far a call has come, at the server (its port, its thread) and with the
\* copy it is about.
LoadPhase(f, job, answer, asks) ==
  /\ ~f.context
  /\ \/ f.code = "asked" /\ ~f.there /\ job = "none" /\ answer = "none" /\ asks
     \/ f.code = "loaded" /\ ~f.there /\ job = "load" /\ answer = "none" /\ ~asks
     \/ f.code = "loaded" /\ f.there /\ job = "loaded" /\ answer = "none" /\ ~asks
     \/ f.code = "loaded" /\ f.there /\ job = "none" /\ answer = "done" /\ ~asks
     \/ f.code = "failed" /\ ~f.there /\ job = "none" /\ answer = "failed" /\ ~asks

UnloadPhase(f, job, answer, asks) ==
  /\ f.context
  /\ \/ job = "none" /\ answer = "none" /\ asks
     \/ job \in {"unload", "unloading"} /\ answer = "none" /\ ~asks
     \/ f.code = "freed" /\ job = "unloaded" /\ answer = "none" /\ ~asks
     \/ f.code = "freed" /\ job = "none" /\ answer = "done" /\ ~asks

Phase(cl, folio, job, asks) ==
  /\ cl.in \in {"user", "exit", "dead"} => job = "none" /\ cl.answer = "none" /\ ~asks
  /\ cl.in = "load" =>
       cl.copy \in Copy /\ LoadPhase(folio[cl.copy], job, cl.answer, asks)
  /\ cl.in = "unload" =>
       cl.copy \in Copy /\ UnloadPhase(folio[cl.copy], job, cl.answer, asks)

CopyOK(f) ==
  /\ f.there \/ f.context => f.code \in {"loaded", "freed"}
  /\ ~f.there => f.count = 0

\* The opens of a copy that are not being closed.
LiveOf(t, tb, cl, c) == {t} \X {i \in Nat : IsLive(tb, cl, c, i)}

Live(s, c) == UNION {LiveOf(t, s.table[t], s.call[t], c) : t \in Task}

\* No task that may open twice may exit.
Apart == Twice \cap MayExit = {}

Counted(s, c) ==
  /\ Cardinality(Live(s, c)) <= s.folio[c].count
  /\ Apart => Cardinality(Live(s, c)) = s.folio[c].count

\* Somebody has a copy that is in memory open, or asks for its loading or
\* unloading.
Needed(s, c) ==
  s.folio[c].code = "loaded" =>
    /\ \/ s.folio[c].count > 0
       \/ \E t \in Task : s.call[t].copy = c /\ s.call[t].in \in {"load", "unload"}
    /\ \/ s.folio[c].context
       \/ \E t \in Task : s.call[t].copy = c /\ s.call[t].in = "load"

Tame(s) ==
  /\ \A t \in Task : CallOK(t, s.table[t], s.call[t])
  /\ \A t \in Task : Phase(s.call[t], s.folio, s.job[t], t \in ToSet(s.port))
  /\ \A t, u \in Task :
       s.call[t].in = "load" /\ s.call[u].in = "load" /\ t # u
         => s.call[t].copy # s.call[u].copy
  /\ IsInjective(s.port)
  /\ s.current # NoTask => s.call[s.current].in = "exit"
  /\ \A c \in Copy : CopyOK(s.folio[c]) /\ Counted(s, c) /\ Needed(s, c)

LoadInv(s) ==
  /\ s \in Systems
  /\ \A t \in Task : SlotsOK(s.table[t], s.call[t])
  /\ ~s.wild => Tame(s)

\* What is so of all tasks but t, and of the copies, when t is between two
\* assignments of its own.
Others(s, t) ==
  /\ s \in Systems /\ ~s.wild
  /\ \A u \in Task : SlotsOK(s.table[u], s.call[u])
  /\ \A u \in Task \ {t} :
       /\ CallOK(u, s.table[u], s.call[u])
       /\ Phase(s.call[u], s.folio, s.job[u], u \in ToSet(s.port))
  /\ \A u, v \in Task \ {t} :
       s.call[u].in = "load" /\ s.call[v].in = "load" /\ u # v
         => s.call[u].copy # s.call[v].copy
  /\ IsInjective(s.port)
  /\ s.current \in {NoTask, t}
  /\ \A c \in Copy : CopyOK(s.folio[c]) /\ Counted(s, c) /\ Needed(s, c)

-----------------------------------------------------------------------------
(* What a step of one task needs to keep the invariant *)

\* Nothing of the other tasks has changed.
Moved(s, r, t) ==
  /\ r \in Systems /\ ~r.wild
  /\ \A u \in Task \ {t} :
       /\ r.table[u] = s.table[u] /\ r.call[u] = s.call[u] /\ r.job[u] = s.job[u]
       /\ u \in ToSet(r.port) <=> u \in ToSet(s.port)
  /\ IsInjective(r.port)
  /\ r.current \in {NoTask, t}

\* How a step changes what a task has open of a copy, and the copy's count.
LiveStep(tb, cl, tb2, cl2, c, n, n2) ==
  \/ /\ n2 = n
     /\ \A i \in Nat : IsLive(tb2, cl2, c, i) <=> IsLive(tb, cl, c, i)
  \/ /\ n2 = n + 1
     /\ \E k \in Nat : /\ ~IsLive(tb, cl, c, k) /\ IsLive(tb2, cl2, c, k)
                       /\ \A i \in Nat : i # k =>
                            (IsLive(tb2, cl2, c, i) <=> IsLive(tb, cl, c, i))
  \/ /\ n2 = n - 1
     /\ \E k \in Nat : /\ IsLive(tb, cl, c, k) /\ ~IsLive(tb2, cl2, c, k)
                       /\ \A i \in Nat : i # k =>
                            (IsLive(tb2, cl2, c, i) <=> IsLive(tb, cl, c, i))
  \/ /\ n2 = n
     /\ \A i \in Nat : ~IsLive(tb2, cl2, c, i)
     /\ Apart => \A i \in Nat : ~IsLive(tb, cl, c, i)

\* A finite set that grows or shrinks with its count.
LEMMA CountStep ==
  ASSUME NEW L, IsFiniteSet(L), NEW M, NEW n \in Int, NEW m \in Int, Cardinality(L) <= n,
         \/ m = n /\ M = L
         \/ m = n + 1 /\ \E p : p \notin L /\ M = L \cup {p}
         \/ m = n - 1 /\ \E p : p \in L /\ M = L \ {p}
         \/ m = n /\ M \subseteq L /\ (Apart => M = L)
  PROVE  /\ Cardinality(M) <= m
         /\ Apart /\ Cardinality(L) = n => Cardinality(M) = m
<1>1. Cardinality(L) \in Nat
  BY FS_CardinalityType
<1>2. CASE m = n /\ M = L
  BY <1>2
<1>3. CASE m = n + 1 /\ \E p : p \notin L /\ M = L \cup {p}
  <2>1. PICK p : p \notin L /\ M = L \cup {p}
    BY <1>3
  <2>2. Cardinality(M) = Cardinality(L) + 1
    BY <2>1, FS_AddElement
  <2> QED
    BY <1>1, <1>3, <2>2
<1>4. CASE m = n - 1 /\ \E p : p \in L /\ M = L \ {p}
  <2>1. PICK p : p \in L /\ M = L \ {p}
    BY <1>4
  <2>2. Cardinality(M) = Cardinality(L) - 1
    BY <2>1, FS_RemoveElement
  <2> QED
    BY <1>1, <1>4, <2>2
<1>5. CASE m = n /\ M \subseteq L /\ (Apart => M = L)
  <2>1. Cardinality(M) <= Cardinality(L) /\ Cardinality(M) \in Nat
    BY <1>5, FS_Subset, FS_CardinalityType
  <2> QED
    BY <1>1, <1>5, <2>1
<1> QED
  BY <1>2, <1>3, <1>4, <1>5

\* What the tasks have open is finite.
LEMMA LiveFinite ==
  ASSUME NEW s, \A u \in Task : SlotsOK(s.table[u], s.call[u]), NEW c \in Copy
  PROVE  IsFiniteSet(Live(s, c))
<1> DEFINE of(u) == LiveOf(u, s.table[u], s.call[u], c)
<1>1. ASSUME NEW u \in Task PROVE IsFiniteSet(of(u))
  <2> DEFINE tb == s.table[u]
             I == {i \in Nat : IsLive(tb, s.call[u], c, i)}
             n == Len(tb.slot)
  <2>1. /\ n \in Nat /\ DOMAIN tb.slot = 1..n
        /\ \A j \in Nat : At(tb, j) # NoEntry => j \in DOMAIN tb.slot
    BY <1>1, TableShape DEF SlotsOK
  <2>2. I \subseteq 1..n
    BY <2>1, EntryKinds DEF IsLive
  <2>3. IsFiniteSet(I)
    <3>1. 1 \in Int /\ n \in Int
      BY <2>1
    <3>2. IsFiniteSet(1..n)
      BY <3>1, FS_Interval
    <3> QED
      BY <2>2, <3>2, FS_Subset
  <2>4. IsFiniteSet({u} \X I)
    BY <2>3, FS_Product, FS_Singleton
  <2> QED
    BY <2>4 DEF LiveOf
<1>2. IsFiniteSet({of(u) : u \in Task})
  <2> DEFINE f == [u \in Task |-> of(u)]
             T == {of(u) : u \in Task}
  <2>1. f \in Surjection(Task, T)
    <3> HIDE DEF of
    <3> QED
      BY DEF Surjection
  <2> QED
    BY <2>1, LoadAssumption, FS_Surjection
<1>3. Live(s, c) = UNION {of(u) : u \in Task}
  BY DEF Live
<1> QED
  BY <1>1, <1>2, <1>3, FS_UNION

LEMMA InLive ==
  ASSUME NEW s, NEW c, NEW p
  PROVE  p \in Live(s, c) <=>
           \E u \in Task : \E i \in Nat :
             p = <<u, i>> /\ IsLive(s.table[u], s.call[u], c, i)
BY DEF Live, LiveOf

\* A copy is counted as open as often as before and after.
LEMMA CountedStep ==
  ASSUME NEW s, NEW r, NEW t \in Task, Others(s, t), Moved(s, r, t), NEW c \in Copy,
         LiveStep(s.table[t], s.call[t], r.table[t], r.call[t], c,
                  s.folio[c].count, r.folio[c].count)
  PROVE  Counted(r, c)
<1> DEFINE L == Live(s, c)
           M == Live(r, c)
           n == s.folio[c].count
           m == r.folio[c].count
           was(i) == IsLive(s.table[t], s.call[t], c, i)
           is(i) == IsLive(r.table[t], r.call[t], c, i)
<1>1. IsFiniteSet(L) /\ Cardinality(L) <= n /\ (Apart => Cardinality(L) = n)
  BY LiveFinite DEF Others, Counted
<1>2. n \in Int /\ m \in Int
  BY DEF Others, Moved, Systems, Folios
<1>3. \A u \in Task \ {t}, i \in Nat : <<u, i>> \in M <=> <<u, i>> \in L
  BY InLive DEF Moved
<1>4. \A i \in Nat : (<<t, i>> \in L <=> was(i)) /\ (<<t, i>> \in M <=> is(i))
  BY InLive
<1>5. \A p \in L \cup M : \E u \in Task : \E i \in Nat : p = <<u, i>>
  BY InLive
<1>6. \/ m = n /\ \A i \in Nat : is(i) <=> was(i)
      \/ m = n + 1 /\ \E k \in Nat : /\ ~was(k) /\ is(k)
                                     /\ \A i \in Nat : i # k => (is(i) <=> was(i))
      \/ m = n - 1 /\ \E k \in Nat : /\ was(k) /\ ~is(k)
                                     /\ \A i \in Nat : i # k => (is(i) <=> was(i))
      \/ m = n /\ (\A i \in Nat : ~is(i)) /\ (Apart => \A i \in Nat : ~was(i))
  BY DEF LiveStep
<1> HIDE DEF L, M, n, m, was, is
<1>7. CASE m = n /\ \A i \in Nat : is(i) <=> was(i)
  <2>1. M = L
    <3>1. \A u \in Task, i \in Nat : <<u, i>> \in M <=> <<u, i>> \in L
      BY <1>3, <1>4, <1>7
    <3> QED
      BY <1>5, <3>1
  <2> QED
    BY <1>1, <1>7, <2>1 DEF Counted, M, m
<1>8. CASE m = n + 1 /\ \E k \in Nat : /\ ~was(k) /\ is(k)
                                       /\ \A i \in Nat : i # k => (is(i) <=> was(i))
  <2>1. PICK k \in Nat : /\ ~was(k) /\ is(k)
                         /\ \A i \in Nat : i # k => (is(i) <=> was(i))
    BY <1>8
  <2>2. <<t, k>> \notin L /\ <<t, k>> \in M
    BY <1>4, <2>1
  <2>3. \A u \in Task, i \in Nat :
          <<u, i>> # <<t, k>> => (<<u, i>> \in M <=> <<u, i>> \in L)
    BY <1>3, <1>4, <2>1
  <2>4. M = L \cup {<<t, k>>}
    BY <1>5, <2>2, <2>3
  <2> QED
    BY <1>1, <1>2, <1>8, <2>2, <2>4, CountStep DEF Counted, M, m
<1>9. CASE m = n - 1 /\ \E k \in Nat : /\ was(k) /\ ~is(k)
                                       /\ \A i \in Nat : i # k => (is(i) <=> was(i))
  <2>1. PICK k \in Nat : /\ was(k) /\ ~is(k)
                         /\ \A i \in Nat : i # k => (is(i) <=> was(i))
    BY <1>9
  <2>2. <<t, k>> \in L /\ <<t, k>> \notin M
    BY <1>4, <2>1
  <2>3. \A u \in Task, i \in Nat :
          <<u, i>> # <<t, k>> => (<<u, i>> \in M <=> <<u, i>> \in L)
    BY <1>3, <1>4, <2>1
  <2>4. M = L \ {<<t, k>>}
    BY <1>5, <2>2, <2>3
  <2> QED
    BY <1>1, <1>2, <1>9, <2>2, <2>4, CountStep DEF Counted, M, m
<1>10. CASE m = n /\ (\A i \in Nat : ~is(i)) /\ (Apart => \A i \in Nat : ~was(i))
  <2>1. \A u \in Task, i \in Nat : <<u, i>> \in M => <<u, i>> \in L
    BY <1>3, <1>4, <1>10
  <2>2. M \subseteq L
    BY <1>5, <2>1
  <2>3. Apart => M = L
    <3>1. Apart => \A u \in Task, i \in Nat : <<u, i>> \in L => <<u, i>> \in M
      BY <1>3, <1>4, <1>10
    <3> QED
      BY <1>5, <2>2, <3>1
  <2> QED
    BY <1>1, <1>2, <1>10, <2>2, <2>3, CountStep DEF Counted, M, m
<1> QED
  BY <1>6, <1>7, <1>8, <1>9, <1>10

\* What the calls of other tasks need of a copy is still so.
KeptFor(s, t, d, f, g) ==
  \A u \in Task \ {t} : s.call[u].copy = d =>
    /\ s.call[u].in = "load" =>
         g.code = f.code /\ (g.there <=> f.there) /\ (g.context <=> f.context)
    /\ s.call[u].in = "unload" =>
         (f.context => g.context) /\ (f.code = "freed" => g.code = "freed")

CopyStep(s, r, t, d) ==
  CopyOK(r.folio[d]) /\ KeptFor(s, t, d, s.folio[d], r.folio[d]) /\ Needed(r, d)

\* t is still in the call about d that it was in.
StaysWith(s, r, t, d) ==
  s.call[t].copy = d /\ s.call[t].in \in {"load", "unload"} =>
    r.call[t].copy = d /\ r.call[t].in = s.call[t].in

LEMMA NeededStep ==
  ASSUME NEW s, NEW r, NEW t \in Task, Moved(s, r, t), NEW d, Needed(s, d),
         r.folio[d].code = "loaded" => s.folio[d].code = "loaded",
         s.folio[d].context => r.folio[d].context,
         s.folio[d].count > 0 => r.folio[d].count > 0,
         r.folio[d].code = "loaded" => StaysWith(s, r, t, d)
  PROVE  Needed(r, d)
<1>1. SUFFICES ASSUME r.folio[d].code = "loaded"
      PROVE  /\ \/ r.folio[d].count > 0
                \/ \E u \in Task : r.call[u].copy = d /\ r.call[u].in \in {"load", "unload"}
             /\ \/ r.folio[d].context
                \/ \E u \in Task : r.call[u].copy = d /\ r.call[u].in = "load"
  BY DEF Needed
<1>2. ASSUME NEW u \in Task, s.call[u].copy = d, s.call[u].in \in {"load", "unload"}
      PROVE  r.call[u].copy = d /\ r.call[u].in = s.call[u].in
  BY <1>1, <1>2 DEF Moved, StaysWith
<1>3. \/ s.folio[d].count > 0
      \/ \E u \in Task : s.call[u].copy = d /\ s.call[u].in \in {"load", "unload"}
  BY <1>1 DEF Needed
<1>4. \/ s.folio[d].context
      \/ \E u \in Task : s.call[u].copy = d /\ s.call[u].in = "load"
  BY <1>1 DEF Needed
<1>5. \/ r.folio[d].count > 0
      \/ \E u \in Task : r.call[u].copy = d /\ r.call[u].in \in {"load", "unload"}
  BY <1>2, <1>3
<1>6. \/ r.folio[d].context
      \/ \E u \in Task : r.call[u].copy = d /\ r.call[u].in = "load"
  BY <1>2, <1>4
<1> QED
  BY <1>5, <1>6

\* A copy that the step leaves alone.
LEMMA CopyStays ==
  ASSUME NEW s, NEW r, NEW t \in Task, Others(s, t), Moved(s, r, t), NEW d \in Copy,
         r.folio[d] = s.folio[d],
         s.folio[d].code = "loaded" => StaysWith(s, r, t, d)
  PROVE  CopyStep(s, r, t, d)
<1>1. CopyOK(s.folio[d]) /\ Needed(s, d)
  BY DEF Others
<1>2. Needed(r, d)
  BY <1>1, NeededStep
<1> QED
  BY <1>1, <1>2 DEF CopyStep, KeptFor

\* A step of t leaves the others in order.
LEMMA OthersMove ==
  ASSUME NEW s, NEW r, NEW t \in Task, Others(s, t), Moved(s, r, t),
         SlotsOK(r.table[t], r.call[t]),
         \A d \in Copy : /\ CopyStep(s, r, t, d)
                         /\ LiveStep(s.table[t], s.call[t], r.table[t], r.call[t], d,
                                     s.folio[d].count, r.folio[d].count)
  PROVE  Others(r, t)
<1>1. \A c \in Copy : CopyOK(r.folio[c]) /\ Counted(r, c) /\ Needed(r, c)
  BY CountedStep DEF CopyStep
<1>2. \A u \in Task : SlotsOK(r.table[u], r.call[u])
  BY DEF Others, Moved
<1>3. \A u \in Task \ {t} : CallOK(u, r.table[u], r.call[u])
  BY DEF Others, Moved
<1>4. \A u \in Task \ {t} : Phase(r.call[u], r.folio, r.job[u], u \in ToSet(r.port))
  <2>1. SUFFICES ASSUME NEW u \in Task \ {t}
                 PROVE  Phase(r.call[u], r.folio, r.job[u], u \in ToSet(r.port))
    OBVIOUS
  <2> DEFINE cl == s.call[u]
             job == s.job[u]
             asks == u \in ToSet(s.port)
             d == cl.copy
             f == s.folio[d]
             g == r.folio[d]
  <2>2. /\ r.call[u] = cl /\ r.job[u] = job /\ (u \in ToSet(r.port) <=> asks)
        /\ Phase(cl, s.folio, job, asks)
    BY DEF Others, Moved
  <2>3. \A x \in Copy : KeptFor(s, t, x, s.folio[x], r.folio[x])
    BY DEF CopyStep
  <2>4. d \in Copy =>
          /\ cl.in = "load" =>
               g.code = f.code /\ (g.there <=> f.there) /\ (g.context <=> f.context)
          /\ cl.in = "unload" =>
               (f.context => g.context) /\ (f.code = "freed" => g.code = "freed")
    BY <2>3 DEF KeptFor
  <2>5. cl.in = "load" => d \in Copy /\ LoadPhase(f, job, cl.answer, asks)
    BY <2>2 DEF Phase
  <2>6. cl.in = "unload" => d \in Copy /\ UnloadPhase(f, job, cl.answer, asks)
    BY <2>2 DEF Phase
  <2>7. cl.in \in {"user", "exit", "dead"} => job = "none" /\ cl.answer = "none" /\ ~asks
    BY <2>2 DEF Phase
  <2> HIDE DEF f, g, asks, job, cl
  <2>8. cl.in = "load" => LoadPhase(g, job, cl.answer, asks)
    BY <2>4, <2>5 DEF LoadPhase
  <2>9. cl.in = "unload" => UnloadPhase(g, job, cl.answer, asks)
    BY <2>4, <2>6 DEF UnloadPhase
  <2>10. Phase(cl, r.folio, job, asks)
    BY <2>5, <2>6, <2>7, <2>8, <2>9 DEF Phase, g
  <2>11. Phase(cl, r.folio, job, asks) = Phase(r.call[u], r.folio, r.job[u], u \in ToSet(r.port))
    <3>1. (u \in ToSet(r.port)) = asks
      BY <2>2 DEF asks
    <3> QED
      BY <2>2, <3>1
  <2> QED
    BY <2>10, <2>11
<1>5. \A u, v \in Task \ {t} :
        r.call[u].in = "load" /\ r.call[v].in = "load" /\ u # v
          => r.call[u].copy # r.call[v].copy
  <2>1. \A u \in Task \ {t} : r.call[u] = s.call[u]
    BY DEF Moved
  <2> QED
    BY <2>1 DEF Others
<1>6. r \in Systems /\ ~r.wild /\ IsInjective(r.port) /\ r.current \in {NoTask, t}
  BY DEF Moved
<1> QED
  BY <1>1, <1>2, <1>3, <1>4, <1>5, <1>6 DEF Others

\* After it, when t is in order too, everything is.
LEMMA OthersInv ==
  ASSUME NEW r, NEW t \in Task, Others(r, t), CallOK(t, r.table[t], r.call[t]),
         Phase(r.call[t], r.folio, r.job[t], t \in ToSet(r.port)),
         r.current # NoTask => r.call[t].in = "exit",
         \A u \in Task \ {t} : r.call[t].in = "load" /\ r.call[u].in = "load"
                                 => r.call[u].copy # r.call[t].copy
  PROVE  LoadInv(r)
<1>1. \A u \in Task : CallOK(u, r.table[u], r.call[u])
  BY DEF Others
<1>2. \A u \in Task : Phase(r.call[u], r.folio, r.job[u], u \in ToSet(r.port))
  BY DEF Others
<1>3. \A u, v \in Task :
        r.call[u].in = "load" /\ r.call[v].in = "load" /\ u # v
          => r.call[u].copy # r.call[v].copy
  BY DEF Others
<1>4. r.current # NoTask => r.call[r.current].in = "exit"
  BY DEF Others
<1> QED
  BY <1>1, <1>2, <1>3, <1>4 DEF LoadInv, Tame, Others

\* The step of a task keeps the invariant.
LEMMA MoveInv ==
  ASSUME NEW s, NEW r, NEW t \in Task, Others(s, t), Moved(s, r, t),
         SlotsOK(r.table[t], r.call[t]), CallOK(t, r.table[t], r.call[t]),
         Phase(r.call[t], r.folio, r.job[t], t \in ToSet(r.port)),
         r.current # NoTask => r.call[t].in = "exit",
         \A u \in Task \ {t} : r.call[t].in = "load" /\ s.call[u].in = "load"
                                 => s.call[u].copy # r.call[t].copy,
         \A d \in Copy : /\ CopyStep(s, r, t, d)
                         /\ LiveStep(s.table[t], s.call[t], r.table[t], r.call[t], d,
                                     s.folio[d].count, r.folio[d].count)
  PROVE  LoadInv(r)
<1>1. Others(r, t)
  BY OthersMove
<1>2. \A u \in Task \ {t} : r.call[t].in = "load" /\ r.call[u].in = "load"
                              => r.call[u].copy # r.call[t].copy
  BY DEF Moved
<1> QED
  BY <1>1, <1>2, OthersInv

\* Before a step, all is so of the others.
LEMMA InvOthers ==
  ASSUME NEW s, LoadInv(s), ~s.wild, NEW t \in Task, s.current \in {NoTask, t}
  PROVE  Others(s, t)
BY DEF LoadInv, Tame, Others

\* When freed memory has been used, the tables are still in order.
LEMMA WildInv ==
  ASSUME NEW s \in Systems, \A u \in Task : SlotsOK(s.table[u], s.call[u])
  PROVE  LoadInv(Wild(s))
<1> DEFINE r == Wild(s)
<1>1. /\ r \in Systems /\ r.wild = TRUE
      /\ r.table = s.table /\ r.call = s.call
  BY DEF Wild, Systems
<1> HIDE DEF r
<1>2. LoadInv(r)
  BY <1>1 DEF LoadInv
<1> QED
  BY <1>2 DEF r

-----------------------------------------------------------------------------
(* What the services do *)

\* t is back in its program, or in FreeResources.
Back(s, r, t) ==
  /\ r \in Systems /\ r.port = s.port /\ r.job = s.job /\ (r.wild <=> s.wild)
  /\ \A u \in Task \ {t} : r.table[u] = s.table[u] /\ r.call[u] = s.call[u]
  /\ s.call[t].exits => r.call[t].in = "exit" /\ r.current = t
  /\ ~s.call[t].exits => r.call[t].in = "user" /\ r.current = NoTask
  /\ (r.call[t].exits <=> s.call[t].exits) /\ r.call[t].left = s.call[t].left
  /\ r.call[t].answer = "none" /\ r.call[t].copy = 0

LEMMA ReturnedIs ==
  ASSUME NEW s \in Systems, NEW t \in Task
  PROVE  /\ Back(s, Returned(s, t), t)
         /\ Returned(s, t).folio = s.folio /\ Returned(s, t).table = s.table
<1> DEFINE cl == [NewCall EXCEPT !.in = IF Exiting(s, t) THEN "exit" ELSE "user",
                                 !.exits = s.call[t].exits,
                                 !.left = s.call[t].left]
           now == IF Exiting(s, t) THEN t ELSE NoTask
           r == Returned(s, t)
<1>1. r = [s EXCEPT !.call[t] = cl, !.current = now]
  BY DEF Returned
<1>2. s.call \in [Task -> Calls] /\ s.call[t] \in Calls
  BY DEF Systems
<1>3. /\ cl \in Calls /\ cl.answer = "none" /\ cl.copy = 0
      /\ (cl.exits <=> s.call[t].exits) /\ cl.left = s.call[t].left
      /\ s.call[t].exits => cl.in = "exit"
      /\ ~s.call[t].exits => cl.in = "user"
  BY <1>2 DEF Calls, NewCall, Exiting
<1>4. now \in Task \cup {NoTask} /\ (s.call[t].exits => now = t)
      /\ (~s.call[t].exits => now = NoTask)
  BY DEF Exiting
<1> HIDE DEF cl, now, r
<1>5. /\ r \in Systems /\ r.folio = s.folio /\ r.table = s.table /\ r.port = s.port
      /\ r.job = s.job /\ r.wild = s.wild /\ r.current = now
      /\ r.call = [s.call EXCEPT ![t] = cl]
  BY <1>1, <1>2, <1>3, <1>4 DEF Systems
<1>6. r.call[t] = cl /\ \A u \in Task \ {t} : r.call[u] = s.call[u]
  BY <1>2, <1>5
<1>7. Back(s, r, t)
  BY <1>3, <1>4, <1>5, <1>6 DEF Back
<1> QED
  BY <1>5, <1>7 DEF r

\* The table of t, and nothing else, is tb.
WithTable(s, t, tb) == [s EXCEPT !.table[t] = tb]

LEMMA WithTableIs ==
  ASSUME NEW s \in Systems, NEW t \in Task, NEW tb \in Tables
  PROVE  LET r == WithTable(s, t, tb)
         IN  /\ r \in Systems /\ r.folio = s.folio /\ r.port = s.port /\ r.job = s.job
             /\ r.wild = s.wild /\ r.call = s.call /\ r.current = s.current
             /\ r.table[t] = tb /\ \A u \in Task \ {t} : r.table[u] = s.table[u]
BY DEF WithTable, Systems

LEMMA FreesSlotIs ==
  ASSUME NEW s \in Systems, NEW t \in Task, NEW i, FreeItemSlot(s.table[t], i) \in Tables
  PROVE  LET r == FreesSlot(s, t, i)
         IN  /\ Back(s, r, t) /\ r.folio = s.folio
             /\ r.table[t] = FreeItemSlot(s.table[t], i)
<1> DEFINE w == WithTable(s, t, FreeItemSlot(s.table[t], i))
           r == FreesSlot(s, t, i)
<1>1. r = Returned(w, t)
  BY DEF FreesSlot, WithTable
<1>2. /\ w \in Systems /\ w.folio = s.folio /\ w.port = s.port /\ w.job = s.job
      /\ w.wild = s.wild /\ w.call = s.call /\ w.current = s.current
      /\ w.table[t] = FreeItemSlot(s.table[t], i)
      /\ \A u \in Task \ {t} : w.table[u] = s.table[u]
  BY WithTableIs
<1> HIDE DEF w, r
<1>3. Back(w, r, t) /\ r.folio = w.folio /\ r.table = w.table
  BY <1>1, <1>2, ReturnedIs
<1>4. Back(s, r, t)
  BY <1>2, <1>3 DEF Back
<1> QED
  BY <1>2, <1>3, <1>4 DEF r

\* Opens and items of the folio are where they were, and the slots of X hold what
\* they held.
SameItems(tb, f, X) ==
  /\ \A c \in Copy : \A j \in Nat : /\ At(f, j) = Open(c) <=> At(tb, j) = Open(c)
                                    /\ At(f, j) = Made(c) <=> At(tb, j) = Made(c)
  /\ \A j \in X : At(f, j) = At(tb, j)

\* UserModeService's port and message.
LEMMA AskTable ==
  ASSUME NEW tb, NEW X, GoodTable(tb, X)
  PROVE  LET f == Filled(Filled(tb, Port), Message)
         IN  /\ GoodTable(f, X) /\ SameItems(tb, f, X)
             /\ \E i \in Nat : At(f, i) = Message
             /\ \E i \in Nat : At(f, i) = Port
             /\ DOMAIN tb.slot \subseteq DOMAIN f.slot
<1> DEFINE a == Filled(tb, Port)
           f == Filled(a, Message)
           i == AllocItemSlot(tb)
           j == AllocItemSlot(a)
<1>1. /\ Port \in Entries /\ Port # NoEntry /\ Message \in Entries /\ Message # NoEntry
      /\ Port # Message
  BY EntryKinds
<1>2. /\ i \in Nat /\ i \notin X
      /\ GoodTable(a, X) /\ Puts(tb, a, i, Port) /\ At(tb, i) = NoEntry
      /\ DOMAIN tb.slot \subseteq DOMAIN a.slot
  BY <1>1, FillGood
<1> HIDE DEF a, i
<1>3. /\ j \in Nat /\ j \notin X
      /\ GoodTable(f, X) /\ Puts(a, f, j, Message) /\ At(a, j) = NoEntry
      /\ DOMAIN a.slot \subseteq DOMAIN f.slot
  BY <1>1, <1>2, FillGood
<1> HIDE DEF f, j
<1>4. i # j /\ At(f, i) = Port /\ At(f, j) = Message
  BY <1>1, <1>2, <1>3 DEF Puts
<1>5. \A k \in Nat : k # i /\ k # j => At(f, k) = At(tb, k)
  BY <1>2, <1>3 DEF Puts
<1>6. At(tb, j) = NoEntry
  BY <1>2, <1>3, <1>4 DEF Puts
<1>7. \A c \in Copy : \A k \in Nat : /\ At(f, k) = Open(c) <=> At(tb, k) = Open(c)
                                     /\ At(f, k) = Made(c) <=> At(tb, k) = Made(c)
  BY <1>2, <1>4, <1>5, <1>6, EntryKinds
<1>8. \A k \in X : At(f, k) = At(tb, k)
  <2>1. X \subseteq Nat
    BY TableShape DEF GoodTable
  <2> QED
    BY <1>2, <1>3, <1>5, <2>1
<1> QED
  BY <1>2, <1>3, <1>4, <1>7, <1>8 DEF SameItems, f, a

\* What is left when the answer has come.
LEMMA AnsweredTable ==
  ASSUME NEW tb, NEW X, GoodTable(tb, X),
         \E i \in Nat : At(tb, i) = Message, \E i \in Nat : At(tb, i) = Port,
         \A j \in X : At(tb, j) # Message /\ At(tb, j) # Port
  PROVE  LET f == Answered(tb)
         IN  /\ GoodTable(f, X) /\ SameItems(tb, f, X)
             /\ DOMAIN f.slot = DOMAIN tb.slot
<1> DEFINE a == RemoveItem(tb, Message)
           f == RemoveItem(a, Port)
           i == FindItemSlot(tb, Message)
           j == FindItemSlot(a, Port)
<1>1. /\ Port # NoEntry /\ Message # NoEntry /\ Port # Message
  BY EntryKinds
<1>2. i \in Nat /\ At(tb, i) = Message /\ i \notin X
  BY <1>1, FindGood
<1>3. /\ GoodTable(a, X) /\ Puts(tb, a, i, NoEntry)
      /\ DOMAIN a.slot = DOMAIN tb.slot
  BY <1>1, <1>2, RemoveGood
<1>4. X \subseteq Nat
  BY TableShape DEF GoodTable
<1> HIDE DEF a, i
<1>5. PICK k \in Nat : At(tb, k) = Port
  OBVIOUS
<1>6. k # i /\ At(a, k) = Port
  BY <1>1, <1>2, <1>3, <1>5 DEF Puts
<1>7. \A x \in X : At(a, x) = At(tb, x)
  BY <1>2, <1>3, <1>4 DEF Puts
<1>8. j \in Nat /\ At(a, j) = Port /\ j \notin X
  BY <1>1, <1>3, <1>6, <1>7, FindGood
<1>9. /\ GoodTable(f, X) /\ Puts(a, f, j, NoEntry)
      /\ DOMAIN f.slot = DOMAIN a.slot
  BY <1>1, <1>3, <1>8, RemoveGood
<1> HIDE DEF f, j
<1>10. j # i /\ At(tb, j) = Port
  BY <1>1, <1>2, <1>3, <1>8 DEF Puts
<1>11. /\ At(f, i) = NoEntry /\ At(f, j) = NoEntry
       /\ \A x \in Nat : x # i /\ x # j => At(f, x) = At(tb, x)
  BY <1>2, <1>3, <1>8, <1>9, <1>10 DEF Puts
<1>12. \A c \in Copy : \A x \in Nat : /\ At(f, x) = Open(c) <=> At(tb, x) = Open(c)
                                      /\ At(f, x) = Made(c) <=> At(tb, x) = Made(c)
  BY <1>2, <1>10, <1>11, EntryKinds
<1>13. \A x \in X : At(f, x) = At(tb, x)
  BY <1>2, <1>4, <1>8, <1>11
<1>14. Answered(tb) = f
  BY DEF Answered, f, a
<1> QED
  BY <1>3, <1>9, <1>12, <1>13, <1>14 DEF SameItems

\* t has sent the server a message and sleeps.
AskedFor(s, r, t, service, c, i) ==
  /\ r \in Systems /\ r.folio = s.folio /\ r.job = s.job /\ (r.wild <=> s.wild)
  /\ \A u \in Task \ {t} : /\ r.table[u] = s.table[u] /\ r.call[u] = s.call[u]
                           /\ u \in ToSet(r.port) <=> u \in ToSet(s.port)
  /\ t \in ToSet(r.port) /\ IsInjective(r.port)
  /\ r.current = NoTask
  /\ r.table[t] = Filled(Filled(s.table[t], Port), Message)
  /\ r.call[t].in = service /\ r.call[t].copy = c /\ r.call[t].slot = i
  /\ r.call[t].answer = s.call[t].answer /\ r.call[t].left = s.call[t].left
  /\ r.call[t].exits <=> s.call[t].exits

LEMMA UserModeServiceIs ==
  ASSUME NEW s \in Systems, NEW t \in Task, NEW service \in {"load", "unload"},
         NEW c \in Nat, NEW i \in Nat, NEW X, GoodTable(s.table[t], X),
         t \notin ToSet(s.port), IsInjective(s.port),
         service = "load" => ~s.call[t].exits
  PROVE  LET r == UserModeService(s, t, service, c, i)
         IN  \/ s.call[t].exits /\ r = Wild(s)
             \/ /\ AskedFor(s, r, t, service, c, i)
                /\ s.call[t].exits => Len(r.table[t].slot) = Len(s.table[t].slot)
<1> DEFINE tb == Filled(Filled(s.table[t], Port), Message)
           w == WithTable(s, t, tb)
           cl == [[[w.call[t] EXCEPT !.in = service] EXCEPT !.copy = c] EXCEPT !.slot = i]
           q == Append(s.port, t)
           r == [s EXCEPT !.table[t] = tb,
                          !.call[t].in = service, !.call[t].copy = c, !.call[t].slot = i,
                          !.port = Append(@, t),
                          !.current = NoTask]
<1>1. GoodTable(tb, X)
  BY AskTable
<1>2. tb \in Tables
  BY <1>1 DEF GoodTable
<1>3. /\ w \in Systems /\ w.folio = s.folio /\ w.port = s.port /\ w.job = s.job
      /\ w.wild = s.wild /\ w.call = s.call /\ w.current = s.current
      /\ w.table[t] = tb /\ \A u \in Task \ {t} : w.table[u] = s.table[u]
  BY <1>2, WithTableIs
<1>4. /\ s.call \in [Task -> Calls] /\ s.call[t] \in Calls /\ s.port \in Seq(Task)
      /\ s.table \in [Task -> Tables]
  BY DEF Systems
<1>5. /\ cl \in Calls /\ cl.in = service /\ cl.copy = c /\ cl.slot = i
      /\ cl.answer = s.call[t].answer /\ cl.left = s.call[t].left
      /\ cl.exits = s.call[t].exits
  BY <1>3, <1>4 DEF Calls
<1>6. q \in Seq(Task) /\ ToSet(q) = ToSet(s.port) \cup {t} /\ IsInjective(q)
  BY <1>4, AppendSet
<1>7. r = [s EXCEPT !.table = [s.table EXCEPT ![t] = tb],
                    !.call = [s.call EXCEPT ![t] = cl], !.port = q, !.current = NoTask]
  <2>1. r.call = [s.call EXCEPT ![t] = cl]
    BY <1>3, <1>4, Zenon DEF Systems, Calls
  <2> QED
    BY <2>1, <1>4, Zenon DEF Systems
<1>8. \/ s.call[t].exits /\ UserModeService(s, t, service, c, i) = Wild(s)
      \/ /\ UserModeService(s, t, service, c, i) = r
         /\ s.call[t].exits => Len(tb.slot) = Len(s.table[t].slot)
  BY DEF UserModeService, Exiting
<1> HIDE DEF tb, w, cl, q, r
<1>9. /\ r \in Systems /\ r.folio = s.folio /\ r.job = s.job /\ r.wild = s.wild
      /\ r.table = [s.table EXCEPT ![t] = tb] /\ r.call = [s.call EXCEPT ![t] = cl]
      /\ r.port = q /\ r.current = NoTask
  BY <1>2, <1>4, <1>5, <1>6, <1>7 DEF Systems
<1>10. /\ r.table[t] = tb /\ r.call[t] = cl
       /\ \A u \in Task \ {t} : r.table[u] = s.table[u] /\ r.call[u] = s.call[u]
  BY <1>4, <1>9
<1>11. AskedFor(s, r, t, service, c, i)
  BY <1>5, <1>6, <1>9, <1>10 DEF AskedFor, tb
<1> QED
  BY <1>8, <1>10, <1>11

-----------------------------------------------------------------------------
(* The steps of a program and of FreeResources *)

\* t returns, from whatever it did to its table and a copy.
LEMMA BackInv ==
  ASSUME NEW s, NEW r, NEW t \in Task, Others(s, t), Back(s, r, t),
         s.job[t] = "none", t \notin ToSet(s.port),
         s.call[t].exits => t \in MayExit /\ s.call[t].left <= Len(r.table[t].slot),
         SlotsOK(r.table[t], r.call[t]), OpenOnce(t, r.table[t], r.call[t]),
         \A d \in Copy : /\ CopyStep(s, r, t, d)
                         /\ LiveStep(s.table[t], s.call[t], r.table[t], r.call[t], d,
                                     s.folio[d].count, r.folio[d].count)
  PROVE  LoadInv(r)
<1>1. /\ r.call[t].in \in {"user", "exit"}
      /\ r.call[t].in = "user" => ~r.call[t].exits
      /\ r.call[t].in = "exit" => r.call[t].exits
      /\ r.current # NoTask => r.call[t].in = "exit"
  BY DEF Back
<1>2. Moved(s, r, t)
  BY DEF Moved, Back, Others
<1>3. CallOK(t, r.table[t], r.call[t])
  BY <1>1 DEF CallOK, Back
<1>4. Phase(r.call[t], r.folio, r.job[t], t \in ToSet(r.port))
  BY <1>1 DEF Phase, Back
<1>5. r.call[t].in # "load"
  BY <1>1
<1> QED
  BY <1>1, <1>2, <1>3, <1>4, <1>5, MoveInv

\* t is about to make a call to the kernel, or in FreeResources.
Ready(s, t) ==
  /\ Others(s, t)
  /\ s.call[t].in \in {"user", "exit"}
  /\ s.job[t] = "none" /\ s.call[t].answer = "none" /\ t \notin ToSet(s.port)
  /\ s.call[t].in = "user" <=> ~s.call[t].exits
  /\ s.call[t].exits => t \in MayExit /\ s.call[t].left <= Len(s.table[t].slot)

\* Then no slot is taken without an entry.
LEMMA ReadyTable ==
  ASSUME NEW s, NEW t \in Task, Ready(s, t)
  PROVE  /\ GoodTable(s.table[t], {}) /\ s \in Systems /\ s.table[t] \in Tables
         /\ \A c, i : IsLive(s.table[t], s.call[t], c, i) <=> At(s.table[t], i) = Open(c)
         /\ \A r, d : StaysWith(s, r, t, d)
<1>1. Slept(s.call[t]) = {}
  BY DEF Ready, Slept
<1>2. SlotsOK(s.table[t], s.call[t]) /\ s \in Systems
  BY DEF Ready, Others
<1>3. \A r, d : StaysWith(s, r, t, d)
  BY DEF StaysWith, Ready
<1> QED
  BY <1>1, <1>2, <1>3 DEF IsLive, SlotsOK, GoodTable

LEMMA BackTable ==
  ASSUME NEW s, NEW r, NEW t \in Task, Back(s, r, t)
  PROVE  /\ \A c, i : IsLive(r.table[t], r.call[t], c, i) <=> At(r.table[t], i) = Open(c)
         /\ Slept(r.call[t]) = {}
<1>1. Slept(r.call[t]) = {}
  BY DEF Back, Slept
<1> QED
  BY <1>1 DEF IsLive

\* An item of the folio's or another is deleted.
LEMMA DeleteInv ==
  ASSUME NEW s, NEW t \in Task, Ready(s, t), OpenOnce(t, s.table[t], s.call[t]),
         NEW e \in Entries, e # NoEntry, \A c \in Copy : e # Open(c),
         NEW k \in Nat, At(s.table[t], k) = e
  PROVE  LoadInv(internalDeleteItem(s, t, e))
<1> DEFINE tb == s.table[t]
           i == FindItemSlot(tb, e)
           f == FreeItemSlot(tb, i)
           r == FreesSlot(s, t, i)
<1>1. /\ GoodTable(tb, {}) /\ s \in Systems
      /\ \A c, j : IsLive(tb, s.call[t], c, j) <=> At(tb, j) = Open(c)
      /\ \A d : StaysWith(s, r, t, d)
  BY ReadyTable
<1>2. i \in DOMAIN tb.slot /\ i \in Nat /\ At(tb, i) = e
  BY <1>1, FindGood
<1>3. GoodTable(f, {} \ {i}) /\ Puts(tb, f, i, NoEntry) /\ DOMAIN f.slot = DOMAIN tb.slot
  BY <1>1, <1>2, FreeGood
<1>4. {} \ {i} = {}
  OBVIOUS
<1>5. f \in Tables /\ Len(f.slot) = Len(tb.slot)
  <2>1. /\ DOMAIN f.slot = 1..Len(f.slot) /\ DOMAIN tb.slot = 1..Len(tb.slot)
        /\ Len(f.slot) \in Nat /\ Len(tb.slot) \in Nat
    BY <1>1, <1>3, <1>4, TableShape
  <2>2. \A m, n \in Nat : 1..m = 1..n => m = n
    OBVIOUS
  <2>3. f \in Tables
    BY <1>3 DEF GoodTable
  <2> HIDE DEF f
  <2> QED
    BY <1>3, <2>1, <2>2, <2>3
<1>6. Back(s, r, t) /\ r.folio = s.folio /\ r.table[t] = f
  BY <1>1, <1>5, FreesSlotIs
<1> HIDE DEF i, f, r
<1>7. \A c, j : IsLive(r.table[t], r.call[t], c, j) <=> At(f, j) = Open(c)
  <2>1. \A c, j : IsLive(r.table[t], r.call[t], c, j) <=> At(r.table[t], j) = Open(c)
    BY <1>6, BackTable
  <2> QED
    BY <1>6, <2>1
<1>8. Slept(r.call[t]) = {}
  BY <1>6, BackTable
<1>9. \A c \in Copy : \A j \in Nat : At(f, j) = Open(c) <=> At(tb, j) = Open(c)
  BY <1>2, <1>3, EntryKinds DEF Puts
<1>10. \A c \in Copy : \A j \in Nat : At(f, j) = Made(c) => At(tb, j) = Made(c)
  BY <1>2, <1>3, EntryKinds DEF Puts
<1>11. SlotsOK(r.table[t], r.call[t])
  <2>1. SlotsOK(tb, s.call[t])
    BY DEF Ready, Others
  <2>2. r.call[t].exits <=> s.call[t].exits
    BY <1>6 DEF Back
  <2> QED
    BY <1>1, <1>3, <1>4, <1>6, <1>7, <1>8, <1>9, <1>10, <2>1, <2>2 DEF SlotsOK
<1>12. OpenOnce(t, r.table[t], r.call[t])
  <2>1. (r.call[t].exits <=> s.call[t].exits) /\ r.call[t].left = s.call[t].left
    BY <1>6 DEF Back
  <2> QED
    BY <1>1, <1>6, <1>7, <1>9, <2>1 DEF OpenOnce
<1>13. \A d \in Copy : CopyStep(s, r, t, d)
  <2>1. Moved(s, r, t)
    BY <1>6 DEF Moved, Back, Others, Ready
  <2> QED
    BY <1>1, <1>6, <2>1, CopyStays DEF Ready
<1>14. \A d \in Copy : LiveStep(tb, s.call[t], r.table[t], r.call[t], d,
                                s.folio[d].count, r.folio[d].count)
  BY <1>1, <1>6, <1>7, <1>9 DEF LiveStep
<1>15. LoadInv(r)
  BY <1>5, <1>6, <1>11, <1>12, <1>13, <1>14, BackInv DEF Ready
<1>16. LoadInv(Wild(s))
  BY <1>1, WildInv DEF Ready, Others
<1> QED
  BY <1>15, <1>16 DEF internalDeleteItem, r, i

\* An item is created, of the kernel's or of a folio that t has open.
LEMMA CreateInv ==
  ASSUME NEW s, NEW t \in Task, Ready(s, t), s.call[t].in = "user", s.current = NoTask,
         OpenOnce(t, s.table[t], s.call[t]),
         NEW e \in Entries, e # NoEntry, \A c \in Copy : e # Open(c),
         \A c \in Copy : e = Made(c) => \E j \in Nat : At(s.table[t], j) = Open(c)
  PROVE  LoadInv(WithTable(s, t, Filled(s.table[t], e)))
<1> DEFINE tb == s.table[t]
           i == AllocItemSlot(tb)
           f == Filled(tb, e)
           r == WithTable(s, t, f)
<1>1. /\ GoodTable(tb, {}) /\ s \in Systems
      /\ \A c, j : IsLive(tb, s.call[t], c, j) <=> At(tb, j) = Open(c)
      /\ \A d : StaysWith(s, r, t, d)
  BY ReadyTable
<1>2. /\ i \in Nat /\ GoodTable(f, {}) /\ Puts(tb, f, i, e) /\ At(tb, i) = NoEntry
  BY <1>1, FillGood
<1>3. f \in Tables
  BY <1>2 DEF GoodTable
<1>4. /\ r \in Systems /\ r.folio = s.folio /\ r.port = s.port /\ r.job = s.job
      /\ r.wild = s.wild /\ r.call = s.call /\ r.current = s.current
      /\ r.table[t] = f /\ \A u \in Task \ {t} : r.table[u] = s.table[u]
  BY <1>1, <1>3, WithTableIs
<1> HIDE DEF i, f, r
<1>5. \A c \in Copy : \A j \in Nat : At(f, j) = Open(c) <=> At(tb, j) = Open(c)
  BY <1>2, EntryKinds DEF Puts
<1>6. \A c \in Copy : \A j \in Nat : At(f, j) = Made(c) => At(tb, j) = Made(c) \/ e = Made(c)
  BY <1>2 DEF Puts
<1>7. Slept(s.call[t]) = {}
  BY DEF Ready, Slept
<1>8. \A c, j : IsLive(f, s.call[t], c, j) <=> At(f, j) = Open(c)
  BY <1>7 DEF IsLive
<1>9. ~s.call[t].exits /\ Slept(s.call[t]) = {} /\ s.current = NoTask
  BY <1>7 DEF Ready
<1>10. SlotsOK(r.table[t], r.call[t])
  <2>1. \A c \in Copy : \A j \in Nat :
          At(tb, j) = Made(c) => \E k \in Nat : At(tb, k) = Open(c)
    BY <1>1, <1>9 DEF Ready, Others, SlotsOK
  <2> QED
    BY <1>2, <1>4, <1>5, <1>6, <1>8, <1>9, <2>1 DEF SlotsOK
<1>11. CallOK(t, r.table[t], r.call[t])
  <2>1. OpenOnce(t, r.table[t], r.call[t])
    BY <1>4, <1>5, <1>9 DEF OpenOnce
  <2> QED
    BY <1>4, <1>9, <2>1 DEF CallOK
<1>12. Phase(r.call[t], r.folio, r.job[t], t \in ToSet(r.port))
  BY <1>4 DEF Phase, Ready
<1>13. Moved(s, r, t)
  BY <1>4 DEF Moved, Ready, Others
<1>14. \A d \in Copy : CopyStep(s, r, t, d)
  BY <1>1, <1>4, <1>13, CopyStays DEF Ready
<1>15. \A d \in Copy : LiveStep(tb, s.call[t], r.table[t], r.call[t], d,
                                s.folio[d].count, r.folio[d].count)
  BY <1>1, <1>4, <1>5, <1>8 DEF LiveStep
<1>16. LoadInv(r)
  BY <1>4, <1>9, <1>10, <1>11, <1>12, <1>13, <1>14, <1>15, MoveInv DEF Ready
<1> QED
  BY <1>16 DEF r, f

\* x is s but for t's table and the copies.
Near(s, x, t) ==
  /\ x \in Systems /\ x.port = s.port /\ x.job = s.job /\ (x.wild <=> s.wild)
  /\ x.call = s.call
  /\ \A u \in Task \ {t} : x.table[u] = s.table[u]

\* t has closed copy c, whose slot is i, or was refused it when it had taken i.
Leaving(s, x, t, c, i) ==
  /\ Others(s, t) /\ Near(s, x, t)
  /\ s.job[t] = "none" /\ s.call[t].answer = "none" /\ t \notin ToSet(s.port)
  /\ s.call[t].exits => t \in MayExit /\ s.call[t].left <= Len(x.table[t].slot)
  /\ s.call[t].in \in {"user", "exit"}
       \/ (s.call[t].in = "load" /\ s.call[t].copy = c /\ s.folio[c].context)
  /\ LET tb == x.table[t]
         f == s.folio[c]
         g == x.folio[c]
     IN  /\ GoodTable(tb, {i}) /\ i \in Nat
         /\ At(tb, i) = NoEntry \/ At(tb, i) = Open(c)
         /\ ~s.call[t].exits =>
              \A d \in Copy : \A j \in Nat : At(tb, j) = Made(d) =>
                \E k \in Nat : k # i /\ At(tb, k) = Open(d)
         /\ t \notin Twice =>
              /\ \A d \in Copy : \A j, k \in Nat :
                   At(tb, j) = Open(d) /\ At(tb, k) = Open(d) => j = k
              /\ s.call[t].exits => \A j \in Nat : \A d \in Copy :
                   j # i /\ At(tb, j) = Open(d) => j <= s.call[t].left
         /\ \A d \in Copy : \A j \in Nat :
              IsLive(s.table[t], s.call[t], d, j) <=> At(tb, j) = Open(d)
         /\ \A d \in Copy : d # c => x.folio[d] = s.folio[d]
         /\ g.code = f.code /\ f.there /\ g.there
         /\ g.context <=> f.context
         /\ At(tb, i) = Open(c) => g.count = f.count - 1
         /\ At(tb, i) = NoEntry => g.count = f.count

\* What becomes of the opens of t when slot i is no longer one.
LEMMA LeaveLive ==
  ASSUME NEW s, NEW x, NEW t \in Task, NEW c \in Copy, NEW i, Leaving(s, x, t, c, i),
         NEW r, NEW d \in Copy,
         \A j \in Nat : IsLive(r.table[t], r.call[t], d, j)
                          <=> At(x.table[t], j) = Open(d) /\ j # i,
         r.folio = x.folio
  PROVE  LiveStep(s.table[t], s.call[t], r.table[t], r.call[t], d,
                  s.folio[d].count, r.folio[d].count)
<1> DEFINE tb == x.table[t]
<1>1. /\ i \in Nat
      /\ At(tb, i) = NoEntry \/ At(tb, i) = Open(c)
      /\ \A j \in Nat : IsLive(s.table[t], s.call[t], d, j) <=> At(tb, j) = Open(d)
      /\ d # c => x.folio[d] = s.folio[d]
      /\ At(tb, i) = Open(c) => x.folio[c].count = s.folio[c].count - 1
      /\ At(tb, i) = NoEntry => x.folio[c].count = s.folio[c].count
  BY DEF Leaving
<1>2. CASE d = c /\ At(tb, i) = Open(c)
  BY <1>1, <1>2 DEF LiveStep
<1>3. CASE d # c \/ At(tb, i) = NoEntry
  <2>1. At(tb, i) # Open(d)
    BY <1>1, <1>3, EntryKinds
  <2>2. r.folio[d].count = s.folio[d].count
    BY <1>1, <1>3
  <2>3. \A j \in Nat : IsLive(r.table[t], r.call[t], d, j)
                         <=> IsLive(s.table[t], s.call[t], d, j)
    BY <1>1, <2>1
  <2> QED
    BY <2>2, <2>3 DEF LiveStep
<1> QED
  BY <1>1, <1>2, <1>3

\* The slot is freed: the folio stays in memory, somebody else has it open or is
\* loading it.
LEMMA LeaveFreed ==
  ASSUME NEW s, NEW x, NEW t \in Task, NEW c \in Copy, NEW i, Leaving(s, x, t, c, i),
         x.folio[c].count > 0 \/ ~x.folio[c].context
  PROVE  LoadInv(FreesSlot(x, t, i))
<1> DEFINE tb == x.table[t]
           f == FreeItemSlot(tb, i)
           r == FreesSlot(x, t, i)
<1>1. /\ GoodTable(tb, {i}) /\ i \in Nat
      /\ Others(s, t) /\ Near(s, x, t) /\ x \in Systems
  BY DEF Leaving, Near
<1>2. i \in DOMAIN tb.slot
  BY <1>1 DEF GoodTable
<1>3. GoodTable(f, {i} \ {i}) /\ Puts(tb, f, i, NoEntry) /\ DOMAIN f.slot = DOMAIN tb.slot
  BY <1>1, <1>2, FreeGood
<1>4. {i} \ {i} = {}
  OBVIOUS
<1>5. f \in Tables
  BY <1>3 DEF GoodTable
<1>6. Back(x, r, t) /\ r.folio = x.folio /\ r.table[t] = f
  BY <1>1, <1>5, FreesSlotIs
<1> HIDE DEF f, r
<1>7. Len(f.slot) = Len(tb.slot)
  <2>1. /\ DOMAIN f.slot = 1..Len(f.slot) /\ DOMAIN tb.slot = 1..Len(tb.slot)
        /\ Len(f.slot) \in Nat /\ Len(tb.slot) \in Nat
    BY <1>1, <1>3, <1>4, TableShape
  <2>2. \A m, n \in Nat : 1..m = 1..n => m = n
    OBVIOUS
  <2> QED
    BY <1>3, <2>1, <2>2
<1>8. Back(s, r, t)
  BY <1>1, <1>6 DEF Back, Near
<1>9. /\ \A d, j : IsLive(r.table[t], r.call[t], d, j) <=> At(f, j) = Open(d)
      /\ Slept(r.call[t]) = {}
  BY <1>6, BackTable
<1>10. \A d \in Copy : \A j \in Nat : /\ At(f, j) = Open(d) <=> At(tb, j) = Open(d) /\ j # i
                                      /\ At(f, j) = Made(d) => At(tb, j) = Made(d)
  BY <1>1, <1>3, EntryKinds DEF Puts
<1>11. (r.call[t].exits <=> s.call[t].exits) /\ r.call[t].left = s.call[t].left
  BY <1>8 DEF Back
<1>12. SlotsOK(r.table[t], r.call[t])
  <2>1. ~s.call[t].exits =>
          \A d \in Copy : \A j \in Nat : At(tb, j) = Made(d) =>
            \E k \in Nat : k # i /\ At(tb, k) = Open(d)
    BY DEF Leaving
  <2> QED
    BY <1>3, <1>4, <1>6, <1>9, <1>10, <1>11, <2>1 DEF SlotsOK
<1>13. OpenOnce(t, r.table[t], r.call[t])
  <2>1. t \notin Twice =>
          /\ \A d \in Copy : \A j, k \in Nat :
               At(tb, j) = Open(d) /\ At(tb, k) = Open(d) => j = k
          /\ s.call[t].exits => \A j \in Nat : \A d \in Copy :
               j # i /\ At(tb, j) = Open(d) => j <= s.call[t].left
    BY DEF Leaving
  <2> QED
    BY <1>6, <1>9, <1>10, <1>11, <2>1 DEF OpenOnce
<1>14. \A d \in Copy : LiveStep(s.table[t], s.call[t], r.table[t], r.call[t], d,
                                s.folio[d].count, r.folio[d].count)
  BY <1>6, <1>9, <1>10, LeaveLive
<1>15. Moved(s, r, t)
  BY <1>1, <1>8 DEF Moved, Back, Others
<1>16. ASSUME NEW d \in Copy PROVE CopyStep(s, r, t, d)
  <2>1. CASE d # c
    <3>1. r.folio[d] = s.folio[d] /\ StaysWith(s, r, t, d)
      BY <1>6, <2>1 DEF Leaving, StaysWith
    <3> QED
      BY <1>1, <1>15, <3>1, CopyStays
  <2>2. CASE d = c
    <3>1. /\ r.folio[c].code = s.folio[c].code /\ s.folio[c].there /\ r.folio[c].there
          /\ r.folio[c].context <=> s.folio[c].context
          /\ r.folio[c].count > 0 \/ ~r.folio[c].context
      BY <1>6 DEF Leaving
    <3>2. CopyOK(s.folio[c]) /\ Needed(s, c)
      BY <1>1 DEF Others
    <3>3. s.folio[c].code = "loaded" /\ ~s.folio[c].context =>
            \E u \in Task \ {t} : s.call[u].copy = c /\ s.call[u].in = "load"
      BY <3>2 DEF Needed, Leaving
    <3>4. \A u \in Task \ {t} : r.call[u] = s.call[u]
      BY <1>15 DEF Moved
    <3>5. Needed(r, c)
      BY <3>1, <3>3, <3>4 DEF Needed
    <3> QED
      BY <2>2, <3>1, <3>2, <3>5 DEF CopyStep, CopyOK, KeptFor
  <2> QED
    BY <2>1, <2>2
<1>17. LoadInv(r)
  BY <1>1, <1>6, <1>7, <1>8, <1>12, <1>13, <1>14, <1>16, BackInv DEF Leaving
<1> QED
  BY <1>17 DEF r

\* t asks the server to unload the folio.
LEMMA LeaveAsked ==
  ASSUME NEW s, NEW x, NEW t \in Task, NEW c \in Copy, NEW i, Leaving(s, x, t, c, i),
         x.folio[c].context, s.call[t].exits => At(x.table[t], i) = Open(c)
  PROVE  LoadInv(UserModeService(x, t, "unload", c, i))
<1> DEFINE tb == x.table[t]
           cl == s.call[t]
           r == UserModeService(x, t, "unload", c, i)
<1>1. /\ GoodTable(tb, {i}) /\ i \in Nat /\ c \in Nat
      /\ Others(s, t) /\ Near(s, x, t) /\ x \in Systems
      /\ x.call = s.call /\ x.job = s.job /\ (x.wild <=> s.wild)
      /\ \A u \in Task \ {t} : x.table[u] = s.table[u]
      /\ x.port = s.port /\ t \notin ToSet(x.port) /\ IsInjective(x.port)
  BY LoadAssumption DEF Leaving, Near, Others, Copy
<1>2. \/ cl.exits /\ r = Wild(x)
      \/ /\ AskedFor(x, r, t, "unload", c, i)
         /\ cl.exits => Len(r.table[t].slot) = Len(tb.slot)
  BY <1>1, UserModeServiceIs
<1> HIDE DEF r
<1> SUFFICES LoadInv(r)
  BY DEF r
<1>3. CASE cl.exits /\ r = Wild(x)
  <2>1. At(tb, i) # NoEntry /\ At(tb, i) = tb.slot[i] /\ i \in DOMAIN tb.slot
    <3>1. At(tb, i) # NoEntry
      BY <1>3, EntryKinds
    <3> QED
      BY <1>1, <3>1, TableShape
  <2>2. GoodTable(tb, {})
    BY <1>1, <2>1 DEF GoodTable
  <2>3. SlotsOK(tb, cl)
    BY <1>3, <2>2 DEF SlotsOK, Slept, Leaving
  <2>4. \A u \in Task : SlotsOK(x.table[u], x.call[u])
    BY <1>1, <2>3 DEF Others
  <2> QED
    BY <1>1, <1>3, <2>4, WildInv
<1>4. CASE /\ AskedFor(x, r, t, "unload", c, i)
           /\ cl.exits => Len(r.table[t].slot) = Len(tb.slot)
  <2> DEFINE f == r.table[t]
             cl2 == r.call[t]
  <2>1. /\ f = Filled(Filled(tb, Port), Message)
        /\ cl2.in = "unload" /\ cl2.copy = c /\ cl2.slot = i /\ cl2.answer = "none"
        /\ (cl2.exits <=> cl.exits) /\ cl2.left = cl.left
        /\ r.folio = x.folio /\ r.job = s.job /\ t \in ToSet(r.port)
        /\ r.current = NoTask
    BY <1>1, <1>4 DEF AskedFor, Leaving
  <2>2. /\ GoodTable(f, {i}) /\ SameItems(tb, f, {i})
        /\ \E j \in Nat : At(f, j) = Message
        /\ \E j \in Nat : At(f, j) = Port
    BY <1>1, <2>1, AskTable
  <2>3. /\ At(f, i) = At(tb, i)
        /\ \A d \in Copy : \A j \in Nat : /\ At(f, j) = Open(d) <=> At(tb, j) = Open(d)
                                          /\ At(f, j) = Made(d) <=> At(tb, j) = Made(d)
    BY <2>2 DEF SameItems
  <2>4. Slept(cl2) = {i}
    BY <2>1 DEF Slept
  <2>5. \A d \in Copy : \A j \in Nat :
          IsLive(f, cl2, d, j) <=> At(tb, j) = Open(d) /\ j # i
    BY <2>3, <2>4 DEF IsLive
  <2>6. cl.exits => t \in MayExit /\ cl2.left <= Len(f.slot)
    BY <1>4, <2>1 DEF Leaving
  <2>7. s.job[t] = "none"
    BY DEF Leaving
  <2> HIDE DEF f, cl2
  <2>8. SlotsOK(f, cl2)
    <3>1. ~cl.exits =>
            \A d \in Copy : \A j \in Nat : At(tb, j) = Made(d) =>
              \E k \in Nat : k # i /\ At(tb, k) = Open(d)
      BY DEF Leaving
    <3> QED
      BY <2>1, <2>2, <2>3, <2>4, <2>5, <3>1 DEF SlotsOK
  <2>9. OpenOnce(t, f, cl2)
    <3>1. t \notin Twice =>
            /\ \A d \in Copy : \A j, k \in Nat :
                 At(tb, j) = Open(d) /\ At(tb, k) = Open(d) => j = k
            /\ cl.exits => \A j \in Nat : \A d \in Copy :
                 j # i /\ At(tb, j) = Open(d) => j <= cl.left
      BY DEF Leaving
    <3> QED
      BY <2>1, <2>3, <2>5, <3>1 DEF OpenOnce
  <2>10. CallOK(t, f, cl2)
    <3>1. At(f, i) = NoEntry \/ At(f, i) = Open(c)
      BY <2>3 DEF Leaving
    <3> QED
      BY <2>1, <2>2, <2>6, <2>9, <3>1 DEF CallOK
  <2>11. Phase(cl2, r.folio, r.job[t], t \in ToSet(r.port))
    BY <2>1, <2>7 DEF Phase, UnloadPhase
  <2>12. Moved(s, r, t)
    BY <1>1, <1>4, <2>1 DEF Moved, AskedFor, Others
  <2>13. ASSUME NEW d \in Copy
         PROVE  LiveStep(s.table[t], s.call[t], r.table[t], r.call[t], d,
                         s.folio[d].count, r.folio[d].count)
    <3>1. \A j \in Nat : IsLive(r.table[t], r.call[t], d, j)
                           <=> At(x.table[t], j) = Open(d) /\ j # i
      BY <2>5 DEF f, cl2
    <3> QED
      BY <2>1, <3>1, LeaveLive
  <2>14. ASSUME NEW d \in Copy PROVE CopyStep(s, r, t, d)
    <3>1. CASE d # c
      <4>1. r.folio[d] = s.folio[d] /\ StaysWith(s, r, t, d)
        BY <2>1, <3>1 DEF Leaving, StaysWith
      <4> QED
        BY <1>1, <2>12, <4>1, CopyStays
    <3>2. CASE d = c
      <4>1. /\ r.folio[c].code = s.folio[c].code /\ s.folio[c].there /\ r.folio[c].there
            /\ r.folio[c].context /\ s.folio[c].context
        BY <2>1 DEF Leaving
      <4>2. CopyOK(s.folio[c])
        BY <1>1 DEF Others
      <4>3. Needed(r, c)
        BY <2>1, <4>1 DEF Needed, cl2
      <4> QED
        BY <3>2, <4>1, <4>2, <4>3 DEF CopyStep, CopyOK, KeptFor
    <3> QED
      BY <3>1, <3>2
  <2>15. cl2.in # "load"
    BY <2>1
  <2> QED
    BY <1>1, <2>1, <2>8, <2>10, <2>11, <2>12, <2>13, <2>14, <2>15, MoveInv DEF f, cl2
<1> QED
  BY <1>2, <1>3, <1>4
\* Copy c, and nothing else, is f.
WithFolio(s, c, f) == [s EXCEPT !.folio[c] = f]

LEMMA WithFolioIs ==
  ASSUME NEW s \in Systems, NEW c \in Copy, NEW f \in Folios
  PROVE  LET r == WithFolio(s, c, f)
         IN  /\ r \in Systems /\ r.table = s.table /\ r.port = s.port /\ r.job = s.job
             /\ r.wild = s.wild /\ r.call = s.call /\ r.current = s.current
             /\ r.folio[c] = f /\ \A d \in Copy : d # c => r.folio[d] = s.folio[d]
BY DEF WithFolio, Systems

\* What a task has open is counted.
LEMMA OpenCounts ==
  ASSUME NEW s, NEW t \in Task, Others(s, t), NEW c \in Copy, NEW k \in Nat,
         IsLive(s.table[t], s.call[t], c, k)
  PROVE  s.folio[c].count > 0 /\ s.folio[c].there /\ s.folio[c].code \in {"loaded", "freed"}
<1>1. <<t, k>> \in Live(s, c)
  BY InLive
<1>2. IsFiniteSet(Live(s, c)) /\ Cardinality(Live(s, c)) <= s.folio[c].count
  BY LiveFinite DEF Others, Counted
<1>3. Cardinality(Live(s, c)) \in Nat /\ Cardinality(Live(s, c)) # 0
  BY <1>1, <1>2, FS_CardinalityType, FS_EmptySet
<1>4. s.folio[c].count \in Int
  BY DEF Others, Systems, Folios
<1>5. s.folio[c].count > 0
  BY <1>2, <1>3, <1>4
<1> QED
  BY <1>5 DEF Others, CopyOK

\* ReleaseFolioItems leaves a task no item of a copy that it has open once.
LEMMA ReleasedTable ==
  ASSUME NEW s \in Systems, NEW t \in Task, NEW c \in Copy, NEW k \in Nat,
         GoodTable(s.table[t], {}), At(s.table[t], k) = Open(c)
  PROVE  LET x == ReleaseFolioItems(s, t, c)
             tb == s.table[t]
             f == x.table[t]
         IN  /\ x \in Systems /\ x.folio = s.folio /\ x.port = s.port /\ x.job = s.job
             /\ x.wild = s.wild /\ x.call = s.call /\ x.current = s.current
             /\ \A u \in Task \ {t} : x.table[u] = s.table[u]
             /\ GoodTable(f, {})
             /\ \A j \in Nat : /\ \A d \in Copy : At(f, j) = Open(d) <=> At(tb, j) = Open(d)
                               /\ \A d \in Copy : At(f, j) = Made(d) => At(tb, j) = Made(d)
             /\ s.call[t].exits => f = tb
             /\ ~s.call[t].exits =>
                  \/ \A j \in Nat : At(f, j) # Made(c)
                  \/ \E j \in Nat : j # k /\ At(f, j) = Open(c)
<1> DEFINE tb == s.table[t]
           T == Slots(tb, Made(c))
           O == Slots(tb, Open(c))
           many == FreeItemSlots(tb, T)
           x == ReleaseFolioItems(s, t, c)
<1>1. /\ DOMAIN tb.slot \subseteq Nat
      /\ \A j \in Nat : At(tb, j) # NoEntry => j \in DOMAIN tb.slot
      /\ \A j \in DOMAIN tb.slot : At(tb, j) = tb.slot[j]
  BY TableShape
<1>2. \A j \in Nat : j \in T <=> At(tb, j) = Made(c)
  BY <1>1, EntryKinds DEF Slots
<1>3. \A j \in Nat : j \in O <=> At(tb, j) = Open(c)
  BY <1>1, EntryKinds DEF Slots
<1>4. T \in SUBSET DOMAIN tb.slot /\ O \subseteq Nat
  BY <1>1 DEF Slots
<1>5. /\ GoodTable(many, {})
      /\ \A j \in T : At(many, j) = NoEntry
      /\ \A j \in Nat : j \notin T => At(many, j) = At(tb, j)
  <2>1. \A j \in T : At(tb, j) # NoEntry
    BY <1>1, <1>2, <1>4, EntryKinds
  <2> HIDE DEF T, tb
  <2> QED
    BY <1>4, <2>1, FreeManyGood DEF tb
<1>6. /\ ~s.call[t].exits /\ Cardinality(O) = 1 => x = WithTable(s, t, many)
      /\ s.call[t].exits \/ Cardinality(O) # 1 => x = s
  BY DEF ReleaseFolioItems, WithTable, Exiting
<1> HIDE DEF T, O, many, x
<1>7. CASE ~s.call[t].exits /\ Cardinality(O) = 1
  <2>1. many \in Tables
    BY <1>5 DEF GoodTable
  <2>2. /\ x \in Systems /\ x.folio = s.folio /\ x.port = s.port /\ x.job = s.job
        /\ x.wild = s.wild /\ x.call = s.call /\ x.current = s.current
        /\ x.table[t] = many /\ \A u \in Task \ {t} : x.table[u] = s.table[u]
    BY <1>6, <1>7, <2>1, WithTableIs
  <2>3. \A j \in Nat : At(many, j) # Made(c)
    BY <1>2, <1>4, <1>5, EntryKinds
  <2>4. \A j \in Nat : /\ \A d \in Copy : At(many, j) = Open(d) <=> At(tb, j) = Open(d)
                       /\ \A d \in Copy : At(many, j) = Made(d) => At(tb, j) = Made(d)
    BY <1>2, <1>5, EntryKinds
  <2> QED
    BY <1>5, <1>7, <2>2, <2>3, <2>4 DEF x
<1>8. CASE s.call[t].exits \/ Cardinality(O) # 1
  <2>1. Cardinality(O) # 1 => \E j \in Nat : j # k /\ At(tb, j) = Open(c)
    <3>1. SUFFICES ASSUME Cardinality(O) # 1, \A j \in Nat : At(tb, j) = Open(c) => j = k
                   PROVE  FALSE
      OBVIOUS
    <3>2. O = {k}
      BY <1>3, <1>4, <3>1
    <3> QED
      BY <3>1, <3>2, FS_Singleton
  <2> QED
    BY <1>6, <1>8, <2>1 DEF x
<1> QED
  BY <1>7, <1>8

\* The slot in which t closes c is no longer in the way of what OpenOnce says.
CloseOnce(t, tb, cl, i) ==
  t \notin Twice =>
    /\ \A d \in Copy : \A j, k \in Nat :
         At(tb, j) = Open(d) /\ At(tb, k) = Open(d) => j = k
    /\ cl.exits => \A j \in Nat : \A d \in Copy :
         j # i /\ At(tb, j) = Open(d) => j <= cl.left

\* An open is closed.
LEMMA CloseInv ==
  ASSUME NEW s, NEW t \in Task, Ready(s, t), NEW c \in Copy,
         NEW k \in Nat, At(s.table[t], k) = Open(c),
         CloseOnce(t, s.table[t], s.call[t], FindItemSlot(s.table[t], Open(c)))
  PROVE  LoadInv(internalCloseItem(s, t, c))
<1> DEFINE tb == s.table[t]
           cl == s.call[t]
           i == FindItemSlot(tb, Open(c))
           g == [s.folio[c] EXCEPT !.count = @ - 1]
           y == WithFolio(s, c, g)
           x == ReleaseFolioItems(y, t, c)
           f == x.table[t]
<1>1. /\ GoodTable(tb, {}) /\ s \in Systems
      /\ \A d, j : IsLive(tb, cl, d, j) <=> At(tb, j) = Open(d)
  BY ReadyTable
<1>2. i \in DOMAIN tb.slot /\ i \in Nat /\ At(tb, i) = Open(c)
  BY <1>1, FindGood, EntryKinds
<1>3. /\ s.folio[c].count > 0 /\ s.folio[c].there
      /\ s.folio \in [Copy -> Folios] /\ s.folio[c] \in Folios
  BY <1>1, <1>2, OpenCounts DEF Ready, Systems
<1>4. /\ g \in Folios /\ g.count = s.folio[c].count - 1 /\ g.code = s.folio[c].code
      /\ g.there /\ g.context = s.folio[c].context
  BY <1>3 DEF Folios
<1>5. y = [s EXCEPT !.folio[c].count = @ - 1]
  BY <1>1, <1>3 DEF WithFolio, Systems, Folios
<1> HIDE DEF g, i
<1>6. /\ y \in Systems /\ y.table = s.table /\ y.port = s.port /\ y.job = s.job
      /\ y.wild = s.wild /\ y.call = s.call /\ y.current = s.current
      /\ y.folio[c] = g /\ \A d \in Copy : d # c => y.folio[d] = s.folio[d]
  <2>1. s \in Systems /\ g \in Folios
    BY <1>1, <1>4
  <2> QED
    BY <2>1, WithFolioIs
<1> HIDE DEF y
<1>7. /\ x \in Systems /\ x.folio = y.folio /\ x.port = s.port /\ x.job = s.job
      /\ x.wild = s.wild /\ x.call = s.call /\ x.current = s.current
      /\ \A u \in Task \ {t} : x.table[u] = s.table[u]
      /\ GoodTable(f, {})
      /\ \A j \in Nat : /\ \A d \in Copy : At(f, j) = Open(d) <=> At(tb, j) = Open(d)
                        /\ \A d \in Copy : At(f, j) = Made(d) => At(tb, j) = Made(d)
      /\ cl.exits => f = tb
      /\ ~cl.exits => \/ \A j \in Nat : At(f, j) # Made(c)
                      \/ \E j \in Nat : j # i /\ At(f, j) = Open(c)
  BY <1>1, <1>2, <1>6, ReleasedTable
<1> HIDE DEF x
<1>8. At(f, i) = Open(c) /\ Open(c) # NoEntry
  BY <1>2, <1>7, EntryKinds
<1>9. Leaving(s, x, t, c, i)
  <2>1. Near(s, x, t)
    BY <1>7 DEF Near
  <2>2. GoodTable(f, {i})
    <3>1. i \in DOMAIN f.slot /\ f.slot[i] # NoEntry
      BY <1>2, <1>7, <1>8, TableShape
    <3> HIDE DEF f
    <3> QED
      BY <1>7, <3>1 DEF GoodTable
  <2>3. cl.exits => t \in MayExit /\ cl.left <= Len(f.slot)
    BY <1>7 DEF Ready
  <2>4. ASSUME ~cl.exits, NEW d \in Copy, NEW j \in Nat, At(f, j) = Made(d)
        PROVE  \E n \in Nat : n # i /\ At(f, n) = Open(d)
    <3>1. CASE d = c
      BY <1>7, <2>4, <3>1
    <3>2. CASE d # c
      <4>1. SlotsOK(tb, cl) /\ At(tb, j) = Made(d)
        BY <1>7, <2>4 DEF Ready, Others
      <4>2. PICK n \in Nat : At(tb, n) = Open(d)
        BY <1>1, <2>4, <4>1 DEF SlotsOK
      <4>3. n # i /\ At(f, n) = Open(d)
        BY <1>2, <1>7, <3>2, <4>2, EntryKinds
      <4> QED
        BY <4>3
    <3> QED
      BY <3>1, <3>2
  <2>5. t \notin Twice =>
          /\ \A d \in Copy : \A j, n \in Nat :
               At(f, j) = Open(d) /\ At(f, n) = Open(d) => j = n
          /\ cl.exits => \A j \in Nat : \A d \in Copy :
               j # i /\ At(f, j) = Open(d) => j <= cl.left
    BY <1>7 DEF CloseOnce, i
  <2>6. \A d \in Copy : \A j \in Nat : IsLive(tb, cl, d, j) <=> At(f, j) = Open(d)
    BY <1>1, <1>7
  <2>7. /\ \A d \in Copy : d # c => x.folio[d] = s.folio[d]
        /\ x.folio[c].code = s.folio[c].code /\ s.folio[c].there /\ x.folio[c].there
        /\ x.folio[c].context <=> s.folio[c].context
        /\ x.folio[c].count = s.folio[c].count - 1
    BY <1>3, <1>4, <1>6, <1>7
  <2>8. /\ Others(s, t) /\ s.job[t] = "none" /\ cl.answer = "none" /\ t \notin ToSet(s.port)
        /\ cl.in \in {"user", "exit"}
    BY DEF Ready
  <2> QED
    BY <1>2, <1>8, <2>1, <2>2, <2>3, <2>4, <2>5, <2>6, <2>7, <2>8 DEF Leaving
<1>10. x.folio[c].context => LoadInv(UserModeService(x, t, "unload", c, i))
  BY <1>8, <1>9, LeaveAsked
<1>11. x.folio[c].count > 0 \/ ~x.folio[c].context => LoadInv(FreesSlot(x, t, i))
  BY <1>9, LeaveFreed
<1>12. LoadInv(Wild(s))
  BY <1>1, WildInv DEF Ready, Others
<1>13. x.folio[c].count \in Int /\ s.folio[c].count \in Int
       /\ x.folio[c].count = s.folio[c].count - 1
  BY <1>3, <1>4, <1>6, <1>7 DEF Folios
<1>14. LoadInv(UnloadModule(x, t, c, i))
  BY <1>10, <1>11 DEF UnloadModule
<1>15. x.folio[c].count # 0 => LoadInv(FreesSlot(x, t, i))
  BY <1>3, <1>11, <1>13
<1>16. LoadInv(CloseFolio(s, t, c, i))
  BY <1>5, <1>12, <1>14, <1>15 DEF CloseFolio, x
<1> QED
  BY <1>3, <1>16 DEF internalCloseItem, i

\* t opens a copy that it has found or had loaded.
Opening(s, t, c) ==
  /\ Others(s, t)
  /\ s.job[t] = "none" /\ s.call[t].answer = "none" /\ t \notin ToSet(s.port)
  /\ ~s.call[t].exits
  /\ s.call[t].in = "user"
       \/ (s.call[t].in = "load" /\ s.call[t].copy = c /\ s.folio[c].context)
  /\ s.folio[c].there
  /\ t \notin Twice =>
       /\ \A d \in Copy : \A j, k \in Nat :
            At(s.table[t], j) = Open(d) /\ At(s.table[t], k) = Open(d) => j = k
       /\ \A j \in Nat : At(s.table[t], j) # Open(c)

LEMMA OpeningTable ==
  ASSUME NEW s, NEW t \in Task, NEW c, Opening(s, t, c)
  PROVE  /\ GoodTable(s.table[t], {}) /\ s \in Systems /\ s.table[t] \in Tables
         /\ \A d, i : IsLive(s.table[t], s.call[t], d, i) <=> At(s.table[t], i) = Open(d)
         /\ \A d \in Copy : \A j \in Nat : At(s.table[t], j) = Made(d) =>
              \E k \in Nat : At(s.table[t], k) = Open(d)
<1>1. Slept(s.call[t]) = {}
  BY DEF Opening, Slept
<1>2. SlotsOK(s.table[t], s.call[t]) /\ s \in Systems /\ ~s.call[t].exits
  BY DEF Opening, Others
<1> QED
  BY <1>1, <1>2 DEF IsLive, SlotsOK, GoodTable

\* It is opened.
LEMMA OpenedInv ==
  ASSUME NEW s, NEW t \in Task, NEW c \in Copy, Opening(s, t, c)
  PROVE  LET tb == s.table[t]
             g == [s.folio[c] EXCEPT !.count = @ + 1]
             z == WithTable(WithFolio(s, c, g), t, Filled(tb, Open(c)))
         IN  LoadInv(Returned(z, t))
<1> DEFINE tb == s.table[t]
           g == [s.folio[c] EXCEPT !.count = @ + 1]
           i == AllocItemSlot(tb)
           f == Filled(tb, Open(c))
           y == WithFolio(s, c, g)
           z == WithTable(y, t, f)
           r == Returned(z, t)
<1>1. /\ GoodTable(tb, {}) /\ s \in Systems
      /\ \A d, j : IsLive(tb, s.call[t], d, j) <=> At(tb, j) = Open(d)
      /\ \A d \in Copy : \A j \in Nat : At(tb, j) = Made(d) =>
           \E k \in Nat : At(tb, k) = Open(d)
      /\ Others(s, t)
  <2>1. Others(s, t)
    BY DEF Opening
  <2>2. \A d, j : IsLive(s.table[t], s.call[t], d, j) <=> At(s.table[t], j) = Open(d)
    <3>1. Slept(s.call[t]) = {}
      BY DEF Opening, Slept
    <3> QED
      BY <3>1 DEF IsLive
  <2>3. GoodTable(s.table[t], {}) /\ s \in Systems
    BY OpeningTable, Zenon
  <2>4. \A d \in Copy : \A j \in Nat : At(s.table[t], j) = Made(d) =>
          \E k \in Nat : At(s.table[t], k) = Open(d)
    BY OpeningTable, Zenon
  <2> QED
    BY <2>1, <2>2, <2>3, <2>4, Zenon
<1>2. s.folio \in [Copy -> Folios] /\ s.folio[c] \in Folios
  BY <1>1 DEF Systems
<1>3. /\ g \in Folios /\ g.count = s.folio[c].count + 1 /\ g.code = s.folio[c].code
      /\ g.there = s.folio[c].there /\ g.context = s.folio[c].context
  BY <1>2 DEF Folios
<1>4. /\ i \in Nat /\ GoodTable(f, {}) /\ Puts(tb, f, i, Open(c)) /\ At(tb, i) = NoEntry
  BY <1>1, FillGood, EntryKinds
<1>5. f \in Tables
  BY <1>4 DEF GoodTable
<1> HIDE DEF g, i, f
<1>6. /\ y \in Systems /\ y.table = s.table /\ y.port = s.port /\ y.job = s.job
      /\ y.wild = s.wild /\ y.call = s.call /\ y.current = s.current
      /\ y.folio[c] = g /\ \A d \in Copy : d # c => y.folio[d] = s.folio[d]
  BY <1>1, <1>3, WithFolioIs
<1> HIDE DEF y
<1>7. /\ z \in Systems /\ z.folio = y.folio /\ z.port = y.port /\ z.job = y.job
      /\ z.wild = y.wild /\ z.call = y.call /\ z.current = y.current
      /\ z.table[t] = f /\ \A u \in Task \ {t} : z.table[u] = y.table[u]
  BY <1>5, <1>6, WithTableIs
<1> HIDE DEF z
<1>8. Back(z, r, t) /\ r.folio = z.folio /\ r.table = z.table
  BY <1>7, ReturnedIs
<1> HIDE DEF r
<1>9. /\ \A d, j : IsLive(r.table[t], r.call[t], d, j) <=> At(f, j) = Open(d)
      /\ Slept(r.call[t]) = {}
  <2>1. /\ \A d, j : IsLive(r.table[t], r.call[t], d, j) <=> At(r.table[t], j) = Open(d)
        /\ Slept(r.call[t]) = {}
    BY <1>8, BackTable
  <2> QED
    BY <1>7, <1>8, <2>1
<1>10. Back(s, r, t)
  BY <1>6, <1>7, <1>8 DEF Back
<1>11. /\ At(f, i) = Open(c)
       /\ \A j \in Nat : j # i => At(f, j) = At(tb, j)
       /\ \A d \in Copy : d # c => Open(d) # Open(c)
       /\ \A d \in Copy : Made(d) # Open(c) /\ NoEntry # Open(d)
  BY <1>4, EntryKinds DEF Puts
<1>12. ~r.call[t].exits
  BY <1>10 DEF Back, Opening
<1>13. SlotsOK(r.table[t], r.call[t])
  <2>1. ASSUME NEW d \in Copy, NEW j \in Nat, At(f, j) = Made(d)
        PROVE  \E k \in Nat : At(f, k) = Open(d)
    <3>1. At(tb, j) = Made(d)
      BY <1>11, <2>1
    <3>2. PICK k \in Nat : At(tb, k) = Open(d)
      BY <1>1, <3>1
    <3>3. k # i
      BY <1>4, <1>11, <3>2
    <3> QED
      BY <1>11, <3>2, <3>3
  <2> QED
    BY <1>4, <1>7, <1>8, <1>9, <2>1 DEF SlotsOK
<1>14. OpenOnce(t, r.table[t], r.call[t])
  <2>1. SUFFICES ASSUME t \notin Twice, NEW d \in Copy, NEW j \in Nat, NEW k \in Nat,
                        At(f, j) = Open(d), At(f, k) = Open(d)
                 PROVE  j = k
    BY <1>7, <1>8, <1>12 DEF OpenOnce
  <2>2. CASE d = c
    <3>1. \A n \in Nat : At(tb, n) # Open(c)
      BY <2>1 DEF Opening
    <3> QED
      BY <1>11, <2>1, <2>2, <3>1
  <2>3. CASE d # c
    <3>1. j # i /\ k # i
      BY <1>11, <2>1, <2>3
    <3>2. At(tb, j) = Open(d) /\ At(tb, k) = Open(d)
      BY <1>11, <2>1, <3>1
    <3> QED
      BY <2>1, <3>2 DEF Opening
  <2> QED
    BY <2>2, <2>3
<1>15. Moved(s, r, t)
  BY <1>1, <1>10 DEF Moved, Back, Others
<1>16. ASSUME NEW d \in Copy PROVE CopyStep(s, r, t, d)
  <2>1. CASE d # c
    <3>1. r.folio[d] = s.folio[d] /\ StaysWith(s, r, t, d)
      BY <1>6, <1>7, <1>8, <2>1 DEF Opening, StaysWith
    <3> QED
      BY <1>1, <1>15, <3>1, CopyStays
  <2>2. CASE d = c
    <3>1. /\ r.folio[c].code = s.folio[c].code /\ r.folio[c].there = s.folio[c].there
          /\ r.folio[c].context = s.folio[c].context
          /\ r.folio[c].count = s.folio[c].count + 1 /\ s.folio[c].there
      BY <1>3, <1>6, <1>7, <1>8, Zenon DEF Opening
    <3>2. CopyOK(s.folio[c]) /\ Needed(s, c)
      BY <1>1 DEF Others
    <3>3. r.folio[c].count > 0
      <4>1. IsFiniteSet(Live(s, c)) /\ Cardinality(Live(s, c)) <= s.folio[c].count
        BY <1>1, LiveFinite DEF Others, Counted
      <4>2. Cardinality(Live(s, c)) \in Nat /\ s.folio[c].count \in Int
        BY <1>2, <4>1, FS_CardinalityType DEF Folios
      <4> QED
        BY <3>1, <4>1, <4>2
    <3>4. s.folio[c].code = "loaded" /\ ~s.folio[c].context =>
            \E u \in Task \ {t} : s.call[u].copy = c /\ s.call[u].in = "load"
      BY <3>2 DEF Needed, Opening
    <3>5. \A u \in Task \ {t} : r.call[u] = s.call[u]
      BY <1>15 DEF Moved
    <3>6. Needed(r, c)
      BY <3>1, <3>3, <3>4, <3>5 DEF Needed
    <3> QED
      BY <2>2, <3>1, <3>2, <3>6 DEF CopyStep, CopyOK, KeptFor
  <2> QED
    BY <2>1, <2>2
<1>17. ASSUME NEW d \in Copy
       PROVE  LiveStep(s.table[t], s.call[t], r.table[t], r.call[t], d,
                       s.folio[d].count, r.folio[d].count)
  <2>1. CASE d # c
    <3>1. r.folio[d] = s.folio[d]
      BY <1>6, <1>7, <1>8, <2>1
    <3>2. \A j \in Nat : IsLive(r.table[t], r.call[t], d, j) <=> IsLive(tb, s.call[t], d, j)
      BY <1>1, <1>4, <1>9, <1>11, <2>1
    <3> QED
      BY <3>1, <3>2 DEF LiveStep
  <2>2. CASE d = c
    <3>1. r.folio[c].count = s.folio[c].count + 1
      BY <1>3, <1>6, <1>7, <1>8
    <3>2. ~IsLive(tb, s.call[t], c, i) /\ IsLive(r.table[t], r.call[t], c, i)
      BY <1>1, <1>4, <1>9, <1>11
    <3>3. \A j \in Nat : j # i =>
            (IsLive(r.table[t], r.call[t], c, j) <=> IsLive(tb, s.call[t], c, j))
      BY <1>1, <1>9, <1>11
    <3> QED
      BY <1>4, <2>2, <3>1, <3>2, <3>3 DEF LiveStep
  <2> QED
    BY <2>1, <2>2
<1>18. LoadInv(r)
  BY <1>1, <1>10, <1>13, <1>14, <1>16, <1>17, BackInv DEF Opening
<1> QED
  BY <1>18 DEF r, z, y, f, g

\* It refuses.
LEMMA RefusedInv ==
  ASSUME NEW s, NEW t \in Task, NEW c \in Copy, Opening(s, t, c)
  PROVE  LET tb == s.table[t]
         IN  LoadInv(UnloadModule(WithTable(s, t, Allocated(tb)), t, c, AllocItemSlot(tb)))
<1> DEFINE tb == s.table[t]
           i == AllocItemSlot(tb)
           f == Allocated(tb)
           x == WithTable(s, t, f)
<1>1. /\ GoodTable(tb, {}) /\ s \in Systems
      /\ \A d, j : IsLive(tb, s.call[t], d, j) <=> At(tb, j) = Open(d)
      /\ \A d \in Copy : \A j \in Nat : At(tb, j) = Made(d) =>
           \E k \in Nat : At(tb, k) = Open(d)
      /\ Others(s, t)
  <2>1. Others(s, t)
    BY DEF Opening
  <2>2. \A d, j : IsLive(s.table[t], s.call[t], d, j) <=> At(s.table[t], j) = Open(d)
    <3>1. Slept(s.call[t]) = {}
      BY DEF Opening, Slept
    <3> QED
      BY <3>1 DEF IsLive
  <2>3. GoodTable(s.table[t], {}) /\ s \in Systems
    BY OpeningTable, Zenon
  <2>4. \A d \in Copy : \A j \in Nat : At(s.table[t], j) = Made(d) =>
          \E k \in Nat : At(s.table[t], k) = Open(d)
    BY OpeningTable, Zenon
  <2> QED
    BY <2>1, <2>2, <2>3, <2>4, Zenon
<1>2. /\ i \in Nat /\ i \in DOMAIN f.slot /\ GoodTable(f, {} \cup {i}) /\ Same(tb, f)
      /\ At(tb, i) = NoEntry
  BY <1>1, AllocGood
<1>3. {} \cup {i} = {i}
  OBVIOUS
<1>4. f \in Tables
  BY <1>2 DEF GoodTable
<1> HIDE DEF f, i
<1>5. /\ x \in Systems /\ x.folio = s.folio /\ x.port = s.port /\ x.job = s.job
      /\ x.wild = s.wild /\ x.call = s.call /\ x.current = s.current
      /\ x.table[t] = f /\ \A u \in Task \ {t} : x.table[u] = s.table[u]
  BY <1>1, <1>4, WithTableIs
<1> HIDE DEF x
<1>6. \A j \in Nat : At(f, j) = At(tb, j)
  BY <1>2 DEF Same
<1>7. \A d \in Copy : Open(d) # NoEntry
  BY EntryKinds
<1>8. Leaving(s, x, t, c, i)
  <2>1. Near(s, x, t)
    BY <1>5 DEF Near
  <2>2. \A d \in Copy : \A j \in Nat : At(f, j) = Made(d) =>
          \E k \in Nat : k # i /\ At(f, k) = Open(d)
    <3>1. SUFFICES ASSUME NEW d \in Copy, NEW j \in Nat, At(f, j) = Made(d)
                   PROVE  \E k \in Nat : k # i /\ At(f, k) = Open(d)
      OBVIOUS
    <3>2. PICK k \in Nat : At(tb, k) = Open(d)
      BY <1>1, <1>6, <3>1
    <3> QED
      BY <1>2, <1>6, <1>7, <3>2
  <2>3. t \notin Twice =>
          /\ \A d \in Copy : \A j, k \in Nat :
               At(f, j) = Open(d) /\ At(f, k) = Open(d) => j = k
    BY <1>6 DEF Opening
  <2>4. \A d \in Copy : \A j \in Nat : IsLive(tb, s.call[t], d, j) <=> At(f, j) = Open(d)
    BY <1>1, <1>6
  <2>5. At(f, i) = NoEntry /\ NoEntry # Open(c)
    BY <1>2, <1>6, <1>7
  <2>6. /\ s.job[t] = "none" /\ s.call[t].answer = "none" /\ t \notin ToSet(s.port)
        /\ ~s.call[t].exits /\ s.folio[c].there
        /\ s.call[t].in = "user"
             \/ (s.call[t].in = "load" /\ s.call[t].copy = c /\ s.folio[c].context)
    BY DEF Opening
  <2> QED
    BY <1>1, <1>2, <1>3, <1>5, <2>1, <2>2, <2>3, <2>4, <2>5, <2>6 DEF Leaving
<1>9. ~s.call[t].exits
  BY DEF Opening
<1>10. x.folio[c].context => LoadInv(UserModeService(x, t, "unload", c, i))
  BY <1>8, <1>9, LeaveAsked
<1>11. ~x.folio[c].context => LoadInv(FreesSlot(x, t, i))
  BY <1>8, LeaveFreed
<1>12. LoadInv(UnloadModule(x, t, c, i))
  BY <1>10, <1>11 DEF UnloadModule
<1> QED
  BY <1>12 DEF x, f, i

LEMMA OpenInv ==
  ASSUME NEW s, NEW t \in Task, NEW c \in Copy, Opening(s, t, c),
         NEW r \in OpenFolio(s, t, c)
  PROVE  LoadInv(r)
<1> DEFINE tb == s.table[t]
           i == AllocItemSlot(tb)
           taken == [s EXCEPT !.table[t] = Allocated(@)]
           g == [s.folio[c] EXCEPT !.count = @ + 1]
           z == [taken EXCEPT !.folio[c].count = @ + 1, !.table[t].slot[i] = Open(c)]
<1>1. s \in Systems /\ s.table \in [Task -> Tables] /\ s.folio \in [Copy -> Folios]
  BY DEF Opening, Others, Systems
<1>2. taken = WithTable(s, t, Allocated(tb))
  BY DEF WithTable
<1>3. z = WithTable(WithFolio(s, c, g), t, Filled(tb, Open(c)))
  BY <1>1 DEF WithTable, WithFolio, Filled, Systems, Folios
<1>4. r = Wild(s) \/ r = Returned(z, t) \/ r = UnloadModule(taken, t, c, i)
  BY DEF OpenFolio
<1>5. LoadInv(Wild(s))
  BY <1>1, WildInv DEF Opening, Others
<1>6. LoadInv(Returned(z, t))
  BY <1>3, OpenedInv
<1>7. LoadInv(UnloadModule(taken, t, c, i))
  BY <1>2, RefusedInv
<1> QED
  BY <1>4, <1>5, <1>6, <1>7

\* A copy of the folio is asked for.
LEMMA LoadAskedInv ==
  ASSUME NEW s, NEW t \in Task, Ready(s, t), s.call[t].in = "user", s.current = NoTask,
         OpenOnce(t, s.table[t], s.call[t]),
         NEW c \in Copy, s.folio[c].code = "none"
  PROVE  LET f == [s.folio[c] EXCEPT !.code = "asked"]
         IN  LoadInv(UserModeService(WithFolio(s, c, f), t, "load", c, 0))
<1> DEFINE tb == s.table[t]
           g == [s.folio[c] EXCEPT !.code = "asked"]
           y == WithFolio(s, c, g)
           r == UserModeService(y, t, "load", c, 0)
           f == r.table[t]
           cl == r.call[t]
<1>1. /\ GoodTable(tb, {}) /\ s \in Systems
      /\ \A d, j : IsLive(tb, s.call[t], d, j) <=> At(tb, j) = Open(d)
      /\ \A d : StaysWith(s, r, t, d)
      /\ Others(s, t) /\ s.job[t] = "none" /\ s.call[t].answer = "none"
      /\ t \notin ToSet(s.port) /\ IsInjective(s.port) /\ ~s.call[t].exits
      /\ c \in Nat
  <2>1. /\ GoodTable(tb, {}) /\ s \in Systems
        /\ \A d, j : IsLive(tb, s.call[t], d, j) <=> At(tb, j) = Open(d)
        /\ \A d : StaysWith(s, r, t, d)
    BY ReadyTable
  <2>2. c \in Nat
    BY LoadAssumption DEF Copy
  <2> QED
    BY <2>1, <2>2 DEF Ready, Others
<1>2. s.folio \in [Copy -> Folios] /\ s.folio[c] \in Folios
  BY <1>1 DEF Systems
<1>3. /\ g \in Folios /\ g.count = s.folio[c].count /\ g.code = "asked"
      /\ g.there = s.folio[c].there /\ g.context = s.folio[c].context
  BY <1>2 DEF Folios
<1> HIDE DEF g
<1>4. /\ y \in Systems /\ y.table = s.table /\ y.port = s.port /\ y.job = s.job
      /\ y.wild = s.wild /\ y.call = s.call /\ y.current = s.current
      /\ y.folio[c] = g /\ \A d \in Copy : d # c => y.folio[d] = s.folio[d]
  BY <1>1, <1>3, WithFolioIs
<1> HIDE DEF y
<1>5. AskedFor(y, r, t, "load", c, 0)
  <2>1. GoodTable(y.table[t], {}) /\ t \notin ToSet(y.port) /\ IsInjective(y.port)
        /\ 0 \in Nat /\ ~y.call[t].exits
    BY <1>1, <1>4
  <2> QED
    BY <1>1, <1>4, <2>1, UserModeServiceIs
<1> SUFFICES LoadInv(r)
  BY DEF r, y, g
<1> HIDE DEF r
<1>6. CopyOK(s.folio[c]) /\ ~s.folio[c].there /\ ~s.folio[c].context
  BY <1>1 DEF Others, CopyOK
<1>7. \A j \in Nat : At(tb, j) # Open(c)
  <2>1. SUFFICES ASSUME NEW j \in Nat, At(tb, j) = Open(c) PROVE FALSE
    OBVIOUS
  <2>2. s.folio[c].code \in {"loaded", "freed"}
    BY <1>1, <2>1, OpenCounts
  <2> QED
    BY <2>2
<1>8. /\ f = Filled(Filled(tb, Port), Message)
      /\ cl.in = "load" /\ cl.copy = c /\ cl.answer = "none" /\ ~cl.exits
      /\ r.folio = y.folio /\ r.job = s.job /\ t \in ToSet(r.port)
      /\ r.current = NoTask
  BY <1>1, <1>4, <1>5 DEF AskedFor
<1>9. /\ GoodTable(f, {}) /\ SameItems(tb, f, {})
      /\ \E j \in Nat : At(f, j) = Message
      /\ \E j \in Nat : At(f, j) = Port
  BY <1>1, <1>8, AskTable
<1>10. \A d \in Copy : \A j \in Nat : /\ At(f, j) = Open(d) <=> At(tb, j) = Open(d)
                                      /\ At(f, j) = Made(d) <=> At(tb, j) = Made(d)
  BY <1>9 DEF SameItems
<1>11. Slept(cl) = {} /\ \A d, j : IsLive(f, cl, d, j) <=> At(f, j) = Open(d)
  BY <1>8 DEF Slept, IsLive
<1> HIDE DEF f, cl
<1>12. SlotsOK(f, cl)
  <2>1. SlotsOK(tb, s.call[t])
    BY <1>1 DEF Others
  <2> QED
    BY <1>1, <1>9, <1>10, <1>11, <2>1 DEF SlotsOK
<1>13. CallOK(t, f, cl)
  <2>1. OpenOnce(t, f, cl)
    BY <1>8, <1>10 DEF OpenOnce
  <2> QED
    BY <1>7, <1>8, <1>9, <1>10, <2>1 DEF CallOK
<1>14. Phase(cl, r.folio, r.job[t], t \in ToSet(r.port))
  BY <1>1, <1>3, <1>4, <1>6, <1>8 DEF Phase, LoadPhase
<1>15. Moved(s, r, t)
  BY <1>1, <1>4, <1>5 DEF Moved, AskedFor, Others
<1>16. ASSUME NEW u \in Task \ {t}, s.call[u].in = "load" PROVE s.call[u].copy # c
  <2>1. LoadPhase(s.folio[s.call[u].copy], s.job[u], s.call[u].answer, u \in ToSet(s.port))
    BY <1>1, <1>16 DEF Others, Phase
  <2> QED
    BY <2>1 DEF LoadPhase
<1>17. ASSUME NEW d \in Copy PROVE CopyStep(s, r, t, d)
  <2>1. CASE d # c
    BY <1>1, <1>4, <1>8, <1>15, <2>1, CopyStays
  <2>2. CASE d = c
    <3>1. r.folio[c] = g
      BY <1>4, <1>8
    <3>2. CopyOK(g)
      BY <1>3, <1>6 DEF CopyOK
    <3>3. KeptFor(s, t, c, s.folio[c], g)
      BY <1>3, <1>16 DEF KeptFor
    <3>4. Needed(r, c)
      BY <1>3, <3>1 DEF Needed
    <3> QED
      BY <2>2, <3>1, <3>2, <3>3, <3>4 DEF CopyStep
  <2> QED
    BY <2>1, <2>2
<1>18. ASSUME NEW d \in Copy
       PROVE  LiveStep(tb, s.call[t], f, cl, d, s.folio[d].count, r.folio[d].count)
  <2>1. r.folio[d].count = s.folio[d].count
    BY <1>3, <1>4, <1>8
  <2> QED
    BY <1>1, <1>10, <1>11, <2>1 DEF LiveStep
<1> QED
  BY <1>1, <1>8, <1>12, <1>13, <1>14, <1>15, <1>16, <1>17, <1>18, MoveInv DEF f, cl

\* t has been woken with the answer.
Woken(s, t) == [s EXCEPT !.table[t] = Answered(@), !.call[t].answer = "none"]

LEMMA WokenIs ==
  ASSUME NEW s, LoadInv(s), ~s.wild, s.current = NoTask, NEW t \in Task,
         s.call[t].answer # "none"
  PROVE  LET w == Woken(s, t)
             tb == s.table[t]
             f == w.table[t]
             cl == s.call[t]
         IN  /\ w \in Systems /\ w.folio = s.folio /\ w.port = s.port /\ w.job = s.job
             /\ w.wild = s.wild /\ w.current = s.current
             /\ \A u \in Task \ {t} : w.table[u] = s.table[u] /\ w.call[u] = s.call[u]
             /\ w.call[t] = [cl EXCEPT !.answer = "none"]
             /\ f \in Tables /\ GoodTable(f, Slept(cl)) /\ DOMAIN f.slot = DOMAIN tb.slot
             /\ \A j \in Nat : \A d \in Copy : /\ At(f, j) = Open(d) <=> At(tb, j) = Open(d)
                                               /\ At(f, j) = Made(d) <=> At(tb, j) = Made(d)
             /\ cl.in \in {"load", "unload"} /\ cl.copy \in Copy
             /\ s.job[t] = "none" /\ t \notin ToSet(s.port)
<1> DEFINE tb == s.table[t]
           cl == s.call[t]
           X == Slept(cl)
           f == Answered(tb)
           wcl == [cl EXCEPT !.answer = "none"]
           w == Woken(s, t)
<1>1. /\ s \in Systems /\ SlotsOK(tb, cl) /\ CallOK(t, tb, cl)
      /\ Phase(cl, s.folio, s.job[t], t \in ToSet(s.port))
      /\ cl \in Calls /\ s.call \in [Task -> Calls] /\ s.table \in [Task -> Tables]
  BY DEF LoadInv, Tame, Systems
<1>2. cl.in \in {"load", "unload"}
  BY <1>1 DEF Phase, Calls
<1>3. cl.copy \in Copy /\ s.job[t] = "none" /\ t \notin ToSet(s.port)
  <2>1. CASE cl.in = "load"
    BY <1>1, <2>1 DEF Phase, LoadPhase
  <2>2. CASE cl.in = "unload"
    BY <1>1, <2>2 DEF Phase, UnloadPhase
  <2> QED
    BY <1>2, <2>1, <2>2
<1>4. \A j \in X : At(tb, j) # Message /\ At(tb, j) # Port
  <2>1. \A j \in X : At(tb, j) = NoEntry \/ At(tb, j) = Open(cl.copy)
    BY <1>1 DEF Slept, CallOK
  <2> QED
    BY <1>3, <2>1, EntryKinds
<1>5. /\ GoodTable(tb, X)
      /\ \E i \in Nat : At(tb, i) = Message
      /\ \E i \in Nat : At(tb, i) = Port
  BY <1>1, <1>2 DEF SlotsOK, CallOK
<1> HIDE DEF X
<1>6. GoodTable(f, X) /\ SameItems(tb, f, X) /\ DOMAIN f.slot = DOMAIN tb.slot
  BY <1>4, <1>5, AnsweredTable
<1>7. f \in Tables
  BY <1>6 DEF GoodTable
<1>8. wcl \in Calls
  BY <1>1 DEF Calls
<1>9. w = [s EXCEPT !.table = [s.table EXCEPT ![t] = f],
                    !.call = [s.call EXCEPT ![t] = wcl]]
  BY <1>1 DEF Woken, Systems, Calls
<1> HIDE DEF f, wcl, w
<1>10. /\ w \in Systems /\ w.folio = s.folio /\ w.port = s.port /\ w.job = s.job
       /\ w.wild = s.wild /\ w.current = s.current
       /\ w.table = [s.table EXCEPT ![t] = f] /\ w.call = [s.call EXCEPT ![t] = wcl]
  BY <1>1, <1>7, <1>8, <1>9 DEF Systems
<1>11. /\ w.table[t] = f /\ w.call[t] = wcl
       /\ \A u \in Task \ {t} : w.table[u] = s.table[u] /\ w.call[u] = s.call[u]
  BY <1>1, <1>10
<1>12. \A j \in Nat : \A d \in Copy : /\ At(f, j) = Open(d) <=> At(tb, j) = Open(d)
                                      /\ At(f, j) = Made(d) <=> At(tb, j) = Made(d)
  BY <1>6 DEF SameItems
<1> QED
  BY <1>2, <1>3, <1>6, <1>7, <1>10, <1>11, <1>12 DEF w, wcl, X

\* The folio has been unloaded: the slot is freed.
LEMMA WakeUnloaded ==
  ASSUME NEW s, LoadInv(s), ~s.wild, s.current = NoTask, NEW t \in Task,
         s.call[t].answer # "none", s.call[t].in = "unload"
  PROVE  LoadInv(FreesSlot(Woken(s, t), t, s.call[t].slot))
<1> DEFINE tb == s.table[t]
           cl == s.call[t]
           w == Woken(s, t)
           a == w.table[t]
           i == cl.slot
           f == FreeItemSlot(a, i)
           r == FreesSlot(w, t, i)
<1>1. /\ w \in Systems /\ w.folio = s.folio /\ w.port = s.port /\ w.job = s.job
      /\ w.wild = s.wild /\ w.current = s.current
      /\ \A u \in Task \ {t} : w.table[u] = s.table[u] /\ w.call[u] = s.call[u]
      /\ w.call[t] = [cl EXCEPT !.answer = "none"]
      /\ GoodTable(a, Slept(cl)) /\ DOMAIN a.slot = DOMAIN tb.slot
      /\ \A j \in Nat : \A d \in Copy : /\ At(a, j) = Open(d) <=> At(tb, j) = Open(d)
                                        /\ At(a, j) = Made(d) <=> At(tb, j) = Made(d)
      /\ s.job[t] = "none" /\ t \notin ToSet(s.port)
  BY WokenIs
<1>2. /\ s \in Systems /\ SlotsOK(tb, cl) /\ CallOK(t, tb, cl) /\ Others(s, t)
      /\ Phase(cl, s.folio, s.job[t], t \in ToSet(s.port)) /\ cl \in Calls
  BY InvOthers DEF LoadInv, Tame, Systems
<1> HIDE DEF w
<1>3. Slept(cl) = {i} /\ i \in Nat
  BY <1>2 DEF Slept, Calls
<1>4. /\ GoodTable(f, {}) /\ Puts(a, f, i, NoEntry) /\ DOMAIN f.slot = DOMAIN a.slot
  <2>1. i \in DOMAIN a.slot /\ GoodTable(a, {i})
    BY <1>1, <1>3 DEF GoodTable
  <2>2. GoodTable(f, {i} \ {i}) /\ Puts(a, f, i, NoEntry) /\ DOMAIN f.slot = DOMAIN a.slot
    BY <2>1, FreeGood
  <2>3. {i} \ {i} = {}
    OBVIOUS
  <2> QED
    BY <2>2, <2>3
<1>5. Back(w, r, t) /\ r.folio = w.folio /\ r.table[t] = f
  <2>1. f \in Tables
    BY <1>4 DEF GoodTable
  <2> QED
    BY <1>1, <2>1, FreesSlotIs
<1> HIDE DEF f, a
<1>6. /\ \A d, j : IsLive(r.table[t], r.call[t], d, j) <=> At(f, j) = Open(d)
      /\ Slept(r.call[t]) = {}
  <2>1. /\ \A d, j : IsLive(r.table[t], r.call[t], d, j) <=> At(r.table[t], j) = Open(d)
        /\ Slept(r.call[t]) = {}
    BY <1>5, BackTable
  <2> QED
    BY <1>5, <2>1
<1> SUFFICES LoadInv(r)
  BY DEF r, w
<1> HIDE DEF r
<1>7. /\ w.call[t].exits = cl.exits /\ w.call[t].left = cl.left
  BY <1>1, <1>2 DEF Calls
<1>8. Back(s, r, t)
  BY <1>1, <1>5, <1>7 DEF Back
<1>9. /\ (r.call[t].exits <=> cl.exits) /\ r.call[t].left = cl.left
  BY <1>8 DEF Back
<1>10. \A d \in Copy : \A j \in Nat :
         /\ At(f, j) = Open(d) <=> At(tb, j) = Open(d) /\ j # i
         /\ At(f, j) = Made(d) => At(tb, j) = Made(d)
  BY <1>1, <1>3, <1>4, EntryKinds DEF Puts
<1>11. \A d \in Copy : \A j \in Nat :
         IsLive(r.table[t], r.call[t], d, j) <=> IsLive(tb, cl, d, j)
  BY <1>3, <1>6, <1>10 DEF IsLive
<1>12. SlotsOK(r.table[t], r.call[t])
  <2>1. ~cl.exits => \A d \in Copy : \A j \in Nat :
          At(tb, j) = Made(d) => \E k \in Nat : IsLive(tb, cl, d, k)
    BY <1>2 DEF SlotsOK
  <2> QED
    BY <1>4, <1>5, <1>6, <1>9, <1>10, <1>11, <2>1 DEF SlotsOK
<1>13. OpenOnce(t, r.table[t], r.call[t])
  <2>1. OpenOnce(t, tb, cl)
    BY <1>2 DEF CallOK
  <2> QED
    BY <1>5, <1>9, <1>10, <1>11, <2>1 DEF OpenOnce
<1>14. cl.exits => t \in MayExit /\ cl.left <= Len(r.table[t].slot)
  <2>1. Len(f.slot) = Len(tb.slot)
    <3>1. GoodTable(tb, Slept(cl))
      BY <1>2 DEF SlotsOK
    <3>2. /\ DOMAIN f.slot = 1..Len(f.slot) /\ DOMAIN tb.slot = 1..Len(tb.slot)
          /\ Len(f.slot) \in Nat /\ Len(tb.slot) \in Nat
      BY <1>4, <3>1, TableShape
    <3>3. \A m, n \in Nat : 1..m = 1..n => m = n
      OBVIOUS
    <3> QED
      BY <1>1, <1>4, <3>2, <3>3
  <2> QED
    BY <1>2, <1>5, <2>1 DEF CallOK
<1>15. Moved(s, r, t)
  BY <1>2, <1>8 DEF Moved, Back, Others
<1>16. ASSUME NEW d \in Copy PROVE CopyStep(s, r, t, d)
  <2>1. s.folio[d].code = "loaded" => d # cl.copy
    BY <1>1, <1>2 DEF Phase, UnloadPhase
  <2> QED
    BY <1>1, <1>2, <1>5, <1>15, <2>1, CopyStays DEF StaysWith
<1>17. \A d \in Copy : LiveStep(tb, cl, r.table[t], r.call[t], d,
                                s.folio[d].count, r.folio[d].count)
  BY <1>1, <1>5, <1>11 DEF LiveStep
<1> QED
  BY <1>1, <1>2, <1>8, <1>12, <1>13, <1>14, <1>16, <1>17, BackInv

\* What t wakes with from a load: its table is as it was, but for the port and the
\* message.
LEMMA LoadedTable ==
  ASSUME NEW s, LoadInv(s), ~s.wild, s.current = NoTask, NEW t \in Task,
         s.call[t].answer # "none", s.call[t].in = "load",
         NEW tb, NEW cl, tb = Woken(s, t).table[t], Slept(cl) = {},
         ~cl.exits
  PROVE  /\ SlotsOK(tb, cl) /\ OpenOnce(t, tb, cl) /\ ~s.call[t].exits
         /\ \A d \in Copy : \A j \in Nat :
              IsLive(tb, cl, d, j) <=> IsLive(s.table[t], s.call[t], d, j)
         /\ \A j \in Nat : At(tb, j) # Open(s.call[t].copy)
<1>1. /\ GoodTable(tb, Slept(s.call[t])) /\ s.call[t].copy \in Copy
      /\ \A j \in Nat : \A d \in Copy :
           /\ At(tb, j) = Open(d) <=> At(s.table[t], j) = Open(d)
           /\ At(tb, j) = Made(d) <=> At(s.table[t], j) = Made(d)
  <2> DEFINE f == Woken(s, t).table[t]
  <2>1. /\ GoodTable(f, Slept(s.call[t])) /\ s.call[t].copy \in Copy
        /\ \A j \in Nat : \A d \in Copy :
             /\ At(f, j) = Open(d) <=> At(s.table[t], j) = Open(d)
             /\ At(f, j) = Made(d) <=> At(s.table[t], j) = Made(d)
    BY WokenIs
  <2>2. tb = f
    OBVIOUS
  <2> HIDE DEF f
  <2> QED
    BY <2>1, <2>2
<1>2. SlotsOK(s.table[t], s.call[t]) /\ CallOK(t, s.table[t], s.call[t])
  BY DEF LoadInv, Tame
<1>3. Slept(s.call[t]) = {}
  BY DEF Slept
<1>4. ~s.call[t].exits /\ OpenOnce(t, s.table[t], s.call[t])
      /\ \A j \in Nat : At(s.table[t], j) # Open(s.call[t].copy)
  BY <1>2 DEF CallOK
<1>5. \A d \in Copy : \A j \in Nat :
        IsLive(tb, cl, d, j) <=> IsLive(s.table[t], s.call[t], d, j)
  BY <1>1, <1>3 DEF IsLive
<1>6. SlotsOK(tb, cl)
  <2>1. \A d \in Copy : \A j \in Nat :
          At(s.table[t], j) = Made(d) => \E k \in Nat : IsLive(s.table[t], s.call[t], d, k)
    BY <1>2, <1>4 DEF SlotsOK
  <2> QED
    BY <1>1, <1>3, <1>5, <2>1 DEF SlotsOK
<1>7. OpenOnce(t, tb, cl)
  BY <1>1, <1>4 DEF OpenOnce
<1> QED
  BY <1>1, <1>4, <1>5, <1>6, <1>7

\* The load has failed.
LEMMA WakeFailed ==
  ASSUME NEW s, LoadInv(s), ~s.wild, s.current = NoTask, NEW t \in Task,
         s.call[t].answer = "failed", s.call[t].in = "load"
  PROVE  LoadInv(Returned(Woken(s, t), t))
<1> DEFINE cl == s.call[t]
           w == Woken(s, t)
           r == Returned(w, t)
<1>1. /\ w \in Systems /\ w.folio = s.folio /\ w.port = s.port /\ w.job = s.job
      /\ w.wild = s.wild /\ w.current = s.current
      /\ \A u \in Task \ {t} : w.table[u] = s.table[u] /\ w.call[u] = s.call[u]
      /\ w.call[t] = [cl EXCEPT !.answer = "none"]
      /\ s.job[t] = "none" /\ t \notin ToSet(s.port)
  BY WokenIs
<1>2. /\ s \in Systems /\ Others(s, t) /\ cl \in Calls
      /\ Phase(cl, s.folio, s.job[t], t \in ToSet(s.port))
  BY InvOthers DEF LoadInv, Tame, Systems
<1>3. Back(w, r, t) /\ r.folio = w.folio /\ r.table = w.table
  BY <1>1, ReturnedIs
<1>4. Slept(r.call[t]) = {}
  BY <1>3, BackTable
<1>5. w.call[t].exits = cl.exits /\ w.call[t].left = cl.left
  BY <1>1, <1>2 DEF Calls
<1>6. Back(s, r, t)
  BY <1>1, <1>3, <1>5 DEF Back
<1>7. ~cl.exits
  <2>1. CallOK(t, s.table[t], cl)
    BY DEF LoadInv, Tame
  <2> QED
    BY <2>1 DEF CallOK
<1>8. ~r.call[t].exits
  BY <1>6, <1>7 DEF Back
<1>9. /\ SlotsOK(r.table[t], r.call[t]) /\ OpenOnce(t, r.table[t], r.call[t])
      /\ \A d \in Copy : \A j \in Nat :
           IsLive(r.table[t], r.call[t], d, j) <=> IsLive(s.table[t], cl, d, j)
  <2>1. r.table[t] = w.table[t]
    BY <1>3
  <2> HIDE DEF r, w
  <2> QED
    BY <1>4, <1>8, <2>1, LoadedTable DEF w
<1> SUFFICES LoadInv(r)
  BY DEF r
<1> HIDE DEF r, w
<1>10. Moved(s, r, t)
  BY <1>2, <1>6 DEF Moved, Back, Others
<1>11. ASSUME NEW d \in Copy PROVE CopyStep(s, r, t, d)
  <2>1. s.folio[d].code = "loaded" => d # cl.copy
    BY <1>2 DEF Phase, LoadPhase
  <2> QED
    BY <1>1, <1>2, <1>3, <1>10, <2>1, CopyStays DEF StaysWith
<1>12. \A d \in Copy : LiveStep(s.table[t], cl, r.table[t], r.call[t], d,
                                s.folio[d].count, r.folio[d].count)
  BY <1>1, <1>3, <1>9 DEF LiveStep
<1> QED
  BY <1>1, <1>2, <1>6, <1>7, <1>9, <1>11, <1>12, BackInv

\* The folio has been loaded: t opens it.
LEMMA WakeLoaded ==
  ASSUME NEW s, LoadInv(s), ~s.wild, s.current = NoTask, NEW t \in Task,
         s.call[t].answer = "done", s.call[t].in = "load"
  PROVE  LET c == s.call[t].copy
         IN  Opening(WithFolio(Woken(s, t), c, [s.folio[c] EXCEPT !.context = TRUE]), t, c)
<1> DEFINE cl == s.call[t]
           c == cl.copy
           g == [s.folio[c] EXCEPT !.context = TRUE]
           w == Woken(s, t)
           x == WithFolio(w, c, g)
<1>1. /\ w \in Systems /\ w.folio = s.folio /\ w.port = s.port /\ w.job = s.job
      /\ w.wild = s.wild /\ w.current = s.current
      /\ \A u \in Task \ {t} : w.table[u] = s.table[u] /\ w.call[u] = s.call[u]
      /\ w.call[t] = [cl EXCEPT !.answer = "none"]
      /\ s.job[t] = "none" /\ t \notin ToSet(s.port) /\ c \in Copy
  BY WokenIs
<1>2. /\ s \in Systems /\ Others(s, t) /\ cl \in Calls /\ CallOK(t, s.table[t], cl)
      /\ Phase(cl, s.folio, s.job[t], t \in ToSet(s.port))
      /\ s.folio \in [Copy -> Folios]
      /\ \A u \in Task \ {t} : s.call[u].in = "load" => s.call[u].copy # c
  BY InvOthers DEF LoadInv, Tame, Systems
<1>3. /\ s.folio[c] \in Folios /\ s.folio[c].code = "loaded" /\ s.folio[c].there
  BY <1>1, <1>2 DEF Phase, LoadPhase
<1>4. /\ g \in Folios /\ g.code = "loaded" /\ g.there /\ g.context
      /\ g.count = s.folio[c].count
  BY <1>3 DEF Folios
<1>5. ~cl.exits
  BY <1>2 DEF CallOK
<1>6. \A j \in Nat : At(w.table[t], j) # Open(c)
  BY <1>1, <1>2, <1>5, LoadedTable DEF Slept
<1> HIDE DEF c, g
<1>7. /\ x \in Systems /\ x.table = w.table /\ x.port = w.port /\ x.job = w.job
      /\ x.wild = w.wild /\ x.call = w.call /\ x.current = w.current
      /\ x.folio[c] = g /\ \A d \in Copy : d # c => x.folio[d] = w.folio[d]
  <2> HIDE DEF w
  <2> QED
    BY <1>1, <1>4, WithFolioIs
<1>8. /\ x.call[t].in = "load" /\ x.call[t].copy = c /\ x.call[t].answer = "none"
      /\ ~x.call[t].exits /\ Slept(x.call[t]) = {}
  BY <1>1, <1>2, <1>5, <1>7 DEF Calls, Slept, c
<1>9. /\ SlotsOK(x.table[t], x.call[t]) /\ OpenOnce(t, x.table[t], x.call[t])
      /\ \A d \in Copy : \A j \in Nat :
           IsLive(x.table[t], x.call[t], d, j) <=> IsLive(s.table[t], cl, d, j)
  <2>1. x.table[t] = w.table[t]
    BY <1>7
  <2> HIDE DEF x, w
  <2> QED
    BY <1>8, <2>1, LoadedTable DEF w
<1> SUFFICES Opening(x, t, c)
  BY DEF x, g, c
<1> HIDE DEF x, w
<1>10. Moved(s, x, t)
  BY <1>1, <1>2, <1>7 DEF Moved, Others
<1>11. ASSUME NEW d \in Copy PROVE CopyStep(s, x, t, d)
  <2>1. CASE d # c
    <3>1. x.folio[d] = s.folio[d] /\ StaysWith(s, x, t, d)
      BY <1>1, <1>7, <1>8, <2>1 DEF StaysWith, c
    <3> QED
      BY <1>2, <1>10, <3>1, CopyStays
  <2>2. CASE d = c
    <3>1. CopyOK(g)
      BY <1>4 DEF CopyOK
    <3>2. KeptFor(s, t, c, s.folio[c], g)
      BY <1>2, <1>3, <1>4 DEF KeptFor
    <3>3. Needed(x, c)
      BY <1>4, <1>7, <1>8 DEF Needed
    <3> QED
      BY <1>7, <2>2, <3>1, <3>2, <3>3 DEF CopyStep
  <2> QED
    BY <2>1, <2>2
<1>12. ASSUME NEW d \in Copy
       PROVE  LiveStep(s.table[t], s.call[t], x.table[t], x.call[t], d,
                       s.folio[d].count, x.folio[d].count)
  <2>1. x.folio[d].count = s.folio[d].count
    BY <1>1, <1>4, <1>7
  <2> QED
    BY <1>9, <2>1 DEF LiveStep
<1>13. Others(x, t)
  BY <1>2, <1>9, <1>10, <1>11, <1>12, OthersMove
<1>14. x.job[t] = "none" /\ t \notin ToSet(x.port) /\ x.folio[c].there /\ x.folio[c].context
  BY <1>1, <1>4, <1>7
<1>15. \A j \in Nat : At(x.table[t], j) # Open(c)
  BY <1>6, <1>7
<1> QED
  BY <1>8, <1>9, <1>13, <1>14, <1>15 DEF Opening, OpenOnce

-----------------------------------------------------------------------------
(* The steps of a task *)

\* A task of which no other is in the way, and that does not sleep.
LEMMA IsReady ==
  ASSUME NEW s, LoadInv(s), ~s.wild, NEW t \in Task, s.current \in {NoTask, t},
         s.call[t].in \in {"user", "exit"}
  PROVE  /\ Ready(s, t) /\ OpenOnce(t, s.table[t], s.call[t])
         /\ s \in Systems /\ s.table[t] \in Tables /\ s.call[t] \in Calls
<1>1. /\ CallOK(t, s.table[t], s.call[t]) /\ Others(s, t)
      /\ Phase(s.call[t], s.folio, s.job[t], t \in ToSet(s.port))
  BY InvOthers DEF LoadInv, Tame
<1>2. s \in Systems /\ s.table[t] \in Tables /\ s.call[t] \in Calls
  BY DEF LoadInv, Systems
<1> QED
  BY <1>1, <1>2 DEF Ready, CallOK, Phase

LEMMA FindAndOpenInv ==
  ASSUME LoadInv(sys), NEW t \in Task, FindAndOpenItem(t)
  PROVE  LoadInv(sys')
<1> DEFINE found == {c \in Copy : sys.folio[c].there}
<1>1. /\ ~sys.wild /\ sys.current = NoTask /\ sys.call[t].in = "user"
      /\ t \in Twice \/ \A c \in found : Slots(sys.table[t], Open(c)) = {}
  BY DEF FindAndOpenItem, User
<1>2. /\ Ready(sys, t) /\ OpenOnce(t, sys.table[t], sys.call[t])
      /\ sys \in Systems
  BY <1>1, IsReady
<1>3. GoodTable(sys.table[t], {})
  BY <1>2, ReadyTable
<1>4. CASE found # {}
  <2>1. PICK c \in found : sys' \in OpenFolio(sys, t, c)
    BY <1>4 DEF FindAndOpenItem
  <2>2. t \notin Twice => \A j \in Nat : At(sys.table[t], j) # Open(c)
    <3>1. Slots(sys.table[t], Open(c)) = {} =>
            \A j \in Nat : At(sys.table[t], j) # Open(c)
      BY EntryKinds DEF Slots, At
    <3> QED
      BY <1>1, <3>1
  <2>3. Opening(sys, t, c)
    BY <1>1, <1>2, <2>2 DEF Opening, Ready, OpenOnce
  <2> QED
    BY <2>1, <2>3, OpenInv
<1>5. CASE found = {}
  <2> DEFINE N == {x \in Copy : sys.folio[x].code = "none"}
             Least(x) == sys.folio[x].code = "none"
                           /\ \A y \in Copy : sys.folio[y].code = "none" => x <= y
             c == CHOOSE x \in Copy : Least(x)
             g == [sys.folio[c] EXCEPT !.code = "asked"]
  <2>1. /\ N # {} /\ sys' = LoadModule(sys, t)
    BY <1>5 DEF FindAndOpenItem
  <2>2. N \in SUBSET Nat
    BY LoadAssumption DEF Copy
  <2>3. \E m \in N : \A n \in N : m <= n
    BY <2>1, <2>2, LeastNumber
  <2>4. \E x \in Copy : Least(x)
    BY <2>3
  <2>5. c \in Copy /\ Least(c)
    BY <2>4
  <2>6. WithFolio(sys, c, g) = [sys EXCEPT !.folio[c].code = "asked"]
    BY <1>2, <2>5 DEF WithFolio, Systems, Folios
  <2>7. sys' = UserModeService(WithFolio(sys, c, g), t, "load", c, 0)
    BY <2>1, <2>6 DEF LoadModule
  <2>8. sys.folio[c].code = "none"
    BY <2>5
  <2> HIDE DEF N, Least, c
  <2> QED
    BY <1>1, <1>2, <2>5, <2>7, <2>8, LoadAskedInv
<1> QED
  BY <1>4, <1>5

LEMMA CloseItemInv ==
  ASSUME LoadInv(sys), NEW t \in Task, CloseItem(t)
  PROVE  LoadInv(sys')
<1> DEFINE tb == sys.table[t]
<1>1. ~sys.wild /\ sys.current = NoTask /\ sys.call[t].in = "user"
  BY DEF CloseItem, User
<1>2. Ready(sys, t) /\ OpenOnce(t, tb, sys.call[t])
  BY <1>1, IsReady
<1>3. PICK c \in Copy : Slots(tb, Open(c)) # {} /\ sys' = internalCloseItem(sys, t, c)
  BY DEF CloseItem
<1>4. GoodTable(tb, {})
  BY <1>2, ReadyTable
<1>5. PICK k \in Nat : At(tb, k) = Open(c)
  BY <1>3, <1>4, TableShape DEF Slots
<1>6. CloseOnce(t, tb, sys.call[t], FindItemSlot(tb, Open(c)))
  BY <1>1, <1>2 DEF CloseOnce, OpenOnce, Ready
<1> QED
  BY <1>2, <1>3, <1>5, <1>6, CloseInv

LEMMA CreateItemInv ==
  ASSUME LoadInv(sys), NEW t \in Task, CreateItem(t)
  PROVE  LoadInv(sys')
<1> DEFINE tb == sys.table[t]
<1>1. ~sys.wild /\ sys.current = NoTask /\ sys.call[t].in = "user"
  BY DEF CreateItem, User
<1>2. Ready(sys, t) /\ OpenOnce(t, tb, sys.call[t]) /\ sys \in Systems
  BY <1>1, IsReady
<1>3. GoodTable(tb, {})
  BY <1>2, ReadyTable
<1>4. CASE sys' = [sys EXCEPT !.table[t] = Filled(@, Other)]
  <2>1. sys' = WithTable(sys, t, Filled(tb, Other))
    BY <1>4 DEF WithTable
  <2>2. /\ Other \in Entries /\ Other # NoEntry
        /\ \A c \in Copy : Other # Open(c) /\ Other # Made(c)
    BY EntryKinds
  <2> QED
    BY <1>1, <1>2, <2>1, <2>2, CreateInv
<1>5. ASSUME NEW c \in Copy, Slots(tb, Open(c)) # {},
             sys' = IF sys.folio[c].code = "freed" THEN Wild(sys)
                    ELSE [sys EXCEPT !.table[t] = Filled(@, Made(c))]
      PROVE  LoadInv(sys')
  <2>1. LoadInv(Wild(sys))
    BY <1>2, WildInv DEF LoadInv
  <2>2. PICK k \in Nat : At(tb, k) = Open(c)
    BY <1>3, <1>5, TableShape DEF Slots
  <2>3. /\ Made(c) \in Entries /\ Made(c) # NoEntry
        /\ \A d \in Copy : Made(c) # Open(d) /\ (Made(c) = Made(d) => c = d)
    BY EntryKinds
  <2>4. LoadInv(WithTable(sys, t, Filled(tb, Made(c))))
    BY <1>1, <1>2, <2>2, <2>3, CreateInv
  <2> QED
    BY <1>5, <2>1, <2>4 DEF WithTable
<1> QED
  BY <1>4, <1>5 DEF CreateItem

LEMMA DeleteItemInv ==
  ASSUME LoadInv(sys), NEW t \in Task, DeleteItem(t)
  PROVE  LoadInv(sys')
<1> DEFINE tb == sys.table[t]
<1>1. ~sys.wild /\ sys.current = NoTask /\ sys.call[t].in = "user"
  BY DEF DeleteItem, User
<1>2. Ready(sys, t) /\ OpenOnce(t, tb, sys.call[t])
  BY <1>1, IsReady
<1>3. PICK e \in {Other} \cup {Made(c) : c \in Copy} :
        Slots(tb, e) # {} /\ sys' = internalDeleteItem(sys, t, e)
  BY DEF DeleteItem
<1>4. e \in Entries /\ e # NoEntry /\ \A c \in Copy : e # Open(c)
  BY <1>3, EntryKinds
<1>5. GoodTable(tb, {})
  BY <1>2, ReadyTable
<1>6. PICK k \in Nat : At(tb, k) = e
  BY <1>3, <1>5, TableShape DEF Slots
<1> QED
  BY <1>2, <1>3, <1>4, <1>6, DeleteInv

LEMMA WakesInv ==
  ASSUME LoadInv(sys), NEW t \in Task, Wakes(t)
  PROVE  LoadInv(sys')
<1> DEFINE cl == sys.call[t]
           c == cl.copy
           w == Woken(sys, t)
           g == [sys.folio[c] EXCEPT !.context = TRUE]
<1>1. ~sys.wild /\ sys.current = NoTask /\ cl.answer # "none"
  BY DEF Wakes
<1>2. CASE cl.in = "unload" /\ sys' = FreesSlot(w, t, cl.slot)
  BY <1>1, <1>2, WakeUnloaded
<1>3. CASE cl.in = "load" /\ cl.answer = "failed" /\ sys' = Returned(w, t)
  BY <1>1, <1>3, WakeFailed
<1>4. CASE /\ cl.in = "load" /\ cl.answer = "done"
           /\ sys' \in OpenFolio([w EXCEPT !.folio[c].context = TRUE], t, c)
  <2>1. Opening(WithFolio(w, c, g), t, c)
    BY <1>1, <1>4, WakeLoaded
  <2>2. c \in Copy /\ w \in Systems /\ w.folio = sys.folio
    <3>1. /\ w \in Systems /\ w.folio = sys.folio /\ w.port = sys.port /\ w.job = sys.job
          /\ w.wild = sys.wild /\ w.current = sys.current
          /\ \A u \in Task \ {t} : w.table[u] = sys.table[u] /\ w.call[u] = sys.call[u]
          /\ w.call[t] = [cl EXCEPT !.answer = "none"]
          /\ sys.job[t] = "none" /\ t \notin ToSet(sys.port) /\ c \in Copy
      BY <1>1, WokenIs
    <3>2. cl.copy \in Copy
      BY <1>1, WokenIs
    <3> QED
      BY <3>1, <3>2
  <2>3. WithFolio(w, c, g) = [w EXCEPT !.folio[c].context = TRUE]
    <3> HIDE DEF w
    <3> QED
      BY <2>2 DEF WithFolio, Systems, Folios
  <2> HIDE DEF w, g, c
  <2> QED
    BY <1>4, <2>1, <2>2, <2>3, OpenInv
<1> QED
  BY <1>2, <1>3, <1>4 DEF Wakes, Woken

\* The call that an exiting task is in, when left slots are left.
ExitCall(cl, left) == [[[cl EXCEPT !.in = "exit"] EXCEPT !.exits = TRUE] EXCEPT !.left = left]

LEMMA ExitInv ==
  ASSUME LoadInv(sys), NEW t \in Task, Exit(t)
  PROVE  LoadInv(sys')
<1> DEFINE tb == sys.table[t]
           n == Len(tb.slot)
           cl == ExitCall(sys.call[t], n)
           r == [sys EXCEPT !.call = [sys.call EXCEPT ![t] = cl], !.current = t]
<1>1. ~sys.wild /\ sys.current = NoTask /\ sys.call[t].in = "user" /\ t \in MayExit
  BY DEF Exit, User
<1>2. /\ Ready(sys, t) /\ OpenOnce(t, tb, sys.call[t]) /\ sys \in Systems
      /\ sys.call[t] \in Calls /\ sys.call \in [Task -> Calls]
  BY <1>1, IsReady DEF Systems
<1>3. /\ GoodTable(tb, {}) /\ \A q, d : StaysWith(sys, q, t, d)
      /\ \A d, j : IsLive(tb, sys.call[t], d, j) <=> At(tb, j) = Open(d)
  BY <1>2, ReadyTable
<1>4. /\ n \in Nat /\ DOMAIN tb.slot = 1..n
      /\ \A j \in Nat : At(tb, j) # NoEntry => j \in DOMAIN tb.slot
  BY <1>3, TableShape
<1>5. /\ cl \in Calls /\ cl.in = "exit" /\ cl.exits /\ cl.left = n
      /\ cl.answer = sys.call[t].answer
  BY <1>2, <1>4 DEF Calls, ExitCall
<1>6. sys' = r
  BY <1>2, Zenon DEF Exit, ExitCall, Systems, Calls
<1> HIDE DEF cl, n
<1>7. /\ r \in Systems /\ r.folio = sys.folio /\ r.table = sys.table /\ r.port = sys.port
      /\ r.job = sys.job /\ r.wild = sys.wild /\ r.current = t
      /\ r.call = [sys.call EXCEPT ![t] = cl]
  BY <1>2, <1>5 DEF Systems
<1>8. r.call[t] = cl /\ \A u \in Task \ {t} : r.call[u] = sys.call[u]
  BY <1>2, <1>7
<1> SUFFICES LoadInv(r)
  BY <1>6
<1> HIDE DEF r
<1>9. Slept(cl) = {} /\ \A d, j : IsLive(tb, cl, d, j) <=> At(tb, j) = Open(d)
  BY <1>5 DEF Slept, IsLive
<1>10. SlotsOK(tb, cl)
  BY <1>3, <1>5, <1>9 DEF SlotsOK
<1>11. CallOK(t, tb, cl)
  <2>1. \A j \in Nat : \A d \in Copy : At(tb, j) = Open(d) => j <= n
    BY <1>4, EntryKinds
  <2>2. OpenOnce(t, tb, cl)
    BY <1>2, <1>5, <1>9, <2>1 DEF OpenOnce
  <2> QED
    BY <1>1, <1>4, <1>5, <2>2 DEF CallOK, n
<1>12. Phase(cl, r.folio, r.job[t], t \in ToSet(r.port))
  BY <1>2, <1>5, <1>7 DEF Phase, Ready
<1>13. Moved(sys, r, t) /\ Others(sys, t)
  BY <1>2, <1>7, <1>8 DEF Moved, Ready, Others
<1>14. \A d \in Copy : CopyStep(sys, r, t, d)
  BY <1>3, <1>7, <1>13, CopyStays
<1>15. \A d \in Copy : LiveStep(tb, sys.call[t], r.table[t], r.call[t], d,
                                sys.folio[d].count, r.folio[d].count)
  BY <1>3, <1>7, <1>8, <1>9 DEF LiveStep
<1> QED
  BY <1>5, <1>7, <1>8, <1>10, <1>11, <1>12, <1>13, <1>14, <1>15, MoveInv

\* FreeResources has been through another slot.
LEMMA NextSlot ==
  ASSUME NEW s, LoadInv(s), ~s.wild, NEW t \in Task, s.current = t, s.call[t].left # 0
  PROVE  LET x == [s EXCEPT !.call[t].left = @ - 1]
             i == s.call[t].left
             tb == s.table[t]
         IN  /\ Ready(x, t) /\ x.table = s.table /\ x.current = t
             /\ x.call[t].in = "exit" /\ x.call[t].exits /\ x.call[t].left = i - 1
             /\ i \in Nat /\ i \in DOMAIN tb.slot
             /\ t \notin Twice =>
                  /\ \A d \in Copy : \A j, k \in Nat :
                       At(tb, j) = Open(d) /\ At(tb, k) = Open(d) => j = k
                  /\ \A j \in Nat : \A d \in Copy :
                       j # i /\ At(tb, j) = Open(d) => j <= i - 1
<1> DEFINE tb == s.table[t]
           i == s.call[t].left
           cl == [s.call[t] EXCEPT !.left = i - 1]
           x == [s EXCEPT !.call[t].left = @ - 1]
<1>1. t # NoTask /\ s.call[t].in = "exit"
  BY LoadAssumption DEF LoadInv, Tame
<1>2. /\ Ready(s, t) /\ OpenOnce(t, tb, s.call[t]) /\ s \in Systems
      /\ s.call[t] \in Calls /\ s.call \in [Task -> Calls]
  BY <1>1, IsReady DEF Systems
<1>3. /\ GoodTable(tb, {}) /\ \A q, d : StaysWith(s, q, t, d)
      /\ \A d, j : IsLive(tb, s.call[t], d, j) <=> At(tb, j) = Open(d)
  BY <1>2, ReadyTable
<1>4. s.call[t].exits /\ t \in MayExit /\ i <= Len(tb.slot)
  BY <1>1, <1>2 DEF Ready
<1>5. i \in Nat /\ i - 1 \in Nat /\ i \in DOMAIN tb.slot
  <2>1. Len(tb.slot) \in Nat /\ DOMAIN tb.slot = 1..Len(tb.slot)
    BY <1>3, TableShape
  <2>2. i \in Nat
    BY <1>2 DEF Calls
  <2> QED
    BY <1>4, <2>1, <2>2
<1>6. /\ cl \in Calls /\ cl.in = "exit" /\ cl.exits /\ cl.left = i - 1
      /\ cl.answer = s.call[t].answer
  BY <1>1, <1>2, <1>4, <1>5 DEF Calls
<1>7. x = [s EXCEPT !.call = [s.call EXCEPT ![t] = cl]]
  BY <1>2 DEF Systems, Calls
<1>8. /\ t \notin Twice =>
           /\ \A d \in Copy : \A j, k \in Nat :
                At(tb, j) = Open(d) /\ At(tb, k) = Open(d) => j = k
           /\ \A j \in Nat : \A d \in Copy :
                j # i /\ At(tb, j) = Open(d) => j <= i - 1
  BY <1>2, <1>3, <1>4, <1>5 DEF OpenOnce
<1> HIDE DEF cl, x
<1>9. /\ x \in Systems /\ x.folio = s.folio /\ x.table = s.table /\ x.port = s.port
      /\ x.job = s.job /\ x.wild = s.wild /\ x.current = t
      /\ x.call = [s.call EXCEPT ![t] = cl]
  BY <1>2, <1>6, <1>7 DEF Systems
<1>10. x.call[t] = cl /\ \A u \in Task \ {t} : x.call[u] = s.call[u]
  BY <1>2, <1>9
<1>11. Slept(cl) = {} /\ \A d, j : IsLive(tb, cl, d, j) <=> At(tb, j) = Open(d)
  BY <1>6 DEF Slept, IsLive
<1>12. SlotsOK(tb, cl)
  BY <1>3, <1>6, <1>11 DEF SlotsOK
<1>13. Moved(s, x, t) /\ Others(s, t)
  BY <1>2, <1>9, <1>10 DEF Moved, Ready, Others
<1>14. \A d \in Copy : CopyStep(s, x, t, d)
  BY <1>3, <1>9, <1>13, CopyStays
<1>15. \A d \in Copy : LiveStep(tb, s.call[t], x.table[t], x.call[t], d,
                                s.folio[d].count, x.folio[d].count)
  BY <1>3, <1>9, <1>10, <1>11 DEF LiveStep
<1>16. Others(x, t)
  BY <1>9, <1>10, <1>12, <1>13, <1>14, <1>15, OthersMove
<1>17. Ready(x, t)
  <2>1. i - 1 <= Len(tb.slot)
    <3>1. Len(tb.slot) \in Nat
      BY <1>3, TableShape
    <3> QED
      BY <1>4, <1>5, <3>1
  <2> QED
    BY <1>2, <1>4, <1>6, <1>9, <1>10, <1>16, <2>1 DEF Ready
<1> QED
  BY <1>5, <1>6, <1>8, <1>9, <1>10, <1>17 DEF x

\* The task is gone, with all that it had.
LEMMA DeadInv ==
  ASSUME NEW s, LoadInv(s), ~s.wild, NEW t \in Task, s.current = t, s.call[t].left = 0
  PROVE  LoadInv([s EXCEPT !.call[t].in = "dead", !.table[t] = EmptyTable,
                           !.current = NoTask])
<1> DEFINE tb == s.table[t]
           cl == [s.call[t] EXCEPT !.in = "dead"]
           r == [s EXCEPT !.call[t].in = "dead", !.table[t] = EmptyTable,
                          !.current = NoTask]
<1>1. t # NoTask /\ s.call[t].in = "exit"
  BY LoadAssumption DEF LoadInv, Tame
<1>2. /\ Ready(s, t) /\ OpenOnce(t, tb, s.call[t]) /\ s \in Systems
      /\ s.call[t] \in Calls /\ s.call \in [Task -> Calls] /\ s.table \in [Task -> Tables]
  BY <1>1, IsReady DEF Systems
<1>3. /\ GoodTable(tb, {}) /\ \A q, d : StaysWith(s, q, t, d)
      /\ \A d, j : IsLive(tb, s.call[t], d, j) <=> At(tb, j) = Open(d)
  BY <1>2, ReadyTable
<1>4. s.call[t].exits /\ t \in MayExit
  BY <1>1, <1>2 DEF Ready
<1>5. /\ cl \in Calls /\ cl.in = "dead" /\ cl.exits /\ cl.left = 0
      /\ cl.answer = s.call[t].answer
  BY <1>2, <1>4 DEF Calls
<1>6. r = [s EXCEPT !.call = [s.call EXCEPT ![t] = cl],
                    !.table = [s.table EXCEPT ![t] = EmptyTable], !.current = NoTask]
  BY <1>2 DEF Systems, Calls
<1>7. /\ EmptyTable \in Tables /\ DOMAIN EmptyTable.slot = {} /\ Len(EmptyTable.slot) = 0
      /\ IsInjective(EmptyTable.free) /\ ToSet(EmptyTable.free) = {}
  BY DEF EmptyTable, Tables, IsInjective, ToSet
<1> HIDE DEF cl, r
<1>8. /\ r \in Systems /\ r.folio = s.folio /\ r.port = s.port
      /\ r.job = s.job /\ r.wild = s.wild /\ r.current = NoTask
      /\ r.call = [s.call EXCEPT ![t] = cl] /\ r.table = [s.table EXCEPT ![t] = EmptyTable]
  BY <1>2, <1>5, <1>6, <1>7 DEF Systems
<1>9. /\ r.call[t] = cl /\ r.table[t] = EmptyTable
      /\ \A u \in Task \ {t} : r.call[u] = s.call[u] /\ r.table[u] = s.table[u]
  BY <1>2, <1>8
<1>10. \A j : At(EmptyTable, j) = NoEntry
  BY <1>7 DEF At
<1>11. Slept(cl) = {} /\ \A d \in Copy : \A j : ~IsLive(EmptyTable, cl, d, j)
  BY <1>5, <1>10, EntryKinds DEF Slept, IsLive
<1>12. SlotsOK(EmptyTable, cl)
  <2>1. GoodTable(EmptyTable, {})
    BY <1>7 DEF GoodTable
  <2> QED
    BY <1>5, <1>11, <2>1 DEF SlotsOK
<1>13. CallOK(t, EmptyTable, cl)
  <2>1. OpenOnce(t, EmptyTable, cl)
    BY <1>10, <1>11, EntryKinds DEF OpenOnce
  <2> QED
    BY <1>4, <1>5, <1>7, <2>1 DEF CallOK
<1>14. Phase(cl, r.folio, r.job[t], t \in ToSet(r.port))
  BY <1>2, <1>5, <1>8 DEF Phase, Ready
<1>15. Moved(s, r, t) /\ Others(s, t)
  BY <1>2, <1>8, <1>9 DEF Moved, Ready, Others
<1>16. \A d \in Copy : CopyStep(s, r, t, d)
  BY <1>3, <1>8, <1>15, CopyStays
<1>17. ASSUME NEW d \in Copy, Apart, NEW j \in Nat, IsLive(tb, s.call[t], d, j)
       PROVE  FALSE
  <2>1. j <= s.call[t].left
    BY <1>2, <1>4, <1>17 DEF OpenOnce, Apart
  <2>2. j \in DOMAIN tb.slot
    BY <1>3, <1>17, TableShape, EntryKinds
  <2>3. DOMAIN tb.slot = 1..Len(tb.slot) /\ Len(tb.slot) \in Nat
    BY <1>3, TableShape
  <2> QED
    BY <2>1, <2>2, <2>3
<1>18. \A d \in Copy : LiveStep(tb, s.call[t], r.table[t], r.call[t], d,
                                s.folio[d].count, r.folio[d].count)
  BY <1>8, <1>9, <1>11, <1>17 DEF LiveStep
<1>19. LoadInv(r)
  BY <1>5, <1>8, <1>9, <1>12, <1>13, <1>14, <1>15, <1>16, <1>18, MoveInv
<1> QED
  BY <1>19 DEF r

LEMMA FreeResourcesInv ==
  ASSUME LoadInv(sys), NEW t \in Task, FreeResources(t)
  PROVE  LoadInv(sys')
<1> DEFINE tb == sys.table[t]
           i == sys.call[t].left
           e == tb.slot[i]
           x == [sys EXCEPT !.call[t].left = @ - 1]
<1>1. ~sys.wild /\ sys.current = t
  BY Zenon DEF FreeResources
<1>2. CASE i = 0
  <2>1. sys' = [sys EXCEPT !.call[t].in = "dead", !.table[t] = EmptyTable,
                           !.current = NoTask]
    BY <1>2 DEF FreeResources
  <2> QED
    BY <1>1, <1>2, <2>1, DeadInv
<1>3. CASE i # 0
  <2>1. /\ Ready(x, t) /\ x.table = sys.table /\ x.current = t
        /\ x.call[t].in = "exit" /\ x.call[t].exits /\ x.call[t].left = i - 1
        /\ i \in Nat /\ i \in DOMAIN tb.slot
        /\ t \notin Twice =>
             /\ \A d \in Copy : \A j, k \in Nat :
                  At(tb, j) = Open(d) /\ At(tb, k) = Open(d) => j = k
             /\ \A j \in Nat : \A d \in Copy :
                  j # i /\ At(tb, j) = Open(d) => j <= i - 1
    BY <1>1, <1>3, NextSlot
  <2>2. /\ e.kind = "open" => sys' = internalCloseItem(x, t, e.item)
        /\ e.kind \in {"made", "other"} => sys' = internalDeleteItem(x, t, e)
        /\ e.kind \notin {"open", "made", "other"} => sys' = x
    BY <1>3, Zenon DEF FreeResources
  <2> HIDE DEF x
  <2>3. GoodTable(tb, {})
    BY <2>1, ReadyTable
  <2>4. e \in Entries /\ At(tb, i) = e
    BY <2>1, <2>3, TableShape
  <2>5. CASE e.kind = "open"
    <3> DEFINE c == e.item
               k == FindItemSlot(tb, Open(c))
    <3>1. c \in Copy /\ At(tb, i) = Open(c)
      BY <2>4, <2>5, OpenEntry
    <3>2. k \in Nat /\ At(tb, k) = Open(c)
      BY <2>1, <2>3, <3>1, FindGood, EntryKinds
    <3>3. CloseOnce(t, tb, x.call[t], k)
      <4> HIDE DEF k
      <4>1. t \notin Twice => k = i
        BY <2>1, <3>1, <3>2
      <4> QED
        BY <2>1, <4>1 DEF CloseOnce
    <3> HIDE DEF c
    <3>4. LoadInv(internalCloseItem(x, t, c))
      BY <2>1, <3>1, <3>3, CloseInv
    <3> QED
      BY <2>2, <2>5, <3>4, Zenon DEF c
  <2>6. e.kind # "open" => \A c \in Copy : e # Open(c)
    BY <2>4, OpenEntry
  <2>7. ASSUME e.kind # "open" PROVE OpenOnce(t, x.table[t], x.call[t])
    <3>1. \A d \in Copy : At(tb, i) # Open(d)
      BY <2>4, <2>6, <2>7, Zenon
    <3>2. \A d, j : IsLive(x.table[t], x.call[t], d, j) <=> At(x.table[t], j) = Open(d)
      BY <2>1, ReadyTable
    <3> QED
      BY <2>1, <3>1, <3>2 DEF OpenOnce
  <2>8. CASE e.kind \in {"made", "other"}
    <3>1. e # NoEntry /\ e.kind # "open"
      BY <2>8 DEF NoEntry, Entry
    <3>2. LoadInv(internalDeleteItem(x, t, e))
      BY <2>1, <2>4, <2>6, <2>7, <3>1, DeleteInv, Zenon
    <3> QED
      BY <2>2, <2>8, <3>2, Zenon
  <2>9. CASE e.kind \notin {"open", "made", "other"}
    <3>1. OpenOnce(t, x.table[t], x.call[t]) /\ sys' = x
      BY <2>2, <2>7, <2>9, Zenon
    <3>2. CallOK(t, x.table[t], x.call[t])
      BY <2>1, <3>1 DEF CallOK, Ready
    <3>3. Phase(x.call[t], x.folio, x.job[t], t \in ToSet(x.port))
      BY <2>1 DEF Phase, Ready
    <3>4. LoadInv(x)
      BY <2>1, <3>2, <3>3, OthersInv DEF Ready
    <3> QED
      BY <3>1, <3>4
  <2> QED
    BY <2>5, <2>8, <2>9
<1> QED
  BY <1>2, <1>3

-----------------------------------------------------------------------------
(* The steps of the server *)

\* The server or a thread does something for t, about the copy c of t's call.
Serves(s, r, t, c) ==
  /\ r \in Systems /\ ~r.wild /\ r.table = s.table /\ r.current = NoTask
  /\ \A u \in Task \ {t} : /\ r.call[u] = s.call[u] /\ r.job[u] = s.job[u]
                           /\ u \in ToSet(r.port) <=> u \in ToSet(s.port)
  /\ IsInjective(r.port)
  /\ r.call[t].in = s.call[t].in /\ r.call[t].copy = c /\ r.call[t].slot = s.call[t].slot
  /\ (r.call[t].exits <=> s.call[t].exits) /\ r.call[t].left = s.call[t].left
  /\ \A d \in Copy : d # c => r.folio[d] = s.folio[d]
  /\ r.folio[c].count = s.folio[c].count
  /\ (r.folio[c].context <=> s.folio[c].context)
  /\ s.folio[c].code = "freed" => r.folio[c].code = "freed"
  /\ CopyOK(r.folio[c])
  /\ Phase(r.call[t], r.folio, r.job[t], t \in ToSet(r.port))

LEMMA ServesInv ==
  ASSUME NEW s, LoadInv(s), ~s.wild, s.current = NoTask, NEW t \in Task,
         NEW c \in Copy, c = s.call[t].copy, s.call[t].in \in {"load", "unload"},
         NEW r, Serves(s, r, t, c)
  PROVE  LoadInv(r)
<1> DEFINE tb == s.table[t]
           cl == s.call[t]
           cl2 == r.call[t]
<1>1. /\ Others(s, t) /\ CallOK(t, tb, cl) /\ SlotsOK(tb, cl)
      /\ Phase(cl, s.folio, s.job[t], t \in ToSet(s.port))
      /\ \A u \in Task \ {t} :
           s.call[u].in = "load" /\ cl.in = "load" => s.call[u].copy # c
  BY InvOthers DEF LoadInv, Tame
<1>2. /\ r.table = s.table /\ r.current = NoTask
      /\ cl2.in = cl.in /\ cl2.copy = cl.copy /\ cl2.slot = cl.slot
      /\ (cl2.exits <=> cl.exits) /\ cl2.left = cl.left
  BY DEF Serves
<1> HIDE DEF cl, cl2
<1>3. Slept(cl2) = Slept(cl)
  BY <1>2 DEF Slept
<1>4. \A d, j : IsLive(tb, cl2, d, j) <=> IsLive(tb, cl, d, j)
  BY <1>3 DEF IsLive
<1>5. SlotsOK(tb, cl2)
  BY <1>1, <1>2, <1>3, <1>4 DEF SlotsOK
<1>6. CallOK(t, tb, cl2)
  <2>1. OpenOnce(t, tb, cl2)
    BY <1>1, <1>2, <1>4 DEF CallOK, OpenOnce
  <2> QED
    BY <1>1, <1>2, <2>1 DEF CallOK
<1>7. Moved(s, r, t)
  BY DEF Moved, Serves
<1>8. ASSUME NEW d \in Copy PROVE CopyStep(s, r, t, d)
  <2>1. CASE d # c
    <3>1. r.folio[d] = s.folio[d] /\ StaysWith(s, r, t, d)
      BY <2>1 DEF Serves, StaysWith
    <3> QED
      BY <1>1, <1>7, <3>1, CopyStays
  <2>2. CASE d = c
    <3>1. /\ CopyOK(r.folio[c]) /\ (r.folio[c].context <=> s.folio[c].context)
          /\ s.folio[c].code = "freed" => r.folio[c].code = "freed"
      BY DEF Serves
    <3>2. CASE cl.in = "load"
      <4>1. KeptFor(s, t, c, s.folio[c], r.folio[c])
        BY <1>1, <3>1, <3>2, Zenon DEF KeptFor
      <4>2. Needed(r, c)
        BY <1>2, <3>2 DEF Needed, cl, cl2
      <4> QED
        BY <2>2, <3>1, <4>1, <4>2 DEF CopyStep
    <3>3. CASE cl.in = "unload"
      <4>1. s.folio[c].context
        BY <1>1, <3>3 DEF Phase, UnloadPhase, cl
      <4>2. ASSUME NEW u \in Task \ {t}, s.call[u].copy = c, s.call[u].in = "load"
            PROVE  FALSE
        <5>1. LoadPhase(s.folio[c], s.job[u], s.call[u].answer, u \in ToSet(s.port))
          BY <1>1, <4>2 DEF Others, Phase
        <5> QED
          BY <4>1, <5>1 DEF LoadPhase
      <4>3. KeptFor(s, t, c, s.folio[c], r.folio[c])
        BY <3>1, <4>2 DEF KeptFor
      <4>4. Needed(r, c)
        BY <1>2, <3>1, <3>3, <4>1 DEF Needed, cl, cl2
      <4> QED
        BY <2>2, <3>1, <4>3, <4>4 DEF CopyStep
    <3> QED
      BY <3>2, <3>3 DEF cl
  <2> QED
    BY <2>1, <2>2
<1>9. \A d \in Copy : LiveStep(s.table[t], cl, r.table[t], cl2, d,
                               s.folio[d].count, r.folio[d].count)
  <2>1. \A d \in Copy : r.folio[d].count = s.folio[d].count
    BY DEF Serves
  <2> QED
    BY <1>2, <1>4, <2>1 DEF LiveStep
<1>10. Phase(cl2, r.folio, r.job[t], t \in ToSet(r.port))
  BY DEF Serves, cl2
<1>11. \A u \in Task \ {t} : cl2.in = "load" /\ s.call[u].in = "load"
                               => s.call[u].copy # cl2.copy
  BY <1>1, <1>2 DEF cl
<1> QED
  BY <1>1, <1>2, <1>5, <1>6, <1>7, <1>8, <1>9, <1>10, <1>11, MoveInv DEF cl, cl2

\* The same of the state that is s but for a copy, an answer, a job and the port.
Served(s, t, f, answer, job, port) ==
  [s EXCEPT !.folio = [s.folio EXCEPT ![s.call[t].copy] = f],
            !.call = [s.call EXCEPT ![t] = [s.call[t] EXCEPT !.answer = answer]],
            !.job = [s.job EXCEPT ![t] = job],
            !.port = port]

LEMMA ServedInv ==
  ASSUME NEW s, LoadInv(s), ~s.wild, s.current = NoTask, NEW t \in Task,
         s.call[t].in \in {"load", "unload"},
         NEW f \in Folios, NEW answer \in {"none", "done", "failed"}, NEW job \in Jobs,
         NEW port \in Seq(Task), IsInjective(port),
         \A u \in Task \ {t} : u \in ToSet(port) <=> u \in ToSet(s.port),
         f.count = s.folio[s.call[t].copy].count,
         f.context <=> s.folio[s.call[t].copy].context,
         s.folio[s.call[t].copy].code = "freed" => f.code = "freed",
         CopyOK(f),
         s.call[t].in = "load" => LoadPhase(f, job, answer, t \in ToSet(port)),
         s.call[t].in = "unload" => UnloadPhase(f, job, answer, t \in ToSet(port))
  PROVE  LoadInv(Served(s, t, f, answer, job, port))
<1> DEFINE c == s.call[t].copy
           cl == [s.call[t] EXCEPT !.answer = answer]
           folio == [s.folio EXCEPT ![c] = f]
           r == Served(s, t, f, answer, job, port)
<1>1. /\ s \in Systems /\ s.folio \in [Copy -> Folios] /\ s.call \in [Task -> Calls]
      /\ s.job \in [Task -> Jobs] /\ s.call[t] \in Calls
      /\ Phase(s.call[t], s.folio, s.job[t], t \in ToSet(s.port))
  BY DEF LoadInv, Tame, Systems
<1>2. c \in Copy
  BY <1>1 DEF Phase
<1>3. /\ cl \in Calls /\ cl.in = s.call[t].in /\ cl.copy = c /\ cl.slot = s.call[t].slot
      /\ cl.exits = s.call[t].exits /\ cl.left = s.call[t].left /\ cl.answer = answer
  BY <1>1 DEF Calls
<1>4. /\ folio \in [Copy -> Folios] /\ folio[c] = f
      /\ \A d \in Copy : d # c => folio[d] = s.folio[d]
  BY <1>1, <1>2
<1>5. r = [s EXCEPT !.folio = folio, !.call = [s.call EXCEPT ![t] = cl],
                    !.job = [s.job EXCEPT ![t] = job], !.port = port]
  BY DEF Served
<1> HIDE DEF c, cl, folio, r
<1>6. /\ r \in Systems /\ r.folio = folio /\ r.call = [s.call EXCEPT ![t] = cl]
      /\ r.job = [s.job EXCEPT ![t] = job] /\ r.port = port /\ r.table = s.table
      /\ r.wild = s.wild /\ r.current = s.current
  BY <1>1, <1>3, <1>4, <1>5 DEF Systems
<1>7. /\ r.call[t] = cl /\ r.job[t] = job
      /\ \A u \in Task \ {t} : r.call[u] = s.call[u] /\ r.job[u] = s.job[u]
  BY <1>1, <1>6
<1>8. Phase(r.call[t], r.folio, r.job[t], t \in ToSet(r.port))
  <2>1. r.folio[cl.copy] = f /\ cl.copy \in Copy
    BY <1>2, <1>3, <1>4, <1>6
  <2>2. cl.in = "load" => LoadPhase(f, job, answer, t \in ToSet(port))
    BY <1>3
  <2>3. cl.in = "unload" => UnloadPhase(f, job, answer, t \in ToSet(port))
    BY <1>3
  <2>4. cl.in \in {"load", "unload"}
    BY <1>3
  <2> QED
    BY <1>3, <1>6, <1>7, <2>1, <2>2, <2>3, <2>4 DEF Phase
<1>9. Serves(s, r, t, c)
  BY <1>3, <1>4, <1>6, <1>7, <1>8 DEF Serves, c
<1>10. LoadInv(r)
  BY <1>2, <1>9, ServesInv DEF c
<1> QED
  BY <1>10 DEF r

\* What is so when a message waits at the port or a thread works for t.
LEMMA Serving ==
  ASSUME NEW s, LoadInv(s), ~s.wild, NEW t \in Task, t \in ToSet(s.port) \/ s.job[t] # "none"
  PROVE  LET c == s.call[t].copy
             f == s.folio[c]
         IN  /\ s \in Systems /\ c \in Copy /\ f \in Folios /\ s.call[t].answer = "none"
             /\ s.call[t].in \in {"load", "unload"} /\ CopyOK(f) /\ IsInjective(s.port)
             /\ s.call[t].in = "load" =>
                  LoadPhase(f, s.job[t], "none", t \in ToSet(s.port))
             /\ s.call[t].in = "unload" =>
                  UnloadPhase(f, s.job[t], "none", t \in ToSet(s.port))
             /\ [s.call EXCEPT ![t] = [s.call[t] EXCEPT !.answer = "none"]] = s.call
<1>1. /\ Phase(s.call[t], s.folio, s.job[t], t \in ToSet(s.port)) /\ s \in Systems
      /\ IsInjective(s.port) /\ \A d \in Copy : CopyOK(s.folio[d])
      /\ s.call \in [Task -> Calls] /\ s.call[t] \in Calls /\ s.folio \in [Copy -> Folios]
  BY DEF LoadInv, Tame, Systems
<1>2. s.call[t].in \in {"load", "unload"}
  BY <1>1 DEF Phase, Calls
<1>3. /\ s.call[t].copy \in Copy
      /\ s.call[t].in = "load" =>
           LoadPhase(s.folio[s.call[t].copy], s.job[t], s.call[t].answer, t \in ToSet(s.port))
      /\ s.call[t].in = "unload" =>
           UnloadPhase(s.folio[s.call[t].copy], s.job[t], s.call[t].answer, t \in ToSet(s.port))
  BY <1>1, <1>2 DEF Phase
<1>4. s.call[t].answer = "none"
  BY <1>2, <1>3 DEF LoadPhase, UnloadPhase
<1>5. [s.call[t] EXCEPT !.answer = "none"] = s.call[t]
  BY <1>1, <1>4 DEF Calls
<1>6. [s.call EXCEPT ![t] = [s.call[t] EXCEPT !.answer = "none"]] = s.call
  BY <1>1, <1>5
<1> QED
  BY <1>1, <1>2, <1>3, <1>4, <1>6

LEMMA ProvideInv ==
  ASSUME LoadInv(sys), ProvideServices
  PROVE  LoadInv(sys')
<1> DEFINE t == Head(sys.port)
           q == Tail(sys.port)
           c == sys.call[t].copy
           f == sys.folio[c]
<1>1. ~sys.wild /\ sys.current = NoTask /\ sys.port # <<>> /\ sys.port \in Seq(Task)
      /\ IsInjective(sys.port) /\ sys \in Systems
  BY Zenon DEF ProvideServices, LoadInv, Systems, Tame
<1>2. /\ t \in Task /\ t \in ToSet(sys.port) /\ q \in Seq(Task) /\ IsInjective(q)
      /\ ToSet(q) = ToSet(sys.port) \ {t}
  BY <1>1, TailSet
<1>3. t \notin ToSet(q) /\ \A u \in Task \ {t} : u \in ToSet(q) <=> u \in ToSet(sys.port)
  BY <1>2
<1>4. /\ c \in Copy /\ f \in Folios /\ sys.call[t].answer = "none" /\ CopyOK(f)
      /\ sys.call[t].in = "load" => LoadPhase(f, sys.job[t], "none", TRUE)
      /\ sys.call[t].in = "unload" => UnloadPhase(f, sys.job[t], "none", TRUE)
      /\ [sys.call EXCEPT ![t] = [sys.call[t] EXCEPT !.answer = "none"]] = sys.call
  <2>1. (t \in ToSet(sys.port)) = TRUE
    BY <1>2
  <2>2. /\ c \in Copy /\ f \in Folios /\ sys.call[t].answer = "none" /\ CopyOK(f)
        /\ sys.call[t].in = "load" =>
             LoadPhase(f, sys.job[t], "none", t \in ToSet(sys.port))
        /\ sys.call[t].in = "unload" =>
             UnloadPhase(f, sys.job[t], "none", t \in ToSet(sys.port))
        /\ [sys.call EXCEPT ![t] = [sys.call[t] EXCEPT !.answer = "none"]] = sys.call
    BY <1>1, <1>2, Serving, Zenon
  <2> QED
    BY <2>1, <2>2, Zenon
<1>5. /\ \/ /\ sys.call[t].in = "load"
            /\ \/ sys' = [[sys EXCEPT !.port = q] EXCEPT !.folio[c].code = "loaded",
                                                        !.job[t] = "load"]
               \/ sys' = Replied([[sys EXCEPT !.port = q] EXCEPT !.folio[c].code = "failed"],
                                 t, "failed")
         \/ /\ sys.call[t].in = "unload"
            /\ \/ sys' = Wild(sys)
               \/ sys' = [[sys EXCEPT !.port = q] EXCEPT
                            !.job[t] = "unload",
                            !.folio[c].owner = IF @ = NoTask THEN t ELSE @]
  BY Zenon DEF ProvideServices
<1> HIDE DEF t, q
<1> DEFINE g1 == [f EXCEPT !.code = "loaded"]
           g2 == [f EXCEPT !.code = "failed"]
           g3 == [f EXCEPT !.owner = IF @ = NoTask THEN t ELSE @]
<1>6. g1 \in Folios /\ g2 \in Folios /\ g3 \in Folios
  BY <1>2, <1>4, Zenon DEF Folios
<1>7. CASE sys.call[t].in = "load" /\ sys' = Served(sys, t, g1, "none", "load", q)
  <2>1. LoadPhase(g1, "load", "none", t \in ToSet(q)) /\ CopyOK(g1)
    BY <1>3, <1>4, <1>7, Zenon DEF LoadPhase, CopyOK, Folios
  <2>2. g1.count = f.count /\ g1.context = f.context /\ f.code # "freed" /\ "load" \in Jobs
    BY <1>4, <1>7 DEF Folios, LoadPhase, Jobs
  <2> HIDE DEF g1
  <2> QED
    BY <1>1, <1>2, <1>3, <1>6, <1>7, <2>1, <2>2, ServedInv, Zenon
<1>8. CASE sys.call[t].in = "load" /\ sys' = Served(sys, t, g2, "failed", "none", q)
  <2>1. LoadPhase(g2, "none", "failed", t \in ToSet(q)) /\ CopyOK(g2)
    BY <1>3, <1>4, <1>8, Zenon DEF LoadPhase, CopyOK, Folios
  <2>2. g2.count = f.count /\ g2.context = f.context /\ f.code # "freed" /\ "none" \in Jobs
    BY <1>4, <1>8 DEF Folios, LoadPhase, Jobs
  <2> HIDE DEF g2
  <2> QED
    BY <1>1, <1>2, <1>3, <1>6, <1>8, <2>1, <2>2, ServedInv, Zenon
<1>9. CASE sys.call[t].in = "unload" /\ sys' = Served(sys, t, g3, "none", "unload", q)
  <2>1. UnloadPhase(g3, "unload", "none", t \in ToSet(q)) /\ CopyOK(g3)
    BY <1>3, <1>4, <1>9, Zenon DEF UnloadPhase, CopyOK, Folios
  <2>2. g3.count = f.count /\ g3.context = f.context /\ g3.code = f.code /\ "unload" \in Jobs
    BY <1>4 DEF Folios, Jobs
  <2> HIDE DEF g3
  <2> QED
    BY <1>1, <1>2, <1>3, <1>6, <1>9, <2>1, <2>2, ServedInv, Zenon
<1>10. CASE sys' = Wild(sys)
  BY <1>1, <1>10, WildInv DEF LoadInv
<1>11. /\ [[sys EXCEPT !.port = q] EXCEPT !.folio[c].code = "loaded", !.job[t] = "load"]
            = Served(sys, t, g1, "none", "load", q)
       /\ [[sys EXCEPT !.port = q] EXCEPT
             !.job[t] = "unload", !.folio[c].owner = IF @ = NoTask THEN t ELSE @]
            = Served(sys, t, g3, "none", "unload", q)
  BY <1>1, <1>2, <1>4, Zenon DEF Served, Systems, Folios
<1>12. Replied([[sys EXCEPT !.port = q] EXCEPT !.folio[c].code = "failed"], t, "failed")
         = Served(sys, t, g2, "failed", "none", q)
  BY <1>1, <1>2, <1>4 DEF Served, Replied, Systems, Folios, Calls
<1> HIDE DEF g1, g2, g3
<1> QED
  BY <1>5, <1>7, <1>8, <1>9, <1>10, <1>11, <1>12

LEMMA LoaderInv ==
  ASSUME LoadInv(sys), NEW t \in Task, LoaderThread(t)
  PROVE  LoadInv(sys')
<1> DEFINE c == sys.call[t].copy
           f == sys.folio[c]
           p == sys.port
           g1 == [f EXCEPT !.code = "failed"]
           g2 == [[f EXCEPT !.there = TRUE] EXCEPT !.owner = t]
           g3 == [f EXCEPT !.owner = NoTask]
<1>1. /\ ~sys.wild /\ sys.current = NoTask /\ sys.job[t] \in {"load", "loaded"}
      /\ sys \in Systems /\ p \in Seq(Task)
  BY DEF LoaderThread, Thread, LoadInv, Systems
<1>2. sys.job[t] # "none"
  BY <1>1
<1>3. /\ c \in Copy /\ f \in Folios /\ CopyOK(f) /\ IsInjective(p)
      /\ sys.call[t].in \in {"load", "unload"}
      /\ sys.call[t].in = "load" => LoadPhase(f, sys.job[t], "none", t \in ToSet(p))
      /\ sys.call[t].in = "unload" => UnloadPhase(f, sys.job[t], "none", t \in ToSet(p))
      /\ [sys.call EXCEPT ![t] = [sys.call[t] EXCEPT !.answer = "none"]] = sys.call
  BY <1>1, <1>2, Serving
<1>4. sys.call[t].in = "load" /\ LoadPhase(f, sys.job[t], "none", t \in ToSet(p))
  BY <1>1, <1>3 DEF UnloadPhase
<1>5. t \notin ToSet(p) /\ f.code = "loaded"
  BY <1>1, <1>4 DEF LoadPhase
<1>6. g1 \in Folios /\ g2 \in Folios /\ g3 \in Folios
  BY <1>3, Zenon DEF Folios
<1>7. /\ g1.count = f.count /\ g1.context = f.context
      /\ g2.count = f.count /\ g2.context = f.context
      /\ g3.count = f.count /\ g3.context = f.context
  BY <1>3 DEF Folios
<1>8. CASE sys.job[t] = "load" /\ sys' = Served(sys, t, g1, "failed", "none", p)
  <2>1. LoadPhase(g1, "none", "failed", t \in ToSet(p)) /\ CopyOK(g1)
    BY <1>3, <1>4, <1>5, <1>8, Zenon DEF LoadPhase, CopyOK, Folios
  <2>2. "none" \in Jobs
    BY DEF Jobs
  <2> HIDE DEF g1, g2, g3
  <2> QED
    BY <1>1, <1>3, <1>4, <1>5, <1>6, <1>7, <1>8, <2>1, <2>2, ServedInv, Zenon
<1>9. CASE sys.job[t] = "load" /\ sys' = Served(sys, t, g2, "none", "loaded", p)
  <2>1. LoadPhase(g2, "loaded", "none", t \in ToSet(p)) /\ CopyOK(g2)
    BY <1>3, <1>4, <1>5, <1>9 DEF LoadPhase, CopyOK, Folios
  <2>2. "loaded" \in Jobs
    BY DEF Jobs
  <2> HIDE DEF g1, g2, g3
  <2> QED
    BY <1>1, <1>3, <1>4, <1>5, <1>6, <1>7, <1>9, <2>1, <2>2, ServedInv, Zenon
<1>10. CASE sys.job[t] = "loaded" /\ sys' = Served(sys, t, g3, "done", "none", p)
  <2>1. LoadPhase(g3, "none", "done", t \in ToSet(p)) /\ CopyOK(g3)
    BY <1>3, <1>4, <1>5, <1>10, Zenon DEF LoadPhase, CopyOK, Folios
  <2>2. "none" \in Jobs
    BY DEF Jobs
  <2> HIDE DEF g1, g2, g3
  <2> QED
    BY <1>1, <1>3, <1>4, <1>5, <1>6, <1>7, <1>10, <2>1, <2>2, ServedInv, Zenon
<1>11. /\ Replied([sys EXCEPT !.folio[c].code = "failed"], t, "failed")
            = Served(sys, t, g1, "failed", "none", p)
       /\ Replied([sys EXCEPT !.folio[c].owner = NoTask], t, "done")
            = Served(sys, t, g3, "done", "none", p)
  BY <1>1, <1>3 DEF Served, Replied, Systems, Folios, Calls
<1>12. [sys EXCEPT !.folio[c].there = TRUE, !.folio[c].owner = t, !.job[t] = "loaded"]
         = Served(sys, t, g2, "none", "loaded", p)
  BY <1>1, <1>3, Zenon DEF Served, Systems, Folios
<1>13. \/ /\ sys.job[t] = "load"
          /\ \/ sys' = Replied([sys EXCEPT !.folio[c].code = "failed"], t, "failed")
             \/ sys' = [sys EXCEPT !.folio[c].there = TRUE, !.folio[c].owner = t,
                                   !.job[t] = "loaded"]
       \/ /\ sys.job[t] = "loaded"
          /\ sys' = Replied([sys EXCEPT !.folio[c].owner = NoTask], t, "done")
  BY DEF LoaderThread, Thread
<1> HIDE DEF g1, g2, g3
<1> QED
  BY <1>8, <1>9, <1>10, <1>11, <1>12, <1>13

LEMMA UnloaderInv ==
  ASSUME LoadInv(sys), NEW t \in Task, UnloaderThread(t)
  PROVE  LoadInv(sys')
<1> DEFINE c == sys.call[t].copy
           f == sys.folio[c]
           p == sys.port
           g1 == IF f.owner = t /\ f.count = 0 THEN [f EXCEPT !.there = FALSE] ELSE f
           g2 == [f EXCEPT !.code = "freed"]
<1>1. /\ ~sys.wild /\ sys.current = NoTask
      /\ sys.job[t] \in {"unload", "unloading", "unloaded"}
      /\ sys \in Systems /\ p \in Seq(Task)
  BY DEF UnloaderThread, Thread, LoadInv, Systems
<1>2. sys.job[t] # "none"
  BY <1>1
<1>3. /\ c \in Copy /\ f \in Folios /\ CopyOK(f) /\ IsInjective(p)
      /\ sys.call[t].in \in {"load", "unload"}
      /\ sys.call[t].in = "load" => LoadPhase(f, sys.job[t], "none", t \in ToSet(p))
      /\ sys.call[t].in = "unload" => UnloadPhase(f, sys.job[t], "none", t \in ToSet(p))
      /\ [sys.call EXCEPT ![t] = [sys.call[t] EXCEPT !.answer = "none"]] = sys.call
  BY <1>1, <1>2, Serving
<1>4. sys.call[t].in = "unload" /\ UnloadPhase(f, sys.job[t], "none", t \in ToSet(p))
  BY <1>1, <1>3 DEF LoadPhase
<1>5. t \notin ToSet(p) /\ f.context
  BY <1>1, <1>4 DEF UnloadPhase
<1>6. g1 \in Folios /\ g2 \in Folios
  BY <1>3, Zenon DEF Folios
<1>7. /\ g1.count = f.count /\ g1.context = f.context /\ g1.code = f.code
      /\ g2.count = f.count /\ g2.context = f.context /\ g2.code = "freed"
  BY <1>3 DEF Folios
<1>8. CopyOK(g1) /\ CopyOK(g2)
  BY <1>3 DEF CopyOK, Folios
<1>9. CASE sys.job[t] = "unload" /\ sys' = Served(sys, t, g1, "none", "unloading", p)
  <2>1. UnloadPhase(g1, "unloading", "none", t \in ToSet(p)) /\ "unloading" \in Jobs
    BY <1>5, <1>7 DEF UnloadPhase, Jobs
  <2> HIDE DEF g1, g2
  <2> QED
    BY <1>1, <1>3, <1>4, <1>6, <1>7, <1>8, <1>9, <2>1, ServedInv, Zenon
<1>10. CASE sys.job[t] = "unloading" /\ sys' = Served(sys, t, g2, "none", "unloaded", p)
  <2>1. UnloadPhase(g2, "unloaded", "none", t \in ToSet(p)) /\ "unloaded" \in Jobs
    BY <1>5, <1>7 DEF UnloadPhase, Jobs
  <2> HIDE DEF g1, g2
  <2> QED
    BY <1>1, <1>3, <1>4, <1>6, <1>7, <1>8, <1>10, <2>1, ServedInv, Zenon
<1>11. CASE sys.job[t] = "unloaded" /\ sys' = Served(sys, t, g1, "done", "none", p)
  <2>1. f.code = "freed"
    BY <1>4, <1>11, Zenon DEF UnloadPhase
  <2>2. UnloadPhase(g1, "none", "done", t \in ToSet(p)) /\ "none" \in Jobs
    BY <1>5, <1>7, <2>1 DEF UnloadPhase, Jobs
  <2> HIDE DEF g1, g2
  <2> QED
    BY <1>1, <1>3, <1>4, <1>6, <1>7, <1>8, <1>11, <2>2, ServedInv, Zenon
<1>12. CASE sys' = Wild(sys)
  BY <1>1, <1>12, WildInv DEF LoadInv
<1>13. \/ sys' = Wild(sys)
       \/ /\ sys.job[t] = "unload"
          /\ sys' = [DeletedFolio(sys, t, c) EXCEPT !.job[t] = "unloading"]
       \/ /\ sys.job[t] = "unloading"
          /\ sys' = [sys EXCEPT !.folio[c].code = "freed", !.job[t] = "unloaded"]
       \/ /\ sys.job[t] = "unloaded"
          /\ sys' = Replied(DeletedFolio(sys, t, c), t, "done")
  BY DEF UnloaderThread, Thread
<1>14. DeletedFolio(sys, t, c) = WithFolio(sys, c, g1)
  <2>1. CASE f.owner = t /\ f.count = 0
    BY <1>1, <1>3, <2>1 DEF DeletedFolio, WithFolio, Systems, Folios
  <2>2. CASE ~(f.owner = t /\ f.count = 0)
    <3>1. DeletedFolio(sys, t, c) = sys /\ g1 = f
      BY <2>2 DEF DeletedFolio
    <3>2. WithFolio(sys, c, f) = sys
      BY <1>1, <1>3 DEF WithFolio, Systems
    <3> QED
      BY <3>1, <3>2
  <2> QED
    BY <2>1, <2>2
<1>15. [sys EXCEPT !.folio[c].code = "freed", !.job[t] = "unloaded"]
         = Served(sys, t, g2, "none", "unloaded", p)
  BY <1>1, <1>3 DEF Served, Systems, Folios
<1> HIDE DEF g1, g2
<1>16. [WithFolio(sys, c, g1) EXCEPT !.job[t] = "unloading"]
         = Served(sys, t, g1, "none", "unloading", p)
  BY <1>1, <1>3 DEF Served, WithFolio, Systems
<1>17. Replied(WithFolio(sys, c, g1), t, "done") = Served(sys, t, g1, "done", "none", p)
  BY <1>1, <1>3 DEF Served, WithFolio, Replied, Systems, Calls
<1> QED
  BY <1>9, <1>10, <1>11, <1>12, <1>13, <1>14, <1>15, <1>16, <1>17

-----------------------------------------------------------------------------
(* The invariant and the properties *)

LEMMA EmptyGood == GoodTable(EmptyTable, {}) /\ \A j : At(EmptyTable, j) = NoEntry
<1>1. /\ EmptyTable \in Tables /\ DOMAIN EmptyTable.slot = {}
      /\ IsInjective(EmptyTable.free) /\ ToSet(EmptyTable.free) = {}
  BY DEF EmptyTable, Tables, IsInjective, ToSet
<1> QED
  BY <1>1 DEF GoodTable, At

LEMMA InitInv == Init => LoadInv(sys)
<1> SUFFICES ASSUME Init PROVE LoadInv(sys)
  OBVIOUS
<1> DEFINE tb == IncreaseResourceTable(EmptyTable, FirstSlots)
<1>1. /\ sys = [folio |-> [c \in Copy |-> NewFolio], table |-> [t \in Task |-> tb],
                call |-> [t \in Task |-> NewCall], port |-> <<>>,
                job |-> [t \in Task |-> "none"], current |-> NoTask, wild |-> FALSE]
  BY DEF Init
<1>2. /\ GoodTable(tb, {}) /\ \A j \in Nat : At(tb, j) = NoEntry
  <2>1. FirstSlots \in Nat
    BY TableAssumption
  <2>2. GoodTable(tb, {}) /\ Same(EmptyTable, tb)
    BY <2>1, EmptyGood, GrowGood
  <2> QED
    BY <2>2, EmptyGood DEF Same
<1> HIDE DEF tb
<1>3. tb \in Tables
  BY <1>2 DEF GoodTable
<1>4. /\ NewCall \in Calls /\ NewCall.in = "user" /\ ~NewCall.exits
      /\ NewCall.answer = "none"
  BY DEF NewCall, Calls
<1>5. NewFolio \in Folios /\ NewFolio.code = "none" /\ ~NewFolio.there
      /\ NewFolio.count = 0 /\ ~NewFolio.context
  BY DEF NewFolio, Folios
<1>6. <<>> \in Seq(Task) /\ ToSet(<<>>) = {} /\ IsInjective(<<>>)
  BY DEF ToSet, IsInjective
<1>7. sys \in Systems
  BY <1>1, <1>3, <1>4, <1>5, <1>6 DEF Systems, Jobs
<1>8. /\ \A t \in Task : sys.table[t] = tb /\ sys.call[t] = NewCall /\ sys.job[t] = "none"
      /\ \A c \in Copy : sys.folio[c] = NewFolio
      /\ sys.port = <<>> /\ sys.current = NoTask
  BY <1>1
<1>9. Slept(NewCall) = {} /\ \A c \in Copy : \A j \in Nat : ~IsLive(tb, NewCall, c, j)
  BY <1>2, <1>4, EntryKinds DEF Slept, IsLive
<1>10. \A t \in Task : SlotsOK(sys.table[t], sys.call[t])
  BY <1>2, <1>8, <1>9, EntryKinds DEF SlotsOK
<1>11. \A t \in Task : CallOK(t, sys.table[t], sys.call[t])
  BY <1>2, <1>4, <1>8, EntryKinds DEF CallOK, OpenOnce
<1>12. \A t \in Task : Phase(sys.call[t], sys.folio, sys.job[t], t \in ToSet(sys.port))
  BY <1>4, <1>6, <1>8 DEF Phase
<1>13. \A c \in Copy : CopyOK(sys.folio[c]) /\ Needed(sys, c)
  BY <1>5, <1>8 DEF CopyOK, Needed
<1>14. ASSUME NEW c \in Copy PROVE Counted(sys, c)
  <2>1. Live(sys, c) = {}
    BY <1>8, <1>9 DEF Live, LiveOf
  <2> QED
    BY <1>5, <1>8, <2>1, FS_EmptySet DEF Counted
<1> QED
  BY <1>4, <1>6, <1>7, <1>8, <1>10, <1>11, <1>12, <1>13, <1>14 DEF LoadInv, Tame

LEMMA NextInv == LoadInv(sys) /\ [Next]_vars => LoadInv(sys')
<1> SUFFICES ASSUME LoadInv(sys), [Next]_vars PROVE LoadInv(sys')
  OBVIOUS
<1>1. ASSUME NEW t \in Task,
             \/ FindAndOpenItem(t) \/ CloseItem(t) \/ CreateItem(t) \/ DeleteItem(t)
             \/ Wakes(t) \/ Exit(t) \/ FreeResources(t)
             \/ LoaderThread(t) \/ UnloaderThread(t)
      PROVE  LoadInv(sys')
  BY <1>1, FindAndOpenInv, CloseItemInv, CreateItemInv, DeleteItemInv, WakesInv, ExitInv,
     FreeResourcesInv, LoaderInv, UnloaderInv
<1>2. CASE ProvideServices
  BY <1>2, ProvideInv
<1>3. CASE Undefined
  BY <1>3 DEF Undefined
<1>4. CASE UNCHANGED vars
  BY <1>4 DEF vars
<1> QED
  BY <1>1, <1>2, <1>3, <1>4 DEF Next

SysInv == LoadInv(sys)

\* The invariant: the tables are in order even after freed memory has been used;
\* until then, each call is at its place in the exchange with the server, the
\* opens of a copy are counted, and the code in memory is needed.
THEOREM LoadInvariance == Spec => []SysInv
<1>1. Init => SysInv
  BY InitInv DEF SysInv
<1>2. SysInv /\ [Next]_vars => SysInv'
  BY NextInv DEF SysInv
<1> QED
  BY <1>1, <1>2, PTL DEF Spec

\* SlotsAccounted: a slot of a task's resource table (item.c) is free once, or holds
\* an entry, or was taken by the open that sleeps; and a task that does not exit has
\* items only of copies that it has open.
THEOREM SlotsAccountedHolds == Spec => []SlotsAccounted
<1>1. SysInv => SlotsAccounted
  <2> SUFFICES ASSUME LoadInv(sys), NEW t \in Task
               PROVE  LET table == sys.table[t]
                          held == {i \in DOMAIN table.slot : table.slot[i] # NoEntry}
                          slept == IF sys.call[t].in = "unload" THEN {sys.call[t].slot}
                                   ELSE {}
                      IN  /\ IsInjective(table.free)
                          /\ Range(table.free) = DOMAIN table.slot \ (held \cup slept)
                          /\ sys.call[t].in \in {"user", "load"} =>
                               \A c \in Copy : Slots(table, Made(c)) # {} =>
                                                 Slots(table, Open(c)) # {}
    BY DEF SlotsAccounted, SysInv
  <2> DEFINE tb == sys.table[t]
             cl == sys.call[t]
  <2>1. SlotsOK(tb, cl) /\ cl \in Calls
    BY DEF LoadInv, Systems
  <2>2. /\ GoodTable(tb, Slept(cl))
        /\ DOMAIN tb.slot \subseteq Nat
        /\ \A j \in DOMAIN tb.slot : At(tb, j) = tb.slot[j]
        /\ \A j \in Nat : At(tb, j) # NoEntry => j \in DOMAIN tb.slot
    BY <2>1, TableShape DEF SlotsOK
  <2>3. Range(tb.free) = ToSet(tb.free)
    BY DEF Range, ToSet
  <2>4. Range(tb.free) = DOMAIN tb.slot
                           \ ({i \in DOMAIN tb.slot : tb.slot[i] # NoEntry} \cup Slept(cl))
    BY <2>2, <2>3 DEF GoodTable
  <2>5. ASSUME cl.in \in {"user", "load"}, NEW c \in Copy, Slots(tb, Made(c)) # {}
        PROVE  Slots(tb, Open(c)) # {}
    <3>1. PICK i \in DOMAIN tb.slot : At(tb, i) = Made(c)
      BY <2>2, <2>5 DEF Slots
    <3>2. ~cl.exits
      BY <2>1, <2>5 DEF Calls
    <3>3. PICK j \in Nat : At(tb, j) = Open(c)
      BY <2>1, <2>2, <3>1, <3>2 DEF SlotsOK, IsLive
    <3>4. j \in Slots(tb, Open(c))
      BY <2>2, <3>3, EntryKinds DEF Slots
    <3> QED
      BY <3>4
  <2>6. IsInjective(tb.free)
    BY <2>2 DEF GoodTable
  <2> QED
    BY <2>4, <2>5, <2>6 DEF Slept
<1> QED
  BY <1>1, LoadInvariance, PTL

\* The opens are the live ones and those that are being closed.
LEMMA OpensSplit ==
  ASSUME LoadInv(sys), ~sys.wild, NEW c \in Copy
  PROVE  /\ IsFiniteSet(Opens(c)) /\ IsFiniteSet(Closing(c))
         /\ Cardinality(Opens(c)) = Cardinality(Live(sys, c)) + Cardinality(Closing(c))
<1> DEFINE L == Live(sys, c)
           T == Closing(c)
           sent == [t \in T |-> <<t, sys.call[t].slot>>]
           P == {sent[t] : t \in T}
<1>1. IsFiniteSet(L)
  BY LiveFinite DEF LoadInv
<1>2. IsFiniteSet(T)
  <2>1. T \subseteq Task
    BY DEF Closing
  <2> QED
    BY <2>1, LoadAssumption, FS_Subset
<1>3. ExistsBijection(T, P)
  <2> HIDE DEF T
  <2>1. sent \in Injection(T, P)
    <3>1. \A t, u \in T : sent[t] = sent[u] => t = u
      OBVIOUS
    <3> QED
      BY <3>1 DEF Injection, IsInjective
  <2>2. sent \in Surjection(T, P)
    BY DEF Surjection
  <2> QED
    BY <2>1, <2>2 DEF ExistsBijection, Bijection
<1>4. IsFiniteSet(P) /\ Cardinality(P) = Cardinality(T)
  BY <1>2, <1>3, FS_Bijection
<1>5. \A p : p \in Opens(c) <=>
              \E t \in Task : \E i \in Nat : p = <<t, i>> /\ At(sys.table[t], i) = Open(c)
  <2>1. ASSUME NEW t \in Task
        PROVE  \A i : i \in Slots(sys.table[t], Open(c)) <=>
                        i \in Nat /\ At(sys.table[t], i) = Open(c)
    <3>1. GoodTable(sys.table[t], Slept(sys.call[t]))
      BY DEF LoadInv, SlotsOK
    <3> QED
      BY <3>1, TableShape, EntryKinds DEF Slots
  <2> QED
    BY <2>1 DEF Opens
<1>6. \A t \in Task : \A i \in Nat :
        At(sys.table[t], i) = Open(c) =>
          (<<t, i>> \in L <=> ~(t \in T /\ i = sys.call[t].slot))
  <2>1. ASSUME NEW t \in Task, NEW i \in Nat, At(sys.table[t], i) = Open(c)
        PROVE  <<t, i>> \in L <=> ~(t \in T /\ i = sys.call[t].slot)
    <3>1. <<t, i>> \in L <=> IsLive(sys.table[t], sys.call[t], c, i)
      BY InLive
    <3>2. <<t, i>> \in Opens(c)
      BY <1>5, <2>1
    <3>3. t \in T /\ i = sys.call[t].slot
            <=> sys.call[t].in = "unload" /\ i = sys.call[t].slot
      BY <3>2 DEF Closing
    <3> QED
      BY <2>1, <3>1, <3>3 DEF IsLive, Slept
  <2> QED
    BY <2>1
<1>7. \A t \in T : t \in Task /\ <<t, sys.call[t].slot>> \in Opens(c)
  BY DEF Closing
<1>8. \A p \in L : \E t \in Task : \E i \in Nat : p = <<t, i>> /\ At(sys.table[t], i) = Open(c)
  BY InLive DEF IsLive
<1>9. \A p \in P : \E t \in T : p = <<t, sys.call[t].slot>>
  OBVIOUS
<1>10. \A t \in T : <<t, sys.call[t].slot>> \in P
  OBVIOUS
<1> HIDE DEF L, T, P, sent
<1>11. Opens(c) = L \cup P
  <2>1. ASSUME NEW p \in Opens(c) PROVE p \in L \cup P
    <3>1. PICK t \in Task, i \in Nat : p = <<t, i>> /\ At(sys.table[t], i) = Open(c)
      BY <1>5
    <3> QED
      BY <1>6, <1>10, <3>1
  <2>2. ASSUME NEW p \in L \cup P PROVE p \in Opens(c)
    BY <1>5, <1>7, <1>8, <1>9
  <2> QED
    BY <2>1, <2>2
<1>12. L \cap P = {}
  <2>1. SUFFICES ASSUME NEW p \in L, p \in P PROVE FALSE
    OBVIOUS
  <2>2. PICK t \in T : p = <<t, sys.call[t].slot>>
    BY <1>9, <2>1
  <2>3. PICK u \in Task, i \in Nat : p = <<u, i>> /\ At(sys.table[u], i) = Open(c)
    BY <1>8
  <2>4. t = u /\ i = sys.call[t].slot
    BY <2>2, <2>3
  <2> QED
    BY <1>6, <2>1, <2>3, <2>4
<1>13. /\ IsFiniteSet(L \cup P)
       /\ Cardinality(L \cup P) = Cardinality(L) + Cardinality(P) - Cardinality(L \cap P)
  BY <1>1, <1>4, FS_Union
<1>14. Cardinality(L \cap P) = 0
  BY <1>12, FS_EmptySet
<1>15. Cardinality(L) \in Nat /\ Cardinality(P) \in Nat
  BY <1>1, <1>4, FS_CardinalityType
<1> QED
  BY <1>2, <1>4, <1>11, <1>13, <1>14, <1>15 DEF L, T

\* OpensCounted: what internalOpenItem and CloseFolio (folio.c) count is how often
\* the folio is open, when no task that may open it twice may exit: of two opens
\* FreeResources closes one, in the first of their slots, where it then finds nothing.
THEOREM OpensCountedHolds ==
  ASSUME Twice \cap MayExit = {}
  PROVE  Spec => []OpensCounted
<1>1. SysInv => OpensCounted
  <2> SUFFICES ASSUME LoadInv(sys), NEW c \in Copy, ~sys.wild
               PROVE  sys.folio[c].count + Cardinality(Closing(c)) = Cardinality(Opens(c))
    BY DEF OpensCounted, SysInv
  <2>1. Counted(sys, c)
    BY DEF LoadInv, Tame
  <2>2. Cardinality(Live(sys, c)) = sys.folio[c].count
    BY <2>1 DEF Counted, Apart
  <2> QED
    BY <2>2, OpensSplit
<1> QED
  BY <1>1, LoadInvariance, PTL

\* UnloadedWhenClosed: when no call is in progress, the server (usermodeserver.c) has
\* left no code in memory of a folio that is not there or that nobody has open.
THEOREM UnloadedWhenClosedHolds == Spec => []UnloadedWhenClosed
<1>1. SysInv => UnloadedWhenClosed
  <2> SUFFICES ASSUME LoadInv(sys), ~sys.wild,
                      \A t \in Task : ~InCall(t) /\ sys.job[t] = "none",
                      NEW c \in Copy, sys.folio[c].code = "loaded"
               PROVE  sys.folio[c].there /\ sys.folio[c].count > 0
    BY DEF UnloadedWhenClosed, SysInv
  <2>1. Needed(sys, c) /\ CopyOK(sys.folio[c])
    BY DEF LoadInv, Tame
  <2>2. \A t \in Task : sys.call[t].in \notin {"load", "unload"}
    BY DEF InCall
  <2>3. sys.folio[c].count > 0
    BY <2>1, <2>2 DEF Needed
  <2> QED
    BY <2>1, <2>3 DEF CopyOK
<1> QED
  BY <1>1, LoadInvariance, PTL
=============================================================================
