--------------------------- MODULE ContainerProofs ---------------------------
(***************************************************************************)
(* A circular array of any size is the sequence that was put into it, and  *)
(* the heap is the collection that was put into it, whatever the items and *)
(* their priorities: heapifyUp and heapifyDown put one node that is out of *)
(* place into its place and lose none.  Then the search that is built on   *)
(* the heap, on every legal table: what Track::find_path finds.            *)
(***************************************************************************)
EXTENDS MCContainers, FindPath, SequenceTheorems, FiniteSetTheorems, WellFoundedInduction, TLAPS

-----------------------------------------------------------------------------
(* The circular array.                                                     *)

\* The head is as far ahead of the tail as there are items.
HeadKnown ==
  /\ head = (tail + size) % Capacity
  /\ kind = "stack" => tail = 0

CircularInv == TypeOK /\ HeadKnown

\* Once round at most.
LEMMA Round ==
  ASSUME CircularBufferAssumption, NEW a \in 0 .. Capacity - 1, NEW b \in 0 .. Capacity
  PROVE  (a + b) % Capacity = IF a + b < Capacity THEN a + b ELSE a + b - Capacity
<1>1. Capacity \in Nat /\ Capacity > 0
  BY DEF CircularBufferAssumption
<1>2. CASE a + b < Capacity
  BY <1>1, <1>2
<1>3. CASE a + b >= Capacity
  <2> DEFINE q == (a + b) \div Capacity
             r == (a + b) % Capacity
  <2>1. a + b = Capacity * q + r /\ q \in Nat /\ r \in 0 .. Capacity - 1
    BY <1>1
  <2>2. q = 1
    BY <1>1, <1>3, <2>1
  <2> QED
    BY <1>1, <1>3, <2>1, <2>2
<1> QED
  BY <1>1, <1>2, <1>3

\* Where the i-th item is, and all of them.
Place(t, i) == IF t + i - 1 < Capacity THEN t + i - 1 ELSE t + i - 1 - Capacity
ItemsAt(b, s, t) == [i \in 1 .. s |-> b[(t + i - 1) % Capacity]]

LEMMA ItemsKnown ==
  ASSUME CircularBufferAssumption,
         NEW b \in [0 .. Capacity - 1 -> Item], NEW s \in 0 .. Capacity, NEW t \in 0 .. Capacity - 1
  PROVE  /\ ItemsAt(b, s, t) \in Seq(Item) /\ Len(ItemsAt(b, s, t)) = s
         /\ \A i \in 1 .. s : ItemsAt(b, s, t)[i] = b[Place(t, i)] /\ Place(t, i) \in 0 .. Capacity - 1
<1>1. Capacity \in Nat /\ Capacity > 0
  BY DEF CircularBufferAssumption
<1>2. \A i \in 1 .. s : (t + i - 1) % Capacity = Place(t, i) /\ Place(t, i) \in 0 .. Capacity - 1
  <2> SUFFICES ASSUME NEW i \in 1 .. s
               PROVE  (t + i - 1) % Capacity = Place(t, i) /\ Place(t, i) \in 0 .. Capacity - 1
    OBVIOUS
  <2>1. i - 1 \in 0 .. Capacity /\ t + (i - 1) = t + i - 1
    BY <1>1
  <2>2. (t + (i - 1)) % Capacity = IF t + (i - 1) < Capacity THEN t + (i - 1) ELSE t + (i - 1) - Capacity
    BY <1>1, <2>1, Round
  <2> QED
    BY <1>1, <2>1, <2>2 DEF Place
<1>3. ItemsAt(b, s, t) = [i \in 1 .. s |-> b[Place(t, i)]]
  BY <1>2 DEF ItemsAt
<1>4. ItemsAt(b, s, t) \in [1 .. s -> Item]
  BY <1>1, <1>2, <1>3
<1>5. ItemsAt(b, s, t) \in Seq(Item) /\ Len(ItemsAt(b, s, t)) = s
  BY <1>1, <1>4
<1> QED
  BY <1>2, <1>3, <1>5

\* What is known of a state.
LEMMA StateKnown ==
  ASSUME CircularBufferAssumption, CircularInv
  PROVE  /\ Capacity \in Nat /\ Capacity > 0 /\ size \in 0 .. Capacity /\ tail \in 0 .. Capacity - 1
         /\ head \in 0 .. Capacity - 1 /\ buffer \in [0 .. Capacity - 1 -> Item]
         /\ contents \in Seq(Item) /\ Len(contents) = size
         /\ \A i \in 1 .. size : contents[i] = buffer[Place(tail, i)] /\ Place(tail, i) \in 0 .. Capacity - 1
         /\ head = IF tail + size < Capacity THEN tail + size ELSE tail + size - Capacity
<1>1. /\ Capacity \in Nat /\ Capacity > 0 /\ size \in 0 .. Capacity /\ tail \in 0 .. Capacity - 1
      /\ head \in 0 .. Capacity - 1 /\ buffer \in [0 .. Capacity - 1 -> Item]
  BY DEF CircularBufferAssumption, CircularInv, TypeOK
<1>2. head = IF tail + size < Capacity THEN tail + size ELSE tail + size - Capacity
  BY <1>1, Round DEF CircularInv, HeadKnown
<1>3. contents = ItemsAt(buffer, size, tail)
  BY DEF contents, ItemsAt
<1> QED
  BY <1>1, <1>2, <1>3, ItemsKnown

\* A state is reached in which the array, its size and its tail are legal.
LEMMA NextKnown ==
  ASSUME CircularBufferAssumption,
         buffer' \in [0 .. Capacity - 1 -> Item], size' \in 0 .. Capacity, tail' \in 0 .. Capacity - 1
  PROVE  /\ contents' \in Seq(Item) /\ Len(contents') = size'
         /\ \A i \in 1 .. size' : contents'[i] = buffer'[Place(tail', i)]
<1>1. contents' = ItemsAt(buffer', size', tail')
  BY DEF contents, ItemsAt
<1> QED
  BY <1>1, ItemsKnown

\* Two sequences that are equal place by place.
LEMMA Same ==
  ASSUME NEW s \in Seq(Item), NEW t \in Seq(Item), Len(s) = Len(t),
         \A i \in 1 .. Len(s) : s[i] = t[i]
  PROVE  s = t
BY SeqEqual

LEMMA InvInit ==
  ASSUME CircularBufferAssumption, Init
  PROVE  CircularInv /\ Promise!Init
<1>1. Capacity \in Nat /\ Capacity > 0 /\ 0 % Capacity = 0
  BY DEF CircularBufferAssumption
<1>2. CircularInv
  BY <1>1 DEF Init, CircularInv, TypeOK, HeadKnown
<1>3. contents \in Seq(Item) /\ Len(contents) = 0
  BY <1>2, StateKnown DEF Init
<1>4. contents = <<>>
  BY <1>3
<1> QED
  BY <1>2, <1>4 DEF Init, Promise!Init

\* A call that fails.
LEMMA FailKeeps ==
  ASSUME CircularBufferAssumption, CircularInv, Fail, UNCHANGED kind
  PROVE  CircularInv' /\ Promise!Refuse
<1>1. UNCHANGED <<kind, buffer, size, head, tail, item>> /\ result' = -1
  BY DEF Fail, places
<1>2. CircularInv'
  BY <1>1 DEF CircularInv, TypeOK, HeadKnown
<1>3. contents' = contents
  BY <1>1 DEF contents
<1> QED
  BY <1>1, <1>2, <1>3 DEF Promise!Refuse

LEMMA PushKeeps ==
  ASSUME CircularBufferAssumption, CircularInv, NEW x \in Item, Push(x)
  PROVE  CircularInv' /\ Promise!PutLast(x)
<1>1. /\ Capacity \in Nat /\ Capacity > 0 /\ size \in 0 .. Capacity /\ tail \in 0 .. Capacity - 1
      /\ head \in 0 .. Capacity - 1 /\ buffer \in [0 .. Capacity - 1 -> Item]
      /\ contents \in Seq(Item) /\ Len(contents) = size
      /\ \A i \in 1 .. size : contents[i] = buffer[Place(tail, i)] /\ Place(tail, i) \in 0 .. Capacity - 1
      /\ head = IF tail + size < Capacity THEN tail + size ELSE tail + size - Capacity
  BY StateKnown
<1>2. CASE size = Capacity
  <2>1. Fail /\ UNCHANGED kind
    BY <1>2 DEF Push
  <2> QED
    BY <1>1, <1>2, <2>1, FailKeeps DEF Promise!PutLast, Promise!Full
<1>3. CASE size # Capacity
  <2>1. /\ buffer' = [buffer EXCEPT ![head] = x] /\ head' = (head + 1) % Capacity
        /\ size' = size + 1 /\ result' = 0 /\ UNCHANGED <<kind, tail, item>>
    BY <1>3 DEF Push
  <2>2. head' = (IF head + 1 < Capacity THEN head + 1 ELSE 0) /\ size + 1 \in 0 .. Capacity
    <3>1. 1 \in 0 .. Capacity
      BY <1>1
    <3>2. (head + 1) % Capacity = IF head + 1 < Capacity THEN head + 1 ELSE head + 1 - Capacity
      BY <1>1, <3>1, Round
    <3> QED
      BY <1>1, <1>3, <2>1, <3>2
  <2>3. (tail + (size + 1)) % Capacity =
           IF tail + (size + 1) < Capacity THEN tail + (size + 1) ELSE tail + (size + 1) - Capacity
    BY <1>1, <2>2, Round
  <2>4. head' = (tail + (size + 1)) % Capacity
    BY <1>1, <1>3, <2>2, <2>3
  <2>5. TypeOK'
    BY <1>1, <2>1, <2>2 DEF CircularInv, TypeOK
  <2>6. CircularInv'
    BY <2>1, <2>4, <2>5 DEF CircularInv, HeadKnown
  <2>7. /\ contents' \in Seq(Item) /\ Len(contents') = size + 1
        /\ \A i \in 1 .. size + 1 : contents'[i] = buffer'[Place(tail, i)]
    <3>1. buffer' \in [0 .. Capacity - 1 -> Item] /\ size' \in 0 .. Capacity /\ tail' \in 0 .. Capacity - 1
      BY <2>5 DEF TypeOK
    <3> QED
      BY <2>1, <3>1, NextKnown
  <2>8. Place(tail, size + 1) = head /\ \A i \in 1 .. size : Place(tail, i) # head
    BY <1>1, <1>3 DEF Place
  <2>9. contents' = Append(contents, x)
    <3>1. /\ Append(contents, x) \in Seq(Item) /\ Len(Append(contents, x)) = size + 1
          /\ Append(contents, x)[size + 1] = x
          /\ \A i \in 1 .. size : Append(contents, x)[i] = contents[i]
      BY <1>1
    <3>2. contents'[size + 1] = x
      BY <1>1, <2>1, <2>7, <2>8, SMTT(30)
    <3>3. \A i \in 1 .. size : contents'[i] = contents[i]
      BY <1>1, <2>1, <2>7, <2>8
    <3>4. \A i \in 1 .. size + 1 : contents'[i] = Append(contents, x)[i]
      BY <1>1, <3>1, <3>2, <3>3
    <3> QED
      BY <2>7, <3>1, <3>4, Same
  <2> QED
    BY <1>1, <1>3, <2>1, <2>6, <2>9 DEF Promise!PutLast, Promise!Full, Promise!Accept
<1> QED
  BY <1>2, <1>3

LEMMA PushFrontKeeps ==
  ASSUME CircularBufferAssumption, CircularInv, NEW x \in Item, PushFront(x)
  PROVE  CircularInv' /\ Promise!PutFirst(x)
<1>1. /\ Capacity \in Nat /\ Capacity > 0 /\ size \in 0 .. Capacity /\ tail \in 0 .. Capacity - 1
      /\ head \in 0 .. Capacity - 1 /\ buffer \in [0 .. Capacity - 1 -> Item]
      /\ contents \in Seq(Item) /\ Len(contents) = size
      /\ \A i \in 1 .. size : contents[i] = buffer[Place(tail, i)] /\ Place(tail, i) \in 0 .. Capacity - 1
      /\ head = IF tail + size < Capacity THEN tail + size ELSE tail + size - Capacity
  BY StateKnown
<1>2. CASE size = Capacity
  <2>1. Fail /\ UNCHANGED kind
    BY <1>2 DEF PushFront
  <2> QED
    BY <1>1, <1>2, <2>1, FailKeeps DEF Promise!PutFirst, Promise!Full
<1>3. CASE size # Capacity
  <2>1. /\ tail' = (tail + Capacity - 1) % Capacity /\ buffer' = [buffer EXCEPT ![tail'] = x]
        /\ size' = size + 1 /\ result' = 0 /\ kind = "queue" /\ UNCHANGED <<kind, head, item>>
    BY <1>3 DEF PushFront
  <2>2. tail' = (IF tail = 0 THEN Capacity - 1 ELSE tail - 1) /\ size + 1 \in 0 .. Capacity
    <3>1. Capacity - 1 \in 0 .. Capacity /\ tail + (Capacity - 1) = tail + Capacity - 1
      BY <1>1
    <3>2. (tail + (Capacity - 1)) % Capacity =
             IF tail + (Capacity - 1) < Capacity THEN tail + (Capacity - 1) ELSE tail + (Capacity - 1) - Capacity
      BY <1>1, <3>1, Round
    <3> QED
      BY <1>1, <1>3, <2>1, <3>1, <3>2
  <2>3. tail' \in 0 .. Capacity - 1
    BY <1>1, <2>2
  <2>4. (tail' + (size + 1)) % Capacity =
           IF tail' + (size + 1) < Capacity THEN tail' + (size + 1) ELSE tail' + (size + 1) - Capacity
    BY <1>1, <2>2, <2>3, Round
  <2>5. head' = (tail' + size') % Capacity
    BY <1>1, <1>3, <2>1, <2>2, <2>4
  <2>6. TypeOK'
    BY <1>1, <2>1, <2>2, <2>3 DEF CircularInv, TypeOK
  <2>7. CircularInv'
    BY <2>1, <2>5, <2>6 DEF CircularInv, HeadKnown
  <2>8. /\ contents' \in Seq(Item) /\ Len(contents') = size + 1
        /\ \A i \in 1 .. size + 1 : contents'[i] = buffer'[Place(tail', i)]
    <3>1. buffer' \in [0 .. Capacity - 1 -> Item] /\ size' \in 0 .. Capacity
      BY <2>6 DEF TypeOK
    <3> QED
      BY <2>1, <2>3, <3>1, NextKnown
  <2>9. Place(tail', 1) = tail' /\ \A i \in 1 .. size : Place(tail', i + 1) = Place(tail, i) /\ Place(tail, i) # tail'
    BY <1>1, <1>3, <2>2 DEF Place
  <2>10. contents' = <<x>> \o contents
    <3>1. /\ <<x>> \o contents \in Seq(Item) /\ Len(<<x>> \o contents) = size + 1
          /\ (<<x>> \o contents)[1] = x
          /\ \A i \in 1 .. size : (<<x>> \o contents)[i + 1] = contents[i]
      BY <1>1, SMTT(30)
    <3>2. contents'[1] = x
      BY <1>1, <2>1, <2>3, <2>8, <2>9
    <3>3. \A i \in 1 .. size : contents'[i + 1] = contents[i]
      BY <1>1, <2>1, <2>3, <2>8, <2>9
    <3>4. \A i \in 1 .. size + 1 : contents'[i] = (<<x>> \o contents)[i]
      <4> SUFFICES ASSUME NEW i \in 1 .. size + 1
                   PROVE  contents'[i] = (<<x>> \o contents)[i]
        OBVIOUS
      <4>1. CASE i = 1
        BY <3>1, <3>2, <4>1
      <4>2. CASE i # 1
        <5>1. i - 1 \in 1 .. size /\ (i - 1) + 1 = i
          BY <1>1, <4>2
        <5> QED
          BY <3>1, <3>3, <5>1
      <4> QED
        BY <4>1, <4>2
    <3> QED
      BY <2>8, <3>1, <3>4, Same
  <2> QED
    BY <1>1, <1>3, <2>1, <2>7, <2>10 DEF Promise!PutFirst, Promise!Full, Promise!Accept
<1> QED
  BY <1>2, <1>3

LEMMA PopQueueKeeps ==
  ASSUME CircularBufferAssumption, CircularInv, PopQueue
  PROVE  CircularInv' /\ Promise!TakeFirst
<1>1. /\ Capacity \in Nat /\ Capacity > 0 /\ size \in 0 .. Capacity /\ tail \in 0 .. Capacity - 1
      /\ head \in 0 .. Capacity - 1 /\ buffer \in [0 .. Capacity - 1 -> Item]
      /\ contents \in Seq(Item) /\ Len(contents) = size
      /\ \A i \in 1 .. size : contents[i] = buffer[Place(tail, i)] /\ Place(tail, i) \in 0 .. Capacity - 1
      /\ head = IF tail + size < Capacity THEN tail + size ELSE tail + size - Capacity
  BY StateKnown
<1>2. CASE size = 0
  <2>1. Fail /\ UNCHANGED kind
    BY <1>2 DEF PopQueue
  <2>2. contents = <<>>
    BY <1>1, <1>2
  <2> QED
    BY <2>1, <2>2, FailKeeps DEF Promise!TakeFirst
<1>3. CASE size # 0
  <2>1. /\ item' = buffer[tail] /\ tail' = (tail + 1) % Capacity /\ size' = size - 1 /\ result' = 0
        /\ kind = "queue" /\ UNCHANGED <<kind, buffer, head>>
    BY <1>3 DEF PopQueue
  <2>2. tail' = (IF tail + 1 < Capacity THEN tail + 1 ELSE 0) /\ size - 1 \in 0 .. Capacity
    <3>1. 1 \in 0 .. Capacity
      BY <1>1
    <3>2. (tail + 1) % Capacity = IF tail + 1 < Capacity THEN tail + 1 ELSE tail + 1 - Capacity
      BY <1>1, <3>1, Round
    <3> QED
      BY <1>1, <1>3, <2>1, <3>2
  <2>3. tail' \in 0 .. Capacity - 1
    BY <1>1, <2>2
  <2>4. (tail' + (size - 1)) % Capacity =
           IF tail' + (size - 1) < Capacity THEN tail' + (size - 1) ELSE tail' + (size - 1) - Capacity
    BY <1>1, <2>2, <2>3, Round
  <2>5. head' = (tail' + size') % Capacity
    BY <1>1, <1>3, <2>1, <2>2, <2>4
  <2>6. Place(tail, 1) = tail /\ contents[1] = buffer[tail] /\ buffer[tail] \in Item
    BY <1>1, <1>3 DEF Place
  <2>7. TypeOK'
    BY <1>1, <2>1, <2>2, <2>3, <2>6 DEF CircularInv, TypeOK
  <2>8. CircularInv'
    BY <2>1, <2>5, <2>7 DEF CircularInv, HeadKnown
  <2>9. /\ contents' \in Seq(Item) /\ Len(contents') = size - 1
        /\ \A i \in 1 .. size - 1 : contents'[i] = buffer'[Place(tail', i)]
    <3>1. buffer' \in [0 .. Capacity - 1 -> Item] /\ size' \in 0 .. Capacity
      BY <2>7 DEF TypeOK
    <3> QED
      BY <2>1, <2>3, <3>1, NextKnown
  <2>10. \A i \in 1 .. size - 1 : Place(tail', i) = Place(tail, i + 1)
    BY <1>1, <1>3, <2>2 DEF Place
  <2>11. contents' = Tail(contents)
    <3>1. /\ contents # <<>> /\ Tail(contents) \in Seq(Item) /\ Len(Tail(contents)) = size - 1
          /\ \A i \in 1 .. size - 1 : Tail(contents)[i] = contents[i + 1]
      BY <1>1, <1>3
    <3>2. \A i \in 1 .. size - 1 : i + 1 \in 1 .. size
      BY <1>1
    <3>3. \A i \in 1 .. size - 1 : contents'[i] = Tail(contents)[i]
      BY <1>1, <2>1, <2>9, <2>10, <3>1, <3>2
    <3> QED
      BY <2>9, <3>1, <3>3, Same
  <2>12. contents # <<>> /\ Head(contents) = contents[1]
    BY <1>1, <1>3
  <2> QED
    BY <2>1, <2>6, <2>8, <2>11, <2>12 DEF Promise!TakeFirst, Promise!Accept
<1> QED
  BY <1>2, <1>3

LEMMA PopStackKeeps ==
  ASSUME CircularBufferAssumption, CircularInv, PopStack
  PROVE  CircularInv' /\ Promise!TakeLast
<1>1. /\ Capacity \in Nat /\ Capacity > 0 /\ size \in 0 .. Capacity /\ tail \in 0 .. Capacity - 1
      /\ head \in 0 .. Capacity - 1 /\ buffer \in [0 .. Capacity - 1 -> Item]
      /\ contents \in Seq(Item) /\ Len(contents) = size
      /\ \A i \in 1 .. size : contents[i] = buffer[Place(tail, i)] /\ Place(tail, i) \in 0 .. Capacity - 1
      /\ head = IF tail + size < Capacity THEN tail + size ELSE tail + size - Capacity
  BY StateKnown
<1>2. CASE size = 0
  <2>1. Fail /\ UNCHANGED kind
    BY <1>2 DEF PopStack
  <2>2. contents = <<>>
    BY <1>1, <1>2
  <2> QED
    BY <2>1, <2>2, FailKeeps DEF Promise!TakeLast
<1>3. CASE size # 0
  <2>1. /\ head' = (head + Capacity - 1) % Capacity /\ item' = buffer[head'] /\ size' = size - 1
        /\ result' = 0 /\ kind = "stack" /\ UNCHANGED <<kind, buffer, tail>>
    BY <1>3 DEF PopStack
  <2>2. tail = 0
    BY <2>1 DEF CircularInv, HeadKnown
  <2>3. head' = (IF head = 0 THEN Capacity - 1 ELSE head - 1) /\ size - 1 \in 0 .. Capacity
    <3>1. Capacity - 1 \in 0 .. Capacity /\ head + (Capacity - 1) = head + Capacity - 1
      BY <1>1
    <3>2. (head + (Capacity - 1)) % Capacity =
             IF head + (Capacity - 1) < Capacity THEN head + (Capacity - 1) ELSE head + (Capacity - 1) - Capacity
      BY <1>1, <3>1, Round
    <3> QED
      BY <1>1, <1>3, <2>1, <3>1, <3>2
  <2>4. head' = size - 1
    BY <1>1, <1>3, <2>2, <2>3
  <2>5. (tail + (size - 1)) % Capacity =
           IF tail + (size - 1) < Capacity THEN tail + (size - 1) ELSE tail + (size - 1) - Capacity
    BY <1>1, <2>3, Round
  <2>6. head' = (tail + (size - 1)) % Capacity
    BY <1>1, <2>2, <2>4, <2>5
  <2>7. Place(tail, size) = head' /\ contents[size] = buffer[head'] /\ buffer[head'] \in Item
    BY <1>1, <1>3, <2>2, <2>4 DEF Place
  <2>8. TypeOK'
    BY <1>1, <2>1, <2>3, <2>4, <2>7 DEF CircularInv, TypeOK
  <2>9. CircularInv'
    BY <2>1, <2>2, <2>6, <2>8 DEF CircularInv, HeadKnown
  <2>10. /\ contents' \in Seq(Item) /\ Len(contents') = size - 1
         /\ \A i \in 1 .. size - 1 : contents'[i] = buffer'[Place(tail, i)]
    <3>1. buffer' \in [0 .. Capacity - 1 -> Item] /\ size' \in 0 .. Capacity /\ tail' \in 0 .. Capacity - 1
      BY <2>8 DEF TypeOK
    <3> QED
      BY <2>1, <3>1, NextKnown
  <2>11. contents' = SubSeq(contents, 1, Len(contents) - 1)
    <3>1. /\ SubSeq(contents, 1, size - 1) \in Seq(Item) /\ Len(SubSeq(contents, 1, size - 1)) = size - 1
          /\ \A i \in 1 .. size - 1 : SubSeq(contents, 1, size - 1)[i] = contents[i]
      BY <1>1, <1>3
    <3>2. \A i \in 1 .. size - 1 : contents'[i] = SubSeq(contents, 1, size - 1)[i]
      <4>1. \A i \in 1 .. size - 1 : i \in 1 .. size
        BY <1>1
      <4>2. \A i \in 1 .. size - 1 : contents'[i] = buffer[Place(tail, i)]
        BY <2>1, <2>10
      <4>3. \A i \in 1 .. size - 1 : contents[i] = buffer[Place(tail, i)]
        BY <1>1, <4>1
      <4> QED
        BY <3>1, <4>2, <4>3
    <3>3. contents' = SubSeq(contents, 1, size - 1)
      BY <2>10, <3>1, <3>2, Same
    <3> QED
      BY <1>1, <3>3
  <2>12. contents # <<>>
    BY <1>1, <1>3
  <2> QED
    BY <1>1, <2>1, <2>7, <2>9, <2>11, <2>12 DEF Promise!TakeLast, Promise!Accept
<1> QED
  BY <1>2, <1>3

LEMMA GetKeeps ==
  ASSUME CircularBufferAssumption, CircularInv, NEW index \in 0 .. Capacity - 1, Get(index)
  PROVE  CircularInv' /\ Promise!Look(index + 1)
<1>1. /\ Capacity \in Nat /\ Capacity > 0 /\ size \in 0 .. Capacity /\ tail \in 0 .. Capacity - 1
      /\ head \in 0 .. Capacity - 1 /\ buffer \in [0 .. Capacity - 1 -> Item]
      /\ contents \in Seq(Item) /\ Len(contents) = size
      /\ \A i \in 1 .. size : contents[i] = buffer[Place(tail, i)] /\ Place(tail, i) \in 0 .. Capacity - 1
      /\ head = IF tail + size < Capacity THEN tail + size ELSE tail + size - Capacity
  BY StateKnown
<1>2. DOMAIN contents = 1 .. size
  BY <1>1
<1>3. CASE index >= size
  <2>1. Fail /\ UNCHANGED kind
    BY <1>1, <1>3 DEF Get
  <2> QED
    BY <1>1, <1>2, <1>3, <2>1, FailKeeps DEF Promise!Look
<1>4. CASE index < size
  <2>1. item' = buffer[(tail + index) % Capacity] /\ result' = 0 /\ UNCHANGED <<kind, buffer, size, head, tail>>
    BY <1>1, <1>4 DEF Get, places
  <2>2. (tail + index) % Capacity = IF tail + index < Capacity THEN tail + index ELSE tail + index - Capacity
    <3>1. index \in 0 .. Capacity
      BY <1>1
    <3> QED
      BY <1>1, <3>1, Round
  <2>3. index + 1 \in 1 .. size /\ Place(tail, index + 1) = (tail + index) % Capacity
    BY <1>1, <1>4, <2>2 DEF Place
  <2>4. item' = contents[index + 1] /\ item' \in Item
    BY <1>1, <2>1, <2>3
  <2>5. CircularInv'
    BY <2>1, <2>4 DEF CircularInv, TypeOK, HeadKnown
  <2>6. contents' = contents
    BY <2>1 DEF contents
  <2> QED
    BY <1>2, <2>1, <2>3, <2>4, <2>5, <2>6 DEF Promise!Look, Promise!Accept
<1> QED
  BY <1>1, <1>3, <1>4

LEMMA ClearKeeps ==
  ASSUME CircularBufferAssumption, CircularInv, Clear
  PROVE  CircularInv' /\ Promise!Empty
<1>1. /\ Capacity \in Nat /\ Capacity > 0 /\ size \in 0 .. Capacity /\ tail \in 0 .. Capacity - 1
      /\ head \in 0 .. Capacity - 1 /\ buffer \in [0 .. Capacity - 1 -> Item]
      /\ contents \in Seq(Item) /\ Len(contents) = size
      /\ \A i \in 1 .. size : contents[i] = buffer[Place(tail, i)] /\ Place(tail, i) \in 0 .. Capacity - 1
      /\ head = IF tail + size < Capacity THEN tail + size ELSE tail + size - Capacity
  BY StateKnown
<1>2. size' = 0 /\ UNCHANGED <<kind, buffer, item, result>>
  BY DEF Clear
<1>3. head' = 0 /\ tail' = 0
  <2>1. CASE kind = "queue"
    BY <2>1 DEF Clear
  <2>2. CASE kind = "stack"
    <3>1. tail = 0 /\ tail' = 0 /\ head' = (head + Capacity - size) % Capacity
      BY <2>2 DEF Clear, CircularInv, HeadKnown
    <3>2. Capacity - size \in 0 .. Capacity /\ head + (Capacity - size) = head + Capacity - size
      BY <1>1
    <3>3. (head + (Capacity - size)) % Capacity =
             IF head + (Capacity - size) < Capacity THEN head + (Capacity - size) ELSE head + (Capacity - size) - Capacity
      BY <1>1, <3>2, Round
    <3> QED
      BY <1>1, <3>1, <3>2, <3>3
  <2> QED
    BY <2>1, <2>2 DEF CircularInv, TypeOK
<1>4. 0 % Capacity = 0
  BY <1>1
<1>5. TypeOK'
  BY <1>1, <1>2, <1>3 DEF CircularInv, TypeOK
<1>6. CircularInv'
  BY <1>2, <1>3, <1>4, <1>5 DEF CircularInv, HeadKnown
<1>7. contents' \in Seq(Item) /\ Len(contents') = 0
  <2>1. buffer' \in [0 .. Capacity - 1 -> Item] /\ size' \in 0 .. Capacity /\ tail' \in 0 .. Capacity - 1
    BY <1>5 DEF TypeOK
  <2> QED
    BY <1>2, <2>1, NextKnown
<1>8. contents' = <<>>
  BY <1>7
<1> QED
  BY <1>2, <1>6, <1>8 DEF Promise!Empty

\* Printing goes unnoticed.
LEMMA PrintQueueKeeps ==
  ASSUME CircularBufferAssumption, CircularInv, PrintQueue
  PROVE  CircularInv' /\ UNCHANGED Promise!vars
<1>1. /\ Capacity \in Nat /\ Capacity > 0 /\ size \in 0 .. Capacity /\ tail \in 0 .. Capacity - 1
      /\ head \in 0 .. Capacity - 1 /\ buffer \in [0 .. Capacity - 1 -> Item]
      /\ contents \in Seq(Item) /\ Len(contents) = size
      /\ \A i \in 1 .. size : contents[i] = buffer[Place(tail, i)] /\ Place(tail, i) \in 0 .. Capacity - 1
      /\ head = IF tail + size < Capacity THEN tail + size ELSE tail + size - Capacity
  BY StateKnown
<1> DEFINE nth(p) == (p + Capacity - head) % Capacity
<1>2. /\ buffer' = [p \in 0 .. Capacity - 1 |->
                     IF nth(p) < size THEN buffer[(tail + nth(p)) % Capacity] ELSE buffer[p]]
      /\ tail' = head /\ head' = (head + size) % Capacity
      /\ kind = "queue" /\ UNCHANGED <<kind, size, item, result>>
  BY DEF PrintQueue
<1>3. \A p \in 0 .. Capacity - 1 : nth(p) = IF p < head THEN p + Capacity - head ELSE p - head
  <2> SUFFICES ASSUME NEW p \in 0 .. Capacity - 1
               PROVE  nth(p) = IF p < head THEN p + Capacity - head ELSE p - head
    OBVIOUS
  <2>1. Capacity - head \in 0 .. Capacity /\ p + (Capacity - head) = p + Capacity - head
    BY <1>1
  <2>2. (p + (Capacity - head)) % Capacity =
           IF p + (Capacity - head) < Capacity THEN p + (Capacity - head) ELSE p + (Capacity - head) - Capacity
    BY <1>1, <2>1, Round
  <2> QED
    BY <1>1, <2>1, <2>2
<1>4. \A n \in 0 .. Capacity - 1 : (tail + n) % Capacity = Place(tail, n + 1) /\ Place(tail, n + 1) \in 0 .. Capacity - 1
  <2> SUFFICES ASSUME NEW n \in 0 .. Capacity - 1
               PROVE  (tail + n) % Capacity = Place(tail, n + 1) /\ Place(tail, n + 1) \in 0 .. Capacity - 1
    OBVIOUS
  <2>1. n \in 0 .. Capacity
    BY <1>1
  <2>2. (tail + n) % Capacity = IF tail + n < Capacity THEN tail + n ELSE tail + n - Capacity
    BY <1>1, <2>1, Round
  <2> QED
    BY <1>1, <2>2 DEF Place
<1>5. \A p \in 0 .. Capacity - 1 : nth(p) \in 0 .. Capacity - 1
  BY <1>1, <1>3
<1>6. buffer' \in [0 .. Capacity - 1 -> Item]
  <2> HIDE DEF nth
  <2>1. \A p \in 0 .. Capacity - 1 :
          (IF nth(p) < size THEN buffer[(tail + nth(p)) % Capacity] ELSE buffer[p]) \in Item
    BY <1>1, <1>4, <1>5
  <2> QED
    BY <1>2, <2>1
<1>7. head' = IF head + size < Capacity THEN head + size ELSE head + size - Capacity
  BY <1>1, <1>2, Round
<1>8. TypeOK'
  BY <1>1, <1>2, <1>6, <1>7 DEF CircularInv, TypeOK
<1>9. CircularInv'
  BY <1>2, <1>8 DEF CircularInv, HeadKnown
<1>10. contents' \in Seq(Item) /\ Len(contents') = size /\ \A i \in 1 .. size : contents'[i] = buffer'[Place(head, i)]
  BY <1>1, <1>2, <1>6, NextKnown
<1>11. \A i \in 1 .. size : contents'[i] = contents[i]
  <2> SUFFICES ASSUME NEW i \in 1 .. size
               PROVE  contents'[i] = contents[i]
    OBVIOUS
  <2>1. Place(head, i) \in 0 .. Capacity - 1 /\ i - 1 \in 0 .. Capacity - 1 /\ i - 1 < size /\ (i - 1) + 1 = i
    BY <1>1 DEF Place
  <2>2. nth(Place(head, i)) = i - 1
    <3> HIDE DEF nth
    <3>1. nth(Place(head, i)) =
            IF Place(head, i) < head THEN Place(head, i) + Capacity - head ELSE Place(head, i) - head
      BY <1>3, <2>1
    <3> QED
      BY <1>1, <3>1 DEF Place
  <2> HIDE DEF nth
  <2>3. buffer'[Place(head, i)] = buffer[(tail + (i - 1)) % Capacity]
    BY <1>2, <2>1, <2>2
  <2>4. (tail + (i - 1)) % Capacity = Place(tail, i)
    BY <1>4, <2>1
  <2> QED
    BY <1>1, <1>10, <2>3, <2>4
<1>12. contents' = contents
  BY <1>1, <1>10, <1>11, Same
<1> QED
  BY <1>2, <1>9, <1>12 DEF Promise!vars

\* Every call is one of the promised ones.
LEMMA StepKeeps ==
  ASSUME CircularBufferAssumption, CircularInv, [Next]_vars
  PROVE  CircularInv' /\ [Promise!Next]_Promise!vars
<1>1. ASSUME NEW x \in Item, Push(x)
      PROVE  CircularInv' /\ Promise!Next
  BY <1>1, PushKeeps DEF Promise!Next
<1>2. ASSUME NEW x \in Item, PushFront(x)
      PROVE  CircularInv' /\ Promise!Next
  BY <1>2, PushFrontKeeps DEF Promise!Next
<1>3. ASSUME PopQueue
      PROVE  CircularInv' /\ Promise!Next
  BY <1>3, PopQueueKeeps DEF Promise!Next
<1>4. ASSUME PopStack
      PROVE  CircularInv' /\ Promise!Next
  BY <1>4, PopStackKeeps DEF Promise!Next
<1>5. ASSUME Clear
      PROVE  CircularInv' /\ Promise!Next
  BY <1>5, ClearKeeps DEF Promise!Next
<1>6. ASSUME NEW index \in 0 .. Capacity - 1, Get(index)
      PROVE  CircularInv' /\ Promise!Next
  <2>1. CircularInv' /\ Promise!Look(index + 1)
    BY <1>6, GetKeeps
  <2>2. index + 1 \in 1 .. Capacity
    BY DEF CircularBufferAssumption
  <2> QED
    BY <2>1, <2>2 DEF Promise!Next
<1>7. ASSUME PrintQueue
      PROVE  CircularInv' /\ UNCHANGED Promise!vars
  BY <1>7, PrintQueueKeeps
<1>8. ASSUME UNCHANGED vars
      PROVE  CircularInv' /\ UNCHANGED Promise!vars
  <2>1. UNCHANGED <<kind, buffer, size, head, tail, item, result>>
    BY <1>8 DEF vars, places
  <2>2. contents' = contents
    BY <2>1 DEF contents
  <2> QED
    BY <2>1, <2>2 DEF CircularInv, TypeOK, HeadKnown, Promise!vars
<1> QED
  BY <1>1, <1>2, <1>3, <1>4, <1>5, <1>6, <1>7, <1>8 DEF Next

-----------------------------------------------------------------------------

\* The indices stay in the array, and the head as far ahead of the tail as
\* there are items: no call of queue.h, ringbuffer.cpp or stack.h reads a place
\* that was not written, whatever the size of the array.
THEOREM ArrayInvariant ==
  ASSUME CircularBufferAssumption
  PROVE  Spec => []CircularInv
<1>1. Init => CircularInv
  BY InvInit
<1>2. CircularInv /\ [Next]_vars => CircularInv'
  BY StepKeeps
<1> QED
  BY <1>1, <1>2, PTL DEF Spec

\* Every call does to the sequence of items in the array what the promise of
\* the containers (Deque) says, whatever the size of the array.
THEOREM DequeImplemented ==
  ASSUME CircularBufferAssumption
  PROVE  Spec => ImplementsDeque
<1>1. Init => Promise!Init
  BY InvInit
<1>2. CircularInv /\ [Next]_vars => [Promise!Next]_Promise!vars
  BY StepKeeps
<1>3. Spec => []CircularInv
  BY ArrayInvariant
<1> QED
  BY <1>1, <1>2, <1>3, PTL DEF Spec, ImplementsDeque, Promise!Spec

-----------------------------------------------------------------------------
(* Recursion and induction, for the heap.                                  *)

\* A set of numbers that is not empty has a least member.
LEMMA Least ==
  ASSUME NEW T, T \subseteq Nat, T # {}
  PROVE  \E m \in T : \A n \in T : m <= n
<1> DEFINE less == {p \in Nat \X Nat : p[1] < p[2]}
<1>1. PICK m \in T : \A n \in T : ~(<<n, m>> \in less)
  <2>1. IsWellFoundedOn(less, Nat)
    BY NatLessThanWellFounded, Zenon DEF OpToRel
  <2> HIDE DEF less
  <2> QED
    BY <2>1, WFMin, Zenon
<1>2. ASSUME NEW n \in T PROVE m <= n
  <2>1. ~(<<n, m>> \in less) /\ n \in Nat /\ m \in Nat
    BY <1>1
  <2> QED
    BY <2>1
<1> QED
  BY <1>2

FollowsSteps(f, S, moves, step, out) ==
  \A s \in S : f[s] = IF s \in moves THEN f[step[s]] ELSE out[s]

\* A function that goes from step to step until it stops, and then gives what it
\* has come to, exists: its value is one of those that some finite way leads to.
LEMMA TailRecursion ==
  ASSUME NEW S, NEW moves \in SUBSET S, NEW step \in [S -> S], NEW V, NEW out \in [S -> V]
  PROVE  \E f : FollowsSteps(f, S, moves, step, out) /\ f \in [S -> V]
<1> DEFINE Way(s, n, t) == /\ t \in [0 .. n -> S] /\ t[0] = s /\ t[n] \notin moves
                           /\ \A k \in 0 .. n - 1 : t[k] \in moves /\ t[k + 1] = step[t[k]]
           Ends(s) == {e \in S : \E n \in Nat : \E t \in [0 .. n -> S] : Way(s, n, t) /\ e = t[n]}
           One(E) == CHOOSE e \in S : E # {} => e \in E
           f == [s \in S |-> out[One(Ends(s))]]
<1>0. ASSUME NEW s \in S PROVE One(Ends(s)) \in S /\ (Ends(s) # {} => One(Ends(s)) \in Ends(s))
  <2>1. Ends(s) \subseteq S
    OBVIOUS
  <2> HIDE DEF Ends
  <2>2. \E e \in S : Ends(s) # {} => e \in Ends(s)
    BY <2>1
  <2> QED
    BY <2>2
<1>1. ASSUME NEW s \in S, s \notin moves
      PROVE  f[s] = out[s]
  <2>1. Ends(s) = {s}
    <3>1. s \in Ends(s)
      <4> DEFINE t == [k \in 0 .. 0 |-> s]
      <4>1. t \in [0 .. 0 -> S] /\ t[0] = s
        OBVIOUS
      <4>2. Way(s, 0, t)
        BY <1>1, <4>1
      <4> QED
        BY <4>1, <4>2
    <3>2. ASSUME NEW n \in Nat, NEW t \in [0 .. n -> S], Way(s, n, t)
          PROVE  t[n] = s
      <4>1. n = 0
        <5> SUFFICES ASSUME n # 0 PROVE FALSE
          OBVIOUS
        <5>1. 0 \in 0 .. n - 1
          OBVIOUS
        <5> QED
          BY <1>1, <3>2, <5>1
      <4> QED
        BY <3>2, <4>1
    <3> QED
      BY <3>1, <3>2
  <2> HIDE DEF Ends, One
  <2> QED
    BY <1>0, <2>1
<1>2. ASSUME NEW s \in S, s \in moves
      PROVE  f[s] = f[step[s]]
  <2>1. step[s] \in S
    OBVIOUS
  <2>2. ASSUME NEW n \in Nat, NEW t \in [0 .. n -> S], Way(s, n, t)
        PROVE  t[n] \in Ends(step[s])
    <3>1. n # 0
      BY <1>2, <2>2
    <3> DEFINE u == [k \in 0 .. n - 1 |-> t[k + 1]]
    <3>2. u \in [0 .. n - 1 -> S] /\ n - 1 \in Nat
      BY <3>1
    <3>3. u[0] = step[s] /\ u[n - 1] = t[n]
      <4>1. 0 \in 0 .. n - 1 /\ n - 1 \in 0 .. n - 1 /\ 0 + 1 = 1 /\ (n - 1) + 1 = n
        BY <3>1
      <4>2. t[0 + 1] = step[t[0]] /\ t[0] = s
        BY <2>2, <4>1
      <4> QED
        BY <4>1, <4>2
    <3>4. ASSUME NEW k \in 0 .. (n - 1) - 1
          PROVE  u[k] \in moves /\ u[k + 1] = step[u[k]]
      <4>1. k + 1 \in 0 .. n - 1 /\ k \in 0 .. n - 1
        BY <3>1
      <4>2. t[k + 1] \in moves /\ t[(k + 1) + 1] = step[t[k + 1]]
        BY <2>2, <4>1
      <4> QED
        BY <4>1, <4>2
    <3> HIDE DEF u
    <3>5. Way(step[s], n - 1, u)
      BY <2>2, <3>2, <3>3, <3>4
    <3> QED
      BY <2>2, <3>2, <3>3, <3>5, SMTT(30)
  <2>3. ASSUME NEW n \in Nat, NEW t \in [0 .. n -> S], Way(step[s], n, t)
        PROVE  t[n] \in Ends(s)
    <3> DEFINE u == [k \in 0 .. n + 1 |-> IF k = 0 THEN s ELSE t[k - 1]]
    <3>1. u \in [0 .. n + 1 -> S] /\ n + 1 \in Nat
      OBVIOUS
    <3>2. u[0] = s /\ u[n + 1] = t[n]
      OBVIOUS
    <3>3. ASSUME NEW k \in 0 .. (n + 1) - 1
          PROVE  u[k] \in moves /\ u[k + 1] = step[u[k]]
      <4>1. k + 1 \in 0 .. n + 1 /\ (k + 1) - 1 = k /\ k + 1 # 0 /\ k \in 0 .. n + 1
        OBVIOUS
      <4>2. u[k + 1] = t[k]
        BY <4>1
      <4>3. CASE k = 0
        BY <1>2, <2>3, <4>2, <4>3
      <4>4. CASE k # 0
        <5>1. k - 1 \in 0 .. n - 1 /\ (k - 1) + 1 = k
          BY <4>4
        <5>2. t[k - 1] \in moves /\ t[k] = step[t[k - 1]]
          BY <2>3, <5>1
        <5> QED
          BY <4>1, <4>2, <4>4, <5>2
      <4> QED
        BY <4>3, <4>4
    <3> HIDE DEF u
    <3>4. Way(s, n + 1, u)
      BY <2>3, <3>1, <3>2, <3>3
    <3> QED
      BY <2>3, <3>1, <3>2, <3>4
  <2>4. Ends(s) = Ends(step[s])
    <3>1. ASSUME NEW e \in Ends(s) PROVE e \in Ends(step[s])
      <4>1. PICK n \in Nat : \E t \in [0 .. n -> S] : Way(s, n, t) /\ e = t[n]
        BY <3>1
      <4>2. PICK t \in [0 .. n -> S] : Way(s, n, t) /\ e = t[n]
        BY <4>1
      <4> HIDE DEF Ends, Way
      <4> QED
        BY <2>2, <4>2
    <3>2. ASSUME NEW e \in Ends(step[s]) PROVE e \in Ends(s)
      <4>1. PICK n \in Nat : \E t \in [0 .. n -> S] : Way(step[s], n, t) /\ e = t[n]
        BY <3>2
      <4>2. PICK t \in [0 .. n -> S] : Way(step[s], n, t) /\ e = t[n]
        BY <4>1
      <4> HIDE DEF Ends, Way
      <4> QED
        BY <2>3, <4>2
    <3> QED
      BY <3>1, <3>2, Zenon
  <2> HIDE DEF Ends, One
  <2> QED
    BY <2>1, <2>4
<1>3. f \in [S -> V]
  <2> HIDE DEF Ends, One
  <2> QED
    BY <1>0
<1> HIDE DEF f
<1> QED
  BY <1>1, <1>2, <1>3 DEF FollowsSteps

-----------------------------------------------------------------------------
(* The functions of the heap.                                              *)

LEMMA NodeFacts ==
  /\ \A n \in Heap!Node : n.priority \in Priority /\ n.priority \in Int
  BY SettingsAreLegal DEF Heap!Node, Heap!PQueueAssumption

\* What a swap does, position by position.
LEMMA SwapFacts ==
  ASSUME NEW h \in Seq(Heap!Node), NEW i \in 1 .. Len(h), NEW j \in 1 .. Len(h), i # j
  PROVE  /\ Heap!Swap(h, i, j) \in Seq(Heap!Node) /\ Len(Heap!Swap(h, i, j)) = Len(h)
         /\ Heap!Swap(h, i, j)[i] = h[j] /\ Heap!Swap(h, i, j)[j] = h[i]
         /\ \A k \in 1 .. Len(h) : k # i /\ k # j => Heap!Swap(h, i, j)[k] = h[k]
<1> HIDE DEF Heap!Node
<1> QED
  BY DEF Heap!Swap


LEMMA UpUnfolds ==
  Heap!heapifyUp = [at \in Heap!Places |->
    IF at[2] > 1 /\ at[1][at[2]].priority < at[1][at[2] \div 2].priority
    THEN Heap!heapifyUp[<<Heap!Swap(at[1], at[2], at[2] \div 2), at[2] \div 2>>] ELSE at[1]]
<1> DEFINE Moves(at) == at[2] > 1 /\ at[1][at[2]].priority < at[1][at[2] \div 2].priority
           Step(at) == <<Heap!Swap(at[1], at[2], at[2] \div 2), at[2] \div 2>>
           moves == {at \in Heap!Places : Moves(at)}
           step == [at \in Heap!Places |-> IF at \in moves THEN Step(at) ELSE at]
           out == [at \in Heap!Places |-> at[1]]
<1>1. ASSUME NEW at \in Heap!Places, at[2] > 1
      PROVE  Step(at) \in Heap!Places
  <2>1. PICK h \in Seq(Heap!Node), i \in Nat : at = <<h, i>> /\ i \in 1 .. Len(h)
    BY DEF Heap!Places
  <2>2. i \div 2 \in 1 .. Len(h) /\ i \div 2 # i
    BY <1>1, <2>1
  <2>3. Heap!Swap(h, i, i \div 2) \in Seq(Heap!Node) /\ Len(Heap!Swap(h, i, i \div 2)) = Len(h)
    BY <2>1, <2>2, SwapFacts
  <2> QED
    BY <2>1, <2>2, <2>3 DEF Heap!Places
<1> HIDE DEF Step
<1>2. moves \in SUBSET Heap!Places /\ step \in [Heap!Places -> Heap!Places] /\ out \in [Heap!Places -> Seq(Heap!Node)]
  BY <1>1 DEF Heap!Places
<1> HIDE DEF moves, step, out
<1>3. PICK f : FollowsSteps(f, Heap!Places, moves, step, out) /\ f \in [Heap!Places -> Seq(Heap!Node)]
  BY <1>2, TailRecursion, Zenon
<1>4. f = [at \in Heap!Places |-> IF Moves(at) THEN f[Step(at)] ELSE at[1]]
  BY <1>3 DEF FollowsSteps, moves, step, out
<1> QED
  BY <1>4 DEF Heap!heapifyUp, Step

LEMMA ChildFacts ==
  ASSUME NEW h \in Seq(Heap!Node), NEW i \in 1 .. Len(h), NEW c, c = Heap!HighestPriority(h, i)
  PROVE  /\ c \in 1 .. Len(h) /\ (c = i \/ c = 2 * i \/ c = 2 * i + 1)
         /\ c # i => h[c].priority < h[i].priority
         /\ \A j \in 1 .. Len(h) : j = 2 * i \/ j = 2 * i + 1 => h[c].priority <= h[j].priority
<1> DEFINE b == IF 2 * i <= Len(h) /\ h[2 * i].priority < h[i].priority THEN 2 * i ELSE i
<1>1. c = IF 2 * i + 1 <= Len(h) /\ h[2 * i + 1].priority < h[b].priority THEN 2 * i + 1 ELSE b
  BY DEF Heap!HighestPriority
<1>2. \A j \in 1 .. Len(h) : h[j] \in Heap!Node
  <2> HIDE DEF Heap!Node
  <2> QED
    OBVIOUS
<1>3. Len(h) \in Nat /\ \A j \in 1 .. Len(h) : h[j].priority \in Int
  <2>1. Len(h) \in Nat
    OBVIOUS
  <2> QED
    BY <1>2, <2>1, NodeFacts
<1>4. /\ b \in 1 .. Len(h) /\ (b = i \/ b = 2 * i) /\ 2 * i # i
      /\ b # i => h[b].priority < h[i].priority
      /\ h[b].priority <= h[i].priority
      /\ 2 * i <= Len(h) => h[b].priority <= h[2 * i].priority
  <2>1. CASE 2 * i <= Len(h) /\ h[2 * i].priority < h[i].priority
    BY <1>3, <2>1
  <2>2. CASE 2 * i <= Len(h) /\ ~(h[2 * i].priority < h[i].priority)
    BY <1>3, <2>2
  <2>3. CASE ~(2 * i <= Len(h))
    BY <1>3, <2>3
  <2> QED
    BY <2>1, <2>2, <2>3
<1> HIDE DEF b
<1>5. CASE 2 * i + 1 <= Len(h) /\ h[2 * i + 1].priority < h[b].priority
  <2>1. c = 2 * i + 1 /\ 2 * i + 1 \in 1 .. Len(h) /\ 2 * i \in 1 .. Len(h)
    BY <1>1, <1>3, <1>5
  <2>2. h[c].priority < h[b].priority /\ h[b].priority \in Int /\ h[c].priority \in Int
    BY <1>3, <1>4, <1>5, <2>1
  <2>3. h[c].priority < h[i].priority /\ h[c].priority <= h[2 * i].priority
    BY <1>3, <1>4, <2>1, <2>2
  <2>4. h[c].priority <= h[2 * i + 1].priority
    BY <1>3, <2>1
  <2> QED
    BY <2>1, <2>3, <2>4
<1>6. CASE ~(2 * i + 1 <= Len(h) /\ h[2 * i + 1].priority < h[b].priority)
  <2>1. c = b
    BY <1>1, <1>6
  <2>2. ASSUME 2 * i + 1 \in 1 .. Len(h) PROVE h[c].priority <= h[2 * i + 1].priority
    <3>1. h[b].priority \in Int /\ h[2 * i + 1].priority \in Int
      BY <1>3, <1>4, <2>2
    <3>2. ~(h[2 * i + 1].priority < h[b].priority)
      BY <1>3, <1>6, <2>2
    <3> QED
      BY <2>1, <3>1, <3>2
  <2> QED
    BY <1>3, <1>4, <2>1, <2>2
<1> QED
  BY <1>5, <1>6

LEMMA DownUnfolds ==
  Heap!heapifyDown = [at \in Heap!Places |->
    IF Heap!HighestPriority(at[1], at[2]) = at[2] THEN at[1]
    ELSE Heap!heapifyDown[<<Heap!Swap(at[1], at[2], Heap!HighestPriority(at[1], at[2])),
                       Heap!HighestPriority(at[1], at[2])>>]]
<1> DEFINE Stays(at) == Heap!HighestPriority(at[1], at[2]) = at[2]
           Step(at) == <<Heap!Swap(at[1], at[2], Heap!HighestPriority(at[1], at[2])),
                         Heap!HighestPriority(at[1], at[2])>>
           moves == {at \in Heap!Places : ~Stays(at)}
           step == [at \in Heap!Places |-> IF at \in moves THEN Step(at) ELSE at]
           out == [at \in Heap!Places |-> at[1]]
<1>1. ASSUME NEW at \in Heap!Places, ~Stays(at)
      PROVE  Step(at) \in Heap!Places
  <2>1. PICK h \in Seq(Heap!Node), i \in Nat : at = <<h, i>> /\ i \in 1 .. Len(h)
    BY DEF Heap!Places
  <2>2. Heap!HighestPriority(h, i) \in 1 .. Len(h) /\ Heap!HighestPriority(h, i) # i
    BY <1>1, <2>1, ChildFacts
  <2>3. /\ Heap!Swap(h, i, Heap!HighestPriority(h, i)) \in Seq(Heap!Node)
        /\ Len(Heap!Swap(h, i, Heap!HighestPriority(h, i))) = Len(h)
    BY <2>1, <2>2, SwapFacts
  <2> QED
    BY <2>1, <2>2, <2>3 DEF Heap!Places
<1> HIDE DEF Step, Stays
<1>2. moves \in SUBSET Heap!Places /\ step \in [Heap!Places -> Heap!Places] /\ out \in [Heap!Places -> Seq(Heap!Node)]
  BY <1>1 DEF Heap!Places
<1> HIDE DEF moves, step, out
<1>3. PICK f : FollowsSteps(f, Heap!Places, moves, step, out) /\ f \in [Heap!Places -> Seq(Heap!Node)]
  BY <1>2, TailRecursion, Zenon
<1>4. f = [at \in Heap!Places |-> IF Stays(at) THEN at[1] ELSE f[Step(at)]]
  BY <1>3 DEF FollowsSteps, moves, step, out
<1> QED
  BY <1>4 DEF Heap!heapifyDown, Step, Stays

-----------------------------------------------------------------------------
(* Order.                                                                  *)

\* No node is more urgent than its parent, but for one that has yet to rise, or
\* the children of one that has yet to sink; the nodes below it are in order with
\* the one above it.
Ordered(h) == \A j \in 2 .. Len(h) : h[j \div 2].priority <= h[j].priority

Bridged(h, i) == \A j \in 2 .. Len(h) : j \div 2 = i /\ i > 1 => h[i \div 2].priority <= h[j].priority

OrderedAbove(h, i) ==
  Bridged(h, i) /\ \A j \in 2 .. Len(h) : j # i => h[j \div 2].priority <= h[j].priority

OrderedBelow(h, i) ==
  Bridged(h, i) /\ \A j \in 2 .. Len(h) : j \div 2 # i => h[j \div 2].priority <= h[j].priority

\* The same nodes, as often, in another order.
Count(h, n) == Cardinality({i \in DOMAIN h : h[i] = n})

Rearranged(h, r) ==
  /\ r \in Seq(Heap!Node) /\ Len(r) = Len(h)
  /\ \A n \in Heap!Node : Count(r, n) = Count(h, n)

LEMMA PriorityFacts ==
  ASSUME NEW h \in Seq(Heap!Node)
  PROVE  /\ Len(h) \in Nat /\ DOMAIN h = 1 .. Len(h)
         /\ \A j \in 1 .. Len(h) : h[j] \in Heap!Node /\ h[j].priority \in Int
<1>1. Len(h) \in Nat /\ DOMAIN h = 1 .. Len(h) /\ \A j \in 1 .. Len(h) : h[j] \in Heap!Node
  <2> HIDE DEF Heap!Node
  <2> QED
    OBVIOUS
<1> QED
  BY <1>1, NodeFacts

LEMMA HalfFacts ==
  ASSUME NEW i \in Nat, i > 1
  PROVE  /\ i \div 2 \in Nat /\ i \div 2 >= 1 /\ i \div 2 < i
         /\ i = 2 * (i \div 2) \/ i = 2 * (i \div 2) + 1
  OBVIOUS

\* In an ordered heap nothing is more urgent than the first node.
LEMMA FirstIsLeast ==
  ASSUME NEW h \in Seq(Heap!Node), Ordered(h), NEW i \in 1 .. Len(h)
  PROVE  h[1].priority <= h[i].priority
<1> DEFINE T == {j \in 1 .. Len(h) : ~(h[1].priority <= h[j].priority)}
<1> SUFFICES ASSUME T # {} PROVE FALSE
  OBVIOUS
<1>1. T \subseteq Nat
  BY PriorityFacts
<1>2. PICK j \in T : \A k \in T : j <= k
  BY <1>1, Least
<1>3. j \in 2 .. Len(h) /\ j \div 2 \in 1 .. Len(h) /\ j \div 2 < j
  BY <1>2, PriorityFacts, HalfFacts
<1>4. h[1].priority <= h[j \div 2].priority
  <2>1. j \div 2 \notin T
    BY <1>1, <1>2, <1>3
  <2> QED
    BY <1>3, <2>1
<1>5. h[j \div 2].priority <= h[j].priority
  BY <1>3 DEF Ordered
<1> QED
  BY <1>2, <1>3, <1>4, <1>5, PriorityFacts

LEMMA SameCount ==
  ASSUME NEW A, NEW B, IsFiniteSet(A), NEW f \in [A -> B],
         \A a, b \in A : f[a] = f[b] => a = b, \A b \in B : \E a \in A : f[a] = b
  PROVE  IsFiniteSet(B) /\ Cardinality(B) = Cardinality(A)
<1>1. f \in Bijection(A, B)
  BY DEF Bijection, Injection, Surjection, IsInjective
<1>2. ExistsBijection(A, B)
  BY <1>1 DEF ExistsBijection
<1> QED
  BY <1>2, FS_Bijection

LEMMA CountFacts ==
  ASSUME NEW h \in Seq(Heap!Node), NEW n
  PROVE  /\ IsFiniteSet({i \in DOMAIN h : h[i] = n}) /\ Count(h, n) \in Nat
         /\ Count(h, n) = 0 <=> \A i \in DOMAIN h : h[i] # n
<1>1. IsFiniteSet(1 .. Len(h))
  BY PriorityFacts, FS_Interval
<1>2. {i \in DOMAIN h : h[i] = n} \subseteq 1 .. Len(h)
  BY PriorityFacts
<1>3. IsFiniteSet({i \in DOMAIN h : h[i] = n})
  BY <1>1, <1>2, FS_Subset
<1> QED
  BY <1>3, FS_CardinalityType, FS_EmptySet DEF Count

\* Exchanging two nodes loses none.
LEMMA SwapRearranges ==
  ASSUME NEW h \in Seq(Heap!Node), NEW i \in 1 .. Len(h), NEW j \in 1 .. Len(h), i # j
  PROVE  Rearranged(h, Heap!Swap(h, i, j))
<1>1. PICK r : r = Heap!Swap(h, i, j)
  OBVIOUS
<1>2. /\ r \in Seq(Heap!Node) /\ Len(r) = Len(h) /\ r[i] = h[j] /\ r[j] = h[i]
      /\ \A k \in 1 .. Len(h) : k # i /\ k # j => r[k] = h[k]
  BY <1>1, SwapFacts
<1>3. DOMAIN r = 1 .. Len(h) /\ DOMAIN h = 1 .. Len(h)
  BY <1>2, PriorityFacts
<1>4. ASSUME NEW n \in Heap!Node PROVE Count(r, n) = Count(h, n)
  <2> DEFINE A == {k \in DOMAIN h : h[k] = n}
             B == {k \in DOMAIN r : r[k] = n}
             f == [k \in A |-> IF k = i THEN j ELSE IF k = j THEN i ELSE k]
  <2>1. f \in [A -> B]
    BY <1>2, <1>3
  <2>2. \A a, b \in A : f[a] = f[b] => a = b
    OBVIOUS
  <2>3. ASSUME NEW b \in B PROVE \E a \in A : f[a] = b
    <3> DEFINE a == IF b = i THEN j ELSE IF b = j THEN i ELSE b
    <3>1. a \in A
      BY <1>2, <1>3, <2>3
    <3>2. f[a] = b
      BY <3>1
    <3> QED
      BY <3>1, <3>2
  <2>4. IsFiniteSet(A)
    BY CountFacts
  <2> HIDE DEF A, B, f
  <2>5. Cardinality(B) = Cardinality(A)
    BY <2>1, <2>2, <2>3, <2>4, SameCount
  <2> QED
    BY <2>5 DEF Count, A, B
<1> QED
  BY <1>1, <1>2, <1>4 DEF Rearranged

LEMMA RearrangedTwice ==
  ASSUME NEW h, NEW r, NEW s, Rearranged(h, r), Rearranged(r, s)
  PROVE  Rearranged(h, s)
  BY DEF Rearranged

\* A node that is more urgent than its parent takes its place.
LEMMA RisesOrdered ==
  ASSUME NEW h \in Seq(Heap!Node), NEW i \in 2 .. Len(h), OrderedAbove(h, i),
         h[i].priority < h[i \div 2].priority
  PROVE  OrderedAbove(Heap!Swap(h, i, i \div 2), i \div 2)
<1>p. PICK p \in 1 .. Len(h) : p = i \div 2
  BY HalfFacts, PriorityFacts
<1>1. PICK r : p = i \div 2 /\ r = Heap!Swap(h, i, p)
  BY <1>p
<1>2. p < i /\ i \in 1 .. Len(h) /\ p # i /\ Len(h) \in Nat
  BY <1>1, HalfFacts, PriorityFacts
<1>3. /\ r[i] = h[p] /\ r[p] = h[i] /\ Len(r) = Len(h)
      /\ \A k \in 1 .. Len(h) : k # i /\ k # p => r[k] = h[k]
  BY <1>1, <1>2, SwapFacts, ZenonT(60)
<1>4. \A k \in 1 .. Len(h) : h[k].priority \in Int /\ r[k].priority \in Int
  BY <1>2, <1>3, PriorityFacts
<1>5. \A j \in 2 .. Len(h) : j \div 2 \in 1 .. Len(h) /\ j \div 2 < j
  BY <1>2, HalfFacts
<1>6. /\ \A j \in 2 .. Len(h) : j # i => h[j \div 2].priority <= h[j].priority
      /\ \A j \in 2 .. Len(h) : j \div 2 = i => h[p].priority <= h[j].priority
      /\ h[i].priority < h[p].priority
  BY <1>1, <1>2 DEF OrderedAbove, Bridged
<1>7. ASSUME NEW j \in 2 .. Len(r), j # p
      PROVE  r[j \div 2].priority <= r[j].priority
  <2>1. PICK q \in 1 .. Len(h) : q = j \div 2 /\ q # j /\ j \in 2 .. Len(h) /\ j \in 1 .. Len(h)
    BY <1>2, <1>3, <1>5
  <2>2. CASE j = i
    BY <1>1, <1>3, <1>4, <1>6, <2>1, <2>2
  <2>3. CASE q = p /\ j # i
    <3>1. r[q].priority = h[i].priority /\ r[j].priority = h[j].priority
      BY <1>3, <1>7, <2>1, <2>3
    <3>2. h[p].priority <= h[j].priority
      BY <1>6, <2>1, <2>3
    <3> QED
      BY <1>2, <1>4, <1>6, <2>1, <3>1, <3>2, SMTT(30)
  <2>4. CASE q = i
    <3>1. r[q].priority = h[p].priority /\ r[j].priority = h[j].priority
      BY <1>3, <1>7, <2>1, <2>4
    <3> QED
      BY <1>6, <2>1, <2>4, <3>1
  <2>5. CASE q # p /\ q # i /\ j # i
    <3>1. r[q] = h[q] /\ r[j] = h[j]
      BY <1>3, <1>7, <2>1, <2>5
    <3> QED
      BY <1>6, <2>1, <2>5, <3>1
  <2> QED
    BY <2>2, <2>3, <2>4, <2>5
<1>8. ASSUME NEW j \in 2 .. Len(r), j \div 2 = p, p > 1
      PROVE  r[p \div 2].priority <= r[j].priority
  <2>1. PICK q \in 1 .. Len(h) : q = p \div 2 /\ q < p
    BY <1>2, <1>5, <1>8, SMTT(30)
  <2>2. r[q] = h[q] /\ h[q].priority <= h[p].priority
    BY <1>2, <1>3, <1>6, <1>8, <2>1
  <2>3. h[p].priority <= r[j].priority
    <3>1. CASE j = i
      BY <1>3, <1>4, <3>1
    <3>2. CASE j # i
      <4>1. j # p /\ j \in 1 .. Len(h) /\ j \in 2 .. Len(h)
        BY <1>2, <1>3, <1>5, <1>8
      <4> QED
        BY <1>3, <1>6, <1>8, <3>2, <4>1
    <3> QED
      BY <3>1, <3>2
  <2>4. j \in 1 .. Len(h)
    BY <1>2, <1>3
  <2> QED
    BY <1>4, <2>1, <2>2, <2>3, <2>4, SMTT(30)
<1> QED
  BY <1>1, <1>7, <1>8 DEF OrderedAbove, Bridged

\* A node that is less urgent than a child changes places with the more urgent one.
LEMMA SinksOrdered ==
  ASSUME NEW h \in Seq(Heap!Node), NEW i \in 1 .. Len(h), OrderedBelow(h, i),
         NEW c, c = Heap!HighestPriority(h, i), c # i
  PROVE  OrderedBelow(Heap!Swap(h, i, c), c)
<1>1. /\ c \in 1 .. Len(h) /\ c \in 2 .. Len(h) /\ c \div 2 = i /\ c # i
      /\ h[c].priority < h[i].priority
      /\ \A j \in 1 .. Len(h) : j \div 2 = i /\ j > 1 => h[c].priority <= h[j].priority
  <2>1. /\ c \in 1 .. Len(h) /\ (c = 2 * i \/ c = 2 * i + 1)
        /\ h[c].priority < h[i].priority
        /\ \A j \in 1 .. Len(h) : j = 2 * i \/ j = 2 * i + 1 => h[c].priority <= h[j].priority
    BY ChildFacts
  <2>2. \A j \in 1 .. Len(h) : j \div 2 = i /\ j > 1 => j = 2 * i \/ j = 2 * i + 1
    BY HalfFacts
  <2>3. Len(h) \in Nat /\ (2 * i) \div 2 = i /\ (2 * i + 1) \div 2 = i
    BY PriorityFacts
  <2>4. c \in 2 .. Len(h) /\ c \div 2 = i
    <3>1. 2 * i >= 2 /\ 2 * i + 1 >= 2 /\ 2 * i \in Nat /\ 2 * i + 1 \in Nat /\ c <= Len(h)
      BY <2>1, <2>3
    <3>2. CASE c = 2 * i
      BY <2>3, <3>1, <3>2
    <3>3. CASE c = 2 * i + 1
      BY <2>3, <3>1, <3>3
    <3> QED
      BY <2>1, <3>2, <3>3
  <2> QED
    BY <2>1, <2>2, <2>4
<1>2. PICK r : r = Heap!Swap(h, i, c)
  OBVIOUS
<1>3. /\ r[i] = h[c] /\ r[c] = h[i] /\ Len(r) = Len(h)
      /\ \A k \in 1 .. Len(h) : k # i /\ k # c => r[k] = h[k]
  BY <1>1, <1>2, SwapFacts, SMTT(60)
<1>4. /\ Len(h) \in Nat
      /\ \A k \in 1 .. Len(h) : h[k].priority \in Int /\ r[k].priority \in Int
  BY <1>1, <1>3, PriorityFacts
<1>5. \A j \in 2 .. Len(h) : j \div 2 \in 1 .. Len(h) /\ j \div 2 < j /\ j \in 1 .. Len(h)
  BY <1>4, HalfFacts
<1>6. /\ \A j \in 2 .. Len(h) : j \div 2 # i => h[j \div 2].priority <= h[j].priority
      /\ i > 1 => h[i \div 2].priority <= h[c].priority
  BY <1>1 DEF OrderedBelow, Bridged
<1>7. ASSUME NEW j \in 2 .. Len(r), j \div 2 # c
      PROVE  r[j \div 2].priority <= r[j].priority
  <2>1. PICK q \in 1 .. Len(h) : q = j \div 2 /\ q # j /\ j \in 2 .. Len(h) /\ j \in 1 .. Len(h) /\ j > 1
    BY <1>3, <1>4, <1>5
  <2>2. CASE q = i /\ j = c
    BY <1>1, <1>3, <1>4, <2>1, <2>2
  <2>3. CASE q = i /\ j # c
    <3>1. r[q].priority = h[c].priority /\ r[j].priority = h[j].priority
      BY <1>3, <2>1, <2>3
    <3> QED
      BY <1>1, <2>1, <2>3, <3>1
  <2>4. CASE q # i /\ j = i
    <3>1. r[q].priority = h[q].priority /\ r[j].priority = h[c].priority
      BY <1>3, <1>7, <2>1, <2>4
    <3> QED
      BY <1>6, <2>1, <2>4, <3>1
  <2>5. CASE q # i /\ j # i
    <3>1. r[q] = h[q] /\ r[j] = h[j]
      BY <1>1, <1>3, <1>7, <2>1, <2>5
    <3> QED
      BY <1>6, <2>1, <2>5, <3>1
  <2> QED
    BY <2>2, <2>3, <2>4, <2>5
<1>8. ASSUME NEW j \in 2 .. Len(r), j \div 2 = c
      PROVE  r[c \div 2].priority <= r[j].priority
  <2>1. j \in 2 .. Len(h) /\ j \in 1 .. Len(h) /\ j # c /\ j # i
    <3>1. j \in 2 .. Len(h) /\ c < j
      BY <1>3, <1>5, <1>8
    <3>2. i < c
      BY <1>1, <1>5
    <3> QED
      BY <1>1, <1>5, <3>1, <3>2
  <2>2. h[c].priority <= h[j].priority
    BY <1>1, <1>6, <1>8, <2>1
  <2> QED
    BY <1>1, <1>3, <2>1, <2>2
<1> QED
  BY <1>2, <1>7, <1>8 DEF OrderedBelow, Bridged

-----------------------------------------------------------------------------
(* The calls.                                                              *)

\* A node that goes up leaves an ordered heap of the same nodes.
LEMMA UpSorts ==
  ASSUME NEW h \in Seq(Heap!Node), NEW i \in 1 .. Len(h), OrderedAbove(h, i)
  PROVE  Ordered(Heap!heapifyUp[<<h, i>>]) /\ Rearranged(h, Heap!heapifyUp[<<h, i>>])
<1> DEFINE Sorts(g, j) == Ordered(Heap!heapifyUp[<<g, j>>]) /\ Rearranged(g, Heap!heapifyUp[<<g, j>>])
           T == {j \in Nat : \E g \in Seq(Heap!Node) : j \in 1 .. Len(g) /\ OrderedAbove(g, j) /\ ~Sorts(g, j)}
<1> HIDE DEF Sorts
<1>1. SUFFICES ASSUME T # {} PROVE FALSE
  <2>1. i \in Nat
    BY PriorityFacts
  <2>2. T = {} => Sorts(h, i)
    BY <2>1
  <2> QED
    BY <2>2 DEF Sorts
<1>2. PICK j \in T : \A k \in T : j <= k
  BY <1>1, Least
<1>3. PICK g \in Seq(Heap!Node) : j \in 1 .. Len(g) /\ OrderedAbove(g, j) /\ ~Sorts(g, j)
  BY <1>2
<1>4. <<g, j>> \in Heap!Places /\ Len(g) \in Nat /\ DOMAIN g = 1 .. Len(g)
  BY <1>3, PriorityFacts DEF Heap!Places
<1>5. Heap!heapifyUp[<<g, j>>] =
        IF j > 1 /\ g[j].priority < g[j \div 2].priority
        THEN Heap!heapifyUp[<<Heap!Swap(g, j, j \div 2), j \div 2>>] ELSE g
  BY <1>4, UpUnfolds
<1>6. CASE j > 1 /\ g[j].priority < g[j \div 2].priority
  <2>1. PICK p \in 1 .. Len(g) : p = j \div 2 /\ p < j
    BY <1>3, <1>4, <1>6, HalfFacts
  <2>2. PICK r : r = Heap!Swap(g, j, p)
    OBVIOUS
  <2>3. r \in Seq(Heap!Node) /\ Len(r) = Len(g) /\ Rearranged(g, r)
    BY <1>3, <1>4, <2>1, <2>2, SwapFacts, SwapRearranges
  <2>4. OrderedAbove(r, p)
    <3>1. j \in 2 .. Len(g)
      BY <1>3, <1>4, <1>6
    <3> QED
      BY <1>3, <1>6, <2>1, <2>2, <3>1, RisesOrdered
  <2>5. p \notin T
    BY <1>2, <1>4, <2>1
  <2>6. Sorts(r, p)
    BY <1>4, <2>1, <2>3, <2>4, <2>5
  <2>7. Heap!heapifyUp[<<g, j>>] = Heap!heapifyUp[<<r, p>>]
    BY <1>5, <1>6, <2>1, <2>2
  <2> QED
    BY <1>3, <2>3, <2>6, <2>7, RearrangedTwice DEF Sorts
<1>7. CASE ~(j > 1 /\ g[j].priority < g[j \div 2].priority)
  <2>1. Heap!heapifyUp[<<g, j>>] = g
    BY <1>5, <1>7
  <2>2. ASSUME NEW k \in 2 .. Len(g) PROVE g[k \div 2].priority <= g[k].priority
    <3>1. CASE k # j
      BY <1>3, <3>1 DEF OrderedAbove
    <3>2. CASE k = j
      <4>1. j > 1 /\ j \div 2 \in 1 .. Len(g)
        BY <1>3, <1>4, <3>2, HalfFacts
      <4>2. g[j].priority \in Int /\ g[j \div 2].priority \in Int
        BY <1>3, <4>1, PriorityFacts
      <4> QED
        BY <1>7, <3>2, <4>1, <4>2
    <3> QED
      BY <3>1, <3>2
  <2> QED
    BY <1>3, <2>1, <2>2 DEF Sorts, Ordered, Rearranged
<1> QED
  BY <1>6, <1>7

\* So does one that goes down.
LEMMA DownSorts ==
  ASSUME NEW h \in Seq(Heap!Node), NEW i \in 1 .. Len(h), OrderedBelow(h, i)
  PROVE  Ordered(Heap!heapifyDown[<<h, i>>]) /\ Rearranged(h, Heap!heapifyDown[<<h, i>>])
<1> DEFINE Sorts(g, j) == Ordered(Heap!heapifyDown[<<g, j>>]) /\ Rearranged(g, Heap!heapifyDown[<<g, j>>])
           Fails(g, j) == j \in 1 .. Len(g) /\ OrderedBelow(g, j) /\ ~Sorts(g, j)
           T == {m \in Nat : \E g \in Seq(Heap!Node) : \E j \in 1 .. Len(g) : Fails(g, j) /\ m = Len(g) - j}
<1> HIDE DEF Sorts, Fails
<1>1. SUFFICES ASSUME T # {} PROVE FALSE
  <2>1. Len(h) - i \in Nat
    BY PriorityFacts
  <2>2. T = {} => Sorts(h, i)
    BY <2>1 DEF Fails
  <2> QED
    BY <2>2 DEF Sorts
<1>2. PICK m \in T : \A k \in T : m <= k
  BY <1>1, Least
<1>3. PICK g \in Seq(Heap!Node) : \E j \in 1 .. Len(g) : Fails(g, j) /\ m = Len(g) - j
  BY <1>2
<1>4. PICK j \in 1 .. Len(g) : Fails(g, j) /\ m = Len(g) - j
  BY <1>3
<1>5. <<g, j>> \in Heap!Places /\ Len(g) \in Nat /\ DOMAIN g = 1 .. Len(g)
  BY <1>4, PriorityFacts DEF Heap!Places
<1>6. PICK c : c = Heap!HighestPriority(g, j)
  OBVIOUS
<1>7. Heap!heapifyDown[<<g, j>>] = IF c = j THEN g ELSE Heap!heapifyDown[<<Heap!Swap(g, j, c), c>>]
  BY <1>5, <1>6, DownUnfolds
<1>8. OrderedBelow(g, j) /\ ~Sorts(g, j)
  BY <1>4 DEF Fails
<1>9. CASE c # j
  <2>1. c \in 1 .. Len(g) /\ c > j
    <3>1. c \in 1 .. Len(g) /\ (c = 2 * j \/ c = 2 * j + 1)
      BY <1>4, <1>6, <1>9, ChildFacts
    <3>2. 2 * j > j /\ 2 * j + 1 > j
      BY <1>5
    <3> QED
      BY <3>1, <3>2
  <2>2. PICK r : r = Heap!Swap(g, j, c)
    OBVIOUS
  <2>3. r \in Seq(Heap!Node) /\ Len(r) = Len(g) /\ Rearranged(g, r)
    BY <1>4, <1>9, <2>1, <2>2, SwapFacts, SwapRearranges
  <2>4. OrderedBelow(r, c)
    BY <1>4, <1>6, <1>8, <1>9, <2>2, SinksOrdered
  <2>5. Len(r) - c \in Nat /\ Len(r) - c < m
    BY <1>4, <1>5, <2>1, <2>3
  <2>6. Len(r) - c \notin T
    BY <1>2, <2>5
  <2>7. Sorts(r, c)
    BY <2>1, <2>3, <2>4, <2>5, <2>6 DEF Fails
  <2>8. Heap!heapifyDown[<<g, j>>] = Heap!heapifyDown[<<r, c>>]
    BY <1>7, <1>9, <2>2
  <2> QED
    BY <1>8, <2>3, <2>7, <2>8, RearrangedTwice DEF Sorts
<1>10. CASE c = j
  <2>1. Heap!heapifyDown[<<g, j>>] = g
    BY <1>7, <1>10
  <2>2. ASSUME NEW k \in 2 .. Len(g) PROVE g[k \div 2].priority <= g[k].priority
    <3>1. CASE k \div 2 # j
      BY <1>8, <3>1 DEF OrderedBelow
    <3>2. CASE k \div 2 = j
      <4>1. k \in 1 .. Len(g) /\ (k = 2 * j \/ k = 2 * j + 1)
        BY <1>5, <3>2, HalfFacts
      <4>2. \A a \in 1 .. Len(g) : a = 2 * j \/ a = 2 * j + 1 => g[c].priority <= g[a].priority
        BY <1>4, <1>6, ChildFacts
      <4>3. g[j].priority <= g[k].priority
        BY <1>10, <4>1, <4>2
      <4> QED
        BY <3>2, <4>3
    <3> QED
      BY <3>1, <3>2
  <2> QED
    BY <1>8, <2>1, <2>2 DEF Sorts, Ordered, Rearranged
<1> QED
  BY <1>9, <1>10

-----------------------------------------------------------------------------
(* Push and Pop.                                                           *)

\* What is pushed is found once more, and everything else as often as before.
LEMMA PushedFacts ==
  ASSUME NEW h \in Seq(Heap!Node), NEW n \in Heap!Node, Ordered(h)
  PROVE  /\ Heap!Pushed(h, n) \in Seq(Heap!Node) /\ Ordered(Heap!Pushed(h, n))
         /\ \A m \in Heap!Node : Count(Heap!Pushed(h, n), m) = IF m = n THEN Count(h, m) + 1 ELSE Count(h, m)
<1>1. PICK a : a = Append(h, n)
  OBVIOUS
<1>2. /\ a \in Seq(Heap!Node) /\ Len(a) = Len(h) + 1 /\ Len(h) \in Nat
      /\ a[Len(h) + 1] = n /\ \A k \in 1 .. Len(h) : a[k] = h[k]
  <2> HIDE DEF Heap!Node
  <2> QED
    BY <1>1
<1>3. DOMAIN a = 1 .. Len(h) + 1 /\ DOMAIN h = 1 .. Len(h)
  BY <1>2, PriorityFacts
<1>4. OrderedAbove(a, Len(h) + 1)
  <2>1. ASSUME NEW j \in 2 .. Len(a) PROVE j \div 2 # Len(h) + 1
    BY <1>2, HalfFacts
  <2>2. ASSUME NEW j \in 2 .. Len(a), j # Len(h) + 1 PROVE a[j \div 2].priority <= a[j].priority
    <3>1. j \in 2 .. Len(h) /\ j \in 1 .. Len(h) /\ j \div 2 \in 1 .. Len(h)
      BY <1>2, <2>2, HalfFacts
    <3> QED
      BY <1>2, <3>1 DEF Ordered
  <2> QED
    BY <2>1, <2>2 DEF OrderedAbove, Bridged
<1>5. Ordered(Heap!heapifyUp[<<a, Len(h) + 1>>]) /\ Rearranged(a, Heap!heapifyUp[<<a, Len(h) + 1>>])
  <2>1. Len(h) + 1 \in 1 .. Len(a)
    BY <1>2
  <2> QED
    BY <1>2, <1>4, <2>1, UpSorts
<1>6. ASSUME NEW m \in Heap!Node
      PROVE  Count(a, m) = IF m = n THEN Count(h, m) + 1 ELSE Count(h, m)
  <2> DEFINE A == {i \in DOMAIN h : h[i] = m}
             B == {i \in DOMAIN a : a[i] = m}
  <2>1. IsFiniteSet(A) /\ Count(h, m) = Cardinality(A) /\ Count(a, m) = Cardinality(B)
    BY CountFacts DEF Count
  <2>2. CASE m = n
    <3>1. B = A \cup {Len(h) + 1} /\ Len(h) + 1 \notin A
      BY <1>2, <1>3, <2>2
    <3> HIDE DEF A, B
    <3>2. Cardinality(A \cup {Len(h) + 1}) = Cardinality(A) + 1
      BY <2>1, <3>1, FS_AddElement
    <3> QED
      BY <2>1, <2>2, <3>1, <3>2
  <2>3. CASE m # n
    <3>1. B = A
      BY <1>2, <1>3, <2>3
    <3> QED
      BY <2>1, <2>3, <3>1
  <2> QED
    BY <2>2, <2>3
<1> QED
  BY <1>1, <1>5, <1>6 DEF Rearranged, Heap!Pushed

\* What is popped is the first node, found once less.
LEMMA PoppedFacts ==
  ASSUME NEW h \in Seq(Heap!Node), Ordered(h), h # <<>>
  PROVE  /\ Heap!Popped(h) \in Seq(Heap!Node) /\ Ordered(Heap!Popped(h)) /\ h[1] \in Heap!Node
         /\ \A m \in Heap!Node : Count(Heap!Popped(h), m) = IF m = h[1] THEN Count(h, m) - 1 ELSE Count(h, m)
<1>1. PICK rest : rest = SubSeq(h, 1, Len(h) - 1)
  OBVIOUS
<1>2. /\ Len(h) \in Nat /\ Len(h) >= 1 /\ DOMAIN h = 1 .. Len(h) /\ h[1] \in Heap!Node
      /\ rest \in Seq(Heap!Node) /\ Len(rest) = Len(h) - 1 /\ DOMAIN rest = 1 .. Len(h) - 1
      /\ \A k \in 1 .. Len(h) - 1 : rest[k] = h[k]
  <2> HIDE DEF Heap!Node
  <2>1. Len(h) \in Nat /\ Len(h) >= 1 /\ DOMAIN h = 1 .. Len(h)
    OBVIOUS
  <2>2. h[1] \in Heap!Node
    BY <2>1
  <2>3. Len(h) - 1 \in Nat /\ \A k \in 1 .. Len(h) - 1 : h[k] \in Heap!Node
    BY <2>1
  <2>4. rest \in Seq(Heap!Node) /\ Len(rest) = Len(h) - 1
    BY <1>1, <2>1, <2>3
  <2>5. \A k \in 1 .. Len(h) - 1 : rest[k] = h[k]
    BY <1>1, <2>1, <2>3
  <2> QED
    BY <2>1, <2>2, <2>4, <2>5
<1>3. CASE Len(h) = 1
  <2>1. Heap!Popped(h) = <<>>
    <3>1. rest = <<>>
      <4> HIDE DEF Heap!Node
      <4> QED
        BY <1>2, <1>3
    <3> QED
      BY <1>1, <3>1 DEF Heap!Popped
  <2>2. <<>> \in Seq(Heap!Node) /\ Len(<<>>) = 0 /\ DOMAIN <<>> = {}
    OBVIOUS
  <2>3. Ordered(<<>>)
    BY <2>2 DEF Ordered
  <2>4. ASSUME NEW m \in Heap!Node
        PROVE  Count(<<>>, m) = IF m = h[1] THEN Count(h, m) - 1 ELSE Count(h, m)
    <3>1. {i \in DOMAIN <<>> : <<>>[i] = m} = {}
      BY <2>2
    <3>2. {i \in DOMAIN h : h[i] = m} = IF m = h[1] THEN {1} ELSE {}
      BY <1>2, <1>3
    <3>3. Cardinality({}) = 0 /\ Cardinality({1}) = 1
      BY FS_EmptySet, FS_Singleton
    <3>4. Count(<<>>, m) = 0
      BY <3>1, <3>3 DEF Count
    <3>5. Count(h, m) = IF m = h[1] THEN 1 ELSE 0
      BY <3>2, <3>3 DEF Count
    <3> QED
      BY <3>4, <3>5
  <2> QED
    BY <1>2, <2>1, <2>2, <2>3, <2>4
<1>4. CASE Len(h) > 1
  <2>1. PICK g : g = [rest EXCEPT ![1] = h[Len(h)]]
    OBVIOUS
  <2>2. /\ g \in Seq(Heap!Node) /\ Len(g) = Len(h) - 1 /\ DOMAIN g = 1 .. Len(h) - 1
        /\ g[1] = h[Len(h)] /\ \A k \in 2 .. Len(h) - 1 : g[k] = h[k]
    <3> HIDE DEF Heap!Node
    <3>1. h[Len(h)] \in Heap!Node
      BY <1>2
    <3>2. 1 \in DOMAIN rest /\ g \in [1 .. Len(h) - 1 -> Heap!Node] /\ g[1] = h[Len(h)]
      BY <1>2, <1>4, <2>1, <3>1
    <3>3. \A k \in 2 .. Len(h) - 1 : g[k] = h[k]
      BY <1>2, <1>4, <2>1
    <3>4. Len(h) - 1 \in Nat
      BY <1>2
    <3>5. g \in Seq(Heap!Node) /\ Len(g) = Len(h) - 1 /\ DOMAIN g = 1 .. Len(h) - 1
      BY <3>2, <3>4
    <3> QED
      BY <3>2, <3>3, <3>5
  <2>3. Heap!Popped(h) = Heap!heapifyDown[<<g, 1>>]
    <3>1. rest # <<>>
      <4>1. Len(rest) # 0
        BY <1>2, <1>4
      <4> QED
        BY <4>1
    <3> QED
      BY <1>1, <2>1, <3>1 DEF Heap!Popped
  <2>4. OrderedBelow(g, 1)
    <3>1. ASSUME NEW j \in 2 .. Len(g), j \div 2 # 1 PROVE g[j \div 2].priority <= g[j].priority
      <4>1. j \in 2 .. Len(h) - 1 /\ j \in 2 .. Len(h) /\ j \div 2 \in 2 .. Len(h) - 1
        BY <1>2, <2>2, <3>1, HalfFacts
      <4>2. g[j] = h[j] /\ g[j \div 2] = h[j \div 2] /\ h[j \div 2].priority <= h[j].priority
        BY <2>2, <4>1 DEF Ordered
      <4> QED
        BY <4>2
    <3> QED
      BY <3>1 DEF OrderedBelow, Bridged
  <2>5. Ordered(Heap!Popped(h)) /\ Rearranged(g, Heap!Popped(h))
    <3>1. 1 \in 1 .. Len(g)
      BY <1>2, <1>4, <2>2
    <3> QED
      BY <2>2, <2>3, <2>4, <3>1, DownSorts
  <2>6. ASSUME NEW m \in Heap!Node
        PROVE  Count(g, m) = IF m = h[1] THEN Count(h, m) - 1 ELSE Count(h, m)
    <3> DEFINE A == {i \in DOMAIN h : h[i] = m}
               B == {i \in DOMAIN g : g[i] = m}
               C == A \ {1}
               f == [i \in C |-> IF i = Len(h) THEN 1 ELSE i]
    <3>1. /\ IsFiniteSet(A) /\ Count(h, m) = Cardinality(A) /\ Count(g, m) = Cardinality(B)
          /\ 1 \in A <=> m = h[1]
      <4>1. IsFiniteSet(A) /\ Count(h, m) = Cardinality(A)
        BY CountFacts DEF Count
      <4>2. Count(g, m) = Cardinality(B)
        BY DEF Count
      <4>3. 1 \in A <=> m = h[1]
        BY <1>2
      <4> QED
        BY <4>1, <4>2, <4>3
    <3>2. f \in [C -> B]
      <4> SUFFICES ASSUME NEW i \in C PROVE (IF i = Len(h) THEN 1 ELSE i) \in B
        OBVIOUS
      <4>1. CASE i = Len(h)
        BY <1>2, <1>4, <2>2, <4>1
      <4>2. CASE i # Len(h)
        <5>1. i \in 2 .. Len(h) - 1 /\ i \in 1 .. Len(h) - 1 /\ h[i] = m
          BY <1>2, <4>2
        <5> QED
          BY <2>2, <4>2, <5>1
      <4> QED
        BY <4>1, <4>2
    <3>3. \A a, b \in C : f[a] = f[b] => a = b
      OBVIOUS
    <3>4. ASSUME NEW b \in B PROVE \E a \in C : f[a] = b
      <4>1. CASE b = 1
        <5>1. Len(h) \in C
          BY <1>2, <1>4, <2>2, <3>4, <4>1
        <5> QED
          BY <4>1, <5>1
      <4>2. CASE b # 1
        <5>1. b \in 2 .. Len(h) - 1 /\ b \in 1 .. Len(h) /\ g[b] = m
          BY <1>2, <2>2, <3>4, <4>2
        <5>2. b \in C /\ b # Len(h)
          BY <1>2, <2>2, <5>1
        <5> QED
          BY <5>2
      <4> QED
        BY <4>1, <4>2
    <3> HIDE DEF A, B, C, f
    <3>5. IsFiniteSet(C) /\ Cardinality(C) = IF 1 \in A THEN Cardinality(A) - 1 ELSE Cardinality(A)
      BY <3>1, FS_RemoveElement DEF C
    <3>6. Cardinality(B) = Cardinality(C)
      BY <3>2, <3>3, <3>4, <3>5, SameCount
    <3> QED
      BY <3>1, <3>5, <3>6
  <2> QED
    BY <1>2, <2>5, <2>6 DEF Rearranged
<1> QED
  BY <1>2, <1>3, <1>4

-----------------------------------------------------------------------------
(* The theorems about the heap.                                            *)

HeapInv == heap \in Seq(Heap!Node) /\ Ordered(heap)

ContainersInv == CircularInv /\ HeapInv

\* What the heap holds, as the collection sees it.
Held == [n \in Heap!Node |-> Heap!Cardinality({i \in DOMAIN heap : heap[i] = n})]

LEMMA CardinalityInHeap == \A S : Heap!Cardinality(S) = Cardinality(S)
  BY DEF Heap!Cardinality, Cardinality

LEMMA HeldIsCounted ==
  /\ Held = [n \in Heap!Node |-> Count(heap, n)]
  /\ Held' = [n \in Heap!Node |-> Count(heap', n)]
<1> HIDE DEF Heap!Node
<1> QED
  BY CardinalityInHeap DEF Held, Count

LEMMA HeapInit ==
  ASSUME Heap!Init
  PROVE  HeapInv /\ Heap!Bag!Init
<1>1. heap = <<>> /\ <<>> \in Seq(Heap!Node) /\ Len(<<>>) = 0 /\ DOMAIN <<>> = {}
  BY DEF Heap!Init
<1>2. Ordered(<<>>)
  BY <1>1 DEF Ordered
<1>3. \A n \in Heap!Node : Count(heap, n) = 0
  <2>1. \A n \in Heap!Node : {i \in DOMAIN heap : heap[i] = n} = {}
    BY <1>1
  <2> QED
    BY <2>1, FS_EmptySet DEF Count
<1>4. Heap!Bag!Init
  <2>1. Held = [n \in Heap!Bag!Node |-> 0]
    BY <1>3, HeldIsCounted DEF Heap!Bag!Node, Heap!Node
  <2> QED
    BY <2>1 DEF Heap!Bag!Init, Held
<1> QED
  BY <1>1, <1>2, <1>4 DEF HeapInv

LEMMA PushPuts ==
  ASSUME HeapInv, NEW n \in Heap!Node, Heap!Push(n)
  PROVE  HeapInv' /\ Held' = [Held EXCEPT ![n] = @ + 1]
<1>1. heap' = Heap!Pushed(heap, n)
  BY DEF Heap!Push
<1>2. HeapInv'
  BY <1>1, PushedFacts DEF HeapInv
<1>3. \A m \in Heap!Node : Count(heap', m) = IF m = n THEN Count(heap, m) + 1 ELSE Count(heap, m)
  BY <1>1, PushedFacts DEF HeapInv
<1> HIDE DEF Heap!Node
<1> QED
  BY <1>2, <1>3, HeldIsCounted

LEMMA PopTakes ==
  ASSUME HeapInv, Heap!Pop
  PROVE  HeapInv' /\ \E n \in Heap!Node :
           /\ Held' = [Held EXCEPT ![n] = @ - 1]
           /\ Held[n] > 0 /\ \A m \in Heap!Node : Held[m] > 0 => n.priority <= m.priority
<1>1. heap # <<>> /\ heap' = Heap!Popped(heap)
  BY DEF Heap!Pop
<1>2. PICK n : n = heap[1]
  OBVIOUS
<1>3. HeapInv' /\ n \in Heap!Node
  BY <1>1, <1>2, PoppedFacts DEF HeapInv
<1>4. \A m \in Heap!Node : Count(heap', m) = IF m = n THEN Count(heap, m) - 1 ELSE Count(heap, m)
  BY <1>1, <1>2, PoppedFacts DEF HeapInv
<1>5. \A m \in Heap!Node : Count(heap, m) \in Nat /\ (Count(heap, m) > 0 => \E i \in DOMAIN heap : heap[i] = m)
  <2> SUFFICES ASSUME NEW m \in Heap!Node
               PROVE  Count(heap, m) \in Nat /\ (Count(heap, m) # 0 => \E i \in DOMAIN heap : heap[i] = m)
    OBVIOUS
  <2> QED
    BY CountFacts DEF HeapInv
<1>6. Count(heap, n) > 0
  <2>1. 1 \in DOMAIN heap
    BY <1>1, PriorityFacts DEF HeapInv
  <2>2. Count(heap, n) # 0
    BY <1>2, <2>1, CountFacts DEF HeapInv
  <2> QED
    BY <1>3, <1>5, <2>2
<1>7. ASSUME NEW m \in Heap!Node, Count(heap, m) > 0 PROVE n.priority <= m.priority
  <2>1. PICK i \in DOMAIN heap : heap[i] = m
    BY <1>5, <1>7
  <2> QED
    BY <1>2, <2>1, FirstIsLeast, PriorityFacts DEF HeapInv
<1> HIDE DEF Heap!Node
<1>8. Held' = [Held EXCEPT ![n] = @ - 1]
  BY <1>3, <1>4, HeldIsCounted
<1>9. Held[n] > 0 /\ \A m \in Heap!Node : Held[m] > 0 => n.priority <= m.priority
  BY <1>3, <1>6, <1>7, HeldIsCounted
<1> QED
  BY <1>3, <1>8, <1>9

LEMMA HeapStep ==
  ASSUME HeapInv, [Heap!Next]_heap
  PROVE  HeapInv' /\ [Heap!Bag!Next]_Held
<1>1. CASE UNCHANGED heap
  BY <1>1 DEF HeapInv, Ordered, Held
<1>2. ASSUME NEW n \in Heap!Node, Heap!Push(n) PROVE HeapInv' /\ Heap!Bag!Next
  <2>1. HeapInv' /\ Held' = [Held EXCEPT ![n] = @ + 1]
    BY <1>2, PushPuts
  <2>2. Heap!Bag!Put(n) /\ n \in Heap!Bag!Node
    BY <2>1 DEF Heap!Bag!Put, Heap!Bag!Node, Heap!Node, Held
  <2> QED
    BY <2>1, <2>2 DEF Heap!Bag!Next
<1>3. CASE Heap!Pop
  <2>1. HeapInv'
    BY <1>3, PopTakes
  <2>2. PICK n \in Heap!Node :
          /\ Held' = [Held EXCEPT ![n] = @ - 1]
          /\ Held[n] > 0 /\ \A m \in Heap!Node : Held[m] > 0 => n.priority <= m.priority
    BY <1>3, PopTakes
  <2>3. Heap!Bag!Take(n) /\ n \in Heap!Bag!Node
    BY <2>2 DEF Heap!Bag!Take, Heap!Bag!Node, Heap!Node, Held
  <2> QED
    BY <2>1, <2>3 DEF Heap!Bag!Next
<1> QED
  BY <1>1, <1>2, <1>3 DEF Heap!Next

LEMMA ContainersStep ==
  ASSUME ContainersInv, [ContainersNext]_<<setting, vars, heap>>
  PROVE  ContainersInv' /\ [Heap!Bag!Next]_Held
<1>1. [Next]_vars /\ [Heap!Next]_heap
  BY DEF ContainersNext
<1>2. CircularInv'
  BY <1>1, SettingsAreLegal, StepKeeps DEF ContainersInv
<1> QED
  BY <1>1, <1>2, HeapStep DEF ContainersInv

\* After every push and pop a most urgent node is at the front of the heap, and
\* the circular array keeps its shape, whatever is put into them and however large
\* they are.
THEOREM FrontOfTheHeap == ContainersSpec => []FrontIsMostUrgent
<1>1. ContainersInit => ContainersInv
  BY SettingsAreLegal, InvInit, HeapInit DEF ContainersInit, ContainersInv
<1>2. ContainersInv /\ [ContainersNext]_<<setting, vars, heap>> => ContainersInv'
  BY ContainersStep
<1>3. ContainersInv => FrontIsMostUrgent
  BY FirstIsLeast, PriorityFacts DEF ContainersInv, HeapInv, CircularInv, FrontIsMostUrgent, Heap!FrontIsMostUrgent
<1> QED
  BY <1>1, <1>2, <1>3, PTL DEF ContainersSpec

\* The heap is the collection that was put into it: it loses no node, gives none
\* out twice, and always gives out a most urgent one.
THEOREM HeapIsBag == ContainersSpec => ImplementsBag
<1>1. ContainersInit => ContainersInv /\ Heap!Bag!Init
  BY SettingsAreLegal, InvInit, HeapInit DEF ContainersInit, ContainersInv
<1>2. ContainersInv /\ [ContainersNext]_<<setting, vars, heap>> => ContainersInv' /\ [Heap!Bag!Next]_Held
  BY ContainersStep
<1> QED
  BY <1>1, <1>2, PTL DEF ContainersSpec, ImplementsBag, Heap!ImplementsBag, Heap!Bag!Spec, Held

-----------------------------------------------------------------------------
(* The path search, on any table: what the table says.                     *)

\* What the theorems about the search assume: a table as both of the program's are.
TableFits == FindPathAssumption /\ TableAssumption /\ IndexIsPlace

LEMMA TableFacts ==
  ASSUME TableFits
  PROVE  /\ \A n \in Index : get_node_index(n) = n /\ Reverse(n) \in Index
         /\ \A n \in Index : num_edges(n) \in 0 .. 2 /\ Dirs(n) = 0 .. num_edges(n) - 1
         /\ \A n \in Index : num_edges(n) = 2 <=> Type(n) = "BRANCH"
         /\ \A n \in Index : \A d \in Dirs(n) : Dest(n, d) \in Index /\ Dist(n, d) \in Nat /\ Dist(n, d) > 0
         /\ REVERSE_COST \in Nat /\ REVERSE_COST > 0 /\ REVERSE_COST < INFINITY /\ INFINITY \in Nat
         /\ PQ_SIZE \in Nat /\ PQ_SIZE > 0
         /\ IsFiniteSet(Index) /\ Cardinality(Index) \in Nat /\ Index \subseteq Nat
<1>1. \A n \in Index : get_node_index(n) = n
  BY DEF TableFits, IndexIsPlace
<1>2. \A n \in Index : Reverse(n) \in Index
  BY DEF TableFits, FindPathAssumption, TrackAssumption, Reverse
<1>3. \A n \in Index : num_edges(n) \in 0 .. 2 /\ Dirs(n) = 0 .. num_edges(n) - 1
                         /\ (num_edges(n) = 2 <=> Type(n) = "BRANCH")
  BY DEF num_edges, EdgesOf, Dirs
<1>4. \A n \in Index : \A d \in Dirs(n) : Dest(n, d) \in Index /\ Dist(n, d) \in Nat
  BY DEF TableFits, FindPathAssumption, TrackAssumption, Dest, Dist
<1>5. \A n \in Index : \A d \in Dirs(n) : Dist(n, d) > 0
  BY DEF TableFits, TableAssumption
<1>6. /\ REVERSE_COST \in Nat /\ REVERSE_COST > 0 /\ REVERSE_COST < INFINITY /\ INFINITY \in Nat
      /\ PQ_SIZE \in Nat /\ PQ_SIZE > 0
  BY DEF TableFits, TableAssumption, FindPathAssumption, TrackAssumption, INFINITY
<1>7. IsFiniteSet(Index) /\ Cardinality(Index) \in Nat /\ Index \subseteq Nat
  <2>1. IsFiniteSet(Index) /\ Index = 0 .. Cardinality(Index) - 1
    BY DEF TableFits, FindPathAssumption, TrackAssumption
  <2>2. Cardinality(Index) \in Nat
    BY <2>1, FS_CardinalityType
  <2> QED
    BY <2>1, <2>2
<1> QED
  BY <1>1, <1>2, <1>3, <1>4, <1>5, <1>6, <1>7

\* What is asked: a way from a sensor that no other train has reserved.
Asked ==
  /\ start \in Index /\ Type(start) = "SENSOR" /\ Reverse(start) \in Index
  /\ dest \in Index /\ blocked \subseteq Index /\ start \notin blocked

-----------------------------------------------------------------------------
(* The heap of the search.                                                 *)

Entry == [node : Index, priority : Nat]

LEMMA PushedKnown ==
  ASSUME NEW q \in Seq(Entry), NEW n \in Index, NEW k \in Nat
  PROVE  /\ Pushed(q, n, k) \in Seq(Entry)
         /\ Len(q) # PQ_SIZE => /\ Len(Pushed(q, n, k)) = Len(q) + 1
                                /\ \A i \in 1 .. Len(q) : Pushed(q, n, k)[i] = q[i]
                                /\ Pushed(q, n, k)[Len(q) + 1] = [node |-> n, priority |-> k]
<1>1. [node |-> n, priority |-> k] \in Entry
  BY DEF Entry
<1> QED
  BY <1>1 DEF Pushed

LEMMA PoppedKnown ==
  ASSUME NEW q \in Seq(Entry), NEW i \in 1 .. Len(q)
  PROVE  /\ Popped(q, i) \in Seq(Entry) /\ Len(Popped(q, i)) = Len(q) - 1
         /\ \A j \in 1 .. Len(q) - 1 : Popped(q, i)[j] = IF j < i THEN q[j] ELSE q[j + 1]
         /\ \A j \in 1 .. Len(q) : j # i => \E k \in 1 .. Len(q) - 1 : Popped(q, i)[k] = q[j]
         /\ \A j \in 1 .. Len(q) - 1 : \E k \in 1 .. Len(q) : Popped(q, i)[j] = q[k]
<1>1. Len(q) - 1 \in Nat
  OBVIOUS
<1>2. Popped(q, i) \in [1 .. Len(q) - 1 -> Entry]
  BY <1>1 DEF Popped
<1>3. Popped(q, i) \in Seq(Entry) /\ Len(Popped(q, i)) = Len(q) - 1
  BY <1>1, <1>2
<1>4. \A j \in 1 .. Len(q) - 1 : Popped(q, i)[j] = IF j < i THEN q[j] ELSE q[j + 1]
  BY DEF Popped
<1>5. ASSUME NEW j \in 1 .. Len(q), j # i
      PROVE  \E k \in 1 .. Len(q) - 1 : Popped(q, i)[k] = q[j]
  <2>1. CASE j < i
    BY <1>4, <2>1
  <2>2. CASE j > i
    <3>1. j - 1 \in 1 .. Len(q) - 1 /\ ~(j - 1 < i) /\ (j - 1) + 1 = j
      BY <2>2
    <3> QED
      BY <1>4, <3>1
  <2> QED
    BY <1>5, <2>1, <2>2
<1>6. ASSUME NEW j \in 1 .. Len(q) - 1
      PROVE  \E k \in 1 .. Len(q) : Popped(q, i)[j] = q[k]
  <2>1. j \in 1 .. Len(q) /\ j + 1 \in 1 .. Len(q)
    OBVIOUS
  <2> QED
    BY <1>4, <2>1
<1> QED
  BY <1>3, <1>4, <1>5, <1>6

-----------------------------------------------------------------------------
(* Where a node is come from.                                              *)

\* The distance of a node, where the start is near even when one has come back to it.
AwayIn(f, n) == IF n = start THEN 0 ELSE f[n]

EdgeTo(m, n) == \E d \in Dirs(m) : Dest(m, d) = n

\* A node was come to from one that is nearer and not reserved, along an edge or by turning round.
CameFrom(f, m, n) ==
  /\ m \notin blocked
  /\ n # start => AwayIn(f, m) < f[n]
  /\ EdgeTo(m, n) \/ (m = start /\ n = Reverse(start))

SearchType(s) ==
  /\ s = [dist |-> s.dist, prev |-> s.prev, pq |-> s.pq]
  /\ s.dist \in [Index -> Nat] /\ s.prev \in [Index -> Index \cup {-1}] /\ s.pq \in Seq(Entry)

SearchShape(s) ==
  /\ SearchType(s)
  /\ start # dest => s.dist[start] = 0
  /\ \A n \in Index : s.prev[n] # -1 => CameFrom(s.dist, s.prev[n], n)

LEMMA RelaxedKnown ==
  ASSUME TableFits, NEW s, SearchType(s), NEW n \in Index, NEW d \in Dirs(n)
  PROVE  /\ SearchType(Relaxed(s, n, d))
         /\ \/ Relaxed(s, n, d) = s
            \/ /\ s.dist[Dest(n, d)] > s.dist[n] + Dist(n, d) \/ (start = dest /\ Dest(n, d) = start)
               /\ Relaxed(s, n, d).dist = [s.dist EXCEPT ![Dest(n, d)] = s.dist[n] + Dist(n, d)]
               /\ Relaxed(s, n, d).prev = [s.prev EXCEPT ![Dest(n, d)] = n]
               /\ Relaxed(s, n, d).pq = Pushed(s.pq, Dest(n, d), s.dist[n] + Dist(n, d))
<1>1. get_node_index(Dest(n, d)) = Dest(n, d) /\ Dest(n, d) \in Index /\ Dist(n, d) \in Nat
  BY TableFacts
<1>2. s.dist[n] \in Nat /\ s.dist[n] + Dist(n, d) \in Nat
  BY <1>1 DEF SearchType
<1>3. Pushed(s.pq, Dest(n, d), s.dist[n] + Dist(n, d)) \in Seq(Entry)
  BY <1>1, <1>2, PushedKnown DEF SearchType
<1> DEFINE t == [dist |-> [s.dist EXCEPT ![Dest(n, d)] = s.dist[n] + Dist(n, d)],
                 prev |-> [s.prev EXCEPT ![Dest(n, d)] = n],
                 pq   |-> Pushed(s.pq, Dest(n, d), s.dist[n] + Dist(n, d))]
<1>4. Relaxed(s, n, d) = IF s.dist[Dest(n, d)] > s.dist[n] + Dist(n, d) \/ (start = dest /\ Dest(n, d) = start)
                           THEN t ELSE s
  BY <1>1 DEF Relaxed
<1>5. SearchType(t)
  BY <1>1, <1>2, <1>3 DEF SearchType
<1> QED
  BY <1>4, <1>5

\* An edge of a node that is not reserved keeps the shape.
LEMMA RelaxedShape ==
  ASSUME TableFits, Asked, NEW s, SearchShape(s), NEW n \in Index, NEW d \in Dirs(n),
         n \notin blocked, n = start => s.dist[start] = 0
  PROVE  SearchShape(Relaxed(s, n, d))
<1> DEFINE t == Relaxed(s, n, d)
           m == Dest(n, d)
<1>1. SearchType(s) /\ SearchType(t) /\ m \in Index /\ Dist(n, d) \in Nat /\ Dist(n, d) > 0
  BY RelaxedKnown, TableFacts DEF SearchShape
<1>2. CASE t = s
  BY <1>2
<1>3. CASE /\ s.dist[m] > s.dist[n] + Dist(n, d) \/ (start = dest /\ m = start)
           /\ t.dist = [s.dist EXCEPT ![m] = s.dist[n] + Dist(n, d)]
           /\ t.prev = [s.prev EXCEPT ![m] = n]
  <2> HIDE DEF t, m
  <2>1. /\ s.dist \in [Index -> Nat] /\ s.prev \in [Index -> Index \cup {-1}]
        /\ s.dist[n] \in Nat /\ s.dist[m] \in Nat /\ start \in Index
    BY <1>1 DEF SearchType, Asked
  <2>2. \A k \in Index : k # m => t.dist[k] = s.dist[k] /\ t.prev[k] = s.prev[k]
    BY <1>3, <2>1
  <2>3. t.dist[m] = s.dist[n] + Dist(n, d) /\ t.prev[m] = n
    BY <1>1, <1>3, <2>1
  <2>4. start # dest => t.dist[start] = 0
    <3> SUFFICES ASSUME start # dest PROVE t.dist[start] = 0
      OBVIOUS
    <3>1. s.dist[start] = 0
      BY DEF SearchShape
    <3>2. m # start
      BY <1>1, <1>3, <2>1, <3>1
    <3> QED
      BY <2>1, <2>2, <3>1, <3>2
  <2>5. AwayIn(s.dist, n) = s.dist[n]
    BY DEF AwayIn
  <2>6. \A k \in Index : AwayIn(t.dist, k) \in Nat /\ AwayIn(s.dist, k) \in Nat /\ AwayIn(t.dist, k) <= AwayIn(s.dist, k)
    BY <1>1, <1>3, <2>1, <2>2, <2>3 DEF AwayIn
  <2>7. CameFrom(t.dist, n, m)
    <3>1. EdgeTo(n, m)
      BY DEF EdgeTo, m
    <3>2. AwayIn(t.dist, n) < t.dist[m]
      BY <1>1, <2>1, <2>3, <2>5, <2>6
    <3> QED
      BY <3>1, <3>2 DEF CameFrom
  <2>8. ASSUME NEW k \in Index, k # m, s.prev[k] # -1
        PROVE  CameFrom(t.dist, s.prev[k], k)
    <3>1. CameFrom(s.dist, s.prev[k], k) /\ s.prev[k] \in Index
      BY <2>1, <2>8 DEF SearchShape
    <3>2. AwayIn(t.dist, s.prev[k]) <= AwayIn(s.dist, s.prev[k])
          /\ AwayIn(t.dist, s.prev[k]) \in Nat /\ AwayIn(s.dist, s.prev[k]) \in Nat
      BY <2>6, <3>1
    <3>3. s.dist[k] \in Nat /\ t.dist[k] = s.dist[k]
      BY <2>1, <2>2, <2>8
    <3> QED
      BY <3>1, <3>2, <3>3 DEF CameFrom
  <2>9. \A k \in Index : t.prev[k] # -1 => CameFrom(t.dist, t.prev[k], k)
    BY <2>2, <2>3, <2>7, <2>8
  <2> QED
    BY <1>1, <2>4, <2>9 DEF SearchShape, t
<1> QED
  BY <1>1, <1>2, <1>3, RelaxedKnown

LEMMA AllRelaxedShape ==
  ASSUME TableFits, Asked, NEW s, SearchShape(s), NEW n \in Index,
         n \notin blocked, n = start => s.dist[start] = 0
  PROVE  SearchShape(AllRelaxed(s, n))
<1>1. num_edges(n) \in 0 .. 2 /\ Dirs(n) = 0 .. num_edges(n) - 1
  BY TableFacts
<1>2. CASE num_edges(n) = 0
  BY <1>2 DEF AllRelaxed
<1>3. CASE num_edges(n) = 1
  <2>1. 0 \in Dirs(n)
    BY <1>1, <1>3
  <2> QED
    BY <1>3, <2>1, RelaxedShape DEF AllRelaxed
<1>4. CASE num_edges(n) = 2
  <2>1. 0 \in Dirs(n) /\ 1 \in Dirs(n)
    BY <1>1, <1>4
  <2>2. n # start
    BY <1>4, TableFacts DEF Asked
  <2>3. SearchShape(Relaxed(s, n, 0))
    BY <2>1, RelaxedShape
  <2> DEFINE t == Relaxed(s, n, 0)
  <2> HIDE DEF t
  <2>4. SearchShape(Relaxed(t, n, 1))
    BY <2>1, <2>2, <2>3, RelaxedShape DEF t
  <2> QED
    BY <1>4, <2>4 DEF AllRelaxed, t
<1> QED
  BY <1>1, <1>2, <1>3, <1>4
-----------------------------------------------------------------------------
(* The walk back.                                                          *)

\* Along an edge from the i-th node of p to the next, with the setting that leads there.
Ahead(p, i) ==
  LET n == p[i].node  m == p[i + 1].node IN
    \/ Type(n) = "BRANCH" /\ p[i].switch_state \in Dirs(n) /\ Dest(n, p[i].switch_state) = m
    \/ Type(n) # "BRANCH" /\ DIR_AHEAD \in Dirs(n) /\ Dest(n, DIR_AHEAD) = m

LengthIn(p, i) ==
  IF Type(p[i].node) = "BRANCH" THEN Dist(p[i].node, p[i].switch_state)
  ELSE EdgeLength(p[i].node, DIR_AHEAD)

\* k says how far it is to the end of p from each of its nodes.
Mileage(p, k) ==
  /\ k \in [1 .. Len(p) -> Nat] /\ k[Len(p)] = 0
  /\ \A i \in 1 .. Len(p) - 1 : k[i] = LengthIn(p, i) + k[i + 1]

\* p leads along prev to the destination, ever farther from the start, and is of length total.
Chain(p, total) ==
  /\ p \in Seq(PathNodes) /\ p # <<>> /\ p[Len(p)].node = dest
  /\ \A i \in 1 .. Len(p) : p[i].node \notin blocked /\ (p[i].node = start /\ i > 1 => i = Len(p))
  /\ \A i \in 1 .. Len(p) - 1 : Ahead(p, i) \/ (i = 1 /\ p[1].node = start /\ p[2].node = Reverse(start))
  /\ \A i, j \in 1 .. Len(p) : i < j /\ p[j].node # start => AwayIn(dist, p[i].node) < AwayIn(dist, p[j].node)
  /\ \E k \in [1 .. Len(p) -> Nat] : Mileage(p, k) /\ total = k[1]

Walked ==
  /\ phase \in {"search", "none"} => path = <<>> /\ prior = -1
  /\ phase = "trace" /\ path = <<>> => cur = dest /\ prior = -1 /\ total_distance = 0
  /\ phase = "trace" /\ path # <<>> =>
       /\ Chain(path, total_distance) /\ prior = path[1].node /\ cur = prev[prior]
       /\ path[1].node = start => Len(path) = 1
  /\ phase = "found" => Chain(path, total_distance) /\ path[1].node = start /\ Len(path) > 1
  /\ phase \in {"trace", "found"} => dest \notin blocked

searched == [dist |-> dist, prev |-> prev, pq |-> pq]

PathInv ==
  /\ FindTypeOK /\ Asked /\ SearchShape(searched)
  /\ start_iter => dist[start] = 0
  /\ Walked

LEMMA PathInvInit == ASSUME TableFits PROVE FindInit => PathInv
<1> SUFFICES ASSUME FindInit PROVE PathInv
  OBVIOUS
<1> DEFINE s == start
           r == Reverse(start)
           d0 == [n \in Index |-> IF n = s THEN 0 ELSE INFINITY]
           q0 == Pushed(<<>>, s, 0)
<1>1. Asked
  <2>1. /\ start \in Starts /\ dest \in Dests /\ blocked \in Obstacles /\ start \notin blocked
    BY DEF FindInit
  <2>2. /\ Starts \subseteq Index /\ Dests \subseteq Index /\ Obstacles \subseteq SUBSET Index
        /\ \A n \in Starts : Type(n) = "SENSOR"
    BY DEF TableFits, FindPathAssumption
  <2>3. start \in Index /\ Reverse(start) \in Index
    BY <2>1, <2>2, TableFacts
  <2> QED
    BY <2>1, <2>2, <2>3 DEF Asked
<1>2. /\ get_node_index(start) = start /\ get_node_index(Reverse(start)) = r /\ r \in Index /\ s \in Index
      /\ start \notin blocked
  BY <1>1, TableFacts DEF Asked
<1>3. \/ dist = [d0 EXCEPT ![r] = REVERSE_COST] /\ d0[r] > REVERSE_COST
         /\ prev = [n \in Index |-> IF n = r THEN s ELSE -1] /\ pq = Pushed(q0, r, REVERSE_COST)
      \/ dist = d0 /\ prev = [n \in Index |-> -1] /\ pq = q0
  BY <1>2 DEF FindInit
<1>4. REVERSE_COST \in Nat /\ REVERSE_COST > 0 /\ INFINITY \in Nat
  BY TableFacts
<1>5. <<>> \in Seq(Entry) /\ q0 \in Seq(Entry) /\ Pushed(q0, r, REVERSE_COST) \in Seq(Entry)
  <2>1. <<>> \in Seq(Entry) /\ 0 \in Nat
    OBVIOUS
  <2>2. Pushed(<<>>, s, 0) \in Seq(Entry)
    BY <1>2, <2>1, PushedKnown
  <2>3. ASSUME NEW q \in Seq(Entry) PROVE Pushed(q, r, REVERSE_COST) \in Seq(Entry)
    BY <1>2, <1>4, PushedKnown
  <2> QED
    BY <2>1, <2>2, <2>3
<1> HIDE DEF q0
<1>6. /\ dist \in [Index -> Nat] /\ prev \in [Index -> Index \cup {-1}] /\ pq \in Seq(Entry)
  <2>1. d0 \in [Index -> Nat]
    BY <1>4
  <2> HIDE DEF d0
  <2>2. dist \in [Index -> Nat]
    BY <1>3, <1>4, <2>1
  <2>3. prev \in [Index -> Index \cup {-1}]
    BY <1>2, <1>3
  <2> QED
    BY <1>3, <1>5, <2>2, <2>3
<1>7. dist[start] = 0
  <2>1. d0[start] = 0
    BY <1>2
  <2>2. CASE d0[r] > REVERSE_COST /\ dist = [d0 EXCEPT ![r] = REVERSE_COST]
    BY <1>2, <1>4, <2>1, <2>2
  <2> QED
    BY <1>3, <2>1, <2>2
<1>8. ASSUME NEW n \in Index, prev[n] # -1 PROVE CameFrom(dist, prev[n], n)
  <2>1. n = r /\ prev[n] = s /\ dist[r] = REVERSE_COST
    BY <1>2, <1>3, <1>8
  <2> QED
    BY <1>2, <1>4, <2>1 DEF CameFrom, AwayIn
<1>9. SearchShape(searched)
  BY <1>6, <1>7, <1>8 DEF SearchShape, SearchType, searched
<1>10. /\ phase = "search" /\ start_iter = TRUE /\ cur = -1 /\ prior = -1 /\ path = <<>> /\ total_distance = -1
  BY DEF FindInit
<1>11. FindTypeOK
  BY <1>6, <1>10 DEF FindTypeOK, Entry
<1>12. Walked
  BY <1>10 DEF Walked
<1> QED
  BY <1>1, <1>7, <1>9, <1>11, <1>12 DEF PathInv

\* A step of the search leaves the walk back where it is, which is nowhere.
LEMMA SearchKeepsPathInv == ASSUME TableFits, PathInv, Search PROVE PathInv'
<1>1. /\ phase = "search" /\ path = <<>> /\ prior = -1
      /\ dist \in [Index -> Nat] /\ prev \in [Index -> Index \cup {-1}] /\ pq \in Seq(Entry)
  BY DEF PathInv, Search, Walked, FindTypeOK, Entry
<1>2. PICK i \in Nearest : Skip(i) \/ Arrive(i) \/ Explore(i)
  BY DEF Search
<1>3. /\ i \in 1 .. Len(pq) /\ Popped(pq, i) \in Seq(Entry) /\ pq[i] \in Entry /\ pq[i].node \in Index
  <2>1. i \in 1 .. Len(pq)
    BY <1>1, <1>2 DEF Nearest
  <2>2. Popped(pq, i) \in Seq(Entry) /\ pq[i] \in Entry
    BY <1>1, <2>1, PoppedKnown
  <2> QED
    BY <2>1, <2>2 DEF Entry
<1> DEFINE s == [dist |-> dist, prev |-> prev, pq |-> Popped(pq, i)]
<1>4. SearchShape(s)
  BY <1>1, <1>3 DEF PathInv, SearchShape, SearchType, searched
<1> HIDE DEF s
<1>5. asked' = asked /\ Asked'
  BY <1>2 DEF Skip, Arrive, Explore, asked, PathInv, Asked
<1>6. CASE Skip(i)
  <2>1. /\ phase' = phase /\ dist' = dist /\ prev' = prev /\ start_iter' = start_iter /\ pq' = Popped(pq, i)
        /\ cur' = cur /\ prior' = prior /\ path' = path /\ total_distance' = total_distance
        /\ start' = start /\ dest' = dest /\ blocked' = blocked
    BY <1>6 DEF Skip, trace, asked
  <2>2. searched' = s
    BY <2>1 DEF searched, s
  <2>3. SearchShape(searched)'
    BY <1>4, <2>1, <2>2 DEF SearchShape, SearchType, CameFrom, AwayIn, searched
  <2>4. FindTypeOK'
    BY <1>3, <2>1 DEF PathInv, FindTypeOK, Entry
  <2> QED
    BY <1>1, <1>5, <2>1, <2>3, <2>4 DEF PathInv, Walked
<1>7. CASE Arrive(i)
  <2>1. /\ phase' = "trace" /\ dist' = dist /\ prev' = prev /\ start_iter' = start_iter /\ pq' = Popped(pq, i)
        /\ cur' = dest /\ prior' = prior /\ path' = path /\ total_distance' = 0
        /\ start' = start /\ dest' = dest /\ blocked' = blocked /\ dest \notin blocked /\ dest \in Index
    BY <1>7, TableFacts DEF Arrive, asked, PathInv, Asked
  <2>2. searched' = s
    BY <2>1 DEF searched, s
  <2>3. SearchShape(searched)'
    BY <1>4, <2>1, <2>2 DEF SearchShape, SearchType, CameFrom, AwayIn, searched
  <2>4. FindTypeOK'
    BY <1>3, <2>1 DEF PathInv, FindTypeOK, Entry
  <2> QED
    BY <1>1, <1>5, <2>1, <2>3, <2>4 DEF PathInv, Walked
<1>8. CASE Explore(i)
  <2> DEFINE t == AllRelaxed(s, pq[i].node)
  <2>1. /\ dist' = t.dist /\ prev' = t.prev /\ pq' = t.pq /\ start_iter' = FALSE
        /\ phase' = phase /\ cur' = cur /\ prior' = prior /\ path' = path /\ total_distance' = total_distance
        /\ start' = start /\ dest' = dest /\ blocked' = blocked
        /\ pq[i].node \notin blocked /\ (pq[i].node # dest \/ start_iter)
    BY <1>8 DEF Explore, trace, asked, s
  <2>2. pq[i].node = start => s.dist[start] = 0
    BY <1>4, <2>1 DEF PathInv, SearchShape, s, searched
  <2>3. SearchShape(t)
    BY <1>3, <1>4, <2>1, <2>2, AllRelaxedShape DEF PathInv
  <2> HIDE DEF t
  <2>4. searched' = t
    BY <2>1, <2>3 DEF searched, SearchShape, SearchType
  <2>5. SearchShape(searched)'
    BY <2>1, <2>3, <2>4 DEF SearchShape, SearchType, CameFrom, AwayIn, searched
  <2>6. FindTypeOK'
    BY <2>1, <2>3 DEF PathInv, FindTypeOK, Entry, SearchShape, SearchType
  <2> QED
    BY <1>1, <1>5, <2>1, <2>5, <2>6 DEF PathInv, Walked
<1> QED
  BY <1>2, <1>6, <1>7, <1>8

LEMMA Consed ==
  ASSUME NEW S, NEW x \in S, NEW q \in Seq(S)
  PROVE  /\ <<x>> \o q \in Seq(S) /\ Len(<<x>> \o q) = Len(q) + 1 /\ <<x>> \o q # <<>>
         /\ (<<x>> \o q)[1] = x
         /\ \A i \in 1 .. Len(q) : (<<x>> \o q)[i + 1] = q[i]
         /\ \A i \in 2 .. Len(q) + 1 : (<<x>> \o q)[i] = q[i - 1]
<1>1. <<x>> \in Seq(S) /\ Len(<<x>>) = 1 /\ Len(q) \in Nat
  OBVIOUS
<1>2. <<x>> \o q \in Seq(S) /\ Len(<<x>> \o q) = Len(q) + 1
  BY <1>1
<1>3. (<<x>> \o q)[1] = x
  BY <1>1
<1>4. ASSUME NEW i \in 2 .. Len(q) + 1 PROVE (<<x>> \o q)[i] = q[i - 1]
  BY <1>1
<1>5. ASSUME NEW i \in 1 .. Len(q) PROVE (<<x>> \o q)[i + 1] = q[i]
  <2>1. i + 1 \in 2 .. Len(q) + 1 /\ (i + 1) - 1 = i
    OBVIOUS
  <2> QED
    BY <1>4, <2>1
<1> QED
  BY <1>2, <1>3, <1>4, <1>5

LEMMA ChainStarts ==
  ASSUME Asked, dest \notin blocked, NEW x \in PathNodes, x.node = dest
  PROVE  Chain(<<x>>, 0)
<1> DEFINE p == <<x>>
           k == [i \in 1 .. Len(p) |-> 0]
<1>1. p \in Seq(PathNodes) /\ p # <<>> /\ Len(p) = 1 /\ p[1] = x
  OBVIOUS
<1> HIDE DEF p
<1>2. k \in [1 .. Len(p) -> Nat] /\ k[Len(p)] = 0 /\ k[1] = 0
  BY <1>1
<1>3. Mileage(p, k)
  BY <1>1, <1>2 DEF Mileage
<1> HIDE DEF k
<1> QED
  BY <1>1, <1>2, <1>3 DEF Chain, p

LEMMA ChainGrows ==
  ASSUME Asked, dist \in [Index -> Nat], NEW q, NEW total, Chain(q, total),
         q[1].node = start => Len(q) = 1,
         NEW x \in PathNodes, x.node \notin blocked,
         q[1].node # start => AwayIn(dist, x.node) < AwayIn(dist, q[1].node),
         LengthIn(<<x>> \o q, 1) \in Nat,
         Ahead(<<x>> \o q, 1) \/ (x.node = start /\ q[1].node = Reverse(start))
  PROVE  Chain(<<x>> \o q, total + LengthIn(<<x>> \o q, 1))
<1> DEFINE p == <<x>> \o q
           l == LengthIn(p, 1)
<1>1. /\ q \in Seq(PathNodes) /\ q # <<>> /\ q[Len(q)].node = dest /\ Len(q) \in Nat /\ Len(q) >= 1
      /\ \A i \in 1 .. Len(q) : q[i].node \notin blocked /\ (q[i].node = start /\ i > 1 => i = Len(q))
      /\ \A i \in 1 .. Len(q) - 1 : Ahead(q, i) \/ (i = 1 /\ q[1].node = start /\ q[2].node = Reverse(start))
      /\ \A i, j \in 1 .. Len(q) : i < j /\ q[j].node # start => AwayIn(dist, q[i].node) < AwayIn(dist, q[j].node)
  BY DEF Chain
<1>2. PICK k \in [1 .. Len(q) -> Nat] : Mileage(q, k) /\ total = k[1]
  BY DEF Chain
<1>3. /\ p \in Seq(PathNodes) /\ p # <<>> /\ Len(p) = Len(q) + 1 /\ p[1] = x
      /\ \A i \in 1 .. Len(q) : p[i + 1] = q[i]
      /\ \A i \in 2 .. Len(q) + 1 : p[i] = q[i - 1]
  BY <1>1, Consed
<1>4. l \in Nat /\ (Ahead(p, 1) \/ (x.node = start /\ q[1].node = Reverse(start)))
  OBVIOUS
<1> HIDE DEF p, l
<1>5. p[Len(p)].node = dest
  BY <1>1, <1>3
<1>6. ASSUME NEW i \in 1 .. Len(p)
      PROVE  p[i].node \notin blocked /\ (p[i].node = start /\ i > 1 => i = Len(p))
  <2>1. CASE i = 1
    BY <1>3, <2>1
  <2>2. CASE i # 1
    <3>1. i - 1 \in 1 .. Len(q) /\ i \in 2 .. Len(q) + 1 /\ p[i] = q[i - 1]
      BY <1>1, <1>3, <2>2
    <3>2. q[i - 1].node \notin blocked /\ (q[i - 1].node = start /\ i - 1 > 1 => i - 1 = Len(q))
      BY <1>1, <3>1
    <3> QED
      BY <1>1, <1>3, <3>1, <3>2
  <2> QED
    BY <2>1, <2>2
<1>7. ASSUME NEW i \in 1 .. Len(p) - 1
      PROVE  Ahead(p, i) \/ (i = 1 /\ p[1].node = start /\ p[2].node = Reverse(start))
  <2>1. CASE i = 1
    <3>1. p[2] = q[1]
      BY <1>1, <1>3
    <3> QED
      BY <1>3, <1>4, <2>1, <3>1
  <2>2. CASE i # 1
    <3>1. i - 1 \in 1 .. Len(q) - 1 /\ p[i] = q[i - 1] /\ p[i + 1] = q[i] /\ (i - 1) + 1 = i
      BY <1>1, <1>3, <2>2
    <3>2. Ahead(q, i - 1)
      BY <1>1, <3>1
    <3> QED
      BY <3>1, <3>2 DEF Ahead
  <2> QED
    BY <2>1, <2>2
<1>8. ASSUME NEW i \in 1 .. Len(p), NEW j \in 1 .. Len(p), i < j, p[j].node # start
      PROVE  AwayIn(dist, p[i].node) < AwayIn(dist, p[j].node)
  <2>1. j - 1 \in 1 .. Len(q) /\ p[j] = q[j - 1]
    BY <1>1, <1>3, <1>8
  <2>2. CASE i # 1
    <3>1. i - 1 \in 1 .. Len(q) /\ p[i] = q[i - 1] /\ i - 1 < j - 1
      BY <1>1, <1>3, <1>8, <2>2
    <3> QED
      BY <1>1, <1>8, <2>1, <3>1
  <2>3. CASE i = 1 /\ j - 1 = 1
    BY <1>3, <1>8, <2>1, <2>3
  <2>4. CASE i = 1 /\ j - 1 > 1
    <3>1. q[1].node # start
      BY <2>1, <2>4
    <3>2. AwayIn(dist, x.node) < AwayIn(dist, q[1].node)
      BY <3>1
    <3>3. AwayIn(dist, q[1].node) < AwayIn(dist, q[j - 1].node)
      BY <1>1, <1>8, <2>1, <2>4
    <3>4. x.node \in Index /\ q[1].node \in Index /\ q[j - 1].node \in Index
      <4>1. q[1] \in PathNodes /\ q[j - 1] \in PathNodes
        BY <1>1, <2>1
      <4> QED
        BY <4>1 DEF PathNodes
    <3>5. \A n \in Index : AwayIn(dist, n) \in Nat
      BY DEF AwayIn
    <3>6. AwayIn(dist, x.node) < AwayIn(dist, q[j - 1].node)
      BY <3>2, <3>3, <3>4, <3>5, SMTT(30)
    <3>7. p[i] = x /\ p[j] = q[j - 1]
      BY <1>3, <2>1, <2>4
    <3> QED
      BY <3>6, <3>7
  <2> QED
    BY <2>1, <2>2, <2>3, <2>4
<1> DEFINE m == [i \in 1 .. Len(p) |-> IF i = 1 THEN total + l ELSE k[i - 1]]
<1>9. m \in [1 .. Len(p) -> Nat] /\ m[1] = total + l /\ \A i \in 2 .. Len(p) : m[i] = k[i - 1]
  <2>1. total \in Nat
    BY <1>1, <1>2
  <2>2. \A i \in 1 .. Len(p) : i # 1 => i - 1 \in 1 .. Len(q)
    BY <1>1, <1>3
  <2> QED
    BY <1>1, <1>3, <1>4, <2>1, <2>2
<1> HIDE DEF m
<1>10. Mileage(p, m)
  <2>1. m[Len(p)] = 0
    BY <1>1, <1>2, <1>3, <1>9 DEF Mileage
  <2>2. ASSUME NEW i \in 1 .. Len(p) - 1 PROVE m[i] = LengthIn(p, i) + m[i + 1]
    <3>1. i + 1 \in 2 .. Len(p) /\ m[i + 1] = k[i] /\ i \in 1 .. Len(q)
      BY <1>1, <1>3, <1>9
    <3>2. CASE i = 1
      BY <1>2, <1>4, <1>9, <3>1, <3>2 DEF l
    <3>3. CASE i # 1
      <4>1. i - 1 \in 1 .. Len(q) - 1 /\ p[i] = q[i - 1] /\ (i - 1) + 1 = i /\ m[i] = k[i - 1]
        BY <1>1, <1>3, <1>9, <3>3
      <4>2. k[i - 1] = LengthIn(q, i - 1) + k[i]
        BY <1>2, <4>1 DEF Mileage
      <4>3. LengthIn(p, i) = LengthIn(q, i - 1)
        BY <4>1 DEF LengthIn
      <4> QED
        BY <3>1, <4>1, <4>2, <4>3
    <3> QED
      BY <3>2, <3>3
  <2> QED
    BY <1>9, <2>1, <2>2 DEF Mileage
<1> QED
  BY <1>3, <1>5, <1>6, <1>7, <1>8, <1>9, <1>10 DEF Chain, p, l

\* What holds in the phase of the walk back of the node that comes next.
LEMMA NextOnWalk ==
  ASSUME TableFits, PathInv, phase = "trace", path # <<>>, cur >= 0
  PROVE  /\ cur \in Index /\ path[1] \in PathNodes /\ path[1].node \in Index /\ prior = path[1].node
         /\ prior >= 0 /\ CameFrom(dist, cur, prior)
<1>1. path \in Seq(PathNodes) /\ prior = path[1].node /\ cur = prev[prior] /\ cur \in Index \cup {-1}
  BY DEF PathInv, FindTypeOK, Walked
<1>2. path[1] \in PathNodes
  BY <1>1
<1>3. path[1].node \in Index
  BY <1>2 DEF PathNodes
<1>4. Index \subseteq Nat
  BY TableFacts
<1>5. cur \in Index /\ cur # -1 /\ prior >= 0
  BY <1>1, <1>3, <1>4
<1>6. CameFrom(dist, cur, prior)
  BY <1>1, <1>3, <1>5 DEF PathInv, SearchShape, searched
<1> QED
  BY <1>1, <1>2, <1>3, <1>5, <1>6

\* The walk back touches nothing but itself.
LEMMA TraceLeaves ==
  ASSUME PathInv, UNCHANGED <<asked, search>>
  PROVE  /\ Asked' /\ SearchShape(searched)' /\ (start_iter => dist[start] = 0)'
         /\ dist' = dist /\ prev' = prev /\ start' = start /\ dest' = dest /\ blocked' = blocked
<1>1. /\ dist' = dist /\ prev' = prev /\ pq' = pq /\ start_iter' = start_iter
      /\ start' = start /\ dest' = dest /\ blocked' = blocked
  BY DEF asked, search
<1>2. Asked'
  BY <1>1 DEF PathInv, Asked
<1>3. searched' = searched
  BY <1>1 DEF searched
<1>4. SearchShape(searched)'
  BY <1>1, <1>3 DEF PathInv, SearchShape, SearchType, CameFrom, AwayIn
<1> QED
  BY <1>1, <1>2, <1>4 DEF PathInv

\* A branch is left by an edge that leads to the node after it.
LEMMA BranchLeft ==
  ASSUME TableFits, NEW n \in Index, Type(n) = "BRANCH", EdgeTo(n, prior)
  PROVE  /\ BranchDir(n) \in Dirs(n) /\ BranchDir(n) \in {STRAIGHT, CURVED}
         /\ Dest(n, BranchDir(n)) = prior
<1>1. Dirs(n) = {0, 1}
  BY TableFacts
<1> QED
  BY <1>1 DEF BranchDir, EdgeTo, DIR_STRAIGHT, DIR_CURVED, STRAIGHT, CURVED

\* Any other node is left ahead.
LEMMA AheadLeft ==
  ASSUME TableFits, NEW n \in Index, Type(n) # "BRANCH"
  PROVE  /\ EdgeLength(n, DIR_AHEAD) \in Nat
         /\ \A m : EdgeTo(n, m) => DIR_AHEAD \in Dirs(n) /\ Dest(n, DIR_AHEAD) = m
<1>1. Dirs(n) \subseteq {0}
  BY TableFacts
<1> QED
  BY <1>1, TableFacts DEF EdgeLength, EdgeTo, DIR_AHEAD

LEMMA TraceStartKeeps == ASSUME TableFits, PathInv, TraceStart PROVE PathInv'
<1> DEFINE x == PathNode(start, UNINITIALIZED)
           q == <<x>> \o path
<1>1. /\ phase = "trace" /\ cur = start /\ path # <<>> /\ path' = q /\ phase' = "found"
      /\ total_distance' = total_distance + EdgeLength(start, DIR_AHEAD)
      /\ UNCHANGED <<asked, search>> /\ cur' = cur /\ prior' = prior
  BY DEF TraceStart
<1>2. /\ start \in Index /\ Type(start) # "BRANCH" /\ cur >= 0
  <2>1. Index \subseteq Nat
    BY TableFacts
  <2> QED
    BY <1>1, <2>1 DEF PathInv, Asked
<1>3. CameFrom(dist, start, prior) /\ prior = path[1].node /\ path[1].node \in Index
  BY <1>1, <1>2, NextOnWalk
<1>4. Chain(path, total_distance) /\ (path[1].node = start => Len(path) = 1) /\ dest \notin blocked
  BY <1>1 DEF PathInv, Walked
<1>5. path \in Seq(PathNodes) /\ x \in PathNodes /\ x.node = start /\ dist \in [Index -> Nat] /\ Asked
  BY <1>2 DEF PathInv, FindTypeOK, PathNode, PathNodes, UNINITIALIZED
<1> HIDE DEF x
<1>6. q \in Seq(PathNodes) /\ q[1] = x /\ q[2] = path[1] /\ Len(q) = Len(path) + 1 /\ Len(path) \in Nat /\ Len(path) >= 1
  BY <1>1, <1>5, Consed
<1> HIDE DEF q
<1>7. LengthIn(q, 1) = EdgeLength(start, DIR_AHEAD) /\ LengthIn(q, 1) \in Nat
  BY <1>2, <1>5, <1>6, AheadLeft DEF LengthIn
<1>8. Ahead(q, 1) \/ (x.node = start /\ path[1].node = Reverse(start))
  <2>1. CASE EdgeTo(start, prior)
    BY <1>2, <1>3, <1>5, <1>6, <2>1, AheadLeft DEF Ahead
  <2> QED
    BY <1>3, <1>5, <2>1 DEF CameFrom
<1>9. path[1].node # start => AwayIn(dist, x.node) < AwayIn(dist, path[1].node)
  BY <1>3, <1>5 DEF CameFrom, AwayIn
<1>10. Chain(q, total_distance + EdgeLength(start, DIR_AHEAD))
  BY <1>3, <1>4, <1>5, <1>7, <1>8, <1>9, ChainGrows DEF q, CameFrom
<1>11. Chain(path, total_distance)'
  <2>1. Chain(q, total_distance')
    BY <1>1, <1>10
  <2> QED
    BY <1>1, <2>1, TraceLeaves DEF Chain, Mileage, LengthIn, Ahead, AwayIn
<1>12. total_distance' \in Nat
  BY <1>1, <1>2, <1>5, AheadLeft DEF PathInv, FindTypeOK
<1>13. FindTypeOK'
  BY <1>1, <1>6, <1>12 DEF PathInv, FindTypeOK, search
<1>14. Walked'
  BY <1>1, <1>4, <1>5, <1>6, <1>11, TraceLeaves DEF Walked
<1> QED
  BY <1>1, <1>13, <1>14, TraceLeaves DEF PathInv

\* A node of the path that is not the start: an edge leads on from it.
LEMMA EdgeOn ==
  ASSUME TableFits, PathInv, phase = "trace", path # <<>>, cur >= 0, cur # start
  PROVE  EdgeTo(cur, prior) /\ AwayIn(dist, cur) = dist[cur] /\ (prior # start => dist[cur] < AwayIn(dist, prior))
BY NextOnWalk DEF CameFrom, AwayIn

\* The path is a chain again with cur in front of it.
LEMMA WalkedOn ==
  ASSUME TableFits, PathInv, phase = "trace", cur \in Index, cur >= 0, cur # start \/ path = <<>>,
         NEW x \in PathNodes, x.node = cur, path' = <<x>> \o path, UNCHANGED <<phase, asked, search>>,
         path # <<>> => Ahead(<<x>> \o path, 1) /\ LengthIn(<<x>> \o path, 1) \in Nat,
         total_distance' = total_distance + (IF path = <<>> THEN 0 ELSE LengthIn(<<x>> \o path, 1)),
         prior' = cur, cur' = prev[cur]
  PROVE  PathInv'
<1>1. /\ path \in Seq(PathNodes) /\ dist \in [Index -> Nat] /\ Asked /\ dest \notin blocked
      /\ prev[cur] \in Index \cup {-1}
  BY DEF PathInv, FindTypeOK, Walked
<1>2. /\ path' \in Seq(PathNodes) /\ path' # <<>> /\ path'[1] = x /\ Len(path') = Len(path) + 1
  BY <1>1, Consed
<1>3. Chain(path', total_distance') /\ (path'[1].node = start => Len(path') = 1) /\ total_distance' \in Nat
  <2>1. CASE path = <<>>
    <3>1. cur = dest /\ total_distance = 0 /\ path' = <<x>> /\ total_distance' = 0
      BY <2>1 DEF PathInv, Walked
    <3>2. Chain(<<x>>, 0)
      BY <1>1, <3>1, ChainStarts
    <3> QED
      BY <1>2, <2>1, <3>1, <3>2
  <2>2. CASE path # <<>>
    <3>1. cur # start /\ Chain(path, total_distance) /\ (path[1].node = start => Len(path) = 1)
          /\ total_distance \in Nat
      <4>1. total_distance \in Nat \cup {-1} /\ total_distance # -1
        BY DEF PathInv, FindTypeOK
      <4> QED
        BY <2>2, <4>1 DEF PathInv, Walked
    <3>2. prior = path[1].node /\ CameFrom(dist, cur, prior)
      BY <2>2, NextOnWalk
    <3>3. path[1].node # start => AwayIn(dist, x.node) < AwayIn(dist, path[1].node)
      BY <3>2 DEF CameFrom, AwayIn
    <3>4. Chain(<<x>> \o path, total_distance + LengthIn(<<x>> \o path, 1))
      BY <1>1, <2>2, <3>1, <3>2, <3>3, ChainGrows DEF CameFrom
    <3> QED
      BY <1>2, <2>2, <3>1, <3>4
  <2> QED
    BY <2>1, <2>2
<1>4. Chain(path, total_distance)'
  <2>1. dist' = dist /\ start' = start /\ dest' = dest /\ blocked' = blocked
    BY DEF search, asked
  <2> QED
    BY <1>3, <2>1 DEF Chain, Mileage, LengthIn, Ahead, AwayIn
<1>5. FindTypeOK'
  BY <1>1, <1>2, <1>3 DEF PathInv, FindTypeOK, search
<1>6. Walked'
  BY <1>1, <1>2, <1>3, <1>4, TraceLeaves DEF Walked
<1> QED
  BY <1>5, <1>6, TraceLeaves DEF PathInv

(* The walk back never comes to its end before the start.                  *)

\* The start, or a node that was come to.
Known(s, n) == n = start \/ s.prev[n] # -1

\* What waits in the heap is known, and so is whatever a node was come to from.
Rooted(s) ==
  /\ \A i \in 1 .. Len(s.pq) : Known(s, s.pq[i].node)
  /\ \A n \in Index : s.prev[n] # -1 => Known(s, s.prev[n])

\* The start is taken first; it waits again only when it was come back to.
AtFirst(s) ==
  /\ s.pq # <<>> /\ s.pq[1].node = start
  /\ \A i \in 2 .. Len(s.pq) : s.pq[i].node # start /\ s.pq[1].priority < s.pq[i].priority
AgainOnlyIfComeTo(s) == \A i \in 1 .. Len(s.pq) : s.pq[i].node = start => s.prev[start] # -1

WayBack ==
  /\ Rooted(searched)
  /\ phase = "search" => IF start_iter THEN AtFirst(searched) ELSE AgainOnlyIfComeTo(searched)
  /\ phase = "trace" => cur >= 0 /\ (path = <<>> => prev[cur] # -1)

LEMMA RelaxedRooted ==
  ASSUME TableFits, Asked, NEW s, SearchType(s), NEW n \in Index, NEW d \in Dirs(n),
         Rooted(s), Known(s, n)
  PROVE  /\ SearchType(Relaxed(s, n, d)) /\ Rooted(Relaxed(s, n, d)) /\ Known(Relaxed(s, n, d), n)
         /\ AgainOnlyIfComeTo(s) => AgainOnlyIfComeTo(Relaxed(s, n, d))
<1> DEFINE t == Relaxed(s, n, d)
           m == Dest(n, d)
           k == s.dist[n] + Dist(n, d)
<1>1. SearchType(t) /\ m \in Index /\ k \in Nat /\ n # -1 /\ Index \subseteq Nat
  <2>1. m \in Index /\ Dist(n, d) \in Nat /\ Index \subseteq Nat /\ SearchType(t)
    BY TableFacts, RelaxedKnown
  <2>2. s.dist[n] \in Nat
    BY DEF SearchType
  <2> QED
    BY <2>1, <2>2
<1>2. CASE t = s
  BY <1>1, <1>2
<1>3. CASE t.prev = [s.prev EXCEPT ![m] = n] /\ t.pq = Pushed(s.pq, m, k)
  <2> HIDE DEF t, m, k
  <2>1. s.prev \in [Index -> Index \cup {-1}] /\ s.pq \in Seq(Entry) /\ Len(s.pq) \in Nat
    BY DEF SearchType
  <2>2. /\ t.prev[m] = n /\ t.prev[m] # -1
        /\ \A j \in Index : t.prev[j] = s.prev[j] \/ (j = m /\ t.prev[j] = n)
    BY <1>1, <1>3, <2>1
  <2>3. \A j \in Index : Known(s, j) => Known(t, j)
    BY <2>2 DEF Known
  <2>4. ASSUME NEW i \in 1 .. Len(t.pq)
        PROVE  t.pq[i].node = m \/ (i \in 1 .. Len(s.pq) /\ t.pq[i] = s.pq[i])
    <3>1. CASE Len(s.pq) = PQ_SIZE
      BY <1>3, <3>1 DEF Pushed
    <3>2. CASE Len(s.pq) # PQ_SIZE
      <4>1. /\ Len(t.pq) = Len(s.pq) + 1 /\ \A j \in 1 .. Len(s.pq) : t.pq[j] = s.pq[j]
            /\ t.pq[Len(s.pq) + 1].node = m
        <5>1. t.pq = Pushed(s.pq, m, k) /\ s.pq \in Seq(Entry) /\ m \in Index /\ k \in Nat
          BY <1>1, <1>3, <2>1
        <5> DEFINE q == Pushed(s.pq, m, k)
        <5>2. /\ Len(q) = Len(s.pq) + 1 /\ \A j \in 1 .. Len(s.pq) : q[j] = s.pq[j]
              /\ q[Len(s.pq) + 1] = [node |-> m, priority |-> k]
          <6>1. q = Append(s.pq, [node |-> m, priority |-> k])
            BY <3>2 DEF Pushed
          <6>2. [node |-> m, priority |-> k] \in Entry
            BY <5>1 DEF Entry
          <6> HIDE DEF q, m, k
          <6> QED
            BY <5>1, <6>1, <6>2
        <5> HIDE DEF q
        <5> QED
          BY <5>1, <5>2 DEF q
      <4>2. i \in 1 .. Len(s.pq) \/ i = Len(s.pq) + 1
        BY <2>1, <4>1
      <4> QED
        BY <4>1, <4>2
    <3> QED
      BY <3>1, <3>2
  <2>5. ASSUME NEW i \in 1 .. Len(s.pq) PROVE s.pq[i].node \in Index
    <3>1. s.pq[i] \in Entry
      BY <2>1
    <3> QED
      BY <3>1 DEF Entry
  <2>6. ASSUME NEW i \in 1 .. Len(t.pq) PROVE Known(t, t.pq[i].node)
    BY <1>1, <2>2, <2>3, <2>4, <2>5 DEF Rooted, Known
  <2>7. ASSUME NEW j \in Index, t.prev[j] # -1 PROVE Known(t, t.prev[j])
    BY <2>1, <2>2, <2>3, <2>7 DEF Rooted
  <2>8. AgainOnlyIfComeTo(s) => AgainOnlyIfComeTo(t)
    <3> SUFFICES ASSUME AgainOnlyIfComeTo(s), NEW i \in 1 .. Len(t.pq), t.pq[i].node = start
                 PROVE  t.prev[start] # -1
      BY DEF AgainOnlyIfComeTo
    <3>1. start \in Index
      BY DEF Asked
    <3> QED
      BY <1>1, <2>2, <2>4, <3>1 DEF AgainOnlyIfComeTo
  <2>9. SearchType(t) /\ Rooted(t) /\ Known(t, n)
    <3>1. \A i \in 1 .. Len(t.pq) : Known(t, t.pq[i].node)
      BY <2>6
    <3>2. \A j \in Index : t.prev[j] # -1 => Known(t, t.prev[j])
      BY <2>7
    <3> QED
      BY <1>1, <2>3, <3>1, <3>2 DEF Rooted
  <2> QED
    BY <2>8, <2>9 DEF t
<1>4. t = s \/ (t.prev = [s.prev EXCEPT ![m] = n] /\ t.pq = Pushed(s.pq, m, k))
  <2>1. get_node_index(m) = m
    BY TableFacts
  <2> QED
    BY <2>1 DEF Relaxed
<1> QED
  BY <1>2, <1>3, <1>4

LEMMA AllRelaxedRooted ==
  ASSUME TableFits, Asked, NEW s, SearchType(s), NEW n \in Index, Rooted(s), Known(s, n)
  PROVE  /\ SearchType(AllRelaxed(s, n)) /\ Rooted(AllRelaxed(s, n))
         /\ AgainOnlyIfComeTo(s) => AgainOnlyIfComeTo(AllRelaxed(s, n))
<1>1. num_edges(n) \in 0 .. 2 /\ Dirs(n) = 0 .. num_edges(n) - 1
  BY TableFacts
<1>2. CASE num_edges(n) = 0
  BY <1>2 DEF AllRelaxed
<1>3. CASE num_edges(n) = 1
  <2>1. 0 \in Dirs(n)
    BY <1>1, <1>3
  <2> QED
    BY <1>3, <2>1, RelaxedRooted DEF AllRelaxed
<1>4. CASE num_edges(n) = 2
  <2>1. 0 \in Dirs(n) /\ 1 \in Dirs(n)
    BY <1>1, <1>4
  <2> DEFINE t == Relaxed(s, n, 0)
  <2>2. SearchType(t) /\ Rooted(t) /\ Known(t, n) /\ (AgainOnlyIfComeTo(s) => AgainOnlyIfComeTo(t))
    BY <2>1, RelaxedRooted
  <2> HIDE DEF t
  <2>3. /\ SearchType(Relaxed(t, n, 1)) /\ Rooted(Relaxed(t, n, 1))
        /\ AgainOnlyIfComeTo(t) => AgainOnlyIfComeTo(Relaxed(t, n, 1))
    BY <2>1, <2>2, RelaxedRooted
  <2> QED
    BY <1>4, <2>2, <2>3 DEF AllRelaxed, t
<1> QED
  BY <1>1, <1>2, <1>3, <1>4

LEMMA WayBackInit == ASSUME TableFits PROVE FindInit => WayBack
<1> SUFFICES ASSUME FindInit PROVE WayBack
  OBVIOUS
<1> DEFINE r == Reverse(start)
           q0 == Pushed(<<>>, start, 0)
<1>1. PathInv /\ phase = "search" /\ start_iter = TRUE
  BY PathInvInit DEF FindInit
<1>2. /\ start \in Index /\ r \in Index /\ r # start /\ get_node_index(start) = start /\ get_node_index(r) = r
      /\ REVERSE_COST \in Nat /\ REVERSE_COST > 0 /\ PQ_SIZE \in Nat \ {0} /\ Index \subseteq Nat
  BY <1>1, TableFacts DEF PathInv, Asked, TableFits, FindPathAssumption, TableAssumption
<1>3. \/ prev = [n \in Index |-> IF n = r THEN start ELSE -1] /\ pq = Pushed(q0, r, REVERSE_COST)
      \/ prev = [n \in Index |-> -1] /\ pq = q0
  BY <1>2 DEF FindInit
<1>4. q0 = <<[node |-> start, priority |-> 0]>>
  BY <1>2 DEF Pushed
<1>5. CASE prev = [n \in Index |-> -1] /\ pq = q0
  <2>1. Len(pq) = 1 /\ pq[1].node = start /\ pq # <<>>
    BY <1>4, <1>5
  <2> QED
    BY <1>1, <1>2, <1>5, <2>1 DEF WayBack, Rooted, Known, AtFirst, searched
<1>6. CASE prev = [n \in Index |-> IF n = r THEN start ELSE -1] /\ pq = Pushed(q0, r, REVERSE_COST)
  <2>1. prev[r] = start /\ (\A n \in Index : prev[n] # -1 => prev[n] = start) /\ start # -1
    BY <1>2, <1>6
  <2>2. \/ Len(pq) = 1 /\ pq[1].node = start /\ pq # <<>>
        \/ /\ Len(pq) = 2 /\ pq[1].node = start /\ pq[1].priority = 0 /\ pq # <<>>
           /\ pq[2].node = r /\ pq[2].priority = REVERSE_COST
    BY <1>2, <1>4, <1>6 DEF Pushed
  <2>3. \A i \in 1 .. Len(pq) : i = 1 \/ (i = 2 /\ Len(pq) = 2)
    <3>1. CASE Len(pq) = 1
      BY <3>1
    <3>2. CASE Len(pq) = 2
      BY <3>2
    <3> QED
      BY <2>2, <3>1, <3>2
  <2>4. Rooted(searched)
    BY <2>1, <2>2, <2>3 DEF Rooted, Known, searched
  <2>5. AtFirst(searched)
    BY <1>2, <2>2, <2>3 DEF AtFirst, searched
  <2> QED
    BY <1>1, <2>4, <2>5 DEF WayBack
<1> QED
  BY <1>3, <1>5, <1>6

\* Nothing of it is about primes but the variables.
LEMMA WayBackLater ==
  ASSUME NEW s, UNCHANGED asked, searched' = s
  PROVE  /\ Rooted(searched)' <=> Rooted(s)
         /\ AtFirst(searched)' <=> AtFirst(s)
         /\ AgainOnlyIfComeTo(searched)' <=> AgainOnlyIfComeTo(s)
<1>1. start' = start
  BY DEF asked
<1> QED
  BY <1>1 DEF Rooted, AtFirst, AgainOnlyIfComeTo, Known

LEMMA WayBackStep == ASSUME TableFits PROVE PathInv /\ WayBack /\ [FindNext]_findVars => WayBack'
<1> SUFFICES ASSUME PathInv, WayBack, [FindNext]_findVars PROVE WayBack'
  OBVIOUS
<1>0. /\ SearchType(searched) /\ Asked /\ Index \subseteq Nat /\ prev \in [Index -> Index \cup {-1}]
      /\ pq \in Seq(Entry) /\ Len(pq) \in Nat /\ start \in Index /\ dest \in Index
  BY TableFacts DEF PathInv, SearchShape, SearchType, searched, Asked
<1>1. CASE Search
  <2>1. PICK i \in Nearest : Skip(i) \/ Arrive(i) \/ Explore(i)
    BY <1>1 DEF Search
  <2> DEFINE q == Popped(pq, i)
             s == [dist |-> dist, prev |-> prev, pq |-> q]
  <2>2. /\ phase = "search" /\ path = <<>> /\ i \in 1 .. Len(pq) /\ pq[i].node \in Index
        /\ \A j \in 1 .. Len(pq) : pq[i].priority <= pq[j].priority
    <3>1. phase = "search" /\ path = <<>>
      BY <1>1 DEF Search, PathInv, Walked
    <3>2. i \in 1 .. Len(pq) /\ \A j \in 1 .. Len(pq) : pq[i].priority <= pq[j].priority
      BY DEF Nearest
    <3>3. pq[i] \in Entry
      BY <1>0, <3>2
    <3> QED
      BY <3>1, <3>2, <3>3 DEF Entry
  <2>3. /\ q \in Seq(Entry) /\ Len(q) = Len(pq) - 1
        /\ \A j \in 1 .. Len(pq) - 1 : q[j] = IF j < i THEN pq[j] ELSE pq[j + 1]
        /\ \A j \in 1 .. Len(pq) - 1 : \E k \in 1 .. Len(pq) : q[j] = pq[k]
    BY <1>0, <2>2, PoppedKnown
  <2>4. s.prev = prev /\ s.pq = q /\ s.dist = dist /\ SearchType(s)
    BY <1>0, <2>3 DEF SearchType, searched
  <2> HIDE DEF s, q
  <2>5. Rooted(s) /\ Known(s, pq[i].node)
    BY <2>2, <2>3, <2>4 DEF WayBack, Rooted, Known, searched
  <2>6. start_iter => pq[i].node = start
    <3> SUFFICES ASSUME start_iter, i # 1 PROVE FALSE
      BY <2>2 DEF WayBack, AtFirst, searched
    <3>1. 1 \in 1 .. Len(pq) /\ i \in 2 .. Len(pq) /\ pq[1].priority < pq[i].priority
      BY <1>0, <2>2 DEF WayBack, AtFirst, searched
    <3>2. pq[i].priority <= pq[1].priority /\ pq[i].priority \in Nat /\ pq[1].priority \in Nat
      <4>1. pq[i] \in Entry /\ pq[1] \in Entry
        BY <1>0, <2>2, <3>1
      <4> QED
        BY <2>2, <3>1, <4>1 DEF Entry
    <3> QED
      BY <3>1, <3>2
  <2>7. AgainOnlyIfComeTo(s)
    <3> SUFFICES ASSUME NEW j \in 1 .. Len(q), q[j].node = start PROVE prev[start] # -1
      BY <2>4 DEF AgainOnlyIfComeTo
    <3>1. CASE ~start_iter
      BY <2>2, <2>3, <3>1 DEF WayBack, AgainOnlyIfComeTo, searched
    <3>2. CASE start_iter
      <4>1. i = 1
        <5> SUFFICES ASSUME i # 1 PROVE FALSE
          OBVIOUS
        <5>1. i \in 2 .. Len(pq)
          BY <1>0, <2>2
        <5> QED
          BY <2>2, <2>6, <3>2, <5>1 DEF WayBack, AtFirst, searched
      <4>2. j + 1 \in 2 .. Len(pq) /\ q[j] = pq[j + 1]
        BY <1>0, <2>3, <4>1
      <4> QED
        BY <2>2, <3>2, <4>2 DEF WayBack, AtFirst, searched
    <3> QED
      BY <3>1, <3>2
  <2>8. CASE Skip(i)
    <3>1. /\ UNCHANGED asked /\ phase' = phase /\ start_iter' = start_iter /\ searched' = s
          /\ pq[i].node \in blocked
      BY <2>8 DEF Skip, searched, s, q
    <3>2. ~start_iter
      BY <1>0, <2>6, <3>1 DEF Asked
    <3> QED
      BY <2>2, <2>5, <2>7, <3>1, <3>2, WayBackLater DEF WayBack
  <2>9. CASE Arrive(i)
    <3>1. /\ UNCHANGED asked /\ phase' = "trace" /\ searched' = s /\ path' = path /\ prev' = prev
          /\ pq[i].node = dest /\ ~start_iter /\ cur' = dest
      BY <1>0, <2>9, TableFacts DEF Arrive, searched, s, q
    <3>2. prev[dest] # -1
      <4>1. CASE dest = start
        BY <2>2, <3>1, <4>1 DEF WayBack, AgainOnlyIfComeTo, searched
      <4>2. CASE dest # start
        BY <2>4, <2>5, <3>1, <4>2 DEF Known
      <4> QED
        BY <4>1, <4>2
    <3>3. dest >= 0
      BY <1>0
    <3> QED
      BY <2>5, <3>1, <3>2, <3>3, WayBackLater DEF WayBack
  <2>10. CASE Explore(i)
    <3> DEFINE t == AllRelaxed(s, pq[i].node)
    <3>1. SearchType(t) /\ Rooted(t) /\ AgainOnlyIfComeTo(t)
      BY <1>0, <2>2, <2>4, <2>5, <2>7, AllRelaxedRooted
    <3>2. /\ UNCHANGED asked /\ phase' = phase /\ start_iter' = FALSE
          /\ dist' = t.dist /\ prev' = t.prev /\ pq' = t.pq
      BY <2>10 DEF Explore, s, q
    <3> HIDE DEF t
    <3>3. searched' = t
      BY <3>1, <3>2 DEF searched, SearchType
    <3> QED
      BY <2>2, <3>1, <3>2, <3>3, WayBackLater DEF WayBack
  <2> QED
    BY <2>1, <2>8, <2>9, <2>10
<1>2. CASE UNCHANGED <<asked, search>> /\ phase # "trace" /\ phase' # "trace" /\ (phase' = "search" => phase = "search")
  <2>1. searched' = searched /\ start_iter' = start_iter /\ UNCHANGED asked
    BY <1>2 DEF search, searched
  <2> QED
    BY <1>2, <2>1, WayBackLater DEF WayBack
<1>3. CASE phase = "trace" /\ UNCHANGED <<asked, search>> /\ phase' \in {"trace", "found"}
           /\ (phase' = "trace" => cur' >= 0 /\ ((path' = path /\ cur' = cur) \/ path' # <<>>))
  <2>1. searched' = searched /\ prev' = prev /\ UNCHANGED asked
    BY <1>3 DEF search, searched
  <2> QED
    BY <1>3, <2>1, WayBackLater DEF WayBack
<1>4. CASE GiveUp
  BY <1>2, <1>4 DEF GiveUp
<1>5. CASE TraceStart
  BY <1>3, <1>5 DEF TraceStart
<1>6. CASE TraceBranch \/ TraceOther
  <2>1. PICK x \in PathNodes : path' = <<x>> \o path
    <3>1. cur \in Index \cup {-1} /\ cur >= 0
      BY <1>6 DEF TraceBranch, TraceOther, PathInv, FindTypeOK
    <3>2. cur \in Index
      BY <3>1
    <3>3. PathNode(cur, BranchDir(cur)) \in PathNodes /\ PathNode(cur, UNINITIALIZED) \in PathNodes
      BY <3>2 DEF PathNode, PathNodes, BranchDir, STRAIGHT, CURVED, DIR_STRAIGHT, DIR_CURVED
    <3> QED
      BY <1>6, <3>3 DEF TraceBranch, TraceOther
  <2>2. path' # <<>>
    BY <2>1, Consed DEF PathInv, FindTypeOK
  <2>3. /\ phase = "trace" /\ UNCHANGED <<asked, search>> /\ phase' \in {"trace", "found"}
        /\ (phase' = "trace" => cur' >= 0)
    BY <1>6 DEF TraceBranch, TraceOther, WalkOn
  <2> QED
    BY <1>3, <2>2, <2>3
<1>7. CASE UNCHANGED findVars
  <2>1. /\ UNCHANGED <<asked, search>> /\ phase' = phase /\ path' = path /\ cur' = cur /\ searched' = searched
        /\ start_iter' = start_iter /\ prev' = prev
    BY <1>7 DEF findVars, trace, search, searched
  <2> QED
    BY <2>1, WayBackLater DEF WayBack
<1> QED
  BY <1>1, <1>4, <1>5, <1>6, <1>7 DEF FindNext

\* A node on the walk that is not its end was come to from another.
LEMMA WalkGoesOn ==
  ASSUME TableFits, PathInv, WayBack, phase = "trace", cur # start \/ path = <<>>
  PROVE  cur \in Index /\ prev[cur] \in Index /\ prev[cur] >= 0
<1>1. /\ cur \in Index \cup {-1} /\ cur >= 0 /\ prev \in [Index -> Index \cup {-1}] /\ Index \subseteq Nat
  BY TableFacts DEF WayBack, PathInv, FindTypeOK
<1>2. cur \in Index
  BY <1>1
<1>3. prev[cur] # -1
  <2>1. CASE path = <<>>
    BY <2>1 DEF WayBack
  <2>2. CASE path # <<>>
    <3>1. prior \in Index /\ cur = prev[prior] /\ cur # -1
      BY <1>1, <2>2, NextOnWalk DEF PathInv, Walked
    <3> QED
      BY <2>2, <3>1 DEF WayBack, Rooted, Known, searched
  <2> QED
    BY <2>1, <2>2
<1> QED
  BY <1>1, <1>2, <1>3

LEMMA TraceBranchKeeps == ASSUME TableFits, PathInv, WayBack, TraceBranch PROVE PathInv'
<1> DEFINE x == PathNode(cur, BranchDir(cur))
<1>1. /\ phase = "trace" /\ (cur # start \/ path = <<>>) /\ cur >= 0 /\ Type(cur) = "BRANCH" /\ prior >= 0
      /\ path' = <<x>> \o path /\ UNCHANGED <<asked, search>>
      /\ total_distance' = total_distance + Dist(cur, BranchDir(cur))
      /\ prior' = cur /\ WalkOn(prev[cur])
  BY DEF TraceBranch
<1>0. cur' = prev[cur] /\ UNCHANGED <<phase, asked, search>>
  BY <1>1, WalkGoesOn DEF WalkOn
<1>2. cur \in Index /\ path \in Seq(PathNodes)
  BY <1>1 DEF PathInv, FindTypeOK
<1>3. path # <<>>
  BY <1>1 DEF PathInv, Walked
<1>4. EdgeTo(cur, prior) /\ prior = path[1].node
  BY <1>1, <1>3, EdgeOn, NextOnWalk
<1>5. /\ BranchDir(cur) \in Dirs(cur) /\ BranchDir(cur) \in {STRAIGHT, CURVED} /\ Dest(cur, BranchDir(cur)) = prior
      /\ Dist(cur, BranchDir(cur)) \in Nat
  BY <1>1, <1>2, <1>4, BranchLeft, TableFacts
<1>6. x \in PathNodes /\ x.node = cur /\ x.switch_state = BranchDir(cur)
  BY <1>2, <1>5 DEF PathNode, PathNodes
<1> HIDE DEF x
<1>7. (<<x>> \o path)[1] = x /\ (<<x>> \o path)[2] = path[1]
  <2>1. Len(path) \in Nat /\ Len(path) >= 1
    BY <1>2, <1>3
  <2> QED
    BY <1>2, <1>6, <2>1, Consed
<1>8. Ahead(<<x>> \o path, 1)
  <2> DEFINE p == <<x>> \o path
  <2>0. p[1] = x /\ p[2] = path[1]
    BY <1>7
  <2> HIDE DEF p
  <2>1. p[1].node = cur /\ p[1].switch_state = BranchDir(cur) /\ p[1 + 1].node = prior
    BY <1>3, <1>4, <1>6, <2>0
  <2>2. Ahead(p, 1)
    BY <1>1, <1>5, <2>1 DEF Ahead
  <2> QED
    BY <2>2 DEF p
<1>9. LengthIn(<<x>> \o path, 1) = Dist(cur, BranchDir(cur))
  BY <1>1, <1>6, <1>7 DEF LengthIn
<1> QED
  BY <1>1, <1>2, <1>3, <1>5, <1>6, <1>8, <1>9, <1>0, WalkedOn

LEMMA TraceOtherKeeps == ASSUME TableFits, PathInv, WayBack, TraceOther PROVE PathInv'
<1> DEFINE x == PathNode(cur, UNINITIALIZED)
<1>1. /\ phase = "trace" /\ (cur # start \/ path = <<>>) /\ cur >= 0 /\ (Type(cur) # "BRANCH" \/ prior < 0)
      /\ path' = <<x>> \o path /\ UNCHANGED <<asked, search>>
      /\ total_distance' = total_distance + (IF path = <<>> THEN 0 ELSE EdgeLength(cur, DIR_AHEAD))
      /\ prior' = cur /\ WalkOn(prev[cur])
  BY DEF TraceOther
<1>0. cur' = prev[cur] /\ UNCHANGED <<phase, asked, search>>
  BY <1>1, WalkGoesOn DEF WalkOn
<1>2. cur \in Index /\ path \in Seq(PathNodes)
  BY <1>1 DEF PathInv, FindTypeOK
<1>3. x \in PathNodes /\ x.node = cur
  BY <1>2 DEF PathNode, PathNodes
<1> HIDE DEF x
<1>4. (<<x>> \o path)[1] = x /\ (path # <<>> => (<<x>> \o path)[2] = path[1])
  <2>1. Len(path) \in Nat /\ (path # <<>> => Len(path) >= 1)
    BY <1>2
  <2> QED
    BY <1>2, <1>3, <2>1, Consed
<1>5. CASE path = <<>>
  <2>1. total_distance' = total_distance + (IF path = <<>> THEN 0 ELSE LengthIn(<<x>> \o path, 1))
    BY <1>1, <1>5
  <2> QED
    BY <1>1, <1>2, <1>3, <1>5, <2>1, <1>0, WalkedOn
<1>6. CASE path # <<>>
  <2>1. prior >= 0 /\ EdgeTo(cur, prior) /\ prior = path[1].node /\ prior \in Index
    BY <1>1, <1>6, EdgeOn, NextOnWalk
  <2>2. Type(cur) # "BRANCH"
    <3>1. ~(prior < 0)
      BY <2>1, TableFacts
    <3> QED
      BY <1>1, <3>1
  <2>3. Ahead(<<x>> \o path, 1) /\ LengthIn(<<x>> \o path, 1) = EdgeLength(cur, DIR_AHEAD)
        /\ EdgeLength(cur, DIR_AHEAD) \in Nat
    BY <1>2, <1>3, <1>4, <1>6, <2>1, <2>2, AheadLeft DEF Ahead, LengthIn
  <2> QED
    BY <1>1, <1>2, <1>3, <1>6, <2>3, <1>0, WalkedOn
<1> QED
  BY <1>5, <1>6

LEMMA PathInvStep == ASSUME TableFits PROVE PathInv /\ WayBack /\ [FindNext]_findVars => PathInv'
<1> SUFFICES ASSUME PathInv, WayBack, [FindNext]_findVars PROVE PathInv'
  OBVIOUS
<1>1. CASE Search
  BY <1>1, SearchKeepsPathInv
<1>2. CASE GiveUp
  <2>1. /\ UNCHANGED <<asked, search>> /\ phase = "search" /\ phase' = "none"
        /\ cur' = cur /\ prior' = prior /\ path' = path /\ total_distance' = total_distance
    BY <1>2 DEF GiveUp, trace
  <2>2. FindTypeOK'
    BY <2>1 DEF PathInv, FindTypeOK, search
  <2>3. Walked'
    BY <2>1 DEF PathInv, Walked
  <2> QED
    BY <2>1, <2>2, <2>3, TraceLeaves DEF PathInv
<1>3. CASE TraceStart
  BY <1>3, TraceStartKeeps
<1>4. CASE TraceBranch
  BY <1>4, TraceBranchKeeps
<1>5. CASE TraceOther
  BY <1>5, TraceOtherKeeps
<1>6. CASE UNCHANGED findVars
  <2>1. /\ UNCHANGED <<asked, search>> /\ phase' = phase
        /\ cur' = cur /\ prior' = prior /\ path' = path /\ total_distance' = total_distance
    BY <1>6 DEF findVars, trace
  <2>2. FindTypeOK'
    BY <2>1 DEF PathInv, FindTypeOK, search
  <2>3. Walked'
    <3>1. dist' = dist /\ start' = start /\ dest' = dest /\ blocked' = blocked /\ prev' = prev
      BY <2>1 DEF search, asked
    <3> QED
      BY <2>1, <3>1 DEF PathInv, Walked, Chain, Mileage, LengthIn, Ahead, AwayIn
  <2> QED
    BY <2>1, <2>2, <2>3, TraceLeaves DEF PathInv
<1> QED
  BY <1>1, <1>2, <1>3, <1>4, <1>5, <1>6 DEF FindNext

\* The search keeps its shape, on any table: what is found is always a chain of nodes
\* from the destination back to the start, and the walk back meets no node that was not
\* come to before it is at the start.
THEOREM SearchInvariant == ASSUME TableFits PROVE FindSpec => [](PathInv /\ WayBack)
<1>1. FindInit => PathInv /\ WayBack
  BY PathInvInit, WayBackInit
<1>2. PathInv /\ WayBack /\ [FindNext]_findVars => (PathInv /\ WayBack)'
  BY PathInvStep, WayBackStep
<1> QED
  BY <1>1, <1>2, PTL DEF FindSpec

-----------------------------------------------------------------------------
(* A path that is found can be driven.                                     *)

LEMMA ChainLeads == ASSUME TableFits, PathInv PROVE LeadsToDest
<1> SUFFICES ASSUME phase = "found"
             PROVE  /\ path # <<>> /\ path[1].node = start /\ path[Len(path)].node = dest
                    /\ \A i \in 1 .. Len(path) - 1 : Follows(i)
                    /\ \A i \in 1 .. Len(path) : path[i].node \notin blocked
  BY DEF LeadsToDest
<1>1. Chain(path, total_distance) /\ path[1].node = start
  BY DEF PathInv, Walked
<1>2. ASSUME NEW i \in 1 .. Len(path) - 1 PROVE Follows(i)
  <2>1. CASE Ahead(path, i)
    BY <2>1 DEF Ahead, Follows
  <2>2. CASE i = 1 /\ path[1].node = start /\ path[2].node = Reverse(start)
    BY <2>2 DEF Follows
  <2> QED
    BY <1>1, <2>1, <2>2 DEF Chain
<1> QED
  BY <1>1, <1>2 DEF Chain

LEMMA StepBeyond ==
  ASSUME NEW i, Ahead(path, i), NEW S, path[i].node \in S, Type(path[i + 1].node) # "SENSOR"
  PROVE  path[i + 1].node \in Beyond(S)
BY DEF Ahead, Beyond, DIR_AHEAD

LEMMA ChainIsClose == ASSUME TableFits, PathInv PROVE StretchesAreShort
<1> SUFFICES ASSUME phase = "found", NEW i \in 1 .. Len(path) - 6,
                    \A j \in i + 1 .. i + 6 : Type(path[j].node) # "SENSOR"
             PROVE  FALSE
  BY DEF StretchesAreShort
<1> DEFINE n == path[i].node
<1>1. Chain(path, total_distance) /\ path[1].node = start /\ path \in Seq(PathNodes) /\ Len(path) \in Nat
  BY DEF PathInv, Walked, FindTypeOK
<1>2. ASSUME NEW j \in i .. i + 5 PROVE Ahead(path, j) /\ Type(path[j + 1].node) # "SENSOR"
  <2>1. j \in 1 .. Len(path) - 1 /\ j + 1 \in i + 1 .. i + 6
    BY <1>1
  <2>2. Type(path[j + 1].node) # "SENSOR"
    BY <2>1
  <2>3. CASE j = 1 /\ path[2].node = Reverse(start)
    <3>1. Type(Reverse(start)) = "SENSOR"
      BY DEF TableFits, TableAssumption, PathInv, Asked
    <3> QED
      BY <2>2, <2>3, <3>1
  <2> QED
    BY <1>1, <2>1, <2>2, <2>3 DEF Chain
<1>3. n \in Index
  <2>1. path[i] \in PathNodes
    BY <1>1
  <2> QED
    BY <2>1 DEF PathNodes
<1>4. path[i + 1].node \in Beyond({n})
  <2>1. i \in i .. i + 5 /\ path[i].node \in {n}
    BY <1>1
  <2> QED
    BY <1>2, <2>1, StepBeyond
<1>5. ASSUME NEW k \in 1 .. 5, NEW S, path[i + k].node \in S PROVE path[i + (k + 1)].node \in Beyond(S)
  <2>1. i + k \in i .. i + 5 /\ (i + k) + 1 = i + (k + 1)
    BY <1>1
  <2>2. Ahead(path, i + k) /\ Type(path[(i + k) + 1].node) # "SENSOR"
    BY <1>2, <2>1
  <2> QED
    BY <1>5, <2>1, <2>2, StepBeyond
<1>6. path[i + 2].node \in Beyond(Beyond({n}))
  BY <1>4, <1>5
<1>7. path[i + 3].node \in Beyond(Beyond(Beyond({n})))
  BY <1>5, <1>6
<1>8. path[i + 4].node \in Beyond(Beyond(Beyond(Beyond({n}))))
  BY <1>5, <1>7
<1>9. path[i + 5].node \in Beyond(Beyond(Beyond(Beyond(Beyond({n})))))
  BY <1>5, <1>8
<1>10. path[i + 6].node \in Beyond(Beyond(Beyond(Beyond(Beyond(Beyond({n}))))))
  BY <1>5, <1>9
<1> QED
  BY <1>3, <1>10 DEF TableFits, TableAssumption

LEMMA ChainHasNoCircle == ASSUME TableFits, PathInv PROVE NoNodeTwice
<1> SUFFICES ASSUME NEW i \in 1 .. Len(path), NEW j \in 1 .. Len(path), i < j, path[i].node = path[j].node
             PROVE  i = 1 /\ j = Len(path) /\ start = dest
  BY DEF NoNodeTwice
<1>1. path \in Seq(PathNodes) /\ dist \in [Index -> Nat] /\ path # <<>> /\ phase \in {"search", "trace", "found", "none"}
  BY DEF PathInv, FindTypeOK
<1>2. Chain(path, total_distance)
  BY <1>1 DEF PathInv, Walked
<1>3. path[i] \in PathNodes /\ Len(path) \in Nat
  BY <1>1
<1>4. path[i].node \in Index
  BY <1>3 DEF PathNodes
<1>5. AwayIn(dist, path[i].node) \in Nat
  BY <1>1, <1>4 DEF AwayIn
<1>6. path[j].node = start
  BY <1>2, <1>5 DEF Chain
<1>7. j = Len(path) /\ (i > 1 => i = Len(path))
  BY <1>2, <1>6 DEF Chain
<1> QED
  BY <1>2, <1>3, <1>6, <1>7 DEF Chain

\* The distance to the end that ToTheEnd counts is the one that the chain knows.
LEMMA MileageCounted ==
  ASSUME NEW k, path # <<>>, path \in Seq(PathNodes), Mileage(path, k)
  PROVE  ToTheEnd[1] = k[1]
<1> DEFINE Left(f) == [i \in 1 .. Len(path) |-> IF i = Len(path) THEN 0 ELSE StepLength(i) + f[i + 1]]
           f == ToTheEnd
<1>1. Len(path) \in Nat /\ Len(path) >= 1
  OBVIOUS
<1>2. /\ k \in [1 .. Len(path) -> Nat] /\ k[Len(path)] = 0
      /\ \A i \in 1 .. Len(path) - 1 : k[i] = StepLength(i) + k[i + 1]
  BY DEF Mileage, LengthIn, StepLength
<1>3. k = Left(k)
  <2>1. ASSUME NEW i \in 1 .. Len(path)
        PROVE  k[i] = IF i = Len(path) THEN 0 ELSE StepLength(i) + k[i + 1]
    <3>1. CASE i = Len(path)
      BY <1>2, <3>1
    <3>2. CASE i # Len(path)
      <4>1. i \in 1 .. Len(path) - 1
        BY <1>1, <3>2
      <4> QED
        BY <1>2, <3>2, <4>1
    <3> QED
      BY <3>1, <3>2
  <2> QED
    BY <1>2, <2>1
<1>4. f = Left(f)
  <2>1. f = CHOOSE g : g = Left(g)
    BY DEF ToTheEnd
  <2> HIDE DEF f, Left
  <2> QED
    BY <1>3, <2>1
<1> HIDE DEF f
<1>5. \A i \in 1 .. Len(path) : f[i] = IF i = Len(path) THEN 0 ELSE StepLength(i) + f[i + 1]
  BY <1>4
<1> DEFINE Wrong == {a \in Nat : a < Len(path) /\ f[Len(path) - a] # k[Len(path) - a]}
<1>6. Wrong = {}
  <2> SUFFICES ASSUME Wrong # {} PROVE FALSE
    OBVIOUS
  <2>1. PICK a \in Wrong : \A b \in Wrong : a <= b
    <3>1. Wrong \subseteq Nat
      OBVIOUS
    <3> HIDE DEF Wrong
    <3> QED
      BY <3>1, Least
  <2>2. a \in Nat /\ a < Len(path) /\ f[Len(path) - a] # k[Len(path) - a]
    OBVIOUS
  <2>3. CASE a = 0
    <3>1. Len(path) - a = Len(path) /\ Len(path) \in 1 .. Len(path)
      BY <1>1, <2>3
    <3> QED
      BY <1>2, <1>5, <2>2, <3>1
  <2>4. CASE a # 0
    <3> DEFINE i == Len(path) - a
    <3>1. i \in 1 .. Len(path) - 1 /\ i + 1 = Len(path) - (a - 1) /\ a - 1 \in Nat /\ a - 1 < Len(path)
      BY <1>1, <2>2, <2>4
    <3>2. a - 1 \notin Wrong
      <4>1. a - 1 \in Wrong => a <= a - 1
        BY <2>1
      <4> QED
        BY <2>2, <4>1
    <3>3. f[i + 1] = k[i + 1]
      BY <3>1, <3>2
    <3>4. i \in 1 .. Len(path) /\ i # Len(path)
      BY <1>1, <3>1
    <3>5. f[i] = StepLength(i) + f[i + 1] /\ k[i] = StepLength(i) + k[i + 1]
      BY <1>2, <1>5, <3>1, <3>4
    <3> QED
      BY <2>2, <3>3, <3>5
  <2> QED
    BY <2>3, <2>4
<1>7. f[1] = k[1]
  <2>1. Len(path) - 1 \in Nat /\ Len(path) - 1 < Len(path) /\ Len(path) - (Len(path) - 1) = 1
    BY <1>1
  <2> QED
    BY <1>6, <2>1
<1> QED
  BY <1>7 DEF f

LEMMA TotalCounted == ASSUME TableFits, PathInv PROVE TotalWithoutTurning
<1> SUFFICES ASSUME phase = "found", ~TurnsRound PROVE total_distance = Driven
  BY DEF TotalWithoutTurning
<1>1. Chain(path, total_distance)
  BY DEF PathInv, Walked
<1>2. PICK k \in [1 .. Len(path) -> Nat] : Mileage(path, k) /\ total_distance = k[1]
  BY <1>1 DEF Chain
<1>3. path # <<>> /\ path \in Seq(PathNodes) /\ Len(path) \in Nat /\ Len(path) >= 1
  BY <1>1 DEF Chain
<1>4. ToTheEnd[1] = k[1]
  BY <1>2, <1>3, MileageCounted
<1>5. k[1] \in Nat
  BY <1>2, <1>3
<1> QED
  BY <1>2, <1>4, <1>5 DEF Driven

\* On any table like the two of the program a path that is found leads along the track to
\* where it was to lead, round what is reserved, comes by no node twice, has a sensor among
\* any six nodes, and is as long as is said unless the train turns at its start.
THEOREM PathsAreDriven == ASSUME TableFits PROVE FindSpec => []PathCanBeDriven
<1>1. PathInv => PathCanBeDriven
  BY ChainLeads, ChainIsClose, ChainHasNoCircle, TotalCounted DEF PathCanBeDriven
<1> QED
  BY <1>1, SearchInvariant, PTL

-----------------------------------------------------------------------------
(* Nothing dropped, the search is exact.                                   *)

Away(s, n) == AwayIn(s.dist, n)

Waits(s, n) == \E i \in 1 .. Len(s.pq) : s.pq[i] = [node |-> n, priority |-> s.dist[n]]

\* Where the edge d of m leads to one is no farther away than by that edge; and the way
\* back to a start that is also the destination has been noted.
ClosedEdge(s, m, d) ==
  /\ Away(s, Dest(m, d)) <= Away(s, m) + Dist(m, d)
  /\ start = dest /\ Dest(m, d) = start => s.dist[start] = Away(s, m) + Dist(m, d) /\ s.prev[start] = m

\* A node whose edges have been followed, at a distance of k at most.
Done(s, n, k) ==
  /\ n \in Index /\ n \notin blocked /\ Away(s, n) < INFINITY /\ Away(s, n) <= k
  /\ \A d \in Dirs(n) : ClosedEdge(s, n, d)

TurnedTo(s, n) == n = Reverse(start) /\ s.prev[n] = start /\ s.dist[n] = REVERSE_COST

CameBy(s, m, n) == \E d \in Dirs(m) : Dest(m, d) = n /\ s.dist[n] = Away(s, m) + Dist(m, d)

\* The entries of the heap are of nodes within reach, at no less than their distance and k.
EntryFits(s, k, i) ==
  /\ s.pq[i].priority >= k /\ s.pq[i].priority >= Away(s, s.pq[i].node) /\ Away(s, s.pq[i].node) < INFINITY
  /\ s.pq[i].node = start => s.pq[i].priority = s.dist[start] /\ s.prev[start] # -1

NodeFits(s, n) ==
  n # start => s.dist[n] <= INFINITY /\ (s.dist[n] < INFINITY => s.prev[n] # -1)

\* While the edges of u are followed, u having been taken from the heap at k: every node
\* within reach but u is done or waits in the heap, and each was come to from one that is
\* done, or from u, by the very distance that is noted.
SoundBut(s, u, k) ==
  /\ SearchType(s) /\ k \in Nat
  /\ start # dest => s.dist[start] = 0
  /\ s.dist[Reverse(start)] <= REVERSE_COST
  /\ \A n \in Index : NodeFits(s, n)
  /\ \A i \in 1 .. Len(s.pq) : EntryFits(s, k, i)
  /\ \A n \in Index : s.prev[n] # -1 =>
       TurnedTo(s, n) \/ ((Done(s, s.prev[n], k) \/ s.prev[n] = u) /\ CameBy(s, s.prev[n], n))
  /\ \A n \in Index : n \notin blocked /\ n # u /\ Away(s, n) < INFINITY => Done(s, n, k) \/ Waits(s, n)
  /\ dest \notin blocked /\ s.prev[dest] # -1 => Waits(s, dest)
  /\ u # start => Done(s, start, k)

Taken(s, u, k) ==
  /\ u \in Index /\ u \notin blocked /\ Away(s, u) < INFINITY /\ Away(s, u) <= k
  /\ Away(s, u) = k \/ Done(s, u, k)

\* Only one edge leads to the start.
LEMMA OneEdgeIn ==
  ASSUME TableFits, Asked, NEW m \in Index, NEW d \in Dirs(m), Dest(m, d) = start,
         NEW n \in Index, NEW e \in Dirs(n), Dest(n, e) = start
  PROVE  m = n /\ d = e
<1> DEFINE Way(x, y) == PathNode(x, IF Type(x) = "BRANCH" THEN y ELSE UNINITIALIZED)
<1>1. ASSUME NEW x \in Index, NEW y \in Dirs(x), Dest(x, y) = start
      PROVE  Way(x, y) \in into[start] /\ Way(x, y).node = x /\ DirOf(Way(x, y)) = y
  <2>1. num_edges(x) \in 0 .. 2 /\ num_edges(x) > 0 /\ (Type(x) # "BRANCH" => y = 0) /\ (Type(x) = "BRANCH" => y \in 0 .. 1)
    BY TableFacts, SMTT(60)
  <2>2. Way(x, y).node = x /\ Way(x, y).switch_state = IF Type(x) = "BRANCH" THEN y ELSE UNINITIALIZED
    BY DEF PathNode
  <2>3. DirOf(Way(x, y)) = y
    BY <2>1, <2>2 DEF DirOf, UNINITIALIZED, DIR_AHEAD
  <2>4. Way(x, y) \in Leavings
    <3>1. x \in {k \in Index : num_edges(k) > 0}
      BY <2>1
    <3>2. Way(x, y) \in {PathNode(x, sw) : sw \in IF Type(x) = "BRANCH" THEN Dirs(x) ELSE {UNINITIALIZED}}
      OBVIOUS
    <3> HIDE DEF Way
    <3> QED
      BY <3>1, <3>2 DEF Leavings
  <2> HIDE DEF Way
  <2> QED
    BY <1>1, <2>2, <2>3, <2>4 DEF into, Asked
<1>2. Way(m, d) = Way(n, e)
  <2>1. \A p, q \in into[start] : p = q
    BY DEF TableFits, TableAssumption, Asked
  <2> HIDE DEF Way
  <2> QED
    BY <1>1, <2>1
<1> HIDE DEF Way
<1> QED
  BY <1>1, <1>2

LEMMA AwayKnown ==
  ASSUME NEW s, SearchType(s), NEW n \in Index
  PROVE  Away(s, n) \in Nat /\ s.dist[n] \in Nat /\ (n # start => Away(s, n) = s.dist[n])
BY DEF Away, AwayIn, SearchType

\* What a relaxed edge changes: either nothing, or a node that is not the start comes
\* nearer, or the way back to the start is noted.
RelaxesTo(s, t, u, d) ==
  LET m == Dest(u, d) IN
  /\ t.dist = [s.dist EXCEPT ![m] = s.dist[u] + Dist(u, d)] /\ t.prev = [s.prev EXCEPT ![m] = u]
  /\ Len(t.pq) = Len(s.pq) + 1 /\ (\A i \in 1 .. Len(s.pq) : t.pq[i] = s.pq[i])
  /\ t.pq[Len(t.pq)] = [node |-> m, priority |-> s.dist[u] + Dist(u, d)]

LEMMA RelaxedCases ==
  ASSUME TableFits, Asked, NEW s, NEW u, NEW k, SoundBut(s, u, k), Taken(s, u, k), u = start => s.dist[start] = 0,
         NEW d \in Dirs(u), Len(s.pq) < PQ_SIZE
  PROVE  LET t == Relaxed(s, u, d)
             m == Dest(u, d)
         IN  /\ SearchType(t) /\ m \in Index /\ Dist(u, d) \in Nat /\ Dist(u, d) > 0 /\ Away(s, u) = s.dist[u]
             /\ \/ t = s /\ ClosedEdge(s, u, d)
                \/ /\ m # start /\ RelaxesTo(s, t, u, d) /\ s.dist[u] = k /\ s.dist[m] > k + Dist(u, d)
                \/ /\ m = start /\ start = dest /\ RelaxesTo(s, t, u, d) /\ s.dist[u] + Dist(u, d) >= k
<1> DEFINE t == Relaxed(s, u, d)
           m == Dest(u, d)
           new == s.dist[u] + Dist(u, d)
<1>1. SearchType(s) /\ u \in Index /\ s.pq \in Seq(Entry)
  BY DEF SoundBut, Taken, SearchType
<1>2. SearchType(t) /\ m \in Index /\ Dist(u, d) \in Nat /\ Dist(u, d) > 0
  BY <1>1, RelaxedKnown, TableFacts
<1>3. /\ Away(s, u) = s.dist[u] /\ s.dist[u] \in Nat /\ s.dist[m] \in Nat /\ k \in Nat /\ new \in Nat
      /\ Away(s, u) <= k
  BY <1>1, <1>2, AwayKnown DEF Away, AwayIn, SoundBut, Taken
<1>4. CASE ~(s.dist[m] > new \/ (start = dest /\ m = start))
  <2>1. t = s
    BY <1>1, <1>2, <1>4, RelaxedKnown, TableFacts DEF Relaxed
  <2>2. Away(s, m) <= new
    BY <1>2, <1>3, <1>4 DEF Away, AwayIn
  <2>3. ClosedEdge(s, u, d)
    BY <1>3, <1>4, <2>2 DEF ClosedEdge
  <2> HIDE DEF t, m, new
  <2> QED
    BY <1>2, <1>3, <2>1, <2>3 DEF t, m, new
<1>5. CASE s.dist[m] > new \/ (start = dest /\ m = start)
  <2>1. t = [dist |-> [s.dist EXCEPT ![m] = new], prev |-> [s.prev EXCEPT ![m] = u], pq |-> Pushed(s.pq, m, new)]
    BY <1>2, <1>5, TableFacts DEF Relaxed
  <2>2. /\ Len(Pushed(s.pq, m, new)) = Len(s.pq) + 1
        /\ \A i \in 1 .. Len(s.pq) : Pushed(s.pq, m, new)[i] = s.pq[i]
        /\ Pushed(s.pq, m, new)[Len(s.pq) + 1] = [node |-> m, priority |-> new]
    <3>1. Len(s.pq) # PQ_SIZE
      BY <1>1, TableFacts
    <3> HIDE DEF m, new
    <3> QED
      BY <1>1, <1>2, <1>3, <3>1, PushedKnown
  <2>3. RelaxesTo(s, t, u, d)
    <3> HIDE DEF t
    <3> QED
      BY <2>1, <2>2 DEF RelaxesTo
  <2>4. CASE m # start
    <3>1. s.dist[m] > new /\ Away(s, m) = s.dist[m]
      BY <1>2, <1>5, <2>4 DEF Away, AwayIn
    <3>2. ~Done(s, u, k)
      <4>1. ~ClosedEdge(s, u, d)
        BY <1>3, <3>1 DEF ClosedEdge
      <4> QED
        BY <4>1 DEF Done
    <3>3. s.dist[u] = k
      BY <1>3, <3>2 DEF Taken
    <3> HIDE DEF t
    <3> QED
      BY <1>2, <1>3, <2>3, <2>4, <3>1, <3>3 DEF t
  <2>5. CASE m = start
    <3>1. start = dest
      <4> SUFFICES ASSUME start # dest PROVE FALSE
        OBVIOUS
      <4>1. s.dist[m] > new /\ s.dist[m] = 0
        BY <1>5, <2>5 DEF SoundBut
      <4> QED
        BY <1>3, <4>1
    <3>2. new >= k
      <4>1. CASE Away(s, u) = k
        BY <1>2, <1>3, <4>1
      <4>2. CASE Done(s, u, k)
        <5>1. s.dist[start] = new /\ s.prev[start] = u
          BY <1>3, <2>5, <3>1, <4>2 DEF Done, ClosedEdge
        <5>2. Waits(s, dest)
          <6>1. u # -1 /\ dest \notin blocked
            BY <1>1, <3>1, TableFacts DEF Asked
          <6> QED
            BY <3>1, <5>1, <6>1 DEF SoundBut
        <5>3. PICK i \in 1 .. Len(s.pq) : s.pq[i] = [node |-> start, priority |-> new]
          BY <3>1, <5>1, <5>2 DEF Waits
        <5>4. EntryFits(s, k, i)
          BY <5>3 DEF SoundBut
        <5> QED
          BY <1>3, <5>3, <5>4 DEF EntryFits
      <4> QED
        BY <4>1, <4>2 DEF Taken
    <3> HIDE DEF t
    <3> QED
      BY <1>2, <1>3, <2>3, <2>5, <3>1, <3>2 DEF t
  <2> QED
    BY <2>4, <2>5
<1> QED
  BY <1>4, <1>5

\* A node that is not the start has come nearer.
LEMMA NearerSound ==
  ASSUME TableFits, Asked, NEW s, NEW t, NEW u, NEW k, SoundBut(s, u, k), Taken(s, u, k),
         NEW d \in Dirs(u), SearchType(t), RelaxesTo(s, t, u, d), Dest(u, d) # start,
         s.dist[u] = k, s.dist[Dest(u, d)] > k + Dist(u, d), Away(s, u) = s.dist[u]
  PROVE  /\ SoundBut(t, u, k) /\ Taken(t, u, k) /\ ClosedEdge(t, u, d)
         /\ \A e \in Dirs(u) : ClosedEdge(s, u, e) => ClosedEdge(t, u, e)
<1> DEFINE m == Dest(u, d)
           new == s.dist[u] + Dist(u, d)
<1>1. /\ u \in Index /\ m \in Index /\ Dist(u, d) \in Nat /\ Dist(u, d) > 0 /\ k \in Nat /\ SearchType(s)
      /\ s.dist \in [Index -> Nat] /\ s.prev \in [Index -> Index \cup {-1}] /\ s.pq \in Seq(Entry)
      /\ t.dist \in [Index -> Nat] /\ t.prev \in [Index -> Index \cup {-1}] /\ t.pq \in Seq(Entry)
      /\ start \in Index /\ Reverse(start) \in Index /\ dest \in Index
  BY TableFacts DEF Taken, SoundBut, SearchType, Asked
<1>2. /\ new = k + Dist(u, d) /\ new \in Nat /\ new > k /\ s.dist[m] > new /\ m # start
      /\ t.dist = [s.dist EXCEPT ![m] = new] /\ t.prev = [s.prev EXCEPT ![m] = u]
      /\ Len(t.pq) = Len(s.pq) + 1 /\ (\A i \in 1 .. Len(s.pq) : t.pq[i] = s.pq[i])
      /\ t.pq[Len(t.pq)] = [node |-> m, priority |-> new]
  BY <1>1 DEF RelaxesTo
<1> HIDE DEF m, new
<1>3. /\ t.dist[m] = new /\ t.prev[m] = u
      /\ \A x \in Index : x # m => t.dist[x] = s.dist[x] /\ t.prev[x] = s.prev[x]
  BY <1>1, <1>2
<1>4. /\ \A x \in Index : x # m => Away(t, x) = Away(s, x)
      /\ Away(t, m) = new /\ Away(s, m) = s.dist[m]
      /\ \A x \in Index : Away(t, x) \in Nat /\ Away(s, x) \in Nat /\ Away(t, x) <= Away(s, x)
  BY <1>1, <1>2, <1>3, SMTT(30) DEF Away, AwayIn
<1>5. ASSUME NEW x \in Index, x # m, NEW e \in Dirs(x), ClosedEdge(s, x, e)
      PROVE  ClosedEdge(t, x, e)
  <2>1. Dest(x, e) \in Index /\ Dist(x, e) \in Nat
    BY TableFacts
  <2>2. Away(t, Dest(x, e)) <= Away(t, x) + Dist(x, e)
    BY <1>4, <1>5, <2>1 DEF ClosedEdge
  <2>3. t.dist[start] = s.dist[start] /\ t.prev[start] = s.prev[start]
    BY <1>1, <1>2, <1>3
  <2> QED
    BY <1>4, <1>5, <2>2, <2>3 DEF ClosedEdge
<1>6. ASSUME NEW x, Done(s, x, k) PROVE x # m /\ Done(t, x, k)
  <2>1. x \in Index /\ x # m
    BY <1>1, <1>2, <1>4, <1>6 DEF Done
  <2>2. \A e \in Dirs(x) : ClosedEdge(t, x, e)
    BY <1>5, <1>6, <2>1 DEF Done
  <2> QED
    BY <1>4, <1>6, <2>1, <2>2 DEF Done
<1>7. u # m
  BY <1>1, <1>2
<1>8. Taken(t, u, k)
  BY <1>4, <1>6, <1>7 DEF Taken
<1>9. ClosedEdge(t, u, d)
  BY <1>1, <1>2, <1>4, <1>7 DEF ClosedEdge, m
<1>10. \A e \in Dirs(u) : ClosedEdge(s, u, e) => ClosedEdge(t, u, e)
  BY <1>1, <1>5, <1>7
<1>11. start # dest => t.dist[start] = 0
  BY <1>1, <1>2, <1>3 DEF SoundBut
<1>12. t.dist[Reverse(start)] <= REVERSE_COST
  <2>1. s.dist[Reverse(start)] <= REVERSE_COST /\ s.dist[Reverse(start)] \in Nat /\ s.dist[m] \in Nat /\ REVERSE_COST \in Nat
    BY <1>1, TableFacts DEF SoundBut
  <2>2. CASE Reverse(start) = m
    BY <1>2, <1>3, <2>1, <2>2
  <2> QED
    BY <1>1, <1>3, <2>1, <2>2
<1>13. s.dist[m] <= INFINITY /\ new < INFINITY
  <2>1. s.dist[m] <= INFINITY /\ s.dist[m] \in Nat /\ INFINITY \in Nat
    BY <1>1, <1>2, TableFacts DEF SoundBut, NodeFits
  <2> QED
    BY <1>2, <2>1
<1>14. ASSUME NEW n \in Index PROVE NodeFits(t, n)
  <2>1. NodeFits(s, n)
    BY DEF SoundBut
  <2>2. CASE n = m
    <3>1. t.dist[n] = new /\ t.prev[n] = u /\ u # -1 /\ INFINITY \in Nat
      <4>1. INFINITY \in Nat /\ \A x \in Index : x # -1
        BY TableFacts
      <4> QED
        BY <1>1, <1>3, <2>2, <4>1
    <3> QED
      BY <1>2, <1>13, <3>1 DEF NodeFits
  <2>3. CASE n # m
    BY <1>3, <2>1, <2>3 DEF NodeFits
  <2> QED
    BY <2>2, <2>3
<1>15. ASSUME NEW i \in 1 .. Len(t.pq) PROVE EntryFits(t, k, i)
  <2>1. CASE i = Len(t.pq)
    <3>1. t.pq[i].node = m /\ t.pq[i].priority = new
      BY <1>2, <2>1
    <3> QED
      <4>1. new \in Nat /\ k \in Nat /\ new > k
        BY <1>1, <1>2
      <4>2. new >= k /\ new >= new
        BY <4>1
      <4>3. Away(t, m) = new /\ new < INFINITY /\ m # start
        BY <1>2, <1>4, <1>13
      <4> QED
        BY <3>1, <4>2, <4>3 DEF EntryFits
  <2>2. CASE i # Len(t.pq)
    <3>1. i \in 1 .. Len(s.pq) /\ t.pq[i] = s.pq[i]
      BY <1>1, <1>2, <2>2
    <3>2. EntryFits(s, k, i) /\ s.pq[i] \in Entry
      BY <1>1, <3>1 DEF SoundBut
    <3>3. s.pq[i].node \in Index /\ s.pq[i].priority \in Nat
      BY <3>2 DEF Entry
    <3>4. t.dist[start] = s.dist[start] /\ t.prev[start] = s.prev[start]
      BY <1>1, <1>2, <1>3
    <3>5. Away(t, s.pq[i].node) <= Away(s, s.pq[i].node) /\ Away(t, s.pq[i].node) \in Nat /\ Away(s, s.pq[i].node) \in Nat
      BY <1>4, <3>3
    <3> QED
      BY <3>1, <3>2, <3>3, <3>4, <3>5, TableFacts, SMTT(60) DEF EntryFits
  <2> QED
    BY <2>1, <2>2
<1>16. ASSUME NEW n \in Index, t.prev[n] # -1
       PROVE  TurnedTo(t, n) \/ ((Done(t, t.prev[n], k) \/ t.prev[n] = u) /\ CameBy(t, t.prev[n], n))
  <2>1. CASE n = m
    <3>1. t.prev[n] = u /\ CameBy(t, u, n)
      <4>1. Away(t, u) = k
        BY <1>1, <1>4, <1>7
      <4>2. Dest(u, d) = n
        BY <2>1 DEF m
      <4> QED
        BY <1>2, <1>3, <2>1, <4>1, <4>2 DEF CameBy
    <3> QED
      BY <3>1
  <2>2. CASE n # m
    <3>1. t.prev[n] = s.prev[n] /\ t.dist[n] = s.dist[n] /\ s.prev[n] \in Index
      BY <1>1, <1>3, <1>16, <2>2
    <3>2. CASE TurnedTo(s, n)
      BY <3>1, <3>2 DEF TurnedTo
    <3>3. CASE (Done(s, s.prev[n], k) \/ s.prev[n] = u) /\ CameBy(s, s.prev[n], n)
      <4>1. Away(t, s.prev[n]) = Away(s, s.prev[n])
        <5>1. s.prev[n] # m
          BY <1>6, <1>7, <3>3
        <5> QED
          BY <1>4, <3>1, <5>1
      <4>2. CameBy(t, t.prev[n], n)
        BY <3>1, <3>3, <4>1 DEF CameBy
      <4> QED
        BY <1>6, <3>1, <3>3, <4>2
    <3> QED
      BY <1>16, <3>1, <3>2, <3>3 DEF SoundBut
  <2> QED
    BY <2>1, <2>2
<1>17. Waits(t, m)
  BY <1>1, <1>2, <1>3, SMTT(30) DEF Waits
<1>18. ASSUME NEW n \in Index, n # m, Waits(s, n) PROVE Waits(t, n)
  <2>1. PICK i \in 1 .. Len(s.pq) : s.pq[i] = [node |-> n, priority |-> s.dist[n]]
    BY <1>18 DEF Waits
  <2>2. i \in 1 .. Len(t.pq) /\ t.pq[i] = s.pq[i] /\ t.dist[n] = s.dist[n]
    BY <1>1, <1>2, <1>3, <1>18
  <2> QED
    BY <2>1, <2>2 DEF Waits
<1>19. ASSUME NEW n \in Index, n \notin blocked, n # u, Away(t, n) < INFINITY
       PROVE  Done(t, n, k) \/ Waits(t, n)
  <2>1. CASE n = m
    BY <1>17, <2>1
  <2>2. CASE n # m
    <3>1. Done(s, n, k) \/ Waits(s, n)
      BY <1>4, <1>19, <2>2 DEF SoundBut
    <3> QED
      BY <1>6, <1>18, <2>2, <3>1
  <2> QED
    BY <2>1, <2>2
<1>20. dest \notin blocked /\ t.prev[dest] # -1 => Waits(t, dest)
  <2>1. CASE dest = m
    BY <1>17, <2>1
  <2>2. CASE dest # m
    BY <1>1, <1>3, <1>18, <2>2 DEF SoundBut
  <2> QED
    BY <2>1, <2>2
<1>21. u # start => Done(t, start, k)
  BY <1>6 DEF SoundBut
<1>22. SoundBut(t, u, k)
  BY <1>1, <1>11, <1>12, <1>14, <1>15, <1>16, <1>19, <1>20, <1>21 DEF SoundBut
<1> QED
  BY <1>8, <1>9, <1>10, <1>22

\* The way back to a start that is also the destination has been found, or found again.
LEMMA ReturnSound ==
  ASSUME TableFits, Asked, NEW s, NEW t, NEW u, NEW k, SoundBut(s, u, k), Taken(s, u, k),
         NEW d \in Dirs(u), SearchType(t), RelaxesTo(s, t, u, d), Dest(u, d) = start, start = dest,
         s.dist[u] + Dist(u, d) >= k, Away(s, u) = s.dist[u]
  PROVE  /\ SoundBut(t, u, k) /\ Taken(t, u, k) /\ ClosedEdge(t, u, d)
         /\ \A e \in Dirs(u) : ClosedEdge(s, u, e) => ClosedEdge(t, u, e)
<1> DEFINE new == s.dist[u] + Dist(u, d)
<1>1. /\ u \in Index /\ Dist(u, d) \in Nat /\ k \in Nat /\ SearchType(s)
      /\ s.dist \in [Index -> Nat] /\ s.prev \in [Index -> Index \cup {-1}] /\ s.pq \in Seq(Entry)
      /\ t.dist \in [Index -> Nat] /\ t.prev \in [Index -> Index \cup {-1}] /\ t.pq \in Seq(Entry)
      /\ start \in Index /\ Reverse(start) \in Index
  BY TableFacts DEF Taken, SoundBut, SearchType, Asked
<1>2. /\ new \in Nat /\ new >= k
      /\ t.dist = [s.dist EXCEPT ![start] = new] /\ t.prev = [s.prev EXCEPT ![start] = u]
      /\ Len(t.pq) = Len(s.pq) + 1 /\ (\A i \in 1 .. Len(s.pq) : t.pq[i] = s.pq[i])
      /\ t.pq[Len(t.pq)] = [node |-> start, priority |-> new]
  BY <1>1 DEF RelaxesTo
<1>3. new = Away(s, u) + Dist(u, d)
  OBVIOUS
<1>4. Reverse(start) # start /\ u # -1 /\ INFINITY \in Nat /\ INFINITY > 0
  <2>1. Reverse(start) # start
    BY DEF TableFits, TableAssumption, Asked
  <2>2. INFINITY \in Nat /\ INFINITY > 0 /\ \A x \in Index : x # -1
    BY TableFacts
  <2> QED
    BY <1>1, <2>1, <2>2
<1> HIDE DEF new
<1>5. /\ t.dist[start] = new /\ t.prev[start] = u
      /\ \A x \in Index : x # start => t.dist[x] = s.dist[x] /\ t.prev[x] = s.prev[x]
  BY <1>1, <1>2
<1>6. /\ \A x \in Index : Away(t, x) = Away(s, x) /\ Away(t, x) \in Nat
      /\ Away(t, start) = 0
  BY <1>1, <1>5 DEF Away, AwayIn
<1>7. ASSUME NEW x \in Index, NEW e \in Dirs(x), ClosedEdge(s, x, e)
      PROVE  ClosedEdge(t, x, e)
  <2>1. Dest(x, e) \in Index
    BY TableFacts
  <2>2. Away(t, Dest(x, e)) <= Away(t, x) + Dist(x, e)
    BY <1>6, <1>7, <2>1 DEF ClosedEdge
  <2>3. CASE Dest(x, e) = start
    <3>1. x = u /\ e = d
      BY <1>1, <2>3, OneEdgeIn
    <3> QED
      BY <1>1, <1>3, <1>5, <1>6, <2>2, <3>1 DEF ClosedEdge
  <2> QED
    BY <2>2, <2>3 DEF ClosedEdge
<1>8. ASSUME NEW x, Done(s, x, k) PROVE Done(t, x, k)
  BY <1>6, <1>7, <1>8 DEF Done
<1>9. Taken(t, u, k)
  BY <1>1, <1>6, <1>8 DEF Taken
<1>10. ClosedEdge(t, u, d)
  BY <1>1, <1>3, <1>5, <1>6 DEF ClosedEdge
<1>11. t.dist[Reverse(start)] <= REVERSE_COST
  BY <1>1, <1>4, <1>5 DEF SoundBut
<1>12. ASSUME NEW n \in Index PROVE NodeFits(t, n)
  <2>1. NodeFits(s, n)
    BY DEF SoundBut
  <2> QED
    BY <1>5, <2>1 DEF NodeFits
<1>13. s.prev[start] # -1 => s.dist[start] = new
  <2> SUFFICES ASSUME s.prev[start] # -1 PROVE s.dist[start] = new
    OBVIOUS
  <2>1. ~TurnedTo(s, start)
    BY <1>4 DEF TurnedTo
  <2>2. CameBy(s, s.prev[start], start) /\ s.prev[start] \in Index
    BY <1>1, <2>1 DEF SoundBut
  <2>3. PICK e \in Dirs(s.prev[start]) :
             Dest(s.prev[start], e) = start /\ s.dist[start] = Away(s, s.prev[start]) + Dist(s.prev[start], e)
    BY <2>2 DEF CameBy
  <2>4. s.prev[start] = u /\ e = d
    BY <1>1, <2>2, <2>3, OneEdgeIn
  <2> QED
    BY <1>3, <2>3, <2>4
<1>14. ASSUME NEW i \in 1 .. Len(t.pq) PROVE EntryFits(t, k, i)
  <2>1. CASE i = Len(t.pq)
    <3>1. t.pq[i].node = start /\ t.pq[i].priority = new
      BY <1>2, <2>1
    <3>2. new >= k /\ new >= Away(t, start) /\ Away(t, start) < INFINITY
      <4>1. new \in Nat /\ new >= k /\ Away(t, start) = 0
        BY <1>2, <1>6
      <4> QED
        BY <1>4, <4>1
    <3>3. new = t.dist[start] /\ t.prev[start] # -1
      BY <1>4, <1>5
    <3> QED
      BY <3>1, <3>2, <3>3 DEF EntryFits
  <2>2. CASE i # Len(t.pq)
    <3>1. i \in 1 .. Len(s.pq) /\ t.pq[i] = s.pq[i]
      BY <1>1, <1>2, <2>2, SMTT(30)
    <3>2. EntryFits(s, k, i) /\ s.pq[i] \in Entry
      BY <1>1, <3>1 DEF SoundBut
    <3>3. s.pq[i].node \in Index
      BY <3>2 DEF Entry
    <3>4. Away(t, s.pq[i].node) = Away(s, s.pq[i].node)
      BY <1>6, <3>3
    <3>5. s.pq[i].node = start => s.pq[i].priority = t.dist[start] /\ t.prev[start] # -1
      BY <1>4, <1>5, <1>13, <3>2 DEF EntryFits
    <3> QED
      BY <3>1, <3>2, <3>4, <3>5 DEF EntryFits
  <2> QED
    BY <2>1, <2>2
<1>15. ASSUME NEW n \in Index, t.prev[n] # -1
       PROVE  TurnedTo(t, n) \/ ((Done(t, t.prev[n], k) \/ t.prev[n] = u) /\ CameBy(t, t.prev[n], n))
  <2>1. CASE n = start
    <3>1. CameBy(t, u, n)
      BY <1>1, <1>3, <1>5, <1>6, <2>1 DEF CameBy
    <3> QED
      BY <1>5, <2>1, <3>1
  <2>2. CASE n # start
    <3>1. t.prev[n] = s.prev[n] /\ t.dist[n] = s.dist[n] /\ s.prev[n] \in Index
      BY <1>1, <1>5, <1>15, <2>2
    <3>2. CASE TurnedTo(s, n)
      BY <3>1, <3>2 DEF TurnedTo
    <3>3. CASE (Done(s, s.prev[n], k) \/ s.prev[n] = u) /\ CameBy(s, s.prev[n], n)
      <4>1. Away(t, s.prev[n]) = Away(s, s.prev[n])
        BY <1>6, <3>1
      <4>2. CameBy(t, t.prev[n], n)
        BY <3>1, <3>3, <4>1 DEF CameBy
      <4> QED
        BY <1>8, <3>1, <3>3, <4>2
    <3> QED
      BY <1>15, <3>1, <3>2, <3>3 DEF SoundBut
  <2> QED
    BY <2>1, <2>2
<1>16. Waits(t, start)
  <2>1. Len(t.pq) \in 1 .. Len(t.pq)
    BY <1>1, <1>2
  <2> QED
    BY <1>2, <1>5, <2>1 DEF Waits
<1>17. ASSUME NEW n \in Index, Waits(s, n) PROVE Waits(t, n)
  <2>1. PICK i \in 1 .. Len(s.pq) : s.pq[i] = [node |-> n, priority |-> s.dist[n]]
    BY <1>17 DEF Waits
  <2>2. CASE n # start
    <3>1. i \in 1 .. Len(t.pq) /\ t.pq[i] = s.pq[i] /\ t.dist[n] = s.dist[n]
      BY <1>1, <1>2, <1>5, <2>2
    <3> QED
      BY <2>1, <3>1 DEF Waits
  <2> QED
    BY <1>16, <2>2
<1>18. ASSUME NEW n \in Index, n \notin blocked, n # u, Away(t, n) < INFINITY
       PROVE  Done(t, n, k) \/ Waits(t, n)
  <2>1. Done(s, n, k) \/ Waits(s, n)
    BY <1>6, <1>18 DEF SoundBut
  <2> QED
    BY <1>8, <1>17, <2>1
<1>19. u # start => Done(t, start, k)
  BY <1>8 DEF SoundBut
<1>20. SoundBut(t, u, k)
  BY <1>1, <1>11, <1>12, <1>14, <1>15, <1>16, <1>18, <1>19 DEF SoundBut
<1> QED
  BY <1>1, <1>7, <1>9, <1>10, <1>20

\* Following one edge keeps what is known, and closes the edge.
LEMMA RelaxedSound ==
  ASSUME TableFits, Asked, NEW s, NEW u, NEW k, SoundBut(s, u, k), Taken(s, u, k), u = start => s.dist[start] = 0,
         NEW d \in Dirs(u), Len(s.pq) < PQ_SIZE
  PROVE  LET t == Relaxed(s, u, d)
         IN  /\ SoundBut(t, u, k) /\ Taken(t, u, k) /\ ClosedEdge(t, u, d)
             /\ \A e \in Dirs(u) : ClosedEdge(s, u, e) => ClosedEdge(t, u, e)
             /\ Len(t.pq) <= Len(s.pq) + 1
             /\ Dest(u, d) # start => t.dist[start] = s.dist[start]
<1> DEFINE t == Relaxed(s, u, d)
           m == Dest(u, d)
<1>1. /\ SearchType(t) /\ m \in Index /\ Dist(u, d) \in Nat /\ Dist(u, d) > 0 /\ Away(s, u) = s.dist[u]
      /\ \/ t = s /\ ClosedEdge(s, u, d)
         \/ m # start /\ RelaxesTo(s, t, u, d) /\ s.dist[u] = k /\ s.dist[m] > k + Dist(u, d)
         \/ m = start /\ start = dest /\ RelaxesTo(s, t, u, d) /\ s.dist[u] + Dist(u, d) >= k
  BY RelaxedCases, Zenon
<1>2. Len(s.pq) \in Nat /\ s.dist \in [Index -> Nat] /\ start \in Index
  BY DEF SoundBut, SearchType, Asked
<1> HIDE DEF t
<1>3. CASE t = s /\ ClosedEdge(s, u, d)
  <2>1. Len(t.pq) <= Len(s.pq) + 1
    BY <1>2, <1>3
  <2> QED
    BY <1>3, <2>1 DEF t
<1>4. CASE m # start /\ RelaxesTo(s, t, u, d) /\ s.dist[u] = k /\ s.dist[m] > k + Dist(u, d)
  <2>1. Len(t.pq) <= Len(s.pq) + 1 /\ t.dist[start] = s.dist[start]
    BY <1>1, <1>2, <1>4 DEF RelaxesTo
  <2>2. /\ SoundBut(t, u, k) /\ Taken(t, u, k) /\ ClosedEdge(t, u, d)
        /\ \A e \in Dirs(u) : ClosedEdge(s, u, e) => ClosedEdge(t, u, e)
    BY <1>1, <1>4, NearerSound
  <2> QED
    BY <2>1, <2>2 DEF t
<1>5. CASE m = start /\ start = dest /\ RelaxesTo(s, t, u, d) /\ s.dist[u] + Dist(u, d) >= k
  <2>1. Len(t.pq) <= Len(s.pq) + 1
    BY <1>1, <1>2, <1>5 DEF RelaxesTo
  <2>2. /\ SoundBut(t, u, k) /\ Taken(t, u, k) /\ ClosedEdge(t, u, d)
        /\ \A e \in Dirs(u) : ClosedEdge(s, u, e) => ClosedEdge(t, u, e)
    BY <1>1, <1>5, ReturnSound
  <2> QED
    BY <1>5, <2>1, <2>2 DEF t
<1> QED
  BY <1>1, <1>3, <1>4, <1>5

\* Between two nodes, none is being left.
Sound(s, k) == SoundBut(s, -1, k)

\* When the last edge has been followed the node is done.
LEMMA LastEdge ==
  ASSUME TableFits, NEW s, NEW u, NEW k, SoundBut(s, u, k), Taken(s, u, k), \A d \in Dirs(u) : ClosedEdge(s, u, d)
  PROVE  Sound(s, k)
<1>1. Done(s, u, k) /\ u \in Index /\ \A x \in Index : x # -1
  BY TableFacts DEF Done, Taken
<1>2. s.prev \in [Index -> Index \cup {-1}]
  BY DEF SoundBut, SearchType
<1> QED
  BY <1>1, <1>2 DEF Sound, SoundBut

LEMMA AllRelaxedSound ==
  ASSUME TableFits, Asked, NEW s, NEW u, NEW k, SoundBut(s, u, k), Taken(s, u, k), u = start => s.dist[start] = 0,
         Len(s.pq) + 1 < PQ_SIZE
  PROVE  Sound(AllRelaxed(s, u), k)
<1>1. u \in Index /\ num_edges(u) \in 0 .. 2 /\ Dirs(u) = 0 .. num_edges(u) - 1
      /\ Len(s.pq) \in Nat /\ PQ_SIZE \in Nat
  BY TableFacts DEF Taken, SoundBut, SearchType
<1>2. Len(s.pq) < PQ_SIZE
  BY <1>1
<1>3. CASE num_edges(u) = 0
  BY <1>1, <1>3, LastEdge DEF AllRelaxed
<1>4. CASE num_edges(u) = 1
  <2> DEFINE t == Relaxed(s, u, 0)
  <2>1. Dirs(u) = {0}
    BY <1>1, <1>4
  <2>2. SoundBut(t, u, k) /\ Taken(t, u, k) /\ ClosedEdge(t, u, 0)
    BY <1>2, <2>1, RelaxedSound
  <2> HIDE DEF t
  <2>3. Sound(t, k)
    BY <2>1, <2>2, LastEdge
  <2> QED
    BY <1>4, <2>3 DEF AllRelaxed, t
<1>5. CASE num_edges(u) = 2
  <2> DEFINE t == Relaxed(s, u, 0)
  <2>1. Dirs(u) = {0, 1}
    BY <1>1, <1>5
  <2>2. u # start
    BY <1>1, <1>5, TableFacts DEF Asked
  <2>3. SoundBut(t, u, k) /\ Taken(t, u, k) /\ ClosedEdge(t, u, 0) /\ Len(t.pq) <= Len(s.pq) + 1
    BY <1>2, <2>1, RelaxedSound
  <2> HIDE DEF t
  <2>4. Len(t.pq) < PQ_SIZE
    <3>1. Len(t.pq) \in Nat
      BY <2>3 DEF SoundBut, SearchType
    <3> QED
      BY <1>1, <2>3, <3>1
  <2> DEFINE r == Relaxed(t, u, 1)
  <2>5. SoundBut(r, u, k) /\ Taken(r, u, k) /\ ClosedEdge(r, u, 1) /\ ClosedEdge(r, u, 0)
    BY <2>1, <2>2, <2>3, <2>4, RelaxedSound
  <2> HIDE DEF r
  <2>6. Sound(r, k)
    BY <2>1, <2>5, LastEdge
  <2> QED
    BY <1>5, <2>6 DEF AllRelaxed, r, t
<1> QED
  BY <1>1, <1>3, <1>4, <1>5

\* What is noted at the beginning.
Begun ==
  /\ dist = [n \in Index |-> IF n = start THEN 0 ELSE IF n = Reverse(start) THEN REVERSE_COST ELSE INFINITY]
  /\ prev = [n \in Index |-> IF n = Reverse(start) THEN start ELSE -1]
  /\ Len(pq) = 2
  /\ pq[1] = [node |-> start, priority |-> 0] /\ pq[2] = [node |-> Reverse(start), priority |-> REVERSE_COST]

\* What is noted is the length of a way that leads there.
Noted(s) ==
  /\ SearchType(s)
  /\ start # dest => s.dist[start] = 0
  /\ s.dist[Reverse(start)] <= REVERSE_COST
  /\ \A n \in Index : NodeFits(s, n)
  /\ \A n \in Index : s.prev[n] # -1 =>
       \/ TurnedTo(s, n)
       \/ s.prev[n] \in Index /\ s.prev[n] \notin blocked /\ Away(s, s.prev[n]) < INFINITY /\ CameBy(s, s.prev[n], n)

\* Nothing is nearer than by an edge of a node that is not as far away as limit.
ClosedWithin(s, limit) ==
  \A n \in Index : n \notin blocked /\ Away(s, n) < limit /\ Away(s, n) < INFINITY =>
    \A d \in Dirs(n) : ClosedEdge(s, n, d)

ExactInv ==
  /\ phase = "search" => IF start_iter THEN Begun ELSE \E k \in Nat : Sound(searched, k)
  /\ phase \in {"trace", "found"} =>
       /\ Noted(searched) /\ dest \notin blocked /\ prev[dest] # -1 /\ Away(searched, dest) < INFINITY
       /\ ClosedWithin(searched, dist[dest])
  /\ phase = "none" =>
       Noted(searched) /\ ClosedWithin(searched, INFINITY) /\ (dest \in blocked \/ prev[dest] = -1)

LEMMA SoundNoted ==
  ASSUME NEW s, NEW k, TableFits, Sound(s, k)
  PROVE  Noted(s)
<1>1. ASSUME NEW n \in Index, s.prev[n] # -1
      PROVE  TurnedTo(s, n) \/ (Done(s, s.prev[n], k) /\ CameBy(s, s.prev[n], n))
  BY <1>1 DEF Sound, SoundBut
<1> QED
  BY <1>1 DEF Sound, SoundBut, Noted, Done

LEMMA ExactInit == ASSUME TableFits, FindInit, NothingDropped PROVE ExactInv
<1> DEFINE r == Reverse(start)
           e0 == [node |-> start, priority |-> 0]
           e1 == [node |-> r, priority |-> REVERSE_COST]
           d0 == [n \in Index |-> IF n = start THEN 0 ELSE INFINITY]
<1>1. Asked /\ phase = "search" /\ start_iter = TRUE
  BY PathInvInit DEF PathInv, FindInit
<1>2. /\ start \in Index /\ r \in Index /\ r # start /\ INFINITY \in Nat /\ REVERSE_COST \in Nat /\ INFINITY > REVERSE_COST
      /\ PQ_SIZE \in Nat /\ PQ_SIZE > 0 /\ get_node_index(start) = start /\ get_node_index(r) = r
  <2>1. r # start
    BY <1>1 DEF TableFits, TableAssumption, Asked
  <2> QED
    BY <1>1, <2>1, TableFacts DEF Asked
<1>3. d0[r] > REVERSE_COST
  BY <1>2
<1>4. /\ dist = [d0 EXCEPT ![r] = REVERSE_COST]
      /\ prev = [n \in Index |-> IF n = r THEN start ELSE -1]
      /\ pq = Pushed(Pushed(<<>>, start, 0), r, REVERSE_COST)
  BY <1>2, <1>3 DEF FindInit
<1>5. start \notin blocked /\ pq \in Seq(Entry)
  BY <1>1, PathInvInit DEF Asked, PathInv, SearchShape, SearchType, searched
<1>6. Len(pq) = 2 /\ pq[1] = e0 /\ pq[2] = e1
  <2> DEFINE q == Append(<<>>, e0)
  <2> HIDE DEF e0, e1
  <2>1. Len(q) = 1 /\ q[1] = e0
    OBVIOUS
  <2>2. pq = Pushed(q, r, REVERSE_COST)
    <3>1. Pushed(<<>>, start, 0) = q
      BY <1>2 DEF Pushed, e0
    <3> QED
      BY <1>4, <3>1
  <2> HIDE DEF q
  <2>3. Len(q) # PQ_SIZE
    <3> SUFFICES ASSUME Len(q) = PQ_SIZE PROVE FALSE
      OBVIOUS
    <3>1. pq = q
      BY <2>2 DEF Pushed
    <3> QED
      BY <1>2, <3>1 DEF NothingDropped
  <2>4. pq = Append(q, e1)
    BY <2>2, <2>3 DEF Pushed, e1
  <2>5. q \in Seq({e0, e1})
    BY DEF q
  <2>6. e0 \in {e0, e1} /\ e1 \in {e0, e1}
    OBVIOUS
  <2>7. Len(pq) = Len(q) + 1 /\ pq[Len(q) + 1] = e1 /\ \A j \in 1 .. Len(q) : pq[j] = q[j]
    BY <2>4, <2>5, <2>6
  <2> QED
    BY <2>1, <2>7
<1>7. dist = [n \in Index |-> IF n = start THEN 0 ELSE IF n = r THEN REVERSE_COST ELSE INFINITY]
  BY <1>2, <1>4
<1> QED
  BY <1>1, <1>4, <1>6, <1>7 DEF ExactInv, Begun

\* An entry of the heap taken out of it.
Without(s, i) == [dist |-> s.dist, prev |-> s.prev, pq |-> Popped(s.pq, i)]

TakenOut(t, s, i) ==
  /\ SearchType(t) /\ t.dist = s.dist /\ t.prev = s.prev /\ Len(t.pq) = Len(s.pq) - 1
  /\ \A j \in 1 .. Len(t.pq) : \E l \in 1 .. Len(s.pq) : t.pq[j] = s.pq[l]
  /\ \A n : Waits(s, n) /\ n # s.pq[i].node => Waits(t, n)
  /\ \A n : Away(t, n) = Away(s, n)
  /\ \A n : \A k : Done(t, n, k) <=> Done(s, n, k)
  /\ \A n : (TurnedTo(t, n) <=> TurnedTo(s, n)) /\ (NodeFits(t, n) <=> NodeFits(s, n))
  /\ \A m : \A n : CameBy(t, m, n) <=> CameBy(s, m, n)

LEMMA WithoutKnown ==
  ASSUME NEW s, SearchType(s), NEW i \in 1 .. Len(s.pq)
  PROVE  TakenOut(Without(s, i), s, i)
<1> DEFINE t == Without(s, i)
<1>1. s.pq \in Seq(Entry)
  BY DEF SearchType
<1>2. t = [dist |-> t.dist, prev |-> t.prev, pq |-> t.pq] /\ t.dist = s.dist /\ t.prev = s.prev /\ t.pq = Popped(s.pq, i)
  BY DEF Without
<1> HIDE DEF t
<1>3. /\ t.pq \in Seq(Entry) /\ Len(t.pq) = Len(s.pq) - 1
      /\ \A j \in 1 .. Len(s.pq) : j # i => \E l \in 1 .. Len(s.pq) - 1 : t.pq[l] = s.pq[j]
      /\ \A j \in 1 .. Len(s.pq) - 1 : \E l \in 1 .. Len(s.pq) : t.pq[j] = s.pq[l]
  <2>1. /\ Popped(s.pq, i) \in Seq(Entry) /\ Len(Popped(s.pq, i)) = Len(s.pq) - 1
        /\ \A j \in 1 .. Len(s.pq) : j # i => \E l \in 1 .. Len(s.pq) - 1 : Popped(s.pq, i)[l] = s.pq[j]
        /\ \A j \in 1 .. Len(s.pq) - 1 : \E l \in 1 .. Len(s.pq) : Popped(s.pq, i)[j] = s.pq[l]
    BY <1>1, PoppedKnown, Zenon
  <2> QED
    BY <1>2, <2>1, ZenonT(60)
<1>4. SearchType(t)
  BY <1>2, <1>3 DEF SearchType
<1>5. ASSUME NEW n, Waits(s, n), n # s.pq[i].node PROVE Waits(t, n)
  <2>1. PICK j \in 1 .. Len(s.pq) : s.pq[j] = [node |-> n, priority |-> s.dist[n]]
    BY <1>5 DEF Waits
  <2>2. j # i
    BY <1>5, <2>1
  <2>3. PICK l \in 1 .. Len(s.pq) - 1 : t.pq[l] = s.pq[j]
    BY <1>3, <2>2
  <2> QED
    BY <1>2, <1>3, <2>1, <2>3 DEF Waits
<1>6. \A n : Away(t, n) = Away(s, n)
  BY <1>2 DEF Away, AwayIn
<1>7. \A n : \A d : ClosedEdge(t, n, d) <=> ClosedEdge(s, n, d)
  BY <1>2, <1>6 DEF ClosedEdge
<1>8. \A n : \A k : Done(t, n, k) <=> Done(s, n, k)
  BY <1>6, <1>7 DEF Done
<1>9. \A n : (TurnedTo(t, n) <=> TurnedTo(s, n)) /\ (NodeFits(t, n) <=> NodeFits(s, n))
  BY <1>2 DEF TurnedTo, NodeFits
<1>10. \A m : \A n : CameBy(t, m, n) <=> CameBy(s, m, n)
  BY <1>2, <1>6 DEF CameBy
<1>11. \A j \in 1 .. Len(t.pq) : \E l \in 1 .. Len(s.pq) : t.pq[j] = s.pq[l]
  BY <1>3
<1>12. TakenOut(t, s, i)
  BY <1>2, <1>3, <1>4, <1>5, <1>6, <1>8, <1>9, <1>10, <1>11, Zenon DEF TakenOut
<1> QED
  BY <1>12 DEF t

\* A node in the way is dropped.
LEMMA SkipSound ==
  ASSUME TableFits, Asked, NEW s, NEW k, Sound(s, k), NEW i \in 1 .. Len(s.pq), s.pq[i].node \in blocked
  PROVE  Sound(Without(s, i), k)
<1> DEFINE t == Without(s, i)
<1>1. SearchType(s)
  BY DEF Sound, SoundBut
<1>2. /\ SearchType(t) /\ t.dist = s.dist /\ t.prev = s.prev
      /\ \A j \in 1 .. Len(t.pq) : \E l \in 1 .. Len(s.pq) : t.pq[j] = s.pq[l]
      /\ \A n : Waits(s, n) /\ n # s.pq[i].node => Waits(t, n)
      /\ \A n : Away(t, n) = Away(s, n)
      /\ \A n : \A x : Done(t, n, x) <=> Done(s, n, x)
      /\ \A n : (TurnedTo(t, n) <=> TurnedTo(s, n)) /\ (NodeFits(t, n) <=> NodeFits(s, n))
      /\ \A m : \A n : CameBy(t, m, n) <=> CameBy(s, m, n)
  <2>1. TakenOut(t, s, i)
    BY <1>1, WithoutKnown
  <2> HIDE DEF t
  <2> QED
    BY <2>1 DEF TakenOut
<1> HIDE DEF t
<1>3. ASSUME NEW j \in 1 .. Len(t.pq) PROVE EntryFits(t, k, j)
  <2>1. PICK l \in 1 .. Len(s.pq) : t.pq[j] = s.pq[l]
    BY <1>2
  <2>2. EntryFits(s, k, l)
    BY DEF Sound, SoundBut
  <2> QED
    BY <1>2, <2>1, <2>2 DEF EntryFits
<1>4. \A n \in Index : t.prev[n] # -1 => TurnedTo(t, n) \/ (Done(t, t.prev[n], k) /\ CameBy(t, t.prev[n], n))
  BY <1>2 DEF Sound, SoundBut
<1>5. \A n \in Index : n \notin blocked /\ n # -1 /\ Away(t, n) < INFINITY => Done(t, n, k) \/ Waits(t, n)
  BY <1>2 DEF Sound, SoundBut
<1>6. dest \notin blocked /\ t.prev[dest] # -1 => Waits(t, dest)
  BY <1>2 DEF Sound, SoundBut
<1>7. SoundBut(t, -1, k)
  BY <1>2, <1>3, <1>4, <1>5, <1>6 DEF Sound, SoundBut
<1> QED
  BY <1>7 DEF Sound, t

\* A node that is taken from the heap: it is as far away as the entry says, or done already.
LEMMA TakenSound ==
  ASSUME TableFits, Asked, NEW s, NEW k, Sound(s, k), NEW i \in 1 .. Len(s.pq),
         s.pq[i].node \notin blocked, s.pq[i].node # dest,
         \A j \in 1 .. Len(s.pq) : s.pq[i].priority <= s.pq[j].priority
  PROVE  /\ SoundBut(Without(s, i), s.pq[i].node, s.pq[i].priority)
         /\ Taken(Without(s, i), s.pq[i].node, s.pq[i].priority)
<1> DEFINE t == Without(s, i)
           u == s.pq[i].node
           p == s.pq[i].priority
<1>1. SearchType(s) /\ s.pq \in Seq(Entry) /\ k \in Nat /\ s.dist \in [Index -> Nat] /\ start \in Index
  BY DEF Sound, SoundBut, SearchType, Asked
<1>2. /\ SearchType(t) /\ t.dist = s.dist /\ t.prev = s.prev
      /\ \A j \in 1 .. Len(t.pq) : \E l \in 1 .. Len(s.pq) : t.pq[j] = s.pq[l]
      /\ \A n : Waits(s, n) /\ n # u => Waits(t, n)
      /\ \A n : Away(t, n) = Away(s, n)
      /\ \A n : \A x : Done(t, n, x) <=> Done(s, n, x)
      /\ \A n : (TurnedTo(t, n) <=> TurnedTo(s, n)) /\ (NodeFits(t, n) <=> NodeFits(s, n))
      /\ \A m : \A n : CameBy(t, m, n) <=> CameBy(s, m, n)
  <2>1. TakenOut(t, s, i)
    BY <1>1, WithoutKnown
  <2> HIDE DEF t
  <2> QED
    BY <2>1 DEF TakenOut
<1>3. u \in Index /\ p \in Nat
  <2>1. s.pq[i] \in Entry
    BY <1>1
  <2> QED
    BY <2>1 DEF Entry
<1>4. EntryFits(s, k, i)
  BY DEF Sound, SoundBut
<1>5. p >= k /\ p >= Away(s, u) /\ Away(s, u) < INFINITY
  BY <1>4 DEF EntryFits
<1> HIDE DEF t
<1>6. ASSUME NEW n, Done(s, n, k) PROVE Done(t, n, p)
  <2>1. n \in Index /\ Away(s, n) <= k
    BY <1>6 DEF Done
  <2>2. Away(s, n) \in Nat
    BY <1>1, <2>1, AwayKnown
  <2>3. Away(s, n) <= p
    BY <1>1, <1>3, <1>5, <2>1, <2>2
  <2>4. Done(s, n, p)
    BY <1>6, <2>3 DEF Done
  <2> QED
    BY <1>2, <2>4
<1>7. ASSUME NEW j \in 1 .. Len(t.pq) PROVE EntryFits(t, p, j)
  <2>1. PICK l \in 1 .. Len(s.pq) : t.pq[j] = s.pq[l]
    BY <1>2
  <2>2. EntryFits(s, k, l) /\ p <= s.pq[l].priority /\ s.pq[l] \in Entry
    BY <1>1 DEF Sound, SoundBut
  <2>3. s.pq[l].priority >= p
    BY <1>3, <2>2 DEF Entry
  <2> QED
    BY <1>2, <2>1, <2>2, <2>3 DEF EntryFits
<1>8. \A n \in Index : t.prev[n] # -1 => TurnedTo(t, n) \/ (Done(t, t.prev[n], p) /\ CameBy(t, t.prev[n], n))
  BY <1>2, <1>6 DEF Sound, SoundBut
<1>9. ASSUME NEW n \in Index, n \notin blocked, n # u, Away(t, n) < INFINITY
      PROVE  Done(t, n, p) \/ Waits(t, n)
  <2>1. \A x \in Index : x # -1
    BY TableFacts
  <2>2. Done(s, n, k) \/ Waits(s, n)
    BY <1>2, <1>9, <2>1 DEF Sound, SoundBut
  <2> QED
    BY <1>2, <1>6, <1>9, <2>2
<1>10. dest \notin blocked /\ t.prev[dest] # -1 => Waits(t, dest)
  BY <1>2 DEF Sound, SoundBut
<1>11. Done(t, start, p) /\ Done(s, start, k)
  <2>1. Done(s, start, k)
    <3>1. -1 # start
      BY <1>1, TableFacts
    <3> QED
      BY <3>1 DEF Sound, SoundBut
  <2> QED
    BY <1>6, <2>1
<1>12. SoundBut(t, u, p)
  BY <1>2, <1>3, <1>7, <1>8, <1>9, <1>10, <1>11 DEF Sound, SoundBut
<1>13. Away(t, u) = p \/ Done(t, u, p)
  <2>1. CASE u = start
    BY <1>11, <2>1
  <2>2. CASE u # start
    <3>1. Done(s, u, k) \/ Waits(s, u)
      <4>1. u # -1
        BY <1>3, TableFacts
      <4> QED
        BY <1>3, <1>5, <4>1 DEF Sound, SoundBut
    <3>2. CASE Waits(s, u)
      <4>1. PICK j \in 1 .. Len(s.pq) : s.pq[j] = [node |-> u, priority |-> s.dist[u]]
        BY <3>2 DEF Waits
      <4>2. p <= s.pq[j].priority /\ s.pq[j].priority = s.dist[u]
        BY <4>1
      <4>3. Away(s, u) = s.dist[u] /\ s.dist[u] \in Nat
        BY <1>1, <1>3, <2>2, AwayKnown
      <4>4. p <= s.dist[u] /\ p >= s.dist[u]
        BY <1>5, <4>2, <4>3
      <4>5. p = s.dist[u]
        BY <1>3, <4>3, <4>4
      <4> QED
        BY <1>2, <4>3, <4>5
    <3> QED
      BY <1>6, <3>1, <3>2
  <2> QED
    BY <2>1, <2>2
<1>14. Taken(t, u, p)
  <2>1. Away(t, u) \in Nat
    BY <1>2, <1>3, AwayKnown
  <2>2. Away(t, u) <= p /\ Away(t, u) < INFINITY
    BY <1>2, <1>3, <1>5, <2>1
  <2> QED
    BY <1>3, <1>13, <2>2 DEF Taken
<1> QED
  BY <1>12, <1>14 DEF t

\* The start is taken from the heap first.
LEMMA BegunSound ==
  ASSUME TableFits, Asked, SearchType(searched), Begun, NEW t, t = Without(searched, 1)
  PROVE  SoundBut(t, start, 0) /\ Taken(t, start, 0) /\ t.dist[start] = 0 /\ Len(t.pq) = 1
<1> DEFINE r == Reverse(start)
<1>1. /\ start \in Index /\ r \in Index /\ r # start /\ start \notin blocked
      /\ REVERSE_COST \in Nat /\ 0 < REVERSE_COST /\ REVERSE_COST < INFINITY /\ INFINITY \in Nat
      /\ \A n \in Index : n # -1
  <2>1. r # start
    BY DEF TableFits, TableAssumption, Asked
  <2> QED
    BY <2>1, TableFacts DEF Asked, TableFits, TableAssumption
<1>2. TakenOut(t, searched, 1)
  <2>1. 1 \in 1 .. Len(searched.pq)
    BY DEF Begun, searched
  <2> QED
    BY <2>1, WithoutKnown
<1>3. SearchType(t) /\ Len(t.pq) = 1 /\ t.dist = dist /\ t.prev = prev
  <2>1. Len(pq) = 2 /\ searched.pq = pq /\ searched.dist = dist /\ searched.prev = prev
    BY DEF Begun, searched
  <2>2. Len(t.pq) = 2 - 1
    BY <1>2, <2>1 DEF TakenOut
  <2> QED
    BY <1>2, <2>1, <2>2 DEF TakenOut
<1>4. t.pq[1] = [node |-> r, priority |-> REVERSE_COST]
  <2>1. t.pq = Popped(pq, 1) /\ pq \in Seq(Entry) /\ 1 \in 1 .. Len(pq)
    BY DEF Without, searched, Begun, SearchType
  <2>2. Popped(pq, 1)[1] = IF 1 < 1 THEN pq[1] ELSE pq[1 + 1]
    <3>1. 1 \in 1 .. Len(pq) - 1
      BY DEF Begun
    <3> QED
      BY <2>1, <3>1, PoppedKnown
  <2> QED
    BY <2>1, <2>2 DEF Begun
<1>5. /\ t.dist[start] = 0 /\ t.dist[r] = REVERSE_COST /\ t.prev[r] = start
      /\ \A n \in Index : n # start /\ n # r => t.dist[n] = INFINITY
      /\ \A n \in Index : n # r => t.prev[n] = -1
  BY <1>1, <1>3 DEF Begun
<1> HIDE DEF r
<1>6. /\ Away(t, start) = 0 /\ Away(t, r) = REVERSE_COST
      /\ \A n \in Index : n # start /\ n # r => Away(t, n) = INFINITY
  BY <1>1, <1>5 DEF Away, AwayIn
<1>7. ASSUME NEW n \in Index PROVE NodeFits(t, n)
  BY <1>1, <1>5 DEF NodeFits
<1>8. ASSUME NEW i \in 1 .. Len(t.pq) PROVE EntryFits(t, 0, i)
  <2>1. i = 1
    <3>1. i \in 1 .. 1
      BY <1>3, Zenon
    <3> QED
      BY <3>1
  <2> QED
    BY <1>1, <1>4, <1>6, <2>1 DEF EntryFits
<1>9. ASSUME NEW n \in Index, t.prev[n] # -1 PROVE TurnedTo(t, n)
  BY <1>1, <1>5, <1>9 DEF TurnedTo, r
<1>10. Waits(t, r)
  BY <1>3, <1>4, <1>5 DEF Waits
<1>11. ASSUME NEW n \in Index, n \notin blocked, n # start, Away(t, n) < INFINITY PROVE Waits(t, n)
  <2>1. n = r
    BY <1>1, <1>6, <1>11
  <2> QED
    BY <1>10, <2>1
<1>12. dest \notin blocked /\ t.prev[dest] # -1 => Waits(t, dest)
  BY <1>5, <1>10 DEF Asked
<1>13. t.dist[Reverse(start)] <= REVERSE_COST
  BY <1>1, <1>5 DEF r
<1>14. SoundBut(t, start, 0)
  BY <1>3, <1>5, <1>7, <1>8, <1>9, <1>11, <1>12, <1>13 DEF SoundBut
<1>15. Taken(t, start, 0)
  BY <1>1, <1>6 DEF Taken
<1> QED
  BY <1>3, <1>5, <1>14, <1>15

\* What the search knows when it looks at the next node of the heap.
LEMMA NextOfHeap ==
  ASSUME TableFits, PathInv, ExactInv, phase = "search", NEW i \in Nearest
  PROVE  /\ SearchType(searched) /\ Asked /\ i \in 1 .. Len(searched.pq) /\ searched.pq[i] = pq[i] /\ pq[i].node \in Index
         /\ \A j \in 1 .. Len(searched.pq) : searched.pq[i].priority <= searched.pq[j].priority
         /\ start_iter => Begun /\ i = 1 /\ pq[i].node = start
<1>1. SearchType(searched) /\ Asked /\ pq \in Seq(Entry)
  BY DEF PathInv, SearchShape, SearchType, searched
<1>2. i \in 1 .. Len(pq) /\ \A j \in 1 .. Len(pq) : pq[i].priority <= pq[j].priority
  BY <1>1 DEF Nearest
<1>3. pq[i].node \in Index
  <2>1. pq[i] \in Entry
    BY <1>1, <1>2
  <2> QED
    BY <2>1 DEF Entry
<1>4. ASSUME start_iter PROVE Begun /\ i = 1 /\ pq[i].node = start
  <2>1. Begun
    BY <1>4 DEF ExactInv
  <2>2. pq[1].priority = 0 /\ pq[2].priority = REVERSE_COST /\ Len(pq) = 2 /\ 0 < REVERSE_COST /\ REVERSE_COST \in Nat
    BY <2>1, TableFacts DEF Begun, TableFits, TableAssumption
  <2>3. i = 1
    BY <1>2, <2>2
  <2> QED
    BY <2>1, <2>3 DEF Begun
<1> QED
  BY <1>1, <1>2, <1>3, <1>4 DEF searched

LEMMA ExploreExact ==
  ASSUME TableFits, PathInv, ExactInv, NothingDropped, phase = "search", NEW i \in Nearest, Explore(i)
  PROVE  \E k \in Nat : Sound(AllRelaxed(Without(searched, i), pq[i].node), k)
<1> DEFINE t == Without(searched, i)
           u == pq[i].node
           p == pq[i].priority
<1>1. /\ SearchType(searched) /\ Asked /\ i \in 1 .. Len(searched.pq) /\ searched.pq[i] = pq[i] /\ u \in Index
      /\ \A j \in 1 .. Len(searched.pq) : searched.pq[i].priority <= searched.pq[j].priority
      /\ start_iter => Begun /\ i = 1 /\ u = start
  BY NextOfHeap
<1>2. Len(pq) \in Nat /\ PQ_SIZE \in Nat /\ Len(pq) < PQ_SIZE
  BY <1>1, TableFacts DEF NothingDropped, SearchType, searched
<1>3. u \notin blocked /\ (u # dest \/ start_iter)
  BY DEF Explore
<1>4. CASE start_iter
  <2>1. SoundBut(t, start, 0) /\ Taken(t, start, 0) /\ t.dist[start] = 0 /\ Len(t.pq) = 1
    BY <1>1, <1>4, BegunSound
  <2>2. Len(t.pq) + 1 < PQ_SIZE
    <3>1. Len(pq) = 2
      BY <1>1, <1>4 DEF Begun
    <3> HIDE DEF t
    <3> QED
      BY <1>2, <2>1, <3>1
  <2> HIDE DEF t
  <2>3. Sound(AllRelaxed(t, start), 0)
    BY <1>1, <2>1, <2>2, AllRelaxedSound
  <2> QED
    BY <1>1, <1>4, <2>3 DEF t
<1>5. CASE ~start_iter
  <2>1. PICK k \in Nat : Sound(searched, k)
    BY <1>5 DEF ExactInv
  <2>2. SoundBut(t, u, p) /\ Taken(t, u, p)
    <3>1. searched.pq[i].node \notin blocked /\ searched.pq[i].node # dest
      BY <1>1, <1>3, <1>5
    <3> QED
      BY <1>1, <2>1, <3>1, TakenSound
  <2>3. Len(t.pq) + 1 < PQ_SIZE
    <3>1. Len(t.pq) = Len(pq) - 1
      BY <1>1, WithoutKnown DEF TakenOut, searched
    <3> QED
      BY <1>2, <3>1
  <2>4. u = start => t.dist[start] = 0
    BY <1>3, <1>5, <2>2 DEF SoundBut
  <2> HIDE DEF t, u, p
  <2>5. Sound(AllRelaxed(t, u), p) /\ p \in Nat
    BY <1>1, <2>2, <2>3, <2>4, AllRelaxedSound DEF SoundBut
  <2> QED
    BY <2>5 DEF t, u
<1> QED
  BY <1>4, <1>5

\* When the destination comes from the heap, everything nearer is done.
LEMMA ArriveExact ==
  ASSUME TableFits, PathInv, ExactInv, phase = "search", NEW i \in Nearest, Arrive(i), NEW t, t = Without(searched, i)
  PROVE  /\ Noted(t) /\ dest \notin blocked /\ t.prev[dest] # -1 /\ Away(t, dest) < INFINITY
         /\ ClosedWithin(t, t.dist[dest])
<1> DEFINE s == searched
           p == pq[i].priority
<1>1. /\ SearchType(s) /\ Asked /\ i \in 1 .. Len(s.pq) /\ s.pq[i] = pq[i]
      /\ \A j \in 1 .. Len(s.pq) : p <= s.pq[j].priority
  BY NextOfHeap
<1>2. dest \notin blocked /\ pq[i].node = dest /\ ~start_iter /\ dest \in Index /\ start \in Index
  BY <1>1 DEF Arrive, Asked
<1>3. PICK k \in Nat : Sound(s, k)
  BY <1>2 DEF ExactInv
<1>4. TakenOut(t, s, i)
  BY <1>1, WithoutKnown
<1> HIDE DEF s
<1>5. EntryFits(s, k, i) /\ NodeFits(s, dest)
  BY <1>1, <1>2, <1>3 DEF Sound, SoundBut
<1>6. p \in Nat /\ s.dist[dest] \in Nat /\ Away(s, dest) \in Nat /\ INFINITY \in Nat
  <2>1. s.pq[i] \in Entry
    BY <1>1 DEF SearchType
  <2> QED
    BY <1>1, <1>2, <2>1, AwayKnown, TableFacts DEF Entry
<1>7. Away(s, dest) < INFINITY /\ p >= Away(s, dest)
  BY <1>1, <1>2, <1>5 DEF EntryFits
<1>8. s.prev[dest] # -1
  BY <1>1, <1>2, <1>5, <1>7, AwayKnown DEF EntryFits, NodeFits
<1>9. p <= s.dist[dest] /\ s.dist[dest] <= p
  <2>1. Waits(s, dest)
    BY <1>2, <1>3, <1>8 DEF Sound, SoundBut
  <2>2. PICK j \in 1 .. Len(s.pq) : s.pq[j] = [node |-> dest, priority |-> s.dist[dest]]
    BY <2>1 DEF Waits
  <2>3. p <= s.dist[dest]
    BY <1>1, <2>2
  <2>4. s.dist[dest] <= p
    <3>1. CASE dest = start
      BY <1>1, <1>2, <1>5, <1>6, <3>1 DEF EntryFits
    <3>2. CASE dest # start
      BY <1>1, <1>2, <1>6, <1>7, <3>2, AwayKnown
    <3> QED
      BY <3>1, <3>2
  <2> QED
    BY <2>3, <2>4
<1>10. \A n : \A d : ClosedEdge(t, n, d) <=> ClosedEdge(s, n, d)
  BY <1>4 DEF TakenOut, ClosedEdge
<1>11. ASSUME NEW n \in Index, n \notin blocked, Away(s, n) < s.dist[dest], Away(s, n) < INFINITY, NEW d \in Dirs(n)
       PROVE  ClosedEdge(s, n, d)
  <2>1. -1 # n /\ -1 # start
    BY <1>2, TableFacts
  <2>2. CASE n = start
    BY <1>3, <2>1, <2>2, <1>11 DEF Sound, SoundBut, Done
  <2>3. CASE n # start
    <3>1. ~Waits(s, n)
      <4> SUFFICES ASSUME NEW j \in 1 .. Len(s.pq), s.pq[j] = [node |-> n, priority |-> s.dist[n]] PROVE FALSE
        BY DEF Waits
      <4>1. p <= s.dist[n] /\ s.dist[n] \in Nat /\ Away(s, n) = s.dist[n]
        BY <1>1, <2>3, AwayKnown
      <4> QED
        BY <1>6, <1>9, <1>11, <4>1
    <3>2. Done(s, n, k)
      BY <1>3, <1>11, <2>1, <3>1 DEF Sound, SoundBut
    <3> QED
      BY <1>11, <3>2 DEF Done
  <2> QED
    BY <2>2, <2>3
<1>12. Noted(s)
  BY <1>3, SoundNoted
<1>13. Noted(t)
  BY <1>4, <1>12 DEF Noted, TakenOut
<1>14. t.dist = s.dist /\ t.prev = s.prev /\ \A n : Away(t, n) = Away(s, n)
  BY <1>4 DEF TakenOut
<1>15. ClosedWithin(t, t.dist[dest])
  BY <1>10, <1>11, <1>14 DEF ClosedWithin
<1> QED
  BY <1>2, <1>7, <1>8, <1>13, <1>14, <1>15

\* When the heap is empty, everything within reach is done.
LEMMA GiveUpExact ==
  ASSUME TableFits, PathInv, ExactInv, phase = "search", pq = <<>>
  PROVE  Noted(searched) /\ ClosedWithin(searched, INFINITY) /\ (dest \in blocked \/ prev[dest] = -1)
<1>1. ~start_iter
  BY DEF ExactInv, Begun
<1>2. PICK k \in Nat : Sound(searched, k)
  BY <1>1 DEF ExactInv
<1>3. \A n : ~Waits(searched, n)
  BY DEF Waits, searched
<1>4. ASSUME NEW n \in Index, n \notin blocked, Away(searched, n) < INFINITY PROVE Done(searched, n, k)
  <2>1. n # -1
    BY TableFacts
  <2> QED
    BY <1>2, <1>3, <1>4, <2>1 DEF Sound, SoundBut
<1>5. ClosedWithin(searched, INFINITY)
  BY <1>4 DEF ClosedWithin, Done
<1>6. dest \in blocked \/ searched.prev[dest] = -1
  BY <1>2, <1>3 DEF Sound, SoundBut
<1> QED
  BY <1>2, <1>5, <1>6, SoundNoted DEF searched

\* What is known of the search in a state is known of it in the next, if it is left alone.
LEMMA SearchedLater ==
  ASSUME start' = start, dest' = dest, blocked' = blocked, NEW t, searched' = t
  PROVE  /\ \A k : Sound(t, k) => Sound(searched, k)'
         /\ Noted(t) => Noted(searched)'
         /\ \A k : ClosedWithin(t, k) => ClosedWithin(searched, k)'
         /\ \A n : Away(searched, n)' = Away(t, n)
<1>1. \A n : Away(searched, n)' = Away(t, n)
  BY DEF Away, AwayIn
<1>2. \A n : \A d : ClosedEdge(searched, n, d)' <=> ClosedEdge(t, n, d)
  BY <1>1 DEF ClosedEdge
<1>3. \A n : \A k : Done(searched, n, k)' <=> Done(t, n, k)
  BY <1>1, <1>2 DEF Done
<1>4. \A n : TurnedTo(searched, n)' <=> TurnedTo(t, n)
  BY DEF TurnedTo
<1>5. \A m : \A n : CameBy(searched, m, n)' <=> CameBy(t, m, n)
  BY <1>1 DEF CameBy
<1>6. \A k : \A i : EntryFits(searched, k, i)' <=> EntryFits(t, k, i)
  BY <1>1 DEF EntryFits
<1>7. \A n : (NodeFits(searched, n)' <=> NodeFits(t, n)) /\ (Waits(searched, n)' <=> Waits(t, n))
  BY DEF NodeFits, Waits
<1>8. SearchType(searched)' <=> SearchType(t)
  BY DEF SearchType
<1>9. ASSUME NEW k, Sound(t, k) PROVE Sound(searched, k)'
  BY <1>1, <1>3, <1>4, <1>5, <1>6, <1>7, <1>8, <1>9 DEF Sound, SoundBut
<1>10. Noted(t) => Noted(searched)'
  BY <1>1, <1>4, <1>5, <1>7, <1>8 DEF Noted
<1>11. ASSUME NEW k, ClosedWithin(t, k) PROVE ClosedWithin(searched, k)'
  BY <1>1, <1>2, <1>11 DEF ClosedWithin
<1> QED
  BY <1>1, <1>9, <1>10, <1>11

LEMMA ExactStep == ASSUME TableFits PROVE PathInv /\ ExactInv /\ NothingDropped /\ [FindNext]_findVars => ExactInv'
<1> SUFFICES ASSUME PathInv, ExactInv, NothingDropped, [FindNext]_findVars PROVE ExactInv'
  OBVIOUS
<1>1. asked' = asked
  BY DEF FindNext, Search, Skip, Arrive, Explore, GiveUp, TraceStart, TraceBranch, TraceOther, WalkOn, findVars
<1>2. start' = start /\ dest' = dest /\ blocked' = blocked
  BY <1>1 DEF asked
<1>3. CASE Search
  <2>1. PICK i \in Nearest : Skip(i) \/ Arrive(i) \/ Explore(i)
    BY <1>3 DEF Search
  <2>2. phase = "search"
    BY <1>3 DEF Search
  <2>3. /\ SearchType(searched) /\ Asked /\ i \in 1 .. Len(searched.pq) /\ searched.pq[i] = pq[i]
        /\ start_iter => Begun /\ i = 1 /\ pq[i].node = start
    BY <2>2, NextOfHeap
  <2> DEFINE t == Without(searched, i)
  <2>4. CASE Skip(i)
    <3>1. searched' = t /\ phase' = phase /\ start_iter' = start_iter
      BY <2>4 DEF Skip, t, Without, searched
    <3>2. ~start_iter
      BY <2>3, <2>4 DEF Skip, Asked
    <3>3. PICK k \in Nat : Sound(searched, k)
      BY <2>2, <3>2 DEF ExactInv
    <3>4. Sound(t, k)
      BY <2>3, <2>4, <3>3, SkipSound DEF Skip
    <3> HIDE DEF t
    <3>5. Sound(searched, k)'
      BY <1>2, <3>1, <3>4, SearchedLater
    <3> QED
      BY <2>2, <3>1, <3>2, <3>5 DEF ExactInv
  <2>5. CASE Arrive(i)
    <3>1. searched' = t /\ phase' = "trace" /\ t.prev = prev /\ t.dist = dist /\ dist' = dist /\ prev' = prev
      BY <2>5 DEF Arrive, t, Without, searched
    <3>2. /\ Noted(t) /\ dest \notin blocked /\ t.prev[dest] # -1 /\ Away(t, dest) < INFINITY
          /\ ClosedWithin(t, t.dist[dest])
      BY <2>2, <2>5, ArriveExact
    <3> HIDE DEF t
    <3>3. Noted(searched)' /\ ClosedWithin(searched, dist[dest])' /\ Away(searched, dest)' < INFINITY
      BY <1>2, <3>1, <3>2, SearchedLater
    <3> QED
      BY <1>2, <3>1, <3>2, <3>3 DEF ExactInv
  <2>6. CASE Explore(i)
    <3> DEFINE r == AllRelaxed(t, pq[i].node)
    <3>1. PICK k \in Nat : Sound(r, k)
      BY <2>2, <2>6, ExploreExact
    <3>2. dist' = r.dist /\ prev' = r.prev /\ pq' = r.pq /\ start_iter' = FALSE /\ phase' = phase
      BY <2>6 DEF Explore, Without, searched
    <3> HIDE DEF r
    <3>3. searched' = r
      BY <3>1, <3>2 DEF searched, Sound, SoundBut, SearchType
    <3>4. Sound(searched, k)'
      BY <1>2, <3>1, <3>3, SearchedLater
    <3> QED
      BY <2>2, <3>2, <3>4 DEF ExactInv
  <2> QED
    BY <2>1, <2>4, <2>5, <2>6
<1>4. CASE GiveUp
  <2>1. phase = "search" /\ pq = <<>> /\ phase' = "none" /\ dist' = dist /\ prev' = prev /\ pq' = pq
    BY <1>4 DEF GiveUp, search
  <2>2. Noted(searched) /\ ClosedWithin(searched, INFINITY) /\ (dest \in blocked \/ prev[dest] = -1)
    BY <2>1, GiveUpExact
  <2>3. searched' = searched
    BY <2>1 DEF searched
  <2>4. Noted(searched)' /\ ClosedWithin(searched, INFINITY)'
    BY <1>2, <2>2, <2>3, SearchedLater
  <2> QED
    BY <1>2, <2>1, <2>2, <2>4 DEF ExactInv
<1>5. CASE UNCHANGED search /\ (phase' = phase \/ (phase = "trace" /\ phase' = "found")) /\ start_iter' = start_iter
  <2>1. dist' = dist /\ prev' = prev /\ pq' = pq /\ searched' = searched
    BY <1>5 DEF search, searched
  <2>2. /\ \A k : Sound(searched, k) => Sound(searched, k)'
        /\ Noted(searched) => Noted(searched)'
        /\ \A k : ClosedWithin(searched, k) => ClosedWithin(searched, k)'
        /\ \A n : Away(searched, n)' = Away(searched, n)
    BY <1>2, <2>1, SearchedLater
  <2>3. Begun => Begun'
    BY <1>2, <2>1 DEF Begun
  <2> QED
    BY <1>2, <1>5, <2>1, <2>2, <2>3 DEF ExactInv
<1>6. CASE TraceStart \/ TraceBranch \/ TraceOther \/ UNCHANGED findVars
  BY <1>5, <1>6 DEF TraceStart, TraceBranch, TraceOther, WalkOn, findVars, search
<1> QED
  BY <1>3, <1>4, <1>6 DEF FindNext

\* As long as the heap has room for every node that is put into it: while the search goes
\* on, the nearer nodes are done; when it ends, each way by which a node could be nearer
\* than the destination is known.
THEOREM SearchIsExact == ASSUME TableFits PROVE FindSpec /\ []NothingDropped => []ExactInv
<1>1. FindInit /\ NothingDropped => ExactInv
  BY ExactInit
<1>2. PathInv /\ ExactInv /\ NothingDropped /\ [FindNext]_findVars => ExactInv'
  BY ExactStep
<1>3. FindSpec => []PathInv
  BY SearchInvariant, PTL
<1> QED
  BY <1>1, <1>2, <1>3, PTL DEF FindSpec
-----------------------------------------------------------------------------
(* What the railway promises: the costs that Cost comes to.                *)

Rounds == [cost : [Index -> Nat], open : SUBSET Index, rounds : Nat]
Over(s) == s.open = {} \/ s.rounds = 0

FirstRound ==
  [cost |-> [n \in Index |-> CASE n = start -> 0 [] n = Reverse(start) -> REVERSE_COST [] OTHER -> INFINITY],
   open |-> {start, Reverse(start)} \ blocked, rounds |-> Cardinality(Index)]

\* What a round makes of the costs.
AfterRound(s, t) ==
  /\ t \in Rounds /\ t.rounds = s.rounds - 1 /\ t.open \cap blocked = {}
  /\ \A m \in Index : t.cost[m] <= s.cost[m]
  /\ \A n \in s.open : \A d \in Dirs(n) : t.cost[Dest(n, d)] <= s.cost[n] + Dist(n, d)
  /\ \A m \in Index : t.cost[m] = s.cost[m] \/
       \E n \in s.open : \E d \in Dirs(n) : Dest(n, d) = m /\ t.cost[m] = s.cost[n] + Dist(n, d)
  /\ \A m \in Index : m \notin blocked /\ m \notin t.open => t.cost[m] = s.cost[m]
  /\ \A m \in t.open : t.cost[m] < s.cost[m]

LEMMA RoundKnown ==
  ASSUME TableFits, NEW s \in Rounds, s.rounds # 0
  PROVE  AfterRound(s, NextRound(s, blocked))
<1> DEFINE taken == {o \in Offers(s.cost, s.open) : o[2] < s.cost[o[1]]}
           down == {o[1] : o \in taken}
           Of(m) == {o[2] : o \in {p \in taken : p[1] = m}}
           cost == [m \in Index |-> IF m \in down THEN MinOf(Of(m)) ELSE s.cost[m]]
           t == NextRound(s, blocked)
<1>1. t = [cost |-> cost, open |-> down \ blocked, rounds |-> s.rounds - 1]
  BY DEF NextRound
<1>2. s.cost \in [Index -> Nat] /\ s.open \subseteq Index /\ s.rounds \in Nat
  BY DEF Rounds
<1>3. ASSUME NEW o \in taken
      PROVE  \E n \in s.open : \E d \in Dirs(n) : o = <<Dest(n, d), s.cost[n] + Dist(n, d)>>
                                                  /\ o[1] \in Index /\ o[2] \in Nat /\ o[2] < s.cost[o[1]]
  <2>1. o \in Offers(s.cost, s.open) /\ o[2] < s.cost[o[1]]
    OBVIOUS
  <2>2. PICK n \in s.open : o \in {<<Dest(n, d), s.cost[n] + Dist(n, d)>> : d \in Dirs(n)}
    BY <2>1 DEF Offers
  <2>3. PICK d \in Dirs(n) : o = <<Dest(n, d), s.cost[n] + Dist(n, d)>>
    BY <2>2
  <2>4. Dest(n, d) \in Index /\ s.cost[n] + Dist(n, d) \in Nat
    BY <1>2, TableFacts, SMTT(60)
  <2> HIDE DEF taken
  <2> QED
    BY <2>1, <2>3, <2>4
<1>4. ASSUME NEW n \in s.open, NEW d \in Dirs(n), s.cost[n] + Dist(n, d) < s.cost[Dest(n, d)]
      PROVE  <<Dest(n, d), s.cost[n] + Dist(n, d)>> \in taken
  <2>1. <<Dest(n, d), s.cost[n] + Dist(n, d)>> \in Offers(s.cost, s.open)
    BY DEF Offers
  <2> QED
    BY <1>4, <2>1
<1> HIDE DEF taken
<1>5. ASSUME NEW m \in down PROVE m \in Index /\ Of(m) # {} /\ Of(m) \subseteq Nat
  BY <1>3
<1>6. ASSUME NEW m \in down PROVE MinOf(Of(m)) \in Of(m) /\ \A y \in Of(m) : MinOf(Of(m)) <= y
  <2> HIDE DEF Of
  <2>1. \E x \in Of(m) : \A y \in Of(m) : x <= y
    BY <1>5, Least
  <2> QED
    BY <2>1 DEF MinOf
<1>7. down \subseteq Index
  BY <1>5
<1>8. ASSUME NEW m \in down
      PROVE  /\ cost[m] \in Nat /\ cost[m] < s.cost[m]
             /\ \E n \in s.open : \E d \in Dirs(n) : Dest(n, d) = m /\ cost[m] = s.cost[n] + Dist(n, d)
  <2>1. cost[m] = MinOf(Of(m))
    BY <1>7
  <2>2. PICK o \in taken : o[1] = m /\ o[2] = cost[m]
    <3> HIDE DEF cost
    <3> QED
      BY <1>6, <2>1
  <2> HIDE DEF cost, Of, down
  <2> QED
    BY <1>3, <2>2
<1>9. \A m \in Index : m \notin down => cost[m] = s.cost[m]
  OBVIOUS
<1>10. ASSUME NEW n \in s.open, NEW d \in Dirs(n) PROVE cost[Dest(n, d)] <= s.cost[n] + Dist(n, d)
  <2>1. Dest(n, d) \in Index /\ s.cost[n] + Dist(n, d) \in Nat /\ s.cost[Dest(n, d)] \in Nat
    BY <1>2, TableFacts
  <2>2. CASE s.cost[n] + Dist(n, d) < s.cost[Dest(n, d)]
    <3>1. <<Dest(n, d), s.cost[n] + Dist(n, d)>> \in taken
      BY <1>4, <2>2
    <3>2. Dest(n, d) \in down /\ s.cost[n] + Dist(n, d) \in Of(Dest(n, d))
      BY <3>1
    <3>3. cost[Dest(n, d)] = MinOf(Of(Dest(n, d)))
      BY <2>1, <3>2
    <3> HIDE DEF cost, Of, down
    <3> QED
      BY <1>6, <3>2, <3>3
  <2>3. CASE ~(s.cost[n] + Dist(n, d) < s.cost[Dest(n, d)])
    <3>1. CASE Dest(n, d) \in down
      <4>1. cost[Dest(n, d)] \in Nat /\ cost[Dest(n, d)] < s.cost[Dest(n, d)]
        BY <1>8, <3>1
      <4> HIDE DEF cost, down
      <4> QED
        BY <2>1, <2>3, <4>1
    <3>2. CASE Dest(n, d) \notin down
      <4>1. cost[Dest(n, d)] = s.cost[Dest(n, d)]
        BY <1>9, <2>1, <3>2
      <4> HIDE DEF cost, down
      <4> QED
        BY <2>1, <2>3, <4>1
    <3> QED
      BY <3>1, <3>2
  <2> QED
    BY <2>2, <2>3
<1>11. cost \in [Index -> Nat]
  <2>1. \A m \in Index : cost[m] \in Nat
    BY <1>2, <1>8, <1>9
  <2> QED
    BY <2>1
<1>12. t \in Rounds
  <2>1. s.rounds - 1 \in Nat
    BY <1>2
  <2> HIDE DEF cost, down, t
  <2> QED
    BY <1>1, <1>7, <1>11, <2>1 DEF Rounds
<1>13. t.cost = cost /\ t.open = down \ blocked /\ t.rounds = s.rounds - 1
  BY <1>1
<1> HIDE DEF cost, down, t
<1>14. \A m \in Index : cost[m] <= s.cost[m]
  <2> TAKE m \in Index
  <2>1. cost[m] \in Nat /\ s.cost[m] \in Nat
    BY <1>2, <1>11
  <2> QED
    BY <1>8, <1>9, <2>1
<1>15. AfterRound(s, t)
  BY <1>8, <1>9, <1>10, <1>12, <1>13, <1>14 DEF AfterRound
<1> QED
  BY <1>15 DEF t

\* Cost ends where the rounds are over, with what is true before and after each of them.
LEMMA CostSettles ==
  ASSUME TableFits, Asked, NEW G, G \subseteq Rounds, FirstRound \in G,
         \A s \in G : ~Over(s) => NextRound(s, blocked) \in G
  PROVE  \E s \in G : Over(s) /\ Cost(start, blocked) = s.cost
<1> DEFINE moves == {s \in Rounds : ~Over(s)}
           step == [s \in Rounds |-> IF Over(s) THEN s ELSE NextRound(s, blocked)]
           out == [s \in Rounds |-> s.cost]
           V == [Index -> Nat]
           Settles(f) == f = [s \in Rounds |-> IF s.open = {} \/ s.rounds = 0 THEN s.cost ELSE f[NextRound(s, blocked)]]
<1>1. \E f : Settles(f)
  <2>1. moves \in SUBSET Rounds /\ out \in [Rounds -> V]
    BY DEF Rounds
  <2>2. step \in [Rounds -> Rounds]
    <3>1. \A s \in Rounds : ~Over(s) => NextRound(s, blocked) \in Rounds
      BY RoundKnown DEF Over, AfterRound
    <3> QED
      BY <3>1
  <2>3. \A s \in Rounds : (s \in moves <=> ~Over(s)) /\ out[s] = s.cost /\ (~Over(s) => step[s] = NextRound(s, blocked))
    OBVIOUS
  <2> HIDE DEF moves, step, out, V
  <2>4. PICK f : FollowsSteps(f, Rounds, moves, step, out) /\ f \in [Rounds -> V]
    BY <2>1, <2>2, TailRecursion
  <2>5. \A s \in Rounds : f[s] = IF s.open = {} \/ s.rounds = 0 THEN s.cost ELSE f[NextRound(s, blocked)]
    BY <2>3, <2>4 DEF FollowsSteps, Over
  <2>6. Settles(f)
    BY <2>4, <2>5
  <2> QED
    BY <2>6
<1>2. PICK f : Settles(f) /\ Cost(start, blocked) = f[FirstRound]
  <2> DEFINE c == CHOOSE f : Settles(f)
  <2>1. Settles(c)
    BY <1>1
  <2>2. Cost(start, blocked) = c[FirstRound]
    BY DEF Cost, FirstRound, Rounds
  <2> HIDE DEF c, Settles
  <2> QED
    BY <2>1, <2>2
<1>3. \A s \in Rounds : f[s] = IF Over(s) THEN s.cost ELSE f[NextRound(s, blocked)]
  BY <1>2 DEF Over
<1> HIDE DEF Settles
<1> DEFINE Ends(s) == \E e \in G : Over(e) /\ f[s] = e.cost
           T == {r \in Nat : \E s \in G : s.rounds = r /\ ~Ends(s)}
<1>4. T = {}
  <2> SUFFICES ASSUME T # {} PROVE FALSE
    OBVIOUS
  <2>1. PICK r \in T : \A q \in T : r <= q
    <3>1. T \subseteq Nat
      OBVIOUS
    <3> HIDE DEF T
    <3> QED
      BY <3>1, Least
  <2>2. PICK s \in G : s.rounds = r /\ ~Ends(s)
    OBVIOUS
  <2>3. s \in Rounds /\ r \in Nat /\ (Over(s) => Ends(s))
    BY <1>3
  <2>4. ~Over(s) /\ r # 0
    BY <2>2, <2>3 DEF Over
  <2>5. NextRound(s, blocked) \in G /\ NextRound(s, blocked).rounds = r - 1 /\ r - 1 \in Nat
    BY <2>2, <2>3, <2>4, RoundKnown DEF AfterRound
  <2>6. f[s] = f[NextRound(s, blocked)]
    BY <1>3, <2>3, <2>4
  <2>7. ~Ends(NextRound(s, blocked))
    BY <2>2, <2>6
  <2>8. r - 1 \in T
    <3> HIDE DEF Ends
    <3> QED
      BY <2>5, <2>7
  <2> HIDE DEF T
  <2> QED
    BY <2>1, <2>3, <2>8
<1>5. FirstRound.rounds \in Nat
  BY DEF Rounds
<1>6. Ends(FirstRound)
  <2> HIDE DEF Ends
  <2> QED
    BY <1>4, <1>5
<1> QED
  BY <1>2, <1>6

\* How many nodes are nearer than n.
NearerThan(s, n) == {x \in Index : Away(s, x) < Away(s, n)}
Rank(s, n) == Cardinality(NearerThan(s, n))

LEMMA RankGrows ==
  ASSUME TableFits, NEW s, SearchType(s), NEW m \in Index, NEW n \in Index
  PROVE  /\ Rank(s, n) \in Nat /\ Rank(s, n) <= Cardinality(Index)
         /\ Away(s, m) < Away(s, n) => Rank(s, m) < Rank(s, n)
<1>1. IsFiniteSet(Index) /\ Cardinality(Index) \in Nat
  BY TableFacts
<1>2. ASSUME NEW x \in Index
      PROVE  /\ IsFiniteSet(NearerThan(s, x)) /\ Rank(s, x) \in Nat /\ Rank(s, x) <= Cardinality(Index)
  <2>1. NearerThan(s, x) \subseteq Index
    BY DEF NearerThan
  <2>2. IsFiniteSet(NearerThan(s, x)) /\ Cardinality(NearerThan(s, x)) <= Cardinality(Index)
    BY <1>1, <2>1, FS_Subset
  <2> QED
    BY <2>2, FS_CardinalityType DEF Rank
<1>3. ASSUME Away(s, m) < Away(s, n) PROVE Rank(s, m) < Rank(s, n)
  <2>1. \A x \in Index : Away(s, x) \in Nat
    BY AwayKnown
  <2>2. NearerThan(s, m) \subseteq NearerThan(s, n) /\ m \in NearerThan(s, n) /\ m \notin NearerThan(s, m)
    BY <1>3, <2>1 DEF NearerThan
  <2>3. Rank(s, m) <= Rank(s, n) /\ (Rank(s, m) = Rank(s, n) => NearerThan(s, m) = NearerThan(s, n))
    BY <1>2, <2>2, FS_Subset DEF Rank
  <2> QED
    BY <1>2, <2>2, <2>3
<1> QED
  BY <1>2, <1>3

\* How a node within reach was come to.
LEMMA ComeBy ==
  ASSUME TableFits, Asked, NEW s, Noted(s), NEW n \in Index, n # start, Away(s, n) < INFINITY
  PROVE  \/ n = Reverse(start) /\ Away(s, n) = REVERSE_COST
         \/ \E m \in Index : /\ m \notin blocked /\ Away(s, m) < INFINITY /\ Away(s, m) < Away(s, n)
                             /\ \E d \in Dirs(m) : Dest(m, d) = n /\ Away(s, n) = Away(s, m) + Dist(m, d)
<1>1. SearchType(s) /\ NodeFits(s, n)
  BY DEF Noted
<1>2. Away(s, n) = s.dist[n] /\ s.dist[n] \in Nat
  BY <1>1, AwayKnown
<1>3. s.prev[n] # -1
  BY <1>1, <1>2 DEF NodeFits
<1>4. CASE TurnedTo(s, n)
  BY <1>2, <1>4 DEF TurnedTo
<1>5. CASE /\ s.prev[n] \in Index /\ s.prev[n] \notin blocked /\ Away(s, s.prev[n]) < INFINITY
           /\ CameBy(s, s.prev[n], n)
  <2>1. PICK d \in Dirs(s.prev[n]) : Dest(s.prev[n], d) = n /\ s.dist[n] = Away(s, s.prev[n]) + Dist(s.prev[n], d)
    BY <1>5 DEF CameBy
  <2>2. Dist(s.prev[n], d) \in Nat /\ Dist(s.prev[n], d) > 0 /\ Away(s, s.prev[n]) \in Nat
    BY <1>1, <1>5, AwayKnown, TableFacts
  <2>3. Away(s, s.prev[n]) < Away(s, n)
    BY <1>2, <2>1, <2>2
  <2> QED
    BY <1>2, <1>5, <2>1, <2>3
<1> QED
  BY <1>3, <1>4, <1>5 DEF Noted

\* Between the rounds no cost is below the distance of the search, if that is less than
\* limit, a node that is not open has nothing left to offer, and after k rounds the nodes
\* with at most k nearer ones have come down to their distance.
Settling(s, limit) ==
  {t \in Rounds :
     /\ t.open \cap blocked = {} /\ t.rounds <= Cardinality(Index)
     /\ t.cost[start] = 0 /\ t.cost[Reverse(start)] <= REVERSE_COST
     /\ \A n \in Index : t.cost[n] <= INFINITY /\ (n \in t.open => t.cost[n] < INFINITY)
     /\ \A n \in Index : t.cost[n] >= Away(s, n) \/ t.cost[n] >= limit
     /\ \A n \in Index : n \notin blocked /\ n \notin t.open /\ t.cost[n] < INFINITY =>
          \A d \in Dirs(n) : t.cost[Dest(n, d)] <= t.cost[n] + Dist(n, d)
     /\ \A n \in Index : Away(s, n) < INFINITY /\ Rank(s, n) <= Cardinality(Index) - t.rounds =>
          t.cost[n] <= Away(s, n)}

LEMMA SettlingFirst ==
  ASSUME TableFits, Asked, NEW s, Noted(s), NEW limit \in Nat
  PROVE  FirstRound \in Settling(s, limit)
<1> DEFINE r == Reverse(start)
           t == FirstRound
<1>1. /\ start \in Index /\ r \in Index /\ r # start /\ start \notin blocked /\ SearchType(s)
      /\ REVERSE_COST \in Nat /\ REVERSE_COST > 0 /\ INFINITY \in Nat /\ REVERSE_COST < INFINITY
      /\ Cardinality(Index) \in Nat
  <2>1. r # start
    BY DEF TableFits, TableAssumption, Asked
  <2> QED
    BY <2>1, TableFacts DEF Asked, Noted
<1>2. /\ t.open = {start, r} \ blocked /\ t.rounds = Cardinality(Index)
      /\ t.cost = [n \in Index |-> CASE n = start -> 0 [] n = r -> REVERSE_COST [] OTHER -> INFINITY]
  BY DEF FirstRound
<1>3. t \in Rounds
  <2>1. [n \in Index |-> CASE n = start -> 0 [] n = r -> REVERSE_COST [] OTHER -> INFINITY] \in [Index -> Nat]
    BY <1>1
  <2> QED
    BY <1>1, <2>1 DEF FirstRound, Rounds
<1> HIDE DEF t
<1>4. /\ t.cost[start] = 0 /\ t.cost[r] = REVERSE_COST
      /\ \A n \in Index : n # start /\ n # r => t.cost[n] = INFINITY
  BY <1>1, <1>2
<1> HIDE DEF r
<1>5. \A n \in Index : t.cost[n] <= INFINITY /\ (n \in t.open => t.cost[n] < INFINITY)
  BY <1>1, <1>2, <1>4
<1>6. ASSUME NEW n \in Index PROVE t.cost[n] >= Away(s, n)
  <2>1. Away(s, n) \in Nat /\ s.dist[n] \in Nat /\ (n # start => Away(s, n) = s.dist[n]) /\ NodeFits(s, n)
    BY <1>1, AwayKnown DEF Noted
  <2>2. CASE n = start
    BY <1>4, <2>2 DEF Away, AwayIn
  <2>3. CASE n = r
    BY <1>1, <1>4, <2>1, <2>3 DEF Noted, r
  <2>4. CASE n # start /\ n # r
    BY <1>1, <1>4, <2>1, <2>4 DEF NodeFits
  <2> QED
    BY <2>2, <2>3, <2>4
<1>7. ASSUME NEW n \in Index, n \notin blocked, n \notin t.open, t.cost[n] < INFINITY PROVE FALSE
  BY <1>1, <1>2, <1>4, <1>7
<1>8. ASSUME NEW n \in Index, Away(s, n) < INFINITY, Rank(s, n) <= Cardinality(Index) - t.rounds
      PROVE  t.cost[n] <= Away(s, n)
  <2>1. CASE n = start
    BY <1>4, <2>1 DEF Away, AwayIn
  <2>2. CASE n = r /\ Away(s, n) = REVERSE_COST
    BY <1>1, <1>4, <2>2
  <2>3. ASSUME NEW m \in Index, Away(s, m) < Away(s, n) PROVE FALSE
    <3>1. Rank(s, m) < Rank(s, n) /\ Rank(s, m) \in Nat /\ Rank(s, n) \in Nat
      BY <1>1, <2>3, RankGrows
    <3> QED
      BY <1>1, <1>2, <1>8, <3>1
  <2> QED
    BY <1>8, <2>1, <2>2, <2>3, ComeBy DEF r
<1>9. t.open \cap blocked = {} /\ t.rounds <= Cardinality(Index) /\ t.cost[Reverse(start)] <= REVERSE_COST
  BY <1>1, <1>2, <1>4 DEF r
<1>10. t \in Settling(s, limit)
  BY <1>3, <1>4, <1>5, <1>6, <1>7, <1>8, <1>9 DEF Settling
<1> QED
  BY <1>10 DEF t

LEMMA SettlingStep ==
  ASSUME TableFits, Asked, NEW s, Noted(s), NEW limit \in Nat, ClosedWithin(s, limit),
         NEW t \in Settling(s, limit), ~Over(t)
  PROVE  NextRound(t, blocked) \in Settling(s, limit)
<1> DEFINE u == NextRound(t, blocked)
<1>1. /\ start \in Index /\ Reverse(start) \in Index /\ SearchType(s) /\ REVERSE_COST \in Nat /\ INFINITY \in Nat
      /\ Cardinality(Index) \in Nat
  BY TableFacts DEF Asked, Noted
<1>2. /\ t \in Rounds /\ t.open \cap blocked = {} /\ t.rounds <= Cardinality(Index)
      /\ t.cost[start] = 0 /\ t.cost[Reverse(start)] <= REVERSE_COST
      /\ \A n \in Index : t.cost[n] <= INFINITY /\ (n \in t.open => t.cost[n] < INFINITY)
      /\ \A n \in Index : t.cost[n] >= Away(s, n) \/ t.cost[n] >= limit
      /\ \A n \in Index : n \notin blocked /\ n \notin t.open /\ t.cost[n] < INFINITY =>
           \A d \in Dirs(n) : t.cost[Dest(n, d)] <= t.cost[n] + Dist(n, d)
      /\ \A n \in Index : Away(s, n) < INFINITY /\ Rank(s, n) <= Cardinality(Index) - t.rounds =>
           t.cost[n] <= Away(s, n)
  BY DEF Settling
<1>3. t.rounds # 0 /\ t.rounds \in Nat /\ t.open \subseteq Index /\ t.cost \in [Index -> Nat]
  BY <1>2 DEF Over, Rounds
<1>4. AfterRound(t, u)
  BY <1>2, <1>3, RoundKnown
<1> HIDE DEF u
<1>5. /\ u \in Rounds /\ u.rounds = t.rounds - 1 /\ u.open \cap blocked = {} /\ u.open \subseteq Index
      /\ u.cost \in [Index -> Nat]
      /\ \A m \in Index : u.cost[m] <= t.cost[m]
      /\ \A n \in t.open : \A d \in Dirs(n) : u.cost[Dest(n, d)] <= t.cost[n] + Dist(n, d)
      /\ \A m \in Index : u.cost[m] = t.cost[m] \/
           \E n \in t.open : \E d \in Dirs(n) : Dest(n, d) = m /\ u.cost[m] = t.cost[n] + Dist(n, d)
      /\ \A m \in Index : m \notin blocked /\ m \notin u.open => u.cost[m] = t.cost[m]
      /\ \A m \in u.open : u.cost[m] < t.cost[m]
  BY <1>4 DEF AfterRound, Rounds
<1>6. u.rounds <= Cardinality(Index) /\ u.cost[start] = 0 /\ u.cost[Reverse(start)] <= REVERSE_COST
  <2>1. u.cost[start] <= 0 /\ u.cost[start] \in Nat
    BY <1>1, <1>2, <1>5
  <2>2. u.cost[Reverse(start)] <= t.cost[Reverse(start)] /\ u.cost[Reverse(start)] \in Nat /\ t.cost[Reverse(start)] \in Nat
    BY <1>1, <1>3, <1>5
  <2> QED
    BY <1>1, <1>2, <1>3, <1>5, <2>1, <2>2
<1>7. ASSUME NEW n \in Index PROVE u.cost[n] <= INFINITY /\ (n \in u.open => u.cost[n] < INFINITY)
  <2>1. u.cost[n] <= t.cost[n] /\ t.cost[n] <= INFINITY /\ u.cost[n] \in Nat /\ t.cost[n] \in Nat
    BY <1>2, <1>3, <1>5
  <2>2. n \in u.open => u.cost[n] < t.cost[n]
    BY <1>5
  <2> QED
    BY <1>1, <2>1, <2>2
<1>8. ASSUME NEW m \in Index PROVE u.cost[m] >= Away(s, m) \/ u.cost[m] >= limit
  <2>1. CASE u.cost[m] = t.cost[m]
    BY <1>2, <2>1
  <2>2. ASSUME NEW n \in t.open, NEW d \in Dirs(n), Dest(n, d) = m, u.cost[m] = t.cost[n] + Dist(n, d)
        PROVE  u.cost[m] >= Away(s, m) \/ u.cost[m] >= limit
    <3>1. /\ n \in Index /\ n \notin blocked /\ Dist(n, d) \in Nat /\ t.cost[n] \in Nat /\ t.cost[n] < INFINITY
          /\ Away(s, n) \in Nat /\ Away(s, m) \in Nat /\ (t.cost[n] >= Away(s, n) \/ t.cost[n] >= limit)
      BY <1>1, <1>2, <1>3, AwayKnown, TableFacts
    <3>2. CASE t.cost[n] >= limit
      BY <2>2, <3>1, <3>2
    <3>3. CASE t.cost[n] < limit
      <4>1. Away(s, n) <= t.cost[n]
        BY <3>1, <3>3
      <4>2. Away(s, n) < limit /\ Away(s, n) < INFINITY
        BY <1>1, <3>1, <3>3, <4>1
      <4>3. Away(s, m) <= Away(s, n) + Dist(n, d)
        BY <2>2, <3>1, <4>2 DEF ClosedWithin, ClosedEdge
      <4> QED
        BY <2>2, <3>1, <4>1, <4>3
    <3> QED
      BY <3>1, <3>2, <3>3
  <2> QED
    BY <1>5, <2>1, <2>2
<1>9. ASSUME NEW n \in Index, n \notin blocked, n \notin u.open, u.cost[n] < INFINITY, NEW d \in Dirs(n)
      PROVE  u.cost[Dest(n, d)] <= u.cost[n] + Dist(n, d)
  <2>1. u.cost[n] = t.cost[n]
    BY <1>5, <1>9
  <2>2. CASE n \in t.open
    BY <1>5, <2>1, <2>2
  <2>3. CASE n \notin t.open
    <3>1. t.cost[Dest(n, d)] <= t.cost[n] + Dist(n, d)
      BY <1>2, <1>9, <2>1, <2>3
    <3>2. Dest(n, d) \in Index /\ Dist(n, d) \in Nat
      BY TableFacts
    <3>3. /\ u.cost[Dest(n, d)] <= t.cost[Dest(n, d)] /\ u.cost[Dest(n, d)] \in Nat /\ t.cost[Dest(n, d)] \in Nat
          /\ t.cost[n] \in Nat
      BY <1>3, <1>5, <3>2
    <3> QED
      BY <2>1, <3>1, <3>2, <3>3
  <2> QED
    BY <2>2, <2>3
<1>10. ASSUME NEW n \in Index, Away(s, n) < INFINITY, Rank(s, n) <= Cardinality(Index) - u.rounds
       PROVE  u.cost[n] <= Away(s, n)
  <2>1. /\ u.cost[n] <= t.cost[n] /\ u.cost[n] \in Nat /\ t.cost[n] \in Nat /\ Away(s, n) \in Nat /\ Rank(s, n) \in Nat
    BY <1>1, <1>3, <1>5, AwayKnown, RankGrows
  <2>2. CASE n = start
    BY <1>6, <2>2 DEF Away, AwayIn
  <2>3. CASE n = Reverse(start) /\ Away(s, n) = REVERSE_COST
    BY <1>6, <2>3
  <2>4. ASSUME NEW m \in Index, m \notin blocked, Away(s, m) < INFINITY, Away(s, m) < Away(s, n),
               NEW d \in Dirs(m), Dest(m, d) = n, Away(s, n) = Away(s, m) + Dist(m, d)
        PROVE  u.cost[n] <= Away(s, n)
    <3>1. /\ Rank(s, m) < Rank(s, n) /\ Rank(s, m) \in Nat /\ Away(s, m) \in Nat /\ t.cost[m] \in Nat
          /\ Dist(m, d) \in Nat
      BY <1>1, <1>3, <2>4, AwayKnown, RankGrows, TableFacts
    <3>2. Rank(s, m) <= Cardinality(Index) - t.rounds
      BY <1>1, <1>3, <1>5, <1>10, <2>1, <3>1
    <3>3. t.cost[m] <= Away(s, m)
      BY <1>2, <2>4, <3>2
    <3>4. u.cost[n] <= t.cost[m] + Dist(m, d)
      <4>1. CASE m \in t.open
        BY <1>5, <2>4, <4>1
      <4>2. CASE m \notin t.open
        <5>1. t.cost[m] < INFINITY
          BY <1>1, <2>4, <3>1, <3>3
        <5>2. t.cost[n] <= t.cost[m] + Dist(m, d)
          BY <1>2, <2>4, <4>2, <5>1
        <5> QED
          BY <2>1, <3>1, <5>2
      <4> QED
        BY <4>1, <4>2
    <3> QED
      BY <2>1, <2>4, <3>1, <3>3, <3>4
  <2> QED
    BY <1>10, <2>2, <2>3, <2>4, ComeBy
<1>11. u \in Settling(s, limit)
  BY <1>5, <1>6, <1>7, <1>8, <1>9, <1>10 DEF Settling
<1> QED
  BY <1>11 DEF u

\* Where the distances of the search are closed, they are what the cost comes to.
LEMMA CostBounds ==
  ASSUME TableFits, Asked, NEW s, Noted(s), NEW limit \in Nat, ClosedWithin(s, limit),
         NEW c, c = Cost(start, blocked)
  PROVE  /\ c \in [Index -> Nat]
         /\ \A n \in Index : /\ c[n] <= INFINITY /\ (c[n] >= Away(s, n) \/ c[n] >= limit)
                             /\ Away(s, n) < INFINITY => c[n] <= Away(s, n)
<1>1. PICK t \in Settling(s, limit) : Over(t) /\ c = t.cost
  <2>1. Settling(s, limit) \subseteq Rounds
    BY DEF Settling
  <2>2. FirstRound \in Settling(s, limit)
    BY SettlingFirst
  <2>3. \A t \in Settling(s, limit) : ~Over(t) => NextRound(t, blocked) \in Settling(s, limit)
    BY SettlingStep
  <2> QED
    BY <2>1, <2>2, <2>3, CostSettles
<1>2. /\ t \in Rounds /\ t.open \cap blocked = {} /\ t.rounds <= Cardinality(Index)
      /\ t.cost[start] = 0 /\ t.cost[Reverse(start)] <= REVERSE_COST
      /\ \A n \in Index : t.cost[n] <= INFINITY
      /\ \A n \in Index : t.cost[n] >= Away(s, n) \/ t.cost[n] >= limit
      /\ \A n \in Index : n \notin blocked /\ n \notin t.open /\ t.cost[n] < INFINITY =>
           \A d \in Dirs(n) : t.cost[Dest(n, d)] <= t.cost[n] + Dist(n, d)
      /\ \A n \in Index : Away(s, n) < INFINITY /\ Rank(s, n) <= Cardinality(Index) - t.rounds =>
           t.cost[n] <= Away(s, n)
  BY DEF Settling
<1>3. t.cost \in [Index -> Nat] /\ SearchType(s) /\ INFINITY \in Nat /\ Cardinality(Index) \in Nat
  BY <1>2, TableFacts DEF Rounds, Noted
<1>4. ASSUME NEW n \in Index, Away(s, n) < INFINITY PROVE t.cost[n] <= Away(s, n)
  <2>1. CASE t.rounds = 0
    <3>1. Rank(s, n) <= Cardinality(Index) - t.rounds
      BY <1>3, <2>1, RankGrows
    <3> QED
      BY <1>2, <1>4, <3>1
  <2>2. CASE t.open = {}
    <3> DEFINE Bad(x) == Away(s, x) < INFINITY /\ ~(t.cost[x] <= Away(s, x))
               T == {a \in Nat : \E x \in Index : a = Away(s, x) /\ Bad(x)}
    <3>1. ASSUME T # {} PROVE FALSE
      <4>1. PICK a \in T : \A b \in T : a <= b
        <5>1. T \subseteq Nat
          OBVIOUS
        <5> HIDE DEF T
        <5> QED
          BY <3>1, <5>1, Least
      <4>2. PICK x \in Index : a = Away(s, x) /\ Bad(x)
        OBVIOUS
      <4>3. ASSUME NEW m \in Index, Away(s, m) < Away(s, x), Away(s, m) < INFINITY PROVE t.cost[m] <= Away(s, m)
        <5>1. Away(s, m) \in Nat /\ a \in Nat /\ ~(a <= Away(s, m))
          BY <1>3, <4>2, <4>3, AwayKnown
        <5>2. Away(s, m) \notin T
          <6> HIDE DEF T
          <6> QED
            BY <4>1, <5>1
        <5> QED
          BY <4>3, <5>1, <5>2
      <4> HIDE DEF T
      <4>4. x # start
        BY <1>2, <4>2 DEF Away, AwayIn
      <4>5. ~(x = Reverse(start) /\ Away(s, x) = REVERSE_COST)
        BY <1>2, <4>2
      <4>6. PICK m \in Index : /\ m \notin blocked /\ Away(s, m) < INFINITY /\ Away(s, m) < Away(s, x)
                               /\ \E d \in Dirs(m) : Dest(m, d) = x /\ Away(s, x) = Away(s, m) + Dist(m, d)
        BY <4>2, <4>4, <4>5, ComeBy
      <4>7. PICK d \in Dirs(m) : Dest(m, d) = x /\ Away(s, x) = Away(s, m) + Dist(m, d)
        BY <4>6
      <4>8. t.cost[m] <= Away(s, m) /\ t.cost[m] \in Nat /\ Away(s, m) \in Nat /\ Dist(m, d) \in Nat /\ t.cost[x] \in Nat
        BY <1>3, <4>3, <4>6, AwayKnown, TableFacts
      <4>9. t.cost[m] < INFINITY
        BY <1>3, <4>6, <4>8
      <4>10. t.cost[x] <= t.cost[m] + Dist(m, d)
        BY <1>2, <2>2, <4>6, <4>7, <4>9
      <4> QED
        BY <4>2, <4>7, <4>8, <4>10
    <3>2. Away(s, n) \in Nat
      BY <1>3, AwayKnown
    <3> QED
      BY <1>4, <3>1, <3>2
  <2> QED
    BY <1>1, <2>1, <2>2 DEF Over
<1> QED
  BY <1>1, <1>2, <1>3, <1>4

\* The ways that lead to a node are those with an edge to it.
LEMMA WayInto ==
  ASSUME TableFits, NEW n \in Index, NEW d \in Dirs(n), NEW p,
         p = PathNode(n, IF Type(n) = "BRANCH" THEN d ELSE UNINITIALIZED)
  PROVE  p \in into[Dest(n, d)] /\ p.node = n /\ DirOf(p) = d
<1>1. /\ num_edges(n) > 0 /\ (Type(n) # "BRANCH" => d = 0) /\ (Type(n) = "BRANCH" => d \in 0 .. 1)
      /\ Dest(n, d) \in Index
  BY TableFacts
<1>2. p.node = n /\ p.switch_state = IF Type(n) = "BRANCH" THEN d ELSE UNINITIALIZED
  BY DEF PathNode
<1>3. DirOf(p) = d
  BY <1>1, <1>2 DEF DirOf, UNINITIALIZED, DIR_AHEAD
<1>4. p \in Leavings
  <2>1. n \in {k \in Index : num_edges(k) > 0}
    BY <1>1
  <2>2. p \in {PathNode(n, sw) : sw \in IF Type(n) = "BRANCH" THEN Dirs(n) ELSE {UNINITIALIZED}}
    OBVIOUS
  <2> QED
    BY <2>1, <2>2 DEF Leavings
<1> QED
  BY <1>1, <1>2, <1>3, <1>4 DEF into

LEMMA IntoKnown ==
  ASSUME TableFits, NEW n \in Index, NEW p \in into[n]
  PROVE  /\ p \in PathNodes /\ p.node \in Index /\ DirOf(p) \in Dirs(p.node) /\ Dest(p.node, DirOf(p)) = n
         /\ p = PathNode(p.node, IF Type(p.node) = "BRANCH" THEN DirOf(p) ELSE UNINITIALIZED)
<1>1. p \in Leavings /\ Dest(p.node, DirOf(p)) = n
  BY DEF into
<1>2. PICK m \in Index : /\ num_edges(m) > 0
                         /\ p \in {PathNode(m, sw) : sw \in IF Type(m) = "BRANCH" THEN Dirs(m) ELSE {UNINITIALIZED}}
  BY <1>1 DEF Leavings
<1>3. PICK sw \in IF Type(m) = "BRANCH" THEN Dirs(m) ELSE {UNINITIALIZED} : p = PathNode(m, sw)
  BY <1>2
<1>4. p.node = m /\ p.switch_state = sw /\ p = [node |-> m, switch_state |-> sw]
  BY <1>3 DEF PathNode
<1>5. num_edges(m) \in 0 .. 2 /\ Dirs(m) = 0 .. num_edges(m) - 1 /\ (num_edges(m) = 2 <=> Type(m) = "BRANCH")
  BY TableFacts
<1>6. CASE Type(m) = "BRANCH"
  <2>1. sw \in 0 .. 1 /\ DirOf(p) = sw
    BY <1>3, <1>4, <1>5, <1>6 DEF DirOf, UNINITIALIZED
  <2>2. p \in PathNodes
    BY <1>4, <2>1 DEF PathNodes, STRAIGHT, CURVED
  <2> QED
    BY <1>1, <1>3, <1>4, <1>5, <1>6, <2>1, <2>2
<1>7. CASE Type(m) # "BRANCH"
  <2>1. sw = UNINITIALIZED /\ DirOf(p) = 0
    BY <1>3, <1>4, <1>7 DEF DirOf, DIR_AHEAD
  <2>2. p \in PathNodes
    BY <1>4, <2>1 DEF PathNodes
  <2>3. 0 \in Dirs(m)
    BY <1>2, <1>5
  <2> QED
    BY <1>1, <1>3, <1>4, <1>7, <2>1, <2>2, <2>3
<1> QED
  BY <1>6, <1>7

\* The longest edge, often enough to go by every node, is not too long for an int.
LEMMA LongestEdge ==
  ASSUME TableFits
  PROVE  \E l \in Nat : /\ \A n \in Index : \A d \in Dirs(n) : Dist(n, d) <= l
                        /\ (Cardinality(Index) + 1) * l + REVERSE_COST < INFINITY
<1> DEFINE T == {l \in Nat : \A n \in Index : \A d \in Dirs(n) : Dist(n, d) <= l}
           C == Cardinality(Index)
<1>1. C \in Nat /\ INFINITY \in Nat /\ REVERSE_COST \in Nat /\ REVERSE_COST < INFINITY
  BY TableFacts
<1>2. \A n \in Index : \A d \in Dirs(n) : Dist(n, d) \in Nat /\ (C + 1) * Dist(n, d) + REVERSE_COST < INFINITY
  BY TableFacts DEF TableFits, TableAssumption
<1> HIDE DEF C
<1>3. INFINITY \in T
  <2> SUFFICES ASSUME NEW n \in Index, NEW d \in Dirs(n) PROVE Dist(n, d) <= INFINITY
    BY <1>1
  <2> DEFINE x == Dist(n, d)
  <2>1. x \in Nat /\ (C + 1) * x + REVERSE_COST < INFINITY
    BY <1>2
  <2> HIDE DEF x
  <2>2. (C + 1) * x = C * x + x /\ C * x >= 0
    BY <1>1, <2>1
  <2>3. x <= INFINITY
    <3> DEFINE y == C * x
    <3>1. y \in Nat
      BY <1>1, <2>1
    <3>2. y + x + REVERSE_COST < INFINITY
      BY <2>1, <2>2
    <3> HIDE DEF y
    <3> QED
      BY <1>1, <2>1, <3>1, <3>2
  <2> QED
    BY <2>3 DEF x
<1>4. PICK l \in T : \A k \in T : l <= k
  <2>1. T \subseteq Nat
    OBVIOUS
  <2> HIDE DEF T
  <2> QED
    BY <1>3, <2>1, Least
<1>5. (C + 1) * l + REVERSE_COST < INFINITY
  <2>1. CASE l = 0
    BY <1>1, <2>1
  <2>2. CASE l # 0
    <3>1. l - 1 \in Nat /\ ~(l <= l - 1)
      BY <2>2
    <3>2. l - 1 \notin T
      <4> HIDE DEF T
      <4> QED
        BY <1>4, <3>1
    <3>3. PICK n \in Index : \E d \in Dirs(n) : ~(Dist(n, d) <= l - 1)
      BY <3>1, <3>2
    <3>4. PICK d \in Dirs(n) : ~(Dist(n, d) <= l - 1)
      BY <3>3
    <3>5. Dist(n, d) = l
      <4>1. Dist(n, d) \in Nat /\ Dist(n, d) <= l /\ l \in Nat
        BY <1>2
      <4> QED
        BY <3>4, <4>1
    <3> QED
      BY <1>2, <3>5
  <2> QED
    BY <2>1, <2>2
<1>6. l \in Nat /\ \A n \in Index : \A d \in Dirs(n) : Dist(n, d) <= l
  OBVIOUS
<1> HIDE DEF T
<1> QED
  BY <1>5, <1>6 DEF C

LEMMA TimesGrows ==
  ASSUME NEW a \in Nat, NEW b \in Nat, NEW l \in Nat, a < b
  PROVE  a * l + l <= b * l
<1> DEFINE k == b - a - 1
<1>1. k \in Nat /\ b = a + 1 + k
  OBVIOUS
<1> HIDE DEF k
<1>2. b * l = a * l + l + k * l /\ k * l \in Nat /\ a * l \in Nat
  BY <1>1
<1> QED
  BY <1>2

\* A distance is at most what as many of the longest edges make as there are nearer nodes.
LEMMA NotTooFar ==
  ASSUME TableFits, Asked, NEW s, Noted(s), NEW l \in Nat, \A n \in Index : \A d \in Dirs(n) : Dist(n, d) <= l,
         NEW n \in Index, Away(s, n) < INFINITY
  PROVE  Away(s, n) <= REVERSE_COST + Rank(s, n) * l
<1> DEFINE Bad(x) == Away(s, x) < INFINITY /\ ~(Away(s, x) <= REVERSE_COST + Rank(s, x) * l)
           T == {a \in Nat : \E x \in Index : a = Away(s, x) /\ Bad(x)}
<1>1. SearchType(s) /\ REVERSE_COST \in Nat /\ \A x \in Index : Away(s, x) \in Nat /\ Rank(s, x) \in Nat
  <2>1. SearchType(s)
    BY DEF Noted
  <2> QED
    BY <2>1, AwayKnown, RankGrows, TableFacts
<1>2. ASSUME T # {} PROVE FALSE
  <2>1. PICK a \in T : \A b \in T : a <= b
    <3>1. T \subseteq Nat
      OBVIOUS
    <3> HIDE DEF T
    <3> QED
      BY <1>2, <3>1, Least
  <2>2. PICK x \in Index : a = Away(s, x) /\ Bad(x)
    OBVIOUS
  <2>3. Away(s, x) \in Nat /\ Rank(s, x) \in Nat /\ Rank(s, x) * l \in Nat
    BY <1>1
  <2>4. ASSUME NEW m \in Index, Away(s, m) < Away(s, x), Away(s, m) < INFINITY
        PROVE  Away(s, m) <= REVERSE_COST + Rank(s, m) * l
    <3>1. Away(s, m) \in Nat /\ a \in Nat /\ ~(a <= Away(s, m))
      BY <1>1, <2>2, <2>4
    <3>2. Away(s, m) \notin T
      <4> HIDE DEF T
      <4> QED
        BY <2>1, <3>1
    <3> QED
      BY <2>4, <3>1, <3>2
  <2> HIDE DEF T
  <2>5. CASE x = start
    <3>1. Away(s, x) = 0
      BY <2>5 DEF Away, AwayIn
    <3> QED
      BY <1>1, <2>2, <2>3, <3>1
  <2>6. CASE x = Reverse(start) /\ Away(s, x) = REVERSE_COST
    BY <1>1, <2>2, <2>3, <2>6
  <2>7. ASSUME NEW m \in Index, Away(s, m) < INFINITY, Away(s, m) < Away(s, x),
               NEW d \in Dirs(m), Away(s, x) = Away(s, m) + Dist(m, d)
        PROVE  FALSE
    <3> DEFINE low == Rank(s, m) * l
               high == Rank(s, x) * l
    <3>1. Away(s, m) <= REVERSE_COST + low /\ Dist(m, d) <= l /\ Dist(m, d) \in Nat /\ Away(s, m) \in Nat
      BY <1>1, <2>4, <2>7, TableFacts
    <3>2. low + l <= high /\ low \in Nat /\ high \in Nat
      BY <1>1, <2>7, RankGrows, TimesGrows
    <3>3. ~(Away(s, x) <= REVERSE_COST + high)
      BY <2>2
    <3> HIDE DEF low, high
    <3> QED
      BY <1>1, <2>3, <2>7, <3>1, <3>2, <3>3
  <2> QED
    BY <2>2, <2>5, <2>6, <2>7, ComeBy
<1> QED
  BY <1>1, <1>2

LEMMA LeastOfTwo ==
  ASSUME NEW a \in Nat, NEW b \in Nat, b <= a
  PROVE  MinOf({a} \cup {b}) = b
BY DEF MinOf

\* What is noted for the destination is what it costs to go there.
LEMMA CostIsNoted ==
  ASSUME TableFits, Asked, NEW s, Noted(s), ClosedWithin(s, s.dist[dest]),
         dest \notin blocked, s.prev[dest] # -1, Away(s, dest) < INFINITY
  PROVE  /\ CostTo(start, dest, blocked) = s.dist[dest] /\ s.dist[dest] < INFINITY
         /\ \A n \in Index : Away(s, n) < s.dist[dest] /\ Away(s, n) < INFINITY => Cost(start, blocked)[n] = Away(s, n)
<1> DEFINE c == Cost(start, blocked)
           limit == s.dist[dest]
<1>1. SearchType(s) /\ start \in Index /\ dest \in Index /\ INFINITY \in Nat /\ limit \in Nat
      /\ \A n \in Index : Away(s, n) \in Nat
  <2>1. SearchType(s)
    BY DEF Noted
  <2> QED
    BY <2>1, AwayKnown, TableFacts DEF Asked
<1>2. /\ c \in [Index -> Nat]
      /\ \A n \in Index : /\ c[n] <= INFINITY /\ (c[n] >= Away(s, n) \/ c[n] >= limit)
                          /\ Away(s, n) < INFINITY => c[n] <= Away(s, n)
  BY <1>1, CostBounds
<1>3. CostTo(start, dest, blocked) = CostGiven(c, start, dest, blocked)
  BY DEF CostTo
<1> HIDE DEF c, limit
<1>4. ASSUME NEW n \in Index, Away(s, n) < limit, Away(s, n) < INFINITY PROVE c[n] = Away(s, n)
  <2>1. c[n] \in Nat /\ Away(s, n) \in Nat
    BY <1>1, <1>2
  <2> QED
    BY <1>1, <1>2, <1>4, <2>1
<1>5. CASE dest # start
  <2>1. Away(s, dest) = limit /\ c[dest] \in Nat
    BY <1>1, <1>2, <1>5, AwayKnown DEF limit
  <2>2. c[dest] = limit
    BY <1>1, <1>2, <2>1
  <2>3. CostTo(start, dest, blocked) = limit
    BY <1>3, <1>5, <2>2 DEF CostGiven
  <2> QED
    BY <1>4, <2>1, <2>3 DEF c, limit
<1>6. CASE dest = start
  <2> DEFINE u == s.prev[start]
  <2>1. u \in Index /\ u \notin blocked /\ Away(s, u) < INFINITY /\ CameBy(s, u, start)
    <3>1. Reverse(start) # start
      BY DEF TableFits, TableAssumption, Asked
    <3> QED
      BY <1>1, <1>6, <3>1 DEF Noted, TurnedTo
  <2>2. PICK d \in Dirs(u) : Dest(u, d) = start /\ limit = Away(s, u) + Dist(u, d)
    BY <1>6, <2>1 DEF CameBy, limit
  <2> HIDE DEF u
  <2>3. Dist(u, d) \in Nat /\ Dist(u, d) > 0 /\ Away(s, u) \in Nat /\ Away(s, u) < limit
    BY <1>1, <2>1, <2>2, TableFacts
  <2>4. limit < INFINITY
    <3>1. PICK l \in Nat : /\ \A n \in Index : \A e \in Dirs(n) : Dist(n, e) <= l
                           /\ (Cardinality(Index) + 1) * l + REVERSE_COST < INFINITY
      BY LongestEdge
    <3> DEFINE C == Cardinality(Index)
               low == Rank(s, u) * l
               high == (C + 1) * l
    <3>2. Away(s, u) <= REVERSE_COST + low
      BY <2>1, <3>1, NotTooFar
    <3>3. Rank(s, u) \in Nat /\ Rank(s, u) < C + 1 /\ C \in Nat /\ REVERSE_COST \in Nat
      BY <1>1, <2>1, RankGrows, TableFacts, SMTT(60)
    <3>4. low \in Nat /\ high \in Nat /\ low + l <= high
      BY <3>3, TimesGrows
    <3>5. Dist(u, d) <= l /\ high + REVERSE_COST < INFINITY
      BY <2>1, <3>1
    <3> HIDE DEF low, high, C
    <3> QED
      BY <1>1, <2>2, <2>3, <3>2, <3>3, <3>4, <3>5
  <2>5. c[u] = Away(s, u)
    BY <1>4, <2>1, <2>3
  <2> DEFINE p0 == PathNode(u, IF Type(u) = "BRANCH" THEN d ELSE UNINITIALIZED)
  <2>6. p0 \in into[start] /\ p0.node = u /\ DirOf(p0) = d
    BY <2>1, <2>2, WayInto
  <2> HIDE DEF p0
  <2> DEFINE before == {p \in into[dest] : p.node \notin blocked /\ c[p.node] < INFINITY}
  <2>7. before = {p0}
    <3>1. \A p, q \in into[start] : p = q
      BY DEF TableFits, TableAssumption, Asked
    <3> QED
      BY <1>6, <2>1, <2>5, <2>6, <3>1
  <2>8. {c[p.node] + Dist(p.node, DirOf(p)) : p \in before} = {limit}
    <3>1. c[p0.node] + Dist(p0.node, DirOf(p0)) = limit
      BY <2>2, <2>5, <2>6
    <3> HIDE DEF before
    <3> QED
      BY <2>7, <3>1
  <2>9. CostTo(start, dest, blocked) = MinOf({INFINITY} \cup {c[p.node] + Dist(p.node, DirOf(p)) : p \in before})
    BY <1>3, <1>6, Zenon DEF CostGiven
  <2> HIDE DEF before
  <2>10. CostTo(start, dest, blocked) = limit
    <3>1. CostTo(start, dest, blocked) = MinOf({INFINITY} \cup {limit})
      BY <2>8, <2>9
    <3>2. limit <= INFINITY
      BY <1>1, <2>4
    <3> QED
      BY <1>1, <3>1, <3>2, LeastOfTwo
  <2> QED
    BY <1>4, <2>4, <2>10 DEF c, limit
<1> QED
  BY <1>5, <1>6

\* When the search finds nothing there is no way.
LEMMA NoneNoted ==
  ASSUME TableFits, Asked, NEW s, Noted(s), ClosedWithin(s, INFINITY), dest \in blocked \/ s.prev[dest] = -1
  PROVE  CostTo(start, dest, blocked) = INFINITY
<1> DEFINE c == Cost(start, blocked)
<1>1. SearchType(s) /\ start \in Index /\ dest \in Index /\ INFINITY \in Nat /\ \A n \in Index : Away(s, n) \in Nat
  <2>1. SearchType(s)
    BY DEF Noted
  <2> QED
    BY <2>1, AwayKnown, TableFacts DEF Asked
<1>2. /\ c \in [Index -> Nat]
      /\ \A n \in Index : c[n] <= INFINITY /\ (c[n] >= Away(s, n) \/ c[n] >= INFINITY)
  BY <1>1, CostBounds
<1>3. CostTo(start, dest, blocked) = CostGiven(c, start, dest, blocked)
  BY DEF CostTo
<1> HIDE DEF c
<1>4. CASE dest \in blocked
  BY <1>3, <1>4 DEF CostGiven
<1>5. CASE dest \notin blocked /\ s.prev[dest] = -1 /\ dest # start
  <2>1. Away(s, dest) = INFINITY
    <3>1. s.dist[dest] = Away(s, dest) /\ NodeFits(s, dest)
      BY <1>1, <1>5, AwayKnown DEF Noted
    <3> QED
      BY <1>1, <1>5, <3>1 DEF NodeFits
  <2>2. c[dest] = INFINITY
    <3>1. c[dest] \in Nat
      BY <1>1, <1>2
    <3> QED
      BY <1>1, <1>2, <2>1, <3>1
  <2> QED
    BY <1>3, <1>5, <2>2, Zenon DEF CostGiven
<1>6. CASE dest \notin blocked /\ s.prev[dest] = -1 /\ dest = start
  <2> DEFINE before == {p \in into[dest] : p.node \notin blocked /\ c[p.node] < INFINITY}
  <2>1. before = {}
    <3> SUFFICES ASSUME NEW p \in into[dest], p.node \notin blocked, c[p.node] < INFINITY PROVE FALSE
      OBVIOUS
    <3>1. p.node \in Index /\ DirOf(p) \in Dirs(p.node) /\ Dest(p.node, DirOf(p)) = dest
      BY <1>1, IntoKnown
    <3>2. Away(s, p.node) < INFINITY
      <4>1. c[p.node] \in Nat /\ Away(s, p.node) \in Nat
        BY <1>1, <1>2, <3>1
      <4> QED
        BY <1>1, <1>2, <3>1, <4>1
    <3>3. ClosedEdge(s, p.node, DirOf(p))
      BY <3>1, <3>2 DEF ClosedWithin
    <3>4. s.prev[start] = p.node
      BY <1>6, <3>1, <3>3 DEF ClosedEdge
    <3> QED
      BY <1>6, <3>1, <3>4, TableFacts
  <2>2. CostTo(start, dest, blocked) = MinOf({INFINITY} \cup {c[p.node] + Dist(p.node, DirOf(p)) : p \in before})
    BY <1>3, <1>6, Zenon DEF CostGiven
  <2>3. {INFINITY} \cup {c[p.node] + Dist(p.node, DirOf(p)) : p \in before} = {INFINITY} \cup {INFINITY}
    BY <2>1
  <2> HIDE DEF before
  <2> QED
    BY <1>1, <2>2, <2>3, LeastOfTwo
<1> QED
  BY <1>4, <1>5, <1>6

LEMMA ExactFound == ASSUME TableFits, PathInv, ExactInv PROVE FoundIfThereIsOne
<1>1. Asked /\ searched.dist = dist /\ searched.prev = prev
  BY DEF PathInv, searched
<1>2. ASSUME phase = "found" PROVE CostTo(start, dest, blocked) < INFINITY
  <2>1. /\ Noted(searched) /\ dest \notin blocked /\ prev[dest] # -1 /\ Away(searched, dest) < INFINITY
        /\ ClosedWithin(searched, dist[dest])
    BY <1>2 DEF ExactInv
  <2> QED
    BY <1>1, <2>1, CostIsNoted
<1>3. ASSUME phase = "none" PROVE CostTo(start, dest, blocked) = INFINITY
  BY <1>1, <1>3, NoneNoted DEF ExactInv
<1> QED
  BY <1>2, <1>3 DEF FoundIfThereIsOne

\* On any table, when the heap has room for every node that is put into it: a path is
\* found exactly when there is a way to the destination round what others have reserved.
THEOREM FoundExactly == ASSUME TableFits PROVE FindSpec /\ []NothingDropped => []FoundIfThereIsOne
<1>1. PathInv /\ ExactInv => FoundIfThereIsOne
  BY ExactFound
<1>2. FindSpec => []PathInv
  BY SearchInvariant, PTL
<1>3. FindSpec /\ []NothingDropped => []ExactInv
  BY SearchIsExact
<1> QED
  BY <1>1, <1>2, <1>3, PTL
-----------------------------------------------------------------------------
(* What is defined step by step over 0 .. n.                               *)

\* g begins with b, and its i-th step is that of H.
InSteps(g, n, D, b, H) ==
  g \in [0 .. n -> D] /\ g[0] = b /\ \A i \in 1 .. n : g[i] = H[i][g[i - 1]]

\* Such a function exists: as far as it is said what each step makes of what is in D.
LEMMA StepsExist ==
  ASSUME NEW n \in Nat, NEW D, NEW b \in D, NEW H \in [1 .. n -> [D -> D]]
  PROVE  \E g : InSteps(g, n, D, b, H)
<1> DEFINE Counts(f, k) == f \in [0 .. k -> D] /\ f[0] = b /\ \A i \in 1 .. k : f[i] = H[i][f[i - 1]]
           T == {k \in 0 .. n : ~ \E f : Counts(f, k)}
<1>1. T = {}
  <2> SUFFICES ASSUME T # {} PROVE FALSE
    OBVIOUS
  <2>1. PICK k \in T : \A j \in T : k <= j
    <3>1. T \in SUBSET Nat
      OBVIOUS
    <3> HIDE DEF T
    <3> QED BY <3>1, Least
  <2>2. k \in 0 .. n /\ ~ \E f : Counts(f, k)
    OBVIOUS
  <2>3. CASE k = 0
    <3>1. Counts([i \in 0 .. 0 |-> b], 0)
      OBVIOUS
    <3> QED BY <2>2, <2>3, <3>1
  <2>4. CASE k # 0
    <3>0. k - 1 \in 0 .. n /\ ~(k <= k - 1) /\ k \in 1 .. n
      BY <2>2, <2>4
    <3>1. ~(k - 1 \in T)
      BY <2>1, <3>0, Zenon
    <3>2. PICK f : Counts(f, k - 1)
      BY <3>0, <3>1
    <3>3. f[k - 1] \in D /\ H[k][f[k - 1]] \in D
      BY <3>0, <3>2
    <3> DEFINE g == [i \in 0 .. k |-> IF i = k THEN H[k][f[k - 1]] ELSE f[i]]
    <3>4. g \in [0 .. k -> D] /\ g[0] = b
      BY <3>0, <3>2, <3>3
    <3>5. ASSUME NEW i \in 1 .. k PROVE g[i] = H[i][g[i - 1]]
      <4>1. CASE i = k
        <5>1. g[i] = H[k][f[k - 1]] /\ g[k - 1] = f[k - 1]
          BY <3>0, <4>1
        <5> HIDE DEF g
        <5> QED BY <4>1, <5>1
      <4>2. CASE i # k
        <5>1. i \in 1 .. k - 1 /\ g[i] = f[i] /\ g[i - 1] = f[i - 1]
          BY <3>0, <4>2
        <5> HIDE DEF g
        <5> QED BY <3>2, <5>1
      <4> QED BY <4>1, <4>2
    <3> HIDE DEF g
    <3>6. Counts(g, k)
      BY <3>4, <3>5
    <3> QED
      BY <2>2, <3>6
  <2> QED
    BY <2>3, <2>4
<1>2. n \in 0 .. n
  OBVIOUS
<1>3. PICK f : Counts(f, n)
  BY <1>1, <1>2
<1> QED
  BY <1>3 DEF InSteps

-----------------------------------------------------------------------------
(* The path is one of the cheapest.                                        *)

\* Each node of p is the one from which the next was come to; the end, and what is no
\* turnout, has no setting.
Linked(p) ==
  /\ p[Len(p)] = PathNode(dest, UNINITIALIZED)
  /\ \A i \in 1 .. Len(p) - 1 :
       /\ p[i].node = prev[p[i + 1].node]
       /\ Type(p[i].node) # "BRANCH" => p[i].switch_state = UNINITIALIZED

LinkedInv == path # <<>> => Linked(path)

LEMMA LinkedGrows ==
  ASSUME TableFits, PathInv, LinkedInv, phase = "trace", UNCHANGED <<asked, search>>, NEW x \in PathNodes, x.node = cur,
         path = <<>> => x = PathNode(dest, UNINITIALIZED),
         Type(cur) # "BRANCH" => x.switch_state = UNINITIALIZED, path' = <<x>> \o path
  PROVE  LinkedInv'
<1> DEFINE q == <<x>> \o path
<1>1. path \in Seq(PathNodes) /\ Len(path) \in Nat /\ (path # <<>> => Len(path) >= 1)
  BY DEF PathInv, FindTypeOK
<1>2. /\ q[1] = x /\ Len(q) = Len(path) + 1 /\ \A i \in 1 .. Len(path) : q[i + 1] = path[i]
  BY <1>1, Consed
<1>3. dest' = dest /\ prev' = prev /\ path' = q
  BY TraceLeaves
<1> HIDE DEF q
<1>4. CASE path = <<>>
  <2>1. Len(q) = 1 /\ q[1] = PathNode(dest, UNINITIALIZED)
    BY <1>2, <1>4
  <2>2. Linked(q)
    BY <2>1 DEF Linked
  <2> QED
    BY <1>3, <2>2 DEF LinkedInv, Linked
<1>5. CASE path # <<>>
  <2>1. Linked(path) /\ cur = prev[path[1].node]
    BY <1>5 DEF LinkedInv, PathInv, Walked
  <2>2. q[Len(q)] = path[Len(path)]
    BY <1>1, <1>2, <1>5
  <2>3. ASSUME NEW i \in 1 .. Len(q) - 1
        PROVE  q[i].node = prev[q[i + 1].node] /\ (Type(q[i].node) # "BRANCH" => q[i].switch_state = UNINITIALIZED)
    <3>1. CASE i = 1
      <4>1. q[i] = x /\ q[i + 1] = path[1]
        BY <1>1, <1>2, <1>5, <3>1
      <4> QED
        BY <2>1, <4>1
    <3>2. CASE i # 1
      <4>1. i - 1 \in 1 .. Len(path) - 1 /\ q[i] = path[i - 1] /\ q[i + 1] = path[i - 1 + 1]
        <5>1. i - 1 \in 1 .. Len(path) - 1 /\ i - 1 \in 1 .. Len(path) /\ i \in 1 .. Len(path)
              /\ i - 1 + 1 = i
          BY <1>1, <1>2, <3>2
        <5>2. q[i - 1 + 1] = path[i - 1] /\ q[i + 1] = path[i]
          BY <1>2, <5>1
        <5> QED
          BY <5>1, <5>2
      <4> QED
        BY <2>1, <4>1 DEF Linked
    <3> QED
      BY <3>1, <3>2
  <2>4. Linked(q)
    BY <2>1, <2>2, <2>3 DEF Linked
  <2> QED
    BY <1>3, <2>4 DEF LinkedInv, Linked
<1> QED
  BY <1>4, <1>5

LEMMA LinkedStep == ASSUME TableFits PROVE PathInv /\ LinkedInv /\ [FindNext]_findVars => LinkedInv'
<1> SUFFICES ASSUME PathInv, LinkedInv, [FindNext]_findVars PROVE LinkedInv'
  OBVIOUS
<1>1. CASE Search \/ GiveUp
  <2>1. phase = "search" /\ path' = path
    BY <1>1 DEF Search, Skip, Arrive, Explore, GiveUp, trace
  <2>2. path = <<>>
    BY <2>1 DEF PathInv, Walked
  <2> QED
    BY <2>1, <2>2 DEF LinkedInv
<1>2. CASE TraceStart
  <2> DEFINE x == PathNode(cur, UNINITIALIZED)
  <2>1. phase = "trace" /\ path # <<>> /\ path' = <<x>> \o path /\ UNCHANGED <<asked, search>> /\ cur = start
    BY <1>2 DEF TraceStart
  <2>2. x \in PathNodes /\ x.node = cur /\ x.switch_state = UNINITIALIZED
    BY <2>1 DEF PathInv, Asked, PathNode, PathNodes
  <2> HIDE DEF x
  <2> QED
    BY <2>1, <2>2, LinkedGrows
<1>3. CASE TraceBranch
  <2> DEFINE x == PathNode(cur, BranchDir(cur))
  <2>1. /\ phase = "trace" /\ path' = <<x>> \o path /\ UNCHANGED <<asked, search>> /\ cur >= 0
        /\ Type(cur) = "BRANCH" /\ prior >= 0
    BY <1>3 DEF TraceBranch
  <2>2. cur \in Index /\ path # <<>>
    BY <2>1 DEF PathInv, FindTypeOK, Walked
  <2>3. x \in PathNodes /\ x.node = cur
    <3>1. BranchDir(cur) \in {STRAIGHT, CURVED}
      BY DEF BranchDir, STRAIGHT, CURVED, DIR_STRAIGHT, DIR_CURVED
    <3> QED
      BY <2>2, <3>1 DEF PathNode, PathNodes
  <2> HIDE DEF x
  <2> QED
    BY <2>1, <2>2, <2>3, LinkedGrows
<1>4. CASE TraceOther
  <2> DEFINE x == PathNode(cur, UNINITIALIZED)
  <2>1. phase = "trace" /\ path' = <<x>> \o path /\ UNCHANGED <<asked, search>> /\ cur >= 0
    BY <1>4 DEF TraceOther
  <2>2. cur \in Index /\ (path = <<>> => cur = dest)
    BY <2>1 DEF PathInv, FindTypeOK, Walked
  <2>3. x \in PathNodes /\ x.node = cur /\ x.switch_state = UNINITIALIZED /\ (path = <<>> => x = PathNode(dest, UNINITIALIZED))
    BY <2>2 DEF PathNode, PathNodes
  <2> HIDE DEF x
  <2> QED
    BY <2>1, <2>3, LinkedGrows
<1>5. CASE UNCHANGED findVars
  <2>1. path' = path /\ dest' = dest /\ prev' = prev
    BY <1>5 DEF findVars, asked, search, trace
  <2> QED
    BY <2>1 DEF LinkedInv, Linked
<1> QED
  BY <1>1, <1>2, <1>3, <1>4, <1>5 DEF FindNext

\* How the node n, come to at cost k, may have been come to.
CameTo(c, n, k) ==
  {p \in into[n] : p.node \notin blocked /\ c[p.node] < INFINITY /\ c[p.node] + Dist(p.node, DirOf(p)) = k}
  \cup (IF n = Reverse(start) /\ k = REVERSE_COST THEN {PathNode(start, UNINITIALIZED)} ELSE {})

\* f says which the cheapest ways of so many steps are.
WaysSo(f, c) ==
  f = [k \in 0 .. Cardinality(Index) |->
        [p \in PathNodes |->
           IF p.node = start THEN {<<p>>}
           ELSE IF k = 0 THEN {}
           ELSE {Append(w, p) : w \in UNION {f[k - 1][q] : q \in CameTo(c, p.node, c[p.node])}}]]

LEMMA CameToKnown ==
  ASSUME TableFits, Asked, NEW c, NEW n \in Index, NEW k
  PROVE  CameTo(c, n, k) \subseteq PathNodes
<1>1. into[n] \subseteq PathNodes
  BY IntoKnown
<1>2. PathNode(start, UNINITIALIZED) \in PathNodes
  BY DEF PathNode, PathNodes, Asked
<1> QED
  BY <1>1, <1>2 DEF CameTo

LEMMA WaysExist ==
  ASSUME TableFits, Asked, NEW c
  PROVE  \E f : WaysSo(f, c)
<1> DEFINE C == Cardinality(Index)
           D == [PathNodes -> SUBSET Seq(PathNodes)]
           On(W, p) == {Append(w, p) : w \in UNION {W[q] : q \in CameTo(c, p.node, c[p.node])}}
           b == [p \in PathNodes |-> IF p.node = start THEN {<<p>>} ELSE {}]
           H == [i \in 1 .. C |-> [W \in D |-> [p \in PathNodes |-> IF p.node = start THEN {<<p>>} ELSE On(W, p)]]]
<1>1. C \in Nat
  BY TableFacts
<1>2. \A p \in PathNodes : {<<p>>} \in SUBSET Seq(PathNodes)
  OBVIOUS
<1>3. \A W \in D : \A p \in PathNodes : On(W, p) \in SUBSET Seq(PathNodes)
  <2> SUFFICES ASSUME NEW W \in D, NEW p \in PathNodes, NEW w \in UNION {W[q] : q \in CameTo(c, p.node, c[p.node])}
               PROVE  Append(w, p) \in Seq(PathNodes)
    OBVIOUS
  <2>1. p.node \in Index
    BY DEF PathNodes
  <2>2. PICK q \in CameTo(c, p.node, c[p.node]) : w \in W[q]
    OBVIOUS
  <2>3. q \in PathNodes
    BY <2>1, <2>2, CameToKnown
  <2>4. w \in Seq(PathNodes)
    BY <2>2, <2>3
  <2> QED
    BY <2>4
<1>4. b \in D
  BY <1>2
<1>5. H \in [1 .. C -> [D -> D]]
  <2> HIDE DEF On
  <2>1. \A W \in D : [p \in PathNodes |-> IF p.node = start THEN {<<p>>} ELSE On(W, p)] \in D
    BY <1>2, <1>3
  <2> HIDE DEF D
  <2> QED
    BY <2>1
<1> HIDE DEF C
<1>6. PICK f : InSteps(f, C, D, b, H)
  <2> HIDE DEF D, b, H
  <2> QED
    BY <1>1, <1>4, <1>5, StepsExist
<1>7. f \in [0 .. C -> D] /\ f[0] = b /\ \A i \in 1 .. C : f[i] = H[i][f[i - 1]]
  BY <1>6 DEF InSteps
<1>8. ASSUME NEW k \in 0 .. C
      PROVE  f[k] = [p \in PathNodes |-> IF p.node = start THEN {<<p>>} ELSE IF k = 0 THEN {} ELSE On(f[k - 1], p)]
  <2> HIDE DEF On
  <2>1. CASE k = 0
    BY <1>7, <2>1
  <2>2. CASE k # 0
    <3>1. k \in 1 .. C /\ k - 1 \in 0 .. C
      BY <1>1, <2>2
    <3>2. f[k - 1] \in D /\ f[k] = H[k][f[k - 1]]
      BY <1>7, <3>1
    <3> HIDE DEF D
    <3>3. H[k][f[k - 1]] = [p \in PathNodes |-> IF p.node = start THEN {<<p>>} ELSE On(f[k - 1], p)]
      BY <3>1, <3>2
    <3> QED
      BY <2>2, <3>2, <3>3
  <2> QED
    BY <2>1, <2>2
<1>9. f = [k \in 0 .. C |-> [p \in PathNodes |-> IF p.node = start THEN {<<p>>} ELSE IF k = 0 THEN {} ELSE On(f[k - 1], p)]]
  <2>1. f = [k \in 0 .. C |-> f[k]]
    BY <1>7
  <2> HIDE DEF On, D, H, b
  <2> QED
    BY <1>8, <2>1
<1>10. WaysSo(f, c)
  BY <1>9 DEF WaysSo, C
<1> QED
  BY <1>10

LEMMA PathsGivenKnown ==
  ASSUME TableFits, Asked, NEW c, NEW k, k = CostGiven(c, start, dest, blocked), k # INFINITY
  PROVE  \E f : /\ WaysSo(f, c)
                /\ PathsGiven(c, start, dest, blocked) =
                     {Append(w, PathNode(dest, UNINITIALIZED)) :
                        w \in UNION {f[Cardinality(Index)][q] : q \in CameTo(c, dest, k)}}
<1> DEFINE f == CHOOSE g : WaysSo(g, c)
<1>1. WaysSo(f, c)
  BY WaysExist
<1>2. PathsGiven(c, start, dest, blocked) =
        {Append(w, PathNode(dest, UNINITIALIZED)) : w \in UNION {f[Cardinality(Index)][q] : q \in CameTo(c, dest, k)}}
  BY DEF PathsGiven, WaysSo, CameTo
<1> HIDE DEF f
<1> QED
  BY <1>1, <1>2

LEMMA LinkedFound ==
  ASSUME PathInv, LinkedInv, phase = "found", NEW i \in 1 .. Len(path) - 1
  PROVE  path[i].node = prev[path[i + 1].node] /\ (Type(path[i].node) # "BRANCH" => path[i].switch_state = UNINITIALIZED)
BY DEF PathInv, Walked, LinkedInv, Linked

LEMMA OneMore ==
  ASSUME NEW S, NEW p \in Seq(S), NEW j \in 1 .. Len(p) - 1
  PROVE  SubSeq(p, 1, j + 1) = Append(SubSeq(p, 1, j), p[j + 1])
OBVIOUS

LEMMA FirstOnly ==
  ASSUME NEW S, NEW p \in Seq(S), 1 \in 1 .. Len(p)
  PROVE  SubSeq(p, 1, 1) = <<p[1]>>
<1> DEFINE q == SubSeq(p, 1, 1)
           r == <<p[1]>>
<1>1. q \in Seq(S) /\ Len(q) = 1 /\ q[1] = p[1]
  OBVIOUS
<1>2. r \in Seq(S) /\ Len(r) = 1 /\ r[1] = p[1]
  OBVIOUS
<1> HIDE DEF q, r
<1>3. q = r
  BY <1>1, <1>2, SeqEqual
<1> QED
  BY <1>3 DEF q, r

\* What the path goes by before it ends is nearer than the destination, and what it costs
\* to be there is what the search noted.
LEMMA NearerOnPath ==
  ASSUME TableFits, PathInv, ExactInv, LinkedInv, phase = "found", NEW c, c = Cost(start, blocked), NEW i \in 1 .. Len(path) - 1
  PROVE  /\ path[i] \in PathNodes /\ path[i].node \in Index /\ path[i].node \notin blocked
         /\ c[path[i].node] = Away(searched, path[i].node) /\ c[path[i].node] < INFINITY
         /\ CostGiven(c, start, dest, blocked) = dist[dest] /\ dist[dest] < INFINITY
<1> DEFINE s == searched
           n == path[i].node
<1>1. /\ Noted(s) /\ Asked /\ dest \notin blocked /\ prev[dest] # -1 /\ Away(s, dest) < INFINITY
      /\ ClosedWithin(s, dist[dest]) /\ s.dist = dist /\ s.prev = prev
  BY DEF ExactInv, PathInv, searched
<1>2. Chain(path, total_distance) /\ path[1].node = start /\ Len(path) > 1 /\ path \in Seq(PathNodes) /\ Len(path) \in Nat
  BY DEF PathInv, Walked, FindTypeOK
<1>3. \A j \in 1 .. Len(path) : path[j] \in PathNodes /\ path[j].node \in Index /\ path[j].node \notin blocked
  <2> SUFFICES ASSUME NEW j \in 1 .. Len(path)
               PROVE  path[j] \in PathNodes /\ path[j].node \in Index /\ path[j].node \notin blocked
    OBVIOUS
  <2>1. path[j] \in PathNodes
    BY <1>2
  <2>2. path[j].node \in Index
    BY <2>1 DEF PathNodes
  <2> QED
    BY <1>2, <2>1, <2>2 DEF Chain
<1>4. SearchType(s) /\ INFINITY \in Nat /\ dist[dest] \in Nat /\ \A m \in Index : Away(s, m) \in Nat
  <2>1. SearchType(s)
    BY <1>1 DEF Noted
  <2> QED
    BY <1>1, <2>1, AwayKnown, TableFacts DEF Asked
<1>5. /\ CostTo(start, dest, blocked) = dist[dest] /\ dist[dest] < INFINITY
      /\ \A m \in Index : Away(s, m) < dist[dest] /\ Away(s, m) < INFINITY => Cost(start, blocked)[m] = Away(s, m)
  BY <1>1, CostIsNoted
<1>6. CostGiven(c, start, dest, blocked) = dist[dest]
  BY <1>5 DEF CostTo
<1>7. \A m : Away(s, m) = AwayIn(dist, m)
  BY <1>1 DEF Away
<1> HIDE DEF s
<1>8. Away(s, n) < dist[dest]
  <2>1. CASE dest # start
    <3>1. i \in 1 .. Len(path) /\ Len(path) \in 1 .. Len(path) /\ i < Len(path) /\ path[Len(path)].node = dest
      BY <1>2 DEF Chain
    <3>2. AwayIn(dist, n) < AwayIn(dist, dest)
      BY <1>2, <2>1, <3>1 DEF Chain
    <3> QED
      BY <1>7, <2>1, <3>2 DEF AwayIn
  <2>2. CASE dest = start
    <3> DEFINE l == Len(path) - 1
               u == path[l].node
    <3>1. l \in 1 .. Len(path) - 1 /\ l \in 1 .. Len(path) /\ l + 1 = Len(path) /\ i \in 1 .. Len(path)
      BY <1>2
    <3> HIDE DEF l
    <3>2. \A m \in Index : \A d \in Dirs(m) : Dist(m, d) \in Nat /\ Dist(m, d) > 0
      BY TableFacts
    <3>3. Away(s, u) < dist[dest]
      <4>1. u = prev[dest]
        <5>1. path[l + 1].node = dest
          BY <1>2, <3>1 DEF Chain
        <5> QED
          BY <3>1, <5>1, LinkedFound
      <4>2. CameBy(s, u, start)
        <5>1. Reverse(start) # start
          BY <1>1 DEF TableFits, TableAssumption, Asked
        <5> QED
          BY <1>1, <2>2, <4>1, <5>1 DEF Noted, TurnedTo, Asked
      <4>3. PICK d \in Dirs(u) : dist[dest] = Away(s, u) + Dist(u, d)
        BY <1>1, <2>2, <4>2 DEF CameBy
      <4> QED
        BY <1>3, <1>4, <3>1, <3>2, <4>3
    <3>4. CASE i = l
      BY <3>3, <3>4
    <3>5. CASE i # l
      <4>1. i < l /\ l > 1
        BY <1>2, <3>1, <3>5
      <4>2. u # start
        BY <1>2, <3>1, <4>1 DEF Chain
      <4>3. Away(s, n) < Away(s, u)
        BY <1>2, <1>7, <3>1, <4>1, <4>2 DEF Chain
      <4>4. Away(s, n) \in Nat /\ Away(s, u) \in Nat
        BY <1>3, <1>4, <3>1
      <4> QED
        BY <1>4, <3>3, <4>3, <4>4
    <3> QED
      BY <3>4, <3>5
  <2> QED
    BY <2>1, <2>2
<1>9. n \in Index /\ i \in 1 .. Len(path) /\ Away(s, n) \in Nat /\ Away(s, n) < INFINITY
  <2>1. n \in Index /\ i \in 1 .. Len(path)
    BY <1>2, <1>3
  <2> QED
    BY <1>4, <1>5, <1>8, <2>1
<1>10. c[n] = Away(s, n)
  BY <1>5, <1>8, <1>9
<1> QED
  BY <1>3, <1>5, <1>6, <1>9, <1>10 DEF s

\* Each node of the path is one of those by which the next is come to most cheaply.
LEMMA CheaplyOn ==
  ASSUME TableFits, PathInv, ExactInv, LinkedInv, phase = "found", NEW c, c = Cost(start, blocked),
         NEW i \in 1 .. Len(path) - 1
  PROVE  path[i] \in CameTo(c, path[i + 1].node, dist[path[i + 1].node])
<1> DEFINE s == searched
           m == path[i].node
           n == path[i + 1].node
<1>1. Noted(s) /\ Asked /\ s.dist = dist /\ s.prev = prev
  BY DEF ExactInv, PathInv, searched
<1>2. Chain(path, total_distance) /\ path \in Seq(PathNodes) /\ Len(path) \in Nat
  BY DEF PathInv, Walked, FindTypeOK
<1>3. /\ path[i] \in PathNodes /\ m \in Index /\ m \notin blocked /\ c[m] = Away(s, m) /\ c[m] < INFINITY
  BY NearerOnPath
<1>4. n \in Index
  <2>1. i + 1 \in 1 .. Len(path)
    BY <1>2
  <2>2. path[i + 1] \in PathNodes
    BY <1>2, <2>1
  <2> QED
    BY <2>2 DEF PathNodes
<1>5. m = prev[n] /\ (Type(m) # "BRANCH" => path[i].switch_state = UNINITIALIZED)
  BY LinkedFound
<1>6. path[i] = [node |-> m, switch_state |-> path[i].switch_state]
  BY <1>3 DEF PathNodes
<1>7. TurnedTo(s, n) \/ CameBy(s, m, n)
  <2>1. s.prev[n] = m /\ m # -1
    BY <1>1, <1>3, <1>5, TableFacts
  <2> QED
    BY <1>1, <1>4, <2>1 DEF Noted
<1> HIDE DEF s
<1>8. CASE TurnedTo(s, n)
  <2>1. n = Reverse(start) /\ m = start /\ dist[n] = REVERSE_COST
    BY <1>1, <1>5, <1>8 DEF TurnedTo
  <2>2. path[i] = PathNode(start, UNINITIALIZED)
    BY <1>1, <1>5, <1>6, <2>1 DEF PathNode, Asked
  <2> QED
    BY <2>1, <2>2 DEF CameTo
<1>9. CASE CameBy(s, m, n)
  <2>1. PICK d \in Dirs(m) : Dest(m, d) = n /\ dist[n] = Away(s, m) + Dist(m, d)
    BY <1>1, <1>9 DEF CameBy
  <2> DEFINE p == PathNode(m, IF Type(m) = "BRANCH" THEN d ELSE UNINITIALIZED)
  <2>2. p \in into[n] /\ p.node = m /\ DirOf(p) = d
    BY <1>3, <2>1, WayInto
  <2>3. path[i].switch_state = IF Type(m) = "BRANCH" THEN d ELSE UNINITIALIZED
    <3>1. CASE Type(m) # "BRANCH"
      BY <1>5, <3>1
    <3>2. CASE Type(m) = "BRANCH"
      <4>1. m # start
        BY <1>1, <3>2 DEF Asked
      <4>2. Ahead(path, i)
        BY <1>2, <4>1 DEF Chain
      <4>3. path[i].switch_state \in Dirs(m) /\ Dest(m, path[i].switch_state) = n
        BY <3>2, <4>2 DEF Ahead
      <4>4. Dirs(m) = 0 .. 1
        BY <1>3, <3>2, TableFacts
      <4>5. Dest(m, 0) # Dest(m, 1)
        BY <1>3, <3>2 DEF TableFits, TableAssumption, DIR_STRAIGHT, DIR_CURVED
      <4> QED
        BY <2>1, <3>2, <4>3, <4>4, <4>5
    <3> QED
      BY <3>1, <3>2
  <2>4. path[i] = p
    BY <1>6, <2>3 DEF PathNode
  <2> HIDE DEF p
  <2> QED
    BY <1>3, <2>1, <2>2, <2>4 DEF CameTo
<1> QED
  BY <1>7, <1>8, <1>9

\* The path as far as its i-th node is one of the cheapest ways there.
LEMMA CheapestSoFar ==
  ASSUME TableFits, PathInv, ExactInv, LinkedInv, phase = "found", NEW c, c = Cost(start, blocked),
         NEW f, WaysSo(f, c)
  PROVE  \A i \in 1 .. Len(path) - 1 : SubSeq(path, 1, i) \in f[Cardinality(Index)][path[i]]
<1> DEFINE C == Cardinality(Index)
           R(i) == Rank(searched, path[i].node)
           Reached(i) == \A k \in 0 .. C : R(i) <= k => SubSeq(path, 1, i) \in f[k][path[i]]
           T == {i \in 1 .. Len(path) - 1 : ~Reached(i)}
<1>1. /\ Chain(path, total_distance) /\ path[1].node = start /\ Len(path) > 1 /\ path \in Seq(PathNodes) /\ Len(path) \in Nat
      /\ Asked /\ searched.dist = dist
  BY DEF PathInv, Walked, FindTypeOK, searched
<1>2. SearchType(searched) /\ C \in Nat
  BY TableFacts DEF ExactInv, Noted
<1>3. \A i \in 1 .. Len(path) - 1 : /\ path[i] \in PathNodes /\ path[i].node \in Index
                                    /\ c[path[i].node] = Away(searched, path[i].node)
                                    /\ R(i) \in 0 .. C
  <2> SUFFICES ASSUME NEW i \in 1 .. Len(path) - 1
               PROVE  /\ path[i] \in PathNodes /\ path[i].node \in Index
                      /\ c[path[i].node] = Away(searched, path[i].node)
                      /\ R(i) \in 0 .. C
    OBVIOUS
  <2>1. path[i] \in PathNodes /\ path[i].node \in Index /\ c[path[i].node] = Away(searched, path[i].node)
    BY NearerOnPath
  <2>2. R(i) \in Nat /\ R(i) <= C
    BY <1>2, <2>1, RankGrows
  <2> QED
    BY <1>2, <2>1, <2>2
<1>4. \A k \in 0 .. C : \A p \in PathNodes :
        f[k][p] = IF p.node = start THEN {<<p>>}
                  ELSE IF k = 0 THEN {}
                  ELSE {Append(w, p) : w \in UNION {f[k - 1][q] : q \in CameTo(c, p.node, c[p.node])}}
  <2> HIDE DEF C
  <2>1. f = [k \in 0 .. C |-> [p \in PathNodes |->
                IF p.node = start THEN {<<p>>}
                ELSE IF k = 0 THEN {}
                ELSE {Append(w, p) : w \in UNION {f[k - 1][q] : q \in CameTo(c, p.node, c[p.node])}}]]
    BY DEF WaysSo, C
  <2> DEFINE Step(k, p) ==
        IF p.node = start THEN {<<p>>}
        ELSE IF k = 0 THEN {}
        ELSE {Append(w, p) : w \in UNION {f[k - 1][q] : q \in CameTo(c, p.node, c[p.node])}}
  <2>2. f = [k \in 0 .. C |-> [p \in PathNodes |-> Step(k, p)]]
    BY <2>1
  <2> HIDE DEF Step
  <2>3. \A k \in 0 .. C : \A p \in PathNodes : f[k][p] = Step(k, p)
    BY <2>2
  <2> QED
    BY <2>3 DEF Step
<1> HIDE DEF C, R
<1>5. T = {}
  <2> SUFFICES ASSUME T # {} PROVE FALSE
    OBVIOUS
  <2>1. PICK i \in T : \A j \in T : i <= j
    <3>1. T \subseteq Nat
      OBVIOUS
    <3> HIDE DEF T
    <3> QED
      BY <3>1, Least
  <2>2. i \in 1 .. Len(path) - 1 /\ ~Reached(i)
    OBVIOUS
  <2>3. PICK k \in 0 .. C : R(i) <= k /\ SubSeq(path, 1, i) \notin f[k][path[i]]
    BY <2>2
  <2>4. ASSUME NEW j \in 1 .. Len(path) - 1, j < i PROVE Reached(j)
    <3>1. ~(i <= j)
      BY <2>2, <2>4
    <3>2. j \notin T
      <4> HIDE DEF T
      <4> QED
        BY <2>1, <3>1
    <3> QED
      BY <3>2
  <2> HIDE DEF T
  <2>5. CASE i = 1
    <3>1. path[1] \in PathNodes
      BY <1>1
    <3>2. SubSeq(path, 1, 1) = <<path[1]>>
      <4>1. 1 \in 1 .. Len(path)
        BY <1>1
      <4> QED
        BY <1>1, <4>1, FirstOnly
    <3>3. f[k][path[1]] = {<<path[1]>>}
      BY <1>1, <1>4, <3>1
    <3> QED
      BY <2>3, <2>5, <3>2, <3>3
  <2>6. CASE i # 1
    <3> DEFINE j == i - 1
               p == path[i]
               q == path[j]
    <3>1. j \in 1 .. Len(path) - 1 /\ j < i /\ j + 1 = i /\ i \in 1 .. Len(path) /\ j \in 1 .. Len(path) /\ i > 1 /\ i # Len(path)
      BY <1>1, <2>2, <2>6
    <3>2. p.node # start
      BY <1>1, <3>1 DEF Chain
    <3>3. Away(searched, q.node) < Away(searched, p.node)
      BY <1>1, <3>1, <3>2 DEF Chain, Away
    <3>4. R(j) < R(i)
      <4>1. q.node \in Index /\ p.node \in Index
        BY <1>3, <2>2, <3>1
      <4> QED
        BY <1>2, <3>3, <4>1, RankGrows DEF R
    <3>5. k # 0 /\ k - 1 \in 0 .. C /\ R(j) <= k - 1
      <4>1. R(i) \in 0 .. C /\ R(j) \in 0 .. C
        BY <1>3, <2>2, <3>1
      <4> QED
        BY <1>2, <2>3, <3>4, <4>1
    <3>6. SubSeq(path, 1, j) \in f[k - 1][q]
      BY <2>4, <3>1, <3>5
    <3>7. q \in CameTo(c, p.node, c[p.node])
      <4>1. path[j] \in CameTo(c, path[j + 1].node, dist[path[j + 1].node])
        BY <3>1, CheaplyOn
      <4>2. c[p.node] = dist[p.node]
        <5>1. p.node \in Index /\ c[p.node] = Away(searched, p.node)
          BY <1>3, <2>2
        <5> QED
          BY <1>1, <1>2, <3>2, <5>1, AwayKnown
      <4> QED
        BY <3>1, <4>1, <4>2
    <3>8. f[k][p] = {Append(w, p) : w \in UNION {f[k - 1][r] : r \in CameTo(c, p.node, c[p.node])}}
      <4>1. p \in PathNodes
        BY <1>3, <2>2
      <4> HIDE DEF p
      <4> QED
        BY <1>4, <3>2, <3>5, <4>1
    <3>9. SubSeq(path, 1, i) = Append(SubSeq(path, 1, j), p)
      <4>1. SubSeq(path, 1, j + 1) = Append(SubSeq(path, 1, j), path[j + 1])
        BY <1>1, <3>1, OneMore
      <4> QED
        BY <3>1, <4>1
    <3> HIDE DEF p, q, j
    <3>10. SubSeq(path, 1, i) \in f[k][p]
      BY <3>6, <3>7, <3>8, <3>9
    <3> QED
      BY <2>3, <3>10 DEF p
  <2> QED
    BY <2>5, <2>6
<1> QED
  <2> SUFFICES ASSUME NEW i \in 1 .. Len(path) - 1 PROVE SubSeq(path, 1, i) \in f[C][path[i]]
    BY DEF C
  <2>1. Reached(i)
    BY <1>5
  <2>2. C \in 0 .. C /\ R(i) <= C
    BY <1>2, <1>3
  <2> QED
    BY <2>1, <2>2

LEMMA CheapestFound == ASSUME TableFits, PathInv, ExactInv, LinkedInv PROVE PathIsShortest
<1> SUFFICES ASSUME phase = "found" PROVE path \in ShortestPaths(start, dest, blocked)
  BY DEF PathIsShortest
<1> DEFINE c == Cost(start, blocked)
           k == CostGiven(c, start, dest, blocked)
           goal == PathNode(dest, UNINITIALIZED)
           C == Cardinality(Index)
           l == Len(path) - 1
<1>1. path \in Seq(PathNodes) /\ Len(path) \in Nat /\ Len(path) > 1 /\ Asked /\ path # <<>>
  BY DEF PathInv, Walked, FindTypeOK
<1>2. l \in 1 .. Len(path) - 1 /\ l + 1 = Len(path) /\ l \in 1 .. Len(path)
  BY <1>1
<1>3. k = dist[dest] /\ dist[dest] < INFINITY
  BY <1>2, NearerOnPath
<1>4. path[Len(path)] = goal
  BY <1>1 DEF LinkedInv, Linked
<1>5. k # INFINITY
  <2>1. dist[dest] \in Nat /\ INFINITY \in Nat
    BY <1>1, TableFacts DEF PathInv, FindTypeOK, Asked
  <2> QED
    BY <1>3, <2>1
<1>6. path[l] \in CameTo(c, dest, k)
  <2>1. path[l] \in CameTo(c, path[l + 1].node, dist[path[l + 1].node])
    BY <1>2, CheaplyOn
  <2>2. path[l + 1].node = dest
    BY <1>2, <1>4 DEF PathNode
  <2> QED
    BY <1>3, <2>1, <2>2
<1>7. ShortestPaths(start, dest, blocked) = PathsGiven(c, start, dest, blocked)
  BY DEF ShortestPaths
<1> HIDE DEF c, k, goal, l
<1>8. PICK f : /\ WaysSo(f, c)
               /\ PathsGiven(c, start, dest, blocked) =
                    {Append(w, goal) : w \in UNION {f[C][q] : q \in CameTo(c, dest, k)}}
  BY <1>1, <1>5, PathsGivenKnown DEF k, goal
<1>9. SubSeq(path, 1, l) \in f[C][path[l]]
  BY <1>2, <1>8, CheapestSoFar DEF c
<1>10. path = Append(SubSeq(path, 1, l), goal)
  <2>1. SubSeq(path, 1, l + 1) = Append(SubSeq(path, 1, l), path[l + 1])
    BY <1>1, <1>2, OneMore
  <2>2. SubSeq(path, 1, Len(path)) = path
    BY <1>1
  <2> QED
    BY <1>2, <1>4, <2>1, <2>2
<1>11. path \in {Append(w, goal) : w \in UNION {f[C][q] : q \in CameTo(c, dest, k)}}
  BY <1>6, <1>9, <1>10
<1> QED
  BY <1>7, <1>8, <1>11

\* On any table, when the heap has room for every node that is put into it: a path is
\* found exactly when there is one, and none is cheaper.
THEOREM ShortestExactly == ASSUME TableFits PROVE FindSpec /\ []NothingDropped => []ShortestIfThereIsOne
<1>1. PathInv /\ ExactInv => FoundIfThereIsOne
  BY ExactFound
<1>2. PathInv /\ ExactInv /\ LinkedInv => PathIsShortest
  BY CheapestFound
<1>3. FoundIfThereIsOne /\ PathIsShortest => ShortestIfThereIsOne
  BY DEF ShortestIfThereIsOne
<1>4. FindInit => LinkedInv
  BY DEF FindInit, LinkedInv
<1>5. PathInv /\ LinkedInv /\ [FindNext]_findVars => LinkedInv'
  BY LinkedStep
<1>6. FindSpec => []PathInv
  BY SearchInvariant, PTL
<1>7. FindSpec /\ []NothingDropped => []ExactInv
  BY SearchIsExact
<1> QED
  BY <1>1, <1>2, <1>3, <1>4, <1>5, <1>6, <1>7, PTL DEF FindSpec
=============================================================================
