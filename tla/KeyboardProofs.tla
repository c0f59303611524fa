--------------------------- MODULE KeyboardProofs ---------------------------
(***************************************************************************)
(* Proofs about Keyboard.  The indices of the ring count modulo Wrap, the  *)
(* cells modulo Size, which divides Wrap: a short part on that arithmetic  *)
(* comes first.                                                            *)
(***************************************************************************)
EXTENDS Keyboard, FiniteSetTheorems, SequenceTheorems, TLAPS

\* As long as no key has hit a cell still in use, at most Size keys wait, and a
\* cell is in use exactly when it is between head and tail.  Without this a
\* push could not be told to add at the end, nor a pop of 0 that nothing waits.
CellsMatchIndices ==
  ~overrun =>
    /\ Waiting <= Size
    /\ \A k \in Cells : buf[(head + k) % Size] # 0 <=> k < Waiting

IInv == TypeOK /\ CellsMatchIndices

-----------------------------------------------------------------------------
(* Arithmetic of the indices *)

\* A remainder is below its divisor.
LEMMA ModRange ==
  ASSUME NEW a \in Int, NEW n \in Nat \ {0}
  PROVE  a % n \in 0 .. n - 1
OBVIOUS

\* Division with remainder.
LEMMA DivMod ==
  ASSUME NEW a \in Int, NEW n \in Nat \ {0}
  PROVE  a \div n \in Int /\ a = n * (a \div n) + (a % n)
OBVIOUS

\* Only 0 is a multiple of n nearer to 0 than n.
LEMMA SmallMultiple ==
  ASSUME NEW n \in Nat \ {0}, NEW q \in Int, NEW r \in Int,
         n * q = r, -n < r, r < n
  PROVE  q = 0
OBVIOUS

\* Quotient and remainder are unique.
LEMMA ModUnique ==
  ASSUME NEW a \in Int, NEW n \in Nat \ {0}, NEW q \in Int, NEW r \in 0 .. n - 1,
         a = n * q + r
  PROVE  a % n = r
<1> DEFINE d == a \div n
           m == a % n
<1>1. d \in Int /\ m \in 0 .. n - 1 /\ a = n * d + m
  BY DivMod, ModRange
<1> HIDE DEF d, m
<1>2. n * (d - q) = r - m
  BY <1>1
<1>3. d - q = 0
  BY <1>1, <1>2, SmallMultiple
<1>4. m = r
  BY <1>1, <1>3
<1> QED
  BY <1>4 DEF m

\* Adding a multiple of n changes no remainder.
LEMMA ModShift ==
  ASSUME NEW a \in Int, NEW n \in Nat \ {0}, NEW q \in Int
  PROVE  (a + n * q) % n = a % n
<1> DEFINE d == a \div n
           m == a % n
<1>1. d \in Int /\ m \in 0 .. n - 1 /\ a = n * d + m
  BY DivMod, ModRange
<1> HIDE DEF d, m
<1>2. a + n * q = n * (d + q) + m
  BY <1>1
<1>3. a + n * q \in Int /\ d + q \in Int
  BY <1>1
<1>4. (a + n * q) % n = m
  BY <1>1, <1>2, <1>3, ModUnique
<1> QED
  BY <1>4 DEF m

\* Two numbers less than n apart with one remainder are equal.
LEMMA ModInjective ==
  ASSUME NEW a \in Int, NEW b \in Int, NEW n \in Nat \ {0},
         a % n = b % n, a - b < n, b - a < n
  PROVE  a = b
<1> DEFINE d == a \div n
           e == b \div n
           m == a % n
<1>1. d \in Int /\ m \in Int /\ a = n * d + m
  BY DivMod, ModRange
<1>2. e \in Int /\ b = n * e + m
  BY DivMod, ModRange
<1> HIDE DEF d, e, m
<1>3. n * (d - e) = a - b
  BY <1>1, <1>2
<1>4. d - e = 0
  BY <1>1, <1>2, <1>3, SmallMultiple
<1> QED
  BY <1>1, <1>2, <1>4

\* An index that is about to wrap around the int names the same cell after it.
LEMMA WrapKeepsCell ==
  ASSUME NEW x \in Int, NEW y \in Int
  PROVE  ((x % Wrap) + y) % Size = (x + y) % Size
<1> DEFINE w == Wrap \div Size
           d == x \div Wrap
           m == x % Wrap
<1>0. Size \in Nat \ {0} /\ Wrap \in Nat \ {0} /\ Wrap % Size = 0
  BY KeyboardAssumption
<1>1. w \in Int /\ Wrap = Size * w
  <2>1. w \in Int /\ Wrap = Size * w + (Wrap % Size)
    BY <1>0, DivMod
  <2> QED
    BY <1>0, <2>1
<1>2. d \in Int /\ m \in Int /\ x = Wrap * d + m
  BY <1>0, DivMod, ModRange
<1> HIDE DEF w, d, m
<1>3. Wrap * d = Size * (w * d)
  BY <1>0, <1>1, <1>2
<1>4. x + y = (m + y) + Size * (w * d)
  BY <1>0, <1>1, <1>2, <1>3
<1>5. w * d \in Int /\ m + y \in Int
  <2>1. w \in Int /\ d \in Int /\ m \in Int
    BY <1>1, <1>2
  <2> QED
    BY ONLY <2>1, y \in Int
<1>6. ((m + y) + Size * (w * d)) % Size = (m + y) % Size
  <2> DEFINE p == m + y
             q == w * d
  <2> HIDE DEF p, q
  <2>1. p \in Int /\ q \in Int /\ Size \in Nat \ {0}
    BY <1>0, <1>5 DEF p, q
  <2>2. (p + Size * q) % Size = p % Size
    BY ONLY <2>1, ModShift
  <2> QED
    BY <2>2 DEF p, q
<1> QED
  BY <1>4, <1>6 DEF m

-----------------------------------------------------------------------------
(* The ring *)

\* The cells of Size indices in a row are distinct.
LEMMA CellsDistinct ==
  ASSUME NEW h \in Int, NEW j \in Cells, NEW k \in Cells,
         (h + j) % Size = (h + k) % Size
  PROVE  j = k
<1>1. /\ h + j \in Int /\ h + k \in Int /\ Size \in Nat \ {0}
      /\ (h + j) - (h + k) < Size /\ (h + k) - (h + j) < Size
  BY KeyboardAssumption DEF Cells
<1>2. h + j = h + k
  BY <1>1, ModInjective
<1> QED
  BY <1>2 DEF Cells

\* Every index names a cell.
LEMMA NamesCell ==
  ASSUME NEW x \in Int
  PROVE  x % Size \in Cells
BY KeyboardAssumption, ModRange DEF Cells

\* Every cell is one of the Size from head on.
LEMMA CellsCovered ==
  ASSUME NEW h \in Int, NEW n \in Cells
  PROVE  \E k \in Cells : n = (h + k) % Size
<1> DEFINE k == (n - h) % Size
           d == (n - h) \div Size
<1>0. Size \in Nat \ {0} /\ n - h \in Int /\ n \in Int
  BY KeyboardAssumption DEF Cells
<1>1. k \in 0 .. Size - 1 /\ d \in Int /\ n - h = Size * d + k
  BY <1>0, DivMod, ModRange
<1> HIDE DEF k, d
<1>2. n \in 0 .. Size - 1 /\ h + k = Size * (-d) + n /\ h + k \in Int /\ -d \in Int
  BY <1>0, <1>1 DEF Cells
<1>3. (h + k) % Size = n
  BY ONLY <1>0, <1>2, ModUnique
<1> QED
  BY <1>1, <1>3 DEF Cells

\* Tail is Waiting behind head.
LEMMA TailBehindHead ==
  ASSUME TypeOK
  PROVE  /\ Waiting \in 0 .. Wrap - 1
         /\ (head + Waiting) % Size = tail % Size
<1>0. /\ Wrap \in Nat \ {0} /\ tail \in 0 .. Wrap - 1 /\ head \in 0 .. Wrap - 1
      /\ tail - head \in Int
  BY KeyboardAssumption DEF TypeOK
<1> DEFINE d == (tail - head) \div Wrap
<1>1. /\ tail \in Int /\ head \in Int
      /\ Waiting \in 0 .. Wrap - 1 /\ d \in Int /\ tail - head = Wrap * d + Waiting
  BY <1>0, DivMod, ModRange DEF Waiting
<1> HIDE DEF d
<1>2. tail \in 0 .. Wrap - 1 /\ head + Waiting = Wrap * (-d) + tail
      /\ head + Waiting \in Int /\ -d \in Int
  BY <1>0, <1>1
<1>3. (head + Waiting) % Wrap = tail
  BY ONLY <1>0, <1>2, ModUnique
<1>4. (((head + Waiting) % Wrap) + 0) % Size = ((head + Waiting) + 0) % Size
  BY <1>2, WrapKeepsCell
<1> QED
  BY <1>0, <1>1, <1>2, <1>3, <1>4

\* A push makes one key more wait, a pop one key less, also when an index wraps.
LEMMA WaitingAfter ==
  ASSUME TypeOK
  PROVE  /\ Waiting < Wrap - 1 => (((tail + 1) % Wrap) - head) % Wrap = Waiting + 1
         /\ Waiting > 0 => (tail - ((head + 1) % Wrap)) % Wrap = Waiting - 1
<1>0. /\ Wrap \in Nat \ {0} /\ tail \in 0 .. Wrap - 1 /\ head \in 0 .. Wrap - 1
      /\ tail - head \in Int
  BY KeyboardAssumption DEF TypeOK
<1> DEFINE d == (tail - head) \div Wrap
           t == (tail + 1) % Wrap
           e == (tail + 1) \div Wrap
           h == (head + 1) % Wrap
           f == (head + 1) \div Wrap
<1>1. /\ tail \in Int /\ head \in Int
      /\ Waiting \in 0 .. Wrap - 1 /\ d \in Int /\ tail - head = Wrap * d + Waiting
  BY <1>0, DivMod, ModRange DEF Waiting
<1>2. t \in Int /\ e \in Int /\ tail + 1 = Wrap * e + t
  BY <1>0, DivMod, ModRange
<1>3. h \in Int /\ f \in Int /\ head + 1 = Wrap * f + h
  BY <1>0, DivMod, ModRange
<1> HIDE DEF d, t, e, h, f
<1>4. ASSUME Waiting < Wrap - 1 PROVE (t - head) % Wrap = Waiting + 1
  <2>1. t - head = Wrap * (d - e) + (Waiting + 1)
    BY <1>0, <1>1, <1>2
  <2>2. t - head \in Int /\ d - e \in Int /\ Waiting + 1 \in 0 .. Wrap - 1
    BY <1>0, <1>1, <1>2, <1>4
  <2> QED
    BY ONLY <1>0, <2>1, <2>2, ModUnique
<1>5. ASSUME Waiting > 0 PROVE (tail - h) % Wrap = Waiting - 1
  <2>1. tail - h = Wrap * (d + f) + (Waiting - 1)
    BY <1>0, <1>1, <1>3
  <2>2. tail - h \in Int /\ d + f \in Int /\ Waiting - 1 \in 0 .. Wrap - 1
    BY <1>0, <1>1, <1>3, <1>5
  <2> QED
    BY ONLY <1>0, <2>1, <2>2, ModUnique
<1> QED
  BY <1>4, <1>5 DEF t, h

-----------------------------------------------------------------------------
(* The invariant *)

\* The characters of the table are those the driver may push.
LEMMA CharTyped ==
  ASSUME TypeOK, NEW code \in ScanCodes,
         ~Released(code), classic_keyboard_scancode_to_char(code) # 0
  PROVE  classic_keyboard_scancode_to_char(code) \in Chars
<1>1. code \in 0 .. 255 /\ Table \in Seq(Nat) /\ Len(Table) \in Nat
  BY KeyboardAssumption
<1>2. CASE code = Len(Table)
  BY <1>1, <1>2 DEF classic_keyboard_scancode_to_char, Chars, TypeOK
<1>3. CASE code < Len(Table)
  <2>1. code + 1 \in DOMAIN Table
    BY <1>1, <1>3
  <2>2. Table[code + 1] \in ToSet(Table)
    BY <2>1 DEF ToSet
  <2> QED
    BY <1>1, <1>3, <2>2 DEF classic_keyboard_scancode_to_char, Chars
<1> QED
  BY <1>1, <1>2, <1>3 DEF classic_keyboard_scancode_to_char

\* A byte from the port either is no key or is pushed as a character.
LEMMA InterruptPushes ==
  ASSUME TypeOK, NEW code \in ScanCodes, Interrupt(code)
  PROVE  \/ UNCHANGED vars
         \/ /\ \E c \in Chars : keyboard_push(c)
            /\ Len(typed) < MaxKeys
            /\ UNCHANGED <<head, past, ret, got>>
BY CharTyped DEF Interrupt, vars

\* Zero is no character.
LEMMA CharsNotZero == 0 \notin Chars
BY DEF Chars

\* In the initial states nothing waits and every cell is free.
LEMMA InitEstablishes ==
  ASSUME Init
  PROVE  IInv
<1>0. Size \in Nat \ {0} /\ Wrap \in Nat \ {0} /\ MaxKeys \in Nat
  BY KeyboardAssumption
<1>1. TypeOK
  <2>1. <<>> \in Seq(Chars) /\ Len(<<>>) <= MaxKeys
    BY <1>0
  <2>2. 0 \in 0 .. Wrap - 1 /\ 0 \in Chars \cup {0}
    BY <1>0
  <2>3. buf \in [Cells -> Chars \cup {0}]
    BY DEF Init
  <2> QED
    BY <2>1, <2>2, <2>3 DEF Init, TypeOK
<1>2. Waiting = 0
  <2>1. 0 % Wrap = 0
    BY <1>0
  <2> QED
    BY <2>1 DEF Init, Waiting
<1>3. ASSUME NEW k \in Cells PROVE buf[(head + k) % Size] # 0 <=> k < Waiting
  <2>1. head + k \in Int /\ k \in Nat
    BY DEF Init, Cells
  <2>2. (head + k) % Size \in Cells
    BY <2>1, NamesCell
  <2> QED
    BY <1>2, <2>1, <2>2 DEF Init
<1> QED
  BY <1>0, <1>1, <1>2, <1>3 DEF IInv, CellsMatchIndices

\* A push keeps the types.
LEMMA PushTyped ==
  ASSUME TypeOK, NEW c \in Chars, keyboard_push(c), Len(typed) < MaxKeys,
         UNCHANGED <<head, past, ret, got>>
  PROVE  TypeOK'
<1>0. Wrap \in Nat \ {0} /\ MaxKeys \in Nat
  BY KeyboardAssumption
<1>1. tail' \in 0 .. Wrap - 1
  <2>1. tail + 1 \in Int
    BY DEF TypeOK
  <2> QED
    BY <1>0, <2>1, ModRange DEF keyboard_push
<1>2. buf' \in [Cells -> Chars \cup {0}]
  BY DEF TypeOK, keyboard_push
<1>3. typed' \in Seq(Chars) /\ Len(typed') <= MaxKeys
  <2>1. typed' = Append(typed, c) /\ typed \in Seq(Chars)
    BY DEF TypeOK, keyboard_push
  <2>2. typed' \in Seq(Chars) /\ Len(typed') = Len(typed) + 1 /\ Len(typed) \in Nat
    BY ONLY <2>1, c \in Chars
  <2> QED
    BY <1>0, <2>2
<1>4. overrun' \in BOOLEAN
  BY DEF TypeOK, keyboard_push
<1> QED
  BY <1>1, <1>2, <1>3, <1>4 DEF TypeOK

\* A pop keeps the types.
LEMMA PopTyped ==
  ASSUME TypeOK, Getkey
  PROVE  TypeOK'
<1>0. Wrap \in Nat \ {0} /\ MaxKeys \in Nat
  BY KeyboardAssumption
<1>1. head' \in 0 .. Wrap - 1
  <2>1. head + 1 \in Int
    BY DEF TypeOK
  <2>2. (head + 1) % Wrap \in 0 .. Wrap - 1
    BY <1>0, <2>1, ModRange
  <2> QED
    BY <2>2 DEF TypeOK, Getkey, keyboard_pop
<1>2. buf' \in [Cells -> Chars \cup {0}]
  BY DEF TypeOK, Getkey, keyboard_pop
<1>3. ret' \in Chars \cup {0}
  <2>1. head % Size \in Cells
    BY NamesCell DEF TypeOK
  <2> QED
    BY <2>1 DEF TypeOK, Getkey
<1>4. got' \in Seq(Chars)
  BY <1>3 DEF TypeOK, Getkey
<1> QED
  BY <1>1, <1>2, <1>3, <1>4 DEF TypeOK, Getkey

\* A push into a free cell: one key more waits, in the cell behind the others,
\* and fewer than Size waited before.
LEMMA PushAdds ==
  ASSUME IInv, NEW c \in Chars, keyboard_push(c), UNCHANGED head, ~overrun'
  PROVE  /\ Waiting < Size
         /\ Waiting' = Waiting + 1
         /\ buf' = [buf EXCEPT ![(head + Waiting) % Size] = c]
         /\ \A k \in Cells : k # Waiting =>
              buf'[(head + k) % Size] = buf[(head + k) % Size]
         /\ buf'[(head + Waiting) % Size] = c
<1>0. /\ Size \in Nat \ {0} /\ Wrap \in Nat \ {0} /\ Size < Wrap
      /\ tail \in Int /\ head \in Int
  BY KeyboardAssumption DEF IInv, TypeOK
<1>1. Waiting \in 0 .. Wrap - 1 /\ (head + Waiting) % Size = tail % Size
  BY TailBehindHead DEF IInv
<1>2. /\ Waiting <= Size /\ ~overrun
      /\ \A k \in Cells : buf[(head + k) % Size] # 0 <=> k < Waiting
  BY DEF IInv, CellsMatchIndices, keyboard_push
<1>3. buf[(head + Waiting) % Size] = 0
  BY <1>1 DEF keyboard_push
<1>4. Waiting < Size
  <2>0. Waiting <= Size /\ Waiting \in Int
    BY <1>0, <1>1, <1>2
  <2>1. SUFFICES ASSUME Waiting = Size PROVE FALSE
    BY <1>0, <2>0
  <2>2. \A q \in Int : (head + Size * q) % Size = head % Size
    BY <1>0, ModShift
  <2>3. 1 \in Int /\ Size * 1 = Size /\ head + 0 = head
    BY <1>0
  <2>4. buf[(head + 0) % Size] = 0
    BY <1>3, <2>1, <2>2, <2>3
  <2>5. 0 \in Cells /\ 0 < Waiting
    BY <1>0, <2>1 DEF Cells
  <2> QED
    BY <1>2, <2>4, <2>5
<1>5. Waiting' = Waiting + 1
  <2>1. (((tail + 1) % Wrap) - head) % Wrap = Waiting + 1
    BY <1>0, <1>1, <1>4, WaitingAfter DEF IInv
  <2>2. tail' = (tail + 1) % Wrap /\ head' = head
    BY DEF keyboard_push
  <2> QED
    BY <2>1, <2>2 DEF Waiting
<1>6. buf' = [buf EXCEPT ![(head + Waiting) % Size] = c]
  BY <1>1 DEF keyboard_push
<1>7. ASSUME NEW k \in Cells, k # Waiting
      PROVE  buf'[(head + k) % Size] = buf[(head + k) % Size]
  <2>1. Waiting \in Cells
    BY <1>0, <1>1, <1>4 DEF Cells
  <2>2. (head + k) % Size # (head + Waiting) % Size
    BY <1>0, <1>7, <2>1, CellsDistinct
  <2>3. (head + k) % Size \in Cells
    BY <1>0, NamesCell DEF Cells
  <2> QED
    BY <1>6, <2>2, <2>3 DEF IInv, TypeOK
<1>8. buf'[(head + Waiting) % Size] = c
  <2>1. (head + Waiting) % Size \in Cells
    BY <1>0, <1>1, NamesCell
  <2> QED
    BY <1>6, <2>1 DEF IInv, TypeOK
<1> QED
  BY <1>4, <1>5, <1>6, <1>7, <1>8

\* A push that finds its cell in use finds all of them in use.
LEMMA OverrunMeansFull ==
  ASSUME IInv, ~overrun, buf[tail % Size] # 0
  PROVE  Waiting = Size
<1>0. Size \in Nat \ {0} /\ head \in Int
  BY KeyboardAssumption DEF IInv, TypeOK
<1>1. Waiting \in Int /\ Waiting >= 0 /\ (head + Waiting) % Size = tail % Size
  BY TailBehindHead, KeyboardAssumption DEF IInv
<1>2. /\ Waiting <= Size
      /\ \A k \in Cells : buf[(head + k) % Size] # 0 <=> k < Waiting
  BY DEF IInv, CellsMatchIndices
<1>3. SUFFICES ASSUME Waiting # Size PROVE FALSE
  OBVIOUS
<1>4. Waiting \in Cells
  BY <1>0, <1>1, <1>2, <1>3 DEF Cells
<1> QED
  BY <1>1, <1>2, <1>4

\* A getkey that returns 0 finds nothing waiting.
LEMMA ZeroMeansEmpty ==
  ASSUME IInv, ~overrun, buf[head % Size] = 0
  PROVE  Waiting = 0
<1>0. Size \in Nat \ {0} /\ head \in Int /\ head + 0 = head
  BY KeyboardAssumption DEF IInv, TypeOK
<1>1. Waiting \in Nat
  BY TailBehindHead, KeyboardAssumption DEF IInv
<1>2. \A k \in Cells : buf[(head + k) % Size] # 0 <=> k < Waiting
  BY DEF IInv, CellsMatchIndices
<1>3. 0 \in Cells
  BY <1>0 DEF Cells
<1>4. ~(0 < Waiting)
  BY <1>0, <1>2, <1>3
<1> QED
  BY <1>1, <1>4

\* Any other getkey takes the oldest key: the cells, counted from head, move up by
\* one, and the last one is free.
LEMMA PopTakes ==
  ASSUME IInv, Getkey, ~overrun, buf[head % Size] # 0
  PROVE  /\ Waiting > 0
         /\ Waiting' = Waiting - 1
         /\ \A k \in Cells : buf'[(head' + k) % Size] =
              IF k = Size - 1 THEN 0 ELSE buf[(head + (k + 1)) % Size]
<1>0. /\ Size \in Nat \ {0} /\ Wrap \in Nat \ {0}
      /\ tail \in Int /\ head \in Int /\ head + 0 = head
  BY KeyboardAssumption DEF IInv, TypeOK
<1>1. Waiting \in 0 .. Wrap - 1
  BY TailBehindHead DEF IInv
<1>2. \A k \in Cells : buf[(head + k) % Size] # 0 <=> k < Waiting
  BY DEF IInv, CellsMatchIndices
<1>3. Waiting > 0
  <2>1. 0 \in Cells
    BY <1>0 DEF Cells
  <2>2. 0 < Waiting
    BY <1>0, <1>2, <2>1
  <2> QED
    BY <1>0, <1>1, <2>2
<1>4. head' = (head + 1) % Wrap /\ tail' = tail /\ buf' = [buf EXCEPT ![head % Size] = 0]
  BY DEF Getkey, keyboard_pop
<1>5. Waiting' = Waiting - 1
  <2>1. (tail - ((head + 1) % Wrap)) % Wrap = Waiting - 1
    BY <1>0, <1>1, <1>3, WaitingAfter DEF IInv
  <2> QED
    BY <1>4, <2>1 DEF Waiting
<1>6. ASSUME NEW k \in Cells
      PROVE  buf'[(head' + k) % Size] =
               IF k = Size - 1 THEN 0 ELSE buf[(head + (k + 1)) % Size]
  <2>0. k \in 0 .. Size - 1 /\ k \in Int /\ head + 1 \in Int /\ head + (k + 1) \in Int
    BY <1>0, <1>6 DEF Cells
  <2>1. (head' + k) % Size = (head + (k + 1)) % Size
    <3>1. (((head + 1) % Wrap) + k) % Size = ((head + 1) + k) % Size
      BY <2>0, WrapKeepsCell
    <3>2. (head + 1) + k = head + (k + 1)
      BY <1>0, <2>0
    <3> QED
      BY <1>4, <3>1, <3>2
  <2>2. CASE k = Size - 1
    <3>1. \A q \in Int : (head + Size * q) % Size = head % Size
      BY <1>0, ModShift
    <3>2. 1 \in Int /\ head + (k + 1) = head + Size * 1
      BY <1>0, <2>0, <2>2
    <3>3. (head' + k) % Size = head % Size
      BY <2>1, <3>1, <3>2
    <3>4. head % Size \in Cells
      BY <1>0, NamesCell
    <3> QED
      BY <1>4, <2>2, <3>3, <3>4 DEF IInv, TypeOK
  <2>3. CASE k # Size - 1
    <3>1. k + 1 \in Cells /\ 0 \in Cells /\ k + 1 # 0
      BY <1>0, <2>0, <2>3 DEF Cells
    <3>2. (head + (k + 1)) % Size # (head + 0) % Size
      BY <1>0, <3>1, CellsDistinct
    <3>3. (head + (k + 1)) % Size \in Cells
      BY <2>0, NamesCell
    <3> QED
      BY <1>0, <1>4, <2>1, <2>3, <3>2, <3>3 DEF IInv, TypeOK
  <2> QED
    BY <2>2, <2>3
<1> QED
  BY <1>3, <1>5, <1>6

\* No step breaks the invariant.
LEMMA StepPreserves ==
  ASSUME IInv, [Next]_vars
  PROVE  IInv'
<1>0. /\ Size \in Nat \ {0} /\ Wrap \in Nat \ {0} /\ head \in Int
      /\ Waiting \in 0 .. Wrap - 1
  BY KeyboardAssumption, TailBehindHead DEF IInv, TypeOK
<1>1. CASE UNCHANGED vars
  BY <1>1 DEF vars, IInv, TypeOK, CellsMatchIndices, Waiting
<1>2. ASSUME NEW c \in Chars, keyboard_push(c), Len(typed) < MaxKeys,
             UNCHANGED <<head, past, ret, got>>
      PROVE  IInv'
  <2>1. TypeOK'
    BY <1>2, PushTyped DEF IInv
  <2>2. SUFFICES ASSUME ~overrun'
                 PROVE  /\ Waiting' <= Size
                        /\ \A k \in Cells :
                             buf'[(head' + k) % Size] # 0 <=> k < Waiting'
    BY <2>1 DEF IInv, CellsMatchIndices, Cells
  <2>3. /\ Waiting < Size /\ Waiting' = Waiting + 1
        /\ \A k \in Cells : k # Waiting =>
             buf'[(head + k) % Size] = buf[(head + k) % Size]
        /\ buf'[(head + Waiting) % Size] = c
    BY <1>2, <2>2, PushAdds
  <2>4. /\ ~overrun /\ c # 0 /\ head' = head
        /\ \A k \in Cells : buf[(head + k) % Size] # 0 <=> k < Waiting
    BY <1>2, <2>2, CharsNotZero DEF IInv, CellsMatchIndices, keyboard_push
  <2>5. ASSUME NEW k \in Cells
        PROVE  buf'[(head + k) % Size] # 0 <=> k < Waiting + 1
    <3>1. k \in Int
      BY <1>0 DEF Cells
    <3>2. CASE k = Waiting
      BY <1>0, <2>3, <2>4, <3>2
    <3>3. CASE k # Waiting
      <4>1. buf'[(head + k) % Size] # 0 <=> k < Waiting
        BY <2>3, <2>4, <3>3
      <4> QED
        BY <1>0, <3>1, <3>3, <4>1
    <3> QED
      BY <3>2, <3>3
  <2> QED
    BY <1>0, <2>3, <2>4, <2>5
<1>3. CASE Getkey
  <2>1. TypeOK'
    BY <1>3, PopTyped DEF IInv
  <2>2. SUFFICES ASSUME ~overrun
                 PROVE  /\ Waiting' <= Size
                        /\ \A k \in Cells :
                             buf'[(head' + k) % Size] # 0 <=> k < Waiting'
    BY <1>3, <2>1 DEF IInv, CellsMatchIndices, Cells, Getkey
  <2>3. /\ Waiting <= Size
        /\ \A k \in Cells : buf[(head + k) % Size] # 0 <=> k < Waiting
    BY <2>2 DEF IInv, CellsMatchIndices
  <2>4. CASE buf[head % Size] = 0
    BY <1>3, <2>3, <2>4 DEF Getkey, keyboard_pop, Waiting
  <2>5. CASE buf[head % Size] # 0
    <3>1. /\ Waiting > 0 /\ Waiting' = Waiting - 1
          /\ \A k \in Cells : buf'[(head' + k) % Size] =
               IF k = Size - 1 THEN 0 ELSE buf[(head + (k + 1)) % Size]
      BY <1>3, <2>2, <2>5, PopTakes
    <3>2. ASSUME NEW k \in Cells
          PROVE  buf'[(head' + k) % Size] # 0 <=> k < Waiting - 1
      <4>0. k \in 0 .. Size - 1
        BY DEF Cells
      <4>1. CASE k = Size - 1
        <5>1. buf'[(head' + k) % Size] = 0 /\ ~(k < Waiting - 1)
          BY <1>0, <2>3, <3>1, <4>0, <4>1
        <5> QED
          BY <5>1
      <4>2. CASE k # Size - 1
        <5>1. k + 1 \in Cells /\ (k + 1 < Waiting <=> k < Waiting - 1)
          BY <1>0, <4>0, <4>2 DEF Cells
        <5> QED
          BY <2>3, <3>1, <4>2, <5>1
      <4> QED
        BY <4>1, <4>2
    <3> QED
      BY <1>0, <2>3, <3>1, <3>2
  <2> QED
    BY <2>4, <2>5
<1>4. ASSUME NEW code \in ScanCodes, Interrupt(code) PROVE IInv'
  BY <1>1, <1>2, <1>4, InterruptPushes DEF IInv
<1> QED
  BY <1>1, <1>3, <1>4 DEF Next

-----------------------------------------------------------------------------
(* The queue *)

\* A function on 1 .. n is a sequence of length n.
LEMMA FunctionIsSequence ==
  ASSUME NEW S, NEW n \in Nat, NEW f \in [1 .. n -> S]
  PROVE  f \in Seq(S) /\ Len(f) = n
OBVIOUS

\* What the mapped queue holds: a key for each that waits, oldest first.
QueueMatches ==
  /\ Queue \in Seq(Chars) /\ Len(Queue) = Waiting
  /\ \A k \in 1 .. Waiting : Queue[k] = buf[(head + (k - 1)) % Size]

\* The mapped queue is a sequence of characters, as long as Waiting says.
LEMMA QueueIs ==
  IInv /\ ~overrun => QueueMatches
<1> SUFFICES ASSUME IInv, ~overrun PROVE QueueMatches
  OBVIOUS
<1>0. /\ Size \in Nat \ {0} /\ head \in Int /\ Waiting \in Nat /\ Waiting <= Size
      /\ Queue = [k \in 1 .. Waiting |-> buf[(head + k - 1) % Size]]
  BY KeyboardAssumption, TailBehindHead DEF IInv, TypeOK, CellsMatchIndices, Queue
<1>1. ASSUME NEW k \in 1 .. Waiting
      PROVE  /\ head + k - 1 = head + (k - 1)
             /\ buf[(head + (k - 1)) % Size] \in Chars
  <2>1. k - 1 \in Cells /\ k - 1 < Waiting /\ head + (k - 1) \in Int
    BY <1>0 DEF Cells
  <2>2. buf[(head + (k - 1)) % Size] # 0
    BY <2>1 DEF IInv, CellsMatchIndices
  <2>3. (head + (k - 1)) % Size \in Cells
    BY <2>1, NamesCell
  <2> QED
    BY <1>0, <2>2, <2>3 DEF IInv, TypeOK
<1>2. \A k \in 1 .. Waiting : /\ Queue[k] = buf[(head + (k - 1)) % Size]
                              /\ Queue[k] \in Chars
  BY <1>0, <1>1
<1>3. Queue \in [1 .. Waiting -> Chars]
  BY <1>0, <1>2
<1>4. Queue \in Seq(Chars) /\ Len(Queue) = Waiting
  <2>1. Waiting \in Nat
    BY <1>0
  <2> QED
    BY ONLY <2>1, <1>3, FunctionIsSequence
<1> QED
  BY <1>2, <1>4 DEF QueueMatches

\* A push is Key, or KeyTooMany, of the abstract queue.
LEMMA PushImplements ==
  ASSUME IInv, IInv', NEW c \in Chars, keyboard_push(c),
         UNCHANGED <<head, past, ret, got>>
  PROVE  Abstract!Next
<1>1. CASE overrun
  BY <1>1 DEF keyboard_push, Abstract!Next, Abstract!Void
<1>2. CASE ~overrun /\ overrun'
  <2>1. buf[tail % Size] # 0
    BY <1>2 DEF keyboard_push
  <2>2. Len(Queue) = Size
    BY <1>2, <2>1, OverrunMeansFull, QueueIs DEF QueueMatches
  <2> QED
    BY <1>2, <2>2 DEF Abstract!Next, Abstract!KeyTooMany
<1>3. CASE ~overrun /\ ~overrun'
  <2>0. Size \in Nat \ {0} /\ Waiting \in Nat /\ head' = head
    BY KeyboardAssumption, TailBehindHead DEF IInv
  <2>1. /\ Waiting < Size /\ Waiting' = Waiting + 1
        /\ \A k \in Cells : k # Waiting =>
             buf'[(head + k) % Size] = buf[(head + k) % Size]
        /\ buf'[(head + Waiting) % Size] = c
    BY <1>3, PushAdds
  <2>2. /\ Queue \in Seq(Chars) /\ Len(Queue) = Waiting
        /\ \A k \in 1 .. Waiting : Queue[k] = buf[(head + (k - 1)) % Size]
    BY <1>3, QueueIs DEF QueueMatches
  <2>3. /\ Queue' \in Seq(Chars) /\ Len(Queue') = Waiting + 1
        /\ \A k \in 1 .. Waiting + 1 : Queue'[k] = buf'[(head + (k - 1)) % Size]
    <3>1. /\ Queue' \in Seq(Chars) /\ Len(Queue') = Waiting'
          /\ \A k \in 1 .. Waiting' : Queue'[k] = buf'[(head' + (k - 1)) % Size]
      <4>1. QueueMatches'
        BY <1>3, QueueIs, PTL
      <4> QED
        BY <4>1 DEF QueueMatches
    <3> QED
      BY <2>0, <2>1, <3>1
  <2>4. ASSUME NEW k \in 1 .. Waiting + 1
        PROVE  Queue'[k] = Append(Queue, c)[k]
    <3>1. CASE k = Waiting + 1
      <4>1. Queue'[k] = c
        BY <2>0, <2>1, <2>3, <3>1
      <4> QED
        BY <2>2, <3>1, <4>1
    <3>2. CASE k # Waiting + 1
      <4>1. k \in 1 .. Waiting /\ k - 1 \in Cells /\ k - 1 # Waiting
        BY <2>0, <2>1, <3>2 DEF Cells
      <4>2. Queue'[k] = Queue[k]
        BY <2>1, <2>2, <2>3, <4>1
      <4> QED
        BY <2>2, <4>1, <4>2
    <3> QED
      BY <3>1, <3>2
  <2>5. Queue' = Append(Queue, c)
    <3>1. Append(Queue, c) \in Seq(Chars) /\ Len(Append(Queue, c)) = Waiting + 1
      BY <2>2
    <3> QED
      BY <2>3, <2>4, <3>1, SeqEqual
  <2>6. overrun' = overrun
    BY <1>3 DEF IInv, TypeOK
  <2>7. Abstract!Key(c)
    BY <1>3, <2>1, <2>2, <2>5, <2>6 DEF Abstract!Key
  <2> QED
    BY <2>7 DEF Abstract!Next
<1> QED
  BY <1>1, <1>2, <1>3 DEF IInv, TypeOK

\* A getkey is Getkey of the abstract queue, or void.
LEMMA GetkeyImplements ==
  ASSUME IInv, IInv', Getkey
  PROVE  Abstract!Next
<1>0. overrun' = overrun /\ overrun \in BOOLEAN /\ ret' = buf[head % Size]
  BY DEF Getkey, IInv, TypeOK
<1>1. CASE overrun
  BY <1>0, <1>1 DEF Abstract!Next, Abstract!Void
<1>2. CASE ~overrun
  <2>0. /\ Size \in Nat \ {0} /\ Waiting \in Nat /\ Waiting <= Size
        /\ head \in Int /\ head + 0 = head
    BY <1>2, KeyboardAssumption, TailBehindHead DEF IInv, TypeOK, CellsMatchIndices
  <2>1. /\ Queue \in Seq(Chars) /\ Len(Queue) = Waiting
        /\ \A k \in 1 .. Waiting : Queue[k] = buf[(head + (k - 1)) % Size]
    BY <1>2, QueueIs DEF QueueMatches
  <2>2. CASE buf[head % Size] = 0
    <3>1. Queue = <<>>
      BY <1>2, <2>1, <2>2, ZeroMeansEmpty
    <3>2. Queue' = Queue
      BY <1>0, <2>2 DEF Getkey, keyboard_pop, Queue, Waiting
    <3>3. Abstract!Getkey
      BY <1>0, <1>2, <2>2, <3>1, <3>2 DEF Abstract!Getkey
    <3> QED
      BY <3>3 DEF Abstract!Next
  <2>3. CASE buf[head % Size] # 0
    <3>1. /\ Waiting > 0 /\ Waiting' = Waiting - 1
          /\ \A k \in Cells : buf'[(head' + k) % Size] =
               IF k = Size - 1 THEN 0 ELSE buf[(head + (k + 1)) % Size]
      BY <1>2, <2>3, PopTakes
    <3>2. /\ Queue' \in Seq(Chars) /\ Len(Queue') = Waiting - 1
          /\ \A k \in 1 .. Waiting - 1 : Queue'[k] = buf'[(head' + (k - 1)) % Size]
      <4>0. ~overrun'
        BY <1>0, <1>2
      <4>1. QueueMatches'
        BY <4>0, QueueIs, PTL
      <4> QED
        BY <3>1, <4>1 DEF QueueMatches
    <3>3. Queue # <<>> /\ Head(Queue) = ret'
      <4>1. 1 \in 1 .. Waiting /\ 1 - 1 = 0
        BY <2>0, <3>1
      <4>2. Queue[1] = ret'
        BY <1>0, <2>0, <2>1, <4>1
      <4>3. Len(Queue) # 0
        BY <2>1, <3>1
      <4> QED
        BY <2>1, <4>2, <4>3
    <3>4. /\ Tail(Queue) \in Seq(Chars) /\ Len(Tail(Queue)) = Waiting - 1
          /\ \A k \in 1 .. Waiting - 1 : Tail(Queue)[k] = Queue[k + 1]
      BY <2>1, <3>3, HeadTailProperties
    <3>5. ASSUME NEW k \in 1 .. Waiting - 1
          PROVE  Queue'[k] = Tail(Queue)[k]
      <4>1. /\ k - 1 \in Cells /\ k - 1 # Size - 1 /\ (k - 1) + 1 = k
            /\ k + 1 \in 1 .. Waiting /\ (k + 1) - 1 = k
        BY <2>0 DEF Cells
      <4>2. Queue'[k] = buf[(head + k) % Size]
        BY <3>1, <3>2, <4>1
      <4>3. Queue[k + 1] = buf[(head + k) % Size]
        BY <2>1, <4>1
      <4> QED
        BY <3>4, <4>2, <4>3
    <3>6. Queue' = Tail(Queue)
      BY <3>2, <3>4, <3>5, SeqEqual
    <3>7. Abstract!Getkey
      BY <1>0, <1>2, <3>3, <3>6 DEF Abstract!Getkey
    <3> QED
      BY <3>7 DEF Abstract!Next
  <2> QED
    BY <2>2, <2>3
<1> QED
  BY <1>0, <1>1, <1>2

-----------------------------------------------------------------------------
(* Keys delivered *)

\* Appending adds one occurrence of what is appended.
LEMMA AppendOccurs ==
  ASSUME NEW S, NEW s \in Seq(S), NEW x \in S, NEW c
  PROVE  /\ Occurrences(s, c) \in Nat
         /\ Occurrences(Append(s, x), c) =
              IF x = c THEN Occurrences(s, c) + 1 ELSE Occurrences(s, c)
<1> DEFINE A == {k \in DOMAIN s : s[k] = c}
           B == {k \in DOMAIN Append(s, x) : Append(s, x)[k] = c}
           n == Len(s) + 1
<1>1. /\ Len(s) \in Nat /\ DOMAIN s = 1 .. Len(s) /\ DOMAIN Append(s, x) = 1 .. n
      /\ \A k \in 1 .. Len(s) : Append(s, x)[k] = s[k]
      /\ Append(s, x)[n] = x
  OBVIOUS
<1>2. n \notin A /\ B = IF x = c THEN A \cup {n} ELSE A
  BY <1>1
<1>3. IsFiniteSet(A) /\ Cardinality(A) \in Nat
  <2>1. IsFiniteSet(1 .. Len(s)) /\ A \in SUBSET (1 .. Len(s))
    BY <1>1, FS_Interval
  <2>2. IsFiniteSet(A)
    BY <2>1, FS_Subset
  <2> QED
    BY <2>2, FS_CardinalityType
<1> HIDE DEF A, B, n
<1>4. Cardinality(B) = IF x = c THEN Cardinality(A) + 1 ELSE Cardinality(A)
  BY <1>2, <1>3, FS_AddElement
<1> QED
  BY <1>3, <1>4 DEF Occurrences, A, B

\* Writing a cell adds at most an occurrence of what is written, and removes one
\* of what is overwritten.
LEMMA WriteOccurs ==
  ASSUME NEW f, NEW g, NEW n \in Cells, NEW c, DOMAIN f = Cells, DOMAIN g = Cells,
         \A k \in Cells \ {n} : g[k] = f[k]
  PROVE  /\ Occurrences(f, c) \in Nat
         /\ Occurrences(g, c) =
              Occurrences(f, c) + (IF g[n] = c THEN 1 ELSE 0)
                - (IF f[n] = c THEN 1 ELSE 0)
<1> DEFINE A == {k \in DOMAIN f : f[k] = c}
           B == {k \in DOMAIN g : g[k] = c}
           R == A \ {n}
<1>1. IsFiniteSet(A) /\ Cardinality(A) \in Nat
  <2>1. IsFiniteSet(Cells) /\ A \in SUBSET Cells
    BY FS_Interval, KeyboardAssumption DEF Cells
  <2>2. IsFiniteSet(A)
    BY <2>1, FS_Subset
  <2> QED
    BY <2>2, FS_CardinalityType
<1>2. n \in A <=> f[n] = c
  OBVIOUS
<1>3. /\ IsFiniteSet(R) /\ n \notin R
      /\ Cardinality(R) = IF f[n] = c THEN Cardinality(A) - 1 ELSE Cardinality(A)
  BY <1>1, <1>2, FS_RemoveElement
<1>4. B = IF g[n] = c THEN R \cup {n} ELSE R
  OBVIOUS
<1> HIDE DEF A, B, R
<1>5. Cardinality(R) \in Nat
  BY <1>3, FS_CardinalityType
<1>6. Cardinality(B) = IF g[n] = c THEN Cardinality(R) + 1 ELSE Cardinality(R)
  BY <1>3, <1>4, FS_AddElement
<1>7. Cardinality(B) =
        Cardinality(A) + (IF g[n] = c THEN 1 ELSE 0) - (IF f[n] = c THEN 1 ELSE 0)
  BY <1>1, <1>3, <1>5, <1>6
<1> QED
  BY <1>1, <1>7 DEF Occurrences, A, B

\* Before any key there is no occurrence of one anywhere.
LEMMA NoKeyInit ==
  ASSUME Init
  PROVE  NoKeyTwice
<1> SUFFICES ASSUME NEW c \in Chars
             PROVE  Occurrences(got, c) + Occurrences(buf, c) <= Occurrences(typed, c)
  BY DEF NoKeyTwice
<1>1. {k \in DOMAIN got : got[k] = c} = {} /\ {k \in DOMAIN typed : typed[k] = c} = {}
  BY DEF Init
<1>2. {k \in DOMAIN buf : buf[k] = c} = {}
  BY CharsNotZero DEF Init
<1> QED
  BY <1>1, <1>2, FS_EmptySet DEF Occurrences

\* A push adds an occurrence to typed and at most that one to the cells; a pop
\* moves one from a cell to got.
LEMMA NoKeyStep ==
  ASSUME TypeOK, NoKeyTwice, [Next]_vars
  PROVE  NoKeyTwice'
<1> SUFFICES ASSUME NEW c \in Chars
             PROVE  Occurrences(got', c) + Occurrences(buf', c) <= Occurrences(typed', c)
  BY DEF NoKeyTwice, Occurrences, Chars
<1>0. /\ Occurrences(got, c) + Occurrences(buf, c) <= Occurrences(typed, c)
      /\ tail % Size \in Cells /\ head % Size \in Cells
      /\ got \in Seq(Chars) /\ typed \in Seq(Chars) /\ buf \in [Cells -> Chars \cup {0}]
  BY NamesCell DEF NoKeyTwice, TypeOK
<1>1. Occurrences(got, c) \in Nat
  BY <1>0, AppendOccurs
<1>2. Occurrences(typed, c) \in Nat
  BY <1>0, AppendOccurs
<1>3. Occurrences(buf, c) \in Nat
  <2>1. DOMAIN buf = Cells
    BY <1>0
  <2> QED
    BY <1>0, <2>1, WriteOccurs
<1>4. CASE UNCHANGED vars
  BY <1>0, <1>4 DEF vars
<1>5. ASSUME NEW d \in Chars, keyboard_push(d), UNCHANGED got
      PROVE  Occurrences(got', c) + Occurrences(buf', c) <= Occurrences(typed', c)
  <2>1. buf' = [buf EXCEPT ![tail % Size] = d] /\ typed' = Append(typed, d) /\ got' = got
    BY <1>5 DEF keyboard_push
  <2>2. Occurrences(typed', c) =
          IF d = c THEN Occurrences(typed, c) + 1 ELSE Occurrences(typed, c)
    BY <1>0, <2>1, AppendOccurs
  <2>3. Occurrences(buf', c) = Occurrences(buf, c) + (IF d = c THEN 1 ELSE 0)
                                 - (IF buf[tail % Size] = c THEN 1 ELSE 0)
    <3>1. /\ buf' \in [Cells -> Chars \cup {0}] /\ buf'[tail % Size] = d
          /\ \A k \in Cells \ {tail % Size} : buf'[k] = buf[k]
      BY <1>0, <2>1
    <3> DEFINE n == tail % Size
               b == buf'
    <3> HIDE DEF n, b
    <3>2. /\ n \in Cells /\ DOMAIN buf = Cells /\ DOMAIN b = Cells
          /\ \A k \in Cells \ {n} : b[k] = buf[k]
      BY <1>0, <3>1 DEF n, b
    <3>3. Occurrences(b, c) = Occurrences(buf, c) + (IF b[n] = c THEN 1 ELSE 0)
                                - (IF buf[n] = c THEN 1 ELSE 0)
      BY <3>2, WriteOccurs
    <3> QED
      BY <3>1, <3>3 DEF n, b
  <2> QED
    BY <1>0, <1>1, <1>2, <1>3, <2>1, <2>2, <2>3
<1>6. CASE Getkey /\ buf[head % Size] = 0
  BY <1>0, <1>6 DEF Getkey, keyboard_pop
<1>7. CASE Getkey /\ buf[head % Size] # 0
  <2> DEFINE d == buf[head % Size]
  <2>1. /\ buf' = [buf EXCEPT ![head % Size] = 0] /\ got' = Append(got, d)
        /\ typed' = typed /\ d \in Chars /\ c # 0
    BY <1>0, <1>7, CharsNotZero DEF Getkey, keyboard_pop
  <2>2. Occurrences(got', c) =
          IF d = c THEN Occurrences(got, c) + 1 ELSE Occurrences(got, c)
    BY <1>0, <2>1, AppendOccurs
  <2>3. Occurrences(buf', c) = Occurrences(buf, c) + (IF 0 = c THEN 1 ELSE 0)
                                 - (IF d = c THEN 1 ELSE 0)
    <3>1. /\ buf' \in [Cells -> Chars \cup {0}] /\ buf'[head % Size] = 0
          /\ \A k \in Cells \ {head % Size} : buf'[k] = buf[k]
      BY <1>0, <2>1
    <3> DEFINE n == head % Size
               b == buf'
    <3> HIDE DEF n, b
    <3>2. /\ n \in Cells /\ DOMAIN buf = Cells /\ DOMAIN b = Cells
          /\ \A k \in Cells \ {n} : b[k] = buf[k]
      BY <1>0, <3>1 DEF n, b
    <3>3. Occurrences(b, c) = Occurrences(buf, c) + (IF b[n] = c THEN 1 ELSE 0)
                                - (IF buf[n] = c THEN 1 ELSE 0)
      BY <3>2, WriteOccurs
    <3> QED
      BY <3>1, <3>3 DEF n, b
  <2> QED
    BY <1>0, <1>1, <1>2, <1>3, <2>1, <2>2, <2>3
<1> QED
  BY <1>4, <1>5, <1>6, <1>7, InterruptPushes DEF Next

-----------------------------------------------------------------------------
(* The theorems *)

\* In every interleaving of the interrupt handler and getkey, whatever the size
\* of the buffer and wherever the indices wrap, the inductive invariant holds.
THEOREM InductiveInvariant == Spec => []IInv
<1>1. Init => IInv
  BY InitEstablishes
<1>2. IInv /\ [Next]_vars => IInv'
  BY StepPreserves
<1> QED
  BY <1>1, <1>2, PTL DEF Spec

\* The buffer, its indices and the histories keep their types.
THEOREM TypeCorrect == Spec => []TypeOK
<1>1. IInv => TypeOK
  BY DEF IInv
<1> QED
  BY <1>1, InductiveInvariant, PTL

\* The handler of IRQ 1 and getkey are the two ends of a queue of Size
\* characters, until a key comes while Size wait.
THEOREM KeyboardImplementsQueue == Spec => ImplementsQueue
<1>1. Init => Abstract!Init
  <2>1. SUFFICES ASSUME Init PROVE Queue = <<>>
    BY DEF Init, Abstract!Init
  <2>2. IInv /\ ~overrun /\ Waiting = 0
    <3>0. head \in Int
      BY <2>1 DEF Init
    <3>1. IInv /\ head % Size \in Cells
      BY <2>1, <3>0, InitEstablishes, NamesCell
    <3> QED
      BY <2>1, <3>1, ZeroMeansEmpty DEF Init
  <2> QED
    BY <2>2, QueueIs DEF QueueMatches
<1>2. ASSUME IInv, IInv', [Next]_vars PROVE [Abstract!Next]_(Abstract!vars)
  <2>1. CASE UNCHANGED vars
    BY <2>1 DEF vars, Abstract!vars, Queue, Waiting
  <2>2. ASSUME NEW code \in ScanCodes, Interrupt(code)
        PROVE  UNCHANGED vars \/ Abstract!Next
    <3>1. \/ UNCHANGED vars
          \/ \E c \in Chars : keyboard_push(c) /\ UNCHANGED <<head, past, ret, got>>
      BY <1>2, <2>2, InterruptPushes DEF IInv
    <3> QED
      BY <1>2, <3>1, PushImplements
  <2>3. CASE Getkey
    BY <1>2, <2>3, GetkeyImplements
  <2> QED
    BY <1>2, <2>1, <2>2, <2>3 DEF Next
<1> QED
  BY <1>1, <1>2, InductiveInvariant, PTL DEF Spec, ImplementsQueue, Abstract!Spec

\* No key is delivered twice and none is made up, in an overrun buffer neither.
THEOREM KeysDeliveredOnce == Spec => []NoKeyTwice
<1>1. Init => NoKeyTwice
  BY NoKeyInit
<1>2. TypeOK /\ NoKeyTwice /\ [Next]_vars => NoKeyTwice'
  BY NoKeyStep
<1> QED
  BY <1>1, <1>2, TypeCorrect, PTL DEF Spec
=============================================================================
