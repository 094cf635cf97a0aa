--------------------------- MODULE UserWriteProofs ---------------------------
(***************************************************************************)
(* write for every length, buffer, page and screen: the copy sends the     *)
(* user's buffer, whole and in order, and the screen shows it.              *)
(***************************************************************************)
EXTENDS UserWrite, SequenceTheorems, FiniteSetTheorems, NaturalsInduction,
        WellFoundedInduction, TLAPS

-----------------------------------------------------------------------------
(***************************************************************************)
(* Arithmetic of pages and of the screen                                   *)
(***************************************************************************)
LEMMA Division ==
  ASSUME NEW a \in Nat, NEW m \in Nat \ {0}
  PROVE  /\ a \div m \in Nat /\ a % m \in 0..(m - 1)
         /\ a = m * (a \div m) + (a % m)
BY Z3

LEMMA Uniqueness ==
  ASSUME NEW m \in Nat \ {0}, NEW q \in Int, NEW p \in Int,
         NEW r \in 0..(m - 1), NEW s \in 0..(m - 1),
         m * q + r = m * p + s
  PROVE  q = p /\ r = s
<1>1. ASSUME q > p PROVE FALSE
  <2>1. m * q >= m * (p + 1)
    BY <1>1, Z3
  <2>2. m * (p + 1) = m * p + m
    BY Z3
  <2> QED
    BY <2>1, <2>2, Z3
<1>2. ASSUME q < p PROVE FALSE
  <2>1. m * p >= m * (q + 1)
    BY <1>2, Z3
  <2>2. m * (q + 1) = m * q + m
    BY Z3
  <2> QED
    BY <2>1, <2>2, Z3
<1>3. q = p
  BY <1>1, <1>2
<1> QED
  BY <1>3, Z3

LEMMA DivBounds ==
  ASSUME NEW a \in Nat, NEW m \in Nat \ {0}, NEW b \in Nat
  PROVE  /\ a \div m \in Nat
         /\ a >= b * m => a \div m >= b
         /\ a <= b * m => a \div m <= b
<1>1. a = m * (a \div m) + (a % m) /\ a % m \in 0..(m - 1) /\ a \div m \in Nat
  BY Division
<1> QED
  BY <1>1, Z3

LEMMA DivMonotone ==
  ASSUME NEW a \in Nat, NEW b \in Nat, a <= b, NEW m \in Nat \ {0}
  PROVE  a \div m <= b \div m
BY Z3

LEMMA ModSmall ==
  ASSUME NEW a \in Nat, NEW m \in Nat \ {0}, a < m
  PROVE  a % m = a
BY Z3

\* Counting on modulo m.
LEMMA ModNext ==
  ASSUME NEW a \in Nat, NEW m \in Nat \ {0}
  PROVE  /\ a % m \in 0..(m - 1)
         /\ (a + 1) % m = IF (a % m) + 1 = m THEN 0 ELSE (a % m) + 1
<1> DEFINE q == a \div m
           r == a % m
           p == (a + 1) \div m
           s == (a + 1) % m
<1>1. a = m * q + r /\ r \in 0..(m - 1) /\ q \in Nat
  BY Division
<1>2. a + 1 = m * p + s /\ s \in 0..(m - 1) /\ p \in Nat
  <2>1. a + 1 \in Nat
    OBVIOUS
  <2> QED
    BY <2>1, Division, Zenon
<1> HIDE DEF q, r, p, s
<1>3. ASSUME r + 1 = m PROVE s = 0
  <2>1. m * p + s = m * (q + 1) + 0
    BY <1>1, <1>2, <1>3, Z3
  <2> QED
    BY <1>1, <1>2, <1>3, <2>1, Uniqueness
<1>4. ASSUME r + 1 # m PROVE s = r + 1
  <2>1. r + 1 \in 0..(m - 1)
    BY <1>1, <1>4
  <2>2. m * p + s = m * q + (r + 1)
    BY <1>1, <1>2, Z3
  <2> QED
    BY <1>1, <1>2, <1>4, <2>1, <2>2, Uniqueness
<1>5. r \in 0..(m - 1) /\ s = IF r + 1 = m THEN 0 ELSE r + 1
  BY <1>1, <1>3, <1>4
<1> QED
  BY <1>5 DEF r, s

-----------------------------------------------------------------------------
(***************************************************************************)
(* copy_from_user                                                          *)
(***************************************************************************)
LEMMA OffsetsSeq ==
  ASSUME NEW a \in Int, NEW n \in Nat
  PROVE  /\ Offsets(a, n) \in Seq(Int) /\ Len(Offsets(a, n)) = n
         /\ \A i \in 1..n : Offsets(a, n)[i] = a + i - 1
BY DEF Offsets

LEMMA OffsetsJoin ==
  ASSUME NEW a \in Int, NEW m \in Nat, NEW n \in Nat
  PROVE  Offsets(a, m) \o Offsets(a + m, n) = Offsets(a, m + n)
<1> DEFINE s == Offsets(a, m)
           t == Offsets(a + m, n)
           u == Offsets(a, m + n)
<1>1. /\ s \in Seq(Int) /\ Len(s) = m /\ \A i \in 1..m : s[i] = a + i - 1
      /\ t \in Seq(Int) /\ Len(t) = n /\ \A i \in 1..n : t[i] = (a + m) + i - 1
      /\ u \in Seq(Int) /\ Len(u) = m + n /\ \A i \in 1..(m + n) : u[i] = a + i - 1
  BY OffsetsSeq
<1> HIDE DEF s, t, u
<1>2. /\ s \o t \in Seq(Int) /\ Len(s \o t) = m + n
      /\ \A i \in 1..(m + n) : (s \o t)[i] = IF i <= m THEN s[i] ELSE t[i - m]
  BY <1>1, ConcatProperties
<1>3. \A i \in 1..(m + n) : (s \o t)[i] = u[i]
  <2> SUFFICES ASSUME NEW i \in 1..(m + n) PROVE (s \o t)[i] = u[i]
    OBVIOUS
  <2>1. CASE i <= m
    BY <1>1, <1>2, <2>1
  <2>2. CASE ~ (i <= m)
    <3>1. i - m \in 1..n /\ (a + m) + (i - m) - 1 = a + i - 1
      BY <2>2
    <3> QED
      BY <1>1, <1>2, <2>2, <3>1
  <2> QED
    BY <2>1, <2>2
<1>4. s \o t = u
  BY <1>1, <1>2, <1>3, SeqEqual
<1> QED
  BY <1>4 DEF s, t, u

\* Whether or not words are copied, and however many: the piece, and no more.
LEMMA CopyIsWhole ==
  ASSUME NEW a \in Int, NEW n \in Nat
  PROVE  copy_from_user(a, n) = Offsets(a, n)
<1> DEFINE words == IF n > 4 THEN (n - 1) \div 4 ELSE 0
<1>1. 4 * words \in Nat /\ n - 4 * words \in Nat
  OBVIOUS
<1>2. copy_from_user(a, n) = Offsets(a, 4 * words) \o Offsets(a + 4 * words, n - 4 * words)
  BY DEF copy_from_user
<1> HIDE DEF words
<1>3. 4 * words + (n - 4 * words) = n
  BY <1>1
<1>4. Offsets(a, 4 * words) \o Offsets(a + 4 * words, n - 4 * words)
        = Offsets(a, 4 * words + (n - 4 * words))
  BY <1>1, OffsetsJoin, Zenon
<1> QED
  BY <1>2, <1>3, <1>4, Zenon

-----------------------------------------------------------------------------
(***************************************************************************)
(* The copy                                                                *)
(***************************************************************************)
LEMMA Sizes ==
  /\ TAM_BUFFER \in Nat \ {0} /\ NUM_COLUMNS \in Nat \ {0} /\ NUM_ROWS \in Nat \ {0}
  /\ PAGE_SIZE \in Nat \ {0} /\ Addresses \in Nat \ {0}
  /\ USER_FIRST_PAGE \in Nat /\ NUM_PAG_CODE \in Nat /\ NUM_PAG_DATA \in Nat
  /\ LastPage \in Nat /\ USER_FIRST_PAGE * PAGE_SIZE \in Nat
  /\ LastPage * PAGE_SIZE \in Nat /\ LastPage * PAGE_SIZE < Addresses
  /\ USER_FIRST_PAGE * PAGE_SIZE < Addresses
<1>1. /\ TAM_BUFFER \in Nat \ {0} /\ NUM_COLUMNS \in Nat \ {0} /\ NUM_ROWS \in Nat \ {0}
      /\ PAGE_SIZE \in Nat \ {0} /\ Addresses \in Nat \ {0}
      /\ USER_FIRST_PAGE \in Nat /\ NUM_PAG_CODE \in Nat /\ NUM_PAG_DATA \in Nat
  BY WriteAssumption
<1>2. LastPage \in Nat /\ USER_FIRST_PAGE <= LastPage
  BY <1>1 DEF LastPage
<1>3. \A a, b \in Nat : a * b \in Nat
  BY Z3
<1>4. \A a, b, m \in Nat : a <= b => a * m <= b * m
  BY Z3
<1> QED
  BY <1>1, <1>2, <1>3, <1>4, SpaceAssumption

\* A buffer in the program's pages, up to their last byte, passes the check.
LEMMA OwnIsOk ==
  ASSUME NEW addr \in Nat, NEW n \in Nat,
         addr >= USER_FIRST_PAGE * PAGE_SIZE, addr + n <= LastPage * PAGE_SIZE
  PROVE  access_ok(addr, n)
<1> USE Sizes
<1>1. addr + n \in Nat /\ addr + n < Addresses /\ addr <= addr + n
  OBVIOUS
<1>2. (addr + n) % Addresses = addr + n
  BY <1>1, ModSmall
<1>3. addr \div PAGE_SIZE <= (addr + n) \div PAGE_SIZE
  BY <1>1, DivMonotone
<1>4. addr \div PAGE_SIZE >= USER_FIRST_PAGE
  BY DivBounds
<1>5. (addr + n) \div PAGE_SIZE <= LastPage
  BY <1>1, DivBounds
<1> QED
  BY <1>2, <1>3, <1>4, <1>5 DEF access_ok

Typed ==
  /\ pc \in {"user", "chunks", "fault"}
  /\ nbytes \in Nat /\ bytes_left \in 0..nbytes /\ buffer \in Nat /\ ret \in Int
  /\ call.n \in Int /\ call.addr \in Nat

\* While a call is under way it is the one that has been made.
Copying ==
  pc = "chunks" => call.n = nbytes /\ buffer = nbytes - bytes_left

CopyInv == Typed /\ Copying /\ SentInOrder /\ OwnBufferWritten

LEMMA InitCopy == Init => CopyInv
<1> SUFFICES ASSUME Init PROVE CopyInv
  OBVIOUS
<1>1. Typed /\ Copying
  BY Sizes DEF Init, Typed, Copying
<1>2. SentInOrder
  BY DEF Init, SentInOrder, Offsets
<1>3. OwnBufferWritten
  BY DEF Init, OwnBufferWritten
<1> QED
  BY <1>1, <1>2, <1>3 DEF CopyInv

\* Another piece is sent.
LEMMA PieceSent ==
  ASSUME CopyInv, pc = "chunks", NEW n \in 0..bytes_left, Piece(n)
  PROVE  /\ bytes_left' \in 0..nbytes /\ bytes_left' = bytes_left - n
         /\ out' = Offsets(0, nbytes - bytes_left')
<1>1. /\ nbytes \in Nat /\ bytes_left \in 0..nbytes /\ buffer = nbytes - bytes_left
      /\ out = Offsets(0, buffer) /\ n \in Nat /\ buffer \in Nat
  BY DEF CopyInv, Typed, Copying, SentInOrder
<1>2. out' = Offsets(0, buffer) \o Offsets(buffer, n) /\ bytes_left' = bytes_left - n
  <2>1. buffer \in Int
    BY <1>1
  <2>2. copy_from_user(buffer, n) = Offsets(buffer, n)
    BY <1>1, <2>1, CopyIsWhole
  <2> QED
    BY <1>1, <2>2 DEF Piece
<1>3. out' = Offsets(0, buffer + n)
  <2>1. 0 \in Int /\ 0 + buffer = buffer
    BY <1>1
  <2>2. Offsets(0, buffer) \o Offsets(0 + buffer, n) = Offsets(0, buffer + n)
    BY <1>1, <2>1, OffsetsJoin
  <2> QED
    BY <1>2, <2>1, <2>2
<1>4. buffer + n = nbytes - bytes_left' /\ bytes_left' \in 0..nbytes
  BY <1>1, <1>2
<1> QED
  BY <1>2, <1>3, <1>4

LEMMA NextCopy == CopyInv /\ [Next]_vars => CopyInv'
<1> SUFFICES ASSUME CopyInv, [Next]_vars PROVE CopyInv'
  OBVIOUS
<1> USE Sizes
<1>1. ASSUME NEW fd \in Fds, NEW n \in Lengths, NEW addr \in Buffers, sys_write(fd, n, addr)
      PROVE  CopyInv'
  <2>1. n \in Int /\ addr \in Nat /\ fd \in Int
    BY WriteAssumption
  <2>2. call' = [fd |-> fd, n |-> n, addr |-> addr] /\ pc = "user"
    BY <1>1 DEF sys_write
  <2>3. CASE Refuse(fd, n, addr) # 0
    <3>1. /\ nok(Refuse(fd, n, addr)) /\ UNCHANGED <<pc, nbytes, buffer, bytes_left, out>>
      BY <1>1, <2>3 DEF sys_write
    <3>2. Refuse(fd, n, addr) < 0
      BY <2>3 DEF Refuse, EBADF, EINVAL, EFAULT
    <3>3. ret' = -1
      BY <3>1, <3>2 DEF nok
    <3>4. Typed' /\ Copying' /\ SentInOrder'
      BY <2>1, <2>2, <3>1, <3>3 DEF CopyInv, Typed, Copying, SentInOrder
    <3>5. ~ (fd = 1 /\ n >= 0 /\ addr >= USER_FIRST_PAGE * PAGE_SIZE
               /\ addr + n <= LastPage * PAGE_SIZE)
      BY <2>1, <2>3, OwnIsOk DEF Refuse
    <3>6. OwnBufferWritten'
      BY <2>2, <3>5 DEF OwnBufferWritten
    <3> QED
      BY <3>4, <3>6 DEF CopyInv
  <2>4. CASE Refuse(fd, n, addr) = 0
    <3>1. /\ pc' = "chunks" /\ nbytes' = n /\ bytes_left' = n /\ buffer' = 0 /\ out' = <<>>
          /\ ret' = ret
      BY <1>1, <2>4 DEF sys_write
    <3>2. n \in Nat
      BY <2>1, <2>4 DEF Refuse, EBADF, EINVAL, EFAULT
    <3>3. Typed' /\ Copying' /\ OwnBufferWritten'
      BY <2>1, <2>2, <3>1, <3>2 DEF CopyInv, Typed, Copying, OwnBufferWritten
    <3>4. SentInOrder'
      BY <3>1, <3>2 DEF SentInOrder, Offsets
    <3> QED
      BY <3>3, <3>4 DEF CopyInv
  <2> QED
    BY <2>3, <2>4
<1>2. CASE Chunk
  <2>1. /\ pc = "chunks" /\ TAM_BUFFER \in 0..bytes_left /\ Piece(TAM_BUFFER)
        /\ buffer' = buffer + TAM_BUFFER /\ UNCHANGED <<pc, call, nbytes, ret>>
    BY <1>2 DEF Chunk, more_chunks, CopyInv, Typed
  <2>2. /\ bytes_left' \in 0..nbytes /\ bytes_left' = bytes_left - TAM_BUFFER
        /\ out' = Offsets(0, nbytes - bytes_left')
    BY <2>1, PieceSent
  <2> QED
    BY <2>1, <2>2 DEF CopyInv, Typed, Copying, SentInOrder, OwnBufferWritten
<1>3. CASE LastChunk
  <2>1. /\ pc = "chunks" /\ pc' = "user" /\ UNCHANGED <<call, nbytes, buffer>>
        /\ nok(nbytes - bytes_left')
    BY <1>3 DEF LastChunk
  <2>2. bytes_left' = 0 /\ out' = Offsets(0, nbytes - bytes_left')
    <3>1. CASE bytes_left > 0 /\ Piece(bytes_left)
      BY <2>1, <3>1, PieceSent DEF CopyInv, Typed
    <3>2. CASE bytes_left = 0 /\ UNCHANGED <<console, out, bytes_left>>
      BY <3>2 DEF CopyInv, SentInOrder
    <3> QED
      BY <1>3, <3>1, <3>2 DEF LastChunk
  <2>3. ret' = nbytes
    BY <2>1, <2>2 DEF nok, CopyInv, Typed
  <2> QED
    BY <2>1, <2>2, <2>3 DEF CopyInv, Typed, Copying, SentInOrder, OwnBufferWritten
<1>4. CASE Fault
  <2>1. /\ pc = "chunks" /\ ~ Present
        /\ UNCHANGED <<call, nbytes, buffer, bytes_left, ret, out>> /\ pc' = "fault"
    BY <1>4 DEF Fault
  <2>2. call.addr + buffer + next_piece <= call.addr + call.n
    BY <2>1 DEF CopyInv, Typed, Copying, next_piece, more_chunks
  <2>3. ~ (call.addr + call.n <= LastPage * PAGE_SIZE)
    BY <2>1, <2>2 DEF Present, CopyInv, Typed, Copying, next_piece, more_chunks
  <2> QED
    BY <2>1, <2>3 DEF CopyInv, Typed, Copying, SentInOrder, OwnBufferWritten
<1>5. CASE Keyboard \/ Clock \/ UNCHANGED vars
  BY <1>5 DEF Keyboard, Clock, vars, CopyInv, Typed, Copying, SentInOrder, OwnBufferWritten
<1> QED
  BY <1>1, <1>2, <1>3, <1>4, <1>5 DEF Next

LEMMA CopyHolds == Spec => []CopyInv
BY InitCopy, NextCopy, PTL DEF Spec

\* What has been sent to the screen is the user's buffer up to where the copy is,
\* and all of it at the end, however its length falls on localbuffer and on
\* words: sys_write and copy_from_user.
THEOREM BufferSentInOrder == Spec => []SentInOrder
BY CopyHolds, PTL DEF CopyInv

\* access_ok refuses no buffer in the program's own pages, up to their last byte,
\* and the copy of one does not fault.
THEOREM OwnBuffersAreWritten == Spec => []OwnBufferWritten
BY CopyHolds, PTL DEF CopyInv

-----------------------------------------------------------------------------
(***************************************************************************)
(* The screen: where a byte of the text belongs                            *)
(***************************************************************************)
\* Induction: what holds of 0 and of the successors up to N holds up to N.
LEMMA InductionUpTo ==
  ASSUME NEW N \in Nat, NEW S,
         0 \in S, \A n \in 0..(N - 1) : n \in S => n + 1 \in S
  PROVE  N \in S
<1> DEFINE B == {n \in 0..N : n \notin S}
           R == {p \in Nat \X Nat : p[1] < p[2]}
<1> SUFFICES ASSUME N \notin S PROVE FALSE
  OBVIOUS
<1>1. IsWellFoundedOn(R, Nat)
  BY NatLessThanWellFounded, Zenon DEF OpToRel
<1>2. \A a, b \in Nat : a < b => <<a, b>> \in R
  OBVIOUS
<1>3. B \subseteq Nat /\ N \in B
  OBVIOUS
<1> HIDE DEF R
<1>4. PICK n \in B : \A m \in B : ~ (<<m, n>> \in R)
  <2> HIDE DEF B
  <2> QED
    BY <1>1, <1>3, WFMin
<1>5. n \in 0..N /\ n # 0 /\ n \notin S
  OBVIOUS
<1>6. n - 1 \in 0..(N - 1) /\ n - 1 < n /\ (n - 1) + 1 = n
  BY <1>5
<1>7. n - 1 \notin B
  <2>1. <<n - 1, n>> \in R
    BY <1>2, <1>5, <1>6
  <2> QED
    BY <1>4, <2>1, Zenon
<1> QED
  BY <1>5, <1>6, <1>7

LEMMA ModPlus ==
  ASSUME NEW a \in Nat, NEW m \in Nat \ {0}
  PROVE  ((a % m) + 1) % m = (a + 1) % m
<1>1. /\ a % m \in 0..(m - 1)
      /\ (a + 1) % m = IF (a % m) + 1 = m THEN 0 ELSE (a % m) + 1
  BY ModNext
<1> DEFINE r == a % m
<1> HIDE DEF r
<1>2. r \in 0..(m - 1) /\ r \in Nat /\ r < m
  BY <1>1 DEF r
<1>3. r % m = r /\ (r + 1) % m = IF (r % m) + 1 = m THEN 0 ELSE (r % m) + 1
  BY <1>2, ModSmall, ModNext, Zenon
<1> QED
  BY <1>1, <1>3 DEF r

TextTyped ==
  /\ text \in [newlines : SUBSET Nat, x : 0..(NUM_COLUMNS - 1), y : 0..(NUM_ROWS - 1)]
  /\ text.newlines \subseteq Nat
  /\ text.x \in 0..(NUM_COLUMNS - 1) /\ text.y \in 0..(NUM_ROWS - 1)

\* The newlines before byte k have a last one.
HasLast(k) == Before(k) = {} \/ \E o \in Before(k) : \A p \in Before(k) : o >= p

LEMMA BeforeNext ==
  ASSUME TextTyped, NEW k \in Nat
  PROVE  Before(k + 1) = IF k \in text.newlines THEN Before(k) \cup {k} ELSE Before(k)
BY DEF Before, TextTyped

LEMMA LastExists ==
  ASSUME TextTyped, NEW k \in Nat
  PROVE  HasLast(k)
<1> DEFINE S == {i \in 0..k : HasLast(i)}
<1>1. 0 \in S
  BY DEF HasLast, Before, TextTyped
<1>2. ASSUME NEW i \in 0..(k - 1), i \in S PROVE i + 1 \in S
  <2>1. i \in Nat /\ i + 1 \in 0..k
    OBVIOUS
  <2>2. Before(i + 1) = IF i \in text.newlines THEN Before(i) \cup {i} ELSE Before(i)
    BY <2>1, BeforeNext
  <2>3. CASE i \in text.newlines
    <3>1. \A p \in Before(i) : i >= p
      BY <2>1 DEF Before, TextTyped
    <3>2. i >= i
      BY <2>1
    <3> QED
      BY <2>1, <2>2, <2>3, <3>1, <3>2 DEF HasLast
  <2>4. CASE i \notin text.newlines
    BY <1>2, <2>1, <2>2, <2>4 DEF HasLast
  <2> QED
    BY <2>3, <2>4
<1>3. k \in S
  <2> HIDE DEF S
  <2> QED
    BY <1>1, <1>2, InductionUpTo
<1> QED
  BY <1>3

LEMMA ColumnNext ==
  ASSUME TextTyped, NEW k \in Nat
  PROVE  /\ Column(0) = text.x /\ Column(k) \in Nat
         /\ Column(k + 1) = IF k \in text.newlines THEN 0 ELSE Column(k) + 1
<1>1. HasLast(k) /\ k + 1 \in Nat
  BY LastExists
<1>2. Before(k + 1) = IF k \in text.newlines THEN Before(k) \cup {k} ELSE Before(k)
  BY BeforeNext
<1>3. \A o \in Before(k) : o \in Nat /\ o < k
  BY DEF Before, TextTyped
<1>4. text.x \in Nat
  BY Sizes DEF TextTyped
<1>5. Column(0) = text.x
  <2>1. Before(0) = {}
    BY DEF Before, TextTyped
  <2> QED
    BY <1>4, <2>1 DEF Column
<1> DEFINE last == Max(Before(k))
<1>6. Before(k) # {} => last \in Before(k) /\ Column(k) = k - 1 - last
  BY <1>1 DEF HasLast, Column, Max
<1>7. Column(k) \in Nat
  <2>1. CASE Before(k) = {}
    BY <1>4, <2>1 DEF Column
  <2>2. CASE Before(k) # {}
    <3> HIDE DEF last
    <3> QED
      BY <1>3, <1>6, <2>2
  <2> QED
    BY <2>1, <2>2
<1>8. CASE k \in text.newlines
  <2>1. Before(k + 1) # {} /\ k \in Before(k + 1) /\ \A o \in Before(k + 1) : o <= k
    BY <1>2, <1>3, <1>8
  <2> DEFINE max == Max(Before(k + 1))
  <2>2. max \in Before(k + 1) /\ \A p \in Before(k + 1) : max >= p
    <3>1. \A o \in Before(k + 1) : k >= o
      BY <1>2, <1>3, <1>8
    <3> QED
      BY <2>1, <3>1 DEF Max
  <2>3. Column(k + 1) = (k + 1) - 1 - max
    BY <2>1 DEF Column
  <2> HIDE DEF max
  <2>4. max \in Nat /\ max <= k /\ k <= max
    BY <1>2, <1>3, <1>8, <2>1, <2>2
  <2> QED
    BY <1>5, <1>7, <1>8, <2>3, <2>4
<1>9. CASE k \notin text.newlines
  <2>1. Before(k + 1) = Before(k)
    BY <1>2, <1>9
  <2>2. CASE Before(k) = {}
    BY <1>4, <1>5, <1>7, <1>9, <2>1, <2>2 DEF Column
  <2>3. CASE Before(k) # {}
    <3>1. Column(k + 1) = (k + 1) - 1 - last
      BY <2>1, <2>3 DEF Column
    <3> HIDE DEF last
    <3> QED
      BY <1>3, <1>5, <1>6, <1>7, <1>9, <2>3, <3>1
  <2> QED
    BY <2>2, <2>3
<1> QED
  BY <1>8, <1>9

LEMMA LinesNext ==
  ASSUME TextTyped, NEW k \in Nat
  PROVE  /\ Cardinality(LinesEnded(0)) = 0 /\ Cardinality(LinesEnded(k)) \in Nat
         /\ Cardinality(LinesEnded(k + 1)) =
              IF k \in text.newlines \/ (Column(k) + 1) % NUM_COLUMNS = 0
              THEN Cardinality(LinesEnded(k)) + 1 ELSE Cardinality(LinesEnded(k))
<1>1. IsFiniteSet(LinesEnded(k))
  <2>1. IsFiniteSet(0..(k - 1))
    BY FS_Interval
  <2>2. LinesEnded(k) \in SUBSET (0..(k - 1))
    BY DEF LinesEnded
  <2> QED
    BY <2>1, <2>2, FS_Subset
<1>2. LinesEnded(0) = {}
  BY DEF LinesEnded
<1>3. k \notin LinesEnded(k)
  BY DEF LinesEnded
<1>4. 0..((k + 1) - 1) = (0..(k - 1)) \cup {k}
  OBVIOUS
<1> DEFINE ends(o) == o \in text.newlines \/ (Column(o) + 1) % NUM_COLUMNS = 0
<1>5. LinesEnded(k) = {o \in 0..(k - 1) : ends(o)}
      /\ LinesEnded(k + 1) = {o \in 0..((k + 1) - 1) : ends(o)}
  BY DEF LinesEnded
<1>6. LinesEnded(k + 1) = IF ends(k) THEN LinesEnded(k) \cup {k} ELSE LinesEnded(k)
  <2> HIDE DEF ends
  <2> QED
    BY <1>4, <1>5
<1>7. Cardinality(LinesEnded(k) \cup {k}) = Cardinality(LinesEnded(k)) + 1
  BY <1>1, <1>3, FS_AddElement
<1>8. Cardinality(LinesEnded(k)) \in Nat /\ Cardinality(LinesEnded(0)) = 0
  BY <1>1, <1>2, FS_CardinalityType, FS_EmptySet
<1> QED
  BY <1>6, <1>7, <1>8, Zenon

\* The next place is the one behind, or the begin of the next line.
LEMMA PlaceNext ==
  ASSUME TextTyped, NEW k \in Nat, NEW c, NEW r, Place(k) = <<c, r>>
  PROVE  /\ c \in 0..(NUM_COLUMNS - 1) /\ r \in 0..(NUM_ROWS - 1)
         /\ Place(k + 1) = IF k \in text.newlines \/ c + 1 = NUM_COLUMNS
                           THEN <<0, (r + 1) % NUM_ROWS>> ELSE <<c + 1, r>>
<1> DEFINE col == Column(k)
           row == text.y + Cardinality(LinesEnded(k))
           end == k \in text.newlines \/ (col + 1) % NUM_COLUMNS = 0
<1>1. /\ col \in Nat /\ Column(k + 1) = IF k \in text.newlines THEN 0 ELSE col + 1
  BY ColumnNext
<1>2. /\ row \in Nat
      /\ text.y + Cardinality(LinesEnded(k + 1)) = IF end THEN row + 1 ELSE row
  <2> DEFINE n == Cardinality(LinesEnded(k))
             n1 == Cardinality(LinesEnded(k + 1))
  <2>1. n \in Nat /\ n1 = IF end THEN n + 1 ELSE n
    BY LinesNext
  <2>2. text.y \in Nat
    BY Sizes DEF TextTyped
  <2> HIDE DEF n, n1, end
  <2>3. text.y + n \in Nat /\ text.y + n1 = IF end THEN (text.y + n) + 1 ELSE text.y + n
    BY <2>1, <2>2
  <2> QED
    BY <2>3 DEF n, n1
<1>3. NUM_COLUMNS \in Nat \ {0} /\ NUM_ROWS \in Nat \ {0}
  BY Sizes
<1>4. c = col % NUM_COLUMNS /\ r = row % NUM_ROWS
  BY DEF Place
<1>5. Place(k + 1) = <<Column(k + 1) % NUM_COLUMNS,
                       (text.y + Cardinality(LinesEnded(k + 1))) % NUM_ROWS>>
  BY DEF Place
<1> HIDE DEF col, row
<1>6. /\ c \in 0..(NUM_COLUMNS - 1) /\ r \in 0..(NUM_ROWS - 1)
      /\ (col + 1) % NUM_COLUMNS = IF c + 1 = NUM_COLUMNS THEN 0 ELSE c + 1
      /\ (r + 1) % NUM_ROWS = (row + 1) % NUM_ROWS
  BY <1>1, <1>2, <1>3, <1>4, ModNext, ModPlus, Zenon
<1>7. 0 % NUM_COLUMNS = 0
  BY <1>3, ModSmall
<1>8. end <=> k \in text.newlines \/ c + 1 = NUM_COLUMNS
  BY <1>3, <1>6
<1> HIDE DEF end
<1>9. CASE end
  <2>1. Column(k + 1) % NUM_COLUMNS = 0
    BY <1>1, <1>6, <1>7, <1>8, <1>9, Zenon
  <2> QED
    BY <1>2, <1>5, <1>6, <1>8, <1>9, <2>1, Zenon
<1>10. CASE ~ end
  <2>1. Column(k + 1) % NUM_COLUMNS = c + 1
    BY <1>1, <1>6, <1>8, <1>10, Zenon
  <2> QED
    BY <1>2, <1>4, <1>5, <1>6, <1>8, <1>10, <2>1, Zenon
<1> QED
  BY <1>9, <1>10

-----------------------------------------------------------------------------
(***************************************************************************)
(* The screen: what it shows                                               *)
(***************************************************************************)
Screens == [Cells -> Nat \cup {Other, Key, Digit}]
Consoles == [x : 0..(NUM_COLUMNS - 1), y : 0..(NUM_ROWS - 1), screen : Screens]

LEMMA PlaceIsCell ==
  ASSUME TextTyped, NEW k \in Nat
  PROVE  Place(k) \in Cells
<1>1. PICK c, r : Place(k) = <<c, r>>
  BY DEF Place
<1>2. c \in 0..(NUM_COLUMNS - 1) /\ r \in 0..(NUM_ROWS - 1)
  BY <1>1, PlaceNext, Zenon
<1> QED
  BY <1>1, <1>2 DEF Cells

\* One character more.
LEMMA PrintText ==
  ASSUME TextTyped, NEW s \in Consoles, NEW n \in Nat, TextUpTo(s, n)
  PROVE  printc(s, Byte(n)) \in Consoles /\ TextUpTo(printc(s, Byte(n)), n + 1)
<1> DEFINE t == printc(s, Byte(n))
<1>1. /\ s.x \in 0..(NUM_COLUMNS - 1) /\ s.y \in 0..(NUM_ROWS - 1) /\ s.screen \in Screens
      /\ NUM_COLUMNS \in Nat \ {0} /\ NUM_ROWS \in Nat \ {0}
  BY Sizes DEF Consoles
<1>2. Place(n) = <<s.x, s.y>> /\ <<s.x, s.y>> \in Cells
  BY <1>1 DEF TextUpTo, Cells
<1>3. Place(n + 1) = IF n \in text.newlines \/ s.x + 1 = NUM_COLUMNS
                     THEN <<0, (s.y + 1) % NUM_ROWS>> ELSE <<s.x + 1, s.y>>
  BY <1>2, PlaceNext
<1>4. (s.y + 1) % NUM_ROWS \in 0..(NUM_ROWS - 1) /\ 0 \in 0..(NUM_COLUMNS - 1)
  <2>1. s.y + 1 \in Nat /\ 0 \in 0..(NUM_COLUMNS - 1)
    BY <1>1
  <2>2. (s.y + 1) % NUM_ROWS \in 0..(NUM_ROWS - 1)
    BY <1>1, <2>1, ModNext, Zenon
  <2> QED
    BY <2>1, <2>2
<1>5. s.x + 1 >= NUM_COLUMNS <=> s.x + 1 = NUM_COLUMNS
  BY <1>1
<1>6. 0..((n + 1) - 1) = (0..(n - 1)) \cup {n}
  OBVIOUS
<1>7. CASE n \in text.newlines
  <2>1. t = [x |-> 0, y |-> (s.y + 1) % NUM_ROWS, screen |-> s.screen]
    BY <1>7 DEF Byte, printc
  <2> HIDE DEF t
  <2>2. t \in Consoles /\ t.screen = s.screen /\ <<t.x, t.y>> = Place(n + 1)
    BY <1>1, <1>3, <1>4, <1>7, <2>1 DEF Consoles
  <2>3. ASSUME NEW o \in (0..((n + 1) - 1)) \ text.newlines
        PROVE  \/ Shows(t.screen, o)
               \/ \E p \in ((o + 1)..((n + 1) - 1)) \ text.newlines : Place(p) = Place(o)
    <3>1. o \in (0..(n - 1)) \ text.newlines
      BY <1>6, <1>7
    <3>2. ((o + 1)..(n - 1)) \subseteq ((o + 1)..((n + 1) - 1))
      OBVIOUS
    <3> QED
      BY <2>2, <3>1, <3>2 DEF TextUpTo
  <2>4. TextUpTo(t, n + 1)
    BY <2>2, <2>3 DEF TextUpTo
  <2> QED
    BY <2>2, <2>4 DEF t
<1>8. CASE n \notin text.newlines
  <2>1. n # Newline /\ Byte(n) = n
    BY <1>8 DEF Byte, Newline
  <2>2. t = [x |-> IF s.x + 1 >= NUM_COLUMNS THEN 0 ELSE s.x + 1,
             y |-> IF s.x + 1 >= NUM_COLUMNS THEN (s.y + 1) % NUM_ROWS ELSE s.y,
             screen |-> [s.screen EXCEPT ![<<s.x, s.y>>] = n]]
    BY <2>1, Zenon DEF printc
  <2> HIDE DEF t
  <2>3. /\ t.x = (IF s.x + 1 >= NUM_COLUMNS THEN 0 ELSE s.x + 1)
        /\ t.y = (IF s.x + 1 >= NUM_COLUMNS THEN (s.y + 1) % NUM_ROWS ELSE s.y)
        /\ t.screen = [s.screen EXCEPT ![Place(n)] = n]
    BY <1>2, <2>2
  <2>4. t.screen \in Screens
    BY <1>1, <2>3 DEF Screens
  <2>5. t.x \in 0..(NUM_COLUMNS - 1) /\ t.y \in 0..(NUM_ROWS - 1)
    BY <1>1, <1>4, <1>5, <2>3
  <2>6. t \in Consoles
    BY <2>2, <2>3, <2>4, <2>5 DEF Consoles
  <2>7. <<t.x, t.y>> = Place(n + 1)
    BY <1>3, <1>5, <1>8, <2>3, Zenon
  <2>8. ASSUME NEW o \in (0..((n + 1) - 1)) \ text.newlines
        PROVE  \/ Shows(t.screen, o)
               \/ \E p \in ((o + 1)..((n + 1) - 1)) \ text.newlines : Place(p) = Place(o)
    <3>1. o = n \/ o \in (0..(n - 1)) \ text.newlines
      BY <1>6
    <3>2. CASE o = n
      <4>1. t.screen[Place(n)] = n
        BY <1>1, <1>2, <2>3 DEF Screens
      <4> QED
        BY <3>2, <4>1 DEF Shows
    <3>3. CASE o \in (0..(n - 1)) \ text.newlines /\ Place(o) = Place(n)
      <4>1. n \in ((o + 1)..((n + 1) - 1)) \ text.newlines
        BY <1>8, <3>3
      <4> QED
        BY <3>3, <4>1
    <3>4. CASE o \in (0..(n - 1)) \ text.newlines /\ Place(o) # Place(n)
      <4>1. Place(o) \in Cells
        BY <3>4, PlaceIsCell
      <4>2. t.screen[Place(o)] = s.screen[Place(o)]
        BY <1>1, <2>3, <3>4, <4>1 DEF Screens
      <4>3. Shows(s.screen, o) => Shows(t.screen, o)
        BY <4>2, Zenon DEF Shows
      <4>4. ((o + 1)..(n - 1)) \subseteq ((o + 1)..((n + 1) - 1))
        OBVIOUS
      <4> QED
        BY <3>4, <4>3, <4>4 DEF TextUpTo
    <3> QED
      BY <3>1, <3>2, <3>3, <3>4
  <2>9. TextUpTo(t, n + 1)
    BY <2>7, <2>8 DEF TextUpTo
  <2> QED
    BY <2>6, <2>9 DEF t
<1> QED
  BY <1>7, <1>8

\* The characters of a piece go to the screen one by one.
Prints(f, n, start, local) ==
  f = [k \in 0..n |-> IF k = 0 THEN start ELSE printc(f[k - 1], Byte(local[k]))]

LEMMA PrintsExist ==
  ASSUME NEW n \in Nat, NEW start, NEW local
  PROVE  \E f : Prints(f, n, start, local)
<1> DEFINE from(f, k) == IF k = 0 THEN start ELSE printc(f[k - 1], Byte(local[k]))
           S == {N \in 0..n : \E f : f = [k \in 0..N |-> from(f, k)]}
<1>1. 0 \in S
  <2> DEFINE f == [k \in 0..0 |-> start]
  <2>1. \A k \in 0..0 : start = from(f, k)
    OBVIOUS
  <2>2. f = [k \in 0..0 |-> from(f, k)]
    BY <2>1, Zenon
  <2> HIDE DEF f
  <2>3. \E g : g = [k \in 0..0 |-> from(g, k)]
    BY <2>2, Zenon
  <2> HIDE DEF from
  <2> QED
    BY <2>3
<1>2. ASSUME NEW N \in 0..(n - 1), N \in S PROVE N + 1 \in S
  <2>1. PICK f : f = [k \in 0..N |-> from(f, k)]
    BY <1>2
  <2> DEFINE g == [k \in 0..(N + 1) |-> IF k = N + 1 THEN from(f, k) ELSE f[k]]
  <2>2. ASSUME NEW k \in 0..(N + 1) PROVE g[k] = from(g, k)
    <3>1. k # 0 => k - 1 \in 0..N /\ k - 1 # N + 1 /\ k - 1 \in 0..(N + 1)
      OBVIOUS
    <3>2. from(g, k) = from(f, k)
      BY <3>1
    <3>3. k # N + 1 => f[k] = from(f, k)
      <4> SUFFICES ASSUME k \in 0..N PROVE f[k] = from(f, k)
        OBVIOUS
      <4> HIDE DEF from
      <4> QED
        BY <2>1
    <3> QED
      BY <3>2, <3>3
  <2>3. g = [k \in 0..(N + 1) |-> from(g, k)]
    <3> DEFINE r == [k \in 0..(N + 1) |-> from(g, k)]
    <3>1. \A k \in 0..(N + 1) : g[k] = r[k]
      BY <2>2
    <3> QED
      BY <3>1
  <2>4. N + 1 \in 0..n
    OBVIOUS
  <2> QED
    BY <2>3, <2>4
<1>3. n \in S
  <2> HIDE DEF S
  <2> QED
    BY <1>1, <1>2, InductionUpTo
<1>4. \E f : f = [k \in 0..n |-> from(f, k)]
  BY <1>3
<1> QED
  BY <1>4, Zenon DEF Prints

ScreenInv == console \in Consoles /\ TextTyped /\ TextOnScreen

\* A piece of any length, through newlines, the end of lines and of the screen.
LEMMA WriteShows ==
  ASSUME ScreenInv, NEW b \in Nat, TextUpTo(console, b), NEW n \in Nat,
         sys_write_console(Offsets(b, n), n)
  PROVE  console' \in Consoles /\ TextUpTo(console', b + n)
<1> DEFINE local == Offsets(b, n)
<1>1. PICK after :
        /\ after = CHOOSE f : f = [k \in 0..n |-> IF k = 0 THEN console
                                   ELSE printc(f[k - 1], Byte(local[k]))]
        /\ console' = after[n]
  BY Zenon DEF sys_write_console
<1>2. \A k \in 1..n : local[k] = b + k - 1
  BY OffsetsSeq
<1> HIDE DEF local
<1>3. after[0] = console /\ \A k \in 1..n : after[k] = printc(after[k - 1], Byte(local[k]))
  <2> DEFINE from(f, k) == IF k = 0 THEN console ELSE printc(f[k - 1], Byte(local[k]))
  <2>1. after = [k \in 0..n |-> from(after, k)]
    <3>1. after = CHOOSE f : Prints(f, n, console, local)
      BY <1>1, Zenon DEF Prints
    <3>2. \E f : Prints(f, n, console, local)
      BY PrintsExist, Zenon
    <3>3. Prints(after, n, console, local)
      BY <3>1, <3>2, Zenon
    <3> QED
      BY <3>3, Zenon DEF Prints
  <2>2. \A k \in 0..n : after[k] = from(after, k)
    <3> HIDE DEF from
    <3> QED
      BY <2>1
  <2>3. 0 \in 0..n /\ \A k \in 1..n : k \in 0..n /\ k # 0
    OBVIOUS
  <2> QED
    BY <2>2, <2>3
<1> DEFINE S == {k \in 0..n : after[k] \in Consoles /\ TextUpTo(after[k], b + k)}
<1>4. 0 \in S
  <2>1. b + 0 = b /\ console \in Consoles
    BY DEF ScreenInv
  <2> QED
    BY <1>3, <2>1
<1>5. ASSUME NEW k \in 0..(n - 1), k \in S PROVE k + 1 \in S
  <2>1. k + 1 \in 1..n /\ (k + 1) - 1 = k /\ k + 1 \in 0..n /\ b + k \in Nat
        /\ b + (k + 1) = (b + k) + 1 /\ b + (k + 1) - 1 = b + k
    OBVIOUS
  <2>2. after[k] \in Consoles /\ TextUpTo(after[k], b + k)
    BY <1>5
  <2>3. after[k + 1] = printc(after[k], Byte(b + k))
    BY <1>2, <1>3, <2>1, Zenon
  <2>4. printc(after[k], Byte(b + k)) \in Consoles
        /\ TextUpTo(printc(after[k], Byte(b + k)), (b + k) + 1)
    BY <2>1, <2>2, PrintText DEF ScreenInv
  <2> QED
    BY <2>1, <2>3, <2>4
<1>6. n \in S
  <2> HIDE DEF S
  <2> QED
    BY <1>4, <1>5, InductionUpTo
<1> QED
  BY <1>1, <1>6

\* What is drawn over the text between calls, without moving the cursor.
LEMMA Overdrawn ==
  ASSUME TextTyped, NEW s \in Consoles, NEW n \in Nat, TextUpTo(s, n),
         NEW t \in Consoles, t.x = s.x, t.y = s.y,
         \A cell \in Cells : \/ t.screen[cell] = s.screen[cell]
                             \/ cell = Corner /\ t.screen[cell] = Key
                             \/ cell \in ClockCells /\ t.screen[cell] = Digit
  PROVE  TextUpTo(t, n)
<1>1. <<t.x, t.y>> = Place(n)
  BY DEF TextUpTo
<1>2. ASSUME NEW o \in (0..(n - 1)) \ text.newlines
      PROVE  \/ Shows(t.screen, o)
             \/ \E p \in ((o + 1)..(n - 1)) \ text.newlines : Place(p) = Place(o)
  <2>1. Place(o) \in Cells
    BY PlaceIsCell
  <2>2. Shows(s.screen, o) => Shows(t.screen, o)
    BY <2>1, Zenon DEF Shows
  <2> QED
    BY <2>2 DEF TextUpTo
<1> QED
  BY <1>1, <1>2 DEF TextUpTo

\* A text that begins where the cursor is.
LEMMA PlaceOfFirst ==
  ASSUME TextTyped
  PROVE  Place(0) = <<text.x, text.y>>
<1>1. /\ text.x \in Nat /\ text.x < NUM_COLUMNS /\ text.y \in Nat /\ text.y < NUM_ROWS
      /\ NUM_COLUMNS \in Nat \ {0} /\ NUM_ROWS \in Nat \ {0}
  BY Sizes DEF TextTyped
<1>2. Column(0) = text.x
  BY ColumnNext
<1>3. text.y + Cardinality(LinesEnded(0)) = text.y
  <2>1. Cardinality(LinesEnded(0)) = 0
    BY LinesNext
  <2> QED
    BY <1>1, <2>1
<1>4. text.x % NUM_COLUMNS = text.x /\ text.y % NUM_ROWS = text.y
  BY <1>1, ModSmall
<1> QED
  BY <1>2, <1>3, <1>4 DEF Place

Begins == TextTyped /\ console.x = text.x /\ console.y = text.y

LEMMA TextBegins == Begins => TextUpTo(console, 0)
<1> SUFFICES ASSUME Begins PROVE TextUpTo(console, 0)
  OBVIOUS
<1>1. (0..(0 - 1)) \ text.newlines = {}
  OBVIOUS
<1> QED
  BY <1>1, PlaceOfFirst DEF TextUpTo, Begins

LEMMA InitScreen == Init => ScreenInv
<1> SUFFICES ASSUME Init PROVE ScreenInv
  OBVIOUS
<1>1. FirstRow \in 0..(NUM_ROWS - 1) /\ NUM_COLUMNS \in Nat \ {0} /\ NUM_ROWS \in Nat \ {0}
  BY WriteAssumption
<1>2. /\ console \in [x : 0..(NUM_COLUMNS - 1), y : {FirstRow}, screen : [Cells -> {Other}]]
      /\ text = [newlines |-> {}, x |-> console.x, y |-> FirstRow]
      /\ nbytes - bytes_left = 0
  BY DEF Init
<1>3. console \in Consoles
  BY <1>1, <1>2 DEF Consoles, Screens
<1>4. TextTyped
  BY <1>1, <1>2 DEF TextTyped
<1>5. text.x = console.x /\ text.y = console.y
  BY <1>2
<1>6. TextUpTo(console, 0)
  BY <1>4, <1>5, TextBegins DEF Begins
<1> QED
  BY <1>2, <1>3, <1>4, <1>6 DEF ScreenInv, TextOnScreen

LEMMA SameText ==
  ASSUME text' = text
  PROVE  /\ \A k : Place(k)' = Place(k)
         /\ \A s, n : TextUpTo(s, n)' <=> TextUpTo(s, n)
<1>1. \A k : Before(k)' = Before(k)
  BY DEF Before
<1>2. \A k : Column(k)' = Column(k)
  BY <1>1 DEF Column
<1>3. \A k : LinesEnded(k)' = LinesEnded(k)
  BY <1>2 DEF LinesEnded
<1>4. \A k : Place(k)' = Place(k)
  BY <1>2, <1>3 DEF Place
<1>5. \A s, o : Shows(s, o)' <=> Shows(s, o)
  BY <1>4 DEF Shows
<1>6. \A s, n : TextUpTo(s, n)' <=> TextUpTo(s, n)
  BY <1>4, <1>5 DEF TextUpTo
<1> QED
  BY <1>4, <1>6

LEMMA NextScreen == CopyInv /\ ScreenInv /\ [Next]_vars => ScreenInv'
<1> SUFFICES ASSUME CopyInv, ScreenInv, [Next]_vars PROVE ScreenInv'
  OBVIOUS
<1> DEFINE sent == nbytes - bytes_left
<1>1. /\ sent \in Nat /\ TextUpTo(console, sent) /\ console \in Consoles /\ TextTyped
  BY DEF CopyInv, Typed, ScreenInv, TextOnScreen
<1>2. ASSUME NEW n \in 0..bytes_left, pc = "chunks", Piece(n), UNCHANGED <<nbytes, text>>
      PROVE  ScreenInv'
  <2>1. n \in Nat /\ buffer = sent /\ bytes_left' = bytes_left - n
        /\ sys_write_console(copy_from_user(buffer, n), n)
    BY <1>2 DEF Piece, CopyInv, Typed, Copying
  <2>2. copy_from_user(buffer, n) = Offsets(sent, n)
    BY <1>1, <2>1, CopyIsWhole
  <2>3. console' \in Consoles /\ TextUpTo(console', sent + n)
    <3> HIDE DEF sent
    <3> QED
      BY <1>1, <2>1, <2>2, WriteShows
  <2>4. nbytes' - bytes_left' = sent + n
    BY <1>2, <2>1 DEF CopyInv, Typed
  <2>5. TextOnScreen'
    BY <1>2, <2>3, <2>4, SameText DEF TextOnScreen
  <2> QED
    BY <1>1, <1>2, <2>3, <2>5 DEF ScreenInv, TextTyped
<1>3. CASE Chunk
  <2>1. TAM_BUFFER \in 0..bytes_left /\ pc = "chunks" /\ Piece(TAM_BUFFER)
        /\ UNCHANGED <<nbytes, text>>
    BY <1>3, Sizes DEF Chunk, more_chunks, CopyInv, Typed
  <2> QED
    BY <1>2, <2>1
<1>4. ASSUME UNCHANGED <<nbytes, bytes_left, text>>, console' \in Consoles,
             TextUpTo(console', sent)
      PROVE  ScreenInv'
  <2>1. TextOnScreen'
    BY <1>4, SameText DEF TextOnScreen
  <2> QED
    BY <1>1, <1>4, <2>1 DEF ScreenInv, TextTyped
<1>5. CASE UNCHANGED <<nbytes, bytes_left, text, console>>
  BY <1>1, <1>4, <1>5
<1>6. CASE LastChunk
  <2>1. CASE bytes_left > 0 /\ Piece(bytes_left)
    <3>1. bytes_left \in 0..bytes_left /\ pc = "chunks" /\ UNCHANGED <<nbytes, text>>
      BY <1>6, <2>1 DEF LastChunk, CopyInv, Typed
    <3> QED
      BY <1>2, <2>1, <3>1
  <2>2. CASE bytes_left = 0 /\ UNCHANGED <<console, out, bytes_left>>
    BY <1>5, <1>6, <2>2 DEF LastChunk
  <2> QED
    BY <1>6, <2>1, <2>2 DEF LastChunk
<1>7. ASSUME NEW fd \in Fds, NEW n \in Lengths, NEW addr \in Buffers, sys_write(fd, n, addr)
      PROVE  ScreenInv'
  <2>1. CASE Refuse(fd, n, addr) # 0
    BY <1>5, <1>7, <2>1 DEF sys_write
  <2>2. CASE Refuse(fd, n, addr) = 0
    <3>1. /\ nbytes' - bytes_left' = 0
          /\ NewText(n)
      <4>1. nbytes' = n /\ bytes_left' = n /\ n \in Int /\ NewText(n)
        BY <1>7, <2>2, WriteAssumption DEF sys_write
      <4> QED
        BY <4>1
    <3>2. PICK s \in Newlines :
            text' = [newlines |-> s \cap (0..(n - 1)), x |-> console.x, y |-> console.y]
      BY <3>1 DEF NewText
    <3>3. console' = [x |-> console.x, y |-> console.y, screen |-> [cell \in Cells |-> Other]]
      BY <3>1 DEF NewText
    <3>4. s \subseteq Nat
      BY WriteAssumption
    <3>5. TextTyped'
      BY <1>1, <3>2, <3>4 DEF TextTyped, Consoles
    <3>6. console' \in Consoles
      <4>1. [cell \in Cells |-> Other] \in Screens
        BY DEF Screens
      <4> QED
        BY <1>1, <3>3, <4>1 DEF Consoles
    <3>7. TextOnScreen'
      <4>1. Begins'
        BY <3>2, <3>3, <3>5 DEF Begins
      <4>2. TextUpTo(console, 0)'
        BY <4>1, TextBegins, PTL
      <4> QED
        BY <3>1, <4>2 DEF TextOnScreen
    <3> QED
      BY <3>5, <3>6, <3>7 DEF ScreenInv
  <2> QED
    BY <2>1, <2>2
<1>8. CASE Keyboard
  <2>1. PICK c \in {Key, Newline} : printc_xy(0, 0, c)
    BY <1>8 DEF Keyboard
  <2> DEFINE from == [x |-> 0, y |-> 0, screen |-> console.screen]
             printed == printc(from, c).screen
  <2>2. printed = console.screen \/ printed = [console.screen EXCEPT ![Corner] = Key]
    BY <2>1 DEF printc, Corner, Key, Newline
  <2>3. console' = [x |-> console.x, y |-> console.y, screen |-> printed]
    BY <2>1 DEF printc_xy
  <2> HIDE DEF printed
  <2>4. /\ printed \in Screens
        /\ \A cell \in Cells : \/ printed[cell] = console.screen[cell]
                               \/ cell = Corner /\ printed[cell] = Key
    BY <1>1, <2>2 DEF Consoles, Screens
  <2>5. console' \in Consoles
    BY <1>1, <2>3, <2>4 DEF Consoles
  <2>6. TextUpTo(console', sent)
    <3>1. console'.x = console.x /\ console'.y = console.y /\ console'.screen = printed
      BY <2>3
    <3> HIDE DEF sent
    <3> QED
      BY <1>1, <2>4, <2>5, <3>1, Overdrawn
  <2> QED
    BY <1>4, <1>8, <2>5, <2>6 DEF Keyboard
<1>9. CASE Clock
  <2> DEFINE drawn == [cell \in Cells |->
                        IF cell \in ClockCells THEN Digit ELSE console.screen[cell]]
  <2>1. console' = [x |-> console.x, y |-> console.y, screen |-> drawn]
    BY <1>9 DEF Clock
  <2>2. /\ drawn \in Screens
        /\ \A cell \in Cells : \/ drawn[cell] = console.screen[cell]
                               \/ cell \in ClockCells /\ drawn[cell] = Digit
    BY <1>1 DEF Consoles, Screens
  <2> HIDE DEF drawn
  <2>3. console' \in Consoles
    BY <1>1, <2>1, <2>2 DEF Consoles
  <2>4. TextUpTo(console', sent)
    <3>1. console'.x = console.x /\ console'.y = console.y /\ console'.screen = drawn
      BY <2>1
    <3> HIDE DEF sent
    <3> QED
      BY <1>1, <2>2, <2>3, <3>1, Overdrawn
  <2> QED
    BY <1>4, <1>9, <2>3, <2>4 DEF Clock
<1>10. CASE Fault \/ UNCHANGED vars
  BY <1>5, <1>10 DEF Fault, vars
<1> QED
  BY <1>3, <1>6, <1>7, <1>8, <1>9, <1>10 DEF Next

LEMMA ScreenHolds == Spec => []ScreenInv
BY CopyHolds, InitScreen, NextScreen, PTL DEF Spec

\* The screen shows the text of a write byte for byte where it belongs, and the
\* cursor is behind it, on a screen of any size, whatever newlines are in the text
\* and however long it is, whatever is typed and shown between calls: printc,
\* sys_write_console, printc_xy.
THEOREM TextIsOnScreen == Spec => []TextOnScreen
BY ScreenHolds, PTL DEF ScreenInv

-----------------------------------------------------------------------------
(***************************************************************************)
(* The variables                                                           *)
(***************************************************************************)
CallInv ==
  /\ call \in [fd : Fds \cup {1}, n : Lengths \cup {0}, addr : 0..(Addresses - 1)]
  /\ ret \in Lengths \cup {-1, 0}
  /\ errno \in {0, -EBADF, -EINVAL, -EFAULT}
  /\ buffer + bytes_left <= nbytes

LEMMA InitCall == Init => CallInv
<1> SUFFICES ASSUME Init PROVE CallInv
  OBVIOUS
<1>1. USER_FIRST_PAGE * PAGE_SIZE \in 0..(Addresses - 1)
  BY Sizes
<1>2. call = [fd |-> 1, n |-> 0, addr |-> USER_FIRST_PAGE * PAGE_SIZE]
  BY DEF Init
<1>3. call \in [fd : Fds \cup {1}, n : Lengths \cup {0}, addr : 0..(Addresses - 1)]
  BY <1>1, <1>2
<1> QED
  BY <1>3 DEF Init, CallInv

\* What the library makes of an answer: a length, or a known error.
LEMMA AnswerTyped ==
  ASSUME CallInv, NEW eax \in Lengths \cup {0, EBADF, EINVAL, EFAULT}, nok(eax),
         eax < 0 => eax \in {EBADF, EINVAL, EFAULT}
  PROVE  /\ ret' \in Lengths \cup {-1, 0}
         /\ errno' \in {0, -EBADF, -EINVAL, -EFAULT}
<1>1. CASE eax < 0
  BY <1>1 DEF nok
<1>2. CASE ~ (eax < 0)
  BY <1>2 DEF nok, CallInv, EBADF, EINVAL, EFAULT
<1> QED
  BY <1>1, <1>2

LEMMA NextCall == CopyInv /\ CallInv /\ [Next]_vars => CallInv'
<1> SUFFICES ASSUME CopyInv, CallInv, [Next]_vars PROVE CallInv'
  OBVIOUS
<1> USE Sizes
<1>1. ASSUME NEW fd \in Fds, NEW n \in Lengths, NEW addr \in Buffers, sys_write(fd, n, addr)
      PROVE  CallInv'
  <2>1. addr \in 0..(Addresses - 1) /\ n \in Int
    BY WriteAssumption
  <2>2. call' \in [fd : Fds \cup {1}, n : Lengths \cup {0}, addr : 0..(Addresses - 1)]
    BY <1>1, <2>1 DEF sys_write
  <2>3. CASE Refuse(fd, n, addr) # 0
    <3>1. /\ nok(Refuse(fd, n, addr)) /\ UNCHANGED <<nbytes, buffer, bytes_left>>
      BY <1>1, <2>3 DEF sys_write
    <3>2. Refuse(fd, n, addr) \in {EBADF, EINVAL, EFAULT}
      BY <2>3 DEF Refuse
    <3>3. /\ ret' \in Lengths \cup {-1, 0}
          /\ errno' \in {0, -EBADF, -EINVAL, -EFAULT}
      BY <3>1, <3>2, AnswerTyped
    <3> QED
      BY <2>2, <3>1, <3>3 DEF CallInv
  <2>4. CASE Refuse(fd, n, addr) = 0
    <3>1. nbytes' = n /\ bytes_left' = n /\ buffer' = 0 /\ UNCHANGED <<ret, errno>>
      BY <1>1, <2>4 DEF sys_write
    <3> QED
      BY <2>1, <2>2, <3>1 DEF CallInv
  <2> QED
    BY <2>3, <2>4
<1>2. CASE Chunk
  <2>1. bytes_left' = bytes_left - TAM_BUFFER /\ buffer' = buffer + TAM_BUFFER
    BY <1>2 DEF Chunk, Piece
  <2>2. UNCHANGED <<call, nbytes, ret, errno>>
    BY <1>2 DEF Chunk
  <2> QED
    BY <2>1, <2>2 DEF CallInv, CopyInv, Typed
<1>3. CASE LastChunk
  <2>1. bytes_left' = 0 /\ UNCHANGED <<call, nbytes, buffer>> /\ nok(nbytes - bytes_left')
    <3>1. Piece(bytes_left) => bytes_left' = 0
      BY DEF Piece, CopyInv, Typed
    <3> QED
      BY <1>3, <3>1 DEF LastChunk
  <2>2. nbytes - bytes_left' = call.n /\ nbytes \in Nat
    BY <1>3, <2>1 DEF LastChunk, CopyInv, Typed, Copying
  <2>3. call.n \in Lengths \cup {0} /\ call.n \in Nat
    BY <2>1, <2>2 DEF CallInv
  <2>4. /\ ret' \in Lengths \cup {-1, 0}
        /\ errno' \in {0, -EBADF, -EINVAL, -EFAULT}
    BY <2>1, <2>2, <2>3, AnswerTyped
  <2> QED
    BY <2>1, <2>4 DEF CallInv, CopyInv, Typed
<1>4. CASE Fault \/ Keyboard \/ Clock \/ UNCHANGED vars
  BY <1>4 DEF Fault, Keyboard, Clock, vars, CallInv
<1> QED
  BY <1>1, <1>2, <1>3, <1>4 DEF Next

\* A call that is over has been answered by what its arguments deserve.
Answered ==
  pc = "user" => LET e == Refuse(call.fd, call.n, call.addr)
                 IN  IF e = 0 THEN ret = call.n ELSE ret = -1 /\ errno = -e

AnswerInv == Answered /\ (pc = "chunks" => Refuse(call.fd, call.n, call.addr) = 0)

LEMMA InitAnswer == Init => AnswerInv
<1> SUFFICES ASSUME Init PROVE AnswerInv
  OBVIOUS
<1> DEFINE first == USER_FIRST_PAGE * PAGE_SIZE
<1>1. first \in Nat /\ first + 0 = first /\ first <= LastPage * PAGE_SIZE
  <2>1. USER_FIRST_PAGE <= LastPage /\ LastPage \in Nat /\ USER_FIRST_PAGE \in Nat
        /\ PAGE_SIZE \in Nat
    BY Sizes DEF LastPage
  <2>2. \A a, b, m \in Nat : a <= b => a * m <= b * m
    BY Z3
  <2> QED
    BY <2>1, <2>2, Sizes
<1> HIDE DEF first
<1>2. access_ok(first, 0)
  <2>1. first >= USER_FIRST_PAGE * PAGE_SIZE
    BY <1>1 DEF first
  <2> QED
    BY <1>1, <2>1, OwnIsOk
<1>3. call = [fd |-> 1, n |-> 0, addr |-> first] /\ ret = 0 /\ pc = "user"
  BY DEF Init, first
<1>4. Refuse(1, 0, first) = 0
  BY <1>2 DEF Refuse
<1> QED
  BY <1>3, <1>4 DEF AnswerInv, Answered

LEMMA NextAnswer == CopyInv /\ AnswerInv /\ [Next]_vars => AnswerInv'
<1> SUFFICES ASSUME CopyInv, AnswerInv, [Next]_vars PROVE AnswerInv'
  OBVIOUS
<1>1. ASSUME NEW fd \in Fds, NEW n \in Lengths, NEW addr \in Buffers, sys_write(fd, n, addr)
      PROVE  AnswerInv'
  <2>1. /\ call'.fd = fd /\ call'.n = n /\ call'.addr = addr /\ pc = "user"
    BY <1>1 DEF sys_write
  <2> DEFINE e == Refuse(fd, n, addr)
  <2>2. Refuse(call.fd, call.n, call.addr)' = e
    BY <2>1 DEF Refuse, access_ok
  <2>3. CASE e # 0
    <3>1. nok(e) /\ pc' = "user"
      BY <1>1, <2>1, <2>3 DEF sys_write
    <3>2. e < 0
      BY <2>3 DEF Refuse, EBADF, EINVAL, EFAULT
    <3>3. ret' = -1 /\ errno' = -e
      BY <3>1, <3>2 DEF nok
    <3> QED
      BY <2>2, <2>3, <3>1, <3>3 DEF AnswerInv, Answered
  <2>4. CASE e = 0
    <3>1. pc' = "chunks"
      BY <1>1, <2>4 DEF sys_write
    <3> QED
      BY <2>2, <2>4, <3>1 DEF AnswerInv, Answered
  <2> QED
    BY <2>3, <2>4
<1>2. CASE Chunk
  BY <1>2 DEF Chunk, AnswerInv, Answered, Refuse, access_ok
<1>3. CASE LastChunk
  <2>1. /\ pc = "chunks" /\ pc' = "user" /\ UNCHANGED <<call, nbytes>>
        /\ nok(nbytes - bytes_left')
    BY <1>3 DEF LastChunk
  <2>2. bytes_left' = 0
    <3>1. Piece(bytes_left) => bytes_left' = 0
      BY DEF Piece, CopyInv, Typed
    <3> QED
      BY <1>3, <3>1 DEF LastChunk
  <2>3. ret' = call.n
    BY <2>1, <2>2 DEF nok, CopyInv, Typed, Copying
  <2>4. Refuse(call.fd, call.n, call.addr)' = 0
    BY <2>1 DEF AnswerInv, Refuse, access_ok
  <2> QED
    BY <2>1, <2>3, <2>4 DEF AnswerInv, Answered
<1>4. CASE Fault
  BY <1>4 DEF Fault, AnswerInv, Answered
<1>5. CASE Keyboard \/ Clock \/ UNCHANGED vars
  BY <1>5 DEF Keyboard, Clock, vars, AnswerInv, Answered, Refuse, access_ok
<1> QED
  BY <1>1, <1>2, <1>3, <1>4, <1>5 DEF Next

LEMMA VariablesTyped == Spec => []TypeOK
<1>1. CopyInv /\ ScreenInv /\ CallInv => TypeOK
  <2> SUFFICES ASSUME CopyInv, ScreenInv, CallInv PROVE TypeOK
    OBVIOUS
  <2>1. console \in [x : 0..(NUM_COLUMNS - 1), y : 0..(NUM_ROWS - 1),
                     screen : [Cells -> Nat \cup {Other, Key, Digit}]]
    BY DEF ScreenInv, Consoles, Screens
  <2>2. text \in [newlines : SUBSET Nat, x : 0..(NUM_COLUMNS - 1), y : 0..(NUM_ROWS - 1)]
    BY DEF ScreenInv, TextTyped
  <2>3. /\ pc \in {"user", "chunks", "fault"}
        /\ nbytes \in Nat /\ buffer \in 0..nbytes /\ bytes_left \in 0..nbytes
    BY DEF CopyInv, Typed, CallInv
  <2>4. out \in Seq(Nat)
    <3>1. out = Offsets(0, nbytes - bytes_left) /\ nbytes - bytes_left \in Nat
      BY <2>3 DEF CopyInv, SentInOrder
    <3>2. \A k \in 1..(nbytes - bytes_left) : 0 + k - 1 \in Nat
      BY <3>1
    <3> QED
      BY <3>1, <3>2 DEF Offsets
  <2> QED
    BY <2>1, <2>2, <2>3, <2>4 DEF CallInv, TypeOK
<1> QED
  BY <1>1, CopyHolds, ScreenHolds, InitCall, NextCall, PTL DEF Spec

\* A write that is over has returned the length it was asked for when descriptor,
\* length and buffer are good, and else -1 with the error of the first check they
\* fail in errno, whatever the pieces of the copy: sys_write, check_fd, access_ok
\* and the library's nok.
THEOREM AnswersAreRight == Spec => [](TypeOK /\ Answered)
<1>1. AnswerInv => Answered
  BY DEF AnswerInv
<1> QED
  BY <1>1, VariablesTyped, CopyHolds, InitAnswer, NextAnswer, PTL DEF Spec
=============================================================================
