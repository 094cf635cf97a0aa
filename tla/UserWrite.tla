------------------------------- MODULE UserWrite -------------------------------
(***************************************************************************)
(* write of ZeOS: the checks of its arguments, the copy of the user's      *)
(* buffer through localbuffer, a piece at a time, the characters on the    *)
(* screen, which keyboard and clock also write to between calls, and the   *)
(* answer as the user's library hands it on.                               *)
(*                                                                         *)
(* A byte of the user's buffer is named by its offset in the buffer; so is *)
(* the cell of the screen it is in.  Which bytes are newlines the program  *)
(* chooses with the call.                                                  *)
(***************************************************************************)
EXTENDS Integers, Sequences, FiniteSetsExt

CONSTANTS
  TAM_BUFFER, NUM_COLUMNS, NUM_ROWS, PAGE_SIZE,
  FirstRow,    \* the line the cursor starts on, 19 of 25
  ClockColumns, \* where the clock shows, in the first line: 70 to 74
  USER_FIRST_PAGE, NUM_PAG_CODE, NUM_PAG_DATA,
  Addresses,   \* addresses there are: unsigned long counts modulo this number
  Lengths,     \* values of nbytes
  Buffers,     \* addresses of buffers
  Newlines,    \* sets of offsets at which a buffer may hold newlines
  Fds          \* file descriptors

ASSUME WriteAssumption ==
  /\ \A n \in {TAM_BUFFER, NUM_COLUMNS, NUM_ROWS, PAGE_SIZE, Addresses} : n \in Nat \ {0}
  /\ \A n \in {USER_FIRST_PAGE, NUM_PAG_CODE, NUM_PAG_DATA} : n \in Nat
  /\ FirstRow \in 0..(NUM_ROWS - 1)
  /\ Lengths \subseteq Int /\ Fds \subseteq Int
  /\ Buffers \subseteq 0..(Addresses - 1)
  /\ Newlines \subseteq SUBSET Nat
  /\ ClockColumns \subseteq 0..(NUM_COLUMNS - 1)

VARIABLES
  console,     \* the cursor x, y and the screen
  pc,          \* "user", "chunks" in sys_write, "fault" once the system has stopped
  call,        \* auxiliary: the arguments of the latest call
  nbytes,
  buffer,      \* how far the pointer has moved
  bytes_left,
  ret,         \* what the last call returned to the program
  errno,
  out,         \* auxiliary: the bytes this call has sent to the screen
  text         \* auxiliary: the newlines of the latest text, the cursor before it

vars == <<console, pc, call, nbytes, buffer, bytes_left, ret, errno, out, text>>

Cells == (0..(NUM_COLUMNS - 1)) \X (0..(NUM_ROWS - 1))
Corner == <<0, 0>>
ClockCells == ClockColumns \X {0}

\* What a cell holds, when it is no byte of the latest text.
Other == -1
Key == -2
Newline == -3
Digit == -4

EBADF == -9
EINVAL == -22
EFAULT == -14

LastPage == USER_FIRST_PAGE + NUM_PAG_CODE + NUM_PAG_DATA

\* Behind the pages of the program there are addresses.
ASSUME SpaceAssumption == LastPage * PAGE_SIZE < Addresses

\* (A variant for which the page behind the last byte must be the program's.)
access_ok_Strict(addr, size) ==
  LET addr_ini == addr \div PAGE_SIZE
      addr_fin == ((addr + size) % Addresses) \div PAGE_SIZE
  IN  addr_ini <= addr_fin /\ addr_ini >= USER_FIRST_PAGE /\ addr_fin < LastPage

\* access_ok(VERIFY_READ, ...)
access_ok(addr, size) ==
  LET addr_ini == addr \div PAGE_SIZE
      addr_fin == ((addr + size) % Addresses) \div PAGE_SIZE
  IN  addr_ini <= addr_fin /\ addr_ini >= USER_FIRST_PAGE /\ addr_fin <= LastPage

Offsets(first, n) == [k \in 1..n |-> first + k - 1]

\* (A variant that copies words as long as any byte is left.)
copy_from_user_Words(start, size) == Offsets(start, 4 * ((size + 3) \div 4))

\* Words while more than four bytes are left, the rest byte by byte.
copy_from_user(start, size) ==
  LET words == IF size > 4 THEN (size - 1) \div 4 ELSE 0
  IN  Offsets(start, 4 * words) \o Offsets(start + 4 * words, size - 4 * words)

\* The console s after character c.
printc(s, c) ==
  LET next_line == (s.y + 1) % NUM_ROWS
      wraps == s.x + 1 >= NUM_COLUMNS
  IN  IF c = Newline THEN [x |-> 0, y |-> next_line, screen |-> s.screen]
      ELSE [x |-> IF wraps THEN 0 ELSE s.x + 1,
            y |-> IF wraps THEN next_line ELSE s.y,
            screen |-> [s.screen EXCEPT ![<<s.x, s.y>>] = c]]

Byte(o) == IF o \in text.newlines THEN Newline ELSE o

\* The bytes of localbuffer, size of them.
sys_write_console(local, size) ==
  LET after[k \in 0..size] ==
        IF k = 0 THEN console ELSE printc(after[k - 1], Byte(local[k]))
  IN  console' = after[size]

\* main's two messages leave the cursor in the line it starts on.
Init ==
  /\ console \in [x : 0..(NUM_COLUMNS - 1), y : {FirstRow}, screen : [Cells -> {Other}]]
  /\ text = [newlines |-> {}, x |-> console.x, y |-> FirstRow]
  /\ pc = "user"
  /\ call = [fd |-> 1, n |-> 0, addr |-> USER_FIRST_PAGE * PAGE_SIZE]
  /\ nbytes = 0 /\ buffer = 0 /\ bytes_left = 0 /\ ret = 0 /\ errno = 0
  /\ out = <<>>

Refuse(fd, n, addr) ==
  IF fd # 1 THEN EBADF ELSE IF n < 0 THEN EINVAL
  ELSE IF ~ access_ok(addr, n) THEN EFAULT ELSE 0

\* What the library makes of the answer eax.
nok(eax) ==
  IF eax < 0 THEN ret' = -1 /\ errno' = -eax ELSE ret' = eax /\ UNCHANGED errno

\* The text of a call that is accepted: what the screen shows is older.
NewText(n) ==
  /\ \E s \in Newlines :
       text' = [newlines |-> s \cap (0..(n - 1)), x |-> console.x, y |-> console.y]
  /\ console' = [x |-> console.x, y |-> console.y, screen |-> [cell \in Cells |-> Other]]

sys_write(fd, n, addr) ==
  /\ pc = "user"
  /\ call' = [fd |-> fd, n |-> n, addr |-> addr]
  /\ \/ /\ Refuse(fd, n, addr) # 0
        /\ nok(Refuse(fd, n, addr))
        /\ UNCHANGED <<console, pc, nbytes, buffer, bytes_left, out, text>>
     \/ /\ Refuse(fd, n, addr) = 0
        /\ pc' = "chunks" /\ nbytes' = n /\ bytes_left' = n
        /\ buffer' = 0 /\ out' = <<>>
        /\ NewText(n)
        /\ UNCHANGED <<ret, errno>>

more_chunks(n) == n > TAM_BUFFER

\* The size of the next piece.
next_piece == IF more_chunks(bytes_left) THEN TAM_BUFFER ELSE bytes_left

\* Behind the pages of the program there are none.
Present == call.addr + buffer + next_piece <= LastPage * PAGE_SIZE

\* One piece of size n through localbuffer to the screen.
Piece(n) ==
  /\ Present
  /\ out' = out \o copy_from_user(buffer, n)
  /\ sys_write_console(copy_from_user(buffer, n), n)
  /\ bytes_left' = bytes_left - n

Chunk ==
  /\ pc = "chunks" /\ more_chunks(bytes_left)
  /\ Piece(TAM_BUFFER)
  /\ buffer' = buffer + TAM_BUFFER
  /\ UNCHANGED <<pc, call, nbytes, ret, errno, text>>

\* What is left, if anything, and the answer.
LastChunk ==
  /\ pc = "chunks" /\ ~ more_chunks(bytes_left)
  /\ \/ bytes_left > 0 /\ Piece(bytes_left)
     \/ bytes_left = 0 /\ UNCHANGED <<console, out, bytes_left>>
  /\ nok(nbytes - bytes_left')
  /\ pc' = "user"
  /\ UNCHANGED <<call, nbytes, buffer, text>>

\* page_fault_routine does not return; what it prints is not modelled.
Fault ==
  /\ pc = "chunks" /\ bytes_left > 0 /\ ~ Present
  /\ pc' = "fault"
  /\ UNCHANGED <<console, call, nbytes, buffer, bytes_left, ret, errno, out, text>>

\* (A variant that does not put the cursor back.)
printc_xy_Moves(mx, my, c) ==
  console' = printc([x |-> mx, y |-> my, screen |-> console.screen], c)

\* The cursor is saved, moved to mx, my, and put back.
printc_xy(mx, my, c) ==
  LET printed == printc([x |-> mx, y |-> my, screen |-> console.screen], c)
  IN  console' = [x |-> console.x, y |-> console.y, screen |-> printed.screen]

\* Interrupts are served while the program runs.  A scan code behind the end of
\* char_map reads any byte, a newline too.
Keyboard ==
  /\ pc = "user"
  /\ \E c \in {Key, Newline} : printc_xy(0, 0, c)
  /\ UNCHANGED <<pc, call, nbytes, buffer, bytes_left, ret, errno, out, text>>

\* zeos_show_clock writes the time to its cells, the cursor plays no part.
Clock ==
  /\ pc = "user"
  /\ console' = [x |-> console.x, y |-> console.y,
                 screen |-> [cell \in Cells |->
                              IF cell \in ClockCells THEN Digit ELSE console.screen[cell]]]
  /\ UNCHANGED <<pc, call, nbytes, buffer, bytes_left, ret, errno, out, text>>

Next ==
  \/ \E fd \in Fds, n \in Lengths, addr \in Buffers : sys_write(fd, n, addr)
  \/ Chunk
  \/ LastChunk
  \/ Fault
  \/ Keyboard
  \/ Clock

Spec == Init /\ [][Next]_vars

-----------------------------------------------------------------------------
TypeOK ==
  /\ console \in [x : 0..(NUM_COLUMNS - 1), y : 0..(NUM_ROWS - 1),
                  screen : [Cells -> Nat \cup {Other, Key, Digit}]]
  /\ text \in [newlines : SUBSET Nat, x : 0..(NUM_COLUMNS - 1), y : 0..(NUM_ROWS - 1)]
  /\ pc \in {"user", "chunks", "fault"}
  /\ call \in [fd : Fds \cup {1}, n : Lengths \cup {0}, addr : 0..(Addresses - 1)]
  /\ nbytes \in Nat /\ buffer \in 0..nbytes /\ bytes_left \in 0..nbytes
  /\ ret \in Lengths \cup {-1, 0}
  /\ errno \in {0, -EBADF, -EINVAL, -EFAULT}
  /\ out \in Seq(Nat)

\* However the length falls on pieces and words, what has been sent to the
\* screen is the user's buffer up to where the copy is: in order, no byte left
\* out, none twice, none from behind the buffer; all of it at the end.
SentInOrder ==
  /\ out = Offsets(0, nbytes - bytes_left)
  /\ pc = "user" /\ ret >= 0 => bytes_left = 0

\* A call with a buffer in the program's pages, also one that ends with their
\* last byte, writes all of it; the copy faults only for one that goes on behind.
OwnBufferWritten ==
  call.fd = 1 /\ call.n >= 0
    /\ call.addr >= USER_FIRST_PAGE * PAGE_SIZE
    /\ call.addr + call.n <= LastPage * PAGE_SIZE
  => pc # "fault" /\ (pc = "user" => ret = call.n)

\* Where byte k of the text belongs on the screen: its column from the newline
\* before it or from where the text began, its line by the lines that end before.
Before(k) == {o \in text.newlines : o < k}
Column(k) ==
  IF Before(k) = {} THEN text.x + k
  ELSE k - 1 - Max(Before(k))
LinesEnded(k) ==
  {o \in 0..(k - 1) : o \in text.newlines \/ (Column(o) + 1) % NUM_COLUMNS = 0}
Place(k) ==
  <<Column(k) % NUM_COLUMNS, (text.y + Cardinality(LinesEnded(k))) % NUM_ROWS>>

\* A cell shows byte o, unless the key or the time is shown in its place.
Shows(screen, o) ==
  \/ screen[Place(o)] = o
  \/ Place(o) = Corner /\ screen[Place(o)] = Key
  \/ Place(o) \in ClockCells /\ screen[Place(o)] = Digit

\* The screen after n bytes of the text: the cursor where the next one belongs,
\* each byte that is no newline in its place until a later one takes it.
TextUpTo(s, n) ==
  /\ <<s.x, s.y>> = Place(n)
  /\ \A o \in (0..(n - 1)) \ text.newlines :
       \/ Shows(s.screen, o)
       \/ \E p \in ((o + 1)..(n - 1)) \ text.newlines : Place(p) = Place(o)

\* The text goes on where it stopped, through newlines, the end of lines and of
\* the screen and from piece to piece, whatever is typed and shown in between.
TextOnScreen == TextUpTo(console, nbytes - bytes_left)

=============================================================================
