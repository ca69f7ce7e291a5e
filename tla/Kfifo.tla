------------------------------- MODULE Kfifo --------------------------------
(***************************************************************************)
(* The ring buffer of compat/kfifo.c and linux/kfifo.h between one writer  *)
(* and one reader that share no lock.  `in' and `out' run freely over the  *)
(* unsigned integers and wrap; only their difference and their low bits    *)
(* mean anything.  A call is cut where the other side can see it: it reads *)
(* the other's index, touches the buffer up to its end and then, when that *)
(* was not enough, from its start, and moves its own index.                *)
(*                                                                         *)
(* Elements are of one byte (esize 1); a record is preceded by its length  *)
(* in recsize bytes of Base values each.  Memory is sequentially           *)
(* consistent.  Calls without effect (nothing fits, nothing to read) are   *)
(* left out.                                                               *)
(***************************************************************************)
EXTENDS Integers, Sequences

CONSTANTS
  Base,         \* how many values a byte has (256)
  IndexRange,   \* how many values an index has (2^32)
  Requests,     \* the sizes asked of kfifo_alloc() and kfifo_init()
  RecSizes,     \* sizes of the length field: 0 (no records), 1 or 2
  Payload,      \* the bytes the writer sends
  MaxLen,       \* the longest buffer a caller passes
  Oversized     \* whether kfifo_in() is given records too long for the field

(* is_power_of_2() and rounddown_pow_of_two().                             *)
RoundedDown(n) == CHOOSE p \in {2^k : k \in 0..n} : p <= n /\ n < 2 * p

ASSUME KfifoAssumption ==
  /\ Base \in Nat \ {0, 1} /\ IndexRange \in Nat \ {0} /\ MaxLen \in Nat
  /\ Requests \subseteq Nat \ {0, 1} /\ RecSizes \subseteq 0..2
  /\ \A r \in Requests :
       RoundedDown(r) \in 2..r /\ IndexRange % (2 * RoundedDown(r)) = 0
  /\ Payload \subseteq 0..(Base - 1) /\ Oversized \in BOOLEAN

VARIABLES
  recsize,      \* of the kind of fifo: fixed
  mask,         \* its size less one: fixed
  in, out,      \* the two indices
  data,         \* the buffer
  writer,       \* the call of the writer: how far it is, its kind, its source
  reader,       \* the call of the reader, what it took, how far out will move
  got           \* what the reader's last call returned, until it calls again

vars == <<recsize, mask, in, out, data, writer, reader, got>>

Byte    == 0..(Base - 1)
Size    == mask + 1
Least(a, b) == IF a < b THEN a ELSE b

(* Unsigned arithmetic on indices.                                         *)
Plus(i, n)  == IF i + n < IndexRange THEN i + n ELSE i + n - IndexRange
Minus(i, j) == IF j <= i THEN i - j ELSE i - j + IndexRange
Off(i)      == i % Size       \* i & mask, mask + 1 being a power of two

Used   == Minus(in, out)
Unused == Size - Used         \* kfifo_unused()

WIdle == [pc |-> "idle", kind |-> "in", src |-> <<>>]
RIdle == [pc |-> "idle", kind |-> "out", len |-> 0, buf |-> <<>>]

(* A fifo of either kind over a buffer for the elements asked for, of      *)
(* which a power of two is used.                                           *)
Init == /\ recsize \in RecSizes
        /\ \E asked \in Requests : /\ mask = RoundedDown(asked) - 1
                                   /\ data = [c \in 0..(asked - 1) |-> 0]
        /\ in = 0 /\ out = 0
        /\ writer = WIdle /\ reader = RIdle
        /\ got = <<>>

(* The length before a record: __kfifo_peek_n() at `at', __kfifo_poke_n()  *)
(* into d at `in', and the longest there is, by __kfifo_max_r().           *)
PeekN(at) == data[Off(at)] + IF recsize = 2 THEN Base * data[Off(Plus(at, 1))] ELSE 0
PokeN(d, n) ==
  IF recsize = 0 THEN d
  ELSE [c \in DOMAIN d |->
          IF c = Off(in) THEN n % Base
          ELSE IF recsize = 2 /\ c = Off(Plus(in, 1)) THEN (n \div Base) % Base
          ELSE d[c]]
MaxR(n) == Least(n, (IF recsize = 2 THEN Base * Base ELSE Base) - 1)

(* How much of n bytes at an index lies before the end of the buffer, and  *)
(* the buffer with those of bytes `which' of s copied there.               *)
BeforeEnd(at, n) == Least(n, Size - Off(at))
CopyIn(d, at, s, which) ==
  [c \in DOMAIN d |->
     IF \E j \in which : c = Off(Plus(at, j - 1))
       THEN s[CHOOSE j \in which : c = Off(Plus(at, j - 1))]
       ELSE d[c]]
CopyOut(at, first, last) == [j \in 1..(last - first + 1) |-> data[Off(Plus(at, first + j - 2))]]

Begins(s, n) == SubSeq(s, 1, n)

-----------------------------------------------------------------------------
(* The writer: kfifo_put(), kfifo_in(), kfifo_from_user() and the pair of  *)
(* kfifo_dma_in_prepare() and _finish() around a transfer.                 *)

Target == Plus(in, recsize)

(* Mutant of Accepted: elements are not held to the room there is.         *)
Accepted_Unclamped(kind, n) ==
  IF recsize = 0 \/ kind = "in" THEN n ELSE MaxR(n)

(* A caller of kfifo_in() is taken to respect the length field unless      *)
(* Oversized, for the code does not shorten its record.                    *)
Accepted(kind, n) ==
  IF recsize = 0 THEN Least(n, Unused)
  ELSE IF kind = "in" THEN n ELSE MaxR(n)

In(kind, content) ==
  /\ writer.pc = "idle"
  /\ (recsize > 0 /\ kind = "in") => (Oversized \/ Len(content) = MaxR(Len(content)))
  /\ LET n == Accepted(kind, Len(content)) IN
       /\ IF recsize = 0 THEN n > 0 ELSE n + recsize <= Unused
       /\ writer' = [pc |-> "head", kind |-> kind, src |-> Begins(content, n)]
  /\ UNCHANGED <<recsize, mask, in, out, data, reader, got>>

Headed == IF writer.kind = "dma" THEN data ELSE PokeN(data, Len(writer.src))

WriteHead ==
  /\ writer.pc = "head"
  /\ LET l == BeforeEnd(Target, Len(writer.src)) IN
       /\ data' = CopyIn(Headed, Target, writer.src, 1..l)
       /\ writer' = [writer EXCEPT !.pc = IF l < Len(writer.src) THEN "tail" ELSE "publish"]
  /\ UNCHANGED <<recsize, mask, in, out, reader, got>>

WriteTail ==
  /\ writer.pc = "tail"
  /\ data' = CopyIn(data, Target, writer.src,
                    (BeforeEnd(Target, Len(writer.src)) + 1)..Len(writer.src))
  /\ writer' = [writer EXCEPT !.pc = "publish"]
  /\ UNCHANGED <<recsize, mask, in, out, reader, got>>

(* A transfer may have been shorter than what was prepared for; its length *)
(* is only known, and written, when it ends.                               *)
Publish ==
  /\ writer.pc = "publish"
  /\ \E n \in 0..Len(writer.src) :
       /\ writer.kind # "dma" => n = Len(writer.src)
       /\ data' = IF writer.kind = "dma" THEN PokeN(data, n) ELSE data
       /\ in' = Plus(in, n + recsize)
  /\ writer' = WIdle
  /\ UNCHANGED <<recsize, mask, out, reader, got>>

(* copy_from_user() stops after k bytes.  A fifo of elements keeps them, a *)
(* record is given up.                                                     *)
FaultIn ==
  /\ writer.kind = "user" /\ writer.pc \in {"head", "tail"}
  /\ LET l == BeforeEnd(Target, Len(writer.src)) IN
     \E k \in 0..(Len(writer.src) - 1) :
       /\ writer.pc = "head" <=> k < l
       /\ data' = IF writer.pc = "head"
                    THEN CopyIn(Headed, Target, writer.src, 1..k)
                    ELSE CopyIn(data, Target, writer.src, (l + 1)..k)
       /\ in' = IF recsize = 0 THEN Plus(in, k) ELSE in
  /\ writer' = WIdle
  /\ UNCHANGED <<recsize, mask, out, reader, got>>

-----------------------------------------------------------------------------
(* The reader: kfifo_get(), kfifo_out(), kfifo_peek(), kfifo_out_peek(),   *)
(* kfifo_to_user() and a transfer out.  The driver of a transfer of a      *)
(* record asks for no more than kfifo_peek_len().                          *)

Out(kind, asked) ==
  /\ reader.pc = "idle"
  /\ in # out
  /\ (recsize > 0 /\ kind = "dma") => asked <= PeekN(out)
  /\ reader' = [pc   |-> "head", kind |-> kind, buf |-> <<>>,
                len  |-> Least(asked, IF recsize = 0 THEN Used ELSE PeekN(out))]
  /\ got' = <<>>
  /\ UNCHANGED <<recsize, mask, in, out, data, writer>>

Source == Plus(out, recsize)

ReadHead ==
  /\ reader.pc = "head"
  /\ LET l == BeforeEnd(Source, reader.len) IN
       reader' = [reader EXCEPT !.pc  = IF l < reader.len THEN "tail" ELSE "done",
                                !.buf = CopyOut(Source, 1, l)]
  /\ UNCHANGED <<recsize, mask, in, out, data, writer, got>>

ReadTail ==
  /\ reader.pc = "tail"
  /\ reader' = [reader EXCEPT !.pc = "done",
                              !.buf = @ \o CopyOut(Source, Len(@) + 1, reader.len)]
  /\ UNCHANGED <<recsize, mask, in, out, data, writer, got>>

(* Mutant of Moved: a short read of a record leaves the rest of it.        *)
Moved_Taken(n) == n + recsize

(* How far out moves when n elements were taken, or any part of a record.  *)
Moved(n) == IF recsize = 0 THEN n ELSE PeekN(out) + recsize

Return ==
  /\ reader.pc = "done"
  /\ \E n \in 0..reader.len :
       /\ (reader.kind = "dma" /\ recsize = 0) \/ n = reader.len
       /\ got' = Begins(reader.buf, n)
       /\ out' = IF reader.kind = "peek" THEN out ELSE Plus(out, Moved(n))
  /\ reader' = RIdle
  /\ UNCHANGED <<recsize, mask, in, data, writer>>

(* copy_to_user() stops after k bytes.                                     *)
FaultOut ==
  /\ reader.kind = "user" /\ reader.pc \in {"head", "tail"}
  /\ \E k \in 0..(reader.len - 1) :
       /\ reader.pc = "head" <=> k < BeforeEnd(Source, reader.len)
       /\ IF recsize = 0
            THEN got' = CopyOut(Source, 1, k) /\ out' = Plus(out, k)
            ELSE got' = <<>> /\ out' = out
  /\ reader' = RIdle
  /\ UNCHANGED <<recsize, mask, in, data, writer>>

(* kfifo_skip() of what is there, kfifo_reset_out() by the reader, and     *)
(* kfifo_reset() with both sides kept out.                                 *)
Skip ==
  /\ reader.pc = "idle" /\ in # out
  /\ out' = Plus(out, Moved(1))
  /\ UNCHANGED <<recsize, mask, in, data, writer, reader, got>>

ResetOut ==
  /\ reader.pc = "idle" /\ out # in
  /\ out' = in
  /\ UNCHANGED <<recsize, mask, in, data, writer, reader, got>>

Reset ==
  /\ reader.pc = "idle" /\ writer.pc = "idle"
  /\ in' = 0 /\ out' = 0
  /\ UNCHANGED <<recsize, mask, data, writer, reader, got>>

Contents == UNION {[1..n -> Payload] : n \in 0..MaxLen}

Write == \/ \E kind \in {"in", "user", "dma"}, content \in Contents : In(kind, content)
         \/ WriteHead \/ WriteTail \/ Publish \/ FaultIn

Read == \/ \E kind \in {"out", "peek", "user", "dma"}, asked \in 1..MaxLen : Out(kind, asked)
        \/ ReadHead \/ ReadTail \/ Return \/ FaultOut
        \/ Skip \/ ResetOut

Next == Write \/ Read \/ Reset

Spec == Init /\ [][Next]_vars

-----------------------------------------------------------------------------
Contained(s) == s \in [1..Len(s) -> Byte]

TypeOK ==
  /\ recsize \in 0..2 /\ mask \in Nat \ {0}
  /\ in \in 0..(IndexRange - 1) /\ out \in 0..(IndexRange - 1)
  /\ 0..mask \subseteq DOMAIN data /\ \A c \in DOMAIN data : data[c] \in Byte
  /\ writer.pc \in {"idle", "head", "tail", "publish"} /\ writer.kind \in {"in", "user", "dma"}
  /\ Contained(writer.src)
  /\ reader.pc \in {"idle", "head", "tail", "done"} /\ reader.len \in Nat
  /\ reader.kind \in {"out", "peek", "user", "dma"}
  /\ Contained(reader.buf) /\ Contained(got)

(* Neither side touches a cell the other is using: what is queued and what *)
(* the call of the writer is about to fill fit the buffer together, and    *)
(* the call of the reader takes what is queued.  kfifo.h says that one     *)
(* reader and one writer need no lock; each checks for room, or for        *)
(* content, against an index that the other may move before it copies.     *)
WriterClaim == IF writer.pc = "idle" THEN 0 ELSE recsize + Len(writer.src)
ReaderClaim == IF reader.pc = "idle" THEN 0 ELSE recsize + reader.len

RegionsDisjoint ==
  /\ Used + WriterClaim <= Size
  /\ ReaderClaim <= Used

(* What the buffer holds between out and in, read as the reader will.  A   *)
(* record that claims to be longer than what is left is torn.              *)
Torn == <<Base>>        \* no record: Base is not a byte

RecordsWithin[n \in 0..(IndexRange - 1)] ==
  IF n = 0 THEN <<>>
  ELSE LET at   == Minus(in, n)
           used == recsize + PeekN(at) IN
       IF used > n THEN <<Torn>>
       ELSE <<CopyOut(Plus(at, recsize), 1, used - recsize)>> \o RecordsWithin[n - used]

Items == IF recsize = 0 THEN CopyOut(out, 1, Used) ELSE RecordsWithin[Used]

(* Every record that is queued lies in the fifo up to its end, so that     *)
(* kfifo_peek_len() gives "the size of the next fifo record" (kfifo.h:393) *)
(* and taking it leaves out at the start of the next.                      *)
RecordsWhole == recsize # 0 => \A k \in DOMAIN Items : Items[k] # Torn

(* The ring buffer is a fifo: whatever the calls of the two sides find in  *)
(* each other's way, what is read is what was put in, in order, whole      *)
(* records at a time, and an element is there for the reader only once its *)
(* bytes are.                                                              *)
Promise == INSTANCE Fifo WITH ofRecords <- recsize # 0, items <- Items,
                              given <- writer.src, got <- got

ImplementsFifo == Promise!Spec
=============================================================================
