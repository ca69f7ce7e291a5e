------------------------------- MODULE I2cBit -------------------------------
(***************************************************************************)
(* The bit-banging I2C master of compat-3.4.c: bit_xfer and what it calls, *)
(* down to the levels it drives on the two lines.  A slave answers each    *)
(* byte, or stretches the clock until the master gives up; the start and   *)
(* stop conditions give up as well, and do not tell.                       *)
(***************************************************************************)
EXTENDS Integers, Sequences

CONSTANTS Retries,    \* i2c_adapter.retries
          BlockMax,   \* I2C_SMBUS_BLOCK_MAX
          Transfers   \* what bit_xfer is called for: sequences of [flags, len]

VARIABLES msgs, i,          \* the messages, and the one in progress
          at,               \* where bit_xfer is
          tries, stage,     \* of try_address, and which address it sends
          count,            \* bytes left of the message
          scl, sda,         \* levels the master drives
          ret,
          stretched,             \* the slave holds the clock line low
          timedout,         \* history: the clock was held for too long
          busy,             \* history: the slave saw START without STOP
          fresh,            \* history: it saw START, and no byte since
          sending,          \* history: the slave goes on sending
          bytes,            \* history: bytes transferred of each message
          broken            \* history: an "assert:" comment was false, or an
                            \* address was sent without START

ivars == <<msgs, i, at, tries, stage, count, scl, sda, ret, stretched, timedout, busy, fresh,
           sending, bytes, broken>>

I2cInit ==
    /\ msgs \in Transfers
    /\ i = 1 /\ at = "start" /\ stage = "address" /\ tries = 0 /\ count = 0
    /\ scl = 1 /\ sda = 1 /\ ret = 0
    /\ stretched = FALSE /\ timedout = FALSE /\ busy = FALSE /\ fresh = FALSE /\ sending = FALSE
    /\ bytes = [k \in DOMAIN msgs |-> 0]
    /\ broken = FALSE

Flag(f) == f \in msgs[i].flags

OneByte == bytes' = [bytes EXCEPT ![i] = @ + 1]
NakOk == Flag("IGNORE_NAK")

Lines(c, d) == scl' = c /\ sda' = d
Asserts(p) == broken' = (broken \/ ~p)

\* sclhi waits for the clock line: it rises in time, or only after the master
\* has given up, or not before the master drives the next level.
Rises == {"in time", "late", "never"}
sclhi(rise) == timedout' = (timedout \/ rise # "in time")

\* Without the clock being high the slave sees no condition.
Seen(rise) == rise # "never"

\* The slave lets go of the clock after the master has given up.
Release ==
    /\ stretched /\ at # "done" /\ stretched' = FALSE
    /\ UNCHANGED <<msgs, i, at, tries, stage, count, scl, sda, ret, timedout, busy, fresh,
                   sending, bytes, broken>>

\* i2c_start: scl and sda are high.
i2c_start ==
    /\ at = "start"
    /\ Asserts(scl = 1 /\ sda = 1 /\ ~stretched) /\ Lines(0, 0) /\ stretched' = FALSE
    /\ busy' = (busy \/ ~stretched) /\ fresh' = ~stretched
    /\ at' = IF tries = 0 THEN "message" ELSE stage
    /\ UNCHANGED <<msgs, i, tries, stage, count, ret, timedout, sending, bytes>>

\* i2c_repstart: scl is low; it goes high before sda falls, or is held.
Repeat(rise) ==
    /\ Asserts(scl = 0) /\ sclhi(rise) /\ Lines(0, 0)
    /\ busy' = (busy \/ Seen(rise)) /\ fresh' = Seen(rise) /\ stretched' = FALSE

\* The head of the loop of bit_xfer.
NextMsg(rise) ==
    /\ at = "message"
    /\ IF i > Len(msgs)
       THEN ret' = i - 1 /\ at' = "stop" /\ UNCHANGED count
       ELSE /\ at' = IF Flag("NOSTART") THEN "bytes" ELSE "address"
            /\ count' = msgs[i].len
            /\ UNCHANGED ret
    /\ IF i \in 2..Len(msgs) /\ ~Flag("NOSTART") THEN Repeat(rise)
       ELSE UNCHANGED <<scl, sda, stretched, timedout, busy, fresh, broken>>
    /\ tries' = 0 /\ stage' = "address"
    /\ UNCHANGED <<msgs, i, sending, bytes>>

\* After a timeout that was ignored a byte may start with the clock high: sda
\* changes then, which the slave takes for START or STOP.
Glitch == busy' \in IF scl = 1 /\ ~stretched THEN BOOLEAN ELSE {busy}

\* i2c_outb: the slave acknowledges or not, or the clock times out at any bit,
\* with scl driven high.
i2c_outb(ack, address) ==
    /\ Asserts(scl = 0 /\ (address => fresh)) /\ Glitch
    /\ IF ack = "timeout" THEN scl' = 1 /\ sda' \in {0, 1} ELSE Lines(0, 1)
    /\ stretched' = (ack = "timeout") /\ fresh' = FALSE
    /\ timedout' = (timedout \/ ack = "timeout")

Answers == {"ack", "nak", "timeout"}

Errno == [EIO |-> -5, ENXIO |-> -6, EPROTO |-> -71, ETIMEDOUT |-> -110]

Bail(error) == at' = "stop" /\ ret' = error

\* Between two tries: i2c_stop, and i2c_start follows.
Retry == at' = "retry"

\* bit_doAddress: one byte of an address; the first one, and the one after
\* the repeated start of a ten bit read, are tried again.
Address(ack) ==
    /\ at \in {"address", "second", "again"}
    /\ i2c_outb(ack, at # "second")
    /\ IF at # "second" /\ ack # "ack" /\ tries < IF NakOk THEN 0 ELSE Retries
       THEN /\ tries' = tries + 1 /\ Retry
            /\ UNCHANGED <<ret, sending>>
       ELSE /\ tries' = 0
            /\ IF ack # "ack" /\ ~NakOk
               THEN Bail(IF at = "again" THEN Errno.EIO ELSE Errno.ENXIO) /\ UNCHANGED sending
               ELSE /\ at' = CASE at = "address" /\ Flag("TEN") -> "second"
                               [] at = "second" /\ Flag("RD")   -> "repstart"
                               [] OTHER                         -> "bytes"
                    /\ sending' = FALSE
                    /\ UNCHANGED ret
    /\ UNCHANGED <<msgs, i, stage, count, bytes>>

\* i2c_stop: scl is low, and sda rises while scl is high, or is held.
Stop(rise) ==
    /\ Asserts(scl = 0) /\ sclhi(rise) /\ Lines(1, 1)
    /\ stretched' = ~Seen(rise) /\ busy' = (busy /\ ~Seen(rise)) /\ fresh' = FALSE

RetryStop(rise) ==
    /\ at = "retry" /\ Stop(rise)
    /\ at' = "start"
    /\ UNCHANGED <<msgs, i, tries, stage, count, ret, sending, bytes>>

\* The repeated start of a ten bit read.
i2c_repstart(rise) ==
    /\ at = "repstart" /\ Repeat(rise)
    /\ at' = "again" /\ stage' = "again"
    /\ UNCHANGED <<msgs, i, tries, count, ret, sending, bytes>>

MsgDone == /\ at = "bytes" /\ count = 0
           /\ at' = "message" /\ i' = i + 1
           /\ UNCHANGED <<msgs, tries, stage, count, scl, sda, ret, stretched, timedout, busy,
                          fresh, sending, bytes, broken>>

sendbytes(ack) ==
    /\ at = "bytes" /\ count > 0 /\ ~Flag("RD")
    /\ i2c_outb(ack, FALSE)
    /\ IF ack = "ack" \/ (NakOk /\ ack = "nak")
       THEN count' = count - 1 /\ OneByte /\ UNCHANGED <<at, ret>>
       ELSE /\ Bail(IF ack = "nak" THEN Errno.EIO ELSE Errno.ETIMEDOUT)
            /\ UNCHANGED <<count, bytes>>
    /\ UNCHANGED <<msgs, i, tries, stage, sending>>

\* Mutant of LastByte: one byte too many is acknowledged.
LastByte_Late(left) == left < 0

\* What the master answers to a byte it read: the last one is not
\* acknowledged, so that the slave stops sending.
LastByte(left) == left = 0

\* i2c_inb, and acknak, which may time out as well.  The first byte of a block
\* read is a length that is added to the message.
readbytes(length, late) ==
    LET first == count = msgs[i].len /\ Flag("RECV_LEN")
        valid == length \in 1..BlockMax
        left  == count - 1 + IF first /\ valid THEN length ELSE 0
        ends  == LastByte(left) \/ (first /\ ~valid)
        acks  == ~Flag("NO_RD_ACK")
    IN /\ at = "bytes" /\ count > 0 /\ Flag("RD")
       /\ Asserts(scl = 0) /\ Glitch /\ fresh' = FALSE
       /\ count' = left /\ OneByte
       /\ msgs' = IF first /\ valid THEN [msgs EXCEPT ![i].len = @ + length] ELSE msgs
       /\ sending' = (acks /\ ~ends)
       /\ scl' = IF acks /\ late THEN 1 ELSE 0
       /\ sda' = IF acks /\ ~ends THEN 0 ELSE 1
       /\ stretched' = (acks /\ late) /\ timedout' = (timedout \/ (acks /\ late))
       /\ IF first /\ ~valid THEN Bail(Errno.EPROTO)
          ELSE IF acks /\ late THEN Bail(Errno.ETIMEDOUT)
          ELSE UNCHANGED <<at, ret>>
       /\ UNCHANGED <<i, tries, stage>>

ReadTimesOut ==
    /\ at = "bytes" /\ count > 0 /\ Flag("RD")
    /\ Asserts(scl = 0) /\ Glitch /\ Lines(1, 1)
    /\ stretched' = TRUE /\ timedout' = TRUE /\ fresh' = FALSE
    /\ Bail(Errno.EIO)
    /\ UNCHANGED <<msgs, i, tries, stage, count, sending, bytes>>

\* The end of bit_xfer: what the stop condition met is not in ret.
i2c_stop(rise) ==
    /\ at = "stop" /\ Stop(rise)
    /\ at' = "done"
    /\ UNCHANGED <<msgs, i, tries, stage, count, ret, sending, bytes>>

I2cNext ==
    \/ i2c_start \/ MsgDone \/ Release
    \/ \E rise \in Rises : NextMsg(rise) \/ RetryStop(rise) \/ i2c_repstart(rise) \/ i2c_stop(rise)
    \/ \E ack \in Answers : Address(ack) \/ sendbytes(ack)
    \/ \E length \in 0..BlockMax + 1, late \in BOOLEAN : readbytes(length, late)
    \/ ReadTimesOut

-----------------------------------------------------------------------------
\* What bit_xfer leaves: it reports success only if every byte of every
\* message was transferred, and the slave has seen the stop condition unless it
\* still holds the clock.  Unless a clock timed out, the levels are what the
\* "assert:" comments say wherever a condition or a byte starts, an address
\* follows a start condition that the slave saw, and the slave has been told
\* to stop sending.
BusTransfers ==
    /\ broken => timedout
    /\ at = "done" =>
         /\ busy => stretched /\ timedout
         /\ ret = Len(msgs) => \A k \in DOMAIN msgs : bytes[k] = msgs[k].len
         /\ ~timedout => ~sending
=============================================================================
