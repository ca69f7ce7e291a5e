------------------------------ MODULE MCHelpers ------------------------------
(***************************************************************************)
(* One run for all helpers: a behaviour is one of a machine of Helpers, or *)
(* one state in which a pure algorithm is evaluated on its input.          *)
(***************************************************************************)
EXTENDS Helpers, TLC

CONSTANTS LongLongMod, LongMod, IntMod, ShortMod, CharMod, Base, Width, Depth, From, To,
          AddrMod, MaxSingle, IdMod, Overflow, MaxByteMode,
          CpuHz, UserHz   \* jiffies of a second, and the ticks of user space

VARIABLE input

Number  == INSTANCE Numbers
Word    == INSTANCE Words
Convert == INSTANCE Conversions
Flow    == INSTANCE FlowDissector
Frame   == INSTANCE Infoframes
Buffer  == INSTANCE Buffers
Device  == INSTANCE Devices

-----------------------------------------------------------------------------
\* The messages of the I2C master: alone, or after one that is written or read.
MsgFlags == {{}, {"RD"}, {"TEN"}, {"TEN", "RD"}, {"IGNORE_NAK"}, {"RD", "RECV_LEN"},
             {"RD", "NO_RD_ACK"}, {"NOSTART"}, {"NOSTART", "RD"},
             {"TEN", "RD", "IGNORE_NAK"}}
Msgs == [flags : MsgFlags, len : 0..2]
MCTransfers == {<<a>> : a \in Msgs}
               \cup {<<a, b>> : a \in [flags : {{}, {"RD"}}, len : {1}], b \in Msgs}

\* No definition tells one family from another, or one command.
Symmetric == Permutations(Families) \cup Permutations(Cmds)

\* The inputs of the algorithms, by part; what each bounds is in its name.
Strings == UNION {[1..n -> Number!Chars] : n \in 0..3}

Unaligned == ((0..15) \X {2, 4, 8}) \cup ((0..3) \X {1})
             \cup ({17, 100, 255} \X {4, 8}) \cup ({4097, 28675, 30001, 65535} \X {8})

\* Days around the epoch, leap days, ends of centuries and of 32-bit time.
Days == {-25569, -25568, -25509, -24855, -719, -1, 0, 58, 59, 60, 364, 365,
         366, 789, 790, 10956, 10957, 11015, 11016, 11017, 11322, 11323, 24854, 47540,
         47541, 47600}

FieldValues(most) == {0, 1, 2, 3, 4, 7, 8, 15, 100, 127, 255, 256, 4096, 65535} \cap 0..most
InfoFields(fields) == UNION {{n} \X FieldValues(fields[n]) \X FieldValues(fields[n]) :
                             n \in DOMAIN fields}
Names(n) == [k \in 1..n |-> 20 * k]

\* A packet with or without a MAC header and with a tail of fragments; where
\* offsets are used for pointers the headers count from the head.
SkbWith(headroom, mac, tail, offsets) ==
    LET base == IF offsets THEN 0 ELSE 100
    IN [head |-> 100, data |-> 100 + headroom, len |-> tail + 2, data_len |-> tail,
        network |-> base + headroom + 1, transport |-> base + headroom + 2,
        mac |-> IF mac THEN base + headroom - 1 ELSE IF offsets THEN Buffer!NoHeader ELSE 0,
        fields |-> {"dst", "sp"}, frags |-> IF tail > 0 THEN {"f1"} ELSE {},
        fraglist |-> IF tail > 1 THEN {"g"} ELSE {}]

Missing2(ops) == {ops \ {a, b} : a, b \in ops}

Configured == (2..52) \cup {240, 242}
PciDevs == [pcie : BOOLEAN, version : 1..2, slot : BOOLEAN,
            type : {"ENDPOINT", "DOWNSTREAM", "RC_EC", "ROOT_PORT"},
            fails : SUBSET {"read", "write"},
            config : {[p \in Configured |-> {1}],
                      [p \in Configured |-> IF p % 4 = 0 THEN {1, 2} ELSE {}]}]
Registers == {2, 4, 6, 7, 8, 10, 16, 18, 20, 24, 26, 28, 30, 36, 48, 50, 240}

SdioFuncs == [max_seg_size : {8, 10, 32}, max_blk_size : {8, 16}, max_blksize : {6, 8, 512},
              cur_blksize : {4, 6, 8, 9}, multi_block : BOOLEAN]
Parents == {p \in [2..5 -> 1..4] : \A d \in 2..5 : p[d] < d}

TupleEntries == [readable : BOOLEAN, parsable : BOOLEAN, index : {1}, default : BOOLEAN,
                 fits : BOOLEAN]
Cards == UNION {[1..n -> TupleEntries] : n \in 0..2}

Given ==
    \/ part = "strings" /\ input \in Strings \X Number!Bases
    \/ part = "unaligned" /\ input \in Unaligned
    \/ part = "bits" /\ input \in SUBSET Word!Bit
    \/ part = "crc" /\ input \in (SUBSET Word!Bit)
                                  \X {<<a, b>> : a \in SUBSET Word!Bit, b \in {{1, 3}, {0, 2}}}
    \/ part = "time" /\ input \in Days \X {0, 1, 86399} \X {0, -43200, 50400, 90000}
    \/ part = "jiffies" /\ input \in (0..40) \X (0..3) \X (0..30)
    \/ part = "cordic" /\ input \in -400..400
    \/ part = "flows" /\ \E p \in {"IP", "IPV6", "8021Q", "PPP_SES"} : input \in Flow!Packets(p)
    \/ part = "avi" /\ input \in InfoFields(Frame!AviFields)
    \/ part = "audio" /\ input \in InfoFields(Frame!AudioFields)
    \/ part = "names" /\ input \in {Names(n) : n \in {0, 1, 8, 12}} \X {Names(n) : n \in {0, 12}}
    \/ part = "splice" /\ input \in (0..3) \X (0..3)
    \/ part = "copy" /\ input \in {<<SkbWith(h, m, t, o), n, a, o>> :
                           h \in 1..3, m \in BOOLEAN, t \in 0..2, o \in BOOLEAN,
                           n \in 0..4, a \in {50, 200}}
    \/ part = "header" /\ input \in {"IP", "802_3", "IPX"} \X BOOLEAN \X {"none", "mac3"}
    \/ part = "chunks" /\ input \in (1..20) \X (0..6) \X BOOLEAN
    \/ part = "ids" /\ input \in (0..IdMod - 1) \X (0..IdMod - 1)
    \/ part = "ops" /\ input \in Missing2(Dma!dma_buf_ops)
    \/ part = "pci" /\ input \in PciDevs \X Registers
    \/ part = "sdio" /\ input \in SdioFuncs \X (0..40)
    \/ part = "tree" /\ input \in Parents \X (SUBSET (1..5))
    \/ part = "card" /\ input \in Cards \X BOOLEAN
    \/ part = "device" /\ input \in (0..1) \X {"", "alloc", "add_data", "add"}

-----------------------------------------------------------------------------
\* What a machine starts with by chance is fixed while another one runs.
Fixed ==
    /\ IF part = "addresses" THEN TRUE ELSE version = "2.6.32"
    /\ IF part = "i2c" THEN TRUE ELSE msgs = <<[flags |-> {}, len |-> 0]>>
    /\ IF part = "workqueue" THEN TRUE ELSE flush_work = "flush_work"
    /\ IF part = "tty" THEN TRUE ELSE send_xchar = TRUE
    /\ IF part = "packet" THEN TRUE ELSE termios_locked = {}

Init ==
    /\ \/ part \in Machines /\ input = << >>
       \/ Given
    /\ Fixed /\ MachinesInit

Next == MachinesNext /\ UNCHANGED input

-----------------------------------------------------------------------------
\* Values that are parsed, read from memory, reversed, summed up and converted are
\* what the plain definition of the format says, at the boundaries of the types
\* too; the inputs this says nothing of are named with each definition.
NumbersExact ==
    /\ part = "strings" => Number!NumbersParsed(input[1], input[2])
    /\ part = "unaligned" => Word!UnalignedExact(input[1], input[2])
    /\ part = "bits" => Word!BitsExact(input)
    /\ part = "crc" => Word!CrcExact(input[1], input[2])
    /\ part = "time" => Convert!TimeExact(input[1], input[2], input[3])
    /\ part = "jiffies" => Convert!JiffiesRounded(input[1], input[2], input[3], CpuHz, UserHz)
    /\ part = "cordic" => Convert!CordicExact(input)

\* The helpers for packets and their descriptions: the keys of a flow are those
\* of its innermost headers, lists are spliced whole, copies show the same data
\* and, but for offsets in another headroom, the same headers, and the fields of
\* a display's frame stay in their bits.
PacketsExact ==
    /\ part = "flows" => Flow!FlowsDissected(input)
    /\ part = "avi" => Frame!InfoframePacked("avi", Frame!AviFields, input[1], input[2], input[3])
    /\ part = "audio" =>
         Frame!InfoframePacked("audio", Frame!AudioFields, input[1], input[2], input[3])
    /\ part = "names" => Frame!NamesPacked(input[1], input[2], input[2])
    /\ part = "splice" => Buffer!SplicesJoin([k \in 1..input[1] |-> <<"a", k>>],
                                          [k \in 1..input[2] |-> <<"b", k>>])
    /\ part = "copy" => Buffer!CopyKeeps(input[1], input[2], input[3], input[4])
    /\ part = "header" =>
         Buffer!HeadersAgree(input[1], "len", [addr |-> "mac1", noarp |-> input[2]], "mac2", input[3])

\* The helpers for devices, one step of several failing: what was allocated is
\* freed or kept as a whole, registers change only where they were asked to,
\* sizes can be transferred, ids keep their value, and no operation is called
\* that an exporter does not have.
DevicesExact ==
    /\ part = "chunks" => Buffer!ChunksFreed(input[1], input[2], input[3])
    /\ part = "ids" => Convert!IdsKept(input[1], input[2])
    /\ part = "ops" => Dma!OpsCalledExist(input)
    /\ part = "pci" => /\ Device!ChangesOnlyThat(input[1], input[2], {1}, {2})
                       /\ Device!DwordIsWords(input[1], input[2])
    /\ part = "sdio" => Device!SizePadded(input[1], input[2])
    /\ part = "tree" => Device!TreeRemoved(input[1], 1, input[2])
    /\ part = "card" => Device!FirstThatFits([k \in DOMAIN input[1] |->
                                              [input[1][k] EXCEPT !.index = k]], input[2])
    /\ part = "device" => Device!DeviceKeptOnlyIfAdded(input[1], input[2])

=============================================================================
