----------------------------- MODULE Infoframes ------------------------------
(***************************************************************************)
(* The HDMI infoframes of hdmi.c: the fields of a frame packed into the    *)
(* bytes of a buffer, with a header and a checksum.  A byte of the buffer  *)
(* is made of pieces: a field's low bits at a position.                    *)
(***************************************************************************)
EXTENDS Integers, Sequences, SequencesExt, FiniteSets, FiniteSetsExt

HDMI_INFOFRAME_HEADER_SIZE == 4

\* The fields of struct hdmi_avi_infoframe, with the greatest enumerator or
\* value of their types.
AviFields ==
    [colorspace |-> 2, scan_mode |-> 2, colorimetry |-> 3, picture_aspect |-> 2,
     active_aspect |-> 15, extended_colorimetry |-> 4, quantization_range |-> 2, nups |-> 3,
     ycc_quantization_range |-> 1, content_type |-> 3,
     active_info_valid |-> 1, horizontal_bar_valid |-> 1, vertical_bar_valid |-> 1, itc |-> 1,
     video_code |-> 127, pixel_repeat |-> 15, top_bar |-> 65535, bottom_bar |-> 65535,
     left_bar |-> 65535, right_bar |-> 65535]

\* struct hdmi_audio_infoframe; speakers are placed for two channels or more.
AudioFields ==
    [channels |-> 8, coding_type |-> 14, sample_size |-> 3, sample_frequency |-> 7,
     coding_type_ext |-> 3, channel_allocation |-> 255, level_shift_value |-> 15,
     downmix_inhibit |-> 1]

\* A piece: bits low .. low + bits - 1 of a value, at a position of the byte.
P(value, low, bits, at) == [value |-> value, low |-> low, bits |-> bits, at |-> at]
Piece(value, bits, at) == P(value, 0, bits, at)

\* The bits of a byte that the pieces set (they are ORed together).
ByteOf(pieces) ==
    UNION {{p.at + b : b \in {c \in 0..(p.bits - 1) : (p.value \div 2^(p.low + c)) % 2 = 1}} :
           p \in pieces}
ValueOf(bits) == MapThenSumSet(LAMBDA b : 2^b, bits \cap 0..7)

AviPayload(f) ==
    <<{Piece(f.colorspace, 2, 5), Piece(f.scan_mode, 2, 0), Piece(f.active_info_valid, 1, 4),
       Piece(f.horizontal_bar_valid, 1, 3), Piece(f.vertical_bar_valid, 1, 2)},
      {Piece(f.colorimetry, 2, 6), Piece(f.picture_aspect, 2, 4), Piece(f.active_aspect, 4, 0)},
      {Piece(f.extended_colorimetry, 3, 4), Piece(f.quantization_range, 2, 2),
       Piece(f.nups, 2, 0), Piece(f.itc, 1, 7)},
      {Piece(f.video_code, 7, 0)},
      {Piece(f.ycc_quantization_range, 2, 6), Piece(f.content_type, 2, 4),
       Piece(f.pixel_repeat, 4, 0)},
      {Piece(f.top_bar, 8, 0)}, {P(f.top_bar, 8, 8, 0)},
      {Piece(f.bottom_bar, 8, 0)}, {P(f.bottom_bar, 8, 8, 0)},
      {Piece(f.left_bar, 8, 0)}, {P(f.left_bar, 8, 8, 0)},
      {Piece(f.right_bar, 8, 0)}, {P(f.right_bar, 8, 8, 0)}>>

AudioPayload(f) ==
    <<{Piece(f.coding_type, 4, 4), Piece(IF f.channels >= 2 THEN f.channels - 1 ELSE 0, 3, 0)},
      {Piece(f.sample_frequency, 3, 2), Piece(f.sample_size, 2, 0)},
      {Piece(f.coding_type_ext, 5, 0)}, {Piece(f.channel_allocation, 8, 0)},
      {Piece(f.level_shift_value, 4, 3), Piece(f.downmix_inhibit, 1, 7)},
      {}, {}, {}, {}, {}>>

\* Names are cut, or filled up with zeros (strncpy).
Padded(s, n) == [k \in 1..n |-> IF k <= Len(s) THEN {Piece(s[k], 8, 0)} ELSE {}]
SpdPayload(f) == Padded(f.vendor, 8) \o Padded(f.product, 16) \o <<{Piece(f.sdi, 8, 0)}>>

VendorPayload(f) == Padded(f.data, f.length)

\* What hdmi_*_infoframe_init gives a frame; its length is its payload's.
hdmi_avi_infoframe_init == [type |-> 130, version |-> 2]
hdmi_spd_infoframe_init == [type |-> 131, version |-> 1]
hdmi_audio_infoframe_init == [type |-> 132, version |-> 1]

\* A vendor frame is filled in by its user.
Vendor == [type |-> 129, version |-> 1]

Frame(kind, f) ==
    CASE kind = "avi"    -> hdmi_avi_infoframe_init @@ [payload |-> AviPayload(f)]
      [] kind = "spd"    -> hdmi_spd_infoframe_init @@ [payload |-> SpdPayload(f)]
      [] kind = "audio"  -> hdmi_audio_infoframe_init @@ [payload |-> AudioPayload(f)]
      [] kind = "vendor" -> Vendor @@ [payload |-> VendorPayload(f)]

\* The sum is taken while the checksum is still 0.
hdmi_infoframe_checksum(bytes) ==
    [bytes EXCEPT ![4] = (256 - (FoldLeft(+, 0, bytes) % 256)) % 256]

\* hdmi_*_infoframe_pack: << >> for -ENOSPC, which leaves the buffer alone.
Pack(frame, size) ==
    IF size < HDMI_INFOFRAME_HEADER_SIZE + Len(frame.payload) THEN << >>
    ELSE hdmi_infoframe_checksum(
           <<frame.type, frame.version, Len(frame.payload), 0>>
           \o [k \in DOMAIN frame.payload |-> ValueOf(ByteOf(frame.payload[k]))])

\* Values that show a field's bits: none, all, or one value with neighbours.
Shows(fields, name, v) == [g \in DOMAIN fields |-> IF g = name THEN v ELSE 0]
Others(fields, name, v) == [g \in DOMAIN fields |-> IF g = name THEN v ELSE fields[g]]

\* A packed frame sums to zero, fills its length, and keeps every value of
\* every field: frames that differ in one field, the others all zero or all
\* at their greatest, differ in the buffer (no piece covers another, no value
\* is cut off).
InfoframePacked(kind, fields, name, v, w) ==
    \A f \in {Shows(fields, name, v), Others(fields, name, v)} :
       LET b == Pack(Frame(kind, f), 31)
           other == Pack(Frame(kind, [f EXCEPT ![name] = w]), 31)
           long == Len(b)
       IN /\ FoldLeft(+, 0, b) % 256 = 0 /\ b[3] = long - HDMI_INFOFRAME_HEADER_SIZE
          /\ Pack(Frame(kind, f), long) = b /\ Pack(Frame(kind, f), long - 1) = << >>
          /\ b = other => v = w \/ (name = "channels" /\ v <= 1 /\ w <= 1)
          /\ \A k \in DOMAIN b : b[k] # other[k] => k >= 4

\* Names and vendor data come back, as far as they fit.
NamesPacked(vendor, product, data) ==
    LET spd == Pack(Frame("spd", [vendor |-> vendor, product |-> product, sdi |-> 13]), 31)
        own == Pack(Frame("vendor", [data |-> data, length |-> Len(data)]), 31)
    IN /\ \A k \in 1..8 : spd[4 + k] = IF k <= Len(vendor) THEN vendor[k] ELSE 0
       /\ \A k \in 1..16 : spd[12 + k] = IF k <= Len(product) THEN product[k] ELSE 0
       /\ spd[29] = 13 /\ SubSeq(own, 5, 4 + Len(data)) = data
       /\ FoldLeft(+, 0, spd) % 256 = 0 /\ FoldLeft(+, 0, own) % 256 = 0
=============================================================================
