---------------------------- MODULE SampleFormat ----------------------------
(***************************************************************************)
(* The helpers of sound.h and sound.c: the sample format held in struct    *)
(* options, and the conversions of a buffer of samples.  A buffer is a     *)
(* sequence of bytes; "big" says whether the machine is big endian.        *)
(***************************************************************************)
EXTENDS Integers, SequencesExt

\* options->format is a set of flags; format_downmix is 0 or 24.
Format == [flags : SUBSET {"8BIT", "32BIT", "UNSIGNED", "MONO"},
           downmix : {0, 24}, rate : Nat]

get_bits_from_format(o) ==
    IF "32BIT" \in o.flags THEN IF o.downmix = 24 THEN 24 ELSE 32
    ELSE IF "8BIT" \in o.flags THEN 8 ELSE 16

get_signed_from_format(o) == "UNSIGNED" \notin o.flags
get_channels_from_format(o) == IF "MONO" \in o.flags THEN 1 ELSE 2

Flagged(o, flag, yes) ==
    [o EXCEPT !.flags = IF yes THEN @ \cup {flag} ELSE @ \ {flag}]

update_format_bits(o, bits) ==
    [o EXCEPT !.flags = (@ \ {"8BIT", "32BIT"}) \cup
                        (IF bits = 8 THEN {"8BIT"}
                         ELSE IF bits \in {24, 32} THEN {"32BIT"} ELSE {}),
              !.downmix = IF bits = 24 THEN 24 ELSE 0]

update_format_signed(o, is_signed) == Flagged(o, "UNSIGNED", ~is_signed)

\* Mutant: the flag is set for mono and never cleared.
OnlyMono(o, channels) == IF channels = 1 THEN Flagged(o, "MONO", TRUE) ELSE o

update_format_channels(o, channels) == Flagged(o, "MONO", channels = 1)

-----------------------------------------------------------------------------
(* Conversions in place *)

\* >> 8 on an int: the sign fills the byte that is freed.
SignByte(msb) == IF msb >= 128 THEN 255 ELSE 0

\* Each word of four bytes moves by one towards its lowest byte.
downmix_32_to_24_aligned(buffer, big) ==
    LET high(k) == (k - 1) % 4 = (IF big THEN 0 ELSE 3)
    IN [k \in DOMAIN buffer |->
            IF high(k) THEN SignByte(buffer[k])
            ELSE IF big THEN buffer[k - 1] ELSE buffer[k + 1]]

\* Three bytes of each word of four, the first of them at "from".
Packed(buffer, from) ==
    [k \in 1 .. 3 * (Len(buffer) \div 4) |->
        buffer[4 * ((k - 1) \div 3) + from + ((k - 1) % 3)]]

\* Mutant: the low byte is taken to be the last one on every machine.
PackedFromFirst(buffer, big) == Packed(buffer, 1)

\* The lowest byte goes: the first one on a little endian machine.
downmix_32_to_24_packed(buffer, big) == Packed(buffer, IF big THEN 1 ELSE 2)

\* The bytes of each sample change places; there is no case for 8 bits.
convert_endian(buffer, bits) ==
    LET n == bits \div 8
    IN [k \in DOMAIN buffer |-> buffer[n * ((k - 1) \div n) + n - ((k - 1) % n)]]
=============================================================================
