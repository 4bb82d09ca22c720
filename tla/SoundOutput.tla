----------------------------- MODULE SoundOutput -----------------------------
(***************************************************************************)
(* select_sound_driver, and the drivers: what init() agrees on with a      *)
(* device or writes at the head of a file, what play() does to the samples *)
(* on their way, what deinit() puts right in the header.  The order in     *)
(* which main calls a driver is the subject of SoundDevice; here it is     *)
(* select, play any number of times, deinit.  The buffers of the drivers   *)
(* that have a callback are the subject of AudioRing and BufferPool; here  *)
(* what is queued in them counts as heard.                                 *)
(*                                                                         *)
(* A device is external: it answers a request with a linear format of its  *)
(* own in the byte order of the machine, and what it answers is what it    *)
(* plays.  So is libxmp, which mixes samples in the format it is told.  A  *)
(* sample is the sequence of its four bytes, the highest first, of which   *)
(* narrower formats keep the first ones.                                   *)
(***************************************************************************)
EXTENDS SampleFormat, FiniteSets

CONSTANTS
    Builds,      \* the driver lists the program may be compiled with
    Requests,    \* the formats the user may ask for
    Samples,     \* the samples libxmp may produce
    Rates,       \* the rates devices may answer with
    Channels,    \* the numbers of channels ALSA and DART may answer with
    Encodings,   \* what AUDIO_GETENC may list: sets of [precision, signed]
    Field,       \* the number of values of an unsigned int, 2^32
    MaxFrames    \* bound: frames played

Width == {8, 16, 24, 32}

\* The names in sound_driver_list.
Drivers == {"oss", "alsa", "sndio", "netbsd", "bsd", "solaris", "hpux", "pulseaudio",
            "coreaudio", "beos", "win32", "dart", "ahi", "wav", "aiff", "file", "null"}

ASSUME OutputAssumption ==
    /\ Builds \subseteq Seq(Drivers)
    /\ Requests \subseteq Format
    /\ Samples \subseteq [1 .. 4 -> 0 .. 255]
    /\ Rates \subseteq Nat
    /\ Channels \subseteq Nat \ {0}
    /\ Field \in Nat \ {0}
    /\ Encodings \subseteq SUBSET [precision : Width, signed : BOOLEAN]
    /\ MaxFrames \in Nat

VARIABLES
    pc,        \* "probe", "play", "closed", "none", "hang"
    big,       \* is_big_endian()
    build,     \* sound_driver_list
    pref,      \* options->driver_id, or "" for none
    at,        \* index of the driver being tried, or of the one selected
    options,   \* the format in struct options
    dev,       \* what the device or the reader of the file takes samples for
    buf,       \* what play() still has to write
    out,       \* the bytes the device or the data of the file has
    size,      \* the bytes counted by the file writers
    header,    \* the header of the file
    sent,      \* history: the samples libxmp produced
    lost       \* history: a write failed

vars == <<pc, big, build, pref, at, options, dev, buf, out, size, header, sent, lost>>

driver == build[at]

\* bits: width of a sample; bytes: of its container; le: little endian.
Device(bits, bytes, le, signed, channels, rate) ==
    [bits |-> bits, bytes |-> bytes, le |-> le, signed |-> signed,
     channels |-> channels, rate |-> rate]

NoDevice == Device(0, 1, FALSE, TRUE, 0, 0)

\* A device of the machine: 24 bits are the low bits of a 32 bit word.
Native(bits, signed, channels, rate) ==
    Device(bits, IF bits = 24 THEN 4 ELSE bits \div 8, ~big, signed, channels, rate)

NoHeader == [bits |-> 0, offset |-> 0, riff |-> 0, data |-> 0, pad |-> 0]

Failed(o) == [ok |-> FALSE, o |-> o, dev |-> NoDevice]
Opened(o, d) == [ok |-> TRUE, o |-> o, dev |-> d]

Agreed(o, bits, signed, channels, rate) ==
    update_format_channels(
        update_format_signed(update_format_bits([o EXCEPT !.rate = rate], bits), signed),
        channels)

-----------------------------------------------------------------------------
(* init() of each driver: the set of its outcomes *)

\* The device chooses; from_fmt and the pointers given to ioctl take it over.
\* A format wider than 16 bits is signed.
OssInit(o) ==
    {Failed(o)} \cup
    {Opened(Agreed(o, f[1], f[2], c, r), Native(f[1], f[2], c, r)) :
        f \in {w \in Width \X BOOLEAN : w[1] > 16 => w[2]}, c \in 1 .. 2, r \in Rates}

\* Any number of channels: more than two are taken for stereo.
AlsaInit(o) ==
    {Failed(o)} \cup
    {Opened(Agreed(o, b, s, c, r), Native(b, s, c, r)) :
        b \in Width, s \in BOOLEAN, c \in Channels, r \in Rates}

\* Another number of channels, or a rate further away than 0.5 %, is refused;
\* a rate within it is taken for the one asked for.
SndioInit(o) ==
    LET c == get_channels_from_format(o) IN
    {Failed(o)} \cup
    {Opened(update_format_signed(update_format_bits(o, b), s), Native(b, s, c, o.rate)) :
        b \in Width, s \in BOOLEAN}

\* to_fmt: an encoding of the depth asked for, that of the sign asked for if
\* there is one; or else one that is wider and of that sign, any as they are
\* listed in any order; or else 16 bits, signed.
Matched(o, encodings) ==
    LET depth == get_bits_from_format(o)
        sign  == get_signed_from_format(o)
        Deep(s) == {e \in encodings : e.precision = depth /\ e.signed = s}
        wider == {e \in encodings : e.precision > depth /\ e.signed = sign}
    IN IF Deep(sign) # {} THEN Deep(sign)
       ELSE IF Deep(~sign) # {} THEN Deep(~sign)
       ELSE IF wider # {} THEN wider
       ELSE {[precision |-> 16, signed |-> TRUE]}

NetbsdInit(o) ==
    {Failed(o)} \cup
    {Opened(update_format_signed(update_format_bits(o, m.precision), m.signed),
            Native(m.precision, m.signed, get_channels_from_format(o), o.rate)) :
        m \in UNION {Matched(o, e) : e \in Encodings}}

\* The sign is set before the device has agreed to anything.
BsdInit(o) ==
    LET eight  == "8BIT" \in o.flags
        signed == update_format_signed(o, ~eight)
    IN {Failed(o), Failed(signed),
        Opened(Flagged(signed, "32BIT", FALSE),
               Native(IF eight THEN 8 ELSE 16, ~eight, get_channels_from_format(o), o.rate))}

\* The device takes signed samples, whatever was asked for.
SolarisInit(o) ==
    {Failed(o),
     Opened(Flagged(o, "32BIT", FALSE),
            Native(IF "8BIT" \in o.flags THEN 8 ELSE 16, TRUE,
                   get_channels_from_format(o), o.rate))}

srate == <<44100, 32000, 22050, 16000, 11025, 8000>>

\* 16 bits; mono for stereo, or stereo for mono, if the device insists; the
\* rates of the table if it refuses the one asked for.  Every way out leaves
\* in options what was changed on the way: at the end of the table, a rate of 0.
HpuxInit(o) ==
    LET wide    == Flagged(o, "8BIT", FALSE)
        other   == Flagged(wide, "MONO", "MONO" \notin o.flags)
        rates   == {o.rate} \cup ToSet(srate)
        Then(p) == {Failed(p), Failed([p EXCEPT !.rate = 0])} \cup
                   {Failed([p EXCEPT !.rate = r]) : r \in rates} \cup
                   {Opened(Flagged([p EXCEPT !.rate = r], "32BIT", FALSE),
                           Native(16, TRUE, get_channels_from_format(p), r)) : r \in rates}
    IN {Failed(o), Failed(wide)} \cup Then(wide) \cup Then(other)

\* 8 bits are unsigned; the others are signed.
PulseaudioInit(o) ==
    LET b == get_bits_from_format(o) IN
    {Failed(o),
     Opened(update_format_signed(update_format_bits(o, b), b # 8),
            Native(b, b # 8, get_channels_from_format(o), o.rate))}

\* The unit answers with a format of its own, refused if it has more than two
\* channels; 24 bits are packed.
CoreAudioInit(o) ==
    {Failed(o)} \cup
    {Opened(Agreed(o, b, s, c, r), Device(b, b \div 8, ~big, s, c, r)) :
        b \in Width, s \in BOOLEAN, c \in 1 .. 2, r \in Rates}

\* Only 8 bits may be unsigned; 24 bits become 32.
BeosInit(o) ==
    LET asked  == get_bits_from_format(o)
        bits   == IF asked = 24 THEN 32 ELSE asked
        signed == bits # 8 \/ get_signed_from_format(o)
    IN {Opened(update_format_signed(update_format_bits(o, bits), signed),
               Native(bits, signed, get_channels_from_format(o), o.rate))}

\* More than 16 bits may be refused, and 16 then be tried; 8 are unsigned.
Win32Init(o) ==
    LET asked == get_bits_from_format(o) IN
    {Failed(o)} \cup
    {Opened(update_format_signed(update_format_bits(o, b), b # 8),
            Device(b, b \div 8, ~big, b # 8, get_channels_from_format(o), o.rate)) :
        b \in {asked} \cup (IF asked > 16 THEN {16} ELSE {})}

\* What MCI_MIXSETUP leaves in its block is taken over, any number of channels
\* as with ALSA.  The sign is not in it: the options are made signed, and the
\* device may take unsigned samples.
DartInit(o) ==
    {Failed(o)} \cup
    {Opened(Agreed(o, b, TRUE, c, r), Native(b, s, c, r)) :
        b \in {8, 16}, s \in BOOLEAN, c \in Channels, r \in Rates}

\* Signed; 24 and 32 bits are 32 where ahi.h has them, and 16 elsewhere.
AhiInit(o) ==
    LET asked == get_bits_from_format(o) IN
    {Failed(o)} \cup
    {Opened(update_format_signed(update_format_bits(o, b), TRUE),
            Native(b, TRUE, get_channels_from_format(o), o.rate)) :
        b \in IF asked = 8 THEN {8} ELSE {16} \cup (IF asked > 16 THEN {32} ELSE {})}

WavInit(o) ==
    LET b == get_bits_from_format(o) IN
    {Failed(o),
     Opened(update_format_signed(o, b # 8),
            Device(b, b \div 8, TRUE, b # 8, get_channels_from_format(o), o.rate))}

AiffInit(o) ==
    LET b == get_bits_from_format(o) IN
    {Failed(o),
     Opened(update_format_signed(o, TRUE),
            Device(b, b \div 8, FALSE, TRUE, get_channels_from_format(o), o.rate))}

\* -D endian= chooses the order of the bytes, for a reader who knows it.
FileInit(o) ==
    LET b == get_bits_from_format(o) IN
    {Failed(o)} \cup
    {Opened(o, Device(b, b \div 8, le, get_signed_from_format(o),
                      get_channels_from_format(o), o.rate)) : le \in BOOLEAN}

NullInit(o) == {Opened(o, NoDevice)}

Outcomes(d, o) ==
    CASE d = "oss"     -> OssInit(o)
      [] d = "alsa"    -> AlsaInit(o)
      [] d = "sndio"   -> SndioInit(o)
      [] d = "netbsd"  -> NetbsdInit(o)
      [] d = "bsd"     -> BsdInit(o)
      [] d = "solaris" -> SolarisInit(o)
      [] d = "hpux"    -> HpuxInit(o)
      [] d = "pulseaudio" -> PulseaudioInit(o)
      [] d = "coreaudio" -> CoreAudioInit(o)
      [] d = "beos"    -> BeosInit(o)
      [] d = "win32"   -> Win32Init(o)
      [] d = "dart"    -> DartInit(o)
      [] d = "ahi"     -> AhiInit(o)
      [] d = "wav"     -> WavInit(o)
      [] d = "aiff"    -> AiffInit(o)
      [] d = "file"    -> FileInit(o)
      [] d = "null"    -> NullInit(o)

Writers == {"wav", "aiff", "file"}
\* The drivers whose play() calls write() until all is written.
Loopers == {"oss", "netbsd", "bsd", "solaris", "hpux"}
\* Those whose play() waits for room in a buffer of the driver and fills it.
Queuers == {"coreaudio", "beos", "win32", "dart", "ahi"}

-----------------------------------------------------------------------------
(* select_sound_driver *)

Init ==
    /\ pc = "probe"
    /\ big \in BOOLEAN
    /\ build \in Builds
    /\ pref \in {""} \cup ToSet(build)
    /\ at = 1
    /\ options \in Requests
    /\ dev = NoDevice
    /\ buf = <<>>
    /\ out = <<>>
    /\ size = 0
    /\ header = NoHeader
    /\ sent = <<>>
    /\ lost = FALSE

Passed == pref # "" /\ pref # driver

\* ulong2extended shifts the rate until its highest bit is set.
Endless == driver = "aiff" /\ options.rate = 0

Skip ==
    /\ pc = "probe"
    /\ at <= Len(build)
    /\ Passed
    /\ at' = at + 1
    /\ UNCHANGED <<pc, big, build, pref, options, dev, buf, out, size, header, sent, lost>>

\* What a driver that fails has done to the options stays.
TryDriver ==
    /\ pc = "probe"
    /\ at <= Len(build)
    /\ ~Passed
    /\ ~Endless
    /\ \E r \in Outcomes(driver, options) :
          /\ options' = r.o
          /\ \/ /\ ~r.ok
                /\ at' = at + 1
                /\ UNCHANGED <<pc, dev, header>>
             \/ /\ r.ok
                /\ pc' = "play"
                /\ dev' = r.dev
                /\ header' = IF driver = "wav"
                             THEN [NoHeader EXCEPT !.bits = r.dev.bits,
                                                   !.offset = IF r.dev.bits > 16 THEN 64 ELSE 40]
                             ELSE NoHeader
                /\ UNCHANGED at
    /\ UNCHANGED <<big, build, pref, buf, out, size, sent, lost>>

Hang ==
    /\ pc = "probe"
    /\ at <= Len(build)
    /\ ~Passed
    /\ Endless
    /\ pc' = "hang"
    /\ UNCHANGED <<big, build, pref, at, options, dev, buf, out, size, header, sent, lost>>

NoDriver ==
    /\ pc = "probe"
    /\ at > Len(build)
    /\ pc' = "none"
    /\ UNCHANGED <<big, build, pref, at, options, dev, buf, out, size, header, sent, lost>>

-----------------------------------------------------------------------------
(* play(), deinit() *)

\* An unsigned sample is the signed one and half of the range.
Biased(s, signed) == IF signed THEN s ELSE [s EXCEPT ![1] = (@ + 128) % 256]

\* The sample s on every channel, in the width and the order of the bytes that
\* libxmp is told.
Laid(s) ==
    LET n == get_bits_from_format(options)
        one == SubSeq(s, 1, IF n = 24 THEN 4 ELSE n \div 8)
        native == IF big THEN one ELSE Reverse(one)
    IN IF get_channels_from_format(options) = 1 THEN native ELSE native \o native

\* What libxmp mixes.
Mixed(s) == Laid(Biased(s, get_signed_from_format(options)))

\* What play() makes of it before the first write.
Converted(b) ==
    LET down == IF dev.bits # 24 THEN b
                ELSE IF driver \in Writers \cup {"coreaudio", "win32"}
                     THEN downmix_32_to_24_packed(b, big)
                ELSE downmix_32_to_24_aligned(b, big)
    IN IF driver \in Writers /\ dev.le = big THEN convert_endian(down, dev.bits) ELSE down

Play ==
    /\ pc = "play"
    /\ buf = <<>>
    /\ Len(sent) < MaxFrames
    /\ \E s \in Samples :
          /\ sent' = Append(sent, s)
          /\ buf' = IF driver = "null" THEN <<>> ELSE Converted(Mixed(s))
    /\ UNCHANGED <<pc, big, build, pref, at, options, dev, out, size, header, lost>>

\* One call that writes: all of it, or a part where play() goes on with the
\* rest.  A failure loses the rest of the frame; the file writers count it.
Write ==
    /\ pc = "play"
    /\ buf # <<>>
    /\ \E n \in 0 .. Len(buf) :
          /\ out' = out \o SubSeq(buf, 1, n)
          /\ \/ /\ n > 0
                /\ n = Len(buf) \/ driver \in Loopers
                /\ buf' = SubSeq(buf, n + 1, Len(buf))
                /\ UNCHANGED lost
             \/ /\ n < Len(buf)
                /\ driver \notin Queuers
                /\ n = 0 \/ driver \notin Loopers
                /\ buf' = <<>>
                /\ lost' = TRUE
    /\ size' = IF driver \in Writers THEN size + Len(buf) ELSE size
    /\ UNCHANGED <<pc, big, build, pref, at, options, dev, header, sent>>

\* Mutant: the pad byte is written and not counted.
PadUncounted(h, seekable) ==
    [h EXCEPT !.pad = size % 2,
              !.data = IF seekable THEN size % Field ELSE @,
              !.riff = IF seekable THEN (size + (h.offset + 4 - 8)) % Field ELSE @]

\* deinit() of the WAV writer: write_32l keeps 32 bits of the sizes.
Completed(h, seekable) ==
    LET pad == size % 2 IN
    [h EXCEPT !.pad = pad,
              !.data = IF seekable THEN size % Field ELSE @,
              !.riff = IF seekable THEN (size + pad + (h.offset + 4 - 8)) % Field ELSE @]

\* The output may be a pipe, where fseek fails and the sizes stay 0.
Deinit ==
    /\ pc = "play"
    /\ buf = <<>>
    /\ pc' = "closed"
    /\ header' \in IF driver = "wav"
                   THEN {Completed(header, seekable) : seekable \in BOOLEAN} ELSE {header}
    /\ UNCHANGED <<big, build, pref, at, options, dev, buf, out, size, sent, lost>>

Next == Skip \/ TryDriver \/ Hang \/ NoDriver \/ Play \/ Write \/ Deinit

Spec == Init /\ [][Next]_vars

-----------------------------------------------------------------------------
(* Properties *)

\* The bytes of the sample in one container of the format d, and the sample that
\* a reader of that format takes them for.
Kept(d, g) ==
    LET high == IF d.le THEN Reverse(g) ELSE g
    IN SubSeq(high, d.bytes - d.bits \div 8 + 1, d.bytes)

Read(d, g) == Biased(Kept(d, g), d.signed)

\* These do not make libxmp and the device agree on the sign: two tell the device
\* nothing of an unsigned format and libxmp of no signed one, and one takes the
\* device for signed (sound_solaris.c:122, sound_hpux.c:68, sound_dart.c:161).
DeafToSign == {"solaris", "hpux", "dart"}

SignAgreed == get_signed_from_format(options) = dev.signed

\* There is no format in options for more than two channels; and a driver that is
\* deaf to the sign may have been asked for the wrong one.
Expressible == dev.channels <= 2 /\ (driver \in DeafToSign => SignAgreed)

\* Whatever format was asked for and settled on, what the device or the reader
\* of the file hears is what libxmp mixed, to the precision of the format and in
\* its sign, on as many channels, on machines of both byte orders and however
\* the writes are split (get_bits_from_format against what init() told the
\* device, the 24 bit conversions, convert_endian, the loop around write).  Not
\* claimed of a device with more than two channels, for which frames of two are
\* mixed, nor of one of another sign behind a driver deaf to it.
Heard ==
    pc = "play" /\ driver # "null" /\ buf = <<>> /\ ~lost /\ Expressible =>
        LET Container(k) == SubSeq(out, dev.bytes * (k - 1) + 1, dev.bytes * k)
        IN /\ Len(out) = dev.bytes * dev.channels * Len(sent)
           /\ \A i \in DOMAIN sent, c \in 1 .. dev.channels :
                  Read(dev, Container(dev.channels * (i - 1) + c)) =
                  SubSeq(sent[i], 1, dev.bits \div 8)

\* What options says when a driver is selected, and libxmp is then told, is the
\* format that was settled on: the rate, the channels and the sign, even when
\* drivers tried before changed the options (update_format_*, from_fmt and the
\* assignments to options->rate).  A device with more than two channels is taken
\* for stereo, and no claim is made of its channels.
FormatAgreed ==
    pc = "play" /\ driver # "null" =>
        /\ options.rate = dev.rate
        /\ dev.channels <= 2 => get_channels_from_format(options) = dev.channels
        /\ driver \notin DeafToSign => SignAgreed

\* The sizes in the header of a closed WAV file, if it was not a pipe, are those
\* of its data and of the whole file behind the first eight bytes, and the file
\* is padded to words (data_size_offset in init against deinit).  Only a file
\* whose sizes fit into the fields has such a header.
WavHeader ==
    LET fmt  == IF header.bits > 16 THEN 40 ELSE 16
        head == 12 + (8 + fmt) + 8
        rest == head + Len(out) + header.pad - 8
    IN  pc = "closed" /\ driver = "wav" /\ ~lost /\ header.riff # 0 /\ rest < Field =>
            /\ header.data = Len(out)
            /\ header.riff = rest
            /\ rest % 2 = 0

=============================================================================
