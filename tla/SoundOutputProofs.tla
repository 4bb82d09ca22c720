-------------------------- MODULE SoundOutputProofs --------------------------
(***************************************************************************)
(* Proofs about SoundOutput: whatever drivers the program is compiled with *)
(* and whatever the devices answer, the driver selected and libxmp agree   *)
(* on the format, and what is heard is what was mixed.                     *)
(***************************************************************************)
EXTENDS SoundOutput, SequenceTheorems, TLAPS

-----------------------------------------------------------------------------
(* The format in struct options                                            *)

\* update_format_bits sets the width and nothing else.
LEMMA BitsUpdated ==
    ASSUME NEW o \in Format, NEW b \in Width
    PROVE  /\ update_format_bits(o, b) \in Format
           /\ get_bits_from_format(update_format_bits(o, b)) = b
           /\ get_signed_from_format(update_format_bits(o, b)) = get_signed_from_format(o)
           /\ get_channels_from_format(update_format_bits(o, b)) = get_channels_from_format(o)
           /\ update_format_bits(o, b).rate = o.rate
BY DEF Format, Width, update_format_bits, get_bits_from_format, get_signed_from_format,
       get_channels_from_format

\* update_format_signed sets the sign and nothing else.
LEMMA SignUpdated ==
    ASSUME NEW o \in Format, NEW s \in BOOLEAN
    PROVE  /\ update_format_signed(o, s) \in Format
           /\ get_bits_from_format(update_format_signed(o, s)) = get_bits_from_format(o)
           /\ get_signed_from_format(update_format_signed(o, s)) = s
           /\ get_channels_from_format(update_format_signed(o, s)) = get_channels_from_format(o)
           /\ update_format_signed(o, s).rate = o.rate
BY DEF Format, Flagged, update_format_signed, get_bits_from_format, get_signed_from_format,
       get_channels_from_format

\* update_format_channels sets the channels and nothing else.
LEMMA ChannelsUpdated ==
    ASSUME NEW o \in Format, NEW c \in Nat \ {0}
    PROVE  /\ update_format_channels(o, c) \in Format
           /\ get_bits_from_format(update_format_channels(o, c)) = get_bits_from_format(o)
           /\ get_signed_from_format(update_format_channels(o, c)) = get_signed_from_format(o)
           /\ get_channels_from_format(update_format_channels(o, c)) = IF c = 1 THEN 1 ELSE 2
           /\ update_format_channels(o, c).rate = o.rate
BY DEF Format, Flagged, update_format_channels, get_bits_from_format,
       get_signed_from_format, get_channels_from_format

\* A new rate leaves the flags alone.
LEMMA RateUpdated ==
    ASSUME NEW o \in Format, NEW r \in Nat
    PROVE  /\ [o EXCEPT !.rate = r] \in Format
           /\ get_bits_from_format([o EXCEPT !.rate = r]) = get_bits_from_format(o)
           /\ get_signed_from_format([o EXCEPT !.rate = r]) = get_signed_from_format(o)
           /\ get_channels_from_format([o EXCEPT !.rate = r]) = get_channels_from_format(o)
           /\ [o EXCEPT !.rate = r].rate = r
BY DEF Format, get_bits_from_format, get_signed_from_format, get_channels_from_format

\* The values the options may have.
LEMMA FormatValues ==
    ASSUME NEW o \in Format
    PROVE  /\ get_bits_from_format(o) \in Width
           /\ get_signed_from_format(o) \in BOOLEAN
           /\ get_channels_from_format(o) \in 1 .. 2
           /\ o.rate \in Nat
BY DEF Format, Width, get_bits_from_format, get_signed_from_format, get_channels_from_format

\* Without the flag of 32 bits a format has 8 or 16.
LEMMA WideCleared ==
    ASSUME NEW o \in Format
    PROVE  /\ Flagged(o, "32BIT", FALSE) \in Format
           /\ get_bits_from_format(Flagged(o, "32BIT", FALSE)) =
                  IF "8BIT" \in o.flags THEN 8 ELSE 16
           /\ get_signed_from_format(Flagged(o, "32BIT", FALSE)) = get_signed_from_format(o)
           /\ get_channels_from_format(Flagged(o, "32BIT", FALSE)) = get_channels_from_format(o)
           /\ Flagged(o, "32BIT", FALSE).rate = o.rate
BY DEF Format, Flagged, get_bits_from_format, get_signed_from_format, get_channels_from_format

-----------------------------------------------------------------------------
(* What init() settles on                                                  *)

\* The drivers that pack 24 bits into three bytes.
Packers == Writers \cup {"coreaudio", "win32"}

\* The options and the device of the driver d are of one format: its width and
\* the width of its containers, the order of the bytes, the sign unless the
\* driver does not tell, the channels unless there are more than two, and the
\* rate.
Agree(d, o, v) ==
    /\ v.bits = get_bits_from_format(o)
    /\ v.bytes = IF v.bits = 24 THEN (IF d \in Packers THEN 3 ELSE 4) ELSE v.bits \div 8
    /\ v.le \in BOOLEAN /\ (d \notin Writers => v.le = ~big)
    /\ get_signed_from_format(o) = v.signed \/ d \in DeafToSign
    /\ v.signed \in BOOLEAN
    /\ v.channels \in Nat \ {0}
    /\ v.channels <= 2 => v.channels = get_channels_from_format(o)
    /\ v.rate = o.rate

\* What an outcome r of init() does to the options, and that it agrees.
Sound(d, r) ==
    /\ r.o \in Format
    /\ r.ok \in BOOLEAN
    /\ r.ok => d = "null" \/ Agree(d, r.o, r.dev)

\* A failure that leaves a proper format behind, and an agreement.
LEMMA Outcome ==
    ASSUME NEW d, NEW o \in Format, NEW v
    PROVE  /\ Sound(d, Failed(o))
           /\ Agree(d, o, v) \/ d = "null" => Sound(d, Opened(o, v))
BY DEF Sound, Failed, Opened, Agree

\* A device of the machine, for drivers that do not pack; with any number of
\* channels, and with those asked for.
LEMMA NativeAnswers ==
    ASSUME NEW d \in Drivers \ Packers, NEW o \in Format, NEW s \in BOOLEAN,
           big \in BOOLEAN, get_signed_from_format(o) = s \/ d \in DeafToSign
    PROVE  \A c \in Nat \ {0} :
               (c <= 2 => c = get_channels_from_format(o)) =>
                   Agree(d, o, Native(get_bits_from_format(o), s, c, o.rate))
BY DEF Agree, Native, Device, Packers

LEMMA NativeAgrees ==
    ASSUME NEW d \in Drivers \ Packers, NEW o \in Format, NEW s \in BOOLEAN,
           big \in BOOLEAN, get_signed_from_format(o) = s \/ d \in DeafToSign
    PROVE  Agree(d, o, Native(get_bits_from_format(o), s, get_channels_from_format(o), o.rate))
<1> DEFINE c == get_channels_from_format(o)
<1>1. c \in Nat \ {0}
  BY FormatValues
<1> QED
  BY <1>1, NativeAnswers

\* Everything at once, as the drivers do that take over what a device says.
LEMMA AgreedFormat ==
    ASSUME NEW o \in Format, NEW b \in Width, NEW s \in BOOLEAN, NEW c \in Nat \ {0},
           NEW r \in Nat
    PROVE  /\ Agreed(o, b, s, c, r) \in Format
           /\ get_bits_from_format(Agreed(o, b, s, c, r)) = b
           /\ get_signed_from_format(Agreed(o, b, s, c, r)) = s
           /\ get_channels_from_format(Agreed(o, b, s, c, r)) = IF c = 1 THEN 1 ELSE 2
           /\ Agreed(o, b, s, c, r).rate = r
<1> DEFINE p == [o EXCEPT !.rate = r]
           q == update_format_bits(p, b)
           t == update_format_signed(q, s)
<1>1. p \in Format /\ p.rate = r
  BY RateUpdated
<1> HIDE DEF p
<1>2. q \in Format /\ get_bits_from_format(q) = b /\ q.rate = r
  BY <1>1, BitsUpdated
<1> HIDE DEF q
<1>3. /\ t \in Format /\ get_bits_from_format(t) = b /\ get_signed_from_format(t) = s
      /\ t.rate = r
  BY <1>2, SignUpdated
<1> HIDE DEF t
<1>4. Agreed(o, b, s, c, r) = update_format_channels(t, c)
  BY DEF Agreed, p, q, t
<1> QED
  BY <1>3, <1>4, ChannelsUpdated

\* The drivers whose device chooses: what it answers is taken over.
LEMMA TakenOver ==
    ASSUME OutputAssumption, big \in BOOLEAN, NEW o \in Format
    PROVE  /\ \A r \in OssInit(o) : Sound("oss", r)
           /\ \A r \in AlsaInit(o) : Sound("alsa", r)
           /\ \A r \in CoreAudioInit(o) : Sound("coreaudio", r)
           /\ \A r \in DartInit(o) : Sound("dart", r)
<1>1. \A d : Sound(d, Failed(o))
  BY Outcome
<1>2. ASSUME NEW b \in Width, NEW s \in BOOLEAN, NEW c \in Nat \ {0}, NEW r \in Rates
      PROVE  /\ \A d \in Drivers \ Packers, t \in BOOLEAN :
                    t = s \/ d \in DeafToSign =>
                        Sound(d, Opened(Agreed(o, b, s, c, r), Native(b, t, c, r)))
             /\ Sound("coreaudio", Opened(Agreed(o, b, s, c, r), Device(b, b \div 8, ~big, s, c, r)))
  <2> DEFINE p == Agreed(o, b, s, c, r)
  <2>1. r \in Nat
    BY DEF OutputAssumption
  <2>2. /\ p \in Format /\ get_bits_from_format(p) = b /\ get_signed_from_format(p) = s
        /\ get_channels_from_format(p) = (IF c = 1 THEN 1 ELSE 2) /\ p.rate = r
    BY <2>1, AgreedFormat
  <2> HIDE DEF p
  <2>3. ASSUME NEW d \in Drivers \ Packers, NEW t \in BOOLEAN, t = s \/ d \in DeafToSign
        PROVE  Sound(d, Opened(p, Native(b, t, c, r)))
    <3>1. Agree(d, p, Native(b, t, c, r))
      BY <2>2, <2>3, NativeAnswers
    <3> QED
      BY <2>2, <3>1, Outcome
  <2>4. Agree("coreaudio", p, Device(b, b \div 8, ~big, s, c, r))
    BY <2>2 DEF Agree, Device, Packers, Writers, Width
  <2>5. Sound("coreaudio", Opened(p, Device(b, b \div 8, ~big, s, c, r)))
    BY <2>2, <2>4, Outcome
  <2> QED
    BY <2>3, <2>5 DEF p
<1>3. /\ {"oss", "alsa", "dart"} \subseteq Drivers \ Packers /\ "dart" \in DeafToSign
      /\ {8, 16} \subseteq Width /\ TRUE \in BOOLEAN
      /\ (\A c \in 1 .. 2 : c \in Nat \ {0}) /\ Channels \subseteq Nat \ {0}
  BY OutputAssumption DEF Drivers, Packers, Writers, Width, DeafToSign
<1>4. \A r \in OssInit(o) : Sound("oss", r)
  BY ONLY <1>1, <1>2, <1>3 DEF OssInit
<1>5. \A r \in AlsaInit(o) : Sound("alsa", r)
  BY ONLY <1>1, <1>2, <1>3 DEF AlsaInit
<1>6. \A r \in CoreAudioInit(o) : Sound("coreaudio", r)
  <2> DEFINE Answer(b, s, c, q) == Opened(Agreed(o, b, s, c, q), Device(b, b \div 8, ~big, s, c, q))
  <2>1. \A b \in Width, s \in BOOLEAN, c \in 1 .. 2, q \in Rates :
            Sound("coreaudio", Answer(b, s, c, q))
    BY ONLY <1>2, <1>3
  <2>2. CoreAudioInit(o) = {Failed(o)} \cup
            {Answer(b, s, c, q) : b \in Width, s \in BOOLEAN, c \in 1 .. 2, q \in Rates}
    BY DEF CoreAudioInit
  <2> HIDE DEF Answer
  <2> QED
    BY ONLY <1>1, <2>1, <2>2
<1>7. \A r \in DartInit(o) : Sound("dart", r)
  <2> DEFINE widths == {8, 16}
             yes == TRUE
  <2>1. widths \subseteq Width /\ yes \in BOOLEAN
    BY <1>3
  <2>2. DartInit(o) = {Failed(o)} \cup
            {Opened(Agreed(o, b, yes, c, r), Native(b, t, c, r)) :
                b \in widths, t \in BOOLEAN, c \in Channels, r \in Rates}
    BY DEF DartInit
  <2> HIDE DEF widths, yes
  <2>3. \A b \in widths, t \in BOOLEAN, c \in Channels, r \in Rates :
            Sound("dart", Opened(Agreed(o, b, yes, c, r), Native(b, t, c, r)))
    BY <1>2, <1>3, <2>1
  <2> QED
    BY <1>1, <2>2, <2>3
<1> QED
  BY <1>4, <1>5, <1>6, <1>7

\* The drivers that set a width and a sign and keep the channels and the rate.
LEMMA WidthAndSign ==
    ASSUME big \in BOOLEAN, NEW d \in Drivers \ Packers, NEW o \in Format,
           NEW b \in Width, NEW s \in BOOLEAN
    PROVE  Sound(d, Opened(update_format_signed(update_format_bits(o, b), s),
                           Native(b, s, get_channels_from_format(o), o.rate)))
<1> DEFINE p == update_format_bits(o, b)
           q == update_format_signed(p, s)
<1>1. /\ p \in Format /\ get_bits_from_format(p) = b
      /\ get_channels_from_format(p) = get_channels_from_format(o) /\ p.rate = o.rate
  BY BitsUpdated
<1> HIDE DEF p
<1>2. /\ q \in Format /\ get_bits_from_format(q) = b /\ get_signed_from_format(q) = s
      /\ get_channels_from_format(q) = get_channels_from_format(o) /\ q.rate = o.rate
  BY <1>1, SignUpdated
<1> HIDE DEF q
<1>3. Agree(d, q, Native(b, s, get_channels_from_format(o), o.rate))
  BY <1>2, NativeAgrees
<1>4. Sound(d, Opened(q, Native(b, s, get_channels_from_format(o), o.rate)))
  BY <1>2, <1>3, Outcome
<1> QED
  BY <1>4 DEF p, q

\* Those of them that choose the width and the sign.
LEMMA Chosen ==
    ASSUME OutputAssumption, big \in BOOLEAN, NEW o \in Format
    PROVE  /\ \A r \in SndioInit(o) : Sound("sndio", r)
           /\ \A r \in NetbsdInit(o) : Sound("netbsd", r)
           /\ \A r \in PulseaudioInit(o) : Sound("pulseaudio", r)
           /\ \A r \in BeosInit(o) : Sound("beos", r)
           /\ \A r \in AhiInit(o) : Sound("ahi", r)
<1>1. \A d : Sound(d, Failed(o))
  BY Outcome
<1>2. /\ {"sndio", "netbsd", "pulseaudio", "beos", "ahi"} \subseteq Drivers \ Packers
      /\ {8, 16, 32} \subseteq Width
  BY DEF Drivers, Packers, Writers, Width
<1>3. get_bits_from_format(o) \in Width /\ get_signed_from_format(o) \in BOOLEAN
  BY FormatValues
<1>4. \A r \in SndioInit(o) : Sound("sndio", r)
  BY <1>1, <1>2, WidthAndSign DEF SndioInit
<1>5. \A r \in NetbsdInit(o) : Sound("netbsd", r)
  <2>1. ASSUME NEW e \in Encodings, NEW m \in Matched(o, e)
        PROVE  m.precision \in Width /\ m.signed \in BOOLEAN
    <3>1. \A x \in e : x.precision \in Width /\ x.signed \in BOOLEAN
      BY DEF OutputAssumption
    <3>2. m \in e \/ m = [precision |-> 16, signed |-> TRUE]
      BY DEF Matched
    <3>3. CASE m \in e
      BY <3>1, <3>3
    <3>4. CASE m = [precision |-> 16, signed |-> TRUE]
      BY <1>2, <3>4
    <3> QED
      BY <3>2, <3>3, <3>4
  <2>2. ASSUME NEW m \in UNION {Matched(o, e) : e \in Encodings}
        PROVE  Sound("netbsd",
                   Opened(update_format_signed(update_format_bits(o, m.precision), m.signed),
                          Native(m.precision, m.signed, get_channels_from_format(o), o.rate)))
    <3>1. m.precision \in Width /\ m.signed \in BOOLEAN
      BY <2>1
    <3> QED
      BY <1>2, <3>1, WidthAndSign
  <2> QED
    BY <1>1, <2>2 DEF NetbsdInit
<1>6. \A r \in PulseaudioInit(o) : Sound("pulseaudio", r)
  <2> DEFINE b == get_bits_from_format(o)
             s == b # 8
  <2>1. b \in Width /\ s \in BOOLEAN
    BY <1>3
  <2>2. PulseaudioInit(o) = {Failed(o),
            Opened(update_format_signed(update_format_bits(o, b), s),
                   Native(b, s, get_channels_from_format(o), o.rate))}
    BY DEF PulseaudioInit
  <2> HIDE DEF b, s
  <2> QED
    BY <1>1, <1>2, <2>1, <2>2, WidthAndSign
<1>7. \A r \in BeosInit(o) : Sound("beos", r)
  <2> DEFINE asked == get_bits_from_format(o)
             b == IF asked = 24 THEN 32 ELSE asked
             s == b # 8 \/ get_signed_from_format(o)
  <2>1. b \in Width /\ s \in BOOLEAN
    BY <1>2, <1>3
  <2>2. BeosInit(o) = {Opened(update_format_signed(update_format_bits(o, b), s),
                              Native(b, s, get_channels_from_format(o), o.rate))}
    BY DEF BeosInit
  <2> HIDE DEF b, s
  <2> QED
    BY <1>2, <2>1, <2>2, WidthAndSign
<1>8. \A r \in AhiInit(o) : Sound("ahi", r)
  <2>1. \A b \in {8, 16, 32} :
            Sound("ahi", Opened(update_format_signed(update_format_bits(o, b), TRUE),
                                Native(b, TRUE, get_channels_from_format(o), o.rate)))
    BY <1>2, WidthAndSign
  <2> QED
    BY ONLY <1>1, <2>1 DEF AhiInit
<1> QED
  BY <1>4, <1>5, <1>6, <1>7, <1>8

\* Those that take 8 or 16 bits, and the sign they tell the device or none.
LEMMA Narrow ==
    ASSUME big \in BOOLEAN, NEW o \in Format
    PROVE  /\ \A r \in BsdInit(o) : Sound("bsd", r)
           /\ \A r \in SolarisInit(o) : Sound("solaris", r)
<1>1. {"bsd", "solaris"} \subseteq Drivers \ Packers
  BY DEF Drivers, Packers, Writers
<1>2. \A r \in SolarisInit(o) : Sound("solaris", r)
  <2> DEFINE p == Flagged(o, "32BIT", FALSE)
             b == IF "8BIT" \in o.flags THEN 8 ELSE 16
             c == get_channels_from_format(o)
  <2>1. /\ p \in Format /\ get_bits_from_format(p) = b
        /\ get_channels_from_format(p) = c /\ p.rate = o.rate
    BY WideCleared
  <2>2. SolarisInit(o) = {Failed(o), Opened(p, Native(b, TRUE, c, o.rate))}
    BY DEF SolarisInit
  <2> HIDE DEF p, b, c
  <2>3. Agree("solaris", p, Native(b, TRUE, c, o.rate))
    BY <1>1, <2>1, NativeAgrees DEF DeafToSign
  <2>4. /\ Sound("solaris", Failed(o))
        /\ Sound("solaris", Opened(p, Native(b, TRUE, c, o.rate)))
    BY <2>1, <2>3, Outcome
  <2> QED
    BY <2>2, <2>4
<1>3. \A r \in BsdInit(o) : Sound("bsd", r)
  <2> DEFINE s == "8BIT" \notin o.flags
             q == update_format_signed(o, s)
             p == Flagged(q, "32BIT", FALSE)
             b == IF "8BIT" \in o.flags THEN 8 ELSE 16
             c == get_channels_from_format(o)
  <2>1. /\ q \in Format /\ get_signed_from_format(q) = s
        /\ get_channels_from_format(q) = c /\ q.rate = o.rate
    BY SignUpdated
  <2>2. "8BIT" \in q.flags <=> "8BIT" \in o.flags
    BY DEF update_format_signed, Flagged, Format
  <2>3. BsdInit(o) = {Failed(o), Failed(q), Opened(p, Native(b, s, c, o.rate))}
    BY DEF BsdInit
  <2>4. /\ p \in Format /\ get_bits_from_format(p) = b /\ get_signed_from_format(p) = s
        /\ get_channels_from_format(p) = c /\ p.rate = o.rate
    <3> HIDE DEF q
    <3> QED
      BY <2>1, <2>2, WideCleared
  <2>5. s \in BOOLEAN
    OBVIOUS
  <2> HIDE DEF p, q, s, b, c
  <2>6. Agree("bsd", p, Native(b, s, c, o.rate))
    BY <1>1, <2>4, <2>5, NativeAgrees
  <2> QED
    BY <2>1, <2>3, <2>4, <2>6, Outcome
<1> QED
  BY <1>2, <1>3

\* HP-UX: whatever was changed on the way, 16 bits and what is left.
LEMMA HpuxAgrees ==
    ASSUME big \in BOOLEAN, NEW o \in Format
    PROVE  \A r \in HpuxInit(o) : Sound("hpux", r)
<1> DEFINE wide == Flagged(o, "8BIT", FALSE)
           other == Flagged(wide, "MONO", "MONO" \notin o.flags)
           rates == {o.rate} \cup ToSet(srate)
           Good(p) == p \in Format /\ "8BIT" \notin p.flags
<1>1. Good(wide) /\ Good(other)
  <2>1. Good(wide)
    BY DEF Flagged, Format
  <2> HIDE DEF wide
  <2>2. Good(other)
    BY <2>1 DEF Flagged, Format
  <2> QED
    BY <2>1, <2>2
<1>2. \A q \in rates : q \in Nat
  <2>1. o.rate \in Nat
    BY FormatValues
  <2>2. \A k \in DOMAIN srate : srate[k] \in Nat
    BY DEF srate
  <2> QED
    BY <2>1, <2>2 DEF ToSet
<1>3. ASSUME NEW p, Good(p), NEW q \in Nat
      PROVE  /\ Sound("hpux", Failed(p))
             /\ Sound("hpux", Failed([p EXCEPT !.rate = q]))
             /\ Sound("hpux", Opened(Flagged([p EXCEPT !.rate = q], "32BIT", FALSE),
                                     Native(16, TRUE, get_channels_from_format(p), q)))
  <2> DEFINE t == [p EXCEPT !.rate = q]
             u == Flagged(t, "32BIT", FALSE)
  <2>1. p \in Format /\ "8BIT" \notin p.flags
    BY <1>3
  <2>2. /\ t \in Format /\ t.rate = q
        /\ get_channels_from_format(t) = get_channels_from_format(p)
    BY <2>1, RateUpdated
  <2>3. "8BIT" \notin t.flags
    BY <2>1 DEF Format
  <2> HIDE DEF t
  <2>4. /\ u \in Format /\ get_bits_from_format(u) = 16 /\ u.rate = q
        /\ get_channels_from_format(u) = get_channels_from_format(p)
    BY <2>2, <2>3, WideCleared
  <2> HIDE DEF u
  <2>5. "hpux" \in Drivers \ Packers /\ "hpux" \in DeafToSign
    BY DEF Drivers, Packers, Writers, DeafToSign
  <2>6. Agree("hpux", u, Native(16, TRUE, get_channels_from_format(p), q))
    BY <2>4, <2>5, NativeAgrees
  <2>7. /\ Sound("hpux", Failed(p)) /\ Sound("hpux", Failed(t))
        /\ Sound("hpux", Opened(u, Native(16, TRUE, get_channels_from_format(p), q)))
    BY <2>1, <2>2, <2>4, <2>6, Outcome
  <2> QED
    BY <2>7 DEF t, u
<1> DEFINE yes == TRUE
           Then(p) == {Failed(p), Failed([p EXCEPT !.rate = 0])} \cup
                      {Failed([p EXCEPT !.rate = r]) : r \in rates} \cup
                      {Opened(Flagged([p EXCEPT !.rate = r], "32BIT", FALSE),
                              Native(16, yes, get_channels_from_format(p), r)) : r \in rates}
<1>4. HpuxInit(o) = {Failed(o), Failed(wide)} \cup Then(wide) \cup Then(other)
  BY DEF HpuxInit
<1> HIDE DEF wide, other, rates, Good
<1>5. ASSUME NEW p, Good(p), NEW r \in Then(p) PROVE Sound("hpux", r)
  <2>1. /\ Sound("hpux", Failed(p)) /\ Sound("hpux", Failed([p EXCEPT !.rate = 0]))
        /\ \A q \in rates : Sound("hpux", Failed([p EXCEPT !.rate = q]))
    BY <1>2, <1>3, <1>5
  <2>2. \A q \in rates :
            Sound("hpux", Opened(Flagged([p EXCEPT !.rate = q], "32BIT", FALSE),
                                 Native(16, yes, get_channels_from_format(p), q)))
    BY <1>2, <1>3, <1>5
  <2> HIDE DEF yes
  <2> QED
    BY <2>1, <2>2
<1>6. Sound("hpux", Failed(o)) /\ Sound("hpux", Failed(wide))
  BY <1>1, <1>3, Outcome
<1> HIDE DEF Then
<1> QED
  BY <1>1, <1>4, <1>5, <1>6

\* Windows packs 24 bits; 8 bits are unsigned.
LEMMA Win32Agrees ==
    ASSUME big \in BOOLEAN, NEW o \in Format
    PROVE  \A r \in Win32Init(o) : Sound("win32", r)
<1> DEFINE asked == get_bits_from_format(o)
           c == get_channels_from_format(o)
           widths == {asked} \cup (IF asked > 16 THEN {16} ELSE {})
<1>1. widths \subseteq Width /\ c \in 1 .. 2
  BY FormatValues DEF Width
<1>2. Win32Init(o) = {Failed(o)} \cup
          {Opened(update_format_signed(update_format_bits(o, b), b # 8),
                  Device(b, b \div 8, ~big, b # 8, c, o.rate)) : b \in widths}
  BY DEF Win32Init
<1>3. ASSUME NEW b \in widths
      PROVE  Sound("win32", Opened(update_format_signed(update_format_bits(o, b), b # 8),
                                   Device(b, b \div 8, ~big, b # 8, c, o.rate)))
  <2> DEFINE s == b # 8
             p == update_format_bits(o, b)
             q == update_format_signed(p, s)
  <2>1. b \in Width /\ s \in BOOLEAN
    BY <1>1
  <2>2. /\ p \in Format /\ get_bits_from_format(p) = b
        /\ get_channels_from_format(p) = c /\ p.rate = o.rate
    BY <2>1, BitsUpdated
  <2> HIDE DEF p, s
  <2>3. /\ q \in Format /\ get_bits_from_format(q) = b /\ get_signed_from_format(q) = s
        /\ get_channels_from_format(q) = c /\ q.rate = o.rate
    BY <2>1, <2>2, SignUpdated
  <2> HIDE DEF q
  <2>4. Agree("win32", q, Device(b, b \div 8, ~big, s, c, o.rate))
    BY <1>1, <2>1, <2>3 DEF Agree, Device, Packers, Writers, Width
  <2>5. Sound("win32", Opened(q, Device(b, b \div 8, ~big, s, c, o.rate)))
    BY <2>3, <2>4, Outcome
  <2> QED
    BY <2>5 DEF p, q, s
<1> HIDE DEF widths, c
<1> QED
  BY <1>2, <1>3, Outcome

\* The file writers keep the width, the channels and the rate.
LEMMA WritersAgree ==
    ASSUME big \in BOOLEAN, NEW o \in Format
    PROVE  /\ \A r \in WavInit(o) : Sound("wav", r)
           /\ \A r \in AiffInit(o) : Sound("aiff", r)
           /\ \A r \in FileInit(o) : Sound("file", r)
           /\ \A r \in NullInit(o) : Sound("null", r)
<1> DEFINE b == get_bits_from_format(o)
           c == get_channels_from_format(o)
<1>1. b \in Width /\ c \in 1 .. 2 /\ get_signed_from_format(o) \in BOOLEAN
  BY FormatValues
<1>2. ASSUME NEW d \in Writers, NEW p \in Format, NEW le \in BOOLEAN, NEW s \in BOOLEAN,
             get_bits_from_format(p) = b, get_channels_from_format(p) = c,
             p.rate = o.rate, get_signed_from_format(p) = s
      PROVE  Sound(d, Opened(p, Device(b, b \div 8, le, s, c, o.rate)))
  <2> HIDE DEF b, c
  <2>1. Agree(d, p, Device(b, b \div 8, le, s, c, o.rate))
    BY <1>1, <1>2 DEF Agree, Device, Packers, Width
  <2> QED
    BY <2>1, Outcome
<1>3. \A d : Sound(d, Failed(o))
  BY Outcome
<1>4. \A r \in WavInit(o) : Sound("wav", r)
  <2> DEFINE s == b # 8
             p == update_format_signed(o, s)
  <2>1. /\ p \in Format /\ get_bits_from_format(p) = b /\ get_channels_from_format(p) = c
        /\ p.rate = o.rate /\ get_signed_from_format(p) = s /\ s \in BOOLEAN
    BY SignUpdated
  <2>2. WavInit(o) = {Failed(o), Opened(p, Device(b, b \div 8, TRUE, s, c, o.rate))}
    BY DEF WavInit
  <2> HIDE DEF p, s, b, c
  <2>3. Sound("wav", Opened(p, Device(b, b \div 8, TRUE, s, c, o.rate)))
    BY <1>2, <2>1 DEF Writers
  <2> QED
    BY <1>3, <2>2, <2>3
<1>5. \A r \in AiffInit(o) : Sound("aiff", r)
  <2> DEFINE p == update_format_signed(o, TRUE)
  <2>1. /\ p \in Format /\ get_bits_from_format(p) = b /\ get_channels_from_format(p) = c
        /\ p.rate = o.rate /\ get_signed_from_format(p) = TRUE
    BY SignUpdated
  <2>2. AiffInit(o) = {Failed(o), Opened(p, Device(b, b \div 8, FALSE, TRUE, c, o.rate))}
    BY DEF AiffInit
  <2> HIDE DEF p, b, c
  <2>3. Sound("aiff", Opened(p, Device(b, b \div 8, FALSE, TRUE, c, o.rate)))
    BY <1>2, <2>1 DEF Writers
  <2> QED
    BY <1>3, <2>2, <2>3
<1>6. \A r \in FileInit(o) : Sound("file", r)
  <2> DEFINE s == get_signed_from_format(o)
  <2>1. FileInit(o) = {Failed(o)} \cup
            {Opened(o, Device(b, b \div 8, le, s, c, o.rate)) : le \in BOOLEAN}
    BY DEF FileInit
  <2>2. \A le \in BOOLEAN : Sound("file", Opened(o, Device(b, b \div 8, le, s, c, o.rate)))
    BY <1>1, <1>2 DEF Writers
  <2> HIDE DEF s, b, c
  <2> QED
    BY <1>3, <2>1, <2>2
<1>7. \A r \in NullInit(o) : Sound("null", r)
  BY Outcome DEF NullInit
<1> QED
  BY <1>4, <1>5, <1>6, <1>7

\* Every outcome of every driver is sound.
LEMMA OutcomesSound ==
    ASSUME OutputAssumption, big \in BOOLEAN, NEW d \in Drivers, NEW o \in Format
    PROVE  \A r \in Outcomes(d, o) : Sound(d, r)
<1>1. CASE d \in {"oss", "alsa", "coreaudio", "dart"}
  BY <1>1, TakenOver DEF Outcomes
<1>2. CASE d \in {"sndio", "netbsd", "pulseaudio", "beos", "ahi"}
  BY <1>2, Chosen DEF Outcomes
<1>3. CASE d \in {"bsd", "solaris"}
  BY <1>3, Narrow DEF Outcomes
<1>4. CASE d \in {"hpux", "win32"}
  BY <1>4, HpuxAgrees, Win32Agrees DEF Outcomes
<1>5. CASE d \in {"wav", "aiff", "file", "null"}
  BY <1>5, WritersAgree DEF Outcomes
<1> QED
  BY <1>1, <1>2, <1>3, <1>4, <1>5 DEF Drivers

-----------------------------------------------------------------------------
(* The conversions                                                         *)

Byte == 0 .. 255

\* One sequence behind another.
LEMMA Joined ==
    ASSUME NEW t \in Seq(Byte), NEW u \in Seq(Byte)
    PROVE  /\ t \o u \in Seq(Byte)
           /\ Len(t \o u) = Len(t) + Len(u)
           /\ \A k \in 1 .. Len(t) : (t \o u)[k] = t[k]
           /\ \A k \in 1 .. Len(u) : (t \o u)[Len(t) + k] = u[k]
<1>1. Len(t) \in Nat /\ Len(u) \in Nat
  OBVIOUS
<1>2. /\ t \o u \in Seq(Byte)
      /\ Len(t \o u) = Len(t) + Len(u)
      /\ \A k \in 1 .. Len(t) + Len(u) :
             (t \o u)[k] = IF k <= Len(t) THEN t[k] ELSE u[k - Len(t)]
  BY ConcatProperties
<1>3. \A k \in 1 .. Len(t) : (t \o u)[k] = t[k]
  BY <1>1, <1>2
<1>4. ASSUME NEW k \in 1 .. Len(u)
      PROVE  (t \o u)[Len(t) + k] = u[k]
  <2>1. Len(t) + k \in 1 .. Len(t) + Len(u) /\ ~(Len(t) + k <= Len(t))
        /\ Len(t) + k - Len(t) = k
    BY <1>1
  <2> QED
    BY <1>2, <2>1
<1> QED
  BY <1>2, <1>3, <1>4

\* Three bytes of each of m words.
LEMMA PackedBytes ==
    ASSUME NEW buffer \in Seq(Byte), NEW m \in Nat, Len(buffer) = 4 * m, NEW from \in 1 .. 2
    PROVE  /\ Packed(buffer, from) \in Seq(Byte)
           /\ Len(Packed(buffer, from)) = 3 * m
           /\ \A i \in 0 .. m - 1, j \in 1 .. 3 :
                  Packed(buffer, from)[3 * i + j] = buffer[4 * i + from + j - 1]
<1> DEFINE p == Packed(buffer, from)
           place(k) == 4 * ((k - 1) \div 3) + from + ((k - 1) % 3)
<1>1. Len(buffer) \div 4 = m
  OBVIOUS
<1>2. p = [k \in 1 .. 3 * m |-> buffer[place(k)]]
  BY <1>1 DEF Packed
<1>3. ASSUME NEW k \in 1 .. 3 * m PROVE place(k) \in 1 .. Len(buffer)
  OBVIOUS
<1>4. \A k \in 1 .. Len(buffer) : buffer[k] \in Byte
  BY ElementOfSeq
<1>5. p \in Seq(Byte) /\ Len(p) = 3 * m
  <2>1. 3 * m \in Nat
    OBVIOUS
  <2>2. p \in [1 .. 3 * m -> Byte]
    BY <1>2, <1>3, <1>4
  <2> HIDE DEF p
  <2> QED
    BY <2>1, <2>2
<1>6. ASSUME NEW i \in 0 .. m - 1, NEW j \in 1 .. 3
      PROVE  p[3 * i + j] = buffer[4 * i + from + j - 1]
  <2>1. /\ 3 * i + j \in 1 .. 3 * m
        /\ place(3 * i + j) = 4 * i + from + j - 1
    OBVIOUS
  <2> QED
    BY <1>2, <2>1
<1> QED
  BY <1>5, <1>6

\* The words are shifted one by one.
LEMMA AlignedBytes ==
    ASSUME NEW buffer \in Seq(Byte), NEW m \in Nat, Len(buffer) = 4 * m, NEW b \in BOOLEAN
    PROVE  /\ downmix_32_to_24_aligned(buffer, b) \in Seq(Byte)
           /\ Len(downmix_32_to_24_aligned(buffer, b)) = 4 * m
           /\ \A i \in 0 .. m - 1, j \in 1 .. 4 :
                  downmix_32_to_24_aligned(buffer, b)[4 * i + j] =
                      IF j = (IF b THEN 1 ELSE 4) THEN SignByte(buffer[4 * i + j])
                      ELSE IF b THEN buffer[4 * i + j - 1] ELSE buffer[4 * i + j + 1]
<1> DEFINE p == downmix_32_to_24_aligned(buffer, b)
           v(k) == IF (k - 1) % 4 = (IF b THEN 0 ELSE 3) THEN SignByte(buffer[k])
                   ELSE IF b THEN buffer[k - 1] ELSE buffer[k + 1]
<1>1. p = [k \in 1 .. 4 * m |-> v(k)]
  BY DEF downmix_32_to_24_aligned
<1>2. \A k \in 1 .. 4 * m : buffer[k] \in Byte
  BY ElementOfSeq
<1>3. ASSUME NEW k \in 1 .. 4 * m PROVE v(k) \in Byte
  <2>1. CASE (k - 1) % 4 = (IF b THEN 0 ELSE 3)
    BY <2>1 DEF SignByte, Byte
  <2>2. CASE (k - 1) % 4 # (IF b THEN 0 ELSE 3)
    <3>1. IF b THEN k - 1 \in 1 .. 4 * m ELSE k + 1 \in 1 .. 4 * m
      BY <2>2
    <3> QED
      BY <1>2, <2>2, <3>1
  <2> QED
    BY <2>1, <2>2
<1>4. p \in Seq(Byte) /\ Len(p) = 4 * m
  <2>1. 4 * m \in Nat
    OBVIOUS
  <2>2. p \in [1 .. 4 * m -> Byte]
    BY <1>1, <1>3
  <2> QED
    BY <1>1, <2>1, <2>2
<1>5. ASSUME NEW i \in 0 .. m - 1, NEW j \in 1 .. 4
      PROVE  p[4 * i + j] = IF j = (IF b THEN 1 ELSE 4) THEN SignByte(buffer[4 * i + j])
                            ELSE IF b THEN buffer[4 * i + j - 1] ELSE buffer[4 * i + j + 1]
  <2>1. 4 * i + j \in 1 .. 4 * m /\ (4 * i + j - 1) % 4 = j - 1
    OBVIOUS
  <2> QED
    BY <1>1, <2>1
<1> QED
  BY <1>4, <1>5

\* The bytes of each sample in turn; one byte stays where it is.
LEMMA TurnedBytes ==
    ASSUME NEW bits, bits \div 8 \in 1 .. 4, NEW m \in Nat,
           NEW buffer \in Seq(Byte), Len(buffer) = (bits \div 8) * m
    PROVE  /\ convert_endian(buffer, bits) \in Seq(Byte)
           /\ Len(convert_endian(buffer, bits)) = (bits \div 8) * m
           /\ \A i \in 0 .. m - 1, j \in 1 .. bits \div 8 :
                  convert_endian(buffer, bits)[(bits \div 8) * i + j] =
                      buffer[(bits \div 8) * i + (bits \div 8) + 1 - j]
<1> DEFINE p == convert_endian(buffer, bits)
           n == bits \div 8
           place(k) == n * ((k - 1) \div n) + n - ((k - 1) % n)
<1>1. p = [k \in 1 .. n * m |-> buffer[place(k)]] /\ Len(buffer) = n * m
  <2>1. DOMAIN buffer = 1 .. n * m
    BY LenProperties
  <2> QED
    BY <2>1 DEF convert_endian
<1>2. n \in {1, 2, 3, 4}
  OBVIOUS
<1> HIDE DEF p, n
<1>3. ASSUME NEW k \in 1 .. n * m PROVE place(k) \in 1 .. n * m
  BY <1>2
<1>4. \A k \in 1 .. n * m : buffer[k] \in Byte
  BY <1>1, ElementOfSeq
<1>5. p \in Seq(Byte) /\ Len(p) = n * m
  <2>1. n * m \in Nat
    BY <1>2
  <2>2. p \in [1 .. n * m -> Byte]
    BY <1>1, <1>3, <1>4
  <2> QED
    BY <1>1, <2>1, <2>2
<1>6. ASSUME NEW i \in 0 .. m - 1, NEW j \in 1 .. n
      PROVE  p[n * i + j] = buffer[n * i + n + 1 - j]
  <2>1. /\ n * i + j \in 1 .. n * m
        /\ place(n * i + j) = n * i + n + 1 - j
    BY <1>2
  <2> QED
    BY <1>1, <2>1
<1> QED
  BY <1>5, <1>6 DEF p, n

-----------------------------------------------------------------------------
(* A frame on its way                                                      *)

\* The bytes of a sample libxmp mixes in a format of b bits.
MixedWidth(b) == IF b = 24 THEN 4 ELSE b \div 8

\* libxmp writes the sample once for each channel, in the order of the machine.
LEMMA LaidBytes ==
    ASSUME options \in Format, big \in BOOLEAN, NEW s \in [1 .. 4 -> Byte], NEW w,
           w = MixedWidth(get_bits_from_format(options))
    PROVE  /\ w \in {1, 2, 4}
           /\ Laid(s) \in Seq(Byte)
           /\ Len(Laid(s)) = w * get_channels_from_format(options)
           /\ \A i \in 0 .. get_channels_from_format(options) - 1, j \in 1 .. w :
                  Laid(s)[w * i + j] = IF big THEN s[j] ELSE s[w + 1 - j]
<1> DEFINE b == get_bits_from_format(options)
           c == get_channels_from_format(options)
           one == SubSeq(s, 1, IF b = 24 THEN 4 ELSE b \div 8)
           native == IF big THEN one ELSE Reverse(one)
<1>1. b \in Width /\ c \in 1 .. 2
  BY FormatValues
<1>2. w \in {1, 2, 4} /\ w = IF b = 24 THEN 4 ELSE b \div 8
  BY <1>1 DEF MixedWidth, Width
<1>3. one \in Seq(Byte) /\ Len(one) = w /\ \A j \in 1 .. w : one[j] = s[j]
  <2>1. \A j \in 1 .. w : s[j] \in Byte
    BY <1>2
  <2>2. one = SubSeq(s, 1, w)
    BY <1>2
  <2> HIDE DEF one
  <2> QED
    BY <1>2, <2>1, <2>2, SubSeqProperties
<1> HIDE DEF one
<1>4. /\ native \in Seq(Byte) /\ Len(native) = w
      /\ \A j \in 1 .. w : native[j] = IF big THEN s[j] ELSE s[w + 1 - j]
  <2>1. CASE big
    BY <1>3, <2>1
  <2>2. CASE ~big
    <3>1. native = [j \in 1 .. w |-> one[w - j + 1]]
      BY <1>3, <2>2 DEF Reverse
    <3>2. \A j \in 1 .. w : w - j + 1 \in 1 .. w /\ w - j + 1 = w + 1 - j
      BY <1>2
    <3>3. native \in [1 .. w -> Byte]
      BY <1>3, <3>1, <3>2
    <3> HIDE DEF native
    <3>4. native \in Seq(Byte) /\ Len(native) = w
      BY <1>2, <3>3
    <3> QED
      BY <1>3, <2>2, <3>1, <3>2, <3>4
  <2> QED
    BY <2>1, <2>2
<1>5. Laid(s) = IF c = 1 THEN native ELSE native \o native
  BY DEF Laid, one
<1> HIDE DEF native, b, c
<1>6. CASE c = 1
  BY <1>2, <1>4, <1>5, <1>6 DEF c
<1>7. CASE c = 2
  <2>1. /\ native \o native \in Seq(Byte) /\ Len(native \o native) = w + w
        /\ \A k \in 1 .. w : (native \o native)[k] = native[k]
        /\ \A k \in 1 .. w : (native \o native)[w + k] = native[k]
    <3>1. native \in Seq(Byte) /\ Len(native) = w
      BY <1>4
    <3>2. /\ native \o native \in Seq(Byte)
          /\ Len(native \o native) = Len(native) + Len(native)
          /\ \A k \in 1 .. Len(native) : (native \o native)[k] = native[k]
          /\ \A k \in 1 .. Len(native) : (native \o native)[Len(native) + k] = native[k]
      BY <3>1, Joined
    <3> QED
      BY <3>1, <3>2
  <2>2. ASSUME NEW i \in 0 .. 1, NEW j \in 1 .. w
        PROVE  (native \o native)[w * i + j] = native[j]
    <3>0. i = 0 \/ i = 1
      OBVIOUS
    <3>1. CASE i = 0
      <4>1. w * i + j = j
        BY <1>2, <3>1
      <4> QED
        BY <2>1, <4>1
    <3>2. CASE i = 1
      <4>1. w * i + j = w + j
        BY <1>2, <3>2
      <4> QED
        BY <2>1, <4>1
    <3> QED
      BY <3>0, <3>1, <3>2, Zenon
  <2>3. Laid(s) = native \o native /\ get_channels_from_format(options) = 2
    BY <1>5, <1>7 DEF c
  <2>4. w + w = w * 2 /\ 0 .. 2 - 1 = 0 .. 1
    BY <1>2
  <2>5. Laid(s) \in Seq(Byte) /\ Len(Laid(s)) = w * 2
    BY <2>1, <2>3, <2>4
  <2>6. ASSUME NEW i \in 0 .. 1, NEW j \in 1 .. w
        PROVE  Laid(s)[w * i + j] = IF big THEN s[j] ELSE s[w + 1 - j]
    BY <1>4, <2>2, <2>3
  <2> QED
    BY <1>2, <2>3, <2>4, <2>5, <2>6
<1> QED
  BY <1>1, <1>6, <1>7 DEF c

\* A sample of either sign is four bytes, and the bias taken away is the sample.
LEMMA BiasedBytes ==
    ASSUME NEW s \in [1 .. 4 -> Byte], NEW signed \in BOOLEAN
    PROVE  Biased(s, signed) \in [1 .. 4 -> Byte]
BY DEF Biased, Byte

LEMMA Unbiased ==
    ASSUME NEW s \in [1 .. 4 -> Byte], NEW signed \in BOOLEAN, NEW n \in 1 .. 4
    PROVE  Biased(SubSeq(Biased(s, signed), 1, n), signed) = SubSeq(s, 1, n)
<1> DEFINE b == Biased(s, signed)
           x == SubSeq(b, 1, n)
<1>1. b \in [1 .. 4 -> Byte]
  BY BiasedBytes
<1>2. x = [j \in 1 .. n |-> b[j]] /\ SubSeq(s, 1, n) = [j \in 1 .. n |-> s[j]]
  BY DEF SubSeq
<1>3. CASE signed
  BY <1>3 DEF Biased
<1>4. CASE ~signed
  <2>1. (((s[1] + 128) % 256) + 128) % 256 = s[1]
    <3>1. s[1] \in 0 .. 255
      BY DEF Byte
    <3> QED
      BY <3>1
  <2>2. b[1] = (s[1] + 128) % 256 /\ \A j \in 2 .. 4 : b[j] = s[j]
    BY <1>4 DEF Biased
  <2> HIDE DEF b
  <2>3. x = [j \in 1 .. n |-> b[j]]
    BY <1>2
  <2> HIDE DEF x
  <2>4. Biased(x, signed) = [x EXCEPT ![1] = (@ + 128) % 256]
    BY <1>4 DEF Biased
  <2>5. Biased(x, signed) = [j \in 1 .. n |-> s[j]]
    <3>1. 1 \in 1 .. n /\ \A j \in 1 .. n : j = 1 \/ j \in 2 .. 4
      OBVIOUS
    <3>2. x[1] = b[1] /\ DOMAIN x = 1 .. n /\ \A j \in 1 .. n : x[j] = b[j]
      BY <2>3, <3>1
    <3> DEFINE y == [x EXCEPT ![1] = (@ + 128) % 256]
    <3>3. y = [j \in 1 .. n |-> y[j]] /\ y[1] = (x[1] + 128) % 256
          /\ \A j \in 1 .. n : j # 1 => y[j] = x[j]
      BY <2>3, <3>1
    <3> HIDE DEF y
    <3>4. \A j \in 1 .. n : y[j] = s[j]
      BY <2>1, <2>2, <3>1, <3>2, <3>3
    <3>5. y = [j \in 1 .. n |-> s[j]]
      BY <3>3, <3>4
    <3> QED
      BY <2>4, <3>5 DEF y
  <2> QED
    BY <1>2, <2>5 DEF x, b
<1> QED
  BY <1>3, <1>4

\* What the container of a sample is filled with, in a format v: the bytes of
\* the sample that are kept, and above them its sign.
Contained(s, v, j) ==
    LET free == v.bytes - v.bits \div 8
    IN IF j > free THEN s[j - free] ELSE SignByte(s[1])

Filled(s, v) == [j \in 1 .. v.bytes |-> Contained(s, v, IF v.le THEN v.bytes + 1 - j ELSE j)]

\* Reading such a container gives the sample.
LEMMA ReadBack ==
    ASSUME NEW s \in [1 .. 4 -> Byte], NEW v, v.bits \in Width, v.le \in BOOLEAN,
           v.bytes \in {v.bits \div 8, 4}
    PROVE  Kept(v, Filled(s, v)) = SubSeq(s, 1, v.bits \div 8)
<1> DEFINE n == v.bits \div 8
           w == v.bytes
           g == Filled(s, v)
           high == IF v.le THEN Reverse(g) ELSE g
<1>1. n \in 1 .. 4 /\ w \in n .. 4
  BY DEF Width
<1> HIDE DEF n, w
<1>2. g = [j \in 1 .. w |-> Contained(s, v, IF v.le THEN w + 1 - j ELSE j)]
  BY DEF Filled, w
<1>3. ASSUME NEW j \in 1 .. w
      PROVE  Contained(s, v, j) = IF j > w - n THEN s[j - (w - n)] ELSE SignByte(s[1])
  BY DEF Contained, w, n
<1>4. ASSUME NEW j \in 1 .. w PROVE Contained(s, v, j) \in Byte
  <2>1. s[1] \in Byte /\ (j > w - n => s[j - (w - n)] \in Byte)
    BY <1>1
  <2> QED
    BY <1>3, <2>1 DEF SignByte, Byte
<1>5. \A j \in 1 .. w : (IF v.le THEN w + 1 - j ELSE j) \in 1 .. w
  BY <1>1
<1>6. g \in Seq(Byte) /\ Len(g) = w
  <2>1. g \in [1 .. w -> Byte]
    BY <1>2, <1>4, <1>5
  <2> HIDE DEF g
  <2> QED
    BY <1>1, <2>1
<1>7. high = [j \in 1 .. w |-> Contained(s, v, j)]
  <2>1. CASE v.le
    <3>1. high = [j \in 1 .. w |-> g[w - j + 1]]
      BY <1>6, <2>1 DEF Reverse
    <3>2. \A j \in 1 .. w : w - j + 1 \in 1 .. w /\ w + 1 - (w - j + 1) = j
      BY <1>1
    <3>3. \A j \in 1 .. w : g[w - j + 1] = Contained(s, v, j)
      BY <1>2, <2>1, <3>2
    <3> HIDE DEF high, g
    <3> QED
      BY <3>1, <3>3
  <2>2. CASE ~v.le
    BY <1>2, <2>2
  <2> QED
    BY <2>1, <2>2
<1> HIDE DEF g, high
<1>8. \A j \in 1 .. n : /\ w - n + 1 + j - 1 \in 1 .. w
                        /\ high[w - n + 1 + j - 1] = s[j] /\ s[j] \in Byte
  BY <1>1, <1>3, <1>7
<1>9. \A k \in w - n + 1 .. w : high[k] \in Byte
  BY <1>1, <1>4, <1>7
<1> DEFINE x == SubSeq(high, w - n + 1, w)
           y == SubSeq(s, 1, n)
<1>10. x \in Seq(Byte) /\ Len(x) = n /\ \A j \in 1 .. n : x[j] = s[j]
  <2>1. /\ x \in Seq(Byte) /\ Len(x) = IF w - n + 1 <= w THEN w - (w - n + 1) + 1 ELSE 0
        /\ \A j \in 1 .. w - (w - n + 1) + 1 : x[j] = high[w - n + 1 + j - 1]
    <3>1. w - n + 1 \in Int /\ w \in Int
      BY <1>1
    <3> QED
      BY <1>9, <3>1, SubSeqProperties
  <2>2. w - (w - n + 1) + 1 = n /\ w - n + 1 <= w
    BY <1>1
  <2> HIDE DEF x
  <2> QED
    BY <1>8, <2>1, <2>2
<1>11. y \in Seq(Byte) /\ Len(y) = n /\ \A j \in 1 .. n : y[j] = s[j]
  <2>1. \A j \in 1 .. n : s[j] \in Byte
    BY <1>8
  <2> QED
    BY <1>1, <2>1, SubSeqProperties
<1> HIDE DEF x, y
<1>12. x = y
  BY <1>10, <1>11, SeqEqual
<1> QED
  BY <1>12 DEF Kept, x, y, high, g, w, n

\* The samples of one frame, all the way to the first write: on every channel
\* the container is filled as the device or the reader of the file wants it.
LEMMA FrameBytes ==
    ASSUME options \in Format, big \in BOOLEAN, Agree(driver, options, dev),
           NEW s \in [1 .. 4 -> Byte]
    PROVE  /\ Converted(Laid(s)) \in Seq(Byte)
           /\ Len(Converted(Laid(s))) = dev.bytes * get_channels_from_format(options)
           /\ \A i \in 0 .. get_channels_from_format(options) - 1, j \in 1 .. dev.bytes :
                  Converted(Laid(s))[dev.bytes * i + j] = Filled(s, dev)[j]
<1> DEFINE b == dev.bits
           w == dev.bytes
           c == get_channels_from_format(options)
           m == MixedWidth(b)
           mixed == Laid(s)
           down == IF b # 24 THEN mixed
                   ELSE IF driver \in Packers THEN downmix_32_to_24_packed(mixed, big)
                   ELSE downmix_32_to_24_aligned(mixed, big)
           turn == driver \in Writers /\ dev.le = big
           free == w - b \div 8
           h(j) == IF j > free THEN s[j - free] ELSE SignByte(s[1])
<1>1. /\ b \in Width /\ c \in 1 .. 2 /\ dev.le \in BOOLEAN
      /\ b = get_bits_from_format(options)
      /\ w = IF b = 24 THEN (IF driver \in Packers THEN 3 ELSE 4) ELSE b \div 8
      /\ driver \notin Writers => dev.le = ~big
  BY FormatValues DEF Agree
<1>2. /\ m \in {1, 2, 4} /\ mixed \in Seq(Byte) /\ Len(mixed) = m * c
      /\ \A i \in 0 .. c - 1, j \in 1 .. m :
             mixed[m * i + j] = IF big THEN s[j] ELSE s[m + 1 - j]
  <2> HIDE DEF m
  <2>1. m = MixedWidth(get_bits_from_format(options))
    BY <1>1 DEF m
  <2> QED
    BY <1>1, <2>1, LaidBytes
<1>3. Converted(mixed) = IF turn THEN convert_endian(down, b) ELSE down
  BY DEF Converted, Packers
<1>4. /\ w \in 1 .. 4 /\ free \in 0 .. 1
      /\ b = 24 => m = 4
      /\ b # 24 => m = w /\ free = 0 /\ b \div 8 = w
      /\ b = 24 /\ driver \in Packers => w = 3 /\ free = 0 /\ b \div 8 = w
      /\ b = 24 /\ driver \notin Packers => w = 4 /\ free = 1
  BY <1>1 DEF Width, MixedWidth
<1>5. ASSUME NEW j \in 1 .. w
      PROVE  Filled(s, dev)[j] = h(IF dev.le THEN w + 1 - j ELSE j)
  BY DEF Filled, Contained
<1> HIDE DEF b, w, c, m, mixed, free
\* In the order of the machine.
<1>6. /\ down \in Seq(Byte) /\ Len(down) = w * c
      /\ \A i \in 0 .. c - 1, j \in 1 .. w :
             down[w * i + j] = h(IF big THEN j ELSE w + 1 - j)
  <2>1. CASE b # 24
    <3>1. down = mixed /\ m = w /\ free = 0
      BY <1>4, <2>1
    <3>2. \A j \in 1 .. w : h(j) = s[j] /\ w + 1 - j \in 1 .. w
      BY <1>4, <3>1
    <3> HIDE DEF down, h
    <3> QED
      BY <1>2, <3>1, <3>2
  <2>2. CASE b = 24 /\ driver \in Packers
    <3>1. w = 3 /\ m = 4 /\ free = 0
      BY <1>4, <2>2
    <3> DEFINE from == IF big THEN 1 ELSE 2
    <3>2. down = Packed(mixed, from) /\ from \in 1 .. 2
      BY <2>2 DEF downmix_32_to_24_packed
    <3>3. c \in Nat /\ Len(mixed) = 4 * c /\ mixed \in Seq(Byte)
      BY <1>1, <1>2, <3>1
    <3> HIDE DEF from
    <3>4. /\ down \in Seq(Byte) /\ Len(down) = 3 * c
          /\ \A i \in 0 .. c - 1, j \in 1 .. 3 :
                 down[3 * i + j] = mixed[4 * i + from + j - 1]
      <4>1. /\ Packed(mixed, from) \in Seq(Byte)
            /\ Len(Packed(mixed, from)) = 3 * c
            /\ \A i \in 0 .. c - 1, j \in 1 .. 3 :
                   Packed(mixed, from)[3 * i + j] = mixed[4 * i + from + j - 1]
        BY <3>2, <3>3, PackedBytes, Zenon
      <4> QED
        BY <3>2, <4>1, Zenon
    <3>5. ASSUME NEW i \in 0 .. c - 1, NEW j \in 1 .. 3
          PROVE  mixed[4 * i + from + j - 1] = IF big THEN s[j] ELSE s[4 - j]
      <4>1. from + j - 1 \in 1 .. 4 /\ 4 * i + (from + j - 1) = 4 * i + from + j - 1
        BY <1>1, <3>2
      <4>2. mixed[4 * i + (from + j - 1)] =
                IF big THEN s[from + j - 1] ELSE s[4 + 1 - (from + j - 1)]
        BY <1>2, <3>1, <4>1
      <4>3. IF big THEN from + j - 1 = j ELSE 4 + 1 - (from + j - 1) = 4 - j
        BY DEF from
      <4> QED
        BY <4>1, <4>2, <4>3
    <3>6. \A j \in 1 .. 3 : h(j) = s[j] /\ 3 + 1 - j \in 1 .. 3 /\ 3 + 1 - j = 4 - j
      BY <3>1
    <3> HIDE DEF down, h
    <3> QED
      BY <3>1, <3>4, <3>5, <3>6
  <2>3. CASE b = 24 /\ driver \notin Packers
    <3>1. w = 4 /\ m = 4 /\ free = 1
      BY <1>4, <2>3
    <3>2. down = downmix_32_to_24_aligned(mixed, big)
      BY <2>3
    <3>3. c \in Nat /\ Len(mixed) = 4 * c /\ mixed \in Seq(Byte)
      BY <1>1, <1>2, <3>1
    <3> HIDE DEF down
    <3>4. /\ down \in Seq(Byte) /\ Len(down) = 4 * c
          /\ \A i \in 0 .. c - 1, j \in 1 .. 4 :
                 down[4 * i + j] =
                     IF j = (IF big THEN 1 ELSE 4) THEN SignByte(mixed[4 * i + j])
                     ELSE IF big THEN mixed[4 * i + j - 1] ELSE mixed[4 * i + j + 1]
      <4>1. /\ downmix_32_to_24_aligned(mixed, big) \in Seq(Byte)
            /\ Len(downmix_32_to_24_aligned(mixed, big)) = 4 * c
            /\ \A i \in 0 .. c - 1, j \in 1 .. 4 :
                   downmix_32_to_24_aligned(mixed, big)[4 * i + j] =
                       IF j = (IF big THEN 1 ELSE 4) THEN SignByte(mixed[4 * i + j])
                       ELSE IF big THEN mixed[4 * i + j - 1] ELSE mixed[4 * i + j + 1]
        BY <3>3, AlignedBytes, Zenon
      <4> QED
        BY <3>2, <4>1, Zenon
    <3>5. \A i \in 0 .. c - 1, j \in 1 .. 4 :
              mixed[4 * i + j] = IF big THEN s[j] ELSE s[5 - j]
      <4>1. \A i \in 0 .. c - 1, j \in 1 .. 4 :
                mixed[4 * i + j] = IF big THEN s[j] ELSE s[4 + 1 - j]
        BY <1>2, <3>1, Zenon
      <4>2. \A j \in 1 .. 4 : 4 + 1 - j = 5 - j
        OBVIOUS
      <4> QED
        BY <4>1, <4>2, Zenon
    <3>6. ASSUME NEW i \in 0 .. c - 1, NEW j \in 1 .. 4
          PROVE  down[4 * i + j] = h(IF big THEN j ELSE 5 - j)
      <4>1. CASE big /\ j = 1
        BY <3>1, <3>4, <3>5, <4>1
      <4>2. CASE big /\ j # 1
        <5>1. j - 1 \in 1 .. 4 /\ 4 * i + (j - 1) = 4 * i + j - 1
          BY <1>1, <4>2
        <5>2. mixed[4 * i + j - 1] = s[j - 1]
          BY <3>5, <4>2, <5>1
        <5>3. down[4 * i + j] = mixed[4 * i + j - 1]
          BY <3>4, <4>2
        <5>4. h(j) = s[j - 1]
          BY <3>1, <4>2
        <5> QED
          BY <4>2, <5>2, <5>3, <5>4
      <4>3. CASE ~big /\ j = 4
        <5>1. mixed[4 * i + j] = s[1] /\ 5 - j = 1
          BY <3>5, <4>3
        <5> QED
          BY <3>1, <3>4, <4>3, <5>1
      <4>4. CASE ~big /\ j # 4
        <5>1. j + 1 \in 1 .. 4 /\ 4 * i + (j + 1) = 4 * i + j + 1
              /\ 5 - (j + 1) = 5 - j - 1
          BY <1>1, <4>4
        <5>2. mixed[4 * i + j + 1] = s[5 - j - 1]
          BY <3>5, <4>4, <5>1
        <5>3. down[4 * i + j] = mixed[4 * i + j + 1]
          BY <3>4, <4>4
        <5>4. h(5 - j) = s[5 - j - 1]
          BY <3>1, <4>4
        <5> QED
          BY <4>4, <5>2, <5>3, <5>4
      <4> QED
        BY <4>1, <4>2, <4>3, <4>4
    <3> HIDE DEF h
    <3> QED
      BY <3>1, <3>4, <3>6
  <2> QED
    BY <2>1, <2>2, <2>3
<1> HIDE DEF down, h
\* In the order of the reader.
<1>7. CASE turn
  <2>1. b \div 8 = w /\ c \in Nat
    BY <1>1, <1>4, <1>7 DEF Packers
  <2>2. /\ convert_endian(down, b) \in Seq(Byte) /\ Len(convert_endian(down, b)) = w * c
        /\ \A i \in 0 .. c - 1, j \in 1 .. w :
               convert_endian(down, b)[w * i + j] = down[w * i + w + 1 - j]
    <3>1. b \div 8 \in 1 .. 4 /\ down \in Seq(Byte) /\ Len(down) = (b \div 8) * c
      BY <1>4, <1>6, <2>1, Zenon
    <3>2. /\ convert_endian(down, b) \in Seq(Byte)
          /\ Len(convert_endian(down, b)) = (b \div 8) * c
          /\ \A i \in 0 .. c - 1, j \in 1 .. b \div 8 :
                 convert_endian(down, b)[(b \div 8) * i + j] =
                     down[(b \div 8) * i + (b \div 8) + 1 - j]
      BY <2>1, <3>1, TurnedBytes, Zenon
    <3> QED
      BY <2>1, <3>2, Zenon
  <2>3. ASSUME NEW i \in 0 .. c - 1, NEW j \in 1 .. w
        PROVE  down[w * i + w + 1 - j] = h(IF dev.le THEN w + 1 - j ELSE j)
    <3>1. /\ w + 1 - j \in 1 .. w /\ w + 1 - (w + 1 - j) = j
          /\ w * i + (w + 1 - j) = w * i + w + 1 - j
      BY <1>1, <1>4
    <3>2. down[w * i + (w + 1 - j)] = h(IF big THEN w + 1 - j ELSE w + 1 - (w + 1 - j))
      BY <1>6, <3>1
    <3> QED
      BY <1>7, <3>1, <3>2
  <2> QED
    BY <1>3, <1>5, <1>7, <2>2, <2>3 DEF mixed, w, c
<1>8. CASE ~turn
  <2>1. dev.le = ~big
    BY <1>1, <1>8
  <2> QED
    BY <1>1, <1>3, <1>5, <1>6, <1>8, <2>1 DEF mixed, w, c
<1> QED
  BY <1>7, <1>8

-----------------------------------------------------------------------------
(* The invariant                                                           *)

TypeInv ==
    /\ pc \in {"probe", "play", "closed", "none", "hang"}
    /\ big \in BOOLEAN
    /\ build \in Seq(Drivers) /\ at \in 1 .. Len(build) + 1
    /\ options \in Format
    /\ buf \in Seq(Byte) /\ out \in Seq(Byte)
    /\ size \in Nat
    /\ sent \in Seq(Samples)
    /\ lost \in BOOLEAN

\* A driver that is selected has settled with its device on what options says;
\* nothing has been played before.
SettledInv ==
    IF pc \in {"play", "closed"}
    THEN at \in 1 .. Len(build) /\ (driver = "null" \/ Agree(driver, options, dev))
    ELSE buf = <<>> /\ out = <<>> /\ size = 0 /\ sent = <<>> /\ ~lost

\* The bytes z are the frames of the samples, in order, with the channels and the
\* sign of the options o, in the format v.
Told(s, o) == Biased(s, get_signed_from_format(o))

AreFrames(z, samples, o, v) ==
    LET c == get_channels_from_format(o) IN
    /\ Len(z) = v.bytes * (c * Len(samples))
    /\ \A i \in 1 .. Len(samples), k \in 0 .. c - 1, j \in 1 .. v.bytes :
           z[v.bytes * (c * (i - 1) + k) + j] = Filled(Told(samples[i], o), v)[j]

\* What was written and what play() still has to write are those of all the
\* samples.
StreamInv ==
    pc = "play" /\ driver # "null" /\ ~lost => AreFrames(out \o buf, sent, options, dev)

\* The file writers count what they have written.
SizeInv == pc \in {"play", "closed"} /\ driver \in Writers /\ ~lost => size = Len(out)

\* The header of a WAV file, as init() wrote it and as deinit() completes it.
Started == [NoHeader EXCEPT !.bits = dev.bits,
                            !.offset = IF dev.bits > 16 THEN 64 ELSE 40]
Finished == {Completed(Started, seekable) : seekable \in BOOLEAN}

WavInv ==
    /\ pc = "play" /\ driver = "wav" => header = Started
    /\ pc = "closed" /\ driver = "wav" => header \in Finished

OutputInv == TypeInv /\ SettledInv /\ StreamInv /\ SizeInv /\ WavInv

\* Nothing has been played when the program starts.
LEMMA OutputInit == Init => OutputInv
<1> SUFFICES ASSUME Init PROVE OutputInv
  OBVIOUS
<1>1. build \in Seq(Drivers)
  BY OutputAssumption DEF Init
<1>2. at \in 1 .. Len(build) + 1
  <2>1. Len(build) \in Nat
    BY <1>1
  <2>2. at = 1
    BY DEF Init
  <2> QED
    BY <2>1, <2>2
<1>3. options \in Format
  BY OutputAssumption DEF Init
<1>4. TypeInv
  <2>1. /\ buf = <<>> /\ out = <<>> /\ sent = <<>> /\ size = 0 /\ lost = FALSE
        /\ pc = "probe" /\ big \in BOOLEAN
    BY DEF Init
  <2>2. buf \in Seq(Byte) /\ out \in Seq(Byte) /\ sent \in Seq(Samples)
    BY <2>1, EmptySeq
  <2>3. size \in Nat /\ lost \in BOOLEAN
    BY <2>1
  <2> QED
    BY <1>1, <1>2, <1>3, <2>1, <2>2, <2>3 DEF TypeInv
<1>5. SettledInv /\ StreamInv /\ SizeInv /\ WavInv
  BY DEF Init, SettledInv, StreamInv, SizeInv, WavInv
<1> QED
  BY <1>4, <1>5 DEF OutputInv

\* The steps of select_sound_driver that select nothing.
LEMMA NothingSelected ==
    OutputInv /\ (Skip \/ Hang \/ NoDriver) => OutputInv'
<1> SUFFICES ASSUME OutputInv, Skip \/ Hang \/ NoDriver PROVE OutputInv'
  OBVIOUS
<1>1. /\ pc' \in {"probe", "none", "hang"}
      /\ UNCHANGED <<big, build, options, dev, buf, out, size, sent, lost>>
      /\ at' \in 1 .. Len(build) + 1 /\ pc = "probe"
  BY DEF OutputInv, TypeInv, Skip, Hang, NoDriver
<1>2. TypeInv'
  BY <1>1 DEF OutputInv, TypeInv
<1>3. SettledInv'
  BY <1>1 DEF OutputInv, SettledInv
<1>4. StreamInv' /\ SizeInv' /\ WavInv'
  BY <1>1 DEF StreamInv, SizeInv, WavInv
<1> QED
  BY <1>2, <1>3, <1>4 DEF OutputInv

\* init() fails, and leaves a proper format, or settles on one.
LEMMA DriverTried == OutputInv /\ TryDriver => OutputInv'
<1> SUFFICES ASSUME OutputInv, TryDriver PROVE OutputInv'
  OBVIOUS
<1> USE DEF OutputInv
<1>1. /\ build \in Seq(Drivers) /\ at \in 1 .. Len(build) /\ driver \in Drivers
      /\ options \in Format /\ big \in BOOLEAN /\ pc = "probe"
  BY DEF TypeInv, TryDriver, driver
<1>2. /\ UNCHANGED <<big, build, buf, out, size, sent, lost>>
      /\ buf = <<>> /\ out = <<>> /\ size = 0 /\ sent = <<>> /\ ~lost
  BY <1>1 DEF TryDriver, SettledInv
<1>3. PICK r \in Outcomes(driver, options) :
          /\ options' = r.o
          /\ \/ /\ ~r.ok
                /\ at' = at + 1
                /\ UNCHANGED <<pc, dev, header>>
             \/ /\ r.ok
                /\ pc' = "play"
                /\ dev' = r.dev
                /\ header' = IF driver = "wav"
                             THEN [NoHeader EXCEPT !.bits = r.dev.bits,
                                                   !.offset = IF r.dev.bits > 16 THEN 64 ELSE 40]
                             ELSE NoHeader
                /\ UNCHANGED at
  BY DEF TryDriver
<1>4. Sound(driver, r)
  BY <1>1, <1>3, OutputAssumption, OutcomesSound
<1>5. options' \in Format /\ (r.ok => driver = "null" \/ Agree(driver, options', r.dev))
  BY <1>3, <1>4 DEF Sound
<1>6. CASE ~r.ok
  <2>1. pc' = "probe" /\ at' \in 1 .. Len(build) + 1
    BY <1>1, <1>3, <1>6
  <2>2. TypeInv'
    BY <1>2, <1>5, <2>1 DEF TypeInv
  <2>3. SettledInv' /\ StreamInv' /\ SizeInv' /\ WavInv'
    BY <1>2, <2>1 DEF SettledInv, StreamInv, SizeInv, WavInv
  <2> QED
    BY <2>2, <2>3
<1>7. CASE r.ok
  <2>1. /\ pc' = "play" /\ at' = at /\ driver' = driver /\ dev' = r.dev
        /\ driver = "wav" => header' = [NoHeader EXCEPT !.bits = dev'.bits,
                                                        !.offset = IF dev'.bits > 16 THEN 64 ELSE 40]
    BY <1>2, <1>3, <1>7 DEF driver
  <2>2. TypeInv'
    BY <1>2, <1>5, <2>1 DEF TypeInv
  <2>3. SettledInv'
    <3>1. (driver = "null" \/ Agree(driver, options, dev))'
      BY <1>2, <1>5, <1>7, <2>1 DEF Agree
    <3>2. pc' = "play" /\ at' \in 1 .. Len(build')
      BY <1>1, <1>2, <2>1
    <3> QED
      BY <3>1, <3>2 DEF SettledInv
  <2>4. StreamInv'
    <3>1. Len(out' \o buf') = 0 /\ Len(sent') = 0
      BY <1>2
    <3>2. /\ driver' # "null" => dev'.bytes \in 1 .. 4
          /\ get_channels_from_format(options') \in 1 .. 2
      BY <1>5, <1>7, <2>1, FormatValues DEF Agree, Width
    <3> QED
      BY <1>2, <3>1, <3>2 DEF StreamInv, AreFrames
  <2>5. SizeInv' /\ WavInv'
    BY <1>2, <2>1 DEF SizeInv, WavInv, Started
  <2> QED
    BY <2>2, <2>3, <2>4, <2>5
<1> QED
  BY <1>6, <1>7

\* Where byte j of channel k of frame i is in the stream.
LEMMA FramePlace ==
    ASSUME NEW w \in 1 .. 4, NEW c \in 1 .. 2, NEW n \in Nat,
           NEW k \in 0 .. c - 1, NEW j \in 1 .. w
    PROVE  /\ w * k + j \in 1 .. w * c
           /\ w * (c * n) + (w * k + j) = w * (c * n + k) + j
           /\ w * (c * (n + 1)) = w * (c * n) + w * c
           /\ \A i \in 1 .. n : w * (c * (i - 1) + k) + j \in 1 .. w * (c * n)
<1>1. w \in {1, 2, 3, 4} /\ c \in {1, 2}
  OBVIOUS
<1>2. \A i \in 1 .. n : c * (i - 1) + k \in 0 .. c * n - 1
  BY <1>1
<1>3. c * n \in Nat
  BY <1>1
<1>4. \A x \in 0 .. c * n - 1 : w * x + j \in 1 .. w * (c * n)
  BY <1>1, <1>3
<1>5. \A i \in 1 .. n : w * (c * (i - 1) + k) + j \in 1 .. w * (c * n)
  BY <1>2, <1>4
<1>6. w * k + j \in 1 .. w * c
  BY <1>1
<1>7. w * (c * n) + (w * k + j) = w * (c * n + k) + j
  BY <1>1, <1>3
<1>8. w * (c * (n + 1)) = w * (c * n) + w * c
  BY <1>1, <1>3
<1> QED
  BY <1>5, <1>6, <1>7, <1>8

\* A new frame goes behind what was written.
LEMMA Played == OutputInv /\ Play => OutputInv'
<1> SUFFICES ASSUME OutputInv, Play PROVE OutputInv'
  OBVIOUS
<1> USE DEF OutputInv
<1>1. PICK s \in Samples :
          /\ sent' = Append(sent, s)
          /\ buf' = IF driver = "null" THEN <<>> ELSE Converted(Mixed(s))
  BY DEF Play
<1>2. /\ pc = "play" /\ buf = <<>> /\ driver' = driver
      /\ UNCHANGED <<pc, big, build, pref, at, options, dev, out, size, header, lost>>
  BY DEF Play, driver
<1>3. /\ options \in Format /\ big \in BOOLEAN /\ out \in Seq(Byte) /\ sent \in Seq(Samples)
      /\ s \in [1 .. 4 -> Byte]
      /\ driver = "null" \/ Agree(driver, options, dev)
  BY <1>2, OutputAssumption DEF TypeInv, SettledInv, Byte
<1>4. /\ sent' \in Seq(Samples) /\ Len(sent) \in Nat /\ Len(sent') = Len(sent) + 1
      /\ \A i \in 1 .. Len(sent) : sent'[i] = sent[i]
      /\ sent'[Len(sent) + 1] = s
  BY <1>1, <1>3, AppendProperties
<1>5. ASSUME driver # "null"
      PROVE  /\ buf' \in Seq(Byte)
             /\ Len(buf') = dev.bytes * get_channels_from_format(options)
             /\ \A k \in 0 .. get_channels_from_format(options) - 1, j \in 1 .. dev.bytes :
                    buf'[dev.bytes * k + j] = Filled(Told(s, options), dev)[j]
  <2>1. buf' = Converted(Laid(Told(s, options))) /\ Agree(driver, options, dev)
    BY <1>1, <1>3, <1>5 DEF Mixed, Told
  <2>2. Told(s, options) \in [1 .. 4 -> Byte]
    BY <1>3, FormatValues, BiasedBytes DEF Told
  <2> QED
    BY <1>3, <2>1, <2>2, FrameBytes
<1>6. TypeInv'
  <2>1. buf' \in Seq(Byte)
    BY <1>1, <1>5, EmptySeq
  <2> QED
    BY <1>2, <1>4, <2>1 DEF TypeInv
<1>7. SettledInv'
  BY <1>2 DEF SettledInv, Agree
<1>8. StreamInv'
  <2> SUFFICES ASSUME driver # "null", ~lost
               PROVE  AreFrames(out \o buf', sent', options, dev)
    BY <1>2 DEF StreamInv
  <2> DEFINE w == dev.bytes
             c == get_channels_from_format(options)
             n == Len(sent)
  <2>1. w \in 1 .. 4 /\ c \in 1 .. 2 /\ n \in Nat
    BY <1>3, <1>4, FormatValues DEF Agree, Width
  <2>2. out \o buf = out
    BY <1>2, <1>3, ConcatEmptySeq
  <2>3. /\ Len(out) = w * (c * n)
        /\ \A i \in 1 .. n, k \in 0 .. c - 1, j \in 1 .. w :
               out[w * (c * (i - 1) + k) + j] = Filled(Told(sent[i], options), dev)[j]
    BY <1>2, <2>2 DEF StreamInv, AreFrames
  <2> DEFINE f == buf'
             all == out \o f
  <2>4. /\ f \in Seq(Byte) /\ Len(f) = w * c
        /\ \A k \in 0 .. c - 1, j \in 1 .. w : f[w * k + j] = Filled(Told(s, options), dev)[j]
    BY <1>5
  <2> HIDE DEF w, c, n, f
  <2>5. /\ Len(all) = Len(out) + Len(f)
        /\ \A x \in 1 .. Len(out) : all[x] = out[x]
        /\ \A x \in 1 .. Len(f) : all[Len(out) + x] = f[x]
    BY <1>3, <2>4, Joined
  <2> HIDE DEF all
  <2>6. Len(all) = w * (c * Len(sent'))
    <3>1. Len(sent') = n + 1
      BY <1>4 DEF n
    <3>2. 0 \in 0 .. c - 1 /\ 1 \in 1 .. w
      BY <2>1
    <3>3. w * (c * (n + 1)) = w * (c * n) + w * c
      BY <2>1, <3>2, FramePlace
    <3> QED
      BY <2>3, <2>4, <2>5, <3>1, <3>3
  <2>7. ASSUME NEW i \in 1 .. n + 1, NEW k \in 0 .. c - 1, NEW j \in 1 .. w
        PROVE  all[w * (c * (i - 1) + k) + j] = Filled(Told(sent'[i], options), dev)[j]
    <3>1. CASE i \in 1 .. n
      <4>1. w * (c * (i - 1) + k) + j \in 1 .. Len(out)
        BY <2>1, <2>3, <3>1, FramePlace
      <4>2. sent'[i] = sent[i]
        BY <1>4, <3>1 DEF n
      <4> QED
        BY <2>3, <2>5, <3>1, <4>1, <4>2
    <3>2. CASE i = n + 1
      <4>1. /\ w * k + j \in 1 .. Len(f)
            /\ Len(out) + (w * k + j) = w * (c * n + k) + j
        BY <2>1, <2>3, <2>4, FramePlace
      <4>2. i - 1 = n
        BY <2>1, <3>2
      <4>3. sent'[i] = s
        BY <1>4, <3>2 DEF n
      <4> QED
        BY <2>4, <2>5, <4>1, <4>2, <4>3
    <3> QED
      BY <2>1, <3>1, <3>2
  <2> QED
    BY <1>4, <2>6, <2>7 DEF AreFrames, all, f, w, c, n
<1>9. SizeInv' /\ WavInv'
  BY <1>2 DEF SizeInv, WavInv, Started
<1> QED
  BY <1>6, <1>7, <1>8, <1>9

\* Cutting a sequence and joining it again, behind another one.
LEMMA CutAndJoined ==
    ASSUME NEW t \in Seq(Byte), NEW u \in Seq(Byte), NEW n \in 0 .. Len(u)
    PROVE  /\ SubSeq(u, 1, n) \in Seq(Byte) /\ SubSeq(u, n + 1, Len(u)) \in Seq(Byte)
           /\ (t \o SubSeq(u, 1, n)) \o SubSeq(u, n + 1, Len(u)) = t \o u
           /\ n = Len(u) => SubSeq(u, 1, n) = u
<1> DEFINE x == SubSeq(u, 1, n)
           y == SubSeq(u, n + 1, Len(u))
<1>1. Len(u) \in Nat /\ n \in Nat /\ n + 1 \in Int
  OBVIOUS
<1>2. /\ \A k \in 1 .. n : u[k] \in Byte
      /\ \A k \in n + 1 .. Len(u) : u[k] \in Byte
  BY <1>1, ElementOfSeq
<1>3. x \in Seq(Byte) /\ y \in Seq(Byte)
  BY <1>1, <1>2, SubSeqProperties
<1>4. x \o y = u
  <2>1. SubSeq(u, 1, n) \o SubSeq(u, n + 1, Len(u)) = SubSeq(u, 1, Len(u))
    <3>1. 1 \in 1 .. Len(u) + 1 /\ n \in 1 - 1 .. Len(u) /\ Len(u) \in n .. Len(u)
      BY <1>1
    <3> QED
      BY <3>1, ConcatAdjacentSubSeq
  <2> QED
    BY <2>1, SubSeqFull
<1>5. n = Len(u) => x = u
  BY SubSeqFull
<1> HIDE DEF x, y
<1>6. (t \o x) \o y = t \o (x \o y)
  BY SMTT(30), <1>3, ConcatAssociative
<1> QED
  BY <1>3, <1>4, <1>5, <1>6 DEF x, y

\* However the writes are split, what was written and what is left stay the
\* same; the file writers write all of it, or lose it.
LEMMA Written == OutputInv /\ Write => OutputInv'
<1> SUFFICES ASSUME OutputInv, Write PROVE OutputInv'
  OBVIOUS
<1>1. PICK n \in 0 .. Len(buf) :
          /\ out' = out \o SubSeq(buf, 1, n)
          /\ \/ /\ n > 0
                /\ n = Len(buf) \/ driver \in Loopers
                /\ buf' = SubSeq(buf, n + 1, Len(buf))
                /\ UNCHANGED lost
             \/ /\ n < Len(buf)
                /\ driver \notin Queuers
                /\ n = 0 \/ driver \notin Loopers
                /\ buf' = <<>>
                /\ lost' = TRUE
  BY DEF Write
<1>2. /\ pc = "play" /\ driver' = driver
      /\ size' = IF driver \in Writers THEN size + Len(buf) ELSE size
      /\ UNCHANGED <<pc, big, build, pref, at, options, dev, header, sent>>
  BY DEF Write, driver
<1>3. buf \in Seq(Byte) /\ out \in Seq(Byte) /\ size \in Nat /\ Len(buf) \in Nat
  BY DEF OutputInv, TypeInv
<1>4. /\ SubSeq(buf, 1, n) \in Seq(Byte) /\ SubSeq(buf, n + 1, Len(buf)) \in Seq(Byte)
      /\ (out \o SubSeq(buf, 1, n)) \o SubSeq(buf, n + 1, Len(buf)) = out \o buf
      /\ n = Len(buf) => SubSeq(buf, 1, n) = buf
  BY <1>3, CutAndJoined
<1>5. out' \in Seq(Byte) /\ (n = Len(buf) => Len(out') = Len(out) + Len(buf))
  BY <1>1, <1>3, <1>4, Joined
<1>6. TypeInv'
  <2>1. buf' \in Seq(Byte)
    BY <1>1, <1>4, EmptySeq
  <2>2. size' \in Nat
    BY <1>2, <1>3
  <2>3. lost' \in BOOLEAN
    BY <1>1 DEF OutputInv, TypeInv
  <2> QED
    BY <1>2, <1>5, <2>1, <2>2, <2>3 DEF OutputInv, TypeInv
<1>7. SettledInv'
  BY <1>2 DEF OutputInv, SettledInv, Agree
<1>8. ASSUME ~lost'
      PROVE  ~lost /\ out' \o buf' = out \o buf /\ (n = Len(buf) \/ driver \in Loopers)
  <2>1. /\ n = Len(buf) \/ driver \in Loopers
        /\ buf' = SubSeq(buf, n + 1, Len(buf)) /\ lost' = lost
    BY <1>1, <1>8
  <2> QED
    BY <1>1, <1>4, <1>8, <2>1, Zenon
<1>9. StreamInv'
  <2>1. CASE lost'
    BY <2>1 DEF StreamInv
  <2>2. CASE ~lost'
    <3>1. ~lost /\ (out \o buf)' = out \o buf
      BY <1>8, <2>2
    <3>2. UNCHANGED <<pc, driver, dev, options, sent>>
      BY <1>2
    <3> QED
      BY <3>1, <3>2 DEF OutputInv, StreamInv
  <2> QED
    BY <2>1, <2>2
<1>10. SizeInv'
  <2> SUFFICES ASSUME driver \in Writers, ~lost' PROVE size' = Len(out')
    BY <1>2 DEF SizeInv
  <2>1. driver \notin Loopers
    BY DEF Writers, Loopers
  <2>2. n = Len(buf) /\ size = Len(out)
    BY <1>2, <1>8, <2>1 DEF OutputInv, SizeInv
  <2> QED
    BY <1>2, <1>5, <2>2
<1>11. WavInv'
  BY <1>2 DEF OutputInv, WavInv, Started
<1> QED
  BY <1>6, <1>7, <1>9, <1>10, <1>11 DEF OutputInv

\* deinit() touches the header only.
LEMMA Closed == OutputInv /\ Deinit => OutputInv'
<1> SUFFICES ASSUME OutputInv, Deinit PROVE OutputInv'
  OBVIOUS
<1>1. /\ pc = "play" /\ pc' = "closed" /\ driver' = driver
      /\ UNCHANGED <<big, build, pref, at, options, dev, buf, out, size, sent, lost>>
      /\ header' \in IF driver = "wav"
                     THEN {Completed(header, seekable) : seekable \in BOOLEAN} ELSE {header}
  BY DEF Deinit, driver
<1>2. TypeInv'
  BY <1>1 DEF OutputInv, TypeInv
<1>3. SettledInv'
  BY <1>1 DEF OutputInv, SettledInv, Agree
<1>4. StreamInv' /\ SizeInv'
  BY <1>1 DEF OutputInv, StreamInv, SizeInv
<1>5. WavInv'
  <2>1. pc' = "closed" /\ driver' = driver /\ dev' = dev /\ size' = size
    BY <1>1
  <2>2. Started' = Started
    BY <2>1 DEF Started
  <2>3. Finished' = {Completed(Started, seekable) : seekable \in BOOLEAN}
    BY <2>1, <2>2 DEF Finished, Completed
  <2>4. driver = "wav" => header' \in {Completed(Started, seekable) : seekable \in BOOLEAN}
    BY <1>1 DEF OutputInv, WavInv
  <2> QED
    BY <2>1, <2>3, <2>4 DEF WavInv
<1> QED
  BY <1>2, <1>3, <1>4, <1>5 DEF OutputInv

\* The invariant holds of every behaviour.
THEOREM OutputCorrect == Spec => []OutputInv
<1>1. OutputInv /\ [Next]_vars => OutputInv'
  <2> SUFFICES ASSUME OutputInv, [Next]_vars PROVE OutputInv'
    OBVIOUS
  <2>1. CASE Skip \/ Hang \/ NoDriver
    BY <2>1, NothingSelected
  <2>2. CASE TryDriver
    BY <2>2, DriverTried
  <2>3. CASE Play
    BY <2>3, Played
  <2>4. CASE Write
    BY <2>4, Written
  <2>5. CASE Deinit
    BY <2>5, Closed
  <2>6. CASE UNCHANGED vars
    <3>1. /\ UNCHANGED <<pc, big, build, at, options, dev, buf, out, size, header, sent, lost>>
          /\ driver' = driver
      BY <2>6 DEF vars, driver
    <3>2. TypeInv' /\ SettledInv'
      BY <3>1 DEF OutputInv, TypeInv, SettledInv, Agree
    <3>3. StreamInv'
      <4>1. /\ pc' = pc /\ driver' = driver /\ lost' = lost
            /\ (out \o buf)' = out \o buf /\ sent' = sent /\ dev' = dev
            /\ options' = options
        BY <3>1
      <4> QED
        BY <4>1 DEF OutputInv, StreamInv
    <3>4. SizeInv'
      BY <3>1 DEF OutputInv, SizeInv
    <3>5. WavInv'
      <4>1. /\ pc' = pc /\ driver' = driver /\ dev' = dev /\ size' = size
            /\ header' = header
        BY <3>1
      <4> QED
        <5>1. Started' = Started
          BY <4>1 DEF Started
        <5>2. Finished' = Finished
          BY <4>1, <5>1 DEF Finished, Completed
        <5> QED
          BY <4>1, <5>1, <5>2 DEF OutputInv, WavInv
    <3> QED
      BY <3>2, <3>3, <3>4, <3>5 DEF OutputInv
  <2> QED
    BY <2>1, <2>2, <2>3, <2>4, <2>5, <2>6 DEF Next
<1> QED
  BY <1>1, OutputInit, PTL DEF Spec

-----------------------------------------------------------------------------
(* The properties                                                          *)

\* Whatever drivers were tried before, options and the selected driver agree on
\* the rate, the channels and the sign.
THEOREM FormatIsAgreed == Spec => []FormatAgreed
<1>1. OutputInv => FormatAgreed
  BY DEF OutputInv, SettledInv, FormatAgreed, Agree, SignAgreed
<1> QED
  BY <1>1, OutputCorrect, PTL

\* The sizes in the header of a closed WAV file are those of the file.
THEOREM WavHeaderIsRight == Spec => []WavHeader
<1>1. OutputInv => WavHeader
  <2> DEFINE rest == 12 + (8 + (IF header.bits > 16 THEN 40 ELSE 16)) + 8
                         + Len(out) + header.pad - 8
  <2> SUFFICES ASSUME OutputInv, pc = "closed", driver = "wav", ~lost, header.riff # 0,
                      rest < Field
               PROVE  header.data = Len(out) /\ header.riff = rest /\ rest % 2 = 0
    BY DEF WavHeader
  <2>1. PICK seekable \in BOOLEAN : header = Completed(Started, seekable)
    BY DEF OutputInv, WavInv, Finished
  <2>2. size = Len(out) /\ size \in Nat
    BY DEF OutputInv, TypeInv, SizeInv, Writers
  <2>3. /\ header.bits = dev.bits /\ header.pad = size % 2
        /\ header.data = IF seekable THEN size % Field ELSE 0
        /\ header.riff = IF seekable
                         THEN (size + (size % 2) + ((IF dev.bits > 16 THEN 64 ELSE 40) + 4 - 8))
                                  % Field
                         ELSE 0
    BY <2>1 DEF Completed, NoHeader, Started
  <2>4. seekable
    BY <2>3
  <2>5. /\ rest = size + (size % 2) + ((IF dev.bits > 16 THEN 64 ELSE 40) + 4 - 8)
        /\ rest \in Nat /\ size <= rest
    <3>1. header.bits = dev.bits /\ header.pad = size % 2 /\ size % 2 \in Nat
          /\ Len(out) = size /\ size \in Nat
      BY <2>2, <2>3
    <3>2. CASE dev.bits > 16
      BY <3>1, <3>2
    <3>3. CASE ~(dev.bits > 16)
      BY <3>1, <3>3
    <3> QED
      BY <3>2, <3>3
  <2>6. rest % 2 = 0
    <3>1. (size + (size % 2)) % 2 = 0
      BY <2>2
    <3>2. rest = size + (size % 2) + 60 \/ rest = size + (size % 2) + 36
      BY <2>2, <2>5
    <3> QED
      BY <2>2, <3>1, <3>2
  <2> HIDE DEF rest
  <2>7. size % Field = size /\ rest % Field = rest
    <3>1. Field \in Nat \ {0} /\ \A x \in 0 .. Field - 1 : x % Field = x
      BY OutputAssumption
    <3> QED
      BY SMTT(30), <2>2, <2>5, <3>1
  <2> QED
    BY <2>2, <2>3, <2>4, <2>5, <2>6, <2>7
<1> QED
  BY <1>1, OutputCorrect, PTL

\* What is heard, container by container, is what libxmp mixed: the containers
\* are filled as Filled says, and reading one back gives the sample.
THEOREM HeardAsMixed == Spec => []Heard
<1>1. OutputInv => Heard
  <2> SUFFICES ASSUME OutputInv, pc = "play", driver # "null", buf = <<>>, ~lost,
                      Expressible
               PROVE  LET Container(k) == SubSeq(out, dev.bytes * (k - 1) + 1, dev.bytes * k)
                      IN /\ Len(out) = dev.bytes * dev.channels * Len(sent)
                         /\ \A i \in DOMAIN sent, c \in 1 .. dev.channels :
                                Read(dev, Container(dev.channels * (i - 1) + c)) =
                                SubSeq(sent[i], 1, dev.bits \div 8)
    BY DEF Heard
  <2> DEFINE w == dev.bytes
             m == dev.channels
             n == Len(sent)
             Container(k) == SubSeq(out, w * (k - 1) + 1, w * k)
  <2>1. /\ Agree(driver, options, dev) /\ options \in Format
        /\ out \in Seq(Byte) /\ sent \in Seq(Samples)
        /\ get_signed_from_format(options) = dev.signed
        /\ m = get_channels_from_format(options)
    BY DEF OutputInv, TypeInv, SettledInv, Agree, Expressible, SignAgreed
  <2>2. /\ w \in 1 .. 4 /\ m \in 1 .. 2 /\ n \in Nat /\ dev.bits \in Width
        /\ dev.le \in BOOLEAN /\ w \in {dev.bits \div 8, 4}
    BY <2>1, FormatValues DEF Agree, Width
  <2>3. out \o buf = out
    BY <2>1, ConcatEmptySeq
  <2>4. AreFrames(out, sent, options, dev)
    BY <2>3 DEF OutputInv, StreamInv
  <2>5. /\ Len(out) = w * (m * n)
        /\ \A i \in 1 .. n, k \in 0 .. m - 1, j \in 1 .. w :
               out[w * (m * (i - 1) + k) + j] = Filled(Told(sent[i], options), dev)[j]
    BY <2>1, <2>4 DEF AreFrames
  <2> HIDE DEF w, m, n
  <2>6. ASSUME NEW i \in 1 .. n, NEW c \in 1 .. m
        PROVE  Read(dev, Container(m * (i - 1) + c)) = SubSeq(sent[i], 1, dev.bits \div 8)
    <3> DEFINE p == m * (i - 1) + (c - 1)
               g == Container(m * (i - 1) + c)
               t == Told(sent[i], options)
               f == Filled(t, dev)
    <3>1. c - 1 \in 0 .. m - 1
      BY <2>2
    <3>2. \A j \in 1 .. w : w * p + j \in 1 .. Len(out)
      <4>1. \A j \in 1 .. w : w * p + j \in 1 .. w * (m * n)
        BY ONLY <2>2, <2>6, <3>1, FramePlace
      <4> QED
        BY ONLY <2>5, <4>1
    <3>3. \A j \in 1 .. w : out[w * p + j] = f[j]
      BY <2>5, <3>1
    <3>4. p \in Nat /\ g = SubSeq(out, w * p + 1, w * p + w)
      BY <2>2, <3>1
    <3> HIDE DEF p, g, f, t
    <3>5. w * p \in Nat
      BY <2>2, <3>4
    <3>6. \A x \in w * p + 1 .. w * p + w : out[x] \in Byte
      <4>1. ASSUME NEW x \in w * p + 1 .. w * p + w PROVE x \in 1 .. Len(out)
        <5>1. x - w * p \in 1 .. w /\ w * p + (x - w * p) = x
          BY <2>2, <3>5
        <5> QED
          BY <3>2, <5>1
      <4> QED
        BY <2>1, <4>1, ElementOfSeq
    <3>7. /\ g \in Seq(Byte) /\ Len(g) = w
          /\ \A j \in 1 .. w : g[j] = out[w * p + j]
      <4> DEFINE first == w * p + 1
                 last == w * p + w
      <4>1. /\ first \in Int /\ last \in Int /\ first <= last /\ last - first + 1 = w
        BY <2>2, <3>5
      <4>2. \A x \in first .. last : out[x] \in Byte
        BY <3>6
      <4>3. g = SubSeq(out, first, last)
        BY <3>4
      <4> HIDE DEF first, last
      <4>4. /\ SubSeq(out, first, last) \in Seq(Byte)
            /\ Len(SubSeq(out, first, last)) =
                   IF first <= last THEN last - first + 1 ELSE 0
            /\ \A j \in 1 .. last - first + 1 :
                   SubSeq(out, first, last)[j] = out[first + j - 1]
        BY <4>1, <4>2, SubSeqProperties
      <4> QED
        <5>1. \A j \in 1 .. w : first + j - 1 = w * p + j
          BY <3>5 DEF first
        <5> QED
          BY <4>1, <4>3, <4>4, <5>1
    <3>8. sent[i] \in [1 .. 4 -> Byte] /\ t \in [1 .. 4 -> Byte]
      <4>1. sent[i] \in Samples
        BY <2>1, ElementOfSeq DEF n
      <4> QED
        BY <4>1, <2>1, OutputAssumption, FormatValues, BiasedBytes DEF t, Byte, Told
    <3>9. g = f
      <4>1. DOMAIN g = 1 .. w /\ g = [j \in 1 .. w |-> g[j]]
        BY <3>7
      <4>2. f = [j \in 1 .. w |-> f[j]]
        BY DEF f, Filled, w
      <4> QED
        BY <3>3, <3>7, <4>1, <4>2
    <3>10. Kept(dev, g) = SubSeq(t, 1, dev.bits \div 8)
      BY <2>2, <3>8, <3>9, ReadBack DEF f, w
    <3>11. /\ t = Biased(sent[i], dev.signed)
           /\ dev.bits \div 8 \in 1 .. 4 /\ dev.signed \in BOOLEAN
      BY <2>1, <2>2 DEF t, Told, Width, Agree
    <3> QED
      BY <3>8, <3>10, <3>11, Unbiased DEF Read, g
  <2>7. w * (m * n) = w * m * n /\ DOMAIN sent = 1 .. n
    <3>1. w \in {1, 2, 3, 4} /\ m \in {1, 2}
      BY <2>2
    <3>2. DOMAIN sent = 1 .. n
      BY <2>1 DEF n
    <3> QED
      BY <2>2, <3>1, <3>2
  <2> QED
    BY <2>5, <2>6, <2>7 DEF w, m, n
<1> QED
  BY <1>1, OutputCorrect, PTL

=============================================================================
