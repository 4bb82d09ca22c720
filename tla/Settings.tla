------------------------------ MODULE Settings ------------------------------
(***************************************************************************)
(* Where the settings a module is played with come from: the defaults of   *)
(* main.c, xmp.conf, the command line (options.c over getopt_long.c) and   *)
(* modules.conf, up to what is handed to libxmp for each module.           *)
(*                                                                         *)
(* A line of a file is its variable and its value, once comments and       *)
(* spaces are deleted; a line without a value is left out, for the code    *)
(* reads through a null pointer then.  The [digest] line of modules.conf   *)
(* is the variable "[" with the module of that digest as its value.  The   *)
(* order in which the modules are played is XmpPlayer's subject: here they *)
(* are played as listed.                                                   *)
(***************************************************************************)
EXTENDS Getopt

CONSTANTS
    Inputs,        \* the command lines and files the program may be given
    Numerals,      \* the numbers some strings of digits spell
    Modes,         \* the names of pmode[]
    Channels,      \* XMP_MAX_CHANNELS
    MAX_DRV_PARM,  \* driver parameters kept
    Answers,       \* what the init of a sound driver may make of the options
    OldLibrary     \* xmp_vercode < 0x040700

File == [exists : BOOLEAN, lines : Seq([var : STRING, val : Seq(STRING)]), ended : BOOLEAN]

ASSUME SettingsAssumption ==
    /\ Channels \in Nat /\ MAX_DRV_PARM \in Nat /\ OldLibrary \in BOOLEAN
    /\ \A a \in Answers :
          /\ a.rate \in Int /\ a.format \subseteq STRING
          /\ a.format_downmix \in {0, 24} /\ a.out_file \in Seq(STRING)
    /\ \A i \in Inputs :
          /\ i.argv \in Seq(Seq(STRING)) /\ i.posix \in BOOLEAN
          /\ {i.home, i.etc, i.etcmods, i.homemods} \subseteq File
          /\ \A f \in {i.home, i.etc, i.etcmods, i.homemods} : ~f.exists => f.lines = <<>>

VARIABLES
    input,        \* the command line and the files, as given
    pc,           \* where main() is
    opt,          \* struct options
    save_opt,     \* its copy, restored before each module
    guess,        \* driver_guess in get_options
    control,      \* what struct control takes from the options
    got,          \* history: the options getopt_long returned
    rates,        \* history: the rate the sound driver was asked for, and the
                  \* one it settled on
    played        \* history: the modules played and what libxmp was given

settings == <<opt, save_opt, guess, control>>
history  == <<got, rates, played>>
vars     == <<input, pc, settings, history, getopt>>

-----------------------------------------------------------------------------
(* The conversions of the C library *)

Digits(t) == IF t \in DOMAIN Numerals THEN Numerals[t] ELSE 0

\* atoi, strtoul assigned to an int: a sign, then digits.
Number(a) ==
    IF a = <<>> THEN 0
    ELSE IF Len(a) > 1 /\ a[1] = "-" THEN -Digits(a[2]) ELSE Digits(a[1])

\* get_yesno looks at the first letter only.
get_yesno(v) == v # <<>> /\ SubSeq(v[1], 1, 1) \in {"y", "o"}

Between(n, lo, hi) == IF n < lo THEN lo ELSE IF n > hi THEN hi ELSE n
With(set, flag, yes) == IF yes THEN set \cup {flag} ELSE set \ {flag}
LowBit(n, yes) == 2 * (n \div 2) + (IF yes THEN 1 ELSE 0)
Bool(yes) == IF yes THEN 1 ELSE 0
Tristate(yes) == IF yes THEN 1 ELSE -1

Interpolations == {"nearest", "linear", "spline"}
Bad == "-1"
OneOf(v, names) == Len(v) = 1 /\ v[1] \in names

-----------------------------------------------------------------------------
(* struct options *)

Defaults == [
    verbose |-> 1, rate |-> 44100, format |-> {}, format_downmix |-> 0,
    mix |-> -1, defpan |-> 50, numvoices |-> 128, driver_id |-> NULL,
    out_file |-> NULL, ins_path |-> NULL, driver_parm |-> <<>>,
    interp |-> "spline", dsp |-> {"LOWPASS"}, player_mode |-> "auto",
    amplify |-> 1, reverse |-> 0, amiga_mixer |-> 0, fixloop |-> 0,
    fx9bug |-> 0, vblank |-> 0, loop |-> 0, random |-> 0, explore |-> 0,
    info |-> 0, silent |-> 0, probeonly |-> 0, nocmd |-> 0, norc |-> 0,
    show_comment |-> 0, sequence |-> 0, start |-> 0, max_time |-> 0,
    loop_time |-> 0, mute |-> [c \in 0 .. Channels - 1 |-> -1]]

ToDriver(o, p) ==
    IF Len(o.driver_parm) < MAX_DRV_PARM
    THEN [o EXCEPT !.driver_parm = Append(@, p)] ELSE o

-----------------------------------------------------------------------------
(* read_config *)

\* "feof" is only true after a read has failed, and a line that no newline
\* ends fails it: it is dropped.
Lines(f) == IF f.ended \/ f.lines = <<>> THEN f.lines ELSE Front(f.lines)

\* What both files say in the same words.
CommonLine(o, l) ==
    LET yes == get_yesno(l.val) IN
    CASE l.var = "filter"       -> [o EXCEPT !.dsp = With(@, "LOWPASS", yes)]
      [] l.var = "loop"         -> [o EXCEPT !.loop = LowBit(@, yes)]
      [] l.var = "reverse"      -> [o EXCEPT !.reverse = Bool(yes)]
      [] l.var = "amplify"      -> [o EXCEPT !.amplify = Number(l.val)]
      [] l.var = "mix"          -> [o EXCEPT !.mix = Number(l.val)]
      [] l.var = "mixer_voices" -> [o EXCEPT !.numvoices = Number(l.val)]
      [] l.var = "interpolation" /\ OneOf(l.val, Interpolations) ->
                                   [o EXCEPT !.interp = l.val[1]]
      [] OTHER -> o

Common == {"filter", "loop", "reverse", "amplify", "mix", "mixer_voices"}

\* A line no variable claims goes to the driver; so does "interpolation", for
\* its branch does not end with "continue".
ConfLine(o, l) ==
    LET yes == get_yesno(l.val) IN
    CASE l.var \in Common      -> CommonLine(o, l)
      [] l.var = "8bit"        -> [o EXCEPT !.format = With(@, "8BIT", yes)]
      [] l.var = "mono"        -> [o EXCEPT !.format = With(@, "MONO", yes)]
      [] l.var = "default_pan" -> [o EXCEPT !.defpan = Number(l.val)]
      [] l.var = "srate"       -> [o EXCEPT !.rate = Number(l.val)]
      [] l.var = "amiga"       -> [o EXCEPT !.amiga_mixer = Bool(yes)]
      [] l.var = "driver"      -> [o EXCEPT !.driver_id = l.val]
      [] l.var = "bits"        -> IF Number(l.val) = 8
                                  THEN [o EXCEPT !.format = {"8BIT"}] ELSE o
      [] l.var = "instrument_path" -> [o EXCEPT !.ins_path = l.val]
      [] OTHER -> ToDriver(CommonLine(o, l), <<l.var, "=">> \o l.val)

\* The user's file, or else the system's.
ConfFile(i) == IF i.home.exists THEN i.home ELSE i.etc

read_config(o, i) ==
    LET ls == Lines(ConfFile(i))
        after[n \in 0 .. Len(ls)] == IF n = 0 THEN o ELSE ConfLine(after[n - 1], ls[n])
    IN after[Len(ls)]

-----------------------------------------------------------------------------
(* parse_modconf *)

ModLine(module, s, l) ==
    LET yes == get_yesno(l.val)
        Now(o) == [s EXCEPT !.o = o]
    IN
    IF l.var = "[" THEN [s EXCEPT !.active = (l.val = module)]
    ELSE IF ~s.active THEN s
    ELSE
    CASE l.var = "mono"    -> [s EXCEPT !.mono = yes]
      [] l.var = "fixloop" -> Now([s.o EXCEPT !.fixloop = Tristate(yes)])
      [] l.var = "fx9bug"  -> Now([s.o EXCEPT !.fx9bug = Tristate(yes)])
      [] l.var = "vblank"  -> Now([s.o EXCEPT !.vblank = Tristate(yes)])
      [] l.var = "amiga"   -> Now([s.o EXCEPT !.amiga_mixer = Tristate(yes)])
      [] l.var = "mode" /\ OneOf(l.val, Modes) ->
                              Now([s.o EXCEPT !.player_mode = l.val[1]])
      [] OTHER             -> Now(CommonLine(s.o, l))

parse_modconf(o, f, module) ==
    LET ls == Lines(f)
        after[n \in 0 .. Len(ls)] ==
            IF n = 0 THEN [o |-> o, active |-> FALSE, mono |-> FALSE]
            ELSE ModLine(module, after[n - 1], ls[n])
        end == after[Len(ls)]
    IN IF end.mono THEN [end.o EXCEPT !.mix = 0] ELSE end.o

\* The system's file, then the user's.
read_modconf(o, i, module) ==
    parse_modconf(parse_modconf(o, i.etcmods, module), i.homemods, module)

-----------------------------------------------------------------------------
(* get_options *)

\* -M and -S: the items of a list that commas separate.
Items(a) ==
    {item \in (DOMAIN a) \X (DOMAIN a) :
        LET i == item[1]
            j == item[2]
        IN /\ i <= j
           /\ \A k \in i .. j : a[k] # ","
           /\ i = 1 \/ a[i - 1] = ","
           /\ j = Len(a) \/ a[j + 1] = ","}

\* A range's end is copied over its beginning in the same buffer, which keeps
\* the digits of a longer beginning.
Overlay(t, u) == u \o SubSeq(t, Len(u) + 1, Len(t))

ItemRange(a, i, j) ==
    LET dashes == {k \in i .. j : a[k] = "-"} IN
    IF dashes = {} THEN Digits(a[i]) .. Digits(a[i])
    ELSE LET k == Min(dashes)
             t == IF k = i THEN "" ELSE a[i]
             u == IF k = j THEN "" ELSE a[k + 1]
         IN Digits(t) .. Digits(Overlay(t, u))

Listed(a) == UNION {ItemRange(a, item[1], item[2]) : item \in Items(a)}

Muted(o, a) == [c \in DOMAIN o.mute |-> IF c \in Listed(a) THEN 1 ELSE o.mute[c]]
Soloed(o, a) == [c \in DOMAIN o.mute |-> IF c \in Listed(a) THEN 0 ELSE 1]

Bits(o, n) ==
    [o EXCEPT !.format = (@ \ {"8BIT", "32BIT"}) \cup
                         (CASE n = 8 -> {"8BIT"} [] n \in {24, 32} -> {"32BIT"}
                            [] OTHER -> {}),
              !.format_downmix = IF n = 24 THEN 24 ELSE 0]

\* The switch, for the options that go into struct options and go on.
Applied(o, c, a) ==
    CASE c = "A" -> [o EXCEPT !.amiga_mixer = 1]
      [] c = "a" -> [o EXCEPT !.amplify = Number(a)]
      [] c = "b" -> Bits(o, Number(a))
      [] c = "C" -> [o EXCEPT !.show_comment = 1]
      [] c = "c" -> [o EXCEPT !.out_file = <<"-">>]
      [] c = "D" -> ToDriver(o, a)
      [] c = "d" -> [o EXCEPT !.driver_id = a]
      [] c = "e" -> [o EXCEPT !.player_mode = IF OneOf(a, Modes) THEN a[1] ELSE Bad]
      [] c = "F" -> [o EXCEPT !.dsp = @ \ {"LOWPASS"}]
      [] c = "f" -> [o EXCEPT !.rate = Number(a)]
      [] c = "FIXLOOP"  -> [o EXCEPT !.fixloop = 1]
      [] c = "I" -> [o EXCEPT !.ins_path = a]
      [] c = "i" -> [o EXCEPT !.interp = IF OneOf(a, Interpolations) THEN a[1] ELSE Bad]
      [] c = "LOADONLY" -> [o EXCEPT !.info = 1, !.silent = 1]
      [] c = "l" -> [o EXCEPT !.loop = 1]
      [] c = "LOOPALL"  -> [o EXCEPT !.loop = 2]
      [] c = "NUMVOICES" -> [o EXCEPT !.numvoices = Number(a)]
      [] c = "m" -> [o EXCEPT !.format = @ \cup {"MONO"}]
      [] c = "N" -> [o EXCEPT !.silent = 1]
      [] c = "NOCMD" -> [o EXCEPT !.nocmd = 1]
      [] c = "NORC"  -> [o EXCEPT !.norc = 1]
      [] c = "o" -> [o EXCEPT !.out_file = a]
      [] c = "P" -> [o EXCEPT !.mix = Between(Number(a), 0, 100)]
      [] c = "p" -> [o EXCEPT !.defpan = Between(Number(a), 0, 100)]
      [] c = "PROBEONLY" -> [o EXCEPT !.probeonly = 1]
      [] c = "q" -> [o EXCEPT !.verbose = 0]
      [] c = "R" -> [o EXCEPT !.random = 1]
      [] c = "r" -> [o EXCEPT !.reverse = 1]
      [] c = "M" -> [o EXCEPT !.mute = Muted(o, a)]
      [] c = "S" -> [o EXCEPT !.mute = Soloed(o, a)]
      [] c = "s" -> [o EXCEPT !.start = Number(a)]
      [] c = "t" -> [o EXCEPT !.max_time = Number(a) * 1000]
      [] c = "u" -> [o EXCEPT !.format = @ \cup {"UNSIGNED"}]
      [] c = "U" -> [o EXCEPT !.loop_time = Number(a) * 1000]
      [] c = "VBLANK" -> [o EXCEPT !.vblank = 1]
      [] c = "v" -> [o EXCEPT !.verbose = @ + 1]
      [] c = "Z" -> [o EXCEPT !.explore = 1]
      [] c = "z" -> [o EXCEPT !.sequence = Number(a)]

\* -L and -V print and exit, -h exits with an error, and so does what getopt
\* refuses; -T has an argument and no case in the switch.
Exits == {"L", "V", "h", "T", "bad"}

\* The name of the file chooses the driver, if nothing else does.
Guess(c, a) ==
    CASE c = "c" -> <<"file">>
      [] c = "o" -> IF a # <<>> /\ Last(a) \in {".wav", ".aiff"}
                    THEN <<SubSeq(Last(a), 2, Len(Last(a)))>> ELSE <<"file">>
      [] OTHER -> guess

MaxRate == IF OldLibrary THEN 48000 ELSE 768000

Limited(o) ==
    [o EXCEPT !.rate = Between(@, 1000, MaxRate),
              !.format = IF OldLibrary THEN @ \ {"32BIT"} ELSE @,
              !.format_downmix = IF OldLibrary THEN 0 ELSE @,
              !.driver_id = IF @ = NULL THEN guess ELSE @]

-----------------------------------------------------------------------------
(* main *)

Init ==
    /\ input \in Inputs
    /\ GetoptInit(input.argv, input.posix)
    /\ pc = "config"
    /\ opt = Defaults
    /\ save_opt = Defaults
    /\ guess = NULL
    /\ control = [loop |-> 0, explore |-> 0, amiga_mixer |-> 0]
    /\ got = <<>>
    /\ rates = [asked |-> 0, settled |-> 0]
    /\ played = <<>>

\* main asks for norc here, before the command line is looked at.
ReadConfig ==
    /\ pc = "config"
    /\ pc' = "getopt"
    /\ opt' = IF opt.norc = 0 THEN read_config(opt, input) ELSE opt
    /\ UNCHANGED <<input, save_opt, guess, control, got, rates, played, getopt>>

ScanWord ==
    /\ pc = "getopt"
    /\ getopt_long
    /\ UNCHANGED <<input, pc, settings, history>>

UseOption ==
    /\ pc = "getopt"
    /\ optchar \notin {"call", "end"} \cup Exits
    /\ opt' = Applied(opt, optchar, optarg)
    /\ guess' = Guess(optchar, optarg)
    /\ got' = Append(got, <<optchar, optarg>>)
    /\ CallAgain
    /\ UNCHANGED <<input, pc, save_opt, control, rates, played>>

ExitOption ==
    /\ pc = "getopt"
    /\ optchar \in Exits
    /\ pc' = "exit"
    /\ got' = Append(got, <<optchar, optarg>>)
    /\ UNCHANGED <<input, settings, rates, played, getopt>>

EndOfOptions ==
    /\ pc = "getopt"
    /\ optchar = "end"
    /\ pc' = "checks"
    /\ opt' = Limited(opt)
    /\ UNCHANGED <<input, save_opt, guess, control, history, getopt>>

Refused ==
    \/ opt.probeonly = 0 /\ optind >= nargc
    \/ opt.interp = Bad
    \/ opt.player_mode = Bad

Refuse ==
    /\ pc = "checks"
    /\ Refused
    /\ pc' = "exit"
    /\ UNCHANGED <<input, settings, history, getopt>>

Silenced == IF opt.silent # 0 THEN [opt EXCEPT !.driver_id = <<"null">>] ELSE opt

\* The init of a driver writes into the options what it can play, and the
\* name of the file if there is none; drivers that fail before it may have,
\* too.  The null driver leaves them alone.
Settled(o) ==
    {o} \cup {[o EXCEPT !.rate = a.rate, !.format = a.format,
                        !.format_downmix = a.format_downmix,
                        !.out_file = IF @ = NULL THEN a.out_file ELSE @] :
                 a \in IF o.silent # 0 THEN {} ELSE Answers}

\* select_sound_driver finds a driver, or does not.
SelectDriver ==
    /\ pc = "checks"
    /\ ~Refused
    /\ opt' \in Settled(Silenced)
    /\ rates' = [asked |-> opt.rate, settled |-> opt'.rate]
    /\ \/ /\ pc' = "exit"
          /\ UNCHANGED <<save_opt, control>>
       \/ /\ opt.probeonly = 0
          /\ pc' = "play"
          /\ save_opt' = opt'
          /\ control' = [loop |-> opt.loop, explore |-> opt.explore,
                         amiga_mixer |-> opt.amiga_mixer]
    /\ UNCHANGED <<input, guess, got, played, getopt>>

\* What libxmp is given for a module, "mix" being -1 when it is not told.
Flag(n, flag) == IF n > 0 THEN {flag} ELSE {}
Given(o) ==
    [rate |-> o.rate, format |-> o.format, interp |-> o.interp, dsp |-> o.dsp,
     mode |-> o.player_mode, amp |-> o.amplify, mix |-> o.mix,
     reverse |-> o.reverse, voices |-> o.numvoices, defpan |-> o.defpan,
     mute |-> o.mute, start |-> o.start,
     flags |-> Flag(o.vblank, "VBLANK") \cup Flag(o.fx9bug, "FX9BUG") \cup
               Flag(o.fixloop, "FIXLOOP") \cup Flag(control.amiga_mixer, "A500")]

PlayWith(o) ==
    /\ pc = "play"
    /\ optind < nargc
    /\ opt' = IF o.norc = 0 THEN read_modconf(o, input, argv[optind]) ELSE o
    /\ played' = Append(played, [file |-> argv[optind], given |-> Given(opt')])
    /\ optind' = optind + 1
    /\ UNCHANGED <<input, pc, save_opt, guess, control, got, rates, argv,
                   place, nonopt_start, nonopt_end, optarg, optchar, posixly_correct>>

\* Mutant: the options are not restored before the next module.
PlayModuleOn == PlayWith(opt)

PlayModule == PlayWith(save_opt)

EndOfList ==
    /\ pc = "play"
    /\ optind >= nargc
    /\ pc' = "done"
    /\ UNCHANGED <<input, settings, history, getopt>>

Next ==
    \/ ReadConfig \/ ScanWord \/ UseOption \/ ExitOption \/ EndOfOptions
    \/ Refuse \/ SelectDriver \/ PlayModule \/ EndOfList

\* One thread that waits for nobody.
Spec == Init /\ [][Next]_vars /\ WF_vars(Next)

-----------------------------------------------------------------------------
(* Properties *)

asked == Reference(input.argv, input.posix)

\* However options and operands are mixed, getopt_long hands over the options
\* in the order in which they were written, each with its own argument, and
\* leaves the operands behind optind in the order in which they were written
\* (getopt_internal's bookkeeping of the two blocks and permute_args).
ParsedAsWritten ==
    /\ IsPrefix(got, asked.opts)
    /\ optchar = "end" /\ pc = "checks" =>
          got = asked.opts /\ SubSeq(argv, optind, nargc - 1) = asked.rest

Default == [amp |-> 1, voices |-> 128, mix |-> -1, rate |-> 44100, defpan |-> 50]

\* What a setting is called in the files, and its option.
Variable == [amp |-> "amplify", voices |-> "mixer_voices", mix |-> "mix",
             rate |-> "srate", defpan |-> "default_pan"]
Option   == [amp |-> "a", voices |-> "NUMVOICES", mix |-> "P", rate |-> "f", defpan |-> "p"]

\* What xmp.conf says last of the setting f, or else "otherwise".
FromConf(f, otherwise) ==
    LET ls == Lines(ConfFile(input))
        about == {j \in DOMAIN ls : ls[j].var = Variable[f]}
    IN IF about = {} THEN otherwise ELSE Number(ls[Max(about)].val)

\* What the command line says last of it.
FromOptions(f, otherwise) ==
    LET about == {j \in DOMAIN asked.opts : asked.opts[j][1] = Option[f]}
        last  == Number(asked.opts[Max(about)][2])
    IN IF about = {} THEN otherwise
       ELSE IF f \in {"mix", "defpan"} THEN Between(last, 0, 100) ELSE last

\* The line j of a modules.conf is in a section of the module.
InSection(ls, j, module) ==
    \E i \in 1 .. j - 1 : /\ ls[i].var = "["
                         /\ ls[i].val = module
                         /\ \A k \in i + 1 .. j : ls[k].var # "["

\* What a modules.conf says last of it in the module's sections.
FromModconf(file, module, f, otherwise) ==
    LET ls == Lines(file)
        About(v) == {j \in DOMAIN ls : ls[j].var = v /\ InSection(ls, j, module)}
        Yes(v) == About(v) # {} /\ get_yesno(ls[Max(About(v))].val)
    IN IF f = "mix" /\ Yes("mono") THEN 0
       ELSE IF About(Variable[f]) = {} THEN otherwise
       ELSE Number(ls[Max(About(Variable[f]))].val)

Said(f, module) ==
    LET before == FromOptions(f, FromConf(f, Default[f]))
    IN IF f \in {"rate", "defpan"} \/ opt.norc # 0 THEN before
       ELSE FromModconf(input.homemods, module, f,
                        FromModconf(input.etcmods, module, f, before))

\* Whatever was played before, a module is played with what its section of
\* modules.conf says, the user's file before the system's; failing that, with
\* what the command line says last; failing that, with what xmp.conf says, which
\* is read with --norc too.  Of the rate that is what the first sound driver is
\* asked for, within limits; every module is played at the one the driver
\* settled on (the order of read_config, get_options, the drivers' init, the
\* copy of save_opt and read_modconf in main).
Precedence ==
    \A i \in DOMAIN played :
        /\ \A f \in DOMAIN Default \ {"rate"} :
               played[i].given[f] = Said(f, played[i].file)
        /\ rates.asked = Between(Said("rate", played[i].file), 1000, MaxRate)
        /\ played[i].given.rate = rates.settled

\* The scan of any command line ends, and so does the program: in an exit or
\* when each operand has been played (getopt_internal moves on at each step).
AllPlayed == pc = "done" /\ [i \in DOMAIN played |-> played[i].file] = asked.rest
Finishes  == <>(pc = "exit" \/ AllPlayed)
=============================================================================
