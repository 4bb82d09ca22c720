----------------------------- MODULE MCSettings -----------------------------
(* Instances of Settings for TLC. *)
EXTENDS Settings

Nothing == [exists |-> FALSE, lines |-> <<>>, ended |-> TRUE]
FileOf(ls, ended) == [exists |-> TRUE, lines |-> ls, ended |-> ended]
Says(v, x) == [var |-> v, val |-> <<x>>]

\* Words that make every case of the scan: operands, flags alone and together,
\* arguments glued, following and missing, long names in full, abbreviated and
\* ambiguous, and the end of the options.
Words == {<<"one">>, <<"two">>, <<"-">>, <<"-", "-">>, <<"-", "q">>, <<"-", "q", "l">>,
          <<"-", "a">>, <<"-", "a", "2">>, <<"-", "-", "lo">>, <<"-", "-", "ran">>,
          <<"-", "-", "amplify">>, <<"-", "-", "pan", "=", "5">>}

\* Enough of them to make blocks of two operands and of two or three options.
FewWords == {<<"one">>, <<"two">>, <<"-", "q", "l">>, <<"-", "a", "2">>}

CommandLines == UNION {[1 .. n -> Words] : n \in 0 .. 3}
LongLines    == UNION {[1 .. n -> FewWords] : n \in 4 .. 5}

Alone == {<<"-", x>> : x \in Letters \cup {"X"}} \cup
         {<<"-", "-", name(i)>> : i \in DOMAIN lopt}
Arguments == {<<"8">>, <<"24">>, <<"32">>, <<"1">>, <<"nearest">>, <<"auto">>, <<"none">>,
              <<"-", "1">>, <<"null">>, <<"out", ".wav">>, <<"out">>,
              <<"1", ",", "2">>, <<"1", "-", "2">>, <<"2", "-">>, <<"12", "-", "1">>}
EachOption == {<<w, <<"one">>>> : w \in Alone} \cup {<<w, a, <<"one">>>> : w \in Alone, a \in Arguments}

CommandLine(c, posix) ==
    [argv |-> c, posix |-> posix, home |-> Nothing, etc |-> Nothing,
     etcmods |-> Nothing, homemods |-> Nothing]

Parsed == {CommandLine(c, FALSE) : c \in CommandLines \cup LongLines \cup EachOption}
          \cup {CommandLine(c, TRUE) : c \in CommandLines}

ConfLines == {Says("amplify", "2"), Says("mix", "300"), Says("srate", "8"),
              Says("bits", "8"), Says("interpolation", "linear"), Says("mono", "yes")}
ConfFiles == {Nothing} \cup
             {FileOf(ls, e) : ls \in UNION {[1 .. n -> ConfLines] : n \in 1 .. 2}, e \in BOOLEAN}
MoreConf == {FileOf(<<Says(v, x)>>, TRUE) :
    v \in {"8bit", "filter", "loop", "reverse", "mixer_voices", "default_pan", "amiga",
           "driver", "instrument_path", "frag"}, x \in {"yes", "no", "8"}}

ModLines == {Says("[", "one"), Says("[", "two"), Says("amplify", "3"), Says("mono", "yes"),
             Says("mix", "8"), Says("mode", "auto"), Says("vblank", "no")}
ModFiles == {Nothing} \cup
            {FileOf(<<Says("[", "one")>> \o ls, TRUE) :
                ls \in UNION {[1 .. n -> ModLines] : n \in 1 .. 2}}

Listeners == {<<<<"one">>, <<"two">>>>,
           <<<<"one">>, <<"-", "a", "1">>, <<"two">>>>,
           <<<<"-", "P", "24">>, <<"one">>, <<"two">>, <<"-", "f", "8">>>>,
           <<<<"-", "-", "norc">>, <<"one">>, <<"two">>>>}

Configured ==
    {[CommandLine(c, FALSE) EXCEPT !.home = h, !.etcmods = m] :
        c \in Listeners, h \in {Nothing, FileOf(<<Says("mix", "300")>>, TRUE)}, m \in ModFiles}
    \cup
    {[argv |-> c, posix |-> FALSE,
      home |-> h, etc |-> FileOf(<<Says("amplify", "8")>>, TRUE),
      etcmods |-> FileOf(<<Says("[", "two"), Says("mix", "1")>>, TRUE),
      homemods |-> FileOf(<<Says("[", "one"), Says("amplify", "1"),
                            Says("[", "two"), Says("mix", "2")>>, e)] :
        c \in Listeners, h \in ConfFiles \cup MoreConf, e \in BOOLEAN}

MCInputs == Parsed \cup Configured

\* A driver that has its own idea of what to play, and where to.
MCAnswers == {[rate |-> 22050, format |-> {"8BIT", "MONO"}, format_downmix |-> 0,
               out_file |-> <<"out", ".raw">>]}

Spelled == [t \in {"1", "2", "3", "5", "8", "12", "24", "32", "300"} |->
    CASE t = "1" -> 1 [] t = "2" -> 2 [] t = "3" -> 3 [] t = "5" -> 5 [] t = "8" -> 8
      [] t = "12" -> 12 [] t = "24" -> 24 [] t = "32" -> 32 [] t = "300" -> 300]
=============================================================================
