------------------------------- MODULE Getopt -------------------------------
(***************************************************************************)
(* getopt_long.c as options.c calls it: getopt_long with the table lopt and *)
(* the letters OPTIONS, one call after another until it answers "end".     *)
(*                                                                         *)
(* A word of the command line is a sequence of tokens: "-", a letter, the  *)
(* name of a long option (a string, so that it can be abbreviated), "=",   *)
(* or a value.  "-ql" is <<"-","q","l">>, "--driver=null" is               *)
(* <<"-","-","driver","=","null">>.  Any sequence of tokens may be an      *)
(* option's argument, as any word may.                                     *)
(***************************************************************************)
EXTENDS Integers, SequencesExt, FiniteSetsExt

VARIABLES
    argv,              \* the words after argv[0], which getopt reorders
    optind,            \* the next word
    place,             \* what is left of the word being scanned; EMSG: none
    nonopt_start, nonopt_end,   \* the block of operands passed over, or -1
    optarg,            \* the argument of the option returned, or NULL
    optchar,           \* what getopt_long returned, "call" while it runs
    posixly_correct    \* POSIXLY_CORRECT is set: no permutation

scan   == <<argv, optind, place, nonopt_start, nonopt_end>>
getopt == <<scan, optarg, optchar, posixly_correct>>

EMSG == <<>>
NULL == <<"NULL">>
nargc == Len(argv) + 1

-----------------------------------------------------------------------------
(* The tables of options.c *)

no_argument == 0
required_argument == 1

\* lopt: name, has_arg, val, in this order.
lopt == <<
    <<"amiga", 0, "A">>,           <<"amplify", 1, "a">>,
    <<"bits", 1, "b">>,            <<"driver", 1, "d">>,
    <<"default-pan", 1, "p">>,     <<"fix-sample-loops", 0, "FIXLOOP">>,
    <<"frequency", 1, "f">>,       <<"help", 0, "h">>,
    <<"instrument-path", 1, "I">>, <<"interpolation", 1, "i">>,
    <<"list-formats", 0, "L">>,    <<"loop", 0, "l">>,
    <<"loop-all", 0, "LOOPALL">>,  <<"loop-until", 1, "U">>,
    <<"mixer-voices", 1, "NUMVOICES">>, <<"mono", 0, "m">>,
    <<"mute", 1, "M">>,            <<"null", 0, "N">>,
    <<"nocmd", 0, "NOCMD">>,       <<"norc", 0, "NORC">>,
    <<"nofilter", 0, "F">>,        <<"output-file", 1, "o">>,
    <<"pan", 1, "P">>,             <<"player-mode", 1, "e">>,
    <<"probe-only", 0, "PROBEONLY">>, <<"load-only", 0, "LOADONLY">>,
    <<"quiet", 0, "q">>,           <<"random", 0, "R">>,
    <<"reverse", 0, "r">>,         <<"show-comment", 0, "C">>,
    <<"solo", 1, "S">>,            <<"start", 1, "s">>,
    <<"stdout", 0, "c">>,          <<"tempo", 1, "T">>,
    <<"time", 1, "t">>,            <<"unsigned", 0, "u">>,
    <<"vblank", 0, "VBLANK">>,     <<"version", 0, "V">>,
    <<"verbose", 0, "v">>,         <<"all-sequences", 1, "Z">>,
    <<"sequence", 1, "z">> >>

name(i) == lopt[i][1]
has_arg(i) == lopt[i][2]
val(i) == lopt[i][3]

\* OPTIONS: the letters, those with a colon being the ones in WithArgument.
WithArgument == {"a", "b", "D", "d", "e", "f", "I", "i", "M", "o", "P", "p",
                 "S", "s", "T", "t", "U", "z"}
Letters == WithArgument \cup {"A", "C", "c", "F", "h", "L", "l", "m", "N", "q",
                              "R", "r", "u", "V", "v", "Z"}

-----------------------------------------------------------------------------
(* Long options *)

\* strncmp(s, n, strlen(s)) = 0
Abbreviates(s, n) == Len(s) <= Len(n) /\ SubSeq(n, 1, Len(s)) = s

\* The options of lopt that the name s may stand for: the one it spells out,
\* or all those it abbreviates.
Candidates(s) ==
    LET exact == {i \in DOMAIN lopt : name(i) = s} IN
    IF exact # {} THEN exact ELSE {i \in DOMAIN lopt : Abbreviates(s, name(i))}

\* Two abbreviations of which one could be meant as well as the other.
Ambiguous(s) ==
    \E i, j \in Candidates(s) : has_arg(i) # has_arg(j) \/ val(i) # val(j)

Name(p) == IF p = EMSG THEN "" ELSE p[1]
HasEqual(p) == Len(p) > 1 /\ p[2] = "="

BadLong(p) ==
    \/ Candidates(Name(p)) = {}
    \/ Ambiguous(Name(p))
    \/ has_arg(Min(Candidates(Name(p)))) = no_argument /\ HasEqual(p)

-----------------------------------------------------------------------------
(* permute_args *)

gcd[p \in Nat \X (Nat \ {0})] ==
    IF p[1] % p[2] = 0 THEN p[2] ELSE gcd[<<p[2], p[1] % p[2]>>]

\* One exchange: the word at the next place of the cycle against that at cstart.
Exchange(start, end, opt_end, cstart, c) ==
    LET p == IF c.pos >= end THEN c.pos - (end - start) ELSE c.pos + (opt_end - end)
    IN [pos |-> p, v |-> [c.v EXCEPT ![p] = c.v[cstart], ![cstart] = c.v[p]]]

ncycle(start, end, opt_end) == gcd[<<end - start, opt_end - end>>]
cyclelen(start, end, opt_end) == (opt_end - start) \div ncycle(start, end, opt_end)

Cycle(start, end, opt_end, cstart, v) ==
    LET after[j \in 0 .. cyclelen(start, end, opt_end)] ==
            IF j = 0 THEN [pos |-> cstart, v |-> v]
            ELSE Exchange(start, end, opt_end, cstart, after[j - 1])
    IN after[cyclelen(start, end, opt_end)].v

\* Mutant: the words are exchanged along one cycle only.
PermutedOnce(start, end, opt_end, v) == Cycle(start, end, opt_end, end, v)

\* The block start..end-1 changes places with the block end..opt_end-1, word
\* by word along each of the cycles.
Permuted(start, end, opt_end, v) ==
    LET after[i \in 0 .. ncycle(start, end, opt_end)] ==
            IF i = 0 THEN v ELSE Cycle(start, end, opt_end, end + i - 1, after[i - 1])
    IN after[ncycle(start, end, opt_end)]

-----------------------------------------------------------------------------
(* getopt_internal *)

InCall == optchar = "call"
NewWord == InCall /\ place = EMSG

IsOperand(w) == Len(w) <= 1 \/ w[1] # "-"
IsEnd(w) == w = <<"-", "-">>

Return(c, a) == optchar' = c /\ optarg' = a /\ UNCHANGED posixly_correct

\* An option ends the block of operands passed over.
BlockEnd ==
    IF place = EMSG /\ nonopt_start # -1 /\ nonopt_end = -1 THEN optind ELSE nonopt_end
EndBlock == nonopt_end' = BlockEnd

\* The scan is over: the operands passed over go behind the words up to i.
Finish(end, i) ==
    /\ \/ /\ end # -1
          /\ argv' = Permuted(nonopt_start, end, i, argv)
          /\ optind' = i - (end - nonopt_start)
       \/ /\ end = -1
          /\ optind' = IF nonopt_start # -1 THEN nonopt_start ELSE i
          /\ UNCHANGED argv
    /\ place' = EMSG
    /\ nonopt_start' = -1
    /\ nonopt_end' = -1
    /\ Return("end", NULL)

EndOfArguments == NewWord /\ optind >= nargc /\ Finish(nonopt_end, optind)

DoubleDash ==
    /\ NewWord
    /\ optind < nargc
    /\ IsEnd(argv[optind])
    /\ Finish(BlockEnd, optind + 1)

StopAtOperand ==
    /\ NewWord
    /\ optind < nargc
    /\ IsOperand(argv[optind])
    /\ posixly_correct
    /\ Return("end", NULL)
    /\ UNCHANGED scan

\* Mutant: optind is not advanced over an operand.
PassOperandAgain ==
    /\ NewWord
    /\ optind < nargc
    /\ IsOperand(argv[optind])
    /\ ~posixly_correct
    /\ nonopt_start' = IF nonopt_start = -1 THEN optind ELSE nonopt_start
    /\ UNCHANGED <<argv, optind, place, nonopt_end, optarg, optchar, posixly_correct>>

\* A first block of operands grows until an option ends it; the next operand
\* then makes the options change places with it.
PassOperand ==
    /\ NewWord
    /\ optind < nargc
    /\ IsOperand(argv[optind])
    /\ ~posixly_correct
    /\ optind' = optind + 1
    /\ \/ /\ nonopt_start = -1
          /\ nonopt_start' = optind
          /\ UNCHANGED <<argv, nonopt_end>>
       \/ /\ nonopt_start # -1
          /\ nonopt_end # -1
          /\ argv' = Permuted(nonopt_start, nonopt_end, optind, argv)
          /\ nonopt_start' = optind - (nonopt_end - nonopt_start)
          /\ nonopt_end' = -1
       \/ /\ nonopt_start # -1
          /\ nonopt_end = -1
          /\ UNCHANGED <<argv, nonopt_start, nonopt_end>>
    /\ UNCHANGED <<place, optarg, optchar, posixly_correct>>

AtOption ==
    /\ InCall
    /\ place = EMSG => /\ optind < nargc
                       /\ ~IsOperand(argv[optind])
                       /\ ~IsEnd(argv[optind])

\* What is to be scanned: the rest of the last word, or the word behind its "-".
Here == IF place = EMSG THEN Tail(argv[optind]) ELSE place

\* parse_long_options.  A required argument is the next word, whatever it is;
\* the word behind the last one is a null pointer, which is a missing argument.
LongOption ==
    /\ AtOption
    /\ Head(Here) = "-"
    /\ LET p == Tail(Here)
           option == Min(Candidates(Name(p)))
       IN \/ /\ BadLong(p)
             /\ optind' = optind + 1
             /\ Return("bad", NULL)
          \/ /\ ~BadLong(p)
             /\ has_arg(option) = no_argument
             /\ optind' = optind + 1
             /\ Return(val(option), NULL)
          \/ /\ ~BadLong(p)
             /\ has_arg(option) = required_argument
             /\ HasEqual(p)
             /\ optind' = optind + 1
             /\ Return(val(option), SubSeq(p, 3, Len(p)))
          \/ /\ ~BadLong(p)
             /\ has_arg(option) = required_argument
             /\ ~HasEqual(p)
             /\ optind + 1 < nargc
             /\ optind' = optind + 2
             /\ Return(val(option), argv[optind + 1])
          \/ /\ ~BadLong(p)
             /\ has_arg(option) = required_argument
             /\ ~HasEqual(p)
             /\ optind + 1 >= nargc
             /\ optind' = optind + 1
             /\ Return("bad", NULL)
    /\ place' = EMSG
    /\ EndBlock
    /\ UNCHANGED <<argv, nonopt_start>>

\* A letter without an argument; other letters may follow in the same word.
ShortFlag ==
    /\ AtOption
    /\ Head(Here) \in Letters \ WithArgument
    /\ place' = Tail(Here)
    /\ optind' = IF place' = EMSG THEN optind + 1 ELSE optind
    /\ Return(Head(Here), NULL)
    /\ EndBlock
    /\ UNCHANGED <<argv, nonopt_start>>

\* A letter with an argument: the rest of the word, or the next word.
ShortWithArgument ==
    /\ AtOption
    /\ Head(Here) \in WithArgument
    /\ \/ /\ Tail(Here) # EMSG
          /\ optind' = optind + 1
          /\ Return(Head(Here), Tail(Here))
       \/ /\ Tail(Here) = EMSG
          /\ optind + 1 < nargc
          /\ optind' = optind + 2
          /\ Return(Head(Here), argv[optind + 1])
       \/ /\ Tail(Here) = EMSG
          /\ optind + 1 >= nargc
          /\ optind' = optind + 1
          /\ Return("bad", NULL)
    /\ place' = EMSG
    /\ EndBlock
    /\ UNCHANGED <<argv, nonopt_start>>

UnknownLetter ==
    /\ AtOption
    /\ Head(Here) \notin Letters \cup {"-"}
    /\ place' = Tail(Here)
    /\ optind' = IF place' = EMSG THEN optind + 1 ELSE optind
    /\ Return("bad", NULL)
    /\ EndBlock
    /\ UNCHANGED <<argv, nonopt_start>>

GetoptInit(words, posix) ==
    /\ argv = words
    /\ optind = 1
    /\ place = EMSG
    /\ nonopt_start = -1
    /\ nonopt_end = -1
    /\ optarg = NULL
    /\ optchar = "call"
    /\ posixly_correct = posix

getopt_long ==
    \/ EndOfArguments \/ DoubleDash \/ StopAtOperand \/ PassOperand
    \/ LongOption \/ ShortFlag \/ ShortWithArgument \/ UnknownLetter

\* The next call, which getopt_long's caller makes once it has used the option.
CallAgain == optchar' = "call" /\ optarg' = NULL /\ UNCHANGED <<scan, posixly_correct>>

-----------------------------------------------------------------------------
(* What a command line means, read from left to right with nothing moved *)

None   == [opts |-> <<>>, rest |-> <<>>]
Failed == [opts |-> <<<<"bad", NULL>>>>, rest |-> <<>>]
Then(c, a, r) == [r EXCEPT !.opts = <<<<c, a>>>> \o @]

\* The first token of w from k on that is not a letter without an argument.
Stop(w, k) ==
    Min({j \in k .. Len(w) + 1 : j = Len(w) + 1 \/ w[j] \notin Letters \ WithArgument})

\* The letters without an argument among the tokens k..s-1 of w.
Flags(w, k, s) == [j \in 1 .. s - k |-> <<w[k + j - 1], NULL>>]

\* The next word is the argument of c; next[i] is what the words from i on say.
NextWord(words, i, c, next) ==
    IF i = Len(words) THEN Failed ELSE Then(c, words[i + 1], next[i + 2])

\* What the tokens from s on of word i, and the words behind it, say, if s is no
\* letter without an argument.
Ending(words, i, s, next) ==
    LET w == words[i]
        p == SubSeq(w, s + 1, Len(w))
        option == Min(Candidates(Name(p)))
    IN IF s > Len(w) THEN next[i + 1]
       ELSE IF w[s] = "-" THEN
            IF BadLong(p) THEN Failed
            ELSE IF has_arg(option) = no_argument THEN Then(val(option), NULL, next[i + 1])
            ELSE IF HasEqual(p) THEN Then(val(option), SubSeq(p, 3, Len(p)), next[i + 1])
            ELSE NextWord(words, i, val(option), next)
       ELSE IF w[s] \notin WithArgument THEN Failed
       ELSE IF p # EMSG THEN Then(w[s], p, next[i + 1])
       ELSE NextWord(words, i, w[s], next)

\* The same from token k on, whatever it is.
OptionWord(words, i, k, next) ==
    LET s == Stop(words[i], k)
    IN [Ending(words, i, s, next) EXCEPT !.opts = Flags(words[i], k, s) \o @]

\* What the words from i on say: the options, and the operands that are left.
FromWord(words, posix, i, next) ==
    IF i > Len(words) THEN None
    ELSE IF IsEnd(words[i]) THEN [opts |-> <<>>, rest |-> SubSeq(words, i + 1, Len(words))]
    ELSE IF ~IsOperand(words[i]) THEN OptionWord(words, i, 2, next)
    ELSE IF posix THEN [opts |-> <<>>, rest |-> SubSeq(words, i, Len(words))]
    ELSE [next[i + 1] EXCEPT !.rest = <<words[i]>> \o @]

Meaning(words, posix) ==
    LET next[i \in 1 .. Len(words) + 2] == FromWord(words, posix, i, next) IN next

Reference(words, posix) == Meaning(words, posix)[1]
=============================================================================
