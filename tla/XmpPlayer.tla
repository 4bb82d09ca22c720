------------------------------ MODULE XmpPlayer ------------------------------
(***************************************************************************)
(* The player program of main.c with the interactive commands of           *)
(* commands.c: the playlist loop, the module loop, the sequence explorer,   *)
(* the pause loop, and what they ask of libxmp and of the sound driver.    *)
(*                                                                         *)
(* The program is one thread of control, so there is one program counter;  *)
(* the environment chooses which key is waiting at each poll of the        *)
(* keyboard.  libxmp is external: "xc" holds the part of its context that  *)
(* main.c depends on, modelled from the calls main.c makes.                *)
(*                                                                         *)
(* A song position is abstracted to the sequence that holds it and to the  *)
(* number of frames played since that sequence's entry point, and time is  *)
(* counted in frames.                                                      *)
(***************************************************************************)
EXTENDS Integers

CONSTANTS
    First,         \* index in argv of the first module: optind after getopt
    Argc,          \* one past the index of the last module
    Files,         \* the module files a playlist can name
    Unloadable,    \* files xmp_load_module rejects
    Unstartable,   \* files xmp_start_player rejects
    Empty,         \* files xmp_play_frame has no frame for
    NumSequences,  \* number of sequences (subsongs) of each file
    ZeroDuration,  \* <<file, sequence>> pairs whose duration is reported as 0
    SeqFrames,     \* frames from a sequence's entry point to its loop point
    TimeCap,       \* bound: control.time is counted up to this value
    Options,       \* the option settings get_options can leave behind
    Keys           \* the keys the user may press

Index == First .. Argc - 1
Bit == {0, 1}

ASSUME PlaylistAssumption == First \in Nat \ {0} /\ Argc \in Nat /\ First < Argc

ASSUME FilesAssumption ==
    /\ Unloadable \subseteq Files
    /\ Unstartable \subseteq Files
    /\ Empty \subseteq Files
    /\ NumSequences \in [Files -> Nat \ {0}]
    /\ SeqFrames \in Nat \ {0}

ASSUME OptionsAssumption ==
    /\ TimeCap \in Nat \ {0}
    /\ Options \subseteq
         [loop : 0 .. 2, loop_time : 0 .. TimeCap, max_time : 0 .. TimeCap - 1,
          random : BOOLEAN, info : BOOLEAN, nocmd : BOOLEAN,
          sequence : Int, start : Int, explore : Bit, amiga_mixer : Bit]

VARIABLES
    pc,        \* where main() is
    argv,      \* the playlist: argv[first .. argc-1]
    optind,    \* index of the current module
    skipprev,  \* a search for the previous module is in progress
    played,    \* a module was started since the last play_all
    opt,       \* save_opt: the options, restored before each module
    start,     \* opt.start of the current module
    from,      \* history: the module last selected for playing, First - 1
               \* when the search starts from the head of the list
    dev,       \* the last call made to the sound driver
    \* struct control: what the interactive commands change
    skip, pause, loop, explore, amiga_mixer, sequence, time,
    \* the libxmp context: its state, where it plays, its mixer flags
    state, seq, frame, stopped, flags, cflags

list     == <<argv, optind, skipprev, played, from>>
switches == <<loop, explore, amiga_mixer>>
control  == <<skip, pause, switches, sequence, time>>
position == <<seq, frame, stopped>>
mixer    == <<flags, cflags>>
xc       == <<state, position, mixer>>

vars == <<pc, list, opt, start, dev, control, xc>>

Labels == {"play_all", "for", "load", "check_sequence", "start_player",
           "frame", "command", "max_time", "check_pause", "paused",
           "explorer", "end_player", "release", "skip", "end_of_list", "end", "done"}

-----------------------------------------------------------------------------
(* libxmp, as main.c uses it *)

\* xmp_set_position with a position inside sequence s; a position after the
\* end of the module is refused.  A change of position undoes an earlier stop.
\* A number below zero stands for what is read in front of an array: any
\* position of the module, or none of them.
SetPosition(f, s) ==
    \/ \E t \in 0 .. NumSequences[f] - 1 :
         /\ s = t \/ s < 0
         /\ seq' = t /\ frame' = 0 /\ stopped' = 0
    \/ /\ s >= NumSequences[f] \/ s < 0
       /\ UNCHANGED position

\* xmp_next_position, xmp_prev_position: move inside the current sequence.
Forward(n)  == IF n < SeqFrames THEN n + 1 ELSE n
Backward(n) == IF n > 0 THEN n - 1 ELSE n

\* xmp_play_frame: loop_count changes when the loop point is crossed.
Loops == frame = SeqFrames
PlayFrame ==
    /\ frame' = IF Loops THEN 1 ELSE frame + 1
    /\ UNCHANGED <<state, seq, stopped, mixer>>

-----------------------------------------------------------------------------
(* The interactive commands: read_command with the key it reads.  Keys that  *)
(* only print something or mute a channel are the case of no key.            *)

Toggle(b) == 1 - b

NoKey == UNCHANGED <<control, xc>>

\* Mutant: the pause flag is not cleared.
StopKeepsPause(to) ==
    /\ stopped' = 1
    /\ skip' = to
    /\ UNCHANGED <<pause, switches, sequence, time, state, seq, frame, mixer>>

\* xmp_stop_module: the next xmp_play_frame reports the end of the module.
Stop(to) ==
    /\ stopped' = 1
    /\ pause' = 0
    /\ skip' = to
    /\ UNCHANGED <<switches, sequence, time, state, seq, frame, mixer>>

KeyQuit    == "q" \in Keys /\ Stop(-2)
KeyNextMod == "n" \in Keys /\ Stop(1)
KeyPrevMod == "p" \in Keys /\ Stop(-1)

MoveTo(n) ==
    /\ frame' = n
    /\ stopped' = 0
    /\ pause' = 0
    /\ UNCHANGED <<skip, switches, sequence, time, state, seq, mixer>>

KeyNextPos == "f" \in Keys /\ MoveTo(Forward(frame))
KeyPrevPos == "b" \in Keys /\ MoveTo(Backward(frame))

\* Mutant: without the loop %= 3.
KeyLoopUnbounded ==
    /\ "l" \in Keys
    /\ loop' = loop + 1
    /\ UNCHANGED <<skip, pause, explore, amiga_mixer, sequence, time, xc>>

KeyLoop ==
    /\ "l" \in Keys
    /\ loop' = (loop + 1) % 3
    /\ UNCHANGED <<skip, pause, explore, amiga_mixer, sequence, time, xc>>

KeyExplore ==
    /\ "z" \in Keys
    /\ explore' = Toggle(explore)
    /\ UNCHANGED <<skip, pause, loop, amiga_mixer, sequence, time, xc>>

KeyPause ==
    /\ "space" \in Keys
    /\ pause' = Toggle(pause)
    /\ UNCHANGED <<skip, switches, sequence, time, xc>>

\* Mutant: the player's flag is set but never cleared.
KeyAmigaSticks ==
    /\ "a" \in Keys
    /\ amiga_mixer' = Toggle(amiga_mixer)
    /\ flags' = IF amiga_mixer' = 1 THEN 1 ELSE flags
    /\ cflags' = amiga_mixer'
    /\ UNCHANGED <<skip, pause, loop, explore, sequence, time, state, position>>

\* The flag goes into the player's flags, which later modules start with, and
\* into those of the current module.
KeyAmiga ==
    /\ "a" \in Keys
    /\ amiga_mixer' = Toggle(amiga_mixer)
    /\ flags' = amiga_mixer'
    /\ cflags' = amiga_mixer'
    /\ UNCHANGED <<skip, pause, loop, explore, sequence, time, state, position>>

\* Mutant: > for >=.
WrappedLate(s, n) == IF s > n THEN 0 ELSE IF s < 0 THEN n - 1 ELSE s

\* change_sequence: step by i and wrap around.
Wrapped(s, n) == IF s >= n THEN 0 ELSE IF s < 0 THEN n - 1 ELSE s

ChangeSequence(i) ==
    /\ sequence' = Wrapped(sequence + i, NumSequences[argv[optind]])
    /\ IF sequence' = sequence
         THEN UNCHANGED position
         ELSE SetPosition(argv[optind], sequence')
    /\ UNCHANGED <<skip, pause, switches, time, state, mixer>>

KeyNextSeq == ">" \in Keys /\ ChangeSequence(1)
KeyPrevSeq == "<" \in Keys /\ ChangeSequence(-1)

KeyPressed ==
    \/ KeyQuit    \/ KeyNextMod \/ KeyPrevMod \/ KeyNextPos \/ KeyPrevPos
    \/ KeyLoop    \/ KeyExplore \/ KeyPause   \/ KeyAmiga
    \/ KeyNextSeq \/ KeyPrevSeq

ReadCommand == NoKey \/ KeyPressed

-----------------------------------------------------------------------------
(* main() *)

Init ==
    /\ pc = "play_all"
    /\ argv \in [Index -> Files]
    /\ optind = First
    /\ skipprev = 0
    /\ played = 0
    /\ opt \in Options
    /\ start = opt.start
    /\ from = First - 1
    /\ dev = "init"
    /\ skip = 0 /\ pause = 0 /\ sequence = 0 /\ time = 0
    /\ loop = opt.loop /\ explore = opt.explore /\ amiga_mixer = opt.amiga_mixer
    /\ state = "unloaded"
    /\ seq = 0 /\ frame = 0 /\ stopped = 0
    /\ flags = 0 /\ cflags = 0

\* The swaps of shuffle() can produce every rearrangement of the list.
Rearrangements ==
    {p \in [Index -> Index] : \A i, j \in Index : p[i] = p[j] => i = j}

PlayAll ==
    /\ pc = "play_all"
    /\ IF opt.random
         THEN \E p \in Rearrangements : argv' = [i \in Index |-> argv[p[i]]]
         ELSE UNCHANGED argv
    /\ played' = 0
    /\ pc' = "for"
    /\ UNCHANGED <<optind, skipprev, opt, start, control, xc, dev, from>>

\* The test of the module loop; the options are restored for each module.
ForEachModule ==
    /\ pc = "for"
    /\ IF optind < Argc
         THEN pc' = "load" /\ start' = opt.start
         ELSE pc' = "end_of_list" /\ UNCHANGED start
    /\ UNCHANGED <<list, opt, control, xc, dev>>

LoadModule ==
    /\ pc = "load"
    /\ argv[optind] \notin Unloadable
    /\ state' = "loaded"
    /\ seq' = 0 /\ frame' = 0 /\ stopped' = 0
    /\ cflags' = flags
    /\ pc' = "check_sequence"
    /\ UNCHANGED <<list, opt, start, dev, control, flags>>

\* Mutant: skipprev is left set when the search gives up.
LoadErrorKeepsSearching ==
    /\ pc = "load"
    /\ argv[optind] \in Unloadable
    /\ state' \in {state, "unloaded"}
    /\ optind' = IF skipprev = 1 /\ optind - 2 >= First - 1
                 THEN optind - 1 ELSE optind + 1
    /\ pc' = "for"
    /\ UNCHANGED <<argv, skipprev, played, from, opt, start, dev, control, position, mixer>>

\* continue in the load error branch: the loop's optind++ is part of the step.
\* libxmp gives up before or after it drops the module it still holds.
LoadError ==
    /\ pc = "load"
    /\ argv[optind] \in Unloadable
    /\ state' \in {state, "unloaded"}
    /\ \/ /\ skipprev = 0
          /\ optind' = optind + 1
          /\ UNCHANGED <<skipprev, from>>
       \/ /\ skipprev = 1
          /\ optind - 2 >= First - 1
          /\ optind' = optind - 1
          /\ UNCHANGED <<skipprev, from>>
       \/ /\ skipprev = 1
          /\ optind - 2 < First - 1
          /\ optind' = optind + 1
          /\ skipprev' = 0
          /\ from' = First - 1
    /\ pc' = "for"
    /\ UNCHANGED <<argv, played, opt, start, dev, control, position, mixer>>

HasSequence(f) == opt.sequence < NumSequences[f]

\* Mutants: the sequence of the last module, or the search, is not reset.
SelectKeepsSequence ==
    /\ pc = "check_sequence"
    /\ opt.sequence = 0 \/ HasSequence(argv[optind])
    /\ start' = IF opt.sequence # 0 THEN opt.sequence ELSE start
    /\ time' = 0 /\ skipprev' = 0 /\ from' = optind
    /\ pc' = "start_player"
    /\ UNCHANGED <<argv, optind, played, opt, dev, skip, pause, switches, sequence, xc>>

SelectKeepsSearching ==
    /\ pc = "check_sequence"
    /\ opt.sequence = 0 \/ HasSequence(argv[optind])
    /\ start' = IF opt.sequence # 0 THEN opt.sequence ELSE start
    /\ sequence' = opt.sequence /\ time' = 0 /\ from' = optind
    /\ pc' = "start_player"
    /\ UNCHANGED <<argv, optind, skipprev, played, opt, dev, skip, pause, switches, xc>>

\* The sequence asked for with -z exists, or the main one is played; of one
\* below zero neither the duration nor the position read is known.  The module
\* is now the current one.
SelectModule ==
    LET f == argv[optind]
    IN  /\ pc = "check_sequence"
        /\ opt.sequence = 0 \/ HasSequence(f)
        /\ \/ /\ opt.sequence # 0 /\ <<f, opt.sequence>> \notin ZeroDuration
              /\ start' = opt.sequence
           \/ /\ opt.sequence <= 0 \/ <<f, opt.sequence>> \in ZeroDuration
              /\ start' = start
        /\ sequence' = opt.sequence
        /\ time' = 0
        /\ skipprev' = 0
        /\ from' = optind
        /\ pc' = "start_player"
        /\ UNCHANGED <<argv, optind, played, opt, dev, skip, pause, switches, xc>>

\* continue in the missing sequence branch; the module stays loaded.
MissingSequence ==
    /\ pc = "check_sequence"
    /\ opt.sequence # 0 /\ ~HasSequence(argv[optind])
    /\ optind' = IF skipprev = 1 /\ optind - 2 >= First
                 THEN optind - 1 ELSE optind + 1
    /\ pc' = "for"
    /\ UNCHANGED <<argv, skipprev, played, from, opt, start, control, xc, dev>>

StartPlayer ==
    /\ pc = "start_player"
    /\ argv[optind] \notin Unstartable
    /\ played' = 1
    /\ state' = "playing"
    /\ SetPosition(argv[optind], start)
    /\ cflags' = IF amiga_mixer > 0 THEN 1 ELSE cflags
    /\ pc' = "frame"
    /\ UNCHANGED <<argv, optind, skipprev, from, opt, start, dev, control, flags>>

StartError ==
    /\ pc = "start_player"
    /\ argv[optind] \in Unstartable
    /\ pc' = "release"
    /\ UNCHANGED <<list, opt, start, control, xc, dev>>

-----------------------------------------------------------------------------
(* play_sequence: *)

\* What the loop check decides when loop_count has changed.
Again == \/ loop = 1
         \/ opt.loop_time > 0 /\ time < opt.loop_time

\* !opt.info && xmp_play_frame(xc) == 0
Renders == ~opt.info /\ stopped = 0 /\ argv[optind] \notin Empty

NoFrame ==
    /\ pc = "frame"
    /\ ~Renders
    /\ pc' = "explorer"
    /\ UNCHANGED <<list, opt, start, control, xc, dev>>

\* The frame crosses the loop point and the sequence is not to be repeated.
LastFrame ==
    /\ pc = "frame"
    /\ Renders
    /\ Loops /\ ~Again
    /\ PlayFrame
    /\ pc' = "explorer"
    /\ UNCHANGED <<list, opt, start, dev, control>>

\* The frame is timed and handed to sound->play.
SoundFrame ==
    /\ pc = "frame"
    /\ Renders
    /\ ~Loops \/ Again
    /\ PlayFrame
    /\ time' = IF time < TimeCap THEN time + 1 ELSE time
    /\ dev' = "play"
    /\ pc' = "command"
    /\ UNCHANGED <<list, opt, start, skip, pause, switches, sequence>>

\* if (foreground_in && !opt.nocmd) read_command(...): a player in the
\* background reads no key.
Command ==
    /\ pc = "command"
    /\ NoKey \/ (~opt.nocmd /\ KeyPressed)
    /\ pc' = "max_time"
    /\ UNCHANGED <<list, opt, start, dev>>

MaxTime ==
    /\ pc = "max_time"
    /\ pc' = IF opt.max_time > 0 /\ time > opt.max_time
             THEN "explorer" ELSE "check_pause"
    /\ UNCHANGED <<list, opt, start, control, xc, dev>>

\* check_pause: the device is paused while the keyboard is polled.
NotPaused ==
    /\ pc = "check_pause"
    /\ pause = 0
    /\ start' = 0
    /\ pc' = "frame"
    /\ UNCHANGED <<list, opt, control, xc, dev>>

Pause ==
    /\ pc = "check_pause"
    /\ pause = 1
    /\ dev' = "pause"
    /\ pc' = "paused"
    /\ UNCHANGED <<list, opt, start, control, xc>>

PausePoll ==
    /\ pc = "paused"
    /\ pause = 1
    /\ ReadCommand
    /\ UNCHANGED <<pc, list, opt, start, dev>>

\* Mutant: the device is not resumed.
ResumeSilently ==
    /\ pc = "paused"
    /\ pause = 0
    /\ start' = 0
    /\ pc' = "frame"
    /\ UNCHANGED <<list, opt, dev, control, xc>>

Resume ==
    /\ pc = "paused"
    /\ pause = 0
    /\ dev' = "resume"
    /\ start' = 0
    /\ pc' = "frame"
    /\ UNCHANGED <<list, opt, control, xc>>

-----------------------------------------------------------------------------
(* After play_sequence *)

\* Mutant: control.skip is not looked at.
NextSubsongAnyway ==
    /\ pc = "explorer"
    /\ explore = 1
    /\ sequence' = sequence + 1
    /\ IF sequence' < NumSequences[argv[optind]]
         THEN SetPosition(argv[optind], sequence') /\ pc' = "frame"
         ELSE UNCHANGED position /\ pc' = "end_player"
    /\ UNCHANGED <<list, opt, start, dev, skip, pause, switches, time, state, mixer>>

\* The subsong explorer: on to the next sequence, or out of the module.
NextSubsong ==
    /\ pc = "explorer"
    /\ explore = 1 /\ skip = 0
    /\ sequence' = sequence + 1
    /\ IF sequence' < NumSequences[argv[optind]]
         THEN SetPosition(argv[optind], sequence') /\ pc' = "frame"
         ELSE UNCHANGED position /\ pc' = "end_player"
    /\ UNCHANGED <<list, opt, start, dev, skip, pause, switches, time, state, mixer>>

NoSubsong ==
    /\ pc = "explorer"
    /\ ~(explore = 1 /\ skip = 0)
    /\ pc' = "end_player"
    /\ UNCHANGED <<list, opt, start, control, xc, dev>>

\* Mutant: xmp_end_player is forgotten.
EndPlayerForgotten ==
    /\ pc = "end_player"
    /\ pc' = "release"
    /\ UNCHANGED <<list, opt, start, dev, control, xc>>

EndPlayer ==
    /\ pc = "end_player"
    /\ state' = "loaded"
    /\ pc' = "release"
    /\ UNCHANGED <<list, opt, start, dev, control, position, mixer>>

ReleaseModule ==
    /\ pc = "release"
    /\ state' = "unloaded"
    /\ pc' = "skip"
    /\ UNCHANGED <<list, opt, start, dev, control, position, mixer>>

\* Mutant: optind -= 2 without the test for the first module.
SkipBeforeFirst ==
    /\ pc = "skip"
    /\ skip # -2
    /\ optind' = IF skip = -1 THEN optind - 1 ELSE optind + 1
    /\ skipprev' = IF skip = -1 THEN 1 ELSE skipprev
    /\ skip' = 0
    /\ pc' = "for"
    /\ UNCHANGED <<argv, played, from, opt, start, dev, pause, switches, sequence, time, xc>>

\* What the skip command asked for, with the optind++ of the module loop.
Skip ==
    /\ pc = "skip"
    /\ skip # -2
    /\ optind' = IF skip = -1
                 THEN IF optind > First THEN optind - 1 ELSE optind
                 ELSE optind + 1
    /\ skipprev' = IF skip = -1 THEN 1 ELSE skipprev
    /\ skip' = 0
    /\ pc' = "for"
    /\ UNCHANGED <<argv, played, from, opt, start, dev, pause, switches, sequence, time, xc>>

Quit ==
    /\ pc = "skip"
    /\ skip = -2
    /\ pc' = "end"
    /\ UNCHANGED <<list, opt, start, control, xc, dev>>

\* Mutant: the loop mode is not looked at.
RestartAlways ==
    /\ pc = "end_of_list"
    /\ played = 1
    /\ optind' = First
    /\ from' = First - 1
    /\ pc' = "play_all"
    /\ UNCHANGED <<argv, skipprev, played, opt, start, control, xc, dev>>

\* --loop-all: over again, unless this pass started nothing.
RestartList ==
    /\ pc = "end_of_list"
    /\ loop = 2 /\ played = 1
    /\ optind' = First
    /\ from' = First - 1
    /\ pc' = "play_all"
    /\ UNCHANGED <<argv, skipprev, played, opt, start, control, xc, dev>>

Flush ==
    /\ pc = "end_of_list"
    /\ ~(loop = 2 /\ played = 1)
    /\ dev' = "flush"
    /\ pc' = "end"
    /\ UNCHANGED <<list, opt, start, control, xc>>

\* xmp_free_context and sound->deinit.
End ==
    /\ pc = "end"
    /\ state' = "freed"
    /\ dev' = "deinit"
    /\ pc' = "done"
    /\ UNCHANGED <<list, opt, start, control, position, mixer>>

Exited == pc = "done" /\ UNCHANGED vars

\* The steps the program takes by itself; what the user does at the pause
\* prompt is left to the user.
Step ==
    \/ PlayAll      \/ ForEachModule \/ LoadModule  \/ LoadError
    \/ SelectModule \/ MissingSequence
    \/ StartPlayer  \/ StartError
    \/ NoFrame      \/ LastFrame \/ SoundFrame \/ Command \/ MaxTime
    \/ NotPaused    \/ Pause     \/ Resume
    \/ NextSubsong  \/ NoSubsong \/ EndPlayer \/ ReleaseModule
    \/ Skip         \/ Quit
    \/ RestartList  \/ Flush     \/ End

Next == Step \/ PausePoll \/ Exited

Spec == Init /\ [][Next]_vars /\ WF_vars(Step)

-----------------------------------------------------------------------------
(* Properties *)

\* The states in which the player of the current module is started.
InPlayer == pc \in {"frame", "command", "max_time", "check_pause", "paused",
                    "explorer", "end_player"}
InFrameLoop == pc \in {"frame", "command", "max_time", "check_pause", "paused"}

\* Every variable of main() keeps a value the program can give it.
TypeOK ==
    /\ pc \in Labels
    /\ argv \in [Index -> Files]
    /\ optind \in First - 1 .. Argc
    /\ skipprev \in Bit /\ played \in Bit
    /\ opt \in Options
    /\ start \in Int
    /\ dev \in {"init", "play", "pause", "resume", "flush", "deinit"}
    /\ from \in First - 1 .. Argc - 1
    /\ skip \in {-2, -1, 0, 1} /\ pause \in Bit
    /\ loop \in 0 .. 2 /\ explore \in Bit /\ amiga_mixer \in Bit
    /\ sequence \in Int /\ time \in 0 .. TimeCap
    /\ state \in {"unloaded", "loaded", "playing", "freed"}
    /\ seq \in Nat /\ frame \in 0 .. SeqFrames /\ stopped \in Bit
    /\ flags \in Bit /\ cflags \in Bit

\* argv[optind] is read only for a module of the list, however the skip
\* commands and the failed loads move optind (main.c:399-457, 632-637).
AtModule == pc \notin {"play_all", "for", "end_of_list", "end", "done"}
IndexInBounds == AtModule => optind \in Index

\* mi.seq_data[control.sequence] exists whenever the frame loop or a command
\* uses it, however the explorer and the < and > keys move it.  The program
\* takes any number after -z (options.c:383) and looks only at the upper bound
\* (main.c:442): one below zero is left out.
SequenceInBounds ==
    opt.sequence >= 0 /\ InFrameLoop =>
        sequence \in 0 .. NumSequences[argv[optind]] - 1

\* "int sequence; /* Current sequence */" (common.h:80): what the Z key and
\* the loop message print is the sequence libxmp is playing, unless -z was
\* given a number below zero.
CurrentSequence == opt.sequence >= 0 /\ InFrameLoop => sequence = seq

\* The mixer the a key and -A ask for is the one the current module has, also
\* for modules loaded after the key was pressed.
AmigaMixerFollows == InFrameLoop => cflags = amiga_mixer

\* Once the user has asked to leave the module no further frame of it is sent
\* to the device, whatever the explorer and the pause loop do.
NoFrameAfterSkip == [][SoundFrame => skip = 0]_vars

\* The device is never called out of order: no frame while paused, each pause
\* resumed, nothing after deinit, also when a pause is ended by q, n or p.
Driver == INSTANCE SoundDevice WITH call <- dev
DriverProtocol == Driver!Spec

\* libxmp is driven through load, start, end and release in order, on every
\* path out of the module loop.
Context == INSTANCE XmpContext WITH
    Positions <- Nat \X (0 .. SeqFrames) \X Bit,
    state <- state, position <- position
ContextProtocol == Context!Spec

\* The modules main.c can select, and where the listener is.
Playable == {i \in Index : /\ argv[i] \notin Unloadable
                           /\ opt.sequence = 0 \/ HasSequence(argv[i])}
Selected == InPlayer \/ pc \in {"start_player", "release", "skip"}
Status  == IF pc \in {"end", "done"} THEN "over"
           ELSE IF Selected THEN "playing" ELSE "seeking"
Request == IF skip = 0 THEN "none" ELSE IF skip = 1 THEN "next"
           ELSE IF skip = -1 THEN "prev" ELSE "quit"
Asked   == IF skipprev = 1 THEN "prev" ELSE "next"

\* The listener's view: the next module is always the nearest playable one in
\* the direction asked for, past any number of files that do not load.
Box == INSTANCE Jukebox WITH good <- Playable, track <- from, status <- Status,
                             request <- Request, asked <- Asked
PlaysAsAsked == Box!Spec

\* "Fix loop when skipping to first file and it's not playable"
\* (Changelog:106): the search for a module ends, with a module or with the
\* end of the list.
SearchEnds == (pc = "load") ~> (pc \in {"start_player", "done"})

\* q ends the program, from the frame loop and from the pause prompt.
QuitEnds == (skip = -2) ~> (pc = "done")

\* Left alone, with no loop asked for and not paused, the program plays its
\* list to the end and exits.
Untouched == pc \notin {"command", "paused"} \/ NoKey
LeftAlone ==
    /\ <>[][Untouched]_vars
    /\ <>[](loop = 0 /\ pause = 0)
ListEnds == LeftAlone => <>(pc = "done")
=============================================================================
