--------------------------- MODULE XmpPlayerProofs ---------------------------
(***************************************************************************)
(* Theorems about XmpPlayer, for every playlist, every set of options and  *)
(* every set of keys.                                                      *)
(***************************************************************************)
EXTENDS XmpPlayer, TLAPS

-----------------------------------------------------------------------------
(* Types and the playlist index *)

\* Where optind is between the modules; IndexInBounds alone is not inductive.
ListIndex ==
    /\ pc = "play_all" => optind = First
    /\ pc = "for" => optind \in First .. Argc
    /\ pc = "end_of_list" => optind = Argc

TypeInv == TypeOK /\ IndexInBounds /\ ListIndex

\* The parts of TypeOK that only the commands and libxmp change.
PlayerTypes ==
    /\ skip \in {-2, -1, 0, 1} /\ pause \in Bit
    /\ loop \in 0 .. 2 /\ explore \in Bit /\ amiga_mixer \in Bit
    /\ sequence \in Int /\ time \in 0 .. TimeCap
    /\ state \in {"unloaded", "loaded", "playing", "freed"}
    /\ seq \in Nat /\ frame \in 0 .. SeqFrames /\ stopped \in Bit
    /\ flags \in Bit /\ cflags \in Bit

\* A sequence number that a key moves past an end comes back at the other.
LEMMA WrappedRange ==
    ASSUME NEW n \in Nat \ {0}, NEW s \in Int
    PROVE  Wrapped(s, n) \in 0 .. n - 1
BY DEF Wrapped

\* A call that sets the position leaves one of the module's.
LEMMA SetPositionType ==
    ASSUME NEW f, NumSequences[f] \in Nat \ {0}, NEW s,
           seq \in Nat, frame \in 0 .. SeqFrames, stopped \in Bit, SetPosition(f, s)
    PROVE  seq' \in Nat /\ frame' \in 0 .. SeqFrames /\ stopped' \in Bit
BY FilesAssumption DEF SetPosition, position, Bit

\* A command leaves every variable of the player its type.
LEMMA CommandType ==
    ASSUME TypeInv, AtModule, ReadCommand
    PROVE  PlayerTypes'
<1>1. PlayerTypes
  BY DEF TypeInv, TypeOK, PlayerTypes
<1>2. NumSequences[argv[optind]] \in Nat \ {0}
  BY FilesAssumption DEF TypeInv, TypeOK, IndexInBounds
<1> USE DEF PlayerTypes, control, switches, xc, position, mixer
<1>3. CASE NoKey
  BY <1>1, <1>3 DEF NoKey
<1>4. ASSUME NEW s \in {-2, -1, 1}, Stop(s)
      PROVE  PlayerTypes'
  BY <1>1, <1>4 DEF Stop, Bit
<1>5. CASE KeyNextPos \/ KeyPrevPos
  BY <1>1, <1>5, FilesAssumption
     DEF KeyNextPos, KeyPrevPos, MoveTo, Forward, Backward, Bit
<1>6. CASE KeyLoop
  BY <1>1, <1>6 DEF KeyLoop
<1>7. CASE KeyExplore \/ KeyPause \/ KeyAmiga
  BY <1>1, <1>7 DEF KeyExplore, KeyPause, KeyAmiga, Toggle, Bit
<1>8. ASSUME NEW d \in {-1, 1}, ChangeSequence(d)
      PROVE  PlayerTypes'
  <2>1. sequence' \in 0 .. NumSequences[argv[optind]] - 1
    <3>1. sequence + d \in Int
      BY <1>1
    <3>2. Wrapped(sequence + d, NumSequences[argv[optind]])
            \in 0 .. NumSequences[argv[optind]] - 1
      BY <1>2, <3>1, WrappedRange
    <3> QED
      BY <1>8, <3>2 DEF ChangeSequence
  <2>2. \/ UNCHANGED position
        \/ SetPosition(argv[optind], sequence')
    BY <1>8 DEF ChangeSequence
  <2>3. seq' \in Nat /\ frame' \in 0 .. SeqFrames /\ stopped' \in Bit
    BY <1>1, <1>2, <2>2, SetPositionType DEF Bit
  <2> QED
    BY <1>1, <1>8, <2>1, <2>3 DEF ChangeSequence
<1> QED
  BY <1>3, <1>4, <1>5, <1>6, <1>7, <1>8
     DEF ReadCommand, KeyPressed, KeyQuit, KeyNextMod, KeyPrevMod, KeyNextSeq, KeyPrevSeq

\* main() starts with every variable of its type.
LEMMA TypeInit == Init => TypeInv
<1> SUFFICES ASSUME Init PROVE TypeInv
  OBVIOUS
<1> USE DEF Init
<1>1. opt.loop \in 0 .. 2 /\ opt.start \in Int /\ opt.explore \in Bit
        /\ opt.amiga_mixer \in Bit
  BY OptionsAssumption
<1> QED
  BY <1>1, PlaylistAssumption, FilesAssumption, OptionsAssumption
     DEF TypeInv, TypeOK, IndexInBounds, AtModule, ListIndex, Labels, Bit

\* A step keeps the types, and the index in the list.
LEMMA TypeStep == TypeInv /\ [Next]_vars => TypeInv'
<1> SUFFICES ASSUME TypeInv, [Next]_vars PROVE TypeInv'
  OBVIOUS
<1> USE PlaylistAssumption
        DEF TypeInv, TypeOK, IndexInBounds, AtModule, ListIndex, Labels, Index, Bit,
            list, control, switches, xc, position, mixer
<1>1. CASE PlayAll
  <2>1. argv' \in [Index -> Files]
    <3>1. CASE opt.random
      <4>1. PICK p \in Rearrangements : argv' = [i \in Index |-> argv[p[i]]]
        BY <1>1, <3>1 DEF PlayAll
      <4> QED
        BY <4>1 DEF Rearrangements
    <3>2. CASE ~opt.random
      BY <1>1, <3>2 DEF PlayAll
    <3> QED
      BY <3>1, <3>2
  <2> QED
    BY <1>1, <2>1 DEF PlayAll
<1>2. CASE ForEachModule
  BY <1>2, OptionsAssumption DEF ForEachModule
<1>3. CASE LoadModule
  BY <1>3, FilesAssumption DEF LoadModule
<1>4. CASE LoadError
  BY <1>4 DEF LoadError
<1>5. CASE SelectModule
  BY <1>5, OptionsAssumption DEF SelectModule
<1>6. CASE MissingSequence
  BY <1>6 DEF MissingSequence
<1>7. CASE StartPlayer
  <2>1. NumSequences[argv[optind]] \in Nat \ {0}
    BY <1>7, FilesAssumption DEF StartPlayer
  <2>2. seq' \in Nat /\ frame' \in 0 .. SeqFrames /\ stopped' \in Bit
    <3>1. SetPosition(argv[optind], start)
      BY <1>7 DEF StartPlayer
    <3> QED
      BY <2>1, <3>1, SetPositionType DEF Bit
  <2> QED
    BY <1>7, <2>2 DEF StartPlayer
<1>8. CASE StartError
  BY <1>8 DEF StartError
<1>9. CASE NoFrame
  BY <1>9 DEF NoFrame
<1>10. CASE LastFrame
  BY <1>10, FilesAssumption DEF LastFrame, PlayFrame, Loops
<1>11. CASE SoundFrame
  BY <1>11, FilesAssumption, OptionsAssumption DEF SoundFrame, PlayFrame, Loops
<1>12. CASE Command
  BY <1>12, CommandType DEF Command, ReadCommand, PlayerTypes
<1>13. CASE MaxTime
  BY <1>13 DEF MaxTime
<1>14. CASE NotPaused
  BY <1>14 DEF NotPaused
<1>15. CASE Pause
  BY <1>15 DEF Pause
<1>16. CASE PausePoll
  BY <1>16, CommandType DEF PausePoll, ReadCommand, PlayerTypes
<1>17. CASE Resume
  BY <1>17 DEF Resume
<1>18. CASE NextSubsong
  <2>1. NumSequences[argv[optind]] \in Nat \ {0} /\ sequence' \in Int
    BY <1>18, FilesAssumption DEF NextSubsong
  <2>2. seq' \in Nat /\ frame' \in 0 .. SeqFrames /\ stopped' \in Bit
    <3>1. SetPosition(argv[optind], sequence') \/ UNCHANGED position
      BY <1>18 DEF NextSubsong
    <3> QED
      BY <2>1, <3>1, SetPositionType DEF Bit
  <2> QED
    BY <1>18, <2>1, <2>2 DEF NextSubsong
<1>19. CASE NoSubsong
  BY <1>19 DEF NoSubsong
<1>20. CASE EndPlayer
  BY <1>20 DEF EndPlayer
<1>21. CASE ReleaseModule
  BY <1>21 DEF ReleaseModule
<1>22. CASE Skip
  BY <1>22 DEF Skip
<1>23. CASE Quit
  BY <1>23 DEF Quit
<1>24. CASE RestartList
  BY <1>24 DEF RestartList
<1>25. CASE Flush
  BY <1>25 DEF Flush
<1>26. CASE End
  BY <1>26 DEF End
<1>27. CASE UNCHANGED vars
  BY <1>27 DEF vars
<1> QED
  BY <1>1, <1>2, <1>3, <1>4, <1>5, <1>6, <1>7, <1>8, <1>9, <1>10, <1>11, <1>12, <1>13, <1>14, <1>15, <1>16, <1>17, <1>18, <1>19, <1>20, <1>21, <1>22, <1>23, <1>24, <1>25, <1>26, <1>27 DEF Next, Step, Exited

\* main() indexes argv inside the list, and every variable keeps its type, for
\* every list and every sequence of keys and failed loads.
THEOREM TypeCorrect == Spec => [](TypeOK /\ IndexInBounds)
<1>1. TypeInv => TypeOK /\ IndexInBounds
  BY DEF TypeInv
<1> QED
  BY <1>1, TypeInit, TypeStep, PTL DEF Spec

-----------------------------------------------------------------------------
(* What the module loop knows at each place about the commands, libxmp and the *)
(* device                                                                     *)

\* The current sequence is one of the module's from the moment it is selected.
SequenceKnown ==
    pc \in {"start_player", "frame", "command", "max_time", "check_pause",
            "paused", "explorer"} =>
        /\ sequence < NumSequences[argv[optind]]
        /\ opt.sequence >= 0 => sequence >= 0

\* A request to leave is never pending where a key can be read, and the player
\* has been stopped for it.
SkipPending ==
    /\ pause = 1 => skip = 0
    /\ pc \in {"play_all", "for", "load", "check_sequence", "start_player",
               "command", "end_of_list"} => skip = 0
    /\ pc \in {"frame", "max_time", "check_pause", "paused"} /\ skip # 0 => stopped = 1

\* The flags later modules start with are on only while the mixer is asked for.
MixerFlags ==
    /\ flags = 1 => amiga_mixer = 1
    /\ pc \in {"check_sequence", "start_player"} => cflags = flags
    /\ InFrameLoop \/ pc = "explorer" => cflags = amiga_mixer

\* The state of the libxmp context at each place of main().
ContextState ==
    /\ pc \in {"play_all", "for", "load", "end_of_list", "end"}
          => state \in {"unloaded", "loaded"}
    /\ pc \in {"check_sequence", "start_player", "release"} => state = "loaded"
    /\ InPlayer => state = "playing"
    /\ pc = "skip" => state = "unloaded"

\* The last call of the device at each place of main().
DeviceState ==
    /\ pc = "paused" => dev = "pause"
    /\ pc \in {"command", "max_time", "check_pause"} => dev = "play"
    /\ pc \notin {"paused", "end", "done"} => dev \in {"init", "play", "resume"}
    /\ pc = "end" => dev \in {"init", "play", "resume", "flush"}

LoopInv == SequenceKnown /\ SkipPending /\ MixerFlags /\ ContextState /\ DeviceState

\* What a command read while no request is pending may do.
LEMMA CommandEffect ==
    ASSUME TypeInv, AtModule, ReadCommand, skip = 0,
           sequence < NumSequences[argv[optind]], flags = 1 => amiga_mixer = 1,
           cflags = amiga_mixer
    PROVE  /\ sequence' < NumSequences[argv[optind]]
           /\ sequence >= 0 => sequence' >= 0
           /\ pause' = 1 => skip' = 0
           /\ skip' # 0 => stopped' = 1
           /\ flags' = 1 => amiga_mixer' = 1
           /\ cflags' = amiga_mixer'
           /\ state' = state
<1>1. PlayerTypes
  BY DEF TypeInv, TypeOK, PlayerTypes
<1>2. NumSequences[argv[optind]] \in Nat \ {0}
  BY FilesAssumption DEF TypeInv, TypeOK, IndexInBounds
<1> USE DEF PlayerTypes, control, switches, xc, position, mixer
<1>3. CASE NoKey
  BY <1>1, <1>3 DEF NoKey
<1>4. ASSUME NEW s \in {-2, -1, 1}, Stop(s) PROVE UNCHANGED <<sequence, flags, cflags, amiga_mixer, state>> /\ pause' = 0 /\ stopped' = 1
  BY <1>4 DEF Stop
<1>5. CASE KeyNextPos \/ KeyPrevPos
  BY <1>1, <1>5 DEF KeyNextPos, KeyPrevPos, MoveTo
<1>6. CASE KeyLoop \/ KeyExplore \/ KeyPause \/ KeyAmiga
  BY <1>1, <1>6 DEF KeyLoop, KeyExplore, KeyPause, KeyAmiga
<1>7. ASSUME NEW d \in {-1, 1}, ChangeSequence(d)
      PROVE  /\ sequence' < NumSequences[argv[optind]]
             /\ sequence' >= 0
             /\ UNCHANGED <<pause, skip, flags, cflags, amiga_mixer, state>>
  <2>1. sequence + d \in Int
    BY <1>1
  <2>2. Wrapped(sequence + d, NumSequences[argv[optind]])
          \in 0 .. NumSequences[argv[optind]] - 1
    BY <1>2, <2>1, WrappedRange
  <2> QED
    BY <1>2, <1>7, <2>2 DEF ChangeSequence
<1> QED
  BY <1>1, <1>3, <1>4, <1>5, <1>6, <1>7
     DEF ReadCommand, KeyPressed, KeyQuit, KeyNextMod, KeyPrevMod, KeyNextSeq, KeyPrevSeq

\* A step keeps what the module loop knows.
LEMMA LoopStep == TypeInv /\ LoopInv /\ [Next]_vars => LoopInv'
<1> SUFFICES ASSUME TypeInv, LoopInv, [Next]_vars PROVE LoopInv'
  OBVIOUS
<1>0. PlayerTypes /\ pc \in Labels /\ opt.sequence \in Int
  BY OptionsAssumption DEF TypeInv, TypeOK, PlayerTypes
<1> USE <1>0
        DEF LoopInv, SequenceKnown, SkipPending, MixerFlags, ContextState, DeviceState,
            InFrameLoop, InPlayer, PlayerTypes, Labels, Bit,
            list, control, switches, xc, position, mixer
<1>1. CASE PlayAll
  BY <1>1 DEF PlayAll
<1>2. CASE ForEachModule
  BY <1>2 DEF ForEachModule
<1>3. CASE LoadModule
  BY <1>3 DEF LoadModule
<1>4. CASE LoadError
  BY <1>4 DEF LoadError
<1>5. CASE SelectModule
  <2>1. NumSequences[argv[optind]] \in Nat \ {0}
    BY <1>5, FilesAssumption DEF SelectModule, TypeInv, TypeOK, IndexInBounds, AtModule
  <2> QED
    BY <1>5, <2>1 DEF SelectModule, HasSequence
<1>6. CASE MissingSequence
  BY <1>6 DEF MissingSequence
<1>7. CASE StartPlayer
  BY <1>7 DEF StartPlayer, SetPosition
<1>8. CASE StartError
  BY <1>8 DEF StartError
<1>9. CASE NoFrame
  BY <1>9 DEF NoFrame
<1>10. CASE LastFrame
  BY <1>10 DEF LastFrame, PlayFrame
<1>11. CASE SoundFrame
  BY <1>11 DEF SoundFrame, PlayFrame, Renders
<1>12. CASE Command
  BY <1>12, CommandEffect DEF Command, ReadCommand, AtModule
<1>13. CASE MaxTime
  BY <1>13 DEF MaxTime
<1>14. CASE NotPaused
  BY <1>14 DEF NotPaused
<1>15. CASE Pause
  BY <1>15 DEF Pause
<1>16. CASE PausePoll
  BY <1>16, CommandEffect DEF PausePoll, ReadCommand, AtModule
<1>17. CASE Resume
  BY <1>17 DEF Resume
<1>18. CASE NextSubsong
  BY <1>18 DEF NextSubsong, SetPosition
<1>19. CASE NoSubsong
  BY <1>19 DEF NoSubsong
<1>20. CASE EndPlayer
  BY <1>20 DEF EndPlayer
<1>21. CASE ReleaseModule
  BY <1>21 DEF ReleaseModule
<1>22. CASE Skip
  BY <1>22 DEF Skip
<1>23. CASE Quit
  BY <1>23 DEF Quit
<1>24. CASE RestartList
  BY <1>24 DEF RestartList
<1>25. CASE Flush
  BY <1>25 DEF Flush
<1>26. CASE End
  BY <1>26 DEF End
<1>27. CASE UNCHANGED vars
  BY <1>27 DEF vars
<1> QED
  BY <1>1, <1>2, <1>3, <1>4, <1>5, <1>6, <1>7, <1>8, <1>9, <1>10, <1>11, <1>12, <1>13, <1>14, <1>15, <1>16, <1>17, <1>18, <1>19, <1>20, <1>21, <1>22, <1>23, <1>24, <1>25, <1>26, <1>27 DEF Next, Step, Exited

\* What the module loop knows is so in every state.
LEMMA LoopCorrect == Spec => [](TypeInv /\ LoopInv)
<1>1. Init => LoopInv
  BY DEF Init, LoopInv, SequenceKnown, SkipPending, MixerFlags, ContextState,
         DeviceState, InFrameLoop, InPlayer
<1> QED
  BY <1>1, TypeInit, TypeStep, LoopStep, PTL DEF Spec

\* Unless -z is given a number below zero, a sequence of the module exists
\* wherever it is looked up.
THEOREM SequenceBounded == Spec => []SequenceInBounds
<1>1. TypeInv /\ LoopInv => SequenceInBounds
  BY FilesAssumption
     DEF TypeInv, TypeOK, IndexInBounds, AtModule, LoopInv, SequenceKnown,
         SequenceInBounds, InFrameLoop
<1> QED
  BY <1>1, LoopCorrect, PTL

\* The mixer follows the a key and -A from module to module.
THEOREM MixerCorrect == Spec => []AmigaMixerFollows
<1>1. LoopInv => AmigaMixerFollows
  BY DEF LoopInv, MixerFlags, AmigaMixerFollows
<1> QED
  BY <1>1, LoopCorrect, PTL

\* No frame is rendered for the device once the user has asked to leave.
THEOREM SkipStopsFrames == Spec => NoFrameAfterSkip
<1>1. LoopInv => [SoundFrame => skip = 0]_vars
  BY DEF LoopInv, SkipPending, SoundFrame, Renders
<1> QED
  BY <1>1, LoopCorrect, PTL DEF NoFrameAfterSkip

-----------------------------------------------------------------------------
(* What main() asks of the device and of libxmp *)

\* The driver sees a legal sequence of calls.
THEOREM DriverCalls == Spec => DriverProtocol
<1>1. Init => Driver!Init
  BY DEF Init, Driver!Init
<1>2. LoopInv /\ [Next]_vars => [Driver!Next]_dev
  <2> SUFFICES ASSUME LoopInv, [Next]_vars PROVE [Driver!Next]_dev
    OBVIOUS
  <2> USE DEF LoopInv, DeviceState, Driver!Next, Driver!Running
  <2>1. CASE SoundFrame
    BY <2>1 DEF SoundFrame, Driver!Play
  <2>2. CASE Pause
    BY <2>2 DEF Pause, Driver!Pause
  <2>3. CASE Resume
    BY <2>3 DEF Resume, Driver!Resume
  <2>4. CASE Flush
    BY <2>4 DEF Flush, Driver!Flush
  <2>5. CASE End
    BY <2>5 DEF End, Driver!Deinit
  <2>6. ASSUME Next \/ UNCHANGED vars, ~SoundFrame, ~Pause, ~Resume, ~Flush, ~End
        PROVE  UNCHANGED dev
    BY <2>6 DEF Next, Step, PlayAll, ForEachModule, LoadModule, LoadError,
         SelectModule, MissingSequence, StartPlayer, StartError, NoFrame, LastFrame,
         Command, MaxTime, NotPaused, PausePoll, NextSubsong, NoSubsong, EndPlayer,
         ReleaseModule, Skip, Quit, RestartList, Exited, vars
  <2> QED
    BY <2>1, <2>2, <2>3, <2>4, <2>5, <2>6
<1> QED
  BY <1>1, <1>2, LoopCorrect, PTL DEF Spec, DriverProtocol, Driver!Spec

\* libxmp sees a legal sequence of calls.
THEOREM ContextCalls == Spec => ContextProtocol
<1>1. Init => Context!Init
  BY FilesAssumption DEF Init, Context!Init, position, Bit
<1>2. TypeInv /\ TypeInv' /\ LoopInv /\ [Next]_vars => [Context!Next]_<<state, position>>
  <2> SUFFICES ASSUME TypeInv, TypeInv', LoopInv, [Next]_vars
               PROVE  [Context!Next]_<<state, position>>
    OBVIOUS
  <2> DEFINE Positions == Nat \X (0 .. SeqFrames) \X Bit
  <2>1. position \in Positions /\ position' \in Positions
    BY DEF TypeInv, TypeOK, position
  <2> HIDE DEF Positions
  <2> USE DEF LoopInv, ContextState, InPlayer
  <2>2. CASE LoadModule \/ LoadError
    BY <2>1, <2>2 DEF LoadModule, LoadError, Context!Next, Context!Load, Positions
  <2>3. CASE StartPlayer
    BY <2>1, <2>3 DEF StartPlayer, Context!Next, Context!Start, Positions
  <2>4. ASSUME LastFrame \/ SoundFrame \/ NextSubsong
        PROVE  Context!Move
    BY <2>1, <2>4 DEF LastFrame, SoundFrame, PlayFrame, NextSubsong, Context!Move,
         Positions
  <2>5. ASSUME Command \/ PausePoll
        PROVE  Context!Move
    BY <2>1, <2>5 DEF Command, PausePoll, ReadCommand, NoKey, KeyPressed, KeyQuit,
         KeyNextMod, KeyPrevMod, Stop, KeyNextPos, KeyPrevPos, MoveTo, KeyLoop,
         KeyExplore, KeyPause, KeyAmiga, KeyNextSeq, KeyPrevSeq, ChangeSequence,
         xc, Context!Move, Positions
  <2>6. CASE EndPlayer
    BY <2>6 DEF EndPlayer, Context!Next, Context!EndPlayer
  <2>7. CASE ReleaseModule
    BY <2>7 DEF ReleaseModule, Context!Next, Context!Release
  <2>8. CASE End
    BY <2>8 DEF End, Context!Next, Context!Free
  <2>9. ASSUME \/ PlayAll \/ ForEachModule \/ SelectModule \/ MissingSequence
               \/ StartError \/ NoFrame \/ MaxTime \/ NotPaused \/ Pause \/ Resume
               \/ NoSubsong \/ Skip \/ Quit \/ RestartList \/ Flush
               \/ UNCHANGED vars
        PROVE  UNCHANGED <<state, position>>
    BY <2>9 DEF PlayAll, ForEachModule, SelectModule, MissingSequence, StartError,
         NoFrame, MaxTime, NotPaused, Pause, Resume, NoSubsong, Skip, Quit,
         RestartList, Flush, vars, xc
  <2> QED
    BY <2>2, <2>3, <2>4, <2>5, <2>6, <2>7, <2>8, <2>9
       DEF Next, Step, Exited, Context!Next
<1> QED
  BY <1>1, <1>2, LoopCorrect, PTL DEF Spec, ContextProtocol, Context!Spec, Context!vars

-----------------------------------------------------------------------------
(* The sequence on display *)

SequenceShownInv ==
    /\ pc \in {"load", "check_sequence"} => start = 0
    /\ opt.sequence >= 0 /\ pc = "start_player" => start = sequence
    /\ opt.sequence >= 0 /\ InFrameLoop => seq = sequence

\* Without -s, with no number below zero after -z, and when no sequence is
\* reported to last no time at all, the sequence on display is the one libxmp plays.
THEOREM SequenceShown ==
    ASSUME ZeroDuration = {}, \A o \in Options : o.start = 0
    PROVE  Spec => []CurrentSequence
<1>1. Init => SequenceShownInv
  BY DEF Init, SequenceShownInv, InFrameLoop
<1>2. TypeInv /\ TypeInv' /\ LoopInv /\ LoopInv' /\ SequenceShownInv /\ [Next]_vars
        => SequenceShownInv'
  <2> SUFFICES ASSUME TypeInv, TypeInv', LoopInv, LoopInv', SequenceShownInv, [Next]_vars
               PROVE  SequenceShownInv'
    OBVIOUS
  <2>0. opt.start = 0 /\ opt.sequence \in Int /\ PlayerTypes /\ pc \in Labels
    BY OptionsAssumption DEF TypeInv, TypeOK, PlayerTypes
  <2>n. pc = "start_player" \/ InFrameLoop \/ pc = "explorer" =>
          NumSequences[argv[optind]] \in Nat \ {0}
    BY FilesAssumption DEF TypeInv, TypeOK, IndexInBounds, AtModule, InFrameLoop
  <2> USE <2>0 DEF SequenceShownInv, InFrameLoop, PlayerTypes, Labels,
                   list, control, switches, xc, position, mixer
  <2>1. CASE ForEachModule
    BY <2>1 DEF ForEachModule
  <2>2. CASE SelectModule
    BY <2>2 DEF SelectModule
  <2>3. CASE StartPlayer
    <3>1. opt.sequence >= 0 => start \in 0 .. NumSequences[argv[optind]] - 1
      BY <2>3, <2>n DEF StartPlayer, LoopInv, SequenceKnown
    <3>2. opt.sequence >= 0 => seq' = start
      BY <2>3, <2>n, <3>1 DEF StartPlayer, SetPosition
    <3> QED
      BY <2>3, <3>2 DEF StartPlayer
  <2>4. CASE Command \/ PausePoll
    <3>1. sequence' < NumSequences[argv[optind]]
      BY <2>4 DEF Command, PausePoll, LoopInv, SequenceKnown
    <3>2. ASSUME NEW d \in {-1, 1}, ChangeSequence(d)
          PROVE  opt.sequence >= 0 => seq' = sequence'
      <4>1. Wrapped(sequence + d, NumSequences[argv[optind]])
              \in 0 .. NumSequences[argv[optind]] - 1
        <5>1. NumSequences[argv[optind]] \in Nat \ {0} /\ sequence + d \in Int
          BY <2>4, <2>n DEF Command, PausePoll
        <5> QED
          BY ONLY <5>1, WrappedRange
      <4>2. sequence' \in 0 .. NumSequences[argv[optind]] - 1
        BY <3>2, <4>1 DEF ChangeSequence
      <4>3. SetPosition(argv[optind], sequence') => seq' = sequence'
        BY <2>4, <2>n, <4>2 DEF SetPosition, Command, PausePoll
      <4> QED
        BY <2>4, <3>2, <4>3 DEF Command, PausePoll, ChangeSequence
    <3> QED
      BY <2>4, <3>2 DEF Command, PausePoll, ReadCommand, NoKey, KeyPressed, KeyQuit,
         KeyNextMod, KeyPrevMod, Stop, KeyNextPos, KeyPrevPos, MoveTo, KeyLoop,
         KeyExplore, KeyPause, KeyAmiga, KeyNextSeq, KeyPrevSeq
  <2>5. CASE NextSubsong
    <3>1. pc = "explorer" /\ sequence' = sequence + 1 /\ opt' = opt
      BY <2>5 DEF NextSubsong
    <3>2. opt.sequence >= 0 => sequence \in Nat
      BY <3>1 DEF LoopInv, SequenceKnown
    <3>3. opt.sequence >= 0 /\ pc' = "frame" => seq' = sequence'
      BY <2>5, <2>n, <3>1, <3>2 DEF NextSubsong, SetPosition
    <3> QED
      BY <2>5, <3>1, <3>3 DEF NextSubsong
  <2>6. CASE LastFrame \/ SoundFrame
    BY <2>6 DEF LastFrame, SoundFrame, PlayFrame
  <2>7. ASSUME \/ PlayAll \/ LoadModule \/ LoadError \/ MissingSequence \/ StartError
               \/ NoFrame \/ MaxTime \/ NotPaused \/ Pause \/ Resume \/ NoSubsong
               \/ EndPlayer \/ ReleaseModule \/ Skip \/ Quit \/ RestartList
               \/ Flush \/ End \/ UNCHANGED vars
        PROVE  SequenceShownInv'
    BY <2>7 DEF PlayAll, LoadModule, LoadError, MissingSequence, StartError, NoFrame,
         MaxTime, NotPaused, Pause, Resume, NoSubsong, EndPlayer, ReleaseModule, Skip,
         Quit, RestartList, Flush, End, vars
  <2> QED
    BY <2>1, <2>2, <2>3, <2>4, <2>5, <2>6, <2>7 DEF Next, Step, Exited
<1>3. SequenceShownInv => CurrentSequence
  BY DEF SequenceShownInv, CurrentSequence
<1> QED
  BY <1>1, <1>2, <1>3, LoopCorrect, PTL DEF Spec

-----------------------------------------------------------------------------
(* The order of play *)

Searching == pc \in {"for", "load", "check_sequence"}

\* Every file the search has passed over, forwards or backwards, does not load.
SearchInv ==
    /\ pc = "play_all" => from = First - 1
    /\ pc \in {"play_all", "end_of_list"} => skipprev = 0
    /\ Selected => from = optind /\ skipprev = 0 /\ argv[optind] \notin Unloadable
    /\ pc = "check_sequence" => argv[optind] \notin Unloadable
    /\ Searching /\ skipprev = 0 =>
          /\ from < optind
          /\ \A i \in Index : from < i /\ i < optind => argv[i] \in Unloadable
    /\ Searching /\ skipprev = 1 =>
          /\ from \in Index
          /\ optind < from \/ (optind = from /\ from = First)
          /\ \A i \in Index : optind < i /\ i < from => argv[i] \in Unloadable
    /\ pc = "end_of_list" => \A i \in Index : from < i => argv[i] \in Unloadable
    /\ played = 1 /\ pc # "play_all" => \E i \in Index : argv[i] \notin Unloadable

\* A step keeps what the search for a loadable module has seen.
LEMMA SearchStep ==
    ASSUME \A o \in Options : o.sequence = 0
    PROVE  TypeInv /\ SearchInv /\ [Next]_vars => SearchInv'
<1> SUFFICES ASSUME TypeInv, SearchInv, [Next]_vars PROVE SearchInv'
  OBVIOUS
<1>0. /\ pc \in Labels /\ skipprev \in Bit /\ played \in Bit /\ optind \in Int
      /\ from \in First - 1 .. Argc - 1 /\ IndexInBounds /\ ListIndex
      /\ opt.sequence = 0
  BY PlaylistAssumption DEF TypeInv, TypeOK
<1> USE <1>0, PlaylistAssumption
        DEF SearchInv, Selected, InPlayer, Searching, IndexInBounds, AtModule, ListIndex,
            Labels, Index, Bit, list
<1>1. CASE PlayAll
  BY <1>1 DEF PlayAll
<1>2. CASE MissingSequence
  BY <1>2 DEF MissingSequence
<1>3. CASE ForEachModule
  BY <1>3 DEF ForEachModule
<1>4. CASE LoadModule
  BY <1>4 DEF LoadModule
<1>5. CASE LoadError
  BY <1>5 DEF LoadError
<1>6. CASE SelectModule
  BY <1>6 DEF SelectModule
<1>7. CASE StartPlayer
  BY <1>7 DEF StartPlayer
<1>8. CASE StartError
  BY <1>8 DEF StartError
<1>9. CASE NoFrame
  BY <1>9 DEF NoFrame
<1>10. CASE LastFrame
  BY <1>10 DEF LastFrame
<1>11. CASE SoundFrame
  BY <1>11 DEF SoundFrame
<1>12. CASE Command
  BY <1>12 DEF Command
<1>13. CASE MaxTime
  BY <1>13 DEF MaxTime
<1>14. CASE NotPaused
  BY <1>14 DEF NotPaused
<1>15. CASE Pause
  BY <1>15 DEF Pause
<1>16. CASE PausePoll
  BY <1>16 DEF PausePoll
<1>17. CASE Resume
  BY <1>17 DEF Resume
<1>18. CASE NextSubsong
  BY <1>18 DEF NextSubsong
<1>19. CASE NoSubsong
  BY <1>19 DEF NoSubsong
<1>20. CASE EndPlayer
  BY <1>20 DEF EndPlayer
<1>21. CASE ReleaseModule
  BY <1>21 DEF ReleaseModule
<1>22. CASE Skip
  BY <1>22 DEF Skip
<1>23. CASE Quit
  BY <1>23 DEF Quit
<1>24. CASE RestartList
  BY <1>24 DEF RestartList
<1>25. CASE Flush
  BY <1>25 DEF Flush
<1>26. CASE End
  BY <1>26 DEF End
<1>27. CASE UNCHANGED vars
  BY <1>27 DEF vars
<1> QED
  BY <1>1, <1>2, <1>3, <1>4, <1>5, <1>6, <1>7, <1>8, <1>9, <1>10, <1>11, <1>12, <1>13, <1>14, <1>15, <1>16, <1>17, <1>18, <1>19, <1>20, <1>21, <1>22, <1>23, <1>24, <1>25, <1>26, <1>27 DEF Next, Step, Exited

\* Without -z every selection, restart and end of the list is one the listener
\* was promised.
THEOREM PlaysInOrder ==
    ASSUME \A o \in Options : o.sequence = 0
    PROVE  Spec => PlaysAsAsked
<1>1. TypeInv => Playable = {i \in Index : argv[i] \notin Unloadable}
  BY DEF TypeInv, TypeOK, Playable
<1>2. Init => Box!Init
  <2> SUFFICES ASSUME Init PROVE Box!Init
    OBVIOUS
  <2>1. Playable \subseteq First .. Argc - 1
    BY DEF Playable, Index
  <2> QED
    BY <2>1 DEF Init, Box!Init, Box!Places, Status, Selected, InPlayer, Request, Asked
<1>3. TypeInv /\ TypeInv' /\ LoopInv /\ SearchInv /\ SearchInv' /\ [Next]_vars
        => [Box!Next]_(Box!vars)
  <2> SUFFICES ASSUME TypeInv, TypeInv', LoopInv, SearchInv, SearchInv', [Next]_vars
               PROVE  Box!Next \/ UNCHANGED <<Playable, from, Status, Request, Asked>>
    BY DEF Box!vars
  <2> DEFINE Good == {i \in Index : argv[i] \notin Unloadable}
  <2>1. Playable = Good
    BY <1>1
  <2>2. Playable' = Good'
    BY DEF TypeInv, TypeOK, Playable
  <2>3. Box!Places = Index
    BY DEF Box!Places, Index
  <2>4. /\ pc \in Labels /\ skipprev \in Bit /\ played \in Bit /\ optind \in Int
        /\ from \in First - 1 .. Argc - 1 /\ skip \in {-2, -1, 0, 1}
        /\ First \in Int /\ Index \subseteq Int
    BY PlaylistAssumption DEF TypeInv, TypeOK, Index
  <2>5. IndexInBounds /\ ListIndex
    BY DEF TypeInv
  <2> USE <2>4 DEF Status, Selected, InPlayer, Request, Asked, Labels, Bit
  <2>6. CASE PlayAll
    <3>1. CASE opt.random
      <4>1. PICK p \in Rearrangements : argv' = [i \in Index |-> argv[p[i]]]
        BY <2>6, <3>1, Zenon DEF PlayAll
      <4>2. p \in Box!Rearrangements
        BY <4>1 DEF Rearrangements, Box!Rearrangements, Box!Places, Index
      <4>3. Playable' = {t \in Box!Places : p[t] \in Playable}
        <5>1. p \in [Index -> Index]
          BY <4>1 DEF Rearrangements
        <5>2. ASSUME NEW t \in Index
              PROVE  argv'[t] = argv[p[t]] /\ p[t] \in Index
          BY <4>1, <5>1, <5>2
        <5>3. Good' = {t \in Index : argv'[t] \notin Unloadable}
          OBVIOUS
        <5> HIDE DEF Good
        <5>4. Good = {t \in Index : argv[t] \notin Unloadable}
          BY DEF Good
        <5> QED
          BY <2>1, <2>2, <2>3, <5>2, <5>3, <5>4
      <4>4. pc = "play_all" /\ pc' = "for" /\ UNCHANGED <<from, skip, skipprev>>
        BY <2>6 DEF PlayAll, control
      <4>5. from = First - 1
        BY <4>4 DEF SearchInv
      <4>6. Status = "seeking" /\ UNCHANGED <<from, Status, Request, Asked>>
        BY <4>4
      <4>7. Box!Rearrange
        BY <4>2, <4>3, <4>5, <4>6 DEF Box!Rearrange
      <4> QED
        BY <4>7 DEF Box!Next
    <3>2. CASE ~opt.random
      <4>1. Playable' = Playable
        BY <2>1, <2>2, <2>6, <3>2 DEF PlayAll
      <4>2. pc = "play_all" /\ pc' = "for" /\ UNCHANGED <<from, skip, skipprev>>
        BY <2>6 DEF PlayAll, control
      <4> QED
        BY <4>1, <4>2
    <3> QED
      BY <3>1, <3>2
  <2>7. ASSUME ~PlayAll
        PROVE  Playable' = Playable
    BY <2>1, <2>2, <2>7 DEF Next, Step, Exited, ForEachModule, LoadModule, LoadError,
       SelectModule, MissingSequence, StartPlayer, StartError, NoFrame, LastFrame,
       SoundFrame, Command, MaxTime, NotPaused, Pause, PausePoll, Resume, NextSubsong,
       NoSubsong, EndPlayer, ReleaseModule, Skip, Quit, RestartList, Flush, End, vars,
       list
  <2>8. CASE LoadError
    <3>1. Playable' = Playable
      BY <2>7, <2>8 DEF LoadError, PlayAll
    <3>2. CASE skipprev = 1 /\ optind - 2 < First - 1
      <4>1. optind = First /\ First \notin Playable
        BY <2>1, <2>5, <2>8, <3>2 DEF LoadError, IndexInBounds, AtModule, Index
      <4>2. \A i \in Playable : ~(i < from)
        BY <2>1, <2>8, <3>2, <4>1 DEF LoadError, SearchInv, Searching, Index
      <4>3. Box!Before = {}
        BY <4>2 DEF Box!Before
      <4> QED
        BY <2>8, <3>1, <3>2, <4>3 DEF LoadError, Box!Next, Box!GiveUp, control
    <3>3. CASE ~(skipprev = 1 /\ optind - 2 < First - 1)
      BY <2>8, <3>1, <3>3 DEF LoadError, control
    <3> QED
      BY <3>2, <3>3
  <2>9. CASE SelectModule
    <3>1. Playable' = Playable
      BY <2>7, <2>9 DEF SelectModule, PlayAll
    <3>2. optind \in Index /\ optind \in Playable
      BY <2>1, <2>5, <2>9 DEF SelectModule, SearchInv, IndexInBounds, AtModule
    <3>3. CASE skipprev = 0
      <4>1. Box!IsFirst(optind, Box!After)
        BY <2>1, <2>9, <3>2, <3>3
           DEF SelectModule, SearchInv, Searching, Box!IsFirst, Box!After
      <4> QED
        BY <2>3, <2>9, <3>1, <3>2, <3>3, <4>1
           DEF SelectModule, LoopInv, SkipPending, Box!Next, Box!Enter
    <3>4. CASE skipprev = 1 /\ optind < from
      <4>1. Box!Before # {} /\ Box!IsLast(optind, Box!Before)
        BY <2>1, <2>9, <3>2, <3>4
           DEF SelectModule, SearchInv, Searching, Box!IsLast, Box!Before
      <4> QED
        BY <2>3, <2>9, <3>1, <3>2, <3>4, <4>1
           DEF SelectModule, LoopInv, SkipPending, Box!Next, Box!Enter
    <3>5. CASE skipprev = 1 /\ optind = from /\ from = First
      <4>1. Box!Before = {} /\ Box!IsFirst(optind, Playable)
        BY <2>1, <3>2, <3>5 DEF Box!IsFirst, Box!Before, Index
      <4> QED
        BY <2>3, <2>9, <3>1, <3>2, <3>5, <4>1
           DEF SelectModule, LoopInv, SkipPending, Box!Next, Box!Enter
    <3> QED
      BY <2>9, <3>3, <3>4, <3>5 DEF SelectModule, SearchInv, Searching
  <2>10. CASE Command \/ PausePoll
    <3>1. Playable' = Playable
      BY <2>7, <2>10 DEF Command, PausePoll, PlayAll
    <3>2. skip = 0
      BY <2>10 DEF Command, PausePoll, LoopInv, SkipPending
    <3> QED
      BY <2>10, <3>1, <3>2 DEF Command, PausePoll, list, Box!Next, Box!Ask
  <2>11. CASE Skip \/ Quit
    <3>1. Playable' = Playable
      BY <2>7, <2>11 DEF Skip, Quit, PlayAll
    <3>2. skipprev = 0
      BY <2>11 DEF Skip, Quit, SearchInv
    <3> QED
      BY <2>11, <3>1, <3>2 DEF Skip, Quit, list, control, Box!Next, Box!Leave
  <2>12. CASE RestartList \/ Flush
    <3>1. Playable' = Playable
      BY <2>7, <2>12 DEF RestartList, Flush, PlayAll
    <3>2. Box!After = {}
      BY <2>1, <2>12 DEF RestartList, Flush, SearchInv, Box!After
    <3>3. CASE RestartList
      <4>1. Playable # {}
        BY <2>1, <3>3 DEF RestartList, SearchInv
      <4> QED
        BY <3>1, <3>2, <3>3, <4>1
           DEF RestartList, SearchInv, control, Box!Next, Box!Restart
    <3>4. CASE Flush
      BY <3>1, <3>2, <3>4 DEF Flush, SearchInv, list, control, Box!Next, Box!Finish
    <3> QED
      BY <2>12, <3>3, <3>4
  <2>13. ASSUME \/ ForEachModule \/ LoadModule \/ MissingSequence \/ StartPlayer
                \/ StartError \/ NoFrame \/ LastFrame \/ SoundFrame \/ MaxTime
                \/ NotPaused \/ Pause \/ Resume \/ NextSubsong \/ NoSubsong
                \/ EndPlayer \/ ReleaseModule \/ End \/ UNCHANGED vars
         PROVE  UNCHANGED <<from, Status, Request, Asked>>
    BY <2>13 DEF ForEachModule, LoadModule, MissingSequence, StartPlayer, StartError,
       NoFrame, LastFrame, SoundFrame, MaxTime, NotPaused, Pause, Resume, NextSubsong,
       NoSubsong, EndPlayer, ReleaseModule, End, vars, list, control
  <2> QED
    BY <2>6, <2>7, <2>8, <2>9, <2>10, <2>11, <2>12, <2>13 DEF Next, Step, Exited
<1>4. Init => SearchInv
  BY PlaylistAssumption DEF Init, SearchInv, Selected, InPlayer, Searching
<1> QED
  BY <1>2, <1>3, <1>4, SearchStep, LoopCorrect, PTL DEF Spec, PlaysAsAsked, Box!Spec
=============================================================================
