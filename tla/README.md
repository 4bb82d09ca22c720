# A verification project for xmp-cli

xmp-cli plays music modules from the command line: it loads the files it is
given with libxmp, renders them frame by frame, sends the frames to a sound
driver and obeys single-key commands while it plays. This directory holds TLA+
models of its control, the TLC runs that check them on small instances, and
proofs, checked by TLAPS, of what matters most for every value of the
parameters. All paths below are relative to the repository.

## 1. Inventory

| component | source | state it keeps | operations | modelled by |
|---|---|---|---|---|
| playlist, module and frame loops | `src/main.c` (`main`, `shuffle`, `check_pause`) | `optind`, `first`, `skipprev`, `played`, `opt`/`save_opt` | the loops, load, start, frames, explorer, restart, exit | `XmpPlayer` |
| interactive commands | `src/commands.c` | `struct control` (`src/common.h`) | `read_command`, `change_sequence` | `XmpPlayer` |
| libxmp | external | the context: loaded or playing, position, flags | `xmp_load_module`, `xmp_play_frame`, ... | `XmpContext`, `xc` in `XmpPlayer` |
| sound driver interface | `src/sound.h` | the device | init, play, pause, resume, flush, deinit | `SoundDevice` |
| ring buffer drivers | `src/sound_coreaudio.c`, `src/sound_beos.cpp` | `buffer`, `buf_write_pos`, `buf_read_pos` | the format, `play` in one thread, `render_proc` in another | `AudioRing`, `SoundOutput` |
| buffer pool drivers | `src/sound_win32.c`, `src/sound_dart.c`, `src/sound_ahi.c` | buffers, a counter shared with a callback | the format, `play`, the callback, `deinit` | `BufferPool`, `SoundOutput` |
| Sound Blaster | `src/sound_sb.c`, `src/dos/*` | `sb`, the cyclic DMA buffer, `buff_tail`, vectors and masks, DOS memory | detection, allocation, interrupts, `play`, close | `DosDma`, `DosIrq`, `DosSb`, `SoundSb` |
| terminal and job control | `src/terminal.c`, signal handlers of `src/main.c` | saved attributes, `foreground_in`, `foreground_out` | `set_tty`, `reset_tty`, SIGTSTP, SIGCONT, fatal signals | `Terminal` |
| file writers | `src/sound_wav.c`, `src/sound_aiff.c`, `src/sound_file.c` | bytes written, header offsets | init, play, deinit | `SoundOutput` |
| options and configuration | `src/options.c`, `src/read_config.c`, `src/getopt_long.c` | `struct options` | xmp.conf, command line, modules.conf | `Getopt`, `Settings` |
| driver selection, conversion | `src/sound.c`, `src/sound.h` | the driver list, `options->format` | probing, downmix, byte swap | `SampleFormat`, `SoundOutput` |
| blocking drivers | the other `src/sound_*.c` | `bits`, the device | negotiation of the format, a blocking write | `SoundOutput`, for OSS, ALSA, sndio, PulseAudio, BSD, NetBSD, Solaris, HP-UX, null |
| display, delays, platform start-up | `src/info.c`, `src/util.c`, `src/delay.c`, `src/main_amiga.h` | the status line | output | not modelled |

**How they interact.** `main` calls everything else. libxmp and the driver are
called synchronously; the commands change `struct control`, which the loops read
later, and the libxmp context. Three things run beside `main`: the audio
system's callback thread (CoreAudio, BeOS, Win32, DART) or interrupt (Sound
Blaster), and the signal handlers.

**What is hard.** The playlist is searched in two directions with one index,
changed by two different error branches, the skip commands and the loop's own
increment; what the user asks for in one loop takes effect in another, after a
pause, an explorer step or a time limit; the current sequence and the mixer type
are kept in two places; the ring buffer is shared by two threads without a lock;
the Sound Blaster's position is read byte by byte while it moves; getopt moves
the words it is still reading; a setting has four sources and two of them come
back for each module; a driver that fails has already changed the format.
`PROJECT.json` lists these and the other hazards, each at its line.

**What makes each component correct.**

* Player: the module played next is the nearest one that loads, in the
  direction asked for; a search ends; `q` ends the program; a list that is left
  alone ends; indices into `argv` and `mi.seq_data` stay in bounds; what
  `struct control` says of libxmp is true; driver and context are called in
  order on every path.
* Ring: a bounded queue of bytes; `play` returns; the threads never touch the
  same byte.
* Buffer pools: a buffer is never filled while the device owns it, and `play`
  never waits for a buffer nobody will free.
* Terminal: the attributes restored at exit are those found at the start, keys
  are read from a raw terminal, and a program in the background plays on.
* Sound Blaster: the buffer lies on one page, in the memory it was given; the
  card found is the card there is; what is taken from the machine is given back;
  an interrupt finds what its handler uses; the stream is played in order.
* Output: what is heard is what libxmp mixed, in the format it was told, whatever
  was asked for; the header of a WAV file agrees with its data.
* Options: what getopt hands over is what was written; a setting takes effect in
  the order defaults, xmp.conf, command line, modules.conf, for each module anew.

## 2. The modules

```
SoundDevice   XmpContext   Jukebox        abstract: what is promised
       \          |          /            INSTANCE ... WITH
              XmpPlayer                   main.c + commands.c
             /         \
   MCXmpPlayer      XmpPlayerProofs       TLC values / TLAPS proofs

               ByteFifo                   abstract: a bounded queue of bytes
              /        \
      AudioRing          BufferPool       sound_coreaudio.c, sound_beos.cpp;
      /       \           /       \       sound_win32.c, sound_dart.c, sound_ahi.c
MCAudioRing    \  MCBufferPool    BufferPoolProofs
          AudioRingProofs

      Terminal --- TerminalProofs         terminal.c, the signal handlers of main.c

DosDma   DosIrq                           dosdma.c, dosirq.c
     \   /
     DosSb                                dossb.c, and the card
       |
    SoundSb --- MCSoundSb                 sound_sb.c
       |
  SoundSbProofs

Getopt --- Settings --- MCSettings        getopt_long.c; options.c, read_config.c,
               |                          main.c up to what libxmp is given
         SettingsProofs

SampleFormat --- SoundOutput --- MCSoundOutput
                      |                   sound.h, sound.c; the formats of all drivers
              SoundOutputProofs
```

`Numbers`, lemmas on remainders and on induction, is extended by the proofs of the
ring, the pool, the Sound Blaster and the settings. An arrow without a word is EXTENDS; `SoundDevice`,
`XmpContext`, `Jukebox` and `ByteFifo` are instantiated under a refinement
mapping.

### XmpPlayer

One thread of control, so one `pc`, whose labels are the places of `main` where
something is decided: `play_all`, `for` (the test of the module loop), `load`,
`check_sequence`, `start_player`, `frame` (the test of the frame loop),
`command`, `max_time`, `check_pause`, `paused`, `explorer`, `end_player`,
`release`, `skip`, `end_of_list`, `end`, `done`. Variables bear the names of the
code: `optind`, `skipprev`, `played`; `opt` is `save_opt`, which the loop copies
into the options before each module, so that only `start`, the one option the
code changes afterwards, is a variable of its own; `skip`, `pause`, `loop`,
`explore`, `amiga_mixer`, `sequence`, `time` are the fields of `struct control`.
Each action is one branch of the code with its `continue`, `break` or `goto` and
the loop increment that follows: a load error, for instance, subtracts 2 and
adds 1 in one step.

`read_command` is the choice of any key of `Keys`, or of none, at each poll. Keys
that only print or mute a channel are the case of none. A program in the
background or started with `--nocmd` reads no key in the frame loop; the pause
prompt always reads.

libxmp is modelled from how `main.c` uses it: `state` (unloaded, loaded,
playing, freed), `seq`, `frame` and `stopped` (where it plays), `flags` and
`cflags` (the mixer bit of the player's and of the module's flags). A position
is the sequence that holds it and the number of frames since its entry point; a
sequence loops after `SeqFrames` frames. `dev` is the last call made to the
driver. `from` is a history variable, the module selected last.

`Jukebox` is the listener's view of a playlist: the places that hold something
playable, the current track, and what was asked for; after "next" comes the
first playable track after it, after "prev" the last playable one before it, if
there is none the first of the list. `XmpPlayer` implements it under a
refinement mapping (`PlaysAsAsked`); `SoundDevice` and `XmpContext` are
implemented in the same way (`DriverProtocol`, `ContextProtocol`).

### AudioRing

Two threads. `ppc` is where `play` is (`wait` for free bytes, `write`, `store`,
`start` the unit), `cpc` where `render_proc` is. Each reading of a position the
other thread writes is a step of its own: `play` reads `buf_read_pos` in its wait
and again in `write_buffer`, the callback reads `buf_write_pos` in `render_proc`
and again in `read_buffer`. The two stores of `write_buffer`, the bytes and the
position, are the members of `stores`; on an "ordered" machine the position
follows the bytes, on a "weak" one it may precede them, which the C code, with
its plain `int` and no barrier, allows. Bytes are told apart by their number in
the stream modulo `Modulus`, larger than the ring, so a byte that is stale,
missing or repeated has the wrong number. CoreAudio gives the callback what
there is; BeOS waits for the whole request, never stops the player on pause, and
`deinit` may leave a waiting callback behind.

### BufferPool

`play` copies a frame into a buffer and gives buffers to the device, which plays
them in order (`Complete`) and says so later, in a callback on a thread of its
own (`done` counts the buffers played whose callback is yet to come). Win32 has
one frame in a buffer and a counter `freebuffer` that the callback moves; DART
packs frames into a buffer until one does not fit, and counts free buffers in
`ready`; AHI cuts a frame into chunks and looks at the request itself. Each
reading of a shared counter is a step. How `ready--` or `freebuffer++, %=` is
compiled is a choice made at the start (`build`): one access, or two with the
other thread in between. Up to `limit` buffers are lost to errors (`lost`): the device
refuses a buffer, which the code does not notice, or completes it with an error
other than an underrun, which DART's callback does not count
(`DartCallbackError`).

### Terminal

`calls` is the stack of activations of `sigcont_handler` and `cleanup` above
`main`: signals are delivered between any two steps, a handler blocks its own
signal and no other, and `main` itself calls `sigcont_handler(0)` with nothing
blocked. `Fatal` is the set of the signals whose handler is `cleanup`; another of
them may come while it runs, and meets a handler or, behind its first five calls
of `signal`, the default action. The end of `main` is three steps, the last look
at `foreground_in` (`End`), `reset_tty` (`LastReset`) and the return after
`sound->deinit()` (`Exit`), with signals in between. The user may press
Control-Z, use `fg` and `bg`, and send fatal signals at any time; a process in the background that sets the attributes or reads is stopped, and
makes the call again when it is continued. Of the terminal's attributes the
model keeps whether they are the shell's, those of `set_tty`, or the zeros of
the static variable `term`. Two kinds of shell are modelled: one that gives a
job back the attributes it was stopped with, and one that does not. `past` is a
history variable: what has happened to the job, among it the courses on which
the terminal is not left as it was found.

### DosDma, DosIrq, DosSb, SoundSb

`DosDma` is `dma_allocate` over a memory whose free places DOS chooses: `alloc`
holds its locals, each pass of the retry loop is `Resize` or `Reallocate` and then
a verdict (`Judge`). `DosIrq` is the vectors, masks and handles of the interrupt
lines, and the counting of `irq_detect`. `DosSb` is the search for the card and
its resources, opening and closing, the handler, and the card itself, external:
it asks for an interrupt when told to, moves bytes while its channel is open, and
stops after each half unless it starts over by itself. The machine may have no
card. `SoundSb` adds `play`: the position is read in four steps with the transfer
going on between any two (`ReadLow` to `ReadHigh2`), and the buffer is filled up
to it.

An interrupt that gets through is taken before the program's next step. If
hooking a line fails during detection the code enables interrupts through a null
handle, and on a line that was unmasked before, an interrupt between `irq_hook`
setting the vector and the caller storing the handle finds a null handle in its
handler: the model goes to `wild` and nothing is claimed of it. The value of
`BLASTER` is right or absent. Fewer interrupts of other devices than the ten the
code counts come during one detection. `mem` holds the number of the byte of the
stream at each place, modulo `Size + 1`; `ahead` is a ghost variable, the bytes
from the card's position to the end of what is stored. The card moves at most
`MaxTicks` bytes between two positions that `play` accepts: a query takes
microseconds and a byte at least 22 of them, so that the two readings differ by
less than `ByteBase - Near`; a program that is late otherwise is modelled, and is
heard in order again once it has caught up.

### Getopt and Settings

A word of the command line is a sequence of tokens: a dash, a letter, the name of
a long option (a string, as it may be abbreviated), "=", or a value. `Getopt` is
one call of `getopt_long` after another, one action per way through
`getopt_internal`: a block of operands is opened, closed by an option, and moved
behind the options when the next operand or the end comes. `permute_args` is
`Permuted`: as many `Cycle`s as `gcd` says, each a sequence of `Exchange`s.
`Reference` is what a command line means; it is not code, it is the
specification: for each word, `FromWord` gives the options it holds and puts them
before the meaning of the words after it, and nothing is moved. These are
recursive functions, as are the readings of a file line by line, so that they can
be proved about.

`Settings` is `main` from the defaults to what libxmp is given for each module:
`read_config`, `get_options` with every option of the switch, its limits and its
guess of the driver, the checks, and for each module the copy of `save_opt` and
`read_modconf`. The `init` of the sound driver may change the rate, the format
and the name of the file before they are saved in `save_opt` (`Settled`, whose
`Answers` are a constant): `rates` remembers the rate asked for and the one
settled on. A file is its lines, and whether a newline ends the last one. The
lines of a variable and no value are left out. `played`, `got` and `rates`
are history variables. The modules are played in the order of the list, which is
`XmpPlayer`'s subject.

### SampleFormat and SoundOutput

`SampleFormat` has the helpers of `sound.h` and the conversions of `sound.c` on
sequences of bytes. `SoundOutput` probes the drivers of a build as
`select_sound_driver` does. The `init` of each driver is the set of its outcomes:
it fails, with what it had already changed in the options, or settles on a
format; the device is external, answers with a linear format of its own and plays
what it answered. A sample is four bytes, the highest first, of which narrower
formats keep the first. `Write` is one call that writes all, a part, or nothing.
NetBSD lists its encodings in any order (`Matched` is what `to_fmt` can
end with).
PulseAudio is taken to have its 24 and 32 bit formats. Of the drivers with a
callback `SoundOutput` has the format and the conversions: a queued frame counts
as heard, which `AudioRing` and `BufferPool` are about.

## 3. The runs

| run | instance | shows |
|---|---|---|
| `list` | all lists of 4 files that play one or two sequences, do not start or do not load; n, p, q, a, < and >; `-l`, `--loop-all`, `--random`, `-A`, the explorer, `-z -1` | `IndexInBounds`, `SequenceInBounds`, `CurrentSequence`, `AmigaMixerFollows`, `PlaysAsAsked`, `SearchEnds` |
| `frames` | one file, of two sequences or of no frame, the loop point after 2 frames; pause, position, explorer, loop and quit keys; both time limits, `--load-only`, `--nocmd`, `-z 1`, `-z -1`, `-s -1` | `TypeOK`, `NoFrameAfterSkip`, `DriverProtocol`, `ContextProtocol`, `QuitEnds`, `ListEnds` |
| `ring` | three chunks of two bytes, frames up to the largest that fits, both drivers, both kinds of machine | `ChunkStaysFree`, `NothingCutShort`, `NoOverlap`, `BytesInOrderIfOrdered`, `IsFifo`, `PlayReturns` |
| `pool` | three drivers, both builds, none to three buffers lost to errors of the device | `NeverOwned`, `PlaysStream`, `Credits`, `PlayReturns`, `IsFifo` |
| `terminal` | two fatal signals, from the foreground or the background, standard input a terminal or not, both kinds of shell | `KeysFromRaw`, `LeftAsFound`, `BackgroundPlays` |
| `listens` | the same with one fatal signal | `SignalEnds`, `Listens` |
| `sb` | no card or one of four, three lines of which another program uses one, two tries to allocate, a buffer of 6 bytes and frames of 5 | `StreamInOrder`, `HandlerSafe`, `DetectedAsIs`, `Released`, `OnOnePage`, `CallsReturn` |
| `settings` | all command lines of up to 3 of 12 words, with and without `POSIXLY_CORRECT`, of 4 and 5 words of four, each option alone and with each kind of argument; four files of up to 3 lines; a driver that keeps the format asked for, or settles on another format and rate | `ParsedAsWritten`, `Precedence`, `Finishes` |
| `output` | eleven builds, both byte orders, every format that can be asked for, devices of one, two or four channels, two frames of a positive or negative sample, header fields of 70 values | `Heard`, `FormatAgreed`, `WavHeader` |

Three runs find what the source's own words deny (section 6): `SearchEnds`,
`OnlyIfNotPrepared`, `dma`.

The type invariants of `AudioRing`, `BufferPool`, `Terminal`, `SoundOutput`, `Settings`
and the Sound Blaster are no invariant of a run: they are proved, each as a part of an inductive
invariant (section 4).

**Bounds.** Four files are the least for which a search backwards meets a file,
a second one, the first of the list and the place it started from. Two sequences
let the wrap-around, the explorer's end and a file without the sequence asked
for all happen; more only repeat them. Two frames per sequence give a position
before, at and after the loop point. `TimeCap` bounds `control.time`; it exceeds
both limits of the options, and the counter stays at the cap. Three chunks of two
bytes let requests and frames straddle chunks and the end of the ring; `Modulus`
exceeds the ring. In `pool` three buffers let the Win32 pool be empty, full and
in between; a DART buffer takes two frames and a byte to spare, so that it is
given away before it is full; an AHI frame may need two chunks. `Bounded` ends a
"split" behaviour once its counters are wrong; nothing is claimed of it after
that, nor is there in an "atomic" one. `Terminal` needs no bound: a signal is
pending or not, and a handler blocks its own. Two fatal signals, which nothing
tells apart (so `terminal` uses their symmetry), let one come in the cleanup of the
other; the liveness run has one, as a second only ends the job sooner. Three lost
buffers are the whole pool. In `sb` a page is three paragraphs
and so is the buffer, so that most blocks cross a page and the second try
happens; `Near` and `ByteBase` are small enough for a reading that is torn by a
carry, and `Align` for a position that is rounded. In `settings` two operands and
two or three options make blocks whose sizes have a common divisor; two lines of
a file let the second contradict the first, two modules let one leak into the
other, and one driver parameter is kept of two. In `output` two frames of one
sample per channel give data of odd and even length.

**Fairness.** `WF_vars(Step)` in `XmpPlayer`: the program's own steps go on; every
call returns (libxmp is a library, and drivers return by `PlayReturns` or because
the system's write does). What the user types is never forced: at the pause
prompt polling for ever is allowed, and `ListEnds` is stated for a list that is
left alone. In `AudioRing` both threads are fair; a new call of `play`, pause or
deinit is not. A running unit calls its callback again and again, that is what
the audio system does. In `BufferPool` the device plays what it has, and its
callbacks come. In `Terminal` the program and the kernel go on; the user and the
shell need do nothing, so that a stopped job may stay stopped. In `SoundSb` the
processor goes on, interrupts are taken and the card plays on; the user's calls
are not forced, and no strong fairness is assumed. `Settings` is one thread that
waits for nobody. `SoundOutput` claims safety only.

**Assumptions the model makes visible.** `chunk_size < buffer_len`: CoreAudio
always has one chunk more than `num_chunks >= 1`; BeOS only if `-D buffer=` asks
for two or more. For `PlayReturns` a frame must fit: `buffer_len - chunk_size`
on CoreAudio, `buffer_len - 2 * chunk_size + 1` on BeOS, where otherwise `play`
and the callback wait for each other (`MCAudioRing`). The code checks neither. `num_buffers >= 2`
for Win32, where one buffer is waited for for ever and none divides by zero, and
a frame that fits a buffer for Win32 and DART: the code checks neither. With
"split" counters DART's `ready` may lose an update (then `play` waits for ever or
writes into a buffer that is playing), and Win32's `freebuffer` may be read out
of range; `NeverOwned`, `Credits` and `PlayReturns` are claimed for "atomic"
builds only; an update lost in a "split" build is in the model, but no property
speaks of it. `PlayReturns` ends where all buffers are lost to errors of the
device: then `play` waits for ever, on DART also for buffers the device completed
(`src/sound_dart.c:50`). `LeftAsFound` leaves out courses on which TLC finds the
terminal left otherwise, each a hazard of its own: the failure of
`xmp_create_context`; a fatal signal before `set_tty` saved anything; what
`OnlyIfNotPrepared` finds; a second, other fatal signal between the calls of
`signal(..., SIG_DFL)` in `cleanup` and the end of its `reset_tty`, which kills the
program with the terminal raw ("hasty" in `past`); and SIGCONT behind `main`'s last
look at `foreground_in`, where `sigcont_handler` makes raw a terminal that nobody
restores ("late"). `KeysFromRaw` excludes a job that was stopped
under a shell that keeps no attributes for it, or was continued in the
background. `SoundSb` needs two positions in a buffer that differ in their high
byte (`2 * ByteBase <= Size`; the buffer is 32 KB), channels 0 to 7 as every PC
has them, `MaxTicks + Near <= ByteBase` (see section 2), a buffer no larger than
a page, and fewer foreign
interrupts than detection counts. `CurrentSequence` needs a start without `-s`
and sequences that last some time; it and `SequenceInBounds` leave out a `-z` below
zero, which the code accepts and with which it reads in front of `mi.seq_data`: in
the model the position found there is any, or none (note 16).
`FormatAgreed` says nothing of the sign on Solaris, HP-UX and DART (`DeafToSign`):
the first two do not tell the device of `-u`, and DART's `init` takes the device for
signed (`TODO: verify`), which the model does not. It says nothing of the channels
of a device that answers with more than two, as ALSA's and DART's may: `options` has
only mono and stereo. `Heard`, which compares the samples with their sign, leaves
out the devices on which `FormatAgreed` fails in one of these ways
(`Expressible`), and `Heard` and `WavHeader` a frame whose write failed. `WavHeader`
speaks of files whose sizes fit into the fields of the header; `Field` is 2^32 in the
code, and where `long` has 32 bits `size` itself overflows at half of that.

## 4. The proofs

`XmpPlayerProofs`, for every playlist, option and key set:

* `TypeInv` (types, and `optind` in the list where it is used) is inductive:
  `TypeInit`, `TypeStep`, `TypeCorrect`. It must also say that `optind` is in
  reach in the states between two modules (`ListIndex`), which `IndexInBounds`
  does not.
* `LoopInv` adds what holds in the frame loop: the sequence exists, the mixer is
  the one asked for, and a pending skip has stopped the module (`SkipPending`),
  without which neither `NoFrameAfterSkip` nor the explorer's guard could be
  relied on. From it: `SequenceBounded`, `MixerCorrect`, `SkipStopsFrames`,
  `DriverCalls`, `ContextCalls`.
* `SequenceShown` needs two hypotheses, no `-s` and no sequence of zero
  duration: section 6, note 1, says why. It and `SequenceBounded` speak of a `-z`
  that is not below zero.
* `SearchInv` says that every file the search has passed, in either direction,
  does not load. With it `PlaysInOrder`: without `-z`, `XmpPlayer` implements
  `Jukebox`. Section 6, note 2, says why `-z` is
  excluded.

`AudioRingProofs`, for every size of ring, chunk, frame and request:

* `RingInv` (types, a free chunk, and `Sizes`: what each thread was told still
  holds) gives `ChunkFree` and `NothingShort`; `WrapOnce`, `ModuloSum` and the
  `Place...` lemmas are the modular arithmetic it needs.
* `BytesInv`, the bytes from the read to the write position are the next of the
  stream and so are those stored beyond it, gives `InOrder` and `ThreadsApart`
  for machines that keep the order of stores.
* `QueueInv` says what `BytesInv` makes of the ring as a whole: a piece of the
  stream. With `FifoStream`, such a piece may be cut anywhere, and `UsedStep`,
  only the two stores of a position change how long it is, the ring implements
  `ByteFifo` (`RingIsFifo`).

`BufferPoolProofs`, for every number and size of buffers, chunks and frames:

* `PoolInv` is what the counters mean. `Counters`: `freebuffer` lies as many places
  behind the buffer whose turn it is (`Turn`, which is `Succ(next)` between the
  submission and the step to the next) as there are buffers out (`Out`), and
  `ready` counts those that are not. `Places`: the buffers the device has are the
  ones right behind. Neither holds without the other, and both need that `play`
  has waited before it writes. They give `CountersBalance` and `BuffersOwned`.
* What a step does to the bytes is one of four things (`SeenSteps`): bytes are
  added to the buffer being filled (`Fills`), that buffer is given to the device
  (`Gives`), the device plays its first buffer (`Plays`), or nothing (`Rests`).
* `StreamInv` cuts the stream at points `o[1]`, `o[2]`, ...: the k-th buffer of the
  device holds the bytes from `o[k]` to `o[k + 1]`, and the buffer being filled
  what follows the last (`Pieces`, `FilledFrom`). `StreamStep` moves the cuts;
  ownership says that nobody writes on a piece. It gives `StreamPlayed`.
* `PoolIsFifo`: the pool implements `ByteFifo`. The queue of bytes is the buffers
  of the device joined, then what is being filled (`Held`). `FlattenAppend` and
  `FlattenTail`, by induction over the number of buffers, say what joining one
  more or one less gives. `RoomInv` bounds what a buffer holds, and with the
  counters what the pool holds (`PoolHasRoom`).

`SoundSbProofs`, for every machine, memory, set of lines and size of buffer:

* `SbInv` is the conjunction of what detection, allocation, opening and closing
  hand on: `DmaInv` and `BufferInv` (the block and the buffer in it, at each pass
  of the retry loop), `LinesInv` (vectors, masks and handles of the lines hooked,
  `Taken`, and of no other), `CardInv` (the resources found so far are the card's),
  `QuietInv` (when the card is silent), `CountInv` (interrupts counted per line) and
  `TrialInv` (the trial transfer, by which the 16 bit channel is found). That an
  interrupt finds its handler's data (`HandlerIsSafe`) rests on most of them: on
  the lines hooked, on the places where the card may ask, and on the order in
  which close takes them away. Also from it: `BufferOnOnePage`,
  `DetectionIsRight`, `NothingLeft`.
* `StreamInv` is about the transfer. `Contents`: the bytes ahead of the card are
  those of the stream, or silence. `RingInv`: how far the card can be from the
  place `play` has filled up to (`Since` counts from the last multiple of `Align`).
  `QueryInv`: what the first bytes read say of the position they were read at.
  The lemma `SecondReading` is the point of it: when the two readings lie within
  `Near` of each other, the second was not torn. It gives `Heard`.

`TerminalProofs`, for every set of fatal signals, order of signals and both kinds
of shell:

* `StackInv` says which activations of the handlers can lie above which: no
  cleanup above one that has restored the default actions. `SignalInv` says who
  still has to act on a fatal signal, `ZeroInv` when `term` has been saved,
  `FrontInv` who owns the terminal while the program runs, is stopped or ends,
  `RawInv` and `LeftInv` what the attributes are then, and what an activation that
  is under way will still do to them. `Ending`, the job is about to die with the
  terminal given back, is where they differ from the rest. `FrontOf` says what a step of the top
  activation can rely on. They give `KeysAreRaw`, `LeftAsItWas` and `PlaysOn`.

`SoundOutputProofs`, for every list of drivers, request, sample and answer of a
device:

* `OutcomesSound`: whatever a driver is asked for, its options and its device are
  of one format when `init()` succeeds (`Agree`, but for the sign and the number of
  channels where section 3 leaves them out), and a `Format` still when it fails; one lemma for each driver or group of drivers that settles in its own
  way. `SettledInv` says so of the driver selected, after any number that failed
  and left their changes behind.
* `FrameBytes`: `Converted` fills the containers of a frame as `Filled` says, for
  every width, byte order and width of container. It rests on `PackedBytes`,
  `AlignedBytes` and `TurnedBytes`, what the conversions of `sound.c` make of a
  buffer place by place. `ReadBack`: a container filled that way is read as the
  sample, the copies of the sign included.
* `StreamInv`: what was written, followed by what `play` has yet to write, is the
  frames so far (`AreFrames`); neither half alone is a whole number of them, as a
  write may end anywhere (`CutAndJoined`). `SizeInv`: the writers count what they
  write. `WavInv`: the header is the one `init` wrote or the one `deinit`
  completed. From these: `FormatIsAgreed`, `WavHeaderIsRight`, `HeardAsMixed`.

`SettingsProofs`, for every command line, whatever its length, and files of any
number of lines:

* `PermutedSwaps`: `permute_args` swaps two neighbouring blocks and keeps the
  order within each. A cycle visits the places that differ by a multiple of the
  `gcd` and comes back after `cyclelen` exchanges (`WalkReaches`, `WalkReturns`,
  from `GcdIs`, with Bezout's coefficients); `CycleIs` says what the exchanges
  leave on the way, `PermutedIs` that the cycles together miss no word and move
  none twice.
* `ParseInv` is the inductive invariant of getopt. `Complete` is its point: what
  was returned (`got`), the option just returned (`Pending`) and what the words
  not yet read ask for (`Ahead`), in this order, are what the whole command line
  asks for; and the operands passed over, wherever they have been moved, followed
  by those ahead, are its operands. It needs that no word ahead has been moved
  (`WordsKept`), that `place` is the rest of the word being read (`MidWord`) and
  how the blocks lie (`BlocksInOrder`). One lemma for each way through
  `getopt_internal` (`LongOptionRead`, `ShortFlagRead`, `OperandPassed`,
  `Finished`, ...). It gives `ParseIsWhole` and `OptionsParsedAsWritten`.
* `ConfSteps` and `ModSteps`: after the first n lines a setting is what the last of
  them that speaks of it says. `SettingsInv` carries that through the options
  (`OptionsSayMore`), the checks and the modules already played (`GivenDue`); it
  gives `SettingsTakePrecedence`. That `got` is the command line is `ParseInv`.

`Numbers` has the lemmas on remainders that these proofs cite, and induction: the
library's theorems of induction take an operator, so it is stated of sets of
numbers instead (`InductionOn`, `StrongInductionOn`, `InductionUpTo`), and proved
from the library's least element of a well-founded order. What a recursive
function computes is proved with these.

Only model-checked is liveness, which is out of the prover's reach: `SearchEnds`,
`QuitEnds`, `ListEnds`, `PlayReturns`, `CallsReturn`, `SignalEnds`, `Listens`,
`Finishes`.

## 5. Not modelled, and why

* Output (`info.c`, `report`) changes no state of the loops; delays and the
  start-up code are thin wrappers.
* The SGI, AIX, QNX and ALSA 0.5 drivers. The last three use fields `struct
  options` no longer has, so they do not compile; SGI's `play` handles words of
  other widths than the rest (section 6, note 15) and would need a model of its
  own.
* The sizes in the AIFF header (section 6, note 4) and the order of the bytes in
  any header.
* What a failed `init()` leaves allocated or open, in any driver.
* Of the Sound Blaster: the locks the driver takes on its own table of DMA
  buffers, their count and the finalizer; the mixer's volume; `dosutil.c`.
* Driver parameters (`-D`): whether a device opens and what it answers is a
  choice anyway. A line of a file without a value: the code reads a null pointer.
* Song positions inside a sequence are counted, not interpreted: libxmp's own
  business. Muting changes nothing the loops read.
* In `XmpPlayer` options are constant apart from `start`: what `modules.conf`
  does to them is the subject of `Settings`, and none of it reaches the loops.

## 6. Findings

Each is the subject of a run that expects a violation:

1. `src/main.c:449`: with `-z` a search backwards may go back and forth for ever
   between modules that lack the sequence (run `SearchEnds`; `Changelog:106`).
2. `src/main.c:96`: the comment "Only call if it was not already prepared" does
   not hold; `set_tty` may save raw attributes as those to restore (run
   `OnlyIfNotPrepared`).
3. `src/dos/dosdma.c:119`: a block that lies within a page is found good, but the
   buffer is put at the next page bound, outside the block (run `dma`;
   `src/dos/dosdma.c:117`).

Noted while modelling; no run is kept for them:

1. `src/main.c:458`: with `-s`, or a sequence of no duration, `control.sequence`
   is not the current sequence, as `src/common.h:80` calls it.
2. `src/main.c:451`: in the branch of finding 1 the first module of the list is
   never tried: the test is `optind < first`, not `optind < first - 1`.
3. `src/sound_coreaudio.c:80`: the write position is published without a barrier;
   on a machine that reorders stores the callback may be told of bytes that are
   not there yet. The ring's properties are claimed for the others.
4. `src/sound_aiff.c:127-138`: `size` counts the data from 0, while `deinit` takes
   the 54 bytes of the header off it: the three sizes come out too small, and are
   not written at all for up to 54 bytes of data.
5. `src/main.c:431`: `loop` and `amiga` of `modules.conf` have no effect, as
   `control` has been filled before.
6. `src/options.c:168`: `--all-sequences` takes the next word as an argument, `-Z`
   does not. `-T` (162) takes one and exits. `-n` of the usage text does not exist.
7. `src/options.c:345`: a range such as 12-1 in `-M` and `-S` is read as 12-12, and
   10-9 as 10-90, for the end is copied over the beginning (`Overlay`).
8. `src/options.c:409`: the driver guessed from the name after `-o` does not
   replace one that `xmp.conf` names.
9. `src/read_config.c:93`: a last line without a newline is dropped; 144: the
   interpolation is also sent to the driver; 159: `bits=8` undoes `mono=yes`.
10. `src/sound_hpux.c:85` leaves a rate of 0 when no rate is taken, with which
    `src/sound_aiff.c:37` never ends (the state `hang` of `SoundOutput`).
11. `src/sound_oss.c:151`, `src/sound_alsa.c:32`: the name of the device points
    into an array whose block has ended. `src/sound_alsa.c:31`: `period=` sets the
    buffer time.
12. `src/sound_solaris.c:122`, `src/sound_hpux.c:68`: `-u` reaches libxmp and not
    the device. `src/sound_dart.c:161`: the device is taken for signed, unverified.
    `src/sound_alsa.c:117`, `src/sound_dart.c:162`: more than two channels are taken
    for stereo.
13. `src/dos/dossb.c:259`: a card on channel 0 is taken for one without a channel;
    `src/dos/dosirq.c:350`: a line that cannot be hooked is enabled all the same.
14. `src/sound_win32.c:116`: one buffer is waited for for ever, none divides by
    zero; `src/sound_dart.c:192`: a frame longer than the buffer is copied over its
    end; `src/sound_dart.c:212`: what is not yet played at the end is lost.
15. `src/sound_sgi.c:68`: a rate above 48000 leaves the loop with `i` at -1, not 0,
    and `pvbuffer[1]` is read without a value; line 87: when 8 bits are refused
    and 16 taken, `al_sample_16` stays 0, and `play` passes twice the length.
16. `src/options.c:383`, `src/main.c:442`: the number after `-z` is only compared with
    the upper bound; below zero it reads in front of `mi.seq_data`.
17. `src/main.c:54-69`: a second, other fatal signal in `cleanup`, and SIGCONT after
    `src/main.c:652`, leave the terminal raw.
18. `src/sound_dart.c:50`: a buffer completed with an error other than an underrun is
    never counted as ready again.
19. `src/sound_wav.c:141-144`: the sizes of a file of 4 GiB or more are cut to 32 bits.
20. `src/main.c:292`: `--norc` is looked at before the command line has been parsed,
    so `xmp.conf` is always read, and only `modules.conf` is not. `src/xmp.1:272-275`
    says that the option ignores `xmp.conf`. `Precedence` counts `xmp.conf` with
    `--norc` too.

## 7. Plan

1. The sizes of the AIFF header, and the SGI driver.
2. `XmpPlayer` under a `SoundDevice` of which frames are lost, with the terminal's
   signals between its steps.
