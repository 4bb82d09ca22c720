----------------------------- MODULE Terminal -----------------------------
(***************************************************************************)
(* The terminal and job control: set_tty and reset_tty of src/terminal.c,  *)
(* and the signal handlers of src/main.c, which run between any two steps  *)
(* of the program.  The kernel and the shell are modelled from what the    *)
(* code asks of them: handlers that block the signal they handle, a        *)
(* process in the background stopped when it reads the terminal or sets    *)
(* its attributes, and a shell that takes the terminal back when the job   *)
(* stops.  Standard input is a terminal or it is not; the attributes are   *)
(* "cooked" (what the shell uses), "raw" (what set_tty makes of them) or   *)
(* "zero" (what the static variable term holds before it is assigned).     *)
(***************************************************************************)
EXTENDS Naturals, Sequences, SequencesExt

CONSTANTS
    Shells,   \* "plain" leaves a job the attributes it finds there,
              \* "keeping" gives it those it was stopped with
    Fatal     \* the signals whose handler is cleanup: SIGTERM, SIGINT, ...

ASSUME TerminalAssumption ==
    /\ Shells \subseteq {"plain", "keeping"}
    /\ Fatal \intersect {"0", "CONT", "TSTP"} = {}

VARIABLES
    pc,             \* where main is
    calls,          \* the activations of sigcont_handler and cleanup
    foreground_in, term,
    caught,         \* the signals that have a handler
    isatty, tty,    \* standard input, and its attributes
    owner,          \* whose process group has the terminal
    job,            \* the process
    pending,        \* the signals sent and not yet delivered
    shell, tmodes,  \* the kind of shell, the attributes it keeps for the job
    past            \* history: what has happened to the job

program == <<pc, calls, foreground_in, term, caught>>
kernel == <<tty, owner, job, pending>>
session == <<isatty, shell, tmodes>>
vars == <<program, kernel, session, past>>

Attributes == {"cooked", "raw", "zero"}
Signals == Fatal \union {"CONT", "TSTP"}
Places == {"signals", "context", "frame", "command", "read", "check_pause",
           "paused", "end", "reset", "deinit", "done", "failed"}

\* An activation: the signal it handles ("0" in main's own calls), where it
\* is, the local variables old_in of sigcont_handler and t of set_tty while
\* they are in use.
Call == [sig : Fatal \union {"0", "CONT"},
         at : {"old_in", "foreground", "tcgetattr", "tcsetattr", "signal",
               "default", "reset_tty", "kill"},
         old_in : BOOLEAN, t : Attributes]

Handler(sig) == [sig |-> sig, old_in |-> FALSE, t |-> "zero",
                 at |-> IF sig \in Fatal THEN "default" ELSE "old_in"]

Blocked == {calls[i].sig : i \in DOMAIN calls}

Deliverable == pending \ Blocked

\* t.c_lflag &= ~(ECHO | ICANON | TOSTOP): a copy with no flags stays so.
Raw(attributes) == IF attributes = "zero" THEN "zero" ELSE "raw"

Init == /\ pc = "signals" /\ calls = <<>> /\ caught = {}
        /\ foreground_in = FALSE /\ term = "zero"
        /\ isatty \in BOOLEAN /\ tty = "cooked" /\ job = "running"
        /\ owner \in {"job", "shell"} /\ pending = {}
        /\ shell \in Shells /\ tmodes = "none" /\ past = {}

-----------------------------------------------------------------------------
(* The kernel.                                                             *)

\* The terminal is touched from the background: the process is stopped, and
\* the call is made again when it is continued.
Refused == /\ job' = "stopped" /\ past' = past \union {"refused"}
           /\ UNCHANGED <<program, tty, owner, pending, session>>

\* The program goes on to its next step: it is not stopped, no signal is to
\* be delivered first, and main waits for the calls above it.
Runs == job = "running" /\ Deliverable = {}
Main(place) == Runs /\ calls = <<>> /\ pc = place
In(at) == Runs /\ calls # <<>> /\ Last(calls).at = at

Goto(place) == pc' = place /\ UNCHANGED <<calls, foreground_in, term, caught>>
At(at) == [sig |-> Last(calls).sig, old_in |-> FALSE, t |-> "zero", at |-> at]
Continue(call) == calls' = Append(Front(calls), call)
Return == calls' = Front(calls)

\* A signal with a handler: it runs above whatever was running.  The handler
\* of SIGTSTP restores the default action and sends the signal again, which
\* waits until it returns.
Catch(sig) ==
    /\ job = "running" /\ sig \in Deliverable \intersect caught
    /\ IF sig = "TSTP" THEN /\ caught' = caught \ {sig}
                            /\ pending' = pending \ {"CONT"}
                            /\ UNCHANGED calls
                       ELSE /\ calls' = Append(calls, Handler(sig))
                            /\ pending' = pending \ {sig}
                            /\ UNCHANGED caught
    /\ past' = past \union (IF sig = "CONT" /\ calls # <<>> THEN {"nested"} ELSE {})
                    \union (IF sig = "CONT" /\ pc = "deinit" THEN {"late"} ELSE {})
    /\ UNCHANGED <<pc, foreground_in, term, tty, owner, job, session>>

\* A second fatal signal finds the first cleanup on its way to reset_tty.
Restoring == \E i \in DOMAIN calls : calls[i].at = "reset_tty"

DefaultAction(sig) ==
    /\ job = "running" /\ sig \in Deliverable \ caught
    /\ pending' = pending \ {sig}
    /\ job' = CASE sig \in Fatal -> "dead" [] sig = "TSTP" -> "stopped"
                [] OTHER -> job
    /\ past' = past \union (IF sig = "TSTP" THEN {"stopped"} ELSE {})
                    \union (IF sig \in Fatal /\ Restoring THEN {"hasty"} ELSE {})
    /\ UNCHANGED <<program, tty, owner, session>>

-----------------------------------------------------------------------------
(* sigcont_handler, called by the kernel and, with signal 0, by main; and  *)
(* set_tty, which it calls.                                                *)

OldIn == /\ In("old_in")
         /\ Continue([At("foreground") EXCEPT !.old_in = foreground_in])
         /\ UNCHANGED <<pc, foreground_in, term, caught, kernel, session, past>>

\* Mutant: the terminal is prepared when the program leaves the foreground.
ForegroundLost ==
    /\ In("foreground")
    /\ foreground_in' = (isatty /\ owner = "job")
    /\ Continue(At(IF Last(calls).old_in /\ ~foreground_in' THEN "tcgetattr"
                                                            ELSE "signal"))
    /\ UNCHANGED <<pc, term, caught, kernel, session, past>>

Foreground ==
    /\ In("foreground")
    /\ foreground_in' = (isatty /\ owner = "job")
    /\ Continue(At(IF foreground_in' # Last(calls).old_in THEN "tcgetattr"
                                                          ELSE "signal"))
    /\ UNCHANGED <<pc, term, caught, kernel, session, past>>

\* Mutant: the flags are cleared in term itself.
TcGetAttrInPlace ==
    /\ In("tcgetattr")
    /\ term' = Raw(tty)
    /\ Continue([At("tcsetattr") EXCEPT !.t = Raw(tty)])
    /\ UNCHANGED <<pc, foreground_in, caught, kernel, session, past>>

TcGetAttr ==
    /\ In("tcgetattr")
    /\ term' = tty
    /\ Continue([At("tcsetattr") EXCEPT !.t = Raw(tty)])
    /\ UNCHANGED <<pc, foreground_in, caught, kernel, session, past>>

TcSetAttr ==
    /\ In("tcsetattr")
    /\ \/ /\ owner = "job"
          /\ tty' = Last(calls).t /\ Continue(At("signal"))
          /\ UNCHANGED <<pc, foreground_in, term, caught,
                         owner, job, pending, session, past>>
       \/ owner = "shell" /\ Refused

Install == /\ In("signal")
           /\ caught' = caught \union {"CONT", "TSTP"} /\ Return
           /\ UNCHANGED <<pc, foreground_in, term, kernel, session, past>>

-----------------------------------------------------------------------------
(* cleanup, the handler of SIGTERM, SIGINT and the other fatal signals.    *)

\* Mutant: the default action is not restored.
SigDflForgotten == /\ In("default")
                   /\ Continue(At("reset_tty"))
                   /\ UNCHANGED <<pc, foreground_in, term, caught, kernel,
                                  session, past>>

SigDfl == /\ In("default")
          /\ caught' = caught \ Fatal /\ Continue(At("reset_tty"))
          /\ UNCHANGED <<pc, foreground_in, term, kernel, session, past>>

ResetTty ==
    /\ In("reset_tty")
    /\ \/ /\ owner = "job" \/ ~isatty
          /\ tty' = IF isatty THEN term ELSE tty
          /\ Continue(At("kill"))
          /\ UNCHANGED <<pc, foreground_in, term, caught,
                         owner, job, pending, session, past>>
       \/ owner = "shell" /\ isatty /\ Refused

Kill == /\ In("kill")
        /\ pending' = pending \union {Last(calls).sig} /\ Return
        /\ UNCHANGED <<pc, foreground_in, term, caught, tty, owner, job,
                       session, past>>

-----------------------------------------------------------------------------
(* main, as far as it touches the terminal.                                *)

CallSigcont(place) ==
    /\ pc' = place /\ calls' = <<Handler("0")>>
    /\ UNCHANGED <<foreground_in, term, kernel, session, past>>

InstallSignals == /\ Main("signals") /\ CallSigcont("context")
                  /\ caught' = Signals

\* xmp_create_context fails: exit(EXIT_FAILURE).
CreateContext ==
    /\ Main("context")
    /\ \/ Goto("frame") /\ UNCHANGED job
       \/ Goto("failed") /\ job' = "dead"
    /\ UNCHANGED <<tty, owner, pending, session, past>>

\* Mutant: the frame loop does not look who owns the terminal.
FrameNoPoll == /\ Main("frame") /\ Goto("command")
               /\ UNCHANGED <<kernel, session, past>>

\* One round of the frame loop, which ends when the playlist does.
Frame == /\ Main("frame") /\ CallSigcont("command") /\ UNCHANGED caught

LastFrame == Main("frame") /\ Goto("end") /\ UNCHANGED <<kernel, session, past>>

\* Mutant: the keys are read whoever owns the terminal.
CommandAnyway == Main("command") /\ Goto("read")
                 /\ UNCHANGED <<kernel, session, past>>

Command == /\ Main("command")
           /\ Goto(IF foreground_in THEN "read" ELSE "check_pause")
           /\ UNCHANGED <<kernel, session, past>>

\* After a key the module may be paused; the pause prompt reads again and
\* again, and does not look at foreground_in.
AfterKey == \/ pc = "read" /\ Goto("check_pause")
            \/ Goto("paused")
            \/ pc = "paused" /\ Goto("frame")

\* VMIN and VTIME are zero, so that read returns at once.
ReadKey ==
    /\ \E place \in {"read", "paused"} : Main(place)
    /\ \/ owner = "job" /\ tty # "cooked" /\ AfterKey
          /\ UNCHANGED <<kernel, session, past>>
       \/ owner = "shell" /\ Refused

CheckPause == /\ Main("check_pause") /\ Goto("frame")
              /\ UNCHANGED <<kernel, session, past>>

\* The last look at foreground_in.
End == /\ Main("end")
       /\ Goto(IF foreground_in THEN "reset" ELSE "deinit")
       /\ UNCHANGED <<kernel, session, past>>

LastReset ==
    /\ Main("reset")
    /\ \/ /\ owner = "job"
          /\ tty' = term /\ Goto("deinit")
          /\ UNCHANGED <<owner, job, pending, session, past>>
       \/ owner = "shell" /\ Refused

\* sound->deinit(), and main returns.
Exit == /\ Main("deinit") /\ Goto("done") /\ job' = "dead"
        /\ UNCHANGED <<tty, owner, pending, session, past>>

-----------------------------------------------------------------------------
(* The user and the shell.                                                 *)

\* Control-Z at a terminal that makes signals of such keys.
Suspend ==
    /\ job = "running" /\ owner = "job" /\ isatty /\ tty # "zero"
    /\ pending' = (pending \ {"CONT"}) \union {"TSTP"}
    /\ UNCHANGED <<program, tty, owner, job, session, past>>

Terminate ==
    /\ job # "dead"
    /\ \E sig \in Fatal \ pending : pending' = pending \union {sig}
    /\ past' = past \union {"terminated"}
    /\ UNCHANGED <<program, tty, owner, job, session>>

\* The job has stopped: the shell takes the terminal.
TakeTerminal ==
    /\ job = "stopped" /\ owner = "job"
    /\ owner' = "shell" /\ tty' = "cooked"
    /\ tmodes' = IF shell = "keeping" THEN tty ELSE tmodes
    /\ UNCHANGED <<program, job, pending, isatty, shell, past>>

Resume == pending' = (pending \ {"TSTP"}) \union {"CONT"} /\ job' = "running"

Fg ==
    /\ job # "dead" /\ owner = "shell"
    /\ owner' = "job"
    /\ tty' = IF job = "stopped" /\ tmodes # "none" THEN tmodes ELSE tty
    /\ \/ Resume
       \/ job = "running" /\ UNCHANGED <<pending, job>>
    /\ UNCHANGED <<program, session, past>>

Bg == /\ job = "stopped" /\ owner = "shell"
      /\ Resume
      /\ past' = past \union {"background"}
      /\ UNCHANGED <<program, tty, owner, session>>

\* A terminal that is not raw gives the program a key only with a line.
TypeLine ==
    /\ \E place \in {"read", "paused"} : Main(place)
    /\ owner = "job" /\ tty = "cooked" /\ AfterKey
    /\ UNCHANGED <<kernel, session, past>>

-----------------------------------------------------------------------------
Deliver == \E sig \in Signals : Catch(sig) \/ DefaultAction(sig)

Sigcont == OldIn \/ Foreground \/ TcGetAttr \/ TcSetAttr \/ Install
Cleanup == SigDfl \/ ResetTty \/ Kill
MainStep == InstallSignals \/ CreateContext \/ Frame \/ LastFrame \/ Command
            \/ ReadKey \/ CheckPause \/ End \/ LastReset \/ Exit
Step == Deliver \/ Sigcont \/ Cleanup \/ MainStep
User == Suspend \/ Terminate \/ TakeTerminal \/ Fg \/ Bg \/ TypeLine

Next == Step \/ User

\* The program and the kernel go on; nothing is asked of the user.
Spec == Init /\ [][Next]_vars /\ WF_vars(Step)

-----------------------------------------------------------------------------
TypeOK ==
    /\ pc \in Places /\ calls \in Seq(Call)
    /\ foreground_in \in BOOLEAN /\ term \in Attributes
    /\ caught \subseteq Signals /\ isatty \in BOOLEAN /\ tty \in Attributes
    /\ owner \in {"job", "shell"} /\ job \in {"running", "stopped", "dead"}
    /\ pending \subseteq Signals /\ shell \in Shells
    /\ tmodes \in Attributes \union {"none"}
    /\ past \subseteq {"stopped", "refused", "nested", "terminated", "background",
                      "hasty", "late"}

\* The commands get single keys: in the foreground, read_key only reads a
\* terminal that is raw (commands.c:113 relies on VMIN = 0).  This is so for a
\* job that was never stopped, started in the foreground or not, and, unless it
\* was continued in the background, under a shell that keeps the attributes of
\* a stopped job.  Otherwise sigcont_handler sees no change of foreground_in
\* and leaves the terminal cooked.
KeysFromRaw ==
    /\ Main("read") /\ owner = "job"
    /\ \/ past \intersect {"stopped", "refused"} = {}
       \/ shell = "keeping" /\ "background" \notin past
    => tty = "raw"

\* The terminal is left as it was found (main.c:652, cleanup), however set_tty,
\* job control and fatal signals interleave.  Not so when xmp_create_context
\* fails (main.c:377), when cleanup runs before anything was saved in term, and
\* when a stopped job was continued in the background or SIGCONT came inside
\* one of main's own calls, where set_tty may save the raw attributes it has
\* set itself (OnlyIfNotPrepared); nor when a second fatal signal, no longer
\* caught and not blocked, kills the program before the first cleanup has come
\* to the end of reset_tty ("hasty"), or SIGCONT brings the program into the
\* foreground behind its last look at foreground_in ("late").
LeftAsFound ==
    /\ job = "dead" /\ pc # "failed"
    /\ "terminated" \in past => term # "zero"
    /\ past \intersect {"background", "nested", "hasty", "late"} = {}
    => tty = "cooked"

\* A program started in the background plays on: nothing it does with the
\* terminal stops it, unless it was terminated, or stopped before.
BackgroundPlays ==
    "refused" \in past =>
        past \intersect {"terminated", "background", "stopped"} # {}

\* The comment of main.c:97, "Only call if it was not already prepared": set_tty
\* never takes the raw attributes for those to restore.
OnlyIfNotPrepared ==
    job = "running" /\ In("tcgetattr") => tty # "raw"

\* A fatal signal ends the program, or job control stops it: cleanup does not
\* catch its own signal for ever.
SignalEnds == pending \intersect Fatal # {} ~> job # "running"

\* A job brought to the foreground while it plays listens to its keys again,
\* although the shell need not send it a signal.
Listens ==
    (isatty /\ owner = "job" /\ pc \in {"frame", "command"}) ~>
        (foreground_in \/ job # "running" \/ pc = "end" \/ owner = "shell")

=============================================================================
