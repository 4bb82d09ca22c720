---------------------------- MODULE TerminalProofs ----------------------------
(***************************************************************************)
(* Proofs about Terminal, for every kind of shell, any set of fatal signals *)
(* and any number of them.  The invariant has a part for each thing that the interleaving *)
(* of main, sigcont_handler, cleanup and the shell could break: the stack  *)
(* of calls (StackInv), who still has to act on a fatal signal (SignalInv), term  *)
(* before it is assigned (ZeroInv), who has the terminal (FrontInv), what  *)
(* attributes it has (RawInv), and what is saved of them (LeftInv).        *)
(***************************************************************************)
EXTENDS Terminal, SequenceTheorems, TLAPS

\* The calls above a state of main, and what they are about to do.
Has(places) == \E i \in DOMAIN calls : calls[i].at \in places
Preparing   == Has({"tcgetattr", "tcsetattr"})

\* The default action of a fatal signal comes next.
Doomed == \E sig \in Fatal : sig \in Deliverable /\ sig \notin caught

\* cleanup has given the terminal back, or it will not; the signal is left.
Ending == Has({"kill"}) \/ (Doomed /\ ~Restoring)

\* The attributes the job sees when it has the terminal next.
Set == IF owner = "shell" /\ tmodes # "none" THEN tmodes ELSE tty

Unstopped == past \intersect {"stopped", "refused"} = {}
Ahead     == past \intersect {"background", "nested", "hasty", "late"} = {}
Kept      == Unstopped \/ (shell = "keeping" /\ "background" \notin past)

\* No signal is handled twice at a time, one cleanup at a time is past its
\* first loop, and sigcont_handler runs above something, or behind the last
\* look at foreground_in, only if that is in the history.
StackInv ==
    /\ \A i \in DOMAIN calls, j \in DOMAIN calls :
         /\ calls[i].sig = calls[j].sig => i = j
         /\ calls[i].at \in {"reset_tty", "kill"} /\ calls[j].sig \in Fatal => j <= i
    /\ \A i \in DOMAIN calls :
         /\ calls[i].sig = "0" => i = 1
         /\ calls[i].sig \in Fatal <=> calls[i].at \in {"default", "reset_tty", "kill"}
         /\ calls[i].at = "tcsetattr" => calls[i].t # "cooked"
         /\ calls[i].sig \notin Fatal =>
              /\ "nested" \in past \/ i = 1
              /\ "late" \in past \/ pc # "deinit"

\* A fatal signal is followed by cleanup or by the end of the job.
SignalInv ==
    /\ pc = "signals" => calls = <<>> /\ term = "zero" /\ ~foreground_in /\ caught = {}
    /\ (\E i \in DOMAIN calls : calls[i].sig \in Fatal) \/ (\E sig \in Fatal : sig \in pending)
         => "terminated" \in past
    /\ Fatal \subseteq caught \/ Fatal \intersect caught = {}
    /\ job # "dead" /\ Has({"reset_tty", "kill"}) => Fatal \intersect caught = {}
    /\ job # "dead" /\ pc # "signals" =>
         Fatal \subseteq caught \/ Has({"reset_tty", "kill"}) \/ Doomed
    /\ foreground_in => isatty
    /\ job = "stopped" => ~Unstopped
    /\ tmodes # "none" => ~Unstopped /\ shell = "keeping"

\* Attributes nobody has saved come only from cleanup: main restores them only
\* after it has seen the foreground, and then they were saved.
ZeroInv ==
    job # "dead" /\ ~Ending =>
        /\ tty # "zero" /\ tmodes # "zero"
        /\ \A i \in DOMAIN calls : calls[i].at = "tcsetattr" => calls[i].t # "zero"
        /\ \/ term # "zero" \/ Has({"tcgetattr"})
           \/ /\ ~foreground_in
              /\ \A i \in DOMAIN calls : calls[i].at = "foreground" => ~calls[i].old_in
        /\ pc = "reset" => term # "zero"

\* A job that was never put in the background finds the terminal its own
\* whenever it runs after it has seen that it was.
FrontInv ==
    (Unstopped \/ "background" \notin past) /\ job # "dead" =>
        /\ owner = "shell" /\ (foreground_in \/ tmodes # "none") => job = "stopped"
        /\ Preparing \/ pc \in {"read", "paused", "reset"} => foreground_in
        /\ \A i \in DOMAIN calls :
             calls[i].at = "foreground" /\ calls[i].old_in => foreground_in

\* It is raw once set_tty is through, until main gives it back.
RawInv ==
    Kept /\ job # "dead" /\ pc # "deinit" =>
        /\ owner = "shell" /\ foreground_in => tmodes # "none"
        /\ foreground_in /\ ~Preparing => Set = "raw" \/ Ending

\* What set_tty saves is what the shell had, and comes back.
LeftInv ==
    Ahead /\ job # "dead" =>
        /\ term # "raw"
        /\ Ending => Set = "cooked" \/ term = "zero"
        /\ ~Ending /\ (~foreground_in \/ Preparing \/ pc = "deinit") => Set = "cooked"
        /\ foreground_in /\ ~Has({"tcgetattr"}) => term = "cooked"
        /\ \A i \in DOMAIN calls :
             calls[i].at = "foreground" => calls[i].old_in = foreground_in

TerminalInv ==
    /\ TypeOK /\ StackInv /\ SignalInv /\ ZeroInv /\ FrontInv /\ RawInv /\ LeftInv
    /\ LeftAsFound /\ BackgroundPlays

-----------------------------------------------------------------------------
\* The stack without its top.
LEMMA FrontOf ==
  ASSUME NEW s \in Seq(Call), s # <<>>
  PROVE  /\ Len(s) \in Nat \ {0} /\ Last(s) = s[Len(s)] /\ Last(s) \in Call
         /\ Front(s) \in Seq(Call) /\ Len(Front(s)) = Len(s) - 1
         /\ \A i \in 1 .. Len(s) - 1 : Front(s)[i] = s[i]
<1>1. PICK n \in Nat : n + 1 = Len(s) /\ DOMAIN s = 1 .. n + 1
  OBVIOUS
<1>2. \A i \in 1 .. n : s[i] \in Call
  BY <1>1
<1>3. /\ SubSeq(s, 1, n) \in Seq(Call) /\ Len(SubSeq(s, 1, n)) = n
      /\ \A i \in 1 .. n : SubSeq(s, 1, n)[i] = s[i]
  BY <1>1, <1>2, SubSeqProperties
<1> QED
  BY <1>1, <1>3 DEF Front, Last

\* A step keeps all of it.
LEMMA TerminalStep == TerminalInv /\ [Next]_vars => TerminalInv'
<1> SUFFICES ASSUME TerminalInv, [Next]_vars PROVE TerminalInv'
  OBVIOUS
<1> USE DEF Has, Preparing, Doomed, Ending, Restoring, Set, Unstopped, Ahead, Kept,
            Deliverable, Blocked, Runs, Main, In, Goto, Attributes, program, kernel, session
<1>1. /\ TypeOK /\ StackInv /\ SignalInv /\ ZeroInv /\ FrontInv /\ RawInv /\ LeftInv
      /\ LeftAsFound /\ BackgroundPlays
  BY DEF TerminalInv
<1>2. /\ calls \in Seq(Call) /\ DOMAIN calls = 1 .. Len(calls) /\ Len(calls) \in Nat
      /\ \A i \in 1 .. Len(calls) : calls[i] \in Call
  BY <1>1 DEF TypeOK
<1>3. ASSUME calls # <<>>
      PROVE  /\ Len(calls) \in DOMAIN calls /\ Last(calls) = calls[Len(calls)]
             /\ Last(calls) \in Call /\ Last(calls).t \in Attributes
             /\ \A at \in {"old_in", "foreground", "tcgetattr", "tcsetattr", "signal",
                           "default", "reset_tty", "kill"} :
                  /\ At(at) \in Call /\ At(at).sig = Last(calls).sig
                  /\ At(at).at = at /\ At(at).old_in = FALSE /\ At(at).t = "zero"
  <2>1. /\ Len(calls) \in Nat \ {0} /\ Last(calls) = calls[Len(calls)] /\ Last(calls) \in Call
    BY <1>2, <1>3, FrontOf
  <2>2. Last(calls).sig \in Fatal \union {"0", "CONT"} /\ Last(calls).t \in Attributes
    BY <2>1 DEF Call
  <2> QED
    BY <1>2, <2>1, <2>2 DEF Call, At
<1>4. ASSUME NEW c \in Call, calls # <<>>, Continue(c)
      PROVE  /\ calls' \in Seq(Call) /\ DOMAIN calls' = DOMAIN calls
             /\ \A i \in DOMAIN calls : calls'[i] = IF i = Len(calls) THEN c ELSE calls[i]
  <2>1. PICK s, f, a : /\ s = calls /\ f = Front(calls) /\ a = calls'
                       /\ s \in Seq(Call) /\ s # <<>> /\ a = Append(f, c)
    BY <1>2, <1>4 DEF Continue
  <2>2. f \in Seq(Call) /\ Len(f) = Len(s) - 1 /\ \A i \in 1 .. Len(s) - 1 : f[i] = s[i]
    BY <1>2, <1>4, <2>1, FrontOf
  <2>3. /\ a \in Seq(Call) /\ DOMAIN a = DOMAIN s
        /\ \A i \in DOMAIN s : a[i] = IF i = Len(s) THEN c ELSE s[i]
    BY <2>1, <2>2
  <2> QED
    BY <2>1, <2>3
<1>5. ASSUME calls # <<>>, Return
      PROVE  /\ calls' \in Seq(Call) /\ DOMAIN calls' = 1 .. Len(calls) - 1
             /\ \A i \in 1 .. Len(calls) - 1 : calls'[i] = calls[i]
  BY <1>2, <1>5, FrontOf DEF Return
<1>6. ASSUME NEW sig \in Fatal \union {"0", "CONT"}
      PROVE  /\ Handler(sig) \in Call
             /\ Handler(sig) = [sig |-> sig, old_in |-> FALSE, t |-> "zero",
                                at |-> IF sig \in Fatal THEN "default" ELSE "old_in"]
  BY DEF Handler, Call
<1>7. "0" \notin Fatal /\ "CONT" \notin Fatal /\ "TSTP" \notin Fatal
  BY TerminalAssumption
<1>8. CASE UNCHANGED vars
  <2>1. TypeOK' /\ StackInv' /\ SignalInv' /\ ZeroInv'
    BY <1>1, <1>2, <1>7, <1>8 DEF TypeOK, Places, Signals, StackInv, SignalInv, ZeroInv, vars
  <2>2. FrontInv' /\ RawInv' /\ LeftInv'
    BY <1>1, <1>2, <1>7, <1>8
    DEF TypeOK, StackInv, SignalInv, ZeroInv, FrontInv, RawInv, LeftInv, vars
  <2>3. LeftAsFound' /\ BackgroundPlays'
    BY <1>1, <1>2, <1>7, <1>8
    DEF TypeOK, StackInv, SignalInv, FrontInv, LeftInv, LeftAsFound,
        BackgroundPlays, vars
  <2> QED
    BY <2>1, <2>2, <2>3 DEF TerminalInv
<1>9. CASE \E sig \in Signals : Catch(sig)
  <2>1. PICK sig \in Signals : Catch(sig)
    BY <1>9
  <2>2. sig # "TSTP" => /\ Append(calls, Handler(sig)) = calls'
                       /\ Handler(sig) \in Call
                       /\ Handler(sig) = [sig |-> sig, old_in |-> FALSE, t |-> "zero",
                                          at |-> IF sig \in Fatal THEN "default" ELSE "old_in"]
    BY <1>6, <2>1 DEF Catch, Signals
  <2>3. ASSUME sig # "TSTP"
        PROVE  /\ calls' \in Seq(Call) /\ DOMAIN calls' = 1 .. Len(calls) + 1
               /\ calls'[Len(calls) + 1] = Handler(sig)
               /\ \A i \in DOMAIN calls : calls'[i] = calls[i]
    <3>1. PICK s, c, a : /\ s = calls /\ c = Handler(sig) /\ a = calls'
                         /\ s \in Seq(Call) /\ c \in Call /\ a = Append(s, c)
      BY <1>2, <2>2, <2>3
    <3>2. /\ a \in Seq(Call) /\ DOMAIN a = 1 .. Len(s) + 1 /\ a[Len(s) + 1] = c
          /\ \A i \in DOMAIN s : a[i] = s[i]
      BY <3>1
    <3> QED
      BY ZenonT(30), SMTT(30), <3>1, <3>2
  <2>4. sig = "TSTP" => calls' = calls
    BY <2>1 DEF Catch
  <2>5. calls' \in Seq(Call)
    BY <1>2, <2>3, <2>4
  <2>6. StackInv'
    <3>1. CASE sig = "TSTP"
      BY <1>1, <2>1, <2>4, <3>1 DEF StackInv, Catch
    <3>2. CASE sig # "TSTP"
      <4>1. /\ calls'[Len(calls) + 1].sig = sig /\ calls'[Len(calls) + 1].t = "zero"
            /\ calls'[Len(calls) + 1].at = IF sig \in Fatal THEN "default" ELSE "old_in"
        BY <2>2, <2>3, <3>2
      <4>2. \A i \in DOMAIN calls : calls[i].sig # sig
        BY <2>1 DEF Catch
      <4>3. sig \in Fatal => \A i \in DOMAIN calls : calls[i].at \notin {"reset_tty", "kill"}
        BY <1>1, <2>1 DEF SignalInv, Catch
      <4>4. /\ sig \in Fatal \union {"CONT"} /\ sig # "0"
            /\ past \subseteq past' /\ pc' = pc
            /\ sig = "CONT" => (calls = <<>> \/ "nested" \in past')
                               /\ (pc # "deinit" \/ "late" \in past')
        BY <1>7, <2>1, <3>2 DEF Catch, Signals
      <4> QED
        BY <1>1, <1>2, <1>7, <2>3, <3>2, <4>1, <4>2, <4>3, <4>4 DEF StackInv
    <3> QED
      BY <3>1, <3>2
  <2>7. TypeOK'
    <3>1. /\ caught' \subseteq Signals /\ pending' \subseteq Signals
          /\ past' \subseteq {"stopped", "refused", "nested", "terminated", "background",
                            "hasty", "late"}
      BY <1>1, <2>1 DEF TypeOK, Catch
    <3> QED
      BY <1>1, <2>1, <2>5, <2>6, <3>1 DEF TypeOK, Catch
  <2>8. SignalInv' /\ ZeroInv'
    BY SMTT(30), <1>1, <1>2, <1>7, <2>1, <2>2, <2>3, <2>4, <2>5
    DEF TypeOK, StackInv, SignalInv, ZeroInv, Catch, Signals
  <2>9. FrontInv' /\ RawInv' /\ LeftInv'
    BY SMTT(30), <1>1, <1>2, <1>7, <2>1, <2>2, <2>3, <2>4, <2>5
    DEF TypeOK, StackInv, SignalInv, ZeroInv, FrontInv, RawInv, LeftInv, Catch,
        Signals
  <2>10. LeftAsFound' /\ BackgroundPlays'
    BY <1>1, <1>2, <1>7, <2>1, <2>2, <2>3, <2>4, <2>5
    DEF TypeOK, StackInv, SignalInv, FrontInv, LeftInv, LeftAsFound,
        BackgroundPlays, Catch, Signals
  <2> QED
    BY <2>6, <2>7, <2>8, <2>9, <2>10 DEF TerminalInv
<1>10. CASE \E sig \in Signals : DefaultAction(sig)
  <2>1. PICK sig \in Signals : DefaultAction(sig)
    BY <1>10
  <2>2. TypeOK' /\ StackInv' /\ SignalInv' /\ ZeroInv'
    BY <1>1, <1>2, <1>7, <2>1
    DEF TypeOK, Places, Signals, StackInv, SignalInv, ZeroInv, DefaultAction
  <2>3. FrontInv' /\ RawInv' /\ LeftInv'
    BY <1>1, <1>2, <1>7, <2>1
    DEF TypeOK, StackInv, SignalInv, ZeroInv, FrontInv, RawInv, LeftInv,
        DefaultAction, Signals
  <2>4. LeftAsFound' /\ BackgroundPlays'
    BY <1>1, <1>2, <1>7, <2>1
    DEF TypeOK, StackInv, SignalInv, FrontInv, LeftInv, LeftAsFound,
        BackgroundPlays, DefaultAction, Signals
  <2> QED
    BY <2>2, <2>3, <2>4 DEF TerminalInv
<1>11. CASE OldIn
  <2> DEFINE c == [At("foreground") EXCEPT !.old_in = foreground_in]
  <2>1. calls # <<>> /\ Continue(c)
    BY <1>11 DEF OldIn
  <2>2. c \in Call /\ c.sig = Last(calls).sig
        /\ c.at = "foreground" /\ c.old_in = foreground_in
    BY SMTT(30), <1>1, <1>3, <2>1 DEF TypeOK, Call
  <2>3. /\ Len(calls) \in DOMAIN calls /\ Last(calls) = calls[Len(calls)]
        /\ calls' \in Seq(Call) /\ DOMAIN calls' = DOMAIN calls
        /\ \A i \in DOMAIN calls : calls'[i] = IF i = Len(calls) THEN c ELSE calls[i]
    BY <1>3, <1>4, <2>1, <2>2
  <2> HIDE DEF c
  <2>4. StackInv'
    BY <1>1, <1>2, <1>7, <1>11, <2>2, <2>3 DEF StackInv, OldIn
  <2>5. TypeOK'
    BY <1>1, <1>2, <1>7, <2>4, <1>11, <2>2, <2>3 DEF TypeOK, Places, Signals, OldIn
  <2>6. SignalInv' /\ ZeroInv'
    BY SMTT(30), <1>1, <1>2, <1>7, <1>11, <2>2, <2>3 DEF TypeOK, StackInv, SignalInv, ZeroInv, OldIn
  <2>7. FrontInv' /\ RawInv' /\ LeftInv'
    BY <1>1, <1>2, <1>7, <1>11, <2>2, <2>3
    DEF TypeOK, StackInv, SignalInv, ZeroInv, FrontInv, RawInv, LeftInv, OldIn
  <2>8. LeftAsFound' /\ BackgroundPlays'
    BY <1>1, <1>2, <1>7, <1>11, <2>2, <2>3
    DEF TypeOK, StackInv, SignalInv, FrontInv, LeftInv, LeftAsFound,
        BackgroundPlays, OldIn
  <2> QED
    BY <2>4, <2>5, <2>6, <2>7, <2>8 DEF TerminalInv
<1>12. CASE Foreground
  <2> DEFINE c == At(IF foreground_in' # Last(calls).old_in THEN "tcgetattr" ELSE "signal")
  <2>1. calls # <<>> /\ Continue(c)
    BY <1>12 DEF Foreground
  <2>2. c \in Call /\ c.sig = Last(calls).sig
        /\ c.at = IF foreground_in' # Last(calls).old_in THEN "tcgetattr" ELSE "signal"
    BY <1>3, <2>1
  <2>3. /\ Len(calls) \in DOMAIN calls /\ Last(calls) = calls[Len(calls)]
        /\ calls' \in Seq(Call) /\ DOMAIN calls' = DOMAIN calls
        /\ \A i \in DOMAIN calls : calls'[i] = IF i = Len(calls) THEN c ELSE calls[i]
    BY <1>3, <1>4, <2>1, <2>2
  <2> HIDE DEF c
  <2>4. (Unstopped \/ "background" \notin past) /\ job # "dead" =>
           (foreground_in \/ Last(calls).old_in => foreground_in')
    BY <1>1, <2>3, <1>12 DEF Foreground, FrontInv, SignalInv, TypeOK
  <2>5. StackInv'
    BY <1>1, <1>2, <1>7, <1>12, <2>2, <2>3, <2>4 DEF StackInv, Foreground
  <2>6. TypeOK'
    BY <1>1, <1>2, <1>7, <2>5, <1>12, <2>2, <2>3, <2>4
    DEF TypeOK, Places, Signals, Foreground
  <2>7. SignalInv'
    BY <1>1, <1>2, <1>7, <1>12, <2>2, <2>3, <2>4 DEF TypeOK, StackInv, SignalInv, Foreground
  <2>8. ZeroInv'
    BY <1>1, <1>2, <1>7, <1>12, <2>2, <2>3, <2>4
    DEF TypeOK, StackInv, SignalInv, ZeroInv, Foreground
  <2>9. FrontInv'
    <3> SUFFICES ASSUME Unstopped \/ "background" \notin past, job # "dead"
                 PROVE  /\ owner' = "shell" /\ (foreground_in' \/ tmodes' # "none") => job' = "stopped"
                        /\ Preparing' \/ pc' \in {"read", "paused", "reset"} => foreground_in'
                        /\ \A i \in DOMAIN calls' :
                             calls'[i].at = "foreground" /\ calls'[i].old_in => foreground_in'
      BY <1>12 DEF FrontInv, Foreground
    <3>1. foreground_in \/ Last(calls).old_in => foreground_in'
      BY <2>4
    <3>2. owner' = "shell" /\ (foreground_in' \/ tmodes' # "none") => job' = "stopped"
      BY <1>1, <1>12 DEF FrontInv, Foreground
    <3>3. pc' \in {"read", "paused", "reset"} => foreground_in'
      BY <1>1, <1>12, <3>1 DEF FrontInv, Foreground
    <3>4. ASSUME NEW i \in DOMAIN calls, i # Len(calls)
          PROVE  /\ calls'[i].at \in {"tcgetattr", "tcsetattr"} => foreground_in'
                 /\ calls'[i].at = "foreground" /\ calls'[i].old_in => foreground_in'
      BY <1>1, <2>3, <3>1, <3>4 DEF FrontInv
    <3>5. /\ calls'[Len(calls)].at \in {"tcgetattr", "tcsetattr"} => foreground_in'
          /\ calls'[Len(calls)].at # "foreground"
      <4>1. Last(calls).old_in \in BOOLEAN /\ foreground_in' \in BOOLEAN
        BY <1>3, <1>12 DEF Call, Foreground
      <4>2. /\ calls'[Len(calls)].at = "foreground" => FALSE
            /\ calls'[Len(calls)].at = "tcsetattr" => FALSE
            /\ calls'[Len(calls)].at = "tcgetattr" => foreground_in' # Last(calls).old_in
        BY <2>2, <2>3
      <4> QED
        BY <3>1, <4>1, <4>2
    <3> QED
      BY <2>3, <3>2, <3>3, <3>4, <3>5
  <2>10. RawInv'
    BY <1>1, <1>2, <1>7, <1>12, <2>2, <2>3, <2>4
    DEF TypeOK, StackInv, SignalInv, ZeroInv, FrontInv, RawInv, Foreground
  <2>11. LeftInv'
    BY <1>1, <1>2, <1>7, <1>12, <2>2, <2>3, <2>4
    DEF TypeOK, StackInv, SignalInv, FrontInv, LeftInv, Foreground
  <2>12. LeftAsFound' /\ BackgroundPlays'
    BY <1>1, <1>2, <1>7, <1>12, <2>2, <2>3, <2>4
    DEF TypeOK, StackInv, SignalInv, FrontInv, LeftInv, LeftAsFound,
        BackgroundPlays, Foreground
  <2> QED
    BY <2>5, <2>6, <2>7, <2>8, <2>9, <2>10, <2>11, <2>12 DEF TerminalInv
<1>13. CASE TcGetAttr
  <2> DEFINE c == [At("tcsetattr") EXCEPT !.t = Raw(tty)]
  <2>1. calls # <<>> /\ Continue(c)
    BY <1>13 DEF TcGetAttr
  <2>2. c \in Call /\ c.sig = Last(calls).sig
        /\ c.at = "tcsetattr" /\ c.t = Raw(tty)
    BY <1>1, <1>3, <2>1 DEF TypeOK, Call, Raw
  <2>3. /\ Len(calls) \in DOMAIN calls /\ Last(calls) = calls[Len(calls)]
        /\ calls' \in Seq(Call) /\ DOMAIN calls' = DOMAIN calls
        /\ \A i \in DOMAIN calls : calls'[i] = IF i = Len(calls) THEN c ELSE calls[i]
    BY <1>3, <1>4, <2>1, <2>2
  <2> HIDE DEF c
  <2>4. StackInv'
    BY <1>1, <1>2, <1>7, <1>13, <2>2, <2>3 DEF StackInv, TcGetAttr, Raw
  <2>5. TypeOK'
    BY <1>1, <1>2, <1>7, <2>4, <1>13, <2>2, <2>3 DEF TypeOK, Places, Signals, TcGetAttr, Raw
  <2>6. SignalInv' /\ ZeroInv'
    BY SMTT(30), <1>1, <1>2, <1>7, <1>13, <2>2, <2>3
    DEF TypeOK, StackInv, SignalInv, ZeroInv, TcGetAttr, Raw
  <2>7. FrontInv' /\ RawInv' /\ LeftInv'
    BY <1>1, <1>2, <1>7, <1>13, <2>2, <2>3
    DEF TypeOK, StackInv, SignalInv, ZeroInv, FrontInv, RawInv, LeftInv, TcGetAttr,
        Raw
  <2>8. LeftAsFound' /\ BackgroundPlays'
    BY <1>1, <1>2, <1>7, <1>13, <2>2, <2>3
    DEF TypeOK, StackInv, SignalInv, FrontInv, LeftInv, LeftAsFound,
        BackgroundPlays, TcGetAttr, Raw
  <2> QED
    BY <2>4, <2>5, <2>6, <2>7, <2>8 DEF TerminalInv
<1>14. CASE SigDfl
  <2> DEFINE c == At("reset_tty")
  <2>1. calls # <<>> /\ Continue(c)
    BY <1>14 DEF SigDfl
  <2>2. c \in Call /\ c.sig = Last(calls).sig
        /\ c.at = "reset_tty"
    BY <1>3, <2>1
  <2>3. /\ Len(calls) \in DOMAIN calls /\ Last(calls) = calls[Len(calls)]
        /\ calls' \in Seq(Call) /\ DOMAIN calls' = DOMAIN calls
        /\ \A i \in DOMAIN calls : calls'[i] = IF i = Len(calls) THEN c ELSE calls[i]
    BY <1>3, <1>4, <2>1, <2>2
  <2> HIDE DEF c
  <2>4. StackInv'
    BY <1>1, <1>2, <1>7, <1>14, <2>2, <2>3 DEF StackInv, SigDfl
  <2>5. TypeOK'
    BY <1>1, <1>2, <1>7, <2>4, <1>14, <2>2, <2>3 DEF TypeOK, Places, Signals, SigDfl
  <2>6. SignalInv' /\ ZeroInv'
    BY <1>1, <1>2, <1>7, <1>14, <2>2, <2>3 DEF TypeOK, StackInv, SignalInv, ZeroInv, SigDfl
  <2>7. FrontInv' /\ RawInv' /\ LeftInv'
    BY <1>1, <1>2, <1>7, <1>14, <2>2, <2>3
    DEF TypeOK, StackInv, SignalInv, ZeroInv, FrontInv, RawInv, LeftInv, SigDfl
  <2>8. LeftAsFound' /\ BackgroundPlays'
    BY <1>1, <1>2, <1>7, <1>14, <2>2, <2>3
    DEF TypeOK, StackInv, SignalInv, FrontInv, LeftInv, LeftAsFound,
        BackgroundPlays, SigDfl
  <2> QED
    BY <2>4, <2>5, <2>6, <2>7, <2>8 DEF TerminalInv
<1>15. CASE Install
  <2>1. calls # <<>> /\ Return
    BY <1>15 DEF Install
  <2>2. /\ Len(calls) \in DOMAIN calls /\ Last(calls) = calls[Len(calls)]
        /\ calls' \in Seq(Call) /\ DOMAIN calls' = 1 .. Len(calls) - 1
        /\ \A i \in DOMAIN calls' : i \in DOMAIN calls /\ calls'[i] = calls[i]
        /\ \A i \in DOMAIN calls : i = Len(calls) \/ i \in DOMAIN calls'
    BY <1>2, <1>3, <1>5, <2>1
  <2>3. StackInv'
    BY <1>1, <1>2, <1>7, <1>15, <2>2 DEF StackInv, Install
  <2>4. TypeOK'
    BY <1>1, <1>2, <1>7, <2>3, <1>15, <2>2 DEF TypeOK, Places, Signals, Install
  <2>5. SignalInv' /\ ZeroInv'
    BY <1>1, <1>2, <1>7, <1>15, <2>2 DEF TypeOK, StackInv, SignalInv, ZeroInv, Install
  <2>6. FrontInv' /\ RawInv' /\ LeftInv'
    BY <1>1, <1>2, <1>7, <1>15, <2>2
    DEF TypeOK, StackInv, SignalInv, ZeroInv, FrontInv, RawInv, LeftInv, Install
  <2>7. LeftAsFound' /\ BackgroundPlays'
    BY <1>1, <1>2, <1>7, <1>15, <2>2
    DEF TypeOK, StackInv, SignalInv, FrontInv, LeftInv, LeftAsFound,
        BackgroundPlays, Install
  <2> QED
    BY <2>3, <2>4, <2>5, <2>6, <2>7 DEF TerminalInv
<1>16. CASE Kill
  <2>1. calls # <<>> /\ Return
    BY <1>16 DEF Kill
  <2>2. /\ Len(calls) \in DOMAIN calls /\ Last(calls) = calls[Len(calls)]
        /\ calls' \in Seq(Call) /\ DOMAIN calls' = 1 .. Len(calls) - 1
        /\ \A i \in DOMAIN calls' : i \in DOMAIN calls /\ calls'[i] = calls[i]
        /\ \A i \in DOMAIN calls : i = Len(calls) \/ i \in DOMAIN calls'
    BY <1>2, <1>3, <1>5, <2>1
  <2>3. StackInv'
    BY <1>1, <1>2, <1>7, <1>16, <2>2 DEF StackInv, Kill
  <2>4. TypeOK'
    <3>1. Last(calls).sig \in Fatal
      BY <1>1, <1>16, <2>2 DEF StackInv, Kill
    <3> QED
      BY <1>1, <1>2, <1>7, <2>3, <1>16, <2>2, <3>1 DEF TypeOK, Places, Signals, Kill
  <2>5. SignalInv' /\ ZeroInv'
    BY <1>1, <1>2, <1>7, <1>16, <2>2 DEF TypeOK, StackInv, SignalInv, ZeroInv, Kill
  <2>6. FrontInv' /\ RawInv' /\ LeftInv'
    BY <1>1, <1>2, <1>7, <1>16, <2>2
    DEF TypeOK, StackInv, SignalInv, ZeroInv, FrontInv, RawInv, LeftInv, Kill
  <2>7. LeftAsFound' /\ BackgroundPlays'
    BY <1>1, <1>2, <1>7, <1>16, <2>2
    DEF TypeOK, StackInv, SignalInv, FrontInv, LeftInv, LeftAsFound,
        BackgroundPlays, Kill
  <2> QED
    BY <2>3, <2>4, <2>5, <2>6, <2>7 DEF TerminalInv
<1>17. CASE TcSetAttr /\ ~Refused
  <2> DEFINE c == At("signal")
  <2>1. calls # <<>> /\ ~Refused /\ Continue(c) /\ Last(calls).t \in Attributes
    BY <1>3, <1>17 DEF TcSetAttr
  <2>2. c \in Call /\ c.sig = Last(calls).sig /\ c.at = "signal"
    BY <1>3, <2>1
  <2>3. /\ Len(calls) \in DOMAIN calls /\ Last(calls) = calls[Len(calls)]
        /\ calls' \in Seq(Call) /\ DOMAIN calls' = DOMAIN calls
        /\ \A i \in DOMAIN calls : calls'[i] = IF i = Len(calls) THEN c ELSE calls[i]
    BY <1>3, <1>4, <2>1, <2>2
  <2> HIDE DEF c
  <2>4. StackInv'
    BY <1>1, <1>2, <1>7, <1>17, <2>1, <2>2, <2>3 DEF StackInv, TcSetAttr
  <2>5. TypeOK'
    BY SMTT(30), ZenonT(30), <1>1, <1>2, <1>7, <2>4, <1>17, <2>1, <2>2, <2>3
    DEF TypeOK, Places, Signals, TcSetAttr
  <2>6. SignalInv' /\ ZeroInv'
    BY SMTT(30), <1>1, <1>2, <1>7, <1>17, <2>1, <2>2, <2>3
    DEF TypeOK, StackInv, SignalInv, ZeroInv, TcSetAttr
  <2>7. FrontInv' /\ RawInv' /\ LeftInv'
    BY <1>1, <1>2, <1>7, <1>17, <2>1, <2>2, <2>3
    DEF TypeOK, StackInv, SignalInv, ZeroInv, FrontInv, RawInv, LeftInv, TcSetAttr
  <2>8. LeftAsFound' /\ BackgroundPlays'
    BY <1>1, <1>2, <1>7, <1>17, <2>1, <2>2, <2>3
    DEF TypeOK, StackInv, SignalInv, FrontInv, LeftInv, LeftAsFound,
        BackgroundPlays, TcSetAttr
  <2> QED
    BY <2>4, <2>5, <2>6, <2>7, <2>8 DEF TerminalInv
<1>18. CASE ResetTty /\ ~Refused
  <2> DEFINE c == At("kill")
  <2>1. calls # <<>> /\ ~Refused /\ Continue(c) /\ Last(calls).t \in Attributes
    BY <1>3, <1>18 DEF ResetTty
  <2>2. c \in Call /\ c.sig = Last(calls).sig /\ c.at = "kill"
    BY <1>3, <2>1
  <2>3. /\ Len(calls) \in DOMAIN calls /\ Last(calls) = calls[Len(calls)]
        /\ calls' \in Seq(Call) /\ DOMAIN calls' = DOMAIN calls
        /\ \A i \in DOMAIN calls : calls'[i] = IF i = Len(calls) THEN c ELSE calls[i]
    BY <1>3, <1>4, <2>1, <2>2
  <2> HIDE DEF c
  <2>4. StackInv'
    BY <1>1, <1>2, <1>7, <1>18, <2>1, <2>2, <2>3 DEF StackInv, ResetTty
  <2>5. TypeOK'
    <3>1. tty' \in Attributes /\ calls' \in Seq(Call)
      BY <1>1, <1>18, <2>1, <2>3 DEF TypeOK, ResetTty
    <3>2. UNCHANGED <<pc, foreground_in, term, caught, isatty, owner, job, pending,
                      shell, tmodes, past>>
      BY <1>18, <2>1 DEF ResetTty
    <3> QED
      BY <1>1, <3>1, <3>2 DEF TypeOK
  <2>6. SignalInv' /\ ZeroInv'
    BY <1>1, <1>2, <1>7, <1>18, <2>1, <2>2, <2>3
    DEF TypeOK, StackInv, SignalInv, ZeroInv, ResetTty
  <2>7. FrontInv' /\ RawInv' /\ LeftInv'
    BY <1>1, <1>2, <1>7, <1>18, <2>1, <2>2, <2>3
    DEF TypeOK, StackInv, SignalInv, ZeroInv, FrontInv, RawInv, LeftInv, ResetTty
  <2>8. LeftAsFound' /\ BackgroundPlays'
    BY <1>1, <1>2, <1>7, <1>18, <2>1, <2>2, <2>3
    DEF TypeOK, StackInv, SignalInv, FrontInv, LeftInv, LeftAsFound,
        BackgroundPlays, ResetTty
  <2> QED
    BY <2>4, <2>5, <2>6, <2>7, <2>8 DEF TerminalInv
<1>19. CASE (TcSetAttr \/ ResetTty \/ ReadKey \/ LastReset) /\ Refused
  <2>1. calls # <<>> => Len(calls) \in DOMAIN calls /\ Last(calls) = calls[Len(calls)]
    BY <1>3
  <2>2. TypeOK' /\ StackInv' /\ SignalInv' /\ ZeroInv'
    BY <1>1, <1>2, <1>7, <1>19, <2>1
    DEF TypeOK, Places, Signals, StackInv, SignalInv, ZeroInv, Refused, TcSetAttr,
        ResetTty, ReadKey, LastReset
  <2>3. FrontInv' /\ RawInv' /\ LeftInv'
    BY <1>1, <1>2, <1>7, <1>19, <2>1
    DEF TypeOK, StackInv, SignalInv, ZeroInv, FrontInv, RawInv, LeftInv, Refused,
        TcSetAttr, ResetTty, ReadKey, LastReset
  <2>4. LeftAsFound' /\ BackgroundPlays'
    BY <1>1, <1>2, <1>7, <1>19, <2>1
    DEF TypeOK, StackInv, SignalInv, FrontInv, LeftInv, LeftAsFound,
        BackgroundPlays, Refused, TcSetAttr, ResetTty, ReadKey, LastReset
  <2> QED
    BY <2>2, <2>3, <2>4 DEF TerminalInv
<1>20. CASE InstallSignals
  <2>1. calls = <<>> /\ calls' = <<Handler("0")>> /\ Handler("0") \in Call
    BY <1>6, <1>20 DEF InstallSignals, CallSigcont
  <2>2. /\ calls' \in Seq(Call) /\ DOMAIN calls' = 1 .. 1 /\ DOMAIN calls = {}
        /\ calls'[1] = Handler("0")
    BY <1>2, <2>1
  <2>3. Handler("0") = [sig |-> "0", old_in |-> FALSE, t |-> "zero", at |-> "old_in"]
    BY <1>6, <1>7
  <2>4. StackInv'
    BY <1>1, <1>2, <1>7, <1>20, <2>1, <2>2, <2>3
    DEF StackInv, CallSigcont, Signals, InstallSignals
  <2>5. TypeOK'
    BY <1>1, <1>2, <1>7, <2>4, <1>20, <2>1, <2>2, <2>3
    DEF TypeOK, Places, Signals, CallSigcont, InstallSignals
  <2>6. SignalInv' /\ ZeroInv'
    BY <1>1, <1>2, <1>7, <1>20, <2>1, <2>2, <2>3
    DEF TypeOK, StackInv, SignalInv, ZeroInv, CallSigcont, Signals, InstallSignals
  <2>7. FrontInv' /\ RawInv' /\ LeftInv'
    BY <1>1, <1>2, <1>7, <1>20, <2>1, <2>2, <2>3
    DEF TypeOK, StackInv, SignalInv, ZeroInv, FrontInv, RawInv, LeftInv,
        CallSigcont, Signals, InstallSignals
  <2>8. LeftAsFound' /\ BackgroundPlays'
    BY <1>1, <1>2, <1>7, <1>20, <2>1, <2>2, <2>3
    DEF TypeOK, StackInv, SignalInv, FrontInv, LeftInv, LeftAsFound,
        BackgroundPlays, CallSigcont, Signals, InstallSignals
  <2> QED
    BY <2>4, <2>5, <2>6, <2>7, <2>8 DEF TerminalInv
<1>21. CASE Frame
  <2>1. calls = <<>> /\ calls' = <<Handler("0")>> /\ Handler("0") \in Call
    BY <1>6, <1>21 DEF Frame, CallSigcont
  <2>2. /\ calls' \in Seq(Call) /\ DOMAIN calls' = 1 .. 1 /\ DOMAIN calls = {}
        /\ calls'[1] = Handler("0")
    BY <1>2, <2>1
  <2>3. Handler("0") = [sig |-> "0", old_in |-> FALSE, t |-> "zero", at |-> "old_in"]
    BY <1>6, <1>7
  <2>4. StackInv'
    BY <1>1, <1>2, <1>7, <1>21, <2>1, <2>2, <2>3 DEF StackInv, CallSigcont, Signals, Frame
  <2>5. TypeOK'
    BY <1>1, <1>2, <1>7, <2>4, <1>21, <2>1, <2>2, <2>3
    DEF TypeOK, Places, Signals, CallSigcont, Frame
  <2>6. SignalInv' /\ ZeroInv'
    BY <1>1, <1>2, <1>7, <1>21, <2>1, <2>2, <2>3
    DEF TypeOK, StackInv, SignalInv, ZeroInv, CallSigcont, Signals, Frame
  <2>7. FrontInv' /\ RawInv' /\ LeftInv'
    BY <1>1, <1>2, <1>7, <1>21, <2>1, <2>2, <2>3
    DEF TypeOK, StackInv, SignalInv, ZeroInv, FrontInv, RawInv, LeftInv,
        CallSigcont, Signals, Frame
  <2>8. LeftAsFound' /\ BackgroundPlays'
    BY <1>1, <1>2, <1>7, <1>21, <2>1, <2>2, <2>3
    DEF TypeOK, StackInv, SignalInv, FrontInv, LeftInv, LeftAsFound,
        BackgroundPlays, CallSigcont, Signals, Frame
  <2> QED
    BY <2>4, <2>5, <2>6, <2>7, <2>8 DEF TerminalInv
<1>22. CASE CreateContext
  <2>1. StackInv'
    BY <1>1, <1>2, <1>7, <1>22 DEF StackInv, CreateContext
  <2>2. TypeOK'
    BY <1>1, <1>2, <1>7, <2>1, <1>22 DEF TypeOK, Places, Signals, CreateContext
  <2>3. SignalInv' /\ ZeroInv'
    BY <1>1, <1>2, <1>7, <1>22 DEF TypeOK, StackInv, SignalInv, ZeroInv, CreateContext
  <2>4. FrontInv' /\ RawInv' /\ LeftInv'
    BY <1>1, <1>2, <1>7, <1>22
    DEF TypeOK, StackInv, SignalInv, ZeroInv, FrontInv, RawInv, LeftInv,
        CreateContext
  <2>5. LeftAsFound' /\ BackgroundPlays'
    BY <1>1, <1>2, <1>7, <1>22
    DEF TypeOK, StackInv, SignalInv, FrontInv, LeftInv, LeftAsFound,
        BackgroundPlays, CreateContext
  <2> QED
    BY <2>1, <2>2, <2>3, <2>4, <2>5 DEF TerminalInv
<1>23. CASE LastFrame
  <2>1. TypeOK' /\ StackInv' /\ SignalInv' /\ ZeroInv'
    BY <1>1, <1>2, <1>7, <1>23
    DEF TypeOK, Places, Signals, StackInv, SignalInv, ZeroInv, LastFrame
  <2>2. FrontInv' /\ RawInv' /\ LeftInv'
    BY <1>1, <1>2, <1>7, <1>23
    DEF TypeOK, StackInv, SignalInv, ZeroInv, FrontInv, RawInv, LeftInv, LastFrame
  <2>3. LeftAsFound' /\ BackgroundPlays'
    BY <1>1, <1>2, <1>7, <1>23
    DEF TypeOK, StackInv, SignalInv, FrontInv, LeftInv, LeftAsFound,
        BackgroundPlays, LastFrame
  <2> QED
    BY <2>1, <2>2, <2>3 DEF TerminalInv
<1>24. CASE Command
  <2>1. TypeOK' /\ StackInv' /\ SignalInv' /\ ZeroInv'
    BY <1>1, <1>2, <1>7, <1>24 DEF TypeOK, Places, Signals, StackInv, SignalInv, ZeroInv, Command
  <2>2. FrontInv' /\ RawInv' /\ LeftInv'
    BY <1>1, <1>2, <1>7, <1>24
    DEF TypeOK, StackInv, SignalInv, ZeroInv, FrontInv, RawInv, LeftInv, Command
  <2>3. LeftAsFound' /\ BackgroundPlays'
    BY <1>1, <1>2, <1>7, <1>24
    DEF TypeOK, StackInv, SignalInv, FrontInv, LeftInv, LeftAsFound,
        BackgroundPlays, Command
  <2> QED
    BY <2>1, <2>2, <2>3 DEF TerminalInv
<1>25. CASE ReadKey /\ ~Refused
  <2>1. StackInv'
    BY <1>1, <1>2, <1>7, <1>25 DEF StackInv, ReadKey, Refused, AfterKey
  <2>2. TypeOK'
    BY <1>1, <1>2, <1>7, <2>1, <1>25 DEF TypeOK, Places, Signals, ReadKey, Refused, AfterKey
  <2>3. SignalInv' /\ ZeroInv'
    BY <1>1, <1>2, <1>7, <1>25
    DEF TypeOK, StackInv, SignalInv, ZeroInv, ReadKey, Refused, AfterKey
  <2>4. FrontInv' /\ RawInv' /\ LeftInv'
    BY <1>1, <1>2, <1>7, <1>25
    DEF TypeOK, StackInv, SignalInv, ZeroInv, FrontInv, RawInv, LeftInv, ReadKey,
        Refused, AfterKey
  <2>5. LeftAsFound' /\ BackgroundPlays'
    BY <1>1, <1>2, <1>7, <1>25
    DEF TypeOK, StackInv, SignalInv, FrontInv, LeftInv, LeftAsFound,
        BackgroundPlays, ReadKey, Refused, AfterKey
  <2> QED
    BY <2>1, <2>2, <2>3, <2>4, <2>5 DEF TerminalInv
<1>26. CASE CheckPause
  <2>1. TypeOK' /\ StackInv' /\ SignalInv' /\ ZeroInv'
    BY <1>1, <1>2, <1>7, <1>26
    DEF TypeOK, Places, Signals, StackInv, SignalInv, ZeroInv, CheckPause
  <2>2. FrontInv' /\ RawInv' /\ LeftInv'
    BY <1>1, <1>2, <1>7, <1>26
    DEF TypeOK, StackInv, SignalInv, ZeroInv, FrontInv, RawInv, LeftInv, CheckPause
  <2>3. LeftAsFound' /\ BackgroundPlays'
    BY <1>1, <1>2, <1>7, <1>26
    DEF TypeOK, StackInv, SignalInv, FrontInv, LeftInv, LeftAsFound,
        BackgroundPlays, CheckPause
  <2> QED
    BY <2>1, <2>2, <2>3 DEF TerminalInv
<1>27. CASE End
  <2>1. StackInv'
    BY <1>1, <1>2, <1>7, <1>27 DEF StackInv, End
  <2>2. TypeOK'
    BY <1>1, <1>2, <1>7, <2>1, <1>27 DEF TypeOK, Places, Signals, End
  <2>3. SignalInv' /\ ZeroInv'
    BY <1>1, <1>2, <1>7, <1>27 DEF TypeOK, StackInv, SignalInv, ZeroInv, End
  <2>4. FrontInv' /\ RawInv' /\ LeftInv'
    BY <1>1, <1>2, <1>7, <1>27
    DEF TypeOK, StackInv, SignalInv, ZeroInv, FrontInv, RawInv, LeftInv, End
  <2>5. LeftAsFound' /\ BackgroundPlays'
    BY <1>1, <1>2, <1>7, <1>27
    DEF TypeOK, StackInv, SignalInv, FrontInv, LeftInv, LeftAsFound,
        BackgroundPlays, End
  <2> QED
    BY <2>1, <2>2, <2>3, <2>4, <2>5 DEF TerminalInv
<1>28. CASE LastReset /\ ~Refused
  <2>1. StackInv'
    BY <1>1, <1>2, <1>7, <1>28 DEF StackInv, LastReset, Refused
  <2>2. TypeOK'
    BY <1>1, <1>2, <1>7, <2>1, <1>28 DEF TypeOK, Places, Signals, LastReset, Refused
  <2>3. SignalInv' /\ ZeroInv'
    BY <1>1, <1>2, <1>7, <1>28 DEF TypeOK, StackInv, SignalInv, ZeroInv, LastReset, Refused
  <2>4. FrontInv' /\ RawInv' /\ LeftInv'
    BY <1>1, <1>2, <1>7, <1>28
    DEF TypeOK, StackInv, SignalInv, ZeroInv, FrontInv, RawInv, LeftInv, LastReset, Refused
  <2>5. LeftAsFound' /\ BackgroundPlays'
    BY <1>1, <1>2, <1>7, <1>28
    DEF TypeOK, StackInv, SignalInv, FrontInv, LeftInv, LeftAsFound,
        BackgroundPlays, LastReset, Refused
  <2> QED
    BY <2>1, <2>2, <2>3, <2>4, <2>5 DEF TerminalInv
<1>29. CASE Exit
  <2>1. StackInv'
    BY <1>1, <1>2, <1>7, <1>29 DEF StackInv, Exit
  <2>2. TypeOK'
    BY <1>1, <1>2, <1>7, <2>1, <1>29 DEF TypeOK, Places, Signals, Exit
  <2>3. SignalInv' /\ ZeroInv'
    BY <1>1, <1>2, <1>7, <1>29 DEF TypeOK, StackInv, SignalInv, ZeroInv, Exit
  <2>4. FrontInv' /\ RawInv' /\ LeftInv'
    BY <1>1, <1>2, <1>7, <1>29
    DEF TypeOK, StackInv, SignalInv, ZeroInv, FrontInv, RawInv, LeftInv, Exit
  <2>5. LeftAsFound' /\ BackgroundPlays'
    BY <1>1, <1>2, <1>7, <1>29
    DEF TypeOK, StackInv, SignalInv, FrontInv, LeftInv, LeftAsFound,
        BackgroundPlays, Exit
  <2> QED
    BY <2>1, <2>2, <2>3, <2>4, <2>5 DEF TerminalInv
<1>30. CASE Suspend
  <2>1. TypeOK' /\ StackInv' /\ SignalInv' /\ ZeroInv'
    BY <1>1, <1>2, <1>7, <1>30 DEF TypeOK, Places, Signals, StackInv, SignalInv, ZeroInv, Suspend
  <2>2. FrontInv' /\ RawInv' /\ LeftInv'
    BY <1>1, <1>2, <1>7, <1>30
    DEF TypeOK, StackInv, SignalInv, ZeroInv, FrontInv, RawInv, LeftInv, Suspend
  <2>3. LeftAsFound' /\ BackgroundPlays'
    BY <1>1, <1>2, <1>7, <1>30
    DEF TypeOK, StackInv, SignalInv, FrontInv, LeftInv, LeftAsFound,
        BackgroundPlays, Suspend
  <2> QED
    BY <2>1, <2>2, <2>3 DEF TerminalInv
<1>31. CASE Terminate
  <2>1. TypeOK' /\ StackInv' /\ SignalInv' /\ ZeroInv'
    BY <1>1, <1>2, <1>7, <1>31
    DEF TypeOK, Places, Signals, StackInv, SignalInv, ZeroInv, Terminate
  <2>2. FrontInv' /\ RawInv' /\ LeftInv'
    BY <1>1, <1>2, <1>7, <1>31
    DEF TypeOK, StackInv, SignalInv, ZeroInv, FrontInv, RawInv, LeftInv, Terminate
  <2>3. LeftAsFound' /\ BackgroundPlays'
    BY <1>1, <1>2, <1>7, <1>31
    DEF TypeOK, StackInv, SignalInv, FrontInv, LeftInv, LeftAsFound,
        BackgroundPlays, Terminate
  <2> QED
    BY <2>1, <2>2, <2>3 DEF TerminalInv
<1>32. CASE TakeTerminal
  <2>1. TypeOK' /\ StackInv' /\ SignalInv' /\ ZeroInv'
    BY <1>1, <1>2, <1>7, <1>32
    DEF TypeOK, Places, Signals, StackInv, SignalInv, ZeroInv, TakeTerminal
  <2>2. FrontInv' /\ RawInv' /\ LeftInv'
    BY <1>1, <1>2, <1>7, <1>32
    DEF TypeOK, StackInv, SignalInv, ZeroInv, FrontInv, RawInv, LeftInv,
        TakeTerminal
  <2>3. LeftAsFound' /\ BackgroundPlays'
    BY <1>1, <1>2, <1>7, <1>32
    DEF TypeOK, StackInv, SignalInv, FrontInv, LeftInv, LeftAsFound,
        BackgroundPlays, TakeTerminal
  <2> QED
    BY <2>1, <2>2, <2>3 DEF TerminalInv
<1>33. CASE Fg
  <2>1. StackInv'
    BY <1>1, <1>2, <1>7, <1>33 DEF StackInv, Fg, Resume
  <2>2. TypeOK'
    BY <1>1, <1>2, <1>7, <2>1, <1>33 DEF TypeOK, Places, Signals, Fg, Resume
  <2>3. SignalInv' /\ ZeroInv'
    BY <1>1, <1>2, <1>7, <1>33 DEF TypeOK, StackInv, SignalInv, ZeroInv, Fg, Resume
  <2>4. FrontInv' /\ RawInv' /\ LeftInv'
    BY <1>1, <1>2, <1>7, <1>33
    DEF TypeOK, StackInv, SignalInv, ZeroInv, FrontInv, RawInv, LeftInv, Fg, Resume
  <2>5. LeftAsFound' /\ BackgroundPlays'
    BY <1>1, <1>2, <1>7, <1>33
    DEF TypeOK, StackInv, SignalInv, FrontInv, LeftInv, LeftAsFound,
        BackgroundPlays, Fg, Resume
  <2> QED
    BY <2>1, <2>2, <2>3, <2>4, <2>5 DEF TerminalInv
<1>34. CASE Bg
  <2>1. TypeOK' /\ StackInv' /\ SignalInv' /\ ZeroInv'
    BY <1>1, <1>2, <1>7, <1>34
    DEF TypeOK, Places, Signals, StackInv, SignalInv, ZeroInv, Bg, Resume
  <2>2. FrontInv' /\ RawInv' /\ LeftInv'
    BY <1>1, <1>2, <1>7, <1>34
    DEF TypeOK, StackInv, SignalInv, ZeroInv, FrontInv, RawInv, LeftInv, Bg, Resume
  <2>3. LeftAsFound' /\ BackgroundPlays'
    BY <1>1, <1>2, <1>7, <1>34
    DEF TypeOK, StackInv, SignalInv, FrontInv, LeftInv, LeftAsFound,
        BackgroundPlays, Bg, Resume
  <2> QED
    BY <2>1, <2>2, <2>3 DEF TerminalInv
<1>35. CASE TypeLine
  <2>1. StackInv'
    BY <1>1, <1>2, <1>7, <1>35 DEF StackInv, TypeLine, AfterKey
  <2>2. TypeOK'
    BY <1>1, <1>2, <1>7, <2>1, <1>35 DEF TypeOK, Places, Signals, TypeLine, AfterKey
  <2>3. SignalInv' /\ ZeroInv'
    BY <1>1, <1>2, <1>7, <1>35 DEF TypeOK, StackInv, SignalInv, ZeroInv, TypeLine, AfterKey
  <2>4. FrontInv' /\ RawInv' /\ LeftInv'
    BY <1>1, <1>2, <1>7, <1>35
    DEF TypeOK, StackInv, SignalInv, ZeroInv, FrontInv, RawInv, LeftInv, TypeLine,
        AfterKey
  <2>5. LeftAsFound' /\ BackgroundPlays'
    BY <1>1, <1>2, <1>7, <1>35
    DEF TypeOK, StackInv, SignalInv, FrontInv, LeftInv, LeftAsFound,
        BackgroundPlays, TypeLine, AfterKey
  <2> QED
    BY <2>1, <2>2, <2>3, <2>4, <2>5 DEF TerminalInv
<1> QED
  BY <1>1, <1>8, <1>9, <1>10, <1>11, <1>12, <1>13, <1>14, <1>15, <1>16, <1>17,
     <1>18, <1>19, <1>20, <1>21, <1>22, <1>23, <1>24, <1>25, <1>26, <1>27, <1>30,
     <1>28, <1>29, <1>31, <1>32, <1>33, <1>34, <1>35
  DEF Next, Step, User, Deliver, Sigcont, Cleanup, MainStep

\* Whatever the signals, the shell and the user do, the state of the terminal
\* is what the places of main and of the handlers say.
THEOREM TerminalCorrect == Spec => []TerminalInv
<1>1. Init => TerminalInv
  <2> SUFFICES ASSUME Init PROVE TerminalInv
    OBVIOUS
  <2>1. calls \in Seq(Call) /\ Len(calls) = 0 /\ DOMAIN calls = {}
    BY DEF Init
  <2>2. TypeOK
    <3>1. /\ tmodes \in Attributes \union {"none"} /\ caught \subseteq Signals
          /\ pending \subseteq Signals /\ shell \in Shells
          /\ past \subseteq {"stopped", "refused", "nested", "terminated", "background",
                            "hasty", "late"}
      BY DEF Init
    <3>2. /\ pc \in Places /\ foreground_in \in BOOLEAN /\ isatty \in BOOLEAN
          /\ term \in Attributes /\ tty \in Attributes /\ owner \in {"job", "shell"}
          /\ job \in {"running", "stopped", "dead"}
      BY DEF Init, Places, Attributes
    <3> QED
      BY <2>1, <3>1, <3>2 DEF TypeOK
  <2>3. StackInv /\ SignalInv /\ LeftAsFound /\ BackgroundPlays
    BY <2>1 DEF Init, StackInv, SignalInv, LeftAsFound, BackgroundPlays,
                Has, Doomed, Deliverable, Unstopped
  <2>4. ZeroInv /\ FrontInv /\ RawInv /\ LeftInv
    BY <2>1 DEF Init, ZeroInv, FrontInv, RawInv, LeftInv, Has, Preparing,
                Doomed, Deliverable, Ending, Set
  <2> QED
    BY <2>2, <2>3, <2>4 DEF TerminalInv
<1> QED
  BY <1>1, TerminalStep, PTL DEF Spec

\* The commands get single keys (KeysFromRaw): read_key reads in the foreground
\* only after set_tty has made the terminal raw, and no handler is half way.
THEOREM KeysAreRaw == Spec => []KeysFromRaw
<1>1. TerminalInv => KeysFromRaw
  <2> SUFFICES ASSUME TerminalInv, Main("read"), owner = "job",
                      Unstopped \/ (shell = "keeping" /\ "background" \notin past)
               PROVE  tty = "raw"
    BY DEF KeysFromRaw, Unstopped
  <2>1. calls = <<>> /\ pending = {} /\ job = "running" /\ pc = "read"
    BY DEF Main, Runs, Deliverable, Blocked
  <2>2. foreground_in /\ ~Preparing /\ ~Ending
    BY <2>1 DEF TerminalInv, FrontInv, Preparing, Ending, Doomed, Deliverable, Has
  <2> QED
    BY <2>1, <2>2 DEF TerminalInv, RawInv, Kept, Set
<1> QED
  BY <1>1, TerminalCorrect, PTL

\* The terminal is left as it was found (LeftAsFound): reset_tty restores what
\* set_tty saved before the job had changed it.
THEOREM LeftAsItWas == Spec => []LeftAsFound
<1>1. TerminalInv => LeftAsFound
  BY DEF TerminalInv
<1> QED
  BY <1>1, TerminalCorrect, PTL

\* A program started in the background is not stopped for touching the
\* terminal (BackgroundPlays).
THEOREM PlaysOn == Spec => []BackgroundPlays
<1>1. TerminalInv => BackgroundPlays
  BY DEF TerminalInv
<1> QED
  BY <1>1, TerminalCorrect, PTL

=============================================================================
