---------------------------- MODULE MCSoundOutput ----------------------------
(* An instance of SoundOutput for TLC. *)
EXTENDS SoundOutput

Files == <<"wav", "aiff", "file", "null">>
MCBuilds == {drivers \o Files :
    drivers \in {<<"sndio">>, <<"netbsd">>, <<"bsd">>, <<"solaris">>, <<"hpux">>,
                 <<"pulseaudio", "alsa", "oss">>, <<"coreaudio">>, <<"beos">>,
                 <<"win32">>, <<"dart">>, <<"ahi">>}}

MCRequests == {[flags |-> f \cup g, downmix |-> IF f = {"32BIT"} THEN d ELSE 0, rate |-> 44100] :
    f \in {{}, {"8BIT"}, {"32BIT"}}, g \in SUBSET {"UNSIGNED", "MONO"}, d \in {0, 24}}

\* A positive and a negative sample, no two bytes of which are alike.
MCSamples == {<<17, 34, 51, 68>>, <<200, 1, 2, 3>>}

Encoding(p, s) == [precision |-> p, signed |-> s]
MCEncodings == {
    {},
    {Encoding(16, TRUE)},
    {Encoding(8, FALSE), Encoding(16, TRUE), Encoding(16, FALSE)},
    {Encoding(8, TRUE), Encoding(16, TRUE), Encoding(24, TRUE), Encoding(32, TRUE)}}
=============================================================================
