------------------------------ MODULE UadeConf ------------------------------
(***************************************************************************)
(* The options of a song: uadeconf.c, the attributes of eagleplayer.c and  *)
(* uade_play_internal().  An option comes from uade.conf, from the line of *)
(* the song's eagleplayer in eagleplayer.conf, from the song's line in     *)
(* song.conf or from the command line.  A struct uade_config is a value    *)
(* for each of its members and the members whose X_set is true; a value is *)
(* a string, and numbers are only told apart.  Paths are left out.         *)
(***************************************************************************)
EXTENDS Naturals, Sequences, TLC

CONSTANTS
    Setups,       \* what the four sources may hold: records of sets of sequences
    Songs, MaxPlays, MaxKeys,  \* bounds: uade_play() and keys of the user
    EpRoom        \* options that fit into struct uade_ep_options

ConfAssumption == EpRoom \in Nat /\ MaxPlays \in Nat /\ MaxKeys \in Nat

Opt(o, v) == [o |-> o, v |-> v]
NULL == "NULL"

-----------------------------------------------------------------------------
(* uade.conf: a key is looked up by the first l characters of a name *)
Key(str, l, e) == [str |-> str, l |-> l, e |-> e]
uadeconfopts == <<
    Key("detect_format_by_detection", 18, "CONTENT_DETECTION"), Key("disable_timeout", 1, "DISABLE_TIMEOUTS"),
    Key("enable_timeout", 2, "ENABLE_TIMEOUTS"), Key("ep_option", 2, "EAGLEPLAYER_OPTION"),
    Key("filter_type", 2, "FILTER_TYPE"), Key("force_led_off", 12, "FORCE_LED_OFF"),
    Key("force_led_on", 12, "FORCE_LED_ON"), Key("force_led", 9, "FORCE_LED"), Key("frequency", 2, "FREQUENCY"),
    Key("gain", 1, "GAIN"), Key("headphones", 11, "HEADPHONES"), Key("headphones2", 11, "HEADPHONES2"),
    Key("headphone", 11, "HEADPHONES"), Key("ignore_player_check", 2, "IGNORE_PLAYER_CHECK"),
    Key("interpolator", 2, "RESAMPLER"), Key("magic_detection", 1, "CONTENT_DETECTION"),
    Key("no_ep_end_detect", 4, "NO_EP_END"), Key("no_filter", 4, "NO_FILTER"), Key("no_song_end", 4, "NO_EP_END"),
    Key("ntsc", 2, "NTSC"), Key("one_subsong", 1, "ONE_SUBSONG"), Key("pal", 3, "PAL"),
    Key("panning_value", 3, "PANNING_VALUE"), Key("resampler", 1, "RESAMPLER"),
    Key("silence_timeout_value", 2, "SILENCE_TIMEOUT_VALUE"), Key("speed_hack", 2, "SPEED_HACK"),
    Key("subsong_timeout_value", 2, "SUBSONG_TIMEOUT_VALUE"), Key("timeout_value", 1, "TIMEOUT_VALUE"),
    Key("verbose", 1, "VERBOSE")>>
\* strncmp(): equal in the first l characters, the end of a string among them
Prefix(s, l) == SubSeq(s, 1, IF l < Len(s) THEN l ELSE Len(s))
(* Mutation: as many characters as the name has. *)
MatchesName(key, k) == Prefix(key, Len(k.str)) = k.str
Matches(key, k) == Prefix(key, k.l) = Prefix(k.str, k.l)
map_str_to_option(key) ==
    LET found == {i \in DOMAIN uadeconfopts : Matches(key, uadeconfopts[i])}
    IN  IF found = {} THEN "none"
        ELSE uadeconfopts[CHOOSE i \in found : \A j \in found : i <= j].e

-----------------------------------------------------------------------------
(* One option *)
Defaults == [no_filter |-> "0", filter_type |-> "a500", led_forced |-> "0", led_state |-> "0",
    gain_enable |-> "0", gain |-> "1.0", panning_enable |-> "0", panning |-> "0.7",
    headphones |-> "0", headphones2 |-> "0", no_postprocessing |-> "0", use_timeouts |-> "1",
    timeout |-> "-1", subsong_timeout |-> "512", silence_timeout |-> "20", use_ntsc |-> "0",
    no_ep_end |-> "0", one_subsong |-> "0", content_detection |-> "0", ignore_player_check |-> "0",
    speed_hack |-> "0", verbose |-> "0", frequency |-> "44100", resampler |-> NULL, player_file |-> ""]
uade_config_set_defaults == [val |-> Defaults, set |-> {}, ep |-> <<>>]

\* uade_convert_to_double(): the default for a value that is no number in range
Number(v, def) == IF v = "bad" THEN def ELSE v
\* A frequency out of bounds ("far") is replaced by the default; what is no
\* number changes nothing, nor does an invalid timeout
Hertz(v) == CASE v \in {"bad", NULL} -> <<>>
              [] v = "far" -> "frequency" :> "44100"
              [] OTHER -> "frequency" :> v
Seconds(member, v) == IF v \in {"bad", NULL} THEN <<>> ELSE member :> v
Filter(v) == CASE v = NULL   -> "no_filter" :> "0"
               [] v = "none" -> "no_filter" :> "1"
               [] OTHER      -> ("no_filter" :> "0") @@ ("filter_type" :> (IF v = "a1200" THEN "a1200" ELSE "a500"))
\* Options that make a member true, and no more
Switches == ("CONTENT_DETECTION" :> "content_detection") @@ ("HEADPHONES" :> "headphones")
    @@ ("HEADPHONES2" :> "headphones2") @@ ("IGNORE_PLAYER_CHECK" :> "ignore_player_check")
    @@ ("NO_EP_END" :> "no_ep_end") @@ ("NO_FILTER" :> "no_filter") @@ ("NTSC" :> "use_ntsc")
    @@ ("NO_POSTPROCESSING" :> "no_postprocessing") @@ ("ONE_SUBSONG" :> "one_subsong")
    @@ ("SPEED_HACK" :> "speed_hack") @@ ("VERBOSE" :> "verbose") @@ ("ENABLE_TIMEOUTS" :> "use_timeouts")
\* The members an option sets, with their values
Sets(o, v) ==
    CASE o \in DOMAIN Switches    -> Switches[o] :> "1"
      [] o = "DISABLE_TIMEOUTS"   -> "use_timeouts" :> "0"
      [] o = "PAL"                -> "use_ntsc" :> "0"
      [] o = "FILTER_TYPE"        -> Filter(v)
      [] o = "FORCE_LED"          -> IF v \in {"on", "off"}
                                     THEN ("led_forced" :> "1") @@ ("led_state" :> (IF v = "on" THEN "1" ELSE "0"))
                                     ELSE <<>>
      [] o = "FORCE_LED_ON"       -> ("led_forced" :> "1") @@ ("led_state" :> "1")
      [] o = "FORCE_LED_OFF"      -> ("led_forced" :> "1") @@ ("led_state" :> "0")
      [] o = "GAIN"               -> IF v = NULL THEN <<>> ELSE ("gain_enable" :> "1") @@ ("gain" :> Number(v, "1.0"))
      [] o = "PANNING_VALUE"      -> IF v = NULL THEN <<>> ELSE ("panning_enable" :> "1") @@ ("panning" :> Number(v, "0.0"))
      [] o = "NO_PANNING"         -> "panning_enable" :> "0"
      [] o = "NO_HEADPHONES"      -> ("headphones" :> "0") @@ ("headphones2" :> "0")
      [] o = "FREQUENCY"          -> Hertz(v)
      [] o = "TIMEOUT_VALUE"      -> Seconds("timeout", v)
      [] o = "SUBSONG_TIMEOUT_VALUE" -> Seconds("subsong_timeout", v)
      [] o = "SILENCE_TIMEOUT_VALUE" -> Seconds("silence_timeout", v)
      [] o = "RESAMPLER"          -> IF v = NULL THEN <<>> ELSE "resampler" :> v
      [] o = "PLAYER_FILE"        -> "player_file" :> v
      [] o = "EAGLEPLAYER_OPTION" -> <<>>

uade_add_ep_option(ep, v) == IF Len(ep) < EpRoom THEN Append(ep, v) ELSE ep
uade_config_set_option(c, opt) ==
    LET s   == Sets(opt.o, opt.v)
        isEp == opt.o = "EAGLEPLAYER_OPTION" /\ opt.v # NULL
    IN  [val |-> s @@ c.val,
         set |-> c.set \cup DOMAIN s \cup (IF isEp THEN {"ep_options"} ELSE {}),
         ep  |-> IF isEp THEN uade_add_ep_option(c.ep, opt.v) ELSE c.ep]
\* Options in a row
Apply(c, opts) ==
    LET f[i \in 0..Len(opts)] == IF i = 0 THEN c ELSE uade_config_set_option(f[i - 1], opts[i])
    IN  f[Len(opts)]

uade_merge_configs(d, s) ==
    [d EXCEPT !.val = [m \in DOMAIN @ |-> IF m = "use_timeouts" /\ "timeout" \in s.set THEN "1"
                                          ELSE IF m \in s.set THEN s.val[m] ELSE @[m]],
              !.set = IF "timeout" \in s.set THEN @ \cup {"use_timeouts"} ELSE @,
              !.ep = IF "ep_options" \in s.set THEN s.ep ELSE @]

-----------------------------------------------------------------------------
(* Attributes: items of a line of eagleplayer.conf or song.conf, [s, v] *)
Item(s, v) == [s |-> s, v |-> v]
boolean_options == <<
    <<"a500", Opt("FILTER_TYPE", "a500")>>, <<"a1200", Opt("FILTER_TYPE", "a1200")>>,
    <<"always_ends", Opt("DISABLE_TIMEOUTS", NULL)>>, <<"broken_song_end", Opt("NO_EP_END", NULL)>>,
    <<"detect_format_by_content", Opt("CONTENT_DETECTION", NULL)>>,
    <<"ignore_player_check", Opt("IGNORE_PLAYER_CHECK", NULL)>>, <<"led_off", Opt("FORCE_LED_OFF", NULL)>>,
    <<"led_on", Opt("FORCE_LED_ON", NULL)>>, <<"no_ep_end_detect", Opt("NO_EP_END", NULL)>>, <<"no_filter", Opt("NO_FILTER", NULL)>>,
    <<"no_headphones", Opt("NO_HEADPHONES", NULL)>>, <<"no_panning", Opt("NO_PANNING", NULL)>>,
    <<"no_postprocessing", Opt("NO_POSTPROCESSING", NULL)>>, <<"ntsc", Opt("NTSC", NULL)>>,
    <<"one_subsong", Opt("ONE_SUBSONG", NULL)>>, <<"pal", Opt("PAL", NULL)>>,
    <<"speed_hack", Opt("SPEED_HACK", NULL)>>>>
string_options == ("gain" :> "GAIN") @@ ("interpolator" :> "RESAMPLER") @@ ("panning" :> "PANNING_VALUE")
    @@ ("resampler" :> "RESAMPLER") @@ ("silence_timeout" :> "SILENCE_TIMEOUT_VALUE") @@ ("subsong_timeout" :> "SUBSONG_TIMEOUT_VALUE")
    @@ ("timeout" :> "TIMEOUT_VALUE")

\* uade_parse_attribute_from_string(): flags are bits, the others go to the
\* head of a list
Flags(line) == {line[i].s : i \in {j \in DOMAIN line : line[j].v = NULL}}
List(line) == SelectSeq([i \in 1..Len(line) |-> line[Len(line) + 1 - i]], LAMBDA item : item.v # NULL)

\* uade_set_config_options_from_flags(), set_options_from_attributes()
FlagOptions(flags) ==
    LET chosen == SelectSeq(boolean_options, LAMBDA b : b[1] \in flags)
    IN  [i \in 1..Len(chosen) |-> chosen[i][2]]
ListOptions(list) ==
    LET known == SelectSeq(list, LAMBDA item : item.s \in DOMAIN string_options)
    IN  [i \in 1..Len(known) |-> Opt(string_options[known[i].s], known[i].v)]
set_options(c, line) == Apply(Apply(c, FlagOptions(Flags(line))), ListOptions(List(line)))
\* struct uade_song_state.ep_options
EpOptions(ep, line) ==
    LET l == SelectSeq(List(line), LAMBDA item : item.s = "epopt")
        f[i \in 0..Len(l)] == IF i = 0 THEN ep ELSE uade_add_ep_option(f[i - 1], l[i].v)
    IN  f[Len(l)]

-----------------------------------------------------------------------------
VARIABLES permconfig, extraconfig, config, effects,
          playerLine, songLine,   \* attributes of each song's eagleplayer, of each song
          song, epOptions,        \* song playing, the options sent to its eagleplayer
          conf, plays, keys
vars == <<permconfig, extraconfig, config, effects, playerLine, songLine, song, epOptions, conf, plays, keys>>

prepare_configs == uade_merge_configs(permconfig, extraconfig)

\* uade_effect_set_defaults() and uade_set_effects()
uade_set_effects(c) ==
    LET On(m, e) == IF c.val[m] = "1" THEN {e} ELSE {}
    IN  [enabled |-> (IF c.val.no_postprocessing = "1" THEN {} ELSE {"ALLOW"}) \cup On("gain_enable", "GAIN")
                     \cup On("headphones", "HEADPHONES") \cup On("headphones2", "HEADPHONES2")
                     \cup On("panning_enable", "PAN"),
         gain |-> IF c.val.gain_enable = "1" THEN c.val.gain ELSE "1.0",
         pan  |-> IF c.val.panning_enable = "1" THEN c.val.panning ELSE "0.7"]
(* Mutation: the effects of the last song are left as they are. *)
add_effects(c) == [uade_set_effects(c) EXCEPT !.enabled = @ \cup effects.enabled]
song_effects(c) == uade_set_effects(c)

\* A line is a key and a value, NULL if there is none; an unknown key is skipped
uade_load_config(lines) ==
    LET known == SelectSeq(lines, LAMBDA line : map_str_to_option(line[1]) # "none")
    IN  Apply(uade_config_set_defaults,
              [i \in 1..Len(known) |-> Opt(map_str_to_option(known[i][1]), known[i][2])])
\* uade_new_state()
Init ==
    /\ \E u \in Setups :
         /\ conf \in u.conf /\ permconfig = uade_load_config(conf)
         /\ \E c \in u.command : extraconfig = Apply(uade_config_set_defaults, c)
         /\ playerLine \in [Songs -> u.player] /\ songLine \in [Songs -> u.song]
    /\ config = prepare_configs
    /\ effects = [enabled |-> {}, gain |-> "0", pan |-> "0"]
    /\ song = "none" /\ epOptions = <<>> /\ plays = 0 /\ keys = 0

(* Mutation: the options of the last song are the base for the next. *)
KeptConfig == uade_merge_configs(config, extraconfig)
Base == prepare_configs
Final(c) == uade_merge_configs(c, extraconfig)
uade_play(s) ==
    /\ plays < MaxPlays /\ plays' = plays + 1
    /\ song' = s
    /\ config' = Final(set_options(set_options(Base, playerLine[s]), songLine[s]))
    /\ epOptions' = EpOptions(EpOptions(<<>>, playerLine[s]), songLine[s]) \o config'.ep
    /\ effects' = song_effects(config')
    /\ UNCHANGED <<permconfig, extraconfig, playerLine, songLine, conf, keys>>

Press == song # "none" /\ keys < MaxKeys /\ keys' = keys + 1
uade_effect_toggle(e) ==
    /\ Press
    /\ effects' = [effects EXCEPT !.enabled = IF e \in @ THEN @ \ {e} ELSE @ \cup {e}]
    /\ UNCHANGED <<permconfig, extraconfig, config, playerLine, songLine, song, epOptions, conf, plays>>
uade_config_toggle_boolean(o) ==
    /\ Press
    /\ config' = IF o = "VERBOSE" THEN [config EXCEPT !.val.verbose = IF @ = "1" THEN "0" ELSE "1"]
                 ELSE uade_config_set_option(config, Opt(o, IF config.val.led_state = "1" THEN "off" ELSE "on"))
    /\ UNCHANGED <<permconfig, extraconfig, effects, playerLine, songLine, song, epOptions, conf, plays>>

Next ==
    \/ \E s \in Songs : uade_play(s)
    \/ \E e \in {"ALLOW", "GAIN", "HEADPHONES", "PAN"} : uade_effect_toggle(e)
    \/ \E o \in {"VERBOSE", "FORCE_LED"} : uade_config_toggle_boolean(o)
Spec == Init /\ [][Next]_vars

-----------------------------------------------------------------------------
(* Properties *)
PlayStep == \E s \in Songs : uade_play(s)

\* "The options are merged in following order so that the last merge will
\* determine true behavior": uade.conf, the eagleplayer, the song, the command
\* line (uadeconfstructure.h).  A member has the value of the last of the four
\* that sets it, whatever was played and pressed before.  Timeouts are on if the
\* command line gives a timeout; of those it may give besides, for subsongs and
\* for silence, nothing is said here: see TimeoutOverrides.
Layers(s) == <<permconfig, set_options(uade_config_set_defaults, playerLine[s]),
               set_options(uade_config_set_defaults, songLine[s]), extraconfig>>
Winner(layers, m) ==
    LET setting == {i \in DOMAIN layers : m \in layers[i].set}
    IN  IF setting = {} THEN Defaults[m]
        ELSE layers[CHOOSE i \in setting : \A j \in setting : j <= i].val[m]
MergeStep ==
    PlayStep => \E layers \in {Layers(song')} :
      /\ \A m \in DOMAIN Defaults \ {"use_timeouts"} : config'.val[m] = Winner(layers, m)
      /\ "timeout" \in extraconfig.set => config'.val.use_timeouts = "1"
      /\ extraconfig.set \cap {"timeout", "subsong_timeout", "silence_timeout"} = {}
           => config'.val.use_timeouts = Winner(layers, "use_timeouts")
      /\ config'.ep = IF "ep_options" \in extraconfig.set THEN extraconfig.ep ELSE permconfig.ep
LastMergeWins == [][MergeStep]_vars

\* "timeouts given from command line will override this setting [always_ends]"
\* (uade123.1): every timeout that use_timeouts turns off.  The code does so for
\* "timeout" alone: this does not hold for the timeout of a subsong.
TimeoutOverrides ==
    [][PlayStep /\ extraconfig.set \cap {"timeout", "subsong_timeout"} # {}
         => config'.val.use_timeouts = "1"]_vars

\* What uade123.1 says that the commands of uade.conf do, those of paths left out
Meaning(v) ==
    ("disable_timeout" :> ("use_timeouts" :> "0")) @@ ("enable_timeout" :> ("use_timeouts" :> "1"))
    @@ ("filter" :> IF v = "none" THEN "no_filter" :> "1" ELSE ("no_filter" :> "0") @@ ("filter_type" :> v))
    @@ ("no_filter" :> ("no_filter" :> "1"))
    @@ ("force_led" :> (("led_forced" :> "1") @@ ("led_state" :> (IF v = "on" THEN "1" ELSE "0"))))
    @@ ("force_led_off" :> (("led_forced" :> "1") @@ ("led_state" :> "0")))
    @@ ("force_led_on" :> (("led_forced" :> "1") @@ ("led_state" :> "1")))
    @@ ("frequency" :> ("frequency" :> v)) @@ ("resampler" :> ("resampler" :> v))
    @@ ("gain" :> (("gain_enable" :> "1") @@ ("gain" :> v)))
    @@ ("panning" :> (("panning_enable" :> "1") @@ ("panning" :> v)))
    @@ ("headphones" :> ("headphones" :> "1")) @@ ("headphones2" :> ("headphones2" :> "1"))
    @@ ("ignore_player_check" :> ("ignore_player_check" :> "1")) @@ ("no_ep_end_detect" :> ("no_ep_end" :> "1"))
    @@ ("ntsc" :> ("use_ntsc" :> "1")) @@ ("pal" :> ("use_ntsc" :> "0")) @@ ("one_subsong" :> ("one_subsong" :> "1"))
    @@ ("silence_timeout" :> ("silence_timeout" :> v)) @@ ("subsong_timeout" :> ("subsong_timeout" :> v))
    @@ ("timeout" :> ("timeout" :> v)) @@ ("speed_hack" :> ("speed_hack" :> "1")) @@ ("verbose" :> ("verbose" :> "1"))
Obeyed(key, v, meaning) ==
    permconfig = [val |-> meaning[key] @@ Defaults, set |-> DOMAIN meaning[key], ep |-> <<>>]

\* A documented command, given alone and with a valid argument, sets what it
\* says, to what it says, and nothing else.  Six do not, and are left out:
\* ao_option, buffer_time and cygwin are unknown, random_play and
\* recursive_mode are taken for a resampler without a name, and
\* detect_format_by_content for disable_timeout (ContentCommandObeyed).
CommandsObeyed ==
    \A i \in DOMAIN conf : Len(conf) = 1 /\ conf[i][1] \in DOMAIN Meaning(conf[i][2]) /\ conf[i][2] \notin {"bad", "far"}
        => Obeyed(conf[i][1], conf[i][2], Meaning(conf[i][2]))
\* "detect_format_by_content  Only detect files by content" is one of them.
ContentCommandObeyed ==
    conf = <<<<"detect_format_by_content", NULL>>>>
        => Obeyed(conf[1][1], NULL, "detect_format_by_content" :> ("content_detection" :> "1"))

\* Effects begin as the song's options say, whatever keys were pressed during
\* the last song.  (uade_set_effects())
EffectsStep ==
    PlayStep =>
     /\ \A p \in {<<"HEADPHONES", "headphones">>, <<"HEADPHONES2", "headphones2">>,
                  <<"GAIN", "gain_enable">>, <<"PAN", "panning_enable">>} :
            p[1] \in effects'.enabled <=> config'.val[p[2]] = "1"
     /\ "ALLOW" \notin effects'.enabled <=> config'.val.no_postprocessing = "1"
EffectsAsConfigured == [][EffectsStep]_vars

\* "epopt=x  Append option x for eagleplayer" (uade123.1): in the order of the line
InOrder(line) == LET l == SelectSeq(line, LAMBDA item : item.s = "epopt") IN [i \in 1..Len(l) |-> l[i].v]
EpOptionsAppended ==
    [][PlayStep => epOptions' = InOrder(playerLine[song']) \o InOrder(songLine[song']) \o config'.ep]_vars
=============================================================================
