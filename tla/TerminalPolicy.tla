--------------------------- MODULE TerminalPolicy ---------------------------
(***************************************************************************)
(* When output is coloured and when the terminal is asked for its           *)
(* background: the two colour policies of the program, src/utils/colors.c   *)
(* for the TUI and the doctor and cli/style/cli_term.c for styled text,     *)
(* with the terminal back ends below the second.                           *)
(*                                                                         *)
(* An environment is a function from the variables to what they say.       *)
(***************************************************************************)
EXTENDS Integers

Environment ==
  [NO_COLOR : BOOLEAN, FORCE_COLOR : {"unset", "0", "1"},
   CLICOLOR_FORCE : {"unset", "0", "1"}, CLICOLOR : {"unset", "0", "1"},
   APP_CLI_COLOR : {"unset", "auto", "never", "16", "other"},
   TERM : {"dumb", "colours", "plain", "direct"}, COLORTERM : BOOLEAN,
   APP_CLI_OSC11 : {"unset", "0", "1"}, CI : BOOLEAN,
   APP_CLI_THEME : {"unset", "light", "dark"}]

(* app_color_env_force *)
EnvForce(env) ==
  IF env.FORCE_COLOR # "unset" THEN IF env.FORCE_COLOR = "0" THEN "off" ELSE "on"
  ELSE IF env.CLICOLOR_FORCE = "1" THEN "on"
  ELSE IF env.CLICOLOR = "0" THEN "off" ELSE "auto"

(* app_use_colors *)
UseColors(env, config, stderr_tty) ==
  /\ ~config.plain /\ ~config.no_color /\ ~env.NO_COLOR
  /\ env.APP_CLI_COLOR # "never"
  /\ \/ EnvForce(env) = "on"
     \/ EnvForce(env) = "auto" /\ env.TERM # "dumb" /\ stderr_tty

(* FORCE_COLOR=0 is no reason: a mutant of HardDisabled. *)
DisabledByForceToo(env, config) ==
  \/ config.plain \/ config.no_color \/ config.json
  \/ env.NO_COLOR \/ env.APP_CLI_COLOR = "never" \/ env.TERM = "dumb"

(* app_cli_hard_disabled *)
HardDisabled(env, config) ==
  \/ config.plain \/ config.no_color \/ config.json
  \/ env.NO_COLOR \/ EnvForce(env) = "off"
  \/ env.APP_CLI_COLOR = "never" \/ env.TERM = "dumb"

------------------------------------------------------------------------------
(* app_cli_term_init.  A forced profile that is none of the known turns
   styling off; so does a terminal without colours, unless the environment
   promises 24 bit. *)
Forced(env) == env.APP_CLI_COLOR \notin {"unset", "auto", "never"}

StyleWanted(env, config, tty) ==
  /\ ~HardDisabled(env, config)
  /\ IF Forced(env) THEN env.APP_CLI_COLOR = "16"
     ELSE EnvForce(env) = "on" \/ tty

(* app_cli_env_truecolor; COLORTERM is taken to say so when it is set. *)
EnvTruecolor(env) == env.COLORTERM \/ env.TERM = "direct"

(* app_cli_backend_probe: terminfo knows the terminal's colours or none; the
   fallback without terminfo goes by the variables' text. *)
TerminfoColors(env) == CASE env.TERM = "colours" -> 256 [] env.TERM = "direct" -> 2^24
                         [] OTHER -> 0
AnsiColors(env) ==
  IF env.COLORTERM \/ env.TERM = "direct" THEN 256
  ELSE IF env.TERM = "colours" THEN 16
  ELSE IF EnvForce(env) = "on" THEN 16 ELSE 0

ColorCount(env, terminfo) == IF terminfo THEN TerminfoColors(env) ELSE AnsiColors(env)

Profile(env, terminfo) ==
  IF Forced(env) THEN "16"
  ELSE IF EnvTruecolor(env) THEN "truecolor"
  ELSE IF ColorCount(env, terminfo) >= 256 THEN "256"
  ELSE IF ColorCount(env, terminfo) >= 8 THEN "16" ELSE "none"

Styled(env, config, tty, terminfo) ==
  StyleWanted(env, config, tty) /\ Profile(env, terminfo) # "none"

(* The gates of app_cli_term_detect_background.  The callers that resolve a
   theme (style/cs_theme.c) pass no configuration. *)
NoConfig == [plain |-> FALSE, no_color |-> FALSE, json |-> FALSE]

SkipsProbe(env) ==
  \/ HardDisabled(env, NoConfig)
  \/ env.APP_CLI_OSC11 = "0"
  \/ env.CI /\ env.APP_CLI_OSC11 # "1"
==============================================================================
