------------------------------- MODULE Doctor -------------------------------
(***************************************************************************)
(* The doctor's checks: src/core/diagnostics.c, and what the doctor command *)
(* (src/cli/commands_doctor.c) adds to them and prints.                    *)
(***************************************************************************)
EXTENDS JsonOutput

CONSTANT MaxChecks   \* the array's length, 9 in the code

ASSUME MaxChecksAssumption == MaxChecks \in Nat

(* What the checks look at: the build, the terminal, the configuration. *)
Check(name, status) == [name |-> name, status |-> status, has_enabled |-> FALSE,
                        enabled |-> FALSE]
Switch(name, status, on) == [name |-> name, status |-> status, has_enabled |-> TRUE,
                             enabled |-> on]
OkOr(otherwise, good) == IF good THEN "ok" ELSE otherwise

(* app_diagnostics_collect: eight checks in this order, or none at all when
   the buffer is too short for them. *)
Collected(seen, config) ==
  <<Check("binary", "ok"),
    Check("git", OkOr("warn", seen.git)),
    Switch("tui_compiled", OkOr("warn", seen.tui), seen.tui),
    Switch("tui_terminal", OkOr("warn", seen.interactive), seen.interactive),
    Switch("color_output", OkOr("warn", seen.color), seen.color),
    Switch("config_file", OkOr("skip", seen.file), seen.file),
    Switch("quiet_mode", "ok", config.quiet),
    Switch("json_output", "ok", config.json)>>

(* The runtime check goes after the terminal's, the others move up. *)
WithRuntime(checks, runtime) ==
  LET anchor == {k \in DOMAIN checks : checks[k].name = "tui_terminal"}
      at == IF anchor = {} THEN Len(checks) + 1 ELSE 1 + CHOOSE k \in anchor : TRUE
  IN [k \in 1..Len(checks)+1 |->
        IF k < at THEN checks[k] ELSE IF k = at THEN runtime ELSE checks[k - 1]]

(* smoke is "none" when the runtime was not tried, or how tui_init fared. *)
RuntimeCheck(smoke) ==
  Switch("tui_runtime", IF smoke = "none" THEN "skip" ELSE OkOr("warn", smoke = "SUCCESS"),
         smoke = "SUCCESS")

(* app_cmd_doctor after the smoke test: the checks, or an exit code. *)
Checks(seen, config, smoke) ==
  WithRuntime(Collected(seen, config), RuntimeCheck(smoke))
ChecksFit(checks) == Len(checks) <= MaxChecks

------------------------------------------------------------------------------
(* doctor_write_json_check *)
WriteCheck(check) ==
  LET named == Field(BeginObject, "name", Text(check.name))
      full  == Field(Field(named, "status", Text(check.status)), "detail", Text("detail"))
  IN EndObject(IF check.has_enabled THEN Field(full, "enabled", Bool(check.enabled)) ELSE full)

(* The report: one object, or a line for each check below a title. *)
DoctorReport(config, checks) ==
  IF config.json
    THEN EndObject(Field(Field(BeginObject, "format_version", Text("1.0")), "checks",
           Mark("[") \o Items(checks, LAMBDA c, more : WriteCheck(c) \o CommaIf(more))
             \o Mark("]")))
    ELSE Line("doctor") \o FlattenSeq([k \in DOMAIN checks |-> Line(checks[k].name)])
==============================================================================
