----------------------------- MODULE ConfigParse -----------------------------
(***************************************************************************)
(* The configuration parser (src/src/pacer_limit.c: parse_limit and its    *)
(* helpers) as a function from the lines of a file to the effective        *)
(* configuration.  A line is a token: what tells lines apart here is how   *)
(* the parser classifies them, not their spelling.  A numeric value keeps  *)
(* its number, since the ranges are what parse_fps and                     *)
(* parse_thread_cpu_quota decide.                                          *)
(***************************************************************************)
EXTENDS Integers, Sequences, SequencesExt

CONSTANTS
    Candidates,   \* limit->executable_candidates, best match first
    Reporting,    \* limit->reporting_enabled
    MaxFps,       \* FRAME_PACER_MAX_FPS (999)
    MaxQuota      \* 100 percent

ASSUME ParseAssumption ==
    /\ MaxFps \in Nat \ {0} /\ MaxQuota \in Nat \ {0} /\ Reporting \in BOOLEAN
    /\ Candidates \in Seq(Range(Candidates))

\* Value tokens: the word "off", the word "on", a number, a number with a
\* percent sign, a quoted file name, and anything the parser cannot use.
On == [word |-> "on"]
Off == [word |-> "off"]
Num(n) == [word |-> "num", n |-> n]
Percent(n) == [word |-> "percent", n |-> n]
Quoted(e) == [word |-> "quoted", exe |-> e]
Junk == [word |-> "junk"]

\* Line tokens.
Comment == [kind |-> "skip"]
Header(s) == [kind |-> "section", name |-> s]
BadHeader == [kind |-> "badsection"]
NoEquals == [kind |-> "noequals"]
BadByte == [kind |-> "badbyte"]
Entry(k, v) == [kind |-> "entry", key |-> k, value |-> v]

NoRule == [line |-> 0, section |-> "", exe |-> "", hasExe |-> FALSE,
           hasFps |-> FALSE, hasQuota |-> FALSE, priority |-> -1,
           fps |-> 0, quota |-> 0]

\* struct parse_state, the line counter included.
ParseInit ==
    [line |-> 1, error |-> "none", errorLine |-> 0,
     global |-> FALSE, globalOff |-> FALSE, globalFps |-> 0,
     hasHud |-> FALSE, hud |-> TRUE,
     inRule |-> FALSE, rule |-> NoRule, rules |-> 0, selected |-> NoRule]

Fail(s, reason, line) == [s EXCEPT !.error = reason, !.errorLine = line]

\* parse_fps_limit and parse_thread_cpu_quota: 0 stands for off.
FpsOk(v) == v = Off \/ (v.word = "num" /\ v.n \in 1..MaxFps)
FpsOf(v) == IF v = Off THEN 0 ELSE v.n
QuotaOk(v) == v = Off \/ (v.word = "percent" /\ v.n \in 1..MaxQuota)
QuotaOf(v) == IF v = Off THEN 0 ELSE v.n

\* executable_match_priority: the first candidate of that name, or -1.
Priority(exe) ==
    IF \E k \in DOMAIN Candidates : Candidates[k] = exe
    THEN (CHOOSE k \in DOMAIN Candidates :
              /\ Candidates[k] = exe
              /\ \A j \in 1..(k - 1) : Candidates[j] # exe) - 1
    ELSE -1

\* Mutant: the last matching rule wins.
finish_rule_last_wins(s) ==
    LET r == s.rule
        t == [s EXCEPT !.rules = @ + 1] IN
    CASE ~s.inRule -> s
      [] s.inRule /\ ~(r.hasExe /\ r.hasFps) ->
             Fail(s, "incomplete_rule", r.line)
      [] OTHER ->
             IF r.priority < 0 THEN t
             ELSE IF r.priority = s.selected.priority
                  THEN Fail(t, "duplicate_matching_rule", r.line)
                  ELSE [t EXCEPT !.selected = r]

\* finish_rule: the end of a section.
finish_rule(s) ==
    LET r == s.rule
        t == [s EXCEPT !.rules = @ + 1] IN
    CASE ~s.inRule -> s
      [] s.inRule /\ ~(r.hasExe /\ r.hasFps) ->
             Fail(s, "incomplete_rule", r.line)
      [] OTHER ->
             IF r.priority < 0 THEN t
             ELSE IF r.priority = s.selected.priority
                  THEN Fail(t, "duplicate_matching_rule", r.line)
                  ELSE IF s.selected.priority < 0
                            \/ r.priority < s.selected.priority
                       THEN [t EXCEPT !.selected = r]
                       ELSE t

\* One `key = value' line; a key is known only on its side of the sections.
parse_entry(s, key, v) ==
    LET dup == Fail(s, "duplicate_key", s.line)
        bad == Fail(s, "invalid_value", s.line) IN
    CASE ~s.inRule /\ key = "global_fps_limit" ->
             IF s.global THEN dup ELSE IF ~FpsOk(v) THEN bad
             ELSE [s EXCEPT !.global = TRUE, !.globalOff = (v = Off),
                            !.globalFps = FpsOf(v)]
      [] ~s.inRule /\ key = "hud" ->
             IF s.hasHud THEN dup ELSE IF v \notin {On, Off} THEN bad
             ELSE [s EXCEPT !.hasHud = TRUE, !.hud = (v = On)]
      [] s.inRule /\ key = "fps_limit" ->
             IF s.rule.hasFps THEN dup ELSE IF ~FpsOk(v) THEN bad
             ELSE [s EXCEPT !.rule.hasFps = TRUE, !.rule.fps = FpsOf(v)]
      [] s.inRule /\ key = "executable" ->
             IF s.rule.hasExe THEN dup
             ELSE IF v.word # "quoted"
                  THEN Fail(s, "invalid_executable", s.line)
                  ELSE [s EXCEPT !.rule.hasExe = TRUE, !.rule.exe = v.exe,
                                 !.rule.priority = Priority(v.exe)]
      [] s.inRule /\ key = "thread_cpu_limit" ->
             IF s.rule.hasQuota THEN dup ELSE IF ~QuotaOk(v) THEN bad
             ELSE [s EXCEPT !.rule.hasQuota = TRUE, !.rule.quota = QuotaOf(v)]
      [] OTHER -> Fail(s, "unknown_key", s.line)

\* A section header closes the rule before it, then opens its own.
parse_section(s, l) ==
    LET done == finish_rule(s) IN
    IF done.error # "none" THEN done
    ELSE IF l.kind = "badsection" THEN Fail(done, "invalid_section", s.line)
    ELSE [done EXCEPT !.inRule = TRUE,
                      !.rule = [NoRule EXCEPT !.line = s.line,
                                              !.section = l.name]]

\* One turn of the line loop; nothing is read past the first error.
parse_line(s, l) ==
    LET t == CASE l.kind = "skip" -> s
               [] l.kind \in {"section", "badsection"} -> parse_section(s, l)
               [] l.kind = "noequals" ->
                      Fail(s, "missing_equals", s.line)
               [] l.kind = "entry" -> parse_entry(s, l.key, l.value)
    IN  IF s.error # "none" THEN s
        ELSE IF t.error # "none" THEN t ELSE [t EXCEPT !.line = @ + 1]

\* The configuration in force when the file cannot be used.
Failed(status, reason, line) ==
    [status |-> status, reason |-> reason, line |-> line,
     fps |-> 0, fpsSource |-> "default", hud |-> TRUE, hudSource |-> "default",
     quota |-> 0, quotaSource |-> "default", section |-> "", match |-> ""]

\* The choice between the selected rule and the global settings.
Effective(s) ==
    LET r == s.selected
        hudSource == IF s.hasHud THEN "global" ELSE "default" IN
    IF r.priority >= 0
    THEN [status |-> "valid",
          reason |-> IF r.fps = 0 THEN "explicitly_off" ELSE "none",
          line |-> 0, fps |-> r.fps, fpsSource |-> "per_game",
          hud |-> s.hud, hudSource |-> hudSource, quota |-> r.quota,
          quotaSource |-> IF r.hasQuota THEN "per_game" ELSE "default",
          section |-> IF Reporting THEN r.section ELSE "",
          match |-> IF Reporting THEN Candidates[r.priority + 1] ELSE ""]
    ELSE [status |-> "valid",
          reason |-> CASE s.global /\ s.globalOff -> "explicitly_off"
                       [] ~(s.global /\ s.globalOff) /\ s.rules > 0 ->
                              "no_executable_match"
                       [] OTHER -> "no_per_game_rules",
          line |-> 0, fps |-> s.globalFps,
          fpsSource |-> IF s.global THEN "global" ELSE "default",
          hud |-> s.hud, hudSource |-> hudSource, quota |-> 0,
          quotaSource |-> "default", section |-> "", match |-> ""]

\* valid_bytes scans the whole file before a line is parsed.
FirstBadByte(lines) ==
    CHOOSE k \in DOMAIN lines :
        /\ lines[k] = BadByte
        /\ \A j \in 1..(k - 1) : lines[j] # BadByte

parse_limit(lines) ==
    IF \E k \in DOMAIN lines : lines[k] = BadByte
    THEN Failed("malformed", "invalid_byte", FirstBadByte(lines))
    ELSE LET read == FoldLeft(parse_line, ParseInit, lines)
             s == IF read.error = "none" THEN finish_rule(read) ELSE read
         IN  IF s.error = "none" THEN Effective(s)
             ELSE Failed("malformed", s.error, s.errorLine)
==============================================================================
