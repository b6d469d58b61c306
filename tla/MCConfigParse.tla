---------------------------- MODULE MCConfigParse ----------------------------
(***************************************************************************)
(* Every configuration file of at most MaxParts pieces (a line, or a whole *)
(* rule), against a definition of the result that has no parser state:     *)
(* what is wrong with a file, and which rule it selects, are stated of the *)
(* file as a whole.                                                        *)
(***************************************************************************)
EXTENDS ConfigParse, FiniteSets

CONSTANT MaxParts     \* bound: pieces a file is put together from

VARIABLES
    file,             \* the lines
    parts             \* how many pieces they came in

\* The launcher's own name comes after the mapped Windows executable.
Exes == <<"game", "launcher">>

Lines ==
    {Comment, Header("a"), BadHeader, NoEquals, BadByte,
     Entry("global_fps_limit", Off), Entry("global_fps_limit", Num(MaxFps)),
     Entry("hud", Off), Entry("hud", Junk), Entry("fps_limit", Off),
     Entry("fps_limit", Num(MaxFps + 1)), Entry("fps_limit", Num(0)),
     Entry("executable", Quoted("game")), Entry("executable", Junk),
     Entry("thread_cpu_limit", Percent(MaxQuota)),
     Entry("thread_cpu_limit", Percent(MaxQuota + 1)), Entry("bogus", On)}

\* Whole rules, so that files with several of them are reached.
Rules ==
    {<<Header("b"), Entry("executable", Quoted(e)), Entry("fps_limit", v)>> :
         e \in {"game", "launcher", "other"}, v \in {Off, Num(MaxFps)}}
    \cup
    {<<Header("c"), Comment, Entry("thread_cpu_limit", q),
       Entry("fps_limit", Num(1)), Entry("executable", Quoted("game"))>> :
         q \in {Off, Percent(1)}}

FileInit == file = <<>> /\ parts = 0

Grow == /\ parts < MaxParts
        /\ \E part \in {<<l>> : l \in Lines} \cup Rules : file' = file \o part
        /\ parts' = parts + 1

FileSpec == FileInit /\ [][Grow]_<<file, parts>>
------------------------------------------------------------------------------
Headers(f) == {k \in DOMAIN f : f[k].kind = "section"}
Closers(f) == {k \in DOMAIN f : f[k].kind \in {"section", "badsection"}}

Least(S) == CHOOSE m \in S : \A n \in S : m <= n
Most(S) == CHOOSE m \in S : \A n \in S : n <= m

\* The section a line stands in, a malformed one included; 0 before them.
Block(f, k) == Most({0} \cup {h \in Closers(f) : h <= k})

Keyed(f, h, key) ==
    {k \in DOMAIN f : /\ f[k].kind = "entry" /\ f[k].key = key
                      /\ Block(f, k) = h}

\* The value of a key in a section that has it once.
ValueIn(f, h, key) == f[Least(Keyed(f, h, key))].value

RulePriority(f, h) ==
    LET v == ValueIn(f, h, "executable") IN
    IF v.word = "quoted" THEN Priority(v.exe) ELSE -1

Complete(f, h) == /\ Keyed(f, h, "executable") # {}
                  /\ Keyed(f, h, "fps_limit") # {}

\* The best priority among the matching rules above line h, or -1.
BestAbove(f, h) ==
    LET S == {RulePriority(f, g) : g \in {x \in Headers(f) :
                                              x < h /\ Complete(f, x)}} \ {-1}
    IN  IF S = {} THEN -1 ELSE Least(S)

Usable(key, v) ==
    CASE key \in {"global_fps_limit", "fps_limit"} -> FpsOk(v)
      [] key = "hud" -> v \in {On, Off}
      [] key = "thread_cpu_limit" -> QuotaOk(v)
      [] key = "executable" -> v.word = "quoted"

KnownKeys(h) == IF h = 0 THEN {"global_fps_limit", "hud"}
                ELSE {"executable", "fps_limit", "thread_cpu_limit"}

\* What is wrong with line k on its own ("none" if nothing is).
LineFault(f, k) ==
    LET l == f[k]
        h == Block(f, k) IN
    CASE l.kind = "badsection" -> "invalid_section"
      [] l.kind = "noequals" -> "missing_equals"
      [] l.kind \in {"skip", "section"} -> "none"
      [] l.kind = "entry" ->
           IF l.key \notin KnownKeys(h) THEN "unknown_key"
           ELSE IF \E j \in Keyed(f, h, l.key) : j < k THEN "duplicate_key"
           ELSE IF Usable(l.key, l.value) THEN "none"
           ELSE IF l.key = "executable" THEN "invalid_executable"
           ELSE "invalid_value"

\* What is wrong with the rule of header h, and the line that shows it.
RuleFault(f, h) ==
    IF ~Complete(f, h) THEN "incomplete_rule"
    ELSE IF RulePriority(f, h) >= 0 /\ RulePriority(f, h) = BestAbove(f, h)
    THEN "duplicate_matching_rule" ELSE "none"

Closing(f, h) == Least({Len(f) + 1} \cup {k \in Closers(f) : k > h})

\* Faults as <<position at which they show, rank there, line, reason>>.
Faults(f) ==
    {<<k, 1, k, LineFault(f, k)>> : k \in {x \in DOMAIN f :
                                               LineFault(f, x) # "none"}}
    \cup
    {<<Closing(f, h), 0, h, RuleFault(f, h)>> : h \in {x \in Headers(f) :
                                               RuleFault(f, x) # "none"}}

FirstFault(F) ==
    CHOOSE x \in F : \A y \in F : x[1] < y[1] \/ (x[1] = y[1] /\ x[2] <= y[2])

\* The configuration of a file without faults.
Outcome(f) ==
    LET matching == {h \in Headers(f) : RulePriority(f, h) >= 0}
        hud == Keyed(f, 0, "hud")
        global == Keyed(f, 0, "global_fps_limit")
        hudValue == hud = {} \/ ValueIn(f, 0, "hud") = On
        hudSource == IF hud = {} THEN "default" ELSE "global" IN
    IF matching # {}
    THEN LET w == CHOOSE h \in matching : \A g \in matching :
                      RulePriority(f, h) <= RulePriority(f, g)
             quota == Keyed(f, w, "thread_cpu_limit")
             fps == FpsOf(ValueIn(f, w, "fps_limit")) IN
         [status |-> "valid",
          reason |-> IF fps = 0 THEN "explicitly_off" ELSE "none",
          line |-> 0, fps |-> fps, fpsSource |-> "per_game",
          hud |-> hudValue, hudSource |-> hudSource,
          quota |-> IF quota = {} THEN 0
                    ELSE QuotaOf(ValueIn(f, w, "thread_cpu_limit")),
          quotaSource |-> IF quota = {} THEN "default" ELSE "per_game",
          section |-> IF Reporting THEN f[w].name ELSE "",
          match |-> IF Reporting THEN ValueIn(f, w, "executable").exe ELSE ""]
    ELSE LET off == global # {} /\ ValueIn(f, 0, "global_fps_limit") = Off IN
         [status |-> "valid",
          reason |-> IF off THEN "explicitly_off"
                     ELSE IF Headers(f) # {} THEN "no_executable_match"
                     ELSE "no_per_game_rules",
          line |-> 0,
          fps |-> IF global = {} THEN 0
                  ELSE FpsOf(ValueIn(f, 0, "global_fps_limit")),
          fpsSource |-> IF global = {} THEN "default" ELSE "global",
          hud |-> hudValue, hudSource |-> hudSource, quota |-> 0,
          quotaSource |-> "default", section |-> "", match |-> ""]

Reference(f) ==
    LET bytes == {k \in DOMAIN f : f[k] = BadByte} IN
    IF bytes # {} THEN Failed("malformed", "invalid_byte", Least(bytes))
    ELSE IF Faults(f) = {} THEN Outcome(f)
    ELSE Failed("malformed", FirstFault(Faults(f))[4],
                FirstFault(Faults(f))[3])

\* pacer_limit.c:521-730: one pass over the lines finds the first fault of
\* the file, with its line, or the rule with the best priority: the rule the
\* file as a whole selects, wherever its section stands.
ParseIsReference == parse_limit(file) = Reference(file)
==============================================================================
