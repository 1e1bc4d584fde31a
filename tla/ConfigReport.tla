---------------------------- MODULE ConfigReport ----------------------------
(***************************************************************************)
(* parseFPMConfigOutput (config.go): the report of `php-fpm -tt`, line by  *)
(* line.  Log prefixes, tabs, quotes and blanks around a line are stripped *)
(* before anything is decided and are left out here: a line is a section   *)
(* header, a setting, or neither.                                          *)
(***************************************************************************)
EXTENDS Naturals, Sequences

CONSTANTS
    Pools,    \* section names other than "global"
    Keys,     \* names of settings
    Values,   \* what is written after the =, "undefined" and "" among it
    NoPool    \* a section that was never opened

ASSUME ReportAssumption ==
    "global" \notin Pools /\ "" \in Values /\ NoPool \notin [Keys -> Values]

Header(s) == [kind |-> "header", section |-> s]
Setting(k, v) == [kind |-> "setting", key |-> k, val |-> v]
Neither == [kind |-> "neither"]

Line ==
    {Header(s) : s \in Pools \cup {"global"}}
      \cup {Setting(k, v) : k \in Keys, v \in Values} \cup {Neither}

\* A map no key of which is set: a key that is absent reads as empty.
Unset == [k \in Keys |-> ""]

\* php-fpm's word for a setting that has no value.
valueOf(v) == IF v = "undefined" THEN "" ELSE v

\* Opens a pool anew each time its header comes up.
openAnew(pools, s) == [pools EXCEPT ![s] = Unset]

\* A pool's map is made the first time its header comes up.
openPool(pools, s) == IF pools[s] = NoPool THEN [pools EXCEPT ![s] = Unset] ELSE pools

\* What parseFPMConfigOutput keeps between two lines.
Config ==
    [section : Pools \cup {"global"}, global : [Keys -> Values],
     pools : [Pools -> [Keys -> Values] \cup {NoPool}]]

\* It starts in the global section, with nothing read.
nothingRead ==
    [section |-> "global", global |-> Unset, pools |-> [s \in Pools |-> NoPool]]

\* What one line does to the section being read and to what has been read.
readLine(st, line) ==
    CASE line.kind = "neither" -> st
      [] line.kind = "header" /\ line.section = "global" ->
           [st EXCEPT !.section = "global"]
      [] line.kind = "header" /\ line.section # "global" ->
           [st EXCEPT !.section = line.section,
                      !.pools = openPool(st.pools, line.section)]
      [] line.kind = "setting" /\ st.section = "global" ->
           [st EXCEPT !.global[line.key] = valueOf(line.val)]
      [] line.kind = "setting" /\ st.section # "global" ->
           [st EXCEPT !.pools[st.section][line.key] = valueOf(line.val)]

-----------------------------------------------------------------------------
(* What a report says, without reading it in order. *)

Headers(lines) == {i \in DOMAIN lines : lines[i].kind = "header"}

\* The nearest of some lines above another.
Latest(at) == CHOOSE i \in at : \A j \in at : j <= i

\* The section line i stands in: that of the nearest header above it.
SectionAt(lines, i) ==
    LET above == {h \in Headers(lines) : h < i}
    IN  IF above = {} THEN "global" ELSE lines[Latest(above)].section

\* The pools it declares.
Declared(lines) == {lines[h].section : h \in Headers(lines)} \ {"global"}

\* The lines of a section that set a key, wherever the section is continued.
Sets(lines, s, k) ==
    {i \in DOMAIN lines : /\ lines[i].kind = "setting" /\ lines[i].key = k
                          /\ SectionAt(lines, i) = s}

\* What the last of them says, "" if there is none.
Says(lines, s, k) ==
    LET at == Sets(lines, s, k)
    IN  IF at = {} THEN "" ELSE valueOf(lines[Latest(at)].val)

=============================================================================
