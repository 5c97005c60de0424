-------------------------------- MODULE Shell --------------------------------
(***************************************************************************)
(* The shell of src/MySh: the state machine of if, then, else and fi       *)
(* (controlflow.c), the table of variables (varlib.c) with its commands    *)
(* (bulitin.c), and programs that are run with the exported variables      *)
(* (mysh.c).  One step is one line.                                        *)
(***************************************************************************)
EXTENDS Naturals, Sequences

CONSTANTS
  Names,        \* names of variables
  Prefixes,     \* pairs of them, of which one is a proper prefix of the other
  Values,
  Empty, Unset, \* the empty value, and what is found for an unknown name
  Environment,  \* the names that the shell finds in its environment, in order,
  Inherited,    \* with this value
  MAXVARS       \* size of the table

NEUTRAL == "neutral"
WANT_THEN == "want_then"
THEN_BLOCK == "then_block"
ELSE_BLOCK == "else_block"

VARIABLES
  if_state, if_result,
  tab,        \* the used part of the table: name, value and global of each entry
  last,       \* the last line: was it a command, was it executed, the environment
              \* and the argument its program got; has the shell crashed
  script,     \* what the user has in mind: if, then and else of the present if ... fi
  promised    \* per name that was used: its value, was it exported

shellVars == <<if_state, if_result, tab, last, script, promised>>

Other == [command |-> FALSE, executed |-> FALSE, env |-> {}, arg |-> <<>>, crashed |-> FALSE]

(* What a line asks for behind its leading ifs.  A program stands also for *)
(* set, for an export without a proper name, and for an assignment to what *)
(* is not a name, which is taken for a program and fails.                  *)
Commands ==
  [kind : {"run"}, ok : BOOLEAN, arg : Names]
    \cup [kind : {"assign"}, name : Names, value : Values]
    \cup [kind : {"export"}, name : Names]

Controls == {"then", "else", "fi"}

(* setup(): VLenviron2table().                                             *)
Init ==
  /\ if_state = NEUTRAL /\ if_result = TRUE
  /\ tab = [i \in 1..Len(Environment) |->
              [name |-> Environment[i], value |-> Inherited, global |-> TRUE]]
  /\ last = Other /\ script = <<>>
  /\ promised = [n \in {Environment[i] : i \in 1..Len(Environment)} |->
                   [value |-> Inherited, global |-> TRUE]]

-----------------------------------------------------------------------------
(* varlib.c                                                                *)

(* The comparison in find_item() stops at the end of the name looked for.  *)
Matches(i, name) == tab[i].name = name \/ <<name, tab[i].name>> \in Prefixes

(* find_item(): the first entry that matches, 0 if there is none.          *)
find_item(name) ==
  LET found == {i \in 1..Len(tab) : Matches(i, name)}
  IN IF found = {} THEN 0 ELSE CHOOSE i \in found : \A j \in found : i <= j

(* Faulty variant: an entry that is assigned again loses its global.       *)
StoredLocal(name, value) ==
  LET i == find_item(name)
  IN IF i # 0 THEN [tab EXCEPT ![i] = [name |-> name, value |-> value, global |-> FALSE]]
     ELSE IF Len(tab) < MAXVARS
       THEN Append(tab, [name |-> name, value |-> value, global |-> FALSE])
     ELSE tab

(* VLstore(): the table with the entry found overwritten, or a new one if  *)
(* there is room.                                                          *)
Stored(name, value) ==
  LET i == find_item(name)
  IN IF i # 0 THEN [tab EXCEPT ![i].name = name, ![i].value = value]
     ELSE IF Len(tab) < MAXVARS
       THEN Append(tab, [name |-> name, value |-> value, global |-> FALSE])
     ELSE tab

HasRoom(name) == find_item(name) # 0 \/ Len(tab) < MAXVARS

(* VLlookup(): of an entry with a longer name the rest of its text.        *)
VLlookup(name) ==
  LET i == find_item(name)
  IN IF i = 0 THEN Unset ELSE IF tab[i].name = name THEN tab[i].value ELSE tab[i].name

VLtable2environ ==
  {<<tab[i].name, tab[i].value>> : i \in {j \in 1..Len(tab) : tab[j].global}}

-----------------------------------------------------------------------------
(* Commands.  Each says whether it succeeds.                               *)

Promise(name, value, global) ==
  promised' = [n \in DOMAIN promised \cup {name} |->
                 IF n = name THEN [value |-> value, global |-> global] ELSE promised[n]]

IsGlobal(name) == name \in DOMAIN promised /\ promised[name].global

(* execute(): the child gets the exported variables, and values for $.     *)
Run(c, ok) ==
  /\ c.kind = "run" /\ ok = c.ok
  /\ last' = [Other EXCEPT !.command = TRUE, !.executed = TRUE, !.env = VLtable2environ,
                           !.arg = <<c.arg, VLlookup(c.arg)>>]
  /\ UNCHANGED <<tab, promised>>

Executed == last' = [Other EXCEPT !.command = TRUE, !.executed = TRUE]

(* assign()                                                                *)
Assign(c, ok) ==
  /\ c.kind = "assign" /\ ok = HasRoom(c.name)
  /\ tab' = Stored(c.name, c.value) /\ Executed
  /\ IF ok THEN Promise(c.name, c.value, IsGlobal(c.name)) ELSE UNCHANGED promised

(* VLexport(): a name that is not in the table is stored without a value,  *)
(* is not exported and the command fails; if the table is full, VLexport() *)
(* calls itself without end.                                               *)
Export(c, ok) ==
  /\ c.kind = "export"
  /\ LET i == find_item(c.name)
     IN \/ /\ i # 0 /\ ok /\ Executed
           /\ tab' = [tab EXCEPT ![i].global = TRUE]
           /\ Promise(c.name, IF c.name \in DOMAIN promised
                                THEN promised[c.name].value ELSE Unset, TRUE)
        \/ /\ i = 0 /\ HasRoom(c.name) /\ ~ok /\ Executed
           /\ tab' = Stored(c.name, Empty)
           /\ Promise(c.name, Empty, FALSE)
        \/ /\ ~HasRoom(c.name) /\ ~ok
           /\ last' = [Other EXCEPT !.command = TRUE, !.crashed = TRUE]
           /\ UNCHANGED <<tab, promised>>

Perform(c, ok) == Run(c, ok) \/ Assign(c, ok) \/ Export(c, ok)

-----------------------------------------------------------------------------
(* What the user means: a script of if c, then, commands, else, commands,  *)
(* fi.  Anything else breaks it.                                           *)
Broken == <<"broken">>
Condition(ok) == IF ok THEN "if true" ELSE "if false"
Among(line, s) == \E i \in 1..Len(s) : s[i] = line

Fits(line) ==
  \/ line = "then" /\ Len(script) = 1
  \/ line = "else" /\ Len(script) > 1 /\ ~Among("else", script)
  \/ line = "fi" /\ Len(script) > 1

Continue(line) ==
  script' = IF script = Broken \/ ~Fits(line) THEN Broken
            ELSE IF line = "fi" THEN <<>> ELSE Append(script, line)

WriteCommand == script' = IF Len(script) = 1 THEN Broken ELSE script

-----------------------------------------------------------------------------
(* controlflow.c                                                           *)

Calm == ~last.crashed

syn_err == if_state' = NEUTRAL /\ UNCHANGED if_result

Nothing == last' = Other /\ UNCHANGED <<tab, promised>>

(* if, with a command as its condition.                                    *)
IfCommand(c) ==
  /\ Calm /\ if_state = NEUTRAL
  /\ \E ok \in BOOLEAN :
       /\ Perform(c, ok)
       /\ if_state' = WANT_THEN /\ if_result' = ok
       /\ script' = IF script = <<>> THEN <<Condition(ok)>> ELSE Broken

(* Two ifs: the inner one succeeds, whatever its condition says.           *)
IfIfCommand(c) ==
  /\ Calm /\ if_state = NEUTRAL
  /\ \E ok \in BOOLEAN : Perform(c, ok)
  /\ if_state' = WANT_THEN /\ if_result' = TRUE /\ script' = Broken

(* if alone succeeds; if with then, else or fi is a syntax error inside,   *)
(* which fails.                                                            *)
IfOther ==
  /\ Calm /\ if_state = NEUTRAL
  /\ if_state' = WANT_THEN /\ if_result' \in BOOLEAN /\ script' = Broken /\ Nothing

IfUnexpected ==
  /\ Calm /\ if_state # NEUTRAL
  /\ syn_err /\ script' = Broken /\ Nothing

(* Where then, else and fi lead; a syntax error leads to NEUTRAL as well.  *)
NextState(line) ==
  CASE line = "then" /\ if_state = WANT_THEN -> THEN_BLOCK
    [] line = "else" /\ if_state = THEN_BLOCK -> ELSE_BLOCK
    [] OTHER -> NEUTRAL

Control(line) ==
  /\ Calm
  /\ if_state' = NextState(line) /\ UNCHANGED if_result
  /\ Continue(line) /\ Nothing

(* Faulty variant: the else part is not looked at.                         *)
SkippedThen == if_state = THEN_BLOCK /\ ~if_result

(* process() and ok_to_execute(): a command is executed, skipped, or an    *)
(* error where then is expected.                                           *)
Skipped == (if_state = THEN_BLOCK /\ ~if_result) \/ (if_state = ELSE_BLOCK /\ if_result)

Command(c) ==
  /\ Calm /\ WriteCommand
  /\ \/ /\ if_state # WANT_THEN /\ ~Skipped
        /\ \E ok \in BOOLEAN : Perform(c, ok)
        /\ UNCHANGED <<if_state, if_result>>
     \/ /\ if_state # WANT_THEN /\ Skipped
        /\ last' = [Other EXCEPT !.command = TRUE]
        /\ UNCHANGED <<if_state, if_result, tab, promised>>
     \/ /\ if_state = WANT_THEN /\ syn_err
        /\ last' = [Other EXCEPT !.command = TRUE]
        /\ UNCHANGED <<tab, promised>>

Next ==
  \/ \E c \in Commands : IfCommand(c) \/ IfIfCommand(c) \/ Command(c)
  \/ IfOther \/ IfUnexpected
  \/ \E line \in Controls : Control(line)

ShellSpec == Init /\ [][Next]_shellVars

-----------------------------------------------------------------------------
(* While the script is well formed, a command is executed exactly where    *)
(* the script says so: outside of if, in the then part of a condition that *)
(* held, in the else part of one that did not; and between two scripts the *)
(* shell has forgotten the last one.                                       *)
RightBranchRuns ==
  script # Broken /\ ~last.crashed =>
    /\ last.command /\ Len(script) # 1 =>
         last.executed = (script = <<>> \/ script[1] = Condition(~Among("else", script)))
    /\ script = <<>> <=> if_state = NEUTRAL

PrefixFree == \A n, m \in DOMAIN promised : <<n, m>> \notin Prefixes

(* The table is a store of names and values, as long as no name that was   *)
(* used is a prefix of another: every name has the value it was given      *)
(* last, a program gets that value for $name and the environment of what   *)
(* was exported, and nothing is stored twice.                              *)
VariablesHold ==
  PrefixFree =>
    /\ {tab[i].name : i \in 1..Len(tab)} = DOMAIN promised
    /\ Len(tab) <= MAXVARS
    /\ \A i, j \in 1..Len(tab) : tab[i].name = tab[j].name => i = j
    /\ \A n \in DOMAIN promised : VLlookup(n) = promised[n].value
    /\ VLtable2environ = {<<n, promised[n].value>> : n \in {m \in DOMAIN promised : promised[m].global}}
=============================================================================
